------------------------------ MODULE MCHttpV3 ------------------------------
(* Small instances of HttpV3 for TLC. *)
EXTENDS HttpV3, TLC

\* Calls are interchangeable, and so are servers of one kind, and clients that
\* share an address or that do not.
Symmetry ==
    UNION {Permutations(S) : S \in {Calls, Tls, Servers \ Tls, SharedIp, Clients \ SharedIp}}
=============================================================================
