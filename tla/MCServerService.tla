--------------------------- MODULE MCServerService ---------------------------
(* Small instances of ServerService for TLC. *)
EXTENDS ServerService

CONSTANTS p1, p2, r1, r2, u1, u2, a1, a2, b1, b2, b3

Kind(peers, prepares, uploads, addresses, requests) ==
    [peers |-> peers, prepares |-> prepares, uploads |-> uploads, addresses |-> addresses,
     requests |-> requests]

\* Of a peer whose files are accepted without a question, a transfer of two
\* uploads, two transfers, and one transfer beside two requests of a browser; a
\* transfer the user is asked about; two browsers; and one that asks three times.
BoundsValue ==
    {Kind({p1}, {r1}, {u1, u2}, {}, {}), Kind({p1}, {r1, r2}, {u1}, {}, {}),
     Kind({p1}, {r1}, {u1}, {a1}, {b1, b2}), Kind({p2}, {r1}, {u1}, {}, {}),
     Kind({}, {}, {}, {a1, a2}, {b1, b2}), Kind({}, {}, {}, {a1}, {b1, b2, b3})}
=============================================================================
