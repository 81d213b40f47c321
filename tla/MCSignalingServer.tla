-------------------------- MODULE MCSignalingServer --------------------------
(* Small instances of SignalingServer for TLC. *)
EXTENDS SignalingServer, FiniteSetsExt, TLC

\* Connections are interchangeable.
Symmetry == Permutations(Peers)

UnderWay(p) == Len(outbox[p]["socket"]) + Len(outbox[p]["receive"]) + Len(chan[p])

\* Bound: messages under way fill one channel and one more waits.
FewUnderWay == MapThenSumSet(UnderWay, Peers) <= Capacity + 1
=============================================================================
