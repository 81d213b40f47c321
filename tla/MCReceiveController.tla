------------------------- MODULE MCReceiveController -------------------------
(* Small instances of ReceiveController for TLC. *)
EXTENDS ReceiveController, TLC

\* Files and upload handlers are interchangeable; peers are not (their settings
\* differ), and prepare requests double as session ids of equal standing.
Symmetry == Permutations(Files) \cup Permutations(Uploads) \cup Permutations(Prepares)
=============================================================================
