--------------------------- MODULE MCSendProvider ---------------------------
(* Small instances of SendProvider for TLC. *)
EXTENDS SendProvider, TLC
=============================================================================
