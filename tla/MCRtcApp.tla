------------------------------ MODULE MCRtcApp ------------------------------
(* Small instances of RtcApp for TLC. *)
EXTENDS RtcApp, TLC
=============================================================================
