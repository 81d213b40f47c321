----------------------------- MODULE FileTransfer -----------------------------
(***************************************************************************)
(* What a transfer over a WebRTC connection promises, whatever the         *)
(* handshake, the PINs and the network do: the receiver selects files      *)
(* once, only selected files are sent, only sent files are received, and   *)
(* nothing of this is taken back.  RtcTransfer implements it.              *)
(***************************************************************************)
CONSTANT Files      \* the files offered

VARIABLES
    selection,      \* the files the receiver has selected
    sent,           \* the files that were sent
    received        \* the files whose data went to the receiver's application

vars == <<selection, sent, received>>

Init ==
    /\ selection = {}
    /\ sent = {}
    /\ received = {}

\* The selection is made once (an empty one changes nothing).
Select(files) ==
    /\ selection = {} /\ sent = {}
    /\ selection' = files
    /\ UNCHANGED <<sent, received>>

\* A file is sent once.
Send(f) ==
    /\ f \in selection \ sent
    /\ sent' = sent \cup {f}
    /\ UNCHANGED <<selection, received>>

Receive(f) ==
    /\ f \in sent
    /\ received' = received \cup {f}
    /\ UNCHANGED <<selection, sent>>

Next ==
    \/ \E files \in SUBSET Files : Select(files)
    \/ \E f \in Files : Send(f) \/ Receive(f)

Spec == Init /\ [][Next]_vars
=============================================================================
