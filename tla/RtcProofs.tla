------------------------------- MODULE RtcProofs -------------------------------
(***************************************************************************)
(* Proofs about RtcTransfer and RtcApp, for every set of files and number  *)
(* of tries: type correctness, the refinement of FileTransfer, the         *)
(* dialogue (consent to the files, no mutual wait, every message           *)
(* understood, and results only for files that were received), and then    *)
(* that with its applications a transfer still does what RtcTransfer does. *)
(*                                                                         *)
(* Until the selection is made the two tasks take turns: there is at most  *)
(* one message under way, and the places of the two tasks tell which.      *)
(***************************************************************************)
EXTENDS RtcApp, SequenceTheorems, TLAPS

\* Messages to the receiver about no other file than these.
About(files) == {m \in ToReceiver : m.type \in {"header", "data"} => m.file \in files}

\* Messages to the sender without a selection, and with none but this one.
Unselected == {m \in ToSender : m.type # "selection"}
Selecting(files) == {m \in ToSender : m.type = "selection" => m.files = files}

\* Where the receiver may have selected files, and the sender sent some.
Chosen == {"files"} \cup Ends
Sending == {"files", "last"} \cup Ends

\* The selection travels unchanged from the receiver to the sender, whose files
\* are part of it, and these are all that the channel and the receiver know of.
SelectionInv ==
    /\ toR \in Seq(About(snd.sent))
    /\ toS \in Seq(Selecting(rcv.selection))
    /\ rcv.pc \notin Chosen => rcv.selection = {} /\ toS \in Seq(Unselected)
    /\ snd.tokens \subseteq rcv.selection
    /\ snd.sent \subseteq snd.tokens
    /\ snd.pc \notin Sending => snd.sent = {}
    /\ rcv.current \in snd.sent \cup {None}
    /\ rcv.bodies \subseteq snd.sent

Inv == TypeOK /\ SelectionInv

-----------------------------------------------------------------------------
(* Messages. *)

\* What is left of a sequence of messages are messages of the same kind.
LEMMA CutType ==
    ASSUME NEW S, NEW q \in Seq(S), NEW n \in Nat, NEW r \in Cut(q, n)
    PROVE  r \in Seq(S)
<1>1. PICK k \in n..Len(q) : r = SubSeq(q, 1, k)
  BY DEF Cut
<1>2. Len(q) \in Nat /\ k \in Int /\ k <= Len(q)
  BY LenProperties
<1>3. \A i \in 1..k : q[i] \in S
  BY <1>2, ElementOfSeq
<1> QED
  BY <1>1, <1>2, <1>3, SubSeqProperties

\* Messages that are appended, or taken, leave messages of the same kind.
LEMMA Appended ==
    ASSUME NEW S, NEW q \in Seq(S), NEW out \in Seq(S)
    PROVE  q \o out \in Seq(S)
  OBVIOUS

LEMMA Taken ==
    ASSUME NEW S, NEW q \in Seq(S), q # <<>>
    PROVE  Head(q) \in S /\ Tail(q) \in Seq(S)
  OBVIOUS

\* The messages without a file are about any set of files.
LEMMA PlainToReceiver ==
    /\ \A t \in {"nonce", "token", "pinRequired", "tooMany", "list", "delimiter"} :
         \A files : Plain(t) \in About(files)
    /\ \A right \in BOOLEAN : \A files : Pin(right) \in About(files)
  BY DEF About, ToReceiver, Plain, Pin

LEMMA PlainToSender ==
    /\ \A t \in {"nonce", "tokenOk", "tokenPin", "invalid", "pinOk", "pinRequired",
                 "tooMany", "declined"} : Plain(t) \in Unselected
    /\ \A right \in BOOLEAN : Pin(right) \in Unselected
    /\ \A f \in Files, ok \in BOOLEAN :
         [type |-> "result", ok |-> ok, file |-> f] \in Unselected
  BY DEF Unselected, ToSender, Plain, Pin

LEMMA MessageSets ==
    /\ \A S : About(S) \subseteq ToReceiver
    /\ \A S : Selecting(S) \subseteq ToSender
    /\ \A S : Unselected \subseteq Selecting(S)
    /\ \A S, T : S \subseteq T => About(S) \subseteq About(T)
  BY DEF About, Selecting, Unselected

-----------------------------------------------------------------------------
(* The steps that leave the selection, the files sent and their data alone. *)

\* What is promised does not change.
Kept == rcv'.selection = rcv.selection /\ snd'.sent = snd.sent /\ rcv'.bodies = rcv.bodies

\* The messages a step leaves to the receiver, and to the sender.
LEMMA ToReceiverKept ==
    ASSUME NEW files, toR \in Seq(About(files)),
           toR' = toR \/ (toR # <<>> /\ toR' = Tail(toR))
    PROVE  toR' \in Seq(About(files))
  BY Taken

LEMMA ToSenderKept ==
    ASSUME NEW S, toS \in Seq(S), toS' = toS \/ (toS # <<>> /\ toS' = Tail(toS))
    PROVE  toS' \in Seq(S)
  BY Taken

\* The type of the messages is part of what is known of them.
LEMMA MessageTypes ==
    ASSUME NEW files, NEW selection
    PROVE  /\ \A q \in Seq(About(files)) : q \in Seq(ToReceiver)
           /\ \A q \in Seq(Selecting(selection)) : q \in Seq(ToSender)
           /\ \A q \in Seq(Unselected) : q \in Seq(Selecting(selection))
           /\ \A q \in Seq(About({})) : q \in Seq(About(files))
  BY MessageSets, SeqMonotonic

\* A step of the sender's task that takes at most one message and sends none
\* about files.
LEMMA SenderSends ==
    ASSUME Inv, NEW new \in Sender, NEW out \in Seq(About({})), Sends(new, out),
           new.sent = snd.sent, new.tokens = snd.tokens,
           snd.pc \in Sending => new.pc \in Sending,
           rcv' = rcv, toS' = toS \/ (toS # <<>> /\ toS' = Tail(toS))
    PROVE  Inv' /\ Kept
<1>1. /\ toS' \in Seq(Selecting(rcv.selection))
      /\ rcv.pc \notin Chosen => toS' \in Seq(Unselected)
  BY ToSenderKept DEF Inv, SelectionInv
<1>2. toR \in Seq(About(snd.sent)) /\ out \in Seq(About(snd.sent))
  BY MessageTypes DEF Inv, SelectionInv
<1>3. toR' \in Seq(About(snd.sent))
  <2>1. toR' = toR \/ toR' = toR \o out
    BY DEF Sends
  <2>2. toR \o out \in Seq(About(snd.sent))
    BY <1>2, Appended
  <2> QED
    BY <1>2, <2>1, <2>2
<1>4. snd' = new \/ snd' = [snd EXCEPT !.pc = "error"]
  BY DEF Sends
<1>5. snd \in Sender
  BY DEF Inv, TypeOK
<1>6. /\ snd' \in Sender /\ snd'.sent = snd.sent /\ snd'.tokens = snd.tokens
      /\ snd.pc \in Sending => snd'.pc \in Sending
  BY <1>4, <1>5 DEF Sender, Ends, Sending
<1>7. TypeOK'
  BY <1>1, <1>3, <1>6, MessageTypes DEF Inv, TypeOK
<1>8. SelectionInv'
  BY <1>1, <1>3, <1>6 DEF Inv, SelectionInv
<1> QED
  BY <1>6, <1>7, <1>8 DEF Inv, Kept

\* The same of the receiver's.
LEMMA ReceiverAnswers ==
    ASSUME Inv, NEW new \in Receiver, NEW out \in Seq(Unselected), Answers(new, out),
           new.selection = rcv.selection, new.bodies = rcv.bodies,
           new.current \in snd.sent \cup {None},
           rcv.pc \in Chosen => new.pc \in Chosen,
           snd' = snd, toR' = toR \/ (toR # <<>> /\ toR' = Tail(toR))
    PROVE  Inv' /\ Kept
<1>1. toR' \in Seq(About(snd.sent))
  BY ToReceiverKept DEF Inv, SelectionInv
<1>2. /\ toS \in Seq(Selecting(rcv.selection)) /\ out \in Seq(Selecting(rcv.selection))
      /\ rcv.pc \notin Chosen => toS \in Seq(Unselected)
  BY MessageTypes DEF Inv, SelectionInv
<1>3. toS' = toS \/ toS' = toS \o out
  BY DEF Answers
<1>4. toS' \in Seq(Selecting(rcv.selection))
  <2>1. toS \o out \in Seq(Selecting(rcv.selection))
    BY <1>2, Appended
  <2> QED
    BY <1>2, <1>3, <2>1
<1>5. rcv.pc \notin Chosen => toS' \in Seq(Unselected)
  <2>1. rcv.pc \notin Chosen => toS \o out \in Seq(Unselected)
    BY <1>2, Appended
  <2> QED
    BY <1>2, <1>3, <2>1
<1>6. rcv' = new \/ rcv' = [rcv EXCEPT !.pc = "error"]
  BY DEF Answers
<1>7. rcv \in Receiver /\ rcv.current \in snd.sent \cup {None}
  BY DEF Inv, TypeOK, SelectionInv
<1>8. /\ rcv' \in Receiver /\ rcv'.selection = rcv.selection /\ rcv'.bodies = rcv.bodies
      /\ rcv'.current \in snd.sent \cup {None}
      /\ rcv.pc \in Chosen => rcv'.pc \in Chosen
  BY <1>6, <1>7 DEF Receiver, Ends, Chosen
<1>9. TypeOK'
  BY <1>1, <1>4, <1>8, MessageTypes DEF Inv, TypeOK
<1>10. SelectionInv'
  BY <1>1, <1>4, <1>5, <1>8 DEF Inv, SelectionInv
<1> QED
  BY <1>8, <1>9, <1>10 DEF Inv, Kept

-----------------------------------------------------------------------------
(* The steps of the sender's task. *)

\* Where the sender's task can be.
SenderPlaces ==
    {"open", "nonce", "token", "askPin", "pinResult", "verify", "list", "files", "last",
     "done", "error"}

\* One message, or none, as a sequence.
LEMMA OneMessage ==
    ASSUME NEW S
    PROVE  <<>> \in Seq(S) /\ \A m \in S : <<m>> \in Seq(S)
  OBVIOUS

\* A step of the sender's task that changes nothing but its place.
LEMMA SenderMoves ==
    ASSUME Inv, NEW pc \in SenderPlaces, NEW out \in Seq(About({})),
           Sends([snd EXCEPT !.pc = pc], out),
           snd.pc \in Sending => pc \in Sending,
           rcv' = rcv, toS' = toS \/ (toS # <<>> /\ toS' = Tail(toS))
    PROVE  Inv' /\ Kept
<1> DEFINE new == [snd EXCEPT !.pc = pc]
<1>1. snd \in Sender
  BY DEF Inv, TypeOK
<1>2. new \in Sender /\ new.sent = snd.sent /\ new.tokens = snd.tokens /\ new.pc = pc
  BY <1>1 DEF Sender, SenderPlaces, Ends
<1> HIDE DEF new
<1> QED
  BY <1>2, SenderSends DEF new

LEMMA StepSendNonce ==
    ASSUME Inv, SendNonce
    PROVE  Inv' /\ Kept
<1>1. <<Plain("nonce")>> \in Seq(About({}))
  BY PlainToReceiver, OneMessage
<1> QED
  BY <1>1, SenderMoves DEF SendNonce, SenderPlaces, Sending, Ends

LEMMA StepSendToken ==
    ASSUME Inv, SendToken
    PROVE  Inv' /\ Kept
<1>1. <<Plain("token")>> \in Seq(About({}))
  BY PlainToReceiver, OneMessage
<1> QED
  BY <1>1, SenderMoves DEF SendToken, SenderGets, SenderPlaces, Sending, Ends

\* Before the files, the sender asks for its PIN or offers them.
LEMMA StepChallenge ==
    ASSUME Inv, Challenge, snd.pc \notin Sending,
           rcv' = rcv, toS' = toS \/ (toS # <<>> /\ toS' = Tail(toS))
    PROVE  Inv' /\ Kept
<1>1. <<Plain("pinRequired")>> \in Seq(About({})) /\ <<Plain("list")>> \in Seq(About({}))
  BY PlainToReceiver, OneMessage
<1>2. CASE snd.pin
  BY <1>1, <1>2, SenderMoves DEF Challenge, SenderPlaces
<1>3. CASE ~ snd.pin
  BY <1>1, <1>3, SenderMoves DEF Challenge, SenderPlaces
<1> QED
  BY <1>2, <1>3

LEMMA StepTokenResponse ==
    ASSUME Inv, NEW valid \in BOOLEAN, TokenResponse(valid)
    PROVE  Inv' /\ Kept
<1>1. snd.pc \notin Sending /\ rcv' = rcv /\ toS # <<>> /\ toS' = Tail(toS)
  BY DEF TokenResponse, SenderGets, Sending, Ends
<1>2. <<>> \in Seq(About({}))
  BY OneMessage
<1>3. CASE Sends([snd EXCEPT !.pc = "error"], <<>>)
  BY <1>1, <1>2, <1>3, SenderMoves DEF SenderPlaces
<1>4. CASE Sends([snd EXCEPT !.pc = "askPin"], <<>>)
  BY <1>1, <1>2, <1>4, SenderMoves DEF SenderPlaces
<1>5. CASE Challenge
  BY <1>1, <1>5, StepChallenge
<1> QED
  BY <1>3, <1>4, <1>5 DEF TokenResponse

LEMMA StepSenderPin ==
    ASSUME Inv, NEW right \in BOOLEAN, SenderPin(right)
    PROVE  Inv' /\ Kept
<1> DEFINE new == [snd EXCEPT !.pc = "pinResult", !.knows = right]
<1>1. snd \in Sender
  BY DEF Inv, TypeOK
<1>2. new \in Sender /\ new.sent = snd.sent /\ new.tokens = snd.tokens
  BY <1>1 DEF Sender, Ends
<1>3. <<Pin(right)>> \in Seq(About({}))
  BY PlainToReceiver, OneMessage
<1>4. Sends(new, <<Pin(right)>>) /\ snd.pc \notin Sending /\ rcv' = rcv /\ toS' = toS
  BY DEF SenderPin, Sending, Ends
<1> HIDE DEF new
<1> QED
  BY <1>2, <1>3, <1>4, SenderSends

LEMMA StepSenderPinResult ==
    ASSUME Inv, SenderPinResult
    PROVE  Inv' /\ Kept
<1>1. /\ snd.pc \notin Sending /\ rcv' = rcv /\ toS # <<>> /\ toS' = Tail(toS)
      /\ Head(toS).type \in {"pinOk", "pinRequired", "tooMany"}
  BY DEF SenderPinResult, SenderGets, Sending, Ends
<1>2. <<>> \in Seq(About({}))
  BY OneMessage
<1>3. CASE Sends([snd EXCEPT !.pc = "error"], <<>>)
  BY <1>1, <1>2, <1>3, SenderMoves DEF SenderPlaces
<1>4. CASE Sends([snd EXCEPT !.pc = "askPin"], <<>>)
  BY <1>1, <1>2, <1>4, SenderMoves DEF SenderPlaces
<1>5. CASE Challenge
  BY <1>1, <1>5, StepChallenge
<1> QED
  BY <1>1, <1>3, <1>4, <1>5 DEF SenderPinResult

\* One more wrong PIN that is not the last is one of the tries.
LEMMA NextTry ==
    ASSUME NEW tries \in Tries, ~ Exhausted(tries)
    PROVE  tries + 1 \in Tries
  BY TriesAssumption DEF Tries, Exhausted

LEMMA StepVerifyReceiver ==
    ASSUME Inv, VerifyReceiver
    PROVE  Inv' /\ Kept
<1> DEFINE again == [snd EXCEPT !.tries = @ + 1]
<1>1. snd.pc \notin Sending /\ rcv' = rcv /\ toS # <<>> /\ toS' = Tail(toS)
  BY DEF VerifyReceiver, SenderGets, Sending, Ends
<1>2. /\ <<Plain("list")>> \in Seq(About({})) /\ <<Plain("tooMany")>> \in Seq(About({}))
      /\ <<Plain("pinRequired")>> \in Seq(About({}))
  BY PlainToReceiver, OneMessage
<1>3. CASE Sends([snd EXCEPT !.pc = "list"], <<Plain("list")>>)
  BY <1>1, <1>2, <1>3, SenderMoves DEF SenderPlaces
<1>4. CASE Sends([snd EXCEPT !.pc = "error"], <<Plain("tooMany")>>)
  BY <1>1, <1>2, <1>4, SenderMoves DEF SenderPlaces
<1>5. CASE ~ Exhausted(snd.tries) /\ Sends(again, <<Plain("pinRequired")>>)
  <2>1. snd \in Sender
    BY DEF Inv, TypeOK
  <2>2. snd.tries \in Tries
    BY <2>1 DEF Sender
  <2>3. snd.tries + 1 \in Tries
    BY <1>5, <2>2, NextTry
  <2>4. again \in Sender /\ again.sent = snd.sent /\ again.tokens = snd.tokens
    BY <2>1, <2>3 DEF Sender
  <2> HIDE DEF again
  <2> QED
    BY <1>1, <1>2, <1>5, <2>4, SenderSends
<1> QED
  BY <1>3, <1>4, <1>5 DEF VerifyReceiver, Verdict

\* The selection reaches the sender.
LEMMA StepListResponse ==
    ASSUME Inv, ListResponse
    PROVE  Inv' /\ Kept
<1>1. /\ snd.pc \notin Sending /\ rcv' = rcv /\ toS # <<>> /\ toS' = Tail(toS)
      /\ Head(toS).type \in {"selection", "declined"}
  BY DEF ListResponse, SenderGets, Sending, Ends
<1>2. <<>> \in Seq(About({}))
  BY OneMessage
<1>3. CASE Sends([snd EXCEPT !.pc = "done"], <<>>)
  BY <1>1, <1>2, <1>3, SenderMoves DEF SenderPlaces
<1>4. CASE /\ Head(toS).type = "selection"
           /\ Sends([snd EXCEPT !.pc = "files", !.tokens = Head(toS).files], <<>>)
  <2> DEFINE new == [snd EXCEPT !.pc = "files", !.tokens = Head(toS).files]
  <2>1. snd \in Sender /\ rcv \in Receiver /\ snd.sent = {}
    BY <1>1 DEF Inv, TypeOK, SelectionInv
  <2>2. Head(toS) \in Selecting(rcv.selection)
    BY <1>1, Taken DEF Inv, SelectionInv
  <2>3. Head(toS).files = rcv.selection
    BY <1>4, <2>2 DEF Selecting
  <2>4. rcv.pc \in Chosen
    BY <1>1, <1>4, Taken DEF Inv, SelectionInv, Unselected
  <2>5. rcv.selection \subseteq Files
    BY <2>1 DEF Receiver
  <2>6. new \in Sender /\ new.sent = {} /\ new.tokens = rcv.selection
    BY <2>1, <2>3, <2>5 DEF Sender
  <2>7. toR \in Seq(About(snd.sent))
    BY DEF Inv, SelectionInv
  <2>8. snd' = new /\ toR' \in Seq(About(snd.sent))
    BY <1>4, <2>7, OneMessage, Appended DEF Sends
  <2>9. toS' \in Seq(Selecting(rcv.selection))
    BY <1>1, Taken DEF Inv, SelectionInv
  <2> HIDE DEF new
  <2>10. TypeOK'
    BY <1>1, <2>1, <2>6, <2>8, <2>9, MessageTypes DEF TypeOK
  <2>11. SelectionInv'
    BY <1>1, <2>1, <2>4, <2>6, <2>8, <2>9 DEF Inv, SelectionInv
  <2> QED
    BY <1>1, <2>1, <2>6, <2>8, <2>10, <2>11 DEF Inv, Kept
<1> QED
  BY <1>1, <1>3, <1>4 DEF ListResponse

\* A selected file is sent, unless the channel is closed.
LEMMA StepSendFile ==
    ASSUME Inv, NEW f \in Files, SendFile(f)
    PROVE  Inv' /\ (Kept \/ Transfer!Send(f))
<1> DEFINE new == [snd EXCEPT !.sent = @ \cup {f}]
           header == [type |-> "header", file |-> f]
           data == [type |-> "data", file |-> f]
<1>1. /\ snd.pc = "files" /\ f \in snd.tokens \ snd.sent
      /\ rcv' = rcv /\ toS' = toS /\ Sends(new, <<header, data>>)
  BY DEF SendFile
<1>2. snd \in Sender
  BY DEF Inv, TypeOK
<1>3. /\ new \in Sender /\ new.sent = snd.sent \cup {f} /\ new.tokens = snd.tokens
      /\ new.pc = "files"
  BY <1>1, <1>2 DEF Sender
<1>4. header \in About(new.sent) /\ data \in About(new.sent)
  BY <1>3 DEF About, ToReceiver
<1> HIDE DEF new, header, data
<1>5. CASE snd' = [snd EXCEPT !.pc = "error"] /\ toR' = toR
  <2>1. /\ snd' \in Sender /\ snd'.sent = snd.sent /\ snd'.tokens = snd.tokens
        /\ snd'.pc = "error"
    BY <1>2, <1>5 DEF Sender, Ends
  <2>2. TypeOK'
    BY <1>1, <1>5, <2>1 DEF Inv, TypeOK
  <2>3. SelectionInv'
    BY <1>1, <1>5, <2>1 DEF Inv, SelectionInv, Sending, Ends
  <2> QED
    BY <1>1, <2>1, <2>2, <2>3 DEF Inv, Kept
<1>6. CASE snd' = new /\ (toR' = toR \/ toR' = toR \o <<header, data>>)
  <2>1. toR \in Seq(About(new.sent))
    <3>1. About(snd.sent) \subseteq About(new.sent)
      BY <1>3, MessageSets
    <3> QED
      BY <3>1, SeqMonotonic DEF Inv, SelectionInv
  <2>2. <<header, data>> \in Seq(About(new.sent))
    BY <1>4
  <2>3. toR \o <<header, data>> \in Seq(About(new.sent))
    BY <2>1, <2>2, Appended
  <2>4. toR' \in Seq(About(new.sent)) /\ toR' \in Seq(ToReceiver)
    BY <1>6, <2>1, <2>3, MessageTypes
  <2>5. TypeOK'
    BY <1>1, <1>3, <1>6, <2>4 DEF Inv, TypeOK
  <2>6. SelectionInv'
    BY <1>1, <1>3, <1>6, <2>4 DEF Inv, SelectionInv, Sending
  <2>7. Transfer!Send(f)
    BY <1>1, <1>3, <1>6 DEF Inv, SelectionInv, Transfer!Send
  <2> QED
    BY <2>5, <2>6, <2>7 DEF Inv
<1> QED
  BY <1>1, <1>5, <1>6 DEF Sends

LEMMA StepNoMoreFiles ==
    ASSUME Inv, NoMoreFiles
    PROVE  Inv' /\ Kept
<1>1. <<Plain("delimiter")>> \in Seq(About({}))
  BY PlainToReceiver, OneMessage
<1> QED
  BY <1>1, SenderMoves DEF NoMoreFiles, SenderPlaces, Sending

LEMMA StepLastResponse ==
    ASSUME Inv, LastResponse
    PROVE  Inv' /\ Kept
<1>1. <<>> \in Seq(About({}))
  BY OneMessage
<1> QED
  BY <1>1, SenderMoves DEF LastResponse, SenderPlaces, Sending, Ends

\* The sender's task implements the sending of files.
LEMMA StepSenderTask ==
    ASSUME Inv, SenderTask
    PROVE  Inv' /\ (Kept \/ \E f \in Files : Transfer!Send(f))
BY StepSendNonce, StepSendToken, StepTokenResponse, StepSenderPin, StepSenderPinResult,
   StepVerifyReceiver, StepListResponse, StepSendFile, StepNoMoreFiles, StepLastResponse
   DEF SenderTask

-----------------------------------------------------------------------------
(* The steps of the receiver's task. *)

\* Where the receiver's task can be.
ReceiverPlaces ==
    {"nonce", "token", "verify", "status", "askPin", "pinResult", "select", "files",
     "done", "error", "confused"}

\* A step of the receiver's task that changes nothing but its place.
LEMMA ReceiverMoves ==
    ASSUME Inv, NEW pc \in ReceiverPlaces, NEW out \in Seq(Unselected),
           Answers([rcv EXCEPT !.pc = pc], out),
           rcv.pc \in Chosen => pc \in Chosen,
           snd' = snd, toR' = toR \/ (toR # <<>> /\ toR' = Tail(toR))
    PROVE  Inv' /\ Kept
<1> DEFINE new == [rcv EXCEPT !.pc = pc]
<1>1. rcv \in Receiver /\ rcv.current \in snd.sent \cup {None}
  BY DEF Inv, TypeOK, SelectionInv
<1>2. /\ new \in Receiver /\ new.selection = rcv.selection /\ new.bodies = rcv.bodies
      /\ new.current = rcv.current /\ new.pc = pc
  BY <1>1 DEF Receiver, ReceiverPlaces, Ends
<1> HIDE DEF new
<1> QED
  BY <1>1, <1>2, ReceiverAnswers DEF new

LEMMA StepReturnNonce ==
    ASSUME Inv, ReturnNonce
    PROVE  Inv' /\ Kept
<1>1. <<Plain("nonce")>> \in Seq(Unselected)
  BY PlainToSender, OneMessage
<1> QED
  BY <1>1, ReceiverMoves DEF ReturnNonce, ReceiverGets, ReceiverPlaces, Chosen, Ends

LEMMA StepTokenRequest ==
    ASSUME Inv, NEW valid \in BOOLEAN, TokenRequest(valid)
    PROVE  Inv' /\ Kept
<1>1. rcv.pc \notin Chosen /\ snd' = snd /\ toR # <<>> /\ toR' = Tail(toR)
  BY DEF TokenRequest, ReceiverGets, Chosen, Ends
<1>2. /\ <<Plain("tokenPin")>> \in Seq(Unselected) /\ <<Plain("tokenOk")>> \in Seq(Unselected)
      /\ <<Plain("invalid")>> \in Seq(Unselected)
  BY PlainToSender, OneMessage
<1>3. CASE Answers([rcv EXCEPT !.pc = "verify"], <<Plain("tokenPin")>>)
  BY <1>1, <1>2, <1>3, ReceiverMoves DEF ReceiverPlaces
<1>4. CASE Answers([rcv EXCEPT !.pc = "status"], <<Plain("tokenOk")>>)
  BY <1>1, <1>2, <1>4, ReceiverMoves DEF ReceiverPlaces
<1>5. CASE Answers([rcv EXCEPT !.pc = "error"], <<Plain("invalid")>>)
  BY <1>1, <1>2, <1>5, ReceiverMoves DEF ReceiverPlaces
<1> QED
  BY <1>3, <1>4, <1>5 DEF TokenRequest, TokenReply

LEMMA StepVerifySender ==
    ASSUME Inv, VerifySender
    PROVE  Inv' /\ Kept
<1> DEFINE again == [rcv EXCEPT !.tries = @ + 1]
<1>1. rcv.pc \notin Chosen /\ snd' = snd /\ toR # <<>> /\ toR' = Tail(toR)
  BY DEF VerifySender, ReceiverGets, Chosen, Ends
<1>2. /\ <<Plain("pinOk")>> \in Seq(Unselected) /\ <<Plain("tooMany")>> \in Seq(Unselected)
      /\ <<Plain("pinRequired")>> \in Seq(Unselected)
  BY PlainToSender, OneMessage
<1>3. CASE Answers([rcv EXCEPT !.pc = "status"], <<Plain("pinOk")>>)
  BY <1>1, <1>2, <1>3, ReceiverMoves DEF ReceiverPlaces
<1>4. CASE Answers([rcv EXCEPT !.pc = "error"], <<Plain("tooMany")>>)
  BY <1>1, <1>2, <1>4, ReceiverMoves DEF ReceiverPlaces
<1>5. CASE ~ Exhausted(rcv.tries) /\ Answers(again, <<Plain("pinRequired")>>)
  <2>1. rcv \in Receiver /\ rcv.current \in snd.sent \cup {None}
    BY DEF Inv, TypeOK, SelectionInv
  <2>2. rcv.tries \in Tries
    BY <2>1 DEF Receiver
  <2>3. rcv.tries + 1 \in Tries
    BY <1>5, <2>2, NextTry
  <2>4. /\ again \in Receiver /\ again.selection = rcv.selection
        /\ again.bodies = rcv.bodies /\ again.current = rcv.current
    BY <2>1, <2>3 DEF Receiver
  <2> HIDE DEF again
  <2> QED
    BY <1>1, <1>2, <1>5, <2>1, <2>4, ReceiverAnswers
<1> QED
  BY <1>3, <1>4, <1>5 DEF VerifySender, Verdict

LEMMA StepSenderStatus ==
    ASSUME Inv, SenderStatus
    PROVE  Inv' /\ Kept
<1>1. /\ rcv.pc \notin Chosen /\ snd' = snd /\ toR # <<>> /\ toR' = Tail(toR)
      /\ Head(toR).type \in {"list", "pinRequired", "tooMany"}
  BY DEF SenderStatus, ReceiverGets, Chosen, Ends
<1>2. <<>> \in Seq(Unselected)
  BY OneMessage
<1> DEFINE pc == CASE Head(toR).type = "list"        -> "select"
                   [] Head(toR).type = "pinRequired" -> "askPin"
                   [] Head(toR).type = "tooMany"     -> "error"
<1>3. pc \in ReceiverPlaces
  BY <1>1 DEF ReceiverPlaces
<1>4. Answers([rcv EXCEPT !.pc = pc], <<>>)
  BY DEF SenderStatus
<1> HIDE DEF pc
<1> QED
  BY <1>1, <1>2, <1>3, <1>4, ReceiverMoves

LEMMA StepReceiverPin ==
    ASSUME Inv, NEW right \in BOOLEAN, ReceiverPin(right)
    PROVE  Inv' /\ Kept
<1> DEFINE new == [rcv EXCEPT !.pc = "pinResult", !.knows = right]
<1>1. rcv \in Receiver /\ rcv.current \in snd.sent \cup {None}
  BY DEF Inv, TypeOK, SelectionInv
<1>2. /\ new \in Receiver /\ new.selection = rcv.selection
      /\ new.bodies = rcv.bodies /\ new.current = rcv.current
  BY <1>1 DEF Receiver, Ends
<1>3. <<Pin(right)>> \in Seq(Unselected)
  BY PlainToSender, OneMessage
<1>4. /\ Answers(new, <<Pin(right)>>) /\ rcv.pc \notin Chosen
      /\ snd' = snd /\ toR' = toR
  BY DEF ReceiverPin, Chosen, Ends
<1> HIDE DEF new
<1> QED
  BY <1>1, <1>2, <1>3, <1>4, ReceiverAnswers

\* The selection is made, unless the channel is closed.
LEMMA StepSelect ==
    ASSUME Inv, NEW files \in SUBSET Files, Select(files)
    PROVE  Inv' /\ (Kept \/ Transfer!Select(files))
<1> DEFINE new == [rcv EXCEPT !.pc = "files", !.selection = files]
           answer == [type |-> "selection", files |-> files]
<1>1. /\ rcv.pc = "select" /\ snd' = snd /\ toR' = toR /\ Answers(new, <<answer>>)
  BY DEF Select
<1>2. /\ rcv \in Receiver /\ snd.tokens = {} /\ snd.sent = {} /\ rcv.selection = {}
      /\ rcv.bodies = {} /\ rcv.current = None /\ toS \in Seq(Unselected)
  BY <1>1 DEF Inv, TypeOK, SelectionInv, Chosen, Ends
<1>3. /\ new \in Receiver /\ new.selection = files /\ new.pc = "files"
      /\ new.bodies = {} /\ new.current = None
  BY <1>2 DEF Receiver
<1>4. answer \in Selecting(files)
  BY DEF Selecting, ToSender
<1> HIDE DEF new, answer
<1>5. CASE rcv' = [rcv EXCEPT !.pc = "error"] /\ toS' = toS
  <2>1. /\ rcv' \in Receiver /\ rcv'.selection = rcv.selection /\ rcv'.pc = "error"
        /\ rcv'.current = rcv.current /\ rcv'.bodies = rcv.bodies
    BY <1>2, <1>5 DEF Receiver, Ends
  <2>2. TypeOK' /\ SelectionInv'
    BY <1>1, <1>5, <2>1 DEF Inv, TypeOK, SelectionInv, Chosen, Ends
  <2> QED
    BY <1>1, <2>1, <2>2 DEF Inv, Kept
<1>6. CASE rcv' = new /\ (toS' = toS \/ toS' = toS \o <<answer>>)
  <2>1. toS \in Seq(Selecting(files))
    BY <1>2, MessageTypes
  <2>2. <<answer>> \in Seq(Selecting(files))
    BY <1>4
  <2>3. toS \o <<answer>> \in Seq(Selecting(files))
    BY <2>1, <2>2, Appended
  <2>4. toS' \in Seq(Selecting(files)) /\ toS' \in Seq(ToSender)
    BY <1>6, <2>1, <2>3, MessageTypes
  <2>5. TypeOK'
    BY <1>1, <1>3, <1>6, <2>4 DEF Inv, TypeOK
  <2>6. SelectionInv'
    BY <1>1, <1>2, <1>3, <1>6, <2>4 DEF Inv, SelectionInv, Chosen
  <2>7. Transfer!Select(files)
    BY <1>1, <1>2, <1>3, <1>6 DEF Transfer!Select
  <2> QED
    BY <2>5, <2>6, <2>7 DEF Inv
<1> QED
  BY <1>1, <1>5, <1>6 DEF Answers

LEMMA StepDecline ==
    ASSUME Inv, NEW declared \in BOOLEAN, Decline(declared)
    PROVE  Inv' /\ Kept
<1>1. <<Plain("declined")>> \in Seq(Unselected) /\ <<>> \in Seq(Unselected)
  BY PlainToSender, OneMessage
<1>2. CASE declared
  BY <1>1, <1>2, ReceiverMoves DEF Decline, ReceiverPlaces, Chosen, Ends
<1>3. CASE ~ declared
  BY <1>1, <1>3, ReceiverMoves DEF Decline, ReceiverPlaces, Chosen, Ends
<1> QED
  BY <1>2, <1>3

\* The file of the message that the receiver takes was sent.
LEMMA FileOfHead ==
    ASSUME Inv, toR # <<>>, Head(toR).type = "header"
    PROVE  Head(toR).file \in snd.sent
<1>1. Head(toR) \in About(snd.sent)
  BY Taken DEF Inv, SelectionInv
<1> QED
  BY <1>1 DEF About

\* A header that opens a file leaves a receiver.
LEMMA Begins ==
    ASSUME Inv, NEW f \in snd.sent
    PROVE  /\ Begin(f) \in Receiver /\ Begin(f).selection = rcv.selection
           /\ Begin(f).bodies = rcv.bodies /\ Begin(f).current \in snd.sent \cup {None}
           /\ Begin(f).pc = rcv.pc
<1>1. rcv \in Receiver /\ snd \in Sender
  BY DEF Inv, TypeOK
<1>2. f \in Files
  BY <1>1 DEF Sender
<1> QED
  BY <1>1, <1>2 DEF Begin, Receiver

LEMMA StepFirstHeader ==
    ASSUME Inv, FirstHeader
    PROVE  Inv' /\ Kept
<1>1. /\ snd' = snd /\ toR # <<>> /\ toR' = Tail(toR) /\ Head(toR).type = "header"
      /\ Answers(Begin(Head(toR).file), <<>>)
  BY DEF FirstHeader, ReceiverGets
<1>2. Head(toR).file \in snd.sent
  BY <1>1, FileOfHead
<1>3. <<>> \in Seq(Unselected)
  BY OneMessage
<1> QED
  BY <1>1, <1>2, <1>3, Begins, ReceiverAnswers

LEMMA StepFileEnds ==
    ASSUME Inv, FileEnds
    PROVE  Inv' /\ Kept
<1> DEFINE last == [rcv EXCEPT !.pc = "done", !.current = None, !.result = "none"]
<1>1. /\ rcv.current # None /\ rcv.pc = "files"
      /\ snd' = snd /\ toR # <<>> /\ toR' = Tail(toR)
  BY DEF FileEnds, ReceiverGets
<1>2. rcv \in Receiver /\ rcv.current \in Files
  BY <1>1 DEF Inv, TypeOK, Receiver
<1>3. <<Result>> \in Seq(Unselected)
  <2>1. Result \in Unselected
    BY <1>2 DEF Result, Unselected, ToSender
  <2> QED
    BY <2>1, OneMessage
<1>4. CASE Head(toR).type = "header" /\ Answers(Begin(Head(toR).file), <<Result>>)
  <2>1. Head(toR).file \in snd.sent
    BY <1>1, <1>4, FileOfHead
  <2> QED
    BY <1>1, <1>3, <1>4, <2>1, Begins, ReceiverAnswers
<1>5. CASE Answers(last, <<Result>>)
  <2>1. /\ last \in Receiver /\ last.selection = rcv.selection /\ last.bodies = rcv.bodies
        /\ last.current = None /\ last.pc = "done"
    BY <1>2 DEF Receiver, Ends
  <2> HIDE DEF last
  <2> QED
    BY <1>1, <1>3, <1>5, <2>1, ReceiverAnswers DEF Chosen, Ends
<1> QED
  BY <1>4, <1>5 DEF FileEnds

\* Data of a file that was sent goes to the application.
LEMMA StepFileData ==
    ASSUME Inv, NEW dropped \in BOOLEAN, FileData(dropped)
    PROVE  Inv' /\ (Kept \/ \E f \in Files : Transfer!Receive(f))
<1> DEFINE new == [rcv EXCEPT !.bodies = @ \cup {rcv.current}]
<1>1. /\ rcv.pc = "files" /\ snd' = snd /\ toR # <<>> /\ toR' = Tail(toR)
  BY DEF FileData, ReceiverGets
<1>2. /\ rcv \in Receiver /\ rcv.current \in snd.sent \cup {None}
      /\ rcv.bodies \subseteq snd.sent /\ snd.sent \subseteq Files
  BY DEF Inv, TypeOK, SelectionInv, Sender
<1>3. <<>> \in Seq(Unselected)
  BY OneMessage
<1>4. CASE Answers(rcv, <<>>)
  BY <1>1, <1>2, <1>3, <1>4, ReceiverAnswers
<1>5. CASE Answers([rcv EXCEPT !.pc = "error"], <<>>)
  BY <1>1, <1>3, <1>5, ReceiverMoves DEF ReceiverPlaces, Chosen, Ends
<1>6. CASE rcv.current # None /\ Answers(new, <<>>)
  <2>1. /\ new \in Receiver /\ new.bodies = rcv.bodies \cup {rcv.current}
        /\ new.selection = rcv.selection /\ new.current = rcv.current /\ new.pc = "files"
    BY <1>1, <1>2, <1>6 DEF Receiver
  <2> HIDE DEF new
  <2>2. toS \in Seq(Selecting(rcv.selection))
    BY DEF Inv, SelectionInv
  <2>3. rcv' = new /\ toS' \in Seq(Selecting(rcv.selection))
    BY <1>6, <2>2, OneMessage, Appended DEF Answers
  <2>4. toR' \in Seq(About(snd.sent))
    BY <1>1, ToReceiverKept DEF Inv, SelectionInv
  <2>5. TypeOK'
    BY <1>1, <2>1, <2>3, <2>4, MessageTypes DEF Inv, TypeOK
  <2>6. SelectionInv'
    BY <1>1, <1>2, <1>6, <2>1, <2>3, <2>4 DEF Inv, SelectionInv, Chosen
  <2>7. Transfer!Receive(rcv.current)
    BY <1>1, <1>2, <1>6, <2>1, <2>3 DEF Transfer!Receive
  <2> QED
    BY <1>2, <1>6, <2>5, <2>6, <2>7 DEF Inv
<1> QED
  BY <1>4, <1>5, <1>6 DEF FileData

LEMMA StepFileStatus ==
    ASSUME Inv, NEW ok \in BOOLEAN, FileStatus(ok)
    PROVE  Inv' /\ Kept
<1>1. rcv \in Receiver
  BY DEF Inv, TypeOK
<1>2. /\ rcv' \in Receiver /\ rcv'.selection = rcv.selection /\ rcv'.pc = rcv.pc
      /\ rcv'.current = rcv.current /\ rcv'.bodies = rcv.bodies
  BY <1>1 DEF FileStatus, Receiver
<1>3. snd' = snd /\ toR' = toR /\ toS' = toS
  BY DEF FileStatus
<1> QED
  BY <1>2, <1>3 DEF Inv, TypeOK, SelectionInv, Kept

LEMMA StepReceiverConfused ==
    ASSUME Inv, ReceiverConfused
    PROVE  Inv' /\ Kept
<1>1. rcv \in Receiver
  BY DEF Inv, TypeOK
<1>2. /\ rcv' \in Receiver /\ rcv'.selection = rcv.selection /\ rcv'.pc = "confused"
      /\ rcv'.current = rcv.current /\ rcv'.bodies = rcv.bodies
  BY <1>1 DEF ReceiverConfused, Receiver, Ends
<1>3. toR' \in Seq(About(snd.sent))
  BY Taken DEF Inv, SelectionInv, ReceiverConfused
<1>4. snd' = snd /\ toS' = toS
  BY DEF ReceiverConfused
<1> QED
  BY <1>2, <1>3, <1>4, MessageTypes DEF Inv, TypeOK, SelectionInv, Kept, Chosen, Ends

\* The receiver's task implements the selection and the receipt of data.
LEMMA StepReceiverTask ==
    ASSUME Inv, ReceiverTask
    PROVE  Inv' /\ \/ Kept
                   \/ \E files \in SUBSET Files : Transfer!Select(files)
                   \/ \E f \in Files : Transfer!Receive(f)
<1>1. CASE ReturnNonce \/ VerifySender \/ SenderStatus \/ FirstHeader \/ FileEnds
           \/ ReceiverConfused
  BY <1>1, StepReturnNonce, StepVerifySender, StepSenderStatus, StepFirstHeader,
     StepFileEnds, StepReceiverConfused
<1>2. ASSUME NEW b \in BOOLEAN, TokenRequest(b) \/ ReceiverPin(b) \/ Decline(b) \/ FileStatus(b)
      PROVE  Inv' /\ Kept
  BY <1>2, StepTokenRequest, StepReceiverPin, StepDecline, StepFileStatus
<1> QED
  BY <1>1, <1>2, StepSelect, StepFileData DEF ReceiverTask

-----------------------------------------------------------------------------
(* The functions and the network. *)

\* What the channel loses is lost; the sides keep all but place and outcome.
LEMMA StepRest ==
    ASSUME Inv, NoPin \/ SenderReturns \/ ReceiverReturns \/ Disconnected
    PROVE  Inv' /\ Kept
<1>1. /\ snd \in Sender /\ rcv \in Receiver
      /\ toR \in Seq(About(snd.sent)) /\ toS \in Seq(Selecting(rcv.selection))
  BY DEF Inv, TypeOK, SelectionInv
<1>2. /\ snd' \in Sender /\ snd'.sent = snd.sent /\ snd'.tokens = snd.tokens
      /\ snd.pc \in Sending => snd'.pc \in Sending
  BY <1>1 DEF NoPin, SenderReturns, ReceiverReturns, Disconnected, Sender, Outcome, Ends, Sending
<1>3. /\ rcv' \in Receiver /\ rcv'.selection = rcv.selection
      /\ rcv'.current = rcv.current /\ rcv'.bodies = rcv.bodies
      /\ rcv.pc \in Chosen => rcv'.pc \in Chosen
  BY <1>1 DEF NoPin, SenderReturns, ReceiverReturns, Disconnected, Receiver, Outcome, Ends, Chosen
<1>4. toR' \in Seq(About(snd.sent))
  <2>1. toR' = toR \/ \E n \in Nat : toR' \in Cut(toR, n)
    <3>1. toR # <<>> => Len(toR) - 1 \in Nat
      BY <1>1, EmptySeq
    <3> QED
      BY <3>1 DEF NoPin, SenderReturns, ReceiverReturns, Disconnected
  <2> QED
    BY <1>1, <2>1, CutType
<1>5. toS' = toS \/ \E n \in Nat : toS' \in Cut(toS, n)
  BY DEF NoPin, SenderReturns, ReceiverReturns, Disconnected
<1>6. /\ toS' \in Seq(Selecting(rcv.selection))
      /\ rcv.pc \notin Chosen => toS' \in Seq(Unselected)
  BY <1>5, CutType DEF Inv, SelectionInv
<1>7. TypeOK'
  BY <1>2, <1>3, <1>4, <1>6, MessageTypes DEF TypeOK
<1>8. SelectionInv'
  BY <1>2, <1>3, <1>4, <1>6 DEF Inv, SelectionInv
<1> QED
  BY <1>2, <1>3, <1>7, <1>8 DEF Inv, Kept

-----------------------------------------------------------------------------
(* The theorems. *)

LEMMA InitInv == Init => Inv
<1> SUFFICES ASSUME Init PROVE Inv
  OBVIOUS
<1>1. 0 \in Tries
  BY TriesAssumption DEF Tries
<1>2. snd \in Sender
  BY <1>1 DEF Init, Sender, Outcome
<1>3. rcv \in Receiver
  BY <1>1 DEF Init, Receiver, Outcome
<1>4. \A S : toR \in Seq(S) /\ toS \in Seq(S)
  BY OneMessage DEF Init
<1>5. snd.tokens = {} /\ snd.sent = {} /\ rcv.selection = {} /\ rcv.current = None /\ rcv.bodies = {}
  BY DEF Init
<1> QED
  BY <1>2, <1>3, <1>4, <1>5 DEF Inv, TypeOK, SelectionInv

\* Every step keeps the invariant and is one of the promised ones, or none.
LEMMA NextInv ==
    ASSUME Inv, [Next]_vars
    PROVE  Inv' /\ [Transfer!Next]_(Transfer!vars)
<1>1. CASE SenderTask
  BY <1>1, StepSenderTask DEF Kept, Transfer!Next, Transfer!vars
<1>2. CASE ReceiverTask
  BY <1>2, StepReceiverTask DEF Kept, Transfer!Next, Transfer!vars
<1>3. CASE NoPin \/ SenderReturns \/ ReceiverReturns \/ Disconnected
  BY <1>3, StepRest DEF Kept, Transfer!vars
<1>4. CASE UNCHANGED vars
  <2>1. snd' = snd /\ rcv' = rcv /\ toR' = toR /\ toS' = toS
    BY <1>4 DEF vars
  <2> QED
    BY <2>1 DEF Inv, TypeOK, SelectionInv, Transfer!vars
<1> QED
  BY <1>1, <1>2, <1>3, <1>4 DEF Next

\* The messages in the channel and the state of both tasks have their types, in
\* particular the count of wrong PINs never reaches max_tries.
THEOREM RtcTypeCorrect == Spec => []TypeOK
<1>1. Inv /\ [Next]_vars => Inv'
  BY NextInv
<1>2. Inv => TypeOK
  BY DEF Inv
<1> QED
  BY <1>1, <1>2, InitInv, PTL DEF Spec

\* The exchange of messages implements the promise of a transfer.
THEOREM RtcImplements == Spec => ImplementsFileTransfer
<1>1. Init => Transfer!Init
  BY DEF Init, Transfer!Init
<1>2. Inv /\ [Next]_vars => Inv' /\ [Transfer!Next]_(Transfer!vars)
  BY NextInv
<1> QED
  BY <1>1, <1>2, InitInv, PTL DEF Spec, ImplementsFileTransfer, Transfer!Spec

-----------------------------------------------------------------------------
(* The dialogue. *)

\* What a side that was asked for a PIN has shown.
SenderKnown == rcv.pin => snd.knows
ReceiverKnown == snd.pin => rcv.knows

\* Whose turn it is.  A message is only lost with the connection.
Silence == toR = <<>> /\ toS = <<>>
ToReceiverIs(m) == toS = <<>> /\ (toR = <<m>> \/ (toR = <<>> /\ ~Open))
ToSenderIs(m) == toR = <<>> /\ (toS = <<m>> \/ (toS = <<>> /\ ~Open))

-----------------------------------------------------------------------------
(* The turns. *)

Nonces ==
    \/ snd.pc = "open" /\ rcv.pc = "nonce" /\ Silence
    \/ snd.pc = "nonce" /\ rcv.pc = "nonce" /\ ToReceiverIs(Plain("nonce"))
    \/ snd.pc = "nonce" /\ rcv.pc = "token" /\ ToSenderIs(Plain("nonce"))

Tokens ==
    \/ snd.pc = "token" /\ rcv.pc = "token" /\ ToReceiverIs(Plain("token"))
    \/ /\ snd.pc = "token" /\ rcv.pin /\ rcv.pc = "verify"
       /\ ToSenderIs(Plain("tokenPin"))
    \/ /\ snd.pc = "token" /\ ~rcv.pin /\ rcv.pc = "status"
       /\ ToSenderIs(Plain("tokenOk"))

\* The receiver's PIN.
SenderChallenged ==
    \/ snd.pc = "askPin" /\ rcv.pc = "verify" /\ Silence
    \/ snd.pc = "pinResult" /\ rcv.pc = "verify" /\ ToReceiverIs(Pin(snd.knows))
    \/ snd.pc = "pinResult" /\ rcv.pc = "verify" /\ ToSenderIs(Plain("pinRequired"))
    \/ snd.pc = "pinResult" /\ rcv.pc = "status" /\ snd.knows /\ ToSenderIs(Plain("pinOk"))

\* The sender's PIN.
ReceiverChallenged ==
    /\ snd.pc = "verify" /\ SenderKnown
    /\ \/ rcv.pc \in {"status", "pinResult"} /\ ToReceiverIs(Plain("pinRequired"))
       \/ rcv.pc = "askPin" /\ Silence
       \/ rcv.pc = "pinResult" /\ ToSenderIs(Pin(rcv.knows))

Listed ==
    /\ snd.pc = "list" /\ SenderKnown /\ ReceiverKnown
    /\ \/ rcv.pc \in {"status", "pinResult"} /\ ToReceiverIs(Plain("list"))
       \/ rcv.pc = "select" /\ Silence
       \/ /\ rcv.pc = "files" /\ rcv.current = None
          /\ ToSenderIs([type |-> "selection", files |-> rcv.selection])

\* A side that has ended, and the last it had to say.
ReceiverGone ==
    /\ rcv.pc \in {"done", "error"} /\ toR = <<>>
    /\ \/ snd.pc \in {"nonce", "token", "pinResult", "verify", "list"} /\ toS = <<>>
       \/ snd.pc = "token" /\ toS = <<Plain("invalid")>>
       \/ snd.pc = "pinResult" /\ toS = <<Plain("tooMany")>>
       \/ snd.pc = "list" /\ toS = <<Plain("declined")>>

SenderGone ==
    /\ snd.pc \in {"done", "error"} /\ snd.sent = {} /\ toS = <<>>
    /\ \/ rcv.pc \in {"nonce", "token", "verify", "status", "pinResult", "done", "error"}
          /\ toR = <<>>
       \/ rcv.pc = "pinResult" /\ toR = <<Plain("tooMany")>>

\* The files.  Each header is followed by its data, as far as the connection
\* lasts, and the receiver that awaits a first header has said nothing.
Paired ==
    \A i \in 1..Len(toR) :
       /\ toR[i].type \in {"header", "data", "delimiter"}
       /\ toR[i].type = "header" =>
             IF i < Len(toR) THEN toR[i + 1].type = "data" ELSE ~Open

BeforeFirst ==
    rcv.pc = "files" /\ rcv.current = None =>
       /\ toS = <<>>
       /\ \/ toR = <<>> /\ (Open => snd.pc = "files" /\ snd.sent = {})
          \/ toR # <<>> /\ Head(toR).type = "header"
          \/ toR = <<Plain("delimiter")>> /\ snd.pc = "last" /\ snd.sent = {}

DataComes ==
    rcv.pc = "files" /\ rcv.current \notin {None} \cup rcv.bodies =>
       IF toR = <<>> THEN ~Open ELSE Head(toR).type = "data"

EndComes ==
    Open /\ snd.pc = "last" /\ rcv.pc = "files" =>
       \E i \in 1..Len(toR) : toR[i].type = "delimiter"

NothingEnded ==
    rcv.pc = "confused" => Silence /\ snd.pc = "last" /\ snd.sent = {}

FilesPhase ==
    /\ snd.pc \in {"files", "last", "done", "error"} /\ rcv.pc \in Chosen
    /\ SenderKnown /\ ReceiverKnown
    /\ Paired /\ BeforeFirst /\ DataComes /\ EndComes /\ NothingEnded
    /\ \A i \in 1..Len(toS) : toS[i].type = "result"

Dialogue ==
    \/ Nonces \/ Tokens \/ SenderChallenged \/ ReceiverChallenged \/ Listed
    \/ ReceiverGone \/ SenderGone \/ FilesPhase

\* Verdicts and results of success are about data the application was given.
Told(files) == {m \in ToSender : m.type = "result" /\ m.ok => m.file \in files}

Verdicts ==
    /\ rcv.result = "ok" => rcv.current \in rcv.bodies
    /\ toS \in Seq(Told(rcv.bodies))

-----------------------------------------------------------------------------
(* One message at a time. *)

LEMMA OneTaken == \A m : <<m>> # <<>> /\ Head(<<m>>) = m /\ Tail(<<m>>) = <<>>
  OBVIOUS

\* What the messages are.
LEMMA Types ==
    /\ \A t : Plain(t).type = t
    /\ \A right : Pin(right).type = "pin" /\ Pin(right).right = right
    /\ \A files : [type |-> "selection", files |-> files].type = "selection"
  BY DEF Plain, Pin

\* The sender has something to hear.
LEMMA SenderHears ==
    ASSUME Dialogue, toS # <<>>
    PROVE  /\ snd.pc = "nonce" =>
                rcv.pc = "token" /\ toR = <<>> /\ toS = <<Plain("nonce")>>
           /\ snd.pc = "token" => toR = <<>> /\
                \/ rcv.pin /\ rcv.pc = "verify" /\ toS = <<Plain("tokenPin")>>
                \/ ~rcv.pin /\ rcv.pc = "status" /\ toS = <<Plain("tokenOk")>>
                \/ rcv.pc \in {"done", "error"} /\ toS = <<Plain("invalid")>>
           /\ snd.pc = "pinResult" => toR = <<>> /\
                \/ rcv.pc = "verify" /\ toS = <<Plain("pinRequired")>>
                \/ rcv.pc = "status" /\ snd.knows /\ toS = <<Plain("pinOk")>>
                \/ rcv.pc \in {"done", "error"} /\ toS = <<Plain("tooMany")>>
           /\ snd.pc = "verify" => /\ toR = <<>> /\ rcv.pc = "pinResult" /\ SenderKnown
                                   /\ toS = <<Pin(rcv.knows)>>
           /\ snd.pc = "list" => toR = <<>> /\
                \/ /\ rcv.pc = "files" /\ rcv.current = None /\ SenderKnown /\ ReceiverKnown
                   /\ toS = <<[type |-> "selection", files |-> rcv.selection]>>
                \/ rcv.pc \in {"done", "error"} /\ toS = <<Plain("declined")>>
  BY DEF Dialogue, Nonces, Tokens, SenderChallenged, ReceiverChallenged, Listed, ReceiverGone,
         SenderGone, FilesPhase, Silence, ToReceiverIs, ToSenderIs

\* The receiver has something to hear.
LEMMA ReceiverHears ==
    ASSUME Dialogue, toR # <<>>
    PROVE  /\ rcv.pc = "nonce" =>
                snd.pc = "nonce" /\ toS = <<>> /\ toR = <<Plain("nonce")>>
           /\ rcv.pc = "token" =>
                snd.pc = "token" /\ toS = <<>> /\ toR = <<Plain("token")>>
           /\ rcv.pc = "verify" =>
                snd.pc = "pinResult" /\ toS = <<>> /\ toR = <<Pin(snd.knows)>>
           /\ rcv.pc \in {"status", "pinResult"} => toS = <<>> /\
                \/ snd.pc = "verify" /\ SenderKnown /\ toR = <<Plain("pinRequired")>>
                \/ /\ snd.pc = "list" /\ SenderKnown /\ ReceiverKnown
                   /\ toR = <<Plain("list")>>
                \/ SenderGone /\ toR = <<Plain("tooMany")>>
           /\ rcv.pc = "files" => FilesPhase
  BY DEF Dialogue, Nonces, Tokens, SenderChallenged, ReceiverChallenged, Listed, ReceiverGone,
         SenderGone, FilesPhase, Silence, ToReceiverIs, ToSenderIs, Chosen, Ends

\* The sender says one message, or goes on without a word, when nothing is under way.
LEMMA SenderSays ==
    ASSUME snd \in Sender, NEW new \in Sender, new.outcome = snd.outcome, NEW m,
           Sends(new, <<m>>), toR = <<>>, rcv' = rcv, toS' = <<>>
    PROVE  \/ snd' = new /\ ToReceiverIs(m)'
           \/ snd' = [snd EXCEPT !.pc = "error"] /\ Silence'
<1>1. <<m>> # <<>> /\ toR \o <<m>> = <<m>>
  OBVIOUS
<1>2. snd' = new \/ snd' = [snd EXCEPT !.pc = "error"]
  BY DEF Sends
<1>3. snd'.outcome = snd.outcome
  BY <1>2 DEF Sender
<1>4. Open' <=> Open
  BY <1>3 DEF Open
<1> QED
  BY <1>1, <1>4 DEF Sends, ToReceiverIs, Silence

LEMMA SenderSilent ==
    ASSUME NEW new, Sends(new, <<>>), toR \in Seq(ToReceiver)
    PROVE  snd' = new /\ toR' = toR
<1>1. toR \o <<>> = toR
  OBVIOUS
<1> QED
  BY <1>1 DEF Sends

LEMMA ReceiverSays ==
    ASSUME rcv \in Receiver, NEW new \in Receiver, new.outcome = rcv.outcome, NEW m,
           Answers(new, <<m>>), toS = <<>>, snd' = snd, toR' = <<>>
    PROVE  \/ rcv' = new /\ ToSenderIs(m)'
           \/ rcv' = [rcv EXCEPT !.pc = "error"] /\ Silence'
<1>1. <<m>> # <<>> /\ toS \o <<m>> = <<m>>
  OBVIOUS
<1>2. rcv' = new \/ rcv' = [rcv EXCEPT !.pc = "error"]
  BY DEF Answers
<1>3. rcv'.outcome = rcv.outcome
  BY <1>2 DEF Receiver
<1>4. Open' <=> Open
  BY <1>3 DEF Open
<1> QED
  BY <1>1, <1>4 DEF Answers, ToSenderIs, Silence

LEMMA ReceiverSilent ==
    ASSUME NEW new, Answers(new, <<>>), toS \in Seq(ToSender)
    PROVE  rcv' = new /\ toS' = toS
<1>1. toS \o <<>> = toS
  OBVIOUS
<1> QED
  BY <1>1 DEF Answers

-----------------------------------------------------------------------------
(* The turns of the sender. *)

\* Before the files, a task that cannot send is gone.
LEMMA SenderFails ==
    ASSUME Inv, snd.pc \notin Sending, snd' = [snd EXCEPT !.pc = "error"], Silence', rcv' = rcv,
           rcv.pc \in {"nonce", "token", "verify", "status", "pinResult", "done", "error"}
    PROVE  Dialogue'
<1>1. snd'.pc = "error" /\ snd'.sent = {}
  BY DEF Inv, TypeOK, SelectionInv, Sender
<1> QED
  BY <1>1 DEF Dialogue, SenderGone, Silence

LEMMA TurnSendNonce == ASSUME Inv, Dialogue, SendNonce PROVE Dialogue'
<1> DEFINE new == [snd EXCEPT !.pc = "nonce"]
<1>1. snd \in Sender /\ new \in Sender /\ new.pc = "nonce" /\ new.outcome = snd.outcome
  BY DEF Inv, TypeOK, Sender
<1>2. rcv.pc = "nonce" /\ Silence
  BY DEF SendNonce, Dialogue, Nonces, Tokens, SenderChallenged, ReceiverChallenged, Listed,
         ReceiverGone, SenderGone, FilesPhase
<1>3. \/ snd' = new /\ ToReceiverIs(Plain("nonce"))'
      \/ snd' = [snd EXCEPT !.pc = "error"] /\ Silence'
  <2> HIDE DEF new
  <2> QED
    BY <1>1, <1>2, SenderSays DEF SendNonce, Silence, new
<1>4. rcv' = rcv /\ snd.pc \notin Sending
  BY DEF SendNonce, Sending, Ends
<1> QED
  BY <1>1, <1>2, <1>3, <1>4, SenderFails DEF Dialogue, Nonces

LEMMA TurnSendToken == ASSUME Inv, Dialogue, SendToken PROVE Dialogue'
<1> DEFINE new == [snd EXCEPT !.pc = "token"]
<1>1. snd \in Sender /\ new \in Sender /\ new.pc = "token" /\ new.outcome = snd.outcome
  BY DEF Inv, TypeOK, Sender
<1>2. rcv.pc = "token" /\ toR = <<>> /\ toS' = <<>>
  BY SenderHears, OneTaken DEF SendToken, SenderGets
<1>3. rcv' = rcv /\ snd.pc \notin Sending
  BY DEF SendToken, SenderGets, Sending, Ends
<1>4. \/ snd' = new /\ ToReceiverIs(Plain("token"))'
      \/ snd' = [snd EXCEPT !.pc = "error"] /\ Silence'
  <2> HIDE DEF new
  <2> QED
    BY <1>1, <1>2, <1>3, SenderSays DEF SendToken, new
<1> QED
  BY <1>1, <1>2, <1>3, <1>4, SenderFails DEF Dialogue, Tokens

\* The receiver has been satisfied.
LEMMA TurnChallenge ==
    ASSUME Inv, Challenge, snd.pc \notin Sending, rcv' = rcv, SenderKnown,
           rcv.pc = "status", toR = <<>>, toS' = <<>>
    PROVE  Dialogue'
<1> DEFINE new == [snd EXCEPT !.pc = IF snd.pin THEN "verify" ELSE "list"]
           m == Plain(IF snd.pin THEN "pinRequired" ELSE "list")
<1>1. /\ snd \in Sender /\ new \in Sender /\ new.pc = IF snd.pin THEN "verify" ELSE "list"
      /\ new.outcome = snd.outcome /\ new.pin = snd.pin /\ new.knows = snd.knows
  BY DEF Inv, TypeOK, Sender
<1>2. Sends(new, <<m>>)
  BY DEF Challenge
<1> HIDE DEF new
<1>3. CASE snd' = new /\ ToReceiverIs(m)'
  <2>1. SenderKnown'
    BY <1>1, <1>3 DEF SenderKnown
  <2>2. CASE snd.pin
    BY <1>1, <1>3, <2>1, <2>2 DEF Dialogue, ReceiverChallenged
  <2>3. CASE ~snd.pin
    BY <1>1, <1>3, <2>1, <2>3 DEF Dialogue, Listed, ReceiverKnown
  <2> QED
    BY <2>2, <2>3
<1>4. CASE snd' = [snd EXCEPT !.pc = "error"] /\ Silence'
  BY <1>4, SenderFails
<1> QED
  BY <1>1, <1>2, <1>3, <1>4, SenderSays

LEMMA TurnTokenResponse ==
    ASSUME Inv, Dialogue, NEW valid \in BOOLEAN, TokenResponse(valid)
    PROVE  Dialogue'
<1>1. snd \in Sender /\ toR \in Seq(ToReceiver)
  BY DEF Inv, TypeOK
<1>2. /\ rcv' = rcv /\ snd.pc = "token" /\ snd.pc \notin Sending
      /\ toS # <<>> /\ toS' = Tail(toS)
  BY DEF TokenResponse, SenderGets, Sending, Ends
<1>3. CASE rcv.pin /\ rcv.pc = "verify" /\ toS = <<Plain("tokenPin")>>
  <2>1. toR = <<>> /\ toS' = <<>> /\ Head(toS).type = "tokenPin"
    BY <1>2, <1>3, SenderHears, OneTaken, Types
  <2>2. \E pc \in {"error", "askPin"} : Sends([snd EXCEPT !.pc = pc], <<>>)
    BY <2>1 DEF TokenResponse
  <2>3. PICK pc \in {"error", "askPin"} : snd' = [snd EXCEPT !.pc = pc] /\ toR' = toR
    BY <1>1, <2>2, SenderSilent
  <2>4. snd'.pc = pc
    BY <1>1, <2>3 DEF Sender
  <2>5. CASE pc = "error"
    BY <1>2, <1>3, <2>1, <2>3, <2>5, SenderFails DEF Silence
  <2>6. CASE pc = "askPin"
    BY <1>2, <1>3, <2>1, <2>3, <2>4, <2>6 DEF Dialogue, SenderChallenged, Silence
  <2> QED
    BY <2>5, <2>6
<1>4. CASE ~rcv.pin /\ rcv.pc = "status" /\ toS = <<Plain("tokenOk")>>
  <2>1. toR = <<>> /\ toS' = <<>> /\ Head(toS).type = "tokenOk"
    BY <1>2, <1>4, SenderHears, OneTaken, Types
  <2>2. CASE Challenge
    BY <1>2, <1>4, <2>1, <2>2, TurnChallenge DEF SenderKnown
  <2>3. CASE Sends([snd EXCEPT !.pc = "error"], <<>>)
    BY <1>1, <1>2, <1>4, <2>1, <2>3, SenderSilent, SenderFails DEF Silence
  <2> QED
    BY <2>1, <2>2, <2>3 DEF TokenResponse
<1>5. CASE rcv.pc \in {"done", "error"} /\ toS = <<Plain("invalid")>>
  <2>1. toR = <<>> /\ toS' = <<>> /\ Head(toS).type = "invalid"
    BY <1>2, <1>5, SenderHears, OneTaken, Types
  <2>2. Sends([snd EXCEPT !.pc = "error"], <<>>)
    BY <2>1 DEF TokenResponse
  <2> QED
    BY <1>1, <1>2, <1>5, <2>1, <2>2, SenderSilent, SenderFails DEF Silence
<1> QED
  BY <1>2, <1>3, <1>4, <1>5, SenderHears

LEMMA TurnSenderPin ==
    ASSUME Inv, Dialogue, NEW right \in BOOLEAN, SenderPin(right)
    PROVE  Dialogue'
<1> DEFINE new == [snd EXCEPT !.pc = "pinResult", !.knows = right]
<1>1. /\ snd \in Sender /\ new \in Sender /\ new.pc = "pinResult" /\ new.knows = right
      /\ new.outcome = snd.outcome
  BY DEF Inv, TypeOK, Sender
<1>2. rcv.pc = "verify" /\ Silence
  BY DEF SenderPin, Dialogue, Nonces, Tokens, SenderChallenged, ReceiverChallenged, Listed,
         ReceiverGone, SenderGone, FilesPhase
<1>3. rcv' = rcv /\ snd.pc \notin Sending
  BY DEF SenderPin, Sending, Ends
<1>4. Sends(new, <<Pin(right)>>) /\ toS' = <<>> /\ toR = <<>>
  BY <1>2 DEF SenderPin, Silence
<1> HIDE DEF new
<1>5. CASE snd' = new /\ ToReceiverIs(Pin(right))'
  <2>1. ToReceiverIs(Pin(snd.knows))'
    BY <1>1, <1>5 DEF ToReceiverIs
  <2> QED
    BY <1>1, <1>2, <1>3, <1>5, <2>1 DEF Dialogue, SenderChallenged
<1>6. CASE snd' = [snd EXCEPT !.pc = "error"] /\ Silence'
  BY <1>2, <1>3, <1>6, SenderFails
<1> QED
  BY <1>1, <1>3, <1>4, <1>5, <1>6, SenderSays

LEMMA TurnSenderPinResult == ASSUME Inv, Dialogue, SenderPinResult PROVE Dialogue'
<1>1. snd \in Sender /\ toR \in Seq(ToReceiver)
  BY DEF Inv, TypeOK
<1>2. /\ rcv' = rcv /\ snd.pc = "pinResult" /\ snd.pc \notin Sending
      /\ toS # <<>> /\ toS' = Tail(toS)
  BY DEF SenderPinResult, SenderGets, Sending, Ends
<1>3. CASE rcv.pc = "verify" /\ toS = <<Plain("pinRequired")>>
  <2>1. toR = <<>> /\ toS' = <<>> /\ Head(toS).type = "pinRequired"
    BY <1>2, <1>3, SenderHears, OneTaken, Types
  <2>2. Sends([snd EXCEPT !.pc = "askPin"], <<>>)
    BY <2>1 DEF SenderPinResult
  <2>3. snd' = [snd EXCEPT !.pc = "askPin"] /\ toR' = toR
    BY <1>1, <2>2, SenderSilent
  <2>4. snd'.pc = "askPin"
    BY <1>1, <2>3 DEF Sender
  <2> QED
    BY <1>2, <1>3, <2>1, <2>3, <2>4 DEF Dialogue, SenderChallenged, Silence
<1>4. CASE rcv.pc = "status" /\ snd.knows /\ toS = <<Plain("pinOk")>>
  <2>1. toR = <<>> /\ toS' = <<>> /\ Head(toS).type = "pinOk"
    BY <1>2, <1>4, SenderHears, OneTaken, Types
  <2> QED
    BY <1>2, <1>4, <2>1, TurnChallenge DEF SenderPinResult, SenderKnown
<1>5. CASE rcv.pc \in {"done", "error"} /\ toS = <<Plain("tooMany")>>
  <2>1. toR = <<>> /\ toS' = <<>> /\ Head(toS).type = "tooMany"
    BY <1>2, <1>5, SenderHears, OneTaken, Types
  <2>2. Sends([snd EXCEPT !.pc = "error"], <<>>)
    BY <2>1 DEF SenderPinResult
  <2> QED
    BY <1>1, <1>2, <1>5, <2>1, <2>2, SenderSilent, SenderFails DEF Silence
<1> QED
  BY <1>2, <1>3, <1>4, <1>5, SenderHears

LEMMA TurnVerifyReceiver == ASSUME Inv, Dialogue, VerifyReceiver PROVE Dialogue'
<1>1. snd \in Sender /\ snd.sent = {}
  BY DEF Inv, TypeOK, SelectionInv, VerifyReceiver, SenderGets, Sending, Ends
<1>2. /\ rcv' = rcv /\ snd.pc = "verify" /\ snd.pc \notin Sending
      /\ toS # <<>> /\ toS' = Tail(toS)
  BY DEF VerifyReceiver, SenderGets, Sending, Ends
<1>3. /\ toR = <<>> /\ rcv.pc = "pinResult" /\ SenderKnown
      /\ toS' = <<>> /\ Head(toS).right = rcv.knows
  <2>1. toR = <<>> /\ rcv.pc = "pinResult" /\ SenderKnown /\ toS = <<Pin(rcv.knows)>>
    BY <1>2, SenderHears
  <2>2. Tail(toS) = <<>> /\ Head(toS) = Pin(rcv.knows)
    BY <2>1, OneTaken
  <2> QED
    BY <1>2, <2>1, <2>2 DEF Pin
<1>4. ASSUME snd' = [snd EXCEPT !.pc = "error"], Silence'
      PROVE  Dialogue'
  BY <1>2, <1>3, <1>4, SenderFails
<1>5. CASE rcv.knows
  <2> DEFINE new == [snd EXCEPT !.pc = "list"]
  <2>1. /\ new \in Sender /\ new.pc = "list" /\ new.outcome = snd.outcome
        /\ new.pin = snd.pin /\ new.knows = snd.knows
    BY <1>1 DEF Sender
  <2>2. Sends(new, <<Plain("list")>>)
    BY <1>3, <1>5 DEF VerifyReceiver, Verdict, Correct
  <2> HIDE DEF new
  <2>3. CASE snd' = new /\ ToReceiverIs(Plain("list"))'
    BY <1>2, <1>3, <1>5, <2>1, <2>3 DEF Dialogue, Listed, SenderKnown, ReceiverKnown
  <2> QED
    BY <1>1, <1>2, <1>3, <1>4, <2>1, <2>2, <2>3, SenderSays
<1>6. CASE ~rcv.knows /\ Exhausted(snd.tries)
  <2> DEFINE new == [snd EXCEPT !.pc = "error"]
  <2>1. new \in Sender /\ new.pc = "error" /\ new.outcome = snd.outcome /\ new.sent = {}
    BY <1>1 DEF Sender, Ends
  <2>2. Sends(new, <<Plain("tooMany")>>)
    BY <1>3, <1>6 DEF VerifyReceiver, Verdict, Correct
  <2> HIDE DEF new
  <2>3. CASE snd' = new /\ ToReceiverIs(Plain("tooMany"))'
    BY <1>2, <1>3, <2>1, <2>3 DEF Dialogue, SenderGone, ToReceiverIs
  <2> QED
    BY <1>1, <1>2, <1>3, <1>4, <2>1, <2>2, <2>3, SenderSays
<1>7. CASE ~rcv.knows /\ ~Exhausted(snd.tries)
  <2> DEFINE new == [snd EXCEPT !.tries = @ + 1]
  <2>1. snd.tries + 1 \in Tries
    BY <1>1, <1>7, NextTry DEF Sender
  <2>2. /\ new \in Sender /\ new.pc = "verify" /\ new.outcome = snd.outcome
        /\ new.knows = snd.knows
    BY <1>1, <1>2, <2>1 DEF Sender
  <2>3. Sends(new, <<Plain("pinRequired")>>)
    BY <1>3, <1>7 DEF VerifyReceiver, Verdict, Correct
  <2> HIDE DEF new
  <2>4. CASE snd' = new /\ ToReceiverIs(Plain("pinRequired"))'
    BY <1>2, <1>3, <2>2, <2>4 DEF Dialogue, ReceiverChallenged, SenderKnown
  <2> QED
    BY <1>1, <1>2, <1>3, <1>4, <2>2, <2>3, <2>4, SenderSays
<1> QED
  BY <1>5, <1>6, <1>7

LEMMA TurnListResponse == ASSUME Inv, Dialogue, ListResponse PROVE Dialogue'
<1>1. snd \in Sender /\ toR \in Seq(ToReceiver) /\ snd.sent = {}
  BY DEF Inv, TypeOK, SelectionInv, ListResponse, SenderGets, Sending, Ends
<1>2. /\ rcv' = rcv /\ snd.pc = "list" /\ snd.pc \notin Sending
      /\ toS # <<>> /\ toS' = Tail(toS)
  BY DEF ListResponse, SenderGets, Sending, Ends
<1>3. CASE /\ rcv.pc = "files" /\ rcv.current = None /\ SenderKnown /\ ReceiverKnown
           /\ toS = <<[type |-> "selection", files |-> rcv.selection]>>
  <2>1. toR = <<>> /\ toS' = <<>> /\ Head(toS).type = "selection"
    BY <1>2, <1>3, SenderHears, OneTaken, Types
  <2>2. Sends([snd EXCEPT !.pc = "files", !.tokens = Head(toS).files], <<>>)
    BY <2>1 DEF ListResponse
  <2>3. snd' = [snd EXCEPT !.pc = "files", !.tokens = Head(toS).files] /\ toR' = <<>>
    BY <1>1, <2>1, <2>2, SenderSilent
  <2>4. snd'.pc = "files" /\ snd'.sent = {} /\ snd'.pin = snd.pin /\ snd'.knows = snd.knows
    BY <1>1, <2>3 DEF Sender
  <2>5. FilesPhase'
    BY <1>2, <1>3, <2>1, <2>3, <2>4
       DEF FilesPhase, SenderKnown, ReceiverKnown, Chosen, Paired, BeforeFirst, DataComes,
           EndComes, NothingEnded
  <2> QED
    BY <2>5 DEF Dialogue
<1>4. CASE rcv.pc \in {"done", "error"} /\ toS = <<Plain("declined")>>
  <2>1. toR = <<>> /\ toS' = <<>> /\ Head(toS).type = "declined"
    BY <1>2, <1>4, SenderHears, OneTaken, Types
  <2>2. Sends([snd EXCEPT !.pc = "done"], <<>>)
    BY <2>1 DEF ListResponse
  <2>3. snd' = [snd EXCEPT !.pc = "done"] /\ toR' = <<>>
    BY <1>1, <2>1, <2>2, SenderSilent
  <2>4. snd'.pc = "done" /\ snd'.sent = {}
    BY <1>1, <2>3 DEF Sender
  <2> QED
    BY <1>2, <1>4, <2>1, <2>3, <2>4 DEF Dialogue, SenderGone
<1> QED
  BY <1>2, <1>3, <1>4, SenderHears

-----------------------------------------------------------------------------
(* The turns of the receiver. *)

\* Before the files, a task that cannot answer is gone.
LEMMA ReceiverFails ==
    ASSUME Inv, rcv' = [rcv EXCEPT !.pc = "error"], Silence', snd' = snd,
           snd.pc \in {"nonce", "token", "pinResult", "verify", "list"}
    PROVE  Dialogue'
<1>1. rcv'.pc = "error"
  BY DEF Inv, TypeOK, Receiver
<1> QED
  BY <1>1 DEF Dialogue, ReceiverGone, Silence

LEMMA TurnReturnNonce == ASSUME Inv, Dialogue, ReturnNonce PROVE Dialogue'
<1> DEFINE new == [rcv EXCEPT !.pc = "token"]
<1>1. rcv \in Receiver /\ new \in Receiver /\ new.pc = "token" /\ new.outcome = rcv.outcome
  BY DEF Inv, TypeOK, Receiver
<1>2. snd' = snd /\ snd.pc = "nonce" /\ toS = <<>> /\ toR' = <<>>
  BY ReceiverHears, OneTaken DEF ReturnNonce, ReceiverGets
<1>3. Answers(new, <<Plain("nonce")>>)
  BY DEF ReturnNonce
<1> HIDE DEF new
<1>4. CASE rcv' = new /\ ToSenderIs(Plain("nonce"))'
  BY <1>1, <1>2, <1>4 DEF Dialogue, Nonces
<1>5. CASE rcv' = [rcv EXCEPT !.pc = "error"] /\ Silence'
  BY <1>2, <1>5, ReceiverFails
<1> QED
  BY <1>1, <1>2, <1>3, <1>4, <1>5, ReceiverSays

LEMMA TurnTokenRequest ==
    ASSUME Inv, Dialogue, NEW valid \in BOOLEAN, TokenRequest(valid)
    PROVE  Dialogue'
<1>1. rcv \in Receiver
  BY DEF Inv, TypeOK
<1>2. snd' = snd /\ snd.pc = "token" /\ toS = <<>> /\ toR' = <<>>
  BY ReceiverHears, OneTaken DEF TokenRequest, ReceiverGets
<1>3. ASSUME rcv' = [rcv EXCEPT !.pc = "error"], Silence'
      PROVE  Dialogue'
  BY <1>2, <1>3, ReceiverFails
<1>4. CASE valid /\ rcv.pin
  <2> DEFINE new == [rcv EXCEPT !.pc = "verify"]
  <2>1. new \in Receiver /\ new.pc = "verify" /\ new.outcome = rcv.outcome /\ new.pin
    BY <1>1, <1>4 DEF Receiver
  <2>2. Answers(new, <<Plain("tokenPin")>>)
    BY <1>4 DEF TokenRequest, TokenReply
  <2> HIDE DEF new
  <2>3. CASE rcv' = new /\ ToSenderIs(Plain("tokenPin"))'
    BY <1>2, <2>1, <2>3 DEF Dialogue, Tokens
  <2> QED
    BY <1>1, <1>2, <1>3, <2>1, <2>2, <2>3, ReceiverSays
<1>5. CASE valid /\ ~rcv.pin
  <2> DEFINE new == [rcv EXCEPT !.pc = "status"]
  <2>1. new \in Receiver /\ new.pc = "status" /\ new.outcome = rcv.outcome /\ ~new.pin
    BY <1>1, <1>5 DEF Receiver
  <2>2. Answers(new, <<Plain("tokenOk")>>)
    BY <1>5 DEF TokenRequest, TokenReply
  <2> HIDE DEF new
  <2>3. CASE rcv' = new /\ ToSenderIs(Plain("tokenOk"))'
    BY <1>2, <2>1, <2>3 DEF Dialogue, Tokens
  <2> QED
    BY <1>1, <1>2, <1>3, <2>1, <2>2, <2>3, ReceiverSays
<1>6. CASE ~valid
  <2> DEFINE new == [rcv EXCEPT !.pc = "error"]
  <2>1. new \in Receiver /\ new.pc = "error" /\ new.outcome = rcv.outcome
    BY <1>1 DEF Receiver, Ends
  <2>2. Answers(new, <<Plain("invalid")>>)
    BY <1>6 DEF TokenRequest
  <2> HIDE DEF new
  <2>3. CASE rcv' = new /\ ToSenderIs(Plain("invalid"))'
    BY <1>2, <2>1, <2>3 DEF Dialogue, ReceiverGone, ToSenderIs
  <2> QED
    BY <1>1, <1>2, <1>3, <2>1, <2>2, <2>3, ReceiverSays
<1> QED
  BY <1>4, <1>5, <1>6

LEMMA TurnVerifySender == ASSUME Inv, Dialogue, VerifySender PROVE Dialogue'
<1>1. rcv \in Receiver
  BY DEF Inv, TypeOK
<1>2. /\ snd' = snd /\ snd.pc = "pinResult" /\ toS = <<>> /\ toR' = <<>>
      /\ rcv.pc = "verify" /\ Head(toR).right = snd.knows
  <2>1. /\ toR # <<>> /\ toR' = Tail(toR) /\ snd' = snd /\ rcv.pc = "verify"
    BY DEF VerifySender, ReceiverGets
  <2>2. snd.pc = "pinResult" /\ toS = <<>> /\ toR = <<Pin(snd.knows)>>
    BY <2>1, ReceiverHears
  <2>3. Tail(toR) = <<>> /\ Head(toR) = Pin(snd.knows)
    BY <2>2, OneTaken
  <2> QED
    BY <2>1, <2>2, <2>3 DEF Pin
<1>3. ASSUME rcv' = [rcv EXCEPT !.pc = "error"], Silence'
      PROVE  Dialogue'
  BY <1>2, <1>3, ReceiverFails
<1>4. CASE snd.knows
  <2> DEFINE new == [rcv EXCEPT !.pc = "status"]
  <2>1. new \in Receiver /\ new.pc = "status" /\ new.outcome = rcv.outcome
    BY <1>1 DEF Receiver
  <2>2. Answers(new, <<Plain("pinOk")>>)
    BY <1>2, <1>4 DEF VerifySender, Verdict, Correct
  <2> HIDE DEF new
  <2>3. CASE rcv' = new /\ ToSenderIs(Plain("pinOk"))'
    BY <1>2, <1>4, <2>1, <2>3 DEF Dialogue, SenderChallenged
  <2> QED
    BY <1>1, <1>2, <1>3, <2>1, <2>2, <2>3, ReceiverSays
<1>5. CASE ~snd.knows /\ Exhausted(rcv.tries)
  <2> DEFINE new == [rcv EXCEPT !.pc = "error"]
  <2>1. new \in Receiver /\ new.pc = "error" /\ new.outcome = rcv.outcome
    BY <1>1 DEF Receiver, Ends
  <2>2. Answers(new, <<Plain("tooMany")>>)
    BY <1>2, <1>5 DEF VerifySender, Verdict, Correct
  <2> HIDE DEF new
  <2>3. CASE rcv' = new /\ ToSenderIs(Plain("tooMany"))'
    BY <1>2, <2>1, <2>3 DEF Dialogue, ReceiverGone, ToSenderIs
  <2> QED
    BY <1>1, <1>2, <1>3, <2>1, <2>2, <2>3, ReceiverSays
<1>6. CASE ~snd.knows /\ ~Exhausted(rcv.tries)
  <2> DEFINE new == [rcv EXCEPT !.tries = @ + 1]
  <2>1. rcv.tries + 1 \in Tries
    BY <1>1, <1>6, NextTry DEF Receiver
  <2>2. new \in Receiver /\ new.pc = "verify" /\ new.outcome = rcv.outcome
    BY <1>1, <1>2, <2>1 DEF Receiver
  <2>3. Answers(new, <<Plain("pinRequired")>>)
    BY <1>2, <1>6 DEF VerifySender, Verdict, Correct
  <2> HIDE DEF new
  <2>4. CASE rcv' = new /\ ToSenderIs(Plain("pinRequired"))'
    BY <1>2, <2>2, <2>4 DEF Dialogue, SenderChallenged
  <2> QED
    BY <1>1, <1>2, <1>3, <2>2, <2>3, <2>4, ReceiverSays
<1> QED
  BY <1>4, <1>5, <1>6

LEMMA TurnSenderStatus == ASSUME Inv, Dialogue, SenderStatus PROVE Dialogue'
<1>1. rcv \in Receiver /\ toS \in Seq(ToSender)
  BY DEF Inv, TypeOK
<1>2. /\ rcv.pc \in {"status", "pinResult"} /\ snd' = snd /\ toR # <<>> /\ toR' = Tail(toR)
      /\ Answers([rcv EXCEPT !.pc = CASE Head(toR).type = "list"        -> "select"
                                      [] Head(toR).type = "pinRequired" -> "askPin"
                                      [] Head(toR).type = "tooMany"     -> "error"], <<>>)
  BY DEF SenderStatus, ReceiverGets
<1>3. toS = <<>>
  BY <1>2, ReceiverHears
<1>4. CASE snd.pc = "verify" /\ SenderKnown /\ toR = <<Plain("pinRequired")>>
  <2>1. toR' = <<>> /\ Head(toR).type = "pinRequired"
    BY <1>2, <1>4, OneTaken, Types
  <2>2. rcv' = [rcv EXCEPT !.pc = "askPin"] /\ toS' = <<>>
    BY <1>1, <1>2, <1>3, <2>1, ReceiverSilent
  <2>3. rcv'.pc = "askPin" /\ rcv'.pin = rcv.pin
    BY <1>1, <2>2 DEF Receiver
  <2> QED
    BY <1>2, <1>4, <2>1, <2>2, <2>3 DEF Dialogue, ReceiverChallenged, SenderKnown, Silence
<1>5. CASE snd.pc = "list" /\ SenderKnown /\ ReceiverKnown /\ toR = <<Plain("list")>>
  <2>1. toR' = <<>> /\ Head(toR).type = "list"
    BY <1>2, <1>5, OneTaken, Types
  <2>2. rcv' = [rcv EXCEPT !.pc = "select"] /\ toS' = <<>>
    BY <1>1, <1>2, <1>3, <2>1, ReceiverSilent
  <2>3. rcv'.pc = "select" /\ rcv'.pin = rcv.pin /\ rcv'.knows = rcv.knows
    BY <1>1, <2>2 DEF Receiver
  <2> QED
    BY <1>2, <1>5, <2>1, <2>2, <2>3 DEF Dialogue, Listed, SenderKnown, ReceiverKnown, Silence
<1>6. CASE SenderGone /\ toR = <<Plain("tooMany")>>
  <2>1. toR' = <<>> /\ Head(toR).type = "tooMany"
    BY <1>2, <1>6, OneTaken, Types
  <2>2. rcv' = [rcv EXCEPT !.pc = "error"] /\ toS' = <<>>
    BY <1>1, <1>2, <1>3, <2>1, ReceiverSilent
  <2>3. rcv'.pc = "error"
    BY <1>1, <2>2 DEF Receiver
  <2> QED
    BY <1>2, <1>6, <2>1, <2>2, <2>3 DEF Dialogue, SenderGone
<1> QED
  BY <1>2, <1>4, <1>5, <1>6, ReceiverHears

LEMMA TurnReceiverPin ==
    ASSUME Inv, Dialogue, NEW right \in BOOLEAN, ReceiverPin(right)
    PROVE  Dialogue'
<1> DEFINE new == [rcv EXCEPT !.pc = "pinResult", !.knows = right]
<1>1. /\ rcv \in Receiver /\ new \in Receiver /\ new.pc = "pinResult" /\ new.knows = right
      /\ new.outcome = rcv.outcome /\ new.pin = rcv.pin
  BY DEF Inv, TypeOK, Receiver
<1>2. snd.pc = "verify" /\ SenderKnown /\ Silence
  BY DEF ReceiverPin, Dialogue, Nonces, Tokens, SenderChallenged, ReceiverChallenged, Listed,
         ReceiverGone, SenderGone, FilesPhase, Chosen, Ends
<1>3. Answers(new, <<Pin(right)>>) /\ snd' = snd /\ toR' = <<>> /\ toS = <<>>
  BY <1>2 DEF ReceiverPin, Silence
<1> HIDE DEF new
<1>4. CASE rcv' = new /\ ToSenderIs(Pin(right))'
  <2>1. ToSenderIs(Pin(rcv.knows))'
    BY <1>1, <1>4 DEF ToSenderIs
  <2> QED
    BY <1>1, <1>2, <1>3, <1>4, <2>1 DEF Dialogue, ReceiverChallenged, SenderKnown
<1>5. CASE rcv' = [rcv EXCEPT !.pc = "error"] /\ Silence'
  BY <1>2, <1>3, <1>5, ReceiverFails
<1> QED
  BY <1>1, <1>3, <1>4, <1>5, ReceiverSays

\* The user is asked for a selection.
LEMMA Asked ==
    ASSUME Dialogue, rcv.pc = "select"
    PROVE  snd.pc = "list" /\ SenderKnown /\ ReceiverKnown /\ Silence
  BY DEF Dialogue, Nonces, Tokens, SenderChallenged, ReceiverChallenged, Listed,
         ReceiverGone, SenderGone, FilesPhase, Chosen, Ends

LEMMA TurnSelect ==
    ASSUME Inv, Dialogue, NEW files \in SUBSET Files, Select(files)
    PROVE  Dialogue'
<1> DEFINE new == [rcv EXCEPT !.pc = "files", !.selection = files]
           m == [type |-> "selection", files |-> files]
<1>2. snd.pc = "list" /\ SenderKnown /\ ReceiverKnown /\ Silence
  BY Asked DEF Select
<1>6. rcv \in Receiver /\ rcv.current = None
  BY <1>2 DEF Inv, TypeOK, SelectionInv, Sending, Ends
<1>1. /\ new \in Receiver /\ new.pc = "files" /\ new.selection = files
      /\ new.outcome = rcv.outcome /\ new.pin = rcv.pin /\ new.knows = rcv.knows
      /\ new.current = None
  BY <1>6 DEF Receiver
<1>3. Answers(new, <<m>>) /\ snd' = snd /\ toR' = <<>> /\ toS = <<>>
  BY <1>2 DEF Select, Silence
<1> HIDE DEF new
<1>4. CASE rcv' = new /\ ToSenderIs(m)'
  <2>1. ToSenderIs([type |-> "selection", files |-> rcv.selection])'
    BY <1>1, <1>4 DEF ToSenderIs
  <2> QED
    BY <1>1, <1>2, <1>3, <1>4, <2>1 DEF Dialogue, Listed, SenderKnown, ReceiverKnown
<1>5. CASE rcv' = [rcv EXCEPT !.pc = "error"] /\ Silence'
  BY <1>2, <1>3, <1>5, ReceiverFails
<1> QED
  BY <1>1, <1>3, <1>4, <1>5, <1>6, ReceiverSays

LEMMA TurnDecline ==
    ASSUME Inv, Dialogue, NEW declared \in BOOLEAN, Decline(declared)
    PROVE  Dialogue'
<1> DEFINE new == [rcv EXCEPT !.pc = "done"]
<1>1. rcv \in Receiver /\ new \in Receiver /\ new.pc = "done" /\ new.outcome = rcv.outcome
  BY DEF Inv, TypeOK, Receiver, Ends
<1>2. snd.pc = "list" /\ Silence
  BY Asked DEF Decline
<1>3. /\ Answers(new, IF declared THEN <<Plain("declined")>> ELSE <<>>)
      /\ snd' = snd /\ toR' = <<>> /\ toS = <<>> /\ toS \in Seq(ToSender)
  BY <1>2 DEF Decline, Silence, Inv, TypeOK
<1> HIDE DEF new
<1>4. CASE declared
  <2>1. CASE rcv' = new /\ ToSenderIs(Plain("declined"))'
    BY <1>1, <1>2, <1>3, <2>1 DEF Dialogue, ReceiverGone, ToSenderIs
  <2>2. CASE rcv' = [rcv EXCEPT !.pc = "error"] /\ Silence'
    BY <1>2, <1>3, <2>2, ReceiverFails
  <2> QED
    BY <1>1, <1>3, <1>4, <2>1, <2>2, ReceiverSays
<1>5. CASE ~declared
  <2>1. rcv' = new /\ toS' = <<>>
    BY <1>3, <1>5, ReceiverSilent
  <2> QED
    BY <1>1, <1>2, <1>3, <2>1 DEF Dialogue, ReceiverGone
<1> QED
  BY <1>4, <1>5

-----------------------------------------------------------------------------
(* The files. *)

\* The sender's task is past its list only with the files, or at its end.
LEMMA InFiles ==
    ASSUME Dialogue, snd.pc \in {"files", "last"}
    PROVE  FilesPhase
  BY DEF Dialogue, Nonces, Tokens, SenderChallenged, ReceiverChallenged, Listed, ReceiverGone,
         SenderGone

\* A header and its data follow what is under way, or are lost with the connection.
LEMMA TurnSendFile ==
    ASSUME Inv, Dialogue, NEW f \in Files, SendFile(f)
    PROVE  Dialogue'
<1> DEFINE new == [snd EXCEPT !.sent = @ \cup {f}]
           h == [type |-> "header", file |-> f]
           d == [type |-> "data", file |-> f]
<1>1. /\ snd \in Sender /\ toR \in Seq(ToReceiver) /\ snd.pc = "files" /\ FilesPhase
      /\ h \in ToReceiver /\ d \in ToReceiver
  BY InFiles DEF Inv, TypeOK, SendFile, ToReceiver
<1>2. rcv' = rcv /\ toS' = toS /\ Sends(new, <<h, d>>)
  BY DEF SendFile
<1>3. /\ snd'.outcome = snd.outcome /\ snd'.pin = snd.pin /\ snd'.knows = snd.knows
      /\ snd'.pc \in {"files", "error"}
  BY <1>1, <1>2 DEF Sends, Sender
<1>4. Open' <=> Open
  BY <1>2, <1>3 DEF Open
<1>5. CASE ~Open
  <2>1. toR' = toR
    BY <1>2, <1>5 DEF Sends
  <2>2. SenderKnown' /\ ReceiverKnown'
    BY <1>1, <1>2, <1>3 DEF FilesPhase, SenderKnown, ReceiverKnown
  <2>3. Paired'
    BY <1>1, <1>4, <1>5, <2>1 DEF FilesPhase, Paired
  <2>4. BeforeFirst' /\ DataComes' /\ EndComes' /\ NothingEnded'
    BY <1>1, <1>2, <1>3, <1>4, <1>5, <2>1
       DEF FilesPhase, BeforeFirst, DataComes, EndComes, NothingEnded
  <2>5. FilesPhase'
    BY <1>1, <1>2, <1>3, <2>2, <2>3, <2>4 DEF FilesPhase
  <2> QED
    BY <2>5 DEF Dialogue
<1>6. CASE Open
  <2>1. snd' = new /\ toR' = toR \o <<h, d>>
    BY <1>2, <1>6 DEF Sends, Open
  <2>2. snd'.pc = "files"
    BY <1>1, <2>1 DEF Sender
  <2>3. /\ Len(toR') = Len(toR) + 2
        /\ \A i \in 1..Len(toR) : toR'[i] = toR[i]
        /\ toR'[Len(toR) + 1] = h /\ toR'[Len(toR) + 2] = d
        /\ toR' # <<>> /\ (toR # <<>> => Head(toR') = Head(toR)) /\ (toR = <<>> => Head(toR') = h)
    BY <1>1, <2>1
  <2>4. SenderKnown' /\ ReceiverKnown'
    BY <1>1, <1>2, <1>3 DEF FilesPhase, SenderKnown, ReceiverKnown
  <2>5. Paired'
    <3> SUFFICES ASSUME NEW i \in 1..Len(toR')
                 PROVE  /\ toR'[i].type \in {"header", "data", "delimiter"}
                        /\ toR'[i].type = "header" =>
                              IF i < Len(toR') THEN toR'[i + 1].type = "data" ELSE ~Open'
      BY DEF Paired
    <3>1. Len(toR) \in Nat
      BY <1>1
    <3>2. CASE i < Len(toR)
      <4>1. i \in 1..Len(toR) /\ i + 1 \in 1..Len(toR)
        BY <3>1, <3>2
      <4> QED
        BY <1>1, <2>3, <3>1, <3>2, <4>1 DEF FilesPhase, Paired
    <3>3. CASE i = Len(toR)
      BY <1>1, <1>6, <2>3, <3>1, <3>3 DEF FilesPhase, Paired
    <3>4. CASE i = Len(toR) + 1
      BY <2>3, <3>1, <3>4
    <3>5. CASE i = Len(toR) + 2
      BY <2>3, <3>1, <3>5
    <3> QED
      BY <2>3, <3>1, <3>2, <3>3, <3>4, <3>5
  <2>6. BeforeFirst'
    BY <1>1, <1>2, <1>6, <2>3 DEF FilesPhase, BeforeFirst
  <2>7. DataComes'
    BY <1>1, <1>2, <1>6, <2>3 DEF FilesPhase, DataComes
  <2>8. EndComes' /\ NothingEnded'
    BY <1>1, <1>2, <2>2 DEF FilesPhase, EndComes, NothingEnded
  <2>9. FilesPhase'
    BY <1>1, <1>2, <2>2, <2>4, <2>5, <2>6, <2>7, <2>8 DEF FilesPhase
  <2> QED
    BY <2>9 DEF Dialogue
<1> QED
  BY <1>5, <1>6

LEMMA TurnNoMoreFiles == ASSUME Inv, Dialogue, NoMoreFiles PROVE Dialogue'
<1> DEFINE new == [snd EXCEPT !.pc = "last"]
           m == Plain("delimiter")
<1>1. /\ snd \in Sender /\ toR \in Seq(ToReceiver) /\ snd.pc = "files" /\ FilesPhase
      /\ m \in ToReceiver /\ m.type = "delimiter"
  BY InFiles DEF Inv, TypeOK, NoMoreFiles, ToReceiver, Plain
<1>2. rcv' = rcv /\ toS' = toS /\ Sends(new, <<m>>)
  BY DEF NoMoreFiles
<1>3. /\ snd'.outcome = snd.outcome /\ snd'.pin = snd.pin /\ snd'.knows = snd.knows
      /\ snd'.pc \in {"last", "error"} /\ snd'.sent = snd.sent
  BY <1>1, <1>2 DEF Sends, Sender
<1>4. Open' <=> Open
  BY <1>2, <1>3 DEF Open
<1>5. SenderKnown' /\ ReceiverKnown'
  BY <1>1, <1>2, <1>3 DEF FilesPhase, SenderKnown, ReceiverKnown
<1>6. CASE ~Open
  <2>1. toR' = toR
    BY <1>2, <1>6 DEF Sends
  <2>2. Paired'
    BY <1>1, <1>4, <1>6, <2>1 DEF FilesPhase, Paired
  <2>3. BeforeFirst' /\ DataComes' /\ EndComes' /\ NothingEnded'
    BY <1>1, <1>2, <1>3, <1>4, <1>6, <2>1
       DEF FilesPhase, BeforeFirst, DataComes, EndComes, NothingEnded
  <2>4. FilesPhase'
    BY <1>1, <1>2, <1>3, <1>5, <2>2, <2>3 DEF FilesPhase
  <2> QED
    BY <2>4 DEF Dialogue
<1>7. CASE Open
  <2>1. snd' = new /\ toR' = toR \o <<m>>
    BY <1>2, <1>7 DEF Sends, Open
  <2>2. snd'.pc = "last"
    BY <1>1, <2>1 DEF Sender
  <2> HIDE DEF m
  <2>3. /\ Len(toR') = Len(toR) + 1
        /\ \A i \in 1..Len(toR) : toR'[i] = toR[i]
        /\ toR'[Len(toR) + 1] = m
        /\ toR' # <<>> /\ (toR # <<>> => Head(toR') = Head(toR))
    BY <1>1, <2>1
  <2>11. toR = <<>> => toR' = <<m>>
    <3>1. <<>> \o <<m>> = <<m>>
      OBVIOUS
    <3> QED
      BY <2>1, <3>1
  <2>4. Len(toR) \in Nat
    BY <1>1
  <2>5. Paired'
    <3> SUFFICES ASSUME NEW i \in 1..Len(toR')
                 PROVE  /\ toR'[i].type \in {"header", "data", "delimiter"}
                        /\ toR'[i].type = "header" =>
                              IF i < Len(toR') THEN toR'[i + 1].type = "data" ELSE ~Open'
      BY DEF Paired
    <3>1. CASE i < Len(toR)
      <4>1. i \in 1..Len(toR) /\ i + 1 \in 1..Len(toR)
        BY <2>4, <3>1
      <4> QED
        BY <1>1, <2>3, <2>4, <3>1, <4>1 DEF FilesPhase, Paired
    <3>2. CASE i = Len(toR)
      BY <1>1, <1>7, <2>3, <2>4, <3>2 DEF FilesPhase, Paired
    <3>3. CASE i = Len(toR) + 1
      BY <1>1, <2>3, <2>4, <3>3
    <3> QED
      BY <2>3, <2>4, <3>1, <3>2, <3>3
  <2>6. BeforeFirst'
    BY <1>1, <1>2, <1>3, <1>7, <2>2, <2>3, <2>11 DEF FilesPhase, BeforeFirst, m
  <2>7. DataComes'
    BY <1>1, <1>2, <1>7, <2>3 DEF FilesPhase, DataComes
  <2>8. EndComes'
    <3>1. Len(toR) + 1 \in 1..Len(toR') /\ toR'[Len(toR) + 1].type = "delimiter"
      BY <1>1, <2>3, <2>4
    <3> QED
      BY <3>1 DEF EndComes
  <2>9. NothingEnded'
    BY <1>1, <1>2 DEF FilesPhase, NothingEnded
  <2>10. FilesPhase'
    BY <1>1, <1>2, <1>5, <2>2, <2>5, <2>6, <2>7, <2>8, <2>9 DEF FilesPhase
  <2> QED
    BY <2>10 DEF Dialogue
<1> QED
  BY <1>6, <1>7

LEMMA TurnLastResponse == ASSUME Inv, Dialogue, LastResponse PROVE Dialogue'
<1>1. /\ snd \in Sender /\ toR \in Seq(ToReceiver) /\ toS \in Seq(ToSender)
      /\ snd.pc = "last" /\ FilesPhase
  BY InFiles DEF Inv, TypeOK, LastResponse
<1>2. rcv' = rcv /\ toS # <<>> /\ toS' = Tail(toS) /\ Sends([snd EXCEPT !.pc = "done"], <<>>)
  BY DEF LastResponse
<1>3. snd' = [snd EXCEPT !.pc = "done"] /\ toR' = toR
  BY <1>1, <1>2, SenderSilent
<1>4. /\ snd'.pc = "done" /\ snd'.outcome = snd.outcome /\ snd'.pin = snd.pin
      /\ snd'.knows = snd.knows /\ snd'.sent = snd.sent
  BY <1>1, <1>3 DEF Sender
<1>5. Open' <=> Open
  BY <1>2, <1>4 DEF Open
<1>6. \A i \in 1..Len(toS') : toS'[i].type = "result"
  <2>1. Len(toS') = Len(toS) - 1 /\ \A i \in 1..Len(toS') : toS'[i] = toS[i + 1]
    BY <1>1, <1>2
  <2>2. Len(toS) \in Nat /\ \A i \in 1..Len(toS') : i + 1 \in 1..Len(toS)
    BY <1>1, <2>1
  <2> QED
    BY <1>1, <2>1, <2>2 DEF FilesPhase
<1>7. ~(rcv.pc = "files" /\ rcv.current = None) /\ rcv.pc # "confused"
  BY <1>1, <1>2 DEF FilesPhase, BeforeFirst, NothingEnded, Silence
<1>8. SenderKnown' /\ ReceiverKnown' /\ Paired'
  BY <1>1, <1>2, <1>3, <1>4, <1>5 DEF FilesPhase, SenderKnown, ReceiverKnown, Paired
<1>9. BeforeFirst' /\ DataComes' /\ EndComes' /\ NothingEnded'
  BY <1>1, <1>2, <1>3, <1>4, <1>5, <1>7
     DEF FilesPhase, BeforeFirst, DataComes, EndComes, NothingEnded
<1>10. FilesPhase'
  BY <1>1, <1>2, <1>4, <1>6, <1>8, <1>9 DEF FilesPhase
<1> QED
  BY <1>10 DEF Dialogue

\* The receiver takes the next message of the files.
LEMMA TakesOfFiles ==
    ASSUME Inv, FilesPhase, rcv.pc = "files", toR # <<>>, toR' = Tail(toR), snd' = snd,
           rcv'.pin = rcv.pin, rcv'.knows = rcv.knows, rcv'.outcome = rcv.outcome,
           rcv'.pc \in {"files", "done", "error"},
           rcv'.pc = "files" => rcv'.current # None /\ Head(toR).type # "delimiter",
           rcv'.pc = "files" /\ rcv'.current \notin rcv'.bodies => Head(toR).type = "header",
           \A i \in 1..Len(toS') : toS'[i].type = "result"
    PROVE  Dialogue'
<1>1. /\ toR \in Seq(ToReceiver) /\ Len(toR) \in Nat \ {0} /\ Len(toR') = Len(toR) - 1
      /\ Head(toR) = toR[1]
  BY DEF Inv, TypeOK
<1>2. \A i \in 1..Len(toR') : toR'[i] = toR[i + 1] /\ i + 1 \in 1..Len(toR)
  BY <1>1
<1>3. Open' <=> Open
  BY DEF Open
<1>4. toR' # <<>> => Head(toR') = toR[2] /\ Len(toR) > 1
  BY <1>1, <1>2
<1>5. SenderKnown' /\ ReceiverKnown'
  BY DEF FilesPhase, SenderKnown, ReceiverKnown
<1>6. Paired'
  <2> SUFFICES ASSUME NEW i \in 1..Len(toR')
               PROVE  /\ toR'[i].type \in {"header", "data", "delimiter"}
                      /\ toR'[i].type = "header" =>
                            IF i < Len(toR') THEN toR'[i + 1].type = "data" ELSE ~Open'
    BY DEF Paired
  <2>1. /\ toR[i + 1].type \in {"header", "data", "delimiter"}
        /\ toR[i + 1].type = "header" =>
              IF i + 1 < Len(toR) THEN toR[i + 2].type = "data" ELSE ~Open
    <3>1. i + 1 \in 1..Len(toR) /\ (i + 1) + 1 = i + 2
      BY <1>1
    <3> QED
      BY <3>1 DEF FilesPhase, Paired
  <2>2. i < Len(toR') => i + 1 < Len(toR) /\ toR'[i + 1] = toR[i + 2]
    <3>1. i < Len(toR') => i + 1 \in 1..Len(toR') /\ (i + 1) + 1 = i + 2 /\ i + 1 < Len(toR)
      BY <1>1
    <3> QED
      BY <1>2, <3>1
  <2>3. ~(i < Len(toR')) => ~(i + 1 < Len(toR))
    BY <1>1
  <2> QED
    BY <1>2, <1>3, <2>1, <2>2, <2>3
<1>7. DataComes'
  <2> SUFFICES ASSUME rcv'.pc = "files", rcv'.current \notin rcv'.bodies
               PROVE  IF toR' = <<>> THEN ~Open' ELSE Head(toR').type = "data"
    BY DEF DataComes
  <2>1. IF 1 < Len(toR) THEN toR[2].type = "data" ELSE ~Open
    <3>1. 1 \in 1..Len(toR) /\ toR[1].type = "header" /\ 1 + 1 = 2
      BY <1>1
    <3> QED
      BY <3>1 DEF FilesPhase, Paired
  <2>2. toR' = <<>> => ~(1 < Len(toR))
    <3>1. toR' = <<>> => Len(toR') = 0
      OBVIOUS
    <3> QED
      BY <1>1, <3>1
  <2> QED
    BY <1>3, <1>4, <2>1, <2>2
<1>8. EndComes'
  <2> SUFFICES ASSUME Open, snd.pc = "last", rcv'.pc = "files"
               PROVE  \E i \in 1..Len(toR') : toR'[i].type = "delimiter"
    BY <1>3 DEF EndComes
  <2>1. PICK i \in 1..Len(toR) : toR[i].type = "delimiter"
    BY DEF FilesPhase, EndComes
  <2>2. i # 1
    BY <1>1, <2>1
  <2>3. i - 1 \in 1..Len(toR') /\ (i - 1) + 1 = i
    BY <1>1, <2>1, <2>2
  <2> QED
    BY <1>2, <2>1, <2>3
<1>9. BeforeFirst' /\ NothingEnded'
  BY DEF BeforeFirst, NothingEnded
<1>10. FilesPhase'
  BY <1>5, <1>6, <1>7, <1>8, <1>9 DEF FilesPhase, Chosen, Ends
<1> QED
  BY <1>10 DEF Dialogue

LEMMA TurnFirstHeader == ASSUME Inv, Dialogue, FirstHeader PROVE Dialogue'
<1>1. /\ snd' = snd /\ toR # <<>> /\ toR' = Tail(toR) /\ Head(toR).type = "header"
      /\ rcv.pc = "files" /\ Answers(Begin(Head(toR).file), <<>>)
  BY DEF FirstHeader, ReceiverGets
<1>2. FilesPhase /\ toS \in Seq(ToSender) /\ rcv \in Receiver
  BY <1>1, ReceiverHears DEF Inv, TypeOK
<1>3. rcv' = Begin(Head(toR).file) /\ toS' = toS
  BY <1>1, <1>2, ReceiverSilent
<1>4. Head(toR).file \in rcv.selection /\ None \notin rcv.selection
  BY <1>1, <1>2, FileOfHead, NoneAssumption DEF Inv, SelectionInv, Receiver
<1>5. /\ rcv'.pc = "files" /\ rcv'.current # None /\ rcv'.pin = rcv.pin
      /\ rcv'.knows = rcv.knows /\ rcv'.outcome = rcv.outcome
  BY <1>1, <1>2, <1>3, <1>4 DEF Begin, Receiver
<1>6. \A i \in 1..Len(toS') : toS'[i].type = "result"
  BY <1>2, <1>3 DEF FilesPhase
<1> QED
  BY <1>1, <1>2, <1>5, <1>6, TakesOfFiles

LEMMA TurnFileEnds == ASSUME Inv, Dialogue, FileEnds PROVE Dialogue'
<1> DEFINE last == [rcv EXCEPT !.pc = "done", !.current = None, !.result = "none"]
<1>1. /\ snd' = snd /\ toR # <<>> /\ toR' = Tail(toR)
      /\ Head(toR).type \in {"header", "delimiter"} /\ rcv.pc = "files" /\ rcv.current # None
      /\ Answers(IF Head(toR).type = "header" THEN Begin(Head(toR).file) ELSE last, <<Result>>)
  BY DEF FileEnds, ReceiverGets
<1>2. FilesPhase /\ toS \in Seq(ToSender) /\ rcv \in Receiver
  BY <1>1, ReceiverHears DEF Inv, TypeOK
<1>3. \/ rcv' = [rcv EXCEPT !.pc = "error"]
      \/ Head(toR).type = "header" /\ rcv' = Begin(Head(toR).file)
      \/ Head(toR).type = "delimiter" /\ rcv' = last
  BY <1>1 DEF Answers
<1>4. Head(toR).type = "header" =>
         Head(toR).file \in rcv.selection /\ None \notin rcv.selection
  BY <1>1, <1>2, FileOfHead, NoneAssumption DEF Inv, SelectionInv, Receiver
<1>5. /\ rcv'.pc \in {"files", "done", "error"} /\ rcv'.pin = rcv.pin
      /\ rcv'.knows = rcv.knows /\ rcv'.outcome = rcv.outcome
      /\ rcv'.pc = "files" => rcv'.current # None /\ Head(toR).type = "header"
  <2>1. CASE rcv' = [rcv EXCEPT !.pc = "error"]
    BY <1>2, <2>1 DEF Receiver
  <2>2. CASE Head(toR).type = "header" /\ rcv' = Begin(Head(toR).file)
    BY <1>1, <1>2, <1>4, <2>2 DEF Begin, Receiver
  <2>3. CASE rcv' = last
    BY <1>2, <2>3 DEF Receiver
  <2> QED
    BY <1>3, <2>1, <2>2, <2>3
<1>6. \A i \in 1..Len(toS') : toS'[i].type = "result"
  <2>1. Result.type = "result" /\ toS' \in {toS, toS \o <<Result>>}
    BY <1>1 DEF Answers, Result
  <2> HIDE DEF Result
  <2>2. CASE toS' = toS \o <<Result>>
    <3>1. /\ Len(toS') = Len(toS) + 1 /\ Len(toS) \in Nat
          /\ \A i \in 1..Len(toS) : toS'[i] = toS[i]
          /\ toS'[Len(toS) + 1] = Result
      BY <1>2, <2>2
    <3> QED
      BY <1>2, <2>1, <3>1 DEF FilesPhase
  <2> QED
    BY <1>2, <2>1, <2>2 DEF FilesPhase
<1> QED
  BY <1>1, <1>2, <1>5, <1>6, TakesOfFiles

LEMMA TurnFileData ==
    ASSUME Inv, Dialogue, NEW dropped \in BOOLEAN, FileData(dropped)
    PROVE  Dialogue'
<1>1. /\ snd' = snd /\ toR # <<>> /\ toR' = Tail(toR) /\ Head(toR).type = "data"
      /\ rcv.pc = "files"
      /\ Answers(IF rcv.current = None THEN rcv
                 ELSE IF dropped THEN [rcv EXCEPT !.pc = "error"]
                 ELSE [rcv EXCEPT !.bodies = @ \cup {rcv.current}], <<>>)
  BY DEF FileData, ReceiverGets
<1>2. FilesPhase /\ toS \in Seq(ToSender) /\ rcv \in Receiver
  BY <1>1, ReceiverHears DEF Inv, TypeOK
<1>3. rcv.current # None
  BY <1>1, <1>2, OneTaken, Types DEF FilesPhase, BeforeFirst
<1>4. /\ toS' = toS
      /\ \/ rcv' = [rcv EXCEPT !.pc = "error"]
         \/ rcv' = [rcv EXCEPT !.bodies = @ \cup {rcv.current}]
  BY <1>1, <1>2, <1>3, ReceiverSilent
<1>5. /\ rcv'.pc \in {"files", "error"} /\ rcv'.pin = rcv.pin
      /\ rcv'.knows = rcv.knows /\ rcv'.outcome = rcv.outcome
      /\ rcv'.current = rcv.current
      /\ rcv'.pc = "files" => rcv'.current \in rcv'.bodies
  BY <1>1, <1>2, <1>4 DEF Receiver
<1>6. \A i \in 1..Len(toS') : toS'[i].type = "result"
  BY <1>2, <1>4 DEF FilesPhase
<1> QED
  BY <1>1, <1>2, <1>3, <1>5, <1>6, TakesOfFiles

LEMMA TurnFileStatus ==
    ASSUME Inv, Dialogue, NEW ok \in BOOLEAN, FileStatus(ok)
    PROVE  Dialogue'
<1>1. FilesPhase
  BY DEF FileStatus, Dialogue, Nonces, Tokens, SenderChallenged, ReceiverChallenged, Listed,
         ReceiverGone, SenderGone
<1>2. /\ snd' = snd /\ toR' = toR /\ toS' = toS /\ rcv.current # None /\ rcv.pc = "files"
      /\ rcv' = [rcv EXCEPT !.result = IF ok THEN "ok" ELSE "failed"] /\ rcv \in Receiver
  BY DEF FileStatus, Inv, TypeOK
<1>3. /\ rcv'.pc = rcv.pc /\ rcv'.pin = rcv.pin /\ rcv'.knows = rcv.knows
      /\ rcv'.outcome = rcv.outcome /\ rcv'.current = rcv.current /\ rcv'.bodies = rcv.bodies
  BY <1>2 DEF Receiver
<1>4. FilesPhase'
  BY <1>1, <1>2, <1>3
     DEF FilesPhase, SenderKnown, ReceiverKnown, Paired, BeforeFirst, DataComes, EndComes,
         NothingEnded, Silence, Open
<1> QED
  BY <1>4 DEF Dialogue

\* The receiver is only confused by the end of no file.
LEMMA ConfusedByEnd ==
    ASSUME Inv, Dialogue, ReceiverConfused
    PROVE  /\ FilesPhase /\ rcv.pc = "files" /\ rcv.current = None /\ toS = <<>>
           /\ toR = <<Plain("delimiter")>> /\ snd.pc = "last" /\ snd.sent = {}
<1>1. /\ toR # <<>> /\ toR \in Seq(ToReceiver)
      /\ rcv.pc \in {"nonce", "token", "verify", "status", "pinResult", "files"}
      /\ Head(toR).type \notin AwaitedByReceiver[rcv.pc]
  BY DEF ReceiverConfused, AwaitedByReceiver, Inv, TypeOK
<1>2. rcv.pc # "nonce" /\ rcv.pc # "token" /\ rcv.pc # "verify"
  BY <1>1, ReceiverHears, OneTaken, Types DEF AwaitedByReceiver
<1>3. rcv.pc \notin {"status", "pinResult"}
  BY <1>1, ReceiverHears, OneTaken, Types DEF AwaitedByReceiver
<1>4. rcv.pc = "files" /\ FilesPhase
  BY <1>1, <1>2, <1>3, ReceiverHears
<1>5. Head(toR).type \in {"header", "data", "delimiter"}
  <2>1. 1 \in 1..Len(toR) /\ Head(toR) = toR[1]
    BY <1>1
  <2> QED
    BY <1>4, <2>1 DEF FilesPhase, Paired
<1>6. rcv.current = None /\ Head(toR).type = "delimiter"
  BY <1>1, <1>4, <1>5 DEF AwaitedByReceiver
<1> QED
  BY <1>1, <1>4, <1>6 DEF FilesPhase, BeforeFirst

LEMMA TurnReceiverConfused == ASSUME Inv, Dialogue, ReceiverConfused PROVE Dialogue'
<1>1. /\ FilesPhase /\ rcv.pc = "files" /\ rcv.current = None /\ toS = <<>>
      /\ toR = <<Plain("delimiter")>> /\ snd.pc = "last" /\ snd.sent = {}
  BY ConfusedByEnd
<1>2. /\ rcv' = [rcv EXCEPT !.pc = "confused"] /\ rcv \in Receiver /\ snd' = snd
      /\ toS' = <<>> /\ toR' = <<>>
  BY <1>1, OneTaken DEF ReceiverConfused, Inv, TypeOK
<1>3. rcv'.pc = "confused" /\ rcv'.pin = rcv.pin /\ rcv'.knows = rcv.knows
  BY <1>2 DEF Receiver
<1>4. FilesPhase'
  BY <1>1, <1>2, <1>3
     DEF FilesPhase, SenderKnown, ReceiverKnown, Paired, BeforeFirst, DataComes, EndComes,
         NothingEnded, Silence, Chosen, Ends
<1> QED
  BY <1>4 DEF Dialogue

-----------------------------------------------------------------------------
(* The functions and the network. *)

\* What is left of a channel is its start.
LEMMA CutStart ==
    ASSUME NEW S, NEW q \in Seq(S), NEW r, r = q \/ \E n \in Nat : r \in Cut(q, n)
    PROVE  /\ r \in Seq(S) /\ Len(r) \in 0..Len(q)
           /\ \A i \in 1..Len(r) : r[i] = q[i]
           /\ r # <<>> => q # <<>> /\ Head(r) = Head(q)
           /\ q = <<>> => r = <<>>
           /\ \A m : q = <<m>> => r = <<>> \/ r = <<m>>
<1>1. Len(q) \in Nat
  OBVIOUS
<1>2. /\ r \in Seq(S) /\ Len(r) \in 0..Len(q)
      /\ \A i \in 1..Len(r) : r[i] = q[i]
  <2>1. CASE r = q
    BY <1>1, <2>1
  <2>2. CASE \E n \in Nat : r \in Cut(q, n)
    <3>1. PICK n \in Nat : r \in Cut(q, n)
      BY <2>2
    <3>2. PICK k \in n..Len(q) : r = SubSeq(q, 1, k)
      BY <3>1 DEF Cut
    <3>3. k \in Nat /\ k <= Len(q)
      BY <1>1, <3>2
    <3>4. r \in Seq(S)
      BY <3>1, CutType
    <3>5. Len(r) = k /\ \A i \in 1..k : r[i] = q[i]
      <4>1. \A i \in 1..k : q[i] \in S
        BY <1>1, <3>3, ElementOfSeq
      <4> QED
        BY <3>2, <3>3, <4>1, SubSeqProperties
    <3> QED
      BY <1>1, <3>3, <3>4, <3>5
  <2> QED
    BY <2>1, <2>2
<1>3. r # <<>> => Len(r) # 0
  BY <1>2, EmptySeq
<1>4. r # <<>> => q # <<>> /\ Head(r) = Head(q)
  <2> SUFFICES ASSUME r # <<>> PROVE q # <<>> /\ Head(r) = Head(q)
    OBVIOUS
  <2>1. 1 \in 1..Len(r) /\ Len(q) # 0
    BY <1>1, <1>2, <1>3
  <2>2. q # <<>>
    <3>1. q = <<>> => Len(q) = 0
      OBVIOUS
    <3> QED
      BY <2>1, <3>1
  <2> QED
    BY <1>2, <2>1, <2>2
<1>5. ASSUME NEW m, q = <<m>>, r # <<>> PROVE r = <<m>>
  <2>1. Len(q) = 1 /\ q[1] = m
    BY <1>5
  <2>2. Len(r) = 1 /\ r[1] = m
    BY <1>2, <1>3, <1>5, <2>1
  <2>3. r = [i \in 1..1 |-> r[i]]
    BY <1>2, <2>2
  <2>4. <<m>> = [i \in 1..1 |-> m]
    OBVIOUS
  <2> QED
    BY <2>2, <2>3, <2>4
<1> QED
  BY <1>2, <1>4, <1>5

\* A side that keeps its place, and messages that are lost with the connection,
\* leave the turns as they are.
LEMMA LossKeeps ==
    ASSUME Inv, Dialogue,
           toR' = toR \/ \E n \in Nat : toR' \in Cut(toR, n),
           toS' = toS \/ \E n \in Nat : toS' \in Cut(toS, n),
           (toR' = toR /\ toS' = toS /\ Open' = Open) \/ ~Open',
           snd'.pc = snd.pc, snd'.pin = snd.pin, snd'.knows = snd.knows, snd'.sent = snd.sent,
           rcv'.pc = rcv.pc, rcv'.pin = rcv.pin, rcv'.knows = rcv.knows,
           rcv'.selection = rcv.selection, rcv'.current = rcv.current, rcv'.bodies = rcv.bodies
    PROVE  Dialogue'
<1>1. toR \in Seq(ToReceiver) /\ toS \in Seq(ToSender)
  BY DEF Inv, TypeOK
<1>2. /\ Len(toR') \in 0..Len(toR) /\ \A i \in 1..Len(toR') : toR'[i] = toR[i]
      /\ toR' # <<>> => toR # <<>> /\ Head(toR') = Head(toR)
      /\ toR = <<>> => toR' = <<>>
      /\ \A m : toR = <<m>> => toR' = <<>> \/ toR' = <<m>>
  BY <1>1, CutStart
<1>3. /\ Len(toS') \in 0..Len(toS) /\ \A i \in 1..Len(toS') : toS'[i] = toS[i]
      /\ toS = <<>> => toS' = <<>>
      /\ \A m : toS = <<m>> => toS' = <<>> \/ toS' = <<m>>
  BY <1>1, CutStart
<1>4. /\ Silence => Silence'
      /\ SenderKnown => SenderKnown'
      /\ ReceiverKnown => ReceiverKnown'
  BY <1>2, <1>3 DEF Silence, SenderKnown, ReceiverKnown
<1>5. \A m : ToReceiverIs(m) => toS' = <<>> /\ (toR' = <<m>> \/ (toR' = <<>> /\ ~Open'))
  BY <1>2, <1>3 DEF ToReceiverIs
<1>6. \A m : ToSenderIs(m) => toR' = <<>> /\ (toS' = <<m>> \/ (toS' = <<>> /\ ~Open'))
  BY <1>2, <1>3 DEF ToSenderIs
<1>7. Nonces => Nonces'
  BY <1>4, <1>5, <1>6 DEF Nonces, ToReceiverIs, ToSenderIs
<1>8. Tokens => Tokens'
  BY <1>5, <1>6 DEF Tokens, ToReceiverIs, ToSenderIs
<1>9. SenderChallenged => SenderChallenged'
  BY <1>4, <1>5, <1>6 DEF SenderChallenged, ToReceiverIs, ToSenderIs
<1>10. ReceiverChallenged => ReceiverChallenged'
  BY <1>4, <1>5, <1>6 DEF ReceiverChallenged, ToReceiverIs, ToSenderIs
<1>11. Listed => Listed'
  BY <1>4, <1>5, <1>6 DEF Listed, ToReceiverIs, ToSenderIs
<1>12. ReceiverGone => ReceiverGone'
  BY <1>2, <1>3 DEF ReceiverGone
<1>13. SenderGone => SenderGone'
  BY <1>2, <1>3 DEF SenderGone
<1>14. ASSUME FilesPhase PROVE FilesPhase'
  <2>1. Paired'
    <3> SUFFICES ASSUME NEW i \in 1..Len(toR')
                 PROVE  /\ toR'[i].type \in {"header", "data", "delimiter"}
                        /\ toR'[i].type = "header" =>
                              IF i < Len(toR') THEN toR'[i + 1].type = "data" ELSE ~Open'
      BY DEF Paired
    <3>1. i \in 1..Len(toR) /\ toR'[i] = toR[i]
      BY <1>1, <1>2
    <3>2. i < Len(toR') => i < Len(toR) /\ toR'[i + 1] = toR[i + 1]
      BY <1>1, <1>2
    <3>3. CASE ~Open'
      BY <1>14, <3>1, <3>2, <3>3 DEF FilesPhase, Paired
    <3>4. CASE toR' = toR /\ Open' = Open
      BY <1>14, <3>1, <3>4 DEF FilesPhase, Paired
    <3> QED
      BY <3>3, <3>4
  <2>2. BeforeFirst' /\ DataComes' /\ NothingEnded'
    BY <1>2, <1>3, <1>4, <1>14 DEF FilesPhase, BeforeFirst, DataComes, NothingEnded
  <2>3. EndComes'
    BY <1>14 DEF FilesPhase, EndComes
  <2>4. \A i \in 1..Len(toS') : toS'[i].type = "result"
    <3>1. \A i \in 1..Len(toS') : i \in 1..Len(toS)
      BY <1>1, <1>3
    <3> QED
      BY <1>3, <1>14, <3>1 DEF FilesPhase
  <2> QED
    BY <1>4, <1>14, <2>1, <2>2, <2>3, <2>4 DEF FilesPhase
<1> QED
  BY <1>7, <1>8, <1>9, <1>10, <1>11, <1>12, <1>13, <1>14 DEF Dialogue

LEMMA TurnReturns ==
    ASSUME Inv, Dialogue, SenderReturns \/ ReceiverReturns \/ Disconnected
    PROVE  Dialogue'
<1>1. snd \in Sender /\ rcv \in Receiver /\ toR \in Seq(ToReceiver)
  BY DEF Inv, TypeOK
<1>2. /\ snd'.pc = snd.pc /\ snd'.pin = snd.pin /\ snd'.knows = snd.knows
      /\ snd'.sent = snd.sent
  BY <1>1 DEF SenderReturns, ReceiverReturns, Disconnected, Sender
<1>3. /\ rcv'.pc = rcv.pc /\ rcv'.pin = rcv.pin /\ rcv'.knows = rcv.knows
      /\ rcv'.selection = rcv.selection /\ rcv'.current = rcv.current
      /\ rcv'.bodies = rcv.bodies
  BY <1>1 DEF SenderReturns, ReceiverReturns, Disconnected, Receiver
<1>4. /\ toR' = toR \/ \E n \in Nat : toR' \in Cut(toR, n)
      /\ toS' = toS \/ \E n \in Nat : toS' \in Cut(toS, n)
  <2>1. toR # <<>> => Len(toR) - 1 \in Nat
    BY <1>1, EmptySeq
  <2> QED
    BY <2>1 DEF SenderReturns, ReceiverReturns, Disconnected
<1>5. (toR' = toR /\ toS' = toS /\ Open' = Open) \/ ~Open'
  <2>1. CASE SenderReturns
    BY <1>1, <2>1 DEF SenderReturns, Open, Sender
  <2>2. CASE ReceiverReturns
    BY <1>1, <2>2 DEF ReceiverReturns, Open, Receiver
  <2>3. CASE Disconnected
    BY <1>1, <2>3 DEF Disconnected, Open, Sender, Receiver
  <2> QED
    BY <2>1, <2>2, <2>3
<1> QED
  BY <1>2, <1>3, <1>4, <1>5, LossKeeps

LEMMA TurnNoPin == ASSUME Inv, Dialogue, NoPin PROVE Dialogue'
<1>1. snd \in Sender /\ rcv \in Receiver
  BY DEF Inv, TypeOK
<1>2. CASE snd.pc = "askPin" /\ snd' = [snd EXCEPT !.pc = "error"] /\ UNCHANGED <<rcv, toR, toS>>
  <2>1. rcv.pc = "verify" /\ Silence
    BY <1>2 DEF Dialogue, Nonces, Tokens, SenderChallenged, ReceiverChallenged, Listed,
                ReceiverGone, SenderGone, FilesPhase
  <2> QED
    BY <1>2, <2>1, SenderFails DEF Silence, Sending, Ends
<1>3. CASE rcv.pc = "askPin" /\ rcv' = [rcv EXCEPT !.pc = "error"] /\ UNCHANGED <<snd, toR, toS>>
  <2>1. snd.pc = "verify" /\ Silence
    BY <1>3 DEF Dialogue, Nonces, Tokens, SenderChallenged, ReceiverChallenged, Listed,
                ReceiverGone, SenderGone, FilesPhase, Chosen, Ends
  <2> QED
    BY <1>3, <2>1, ReceiverFails DEF Silence
<1> QED
  BY <1>2, <1>3 DEF NoPin

-----------------------------------------------------------------------------
(* The invariant. *)

LEMMA InitDialogue == Init => Dialogue
<1> SUFFICES ASSUME Init PROVE Dialogue
  OBVIOUS
<1>1. snd.pc = "open" /\ rcv.pc = "nonce" /\ Silence
  BY DEF Init, Silence
<1> QED
  BY <1>1 DEF Dialogue, Nonces

LEMMA NextDialogue == Inv /\ Dialogue /\ [Next]_vars => Dialogue'
<1> SUFFICES ASSUME Inv, Dialogue, [Next]_vars PROVE Dialogue'
  OBVIOUS
<1>1. CASE SenderTask
  <2>1. CASE SendNonce \/ SendToken \/ SenderPinResult \/ VerifyReceiver \/ ListResponse
             \/ NoMoreFiles \/ LastResponse
    BY <2>1, TurnSendNonce, TurnSendToken, TurnSenderPinResult, TurnVerifyReceiver,
       TurnListResponse, TurnNoMoreFiles, TurnLastResponse
  <2> QED
    BY <1>1, <2>1, TurnTokenResponse, TurnSenderPin, TurnSendFile DEF SenderTask
<1>2. CASE ReceiverTask
  <2>1. CASE ReturnNonce \/ VerifySender \/ SenderStatus \/ FirstHeader \/ FileEnds
             \/ ReceiverConfused
    BY <2>1, TurnReturnNonce, TurnVerifySender, TurnSenderStatus, TurnFirstHeader,
       TurnFileEnds, TurnReceiverConfused
  <2>2. ASSUME NEW b \in BOOLEAN,
               TokenRequest(b) \/ ReceiverPin(b) \/ Decline(b) \/ FileData(b) \/ FileStatus(b)
        PROVE  Dialogue'
    BY <2>2, TurnTokenRequest, TurnReceiverPin, TurnDecline, TurnFileData, TurnFileStatus
  <2> QED
    BY <1>2, <2>1, <2>2, TurnSelect DEF ReceiverTask
<1>3. CASE NoPin \/ SenderReturns \/ ReceiverReturns \/ Disconnected
  BY <1>3, TurnNoPin, TurnReturns
<1>4. CASE UNCHANGED vars
  <2>1. snd' = snd /\ rcv' = rcv /\ toR' = toR /\ toS' = toS
    BY <1>4 DEF vars
  <2>2. Open' = Open
    BY <2>1 DEF Open
  <2> QED
    BY <2>1, <2>2, LossKeeps
<1> QED
  BY <1>1, <1>2, <1>3, <1>4 DEF Next

LEMMA AlwaysDialogue == Spec => [](Inv /\ Dialogue)
<1>1. Init => Inv /\ Dialogue
  BY InitInv, InitDialogue
<1>2. Inv /\ Dialogue /\ [Next]_vars => (Inv /\ Dialogue)'
  BY NextInv, NextDialogue
<1> QED
  BY <1>1, <1>2, PTL DEF Spec

-----------------------------------------------------------------------------
(* What follows from the turns. *)

\* No file leaves the sender before the receiver's user selected it and every
\* PIN that is asked for was given: ConsentBeforeFiles, for all files and tries.
THEOREM ConsentCorrect == Spec => []ConsentBeforeFiles
<1>1. Inv /\ Dialogue => ConsentBeforeFiles
  <2> SUFFICES ASSUME Inv, Dialogue, snd.sent # {}
               PROVE  /\ snd.sent \subseteq rcv.selection
                      /\ SenderKnown /\ ReceiverKnown
    BY DEF ConsentBeforeFiles, SenderKnown, ReceiverKnown
  <2>1. snd.sent \subseteq rcv.selection /\ snd.pc \in Sending
    BY DEF Inv, SelectionInv
  <2>2. FilesPhase
    BY <2>1 DEF Dialogue, Nonces, Tokens, SenderChallenged, ReceiverChallenged, Listed,
                ReceiverGone, SenderGone, Sending, Ends
  <2> QED
    BY <2>1, <2>2 DEF FilesPhase
<1> QED
  BY <1>1, AlwaysDialogue, PTL

\* The two tasks never wait for each other over an open connection, whatever
\* PINs are asked for and however often they are wrong: NoMutualWait.
THEOREM NoMutualWaitCorrect == Spec => []NoMutualWait
<1>1. Inv /\ Dialogue => NoMutualWait
  <2> SUFFICES ASSUME Inv, Dialogue, snd.outcome = "running", rcv.outcome = "running",
                      toS = <<>>, toR = <<>>, snd.pc \in DOMAIN Awaited \cup {"last"},
                      rcv.pc \in DOMAIN AwaitedByReceiver
               PROVE  FALSE
    BY DEF NoMutualWait
  <2>1. Open
    BY DEF Open
  <2>2. snd.pc \in {"nonce", "token", "pinResult", "verify", "list", "last"}
    BY DEF Awaited
  <2>3. rcv.pc \in {"nonce", "token", "verify", "status", "pinResult", "files"}
    BY DEF AwaitedByReceiver
  <2>4. \A m : ~ToReceiverIs(m) /\ ~ToSenderIs(m)
    BY <2>1, OneTaken DEF ToReceiverIs, ToSenderIs
  <2>5. FilesPhase
    BY <2>2, <2>3, <2>4 DEF Dialogue, Nonces, Tokens, SenderChallenged, ReceiverChallenged,
                            Listed, ReceiverGone, SenderGone
  <2>6. snd.pc = "last" /\ rcv.pc = "files"
    BY <2>2, <2>3, <2>5 DEF FilesPhase, Chosen, Ends
  <2>7. \E i \in 1..Len(toR) : TRUE
    BY <2>1, <2>5, <2>6 DEF FilesPhase, EndComes
  <2>8. Len(toR) = 0
    OBVIOUS
  <2> QED
    BY <2>7, <2>8
<1> QED
  BY <1>1, AlwaysDialogue, PTL

\* Each side can parse what the other one sends, but for the end of a transfer
\* of no file: Understood.
THEOREM UnderstoodCorrect == Spec => []Understood
<1>1. Inv /\ Dialogue => Understood
  <2> SUFFICES ASSUME Inv, Dialogue PROVE Understood
    OBVIOUS
  <2>1. ASSUME snd.pc \in DOMAIN Awaited, toS # <<>>
        PROVE  Head(toS).type \in Awaited[snd.pc]
    <3>1. snd.pc \in {"nonce", "token", "pinResult", "verify", "list"}
      BY <2>1 DEF Awaited
    <3>2. CASE snd.pc = "nonce"
      BY <2>1, <3>2, SenderHears, OneTaken, Types DEF Awaited
    <3>3. CASE snd.pc = "token"
      BY <2>1, <3>3, SenderHears, OneTaken, Types DEF Awaited
    <3>4. CASE snd.pc = "pinResult"
      BY <2>1, <3>4, SenderHears, OneTaken, Types DEF Awaited
    <3>5. CASE snd.pc = "verify"
      BY <2>1, <3>5, SenderHears, OneTaken, Types DEF Awaited
    <3>6. CASE snd.pc = "list"
      BY <2>1, <3>6, SenderHears, OneTaken, Types DEF Awaited
    <3> QED
      BY <3>1, <3>2, <3>3, <3>4, <3>5, <3>6
  <2>2. ASSUME rcv.pc = "confused" PROVE snd.pc = "last" /\ snd.sent = {}
    BY <2>2 DEF Dialogue, Nonces, Tokens, SenderChallenged, ReceiverChallenged, Listed,
                ReceiverGone, SenderGone, FilesPhase, NothingEnded
  <2> QED
    BY <2>1, <2>2 DEF Understood
<1> QED
  BY <1>1, AlwaysDialogue, PTL

-----------------------------------------------------------------------------
(* Results. *)

\* What is under way to the sender may be cut, taken and appended to, and the
\* application be given more.
LEMMA ToldKept ==
    ASSUME toS \in Seq(Told(rcv.bodies)), rcv.bodies \subseteq rcv'.bodies,
           \/ toS' = toS
           \/ toS # <<>> /\ toS' = Tail(toS)
           \/ \E n \in Nat : toS' \in Cut(toS, n)
           \/ \E out \in Seq(Told(rcv.bodies)) : toS' = toS \o out
    PROVE  toS' \in Seq(Told(rcv'.bodies))
<1>1. toS' \in Seq(Told(rcv.bodies))
  BY Taken, CutType, Appended
<1>2. Told(rcv.bodies) \subseteq Told(rcv'.bodies)
  BY DEF Told
<1> QED
  BY <1>1, <1>2

\* What the sender does gives no verdict.
LEMMA SenderTells == ASSUME Inv, Verdicts, SenderTask PROVE Verdicts'
<1>1. rcv' = rcv
  BY DEF SenderTask, SendNonce, SendToken, TokenResponse, SenderPin, SenderPinResult,
         VerifyReceiver, ListResponse, SendFile, NoMoreFiles, LastResponse, SenderGets
<1>2. toS' = toS \/ (toS # <<>> /\ toS' = Tail(toS))
  BY DEF SenderTask, SendNonce, SendToken, TokenResponse, SenderPin, SenderPinResult,
         VerifyReceiver, ListResponse, SendFile, NoMoreFiles, LastResponse, SenderGets
<1> QED
  BY <1>1, <1>2, ToldKept DEF Verdicts

\* The receiver goes on with the same file and the same verdict, or without one.
LEMMA ReceiverTells ==
    ASSUME Inv, Verdicts, NEW new \in Receiver, NEW out \in Seq(Told(rcv.bodies)),
           Answers(new, out), rcv.bodies \subseteq new.bodies,
           new.result = "ok" => new.current \in new.bodies
    PROVE  Verdicts'
<1>1. rcv \in Receiver
  BY DEF Inv, TypeOK
<1>2. rcv' = new \/ rcv' = [rcv EXCEPT !.pc = "error"]
  BY DEF Answers
<1>3. rcv.bodies \subseteq rcv'.bodies /\ (rcv'.result = "ok" => rcv'.current \in rcv'.bodies)
  BY <1>1, <1>2 DEF Receiver, Verdicts
<1>4. toS' = toS \/ toS' = toS \o out
  BY DEF Answers
<1> QED
  BY <1>3, <1>4, ToldKept DEF Verdicts

\* Messages that are no results tell nothing.
LEMMA TellsNothing ==
    /\ \A m \in ToSender : \A files : m.type # "result" => <<m>> \in Seq(Told(files))
    /\ \A files : <<>> \in Seq(Told(files))
<1>1. ASSUME NEW m \in ToSender, NEW files, m.type # "result"
      PROVE  <<m>> \in Seq(Told(files))
  <2>1. m \in Told(files)
    BY <1>1 DEF Told
  <2> QED
    BY <2>1
<1> QED
  BY <1>1

LEMMA NoResults ==
    /\ \A t \in {"nonce", "tokenOk", "tokenPin", "invalid", "pinOk", "pinRequired",
                 "tooMany", "declined"} :
         \A files : <<Plain(t)>> \in Seq(Told(files))
    /\ \A right \in BOOLEAN : \A files : <<Pin(right)>> \in Seq(Told(files))
    /\ \A chosen \in SUBSET Files : \A files :
         <<[type |-> "selection", files |-> chosen]>> \in Seq(Told(files))
<1>1. \A t \in {"nonce", "tokenOk", "tokenPin", "invalid", "pinOk", "pinRequired",
                "tooMany", "declined"} : Plain(t) \in ToSender /\ Plain(t).type # "result"
  BY DEF ToSender, Plain
<1>2. \A right \in BOOLEAN : Pin(right) \in ToSender /\ Pin(right).type # "result"
  BY DEF ToSender, Pin
<1>3. \A chosen \in SUBSET Files :
        /\ [type |-> "selection", files |-> chosen] \in ToSender
        /\ [type |-> "selection", files |-> chosen].type # "result"
  BY DEF ToSender
<1> QED
  BY <1>1, <1>2, <1>3, TellsNothing

\* Before the files there is no result.
LEMMA TellsBeforeFiles ==
    ASSUME Inv, Verdicts,
           \/ ReturnNonce \/ VerifySender \/ SenderStatus
           \/ \E b \in BOOLEAN : TokenRequest(b) \/ ReceiverPin(b) \/ Decline(b)
    PROVE  Verdicts'
<1>1. rcv \in Receiver /\ rcv.tries \in Tries
  BY DEF Inv, TypeOK, Receiver
<1>2. ASSUME NEW new \in Receiver, NEW out \in Seq(Told(rcv.bodies)), Answers(new, out),
             new.bodies = rcv.bodies, new.current = rcv.current, new.result = rcv.result
      PROVE  Verdicts'
  BY <1>2, ReceiverTells DEF Verdicts
<1>3. ASSUME NEW pc \in ReceiverPlaces, NEW out \in Seq(Told(rcv.bodies)),
             Answers([rcv EXCEPT !.pc = pc], out)
      PROVE  Verdicts'
  <2> DEFINE new == [rcv EXCEPT !.pc = pc]
  <2>1. /\ new \in Receiver /\ new.bodies = rcv.bodies /\ new.current = rcv.current
        /\ new.result = rcv.result
    BY <1>1 DEF Receiver, ReceiverPlaces, Ends
  <2> HIDE DEF new
  <2>2. Answers(new, out)
    BY <1>3 DEF new
  <2> QED
    BY <1>2, <2>1, <2>2
<1>4. CASE ReturnNonce
  BY <1>3, <1>4, NoResults DEF ReturnNonce, ReceiverPlaces
<1>5. CASE VerifySender
  <2> DEFINE again == [rcv EXCEPT !.tries = @ + 1]
  <2>1. CASE Answers([rcv EXCEPT !.pc = "status"], <<Plain("pinOk")>>)
    BY <1>3, <2>1, NoResults DEF ReceiverPlaces
  <2>2. CASE Answers([rcv EXCEPT !.pc = "error"], <<Plain("tooMany")>>)
    BY <1>3, <2>2, NoResults DEF ReceiverPlaces
  <2>3. CASE ~ Exhausted(rcv.tries) /\ Answers(again, <<Plain("pinRequired")>>)
    <3>1. rcv.tries + 1 \in Tries
      BY <1>1, <2>3, NextTry
    <3>2. /\ again \in Receiver /\ again.bodies = rcv.bodies
          /\ again.current = rcv.current /\ again.result = rcv.result
      BY <1>1, <3>1 DEF Receiver
    <3> HIDE DEF again
    <3> QED
      BY <1>2, <2>3, <3>2, NoResults
  <2> QED
    BY <1>5, <2>1, <2>2, <2>3 DEF VerifySender, Verdict
<1>6. CASE SenderStatus
  <2> DEFINE pc == CASE Head(toR).type = "list"        -> "select"
                     [] Head(toR).type = "pinRequired" -> "askPin"
                     [] Head(toR).type = "tooMany"     -> "error"
  <2>1. Head(toR).type \in {"list", "pinRequired", "tooMany"}
    BY <1>6 DEF SenderStatus, ReceiverGets
  <2>2. pc \in ReceiverPlaces /\ Answers([rcv EXCEPT !.pc = pc], <<>>)
    BY <1>6, <2>1 DEF SenderStatus, ReceiverPlaces
  <2> HIDE DEF pc
  <2> QED
    BY <1>3, <2>2, TellsNothing
<1>7. ASSUME NEW valid \in BOOLEAN, TokenRequest(valid) PROVE Verdicts'
  <2>1. CASE Answers([rcv EXCEPT !.pc = "verify"], <<Plain("tokenPin")>>)
    BY <1>3, <2>1, NoResults DEF ReceiverPlaces
  <2>2. CASE Answers([rcv EXCEPT !.pc = "status"], <<Plain("tokenOk")>>)
    BY <1>3, <2>2, NoResults DEF ReceiverPlaces
  <2>3. CASE Answers([rcv EXCEPT !.pc = "error"], <<Plain("invalid")>>)
    BY <1>3, <2>3, NoResults DEF ReceiverPlaces
  <2> QED
    BY <1>7, <2>1, <2>2, <2>3 DEF TokenRequest, TokenReply
<1>8. ASSUME NEW right \in BOOLEAN, ReceiverPin(right) PROVE Verdicts'
  <2> DEFINE new == [rcv EXCEPT !.pc = "pinResult", !.knows = right]
  <2>1. /\ new \in Receiver /\ new.bodies = rcv.bodies
        /\ new.current = rcv.current /\ new.result = rcv.result
    BY <1>1 DEF Receiver
  <2>2. Answers(new, <<Pin(right)>>)
    BY <1>8 DEF ReceiverPin
  <2> HIDE DEF new
  <2> QED
    BY <1>2, <2>1, <2>2, NoResults
<1>9. ASSUME NEW declared \in BOOLEAN, Decline(declared) PROVE Verdicts'
  <2>1. (IF declared THEN <<Plain("declined")>> ELSE <<>>) \in Seq(Told(rcv.bodies))
    BY NoResults, TellsNothing
  <2> QED
    BY <1>3, <1>9, <2>1 DEF Decline, ReceiverPlaces, Ends
<1> QED
  BY <1>4, <1>5, <1>6, <1>7, <1>8, <1>9

LEMMA TellsSelect ==
    ASSUME Inv, Verdicts, NEW files \in SUBSET Files, Select(files)
    PROVE  Verdicts'
<1> DEFINE new == [rcv EXCEPT !.pc = "files", !.selection = files]
<1>1. rcv \in Receiver
  BY DEF Inv, TypeOK
<1>2. /\ new \in Receiver /\ new.bodies = rcv.bodies /\ new.current = rcv.current
      /\ new.result = rcv.result
  BY <1>1 DEF Receiver
<1>3. Answers(new, <<[type |-> "selection", files |-> files]>>)
  BY DEF Select
<1> HIDE DEF new
<1> QED
  BY <1>2, <1>3, ReceiverTells, NoResults DEF Verdicts

\* A verdict of success is given once the data of the file has been read.
LEMMA TellsFileStatus ==
    ASSUME Inv, Dialogue, Verdicts, NEW ok \in BOOLEAN, FileStatus(ok)
    PROVE  Verdicts'
<1>1. /\ rcv.pc = "files" /\ rcv.current # None /\ (ok => BodyEnded)
      /\ rcv' = [rcv EXCEPT !.result = IF ok THEN "ok" ELSE "failed"] /\ rcv \in Receiver
      /\ toS' = toS
  BY DEF FileStatus, Inv, TypeOK
<1>2. rcv'.bodies = rcv.bodies /\ rcv'.current = rcv.current /\ (rcv'.result = "ok" => ok)
  BY <1>1 DEF Receiver
<1>3. FilesPhase
  BY <1>1 DEF FileStatus, Dialogue, Nonces, Tokens, SenderChallenged, ReceiverChallenged,
              Listed, ReceiverGone, SenderGone
<1>4. ok => rcv.current \in rcv.bodies
  BY <1>1, <1>3 DEF FilesPhase, DataComes, BodyEnded
<1> QED
  BY <1>1, <1>2, <1>4, ToldKept DEF Verdicts

LEMMA BeginsWithout ==
    ASSUME Inv, NEW f
    PROVE  Begin(f).result = "none" /\ Begin(f).bodies = rcv.bodies
  BY DEF Begin, Inv, TypeOK, Receiver

LEMMA TellsFirstHeader == ASSUME Inv, Verdicts, FirstHeader PROVE Verdicts'
<1>1. /\ toR # <<>> /\ Head(toR).type = "header"
      /\ Answers(Begin(Head(toR).file), <<>>)
  BY DEF FirstHeader, ReceiverGets
<1>2. Begin(Head(toR).file) \in Receiver
  BY <1>1, FileOfHead, Begins
<1> QED
  BY <1>1, <1>2, BeginsWithout, ReceiverTells, TellsNothing

\* The result is the verdict on the file that ends.
LEMMA TellsFileEnds == ASSUME Inv, Verdicts, FileEnds PROVE Verdicts'
<1> DEFINE last == [rcv EXCEPT !.pc = "done", !.current = None, !.result = "none"]
<1>1. /\ rcv.current # None /\ toR # <<>>
      /\ Answers(IF Head(toR).type = "header" THEN Begin(Head(toR).file) ELSE last, <<Result>>)
  BY DEF FileEnds, ReceiverGets
<1>2. rcv \in Receiver /\ rcv.current \in Files
  BY <1>1 DEF Inv, TypeOK, Receiver
<1>3. <<Result>> \in Seq(Told(rcv.bodies))
  <2>1. Result \in ToSender
    BY <1>2 DEF Result, ToSender
  <2>2. Result.ok => Result.file \in rcv.bodies
    BY DEF Result, Verdicts
  <2> QED
    BY <2>1, <2>2 DEF Told
<1>4. CASE Head(toR).type = "header" /\ Answers(Begin(Head(toR).file), <<Result>>)
  <2>1. Begin(Head(toR).file) \in Receiver
    BY <1>1, <1>4, FileOfHead, Begins
  <2> QED
    BY <1>3, <1>4, <2>1, BeginsWithout, ReceiverTells
<1>5. CASE Answers(last, <<Result>>)
  <2>1. last \in Receiver /\ last.bodies = rcv.bodies /\ last.result = "none"
    BY <1>2 DEF Receiver, Ends
  <2> HIDE DEF last
  <2> QED
    BY <1>3, <1>5, <2>1, ReceiverTells
<1> QED
  BY <1>1, <1>4, <1>5

LEMMA TellsFileData ==
    ASSUME Inv, Verdicts, NEW dropped \in BOOLEAN, FileData(dropped)
    PROVE  Verdicts'
<1> DEFINE given == [rcv EXCEPT !.bodies = @ \cup {rcv.current}]
           failed == [rcv EXCEPT !.pc = "error"]
<1>1. rcv \in Receiver
  BY DEF Inv, TypeOK
<1>2. CASE Answers(rcv, <<>>)
  BY <1>1, <1>2, ReceiverTells, TellsNothing DEF Verdicts
<1>3. CASE Answers(failed, <<>>)
  <2>1. /\ failed \in Receiver /\ failed.bodies = rcv.bodies
        /\ failed.current = rcv.current /\ failed.result = rcv.result
    BY <1>1 DEF Receiver, Ends
  <2> HIDE DEF failed
  <2> QED
    BY <1>3, <2>1, ReceiverTells, TellsNothing DEF Verdicts
<1>4. CASE rcv.current # None /\ Answers(given, <<>>)
  <2>1. /\ given \in Receiver /\ given.bodies = rcv.bodies \cup {rcv.current}
        /\ given.current = rcv.current
    BY <1>1, <1>4 DEF Receiver
  <2> HIDE DEF given
  <2> QED
    BY <1>4, <2>1, ReceiverTells, TellsNothing
<1> QED
  BY <1>2, <1>3, <1>4 DEF FileData

\* What ends, fails or is lost gives no verdict.
LEMMA TellsRest ==
    ASSUME Inv, Verdicts,
           ReceiverConfused \/ NoPin \/ SenderReturns \/ ReceiverReturns \/ Disconnected
    PROVE  Verdicts'
<1>1. rcv \in Receiver
  BY DEF Inv, TypeOK
<1>2. rcv'.bodies = rcv.bodies /\ rcv'.current = rcv.current /\ rcv'.result = rcv.result
  BY <1>1 DEF ReceiverConfused, NoPin, SenderReturns, ReceiverReturns, Disconnected, Receiver
<1>3. toS' = toS \/ \E n \in Nat : toS' \in Cut(toS, n)
  BY DEF ReceiverConfused, NoPin, SenderReturns, ReceiverReturns, Disconnected
<1> QED
  BY <1>2, <1>3, ToldKept DEF Verdicts

LEMMA NextVerdicts == Inv /\ Dialogue /\ Verdicts /\ [Next]_vars => Verdicts'
<1> SUFFICES ASSUME Inv, Dialogue, Verdicts, [Next]_vars PROVE Verdicts'
  OBVIOUS
<1>1. CASE ReceiverTask
  BY <1>1, TellsBeforeFiles, TellsSelect, TellsFileStatus, TellsFirstHeader, TellsFileEnds,
     TellsFileData, TellsRest DEF ReceiverTask
<1>2. CASE UNCHANGED vars
  BY <1>2, ToldKept DEF vars, Verdicts
<1> QED
  BY <1>1, <1>2, SenderTells, TellsRest DEF Next

\* The sender hears of a success only for a file that was selected and whose
\* data the application was given: ResultMeansReceived.
THEOREM ResultsCorrect == Spec => []ResultMeansReceived
<1>1. Init => Verdicts
  <2>1. <<>> \in Seq(Told(rcv.bodies))
    BY TellsNothing
  <2> QED
    BY <2>1 DEF Init, Verdicts
<1>2. Inv /\ Verdicts => ResultMeansReceived
  <2> SUFFICES ASSUME Inv, Verdicts, NEW i \in 1..Len(toS), toS[i].type = "result", toS[i].ok
               PROVE  toS[i].file \in rcv.bodies \cap rcv.selection
    BY DEF ResultMeansReceived
  <2>1. toS[i] \in Told(rcv.bodies)
    BY ElementOfSeq DEF Verdicts
  <2>2. rcv.bodies \subseteq rcv.selection
    BY DEF Inv, SelectionInv
  <2> QED
    BY <2>1, <2>2 DEF Told
<1>3. Spec => []Verdicts
  <2>1. [](Inv /\ Dialogue) /\ Init /\ [][Next]_vars => []Verdicts
    BY <1>1, NextVerdicts, PTL
  <2> QED
    BY <2>1, AlwaysDialogue, PTL DEF Spec
<1> QED
  BY <1>2, <1>3, AlwaysDialogue, PTL

-----------------------------------------------------------------------------
(* The applications only delay a transfer. *)

LEMMA AppStep == [AppNext]_appVars => [Next]_vars
<1> SUFFICES ASSUME [AppNext]_appVars PROVE [Next]_vars
  OBVIOUS
<1>1. CASE AppSenderTask \/ AppReceiverTask
  BY <1>1 DEF AppSenderTask, AppReceiverTask, Next
<1>2. CASE AppSenderReturns \/ AppReceiverReturns \/ AppDisconnected \/ AppNoPin
  BY <1>2 DEF AppSenderReturns, AppReceiverReturns, AppDisconnected, AppNoPin, Next
<1>3. CASE ReportDue \/ Application
  BY <1>3 DEF ReportDue, Application, ListenSender, ListenReceiver, Hear, StorePin,
              ListenSelected, GetSelected, vars
<1>4. CASE UNCHANGED appVars
  BY <1>4 DEF appVars, vars
<1> QED
  BY <1>1, <1>2, <1>3, <1>4 DEF AppNext

\* Whatever the applications and their channels do, a transfer is one of those
\* of RtcTransfer.
THEOREM AppImplementsTransfer == AppSpec => Spec
<1>1. AppInit => Init
  BY DEF AppInit
<1> QED
  BY <1>1, AppStep, PTL DEF AppSpec, Spec

\* So it does what a transfer promises.
THEOREM AppImplementsPromise == AppSpec => ImplementsFileTransfer
BY AppImplementsTransfer, RtcImplements

-----------------------------------------------------------------------------
(* Types. *)

LEMMA ReportedType ==
    /\ \A old, new : Reported(old, new) \in {"none", "PinRequired", "Connected"}
    /\ \A old, message : DueAtEnd(old, message) \in {"none", "TooManyAttempts", "Declined"}
  BY DEF Reported, DueAtEnd

\* A controller after a step of its task.
LEMMA AfterType ==
    ASSUME NEW app \in Controller, NEW side, NEW new, NEW queue
    PROVE  /\ After(app, side, new, queue) \in Controller
           /\ After(app, side, new, queue).told = app.told
           /\ After(app, side, new, queue).status \in {app.status, "PinRequired", "Connected"}
<1>1. /\ Reported(side.pc, new) \in {"none", "PinRequired", "Connected"}
      /\ DueAtEnd(side.pc, Head(queue)) \in {"none", "TooManyAttempts", "Declined"}
  BY ReportedType
<1> QED
  BY <1>1 DEF After, Controller, Due, RTCStatus

\* The other changes of a controller.
LEMMA ControllerType ==
    ASSUME NEW app \in Controller
    PROVE  /\ Reports(app) => Report(app) \in Controller
           /\ \A outcome : Last(app, outcome) \in Controller
           /\ Hears(app) => Heard(app) \in Controller
           /\ [app EXCEPT !.listening = TRUE] \in Controller
           /\ [app EXCEPT !.pin = "stored"] \in Controller
           /\ [app EXCEPT !.due = "PinRequired"] \in Controller
<1>1. Reports(app) => Report(app) \in Controller
  BY DEF Controller, Due, RTCStatus, Reports, Report
<1>2. \A outcome : Last(app, outcome) \in Controller
  BY DEF Controller, RTCStatus, Last
<1>3. Hears(app) => Heard(app) \in Controller
  BY DEF Controller, RTCStatus, Hears, Heard
<1> QED
  BY <1>1, <1>2, <1>3 DEF Controller, Due

LEMMA AppTypeInit == AppInit => AppTypeOK
  BY DEF AppInit, AppTypeOK, NewController, Controller, Due, RTCStatus

LEMMA AppTypeStep ==
    ASSUME AppTypeOK, [AppNext]_appVars
    PROVE  AppTypeOK'
<1>1. CASE AppSenderTask
  BY <1>1, AfterType DEF AppTypeOK, AppSenderTask
<1>6. CASE AppReceiverTask
  <2>1. rApp' = After(rApp, rcv, rcv'.pc, toR) \/ rApp' = [rApp EXCEPT !.due = "PinRequired"]
    BY <1>6 DEF AppReceiverTask
  <2>2. /\ After(rApp, rcv, rcv'.pc, toR) \in Controller
        /\ [rApp EXCEPT !.due = "PinRequired"] \in Controller
    BY AfterType, ControllerType DEF AppTypeOK
  <2> QED
    BY <1>6, <2>1, <2>2 DEF AppTypeOK, AppReceiverTask
<1>2. CASE AppSenderReturns \/ AppReceiverReturns \/ AppDisconnected \/ AppNoPin
  BY <1>2, ControllerType DEF AppTypeOK, AppSenderReturns, AppReceiverReturns, AppDisconnected,
                              AppNoPin
<1>3. CASE ReportDue
  BY <1>3, ControllerType DEF AppTypeOK, ReportDue
<1>4. CASE Application
  <2>1. CASE ListenSender \/ ListenReceiver \/ StorePin
    BY <2>1, ControllerType DEF AppTypeOK, ListenSender, ListenReceiver, StorePin
  <2>2. CASE Hear
    BY <2>2, ControllerType DEF AppTypeOK, Hear
  <2>3. CASE ListenSelected \/ GetSelected
    BY <2>3 DEF AppTypeOK, ListenSelected, GetSelected
  <2> QED
    BY <1>4, <2>1, <2>2, <2>3 DEF Application
<1>5. CASE UNCHANGED appVars
  BY <1>5 DEF AppTypeOK, appVars
<1> QED
  BY <1>1, <1>2, <1>3, <1>4, <1>5, <1>6 DEF AppNext

\* The channels and slots hold what their types allow.
THEOREM AppTypeCorrect == AppSpec => []AppTypeOK
BY AppTypeInit, AppTypeStep, PTL DEF AppSpec

-----------------------------------------------------------------------------
(* An error is the last status. *)

\* A side whose function has reported an error is over: nothing is due, and the
\* error is what the channel holds or what the application was told.
ErrorIsEnd(app, side) ==
    "Error" \in {app.told, app.status} =>
       /\ side.outcome = "failed" /\ side.pc \in Ends /\ app.due = "none"
       /\ app.status = IF app.told = "Error" THEN "none" ELSE "Error"

ErrorInv == AppTypeOK /\ ErrorIsEnd(sApp, snd) /\ ErrorIsEnd(rApp, rcv)

\* A task runs at a place that is not its end, and leaves the other side alone.
LEMMA SenderTaskRuns == SenderTask => snd.pc \notin Ends /\ rcv' = rcv
  BY DEF SenderTask, SendNonce, SendToken, TokenResponse, SenderPin, SenderPinResult,
         VerifyReceiver, ListResponse, SendFile, NoMoreFiles, LastResponse, SenderGets, Ends

LEMMA ReceiverTaskRuns == ReceiverTask => rcv.pc \notin Ends /\ snd' = snd
<1>1. ReceiverConfused => rcv.pc \notin Ends /\ snd' = snd
  BY DEF ReceiverConfused, AwaitedByReceiver, Ends
<1>2. \A ok \in BOOLEAN : FileStatus(ok) => rcv.pc \notin Ends /\ snd' = snd
  BY DEF FileStatus, Ends
<1>3. SenderStatus => rcv.pc \notin Ends /\ snd' = snd
  BY DEF SenderStatus, ReceiverGets, Ends
<1> QED
  BY <1>1, <1>2, <1>3
     DEF ReceiverTask, ReturnNonce, TokenRequest, VerifySender, ReceiverPin, Select, Decline,
         FirstHeader, FileEnds, FileData, ReceiverGets, Ends

\* After a step of a task that runs there is no error yet.
LEMMA NoErrorAfter ==
    ASSUME NEW app \in Controller, NEW side, NEW new, NEW queue,
           ErrorIsEnd(app, side), side.pc \notin Ends
    PROVE  /\ "Error" \notin {After(app, side, new, queue).told, After(app, side, new, queue).status}
           /\ "Error" \notin {[app EXCEPT !.due = "PinRequired"].told,
                             [app EXCEPT !.due = "PinRequired"].status}
  BY AfterType DEF ErrorIsEnd, Controller

\* The last status of a function that returns.
LEMMA LastIsEnd ==
    ASSUME NEW app \in Controller, NEW old, NEW new, ErrorIsEnd(app, old),
           old.outcome = "running",
           \/ new.outcome = "closed"
           \/ new.outcome = "failed" /\ new.pc \in Ends /\ app.due = "none"
    PROVE  ErrorIsEnd(Last(app, new.outcome), new)
<1>1. app.told # "Error"
  BY DEF ErrorIsEnd
<1>2. /\ Last(app, new.outcome).told = app.told /\ Last(app, new.outcome).due = app.due
      /\ Last(app, new.outcome).status = IF new.outcome = "closed" THEN "Finished" ELSE "Error"
  BY DEF Last, Controller
<1> QED
  BY <1>1, <1>2 DEF ErrorIsEnd

\* The application hears it, or the task reports what is due.
LEMMA ChannelIsEnd ==
    ASSUME NEW app \in Controller, NEW side, ErrorIsEnd(app, side)
    PROVE  /\ Hears(app) => ErrorIsEnd(Heard(app), side)
           /\ Reports(app) => ErrorIsEnd(Report(app), side) /\ Report(app).told = app.told
           /\ ErrorIsEnd([app EXCEPT !.listening = TRUE], side)
           /\ ErrorIsEnd([app EXCEPT !.pin = "stored"], side)
<1>1. Hears(app) => ErrorIsEnd(Heard(app), side)
  BY DEF ErrorIsEnd, Hears, Heard, Controller, RTCStatus
<1>2. Reports(app) => ErrorIsEnd(Report(app), side) /\ Report(app).told = app.told
  BY DEF ErrorIsEnd, Reports, Report, Controller, Due, RTCStatus
<1> QED
  BY <1>1, <1>2 DEF ErrorIsEnd, Controller

LEMMA ErrorInit == AppInit => ErrorInv
  BY AppTypeInit DEF AppInit, NewController, ErrorInv, ErrorIsEnd

LEMMA ErrorStep ==
    ASSUME ErrorInv, [AppNext]_appVars
    PROVE  ErrorInv'
<1>1. /\ sApp \in Controller /\ rApp \in Controller /\ AppTypeOK'
      /\ ErrorIsEnd(sApp, snd) /\ ErrorIsEnd(rApp, rcv)
  BY AppTypeStep DEF ErrorInv, AppTypeOK
<1> SUFFICES ErrorIsEnd(sApp, snd)' /\ ErrorIsEnd(rApp, rcv)'
  BY <1>1 DEF ErrorInv
<1>2. CASE AppSenderTask
  <2>1. /\ snd.pc \notin Ends /\ rcv' = rcv /\ rApp' = rApp
        /\ sApp' = After(sApp, snd, snd'.pc, toS)
    BY <1>2, SenderTaskRuns DEF AppSenderTask
  <2>2. "Error" \notin {sApp'.told, sApp'.status}
    BY <1>1, <2>1, NoErrorAfter
  <2> QED
    BY <1>1, <2>1, <2>2 DEF ErrorIsEnd
<1>3. CASE AppReceiverTask
  <2>1. /\ rcv.pc \notin Ends /\ snd' = snd /\ sApp' = sApp
        /\ rApp' \in {After(rApp, rcv, rcv'.pc, toR), [rApp EXCEPT !.due = "PinRequired"]}
    BY <1>3, ReceiverTaskRuns DEF AppReceiverTask
  <2>2. "Error" \notin {rApp'.told, rApp'.status}
    BY <1>1, <2>1, NoErrorAfter
  <2> QED
    BY <1>1, <2>1, <2>2 DEF ErrorIsEnd
<1>4. CASE AppSenderReturns
  <2>1. /\ snd.outcome = "running" /\ rcv' = rcv /\ rApp' = rApp
        /\ sApp' = Last(sApp, snd'.outcome) /\ sApp.due = "none" /\ snd.pc \in Ends
        /\ snd' = [snd EXCEPT !.outcome = IF snd.pc = "done" THEN "closed" ELSE "failed"]
    BY <1>4 DEF AppSenderReturns, SenderReturns, MayReturn
  <2>2. CASE snd'.outcome = "closed" \/ (snd'.outcome = "failed" /\ snd'.pc \in Ends)
    <3>1. ErrorIsEnd(Last(sApp, snd'.outcome), snd')
      BY <1>1, <2>1, <2>2, LastIsEnd
    <3> QED
      BY <1>1, <2>1, <3>1 DEF ErrorIsEnd
  <2> QED
    BY <1>1, <2>1, <2>2
<1>5. CASE AppReceiverReturns
  <2>1. /\ rcv.outcome = "running" /\ snd' = snd /\ sApp' = sApp
        /\ rApp' = Last(rApp, rcv'.outcome) /\ rApp.due = "none" /\ rcv.pc \in Ends
        /\ rcv' = [rcv EXCEPT !.outcome = IF rcv.pc = "done" THEN "closed" ELSE "failed"]
    BY <1>5 DEF AppReceiverReturns, ReceiverReturns, MayReturn
  <2>2. CASE rcv'.outcome = "closed" \/ (rcv'.outcome = "failed" /\ rcv'.pc \in Ends)
    <3>1. ErrorIsEnd(Last(rApp, rcv'.outcome), rcv')
      BY <1>1, <2>1, <2>2, LastIsEnd
    <3> QED
      BY <1>1, <2>1, <3>1 DEF ErrorIsEnd
  <2> QED
    BY <1>1, <2>1, <2>2
<1>6. CASE AppDisconnected
  <2>1. CASE /\ snd.outcome = "running" /\ snd' = [snd EXCEPT !.outcome = "closed"]
             /\ rcv' = rcv /\ sApp' = Last(sApp, "closed") /\ rApp' = rApp
    <3>1. sApp.told # "Error"
      BY <1>1, <2>1 DEF ErrorIsEnd
    <3>2. sApp'.told = sApp.told /\ sApp'.status = "Finished"
      BY <1>1, <2>1 DEF Last, Controller
    <3> QED
      BY <1>1, <2>1, <3>1, <3>2 DEF ErrorIsEnd
  <2>2. CASE /\ rcv.outcome = "running" /\ rcv' = [rcv EXCEPT !.outcome = "closed"]
             /\ snd' = snd /\ rApp' = Last(rApp, "closed") /\ sApp' = sApp
    <3>1. rApp.told # "Error"
      BY <1>1, <2>2 DEF ErrorIsEnd
    <3>2. rApp'.told = rApp.told /\ rApp'.status = "Finished"
      BY <1>1, <2>2 DEF Last, Controller
    <3> QED
      BY <1>1, <2>2, <3>1, <3>2 DEF ErrorIsEnd
  <2> QED
    BY <1>6, <2>1, <2>2 DEF AppDisconnected, Disconnected
<1>7. CASE AppNoPin
  <2>1. UNCHANGED <<sApp, rApp>>
    BY <1>7 DEF AppNoPin
  <2>2. CASE snd.pc = "askPin" /\ rcv' = rcv
    BY <1>1, <2>1, <2>2 DEF ErrorIsEnd, Ends
  <2>3. CASE rcv.pc = "askPin" /\ snd' = snd
    BY <1>1, <2>1, <2>3 DEF ErrorIsEnd, Ends
  <2> QED
    BY <1>7, <2>2, <2>3 DEF AppNoPin, NoPin
<1>8. CASE ReportDue \/ Application
  <2>1. snd' = snd /\ rcv' = rcv
    BY <1>8 DEF ReportDue, Application, ListenSender, ListenReceiver, Hear, StorePin,
                ListenSelected, GetSelected
  <2>2. \/ sApp' = sApp
        \/ Hears(sApp) /\ sApp' = Heard(sApp)
        \/ Reports(sApp) /\ sApp' = Report(sApp)
        \/ sApp' \in {[sApp EXCEPT !.listening = TRUE], [sApp EXCEPT !.pin = "stored"]}
    BY <1>8 DEF ReportDue, Application, ListenSender, ListenReceiver, Hear, StorePin,
                ListenSelected, GetSelected
  <2>3. \/ rApp' = rApp
        \/ Hears(rApp) /\ rApp' = Heard(rApp)
        \/ Reports(rApp) /\ rApp' = Report(rApp)
        \/ rApp' \in {[rApp EXCEPT !.listening = TRUE], [rApp EXCEPT !.pin = "stored"]}
    BY <1>8 DEF ReportDue, Application, ListenSender, ListenReceiver, Hear, StorePin,
                ListenSelected, GetSelected
  <2>4. ErrorIsEnd(sApp', snd)
    BY <1>1, <2>2, ChannelIsEnd
  <2>5. ErrorIsEnd(rApp', rcv)
    BY <1>1, <2>3, ChannelIsEnd
  <2> QED
    BY <2>1, <2>4, <2>5 DEF ErrorIsEnd
<1>9. CASE UNCHANGED appVars
  BY <1>1, <1>9 DEF appVars, ErrorIsEnd
<1> QED
  BY <1>2, <1>3, <1>4, <1>5, <1>6, <1>7, <1>8, <1>9 DEF AppNext

\* What an application was told stays told, once it is an error.
LEMMA ErrorStays ==
    ASSUME NEW app \in Controller, NEW side, ErrorIsEnd(app, side), app.told = "Error"
    PROVE  /\ ~ Hears(app) /\ ~ Reports(app)
           /\ \A outcome : Last(app, outcome).told = "Error"
           /\ [app EXCEPT !.listening = TRUE].told = "Error"
           /\ [app EXCEPT !.pin = "stored"].told = "Error"
           /\ \A new, queue : After(app, side, new, queue).told = "Error"
           /\ [app EXCEPT !.due = "PinRequired"].told = "Error"
  BY DEF ErrorIsEnd, Hears, Reports, Last, After, Controller

\* An error is the last status that an application is told.
THEOREM ErrorIsTheLast == AppSpec => ErrorIsLast
<1>1. ASSUME ErrorInv, [AppNext]_appVars
      PROVE  /\ sApp.told = "Error" => sApp'.told = "Error"
             /\ rApp.told = "Error" => rApp'.told = "Error"
  <2>1. /\ sApp \in Controller /\ rApp \in Controller
        /\ ErrorIsEnd(sApp, snd) /\ ErrorIsEnd(rApp, rcv)
    BY <1>1 DEF ErrorInv, AppTypeOK
  <2>2. CASE AppSenderTask
    BY <2>1, <2>2, ErrorStays DEF AppSenderTask
  <2>6. CASE AppReceiverTask
    <3>1. /\ sApp' = sApp
          /\ \/ rApp' = After(rApp, rcv, rcv'.pc, toR)
             \/ rApp' = [rApp EXCEPT !.due = "PinRequired"]
      BY <2>6 DEF AppReceiverTask
    <3>2. ASSUME rApp.told = "Error"
          PROVE  /\ After(rApp, rcv, rcv'.pc, toR).told = "Error"
                 /\ [rApp EXCEPT !.due = "PinRequired"].told = "Error"
      BY <2>1, <3>2, ErrorStays
    <3> QED
      BY <3>1, <3>2
  <2>3. CASE AppSenderReturns \/ AppReceiverReturns \/ AppDisconnected \/ AppNoPin
    BY <2>1, <2>3, ErrorStays DEF AppSenderReturns, AppReceiverReturns, AppDisconnected, AppNoPin
  <2>4. CASE ReportDue \/ Application
    BY <2>1, <2>4, ErrorStays
       DEF ReportDue, Application, ListenSender, ListenReceiver, Hear, StorePin,
           ListenSelected, GetSelected
  <2>5. CASE UNCHANGED appVars
    BY <2>5 DEF appVars
  <2> QED
    BY <1>1, <2>2, <2>3, <2>4, <2>5, <2>6 DEF AppNext
<1> DEFINE Stays == /\ sApp.told = "Error" => sApp'.told = "Error"
                    /\ rApp.told = "Error" => rApp'.told = "Error"
<1>2. ErrorInv /\ [AppNext]_appVars => [Stays]_appVars
  BY <1>1
<1> QED
  BY <1>2, ErrorInit, ErrorStep, PTL DEF AppSpec, ErrorIsLast
=============================================================================
