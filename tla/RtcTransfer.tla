----------------------------- MODULE RtcTransfer -----------------------------
(***************************************************************************)
(* One transfer over a WebRTC data channel, webrtc.rs: send_offer of the   *)
(* sender and accept_offer of the receiver after their handshake.          *)
(*                                                                         *)
(* Each side runs a task that sends and awaits messages in a fixed order,  *)
(* beside the function that waits for the end of the task or for the state *)
(* "Disconnected" of the connection.  A function that returns after its    *)
(* task is done, or after a disconnect, closes the connection; one that    *)
(* returns the error of its task leaves it open.  After a disconnect the   *)
(* task is detached and goes on with what it has received.                 *)
(*                                                                         *)
(* The channel is reliable and ordered while it is open.  A message sent   *)
(* in chunks up to a delimiter is one message here.                        *)
(***************************************************************************)
EXTENDS Integers, Sequences

CONSTANTS
    Files,          \* the files offered
    None,           \* no file
    MaxTries        \* PinConfig.max_tries of both sides

ASSUME NoneAssumption == None \notin Files
ASSUME TriesAssumption == MaxTries \in 1..255

VARIABLES
    snd,            \* the sender
    rcv,            \* the receiver
    toR,            \* the messages to the receiver
    toS             \* the messages to the sender

vars == <<snd, rcv, toR, toS>>

-----------------------------------------------------------------------------
(* Data. *)

Plain(type) == [type |-> type]
Pin(right) == [type |-> "pin", right |-> right]

ToReceiver ==
    {Plain(t) : t \in {"nonce", "token", "pinRequired", "tooMany", "list", "delimiter"}}
       \cup {Pin(right) : right \in BOOLEAN}
       \cup [type: {"header", "data"}, file: Files]

ToSender ==
    {Plain(t) : t \in {"nonce", "tokenOk", "tokenPin", "invalid", "pinOk", "pinRequired",
                       "tooMany", "declined"}}
       \cup {Pin(right) : right \in BOOLEAN}
       \cup [type: {"selection"}, files: SUBSET Files]
       \cup [type: {"result"}, file: Files, ok: BOOLEAN]

\* How a task can end.
Ends == {"done", "error", "confused"}

\* Has the function returned?  "closed" has closed the connection.
Outcome == {"running", "closed", "failed"}

\* The wrong PINs of the other side so far, of which the last one is not counted.
Tries == 0..MaxTries - 1

Sender ==
    [pc: {"open", "nonce", "token", "askPin", "pinResult", "verify", "list", "files", "last"}
           \cup (Ends \ {"confused"}),
     outcome: Outcome, pin: BOOLEAN, knows: BOOLEAN, tries: Tries,
     tokens: SUBSET Files, sent: SUBSET Files]

Receiver ==
    [pc: {"nonce", "token", "verify", "status", "askPin", "pinResult", "select", "files"}
           \cup Ends,
     outcome: Outcome, pin: BOOLEAN, knows: BOOLEAN, tries: Tries,
     selection: SUBSET Files, current: Files \cup {None},
     result: {"none", "ok", "failed"}, bodies: SUBSET Files]

\* pin: does this side ask for a PIN?  knows: has its user entered the PIN of
\* the other side?
Init ==
    /\ \E pin \in BOOLEAN : snd =
         [pc |-> "open", outcome |-> "running", pin |-> pin, knows |-> FALSE, tries |-> 0,
          tokens |-> {}, sent |-> {}]
    /\ \E pin \in BOOLEAN : rcv =
         [pc |-> "nonce", outcome |-> "running", pin |-> pin, knows |-> FALSE, tries |-> 0,
          selection |-> {}, current |-> None, result |-> "none", bodies |-> {}]
    /\ toR = <<>>
    /\ toS = <<>>

-----------------------------------------------------------------------------
(* The channel. *)

Open == snd.outcome # "closed" /\ rcv.outcome # "closed"

\* What is left of q when only its first n messages are sure to arrive.
Cut(q, n) == {SubSeq(q, 1, k) : k \in n..Len(q)}

\* The sender's task goes on as new after sending out.  A detached task whose
\* own connection is closed ends with the error of its first send (in the loop
\* over the files, with the one of the delimiter, after reporting each file).
Sends(new, out) ==
    IF snd.outcome = "closed" /\ out # <<>>
      THEN /\ snd' = [snd EXCEPT !.pc = "error"]
           /\ UNCHANGED toR
      ELSE /\ snd' = new
           /\ toR' = IF Open THEN toR \o out ELSE toR

Answers(new, out) ==
    IF rcv.outcome = "closed" /\ out # <<>>
      THEN /\ rcv' = [rcv EXCEPT !.pc = "error"]
           /\ UNCHANGED toS
      ELSE /\ rcv' = new
           /\ toS' = IF Open THEN toS \o out ELSE toS

\* The next message for the sender, or the receiver, is of one of these types.
SenderGets(pc, types) ==
    /\ snd.pc = pc /\ toS # <<>> /\ Head(toS).type \in types
    /\ toS' = Tail(toS)
    /\ UNCHANGED rcv

ReceiverGets(pc, types) ==
    /\ rcv.pc = pc /\ toR # <<>> /\ Head(toR).type \in types
    /\ toR' = Tail(toR)
    /\ UNCHANGED snd

-----------------------------------------------------------------------------
(* PINs. *)

\* Mutant of Exhausted: one attempt too many.
ExhaustedLate(tries) == tries >= MaxTries

\* Is a wrong PIN after so many wrong ones the last one?
Exhausted(tries) == tries + 1 >= MaxTries

\* Mutant of Correct: any PIN will do.
AnyPin(message) == TRUE

Correct(message) == message.right

\* verify_pin gets a PIN: side goes on as next, asks again or gives up.  The
\* answer to a correct PIN is reply.
Verdict(side, message, next, reply) ==
    IF Correct(message) THEN <<[side EXCEPT !.pc = next], reply>>
    ELSE IF Exhausted(side.tries)
      THEN <<[side EXCEPT !.pc = "error"], <<Plain("tooMany")>>>>
      ELSE <<[side EXCEPT !.tries = @ + 1], <<Plain("pinRequired")>>>>

-----------------------------------------------------------------------------
(* The sender's task. *)

SendNonce ==
    /\ snd.pc = "open"
    /\ Sends([snd EXCEPT !.pc = "nonce"], <<Plain("nonce")>>)
    /\ UNCHANGED <<rcv, toS>>

SendToken ==
    /\ SenderGets("nonce", {"nonce"})
    /\ Sends([snd EXCEPT !.pc = "token"], <<Plain("token")>>)

\* Mutant of Challenge: the first notice is left out.
ChallengeSilently ==
    IF snd.pin THEN Sends([snd EXCEPT !.pc = "verify"], <<>>)
               ELSE Sends([snd EXCEPT !.pc = "list"], <<Plain("list")>>)

\* The receiver is satisfied: ask for the sender's PIN, or offer the files.
Challenge ==
    IF snd.pin THEN Sends([snd EXCEPT !.pc = "verify"], <<Plain("pinRequired")>>)
               ELSE Sends([snd EXCEPT !.pc = "list"], <<Plain("list")>>)

\* valid: the token matches the key expected of the receiver, if there is one.
TokenResponse(valid) ==
    /\ SenderGets("token", {"tokenOk", "tokenPin", "invalid"})
    /\ IF Head(toS).type = "invalid" \/ ~valid THEN Sends([snd EXCEPT !.pc = "error"], <<>>)
       ELSE IF Head(toS).type = "tokenPin" THEN Sends([snd EXCEPT !.pc = "askPin"], <<>>)
       ELSE Challenge

SenderPin(right) ==
    /\ snd.pc = "askPin"
    /\ Sends([snd EXCEPT !.pc = "pinResult", !.knows = right], <<Pin(right)>>)
    /\ UNCHANGED <<rcv, toS>>

SenderPinResult ==
    /\ SenderGets("pinResult", {"pinOk", "pinRequired", "tooMany"})
    /\ CASE Head(toS).type = "pinOk"       -> Challenge
         [] Head(toS).type = "pinRequired" -> Sends([snd EXCEPT !.pc = "askPin"], <<>>)
         [] Head(toS).type = "tooMany"     -> Sends([snd EXCEPT !.pc = "error"], <<>>)

VerifyReceiver ==
    /\ SenderGets("verify", {"pin"})
    /\ LET verdict == Verdict(snd, Head(toS), "list", <<Plain("list")>>)
       IN  Sends(verdict[1], verdict[2])

ListResponse ==
    /\ SenderGets("list", {"selection", "declined"})
    /\ IF Head(toS).type = "declined" THEN Sends([snd EXCEPT !.pc = "done"], <<>>)
       ELSE Sends([snd EXCEPT !.pc = "files", !.tokens = Head(toS).files], <<>>)

\* Mutant of SendFile: a file without a token is sent all the same.
SendAnyFile(f) ==
    /\ snd.pc = "files" /\ f \notin snd.sent
    /\ Sends([snd EXCEPT !.sent = @ \cup {f}],
             <<[type |-> "header", file |-> f], [type |-> "data", file |-> f]>>)
    /\ UNCHANGED <<rcv, toS>>

\* The application hands in the next file.  One without a token is reported to
\* it and left out.
SendFile(f) ==
    /\ snd.pc = "files" /\ f \in snd.tokens \ snd.sent
    /\ Sends([snd EXCEPT !.sent = @ \cup {f}],
             <<[type |-> "header", file |-> f], [type |-> "data", file |-> f]>>)
    /\ UNCHANGED <<rcv, toS>>

NoMoreFiles ==
    /\ snd.pc = "files"
    /\ Sends([snd EXCEPT !.pc = "last"], <<Plain("delimiter")>>)
    /\ UNCHANGED <<rcv, toS>>

\* Any message will do, and the first result is there long before the last.
LastResponse ==
    /\ snd.pc = "last" /\ toS # <<>>
    /\ Sends([snd EXCEPT !.pc = "done"], <<>>)
    /\ toS' = Tail(toS)
    /\ UNCHANGED rcv

-----------------------------------------------------------------------------
(* The receiver's task. *)

ReturnNonce ==
    /\ ReceiverGets("nonce", {"nonce"})
    /\ Answers([rcv EXCEPT !.pc = "token"], <<Plain("nonce")>>)

\* Mutant of TokenReply: the PIN is not announced.
TokenReplyOk(pin) == <<Plain("tokenOk")>>

TokenReply(pin) == <<Plain(IF pin THEN "tokenPin" ELSE "tokenOk")>>

TokenRequest(valid) ==
    /\ ReceiverGets("token", {"token"})
    /\ IF valid THEN Answers([rcv EXCEPT !.pc = IF rcv.pin THEN "verify" ELSE "status"],
                             TokenReply(rcv.pin))
                ELSE Answers([rcv EXCEPT !.pc = "error"], <<Plain("invalid")>>)

VerifySender ==
    /\ ReceiverGets("verify", {"pin"})
    /\ LET verdict == Verdict(rcv, Head(toR), "status", <<Plain("pinOk")>>)
       IN  Answers(verdict[1], verdict[2])

\* The sender's PIN status: the file list, or its PIN is required.
SenderStatus ==
    \E pc \in {"status", "pinResult"} :
       /\ ReceiverGets(pc, {"list", "pinRequired", "tooMany"})
       /\ Answers([rcv EXCEPT !.pc = CASE Head(toR).type = "list"        -> "select"
                                       [] Head(toR).type = "pinRequired" -> "askPin"
                                       [] Head(toR).type = "tooMany"     -> "error"], <<>>)

ReceiverPin(right) ==
    /\ rcv.pc = "askPin"
    /\ Answers([rcv EXCEPT !.pc = "pinResult", !.knows = right], <<Pin(right)>>)
    /\ UNCHANGED <<snd, toR>>

Select(files) ==
    /\ rcv.pc = "select"
    /\ Answers([rcv EXCEPT !.pc = "files", !.selection = files],
               <<[type |-> "selection", files |-> files]>>)
    /\ UNCHANGED <<snd, toR>>

\* The user declines, or the application drops the question.
Decline(declared) ==
    /\ rcv.pc = "select"
    /\ Answers([rcv EXCEPT !.pc = "done"], IF declared THEN <<Plain("declined")>> ELSE <<>>)
    /\ UNCHANGED <<snd, toR>>

\* A header opens a file; its token is one of those that were handed out.
Begin(f) == [rcv EXCEPT !.current = IF f \in rcv.selection THEN f ELSE None, !.result = "none"]

\* The first header, or the delimiter where a header is expected.
FirstHeader ==
    /\ rcv.current = None
    /\ ReceiverGets("files", {"header"})
    /\ Answers(Begin(Head(toR).file), <<>>)

\* Mutant of Result: it is sent for the file that begins.
ResultOfNext ==
    [type |-> "result", ok |-> rcv.result = "ok",
     file |-> IF Head(toR).type = "header" THEN Head(toR).file ELSE rcv.current]

\* RTCSendFileResponse for the file that ends.
Result == [type |-> "result", ok |-> rcv.result = "ok", file |-> rcv.current]

\* The next header or the delimiter ends a file: its result is awaited and sent.
FileEnds ==
    /\ rcv.current # None /\ rcv.result # "none"
    /\ ReceiverGets("files", {"header", "delimiter"})
    /\ Answers(IF Head(toR).type = "header" THEN Begin(Head(toR).file)
               ELSE [rcv EXCEPT !.pc = "done", !.current = None, !.result = "none"],
               <<Result>>)

\* Data goes to the application.  One that has given up on the file may have
\* dropped its end, which fails the whole transfer.
FileData(dropped) ==
    /\ ReceiverGets("files", {"data"})
    /\ dropped => rcv.result = "failed"
    /\ Answers(IF rcv.current = None THEN rcv
               ELSE IF dropped THEN [rcv EXCEPT !.pc = "error"]
               ELSE [rcv EXCEPT !.bodies = @ \cup {rcv.current}], <<>>)

\* The file is complete for the application once the next message is a text.
BodyEnded == toR # <<>> /\ Head(toR).type \in {"header", "delimiter"}

\* send_file_status of the application, once per file.
FileStatus(ok) ==
    /\ rcv.pc = "files" /\ rcv.current # None /\ rcv.result = "none"
    /\ ok => BodyEnded
    /\ rcv' = [rcv EXCEPT !.result = IF ok THEN "ok" ELSE "failed"]
    /\ UNCHANGED <<snd, toR, toS>>

-----------------------------------------------------------------------------
(* Messages that cannot be parsed, PINs that are not given, and the end. *)

\* What the sender, and the receiver, can parse where they await a message.
Awaited == [nonce |-> {"nonce"}, token |-> {"tokenOk", "tokenPin", "invalid"},
            pinResult |-> {"pinOk", "pinRequired", "tooMany"}, verify |-> {"pin"},
            list |-> {"selection", "declined"}]

AwaitedByReceiver ==
    [nonce |-> {"nonce"}, token |-> {"token"}, verify |-> {"pin"},
     status |-> {"list", "pinRequired", "tooMany"},
     pinResult |-> {"list", "pinRequired", "tooMany"},
     files |-> {"header", "data"} \cup IF rcv.current = None THEN {} ELSE {"delimiter"}]

\* The sender's own parse errors need no action: Understood says that it never
\* has a message it cannot parse.
ReceiverConfused ==
    /\ rcv.pc \in DOMAIN AwaitedByReceiver
    /\ toR # <<>> /\ Head(toR).type \notin AwaitedByReceiver[rcv.pc]
    /\ rcv' = [rcv EXCEPT !.pc = "confused"]
    /\ toR' = Tail(toR)
    /\ UNCHANGED <<snd, toS>>

\* The application drops the request for a PIN.
NoPin ==
    \/ snd.pc = "askPin" /\ snd' = [snd EXCEPT !.pc = "error"] /\ UNCHANGED <<rcv, toR, toS>>
    \/ rcv.pc = "askPin" /\ rcv' = [rcv EXCEPT !.pc = "error"] /\ UNCHANGED <<snd, toR, toS>>

\* The functions return.  The sender's buffer was empty before the delimiter,
\* so that is all its close can lose; a receiver may lose any of its answers.
SenderReturns ==
    /\ snd.outcome = "running" /\ snd.pc \in Ends
    /\ snd' = [snd EXCEPT !.outcome = IF snd.pc = "done" THEN "closed" ELSE "failed"]
    /\ toR' \in IF snd.pc = "done" /\ toR # <<>> THEN Cut(toR, Len(toR) - 1) ELSE {toR}
    /\ UNCHANGED <<rcv, toS>>

ReceiverReturns ==
    /\ rcv.outcome = "running" /\ rcv.pc \in Ends
    /\ rcv' = [rcv EXCEPT !.outcome = IF rcv.pc = "done" THEN "closed" ELSE "failed"]
    /\ toS' \in IF rcv.pc = "done" THEN Cut(toS, 0) ELSE {toS}
    /\ UNCHANGED <<snd, toR>>

\* The network fails, or the other side has closed: the function closes the
\* connection and its task is left alone.
Disconnected ==
    /\ \/ snd.outcome = "running" /\ snd' = [snd EXCEPT !.outcome = "closed"] /\ UNCHANGED rcv
       \/ rcv.outcome = "running" /\ rcv' = [rcv EXCEPT !.outcome = "closed"] /\ UNCHANGED snd
    /\ toR' \in Cut(toR, 0)
    /\ toS' \in Cut(toS, 0)

-----------------------------------------------------------------------------
(* The specification. *)

SenderTask ==
    \/ SendNonce \/ SendToken
    \/ \E valid \in BOOLEAN : TokenResponse(valid)
    \/ \E right \in BOOLEAN : SenderPin(right)
    \/ SenderPinResult \/ VerifyReceiver \/ ListResponse
    \/ \E f \in Files : SendFile(f)
    \/ NoMoreFiles \/ LastResponse

ReceiverTask ==
    \/ ReturnNonce
    \/ \E valid \in BOOLEAN : TokenRequest(valid)
    \/ VerifySender \/ SenderStatus
    \/ \E right \in BOOLEAN : ReceiverPin(right)
    \/ \E files \in SUBSET Files : Select(files)
    \/ \E declared \in BOOLEAN : Decline(declared)
    \/ FirstHeader \/ FileEnds
    \/ \E dropped \in BOOLEAN : FileData(dropped)
    \/ \E ok \in BOOLEAN : FileStatus(ok)
    \/ ReceiverConfused

Next == SenderTask \/ ReceiverTask \/ NoPin \/ SenderReturns \/ ReceiverReturns \/ Disconnected

Spec == Init /\ [][Next]_vars

-----------------------------------------------------------------------------
(* Properties. *)

TypeOK ==
    /\ snd \in Sender
    /\ rcv \in Receiver
    /\ toR \in Seq(ToReceiver)
    /\ toS \in Seq(ToSender)

\* No file leaves the sender before the receiver's user has selected it and
\* each side that asks for a PIN has been given it by the other side's user.
ConsentBeforeFiles ==
    snd.sent # {} => /\ snd.sent \subseteq rcv.selection
                     /\ snd.pin => rcv.knows
                     /\ rcv.pin => snd.knows

\* The two tasks never wait for each other: as long as both run over an open
\* connection, one of them has a message to read or waits for its application.
\* The two PIN challenges share the channel, in both directions.
NoMutualWait ==
    ~ /\ snd.outcome = "running" /\ rcv.outcome = "running"
      /\ snd.pc \in DOMAIN Awaited \cup {"last"} /\ toS = <<>>
      /\ rcv.pc \in DOMAIN AwaitedByReceiver /\ toR = <<>>

\* Each side can parse whatever the other one sends it, in every order of PIN
\* challenges, answers and files, except for the end of a transfer of no file.
Understood ==
    /\ (snd.pc \in DOMAIN Awaited /\ toS # <<>>) => Head(toS).type \in Awaited[snd.pc]
    /\ rcv.pc = "confused" => snd.pc = "last" /\ snd.sent = {}

\* The sender is told of a success only for a file that was selected and whose
\* data went to the receiver's application: the results, the files and the
\* application's verdicts come from three sources and never shift by one file.
ResultMeansReceived ==
    \A i \in 1..Len(toS) : toS[i].type = "result" /\ toS[i].ok =>
       toS[i].file \in rcv.bodies \cap rcv.selection

\* What a transfer promises, seen from the sender's files, the receiver's
\* selection and the data its application was given.
Transfer == INSTANCE FileTransfer
              WITH selection <- rcv.selection, sent <- snd.sent, received <- rcv.bodies

\* The exchange of messages implements that promise, in spite of lost messages,
\* disconnects and tasks that go on after them: the selection is made once, only
\* selected files are sent, once each, and only sent ones are received.
ImplementsFileTransfer == Transfer!Spec
=============================================================================
