-------------------------------- MODULE RtcApp --------------------------------
(***************************************************************************)
(* A transfer over WebRTC with the applications of its two sides:          *)
(* RtcTransfer and the channels between a side's task and its application, *)
(* which api/webrtc.rs bundles in RTCSendController and                    *)
(* RTCReceiveController.                                                   *)
(*                                                                         *)
(* The channel of the statuses holds one: a task that reports a status,    *)
(* and the function that reports the last one, waits for the application.  *)
(* A request for a PIN goes through a channel and a task that stores it    *)
(* in the slot that send_pin empties.                                      *)
(*                                                                         *)
(* Both sides start when SDP is exchanged and "SdpExchanged" is reported.  *)
(* The applications keep their ends of the channels, but for send_tx,      *)
(* which the sender's drops when it has no more files.                     *)
(***************************************************************************)
EXTENDS RtcTransfer

CONSTANT
    Bridge          \* does the sender's application call an RTCSendController
                    \* through the bridge, which locks it during a call?

ASSUME BridgeAssumption == Bridge \in BOOLEAN

VARIABLES
    sApp,           \* between the sender and its application
    rApp,           \* between the receiver and its application
    asked           \* listen_selected_files of the sender's application

appVars == <<snd, rcv, toR, toS, sApp, rApp, asked>>

-----------------------------------------------------------------------------
(* Data. *)

\* RTCStatus, but for "Sending", which is never reported.
RTCStatus == {"SdpExchanged", "Connected", "PinRequired", "TooManyAttempts", "Declined",
              "Finished", "Error"}

Due == {"none", "PinRequired", "TooManyAttempts", "Declined"}

\* status: what the channel holds.  told: what the application was told last.
\* pin: where a request for a PIN is.  due: what a task has still to report, for
\* which it waits.
Controller ==
    [status: RTCStatus \cup {"none"}, told: RTCStatus \cup {"none"}, listening: BOOLEAN,
     pin: {"none", "asked", "stored"}, due: Due]

NewController ==
    [status |-> "SdpExchanged", told |-> "none", listening |-> FALSE, pin |-> "none",
     due |-> "none"]

AppInit ==
    /\ Init
    /\ sApp = NewController
    /\ rApp = NewController
    /\ asked = "no"

-----------------------------------------------------------------------------
(* What a task reports. *)

\* Before it goes on from old to new.  (A detached task whose next message
\* fails to be sent is over, and what it reports before that is left out.)
Reported(old, new) ==
    CASE new = old                  -> "none"
      [] new \in {"askPin", "verify"} -> "PinRequired"
      [] new \in {"list", "select"} -> "Connected"
      [] OTHER                      -> "none"

\* A side that ends on message: the last PIN was wrong, or its files are declined.
DueAtEnd(old, message) ==
    CASE \/ old = "verify" /\ message.type = "pin"
         \/ old = "pinResult" /\ message.type = "tooMany" -> "TooManyAttempts"
      [] old = "list" /\ message.type = "declined"        -> "Declined"
      [] OTHER                                            -> "none"

\* A status waits for room in the channel.
Room(app, old, new) == Reported(old, new) # "none" => app.status = "none"

\* Mutant of Asks: a PIN is asked for the first time only.
AsksOnce(old, new) == new = "askPin" /\ old # "pinResult"

\* handle_pin sends a request for a PIN.
Asks(old, new) == new = "askPin" /\ old # "askPin"

\* The controller of a side whose task goes on to new, and has taken the first
\* message of queue if it ends on one.
After(app, side, new, queue) ==
    [app EXCEPT
       !.status = IF Reported(side.pc, new) = "none" THEN @ ELSE Reported(side.pc, new),
       !.pin    = IF Asks(side.pc, new) THEN "asked" ELSE IF side.pc = "askPin" THEN "none" ELSE @,
       !.due    = IF new \in Ends /\ side.outcome = "running" /\ queue # <<>>
                    THEN DueAtEnd(side.pc, Head(queue)) ELSE @]

-----------------------------------------------------------------------------
(* Tasks and functions that wait for their applications. *)

\* A call that shares the controller: none is in progress that locks it.
Shared == ~ (Bridge /\ sApp.listening)

\* The task gets the PIN of send_pin, and the files of send_file until send_tx
\* is dropped, which no call in progress may use.  (A send_pin that finds no
\* request stored fails and changes nothing; the application calls it again.)
AppSenderTask ==
    /\ SenderTask
    /\ snd.pc = "askPin" => sApp.pin = "stored" /\ Shared
    /\ snd.pc = "files" => asked = "returned" /\ Shared
    /\ Room(sApp, snd.pc, snd'.pc)
    /\ sApp' = After(sApp, snd, snd'.pc, toS)
    /\ UNCHANGED <<rApp, asked>>

\* The receiver's reply to the token is sent before it reports that it requires
\* a PIN.
RepliedFirst == rcv.pc = "token" /\ rcv'.pc = "verify"

AppReceiverTask ==
    /\ ReceiverTask
    /\ rApp.due = "none"
    /\ rcv.pc = "askPin" => rApp.pin = "stored"
    /\ IF RepliedFirst THEN rApp' = [rApp EXCEPT !.due = "PinRequired"]
       ELSE Room(rApp, rcv.pc, rcv'.pc) /\ rApp' = After(rApp, rcv, rcv'.pc, toR)
    /\ UNCHANGED <<sApp, asked>>

\* The task reports what is due: that it requires a PIN, or why it has ended.
Reports(app) == app.due # "none" /\ app.status = "none"
Report(app) == [app EXCEPT !.status = app.due, !.due = "none"]

ReportDue ==
    /\ \/ Reports(sApp) /\ sApp' = Report(sApp) /\ UNCHANGED rApp
       \/ Reports(rApp) /\ rApp' = Report(rApp) /\ UNCHANGED sApp
    /\ UNCHANGED <<snd, rcv, toR, toS, asked>>

\* Mutant of MayReturn: the function does not wait for its task.
MayReturnEarly(app) == app.status = "none"

MayReturn(app) == app.status = "none" /\ app.due = "none"

\* "Finished" is reported before the connection is closed, an error after the
\* function has failed.
Last(app, outcome) == [app EXCEPT !.status = IF outcome = "closed" THEN "Finished" ELSE "Error"]

AppSenderReturns ==
    /\ SenderReturns /\ MayReturn(sApp)
    /\ sApp' = Last(sApp, snd'.outcome)
    /\ UNCHANGED <<rApp, asked>>

AppReceiverReturns ==
    /\ ReceiverReturns /\ MayReturn(rApp)
    /\ rApp' = Last(rApp, rcv'.outcome)
    /\ UNCHANGED <<sApp, asked>>

\* The function does not wait for its task, but for room for "Finished".
AppDisconnected ==
    /\ Disconnected
    /\ \/ snd' # snd /\ sApp.status = "none" /\ sApp' = Last(sApp, "closed") /\ UNCHANGED rApp
       \/ rcv' # rcv /\ rApp.status = "none" /\ rApp' = Last(rApp, "closed") /\ UNCHANGED sApp
    /\ UNCHANGED asked

\* The controller is dropped between two requests, or a request is ignored.
AppNoPin == NoPin /\ UNCHANGED <<sApp, rApp, asked>>

-----------------------------------------------------------------------------
(* The applications. *)

\* listen_status: the sender's locks the controller, which a call that waits
\* for the selection shares.
ListenSender ==
    /\ ~ sApp.listening
    /\ Bridge => asked # "awaited"
    /\ sApp' = [sApp EXCEPT !.listening = TRUE]
    /\ UNCHANGED <<snd, rcv, toR, toS, rApp, asked>>

ListenReceiver ==
    /\ ~ rApp.listening
    /\ rApp' = [rApp EXCEPT !.listening = TRUE]
    /\ UNCHANGED <<snd, rcv, toR, toS, sApp, asked>>

Hears(app) == app.listening /\ app.status # "none"
Heard(app) == [app EXCEPT !.told = app.status, !.status = "none"]

\* The next status goes to the stream of the application.
Hear ==
    /\ \/ Hears(sApp) /\ sApp' = Heard(sApp) /\ UNCHANGED rApp
       \/ Hears(rApp) /\ rApp' = Heard(rApp) /\ UNCHANGED sApp
    /\ UNCHANGED <<snd, rcv, toR, toS, asked>>

\* The request for a PIN reaches the slot.
StorePin ==
    /\ \/ sApp.pin = "asked" /\ sApp' = [sApp EXCEPT !.pin = "stored"] /\ UNCHANGED rApp
       \/ rApp.pin = "asked" /\ rApp' = [rApp EXCEPT !.pin = "stored"] /\ UNCHANGED sApp
    /\ UNCHANGED <<snd, rcv, toR, toS, asked>>

\* listen_selected_files is called, and returns with the selection or when the
\* task is over.
ListenSelected ==
    /\ asked = "no" /\ Shared
    /\ asked' = "awaited"
    /\ UNCHANGED <<snd, rcv, toR, toS, sApp, rApp>>

GetSelected ==
    /\ asked = "awaited" /\ snd.pc \in {"files", "last"} \cup Ends
    /\ asked' = "returned"
    /\ UNCHANGED <<snd, rcv, toR, toS, sApp, rApp>>

-----------------------------------------------------------------------------
(* The specification. *)

Application == ListenSender \/ ListenReceiver \/ Hear \/ StorePin \/ ListenSelected \/ GetSelected

AppNext ==
    \/ AppSenderTask \/ AppReceiverTask \/ ReportDue
    \/ AppSenderReturns \/ AppReceiverReturns \/ AppDisconnected \/ AppNoPin
    \/ Application

AppSpec == AppInit /\ [][AppNext]_appVars

\* A connection whose other side is closed is disconnected in the end.
Noticed == AppDisconnected /\ "closed" \in {snd.outcome, rcv.outcome}

\* Tasks run, and so do the applications: they listen, give PINs when they are
\* asked, right or wrong, again when send_pin has failed, choose files, hand in
\* those and no more, and say how each file went.  The network need not fail.
AppFairSpec ==
    /\ AppSpec
    /\ WF_appVars(AppSenderTask) /\ WF_appVars(AppReceiverTask)
    /\ WF_appVars(Reports(sApp) /\ ReportDue) /\ WF_appVars(Reports(rApp) /\ ReportDue)
    /\ WF_appVars(AppSenderReturns) /\ WF_appVars(AppReceiverReturns) /\ WF_appVars(Noticed)
    /\ WF_appVars(ListenSender) /\ WF_appVars(ListenReceiver) /\ WF_appVars(ListenSelected)
    /\ WF_appVars(GetSelected)
    /\ WF_appVars(Hear) /\ WF_appVars(StorePin)

-----------------------------------------------------------------------------
(* Properties. *)

AppTypeOK ==
    /\ sApp \in Controller
    /\ rApp \in Controller
    /\ asked \in {"no", "awaited", "returned"}

\* An error is the last status an application is told: what its task reports,
\* too many attempts say, is told before the error of the function.
ErrorIsLast ==
    [][/\ sApp.told = "Error" => sApp'.told = "Error"
       /\ rApp.told = "Error" => rApp'.told = "Error"]_appVars

\* "PIN is required to proceed.": an application that is told so, while its side
\* waits for a PIN, can give it, and the side goes on (webrtc.rs:147).
PinProceeds ==
    /\ (sApp.told = "PinRequired" /\ snd.pc = "askPin" /\ snd.outcome = "running")
          ~> (snd.pc # "askPin" \/ snd.outcome # "running")
    /\ (rApp.told = "PinRequired" /\ rcv.pc = "askPin" /\ rcv.outcome = "running")
          ~> (rcv.pc # "askPin" \/ rcv.outcome # "running")

Running == "running" \in {snd.outcome, rcv.outcome}
Failed == "failed" \in {snd.outcome, rcv.outcome}

\* A transfer whose applications do their part ends on both sides, unless one
\* of them fails: no status, PIN or selection waits for ever for another one.
TransferEnds == <>(Failed \/ ~Running)
=============================================================================
