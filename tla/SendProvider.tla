---------------------------- MODULE SendProvider ----------------------------
(***************************************************************************)
(* The sending side of one device: the sessions of send_provider.dart.     *)
(* startSession is a coroutine per session (co): it posts the request,     *)
(* asks for a PIN, and runs the send loop, whose workers share one queue   *)
(* of files.  An upload in flight (task) belongs to the loop or is a retry *)
(* the user started; it outlives the session it was started for.           *)
(*                                                                         *)
(* As in Dart, an action is the code between two awaits: a worker whose    *)
(* upload ends takes its next file, or ends the loop, in the same action.  *)
(***************************************************************************)
EXTENDS Integers, FiniteSets

CONSTANTS
    Sessions,       \* send sessions
    Files,          \* the files of a session
    Targets,        \* the devices sent to
    V1Targets,      \* those that speak protocol version 1.0
    None,           \* no target, no remote session id
    Concurrency     \* the number of upload isolates

ASSUME ConcurrencyAssumption == Concurrency \in Nat \ {0}
ASSUME FilesAssumption == IsFiniteSet(Files)
ASSUME TargetsAssumption == None \notin Targets /\ V1Targets \subseteq Targets

VARIABLES
    sessions,       \* the provider's state: a session, or NoSession, for each id
    co,             \* the startSession coroutines
    task            \* the uploads in flight, per session and file

vars == <<sessions, co, task>>

-----------------------------------------------------------------------------
(* Data. *)

SessionStatus ==
    {"waiting", "recipientBusy", "declined", "tooManyAttempts", "sending", "finished",
     "finishedWithErrors", "canceledBySender", "canceledByReceiver"}

FileStatus == {"queue", "skipped", "sending", "failed", "finished"}

Session ==
    [status: SessionStatus, target: Targets,
     background: BOOLEAN, remote: BOOLEAN,  \* is the remote session id known?
     files: [Files -> FileStatus], tokens: SUBSET Files]

NoSession ==
    [status |-> "none", target |-> None, background |-> FALSE, remote |-> FALSE,
     files |-> [f \in Files |-> "queue"], tokens |-> {}]

Coroutine ==
    [pc: {"free", "posting", "pinDialog", "looping", "done"}, queue: SUBSET Files]

Present(s) == sessions[s].status # "none"

\* Mutant of Allowed: a session the receiver has canceled still sends.
AllowedCanceled == {"sending", "finishedWithErrors", "canceledByReceiver"}

\* The states in which sendFile starts an upload.
Allowed == {"sending", "finishedWithErrors"}

isFinishedOrSkipped(S) == \A f \in Files : S.files[f] \in {"skipped", "finished"}

isFinishedOrError(S) == \A f \in Files : S.files[f] \in {"skipped", "failed", "finished"}

hasError(S) == \E f \in Files : S.files[f] = "failed"

\* The files the send loop of s is uploading.
InLoop(s) == {f \in Files : task[s][f] = "loop"}

Init ==
    /\ sessions = [s \in Sessions |-> NoSession]
    /\ co = [s \in Sessions |-> [pc |-> "free", queue |-> {}]]
    /\ task = [s \in Sessions |-> [f \in Files |-> "none"]]

\* Mutant of updateSession: a missing session is created by the update.
createSession(s, S) == [sessions EXCEPT ![s] = S]

\* No change to a session that is gone.
updateSession(s, S) == IF Present(s) THEN [sessions EXCEPT ![s] = S] ELSE sessions

-----------------------------------------------------------------------------
(* startSession up to the receiver's answer. *)

startSession(s, t, background) ==
    /\ co[s].pc = "free"
    /\ sessions' = [sessions EXCEPT ![s] =
                      [NoSession EXCEPT !.status = "waiting", !.target = t,
                                        !.background = background]]
    /\ co' = [co EXCEPT ![s].pc = "posting"]
    /\ UNCHANGED task

\* 401: the user is asked for a PIN and the request is posted again.
PinRequired(s) ==
    /\ co[s].pc = "posting"
    /\ co' = [co EXCEPT ![s].pc = "pinDialog"]
    /\ UNCHANGED <<sessions, task>>

PinEntered(s) ==
    /\ co[s].pc = "pinDialog"
    /\ co' = [co EXCEPT ![s].pc = "posting"]
    /\ UNCHANGED <<sessions, task>>

PinCanceled(s) ==
    /\ co[s].pc = "pinDialog"
    /\ co' = [co EXCEPT ![s].pc = "done"]
    /\ sessions' = updateSession(s, [sessions[s] EXCEPT !.status = "canceledBySender"])
    /\ UNCHANGED task

\* 403, 409, 429, and any other failure of the request.
Rejected(s, status) ==
    /\ co[s].pc = "posting"
    /\ status \in {"declined", "recipientBusy", "tooManyAttempts", "finishedWithErrors"}
    /\ co' = [co EXCEPT ![s].pc = "done"]
    /\ sessions' = updateSession(s, [sessions[s] EXCEPT !.status = status])
    /\ UNCHANGED task

\* Nothing is selected: finished, and closed at once.
AcceptedNothing(s) ==
    /\ co[s].pc = "posting"
    /\ co' = [co EXCEPT ![s].pc = "done"]
    /\ sessions' = [sessions EXCEPT ![s] = NoSession]
    /\ UNCHANGED task

\* The answer of a v1 target cannot be read: the coroutine ends with an error
\* nobody catches, and leaves the session waiting.
Unreadable(s) ==
    /\ co[s].pc = "posting" /\ sessions[s].target \in V1Targets
    /\ co' = [co EXCEPT ![s].pc = "done"]
    /\ UNCHANGED <<sessions, task>>

-----------------------------------------------------------------------------
(* The send loop. *)

\* The first file of every worker.
FirstFiles(selected) ==
    {F \in SUBSET selected :
        Cardinality(F) = IF Cardinality(selected) < Concurrency
                           THEN Cardinality(selected) ELSE Concurrency}

\* The receiver's answer names the selected files: the session is sending and
\* every worker starts.  When the session is gone, the workers only drain the
\* queue.
Accepted(s, selected) ==
    /\ co[s].pc = "posting"
    /\ selected # {}
    /\ IF Present(s)
         THEN \E F \in FirstFiles(selected) :
                /\ sessions' = [sessions EXCEPT ![s] =
                     [@ EXCEPT !.status = "sending", !.tokens = selected,
                               !.remote = sessions[s].target \notin V1Targets,
                               !.files = [f \in Files |->
                                            IF f \in F THEN "sending"
                                            ELSE IF f \in selected THEN "queue"
                                            ELSE "skipped"]]]
                /\ task' = [task EXCEPT ![s] = [f \in Files |-> IF f \in F THEN "loop" ELSE "none"]]
                /\ co' = [co EXCEPT ![s] = [pc |-> "looping", queue |-> selected \ F]]
         ELSE /\ co' = [co EXCEPT ![s].pc = "done"]
              /\ UNCHANGED <<sessions, task>>

\* _finish of a session that is S by now.
finish(S) ==
    IF S.status # "sending" THEN S
    ELSE IF S.background /\ ~hasError(S) THEN NoSession
    ELSE [S EXCEPT !.status = IF hasError(S) THEN "finishedWithErrors" ELSE "finished"]

\* Mutant of Ended: a failed upload leaves its file as it is.
EndedIfOk(s, f, ok) ==
    IF Present(s) /\ ok THEN [sessions[s] EXCEPT !.files[f] = "finished"] ELSE sessions[s]

\* The session of s when the upload of f has ended.
Ended(s, f, ok) ==
    IF Present(s)
      THEN [sessions[s] EXCEPT !.files[f] = IF ok THEN "finished" ELSE "failed"]
      ELSE NoSession

\* Mutant of HasNext: a worker does not look at the session.
HasNextInQueue(s, S) == Present(s) /\ co[s].queue # {}

\* Does a worker find another file to send when the session is S?
HasNext(s, S) == S.status \in Allowed /\ co[s].queue # {}

\* Mutant of IsLast: the worker that ends counts itself as still running.
IsLastMiscounted(s, f) == InLoop(s) = {}

\* f's worker is the only one left.
IsLast(s, f) == InLoop(s) = {f}

\* A worker's upload ends and it takes the next file.
UploadNext(s, f, ok) ==
    /\ task[s][f] = "loop"
    /\ LET S == Ended(s, f, ok) IN
       /\ HasNext(s, S)
       /\ \E g \in co[s].queue :
            /\ sessions' = [sessions EXCEPT ![s] = [S EXCEPT !.files[g] = "sending"]]
            /\ task' = [task EXCEPT ![s][f] = "none", ![s][g] = "loop"]
            /\ co' = [co EXCEPT ![s].queue = @ \ {g}]

\* A worker's upload ends and there is nothing left for it; the last worker
\* finishes the session.
UploadLast(s, f, ok) ==
    /\ task[s][f] = "loop"
    /\ LET S    == Ended(s, f, ok)
           last == IsLast(s, f)
       IN  /\ ~HasNext(s, S)
           /\ sessions' = [sessions EXCEPT ![s] = IF last THEN finish(S) ELSE S]
           /\ co' = [co EXCEPT ![s] = [pc |-> IF last THEN "done" ELSE "looping", queue |-> {}]]
    /\ task' = [task EXCEPT ![s][f] = "none"]

-----------------------------------------------------------------------------
(* Retries. *)

\* The retry button of a failed file, whatever the send loop is doing.
Retry(s, f) ==
    /\ sessions[s].status \in Allowed
    /\ sessions[s].files[f] = "failed"
    /\ sessions' = [sessions EXCEPT ![s].status = "sending", ![s].files[f] = "sending"]
    /\ task' = [task EXCEPT ![s][f] = "retry"]
    /\ UNCHANGED co

RetryEnded(s, f, ok) ==
    /\ task[s][f] = "retry"
    /\ LET S == Ended(s, f, ok) IN
       sessions' = [sessions EXCEPT ![s] = IF isFinishedOrError(S) THEN finish(S) ELSE S]
    /\ task' = [task EXCEPT ![s][f] = "none"]
    /\ UNCHANGED co

-----------------------------------------------------------------------------
(* The user and the receiver. *)

\* From the send page in any state, or from the progress page while sending.
\* The uploads are told to stop; they end later, one way or the other.
cancelSession(s) ==
    /\ Present(s)
    /\ sessions[s].status = "sending" \/ sessions[s].tokens = {}
    /\ sessions' = [sessions EXCEPT ![s] = NoSession]
    /\ UNCHANGED <<co, task>>

closeSession(s) ==
    /\ Present(s)
    /\ sessions[s].status \notin {"waiting", "sending"}
    /\ sessions' = [sessions EXCEPT ![s] = NoSession]
    /\ UNCHANGED <<co, task>>

\* Choosing another send mode forgets the sessions and tells nobody.
clearAllSessions ==
    /\ \E s \in Sessions : Present(s)
    /\ sessions' = [s \in Sessions |-> NoSession]
    /\ UNCHANGED <<co, task>>

setBackground(s, background) ==
    /\ sessions[s].background # background
    /\ IF background THEN Present(s) ELSE sessions[s].status \in {"waiting"} \cup Allowed
    /\ sessions' = [sessions EXCEPT ![s].background = background]
    /\ UNCHANGED <<co, task>>

RemoteId(s) == IF sessions[s].remote THEN s ELSE None

\* POST /cancel from t while this device has no receive session.  A v1 request
\* stands for the only session there is.
CancelRequest(t, v2, id, s) ==
    /\ Present(s)
    /\ IF v2 THEN RemoteId(s) = id ELSE \A x \in Sessions : Present(x) => x = s
    /\ sessions[s].target = t
    /\ sessions[s].status = "sending"
    /\ sessions' = [sessions EXCEPT ![s].status = "canceledByReceiver"]
    /\ UNCHANGED <<co, task>>

-----------------------------------------------------------------------------
(* The specification. *)

Answer(s) ==
    \/ PinRequired(s)
    \/ \E status \in SessionStatus : Rejected(s, status)
    \/ AcceptedNothing(s)
    \/ Unreadable(s)
    \/ \E selected \in SUBSET Files : Accepted(s, selected)

UploadEnds(s, f, ok) == UploadNext(s, f, ok) \/ UploadLast(s, f, ok) \/ RetryEnded(s, f, ok)

User(s) ==
    \/ \E t \in Targets, background \in BOOLEAN : startSession(s, t, background)
    \/ PinEntered(s)
    \/ PinCanceled(s)
    \/ \E f \in Files : Retry(s, f)
    \/ cancelSession(s)
    \/ closeSession(s)
    \/ \E background \in BOOLEAN : setBackground(s, background)

Next ==
    \/ \E s \in Sessions :
          \/ User(s)
          \/ Answer(s)
          \/ \E f \in Files, ok \in BOOLEAN : UploadEnds(s, f, ok)
          \/ \E t \in Targets, v2 \in BOOLEAN, id \in Sessions \cup {None} :
                CancelRequest(t, v2, id, s)
    \/ clearAllSessions

Spec == Init /\ [][Next]_vars

\* An upload ends: its isolate reports success, or the error of a connection
\* that broke or was canceled.
FairSpec ==
    /\ Spec
    /\ \A s \in Sessions, f \in Files : WF_vars(\E ok \in BOOLEAN : UploadEnds(s, f, ok))

-----------------------------------------------------------------------------
(* Properties. *)

TypeOK ==
    /\ sessions \in [Sessions -> Session \cup {NoSession}]
    /\ co \in [Sessions -> Coroutine]
    /\ task \in [Sessions -> [Files -> {"none", "loop", "retry"}]]

\* As long as a session exists, the files it shows as sending are exactly those
\* with an upload in flight, retries and loop together; the files the loop still
\* has to send are queued, and the loop never runs more uploads than isolates.
InFlightIffSending ==
    \A s \in Sessions :
       /\ Cardinality(InLoop(s)) <= Concurrency
       /\ Present(s) =>
            /\ \A f \in Files : sessions[s].files[f] = "sending" <=> task[s][f] # "none"
            /\ \A f \in co[s].queue : sessions[s].files[f] = "queue"

\* A session that is sending has somebody who will finish it: the send loop or a
\* retry.  Otherwise it would show a running transfer until the user cancels it.
SendingHasWork ==
    \A s \in Sessions : sessions[s].status = "sending" =>
       co[s].pc = "looping" \/ \E f \in Files : task[s][f] = "retry"

\* Uploads start only in a session that is sending: when a session is canceled,
\* closed or cleared while the loop runs, the loop starts no further file.
NoUploadAfterEnd ==
    [][\A s \in Sessions, f \in Files :
         task[s][f] = "none" /\ task'[s][f] # "none" => sessions'[s].status = "sending"]_vars

\* An ended session keeps its status until it is closed, whatever uploads of
\* it are still running (only a transfer that ended with errors can be retried),
\* and one that was closed does not come back when a late answer arrives.
EndIsFinal ==
    [][\A s \in Sessions :
         /\ sessions[s].status \in {"recipientBusy", "declined", "tooManyAttempts", "finished",
                                   "canceledBySender", "canceledByReceiver"}
              => sessions'[s].status \in {sessions[s].status, "none"}
         /\ co[s].pc # "free" /\ ~Present(s) => sessions'[s] = NoSession]_vars

\* The send loop comes to its end, also when its session is closed under it.
LoopEnds == \A s \in Sessions : co[s].pc = "looping" ~> co[s].pc = "done"

\* "finished, // all files sent (end of session)" (session_status.dart:9): every
\* file of a finished session was sent or skipped.
FinishedMeansSent ==
    \A s \in Sessions : sessions[s].status = "finished" => isFinishedOrSkipped(sessions[s])
=============================================================================
