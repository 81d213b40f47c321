------------------------------- MODULE Transfer -------------------------------
(***************************************************************************)
(* A sending and a receiving device: SendProvider and ReceiveController    *)
(* over HTTP.  The sender posts a prepare-upload request for its session,  *)
(* the uploads of its files and, when its user gives up, a cancel request; *)
(* the receiver posts cancel requests, too.  A request may be late,        *)
(* overtaken by another one, refused or lost, and the connection of an     *)
(* answer may break.                                                       *)
(*                                                                         *)
(* Both speak protocol 2.1.  The receiver asks for no PIN, does not stop   *)
(* its server, and its user decides about every request (no quick save):   *)
(* what is left out here is in ReceiveController and SendProvider.  So a   *)
(* send session posts one request, and its id is also that of its session  *)
(* there.  The sender's n-th try to upload file f of session s is the      *)
(* upload <<s, f, n>>.                                                     *)
(***************************************************************************)
EXTENDS Integers, FiniteSets

CONSTANTS
    Sessions,       \* send sessions
    Files,          \* the files of each session
    None,           \* no session, no device
    Concurrency,    \* the number of upload isolates of the sender
    Tries,          \* how often a file is uploaded: once, and again on request
    Bounds          \* sessions, kinds of session, selections and tries of a behaviour

ASSUME TransferAssumption ==
    /\ Concurrency \in Nat \ {0} /\ Tries \in Nat \ {0}
    /\ Bounds \subseteq [sessions: SUBSET Sessions, background: SUBSET BOOLEAN,
                         selections: SUBSET SUBSET Files, tries: 1..Tries]

ASSUME NoneAssumption == None \notin Sessions /\ None \notin {"sender", "receiver"}
ASSUME FilesAssumption == IsFiniteSet(Files)

VARIABLES
    sessions, co, task,                         \* the sender
    online, pinAttempts, session, prep, upl,    \* the receiver
    conn,       \* the try that carries an upload of the sender, once it arrived
    cancels,    \* cancel requests of the sender under way
    notices,    \* cancel requests of the receiver under way
    forsaken,   \* sessions the sender's device left without the receiver's knowledge
    bound       \* the bounds of this behaviour

sender == <<sessions, co, task>>
receiver == <<online, pinAttempts, session, prep, upl>>
vars == <<sender, receiver, conn, cancels, notices, forsaken>>
allVars == <<vars, bound>>

Uploads == Sessions \X Files \X (1..Tries)

S == INSTANCE SendProvider WITH Targets <- {"receiver"}, V1Targets <- {}

R == INSTANCE ReceiveController WITH
        Peers <- {"sender"}, Prepares <- Sessions, PinSet <- FALSE, V1Peers <- {},
        QuickSavePeers <- {}

Init ==
    /\ S!Init /\ R!Init
    /\ conn = [s \in Sessions |-> [f \in Files |-> 0]]
    /\ cancels = {} /\ notices = {} /\ forsaken = {}
    /\ bound \in Bounds

-----------------------------------------------------------------------------
(* The user of the sender. *)

StartSession(s, background) ==
    /\ s \in bound.sessions
    /\ S!startSession(s, "receiver", background)
    /\ UNCHANGED <<receiver, conn, cancels, notices, forsaken>>

\* The sender has a spare try.
Retry(s, f) ==
    /\ upl[<<s, f, bound.tries>>].pc = "free"
    /\ S!Retry(s, f)
    /\ UNCHANGED <<receiver, conn, cancels, notices, forsaken>>

\* Mutant of CancelBySender: the session is forgotten, as by closeSession.
CancelBySenderSilently(s) ==
    /\ S!cancelSession(s)
    /\ UNCHANGED <<receiver, conn, cancels, notices, forsaken>>

\* The receiver is told, with the id of its session if that is known by now.
CancelBySender(s) ==
    /\ S!cancelSession(s)
    /\ cancels' = cancels \cup {[of |-> s, id |-> S!RemoteId(s)]}
    /\ UNCHANGED <<receiver, conn, notices, forsaken>>

\* A session that ended is closed without a word, also when the receiver still
\* waits for a file that failed or is being retried.
Close(s) ==
    /\ S!closeSession(s)
    /\ forsaken' = IF S!isFinishedOrSkipped(sessions[s]) THEN forsaken ELSE forsaken \cup {s}
    /\ UNCHANGED <<receiver, conn, cancels, notices>>

Clear ==
    /\ S!clearAllSessions
    /\ forsaken' = forsaken \cup {s \in Sessions : S!Present(s)}
    /\ UNCHANGED <<receiver, conn, cancels, notices>>

-----------------------------------------------------------------------------
(* The user and the handlers of the receiver. *)

Decide ==
    /\ \/ \E selection \in bound.selections : R!acceptFileRequest(selection)
       \/ R!declineFileRequest \/ R!closeCanceled
    /\ UNCHANGED <<sender, conn, cancels, notices, forsaken>>

\* Leaving the progress page: the sender is told while files are coming.
CancelByReceiver ==
    /\ R!cancelSession
    /\ notices' = IF session.status = "sending" THEN notices \cup {session.id} ELSE notices
    /\ UNCHANGED <<sender, conn, cancels, forsaken>>

Server ==
    /\ R!startServer
    /\ UNCHANGED <<sender, conn, cancels, notices, forsaken>>

Handle ==
    /\ \/ \E s \in Sessions : R!PrepareInstall(s, Files, FALSE) \/ R!PrepareRespond(s)
       \/ \E u \in Uploads : R!Upload(u)
    /\ UNCHANGED <<sender, conn, cancels, notices, forsaken>>

-----------------------------------------------------------------------------
(* The prepare-upload request. *)

Posted(s) == co[s].pc = "posting" /\ prep[s].pc = "free"

PrepareArrives(s) ==
    /\ Posted(s)
    /\ R!PrepareStart(s, "sender", "")
    /\ UNCHANGED <<sender, conn, cancels, notices, forsaken>>

\* 409: the receiver is in a session.
PrepareRefused(s) ==
    /\ Posted(s) /\ online /\ R!Active
    /\ S!Rejected(s, "recipientBusy")
    /\ UNCHANGED <<receiver, conn, cancels, notices, forsaken>>

PrepareAnswered(s) ==
    /\ prep[s].pc = "done"
    /\ \/ prep[s].resp = 200 /\ S!Accepted(s, prep[s].granted)
       \/ prep[s].resp = 403 /\ S!Rejected(s, "declined")
    /\ UNCHANGED <<receiver, conn, cancels, notices, forsaken>>

\* The receiver cannot be reached, or the connection breaks before the answer.
PrepareBroken(s) ==
    /\ S!Rejected(s, "finishedWithErrors")
    /\ forsaken' = forsaken \cup {s}
    /\ UNCHANGED <<receiver, conn, cancels, notices>>

-----------------------------------------------------------------------------
(* The uploads. *)

Waits(s, f) == task[s][f] # "none" /\ conn[s][f] = 0

\* It arrives as the next try of the file.
UploadArrives(s, f) ==
    /\ Waits(s, f)
    /\ \E n \in 1..Tries :
         /\ \A m \in 1..(n - 1) : upl[<<s, f, m>>].pc # "free"
         /\ R!UploadStart(<<s, f, n>>, "sender", s, f)
         /\ conn' = [conn EXCEPT ![s][f] = n]
    /\ UNCHANGED <<sender, cancels, notices, forsaken>>

\* A background session closes itself at the end of its loop, also over a retry.
ClosedOverRetry(s) ==
    S!Present(s) /\ sessions'[s] = S!NoSession /\ \E f \in Files : task'[s][f] # "none"

Ends(s, f, ok) ==
    /\ S!UploadEnds(s, f, ok)
    /\ conn' = [conn EXCEPT ![s][f] = 0]
    /\ forsaken' = IF ClosedOverRetry(s) THEN forsaken \cup {s} ELSE forsaken
    /\ UNCHANGED <<receiver, cancels, notices>>

UploadRefused(s, f) ==
    /\ Waits(s, f) /\ online /\ ~R!mayUpload("sender", s, f)
    /\ Ends(s, f, FALSE)

\* Mutant of UploadAnswered: any answer is taken for a success.
UploadAnsweredAnyhow(s, f) ==
    /\ conn[s][f] # 0 /\ upl[<<s, f, conn[s][f]>>].pc = "done"
    /\ Ends(s, f, TRUE)

UploadAnswered(s, f) ==
    /\ conn[s][f] # 0
    /\ LET u == <<s, f, conn[s][f]>> IN
       /\ upl[u].pc = "done"
       /\ Ends(s, f, upl[u].resp = 200)

\* The connection breaks, or the sender stops its uploads.
UploadBroken(s, f) == Ends(s, f, FALSE)

-----------------------------------------------------------------------------
(* The cancel requests. *)

\* Without an id it is about whatever the receiver is being asked.
CancelArrives(m) ==
    /\ m \in cancels /\ cancels' = cancels \ {m}
    /\ R!Cancel("sender", TRUE, m.id)
    /\ forsaken' = IF session.id = m.of THEN forsaken ELSE forsaken \cup {m.of}
    /\ UNCHANGED <<sender, conn, notices>>

\* 403: it overtook the request, or crossed the answer that has the id.
CancelRefused(m) ==
    /\ m \in cancels /\ cancels' = cancels \ {m}
    /\ ~R!mayCancel("sender", TRUE, m.id)
    /\ forsaken' = IF m.id = None THEN forsaken \cup {m.of} ELSE forsaken
    /\ UNCHANGED <<sender, receiver, conn, notices>>

CancelLost(m) ==
    /\ m \in cancels /\ cancels' = cancels \ {m}
    /\ forsaken' = forsaken \cup {m.of}
    /\ UNCHANGED <<sender, receiver, conn, notices>>

NoticeArrives(s) ==
    /\ s \in notices /\ notices' = notices \ {s}
    /\ S!CancelRequest("receiver", TRUE, s, s)
    /\ UNCHANGED <<receiver, conn, cancels, forsaken>>

\* Lost, or refused: the session is over here, or the device receives as well,
\* and takes the request for one about its own receive session.
NoticeLost(s) ==
    /\ s \in notices /\ notices' = notices \ {s}
    /\ UNCHANGED <<sender, receiver, conn, cancels, forsaken>>

-----------------------------------------------------------------------------
(* The specification. *)

Users ==
    \/ \E s \in Sessions :
          \/ \E background \in bound.background : StartSession(s, background)
          \/ \E f \in Files : Retry(s, f)
          \/ CancelBySender(s) \/ Close(s)
    \/ Clear \/ Decide \/ CancelByReceiver \/ Server

Upload(s, f) == UploadArrives(s, f) \/ UploadRefused(s, f) \/ UploadAnswered(s, f)

Messages ==
    \/ \E s \in Sessions :
          \/ PrepareArrives(s) \/ PrepareRefused(s) \/ PrepareAnswered(s) \/ PrepareBroken(s)
          \/ \E f \in Files : Upload(s, f) \/ UploadBroken(s, f)
          \/ NoticeArrives(s) \/ NoticeLost(s)
    \/ \E m \in cancels : CancelArrives(m) \/ CancelRefused(m) \/ CancelLost(m)

Next == (Users \/ Messages \/ Handle) /\ UNCHANGED bound

Spec == Init /\ [][Next]_allVars

\* Uploads arrive and are answered, and data of an upload comes to an end.
FairSpec ==
    /\ Spec
    /\ \A s \in Sessions, f \in Files : WF_vars(Upload(s, f))
    /\ WF_vars(Handle)

-----------------------------------------------------------------------------
(* Properties. *)

TypeOK ==
    /\ S!TypeOK /\ R!TypeOK
    /\ conn \in [Sessions -> [Files -> 0..Tries]]
    /\ cancels \subseteq [of: Sessions, id: Sessions \cup {None}]
    /\ notices \subseteq Sessions /\ forsaken \subseteq Sessions
    /\ bound \in Bounds

\* A file the sender shows as sent was saved by the receiver, in the session
\* whose request named it, whatever breaks, is retried or ends in between.
SentMeansSaved ==
    \A s \in Sessions, f \in Files :
       sessions[s].files[f] = "finished" => \E n \in 1..Tries : upl[<<s, f, n>>].saved

\* A transfer that was accepted is only canceled here when the sender's user
\* canceled it, not by the cancel of another session of the same device.
CancelIsPrecise ==
    session.status = "canceledBySender" /\ prep[session.id].pc # "deciding"
       => ~ S!Present(session.id)

\* Nothing that the sender does about s is under way or to come.
Over(s) ==
    /\ co[s].pc = "done"
    /\ S!Present(s) => sessions[s].status = "finished" /\ S!isFinishedOrSkipped(sessions[s])
    /\ \A f \in Files : task[s][f] = "none"
    /\ \A m \in cancels : m.of # s
    /\ \A u \in Uploads : u[1] = s => upl[u].pc \notin {"saving", "recording"}

\* The receiver waits for a sender that is gone only if the sender's device
\* forgot the session, or told it too early, in vain or not at all.
LeftAlone ==
    \A s \in Sessions :
       session.id = s /\ session.status \in {"waiting", "sending"} /\ Over(s) => s \in forsaken

\* When the receiver has closed or replaced its session, the sender stops
\* sending, although the notice may not reach it, unless its user retries or an
\* upload is one of those that are never answered.
StopsSending ==
    \A s \in Sessions :
       (sessions[s].status = "sending" /\ session.id # s)
          ~> \/ sessions[s].status # "sending"
             \/ \E f \in Files : task[s][f] = "retry"
             \/ \E u \in Uploads : u[1] = s /\ upl[u].pc = "dead"
=============================================================================
