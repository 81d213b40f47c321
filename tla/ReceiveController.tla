-------------------------- MODULE ReceiveController --------------------------
(***************************************************************************)
(* The receiving HTTP server of one device: the handlers of                *)
(* receive_controller.dart, the PIN check of common.dart and the server's  *)
(* start and stop of server_provider.dart.                                 *)
(*                                                                         *)
(* Dart runs one handler at a time until it awaits, so an action is the    *)
(* code between two awaits.  Every request in flight is a handler with its *)
(* own program counter; all of them share the one session of the server.   *)
(* A decision of the user resumes the waiting handler in a microtask,      *)
(* before any other event, so a decision and what the handler does with it *)
(* are one action.  The id of a session is the prepare-upload request that *)
(* created it (the code draws a fresh UUID for each).                      *)
(***************************************************************************)
EXTENDS Integers, FiniteSets

CONSTANTS
    Peers,          \* remote devices, one address each
    Files,          \* names for the files of a session
    Prepares,       \* prepare-upload requests; also the ids of sessions
    Uploads,        \* upload requests
    None,           \* no request, no peer
    PinSet,         \* does the user require a PIN?
    QuickSavePeers, \* peers whose files are accepted without a question
    V1Peers         \* peers that speak protocol version 1.0

ASSUME NoneAssumption == None \notin Prepares /\ None \notin Peers
ASSUME SettingsAssumption ==
    /\ PinSet \in BOOLEAN
    /\ QuickSavePeers \subseteq Peers
    /\ V1Peers \subseteq Peers

VARIABLES
    online,         \* the server state is not null
    pinAttempts,    \* wrong PINs per peer since the server was started
    session,        \* the one receive session, or NoSession
    prep,           \* the prepare-upload handlers
    upl             \* the upload handlers

vars == <<online, pinAttempts, session, prep, upl>>

-----------------------------------------------------------------------------
(* Data. *)

\* Mutant of Allowed: a transfer the sender has canceled still takes files.
AllowedCanceled == {"sending", "finishedWithErrors", "canceledBySender"}

\* The states of a session in which files may arrive.
Allowed == {"sending", "finishedWithErrors"}

SessionStatus == {"waiting", "canceledBySender", "finished"} \cup Allowed

FileStatus == {"queue", "skipped", "sending", "failed", "finished"}

Session ==
    [id: Prepares \cup {None}, status: SessionStatus, sender: Peers \cup {None},
     message: BOOLEAN, files: [Files -> FileStatus \cup {"absent"}],
     tokens: SUBSET Files]

NoSession ==
    [id |-> None, status |-> "waiting", sender |-> None, message |-> FALSE,
     files |-> [f \in Files |-> "absent"], tokens |-> {}]

Active == session.id # None

\* Status codes; 0 stands for no answer yet.
Answers == {0, 200, 204, 400, 403, 500}

PrepareHandler ==
    [pc: {"free", "reading", "deciding", "responding", "done", "dead"},
     peer: Peers \cup {None}, granted: SUBSET Files,
     resp: Answers]

UploadHandler ==
    [pc: {"free", "saving", "recording", "done", "dead"},
     sid: Prepares \cup {None}, file: Files \cup {None}, saved: BOOLEAN,
     resp: Answers, timer: BOOLEAN]

\* Mutant of isFinishedOrError, and its neighbour in the code: a failed file is
\* not an end.
isFinishedOrSkipped(s) ==
    \A f \in Files : s.files[f] \in {"absent", "skipped", "finished"}

isFinishedOrError(s) ==
    \A f \in Files : s.files[f] \in {"absent", "skipped", "failed", "finished"}

\* Mutant of hasError: any and every are confused.
hasOnlyErrors(s) == \A f \in Files : s.files[f] = "failed"

hasError(s) == \E f \in Files : s.files[f] = "failed"

QuickSave(s) == s.sender \in QuickSavePeers /\ ~s.message

\* The user is asked: the handler that made the session awaits the answer.
Asking == Active /\ prep[session.id].pc = "deciding"

Init ==
    /\ online = FALSE
    /\ pinAttempts = [p \in Peers |-> 0]
    /\ session = NoSession
    /\ prep = [r \in Prepares |->
                 [pc |-> "free", peer |-> None, granted |-> {}, resp |-> 0]]
    /\ upl = [u \in Uploads |->
                [pc |-> "free", sid |-> None, file |-> None, saved |-> FALSE,
                 resp |-> 0, timer |-> FALSE]]

-----------------------------------------------------------------------------
(* The server. *)

startServer ==
    /\ ~online
    /\ online' = TRUE
    /\ pinAttempts' = [p \in Peers |-> 0]
    /\ session' = NoSession
    /\ UNCHANGED <<prep, upl>>

stopServer ==
    /\ online
    /\ online' = FALSE
    /\ session' = NoSession
    /\ UNCHANGED <<pinAttempts, prep, upl>>

-----------------------------------------------------------------------------
(* POST /prepare-upload. *)

checkPin(p, pin) ==
    ~PinSet \/ (pinAttempts[p] < 3 /\ pin = "right")

\* Mutant of PinRejected: attempts past the limit are counted as well.
PinRejectedAlways(p) ==
    /\ online /\ ~Active /\ PinSet
    /\ pinAttempts' = [pinAttempts EXCEPT ![p] = @ + 1]
    /\ UNCHANGED <<online, session, prep, upl>>

\* A wrong, non-empty PIN counts; an empty one is refused without counting.
PinRejected(p) ==
    /\ online /\ ~Active /\ PinSet
    /\ pinAttempts[p] < 3
    /\ pinAttempts' = [pinAttempts EXCEPT ![p] = @ + 1]
    /\ UNCHANGED <<online, session, prep, upl>>

PrepareStart(r, p, pin) ==
    /\ online /\ prep[r].pc = "free"
    /\ ~Active
    /\ checkPin(p, pin)
    /\ prep' = [prep EXCEPT ![r] = [@ EXCEPT !.pc = "reading", !.peer = p]]
    /\ UNCHANGED <<online, pinAttempts, session, upl>>

PrepareMalformed(r) ==
    /\ prep[r].pc = "reading"
    /\ prep' = [prep EXCEPT ![r] = [@ EXCEPT !.pc = "done", !.resp = 400]]
    /\ UNCHANGED <<online, pinAttempts, session, upl>>

\* The session a selection turns s into.
Selected(s, selection) ==
    [s EXCEPT !.status = "sending",
              !.tokens = selection \cap {f \in Files : s.files[f] # "absent"},
              !.files = [f \in Files |->
                           IF s.files[f] = "absent" THEN "absent"
                           ELSE IF f \in selection THEN "queue" ELSE "skipped"]]

Waiting(r, offered, message) ==
    [id |-> r, status |-> "waiting", sender |-> prep[r].peer,
     message |-> message, tokens |-> {},
     files |-> [f \in Files |-> IF f \in offered THEN "queue" ELSE "absent"]]

\* The body and the directories are there: the session is set, whatever the
\* server's session is by now.  Quick save accepts all files on the spot.
PrepareInstall(r, offered, message) ==
    /\ online /\ prep[r].pc = "reading"
    /\ offered # {} /\ (message => Cardinality(offered) = 1)
    /\ LET new == Waiting(r, offered, message) IN
       IF QuickSave(new)
         THEN /\ session' = Selected(new, offered)
              /\ prep' = [prep EXCEPT ![r] = [@ EXCEPT !.pc = "responding", !.granted = offered]]
         ELSE /\ session' = new
              /\ prep' = [prep EXCEPT ![r] = [@ EXCEPT !.pc = "deciding"]]
    /\ UNCHANGED <<online, pinAttempts, upl>>

\* getState() is a null check: the handler dies when the server is gone.
PrepareOffline(r) ==
    /\ ~online /\ prep[r].pc = "reading"
    /\ prep' = [prep EXCEPT ![r] = [@ EXCEPT !.pc = "dead"]]
    /\ UNCHANGED <<online, pinAttempts, session, upl>>

\* The answer leaves after the permission dialogs, from values read before.
PrepareRespond(r) ==
    /\ prep[r].pc = "responding"
    /\ prep' = [prep EXCEPT ![r] = [@ EXCEPT !.pc = "done", !.resp = 200]]
    /\ UNCHANGED <<online, pinAttempts, session, upl>>

-----------------------------------------------------------------------------
(* The user. *)

acceptFileRequest(selection) ==
    /\ Asking /\ session.status = "waiting" /\ ~session.message
    /\ selection # {} /\ \A f \in selection : session.files[f] # "absent"
    /\ session' = Selected(session, selection)
    /\ prep' = [prep EXCEPT ![session.id] = [@ EXCEPT !.pc = "responding",
                            !.granted = selection]]
    /\ UNCHANGED <<online, pinAttempts, upl>>

\* Closing a message accepts nothing: 204 and the session is over.
acceptMessage ==
    /\ Asking /\ session.message
    /\ session' = NoSession
    /\ prep' = [prep EXCEPT ![session.id] = [@ EXCEPT !.pc = "done", !.resp = 204]]
    /\ UNCHANGED <<online, pinAttempts, upl>>

declineFileRequest ==
    /\ Asking
    /\ session' = NoSession
    /\ prep' = [prep EXCEPT ![session.id] = [@ EXCEPT !.pc = "done", !.resp = 403]]
    /\ UNCHANGED <<online, pinAttempts, upl>>

\* "Close" on a request its sender has canceled: nothing answers the handler.
closeCanceled ==
    /\ Asking /\ session.status = "canceledBySender" /\ ~session.message
    /\ session' = NoSession
    /\ UNCHANGED <<online, pinAttempts, prep, upl>>

\* Leaving the progress page: cancelSession while sending, else closeSession.
cancelSession ==
    /\ Active /\ ~Asking
    /\ session' = NoSession
    /\ UNCHANGED <<online, pinAttempts, prep, upl>>

-----------------------------------------------------------------------------
(* POST /upload. *)

\* Mutant of mayUpload: the token is not looked at.
mayUploadAnyFile(p, s, f) ==
    /\ Active /\ p = session.sender
    /\ session.status \in Allowed
    /\ s = session.id /\ session.files[f] # "absent"

\* v1 requests carry no session id, but tokens are drawn per session.
mayUpload(p, s, f) ==
    /\ Active /\ p = session.sender
    /\ session.status \in Allowed
    /\ s = session.id /\ f \in session.tokens

UploadStart(u, p, s, f) ==
    /\ online /\ upl[u].pc = "free"
    /\ mayUpload(p, s, f)
    /\ session' = [session EXCEPT !.files = [@ EXCEPT ![f] = "sending"],
                                     !.status = "sending"]
    /\ upl' = [upl EXCEPT ![u] = [@ EXCEPT !.pc = "saving", !.sid = s, !.file = f]]
    /\ UNCHANGED <<online, pinAttempts, prep>>

\* Mutant of answer: the session decides, not the file.
answerForSession(u, s) == IF s.id = upl[u].sid THEN 200 ELSE 500

\* The file is looked up by id in the session there is by now.
answer(u, s) ==
    IF s.id = upl[u].sid /\ s.files[upl[u].file] = "finished" THEN 200 ELSE 500

\* Mutant of closesItself: only a transfer without errors closes itself.
closesItselfIfFinished(s) == QuickSave(s) /\ ~hasError(s)

closesItself(s) == QuickSave(s)

\* Finish handler u, when the session is s after u's own update of its file.
\* The session is looked up again: it may be gone, or be another one.
Conclude(u, s) ==
    LET over == s.status \in Allowed /\ isFinishedOrError(s)
    IN  IF s.id = None
          THEN /\ upl' = [upl EXCEPT ![u] = [@ EXCEPT !.pc = IF online THEN "done" ELSE "dead",
                                     !.resp = IF online THEN 500 ELSE 0]]
               /\ session' = s
          ELSE /\ session' =
                    IF ~over THEN s
                    ELSE [s EXCEPT !.status = IF hasError(s) THEN "finishedWithErrors"
                                                             ELSE "finished"]
               /\ upl' = [upl EXCEPT ![u] = [@ EXCEPT !.pc = "done",
                                     !.resp = answer(u, s),
                                     !.timer = over /\ closesItself(s)]]

fileFinished(u, status) ==
    [session EXCEPT !.files = [@ EXCEPT ![upl[u].file] = status]]

\* saveFile returned.  The session of the start is not compared with the
\* session of now: an unknown file id makes Map.update throw, in the try block
\* and again in its catch block, and the request is never answered.
UploadSaved(u) ==
    /\ upl[u].pc = "saving"
    /\ \/ /\ Active /\ session.status \in Allowed /\ session.id = upl[u].sid
          /\ session' = fileFinished(u, "finished")
          /\ upl' = [upl EXCEPT ![u] = [@ EXCEPT !.pc = "recording", !.saved = TRUE]]
       \/ /\ online /\ (Active => session.status \notin Allowed)
          /\ upl' = [upl EXCEPT ![u] = [@ EXCEPT !.pc = "done", !.saved = TRUE, !.resp = 500]]
          /\ UNCHANGED session
       \/ /\ \/ ~online /\ ~Active
             \/ Active /\ session.status \in Allowed /\ session.id # upl[u].sid
          /\ upl' = [upl EXCEPT ![u] = [@ EXCEPT !.pc = "dead", !.saved = TRUE]]
          /\ UNCHANGED session
    /\ UNCHANGED <<online, pinAttempts, prep>>

\* saveFile threw (a broken connection, a full disk), or the history did.
UploadFailed(u) ==
    /\ upl[u].pc \in {"saving", "recording"}
    /\ IF Active /\ session.id # upl[u].sid
         THEN /\ upl' = [upl EXCEPT ![u] = [@ EXCEPT !.pc = "dead"]]
              /\ UNCHANGED session
         ELSE Conclude(u, IF Active THEN fileFinished(u, "failed") ELSE session)
    /\ UNCHANGED <<online, pinAttempts, prep>>

\* The history entry is written.
UploadRecorded(u) ==
    /\ upl[u].pc = "recording"
    /\ Conclude(u, session)
    /\ UNCHANGED <<online, pinAttempts, prep>>

\* The zero-delay timer of a quick save closes the session there is by then.
QuickSaveClose(u) ==
    /\ upl[u].timer
    /\ upl' = [upl EXCEPT ![u] = [@ EXCEPT !.timer = FALSE]]
    /\ session' = NoSession
    /\ UNCHANGED <<online, pinAttempts, prep>>

-----------------------------------------------------------------------------
(* POST /cancel, while there is a receive session. *)

\* Mutant of mayCancel: the id is never asked for.
mayCancelAnyId(p, v2, s) ==
    /\ online /\ Active
    /\ v2 \/ session.sender \in V1Peers
    /\ p = session.sender
    /\ session.status \in {"waiting", "sending"}

\* The sender has no session id before its request is answered.
mayCancel(p, v2, s) ==
    /\ online /\ Active
    /\ v2 \/ session.sender \in V1Peers
    /\ p = session.sender
    /\ (v2 /\ session.status # "waiting") => s = session.id
    /\ session.status \in {"waiting", "sending"}

Cancel(p, v2, s) ==
    /\ mayCancel(p, v2, s)
    /\ session' = [session EXCEPT !.status = "canceledBySender"]
    /\ UNCHANGED <<online, pinAttempts, prep, upl>>

-----------------------------------------------------------------------------
(* The specification. *)

User ==
    \/ \E selection \in SUBSET Files : acceptFileRequest(selection)
    \/ acceptMessage
    \/ declineFileRequest
    \/ closeCanceled
    \/ cancelSession
    \/ startServer
    \/ stopServer

Network ==
    \/ \E p \in Peers : PinRejected(p)
    \/ \E r \in Prepares, p \in Peers, pin \in {"right", "wrong", ""} :
          PrepareStart(r, p, pin)
    \/ \E u \in Uploads, p \in Peers, s \in Prepares, f \in Files :
          UploadStart(u, p, s, f)
    \/ \E p \in Peers, v2 \in BOOLEAN, s \in Prepares \cup {None} : Cancel(p, v2, s)

Prepare(r) ==
    \/ PrepareMalformed(r)
    \/ \E offered \in SUBSET Files, message \in BOOLEAN :
          PrepareInstall(r, offered, message)
    \/ PrepareOffline(r)
    \/ PrepareRespond(r)

Upload(u) == UploadSaved(u) \/ UploadFailed(u) \/ UploadRecorded(u)

Next ==
    \/ User
    \/ Network
    \/ \E r \in Prepares : Prepare(r)
    \/ \E u \in Uploads : Upload(u) \/ QuickSaveClose(u)

Spec == Init /\ [][Next]_vars

\* The event loop runs its timers.  Everything else waits for the user, for a
\* remote device or for a connection that has no timeout, and is not promised.
FairSpec == Spec /\ \A u \in Uploads : WF_vars(QuickSaveClose(u))

-----------------------------------------------------------------------------
(* Properties. *)

TypeOK ==
    /\ online \in BOOLEAN
    /\ pinAttempts \in [Peers -> 0..3]
    /\ session \in Session
    /\ prep \in [Prepares -> PrepareHandler]
    /\ upl \in [Uploads -> UploadHandler]

\* A file is only received in a session whose request came from the session's
\* sender, and only if the user, or quick save, accepted that very file when
\* that request was answered: whatever requests overtake one another, no
\* acceptance is ever applied to another request's files.
ConsentBeforeData ==
    /\ Active => /\ session.sender = prep[session.id].peer
                 /\ session.tokens \subseteq prep[session.id].granted
    /\ \A u \in Uploads : upl[u].pc # "free" =>
          upl[u].file \in prep[upl[u].sid].granted

\* A session that can still receive never waits for nothing: a file shown as
\* sending has a handler that is saving it, and a session that is sending has
\* a file to come or a handler that is about to conclude it.  Otherwise the
\* device would refuse every other sender until its user gives up.
SendingHasWork ==
    session.status \in Allowed =>
       /\ \A f \in Files : session.files[f] = "sending" =>
             \E u \in Uploads : /\ upl[u].pc = "saving"
                                /\ upl[u].sid = session.id /\ upl[u].file = f
       /\ session.status = "sending" =>
             \/ \E f \in Files : session.files[f] \in {"queue", "sending"}
             \/ \E u \in Uploads : upl[u].pc = "recording" /\ upl[u].sid = session.id

\* A session is finished only when every file accepted in it was saved in it.
FinishedMeansSaved ==
    session.status = "finished" =>
       \A f \in session.tokens :
          \E u \in Uploads : /\ upl[u].saved
                             /\ upl[u].sid = session.id /\ upl[u].file = f

\* An upload answered 200 saved its file, although the handler decides by what
\* the session says of the file after it waited for the history.
OkMeansSaved == \A u \in Uploads : upl[u].resp = 200 => upl[u].saved

\* A session that is finished or that its sender has canceled stays so until
\* it is closed, whatever handlers of it are still running.
EndIsFinal ==
    [][Active /\ session.status \in {"finished", "canceledBySender"} /\ session'.id = session.id
         => session'.status = session.status]_vars

\* A transfer of a quick-save peer that is over, with or without errors, is
\* closed, so that the device takes requests again without its user.
QuickSaveReleases ==
    \A r \in Prepares :
       (/\ session.id = r /\ QuickSave(session)
        /\ session.status \in {"finished", "finishedWithErrors"})
          ~> session.id # r

\* "block incoming requests when we are already in a session": a session is
\* never replaced by another one (receive_controller.dart:198).
SessionNotReplaced ==
    [][Active /\ session'.id # None => session'.id = session.id]_vars
=============================================================================
