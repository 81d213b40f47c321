----------------------- MODULE ReceiveControllerProofs -----------------------
(***************************************************************************)
(* Proofs about ReceiveController for any number of peers, files, requests *)
(* and any setting.                                                        *)
(***************************************************************************)
EXTENDS ReceiveController, TLAPS

\* What an action of Next is, one disjunct per action.
LEMMA NextCases ==
    ASSUME [Next]_vars
    PROVE  \/ startServer \/ stopServer
           \/ \E p \in Peers : PinRejected(p)
           \/ \E r \in Prepares, p \in Peers, pin \in {"right", "wrong", ""} :
                 PrepareStart(r, p, pin)
           \/ \E r \in Prepares : PrepareMalformed(r)
           \/ \E r \in Prepares, offered \in SUBSET Files, message \in BOOLEAN :
                 PrepareInstall(r, offered, message)
           \/ \E r \in Prepares : PrepareOffline(r)
           \/ \E r \in Prepares : PrepareRespond(r)
           \/ \E selection \in SUBSET Files : acceptFileRequest(selection)
           \/ acceptMessage \/ declineFileRequest \/ closeCanceled \/ cancelSession
           \/ \E u \in Uploads, p \in Peers, s \in Prepares, f \in Files :
                 UploadStart(u, p, s, f)
           \/ \E u \in Uploads : UploadSaved(u)
           \/ \E u \in Uploads : UploadFailed(u)
           \/ \E u \in Uploads : UploadRecorded(u)
           \/ \E u \in Uploads : QuickSaveClose(u)
           \/ \E p \in Peers, v2 \in BOOLEAN, s \in Prepares \cup {None} : Cancel(p, v2, s)
           \/ UNCHANGED vars
BY DEF Next, User, Network, Prepare, Upload

\* The steps that touch an upload handler.
LEMMA UploadCases ==
    ASSUME [Next]_vars
    PROVE  \/ upl' = upl
           \/ \E u \in Uploads, p \in Peers, s \in Prepares, f \in Files :
                 UploadStart(u, p, s, f)
           \/ \E u \in Uploads : UploadSaved(u) \/ UploadFailed(u) \/ UploadRecorded(u)
                                 \/ QuickSaveClose(u)
BY NextCases DEF startServer, stopServer, PinRejected, PrepareStart, PrepareMalformed,
   PrepareInstall, PrepareOffline, PrepareRespond, acceptFileRequest, acceptMessage,
   declineFileRequest, closeCanceled, cancelSession, Cancel, mayCancel, vars

\* The steps that touch the session.
LEMMA SessionCases ==
    ASSUME [Next]_vars
    PROVE  \/ session' = NoSession \/ session' = session
           \/ \E r \in Prepares, offered \in SUBSET Files, message \in BOOLEAN :
                 PrepareInstall(r, offered, message)
           \/ \E selection \in SUBSET Files : acceptFileRequest(selection)
           \/ \E u \in Uploads, p \in Peers, s \in Prepares, f \in Files :
                 UploadStart(u, p, s, f)
           \/ \E u \in Uploads : UploadSaved(u) \/ UploadFailed(u) \/ UploadRecorded(u)
           \/ \E p \in Peers, v2 \in BOOLEAN, s \in Prepares \cup {None} : Cancel(p, v2, s)
BY NextCases DEF startServer, stopServer, PinRejected, PrepareStart, PrepareMalformed,
   PrepareOffline, PrepareRespond, acceptMessage, declineFileRequest, closeCanceled,
   cancelSession, QuickSaveClose, vars

\* A handler is replaced by a handler.
LEMMA PrepareHandlers ==
    ASSUME TypeOK, NEW r \in Prepares, NEW h \in PrepareHandler,
           prep' = [prep EXCEPT ![r] = h]
    PROVE  prep' \in [Prepares -> PrepareHandler]
BY DEF TypeOK

\* The same for an upload handler.
LEMMA UploadHandlers ==
    ASSUME TypeOK, NEW u \in Uploads, NEW h \in UploadHandler,
           upl' = [upl EXCEPT ![u] = h]
    PROVE  upl' \in [Uploads -> UploadHandler]
BY DEF TypeOK

\* An answer, or the end without one, completes a handler.
LEMMA AnsweredType ==
    ASSUME NEW h \in PrepareHandler, NEW resp \in Answers
    PROVE  [h EXCEPT !.pc = "done", !.resp = resp] \in PrepareHandler
BY DEF PrepareHandler

\* A saved file with an answer leaves a handler a handler.
LEMMA SavedAnswer ==
    ASSUME NEW h \in UploadHandler, NEW resp \in Answers
    PROVE  [h EXCEPT !.pc = "done", !.saved = TRUE, !.resp = resp] \in UploadHandler
BY DEF UploadHandler

\* The status codes the handlers answer with.
LEMMA AnswerTypes ==
    /\ 0 \in Answers /\ 200 \in Answers /\ 204 \in Answers
    /\ 400 \in Answers /\ 403 \in Answers /\ 500 \in Answers
BY DEF Answers

\* The session operators yield sessions.
LEMMA NoSessionType == NoSession \in Session
BY DEF NoSession, Session, SessionStatus

\* A new session that waits for its answer.
LEMMA WaitingType ==
    ASSUME TypeOK, NEW r \in Prepares, NEW offered \in SUBSET Files, NEW message \in BOOLEAN
    PROVE  Waiting(r, offered, message) \in Session
<1>1. prep[r].peer \in Peers \cup {None}
  BY DEF TypeOK, PrepareHandler
<1> QED
  BY <1>1 DEF Waiting, Session, SessionStatus, FileStatus

\* A session after a selection of its files.
LEMMA SelectedType ==
    ASSUME NEW s \in Session, NEW selection \in SUBSET Files
    PROVE  Selected(s, selection) \in Session
<1>1. [f \in Files |-> IF s.files[f] = "absent" THEN "absent"
                       ELSE IF f \in selection THEN "queue" ELSE "skipped"]
        \in [Files -> FileStatus \cup {"absent"}]
  BY DEF FileStatus
<1>2. selection \cap {f \in Files : s.files[f] # "absent"} \in SUBSET Files
  OBVIOUS
<1> QED
  BY <1>1, <1>2 DEF Selected, Session, SessionStatus, Allowed

\* A session after the status of one of its files was set.
LEMMA FileFinishedType ==
    ASSUME TypeOK, NEW u \in Uploads, NEW status \in FileStatus
    PROVE  fileFinished(u, status) \in Session
<1>1. session \in Session
  BY DEF TypeOK
<1>2. [session.files EXCEPT ![upl[u].file] = status] \in [Files -> FileStatus \cup {"absent"}]
  BY <1>1 DEF Session
<1> QED
  BY <1>1, <1>2 DEF fileFinished, Session

\* The end of an upload keeps the types, whatever session it finds.
LEMMA ConcludeType ==
    ASSUME TypeOK, NEW u \in Uploads, NEW s \in Session, Conclude(u, s)
    PROVE  session' \in Session /\ upl' \in [Uploads -> UploadHandler]
<1>1. upl[u] \in UploadHandler
  BY DEF TypeOK
<1>2. CASE s.id = None
  <2> DEFINE pc == IF online THEN "done" ELSE "dead"
             resp == IF online THEN 500 ELSE 0
  <2>1. pc \in {"done", "dead"} /\ resp \in Answers
    BY AnswerTypes
  <2>2. upl' = [upl EXCEPT ![u] = [upl[u] EXCEPT !.pc = pc, !.resp = resp]] /\ session' = s
    BY <1>2 DEF Conclude
  <2> HIDE DEF pc, resp
  <2>3. [upl[u] EXCEPT !.pc = pc, !.resp = resp] \in UploadHandler
    BY <1>1, <2>1 DEF UploadHandler
  <2> QED
    BY <2>2, <2>3, UploadHandlers
<1>3. CASE s.id # None
  <2> DEFINE over == s.status \in Allowed /\ isFinishedOrError(s)
             timer == over /\ closesItself(s)
             ended == IF hasError(s) THEN "finishedWithErrors" ELSE "finished"
  <2>1. answer(u, s) \in Answers
    BY AnswerTypes DEF answer
  <2>2. timer \in BOOLEAN
    OBVIOUS
  <2>3. upl' = [upl EXCEPT ![u] = [upl[u] EXCEPT !.pc = "done", !.resp = answer(u, s),
                                                 !.timer = timer]]
    BY <1>3 DEF Conclude
  <2>4. [s EXCEPT !.status = ended] \in Session
    BY DEF Session, SessionStatus, Allowed
  <2>5. session' \in Session
    BY <1>3, <2>4 DEF Conclude
  <2> HIDE DEF timer
  <2>6. [upl[u] EXCEPT !.pc = "done", !.resp = answer(u, s), !.timer = timer]
          \in UploadHandler
    BY <1>1, <2>1, <2>2 DEF UploadHandler
  <2> QED
    BY <2>3, <2>5, <2>6, UploadHandlers
<1> QED
  BY <1>2, <1>3

\* Every step keeps the type invariant.
LEMMA TypeStep ==
    ASSUME TypeOK, [Next]_vars
    PROVE  TypeOK'
<1>1. CASE startServer
  BY <1>1, NoSessionType DEF startServer, TypeOK
<1>2. CASE stopServer
  BY <1>2, NoSessionType DEF stopServer, TypeOK
<1>3. ASSUME NEW p \in Peers, PinRejected(p) PROVE TypeOK'
  BY <1>3 DEF PinRejected, TypeOK
<1>4. ASSUME NEW r \in Prepares, NEW p \in Peers, NEW pin, PrepareStart(r, p, pin)
      PROVE  TypeOK'
  <2>1. prep[r] \in PrepareHandler
    BY DEF TypeOK
  <2>2. [prep[r] EXCEPT !.pc = "reading", !.peer = p] \in PrepareHandler
    BY <2>1 DEF PrepareHandler
  <2> QED
    BY <1>4, <2>2, PrepareHandlers DEF PrepareStart, TypeOK
<1>5. ASSUME NEW r \in Prepares, PrepareMalformed(r) \/ PrepareOffline(r) \/ PrepareRespond(r)
      PROVE  TypeOK'
  <2>1. prep[r] \in PrepareHandler
    BY DEF TypeOK
  <2>2. /\ [prep[r] EXCEPT !.pc = "done", !.resp = 400] \in PrepareHandler
        /\ [prep[r] EXCEPT !.pc = "dead"] \in PrepareHandler
        /\ [prep[r] EXCEPT !.pc = "done", !.resp = 200] \in PrepareHandler
    <3>1. [prep[r] EXCEPT !.pc = "dead"] \in PrepareHandler
      BY <2>1 DEF PrepareHandler
    <3>2. 400 \in Answers /\ 200 \in Answers
      BY AnswerTypes
    <3>3. [prep[r] EXCEPT !.pc = "done", !.resp = 400] \in PrepareHandler
      BY <2>1, <3>2, AnsweredType
    <3>4. [prep[r] EXCEPT !.pc = "done", !.resp = 200] \in PrepareHandler
      BY <2>1, <3>2, AnsweredType
    <3> QED
      BY <3>1, <3>3, <3>4
  <2>3. CASE PrepareMalformed(r)
    BY <2>2, <2>3, PrepareHandlers DEF PrepareMalformed, TypeOK
  <2>4. CASE PrepareOffline(r)
    BY <2>2, <2>4, PrepareHandlers DEF PrepareOffline, TypeOK
  <2>5. CASE PrepareRespond(r)
    BY <2>2, <2>5, PrepareHandlers DEF PrepareRespond, TypeOK
  <2> QED
    BY <1>5, <2>3, <2>4, <2>5
<1>6. ASSUME NEW r \in Prepares, NEW offered \in SUBSET Files, NEW message \in BOOLEAN,
             PrepareInstall(r, offered, message)
      PROVE  TypeOK'
  <2> DEFINE new == Waiting(r, offered, message)
  <2>1. prep[r] \in PrepareHandler
    BY DEF TypeOK
  <2>2. /\ [prep[r] EXCEPT !.pc = "responding", !.granted = offered] \in PrepareHandler
        /\ [prep[r] EXCEPT !.pc = "deciding"] \in PrepareHandler
    BY <2>1 DEF PrepareHandler
  <2>3. new \in Session /\ Selected(new, offered) \in Session
    BY WaitingType, SelectedType
  <2>4. session' \in Session
    BY <1>6, <2>3 DEF PrepareInstall
  <2>5. prep' \in [Prepares -> PrepareHandler]
    BY <1>6, <2>2, PrepareHandlers DEF PrepareInstall
  <2> QED
    BY <1>6, <2>4, <2>5 DEF PrepareInstall, TypeOK
<1>7. ASSUME NEW selection \in SUBSET Files, acceptFileRequest(selection) PROVE TypeOK'
  <2>1. session \in Session /\ session.id \in Prepares
    BY <1>7 DEF acceptFileRequest, Asking, Active, TypeOK, Session
  <2>2. prep[session.id] \in PrepareHandler
    BY <2>1 DEF TypeOK
  <2>3. [prep[session.id] EXCEPT !.pc = "responding", !.granted = selection] \in PrepareHandler
    BY <2>2 DEF PrepareHandler
  <2>4. Selected(session, selection) \in Session
    BY <2>1, SelectedType
  <2>5. prep' \in [Prepares -> PrepareHandler]
    BY <1>7, <2>1, <2>3, PrepareHandlers DEF acceptFileRequest
  <2> QED
    BY <1>7, <2>4, <2>5 DEF acceptFileRequest, TypeOK
<1>8. CASE acceptMessage \/ declineFileRequest
  <2>1. session \in Session /\ session.id \in Prepares
    BY <1>8 DEF acceptMessage, declineFileRequest, Asking, Active, TypeOK, Session
  <2>2. prep[session.id] \in PrepareHandler
    BY <2>1 DEF TypeOK
  <2>3. /\ [prep[session.id] EXCEPT !.pc = "done", !.resp = 204] \in PrepareHandler
        /\ [prep[session.id] EXCEPT !.pc = "done", !.resp = 403] \in PrepareHandler
    <3>1. 204 \in Answers /\ 403 \in Answers
      BY AnswerTypes
    <3>2. [prep[session.id] EXCEPT !.pc = "done", !.resp = 204] \in PrepareHandler
      BY <2>2, <3>1, AnsweredType
    <3>3. [prep[session.id] EXCEPT !.pc = "done", !.resp = 403] \in PrepareHandler
      BY <2>2, <3>1, AnsweredType
    <3> QED
      BY <3>2, <3>3
  <2>4. prep' \in [Prepares -> PrepareHandler]
    BY <1>8, <2>1, <2>3, PrepareHandlers DEF acceptMessage, declineFileRequest
  <2> QED
    BY <1>8, <2>4, NoSessionType DEF acceptMessage, declineFileRequest, TypeOK
<1>9. CASE closeCanceled \/ cancelSession
  BY <1>9, NoSessionType DEF closeCanceled, cancelSession, TypeOK
<1>10. ASSUME NEW u \in Uploads, NEW p \in Peers, NEW s \in Prepares, NEW f \in Files,
              UploadStart(u, p, s, f)
       PROVE  TypeOK'
  <2>1. session \in Session /\ upl[u] \in UploadHandler
    BY DEF TypeOK
  <2>2. [session.files EXCEPT ![f] = "sending"] \in [Files -> FileStatus \cup {"absent"}]
    BY <2>1 DEF Session, FileStatus
  <2>3. [session EXCEPT !.files = [session.files EXCEPT ![f] = "sending"],
                        !.status = "sending"] \in Session
    BY <2>1, <2>2 DEF Session, SessionStatus, Allowed
  <2>4. [upl[u] EXCEPT !.pc = "saving", !.sid = s, !.file = f] \in UploadHandler
    BY <2>1 DEF UploadHandler
  <2>5. upl' \in [Uploads -> UploadHandler]
    BY <1>10, <2>4, UploadHandlers DEF UploadStart
  <2> QED
    BY <1>10, <2>3, <2>5 DEF UploadStart, TypeOK
<1>11. ASSUME NEW u \in Uploads, UploadSaved(u) PROVE TypeOK'
  <2>1. upl[u] \in UploadHandler
    BY DEF TypeOK
  <2>2. /\ [upl[u] EXCEPT !.pc = "recording", !.saved = TRUE] \in UploadHandler
        /\ [upl[u] EXCEPT !.pc = "done", !.saved = TRUE, !.resp = 500] \in UploadHandler
        /\ [upl[u] EXCEPT !.pc = "dead", !.saved = TRUE] \in UploadHandler
    <3>1. /\ [upl[u] EXCEPT !.pc = "recording", !.saved = TRUE] \in UploadHandler
          /\ [upl[u] EXCEPT !.pc = "dead", !.saved = TRUE] \in UploadHandler
      BY <2>1 DEF UploadHandler
    <3>2. 500 \in Answers
      BY AnswerTypes
    <3>3. [upl[u] EXCEPT !.pc = "done", !.saved = TRUE, !.resp = 500] \in UploadHandler
      BY <2>1, <3>2, SavedAnswer
    <3> QED
      BY <3>1, <3>3
  <2>3. upl' \in [Uploads -> UploadHandler]
    BY <1>11, <2>2, UploadHandlers DEF UploadSaved
  <2>4. fileFinished(u, "finished") \in Session
    BY FileFinishedType DEF FileStatus
  <2> QED
    BY <1>11, <2>3, <2>4 DEF UploadSaved, TypeOK
<1>12. ASSUME NEW u \in Uploads, UploadFailed(u) PROVE TypeOK'
  <2>1. CASE Active /\ session.id # upl[u].sid
    <3>1. [upl[u] EXCEPT !.pc = "dead"] \in UploadHandler
      BY DEF TypeOK, UploadHandler
    <3> QED
      BY <1>12, <2>1, <3>1, UploadHandlers DEF UploadFailed, TypeOK
  <2>2. CASE ~(Active /\ session.id # upl[u].sid)
    <3>1. (IF Active THEN fileFinished(u, "failed") ELSE session) \in Session
      BY FileFinishedType DEF FileStatus, TypeOK
    <3>2. session' \in Session /\ upl' \in [Uploads -> UploadHandler]
      BY <1>12, <2>2, <3>1, ConcludeType DEF UploadFailed
    <3> QED
      BY <1>12, <3>2 DEF UploadFailed, TypeOK
  <2> QED
    BY <2>1, <2>2
<1>13. ASSUME NEW u \in Uploads, UploadRecorded(u) PROVE TypeOK'
  <2>1. session' \in Session /\ upl' \in [Uploads -> UploadHandler]
    BY <1>13, ConcludeType DEF UploadRecorded, TypeOK
  <2> QED
    BY <1>13, <2>1 DEF UploadRecorded, TypeOK
<1>14. ASSUME NEW u \in Uploads, QuickSaveClose(u) PROVE TypeOK'
  <2>1. upl[u] \in UploadHandler
    BY DEF TypeOK
  <2>2. [upl[u] EXCEPT !.timer = FALSE] \in UploadHandler
    BY <2>1 DEF UploadHandler
  <2> QED
    BY <1>14, <2>2, UploadHandlers, NoSessionType DEF QuickSaveClose, TypeOK
<1>15. ASSUME NEW p, NEW v2, NEW s, Cancel(p, v2, s) PROVE TypeOK'
  <2>1. [session EXCEPT !.status = "canceledBySender"] \in Session
    BY DEF TypeOK, Session, SessionStatus
  <2> QED
    BY <1>15, <2>1 DEF Cancel, mayCancel, TypeOK
<1>16. CASE UNCHANGED vars
  BY <1>16 DEF vars, TypeOK
<1> QED
  BY <1>1, <1>2, <1>3, <1>4, <1>5, <1>6, <1>7, <1>8, <1>9, <1>10, <1>11, <1>12,
     <1>13, <1>14, <1>15, <1>16, NextCases

\* The type invariant: every variable, and so every counter and status, stays
\* in its range; in particular no peer ever has more than three wrong PINs.
THEOREM TypeCorrect == Spec => []TypeOK
<1>1. Init => TypeOK
  <2> SUFFICES ASSUME Init PROVE TypeOK
    OBVIOUS
  <2>1. session \in Session
    BY NoSessionType DEF Init
  <2>2. prep \in [Prepares -> PrepareHandler]
    BY AnswerTypes DEF Init, PrepareHandler
  <2>3. upl \in [Uploads -> UploadHandler]
    BY AnswerTypes DEF Init, UploadHandler
  <2>4. pinAttempts \in [Peers -> 0..3]
    BY DEF Init
  <2>5. online \in BOOLEAN
    BY DEF Init
  <2> QED
    BY <2>1, <2>2, <2>3, <2>4, <2>5 DEF TypeOK
<1>2. TypeOK /\ [Next]_vars => TypeOK'
  BY TypeStep
<1> QED
  BY <1>1, <1>2, PTL DEF Spec

-----------------------------------------------------------------------------
(* Consent. *)

\* The session belongs to a request that is past its installation.
SessionOwner ==
    Active => /\ prep[session.id].pc \notin {"free", "reading"}
              /\ session.sender = prep[session.id].peer
              /\ session.tokens \subseteq prep[session.id].granted

\* Nothing is granted before the decision.
Ungranted ==
    \A r \in Prepares : prep[r].pc \in {"free", "reading", "deciding"} => prep[r].granted = {}

\* An upload is one of a granted file.
UploadConsent ==
    \A u \in Uploads : upl[u].pc # "free" =>
       upl[u].sid \in Prepares /\ upl[u].file \in prep[upl[u].sid].granted

ConsentInv == SessionOwner /\ Ungranted /\ UploadConsent

\* Most steps change neither who asked for what, nor what was granted.
SessionFrame ==
    \/ session' = NoSession
    \/ /\ session'.id = session.id /\ session'.sender = session.sender
       /\ session'.tokens = session.tokens

PrepareFrame ==
    \A r \in Prepares :
       /\ prep'[r].peer = prep[r].peer /\ prep'[r].granted = prep[r].granted
       /\ prep[r].pc \notin {"free", "reading"} => prep'[r].pc \notin {"free", "reading"}
       /\ prep'[r].pc \in {"free", "reading", "deciding"}
             => prep[r].pc \in {"free", "reading", "deciding"}

UploadFrame ==
    \A u \in Uploads : upl'[u].pc # "free" =>
       /\ upl[u].pc # "free"
       /\ upl'[u].sid = upl[u].sid /\ upl'[u].file = upl[u].file

\* Steps within the frames keep the consent invariant.
LEMMA ConsentFrame ==
    ASSUME ConsentInv, session \in Session, SessionFrame, PrepareFrame, UploadFrame
    PROVE  ConsentInv'
<1>1. SessionOwner'
  <2>1. CASE session' = NoSession
    BY <2>1 DEF SessionOwner, Active, NoSession
  <2>2. CASE /\ session'.id = session.id /\ session'.sender = session.sender
             /\ session'.tokens = session.tokens
    <3> SUFFICES ASSUME Active' PROVE /\ prep'[session'.id].pc \notin {"free", "reading"}
                                      /\ session'.sender = prep'[session'.id].peer
                                      /\ session'.tokens \subseteq prep'[session'.id].granted
      BY DEF SessionOwner
    <3>1. Active /\ session.id \in Prepares
      BY <2>2 DEF Active, Session
    <3> QED
      BY <2>2, <3>1 DEF ConsentInv, SessionOwner, PrepareFrame
  <2> QED
    BY <2>1, <2>2 DEF SessionFrame
<1>2. Ungranted'
  BY DEF ConsentInv, Ungranted, PrepareFrame
<1>3. UploadConsent'
  BY DEF ConsentInv, UploadConsent, UploadFrame, PrepareFrame
<1> QED
  BY <1>1, <1>2, <1>3 DEF ConsentInv

\* The steps of a prepare-upload handler that waits for nothing any more.
LEMMA PrepareFrames ==
    ASSUME TypeOK, NEW r \in Prepares, NEW h,
           prep' = [prep EXCEPT ![r] = h],
           h.peer = prep[r].peer, h.granted = prep[r].granted,
           h.pc \in {"responding", "done", "dead"}
    PROVE  PrepareFrame
<1>1. prep'[r] = h /\ \A q \in Prepares \ {r} : prep'[q] = prep[q]
  BY DEF TypeOK
<1> QED
  BY <1>1 DEF PrepareFrame

\* An answer keeps what the handler asked for and was granted.
LEMMA AnsweredFrame ==
    ASSUME TypeOK, NEW r \in Prepares, NEW resp,
           prep' = [prep EXCEPT ![r] = [prep[r] EXCEPT !.pc = "done", !.resp = resp]]
    PROVE  PrepareFrame
<1> DEFINE h == [prep[r] EXCEPT !.pc = "done", !.resp = resp]
<1>1. prep[r] \in PrepareHandler /\ prep' = [prep EXCEPT ![r] = h]
  BY DEF TypeOK
<1>2. h.peer = prep[r].peer /\ h.granted = prep[r].granted /\ h.pc = "done"
  BY <1>1 DEF PrepareHandler
<1> HIDE DEF h
<1> QED
  BY <1>1, <1>2, PrepareFrames

\* The steps of an upload handler after its start.
LEMMA UploadFrames ==
    ASSUME TypeOK, NEW u \in Uploads, upl[u].pc # "free", NEW h,
           upl' = [upl EXCEPT ![u] = h], h.sid = upl[u].sid, h.file = upl[u].file
    PROVE  UploadFrame
<1>1. upl'[u] = h /\ \A v \in Uploads \ {u} : upl'[v] = upl[v]
  BY DEF TypeOK
<1> QED
  BY <1>1 DEF UploadFrame

\* The ways in which the code updates a running upload keep its session and
\* its file.
LEMMA EndedUpload ==
    ASSUME TypeOK, NEW u \in Uploads, upl[u].pc # "free", NEW pc, NEW resp, NEW timer,
           \/ upl' = [upl EXCEPT ![u] = [upl[u] EXCEPT !.pc = pc, !.resp = resp]]
           \/ upl' = [upl EXCEPT ![u] = [upl[u] EXCEPT !.pc = pc, !.resp = resp, !.timer = timer]]
           \/ upl' = [upl EXCEPT ![u] = [upl[u] EXCEPT !.pc = pc, !.saved = TRUE]]
           \/ upl' = [upl EXCEPT ![u] = [upl[u] EXCEPT !.pc = pc, !.saved = TRUE, !.resp = resp]]
    PROVE  UploadFrame
<1>0. upl[u] \in UploadHandler
  BY DEF TypeOK
<1>1. CASE upl' = [upl EXCEPT ![u] = [upl[u] EXCEPT !.pc = pc, !.resp = resp]]
  <2> DEFINE h == [upl[u] EXCEPT !.pc = pc, !.resp = resp]
  <2>1. h.sid = upl[u].sid /\ h.file = upl[u].file
    BY <1>0 DEF UploadHandler
  <2>2. upl' = [upl EXCEPT ![u] = h]
    BY <1>1
  <2> HIDE DEF h
  <2> QED
    BY <2>1, <2>2, UploadFrames
<1>2. CASE upl' = [upl EXCEPT ![u] = [upl[u] EXCEPT !.pc = pc, !.resp = resp, !.timer = timer]]
  <2> DEFINE h == [upl[u] EXCEPT !.pc = pc, !.resp = resp, !.timer = timer]
  <2>1. h.sid = upl[u].sid /\ h.file = upl[u].file
    BY <1>0 DEF UploadHandler
  <2>2. upl' = [upl EXCEPT ![u] = h]
    BY <1>2
  <2> HIDE DEF h
  <2> QED
    BY <2>1, <2>2, UploadFrames
<1>3. CASE upl' = [upl EXCEPT ![u] = [upl[u] EXCEPT !.pc = pc, !.saved = TRUE]]
  <2> DEFINE h == [upl[u] EXCEPT !.pc = pc, !.saved = TRUE]
  <2>1. h.sid = upl[u].sid /\ h.file = upl[u].file
    BY <1>0 DEF UploadHandler
  <2>2. upl' = [upl EXCEPT ![u] = h]
    BY <1>3
  <2> HIDE DEF h
  <2> QED
    BY <2>1, <2>2, UploadFrames
<1>4. CASE upl' = [upl EXCEPT ![u] = [upl[u] EXCEPT !.pc = pc, !.saved = TRUE, !.resp = resp]]
  <2> DEFINE h == [upl[u] EXCEPT !.pc = pc, !.saved = TRUE, !.resp = resp]
  <2>1. h.sid = upl[u].sid /\ h.file = upl[u].file
    BY <1>0 DEF UploadHandler
  <2>2. upl' = [upl EXCEPT ![u] = h]
    BY <1>4
  <2> HIDE DEF h
  <2> QED
    BY <2>1, <2>2, UploadFrames
<1> QED
  BY <1>1, <1>2, <1>3, <1>4

\* The end of an upload keeps the owner and the tokens of the session, and what
\* the upload was started for.
LEMMA ConcludeFrames ==
    ASSUME TypeOK, NEW u \in Uploads, upl[u].pc # "free", NEW s \in Session, Conclude(u, s)
    PROVE  /\ UploadFrame
           /\ /\ session'.id = s.id /\ session'.sender = s.sender
              /\ session'.tokens = s.tokens
<1>1. UploadFrame
  <2>1. CASE s.id = None
    <3> DEFINE pc == IF online THEN "done" ELSE "dead"
               resp == IF online THEN 500 ELSE 0
    <3>1. upl' = [upl EXCEPT ![u] = [upl[u] EXCEPT !.pc = pc, !.resp = resp]]
      BY <2>1 DEF Conclude
    <3> HIDE DEF pc, resp
    <3> QED
      BY <3>1, EndedUpload
  <2>2. CASE s.id # None
    <3> DEFINE timer == s.status \in Allowed /\ isFinishedOrError(s) /\ closesItself(s)
    <3>1. upl' = [upl EXCEPT ![u] = [upl[u] EXCEPT !.pc = "done", !.resp = answer(u, s),
                                                   !.timer = timer]]
      BY <2>2 DEF Conclude
    <3> HIDE DEF timer
    <3> QED
      BY <3>1, EndedUpload
  <2> QED
    BY <2>1, <2>2
<1>2. session' = s \/ session' = [s EXCEPT !.status = IF hasError(s) THEN "finishedWithErrors"
                                                                    ELSE "finished"]
  BY DEF Conclude
<1> QED
  BY <1>1, <1>2 DEF Session

\* Every step keeps the consent invariant.
LEMMA ConsentStep ==
    ASSUME TypeOK, ConsentInv, [Next]_vars
    PROVE  ConsentInv'
<1>0. session \in Session
  BY DEF TypeOK
<1>1. CASE \/ startServer \/ stopServer \/ closeCanceled \/ cancelSession \/ UNCHANGED vars
           \/ \E p \in Peers : PinRejected(p)
           \/ \E p \in Peers, v2 \in BOOLEAN, s \in Prepares \cup {None} : Cancel(p, v2, s)
  <2>1. SessionFrame
    BY <1>0, <1>1 DEF startServer, stopServer, closeCanceled, cancelSession, vars, PinRejected,
       Cancel, SessionFrame, Session
  <2>2. prep' = prep /\ upl' = upl
    BY <1>1 DEF startServer, stopServer, closeCanceled, cancelSession, vars, PinRejected, Cancel, mayCancel
  <2>3. PrepareFrame /\ UploadFrame
    BY <2>2 DEF PrepareFrame, UploadFrame
  <2> QED
    BY <1>0, <2>1, <2>3, ConsentFrame
<1>2. ASSUME NEW r \in Prepares, NEW p \in Peers, NEW pin, PrepareStart(r, p, pin)
      PROVE  ConsentInv'
  <2>1. prep' = [prep EXCEPT ![r] = [prep[r] EXCEPT !.pc = "reading", !.peer = p]]
    BY <1>2 DEF PrepareStart
  <2>2. /\ \A q \in Prepares : prep'[q].granted = prep[q].granted
        /\ \A q \in Prepares \ {r} : prep'[q] = prep[q]
    BY <2>1 DEF TypeOK, PrepareHandler
  <2>3. prep[r].pc = "free" /\ ~Active /\ session' = session /\ upl' = upl
    BY <1>2 DEF PrepareStart
  <2>4. SessionOwner'
    BY <2>3 DEF SessionOwner, Active
  <2>5. Ungranted' /\ UploadConsent'
    BY <2>2, <2>3 DEF ConsentInv, Ungranted, UploadConsent
  <2> QED
    BY <2>4, <2>5 DEF ConsentInv
<1>3. ASSUME NEW r \in Prepares, PrepareMalformed(r) \/ PrepareOffline(r) \/ PrepareRespond(r)
      PROVE  ConsentInv'
  <2>1. PrepareFrame
    <3>1. prep[r] \in PrepareHandler
      BY DEF TypeOK
    <3>2. ASSUME NEW resp, prep' = [prep EXCEPT ![r] = [prep[r] EXCEPT !.pc = "done", !.resp = resp]]
          PROVE  PrepareFrame
      BY <3>1, <3>2, AnsweredFrame
    <3>3. CASE PrepareMalformed(r)
      BY <3>2, <3>3 DEF PrepareMalformed
    <3>4. CASE PrepareRespond(r)
      BY <3>2, <3>4 DEF PrepareRespond
    <3>5. CASE PrepareOffline(r)
      <4> DEFINE h == [prep[r] EXCEPT !.pc = "dead"]
      <4>1. h.peer = prep[r].peer /\ h.granted = prep[r].granted /\ h.pc = "dead"
        BY <3>1 DEF PrepareHandler
      <4>2. prep' = [prep EXCEPT ![r] = h]
        BY <3>5 DEF PrepareOffline
      <4> HIDE DEF h
      <4> QED
        BY <4>1, <4>2, PrepareFrames
    <3> QED
      BY <1>3, <3>3, <3>4, <3>5
  <2>2. session' = session /\ upl' = upl
    BY <1>3 DEF PrepareMalformed, PrepareOffline, PrepareRespond
  <2>3. SessionFrame /\ UploadFrame
    BY <2>2 DEF SessionFrame, UploadFrame
  <2> QED
    BY <1>0, <2>1, <2>3, ConsentFrame
<1>4. ASSUME NEW r \in Prepares, NEW offered \in SUBSET Files, NEW message \in BOOLEAN,
             PrepareInstall(r, offered, message)
      PROVE  ConsentInv'
  <2> DEFINE new == Waiting(r, offered, message)
  <2>1. \/ /\ session' = Selected(new, offered)
           /\ prep' = [prep EXCEPT ![r] = [prep[r] EXCEPT !.pc = "responding",
                                                          !.granted = offered]]
        \/ /\ session' = new
           /\ prep' = [prep EXCEPT ![r] = [prep[r] EXCEPT !.pc = "deciding"]]
    BY <1>4 DEF PrepareInstall
  <2>2. prep[r].pc = "reading" /\ upl' = upl
    BY <1>4 DEF PrepareInstall
  <2>3. /\ new.id = r /\ new.sender = prep[r].peer /\ new.tokens = {}
        /\ Selected(new, offered).id = r /\ Selected(new, offered).sender = prep[r].peer
        /\ Selected(new, offered).tokens \subseteq offered
    BY DEF Waiting, Selected
  <2> HIDE DEF new
  <2>4. /\ prep'[r].peer = prep[r].peer /\ prep'[r].pc \in {"responding", "deciding"}
        /\ \A q \in Prepares \ {r} : prep'[q] = prep[q]
        /\ session'.id = r /\ session'.sender = prep[r].peer
        /\ session'.tokens \subseteq prep'[r].granted
        /\ prep'[r].pc = "deciding" => prep'[r].granted = prep[r].granted
    <3>0. prep[r] \in PrepareHandler /\ prep \in [Prepares -> PrepareHandler]
      BY DEF TypeOK
    <3>1. CASE /\ session' = Selected(new, offered)
               /\ prep' = [prep EXCEPT ![r] = [prep[r] EXCEPT !.pc = "responding",
                                                              !.granted = offered]]
      BY <3>0, <3>1, <2>3 DEF PrepareHandler
    <3>2. CASE /\ session' = new
               /\ prep' = [prep EXCEPT ![r] = [prep[r] EXCEPT !.pc = "deciding"]]
      BY <3>0, <3>2, <2>3 DEF PrepareHandler
    <3> QED
      BY <2>1, <3>1, <3>2
  <2>5. SessionOwner'
    BY <2>4 DEF SessionOwner
  <2>6. Ungranted'
    BY <2>2, <2>4 DEF ConsentInv, Ungranted
  <2>7. UploadConsent'
    BY <2>2, <2>4 DEF ConsentInv, Ungranted, UploadConsent
  <2> QED
    BY <2>5, <2>6, <2>7 DEF ConsentInv
<1>5. ASSUME NEW selection \in SUBSET Files, acceptFileRequest(selection) PROVE ConsentInv'
  <2> DEFINE r == session.id
  <2>1. r \in Prepares /\ prep[r].pc = "deciding" /\ upl' = upl
    BY <1>0, <1>5 DEF acceptFileRequest, Asking, Active, Session
  <2>2. /\ session' = Selected(session, selection)
        /\ prep' = [prep EXCEPT ![r] = [prep[r] EXCEPT !.pc = "responding",
                                                       !.granted = selection]]
    BY <1>5 DEF acceptFileRequest
  <2>3. /\ session'.id = r /\ session'.sender = session.sender
        /\ session'.tokens \subseteq selection
    BY <1>0, <2>2 DEF Selected, Session
  <2> HIDE DEF r
  <2>4. /\ prep'[r].peer = prep[r].peer /\ prep'[r].pc = "responding"
        /\ prep'[r].granted = selection
        /\ \A q \in Prepares \ {r} : prep'[q] = prep[q]
    BY <2>1, <2>2 DEF TypeOK, PrepareHandler
  <2>5. session.sender = prep[r].peer
    BY <1>5 DEF r, acceptFileRequest, Asking, ConsentInv, SessionOwner
  <2>6. SessionOwner'
    BY <2>3, <2>4, <2>5 DEF SessionOwner
  <2>7. Ungranted'
    BY <2>1, <2>4 DEF ConsentInv, Ungranted
  <2>8. UploadConsent'
    BY <2>1, <2>4 DEF ConsentInv, Ungranted, UploadConsent
  <2> QED
    BY <2>6, <2>7, <2>8 DEF ConsentInv
<1>6. CASE acceptMessage \/ declineFileRequest
  <2>1. session.id \in Prepares
    BY <1>0, <1>6 DEF acceptMessage, declineFileRequest, Asking, Active, Session
  <2>2. PrepareFrame
    <3>1. prep[session.id] \in PrepareHandler
      BY <2>1 DEF TypeOK
    <3>2. ASSUME NEW resp,
                 prep' = [prep EXCEPT ![session.id] =
                            [prep[session.id] EXCEPT !.pc = "done", !.resp = resp]]
          PROVE  PrepareFrame
      BY <2>1, <3>2, AnsweredFrame
    <3>3. CASE acceptMessage
      BY <3>2, <3>3 DEF acceptMessage
    <3>4. CASE declineFileRequest
      BY <3>2, <3>4 DEF declineFileRequest
    <3> QED
      BY <1>6, <3>3, <3>4
  <2>3. session' = NoSession /\ upl' = upl
    BY <1>6 DEF acceptMessage, declineFileRequest
  <2>4. SessionFrame /\ UploadFrame
    BY <2>3 DEF SessionFrame, UploadFrame
  <2> QED
    BY <1>0, <2>2, <2>4, ConsentFrame
<1>7. ASSUME NEW u \in Uploads, NEW p \in Peers, NEW s \in Prepares, NEW f \in Files,
             UploadStart(u, p, s, f)
      PROVE  ConsentInv'
  <2>1. /\ session'.id = session.id /\ session'.sender = session.sender
        /\ session'.tokens = session.tokens
    BY <1>0, <1>7 DEF UploadStart, Session
  <2>2. /\ upl'[u].sid = s /\ upl'[u].file = f
        /\ \A v \in Uploads \ {u} : upl'[v] = upl[v]
    BY <1>7 DEF UploadStart, TypeOK, UploadHandler
  <2>3. Active /\ s = session.id /\ f \in session.tokens /\ prep' = prep
    BY <1>7 DEF UploadStart, mayUpload
  <2>4. f \in prep[s].granted
    BY <2>3 DEF ConsentInv, SessionOwner
  <2>5. SessionOwner'
    BY <2>1, <2>3 DEF ConsentInv, SessionOwner, Active
  <2>6. Ungranted'
    BY <2>3 DEF ConsentInv, Ungranted
  <2>7. UploadConsent'
    BY <2>2, <2>3, <2>4 DEF ConsentInv, UploadConsent
  <2> QED
    BY <2>5, <2>6, <2>7 DEF ConsentInv
<1>8. ASSUME NEW u \in Uploads, UploadSaved(u) PROVE ConsentInv'
  <2>1. UploadFrame
    <3>1. upl[u].pc # "free"
      BY <1>8 DEF UploadSaved
    <3>2. ASSUME NEW pc, upl' = [upl EXCEPT ![u] = [upl[u] EXCEPT !.pc = pc, !.saved = TRUE]]
          PROVE  UploadFrame
      BY <3>1, <3>2, EndedUpload
    <3>3. ASSUME NEW resp, upl' = [upl EXCEPT ![u] = [upl[u] EXCEPT !.pc = "done", !.saved = TRUE,
                                                                   !.resp = resp]]
          PROVE  UploadFrame
      BY <3>1, <3>3, EndedUpload
    <3>4. \/ upl' = [upl EXCEPT ![u] = [upl[u] EXCEPT !.pc = "recording", !.saved = TRUE]]
          \/ upl' = [upl EXCEPT ![u] = [upl[u] EXCEPT !.pc = "done", !.saved = TRUE, !.resp = 500]]
          \/ upl' = [upl EXCEPT ![u] = [upl[u] EXCEPT !.pc = "dead", !.saved = TRUE]]
      BY <1>8 DEF UploadSaved
    <3>5. CASE upl' = [upl EXCEPT ![u] = [upl[u] EXCEPT !.pc = "recording", !.saved = TRUE]]
      BY <3>2, <3>5
    <3>6. CASE upl' = [upl EXCEPT ![u] = [upl[u] EXCEPT !.pc = "done", !.saved = TRUE,
                                                        !.resp = 500]]
      BY <3>3, <3>6
    <3>7. CASE upl' = [upl EXCEPT ![u] = [upl[u] EXCEPT !.pc = "dead", !.saved = TRUE]]
      BY <3>2, <3>7
    <3> QED
      BY <3>4, <3>5, <3>6, <3>7
  <2>2. SessionFrame
    BY <1>0, <1>8 DEF UploadSaved, fileFinished, SessionFrame, Session
  <2>3. PrepareFrame
    BY <1>8 DEF UploadSaved, PrepareFrame
  <2> QED
    BY <1>0, <2>1, <2>2, <2>3, ConsentFrame
<1>9. ASSUME NEW u \in Uploads, UploadFailed(u) PROVE ConsentInv'
  <2>1. PrepareFrame /\ upl[u].pc # "free"
    BY <1>9 DEF UploadFailed, PrepareFrame
  <2>2. CASE Active /\ session.id # upl[u].sid
    <3>1. UploadFrame
      BY <1>9, <2>2 DEF UploadFailed, TypeOK, UploadHandler, UploadFrame
    <3>2. SessionFrame
      BY <1>9, <2>2 DEF UploadFailed, SessionFrame
    <3> QED
      BY <1>0, <2>1, <3>1, <3>2, ConsentFrame
  <2>3. CASE ~(Active /\ session.id # upl[u].sid)
    <3> DEFINE s == IF Active THEN fileFinished(u, "failed") ELSE session
    <3>1. s \in Session
      BY <1>0, FileFinishedType DEF FileStatus
    <3>2. s.id = session.id /\ s.sender = session.sender /\ s.tokens = session.tokens
      BY <1>0 DEF fileFinished, Session
    <3>3. Conclude(u, s)
      BY <1>9, <2>3 DEF UploadFailed
    <3> HIDE DEF s
    <3>4. UploadFrame /\ SessionFrame
      BY <2>1, <3>1, <3>2, <3>3, ConcludeFrames DEF SessionFrame
    <3> QED
      BY <1>0, <2>1, <3>4, ConsentFrame
  <2> QED
    BY <2>2, <2>3
<1>10. ASSUME NEW u \in Uploads, UploadRecorded(u) PROVE ConsentInv'
  <2>1. PrepareFrame /\ upl[u].pc # "free" /\ Conclude(u, session)
    BY <1>10 DEF UploadRecorded, PrepareFrame
  <2>2. UploadFrame /\ SessionFrame
    BY <1>0, <2>1, ConcludeFrames DEF SessionFrame
  <2> QED
    BY <1>0, <2>1, <2>2, ConsentFrame
<1>11. ASSUME NEW u \in Uploads, QuickSaveClose(u) PROVE ConsentInv'
  <2>1. UploadFrame
    BY <1>11 DEF QuickSaveClose, TypeOK, UploadHandler, UploadFrame
  <2>2. SessionFrame /\ PrepareFrame
    BY <1>11 DEF QuickSaveClose, SessionFrame, PrepareFrame
  <2> QED
    BY <1>0, <2>1, <2>2, ConsentFrame
<1> QED
  BY <1>1, <1>2, <1>3, <1>4, <1>5, <1>6, <1>7, <1>8, <1>9, <1>10, <1>11, NextCases

\* A file is only received in a session of the peer that asked for it and only
\* when it was accepted for the very request its token answers, for any number
\* of requests that race to set the one session of the server.
THEOREM ConsentCorrect == Spec => []ConsentBeforeData
<1>1. Init => ConsentInv
  BY DEF Init, NoSession, Active, ConsentInv, SessionOwner, Ungranted, UploadConsent
<1>2. TypeOK /\ ConsentInv /\ [Next]_vars => ConsentInv'
  BY ConsentStep
<1>3. ConsentInv => ConsentBeforeData
  BY DEF ConsentInv, SessionOwner, UploadConsent, ConsentBeforeData
<1> QED
  BY <1>1, <1>2, <1>3, TypeCorrect, PTL DEF Spec

-----------------------------------------------------------------------------
(* Answers. *)

SavedInv ==
    /\ \A u \in Uploads : /\ upl[u].pc = "recording" => upl[u].saved
                          /\ upl[u].pc = "free" => ~upl[u].saved
    /\ OkMeansSaved

\* What a handler that ends has answered.
LEMMA ConcludeAnswer ==
    ASSUME TypeOK, NEW u \in Uploads, NEW s \in Session, Conclude(u, s)
    PROVE  /\ upl'[u].saved = upl[u].saved
           /\ upl'[u].pc \in {"done", "dead"}
           /\ upl'[u].resp = 200 => answer(u, s) = 200
           /\ \A v \in Uploads \ {u} : upl'[v] = upl[v]
<1>0. upl \in [Uploads -> UploadHandler] /\ upl[u] \in UploadHandler
  BY DEF TypeOK
<1>1. CASE s.id = None
  <2> DEFINE pc == IF online THEN "done" ELSE "dead"
             resp == IF online THEN 500 ELSE 0
             h == [upl[u] EXCEPT !.pc = pc, !.resp = resp]
  <2>1. pc \in {"done", "dead"}
    OBVIOUS
  <2>2. resp # 200
    OBVIOUS
  <2>3. upl' = [upl EXCEPT ![u] = h]
    BY <1>1 DEF Conclude
  <2> HIDE DEF pc, resp
  <2>4. h.saved = upl[u].saved /\ h.pc = pc /\ h.resp = resp
    BY <1>0 DEF UploadHandler
  <2> HIDE DEF h
  <2> QED
    BY <1>0, <2>1, <2>2, <2>3, <2>4
<1>2. CASE s.id # None
  <2> DEFINE timer == s.status \in Allowed /\ isFinishedOrError(s) /\ closesItself(s)
             h == [upl[u] EXCEPT !.pc = "done", !.resp = answer(u, s), !.timer = timer]
  <2>1. upl' = [upl EXCEPT ![u] = h]
    BY <1>2 DEF Conclude
  <2> HIDE DEF timer
  <2>2. h.saved = upl[u].saved /\ h.pc = "done" /\ h.resp = answer(u, s)
    BY <1>0 DEF UploadHandler
  <2> HIDE DEF h
  <2> QED
    BY <1>0, <2>1, <2>2
<1> QED
  BY <1>1, <1>2

\* Every step keeps the invariant of saved uploads.
LEMMA SavedStep ==
    ASSUME TypeOK, ConsentInv, SavedInv, [Next]_vars
    PROVE  SavedInv'
<1>0. upl \in [Uploads -> UploadHandler] /\ session \in Session
  BY DEF TypeOK
<1>1. ASSUME NEW u \in Uploads, \A v \in Uploads \ {u} : upl'[v] = upl[v],
             upl'[u].pc = "recording" => upl'[u].saved,
             upl'[u].pc = "free" => ~upl'[u].saved,
             upl'[u].resp = 200 => upl'[u].saved
      PROVE  SavedInv'
  BY <1>1 DEF SavedInv, OkMeansSaved
<1>2. CASE upl' = upl
  BY <1>2 DEF SavedInv, OkMeansSaved
<1>3. ASSUME NEW u \in Uploads, NEW p \in Peers, NEW s \in Prepares, NEW f \in Files,
             UploadStart(u, p, s, f)
      PROVE  SavedInv'
  <2>1. /\ upl'[u].pc = "saving"
        /\ upl'[u].saved = upl[u].saved /\ upl'[u].resp = upl[u].resp
        /\ \A v \in Uploads \ {u} : upl'[v] = upl[v]
    BY <1>0, <1>3 DEF UploadStart, UploadHandler
  <2> QED
    BY <1>1, <2>1 DEF SavedInv, OkMeansSaved
<1>4. ASSUME NEW u \in Uploads, UploadSaved(u) PROVE SavedInv'
  <2> DEFINE h1 == [upl[u] EXCEPT !.pc = "recording", !.saved = TRUE]
             h2 == [upl[u] EXCEPT !.pc = "done", !.saved = TRUE, !.resp = 500]
             h3 == [upl[u] EXCEPT !.pc = "dead", !.saved = TRUE]
  <2>1. PICK h \in {h1, h2, h3} : upl' = [upl EXCEPT ![u] = h]
    BY <1>4 DEF UploadSaved
  <2>2. /\ h1.saved = TRUE /\ h2.saved = TRUE /\ h3.saved = TRUE
        /\ h1.pc = "recording" /\ h2.pc = "done" /\ h3.pc = "dead"
    BY <1>0 DEF UploadHandler
  <2> HIDE DEF h1, h2, h3
  <2>3. upl'[u].saved = TRUE /\ upl'[u].pc # "free" /\ \A v \in Uploads \ {u} : upl'[v] = upl[v]
    BY <1>0, <2>1, <2>2
  <2> QED
    BY <1>1, <2>3
<1>5. ASSUME NEW u \in Uploads, UploadFailed(u) PROVE SavedInv'
  <2>0. upl[u].pc \in {"saving", "recording"}
    BY <1>5 DEF UploadFailed
  <2>1. CASE Active /\ session.id # upl[u].sid
    <3>1. /\ upl'[u].pc = "dead"
          /\ upl'[u].saved = upl[u].saved /\ upl'[u].resp = upl[u].resp
          /\ \A v \in Uploads \ {u} : upl'[v] = upl[v]
      BY <1>0, <1>5, <2>1 DEF UploadFailed, UploadHandler
    <3> QED
      BY <1>1, <3>1 DEF SavedInv, OkMeansSaved
  <2>2. CASE ~(Active /\ session.id # upl[u].sid)
    <3> DEFINE s == IF Active THEN fileFinished(u, "failed") ELSE session
    <3>1. s \in Session
      BY <1>0, FileFinishedType DEF FileStatus
    <3>2. Conclude(u, s)
      BY <1>5, <2>2 DEF UploadFailed
    <3>3. upl[u].sid \in Prepares /\ upl[u].file \in Files
      <4>1. prep[upl[u].sid] \in PrepareHandler /\ upl[u].file \in prep[upl[u].sid].granted
        BY <2>0 DEF ConsentInv, UploadConsent, TypeOK
      <4> QED
        BY <2>0, <4>1 DEF ConsentInv, UploadConsent, PrepareHandler
    <3>4. answer(u, s) # 200
      <4>1. CASE Active
        <5>1. s.files[upl[u].file] = "failed"
          BY <1>0, <3>3, <4>1 DEF fileFinished, Session
        <5> HIDE DEF s
        <5> QED
          BY <5>1 DEF answer
      <4>2. CASE ~Active
        <5>1. s.id # upl[u].sid
          BY <3>3, <4>2, NoneAssumption DEF Active
        <5> HIDE DEF s
        <5> QED
          BY <5>1 DEF answer
      <4> QED
        BY <4>1, <4>2
    <3> HIDE DEF s
    <3> QED
      BY <1>1, <3>1, <3>2, <3>4, ConcludeAnswer
  <2> QED
    BY <2>1, <2>2
<1>6. ASSUME NEW u \in Uploads, UploadRecorded(u) PROVE SavedInv'
  <2>1. Conclude(u, session) /\ upl[u].saved
    BY <1>6 DEF UploadRecorded, SavedInv
  <2> QED
    BY <1>0, <1>1, <2>1, ConcludeAnswer
<1>7. ASSUME NEW u \in Uploads, QuickSaveClose(u) PROVE SavedInv'
  <2>1. /\ upl'[u].pc = upl[u].pc /\ upl'[u].saved = upl[u].saved /\ upl'[u].resp = upl[u].resp
        /\ \A v \in Uploads \ {u} : upl'[v] = upl[v]
    BY <1>0, <1>7 DEF QuickSaveClose, UploadHandler
  <2> QED
    BY <1>1, <2>1 DEF SavedInv, OkMeansSaved
<1> QED
  BY <1>2, <1>3, <1>4, <1>5, <1>6, <1>7, UploadCases

\* Whoever is told that an upload succeeded has had the file saved, however
\* many uploads, cancels and new sessions came between the save and the answer.
THEOREM AnswersCorrect == Spec => []OkMeansSaved
<1>1. Init => SavedInv
  BY AnswerTypes DEF Init, SavedInv, OkMeansSaved
<1>2. Init => ConsentInv
  BY DEF Init, NoSession, Active, ConsentInv, SessionOwner, Ungranted, UploadConsent
<1>3. TypeOK /\ ConsentInv /\ [Next]_vars => ConsentInv'
  BY ConsentStep
<1>4. TypeOK /\ ConsentInv /\ SavedInv /\ [Next]_vars => SavedInv'
  BY SavedStep
<1>5. SavedInv => OkMeansSaved
  BY DEF SavedInv
<1> QED
  BY <1>1, <1>2, <1>3, <1>4, <1>5, TypeCorrect, PTL DEF Spec

-----------------------------------------------------------------------------
(* Finished sessions. *)

Saved(f) == \E u \in Uploads : upl[u].saved /\ upl[u].sid = session.id /\ upl[u].file = f

FinishedInv ==
    /\ \A f \in session.tokens : session.files[f] \notin {"absent", "skipped"}
    /\ \A f \in Files : session.files[f] = "finished" => Saved(f)
    /\ FinishedMeansSaved

\* What was saved stays saved, in the session it was saved in.
SavedKept ==
    \A u \in Uploads : upl[u].saved =>
       upl'[u].saved /\ upl'[u].sid = upl[u].sid /\ upl'[u].file = upl[u].file

\* A step within a session.
LEMMA FinishedFrame ==
    ASSUME FinishedInv, SavedKept, session \in Session, session' \in Session,
           session'.id = session.id, session'.tokens = session.tokens,
           \A f \in Files : \/ session'.files[f] = session.files[f]
                            \/ /\ session'.files[f] \notin {"absent", "skipped"}
                               /\ session'.files[f] = "finished" => Saved(f)',
           session'.status = "finished" =>
              \/ session.status = "finished"
              \/ \A f \in session.tokens : session'.files[f] = "finished"
    PROVE  FinishedInv'
<1>0. session.tokens \subseteq Files
  BY DEF Session
<1>1. ASSUME NEW f, Saved(f) PROVE Saved(f)'
  BY <1>1 DEF Saved, SavedKept
<1>2. \A f \in session'.tokens : session'.files[f] \notin {"absent", "skipped"}
  BY <1>0 DEF FinishedInv
<1>3. \A f \in Files : session'.files[f] = "finished" => Saved(f)'
  BY <1>1 DEF FinishedInv
<1>4. ASSUME session'.status = "finished", NEW f \in session'.tokens PROVE Saved(f)'
  <2>1. CASE session.status = "finished"
    BY <1>1, <1>4, <2>1 DEF FinishedInv, FinishedMeansSaved, Saved
  <2>2. CASE session'.files[f] = "finished"
    BY <1>0, <1>3, <1>4, <2>2
  <2> QED
    BY <1>4, <2>1, <2>2
<1> QED
  BY <1>2, <1>3, <1>4 DEF FinishedInv, FinishedMeansSaved, Saved

\* A new session, or none.
LEMMA FinishedFresh ==
    ASSUME session'.status # "finished",
           \A f \in Files : session'.files[f] # "finished",
           \A f \in session'.tokens : session'.files[f] \notin {"absent", "skipped"}
    PROVE  FinishedInv'
BY DEF FinishedInv, FinishedMeansSaved

\* A selection of a session without finished files has none, and exactly the
\* selected files are accepted.
LEMMA FreshSelected ==
    ASSUME NEW s \in Session, NEW selection \in SUBSET Files,
           \A f \in Files : s.files[f] # "finished"
    PROVE  /\ Selected(s, selection).status # "finished"
           /\ \A f \in Files : Selected(s, selection).files[f] # "finished"
           /\ \A f \in Selected(s, selection).tokens :
                 Selected(s, selection).files[f] \notin {"absent", "skipped"}
<1> DEFINE files == [f \in Files |-> IF s.files[f] = "absent" THEN "absent"
                                     ELSE IF f \in selection THEN "queue" ELSE "skipped"]
           tokens == selection \cap {f \in Files : s.files[f] # "absent"}
<1>1. /\ Selected(s, selection).status = "sending"
      /\ Selected(s, selection).tokens = tokens /\ Selected(s, selection).files = files
  BY DEF Selected, Session
<1>2. \A f \in Files : files[f] # "finished"
  OBVIOUS
<1>3. \A f \in tokens : files[f] \notin {"absent", "skipped"}
  OBVIOUS
<1> HIDE DEF files, tokens
<1> QED
  BY <1>1, <1>2, <1>3

\* No step makes a saved file unsaved.
LEMMA SavedKeptStep ==
    ASSUME TypeOK, SavedInv, [Next]_vars
    PROVE  SavedKept
<1>0. upl \in [Uploads -> UploadHandler] /\ session \in Session
  BY DEF TypeOK
<1>1. CASE upl' = upl
  BY <1>1 DEF SavedKept
<1>2. ASSUME NEW u \in Uploads, NEW p \in Peers, NEW s \in Prepares, NEW f \in Files,
             UploadStart(u, p, s, f)
      PROVE  SavedKept
  BY <1>0, <1>2 DEF UploadStart, SavedKept, SavedInv
<1>3. ASSUME NEW u \in Uploads, UploadSaved(u) PROVE SavedKept
  <2> DEFINE h1 == [upl[u] EXCEPT !.pc = "recording", !.saved = TRUE]
             h2 == [upl[u] EXCEPT !.pc = "done", !.saved = TRUE, !.resp = 500]
             h3 == [upl[u] EXCEPT !.pc = "dead", !.saved = TRUE]
  <2>1. PICK h \in {h1, h2, h3} : upl' = [upl EXCEPT ![u] = h]
    BY <1>3 DEF UploadSaved
  <2>2. /\ h1.saved = TRUE /\ h1.sid = upl[u].sid /\ h1.file = upl[u].file
        /\ h2.saved = TRUE /\ h2.sid = upl[u].sid /\ h2.file = upl[u].file
        /\ h3.saved = TRUE /\ h3.sid = upl[u].sid /\ h3.file = upl[u].file
    BY <1>0 DEF UploadHandler
  <2> HIDE DEF h1, h2, h3
  <2> QED
    BY <1>0, <2>1, <2>2 DEF SavedKept
<1>4. ASSUME NEW u \in Uploads, NEW s \in Session, Conclude(u, s), upl[u].pc # "free"
      PROVE  SavedKept
  <2>1. UploadFrame
    BY <1>4, ConcludeFrames
  <2> QED
    BY <1>4, <2>1, ConcludeAnswer DEF SavedKept, UploadFrame
<1>5. ASSUME NEW u \in Uploads, UploadFailed(u) PROVE SavedKept
  <2>1. CASE Active /\ session.id # upl[u].sid
    BY <1>0, <1>5, <2>1 DEF UploadFailed, UploadHandler, SavedKept
  <2>2. CASE ~(Active /\ session.id # upl[u].sid)
    <3>1. (IF Active THEN fileFinished(u, "failed") ELSE session) \in Session
      BY <1>0, FileFinishedType DEF FileStatus
    <3>2. upl[u].pc # "free"
      BY <1>5 DEF UploadFailed
    <3> QED
      BY <1>4, <1>5, <2>2, <3>1, <3>2 DEF UploadFailed
  <2> QED
    BY <2>1, <2>2
<1>6. ASSUME NEW u \in Uploads, UploadRecorded(u) PROVE SavedKept
  BY <1>0, <1>4, <1>6 DEF UploadRecorded
<1>7. ASSUME NEW u \in Uploads, QuickSaveClose(u) PROVE SavedKept
  BY <1>0, <1>7 DEF QuickSaveClose, UploadHandler, SavedKept
<1> QED
  BY <1>1, <1>2, <1>3, <1>5, <1>6, <1>7, UploadCases

\* A handler that ends completes its session only if every accepted file of it
\* is finished.
LEMMA ConcludeSession ==
    ASSUME TypeOK, NEW u \in Uploads, NEW s \in Session, Conclude(u, s),
           \A f \in s.tokens : s.files[f] \notin {"absent", "skipped"}
    PROVE  /\ session'.id = s.id /\ session'.tokens = s.tokens /\ session'.files = s.files
           /\ session'.status = "finished" =>
                 s.status = "finished" \/ \A f \in s.tokens : s.files[f] = "finished"
<1>0. s.tokens \subseteq Files
  BY DEF Session
<1>1. \/ session' = s
      \/ /\ isFinishedOrError(s) /\ hasError(s)
         /\ session' = [s EXCEPT !.status = "finishedWithErrors"]
      \/ /\ isFinishedOrError(s) /\ ~hasError(s)
         /\ session' = [s EXCEPT !.status = "finished"]
  BY DEF Conclude
<1>2. isFinishedOrError(s) /\ ~hasError(s) => \A f \in s.tokens : s.files[f] = "finished"
  BY <1>0 DEF isFinishedOrError, hasError
<1> QED
  BY <1>1, <1>2 DEF Session

\* Every step keeps the invariant of finished sessions.
LEMMA FinishedStep ==
    ASSUME TypeOK, ConsentInv, SavedInv, FinishedInv, [Next]_vars
    PROVE  FinishedInv'
<1>0. upl \in [Uploads -> UploadHandler] /\ session \in Session /\ session' \in Session
  BY TypeStep DEF TypeOK
<1>1. SavedKept
  BY SavedKeptStep
<1>2. CASE session' = NoSession
  BY <1>2, FinishedFresh DEF NoSession
<1>3. CASE session' = session
  BY <1>0, <1>1, <1>3, FinishedFrame
<1>4. ASSUME NEW r \in Prepares, NEW offered \in SUBSET Files, NEW message \in BOOLEAN,
             PrepareInstall(r, offered, message)
      PROVE  FinishedInv'
  <2> DEFINE new == Waiting(r, offered, message)
  <2>1. session' = new \/ session' = Selected(new, offered)
    BY <1>4 DEF PrepareInstall
  <2>2. new.status = "waiting" /\ new.tokens = {} /\ \A f \in Files : new.files[f] # "finished"
    BY DEF Waiting
  <2>3. new \in Session
    BY WaitingType
  <2> HIDE DEF new
  <2> QED
    BY <2>1, <2>2, <2>3, FreshSelected, FinishedFresh
<1>5. ASSUME NEW selection \in SUBSET Files, acceptFileRequest(selection) PROVE FinishedInv'
  <2>1. session' = Selected(session, selection) /\ session.status = "waiting"
    BY <1>5 DEF acceptFileRequest
  <2> DEFINE files == [f \in Files |-> IF session.files[f] = "absent" THEN "absent"
                                       ELSE IF f \in selection THEN "queue" ELSE "skipped"]
             tokens == selection \cap {f \in Files : session.files[f] # "absent"}
  <2>2. /\ session'.status = "sending"
        /\ session'.tokens = tokens /\ session'.files = files
    BY <1>0, <2>1 DEF Selected, Session
  <2>3. \A f \in Files : files[f] # "finished"
    OBVIOUS
  <2>4. \A f \in tokens : files[f] \notin {"absent", "skipped"}
    OBVIOUS
  <2> HIDE DEF files, tokens
  <2> QED
    BY <2>2, <2>3, <2>4, FinishedFresh
<1>6. ASSUME NEW u \in Uploads, NEW p \in Peers, NEW s \in Prepares, NEW f \in Files,
             UploadStart(u, p, s, f)
      PROVE  FinishedInv'
  <2>1. /\ session'.id = session.id /\ session'.tokens = session.tokens
        /\ session'.status = "sending" /\ session'.files = [session.files EXCEPT ![f] = "sending"]
    BY <1>0, <1>6 DEF UploadStart, Session
  <2>2. session.files \in [Files -> FileStatus \cup {"absent"}]
    BY <1>0 DEF Session
  <2> QED
    BY <1>0, <1>1, <2>1, <2>2, FinishedFrame
<1>7. ASSUME NEW u \in Uploads, UploadSaved(u) PROVE FinishedInv'
  <2>1. CASE Active /\ session.status \in Allowed /\ session.id = upl[u].sid
    <3>1. session' = fileFinished(u, "finished")
      BY <1>7, <2>1 DEF UploadSaved
    <3>2. upl' = [upl EXCEPT ![u] = [upl[u] EXCEPT !.pc = "recording", !.saved = TRUE]]
      BY <1>7, <2>1 DEF UploadSaved
    <3>3. /\ session'.id = session.id /\ session'.tokens = session.tokens
          /\ session'.status = session.status
          /\ session'.files = [session.files EXCEPT ![upl[u].file] = "finished"]
      BY <1>0, <3>1 DEF fileFinished, Session
    <3>4. upl'[u].saved /\ upl'[u].sid = session'.id /\ upl'[u].file = upl[u].file
      BY <1>0, <2>1, <3>2, <3>3 DEF UploadHandler
    <3>5. Saved(upl[u].file)'
      BY <3>4 DEF Saved
    <3>6. session.files \in [Files -> FileStatus \cup {"absent"}]
      BY <1>0 DEF Session
    <3>7. \A f \in Files : \/ session'.files[f] = session.files[f]
                           \/ session'.files[f] = "finished" /\ Saved(f)'
      <4> SUFFICES ASSUME NEW f \in Files, session'.files[f] # session.files[f]
                   PROVE  session'.files[f] = "finished" /\ Saved(f)'
        OBVIOUS
      <4>1. f = upl[u].file /\ session'.files[f] = "finished"
        BY <3>3, <3>6
      <4>2. Saved(f)'
        BY <3>4, <4>1 DEF Saved
      <4> QED
        BY <4>1, <4>2
    <3> QED
      BY <1>0, <1>1, <3>3, <3>7, FinishedFrame
  <2>2. CASE ~(Active /\ session.status \in Allowed /\ session.id = upl[u].sid)
    BY <1>3, <1>7, <2>2 DEF UploadSaved
  <2> QED
    BY <2>1, <2>2
<1>8. ASSUME NEW u \in Uploads, UploadFailed(u) PROVE FinishedInv'
  <2>1. CASE Active /\ session.id # upl[u].sid
    BY <1>3, <1>8, <2>1 DEF UploadFailed
  <2>2. CASE ~(Active /\ session.id # upl[u].sid)
    <3> DEFINE s == IF Active THEN fileFinished(u, "failed") ELSE session
    <3>1. s \in Session /\ Conclude(u, s)
      BY <1>0, <1>8, <2>2, FileFinishedType DEF FileStatus, UploadFailed
    <3>2. /\ s.id = session.id /\ s.tokens = session.tokens /\ s.status = session.status
          /\ \A f \in Files : s.files[f] = session.files[f] \/ s.files[f] = "failed"
      BY <1>0 DEF fileFinished, Session
    <3> HIDE DEF s
    <3>3. \A f \in s.tokens : s.files[f] \notin {"absent", "skipped"}
      BY <1>0, <3>2 DEF FinishedInv, Session
    <3>4. /\ session'.id = s.id /\ session'.tokens = s.tokens /\ session'.files = s.files
          /\ session'.status = "finished" =>
                s.status = "finished" \/ \A f \in s.tokens : s.files[f] = "finished"
      BY <3>1, <3>3, ConcludeSession
    <3> QED
      BY <1>0, <1>1, <3>2, <3>4, FinishedFrame
  <2> QED
    BY <2>1, <2>2
<1>9. ASSUME NEW u \in Uploads, UploadRecorded(u) PROVE FinishedInv'
  <2>1. Conclude(u, session) /\ \A f \in session.tokens : session.files[f] \notin {"absent", "skipped"}
    BY <1>9 DEF UploadRecorded, FinishedInv
  <2>2. /\ session'.id = session.id /\ session'.tokens = session.tokens
        /\ session'.files = session.files
        /\ session'.status = "finished" =>
              session.status = "finished" \/ \A f \in session.tokens : session.files[f] = "finished"
    BY <1>0, <2>1, ConcludeSession
  <2> QED
    BY <1>0, <1>1, <2>2, FinishedFrame
<1>10. ASSUME NEW p, NEW v2, NEW s, Cancel(p, v2, s) PROVE FinishedInv'
  <2>1. /\ session'.id = session.id /\ session'.tokens = session.tokens
        /\ session'.files = session.files /\ session'.status = "canceledBySender"
    BY <1>0, <1>10 DEF Cancel, mayCancel, Session
  <2> QED
    BY <1>0, <1>1, <2>1, FinishedFrame
<1> QED
  BY <1>2, <1>3, <1>4, <1>5, <1>6, <1>7, <1>8, <1>9, <1>10, SessionCases

\* A finished session has all its accepted files on the disk, whatever uploads
\* of the same file, retries, cancels and other sessions came in between.
THEOREM FinishedCorrect == Spec => []FinishedMeansSaved
<1>1. Init => ConsentInv /\ SavedInv /\ FinishedInv
  <2> SUFFICES ASSUME Init PROVE ConsentInv /\ SavedInv /\ FinishedInv
    OBVIOUS
  <2>1. ConsentInv
    BY DEF Init, NoSession, Active, ConsentInv, SessionOwner, Ungranted, UploadConsent
  <2>2. SavedInv
    BY AnswerTypes DEF Init, SavedInv, OkMeansSaved
  <2>3. FinishedInv
    BY DEF Init, NoSession, FinishedInv, FinishedMeansSaved
  <2> QED
    BY <2>1, <2>2, <2>3
<1>2. TypeOK /\ ConsentInv /\ [Next]_vars => ConsentInv'
  BY ConsentStep
<1>3. TypeOK /\ ConsentInv /\ SavedInv /\ [Next]_vars => SavedInv'
  BY SavedStep
<1>4. TypeOK /\ ConsentInv /\ SavedInv /\ FinishedInv /\ [Next]_vars => FinishedInv'
  BY FinishedStep
<1>5. FinishedInv => FinishedMeansSaved
  BY DEF FinishedInv
<1> QED
  BY <1>1, <1>2, <1>3, <1>4, <1>5, TypeCorrect, PTL DEF Spec

-----------------------------------------------------------------------------
(* The end of a session. *)

\* Every step of a session that has ended keeps its status.
LEMMA EndStep ==
    ASSUME TypeOK, ConsentInv, [Next]_vars,
           Active, session.status \in {"finished", "canceledBySender"}
    PROVE  session'.id = session.id => session'.status = session.status
<1>0. session \in Session /\ session.id \in Prepares /\ session.id # None
  BY NoneAssumption DEF TypeOK, Active, Session
<1>1. CASE session' = NoSession
  BY <1>0, <1>1 DEF NoSession
<1>2. CASE session' = session
  BY <1>2
<1>3. ASSUME NEW r \in Prepares, NEW offered \in SUBSET Files, NEW message \in BOOLEAN,
             PrepareInstall(r, offered, message)
      PROVE  session'.id # session.id
  <2>1. session'.id = r
    <3>1. /\ Waiting(r, offered, message).id = r
          /\ Selected(Waiting(r, offered, message), offered).id = r
      BY DEF Waiting, Selected
    <3> QED
      BY <1>3, <3>1 DEF PrepareInstall
  <2>2. prep[r].pc = "reading"
    BY <1>3 DEF PrepareInstall
  <2> QED
    BY <2>1, <2>2 DEF ConsentInv, SessionOwner
<1>4. ASSUME NEW u \in Uploads, NEW s \in Session, Conclude(u, s), s.status \notin Allowed
      PROVE  session' = s
  BY <1>4 DEF Conclude
<1>5. ASSUME NEW u \in Uploads, UploadFailed(u) PROVE session'.status = session.status
  <2>1. CASE session.id # upl[u].sid
    BY <1>5, <2>1 DEF UploadFailed
  <2>2. CASE session.id = upl[u].sid
    <3>1. fileFinished(u, "failed") \in Session
      BY FileFinishedType DEF FileStatus
    <3>2. fileFinished(u, "failed").status = session.status
      BY <1>0 DEF fileFinished, Session
    <3>3. Conclude(u, fileFinished(u, "failed"))
      BY <1>5, <2>2 DEF UploadFailed
    <3> QED
      BY <1>4, <3>1, <3>2, <3>3 DEF Allowed
  <2> QED
    BY <2>1, <2>2
<1>6. ASSUME NEW u \in Uploads, UploadRecorded(u) PROVE session' = session
  BY <1>0, <1>4, <1>6 DEF UploadRecorded, Allowed
<1>7. ~(\E selection \in SUBSET Files : acceptFileRequest(selection))
  BY DEF acceptFileRequest
<1>8. ~(\E u \in Uploads, p \in Peers, s \in Prepares, f \in Files : UploadStart(u, p, s, f))
  BY DEF UploadStart, mayUpload, Allowed
<1>9. \A u \in Uploads : UploadSaved(u) => session' = session
  BY DEF UploadSaved, Allowed
<1>10. ~(\E p \in Peers, v2 \in BOOLEAN, s \in Prepares \cup {None} : Cancel(p, v2, s))
  BY DEF Cancel, mayCancel
<1> QED
  BY <1>1, <1>2, <1>3, <1>5, <1>6, <1>7, <1>8, <1>9, <1>10, SessionCases

\* A session that is finished or canceled by its sender never comes back to
\* life, whichever of its handlers end later and in whatever order.
THEOREM EndCorrect == Spec => EndIsFinal
<1>1. Init => ConsentInv
  BY DEF Init, NoSession, Active, ConsentInv, SessionOwner, Ungranted, UploadConsent
<1>2. TypeOK /\ ConsentInv /\ [Next]_vars => ConsentInv'
  BY ConsentStep
<1>3. TypeOK /\ ConsentInv /\ [Next]_vars
        => [Active /\ session.status \in {"finished", "canceledBySender"} /\ session'.id = session.id
              => session'.status = session.status]_vars
  BY EndStep
<1> QED
  BY <1>1, <1>2, <1>3, TypeCorrect, PTL DEF Spec, EndIsFinal
-----------------------------------------------------------------------------
(* Nobody waits for nothing. *)

\* No session is NoSession: a status is that of a session that is there.
WorkInv ==
    /\ ~Active => session = NoSession
    /\ SendingHasWork

\* u saves file f of the session.
Saves(u, f) == upl[u].pc = "saving" /\ upl[u].sid = session.id /\ upl[u].file = f

Records(u) == upl[u].pc = "recording" /\ upl[u].sid = session.id

\* The invariant after a step that leaves a session whose files in transfer have
\* their handlers, and which has a file to come if it is sending.
LEMMA WorkSuffices ==
    ASSUME session'.id # None,
           session'.status \in Allowed =>
              /\ \A f \in Files : session'.files[f] = "sending" => \E u \in Uploads : Saves(u, f)'
              /\ session'.status = "sending" =>
                    \/ \E f \in Files : session'.files[f] \in {"queue", "sending"}
                    \/ \E u \in Uploads : Records(u)'
    PROVE  WorkInv'
  BY DEF WorkInv, Active, SendingHasWork, Saves, Records

LEMMA WorkCases ==
    ASSUME [Next]_vars
    PROVE  \/ session' = NoSession
           \/ session' = session /\ upl' = upl
           \/ \E r \in Prepares, offered \in SUBSET Files, message \in BOOLEAN :
                 PrepareInstall(r, offered, message)
           \/ \E selection \in SUBSET Files : acceptFileRequest(selection)
           \/ \E u \in Uploads, p \in Peers, s \in Prepares, f \in Files :
                 UploadStart(u, p, s, f)
           \/ \E u \in Uploads : UploadSaved(u) \/ UploadFailed(u) \/ UploadRecorded(u)
           \/ \E p \in Peers, v2 \in BOOLEAN, s \in Prepares \cup {None} : Cancel(p, v2, s)
BY NextCases DEF startServer, stopServer, PinRejected, PrepareStart, PrepareMalformed,
   PrepareOffline, PrepareRespond, acceptMessage, declineFileRequest, closeCanceled,
   cancelSession, QuickSaveClose, vars

\* The session when its handler u ends: it is over, or some file is to come.
LEMMA ConcludeWork ==
    ASSUME TypeOK, NEW u \in Uploads, NEW s \in Session, s.id # None, Conclude(u, s)
    PROVE  /\ session'.id = s.id /\ session'.files = s.files
           /\ session'.status \in Allowed => s.status \in Allowed
           /\ session'.status = "sending" =>
                 \E f \in Files : session'.files[f] \in {"queue", "sending"}
           /\ \A w \in Uploads \ {u} : upl'[w] = upl[w]
<1> DEFINE over == s.status \in Allowed /\ isFinishedOrError(s)
           ended == IF hasError(s) THEN "finishedWithErrors" ELSE "finished"
<1>1. session' = IF ~over THEN s ELSE [s EXCEPT !.status = ended]
  BY DEF Conclude
<1>2. \A w \in Uploads \ {u} : upl'[w] = upl[w]
  BY DEF Conclude, TypeOK
<1>3. CASE over
  <2>1. /\ session'.id = s.id /\ session'.files = s.files
        /\ session'.status \in {"finishedWithErrors", "finished"}
    BY <1>1, <1>3 DEF Session
  <2> QED
    BY <1>2, <1>3, <2>1
<1>4. CASE ~over
  <2>1. session' = s
    BY <1>1, <1>4
  <2>2. s.status = "sending" => \E f \in Files : s.files[f] \in {"queue", "sending"}
    BY <1>4 DEF isFinishedOrError, Allowed, Session, FileStatus
  <2> QED
    BY <1>2, <2>1, <2>2
<1> QED
  BY <1>3, <1>4

\* Every step keeps it.
LEMMA WorkStep ==
    ASSUME TypeOK, WorkInv, [Next]_vars
    PROVE  WorkInv'
<1>1. /\ session \in Session /\ \A u \in Uploads : upl[u] \in UploadHandler
      /\ session.files \in [Files -> FileStatus \cup {"absent"}]
      /\ upl \in [Uploads -> UploadHandler]
  BY DEF TypeOK, Session
<1>2. session.status \in Allowed =>
         /\ Active
         /\ \A f \in Files : session.files[f] = "sending" => \E u \in Uploads : Saves(u, f)
         /\ session.status = "sending" =>
               \/ \E f \in Files : session.files[f] \in {"queue", "sending"}
               \/ \E u \in Uploads : Records(u)
  BY DEF WorkInv, SendingHasWork, Saves, Records, NoSession, Allowed
<1>3. CASE session' = NoSession
  BY <1>3 DEF WorkInv, Active, SendingHasWork, NoSession, Allowed
<1>4. CASE session' = session /\ upl' = upl
  BY <1>4 DEF WorkInv, Active, SendingHasWork
<1>5. ASSUME NEW r \in Prepares, NEW offered \in SUBSET Files, NEW message \in BOOLEAN,
             PrepareInstall(r, offered, message)
      PROVE  WorkInv'
  <2> DEFINE new == Waiting(r, offered, message)
  <2>1. /\ new.id = r /\ new.status = "waiting"
        /\ \A f \in Files : new.files[f] = IF f \in offered THEN "queue" ELSE "absent"
    BY DEF Waiting
  <2>2. r # None /\ new \in Session
    BY NoneAssumption, WaitingType
  <2> HIDE DEF new
  <2>3. CASE session' = new
    BY <2>1, <2>2, <2>3, WorkSuffices DEF Allowed
  <2>4. CASE session' = Selected(new, offered)
    <3>1. /\ session'.id = r
          /\ \A f \in Files : session'.files[f] =
                IF new.files[f] = "absent" THEN "absent"
                ELSE IF f \in offered THEN "queue" ELSE "skipped"
      BY <2>1, <2>2, <2>4 DEF Selected, Session
    <3>2. PICK f \in offered : TRUE
      BY <1>5 DEF PrepareInstall
    <3>3. session'.files[f] = "queue" /\ \A g \in Files : session'.files[g] # "sending"
      BY <2>1, <3>1
    <3> QED
      BY <2>2, <3>1, <3>3, WorkSuffices
  <2>5. session' = new \/ session' = Selected(new, offered)
    BY <1>5 DEF PrepareInstall, new
  <2> QED
    BY <2>3, <2>4, <2>5
<1>6. ASSUME NEW selection \in SUBSET Files, acceptFileRequest(selection) PROVE WorkInv'
  <2>1. /\ session' = Selected(session, selection) /\ session.id # None
        /\ selection # {} /\ \A f \in selection : session.files[f] # "absent"
    BY <1>6 DEF acceptFileRequest, Asking, Active
  <2>2. /\ session'.id = session.id
        /\ \A f \in Files : session'.files[f] =
              IF session.files[f] = "absent" THEN "absent"
              ELSE IF f \in selection THEN "queue" ELSE "skipped"
    BY <1>1, <2>1 DEF Selected, Session
  <2>3. PICK f \in selection : TRUE
    BY <2>1
  <2>4. session'.files[f] = "queue" /\ \A g \in Files : session'.files[g] # "sending"
    BY <2>1, <2>2
  <2> QED
    BY <2>1, <2>2, <2>4, WorkSuffices
<1>7. ASSUME NEW u \in Uploads, NEW p \in Peers, NEW s \in Prepares, NEW f \in Files,
             UploadStart(u, p, s, f)
      PROVE  WorkInv'
  <2>1. /\ session'.id = session.id /\ session'.files = [session.files EXCEPT ![f] = "sending"]
        /\ Active /\ session.status \in Allowed /\ s = session.id /\ upl[u].pc = "free"
        /\ upl' = [upl EXCEPT ![u] = [upl[u] EXCEPT !.pc = "saving", !.sid = s, !.file = f]]
    BY <1>1, <1>7 DEF UploadStart, mayUpload, Session
  <2>2. Saves(u, f)'
    BY <1>1, <2>1 DEF Saves, UploadHandler
  <2>3. \A w \in Uploads, g \in Files : Saves(w, g) => Saves(w, g)'
    <3> SUFFICES ASSUME NEW w \in Uploads, NEW g \in Files, Saves(w, g)
                 PROVE  Saves(w, g)'
      OBVIOUS
    <3>1. upl'[w] = upl[w]
      BY <1>1, <2>1 DEF Saves
    <3> QED
      BY <2>1, <3>1 DEF Saves
  <2>4. \A g \in Files : session'.files[g] = "sending" => \E w \in Uploads : Saves(w, g)'
    BY <1>1, <1>2, <2>1, <2>2, <2>3
  <2>5. session'.files[f] = "sending"
    BY <1>1, <2>1
  <2> QED
    BY <2>1, <2>4, <2>5, WorkSuffices DEF Active
<1>8. ASSUME NEW u \in Uploads, UploadSaved(u) PROVE WorkInv'
  <2>1. /\ upl[u].pc = "saving" /\ \A w \in Uploads \ {u} : upl'[w] = upl[w]
    BY <1>1, <1>8 DEF UploadSaved
  <2>2. CASE Active /\ session.status \in Allowed /\ session.id = upl[u].sid
    <3>1. /\ session' = fileFinished(u, "finished")
          /\ upl' = [upl EXCEPT ![u] = [upl[u] EXCEPT !.pc = "recording", !.saved = TRUE]]
      BY <1>8, <2>2 DEF UploadSaved
    <3>2. /\ session'.id = session.id /\ session'.id # None
          /\ session'.files = [session.files EXCEPT ![upl[u].file] = "finished"]
      BY <1>1, <2>2, <3>1 DEF fileFinished, Session, Active
    <3>3. Records(u)'
      BY <1>1, <2>2, <3>1, <3>2 DEF Records, UploadHandler
    <3>4. ASSUME NEW f \in Files, session'.files[f] = "sending"
          PROVE  \E w \in Uploads : Saves(w, f)'
      <4>1. session.files[f] = "sending" /\ f # upl[u].file
        BY <1>1, <3>2, <3>4
      <4>2. PICK w \in Uploads : Saves(w, f)
        BY <1>2, <2>2, <4>1
      <4>3. w # u
        BY <4>1, <4>2 DEF Saves
      <4>4. Saves(w, f)'
        BY <2>1, <3>2, <4>2, <4>3 DEF Saves
      <4> QED
        BY <4>4
    <3> QED
      BY <3>2, <3>3, <3>4, WorkSuffices
  <2>3. CASE ~(Active /\ session.status \in Allowed /\ session.id = upl[u].sid)
    <3>1. session' = session
      BY <1>8, <2>3 DEF UploadSaved
    <3>2. session.status \in Allowed => session.id # upl[u].sid
      BY <1>2, <2>3
    <3>3. ASSUME session.status \in Allowed
          PROVE  /\ \A w \in Uploads, f \in Files : Saves(w, f) => Saves(w, f)'
                 /\ \A w \in Uploads : Records(w) => Records(w)'
      BY <2>1, <3>1, <3>2, <3>3 DEF Saves, Records
    <3>4. CASE session.id # None
      BY <1>2, <3>1, <3>3, <3>4, WorkSuffices
    <3>5. CASE session.id = None
      BY <3>1, <3>5 DEF WorkInv, Active, SendingHasWork, NoSession, Allowed
    <3> QED
      BY <3>4, <3>5
  <2> QED
    BY <2>2, <2>3
<1>9. ASSUME NEW u \in Uploads, UploadFailed(u) PROVE WorkInv'
  <2>1. CASE Active /\ session.id # upl[u].sid
    <3>1. session' = session /\ \A w \in Uploads \ {u} : upl'[w] = upl[w]
      BY <1>1, <1>9, <2>1 DEF UploadFailed
    <3>2. /\ \A w \in Uploads, f \in Files : Saves(w, f) => Saves(w, f)'
          /\ \A w \in Uploads : Records(w) => Records(w)'
      BY <2>1, <3>1 DEF Saves, Records
    <3> QED
      BY <1>2, <2>1, <3>1, <3>2, WorkSuffices DEF Active
  <2>2. CASE ~Active
    <3>1. session.id = None /\ session = NoSession /\ Conclude(u, session)
      BY <1>9, <2>2 DEF UploadFailed, Active, WorkInv
    <3>2. session' = NoSession
      BY <3>1 DEF Conclude
    <3> QED
      BY <1>3, <3>2
  <2>3. CASE Active /\ session.id = upl[u].sid
    <3> DEFINE s == fileFinished(u, "failed")
    <3>1. s \in Session /\ Conclude(u, s)
      BY <1>9, <2>3, FileFinishedType DEF FileStatus, UploadFailed
    <3>2. /\ s.id = session.id /\ s.id # None /\ s.status = session.status
          /\ s.files = [session.files EXCEPT ![upl[u].file] = "failed"]
      BY <1>1, <2>3 DEF fileFinished, Session, Active
    <3> HIDE DEF s
    <3>3. /\ session'.id = session.id /\ session'.files = s.files
          /\ session'.status \in Allowed => session.status \in Allowed
          /\ session'.status = "sending" =>
                 \E f \in Files : session'.files[f] \in {"queue", "sending"}
          /\ \A w \in Uploads \ {u} : upl'[w] = upl[w]
      BY <3>1, <3>2, ConcludeWork
    <3>4. ASSUME session'.status \in Allowed, NEW f \in Files, session'.files[f] = "sending"
          PROVE  \E w \in Uploads : Saves(w, f)'
      <4>1. session.files[f] = "sending" /\ f # upl[u].file
        BY <1>1, <3>2, <3>3, <3>4
      <4>2. PICK w \in Uploads : Saves(w, f)
        BY <1>2, <3>3, <3>4, <4>1
      <4>3. w # u
        BY <4>1, <4>2 DEF Saves
      <4>4. Saves(w, f)'
        BY <3>3, <4>2, <4>3 DEF Saves
      <4> QED
        BY <4>4
    <3> QED
      BY <3>2, <3>3, <3>4, WorkSuffices
  <2> QED
    BY <2>1, <2>2, <2>3
<1>10. ASSUME NEW u \in Uploads, UploadRecorded(u) PROVE WorkInv'
  <2>1. Conclude(u, session) /\ upl[u].pc = "recording"
    BY <1>10 DEF UploadRecorded
  <2>2. CASE ~Active
    <3>1. session' = NoSession
      BY <2>1, <2>2 DEF Conclude, WorkInv, Active
    <3> QED
      BY <1>3, <3>1
  <2>3. CASE Active
    <3>1. /\ session'.id = session.id /\ session'.files = session.files
          /\ session'.status \in Allowed => session.status \in Allowed
          /\ session'.status = "sending" =>
                 \E f \in Files : session'.files[f] \in {"queue", "sending"}
          /\ \A w \in Uploads \ {u} : upl'[w] = upl[w]
      BY <1>1, <2>1, <2>3, ConcludeWork DEF Active
    <3>2. \A w \in Uploads, f \in Files : Saves(w, f) => Saves(w, f)'
      BY <2>1, <3>1 DEF Saves
    <3> QED
      BY <1>2, <2>3, <3>1, <3>2, WorkSuffices DEF Active
  <2> QED
    BY <2>2, <2>3
<1>11. ASSUME NEW p, NEW v2, NEW s, Cancel(p, v2, s) PROVE WorkInv'
  <2>1. session'.id = session.id /\ session'.status = "canceledBySender" /\ Active
    BY <1>1, <1>11 DEF Cancel, mayCancel, Session
  <2> QED
    BY <2>1, WorkSuffices DEF Active, Allowed
<1> QED
  BY <1>3, <1>4, <1>5, <1>6, <1>7, <1>8, <1>9, <1>10, <1>11, WorkCases

\* The session never waits for nothing: a file in transfer has a handler that
\* saves it, and a session that is sending has a file to come or a handler that
\* is about to end it, however uploads, retries, failures and sessions overlap.
THEOREM SendingWorks == Spec => []SendingHasWork
<1>1. Init => WorkInv
  BY DEF Init, WorkInv, Active, SendingHasWork, NoSession, Allowed
<1>2. TypeOK /\ WorkInv /\ [Next]_vars => WorkInv'
  BY WorkStep
<1>3. WorkInv => SendingHasWork
  BY DEF WorkInv
<1> QED
  BY <1>1, <1>2, <1>3, TypeCorrect, PTL DEF Spec
=============================================================================
