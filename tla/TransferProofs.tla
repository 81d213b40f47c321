---------------------------- MODULE TransferProofs ----------------------------
(***************************************************************************)
(* A transfer is a send provider and a receive controller that step        *)
(* together, so what is proved of each holds here (SP, RP).  On top of it  *)
(* the invariant relates the two: which requests, uploads and cancel       *)
(* requests belong to which session, what the sender knows from the        *)
(* answer, and that a session it has forgotten is settled at the receiver. *)
(***************************************************************************)
EXTENDS Transfer, TLAPS

SP == INSTANCE SendProviderProofs WITH Targets <- {"receiver"}, V1Targets <- {}

RP == INSTANCE ReceiveControllerProofs WITH
        Peers <- {"sender"}, Prepares <- Sessions, PinSet <- FALSE, V1Peers <- {},
        QuickSavePeers <- {}

-----------------------------------------------------------------------------
(* What is proved of the two sides alone. *)

LEMMA SendAssumptions ==
    /\ Concurrency \in Nat \ {0} /\ SP!IsFiniteSet(Files)
    /\ None \notin {"receiver"} /\ {} \subseteq {"receiver"}
  BY TransferAssumption, FilesAssumption, NoneAssumption DEF IsFiniteSet, SP!IsFiniteSet

LEMMA ReceiveAssumptions ==
    /\ None \notin Sessions /\ None \notin {"sender"}
    /\ FALSE \in BOOLEAN /\ {} \subseteq {"sender"}
  BY NoneAssumption

\* The instances of this module and of the proofs are the same.
LEMMA SameSending == (S!Init <=> SP!Init) /\ (S!Next <=> SP!Next) /\ S!vars = SP!vars
<1>1. \A X : S!Cardinality(X) = SP!Cardinality(X)
  BY DEF S!Cardinality, SP!Cardinality, S!IsFiniteSet, SP!IsFiniteSet
<1>2. /\ \A s, t, b : S!startSession(s, t, b) <=> SP!startSession(s, t, b)
      /\ \A s, b : S!setBackground(s, b) <=> SP!setBackground(s, b)
  BY DEF S!startSession, SP!startSession, S!NoSession, SP!NoSession, S!setBackground,
         SP!setBackground, S!Present, SP!Present, S!Allowed, SP!Allowed
<1>3. /\ \A s : S!PinRequired(s) <=> SP!PinRequired(s)
      /\ \A s : S!PinEntered(s) <=> SP!PinEntered(s)
      /\ \A s : S!PinCanceled(s) <=> SP!PinCanceled(s)
  BY DEF S!PinRequired, SP!PinRequired, S!PinEntered, SP!PinEntered, S!PinCanceled,
         SP!PinCanceled, S!updateSession, SP!updateSession, S!Present, SP!Present
<1>4. /\ \A s, status : S!Rejected(s, status) <=> SP!Rejected(s, status)
      /\ \A s : S!AcceptedNothing(s) <=> SP!AcceptedNothing(s)
      /\ \A s : S!Unreadable(s) <=> SP!Unreadable(s)
  BY DEF S!Rejected, SP!Rejected, S!updateSession, SP!updateSession, S!Present, SP!Present,
         S!AcceptedNothing, SP!AcceptedNothing, S!NoSession, SP!NoSession,
         S!Unreadable, SP!Unreadable
<1>5. \A s, selected : S!Accepted(s, selected) <=> SP!Accepted(s, selected)
  <2>1. \A selected : S!FirstFiles(selected) = SP!FirstFiles(selected)
    BY <1>1 DEF S!FirstFiles, SP!FirstFiles
  <2> QED
    BY <2>1 DEF S!Accepted, SP!Accepted, S!Present, SP!Present
<1>6. \A s, f, ok : S!UploadNext(s, f, ok) <=> SP!UploadNext(s, f, ok)
  BY DEF S!UploadNext, SP!UploadNext, S!Ended, SP!Ended, S!HasNext, SP!HasNext, S!Present,
         SP!Present, S!NoSession, SP!NoSession, S!Allowed, SP!Allowed
<1>7. \A s, f, ok : S!UploadLast(s, f, ok) <=> SP!UploadLast(s, f, ok)
  BY DEF S!UploadLast, SP!UploadLast, S!Ended, SP!Ended, S!HasNext, SP!HasNext, S!Present,
         SP!Present, S!NoSession, SP!NoSession, S!Allowed, SP!Allowed, S!IsLast, SP!IsLast,
         S!InLoop, SP!InLoop, S!finish, SP!finish, S!hasError, SP!hasError
<1>8. \A s, f, ok : S!RetryEnded(s, f, ok) <=> SP!RetryEnded(s, f, ok)
  BY DEF S!RetryEnded, SP!RetryEnded, S!Ended, SP!Ended, S!Present, SP!Present, S!NoSession,
         SP!NoSession, S!finish, SP!finish, S!hasError, SP!hasError, S!isFinishedOrError,
         SP!isFinishedOrError
<1>9. /\ \A s, f : S!Retry(s, f) <=> SP!Retry(s, f)
      /\ \A s : S!cancelSession(s) <=> SP!cancelSession(s)
      /\ \A s : S!closeSession(s) <=> SP!closeSession(s)
      /\ S!clearAllSessions <=> SP!clearAllSessions
  BY DEF S!Retry, SP!Retry, S!Allowed, SP!Allowed, S!cancelSession, SP!cancelSession,
         S!closeSession, SP!closeSession, S!clearAllSessions, SP!clearAllSessions,
         S!Present, SP!Present, S!NoSession, SP!NoSession
<1>10. \A t, v2, id, s : S!CancelRequest(t, v2, id, s) <=> SP!CancelRequest(t, v2, id, s)
  BY DEF S!CancelRequest, SP!CancelRequest, S!Present, SP!Present, S!RemoteId, SP!RemoteId
<1>11. S!Next <=> SP!Next
  <2>1. \A s : S!User(s) <=> SP!User(s)
    BY <1>2, <1>3, <1>9 DEF S!User, SP!User
  <2>2. \A s : S!Answer(s) <=> SP!Answer(s)
    BY <1>3, <1>4, <1>5 DEF S!Answer, SP!Answer, S!SessionStatus, SP!SessionStatus
  <2>3. \A s, f, ok : S!UploadEnds(s, f, ok) <=> SP!UploadEnds(s, f, ok)
    BY <1>6, <1>7, <1>8 DEF S!UploadEnds, SP!UploadEnds
  <2> QED
    BY <2>1, <2>2, <2>3, <1>9, <1>10 DEF S!Next, SP!Next
<1>12. (S!Init <=> SP!Init) /\ S!vars = SP!vars
  BY DEF S!Init, SP!Init, S!NoSession, SP!NoSession, S!vars, SP!vars
<1> QED
  BY <1>11, <1>12

LEMMA SameReceiving == (R!Init <=> RP!Init) /\ (R!Next <=> RP!Next) /\ R!vars = RP!vars
<1>1. \A X : R!Cardinality(X) = RP!Cardinality(X)
  BY DEF R!Cardinality, RP!Cardinality, R!IsFiniteSet, RP!IsFiniteSet
<1>2. (R!startServer <=> RP!startServer) /\ (R!stopServer <=> RP!stopServer)
  BY DEF R!startServer, RP!startServer, R!stopServer, RP!stopServer, R!NoSession, RP!NoSession
<1>3. /\ \A p : R!PinRejected(p) <=> RP!PinRejected(p)
      /\ \A r, p, pin : R!PrepareStart(r, p, pin) <=> RP!PrepareStart(r, p, pin)
  BY DEF R!PinRejected, RP!PinRejected, R!PrepareStart, RP!PrepareStart, R!Active, RP!Active,
         R!checkPin, RP!checkPin
<1>4. \A r, offered, message :
         R!PrepareInstall(r, offered, message) <=> RP!PrepareInstall(r, offered, message)
  BY <1>1 DEF R!PrepareInstall, RP!PrepareInstall, R!Waiting, RP!Waiting, R!QuickSave,
              RP!QuickSave, R!Selected, RP!Selected
<1>5. /\ \A r : R!PrepareMalformed(r) <=> RP!PrepareMalformed(r)
      /\ \A r : R!PrepareOffline(r) <=> RP!PrepareOffline(r)
      /\ \A r : R!PrepareRespond(r) <=> RP!PrepareRespond(r)
  BY DEF R!PrepareMalformed, RP!PrepareMalformed, R!PrepareOffline, RP!PrepareOffline,
         R!PrepareRespond, RP!PrepareRespond
<1>6. /\ \A selection : R!acceptFileRequest(selection) <=> RP!acceptFileRequest(selection)
      /\ R!acceptMessage <=> RP!acceptMessage
      /\ R!declineFileRequest <=> RP!declineFileRequest
      /\ R!closeCanceled <=> RP!closeCanceled
      /\ R!cancelSession <=> RP!cancelSession
  BY DEF R!acceptFileRequest, RP!acceptFileRequest, R!Asking, RP!Asking, R!Active, RP!Active,
         R!Selected, RP!Selected, R!acceptMessage, RP!acceptMessage, R!declineFileRequest,
         RP!declineFileRequest, R!closeCanceled, RP!closeCanceled, R!cancelSession,
         RP!cancelSession, R!NoSession, RP!NoSession
<1>7. \A u, p, s, f : R!UploadStart(u, p, s, f) <=> RP!UploadStart(u, p, s, f)
  BY DEF R!UploadStart, RP!UploadStart, R!mayUpload, RP!mayUpload, R!Active, RP!Active,
         R!Allowed, RP!Allowed
<1>8. \A u : R!UploadSaved(u) <=> RP!UploadSaved(u)
  BY DEF R!UploadSaved, RP!UploadSaved, R!Active, RP!Active, R!Allowed, RP!Allowed,
         R!fileFinished, RP!fileFinished
<1>9. \A u, s : R!Conclude(u, s) <=> RP!Conclude(u, s)
  BY DEF R!Conclude, RP!Conclude, R!Allowed, RP!Allowed, R!isFinishedOrError,
         RP!isFinishedOrError, R!hasError, RP!hasError, R!answer, RP!answer, R!closesItself,
         RP!closesItself, R!QuickSave, RP!QuickSave
<1>10. /\ \A u : R!UploadFailed(u) <=> RP!UploadFailed(u)
       /\ \A u : R!UploadRecorded(u) <=> RP!UploadRecorded(u)
       /\ \A u : R!QuickSaveClose(u) <=> RP!QuickSaveClose(u)
  BY <1>9 DEF R!UploadFailed, RP!UploadFailed, R!UploadRecorded, RP!UploadRecorded,
              R!QuickSaveClose, RP!QuickSaveClose, R!Active, RP!Active, R!NoSession,
              RP!NoSession, R!fileFinished, RP!fileFinished
<1>11. \A p, v2, s : R!Cancel(p, v2, s) <=> RP!Cancel(p, v2, s)
  BY DEF R!Cancel, RP!Cancel, R!mayCancel, RP!mayCancel, R!Active, RP!Active
<1>12. R!Next <=> RP!Next
  <2>1. R!User <=> RP!User
    BY <1>2, <1>6 DEF R!User, RP!User
  <2>2. R!Network <=> RP!Network
    BY <1>3, <1>7, <1>11 DEF R!Network, RP!Network
  <2>3. \A r : R!Prepare(r) <=> RP!Prepare(r)
    BY <1>4, <1>5 DEF R!Prepare, RP!Prepare
  <2>4. \A u : R!Upload(u) <=> RP!Upload(u)
    BY <1>8, <1>10 DEF R!Upload, RP!Upload
  <2> QED
    BY <2>1, <2>2, <2>3, <2>4, <1>10 DEF R!Next, RP!Next
<1>13. (R!Init <=> RP!Init) /\ R!vars = RP!vars
  BY DEF R!Init, RP!Init, R!NoSession, RP!NoSession, R!vars, RP!vars
<1> QED
  BY <1>12, <1>13

LEMMA SameReceiverTypes == R!TypeOK <=> RP!TypeOK
  BY DEF R!TypeOK, RP!TypeOK, R!Session, RP!Session, R!SessionStatus, RP!SessionStatus,
         R!FileStatus, RP!FileStatus, R!Allowed, RP!Allowed, R!PrepareHandler, RP!PrepareHandler,
         R!UploadHandler, RP!UploadHandler, R!Answers, RP!Answers

\* What holds of every sender.
LEMMA SendersKeep == S!Spec => [](SP!IInv /\ SP!InFlightIffSending)
<1>1. SP!Spec => []SP!IInv
  BY SendAssumptions, SP!IInvAlways
<1>2. SP!Spec => []SP!InFlightIffSending
  BY SendAssumptions, SP!InFlightCorrect
<1>3. S!Spec => SP!Spec
  <2>1. [S!Next]_(S!vars) => [SP!Next]_(SP!vars)
    BY SameSending DEF S!vars, SP!vars
  <2>2. S!Init => SP!Init
    BY SameSending
  <2> QED
    BY <2>1, <2>2, PTL DEF S!Spec, SP!Spec
<1> QED
  BY <1>1, <1>2, <1>3, PTL

\* What holds of every receiver.
LEMMA ReceiversKeep == R!Spec => [](RP!TypeOK /\ RP!OkMeansSaved /\ RP!SendingHasWork)
<1>1. RP!Spec => []RP!TypeOK
  BY ReceiveAssumptions, RP!TypeCorrect
<1>2. RP!Spec => []RP!OkMeansSaved
  BY ReceiveAssumptions, RP!AnswersCorrect
<1>3. RP!Spec => []RP!SendingHasWork
  BY ReceiveAssumptions, RP!SendingWorks
<1>4. R!Spec => RP!Spec
  <2>1. [R!Next]_(R!vars) => [RP!Next]_(RP!vars)
    BY SameReceiving DEF R!vars, RP!vars
  <2>2. R!Init => RP!Init
    BY SameReceiving
  <2> QED
    BY <2>1, <2>2, PTL DEF R!Spec, RP!Spec
<1> QED
  BY <1>1, <1>2, <1>3, <1>4, PTL

-----------------------------------------------------------------------------
(* Each side is an implementation of its module. *)

\* What the actions' parameters are taken from.
InBounds == bound \in Bounds /\ cancels \subseteq [of: Sessions, id: Sessions \cup {None}]

LEMMA BoundFacts ==
    ASSUME InBounds
    PROVE  /\ bound.background \subseteq BOOLEAN
           /\ \A selection \in bound.selections : selection \in SUBSET Files
           /\ bound.tries \in 1..Tries
           /\ \A m \in cancels : m.of \in Sessions /\ m.id \in Sessions \cup {None}
  BY TransferAssumption DEF InBounds

\* The sender's part of a step.
LEMMA SendingSteps ==
    ASSUME InBounds, R!TypeOK, Next
    PROVE  S!Next \/ UNCHANGED sender
<1> USE DEF sender
<1>1. ASSUME NEW s \in Sessions, NEW background \in bound.background,
             StartSession(s, background)
      PROVE  S!Next
  <2>1. background \in BOOLEAN
    BY BoundFacts
  <2>2. S!User(s)
    BY <1>1, <2>1 DEF StartSession, S!User
  <2> QED
    BY <2>2 DEF S!Next
<1>2. ASSUME NEW s \in Sessions, NEW f \in Files, Retry(s, f) PROVE S!Next
  BY <1>2 DEF Retry, S!User, S!Next
<1>3. ASSUME NEW s \in Sessions, CancelBySender(s) PROVE S!Next
  BY <1>3 DEF CancelBySender, S!User, S!Next
<1>4. ASSUME NEW s \in Sessions, Close(s) PROVE S!Next
  BY <1>4 DEF Close, S!User, S!Next
<1>5. ASSUME Clear PROVE S!Next
  BY <1>5 DEF Clear, S!Next
<1>6. ASSUME NEW s \in Sessions, PrepareRefused(s) PROVE S!Next
  <2>1. S!Rejected(s, "recipientBusy") /\ "recipientBusy" \in S!SessionStatus
    BY <1>6 DEF PrepareRefused, S!SessionStatus
  <2> QED
    BY <2>1 DEF S!Answer, S!Next
<1>7. ASSUME NEW s \in Sessions, PrepareBroken(s) PROVE S!Next
  <2>1. S!Rejected(s, "finishedWithErrors") /\ "finishedWithErrors" \in S!SessionStatus
    BY <1>7 DEF PrepareBroken, S!SessionStatus
  <2> QED
    BY <2>1 DEF S!Answer, S!Next
<1>8. ASSUME NEW s \in Sessions, PrepareAnswered(s) PROVE S!Next
  <2>0. prep[s].granted \in SUBSET Files
    BY DEF R!TypeOK, R!PrepareHandler
  <2>1. \/ \E selected \in SUBSET Files : S!Accepted(s, selected)
        \/ S!Rejected(s, "declined")
    BY <1>8, <2>0 DEF PrepareAnswered
  <2>2. S!Answer(s)
    BY <2>1 DEF S!Answer, S!SessionStatus
  <2> QED
    BY <2>2 DEF S!Next
<1>9. ASSUME NEW s \in Sessions, NEW f \in Files, NEW ok \in BOOLEAN, Ends(s, f, ok)
      PROVE  S!Next
  BY <1>9 DEF Ends, S!Next
<1>10. ASSUME NEW s \in Sessions, NoticeArrives(s) PROVE S!Next
  <2>1. S!CancelRequest("receiver", TRUE, s, s)
    BY <1>10 DEF NoticeArrives
  <2> QED
    BY <2>1 DEF S!Next
<1>11. ASSUME NEW s \in Sessions, NEW f \in Files,
              Upload(s, f) \/ UploadBroken(s, f)
       PROVE  S!Next \/ UNCHANGED sender
  <2>1. UploadArrives(s, f) => UNCHANGED sender
    BY DEF UploadArrives
  <2>2. UploadRefused(s, f) => Ends(s, f, FALSE)
    BY DEF UploadRefused
  <2>3. UploadAnswered(s, f) => Ends(s, f, upl[<<s, f, conn[s][f]>>].resp = 200)
    BY DEF UploadAnswered
  <2>4. UploadBroken(s, f) => Ends(s, f, FALSE)
    BY DEF UploadBroken
  <2>5. FALSE \in BOOLEAN /\ (upl[<<s, f, conn[s][f]>>].resp = 200) \in BOOLEAN
    OBVIOUS
  <2> QED
    BY <1>9, <1>11, <2>1, <2>2, <2>3, <2>4, <2>5 DEF Upload
<1>12. /\ Decide \/ CancelByReceiver \/ Server \/ Handle => UNCHANGED sender
       /\ \A s \in Sessions : PrepareArrives(s) \/ NoticeLost(s) => UNCHANGED sender
       /\ \A m \in cancels :
             CancelArrives(m) \/ CancelRefused(m) \/ CancelLost(m) => UNCHANGED sender
  BY DEF Decide, CancelByReceiver, Server, Handle, PrepareArrives, NoticeLost, CancelArrives,
         CancelRefused, CancelLost
<1>13. ASSUME Users PROVE S!Next \/ UNCHANGED sender
  BY <1>1, <1>2, <1>3, <1>4, <1>5, <1>12, <1>13 DEF Users
<1>14. ASSUME Messages PROVE S!Next \/ UNCHANGED sender
  BY <1>6, <1>7, <1>8, <1>10, <1>11, <1>12, <1>14 DEF Messages
<1> QED
  BY <1>12, <1>13, <1>14 DEF Next

\* The receiver's part of a step.
LEMMA ReceivingSteps ==
    ASSUME InBounds, Next
    PROVE  R!Next \/ UNCHANGED receiver
<1>1. ASSUME Decide PROVE R!Next
  <2>1. \/ \E selection \in SUBSET Files : R!acceptFileRequest(selection)
        \/ R!declineFileRequest \/ R!closeCanceled
    BY <1>1, BoundFacts DEF Decide
  <2> QED
    BY <2>1 DEF R!User, R!Next
<1>2. ASSUME CancelByReceiver \/ Server PROVE R!Next
  BY <1>2 DEF CancelByReceiver, Server, R!User, R!Next
<1>3. ASSUME Handle PROVE R!Next
  <2>1. ASSUME NEW s \in Sessions, R!PrepareInstall(s, Files, FALSE) PROVE R!Next
    <3>1. Files \in SUBSET Files /\ FALSE \in BOOLEAN
      OBVIOUS
    <3>2. R!Prepare(s)
      BY <2>1, <3>1 DEF R!Prepare
    <3> QED
      BY <3>2 DEF R!Next
  <2>2. ASSUME NEW s \in Sessions, R!PrepareRespond(s) PROVE R!Next
    BY <2>2 DEF R!Prepare, R!Next
  <2>3. ASSUME NEW u \in Uploads, R!Upload(u) PROVE R!Next
    BY <2>3 DEF R!Next
  <2> QED
    BY <1>3, <2>1, <2>2, <2>3 DEF Handle
<1>4. ASSUME NEW s \in Sessions, PrepareArrives(s) PROVE R!Next
  <2>1. R!PrepareStart(s, "sender", "")
    BY <1>4 DEF PrepareArrives
  <2> QED
    BY <2>1 DEF R!Network, R!Next
<1>5. ASSUME NEW s \in Sessions, NEW f \in Files, UploadArrives(s, f) PROVE R!Next
  <2>1. PICK n \in 1..Tries : R!UploadStart(<<s, f, n>>, "sender", s, f)
    BY <1>5 DEF UploadArrives
  <2>2. <<s, f, n>> \in Uploads
    BY DEF Uploads
  <2> QED
    BY <2>1, <2>2 DEF R!Network, R!Next
<1>6. ASSUME NEW m \in cancels, CancelArrives(m) PROVE R!Next
  <2>1. R!Cancel("sender", TRUE, m.id) /\ m.id \in Sessions \cup {None} /\ TRUE \in BOOLEAN
    BY <1>6, BoundFacts DEF CancelArrives
  <2> QED
    BY <2>1 DEF R!Network, R!Next
<1>7. /\ \A s \in Sessions :
            /\ \A background \in bound.background :
                  StartSession(s, background) => UNCHANGED receiver
            /\ \A f \in Files : Retry(s, f) => UNCHANGED receiver
            /\ CancelBySender(s) \/ Close(s) => UNCHANGED receiver
      /\ Clear => UNCHANGED receiver
  BY DEF StartSession, Retry, CancelBySender, Close, Clear
<1>8. /\ \A s \in Sessions :
            /\ PrepareRefused(s) \/ PrepareAnswered(s) \/ PrepareBroken(s) => UNCHANGED receiver
            /\ \A f \in Files : UploadRefused(s, f) \/ UploadAnswered(s, f) \/ UploadBroken(s, f)
                  => UNCHANGED receiver
            /\ NoticeArrives(s) \/ NoticeLost(s) => UNCHANGED receiver
      /\ \A m \in cancels : CancelRefused(m) \/ CancelLost(m) => UNCHANGED receiver
  BY DEF PrepareRefused, PrepareAnswered, PrepareBroken, UploadRefused, UploadAnswered,
         UploadBroken, Ends, NoticeArrives, NoticeLost, CancelRefused, CancelLost
<1>9. ASSUME Users PROVE R!Next \/ UNCHANGED receiver
  BY <1>1, <1>2, <1>7, <1>9 DEF Users
<1>10. ASSUME Messages PROVE R!Next \/ UNCHANGED receiver
  BY <1>4, <1>5, <1>6, <1>8, <1>10 DEF Messages, Upload
<1> QED
  BY <1>3, <1>9, <1>10 DEF Next

\* Only canceling adds to the cancel requests.
LEMMA CancelSteps ==
    ASSUME Next
    PROVE  \/ \E s \in Sessions : cancels' = cancels \cup {[of |-> s, id |-> S!RemoteId(s)]}
           \/ cancels' \subseteq cancels
<1>1. ASSUME NEW s \in Sessions, CancelBySender(s)
      PROVE  cancels' = cancels \cup {[of |-> s, id |-> S!RemoteId(s)]}
  BY <1>1 DEF CancelBySender
<1>2. /\ \A s \in Sessions :
            /\ \A background \in bound.background :
                  StartSession(s, background) => UNCHANGED cancels
            /\ \A f \in Files : Retry(s, f) => UNCHANGED cancels
            /\ Close(s) => UNCHANGED cancels
      /\ Clear \/ Decide \/ CancelByReceiver \/ Server \/ Handle => UNCHANGED cancels
  BY DEF StartSession, Retry, Close, Clear, Decide, CancelByReceiver, Server, Handle
<1>3. /\ \A s \in Sessions :
            /\ PrepareArrives(s) \/ PrepareRefused(s) \/ PrepareAnswered(s) \/ PrepareBroken(s)
                  => UNCHANGED cancels
            /\ \A f \in Files : Upload(s, f) \/ UploadBroken(s, f) => UNCHANGED cancels
            /\ NoticeArrives(s) \/ NoticeLost(s) => UNCHANGED cancels
      /\ \A m \in cancels :
            CancelArrives(m) \/ CancelRefused(m) \/ CancelLost(m) => cancels' \subseteq cancels
  BY DEF PrepareArrives, PrepareRefused, PrepareAnswered, PrepareBroken, Upload, UploadArrives,
         UploadRefused, UploadAnswered, UploadBroken, Ends, NoticeArrives, NoticeLost,
         CancelArrives, CancelRefused, CancelLost
<1>4. Users => \/ \E s \in Sessions : cancels' = cancels \cup {[of |-> s, id |-> S!RemoteId(s)]}
               \/ cancels' \subseteq cancels
  BY <1>1, <1>2 DEF Users
<1>5. Messages => cancels' \subseteq cancels
  BY <1>3 DEF Messages
<1> QED
  BY <1>2, <1>4, <1>5 DEF Next

LEMMA BoundsKept == Spec => []InBounds
<1>1. Init => InBounds
  BY DEF Init, InBounds
<1>2. ASSUME InBounds, [Next]_allVars PROVE InBounds'
  <2>1. UNCHANGED allVars => InBounds'
    BY <1>2 DEF allVars, vars, InBounds
  <2>2. Next => InBounds'
    <3>1. \A s \in Sessions :
             [of |-> s, id |-> S!RemoteId(s)] \in [of: Sessions, id: Sessions \cup {None}]
      BY DEF S!RemoteId
    <3>2. Next => bound' = bound
      BY DEF Next
    <3> QED
      BY <1>2, <3>1, <3>2, CancelSteps DEF InBounds
  <2> QED
    BY <1>2, <2>1, <2>2
<1> QED
  BY <1>1, <1>2, PTL DEF Spec

\* The receiving device does what a ReceiveController does, whatever the sender,
\* the messages and the users do.
THEOREM TransferImplementsReceiving == Spec => R!Spec
<1>1. Init => R!Init
  BY DEF Init
<1>2. ASSUME InBounds, [Next]_allVars PROVE [R!Next]_(R!vars)
  <2>1. UNCHANGED receiver => UNCHANGED R!vars
    BY DEF receiver, R!vars
  <2>2. UNCHANGED allVars => UNCHANGED receiver
    BY DEF allVars, vars, receiver
  <2> QED
    BY <1>2, <2>1, <2>2, ReceivingSteps
<1> QED
  BY <1>1, <1>2, BoundsKept, PTL DEF Spec, R!Spec

\* What is known of the receiver is known of this one.
LEMMA ReceiverKnown == Spec => [](RP!TypeOK /\ RP!OkMeansSaved /\ RP!SendingHasWork)
  BY TransferImplementsReceiving, ReceiversKeep, PTL

\* The sending device does what a SendProvider does.
THEOREM TransferImplementsSending == Spec => S!Spec
<1>1. Init => S!Init
  BY DEF Init
<1>2. ASSUME InBounds, RP!TypeOK, [Next]_allVars PROVE [S!Next]_(S!vars)
  <2>1. UNCHANGED sender => UNCHANGED S!vars
    BY DEF sender, S!vars
  <2>2. UNCHANGED allVars => UNCHANGED sender
    BY DEF allVars, vars, sender
  <2> QED
    BY <1>2, <2>1, <2>2, SendingSteps, SameReceiverTypes
<1> QED
  BY <1>1, <1>2, BoundsKept, ReceiverKnown, PTL DEF Spec, S!Spec

-----------------------------------------------------------------------------
(* The invariant. *)

\* A request of the receiver was posted by the sender, and so was the request of
\* its session.
Requests ==
    \A s \in Sessions :
       /\ prep[s].pc # "free" => co[s].pc # "free" /\ prep[s].peer = "sender"
       /\ session.id = s => prep[s].pc \in {"deciding", "responding", "done"}

OneSession ==
    /\ R!Active => online /\ session.sender = "sender" /\ Files # {}
    /\ ~R!Active => session = R!NoSession

\* An upload is of the file and the session it is named for, and that session was
\* accepted.
OwnUploads ==
    \A u \in Uploads :
       /\ upl[u].pc # "free" => /\ upl[u].sid = u[1] /\ upl[u].file = u[2]
                                /\ prep[u[1]].pc \in {"responding", "done"}
       /\ upl[u].saved => upl[u].pc # "free"

\* The session of the receiver waits for its user's answer, or for the files that
\* the answer names and that have not been uploaded.
Awaited ==
    R!Active =>
      /\ prep[session.id].pc = "deciding" => session.status \in {"waiting", "canceledBySender"}
      /\ prep[session.id].pc # "deciding" =>
            /\ session.status # "waiting"
            /\ \A f \in Files : session.files[f] = "queue" => f \in prep[session.id].granted
      /\ session.status \in {"finished", "finishedWithErrors"} =>
            \A f \in Files : session.files[f] # "queue"
      /\ \A f \in Files, n \in 1..Tries :
            session.files[f] = "queue" => upl[<<session.id, f, n>>].pc = "free"

\* The sender knows a file's fate, and the id of the session, from the answer.
Answered ==
    \A s \in Sessions :
       /\ sessions[s].remote => prep[s].pc = "done"
       /\ \A f \in Files : /\ sessions[s].files[f] # "queue" => prep[s].pc = "done"
                           /\ sessions[s].files[f] = "skipped" => f \notin prep[s].granted

\* The sender cancels a session it has forgotten, under the id it had.
Canceling ==
    \A m \in cancels :
       /\ m.of \in Sessions /\ co[m.of].pc # "free" /\ ~S!Present(m.of)
       /\ m.id \in {None, m.of} /\ (m.id # None => prep[m.of].pc = "done")

\* Nothing is left to wait for in the session of s, or it is canceled.
Settled(s) ==
    /\ prep[s].pc \notin {"free", "reading"}
    /\ session.id = s =>
         \/ session.status = "canceledBySender"
         \/ session.status # "waiting" /\ \A f \in Files : session.files[f] # "queue"

Told(s) == \E m \in cancels : m.of = s

\* A session that the sender has forgotten is settled here, or a cancel request
\* will settle it.
GoneSettled ==
    \A s \in Sessions \ forsaken :
       Files # {} /\ co[s].pc # "free" /\ ~S!Present(s) => Told(s) \/ Settled(s)

ReceiverInv == Requests /\ OneSession /\ OwnUploads /\ Awaited /\ CancelIsPrecise
SenderInv == Answered /\ Canceling /\ GoneSettled /\ SentMeansSaved
TransferInv == ReceiverInv /\ SenderInv

\* What the two sides contribute.
SendFacts ==
    /\ S!TypeOK
    /\ \A s \in Sessions :
          /\ co[s].pc = "free" => ~S!Present(s)
          /\ co[s].pc \in {"free", "posting"} => \A f \in Files : task[s][f] = "none"
          /\ S!Present(s) =>
                /\ sessions[s] \in S!Session
                /\ \A f \in Files : task[s][f] # "none" => sessions[s].files[f] = "sending"
                /\ \A f \in Files : sessions[s].files[f] = "sending" => task[s][f] # "none"
          /\ ~S!Present(s) => sessions[s] = S!NoSession
          /\ \A f \in Files : task[s][f] = "loop" => co[s].pc = "looping"
          /\ co[s].pc = "looping" /\ sessions[s].status \in S!Allowed =>
                \A f \in Files : sessions[s].files[f] = "queue" => f \in co[s].queue

ReceiveFacts ==
    /\ R!TypeOK
    /\ \A u \in Uploads : upl[u].resp = 200 => upl[u].saved

Tried == conn \in [Sessions -> [Files -> 0..Tries]]

Facts == InBounds /\ Tried /\ SendFacts /\ ReceiveFacts

LEMMA SendFactsHold == ASSUME SP!IInv PROVE SendFacts
<1>1. /\ S!Session = SP!Session /\ S!NoSession = SP!NoSession /\ S!Coroutine = SP!Coroutine
      /\ S!Allowed = SP!Allowed
  BY DEF S!Session, SP!Session, S!SessionStatus, SP!SessionStatus, S!FileStatus,
         SP!FileStatus, S!NoSession, SP!NoSession, S!Coroutine, SP!Coroutine, S!Allowed,
         SP!Allowed
<1>2. SP!TypeOK /\ \A s \in Sessions : SP!Local(sessions[s], co[s], task[s])
  BY DEF SP!IInv
<1>3. S!TypeOK
  BY <1>1, <1>2 DEF S!TypeOK, SP!TypeOK
<1>4. SP!NoSession.status = "none"
  BY DEF SP!NoSession
<1>5. ASSUME NEW s \in Sessions
      PROVE  /\ co[s].pc = "free" => ~S!Present(s)
             /\ co[s].pc \in {"free", "posting"} => \A f \in Files : task[s][f] = "none"
             /\ S!Present(s) =>
                   /\ sessions[s] \in S!Session
                   /\ \A f \in Files : sessions[s].files[f] = "sending" <=> task[s][f] # "none"
             /\ ~S!Present(s) => sessions[s] = S!NoSession
             /\ \A f \in Files : task[s][f] = "loop" => co[s].pc = "looping"
             /\ co[s].pc = "looping" /\ sessions[s].status \in S!Allowed =>
                   \A f \in Files : sessions[s].files[f] = "queue" => f \in co[s].queue
  <2>1. /\ SP!BeforeAnswer(sessions[s], co[s], task[s]) /\ SP!LoopUploads(co[s], task[s])
        /\ SP!Shown(sessions[s], co[s], task[s])
    BY <1>2 DEF SP!Local
  <2>2. sessions[s] \in SP!Session \cup {SP!NoSession}
    BY <1>2 DEF SP!Local, SP!LocalType
  <2>3. sessions[s] \in SP!Session => sessions[s].status # "none"
    BY DEF SP!Session, SP!SessionStatus
  <2>4. "none" \notin SP!Allowed
    BY DEF SP!Allowed
  <2>5. co[s].pc = "free" => ~S!Present(s)
    BY <2>1, <1>4 DEF SP!BeforeAnswer, S!Present
  <2>6. co[s].pc \in {"free", "posting"} => \A f \in Files : task[s][f] = "none"
    BY <2>1 DEF SP!BeforeAnswer
  <2>7. /\ S!Present(s) => sessions[s] \in S!Session
        /\ ~S!Present(s) => sessions[s] = S!NoSession
    BY <2>2, <2>3, <1>1, <1>4 DEF S!Present
  <2>8. S!Present(s) =>
           \A f \in Files : sessions[s].files[f] = "sending" <=> task[s][f] # "none"
    BY <2>1 DEF SP!Shown, S!Present
  <2>9. \A f \in Files : task[s][f] = "loop" => co[s].pc = "looping"
    BY <2>1 DEF SP!LoopUploads
  <2>10. co[s].pc = "looping" /\ sessions[s].status \in S!Allowed =>
                   \A f \in Files : sessions[s].files[f] = "queue" => f \in co[s].queue
    BY <2>1, <2>4, <1>1 DEF SP!Shown
  <2> QED
    BY <2>5, <2>6, <2>7, <2>8, <2>9, <2>10
<1> QED
  BY <1>3, <1>5 DEF SendFacts

\* The tries of the uploads in flight.
LEMMA ConnTyped == ASSUME Init PROVE Tried
  BY TransferAssumption DEF Init, Tried

LEMMA ConnSteps ==
    ASSUME Tried, Next
    PROVE  Tried'
<1> USE DEF Tried
<1> DEFINE Typed == conn' \in [Sessions -> [Files -> 0..Tries]]
<1>0. 0 \in 0..Tries /\ 1..Tries \subseteq 0..Tries
  BY TransferAssumption
<1>1. UNCHANGED conn => Typed
  OBVIOUS
<1>2. /\ \A s \in Sessions :
            /\ \A background \in bound.background :
                  StartSession(s, background) => UNCHANGED conn
            /\ \A f \in Files : Retry(s, f) => UNCHANGED conn
            /\ CancelBySender(s) \/ Close(s) => UNCHANGED conn
      /\ Clear \/ Decide \/ CancelByReceiver \/ Server \/ Handle => UNCHANGED conn
  BY DEF StartSession, Retry, CancelBySender, Close, Clear, Decide, CancelByReceiver, Server,
         Handle
<1>3. /\ \A s \in Sessions :
            /\ PrepareArrives(s) \/ PrepareRefused(s) \/ PrepareAnswered(s) \/ PrepareBroken(s)
                  => UNCHANGED conn
            /\ NoticeArrives(s) \/ NoticeLost(s) => UNCHANGED conn
      /\ \A m \in cancels : CancelArrives(m) \/ CancelRefused(m) \/ CancelLost(m) => UNCHANGED conn
  BY DEF PrepareArrives, PrepareRefused, PrepareAnswered, PrepareBroken, NoticeArrives,
         NoticeLost, CancelArrives, CancelRefused, CancelLost
<1>4. ASSUME NEW s \in Sessions, NEW f \in Files, UploadArrives(s, f) PROVE Typed
  <2>1. PICK n \in 1..Tries : conn' = [conn EXCEPT ![s][f] = n]
    BY <1>4 DEF UploadArrives
  <2> QED
    BY <2>1, <1>0
<1>5. ASSUME NEW s \in Sessions, NEW f \in Files,
             UploadRefused(s, f) \/ UploadAnswered(s, f) \/ UploadBroken(s, f)
      PROVE  Typed
  <2>1. conn' = [conn EXCEPT ![s][f] = 0]
    BY <1>5 DEF UploadRefused, UploadAnswered, UploadBroken, Ends
  <2> QED
    BY <2>1, <1>0
<1>6. Users => Typed
  BY <1>1, <1>2 DEF Users
<1>7. Messages => Typed
  <2>1. \A s \in Sessions, f \in Files : Upload(s, f) \/ UploadBroken(s, f) => Typed
    BY <1>4, <1>5 DEF Upload
  <2> HIDE DEF Typed
  <2> QED
    BY <1>1, <1>3, <2>1 DEF Messages
<1> QED
  BY <1>1, <1>2, <1>6, <1>7 DEF Next

LEMMA ConnKept == Spec => []Tried
<1>1. Init => Tried
  BY ConnTyped
<1>2. Tried /\ [Next]_allVars => Tried'
  BY ConnSteps DEF allVars, vars, Tried
<1> QED
  BY <1>1, <1>2, PTL DEF Spec

LEMMA FactsHold == Spec => []Facts
<1>1. SP!IInv => SendFacts
  BY SendFactsHold
<1>2. RP!TypeOK /\ RP!OkMeansSaved => ReceiveFacts
  BY SameReceiverTypes DEF ReceiveFacts, RP!OkMeansSaved
<1> QED
  BY <1>1, <1>2, TransferImplementsSending, SendersKeep, ReceiverKnown, BoundsKept, ConnKept,
     PTL DEF Facts

-----------------------------------------------------------------------------
(* The steps of the receiver. *)

\* What a step of the receiver keeps.
ReceiverAdvances ==
    /\ \A s \in Sessions : /\ prep[s].pc = "done" => prep'[s] = prep[s]
                           /\ Settled(s) => Settled(s)'
    /\ \A u \in Uploads : upl[u].saved => upl'[u].saved

LEMMA ReceiverTypes ==
    ASSUME ReceiveFacts
    PROVE  /\ session \in R!Session /\ session.id \in Sessions \cup {None}
           /\ \A f \in Files : session.files[f] \in R!FileStatus \cup {"absent"}
           /\ prep \in [Sessions -> R!PrepareHandler] /\ upl \in [Uploads -> R!UploadHandler]
           /\ \A u \in Uploads : u[1] \in Sessions /\ u[2] \in Files /\ u[3] \in 1..Tries
           /\ \A s \in Sessions, f \in Files, n \in 1..Tries : <<s, f, n>> \in Uploads
           /\ R!NoSession.id = None /\ R!NoSession.status = "waiting"
           /\ None \notin Sessions
  BY NoneAssumption DEF ReceiveFacts, R!TypeOK, R!Session, R!NoSession, Uploads

LEMMA EmptiedStep ==
    ASSUME ReceiveFacts, ReceiverInv, UNCHANGED <<sender, upl>>, session' = R!NoSession,
           \/ UNCHANGED prep
           \/ /\ R!Asking
              /\ prep' = [prep EXCEPT ![session.id] = [@ EXCEPT !.pc = "done", !.resp = 403]]
    PROVE  ReceiverInv' /\ ReceiverAdvances
<1>0. \A s \in Sessions : \/ prep'[s] = prep[s]
                         \/ /\ prep[s].pc = "deciding" /\ prep'[s].pc = "done"
                            /\ prep'[s].peer = prep[s].peer
  <2>1. CASE UNCHANGED prep
    BY <2>1
  <2>2. CASE /\ R!Asking
             /\ prep' = [prep EXCEPT ![session.id] = [@ EXCEPT !.pc = "done", !.resp = 403]]
    <3>1. session.id \in Sessions /\ prep[session.id].pc = "deciding"
      BY <2>2, ReceiverTypes DEF R!Asking, R!Active
    <3>2. prep'[session.id] = [prep[session.id] EXCEPT !.pc = "done", !.resp = 403]
      BY <2>2, <3>1, ReceiverTypes
    <3>3. prep[session.id] \in R!PrepareHandler
      BY <3>1, ReceiverTypes
    <3>4. prep'[session.id].pc = "done" /\ prep'[session.id].peer = prep[session.id].peer
      BY <3>2, <3>3 DEF R!PrepareHandler
    <3> QED
      BY <2>2, <3>1, <3>4, ReceiverTypes
  <2> QED
    BY <2>1, <2>2
<1>1. /\ session'.id = None /\ session'.status = "waiting" /\ session' = R!NoSession
      /\ co' = co /\ upl' = upl
  BY ReceiverTypes DEF sender
<1>2. Requests' /\ OneSession' /\ OwnUploads'
  BY <1>0, <1>1, ReceiverTypes DEF ReceiverInv, Requests, OneSession, OwnUploads, R!Active
<1>3. Awaited' /\ CancelIsPrecise'
  BY <1>1 DEF Awaited, CancelIsPrecise, R!Active
<1>4. ReceiverAdvances
  BY <1>0, <1>1, ReceiverTypes DEF ReceiverAdvances, Settled
<1> QED
  BY <1>2, <1>3, <1>4 DEF ReceiverInv

LEMMA AcceptStep ==
    ASSUME ReceiveFacts, ReceiverInv, UNCHANGED sender,
           NEW selection \in SUBSET Files, R!acceptFileRequest(selection)
    PROVE  ReceiverInv' /\ ReceiverAdvances
<1> DEFINE i == session.id
<1>1. /\ i \in Sessions /\ prep[i].pc = "deciding" /\ session.status = "waiting"
      /\ online' = online /\ upl' = upl /\ co' = co
      /\ session' = R!Selected(session, selection)
      /\ prep' = [prep EXCEPT ![i] = [@ EXCEPT !.pc = "responding", !.granted = selection]]
  BY ReceiverTypes DEF R!acceptFileRequest, R!Asking, R!Active, sender
<1>2. /\ session'.id = i /\ session'.status = "sending" /\ session'.sender = session.sender
      /\ \A f \in Files : session'.files[f] = "queue" => f \in selection
  BY <1>1, ReceiverTypes DEF R!Selected, R!Session
<1>3. /\ prep'[i].pc = "responding" /\ prep'[i].peer = prep[i].peer /\ prep'[i].granted = selection
      /\ \A s \in Sessions \ {i} : prep'[s] = prep[s]
  BY <1>1, ReceiverTypes DEF R!PrepareHandler
<1> HIDE DEF i
<1>4. R!Active /\ R!Active' /\ session.id = i
  BY <1>1, <1>2, ReceiverTypes DEF R!Active, i
<1>5. \A u \in Uploads : u[1] = i => upl[u].pc = "free"
  BY <1>1 DEF ReceiverInv, OwnUploads
<1>6. Requests' /\ OneSession' /\ OwnUploads'
  <2>1. Requests'
    BY <1>1, <1>2, <1>3, <1>4 DEF ReceiverInv, Requests
  <2>2. OneSession'
    BY <1>1, <1>2, <1>4 DEF ReceiverInv, OneSession
  <2>3. OwnUploads'
    BY <1>1, <1>3, <1>5, ReceiverTypes DEF ReceiverInv, OwnUploads
  <2> QED
    BY <2>1, <2>2, <2>3
<1>7. Awaited'
  <2>1. \A f \in Files, n \in 1..Tries : upl[<<i, f, n>>].pc = "free"
    BY <1>1, <1>5, ReceiverTypes
  <2> QED
    BY <1>1, <1>2, <1>3, <2>1 DEF Awaited
<1>8. CancelIsPrecise'
  BY <1>2 DEF CancelIsPrecise
<1>9. ReceiverAdvances
  BY <1>1, <1>2, <1>3, <1>4 DEF ReceiverAdvances, Settled
<1> QED
  BY <1>6, <1>7, <1>8, <1>9 DEF ReceiverInv

LEMMA InstallStep ==
    ASSUME ReceiveFacts, ReceiverInv, UNCHANGED sender,
           NEW s \in Sessions, R!PrepareInstall(s, Files, FALSE)
    PROVE  ReceiverInv' /\ ReceiverAdvances
<1>1. /\ online /\ online' /\ upl' = upl /\ co' = co /\ Files # {}
      /\ prep[s].pc = "reading"
      /\ session' = R!Waiting(s, Files, FALSE)
      /\ prep' = [prep EXCEPT ![s] = [@ EXCEPT !.pc = "deciding"]]
  BY DEF R!PrepareInstall, R!QuickSave, sender
<1>2. session'.id = s /\ session'.status = "waiting" /\ session'.sender = "sender"
  BY <1>1 DEF R!Waiting, ReceiverInv, Requests
<1>3. prep'[s].pc = "deciding" /\ prep'[s].peer = prep[s].peer /\ \A x \in Sessions \ {s} : prep'[x] = prep[x]
  BY <1>1, ReceiverTypes DEF R!PrepareHandler
<1>4. R!Active'
  BY <1>2, ReceiverTypes DEF R!Active
<1>5. \A u \in Uploads : u[1] = s => upl[u].pc = "free"
  BY <1>1 DEF ReceiverInv, OwnUploads
<1>6. Requests' /\ OneSession' /\ OwnUploads'
  <2>1. Requests'
    BY <1>1, <1>2, <1>3, <1>4 DEF ReceiverInv, Requests
  <2>2. OneSession'
    BY <1>1, <1>2, <1>4 DEF ReceiverInv, OneSession
  <2>3. OwnUploads'
    BY <1>1, <1>3, <1>5, ReceiverTypes DEF ReceiverInv, OwnUploads
  <2> QED
    BY <2>1, <2>2, <2>3
<1>7. Awaited'
  <2>1. \A f \in Files, n \in 1..Tries : upl[<<s, f, n>>].pc = "free"
    BY <1>5, ReceiverTypes
  <2> QED
    BY <1>1, <1>2, <1>3, <2>1 DEF Awaited
<1>8. CancelIsPrecise'
  BY <1>2 DEF CancelIsPrecise
<1>9. ReceiverAdvances
  BY <1>1, <1>2, <1>3 DEF ReceiverAdvances, Settled, ReceiverInv, Requests
<1> QED
  BY <1>6, <1>7, <1>8, <1>9 DEF ReceiverInv

LEMMA HandlerStep ==
    ASSUME ReceiveFacts, ReceiverInv, UNCHANGED sender, NEW s \in Sessions,
           \/ R!PrepareRespond(s)
           \/ R!PrepareStart(s, "sender", "") /\ co[s].pc # "free"
    PROVE  ReceiverInv' /\ ReceiverAdvances
<1>1. /\ session' = session /\ upl' = upl /\ co' = co /\ online' = online
      /\ \A x \in Sessions \ {s} : prep'[x] = prep[x]
      /\ prep'[s].granted = prep[s].granted /\ prep'[s].peer = "sender" /\ co[s].pc # "free"
      /\ \/ prep[s].pc = "responding" /\ prep'[s].pc = "done"
         \/ prep[s].pc = "free" /\ prep'[s].pc = "reading"
  <2>1. CASE R!PrepareRespond(s)
    <3>1. prep[s].pc = "responding" /\ prep'[s] = [prep[s] EXCEPT !.pc = "done", !.resp = 200]
      BY <2>1, ReceiverTypes DEF R!PrepareRespond
    <3>2. /\ prep'[s].granted = prep[s].granted /\ prep'[s].peer = prep[s].peer
          /\ prep'[s].pc = "done"
      BY <3>1, ReceiverTypes DEF R!PrepareHandler
    <3> QED
      BY <2>1, <3>1, <3>2, ReceiverTypes DEF R!PrepareRespond, sender, ReceiverInv, Requests
  <2>2. CASE R!PrepareStart(s, "sender", "") /\ co[s].pc # "free"
    <3>1. /\ prep[s].pc = "free"
          /\ prep'[s] = [prep[s] EXCEPT !.pc = "reading", !.peer = "sender"]
      BY <2>2, ReceiverTypes DEF R!PrepareStart
    <3>2. /\ prep'[s].granted = prep[s].granted /\ prep'[s].peer = "sender"
          /\ prep'[s].pc = "reading"
      BY <3>1, ReceiverTypes DEF R!PrepareHandler
    <3> QED
      BY <2>2, <3>1, <3>2, ReceiverTypes DEF R!PrepareStart, sender
  <2> QED
    BY <2>1, <2>2
<1>2. Requests' /\ OneSession' /\ OwnUploads'
  <2>1. Requests'
    BY <1>1 DEF ReceiverInv, Requests
  <2>2. OneSession'
    BY <1>1 DEF ReceiverInv, OneSession, R!Active
  <2>3. OwnUploads'
    BY <1>1, ReceiverTypes DEF ReceiverInv, OwnUploads
  <2> QED
    BY <2>1, <2>2, <2>3
<1>3. session.id = s => prep[s].pc = "responding"
  BY <1>1 DEF ReceiverInv, Requests
<1>4. Awaited'
  BY <1>1, <1>3, ReceiverTypes DEF ReceiverInv, Awaited, R!Active
<1>5. CancelIsPrecise'
  <2>1. session'.id = session.id /\ session'.status = session.status /\ sessions' = sessions
    BY <1>1 DEF sender
  <2>2. session.id # None => (prep'[session.id].pc = "deciding" <=> prep[session.id].pc = "deciding")
    BY <1>1, <1>3, ReceiverTypes
  <2>3. session.id = None => session.status = "waiting"
    BY ReceiverTypes DEF ReceiverInv, OneSession, R!Active
  <2> QED
    BY <2>1, <2>2, <2>3 DEF ReceiverInv, CancelIsPrecise, S!Present
<1>6. ReceiverAdvances
  <2>1. \A x \in Sessions : prep[x].pc \notin {"free", "reading"} => prep'[x].pc \notin {"free", "reading"}
    BY <1>1
  <2> QED
    BY <1>1, <2>1 DEF ReceiverAdvances, Settled
<1> QED
  BY <1>2, <1>4, <1>5, <1>6 DEF ReceiverInv

LEMMA UploadStartStep ==
    ASSUME ReceiveFacts, ReceiverInv, UNCHANGED sender,
           NEW s \in Sessions, NEW f \in Files, NEW n \in 1..Tries,
           R!UploadStart(<<s, f, n>>, "sender", s, f)
    PROVE  ReceiverInv' /\ ReceiverAdvances
<1> DEFINE u == <<s, f, n>>
<1>1. /\ session.id = s /\ session.status \in R!Allowed /\ online /\ online' = online
      /\ prep' = prep /\ co' = co /\ sessions' = sessions /\ u \in Uploads /\ u[1] = s /\ u[2] = f
      /\ R!Active
  BY ReceiverTypes DEF R!UploadStart, R!mayUpload, sender, R!Active
<1>2. /\ session'.id = s /\ session'.status = "sending" /\ session'.sender = session.sender
      /\ session'.files[f] = "sending"
      /\ \A g \in Files \ {f} : session'.files[g] = session.files[g]
  BY ReceiverTypes, <1>1 DEF R!UploadStart, R!Session
<1>3. /\ upl'[u].pc = "saving" /\ upl'[u].sid = s /\ upl'[u].file = f
      /\ upl'[u].saved = upl[u].saved
      /\ \A v \in Uploads \ {u} : upl'[v] = upl[v]
  <2>1. upl' = [upl EXCEPT ![u] = [@ EXCEPT !.pc = "saving", !.sid = s, !.file = f]]
    BY DEF R!UploadStart
  <2> QED
    BY <2>1, <1>1, ReceiverTypes DEF R!UploadHandler
<1> HIDE DEF u
<1>4. prep[s].pc \in {"responding", "done"}
  BY <1>1 DEF ReceiverInv, Requests, Awaited, R!Allowed
<1>5. R!Active'
  BY <1>2, ReceiverTypes DEF R!Active
<1>6. Requests' /\ OneSession' /\ OwnUploads'
  <2>1. Requests'
    BY <1>1, <1>2 DEF ReceiverInv, Requests
  <2>2. OneSession'
    BY <1>1, <1>2, <1>5 DEF ReceiverInv, OneSession
  <2>3. OwnUploads'
    BY <1>1, <1>3, <1>4, ReceiverTypes DEF ReceiverInv, OwnUploads
  <2> QED
    BY <2>1, <2>2, <2>3
<1>7. Awaited'
  <2>1. \A g \in Files, m \in 1..Tries :
           session'.files[g] = "queue" => upl'[<<s, g, m>>].pc = "free"
    <3> SUFFICES ASSUME NEW g \in Files, NEW m \in 1..Tries, session'.files[g] = "queue"
                 PROVE  upl'[<<s, g, m>>].pc = "free"
      OBVIOUS
    <3>1. g # f /\ session.files[g] = "queue"
      BY <1>2
    <3>2. <<s, g, m>> \in Uploads \ {u}
      BY <3>1, ReceiverTypes DEF u
    <3>3. upl[<<s, g, m>>].pc = "free"
      BY <1>1, <3>1 DEF ReceiverInv, Awaited
    <3> QED
      BY <1>3, <3>2, <3>3
  <2>2. \A g \in Files : session'.files[g] = "queue" => g \in prep'[s].granted
    BY <1>1, <1>2, <1>4 DEF ReceiverInv, Awaited
  <2> QED
    BY <1>1, <1>2, <1>4, <2>1, <2>2 DEF Awaited
<1>8. CancelIsPrecise'
  BY <1>2 DEF CancelIsPrecise
<1>9. ReceiverAdvances
  BY <1>1, <1>2, <1>3 DEF ReceiverAdvances, Settled, R!Allowed
<1> QED
  BY <1>6, <1>7, <1>8, <1>9 DEF ReceiverInv

LEMMA CancelStep ==
    ASSUME ReceiveFacts, ReceiverInv, Canceling, UNCHANGED sender,
           NEW m \in cancels, R!Cancel("sender", TRUE, m.id)
    PROVE  ReceiverInv' /\ ReceiverAdvances
<1>1. /\ R!Active /\ session.status \in {"waiting", "sending"}
      /\ session.status # "waiting" => m.id = session.id
      /\ session' = [session EXCEPT !.status = "canceledBySender"]
      /\ online' = online /\ prep' = prep /\ upl' = upl /\ co' = co /\ sessions' = sessions
  BY DEF R!Cancel, R!mayCancel, sender
<1>2. /\ session'.id = session.id /\ session'.status = "canceledBySender"
      /\ session'.sender = session.sender /\ session'.files = session.files
      /\ session.id \in Sessions
  BY <1>1, ReceiverTypes DEF R!Session, R!Active
<1>3. R!Active'
  BY <1>1, <1>2 DEF R!Active
<1>4. Requests' /\ OneSession' /\ OwnUploads'
  BY <1>1, <1>2, <1>3 DEF ReceiverInv, Requests, OneSession, OwnUploads
<1>5. Awaited'
  BY <1>1, <1>2 DEF ReceiverInv, Awaited
<1>6. CancelIsPrecise'
  <2>1. prep[session.id].pc # "deciding" => session.status # "waiting"
    BY <1>1 DEF ReceiverInv, Awaited
  <2>2. prep[session.id].pc # "deciding" => m.id = session.id /\ session.id # None
    BY <1>1, <2>1 DEF R!Active
  <2>3. prep[session.id].pc # "deciding" => ~S!Present(session.id)
    BY <2>2 DEF Canceling
  <2> QED
    BY <1>1, <1>2, <2>3 DEF CancelIsPrecise, S!Present
<1>7. ReceiverAdvances
  BY <1>1, <1>2 DEF ReceiverAdvances, Settled
<1> QED
  BY <1>4, <1>5, <1>6, <1>7 DEF ReceiverInv

\* What concluding an upload of the session T does.
LEMMA ConcludeFacts ==
    ASSUME ReceiveFacts, NEW u \in Uploads, NEW T \in R!Session, R!Conclude(u, T)
    PROVE  /\ session'.id = T.id /\ session'.sender = T.sender /\ session'.files = T.files
           /\ T.id = None => session' = T
           /\ \/ session'.status = T.status
              \/ /\ T.status \in R!Allowed /\ session'.status \in {"finished", "finishedWithErrors"}
                 /\ \A f \in Files : T.files[f] # "queue"
           /\ \A v \in Uploads \ {u} : upl'[v] = upl[v]
           /\ upl'[u].pc # "free" /\ upl'[u].sid = upl[u].sid /\ upl'[u].file = upl[u].file
           /\ upl'[u].saved = upl[u].saved
<1>1. CASE T.id = None
  <2>1. /\ session' = T
        /\ upl' = [upl EXCEPT ![u] = [@ EXCEPT !.pc = IF online THEN "done" ELSE "dead",
                                               !.resp = IF online THEN 500 ELSE 0]]
    BY <1>1 DEF R!Conclude
  <2> QED
    BY <1>1, <2>1, ReceiverTypes DEF R!UploadHandler
<1>2. CASE T.id # None
  <2> DEFINE over == T.status \in R!Allowed /\ R!isFinishedOrError(T)
  <2>1. /\ session' = IF ~over THEN T
                      ELSE [T EXCEPT !.status = IF R!hasError(T) THEN "finishedWithErrors"
                                                                 ELSE "finished"]
        /\ upl' = [upl EXCEPT ![u] = [@ EXCEPT !.pc = "done", !.resp = R!answer(u, T),
                                               !.timer = over /\ R!closesItself(T)]]
    BY <1>2 DEF R!Conclude
  <2>2. over => \A f \in Files : T.files[f] # "queue"
    BY DEF R!isFinishedOrError
  <2>3. /\ session'.id = T.id /\ session'.sender = T.sender /\ session'.files = T.files
        /\ \/ session'.status = T.status
           \/ over /\ session'.status \in {"finished", "finishedWithErrors"}
    BY <2>1 DEF R!Session
  <2>4. /\ \A v \in Uploads \ {u} : upl'[v] = upl[v]
        /\ upl'[u].pc # "free" /\ upl'[u].sid = upl[u].sid /\ upl'[u].file = upl[u].file
        /\ upl'[u].saved = upl[u].saved
    BY <2>1, ReceiverTypes DEF R!UploadHandler
  <2> QED
    BY <1>2, <2>2, <2>3, <2>4
<1> QED
  BY <1>1, <1>2

LEMMA FileFinishedFacts ==
    ASSUME ReceiveFacts, NEW u \in Uploads, upl[u].file \in Files,
           NEW status \in {"finished", "failed"}
    PROVE  /\ R!fileFinished(u, status) \in R!Session
           /\ R!fileFinished(u, status).id = session.id
           /\ R!fileFinished(u, status).sender = session.sender
           /\ R!fileFinished(u, status).status = session.status
           /\ \A f \in Files : R!fileFinished(u, status).files[f] = "queue"
                                  => session.files[f] = "queue"
  BY ReceiverTypes DEF R!fileFinished, R!Session, R!FileStatus

\* The handler of an upload takes no file back, and ends only a session in which
\* nothing is waited for.
LEMMA UploadFacts ==
    ASSUME ReceiveFacts, ReceiverInv, NEW u \in Uploads, R!Upload(u)
    PROVE  /\ session'.id = session.id /\ session'.sender = session.sender
           /\ ~R!Active => session' = session
           /\ \A f \in Files : session'.files[f] = "queue" => session.files[f] = "queue"
           /\ \/ session'.status = session.status
              \/ /\ session.status \in R!Allowed
                 /\ session'.status \in {"finished", "finishedWithErrors"}
                 /\ \A f \in Files : session'.files[f] # "queue"
           /\ \A v \in Uploads \ {u} : upl'[v] = upl[v]
           /\ upl[u].pc # "free" /\ upl'[u].pc # "free"
           /\ upl'[u].sid = upl[u].sid /\ upl'[u].file = upl[u].file
           /\ upl[u].saved => upl'[u].saved
           /\ online' = online /\ prep' = prep
<1>1. upl[u].pc # "free" /\ online' = online /\ prep' = prep
  BY DEF R!Upload, R!UploadSaved, R!UploadFailed, R!UploadRecorded
<1>2. upl[u].file \in Files
  BY <1>1, ReceiverTypes DEF ReceiverInv, OwnUploads
<1>3. CASE R!UploadSaved(u)
  <2> DEFINE Kept == /\ \A v \in Uploads \ {u} : upl'[v] = upl[v]
                     /\ upl'[u].pc # "free" /\ upl'[u].sid = upl[u].sid
                     /\ upl'[u].file = upl[u].file /\ upl'[u].saved
  <2>1. CASE /\ session' = R!fileFinished(u, "finished")
             /\ upl' = [upl EXCEPT ![u] = [@ EXCEPT !.pc = "recording", !.saved = TRUE]]
             /\ R!Active
    <3>1. Kept
      BY <2>1, ReceiverTypes DEF R!UploadHandler
    <3> QED
      BY <1>1, <1>2, <2>1, <3>1, FileFinishedFacts
  <2>2. CASE /\ session' = session
             /\ upl' = [upl EXCEPT ![u] = [@ EXCEPT !.pc = "done", !.saved = TRUE, !.resp = 500]]
    <3>1. Kept
      BY <2>2, ReceiverTypes DEF R!UploadHandler
    <3> QED
      BY <1>1, <2>2, <3>1
  <2>3. CASE /\ session' = session
             /\ upl' = [upl EXCEPT ![u] = [@ EXCEPT !.pc = "dead", !.saved = TRUE]]
    <3>1. Kept
      BY <2>3, ReceiverTypes DEF R!UploadHandler
    <3> QED
      BY <1>1, <2>3, <3>1
  <2> QED
    BY <1>3, <2>1, <2>2, <2>3 DEF R!UploadSaved
<1>4. CASE R!UploadRecorded(u)
  <2>1. R!Conclude(u, session)
    BY <1>4 DEF R!UploadRecorded
  <2> QED
    BY <1>1, <2>1, ConcludeFacts, ReceiverTypes DEF R!Active
<1>5. CASE R!UploadFailed(u)
  <2>1. CASE R!Active /\ session.id # upl[u].sid
    <3>1. session' = session /\ upl' = [upl EXCEPT ![u] = [@ EXCEPT !.pc = "dead"]]
      BY <1>5, <2>1 DEF R!UploadFailed
    <3> QED
      BY <1>1, <3>1, ReceiverTypes DEF R!UploadHandler
  <2>2. CASE ~(R!Active /\ session.id # upl[u].sid)
    <3> DEFINE T == IF R!Active THEN R!fileFinished(u, "failed") ELSE session
    <3>1. R!Conclude(u, T)
      BY <1>5, <2>2 DEF R!UploadFailed
    <3>2. /\ T \in R!Session /\ T.id = session.id /\ T.sender = session.sender
          /\ T.status = session.status /\ (~R!Active => T = session)
          /\ \A f \in Files : T.files[f] = "queue" => session.files[f] = "queue"
      BY <1>2, FileFinishedFacts, ReceiverTypes
    <3> HIDE DEF T
    <3>3. R!Active <=> T.id # None
      BY <3>2 DEF R!Active
    <3>4. /\ session'.id = T.id /\ session'.sender = T.sender /\ session'.files = T.files
          /\ T.id = None => session' = T
          /\ \/ session'.status = T.status
             \/ /\ T.status \in R!Allowed /\ session'.status \in {"finished", "finishedWithErrors"}
                /\ \A f \in Files : T.files[f] # "queue"
          /\ \A v \in Uploads \ {u} : upl'[v] = upl[v]
          /\ upl'[u].pc # "free" /\ upl'[u].sid = upl[u].sid /\ upl'[u].file = upl[u].file
          /\ upl'[u].saved = upl[u].saved
      BY <3>1, <3>2, ConcludeFacts
    <3> QED
      BY <1>1, <3>2, <3>3, <3>4
  <2> QED
    BY <2>1, <2>2
<1> QED
  BY <1>3, <1>4, <1>5 DEF R!Upload

LEMMA UploadStep ==
    ASSUME ReceiveFacts, ReceiverInv, UNCHANGED sender, NEW u \in Uploads, R!Upload(u)
    PROVE  ReceiverInv' /\ ReceiverAdvances
<1>1. /\ session'.id = session.id /\ session'.sender = session.sender
      /\ ~R!Active => session' = session
      /\ \A f \in Files : session'.files[f] = "queue" => session.files[f] = "queue"
      /\ \/ session'.status = session.status
         \/ /\ session.status \in R!Allowed
            /\ session'.status \in {"finished", "finishedWithErrors"}
            /\ \A f \in Files : session'.files[f] # "queue"
      /\ online' = online /\ prep' = prep
  BY UploadFacts
<1>2. /\ \A v \in Uploads \ {u} : upl'[v] = upl[v]
      /\ upl[u].pc # "free" /\ upl'[u].pc # "free"
      /\ upl'[u].sid = upl[u].sid /\ upl'[u].file = upl[u].file
      /\ upl[u].saved => upl'[u].saved
  BY UploadFacts
<1>3. co' = co /\ sessions' = sessions /\ (R!Active' <=> R!Active)
  BY <1>1 DEF sender, R!Active
<1>4. Requests' /\ OneSession' /\ OwnUploads'
  <2>1. Requests'
    BY <1>1, <1>3 DEF ReceiverInv, Requests
  <2>2. OneSession'
    BY <1>1, <1>3 DEF ReceiverInv, OneSession, R!NoSession
  <2>3. OwnUploads'
    BY <1>1, <1>2 DEF ReceiverInv, OwnUploads
  <2> QED
    BY <2>1, <2>2, <2>3
<1>5. Awaited'
  <2>1. ASSUME R!Active, NEW f \in Files, NEW n \in 1..Tries, session'.files[f] = "queue"
        PROVE  upl'[<<session.id, f, n>>].pc = "free"
    <3>1. upl[<<session.id, f, n>>].pc = "free"
      BY <1>1, <2>1 DEF ReceiverInv, Awaited
    <3>2. <<session.id, f, n>> \in Uploads \ {u}
      BY <1>2, <2>1, <3>1, ReceiverTypes DEF R!Active
    <3> QED
      BY <1>2, <3>1, <3>2
  <2>2. R!Active =>
           /\ prep[session.id].pc = "deciding" => session'.status \in {"waiting", "canceledBySender"}
           /\ prep[session.id].pc # "deciding" =>
                 /\ session'.status # "waiting"
                 /\ \A f \in Files : session'.files[f] = "queue" => f \in prep[session.id].granted
           /\ session'.status \in {"finished", "finishedWithErrors"} =>
                 \A f \in Files : session'.files[f] # "queue"
    BY <1>1 DEF ReceiverInv, Awaited, R!Allowed
  <2> QED
    BY <1>1, <1>3, <2>1, <2>2 DEF Awaited
<1>6. CancelIsPrecise'
  BY <1>1, <1>3 DEF ReceiverInv, CancelIsPrecise, S!Present
<1>7. ReceiverAdvances
  BY <1>1, <1>2 DEF ReceiverAdvances, Settled, R!Allowed
<1> QED
  BY <1>4, <1>5, <1>6, <1>7 DEF ReceiverInv

-----------------------------------------------------------------------------
(* The steps of the sender. *)

LEMMA SenderTypes ==
    ASSUME SendFacts
    PROVE  /\ sessions \in [Sessions -> S!Session \cup {S!NoSession}]
           /\ co \in [Sessions -> S!Coroutine]
           /\ task \in [Sessions -> [Files -> {"none", "loop", "retry"}]]
           /\ S!NoSession.status = "none" /\ S!NoSession.remote = FALSE
           /\ \A f \in Files : S!NoSession.files[f] = "queue"
           /\ \A s \in Sessions : S!Present(s) => sessions[s] \in S!Session
           /\ \A s \in Sessions : ~S!Present(s) => sessions[s] = S!NoSession
           /\ \A s \in Sessions : S!Present(s) => co[s].pc # "free"
  BY DEF SendFacts, S!TypeOK, S!NoSession

\* The session when an upload has ended.
LEMMA EndedFacts ==
    ASSUME SendFacts, NEW s \in Sessions, NEW f \in Files, NEW ok \in BOOLEAN, S!Present(s)
    PROVE  /\ S!Ended(s, f, ok) \in S!Session
           /\ S!Ended(s, f, ok).status = sessions[s].status
           /\ S!Ended(s, f, ok).remote = sessions[s].remote
           /\ S!Ended(s, f, ok).files[f] = IF ok THEN "finished" ELSE "failed"
           /\ \A g \in Files \ {f} : S!Ended(s, f, ok).files[g] = sessions[s].files[g]
<1>1. sessions[s] \in S!Session
  BY SenderTypes
<1>2. S!Ended(s, f, ok) = [sessions[s] EXCEPT !.files[f] = IF ok THEN "finished" ELSE "failed"]
  BY DEF S!Ended
<1>3. (IF ok THEN "finished" ELSE "failed") \in S!FileStatus
  BY DEF S!FileStatus
<1> QED
  BY <1>1, <1>2, <1>3 DEF S!Session

\* _finish either keeps the files or closes a session that has no error.
LEMMA FinishFacts ==
    ASSUME NEW T \in S!Session
    PROVE  \/ /\ S!finish(T) \in S!Session /\ S!finish(T).files = T.files
              /\ S!finish(T).remote = T.remote
           \/ /\ S!finish(T) = S!NoSession /\ T.status = "sending"
              /\ \A f \in Files : T.files[f] # "failed"
  BY DEF S!finish, S!hasError, S!Session, S!SessionStatus

LEMMA PresentIffSession ==
    ASSUME SendFacts', NEW s \in Sessions
    PROVE  /\ S!Present(s)' <=> sessions'[s] \in S!Session
           /\ ~S!Present(s)' <=> sessions'[s] = S!NoSession
<1>1. S!NoSession.status = "none" /\ \A X \in S!Session : X.status # "none"
  BY DEF S!NoSession, S!Session, S!SessionStatus
<1>2. /\ S!Present(s)' => sessions'[s] \in S!Session
      /\ ~S!Present(s)' => sessions'[s] = S!NoSession
  BY DEF SendFacts
<1>3. S!Present(s)' <=> sessions'[s].status # "none"
  BY DEF S!Present
<1> QED
  BY <1>1, <1>2, <1>3

\* When an upload of f ends, f gets its fate, another file may be started, and a
\* session that is closed over it has sent all of its files or left a retry behind.
LEMMA EndsFacts ==
    ASSUME SendFacts, SendFacts', NEW s \in Sessions, NEW f \in Files, NEW ok \in BOOLEAN,
           S!UploadEnds(s, f, ok)
    PROVE  /\ task[s][f] # "none" /\ co[s].pc # "free" /\ co'[s].pc # "free"
           /\ \A x \in Sessions \ {s} : sessions'[x] = sessions[x] /\ co'[x] = co[x]
           /\ S!Present(s)' =>
                 /\ S!Present(s) /\ sessions'[s].remote = sessions[s].remote
                 /\ \A g \in Files :
                       \/ sessions'[s].files[g] \in {sessions[s].files[g], "sending", "failed"}
                       \/ g = f /\ ok /\ sessions'[s].files[g] = "finished"
           /\ S!Present(s) /\ ~S!Present(s)' =>
                 \/ /\ ok
                    /\ \A g \in Files \ {f} : sessions[s].files[g] \in {"skipped", "finished"}
                 \/ \E g \in Files : task'[s][g] # "none"
<1> DEFINE T == S!Ended(s, f, ok)
<1>0. /\ task[s][f] # "none" /\ \A x \in Sessions \ {s} : sessions'[x] = sessions[x] /\ co'[x] = co[x]
      /\ ~S!Present(s) => T = S!NoSession
  BY SenderTypes DEF S!UploadEnds, S!UploadNext, S!UploadLast, S!RetryEnded, S!Ended
<1>1. co[s].pc # "free"
  BY <1>0 DEF SendFacts
<1>2. ASSUME S!Present(s)
      PROVE  /\ T \in S!Session /\ T.status = sessions[s].status /\ T.remote = sessions[s].remote
             /\ T.files[f] = IF ok THEN "finished" ELSE "failed"
             /\ \A g \in Files \ {f} : T.files[g] = sessions[s].files[g]
             /\ \A g \in Files : T.files[g] \in S!FileStatus
  BY <1>2, EndedFacts DEF S!Session
<1> HIDE DEF T
<1>3. CASE S!UploadNext(s, f, ok)
  <2>1. T.status \in S!Allowed /\ S!Present(s)
    BY <1>0, <1>3, SenderTypes DEF S!UploadNext, S!HasNext, S!Allowed, T
  <2>2. PICK g \in co[s].queue :
           /\ sessions' = [sessions EXCEPT ![s] = [T EXCEPT !.files[g] = "sending"]]
           /\ co' = [co EXCEPT ![s].queue = @ \ {g}]
    BY <1>3 DEF S!UploadNext, T
  <2>3. sessions'[s] = [T EXCEPT !.files[g] = "sending"] /\ co'[s].pc = co[s].pc
    BY <2>2, SenderTypes DEF S!Coroutine
  <2>4. /\ sessions'[s].status = T.status /\ sessions'[s].remote = T.remote
        /\ \A h \in Files : sessions'[s].files[h] \in {T.files[h], "sending"}
    BY <1>2, <2>1, <2>3 DEF S!Session
  <2>5. S!Present(s)'
    BY <2>1, <2>4 DEF S!Present, S!Allowed
  <2> QED
    BY <1>0, <1>1, <1>2, <2>1, <2>3, <2>4, <2>5
<1>4. CASE S!UploadLast(s, f, ok)
  <2> DEFINE last == S!IsLast(s, f)
  <2>1. /\ task[s][f] = "loop" /\ ~S!HasNext(s, T)
        /\ sessions' = [sessions EXCEPT ![s] = IF last THEN S!finish(T) ELSE T]
        /\ co' = [co EXCEPT ![s] = [pc |-> IF last THEN "done" ELSE "looping", queue |-> {}]]
        /\ task' = [task EXCEPT ![s][f] = "none"]
    BY <1>4 DEF S!UploadLast, T
  <2> HIDE DEF last
  <2>2. /\ sessions'[s] = IF last THEN S!finish(T) ELSE T
        /\ co'[s].pc # "free" /\ \A g \in Files \ {f} : task'[s][g] = task[s][g]
    BY <2>1, SenderTypes
  <2>3. CASE ~S!Present(s)
    <3>1. sessions'[s] = S!NoSession
      BY <1>0, <2>2, <2>3, SenderTypes DEF S!finish
    <3> QED
      BY <1>0, <1>1, <2>2, <2>3, <3>1, PresentIffSession
  <2>4. CASE S!Present(s)
    <3>1. CASE sessions'[s] \in S!Session /\ sessions'[s].files = T.files
               /\ sessions'[s].remote = T.remote
      BY <1>0, <1>1, <1>2, <2>2, <2>4, <3>1, PresentIffSession
    <3>2. CASE sessions'[s] = S!NoSession /\ T.status = "sending"
               /\ \A g \in Files : T.files[g] # "failed"
      <4>1. ok
        BY <1>2, <2>4, <3>2
      <4>2. co[s].pc = "looping" /\ co[s].queue = {} /\ sessions[s].status \in S!Allowed
        BY <1>2, <2>1, <2>4, <3>2 DEF SendFacts, S!HasNext, S!Allowed
      <4>3. \A g \in Files : sessions[s].files[g] # "queue"
        BY <4>2 DEF SendFacts
      <4>4. \A g \in Files \ {f} : \/ sessions[s].files[g] \in {"skipped", "finished"}
                                   \/ task'[s][g] # "none"
        BY <1>2, <2>2, <2>4, <3>2, <4>3 DEF SendFacts, S!FileStatus
      <4> QED
        BY <1>0, <1>1, <2>2, <3>2, <4>1, <4>4, PresentIffSession
    <3> QED
      BY <1>2, <2>2, <2>4, <3>1, <3>2, FinishFacts
  <2> QED
    BY <2>3, <2>4
<1>5. CASE S!RetryEnded(s, f, ok)
  <2>1. /\ sessions' = [sessions EXCEPT ![s] = IF S!isFinishedOrError(T) THEN S!finish(T) ELSE T]
        /\ co' = co
    BY <1>5 DEF S!RetryEnded, T
  <2>2. /\ sessions'[s] = IF S!isFinishedOrError(T) THEN S!finish(T) ELSE T
        /\ co'[s].pc # "free"
    BY <1>1, <2>1, SenderTypes
  <2>3. CASE ~S!Present(s)
    <3>1. sessions'[s] = S!NoSession
      BY <1>0, <2>2, <2>3, SenderTypes DEF S!finish
    <3> QED
      BY <1>0, <1>1, <2>2, <2>3, <3>1, PresentIffSession
  <2>4. CASE S!Present(s)
    <3>1. CASE sessions'[s] \in S!Session /\ sessions'[s].files = T.files
               /\ sessions'[s].remote = T.remote
      BY <1>0, <1>1, <1>2, <2>2, <2>4, <3>1, PresentIffSession
    <3>2. CASE sessions'[s] = S!NoSession /\ S!isFinishedOrError(T)
               /\ \A g \in Files : T.files[g] # "failed"
      <4>1. ok
        BY <1>2, <2>4, <3>2
      <4>2. \A g \in Files \ {f} : sessions[s].files[g] \in {"skipped", "finished"}
        BY <1>2, <2>4, <3>2 DEF S!isFinishedOrError
      <4> QED
        BY <1>0, <1>1, <2>2, <3>2, <4>1, <4>2, PresentIffSession
    <3> QED
      BY <1>2, <2>2, <2>4, <3>1, <3>2, FinishFacts, PresentIffSession
  <2> QED
    BY <2>3, <2>4
<1> QED
  BY <1>3, <1>4, <1>5 DEF S!UploadEnds

\* What a step of the sender keeps: it takes no session up again, says of a file
\* what the receiver's answer and the upload show, and leaves no session of which
\* the receiver waits for something, unless it tells it or the device forgets it.
Advances(s) ==
    /\ co[s].pc # "free" => co'[s].pc # "free"
    /\ co[s].pc # "free" /\ ~S!Present(s) => ~S!Present(s)'
    /\ co'[s].pc # "free" /\ ~S!Present(s)' => co[s].pc # "free"
    /\ sessions'[s].remote => prep[s].pc = "done"
    /\ \A f \in Files :
          /\ sessions'[s].files[f] # "queue" => prep[s].pc = "done"
          /\ sessions'[s].files[f] = "skipped" => f \notin prep[s].granted
          /\ sessions'[s].files[f] = "finished" => \E n \in 1..Tries : upl[<<s, f, n>>].saved
    /\ Files # {} /\ S!Present(s) /\ ~S!Present(s)' => s \in forsaken' \/ Told(s)' \/ Settled(s)

SenderAdvances == \A s \in Sessions : Advances(s)

LEMMA IdleReceiver ==
    ASSUME UNCHANGED receiver
    PROVE  /\ ReceiverAdvances
           /\ \A s \in Sessions : Settled(s) => Settled(s)'
           /\ OwnUploads => OwnUploads'
           /\ OneSession => OneSession'
           /\ Awaited => Awaited'
<1>1. session' = session /\ prep' = prep /\ upl' = upl /\ online' = online
  BY DEF receiver
<1> QED
  BY <1>1 DEF ReceiverAdvances, Settled, OwnUploads, OneSession, Awaited, R!Active

\* A session that is gone is gone for good.
LEMMA SenderStepKeeps ==
    ASSUME Facts, TransferInv, UNCHANGED receiver, SenderAdvances,
           forsaken \subseteq forsaken', cancels \subseteq cancels',
           cancels' = cancels \/ Canceling'
    PROVE  TransferInv'
<1>1. session' = session /\ prep' = prep /\ upl' = upl /\ online' = online
  BY DEF receiver
<1>2. Requests'
  BY <1>1 DEF TransferInv, ReceiverInv, Requests, SenderAdvances, Advances
<1>3. OneSession' /\ OwnUploads' /\ Awaited'
  BY IdleReceiver DEF TransferInv, ReceiverInv
<1>4. CancelIsPrecise'
  <2>1. session.status = "canceledBySender" => session.id \in Sessions /\ co[session.id].pc # "free"
    BY ReceiverTypes DEF Facts, TransferInv, ReceiverInv, Requests, OneSession, R!Active
  <2>2. session.status = "canceledBySender" /\ prep[session.id].pc # "deciding"
          => ~S!Present(session.id)
    BY DEF TransferInv, ReceiverInv, CancelIsPrecise
  <2>3. session.status = "canceledBySender" /\ prep[session.id].pc # "deciding"
          => sessions'[session.id].status = "none"
    BY <2>1, <2>2 DEF SenderAdvances, Advances, S!Present
  <2> QED
    BY <1>1, <2>3 DEF CancelIsPrecise, S!Present
<1>5. Answered' /\ SentMeansSaved'
  BY <1>1 DEF SenderAdvances, Advances, Answered, SentMeansSaved
<1>6. Canceling'
  <2>1. CASE cancels' = cancels
    <3> SUFFICES ASSUME NEW m \in cancels
                 PROVE  /\ m.of \in Sessions /\ co'[m.of].pc # "free" /\ ~S!Present(m.of)'
                        /\ m.id \in {None, m.of} /\ (m.id # None => prep[m.of].pc = "done")
      BY <1>1, <2>1 DEF Canceling, S!Present
    <3>1. /\ m.of \in Sessions /\ co[m.of].pc # "free" /\ ~S!Present(m.of)
          /\ m.id \in {None, m.of} /\ (m.id # None => prep[m.of].pc = "done")
      BY DEF TransferInv, SenderInv, Canceling
    <3> QED
      BY <3>1 DEF SenderAdvances, Advances
  <2> QED
    BY <2>1
<1>7. GoneSettled'
  <2> SUFFICES ASSUME NEW s \in Sessions \ forsaken', Files # {}, co'[s].pc # "free",
                      ~S!Present(s)'
               PROVE  Told(s)' \/ Settled(s)'
    BY DEF GoneSettled, S!Present
  <2>1. s \in Sessions \ forsaken /\ co[s].pc # "free"
    BY DEF SenderAdvances, Advances
  <2>2. CASE S!Present(s)
    <3>1. Told(s)' \/ Settled(s)
      BY <2>1, <2>2 DEF SenderAdvances, Advances
    <3> QED
      BY <3>1, <2>1, IdleReceiver
  <2>3. CASE ~S!Present(s)
    <3>1. Told(s) \/ Settled(s)
      BY <2>1, <2>3 DEF TransferInv, SenderInv, GoneSettled
    <3>2. Told(s) => Told(s)'
      BY DEF Told
    <3> QED
      BY <3>1, <3>2, <2>1, IdleReceiver
  <2> QED
    BY <2>2, <2>3
<1> QED
  BY <1>2, <1>3, <1>4, <1>5, <1>6, <1>7 DEF TransferInv, ReceiverInv, SenderInv

\* A step that leaves the sender alone and settles what it stops canceling.
LEMMA ReceiverStepKeeps ==
    ASSUME TransferInv, UNCHANGED sender, ReceiverInv', ReceiverAdvances,
           forsaken \subseteq forsaken', cancels' \subseteq cancels,
           \A m \in cancels \ cancels' : m.of \in forsaken' \/ Settled(m.of)'
    PROVE  TransferInv'
<1>1. sessions' = sessions /\ co' = co
  BY DEF sender
<1>2. Answered'
  BY <1>1 DEF TransferInv, SenderInv, Answered, ReceiverAdvances
<1>3. Canceling'
  BY <1>1 DEF TransferInv, SenderInv, Canceling, ReceiverAdvances, S!Present
<1>4. SentMeansSaved'
  <2> SUFFICES ASSUME NEW s \in Sessions, NEW f \in Files, sessions[s].files[f] = "finished"
               PROVE  \E n \in 1..Tries : upl'[<<s, f, n>>].saved
    BY <1>1 DEF SentMeansSaved
  <2>1. PICK n \in 1..Tries : upl[<<s, f, n>>].saved
    BY DEF TransferInv, SenderInv, SentMeansSaved
  <2>2. <<s, f, n>> \in Uploads
    BY DEF Uploads
  <2> QED
    BY <2>1, <2>2 DEF ReceiverAdvances
<1>5. GoneSettled'
  <2> SUFFICES ASSUME NEW s \in Sessions \ forsaken', Files # {}, co[s].pc # "free",
                      ~S!Present(s)
               PROVE  Told(s)' \/ Settled(s)'
    BY <1>1 DEF GoneSettled, S!Present
  <2>1. Told(s) \/ Settled(s)
    BY DEF TransferInv, SenderInv, GoneSettled
  <2>2. Settled(s) => Settled(s)'
    BY DEF ReceiverAdvances
  <2>3. Told(s) => Told(s)' \/ Settled(s)'
    BY DEF Told
  <2> QED
    BY <2>1, <2>2, <2>3
<1> QED
  BY <1>2, <1>3, <1>4, <1>5 DEF TransferInv, SenderInv

\* What the sender knows of a file and of an answer.
LEMMA FileFacts ==
    ASSUME TransferInv, NEW s \in Sessions
    PROVE  /\ sessions[s].remote => prep[s].pc = "done"
           /\ \A f \in Files :
                 /\ sessions[s].files[f] # "queue" => prep[s].pc = "done"
                 /\ sessions[s].files[f] = "skipped" => f \notin prep[s].granted
                 /\ sessions[s].files[f] = "finished" => \E n \in 1..Tries : upl[<<s, f, n>>].saved
  BY DEF TransferInv, SenderInv, Answered, SentMeansSaved

LEMMA SameAdvances ==
    ASSUME TransferInv, NEW s \in Sessions, sessions'[s] = sessions[s],
           co[s].pc # "free" <=> co'[s].pc # "free"
    PROVE  Advances(s)
<1>1. S!Present(s)' <=> S!Present(s)
  BY DEF S!Present
<1> QED
  BY <1>1, FileFacts DEF Advances

\* A session that is taken up, or goes on with the files it has.
LEMMA GoingOn ==
    ASSUME Facts, TransferInv, NEW s \in Sessions,
           S!Present(s) \/ co[s].pc = "free", sessions'[s].status # "none", co'[s].pc # "free",
           sessions'[s].remote => prep[s].pc = "done",
           \A f \in Files :
              \/ sessions'[s].files[f] \in {"queue", sessions[s].files[f]}
              \/ sessions'[s].files[f] \in {"sending", "failed"} /\ prep[s].pc = "done"
    PROVE  Advances(s)
  BY FileFacts DEF Advances, S!Present

LEMMA ForgetAdvances ==
    ASSUME Facts, TransferInv, NEW s \in Sessions, sessions'[s] = S!NoSession,
           S!Present(s), co' = co, Files # {} => s \in forsaken' \/ Told(s)' \/ Settled(s)
    PROVE  Advances(s)
<1>1. co[s].pc # "free"
  BY SenderTypes DEF Facts
<1>2. ~S!Present(s)'
  BY SenderTypes DEF S!Present, Facts
<1> QED
  BY <1>1, <1>2, SenderTypes DEF Advances, Facts

\* A session whose files are sent or skipped leaves nothing to wait for.
LEMMA SentSettles ==
    ASSUME Facts, TransferInv, NEW s \in Sessions, Files # {}, prep[s].pc = "done",
           \A f \in Files : \/ f \notin prep[s].granted
                            \/ \E n \in 1..Tries : upl[<<s, f, n>>].saved
    PROVE  Settled(s)
<1>1. ASSUME session.id = s PROVE session.status # "waiting" /\ \A f \in Files : session.files[f] # "queue"
  <2>1. /\ R!Active /\ session.status # "waiting"
        /\ \A f \in Files : session.files[f] = "queue" => f \in prep[s].granted
        /\ \A f \in Files, n \in 1..Tries :
              session.files[f] = "queue" => upl[<<s, f, n>>].pc = "free"
    BY <1>1, NoneAssumption DEF TransferInv, ReceiverInv, Awaited, R!Active
  <2>2. \A f \in Files, n \in 1..Tries : upl[<<s, f, n>>].saved => upl[<<s, f, n>>].pc # "free"
    BY ReceiverTypes DEF Facts, TransferInv, ReceiverInv, OwnUploads
  <2> QED
    BY <2>1, <2>2
<1> QED
  BY <1>1 DEF Settled

LEMMA StartStep ==
    ASSUME Facts, TransferInv, NEW s \in Sessions, NEW background, StartSession(s, background)
    PROVE  TransferInv'
<1>1. /\ co[s].pc = "free"
      /\ sessions' = [sessions EXCEPT ![s] =
                      [S!NoSession EXCEPT !.status = "waiting", !.target = "receiver",
                                          !.background = background]]
      /\ co' = [co EXCEPT ![s].pc = "posting"]
      /\ UNCHANGED <<receiver, cancels, forsaken>>
  BY DEF StartSession, S!startSession
<1>2. /\ sessions'[s].status = "waiting" /\ sessions'[s].remote = FALSE
      /\ \A f \in Files : sessions'[s].files[f] = "queue"
      /\ co'[s].pc = "posting"
      /\ \A x \in Sessions \ {s} : sessions'[x] = sessions[x] /\ co'[x] = co[x]
  BY <1>1, SenderTypes DEF S!NoSession, S!Coroutine, Facts
<1>3. Advances(s)
  BY <1>1, <1>2, GoingOn
<1>4. SenderAdvances
  BY <1>2, <1>3, SameAdvances DEF SenderAdvances
<1> QED
  BY <1>1, <1>4, SenderStepKeeps

LEMMA RetryStep ==
    ASSUME Facts, TransferInv, NEW s \in Sessions, NEW f \in Files, Retry(s, f)
    PROVE  TransferInv'
<1>1. /\ sessions[s].status \in S!Allowed /\ sessions[s].files[f] = "failed"
      /\ sessions' = [sessions EXCEPT ![s].status = "sending", ![s].files[f] = "sending"]
      /\ co' = co
      /\ UNCHANGED <<receiver, cancels, forsaken>>
  BY DEF Retry, S!Retry
<1>2. S!Present(s) /\ sessions[s] \in S!Session
  BY <1>1, SenderTypes DEF S!Allowed, S!Present, Facts
<1>3. /\ sessions'[s].status = "sending" /\ sessions'[s].remote = sessions[s].remote
      /\ \A g \in Files : sessions'[s].files[g] \in {sessions[s].files[g], "sending"}
      /\ \A x \in Sessions \ {s} : sessions'[x] = sessions[x] /\ co'[x] = co[x]
  BY <1>1, <1>2, SenderTypes DEF S!Session, Facts
<1>4. Advances(s)
  BY <1>1, <1>2, <1>3, FileFacts, GoingOn, SenderTypes DEF Facts
<1>5. SenderAdvances
  BY <1>1, <1>3, <1>4, SameAdvances DEF SenderAdvances
<1> QED
  BY <1>1, <1>5, SenderStepKeeps

LEMMA CancelBySenderStep ==
    ASSUME Facts, TransferInv, NEW s \in Sessions, CancelBySender(s)
    PROVE  TransferInv'
<1> DEFINE m == [of |-> s, id |-> S!RemoteId(s)]
<1>1. /\ S!Present(s) /\ sessions' = [sessions EXCEPT ![s] = S!NoSession] /\ co' = co
      /\ cancels' = cancels \cup {m}
      /\ UNCHANGED <<receiver, forsaken>>
  BY DEF CancelBySender, S!cancelSession
<1>2. /\ sessions'[s] = S!NoSession
      /\ \A x \in Sessions \ {s} : sessions'[x] = sessions[x] /\ co'[x] = co[x]
  BY <1>1, SenderTypes DEF Facts
<1>3. Told(s)'
  <2>1. m \in cancels' /\ m.of = s
    BY <1>1
  <2> QED
    BY <2>1 DEF Told
<1>4. SenderAdvances
  BY <1>1, <1>2, <1>3, ForgetAdvances, SameAdvances DEF SenderAdvances
<1>5. Canceling'
  <2>1. prep' = prep /\ co[s].pc # "free" /\ ~S!Present(s)'
    BY <1>1, <1>2, SenderTypes DEF receiver, S!Present, Facts
  <2>2. m.id \in {None, s} /\ (m.id # None => prep[s].pc = "done")
    BY FileFacts DEF S!RemoteId
  <2>3. \A x \in cancels : /\ x.of \in Sessions /\ co[x.of].pc # "free" /\ ~S!Present(x.of)'
                           /\ x.id \in {None, x.of} /\ (x.id # None => prep[x.of].pc = "done")
    BY <1>4 DEF TransferInv, SenderInv, Canceling, SenderAdvances, Advances
  <2> HIDE DEF m
  <2>4. m.of = s
    BY DEF m
  <2> QED
    BY <1>1, <2>1, <2>2, <2>3, <2>4 DEF Canceling, S!Present
<1> QED
  BY <1>1, <1>4, <1>5, SenderStepKeeps

LEMMA CloseStep ==
    ASSUME Facts, TransferInv, NEW s \in Sessions, Close(s)
    PROVE  TransferInv'
<1>1. /\ S!Present(s) /\ sessions' = [sessions EXCEPT ![s] = S!NoSession] /\ co' = co
      /\ forsaken' = IF S!isFinishedOrSkipped(sessions[s]) THEN forsaken ELSE forsaken \cup {s}
      /\ UNCHANGED <<receiver, cancels>>
  BY DEF Close, S!closeSession
<1>2. /\ sessions'[s] = S!NoSession
      /\ \A x \in Sessions \ {s} : sessions'[x] = sessions[x] /\ co'[x] = co[x]
  BY <1>1, SenderTypes DEF Facts
<1>3. Files # {} => s \in forsaken' \/ Settled(s)
  <2> SUFFICES ASSUME Files # {}, s \notin forsaken' PROVE Settled(s)
    OBVIOUS
  <2>1. \A f \in Files : sessions[s].files[f] \in {"skipped", "finished"}
    BY <1>1 DEF S!isFinishedOrSkipped
  <2>2. prep[s].pc = "done"
    BY <2>1, FileFacts
  <2> QED
    BY <2>1, <2>2, FileFacts, SentSettles
<1>4. Advances(s)
  BY <1>1, <1>2, <1>3, ForgetAdvances
<1>5. SenderAdvances
  BY <1>1, <1>2, <1>4, SameAdvances DEF SenderAdvances
<1> QED
  BY <1>1, <1>5, SenderStepKeeps

LEMMA ClearStep ==
    ASSUME Facts, TransferInv, Clear
    PROVE  TransferInv'
<1>1. /\ sessions' = [s \in Sessions |-> S!NoSession] /\ co' = co
      /\ forsaken' = forsaken \cup {s \in Sessions : S!Present(s)}
      /\ UNCHANGED <<receiver, cancels>>
  BY DEF Clear, S!clearAllSessions
<1>2. ASSUME NEW s \in Sessions PROVE Advances(s)
  <2>1. sessions'[s] = S!NoSession
    BY <1>1
  <2>2. CASE S!Present(s)
    BY <1>1, <2>1, <2>2, ForgetAdvances
  <2>3. CASE ~S!Present(s)
    BY <1>1, <2>1, <2>3, SameAdvances, SenderTypes DEF Facts
  <2> QED
    BY <2>2, <2>3
<1> QED
  BY <1>1, <1>2, SenderStepKeeps DEF SenderAdvances

LEMMA RejectedStep ==
    ASSUME Facts, TransferInv, NEW s \in Sessions,
           NEW status \in {"declined", "recipientBusy", "finishedWithErrors"},
           S!Rejected(s, status), UNCHANGED <<receiver, cancels>>, forsaken \subseteq forsaken'
    PROVE  TransferInv'
<1>1. /\ co[s].pc = "posting" /\ co' = [co EXCEPT ![s].pc = "done"]
      /\ sessions' = S!updateSession(s, [sessions[s] EXCEPT !.status = status])
  BY DEF S!Rejected
<1>2. co'[s].pc = "done" /\ \A x \in Sessions \ {s} : co'[x] = co[x]
  BY <1>1, SenderTypes DEF S!Coroutine, Facts
<1>3. CASE S!Present(s)
  <2>1. sessions' = [sessions EXCEPT ![s] = [sessions[s] EXCEPT !.status = status]]
    BY <1>1, <1>3 DEF S!updateSession
  <2>2. /\ sessions'[s].status = status /\ sessions'[s].remote = sessions[s].remote
        /\ sessions'[s].files = sessions[s].files
        /\ \A x \in Sessions \ {s} : sessions'[x] = sessions[x]
    BY <1>3, <2>1, SenderTypes DEF S!Session, Facts
  <2>3. Advances(s)
    BY <1>2, <1>3, <2>2, FileFacts, GoingOn
  <2>4. SenderAdvances
    BY <1>2, <2>2, <2>3, SameAdvances DEF SenderAdvances
  <2> QED
    BY <2>4, SenderStepKeeps
<1>4. CASE ~S!Present(s)
  <2>1. sessions' = sessions
    BY <1>1, <1>4 DEF S!updateSession
  <2>2. SenderAdvances
    BY <1>1, <1>2, <2>1, SameAdvances DEF SenderAdvances
  <2> QED
    BY <2>2, SenderStepKeeps
<1> QED
  BY <1>3, <1>4

LEMMA AnsweredStep ==
    ASSUME Facts, TransferInv, NEW s \in Sessions, PrepareAnswered(s)
    PROVE  TransferInv'
<1>1. prep[s].pc = "done" /\ UNCHANGED <<receiver, cancels, forsaken>>
  BY DEF PrepareAnswered
<1>2. CASE S!Rejected(s, "declined")
  BY <1>1, <1>2, RejectedStep
<1>3. CASE S!Accepted(s, prep[s].granted)
  <2>1. co[s].pc = "posting"
    BY <1>3 DEF S!Accepted
  <2>2. CASE S!Present(s)
    <3>1. PICK F \in S!FirstFiles(prep[s].granted) :
             /\ sessions' = [sessions EXCEPT ![s] =
                  [@ EXCEPT !.status = "sending", !.tokens = prep[s].granted,
                            !.remote = sessions[s].target \notin {},
                            !.files = [f \in Files |->
                                         IF f \in F THEN "sending"
                                         ELSE IF f \in prep[s].granted THEN "queue"
                                         ELSE "skipped"]]]
             /\ co' = [co EXCEPT ![s] = [pc |-> "looping", queue |-> prep[s].granted \ F]]
      BY <1>3, <2>2 DEF S!Accepted
    <3>2. /\ sessions'[s].status = "sending"
          /\ \A f \in Files : \/ sessions'[s].files[f] \in {"sending", "queue"}
                              \/ sessions'[s].files[f] = "skipped" /\ f \notin prep[s].granted
          /\ \A x \in Sessions \ {s} : sessions'[x] = sessions[x]
      BY <2>2, <3>1, SenderTypes DEF S!Session, Facts
    <3>3. co'[s].pc = "looping" /\ \A x \in Sessions \ {s} : co'[x] = co[x]
      BY <3>1, SenderTypes DEF Facts
    <3>4. Advances(s)
      BY <1>1, <2>1, <2>2, <3>2, <3>3 DEF Advances, S!Present
    <3>5. SenderAdvances
      BY <3>2, <3>3, <3>4, SameAdvances DEF SenderAdvances
    <3> QED
      BY <1>1, <3>5, SenderStepKeeps
  <2>3. CASE ~S!Present(s)
    <3>1. sessions' = sessions /\ co' = [co EXCEPT ![s].pc = "done"]
      BY <1>3, <2>3 DEF S!Accepted
    <3>2. co'[s].pc = "done" /\ \A x \in Sessions \ {s} : co'[x] = co[x]
      BY <3>1, SenderTypes DEF S!Coroutine, Facts
    <3>3. SenderAdvances
      BY <2>1, <3>1, <3>2, SameAdvances DEF SenderAdvances
    <3> QED
      BY <1>1, <3>3, SenderStepKeeps
  <2> QED
    BY <2>2, <2>3
<1> QED
  BY <1>2, <1>3 DEF PrepareAnswered

LEMMA NoticeStep ==
    ASSUME Facts, TransferInv, NEW s \in Sessions, NoticeArrives(s)
    PROVE  TransferInv'
<1>1. /\ S!Present(s) /\ co' = co
      /\ sessions' = [sessions EXCEPT ![s].status = "canceledByReceiver"]
      /\ UNCHANGED <<receiver, cancels, forsaken>>
  BY DEF NoticeArrives, S!CancelRequest
<1>2. /\ sessions'[s].status = "canceledByReceiver" /\ sessions'[s].remote = sessions[s].remote
      /\ sessions'[s].files = sessions[s].files
      /\ \A x \in Sessions \ {s} : sessions'[x] = sessions[x]
  BY <1>1, SenderTypes DEF S!Session, Facts
<1>3. Advances(s)
  BY <1>1, <1>2, FileFacts, GoingOn, SenderTypes DEF Facts
<1>4. SenderAdvances
  BY <1>1, <1>2, <1>3, SameAdvances DEF SenderAdvances
<1> QED
  BY <1>1, <1>4, SenderStepKeeps

LEMMA EndsStep ==
    ASSUME Facts, Facts', TransferInv, NEW s \in Sessions, NEW f \in Files,
           NEW ok \in BOOLEAN, Ends(s, f, ok),
           ok => \E n \in 1..Tries : upl[<<s, f, n>>].saved
    PROVE  TransferInv'
<1>1. /\ S!UploadEnds(s, f, ok)
      /\ forsaken' = IF ClosedOverRetry(s) THEN forsaken \cup {s} ELSE forsaken
      /\ UNCHANGED <<receiver, cancels>>
  BY DEF Ends
<1>2. /\ task[s][f] # "none" /\ co[s].pc # "free" /\ co'[s].pc # "free"
      /\ \A x \in Sessions \ {s} : sessions'[x] = sessions[x] /\ co'[x] = co[x]
  BY <1>1, EndsFacts DEF Facts
<1>3. S!Present(s)' =>
         /\ S!Present(s) /\ sessions'[s].remote = sessions[s].remote
         /\ \A g \in Files : \/ sessions'[s].files[g] \in {sessions[s].files[g], "sending", "failed"}
                             \/ g = f /\ ok /\ sessions'[s].files[g] = "finished"
  BY <1>1, EndsFacts DEF Facts
<1>4. S!Present(s) /\ ~S!Present(s)' =>
         \/ ok /\ \A g \in Files \ {f} : sessions[s].files[g] \in {"skipped", "finished"}
         \/ \E g \in Files : task'[s][g] # "none"
  BY <1>1, EndsFacts DEF Facts
<1>5. S!Present(s) => prep[s].pc = "done"
  BY <1>2, FileFacts DEF Facts, SendFacts
<1>6. CASE S!Present(s)'
  <2>1. \A g \in Files :
           /\ sessions'[s].files[g] = "skipped" => g \notin prep[s].granted
           /\ sessions'[s].files[g] = "finished" => \E n \in 1..Tries : upl[<<s, g, n>>].saved
    <3> SUFFICES ASSUME NEW g \in Files
                 PROVE  /\ sessions'[s].files[g] = "skipped" => g \notin prep[s].granted
                        /\ sessions'[s].files[g] = "finished" =>
                              \E n \in 1..Tries : upl[<<s, g, n>>].saved
      OBVIOUS
    <3>1. CASE sessions'[s].files[g] \in {sessions[s].files[g], "sending", "failed"}
      BY <3>1, FileFacts
    <3>2. CASE g = f /\ ok /\ sessions'[s].files[g] = "finished"
      BY <3>2
    <3> QED
      BY <1>3, <1>6, <3>1, <3>2
  <2>2. Advances(s)
    BY <1>2, <1>3, <1>5, <1>6, <2>1 DEF Advances
  <2> QED
    BY <1>1, <1>2, <2>2, SenderStepKeeps, SameAdvances DEF SenderAdvances
<1>7. CASE ~S!Present(s)'
  <2>1. sessions'[s] = S!NoSession
    BY <1>7, PresentIffSession DEF Facts
  <2>2. S!Present(s) /\ Files # {} => s \in forsaken' \/ Settled(s)
    <3> SUFFICES ASSUME S!Present(s), Files # {}, s \notin forsaken' PROVE Settled(s)
      OBVIOUS
    <3>1. ok /\ \A g \in Files \ {f} : sessions[s].files[g] \in {"skipped", "finished"}
      BY <1>1, <1>4, <1>7, <2>1 DEF ClosedOverRetry
    <3>2. \A g \in Files : \/ g \notin prep[s].granted
                           \/ \E n \in 1..Tries : upl[<<s, g, n>>].saved
      BY <3>1, FileFacts
    <3> QED
      BY <1>5, <3>2, SentSettles
  <2>3. Advances(s)
    BY <1>2, <1>7, <2>1, <2>2, SenderTypes DEF Advances, Facts
  <2> QED
    BY <1>1, <1>2, <2>3, SenderStepKeeps, SameAdvances DEF SenderAdvances
<1> QED
  BY <1>6, <1>7

-----------------------------------------------------------------------------
(* The two sides together. *)

LEMMA IdleStep ==
    ASSUME TransferInv, UNCHANGED <<sender, receiver>>
    PROVE  ReceiverInv' /\ ReceiverAdvances
<1>1. sessions' = sessions /\ co' = co /\ session' = session /\ prep' = prep
  BY DEF sender, receiver
<1>2. Requests' /\ CancelIsPrecise'
  BY <1>1 DEF TransferInv, ReceiverInv, Requests, CancelIsPrecise, S!Present
<1> QED
  BY <1>2, IdleReceiver DEF TransferInv, ReceiverInv

LEMMA ReceiverUserStep ==
    ASSUME Facts, TransferInv, Decide \/ CancelByReceiver \/ Server \/ Handle
    PROVE  TransferInv'
<1>1. UNCHANGED <<sender, cancels, forsaken>>
  BY DEF Decide, CancelByReceiver, Server, Handle
<1>2. ReceiveFacts /\ ReceiverInv
  BY DEF Facts, TransferInv
<1>3. ReceiverInv' /\ ReceiverAdvances
  <2>1. CASE \E selection \in bound.selections : R!acceptFileRequest(selection)
    BY <1>1, <1>2, <2>1, BoundFacts, AcceptStep DEF Facts
  <2>2. CASE R!declineFileRequest \/ R!closeCanceled \/ R!cancelSession \/ R!startServer
    <3>1. /\ session' = R!NoSession /\ UNCHANGED upl
          /\ \/ UNCHANGED prep
             \/ /\ R!Asking
                /\ prep' = [prep EXCEPT ![session.id] = [@ EXCEPT !.pc = "done", !.resp = 403]]
      BY <2>2 DEF R!declineFileRequest, R!closeCanceled, R!cancelSession, R!startServer
    <3> QED
      BY <1>1, <1>2, <3>1, EmptiedStep
  <2>3. CASE Handle
    BY <1>1, <1>2, <2>3, InstallStep, HandlerStep, UploadStep DEF Handle
  <2> QED
    BY <2>1, <2>2, <2>3 DEF Decide, CancelByReceiver, Server
<1> QED
  BY <1>1, <1>3, ReceiverStepKeeps

LEMMA ArrivalStep ==
    ASSUME Facts, TransferInv, NEW s \in Sessions,
           PrepareArrives(s) \/ \E f \in Files : UploadArrives(s, f)
    PROVE  TransferInv'
<1>1. UNCHANGED <<sender, cancels, forsaken>>
  BY DEF PrepareArrives, UploadArrives
<1>2. ReceiveFacts /\ ReceiverInv
  BY DEF Facts, TransferInv
<1>3. ReceiverInv' /\ ReceiverAdvances
  <2>1. CASE PrepareArrives(s)
    BY <1>1, <1>2, <2>1, HandlerStep DEF PrepareArrives, Posted
  <2>2. ASSUME NEW f \in Files, UploadArrives(s, f) PROVE ReceiverInv' /\ ReceiverAdvances
    <3>1. PICK n \in 1..Tries : R!UploadStart(<<s, f, n>>, "sender", s, f)
      BY <2>2 DEF UploadArrives
    <3> QED
      BY <1>1, <1>2, <3>1, UploadStartStep
  <2> QED
    BY <2>1, <2>2
<1> QED
  BY <1>1, <1>3, ReceiverStepKeeps

\* A cancel request that arrives ends the session it is about, one that is refused
\* with an id comes too late to matter, and the others leave the session alone.
LEMMA CancelRequestStep ==
    ASSUME Facts, TransferInv, NEW m \in cancels,
           CancelArrives(m) \/ CancelRefused(m) \/ CancelLost(m)
    PROVE  TransferInv'
<1>1. /\ UNCHANGED sender /\ cancels' = cancels \ {m} /\ forsaken \subseteq forsaken'
      /\ cancels \ cancels' = {m}
  BY DEF CancelArrives, CancelRefused, CancelLost
<1>2. ReceiveFacts /\ ReceiverInv /\ Canceling
  BY DEF Facts, TransferInv, SenderInv
<1>3. /\ m.of \in Sessions /\ m.id \in {None, m.of}
      /\ m.id # None => prep[m.of].pc = "done"
  BY <1>2 DEF Canceling
<1>4. CASE CancelArrives(m)
  <2>1. R!Cancel("sender", TRUE, m.id)
    BY <1>4 DEF CancelArrives
  <2>2. ReceiverInv' /\ ReceiverAdvances
    BY <1>1, <1>2, <2>1, CancelStep
  <2>3. m.of \in forsaken' \/ Settled(m.of)'
    <3>1. session.id = m.of => prep[m.of].pc \in {"deciding", "responding", "done"}
      BY <1>2, <1>3 DEF ReceiverInv, Requests
    <3>2. session'.id = session.id /\ session'.status = "canceledBySender" /\ prep' = prep
      BY <1>2, <2>1, ReceiverTypes DEF R!Cancel, R!Session
    <3>3. session.id = m.of => Settled(m.of)'
      BY <3>1, <3>2 DEF Settled
    <3> QED
      BY <1>4, <3>3 DEF CancelArrives
  <2> QED
    BY <1>1, <2>2, <2>3, ReceiverStepKeeps
<1>5. CASE CancelRefused(m)
  <2>1. /\ UNCHANGED receiver /\ ~R!mayCancel("sender", TRUE, m.id)
        /\ forsaken' = IF m.id = None THEN forsaken \cup {m.of} ELSE forsaken
    BY <1>5 DEF CancelRefused
  <2>2. ReceiverInv' /\ ReceiverAdvances
    BY <1>1, <2>1, IdleStep
  <2>3. ASSUME m.id # None PROVE Settled(m.of)
    <3>1. m.id = m.of /\ prep[m.of].pc = "done"
      BY <1>3, <2>3
    <3>2. ASSUME session.id = m.of
          PROVE  \/ session.status = "canceledBySender"
                 \/ session.status # "waiting" /\ \A f \in Files : session.files[f] # "queue"
      <4>1. R!Active /\ online /\ session.sender = "sender"
        BY <1>2, <1>3, <3>2, ReceiverTypes DEF R!Active, ReceiverInv, OneSession
      <4>2. session.status \notin {"waiting", "sending"}
        BY <2>1, <3>1, <3>2, <4>1 DEF R!mayCancel
      <4>3. session.status \in {"canceledBySender", "finished", "finishedWithErrors"}
        BY <1>2, <4>2, ReceiverTypes DEF R!Session, R!SessionStatus, R!Allowed
      <4> QED
        BY <1>2, <4>1, <4>3 DEF ReceiverInv, Awaited
    <3> QED
      BY <3>1, <3>2 DEF Settled
  <2>4. m.of \in forsaken' \/ Settled(m.of)'
    BY <1>3, <2>1, <2>3, IdleReceiver
  <2> QED
    BY <1>1, <2>2, <2>4, ReceiverStepKeeps
<1>6. CASE CancelLost(m)
  <2>1. UNCHANGED receiver /\ m.of \in forsaken'
    BY <1>6 DEF CancelLost
  <2>2. ReceiverInv' /\ ReceiverAdvances
    BY <1>1, <2>1, IdleStep
  <2> QED
    BY <1>1, <2>1, <2>2, ReceiverStepKeeps
<1> QED
  BY <1>4, <1>5, <1>6

LEMMA UploadMessageStep ==
    ASSUME Facts, Facts', TransferInv, NEW s \in Sessions, NEW f \in Files,
           UploadRefused(s, f) \/ UploadAnswered(s, f) \/ UploadBroken(s, f)
    PROVE  TransferInv'
<1>1. CASE Ends(s, f, FALSE)
  BY <1>1, EndsStep
<1>2. CASE UploadAnswered(s, f)
  <2> DEFINE u == <<s, f, conn[s][f]>>
  <2>1. conn[s][f] \in 1..Tries
    BY <1>2, TransferAssumption DEF UploadAnswered, Facts, Tried
  <2>2. Ends(s, f, upl[u].resp = 200) /\ (upl[u].resp = 200) \in BOOLEAN
    BY <1>2 DEF UploadAnswered
  <2>3. upl[u].resp = 200 => upl[u].saved
    BY <2>1, ReceiverTypes DEF Facts, ReceiveFacts
  <2>4. upl[u].resp = 200 => \E n \in 1..Tries : upl[<<s, f, n>>].saved
    BY <2>1, <2>3
  <2> HIDE DEF u
  <2>5. CASE upl[u].resp = 200
    <3>1. Ends(s, f, TRUE)
      BY <2>2, <2>5
    <3> QED
      BY <2>4, <2>5, <3>1, EndsStep
  <2>6. CASE upl[u].resp # 200
    <3>1. Ends(s, f, FALSE)
      BY <2>2, <2>6
    <3> QED
      BY <3>1, <1>1
  <2> QED
    BY <2>5, <2>6
<1> QED
  BY <1>1, <1>2 DEF UploadRefused, UploadBroken

LEMMA SenderMessageStep ==
    ASSUME Facts, TransferInv, NEW s \in Sessions,
           PrepareRefused(s) \/ PrepareAnswered(s) \/ PrepareBroken(s)
    PROVE  TransferInv'
<1>1. CASE PrepareRefused(s)
  BY <1>1, RejectedStep DEF PrepareRefused
<1>2. CASE PrepareBroken(s)
  BY <1>2, RejectedStep DEF PrepareBroken
<1> QED
  BY <1>1, <1>2, AnsweredStep

LEMMA TransferInvStep ==
    ASSUME Facts, Facts', TransferInv, [Next]_allVars
    PROVE  TransferInv'
<1>1. CASE Users
  <2>1. ASSUME NEW s \in Sessions,
               \/ \E background \in bound.background : StartSession(s, background)
               \/ \E f \in Files : Retry(s, f)
               \/ CancelBySender(s) \/ Close(s)
        PROVE  TransferInv'
    BY <2>1, StartStep, RetryStep, CancelBySenderStep, CloseStep
  <2> QED
    BY <1>1, <2>1, ClearStep, ReceiverUserStep DEF Users
<1>2. CASE Messages
  <2>1. ASSUME NEW s \in Sessions,
               \/ PrepareArrives(s) \/ PrepareRefused(s) \/ PrepareAnswered(s)
               \/ PrepareBroken(s) \/ NoticeArrives(s)
        PROVE  TransferInv'
    BY <2>1, ArrivalStep, SenderMessageStep, NoticeStep
  <2>2. ASSUME NEW s \in Sessions, NEW f \in Files, Upload(s, f) \/ UploadBroken(s, f)
        PROVE  TransferInv'
    BY <2>2, ArrivalStep, UploadMessageStep DEF Upload
  <2>3. ASSUME NEW s \in Sessions, NoticeLost(s) PROVE TransferInv'
    <3>1. UNCHANGED <<sender, receiver, cancels, forsaken>>
      BY <2>3 DEF NoticeLost
    <3> QED
      BY <3>1, IdleStep, ReceiverStepKeeps
  <2> QED
    BY <1>2, <2>1, <2>2, <2>3, CancelRequestStep DEF Messages
<1>3. CASE UNCHANGED allVars
  <2>1. UNCHANGED <<sender, receiver, cancels, forsaken>>
    BY <1>3 DEF allVars, vars
  <2> QED
    BY <2>1, IdleStep, ReceiverStepKeeps
<1> QED
  BY <1>1, <1>2, <1>3, ReceiverUserStep DEF Next

LEMMA TransferInvInit == ASSUME Init PROVE TransferInv
<1>1. /\ \A s \in Sessions : /\ sessions[s] = S!NoSession /\ co[s].pc = "free"
                             /\ prep[s].pc = "free"
      /\ \A u \in Uploads : upl[u].pc = "free" /\ ~upl[u].saved
      /\ session = R!NoSession /\ cancels = {}
  BY DEF Init, S!Init, R!Init
<1>2. /\ session.id = None /\ session.status = "waiting"
      /\ S!NoSession.remote = FALSE /\ \A f \in Files : S!NoSession.files[f] = "queue"
  BY <1>1 DEF R!NoSession, S!NoSession
<1>3. ReceiverInv
  BY <1>1, <1>2, NoneAssumption DEF ReceiverInv, Requests, OneSession, OwnUploads, Awaited,
     CancelIsPrecise, R!Active
<1>4. SenderInv
  BY <1>1, <1>2 DEF SenderInv, Answered, Canceling, GoneSettled, SentMeansSaved
<1> QED
  BY <1>3, <1>4 DEF TransferInv

LEMMA TransferInvAlways == Spec => []TransferInv
<1>1. Init => TransferInv
  BY TransferInvInit
<1>2. Facts /\ Facts' /\ TransferInv /\ [Next]_allVars => TransferInv'
  BY TransferInvStep
<1> QED
  BY <1>1, <1>2, FactsHold, PTL DEF Spec

LEMMA Recorded ==
    ASSUME Facts, TransferInv, notices \subseteq Sessions, forsaken \subseteq Sessions, Next
    PROVE  notices' \subseteq Sessions /\ forsaken' \subseteq Sessions
<1> DEFINE Goal == notices' \subseteq Sessions /\ forsaken' \subseteq Sessions
<1>1. session.status = "sending" => session.id \in Sessions
  BY ReceiverTypes DEF Facts, TransferInv, ReceiverInv, OneSession, R!Active
<1>2. \A m \in cancels : m.of \in Sessions
  BY BoundFacts DEF Facts
<1>3. Users => Goal
  <2>1. CancelByReceiver => Goal
    BY <1>1 DEF CancelByReceiver
  <2>2. Clear \/ Decide \/ Server => Goal
    BY DEF Clear, Decide, Server
  <2>3. \A s \in Sessions : CancelBySender(s) \/ Close(s) => Goal
    BY DEF CancelBySender, Close
  <2>4. \A s \in Sessions : /\ \A f \in Files : Retry(s, f) => Goal
                            /\ \A background \in bound.background :
                                  StartSession(s, background) => Goal
    BY DEF Retry, StartSession
  <2> HIDE DEF Goal
  <2> QED
    BY <2>1, <2>2, <2>3, <2>4 DEF Users
<1>4. Messages => Goal
  <2>1. \A s \in Sessions :
           /\ PrepareArrives(s) \/ PrepareRefused(s) \/ PrepareAnswered(s) \/ PrepareBroken(s) => Goal
           /\ NoticeArrives(s) \/ NoticeLost(s) => Goal
    BY DEF PrepareArrives, PrepareRefused, PrepareAnswered, PrepareBroken, NoticeArrives,
           NoticeLost
  <2>2. \A s \in Sessions, f \in Files : Upload(s, f) \/ UploadBroken(s, f) => Goal
    BY DEF Upload, UploadArrives, UploadRefused, UploadAnswered, UploadBroken, Ends
  <2>3. \A m \in cancels : CancelArrives(m) \/ CancelRefused(m) \/ CancelLost(m) => Goal
    BY <1>2 DEF CancelArrives, CancelRefused, CancelLost
  <2> HIDE DEF Goal
  <2> QED
    BY <2>1, <2>2, <2>3 DEF Messages
<1>5. Handle => Goal
  BY DEF Handle
<1> QED
  BY <1>3, <1>4, <1>5 DEF Next

-----------------------------------------------------------------------------
(* The theorems. *)

\* Every variable of the two devices and of the messages has its type.
THEOREM TransferTypeCorrect == Spec => []TypeOK
<1> DEFINE Sets == notices \subseteq Sessions /\ forsaken \subseteq Sessions
<1>1. Init => Sets
  BY DEF Init
<1>2. Facts /\ TransferInv /\ Sets /\ [Next]_allVars => Sets'
  BY Recorded DEF allVars, vars
<1>3. Facts /\ Sets => TypeOK
  BY DEF Facts, InBounds, Tried, SendFacts, ReceiveFacts, TypeOK
<1> HIDE DEF Sets
<1> QED
  BY <1>1, <1>2, <1>3, FactsHold, TransferInvAlways, PTL DEF Spec

\* A file that the sender shows as sent was saved by the receiver.
THEOREM SentCorrect == Spec => []SentMeansSaved
<1>1. TransferInv => SentMeansSaved
  BY DEF TransferInv, SenderInv
<1> QED
  BY <1>1, TransferInvAlways, PTL

\* An accepted transfer is only canceled by its own cancel request.
THEOREM CancelCorrect == Spec => []CancelIsPrecise
<1>1. TransferInv => CancelIsPrecise
  BY DEF TransferInv, ReceiverInv
<1> QED
  BY <1>1, TransferInvAlways, PTL

\* A sender that is gone leaves the receiver waiting only if its device forgot the
\* session, or told the receiver too early, in vain or not at all.
THEOREM LeftAloneCorrect == Spec => []LeftAlone
<1>1. ASSUME Facts, TransferInv, RP!SendingHasWork PROVE LeftAlone
  <2> SUFFICES ASSUME NEW s \in Sessions, session.id = s,
                      session.status \in {"waiting", "sending"}, Over(s), s \notin forsaken
               PROVE  FALSE
    BY DEF LeftAlone
  <2>1. Files # {} /\ R!Active
    BY <1>1, ReceiverTypes DEF Facts, TransferInv, ReceiverInv, OneSession, R!Active
  <2>2. Settled(s)
    <3>1. CASE S!Present(s)
      <4>1. \A f \in Files : sessions[s].files[f] \in {"skipped", "finished"}
        BY <3>1 DEF Over, S!isFinishedOrSkipped
      <4>2. prep[s].pc = "done"
        BY <1>1, <2>1, <4>1, FileFacts
      <4> QED
        BY <1>1, <2>1, <4>1, <4>2, FileFacts, SentSettles
    <3>2. CASE ~S!Present(s)
      <4>1. Told(s) \/ Settled(s)
        BY <1>1, <2>1, <3>2 DEF TransferInv, SenderInv, GoneSettled, Over
      <4> QED
        BY <4>1 DEF Told, Over
    <3> QED
      BY <3>1, <3>2
  <2>3. session.status = "sending" /\ \A f \in Files : session.files[f] # "queue"
    BY <2>2 DEF Settled
  <2>4. PICK u \in Uploads : upl[u].pc \in {"saving", "recording"} /\ upl[u].sid = s
    BY <1>1, <2>3 DEF RP!SendingHasWork, RP!Allowed
  <2>5. u[1] = s
    BY <1>1, <2>4 DEF TransferInv, ReceiverInv, OwnUploads
  <2> QED
    BY <2>4, <2>5 DEF Over
<1> QED
  BY <1>1, FactsHold, TransferInvAlways, ReceiverKnown, PTL
===============================================================================
