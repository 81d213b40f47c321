-------------------------- MODULE SendProviderProofs --------------------------
(***************************************************************************)
(* The sessions of the send provider do not depend on one another, so the  *)
(* invariant is one about a session, its coroutine and its uploads, for    *)
(* each of them.                                                           *)
(***************************************************************************)
EXTENDS SendProvider, FiniteSetTheorems, TLAPS

TaskKind == {"none", "loop", "retry"}

\* The types of a session S, its coroutine C and its uploads T.
LocalType(S, C, T) ==
    /\ S \in Session \cup {NoSession}
    /\ C \in Coroutine
    /\ T \in [Files -> TaskKind]

\* Before the receiver's answer nothing is queued or under way, and the session
\* waits, if it is there.
BeforeAnswer(S, C, T) ==
    /\ C.pc = "free" => S = NoSession
    /\ C.pc \in {"free", "posting", "pinDialog"} =>
          /\ C.queue = {} /\ \A f \in Files : T[f] = "none"
          /\ S.status \in {"none", "waiting"} /\ \A f \in Files : S.files[f] = "queue"

\* The loop has uploads while it runs, at most one per isolate.
LoopUploads(C, T) ==
    /\ \A f \in Files : T[f] = "loop" => C.pc = "looping"
    /\ C.pc = "looping" => \E f \in Files : T[f] = "loop"
    /\ Cardinality({f \in Files : T[f] = "loop"}) <= Concurrency

\* A file is shown as sending while it is being uploaded, and as queued while it
\* is in the queue; after the loop there is none, unless no file was sent at all.
Shown(S, C, T) ==
    S.status # "none" =>
       /\ \A f \in Files : S.files[f] = "sending" <=> T[f] # "none"
       /\ \A f \in C.queue : S.files[f] = "queue"
       /\ C.pc = "looping" /\ S.status \in Allowed =>
             \A f \in Files : S.files[f] = "queue" => f \in C.queue
       /\ C.pc = "done" /\ S.status \in Allowed =>
             \/ \A f \in Files : S.files[f] # "queue"
             \/ S.status # "sending" /\ \A f \in Files : S.files[f] = "queue"

\* A session is sending as long as its loop is, and later while a retry is.
HasWork(S, C, T) ==
    /\ S.status = "sending" => C.pc = "looping" \/ \E f \in Files : T[f] = "retry"
    /\ S.status = "finishedWithErrors" => C.pc = "done"

Local(S, C, T) ==
    /\ LocalType(S, C, T) /\ BeforeAnswer(S, C, T) /\ LoopUploads(C, T)
    /\ Shown(S, C, T) /\ HasWork(S, C, T)

IInv ==
    /\ TypeOK
    /\ \A s \in Sessions : Local(sessions[s], co[s], task[s])

\* A step that changes one session, its coroutine and its uploads.
LEMMA LocalSuffices ==
    ASSUME IInv, NEW s \in Sessions, NEW S, NEW C, NEW T,
           sessions' = [sessions EXCEPT ![s] = S],
           co' = [co EXCEPT ![s] = C],
           task' = [task EXCEPT ![s] = T],
           Local(S, C, T)
    PROVE  IInv'
<1>1. S \in Session \cup {NoSession} /\ C \in Coroutine /\ T \in [Files -> TaskKind]
  BY DEF Local, LocalType
<1>2. TypeOK'
  BY <1>1 DEF IInv, TypeOK, TaskKind
<1>3. /\ sessions'[s] = S /\ co'[s] = C /\ task'[s] = T
      /\ \A x \in Sessions \ {s} :
            sessions'[x] = sessions[x] /\ co'[x] = co[x] /\ task'[x] = task[x]
  BY DEF IInv, TypeOK
<1>4. \A x \in Sessions : Local(sessions'[x], co'[x], task'[x])
  BY <1>3 DEF IInv
<1> QED
  BY <1>2, <1>4 DEF IInv

\* What does not change is changed to itself.
LEMMA Same ==
    ASSUME IInv, NEW s \in Sessions
    PROVE  /\ sessions = [sessions EXCEPT ![s] = sessions[s]]
           /\ co = [co EXCEPT ![s] = co[s]]
           /\ task = [task EXCEPT ![s] = task[s]]
           /\ Local(sessions[s], co[s], task[s])
           /\ LocalType(sessions[s], co[s], task[s])
  BY DEF IInv, TypeOK, Local

LEMMA NoSessionFacts ==
    NoSession.status = "none" /\ \A f \in Files : NoSession.files[f] = "queue"
  BY DEF NoSession

LEMMA SessionFacts ==
    ASSUME NEW S \in Session \cup {NoSession}
    PROVE  /\ S.status = "none" <=> S = NoSession
           /\ S.status # "none" => S \in Session
           /\ S.files \in [Files -> FileStatus]
<1>1. NoSession.files \in [Files -> FileStatus] /\ NoSession.status = "none"
  BY DEF NoSession, FileStatus
<1>2. S \in Session => S.files \in [Files -> FileStatus] /\ S.status # "none"
  BY DEF Session, SessionStatus
<1> QED
  BY <1>1, <1>2

\* A session that is gone leaves nothing to show.
LEMMA GoneIsLocal ==
    ASSUME NEW S, NEW C, NEW T, Local(S, C, T)
    PROVE  Local(NoSession, C, T)
  BY NoSessionFacts DEF Local, LocalType, BeforeAnswer, LoopUploads, Shown, HasWork

LEMMA InitIInv == Init => IInv
<1> SUFFICES ASSUME Init PROVE IInv
  OBVIOUS
<1> DEFINE C == [pc |-> "free", queue |-> {}]
           T == [f \in Files |-> "none"]
<1>1. \A s \in Sessions : sessions[s] = NoSession /\ co[s] = C /\ task[s] = T
  BY DEF Init
<1>2. C \in Coroutine /\ T \in [Files -> TaskKind]
  BY DEF Coroutine, TaskKind
<1>3. TypeOK
  BY <1>2 DEF Init, TypeOK, TaskKind
<1>4. {f \in Files : T[f] = "loop"} = {}
  OBVIOUS
<1>5. Cardinality({f \in Files : T[f] = "loop"}) <= Concurrency
  BY <1>4, FS_EmptySet, ConcurrencyAssumption
<1>6. Local(NoSession, C, T)
  BY <1>2, <1>5, NoSessionFacts
     DEF Local, LocalType, BeforeAnswer, LoopUploads, Shown, HasWork
<1> QED
  BY <1>1, <1>3, <1>6 DEF IInv

-----------------------------------------------------------------------------
(* startSession up to the answer. *)

LEMMA StartKeepsIInv ==
    ASSUME IInv, NEW s \in Sessions, NEW t \in Targets, NEW background \in BOOLEAN,
           startSession(s, t, background)
    PROVE  IInv'
<1> DEFINE S == [NoSession EXCEPT !.status = "waiting", !.target = t, !.background = background]
           C == [co[s] EXCEPT !.pc = "posting"]
<1>1. /\ sessions' = [sessions EXCEPT ![s] = S]
      /\ co' = [co EXCEPT ![s] = C] /\ task' = [task EXCEPT ![s] = task[s]]
      /\ co[s].pc = "free"
  BY Same DEF startSession
<1>2. /\ S \in Session /\ S.status = "waiting"
      /\ \A f \in Files : S.files[f] = "queue"
  BY DEF NoSession, Session, SessionStatus, FileStatus
<1>3. C \in Coroutine /\ C.pc = "posting" /\ C.queue = co[s].queue
  BY Same DEF Coroutine, LocalType
<1> HIDE DEF S, C
<1>4. Local(S, C, task[s])
  BY <1>1, <1>2, <1>3, Same
     DEF Local, LocalType, BeforeAnswer, LoopUploads, Shown, HasWork
<1> QED
  BY <1>1, <1>4, LocalSuffices

\* The coroutine goes to pc, and the session to status, if it is there.
LEMMA BeforeAnswerStep ==
    ASSUME IInv, NEW s \in Sessions, co[s].pc \in {"posting", "pinDialog"}, UNCHANGED task,
           \/ /\ co' = [co EXCEPT ![s].pc = "posting"] /\ UNCHANGED sessions
           \/ /\ co' = [co EXCEPT ![s].pc = "pinDialog"] /\ UNCHANGED sessions
    PROVE  IInv'
<1>1. PICK pc \in {"posting", "pinDialog"} : co' = [co EXCEPT ![s].pc = pc]
  OBVIOUS
<1> DEFINE C == [co[s] EXCEPT !.pc = pc]
<1>2. /\ sessions' = [sessions EXCEPT ![s] = sessions[s]]
      /\ co' = [co EXCEPT ![s] = C] /\ task' = [task EXCEPT ![s] = task[s]]
  BY <1>1, Same
<1>3. C \in Coroutine /\ C.pc = pc /\ C.queue = co[s].queue
  BY Same DEF Coroutine, LocalType
<1> HIDE DEF C
<1>4. Local(sessions[s], C, task[s])
  BY <1>3, Same, SessionFacts
     DEF Local, LocalType, BeforeAnswer, LoopUploads, Shown, HasWork
<1> QED
  BY <1>2, <1>4, LocalSuffices

\* A session that ends before it sends.
LEMMA EndedEarly ==
    ASSUME IInv, NEW s \in Sessions, co[s].pc \in {"posting", "pinDialog"}, UNCHANGED task,
           co' = [co EXCEPT ![s].pc = "done"],
           NEW status \in SessionStatus \ {"sending", "waiting"},
           sessions' = updateSession(s, [sessions[s] EXCEPT !.status = status])
    PROVE  IInv'
<1> DEFINE C == [co[s] EXCEPT !.pc = "done"]
           S == IF Present(s) THEN [sessions[s] EXCEPT !.status = status] ELSE NoSession
<1>1. sessions[s] \in Session \cup {NoSession} /\ (~Present(s) => sessions[s] = NoSession)
  BY Same, SessionFacts DEF LocalType, Present
<1>2. /\ sessions' = [sessions EXCEPT ![s] = S]
      /\ co' = [co EXCEPT ![s] = C] /\ task' = [task EXCEPT ![s] = task[s]]
  BY <1>1, Same DEF updateSession
<1>3. C \in Coroutine /\ C.pc = "done" /\ C.queue = co[s].queue
  BY Same DEF Coroutine, LocalType
<1>4. /\ S \in Session \cup {NoSession} /\ S.files = sessions[s].files
      /\ S.status \in {"none", status}
  <2>1. CASE Present(s)
    <3>1. sessions[s] \in Session
      BY <1>1, <2>1, NoSessionFacts DEF Present
    <3> QED
      BY <2>1, <3>1 DEF Session
  <2>2. CASE ~Present(s)
    BY <1>1, <2>2, NoSessionFacts
  <2> QED
    BY <2>1, <2>2
<1> HIDE DEF S, C
<1>5. Local(S, C, task[s])
  BY <1>3, <1>4, Same
     DEF Local, LocalType, BeforeAnswer, LoopUploads, Shown, HasWork
<1> QED
  BY <1>2, <1>5, LocalSuffices

LEMMA AcceptedNothingKeepsIInv ==
    ASSUME IInv, NEW s \in Sessions, AcceptedNothing(s)
    PROVE  IInv'
<1> DEFINE C == [co[s] EXCEPT !.pc = "done"]
<1>1. /\ sessions' = [sessions EXCEPT ![s] = NoSession]
      /\ co' = [co EXCEPT ![s] = C] /\ task' = [task EXCEPT ![s] = task[s]]
      /\ co[s].pc = "posting"
  BY Same DEF AcceptedNothing
<1>2. C \in Coroutine /\ C.pc = "done" /\ C.queue = co[s].queue
  BY Same DEF Coroutine, LocalType
<1> HIDE DEF C
<1>3. Local(NoSession, C, task[s])
  BY <1>1, <1>2, Same, NoSessionFacts
     DEF Local, LocalType, BeforeAnswer, LoopUploads, Shown, HasWork
<1> QED
  BY <1>1, <1>3, LocalSuffices

LEMMA UnreadableKeepsIInv ==
    ASSUME IInv, NEW s \in Sessions, Unreadable(s)
    PROVE  IInv'
<1> DEFINE C == [co[s] EXCEPT !.pc = "done"]
<1>1. /\ sessions' = [sessions EXCEPT ![s] = sessions[s]]
      /\ co' = [co EXCEPT ![s] = C] /\ task' = [task EXCEPT ![s] = task[s]]
      /\ co[s].pc = "posting"
  BY Same DEF Unreadable
<1>2. C \in Coroutine /\ C.pc = "done" /\ C.queue = co[s].queue
  BY Same DEF Coroutine, LocalType
<1> HIDE DEF C
<1>3. Local(sessions[s], C, task[s])
  BY <1>1, <1>2, Same
     DEF Local, LocalType, BeforeAnswer, LoopUploads, Shown, HasWork, Allowed
<1> QED
  BY <1>1, <1>3, LocalSuffices

-----------------------------------------------------------------------------
(* The send loop. *)

\* The session is sending, its first files are under way and the others queued.
LEMMA AcceptedKeepsIInv ==
    ASSUME IInv, NEW s \in Sessions, NEW selected \in SUBSET Files, Accepted(s, selected)
    PROVE  IInv'
<1>1. CASE ~Present(s)
  <2> DEFINE C == [co[s] EXCEPT !.pc = "done"]
  <2>1. /\ sessions' = [sessions EXCEPT ![s] = sessions[s]]
        /\ co' = [co EXCEPT ![s] = C] /\ task' = [task EXCEPT ![s] = task[s]]
        /\ co[s].pc = "posting" /\ sessions[s].status = "none"
    BY <1>1, Same DEF Accepted, Present
  <2>2. C \in Coroutine /\ C.pc = "done" /\ C.queue = co[s].queue
    BY Same DEF Coroutine, LocalType
  <2> HIDE DEF C
  <2>3. Local(sessions[s], C, task[s])
    BY <2>1, <2>2, Same
       DEF Local, LocalType, BeforeAnswer, LoopUploads, Shown, HasWork
  <2> QED
    BY <2>1, <2>3, LocalSuffices
<1>2. CASE Present(s)
  <2>1. PICK F \in FirstFiles(selected) :
          /\ sessions' = [sessions EXCEPT ![s] =
               [@ EXCEPT !.status = "sending", !.tokens = selected,
                         !.remote = sessions[s].target \notin V1Targets,
                         !.files = [f \in Files |->
                                      IF f \in F THEN "sending"
                                      ELSE IF f \in selected THEN "queue"
                                      ELSE "skipped"]]]
          /\ task' = [task EXCEPT ![s] = [f \in Files |-> IF f \in F THEN "loop" ELSE "none"]]
          /\ co' = [co EXCEPT ![s] = [pc |-> "looping", queue |-> selected \ F]]
    BY <1>2 DEF Accepted
  <2> DEFINE files == [f \in Files |-> IF f \in F THEN "sending"
                                      ELSE IF f \in selected THEN "queue" ELSE "skipped"]
             remote == sessions[s].target \notin V1Targets
             S == [sessions[s] EXCEPT !.status = "sending", !.tokens = selected,
                                      !.remote = remote, !.files = files]
             C == [pc |-> "looping", queue |-> selected \ F]
             T == [f \in Files |-> IF f \in F THEN "loop" ELSE "none"]
  <2>2. F \subseteq selected /\ Cardinality(F) <= Concurrency /\ F # {}
    <3>1. /\ F \subseteq selected
          /\ Cardinality(F) = IF Cardinality(selected) < Concurrency
                                THEN Cardinality(selected) ELSE Concurrency
      BY DEF FirstFiles
    <3>2. Cardinality(selected) \in Nat /\ Cardinality(selected) # 0
      <4>1. IsFiniteSet(selected) /\ selected # {}
        BY FilesAssumption, FS_Subset DEF Accepted
      <4> QED
        BY <4>1, FS_CardinalityType, FS_EmptySet
    <3>3. Cardinality(F) # 0
      BY <3>1, <3>2, ConcurrencyAssumption
    <3>4. F # {}
      BY <3>3, FS_EmptySet
    <3> QED
      BY <3>1, <3>2, <3>4, ConcurrencyAssumption
  <2>3. {f \in Files : T[f] = "loop"} = F
    BY <2>2
  <2>4. /\ C \in Coroutine /\ C.pc = "looping" /\ C.queue = selected \ F
        /\ T \in [Files -> TaskKind] /\ \A f \in Files : T[f] # "none" <=> f \in F
        /\ \A f \in Files : T[f] = "loop" => C.pc = "looping"
        /\ \E f \in Files : T[f] = "loop"
    BY <2>2 DEF Coroutine, TaskKind
  <2>5. /\ files \in [Files -> FileStatus]
        /\ \A f \in Files : files[f] = "sending" <=> f \in F
        /\ \A f \in Files : files[f] = "queue" <=> f \in selected \ F
    BY DEF FileStatus
  <2>6. S \in Session /\ S.status = "sending" /\ S.files = files
    <3>1. remote \in BOOLEAN /\ selected \in SUBSET Files
      OBVIOUS
    <3>2. sessions[s] \in Session
      BY <1>2, Same, NoSessionFacts DEF LocalType, Present
    <3> HIDE DEF files, remote
    <3> QED
      BY <2>5, <3>1, <3>2 DEF Session, SessionStatus
  <2>7. /\ sessions' = [sessions EXCEPT ![s] = S]
        /\ co' = [co EXCEPT ![s] = C] /\ task' = [task EXCEPT ![s] = T]
    BY <2>1, Same
  <2> HIDE DEF files, remote, S, C, T
  <2>8. Local(S, C, T)
    <3>1. LocalType(S, C, T) /\ BeforeAnswer(S, C, T) /\ HasWork(S, C, T)
      BY <2>4, <2>6 DEF LocalType, BeforeAnswer, HasWork
    <3>2. LoopUploads(C, T)
      BY <2>2, <2>3, <2>4 DEF LoopUploads
    <3>3. \A f \in Files : S.files[f] = "sending" <=> T[f] # "none"
      BY <2>4, <2>5, <2>6
    <3>4. \A f \in Files : S.files[f] = "queue" <=> f \in C.queue
      BY <2>4, <2>5, <2>6
    <3>5. C.queue \subseteq Files /\ C.pc # "done"
      BY <2>4
    <3>6. Shown(S, C, T)
      BY <3>3, <3>4, <3>5 DEF Shown
    <3> QED
      BY <3>1, <3>2, <3>6 DEF Local
  <2> QED
    BY <2>7, <2>8, LocalSuffices
<1> QED
  BY <1>1, <1>2

\* The session when an upload of f has ended: f is no longer sending.
LEMMA EndedFacts ==
    ASSUME IInv, NEW s \in Sessions, NEW f \in Files, NEW ok \in BOOLEAN
    PROVE  LET S == Ended(s, f, ok)
           IN  /\ S \in Session \cup {NoSession}
               /\ S.status = sessions[s].status
               /\ S.status # "none" =>
                     /\ S.files[f] \in {"finished", "failed"}
                     /\ \A g \in Files : g # f => S.files[g] = sessions[s].files[g]
<1>1. CASE Present(s)
  <2> DEFINE result == IF ok THEN "finished" ELSE "failed"
             S == [sessions[s] EXCEPT !.files[f] = result]
  <2>1. sessions[s] \in Session /\ Ended(s, f, ok) = S
    BY <1>1, Same, NoSessionFacts DEF LocalType, Present, Ended
  <2>2. result \in {"finished", "failed"} /\ result \in FileStatus
    BY DEF FileStatus
  <2> HIDE DEF result
  <2>3. /\ S \in Session /\ S.status = sessions[s].status /\ S.files[f] = result
        /\ \A g \in Files : g # f => S.files[g] = sessions[s].files[g]
    BY <2>1, <2>2 DEF Session
  <2> QED
    BY <2>1, <2>2, <2>3
<1>2. CASE ~Present(s)
  BY <1>2, NoSessionFacts DEF Present, Ended
<1> QED
  BY <1>1, <1>2

\* finish ends a session that is sending and leaves any other one alone.
LEMMA FinishFacts ==
    ASSUME NEW S \in Session \cup {NoSession}
    PROVE  /\ finish(S) \in Session \cup {NoSession}
           /\ finish(S).status # "sending"
           /\ \/ finish(S) = NoSession
              \/ finish(S).files = S.files /\ finish(S).status \in {"finished", "finishedWithErrors"}
                    /\ S.status = "sending"
              \/ finish(S) = S
  BY NoSessionFacts DEF finish, Session, SessionStatus

\* What is known of a session while an upload of f is under way.
LEMMA UploadFacts ==
    ASSUME IInv, NEW s \in Sessions, NEW f \in Files, task[s][f] # "none"
    PROVE  /\ co[s] \in Coroutine /\ task[s] \in [Files -> TaskKind] /\ co[s].queue \subseteq Files
           /\ co[s].pc \in {"looping", "done"}
           /\ task[s][f] = "loop" => co[s].pc = "looping"
           /\ LoopUploads(co[s], task[s])
           /\ sessions[s].status # "none" =>
                 /\ \A g \in Files : sessions[s].files[g] = "sending" <=> task[s][g] # "none"
                 /\ \A g \in co[s].queue : sessions[s].files[g] = "queue"
                 /\ co[s].pc = "looping" /\ sessions[s].status \in Allowed =>
                       \A g \in Files : sessions[s].files[g] = "queue" => g \in co[s].queue
<1>1. Local(sessions[s], co[s], task[s])
  BY DEF IInv
<1>2. co[s] \in Coroutine /\ task[s] \in [Files -> TaskKind]
  BY <1>1 DEF Local, LocalType
<1>3. co[s].pc \in {"looping", "done"} /\ co[s].queue \subseteq Files
  BY <1>1, <1>2 DEF Local, BeforeAnswer, Coroutine
<1>4. LoopUploads(co[s], task[s]) /\ (task[s][f] = "loop" => co[s].pc = "looping")
  BY <1>1 DEF Local, LoopUploads
<1> QED
  BY <1>1, <1>2, <1>3, <1>4 DEF Local, Shown

\* A worker takes g when its upload of f has ended.
LEMMA UploadNextKeepsIInv ==
    ASSUME IInv, NEW s \in Sessions, NEW f \in Files, NEW ok \in BOOLEAN, UploadNext(s, f, ok)
    PROVE  IInv'
<1> DEFINE E == Ended(s, f, ok)
<1>1. /\ task[s][f] = "loop" /\ E.status \in Allowed
      /\ E \in Session \cup {NoSession} /\ E.status = sessions[s].status
      /\ E.status # "none" =>
            /\ E.files[f] \in {"finished", "failed"}
            /\ \A x \in Files : x # f => E.files[x] = sessions[s].files[x]
  BY EndedFacts DEF UploadNext, HasNext
<1>2. PICK g \in co[s].queue :
        /\ sessions' = [sessions EXCEPT ![s] = [E EXCEPT !.files[g] = "sending"]]
        /\ task' = [task EXCEPT ![s][f] = "none", ![s][g] = "loop"]
        /\ co' = [co EXCEPT ![s].queue = @ \ {g}]
  BY DEF UploadNext
<1>3. E.status # "none" /\ E \in Session
  BY <1>1, NoSessionFacts DEF Allowed
<1>4. /\ co[s] \in Coroutine /\ task[s] \in [Files -> TaskKind] /\ co[s].queue \subseteq Files
      /\ co[s].pc = "looping" /\ LoopUploads(co[s], task[s])
      /\ \A x \in Files : sessions[s].files[x] = "sending" <=> task[s][x] # "none"
      /\ \A x \in co[s].queue : sessions[s].files[x] = "queue"
      /\ \A x \in Files : sessions[s].files[x] = "queue" => x \in co[s].queue
  BY <1>1, <1>3, UploadFacts
<1>5. g \in Files /\ g # f /\ task[s][g] = "none" /\ f \notin co[s].queue
  BY <1>1, <1>4 DEF TaskKind
<1> DEFINE S == [E EXCEPT !.files[g] = "sending"]
           C == [co[s] EXCEPT !.queue = @ \ {g}]
           T == [task[s] EXCEPT ![f] = "none", ![g] = "loop"]
<1>6. /\ sessions' = [sessions EXCEPT ![s] = S]
      /\ co' = [co EXCEPT ![s] = C] /\ task' = [task EXCEPT ![s] = T]
  <2>1. task \in [Sessions -> [Files -> TaskKind]]
    BY DEF IInv, TypeOK, TaskKind
  <2>2. task' = [task EXCEPT ![s] = T]
    BY <1>2, <2>1
  <2> QED
    BY <1>2, <2>2
<1> HIDE DEF E
<1>7. /\ S \in Session /\ S.status = E.status /\ S.files[g] = "sending"
      /\ \A x \in Files : x # g => S.files[x] = E.files[x]
  BY <1>3, <1>5 DEF Session, FileStatus
<1>8. C \in Coroutine /\ C.pc = "looping" /\ C.queue = co[s].queue \ {g}
  BY <1>4 DEF Coroutine
<1>9. /\ T \in [Files -> TaskKind] /\ T[f] = "none" /\ T[g] = "loop"
      /\ \A x \in Files : x # f /\ x # g => T[x] = task[s][x]
  BY <1>4, <1>5 DEF TaskKind
<1> HIDE DEF S, C, T
<1>10. LoopUploads(C, T)
  <2> DEFINE old == {x \in Files : task[s][x] = "loop"}
             new == {x \in Files : T[x] = "loop"}
  <2>1. IsFiniteSet(old) /\ Cardinality(old) \in Nat /\ Cardinality(old) <= Concurrency
    BY <1>4, FilesAssumption, FS_Subset, FS_CardinalityType DEF LoopUploads
  <2>2. new = (old \ {f}) \cup {g} /\ f \in old /\ g \notin old \ {f}
    BY <1>1, <1>5, <1>9
  <2> HIDE DEF old, new
  <2>3. IsFiniteSet(old \ {f}) /\ Cardinality(old \ {f}) = Cardinality(old) - 1
    BY <2>1, <2>2, FS_RemoveElement
  <2>4. Cardinality(new) = Cardinality(old \ {f}) + 1
    BY <2>2, <2>3, FS_AddElement
  <2>5. Cardinality(new) <= Concurrency
    BY <2>1, <2>3, <2>4, ConcurrencyAssumption
  <2> QED
    BY <1>5, <1>8, <1>9, <2>5 DEF LoopUploads, new
<1>11. Shown(S, C, T)
  <2>1. \A x \in Files : S.files[x] = "sending" <=> T[x] # "none"
    BY <1>1, <1>3, <1>4, <1>5, <1>7, <1>9
  <2>2. \A x \in C.queue : S.files[x] = "queue"
    BY <1>1, <1>3, <1>4, <1>5, <1>7, <1>8
  <2>3. \A x \in Files : S.files[x] = "queue" => x \in C.queue
    BY <1>1, <1>3, <1>4, <1>5, <1>7, <1>8
  <2> QED
    BY <1>8, <2>1, <2>2, <2>3 DEF Shown
<1>12. HasWork(S, C, T)
  BY <1>1, <1>4, <1>7, <1>8, Same DEF Local, HasWork
<1>13. Local(S, C, T)
  BY <1>7, <1>8, <1>9, <1>10, <1>11, <1>12 DEF Local, LocalType, BeforeAnswer
<1> QED
  BY <1>6, <1>13, LocalSuffices

\* The uploads without that of f: the loop has no more of them than before.
LEMMA OneLess ==
    ASSUME IInv, NEW s \in Sessions, NEW f \in Files, task[s][f] # "none"
    PROVE  LET T == [task[s] EXCEPT ![f] = "none"]
           IN  /\ T \in [Files -> TaskKind] /\ T[f] = "none"
               /\ \A x \in Files : x # f => T[x] = task[s][x]
               /\ Cardinality({x \in Files : T[x] = "loop"}) <= Concurrency
<1> DEFINE T == [task[s] EXCEPT ![f] = "none"]
           old == {x \in Files : task[s][x] = "loop"}
           new == {x \in Files : T[x] = "loop"}
<1>1. task[s] \in [Files -> TaskKind] /\ Cardinality(old) <= Concurrency
  BY UploadFacts DEF LoopUploads
<1>2. /\ T \in [Files -> TaskKind] /\ T[f] = "none"
      /\ \A x \in Files : x # f => T[x] = task[s][x]
  BY <1>1 DEF TaskKind
<1>3. new \subseteq old
  BY <1>2
<1>4. IsFiniteSet(old)
  BY FilesAssumption, FS_Subset
<1> HIDE DEF old, new, T
<1>5. Cardinality(new) <= Cardinality(old) /\ Cardinality(new) \in Nat /\ Cardinality(old) \in Nat
  BY <1>3, <1>4, FS_Subset, FS_CardinalityType
<1>6. Cardinality(new) <= Concurrency
  BY <1>1, <1>5, ConcurrencyAssumption
<1> QED
  BY <1>2, <1>6 DEF new, T

\* A worker finds no other file when its upload of f has ended.
LEMMA UploadLastKeepsIInv ==
    ASSUME IInv, NEW s \in Sessions, NEW f \in Files, NEW ok \in BOOLEAN, UploadLast(s, f, ok)
    PROVE  IInv'
<1> DEFINE E == Ended(s, f, ok)
           last == IsLast(s, f)
           S == IF last THEN finish(E) ELSE E
           C == [pc |-> IF last THEN "done" ELSE "looping", queue |-> {}]
           T == [task[s] EXCEPT ![f] = "none"]
<1>1. /\ task[s][f] = "loop" /\ ~HasNext(s, E)
      /\ sessions' = [sessions EXCEPT ![s] = S]
      /\ co' = [co EXCEPT ![s] = C] /\ task' = [task EXCEPT ![s] = T]
  <2>1. task \in [Sessions -> [Files -> TaskKind]]
    BY DEF IInv, TypeOK, TaskKind
  <2>2. task' = [task EXCEPT ![s] = T]
    BY <2>1 DEF UploadLast
  <2> QED
    BY <2>2 DEF UploadLast
<1>2. /\ E \in Session \cup {NoSession} /\ E.status = sessions[s].status
      /\ E.status # "none" =>
            /\ E.files[f] \in {"finished", "failed"}
            /\ \A x \in Files : x # f => E.files[x] = sessions[s].files[x]
  BY EndedFacts
<1>3. /\ co[s].pc = "looping"
      /\ sessions[s].status # "none" =>
            /\ \A x \in Files : sessions[s].files[x] = "sending" <=> task[s][x] # "none"
            /\ sessions[s].status \in Allowed =>
                  \A x \in Files : sessions[s].files[x] = "queue" => x \in co[s].queue
  BY <1>1, UploadFacts
<1>4. /\ T \in [Files -> TaskKind] /\ T[f] = "none"
      /\ \A x \in Files : x # f => T[x] = task[s][x]
      /\ Cardinality({x \in Files : T[x] = "loop"}) <= Concurrency
  BY <1>1, OneLess
<1>5. C \in Coroutine /\ C.queue = {} /\ C.pc = IF last THEN "done" ELSE "looping"
  BY DEF Coroutine
<1>6. /\ last => \A x \in Files : x # f => task[s][x] # "loop"
      /\ ~last => \E x \in Files : x # f /\ task[s][x] = "loop"
  BY <1>1 DEF IsLast, InLoop
<1>7. /\ S \in Session \cup {NoSession}
      /\ S.status # "none" => S.files = E.files /\ E.status # "none"
      /\ last => S.status # "sending"
      /\ ~last => S = E
      /\ S.status \in Allowed => E.status \in Allowed
  BY <1>2, FinishFacts, NoSessionFacts DEF Allowed
<1>8. E.status \in Allowed => co[s].queue = {}
  BY <1>1 DEF HasNext
<1> HIDE DEF E, S, C, T, last
<1>9. LoopUploads(C, T)
  <2>1. /\ \A x \in Files : T[x] = "loop" => ~last
        /\ ~last => \E x \in Files : T[x] = "loop"
    BY <1>4, <1>6
  <2> QED
    BY <1>4, <1>5, <2>1 DEF LoopUploads
<1>10. Shown(S, C, T)
  <2> SUFFICES ASSUME S.status # "none" PROVE Shown(S, C, T)
    BY DEF Shown
  <2>1. S.files = E.files /\ E.status # "none" /\ sessions[s].status # "none"
    BY <1>2, <1>7
  <2>2. \A x \in Files : S.files[x] = "sending" <=> T[x] # "none"
    BY <1>2, <1>3, <1>4, <2>1
  <2>3. S.status \in Allowed => \A x \in Files : S.files[x] # "queue"
    BY <1>2, <1>3, <1>7, <1>8, <2>1
  <2> QED
    BY <1>5, <2>2, <2>3 DEF Shown
<1>11. Local(S, C, T)
  <2>1. C.pc \in {"looping", "done"}
    BY <1>5
  <2>2. LocalType(S, C, T) /\ BeforeAnswer(S, C, T)
    BY <1>4, <1>5, <1>7, <2>1 DEF LocalType, BeforeAnswer
  <2>3. HasWork(S, C, T)
    <3>1. E.status # "finishedWithErrors"
      BY <1>2, <1>3, Same DEF Local, HasWork
    <3> QED
      BY <1>5, <1>7, <3>1 DEF HasWork
  <2> QED
    BY <1>9, <1>10, <2>2, <2>3 DEF Local
<1> QED
  BY <1>1, <1>11, LocalSuffices

-----------------------------------------------------------------------------
(* Retries. *)

LEMMA RetryKeepsIInv ==
    ASSUME IInv, NEW s \in Sessions, NEW f \in Files, Retry(s, f)
    PROVE  IInv'
<1> DEFINE S == [sessions[s] EXCEPT !.status = "sending", !.files[f] = "sending"]
           T == [task[s] EXCEPT ![f] = "retry"]
<1>1. /\ sessions[s].status \in Allowed /\ sessions[s].files[f] = "failed"
      /\ sessions' = [sessions EXCEPT ![s] = S]
      /\ co' = [co EXCEPT ![s] = co[s]] /\ task' = [task EXCEPT ![s] = T]
  <2>1. /\ sessions \in [Sessions -> Session \cup {NoSession}]
        /\ task \in [Sessions -> [Files -> TaskKind]]
    BY DEF IInv, TypeOK, TaskKind
  <2>2. sessions' = [sessions EXCEPT ![s] = S] /\ task' = [task EXCEPT ![s] = T]
    BY <2>1 DEF Retry
  <2> QED
    BY <2>2, Same DEF Retry
<1>2. /\ sessions[s] \in Session /\ sessions[s].status # "none"
      /\ task[s] \in [Files -> TaskKind] /\ co[s] \in Coroutine
  BY <1>1, Same, NoSessionFacts DEF LocalType, Allowed
<1>3. /\ S \in Session /\ S.status = "sending" /\ S.files[f] = "sending"
      /\ \A x \in Files : x # f => S.files[x] = sessions[s].files[x]
  BY <1>2 DEF Session, SessionStatus, FileStatus
<1>4. /\ T \in [Files -> TaskKind] /\ T[f] = "retry"
      /\ \A x \in Files : x # f => T[x] = task[s][x]
  BY <1>2 DEF TaskKind
<1>5. /\ BeforeAnswer(sessions[s], co[s], task[s]) /\ LoopUploads(co[s], task[s])
      /\ Shown(sessions[s], co[s], task[s])
  BY Same DEF Local
<1>6. co[s].pc \in {"looping", "done"}
  BY <1>1, <1>2, <1>5, NoSessionFacts DEF BeforeAnswer, Coroutine, Allowed
<1>7. /\ \A x \in Files : sessions[s].files[x] = "sending" <=> task[s][x] # "none"
      /\ \A x \in co[s].queue : sessions[s].files[x] = "queue"
      /\ co[s].pc = "looping" =>
             \A x \in Files : sessions[s].files[x] = "queue" => x \in co[s].queue
      /\ co[s].pc = "done" => \A x \in Files : sessions[s].files[x] # "queue"
  BY <1>1, <1>2, <1>5 DEF Shown
<1> HIDE DEF S, T
<1>8. LoopUploads(co[s], T)
  <2>1. {x \in Files : T[x] = "loop"} = {x \in Files : task[s][x] = "loop"}
    <3>1. task[s][f] = "none"
      BY <1>1, <1>7
    <3> QED
      BY <1>4, <3>1
  <2>2. \A x \in Files : T[x] = "loop" <=> task[s][x] = "loop"
    BY <2>1
  <2> QED
    BY <1>5, <2>1, <2>2 DEF LoopUploads
<1>9. Shown(S, co[s], T)
  <2>1. \A x \in Files : S.files[x] = "sending" <=> T[x] # "none"
    BY <1>3, <1>4, <1>7
  <2>2. \A x \in co[s].queue : S.files[x] = "queue"
    BY <1>1, <1>2, <1>3, <1>7 DEF Coroutine
  <2>3. /\ co[s].pc = "looping" => \A x \in Files : S.files[x] = "queue" => x \in co[s].queue
        /\ co[s].pc = "done" => \A x \in Files : S.files[x] # "queue"
    BY <1>3, <1>7
  <2> QED
    BY <2>1, <2>2, <2>3 DEF Shown
<1>10. Local(S, co[s], T)
  BY <1>2, <1>3, <1>4, <1>6, <1>8, <1>9 DEF Local, LocalType, BeforeAnswer, HasWork
<1> QED
  BY <1>1, <1>10, LocalSuffices

\* A session that goes on after a retry has another file under way or queued.
LEMMA RetryEndedKeepsIInv ==
    ASSUME IInv, NEW s \in Sessions, NEW f \in Files, NEW ok \in BOOLEAN, RetryEnded(s, f, ok)
    PROVE  IInv'
<1> DEFINE E == Ended(s, f, ok)
           over == isFinishedOrError(E)
           S == IF over THEN finish(E) ELSE E
           T == [task[s] EXCEPT ![f] = "none"]
<1>1. /\ task[s][f] = "retry"
      /\ sessions' = [sessions EXCEPT ![s] = S]
      /\ co' = [co EXCEPT ![s] = co[s]] /\ task' = [task EXCEPT ![s] = T]
  <2>1. task \in [Sessions -> [Files -> TaskKind]]
    BY DEF IInv, TypeOK, TaskKind
  <2>2. task' = [task EXCEPT ![s] = T]
    BY <2>1 DEF RetryEnded
  <2> QED
    BY <2>2, Same DEF RetryEnded
<1>2. /\ E \in Session \cup {NoSession} /\ E.status = sessions[s].status
      /\ E.status # "none" =>
            /\ E.files[f] \in {"finished", "failed"}
            /\ \A x \in Files : x # f => E.files[x] = sessions[s].files[x]
  BY EndedFacts
<1>3. /\ co[s] \in Coroutine /\ co[s].queue \subseteq Files /\ co[s].pc \in {"looping", "done"}
      /\ LoopUploads(co[s], task[s]) /\ Shown(sessions[s], co[s], task[s])
  BY <1>1, UploadFacts, Same DEF Local
<1>4. /\ T \in [Files -> TaskKind] /\ T[f] = "none"
      /\ \A x \in Files : x # f => T[x] = task[s][x]
      /\ Cardinality({x \in Files : T[x] = "loop"}) <= Concurrency
  BY <1>1, OneLess
<1>5. /\ S \in Session \cup {NoSession}
      /\ S.status # "none" => S.files = E.files /\ E.status # "none"
      /\ S.status \in Allowed => E.status \in Allowed
      /\ S.status = "sending" => ~over /\ E.status = "sending" /\ E.files = S.files
      /\ ~over => S = E
  BY <1>2, FinishFacts, NoSessionFacts DEF Allowed
<1>6. /\ ~over => \E x \in Files : E.files[x] \in {"queue", "sending"}
      /\ over => \A x \in Files : E.files[x] # "sending"
  BY <1>2, SessionFacts DEF isFinishedOrError, FileStatus
<1> HIDE DEF E, S, T, over
<1>7. LoopUploads(co[s], T)
  <2>1. \A x \in Files : T[x] = "loop" <=> task[s][x] = "loop"
    BY <1>1, <1>4
  <2> QED
    BY <1>3, <1>4, <2>1 DEF LoopUploads
\* The file that was sent is not queued, so the session did send.
<1>8. sessions[s].status # "none" =>
         /\ \A x \in Files : sessions[s].files[x] = "sending" <=> task[s][x] # "none"
         /\ \A x \in co[s].queue : sessions[s].files[x] = "queue"
         /\ co[s].pc = "looping" /\ sessions[s].status \in Allowed =>
               \A x \in Files : sessions[s].files[x] = "queue" => x \in co[s].queue
         /\ co[s].pc = "done" /\ sessions[s].status \in Allowed =>
               \A x \in Files : sessions[s].files[x] # "queue"
  BY <1>1, <1>3 DEF Shown
<1>9. Shown(S, co[s], T)
  <2> SUFFICES ASSUME S.status # "none" PROVE Shown(S, co[s], T)
    BY DEF Shown
  <2>1. S.files = E.files /\ E.status # "none" /\ sessions[s].status # "none"
    BY <1>2, <1>5
  <2>2. \A x \in Files : S.files[x] = "sending" <=> T[x] # "none"
    BY <1>2, <1>4, <1>8, <2>1
  <2>3. f \notin co[s].queue
    BY <1>1, <1>8, <2>1
  <2>4. \A x \in co[s].queue : S.files[x] = "queue"
    BY <1>2, <1>3, <1>8, <2>1, <2>3
  <2>5. S.status \in Allowed =>
          /\ co[s].pc = "looping" => \A x \in Files : S.files[x] = "queue" => x \in co[s].queue
          /\ co[s].pc = "done" => \A x \in Files : S.files[x] # "queue"
    BY <1>2, <1>5, <1>8, <2>1
  <2> QED
    BY <2>2, <2>4, <2>5 DEF Shown
<1>10. HasWork(S, co[s], T)
  <2>1. S.status # "none" =>
          \A x \in Files : S.files[x] = "sending" <=> T[x] # "none"
    BY <1>9 DEF Shown
  <2>2. ASSUME S.status = "sending", co[s].pc = "done"
        PROVE  \E x \in Files : T[x] = "retry"
    <3>1. \A x \in Files : E.files[x] # "queue"
      BY <1>2, <1>5, <1>8, <2>2 DEF Allowed
    <3>2. PICK x \in Files : T[x] # "none"
      BY <1>5, <1>6, <2>1, <2>2, <3>1
    <3>3. T[x] # "loop"
      BY <1>7, <2>2 DEF LoopUploads
    <3> QED
      BY <1>4, <3>2, <3>3 DEF TaskKind
  <2>3. ASSUME S.status = "finishedWithErrors", co[s].pc = "looping"
        PROVE  FALSE
    <3>1. PICK x \in Files : T[x] = "loop"
      BY <1>7, <2>3 DEF LoopUploads
    <3>2. ~over
      BY <1>5, <1>6, <2>1, <2>3, <3>1
    <3>3. sessions[s].status = "finishedWithErrors"
      BY <1>2, <1>5, <2>3, <3>2
    <3> QED
      BY <2>3, <3>3, Same DEF Local, HasWork
  <2> QED
    BY <1>3, <2>2, <2>3 DEF HasWork
<1>11. Local(S, co[s], T)
  BY <1>3, <1>4, <1>5, <1>7, <1>9, <1>10 DEF Local, LocalType, BeforeAnswer
<1> QED
  BY <1>1, <1>11, LocalSuffices

-----------------------------------------------------------------------------
(* The user and the receiver. *)

\* cancelSession and closeSession.
LEMMA GoneKeepsIInv ==
    ASSUME IInv, NEW s \in Sessions, sessions' = [sessions EXCEPT ![s] = NoSession],
           UNCHANGED <<co, task>>
    PROVE  IInv'
<1>1. Local(NoSession, co[s], task[s])
  BY Same, GoneIsLocal
<1>2. co' = [co EXCEPT ![s] = co[s]] /\ task' = [task EXCEPT ![s] = task[s]]
  BY Same
<1> QED
  BY <1>1, <1>2, LocalSuffices

LEMMA ClearKeepsIInv ==
    ASSUME IInv, clearAllSessions
    PROVE  IInv'
<1>1. sessions' = [s \in Sessions |-> NoSession] /\ co' = co /\ task' = task
  BY DEF clearAllSessions
<1>2. TypeOK'
  BY <1>1 DEF IInv, TypeOK
<1>3. \A s \in Sessions : Local(sessions'[s], co'[s], task'[s])
  BY <1>1, GoneIsLocal DEF IInv
<1> QED
  BY <1>2, <1>3 DEF IInv

LEMMA SetBackgroundKeepsIInv ==
    ASSUME IInv, NEW s \in Sessions, NEW background \in BOOLEAN, setBackground(s, background)
    PROVE  IInv'
<1> DEFINE S == [sessions[s] EXCEPT !.background = background]
<1>1. /\ sessions' = [sessions EXCEPT ![s] = S]
      /\ co' = [co EXCEPT ![s] = co[s]] /\ task' = [task EXCEPT ![s] = task[s]]
  BY Same DEF setBackground
<1>2. sessions[s] \in Session
  BY Same, NoSessionFacts DEF setBackground, Present, Allowed, LocalType
<1>3. S \in Session /\ S.status = sessions[s].status /\ S.files = sessions[s].files
      /\ S.status # "none"
  BY <1>2 DEF Session, SessionStatus
<1>4. co[s].pc # "free"
  BY <1>2, <1>3, Same, NoSessionFacts DEF Local, BeforeAnswer
<1> HIDE DEF S
<1>5. Local(S, co[s], task[s])
  BY <1>3, <1>4, Same DEF Local, LocalType, BeforeAnswer, LoopUploads, Shown, HasWork
<1> QED
  BY <1>1, <1>5, LocalSuffices

LEMMA CancelRequestKeepsIInv ==
    ASSUME IInv, NEW s \in Sessions, NEW t, NEW v2, NEW id, CancelRequest(t, v2, id, s)
    PROVE  IInv'
<1> DEFINE S == [sessions[s] EXCEPT !.status = "canceledByReceiver"]
<1>1. /\ sessions' = [sessions EXCEPT ![s] = S]
      /\ co' = [co EXCEPT ![s] = co[s]] /\ task' = [task EXCEPT ![s] = task[s]]
      /\ sessions[s].status = "sending"
  BY Same DEF CancelRequest
<1>2. sessions[s] \in Session
  BY <1>1, Same, NoSessionFacts DEF LocalType
<1>3. /\ S \in Session /\ S.status = "canceledByReceiver" /\ S.files = sessions[s].files
  BY <1>2 DEF Session, SessionStatus
<1>4. co[s].pc \notin {"free", "posting", "pinDialog"}
  BY <1>1, Same DEF Local, BeforeAnswer
<1> HIDE DEF S
<1>5. Shown(S, co[s], task[s])
  BY <1>1, <1>3, Same DEF Local, Shown, Allowed
<1>6. Local(S, co[s], task[s])
  BY <1>3, <1>4, <1>5, Same DEF Local, LocalType, BeforeAnswer, HasWork
<1> QED
  BY <1>1, <1>6, LocalSuffices

-----------------------------------------------------------------------------
(* The invariant. *)

LEMMA UserKeepsIInv ==
    ASSUME IInv, NEW s \in Sessions, User(s)
    PROVE  IInv'
<1>1. ASSUME NEW t \in Targets, NEW background \in BOOLEAN, startSession(s, t, background)
      PROVE  IInv'
  BY <1>1, StartKeepsIInv
<1>2. CASE PinEntered(s)
  BY <1>2, BeforeAnswerStep DEF PinEntered
<1>3. CASE PinCanceled(s)
  <2>1. "canceledBySender" \in SessionStatus \ {"sending", "waiting"}
    BY DEF SessionStatus
  <2> QED
    BY <1>3, <2>1, EndedEarly DEF PinCanceled
<1>4. ASSUME NEW f \in Files, Retry(s, f) PROVE IInv'
  BY <1>4, RetryKeepsIInv
<1>5. CASE cancelSession(s) \/ closeSession(s)
  BY <1>5, GoneKeepsIInv DEF cancelSession, closeSession
<1>6. ASSUME NEW background \in BOOLEAN, setBackground(s, background) PROVE IInv'
  BY <1>6, SetBackgroundKeepsIInv
<1> QED
  BY <1>1, <1>2, <1>3, <1>4, <1>5, <1>6 DEF User

LEMMA AnswerKeepsIInv ==
    ASSUME IInv, NEW s \in Sessions, Answer(s)
    PROVE  IInv'
<1>1. CASE PinRequired(s)
  BY <1>1, BeforeAnswerStep DEF PinRequired
<1>2. ASSUME NEW status \in SessionStatus, Rejected(s, status) PROVE IInv'
  <2>1. status \in SessionStatus \ {"sending", "waiting"}
    BY <1>2 DEF Rejected
  <2> QED
    BY <1>2, <2>1, EndedEarly DEF Rejected
<1>3. CASE AcceptedNothing(s)
  BY <1>3, AcceptedNothingKeepsIInv
<1>4. ASSUME NEW selected \in SUBSET Files, Accepted(s, selected) PROVE IInv'
  BY <1>4, AcceptedKeepsIInv
<1>5. CASE Unreadable(s)
  BY <1>5, UnreadableKeepsIInv
<1> QED
  BY <1>1, <1>2, <1>3, <1>4, <1>5 DEF Answer

LEMMA IInvInductive == IInv /\ [Next]_vars => IInv'
<1> SUFFICES ASSUME IInv, [Next]_vars PROVE IInv'
  OBVIOUS
<1>1. ASSUME NEW s \in Sessions, User(s) PROVE IInv'
  BY <1>1, UserKeepsIInv
<1>2. ASSUME NEW s \in Sessions, Answer(s) PROVE IInv'
  BY <1>2, AnswerKeepsIInv
<1>3. ASSUME NEW s \in Sessions, NEW f \in Files, NEW ok \in BOOLEAN, UploadEnds(s, f, ok)
      PROVE  IInv'
  BY <1>3, UploadNextKeepsIInv, UploadLastKeepsIInv, RetryEndedKeepsIInv DEF UploadEnds
<1>4. ASSUME NEW s \in Sessions, NEW t, NEW v2, NEW id, CancelRequest(t, v2, id, s)
      PROVE  IInv'
  BY <1>4, CancelRequestKeepsIInv
<1>5. CASE clearAllSessions
  BY <1>5, ClearKeepsIInv
<1>6. CASE UNCHANGED vars
  BY <1>6 DEF vars, IInv, TypeOK, Local
<1> QED
  BY <1>1, <1>2, <1>3, <1>4, <1>5, <1>6 DEF Next

LEMMA IInvAlways == Spec => []IInv
  BY InitIInv, IInvInductive, PTL DEF Spec

-----------------------------------------------------------------------------
(* What a step does to a session that has ended. *)

\* The statuses no upload and no retry leaves.
EndStatus ==
    {"recipientBusy", "declined", "tooManyAttempts", "finished", "canceledBySender",
     "canceledByReceiver"}

StaysEnded(s) ==
    /\ sessions[s].status \in EndStatus => sessions'[s].status \in {sessions[s].status, "none"}
    /\ co[s].pc # "free" /\ ~Present(s) => sessions'[s] = NoSession

\* An upload that starts finds, or makes, its session sending.
StartsSending(s) ==
    \A f \in Files :
       task[s][f] = "none" /\ task'[s][f] # "none" => sessions'[s].status = "sending"

EndSteps == \A s \in Sessions : StaysEnded(s) /\ StartsSending(s)

\* The session S with its uploads T becomes S2 with T2; began is whether its
\* coroutine did.
EndKept(began, S, T, S2, T2) ==
    /\ S.status \in EndStatus => S2.status = S.status \/ S2.status = "none"
    /\ began /\ S.status = "none" => S2 = NoSession
    /\ \A f \in Files : T[f] = "none" /\ T2[f] # "none" => S2.status = "sending"

\* A step that changes one session and its uploads.
LEMMA EndStepsSuffices ==
    ASSUME IInv, NEW s \in Sessions, NEW S, NEW T,
           sessions' = [sessions EXCEPT ![s] = S], task' = [task EXCEPT ![s] = T],
           EndKept(co[s].pc # "free", sessions[s], task[s], S, T)
    PROVE  EndSteps
<1>1. /\ sessions'[s] = S /\ task'[s] = T
      /\ \A x \in Sessions \ {s} : sessions'[x] = sessions[x] /\ task'[x] = task[x]
  BY DEF IInv, TypeOK
<1>2. StaysEnded(s) /\ StartsSending(s)
  BY <1>1 DEF StaysEnded, StartsSending, EndKept, Present
<1>3. ASSUME NEW x \in Sessions \ {s} PROVE StaysEnded(x) /\ StartsSending(x)
  <2>1. ~Present(x) => sessions[x] = NoSession
    BY Same, SessionFacts DEF LocalType, Present
  <2> QED
    BY <1>1, <2>1 DEF StaysEnded, StartsSending
<1> QED
  BY <1>2, <1>3 DEF EndSteps

\* A session that waits has not ended, and one that is gone is NoSession.
LEMMA EndFacts ==
    ASSUME IInv, NEW s \in Sessions
    PROVE  /\ co[s].pc \in {"free", "posting", "pinDialog"} => sessions[s].status \notin EndStatus
           /\ ~Present(s) => sessions[s] = NoSession
           /\ task[s] \in [Files -> TaskKind]
  BY Same, SessionFacts DEF Local, LocalType, BeforeAnswer, EndStatus, Present

LEMMA UserEndSteps ==
    ASSUME IInv, NEW s \in Sessions, User(s)
    PROVE  EndSteps
<1>1. ASSUME NEW t \in Targets, NEW background \in BOOLEAN, startSession(s, t, background)
      PROVE  EndSteps
  <2>1. /\ co[s].pc = "free" /\ task' = [task EXCEPT ![s] = task[s]]
        /\ sessions' = [sessions EXCEPT ![s] =
             [NoSession EXCEPT !.status = "waiting", !.target = t, !.background = background]]
    BY <1>1, Same DEF startSession
  <2>2. EndKept(co[s].pc # "free", sessions[s], task[s],
              [NoSession EXCEPT !.status = "waiting", !.target = t, !.background = background], task[s])
    BY <2>1, EndFacts DEF EndKept, Present
  <2> QED
    BY <2>1, <2>2, EndStepsSuffices
<1>2. CASE PinEntered(s)
  <2>1. /\ sessions' = [sessions EXCEPT ![s] = sessions[s]]
        /\ task' = [task EXCEPT ![s] = task[s]]
    BY <1>2, Same DEF PinEntered
  <2>2. EndKept(co[s].pc # "free", sessions[s], task[s], sessions[s], task[s])
    BY <2>1, EndFacts DEF EndKept, Present
  <2> QED
    BY <2>1, <2>2, EndStepsSuffices
<1>3. CASE PinCanceled(s)
  <2> DEFINE S == IF Present(s) THEN [sessions[s] EXCEPT !.status = "canceledBySender"]
                                ELSE NoSession
  <2>1. /\ co[s].pc = "pinDialog" /\ sessions' = [sessions EXCEPT ![s] = S]
        /\ task' = [task EXCEPT ![s] = task[s]]
    BY <1>3, Same, EndFacts DEF PinCanceled, updateSession
  <2>2. ~Present(s) => S = NoSession
    OBVIOUS
  <2> HIDE DEF S
  <2>3. EndKept(co[s].pc # "free", sessions[s], task[s], S, task[s])
    BY <2>1, <2>2, EndFacts DEF EndKept, Present
  <2> QED
    BY <2>1, <2>3, EndStepsSuffices
<1>4. ASSUME NEW f \in Files, Retry(s, f) PROVE EndSteps
  <2> DEFINE S == [sessions[s] EXCEPT !.status = "sending", !.files[f] = "sending"]
             T == [task[s] EXCEPT ![f] = "retry"]
  <2>1. /\ sessions \in [Sessions -> Session \cup {NoSession}]
        /\ task \in [Sessions -> [Files -> TaskKind]]
    BY DEF IInv, TypeOK, TaskKind
  <2>2. sessions' = [sessions EXCEPT ![s] = S] /\ task' = [task EXCEPT ![s] = T]
    BY <1>4, <2>1 DEF Retry
  <2>3. sessions[s].status \in Allowed /\ Present(s) /\ sessions[s].status \notin EndStatus
    BY <1>4 DEF Retry, Present, Allowed, EndStatus
  <2>4. sessions[s] \in Session
    BY <2>1, <2>3, NoSessionFacts DEF Present
  <2>5. S.status = "sending"
    BY <2>4 DEF Session
  <2> HIDE DEF S, T
  <2>6. EndKept(co[s].pc # "free", sessions[s], task[s], S, T)
    BY <2>2, <2>3, <2>5, EndFacts DEF EndKept, Present
  <2> QED
    BY <2>2, <2>6, EndStepsSuffices
<1>5. CASE cancelSession(s) \/ closeSession(s)
  <2>1. sessions' = [sessions EXCEPT ![s] = NoSession] /\ task' = [task EXCEPT ![s] = task[s]]
    BY <1>5, Same DEF cancelSession, closeSession
  <2>2. EndKept(co[s].pc # "free", sessions[s], task[s], NoSession, task[s])
    BY <2>1, NoSessionFacts, EndFacts DEF EndKept, Present
  <2> QED
    BY <2>1, <2>2, EndStepsSuffices
<1>6. ASSUME NEW background \in BOOLEAN, setBackground(s, background) PROVE EndSteps
  <2> DEFINE S == [sessions[s] EXCEPT !.background = background]
  <2>1. /\ sessions' = [sessions EXCEPT ![s] = S] /\ task' = [task EXCEPT ![s] = task[s]]
        /\ Present(s)
    BY <1>6, Same DEF setBackground, Present, Allowed
  <2>2. S.status = sessions[s].status
    <3>1. sessions[s] \in Session
      BY <2>1, Same, NoSessionFacts DEF LocalType, Present
    <3> QED
      BY <3>1 DEF Session
  <2> HIDE DEF S
  <2>3. EndKept(co[s].pc # "free", sessions[s], task[s], S, task[s])
    BY <2>1, <2>2, EndFacts DEF EndKept, Present
  <2> QED
    BY <2>1, <2>3, EndStepsSuffices
<1> QED
  BY <1>1, <1>2, <1>3, <1>4, <1>5, <1>6 DEF User

LEMMA AnswerEndSteps ==
    ASSUME IInv, NEW s \in Sessions, Answer(s)
    PROVE  EndSteps
<1>1. co[s].pc = "posting"
  BY DEF Answer, PinRequired, Rejected, AcceptedNothing, Unreadable, Accepted
<1>2. CASE PinRequired(s) \/ Unreadable(s)
  <2>1. /\ sessions' = [sessions EXCEPT ![s] = sessions[s]]
        /\ task' = [task EXCEPT ![s] = task[s]]
    BY <1>2, Same DEF PinRequired, Unreadable
  <2>2. EndKept(co[s].pc # "free", sessions[s], task[s], sessions[s], task[s])
    BY <2>1, EndFacts DEF EndKept, Present
  <2> QED
    BY <2>1, <2>2, EndStepsSuffices
<1>3. ASSUME NEW status \in SessionStatus, Rejected(s, status) PROVE EndSteps
  <2> DEFINE S == IF Present(s) THEN [sessions[s] EXCEPT !.status = status] ELSE NoSession
  <2>1. sessions' = [sessions EXCEPT ![s] = S] /\ task' = [task EXCEPT ![s] = task[s]]
    BY <1>3, Same, EndFacts DEF Rejected, updateSession
  <2>2. ~Present(s) => S = NoSession
    OBVIOUS
  <2> HIDE DEF S
  <2>3. EndKept(co[s].pc # "free", sessions[s], task[s], S, task[s])
    BY <1>1, <2>1, <2>2, EndFacts DEF EndKept, Present
  <2> QED
    BY <2>1, <2>3, EndStepsSuffices
<1>4. CASE AcceptedNothing(s)
  <2>1. sessions' = [sessions EXCEPT ![s] = NoSession] /\ task' = [task EXCEPT ![s] = task[s]]
    BY <1>4, Same DEF AcceptedNothing
  <2>2. EndKept(co[s].pc # "free", sessions[s], task[s], NoSession, task[s])
    BY <2>1, NoSessionFacts, EndFacts DEF EndKept, Present
  <2> QED
    BY <2>1, <2>2, EndStepsSuffices
<1>5. ASSUME NEW selected \in SUBSET Files, Accepted(s, selected) PROVE EndSteps
  <2>1. CASE ~Present(s)
    <3>1. /\ sessions' = [sessions EXCEPT ![s] = sessions[s]]
          /\ task' = [task EXCEPT ![s] = task[s]]
      BY <1>5, <2>1, Same DEF Accepted
    <3>2. EndKept(co[s].pc # "free", sessions[s], task[s], sessions[s], task[s])
      BY <3>1, EndFacts DEF EndKept, Present
    <3> QED
      BY <3>1, <3>2, EndStepsSuffices
  <2>2. CASE Present(s)
    <3>1. PICK F \in FirstFiles(selected) :
            /\ sessions' = [sessions EXCEPT ![s] =
                 [@ EXCEPT !.status = "sending", !.tokens = selected,
                           !.remote = sessions[s].target \notin V1Targets,
                           !.files = [f \in Files |->
                                        IF f \in F THEN "sending"
                                        ELSE IF f \in selected THEN "queue"
                                        ELSE "skipped"]]]
            /\ task' = [task EXCEPT ![s] = [f \in Files |-> IF f \in F THEN "loop" ELSE "none"]]
      BY <1>5, <2>2 DEF Accepted
    <3> DEFINE files == [f \in Files |-> IF f \in F THEN "sending"
                                        ELSE IF f \in selected THEN "queue" ELSE "skipped"]
               remote == sessions[s].target \notin V1Targets
               S == [sessions[s] EXCEPT !.status = "sending", !.tokens = selected,
                                        !.remote = remote, !.files = files]
               T == [f \in Files |-> IF f \in F THEN "loop" ELSE "none"]
    <3>2. sessions' = [sessions EXCEPT ![s] = S] /\ task' = [task EXCEPT ![s] = T]
      BY <3>1, Same
    <3>3. sessions[s] \in Session
      BY <2>2, Same, NoSessionFacts DEF LocalType, Present
    <3> HIDE DEF files, remote, T
    <3>4. S.status = "sending"
      BY <3>3 DEF Session
    <3> HIDE DEF S
    <3>5. EndKept(co[s].pc # "free", sessions[s], task[s], S, T)
      BY <1>1, <2>2, <3>2, <3>4, EndFacts DEF EndKept, Present
    <3> QED
      BY <3>2, <3>5, EndStepsSuffices
  <2> QED
    BY <2>1, <2>2
<1> QED
  BY <1>2, <1>3, <1>4, <1>5 DEF Answer

LEMMA UploadEndSteps ==
    ASSUME IInv, NEW s \in Sessions, NEW f \in Files, NEW ok \in BOOLEAN, UploadEnds(s, f, ok)
    PROVE  EndSteps
<1> DEFINE E == Ended(s, f, ok)
           T == [task[s] EXCEPT ![f] = "none"]
<1>1. /\ E \in Session \cup {NoSession} /\ E.status = sessions[s].status
      /\ ~Present(s) => E = NoSession
  BY EndedFacts DEF Ended
<1>2. task[s] \in [Files -> TaskKind] /\ task \in [Sessions -> [Files -> TaskKind]]
  BY EndFacts DEF IInv, TypeOK, TaskKind
<1>3. \A x \in Files : T[x] # "none" => task[s][x] # "none"
  BY <1>2
<1>4. /\ finish(E).status \in {E.status, "none", "finished", "finishedWithErrors"}
      /\ E.status \in EndStatus => finish(E) = E
      /\ E = NoSession => finish(E) = NoSession
  BY <1>1, FinishFacts, NoSessionFacts DEF EndStatus, finish
<1>5. CASE UploadNext(s, f, ok)
  <2>1. PICK g \in co[s].queue :
          /\ sessions' = [sessions EXCEPT ![s] = [E EXCEPT !.files[g] = "sending"]]
          /\ task' = [task EXCEPT ![s][f] = "none", ![s][g] = "loop"]
    BY <1>5 DEF UploadNext
  <2> DEFINE S == [E EXCEPT !.files[g] = "sending"]
             T2 == [T EXCEPT ![g] = "loop"]
  <2>2. sessions' = [sessions EXCEPT ![s] = S] /\ task' = [task EXCEPT ![s] = T2]
    BY <1>2, <2>1
  <2>3. E.status \in Allowed /\ task[s][f] = "loop"
    BY <1>5 DEF UploadNext, HasNext
  <2>4. co[s].pc = "looping"
    BY <2>3, UploadFacts
  <2>5. E.status = "sending"
    BY <1>1, <2>3, <2>4, Same DEF Local, HasWork, Allowed
  <2>6. E \in Session
    BY <1>1, <2>5, NoSessionFacts
  <2> HIDE DEF E
  <2>7. S.status = "sending"
    BY <2>5, <2>6 DEF Session
  <2>8. Present(s) /\ sessions[s].status \notin EndStatus
    BY <1>1, <2>5 DEF Present, EndStatus
  <2> HIDE DEF S, T2
  <2>9. EndKept(co[s].pc # "free", sessions[s], task[s], S, T2)
    BY <2>2, <2>7, <2>8, EndFacts DEF EndKept, Present
  <2> QED
    BY <2>2, <2>9, EndStepsSuffices
<1>6. CASE UploadLast(s, f, ok)
  <2> DEFINE S == IF IsLast(s, f) THEN finish(E) ELSE E
  <2>1. sessions' = [sessions EXCEPT ![s] = S] /\ task' = [task EXCEPT ![s] = T]
    BY <1>2, <1>6 DEF UploadLast
  <2>2. /\ sessions[s].status \in EndStatus => S.status = sessions[s].status
        /\ ~Present(s) => S = NoSession
    BY <1>1, <1>4
  <2> HIDE DEF S, T
  <2>3. EndKept(co[s].pc # "free", sessions[s], task[s], S, T)
    BY <1>3, <2>1, <2>2, EndFacts DEF EndKept, Present
  <2> QED
    BY <2>1, <2>3, EndStepsSuffices
<1>7. CASE RetryEnded(s, f, ok)
  <2> DEFINE S == IF isFinishedOrError(E) THEN finish(E) ELSE E
  <2>1. sessions' = [sessions EXCEPT ![s] = S] /\ task' = [task EXCEPT ![s] = T]
    BY <1>2, <1>7 DEF RetryEnded
  <2>2. /\ sessions[s].status \in EndStatus => S.status = sessions[s].status
        /\ ~Present(s) => S = NoSession
    BY <1>1, <1>4
  <2> HIDE DEF S, T
  <2>3. EndKept(co[s].pc # "free", sessions[s], task[s], S, T)
    BY <1>3, <2>1, <2>2, EndFacts DEF EndKept, Present
  <2> QED
    BY <2>1, <2>3, EndStepsSuffices
<1> QED
  BY <1>5, <1>6, <1>7 DEF UploadEnds

LEMMA CancelRequestEndSteps ==
    ASSUME IInv, NEW s \in Sessions, NEW t, NEW v2, NEW id, CancelRequest(t, v2, id, s)
    PROVE  EndSteps
<1> DEFINE S == [sessions[s] EXCEPT !.status = "canceledByReceiver"]
<1>1. /\ sessions' = [sessions EXCEPT ![s] = S] /\ task' = [task EXCEPT ![s] = task[s]]
      /\ Present(s) /\ sessions[s].status = "sending"
  BY Same DEF CancelRequest
<1> HIDE DEF S
<1>2. EndKept(co[s].pc # "free", sessions[s], task[s], S, task[s])
  BY <1>1, EndFacts DEF EndKept, Present, EndStatus
<1> QED
  BY <1>1, <1>2, EndStepsSuffices

LEMMA IInvEndSteps == IInv /\ [Next]_vars => EndSteps
<1> SUFFICES ASSUME IInv, [Next]_vars PROVE EndSteps
  OBVIOUS
<1>1. CASE clearAllSessions
  BY <1>1, NoSessionFacts DEF clearAllSessions, EndSteps, StaysEnded, StartsSending
<1>2. CASE UNCHANGED vars
  BY <1>2, EndFacts DEF vars, EndSteps, StaysEnded, StartsSending, Present
<1> QED
  BY <1>1, <1>2, UserEndSteps, AnswerEndSteps, UploadEndSteps, CancelRequestEndSteps DEF Next

-----------------------------------------------------------------------------
(* The theorems. *)

\* The provider's state is well typed: no update of a session that is gone and
\* no upload that ends late leaves half a session behind.
THEOREM SendTypeCorrect == Spec => []TypeOK
<1>1. IInv => TypeOK
  BY DEF IInv
<1> QED
  BY <1>1, IInvAlways, PTL

\* Whatever mix of send loop, retries and closed sessions: a file is shown as
\* sending exactly while it is uploaded, and there are no more uploads than isolates.
THEOREM InFlightCorrect == Spec => []InFlightIffSending
<1>1. IInv => InFlightIffSending
  BY DEF IInv, InFlightIffSending, Local, LoopUploads, Shown, InLoop, Present
<1> QED
  BY <1>1, IInvAlways, PTL

\* A session that shows a running transfer has a loop or a retry that will end it.
THEOREM SendingWorks == Spec => []SendingHasWork
<1>1. IInv => SendingHasWork
  BY DEF IInv, SendingHasWork, Local, HasWork
<1> QED
  BY <1>1, IInvAlways, PTL

\* An ended session keeps its status until it is closed, and one that was closed
\* does not come back when a late answer or the end of an upload arrives.
THEOREM EndedStaysEnded == Spec => EndIsFinal
<1>1. IInv /\ [Next]_vars => [\A s \in Sessions :
         /\ sessions[s].status \in {"recipientBusy", "declined", "tooManyAttempts", "finished",
                                   "canceledBySender", "canceledByReceiver"}
              => sessions'[s].status \in {sessions[s].status, "none"}
         /\ co[s].pc # "free" /\ ~Present(s) => sessions'[s] = NoSession]_vars
  BY IInvEndSteps DEF EndSteps, StaysEnded, EndStatus
<1> QED
  BY <1>1, IInvAlways, PTL DEF Spec, EndIsFinal

\* The loop of a session that was canceled, closed or cleared starts no further
\* upload, and neither does a retry: an upload starts only in a session that is
\* sending.
THEOREM NoLateUpload == Spec => NoUploadAfterEnd
<1>1. IInv /\ [Next]_vars => [\A s \in Sessions, f \in Files :
         task[s][f] = "none" /\ task'[s][f] # "none" => sessions'[s].status = "sending"]_vars
  BY IInvEndSteps DEF EndSteps, StartsSending
<1> QED
  BY <1>1, IInvAlways, PTL DEF Spec, NoUploadAfterEnd
=============================================================================
