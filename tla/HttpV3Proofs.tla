----------------------------- MODULE HttpV3Proofs -----------------------------
(***************************************************************************)
(* The nonce exchange, for any number of devices and calls and any size of *)
(* the maps.                                                               *)
(*                                                                         *)
(* The two maps of a device hold the same exchanges.  What the LRU map     *)
(* does with an entry plays no part in it: whatever is done to the first   *)
(* map is done to the second one next, because the lock lets no other call *)
(* in between.                                                             *)
(*                                                                         *)
(* A client and a server agree on the nonces of their last exchange.  Here *)
(* it matters what a put does to the other entries of a map, so this part  *)
(* begins with lemmas about that.                                          *)
(***************************************************************************)
EXTENDS HttpV3, TLAPS

Devices == Clients \cup Servers

\* A call that has written the first map of device d and not yet the second.
Between(r, d) ==
    \/ call[r].server = d /\ call[r].pc = "generate"
    \/ call[r].client = d /\ call[r].pc = "storeGenerated"

\* The entry such a call writes.
EntryKey(r) == IF call[r].pc = "generate" THEN identifier(call[r].client, call[r].server) ELSE call[r].server

\* A device has two maps.
TwoMaps ==
    /\ maps = [d \in Devices |-> maps[d]]
    /\ \A d \in Devices : maps[d] = [received |-> maps[d].received,
                                     generated |-> maps[d].generated]

OneBetween == \A d \in Devices : \A r, q \in Calls : Between(r, d) /\ Between(q, d) => r = q

\* The second map lacks what the call in between has yet to write, and nothing else.
OneBehind ==
    \A d \in Devices :
       /\ \A r \in Calls : Between(r, d) =>
             maps[d].received = Touched(maps[d].generated, EntryKey(r), r)
       /\ (\A r \in Calls : ~Between(r, d)) => maps[d].received = maps[d].generated

PairInv ==
    /\ call \in [Calls -> CallState]
    /\ TwoMaps /\ OneBetween /\ OneBehind

\* What a write changes.
LEMMA SaveFacts ==
    ASSUME TwoMaps, NEW d \in Devices, NEW map \in {"received", "generated"}, NEW key, NEW r,
           Save(d, map, key, r)
    PROVE  /\ TwoMaps'
           /\ maps'[d][map] = Touched(maps[d][map], key, r)
           /\ \A other \in {"received", "generated"} \ {map} : maps'[d][other] = maps[d][other]
           /\ \A e \in Devices \ {d} : maps'[e] = maps[e]
<1> DEFINE entry == Touched(maps[d][map], key, r)
<1>1. maps' = [maps EXCEPT ![d] = [maps[d] EXCEPT ![map] = entry]]
  BY DEF Save, TwoMaps
<1> HIDE DEF entry
<1>2. /\ \A e \in Devices \ {d} : maps'[e] = maps[e]
      /\ maps'[d] = [maps[d] EXCEPT ![map] = entry]
      /\ maps' = [e \in Devices |-> maps'[e]]
  BY <1>1 DEF TwoMaps
<1>3. CASE map = "received"
  <2>1. maps'[d] = [received |-> entry, generated |-> maps[d].generated]
    BY <1>2, <1>3 DEF TwoMaps
  <2> QED
    BY <1>2, <1>3, <2>1 DEF TwoMaps, entry
<1>4. CASE map = "generated"
  <2>1. maps'[d] = [received |-> maps[d].received, generated |-> entry]
    BY <1>2, <1>4 DEF TwoMaps
  <2> QED
    BY <1>2, <1>4, <2>1 DEF TwoMaps, entry
<1> QED
  BY <1>3, <1>4

\* A call goes on from one pc to another.
LEMMA GoFacts ==
    ASSUME call \in [Calls -> CallState], NEW r \in Calls, NEW pc \in CallPc, Go(r, pc)
    PROVE  /\ call' \in [Calls -> CallState]
           /\ call'[r].pc = pc /\ call'[r].client = call[r].client
           /\ call'[r].server = call[r].server
           /\ call'[r].path = call[r].path /\ call'[r].status = call[r].status
           /\ \A q \in Calls \ {r} : call'[q] = call[q]
  BY DEF Go, CallState

LEMMA ReplyFacts ==
    ASSUME call \in [Calls -> CallState], NEW r \in Calls, NEW status \in Statuses,
           Reply(r, status)
    PROVE  /\ call' \in [Calls -> CallState]
           /\ call'[r].pc = "reply" /\ call'[r].client = call[r].client
           /\ call'[r].server = call[r].server
           /\ call'[r].path = call[r].path /\ call'[r].status = status
           /\ \A q \in Calls \ {r} : call'[q] = call[q]
  BY DEF Reply, CallState, CallPc

\* A step of one call that is not in between, and does not come there.
LEMMA StepAside ==
    ASSUME PairInv, UNCHANGED maps, call' \in [Calls -> CallState],
           NEW r \in Calls, \A q \in Calls \ {r} : call'[q] = call[q],
           call[r].pc \notin {"generate", "storeGenerated"},
           call'[r].pc \notin {"generate", "storeGenerated"}
    PROVE  PairInv'
<1>1. \A q \in Calls, d \in Devices : Between(q, d)' <=> Between(q, d)
  BY DEF Between
<1>2. \A q \in Calls, d \in Devices : Between(q, d) => EntryKey(q)' = EntryKey(q)
  BY DEF Between, EntryKey
<1>3. TwoMaps' /\ OneBetween'
  BY <1>1 DEF PairInv, TwoMaps, OneBetween
<1>4. OneBehind'
  BY <1>1, <1>2 DEF PairInv, OneBehind
<1> QED
  BY <1>3, <1>4 DEF PairInv

\* Call r writes the first map of d, which no other call is about to follow.
LEMMA FirstMap ==
    ASSUME PairInv, NEW r \in Calls, NEW d \in Devices, NEW key,
           Save(d, "received", key, r),
           call' \in [Calls -> CallState], \A q \in Calls \ {r} : call'[q] = call[q],
           call[r].pc \notin {"generate", "storeGenerated"},
           \A q \in Calls : ~Between(q, d),
           \A e \in Devices : Between(r, e)' <=> e = d,
           EntryKey(r)' = key
    PROVE  PairInv'
<1>1. /\ TwoMaps' /\ maps'[d].received = Touched(maps[d].received, key, r)
      /\ maps'[d].generated = maps[d].generated
      /\ \A e \in Devices \ {d} : maps'[e] = maps[e]
  BY SaveFacts DEF PairInv
<1>2. maps[d].received = maps[d].generated
  BY DEF PairInv, OneBehind
<1>3. \A q \in Calls \ {r} : \A e \in Devices :
         (Between(q, e)' <=> Between(q, e)) /\ EntryKey(q)' = EntryKey(q)
  BY DEF Between, EntryKey
<1>4. \A e \in Devices : ~Between(r, e)
  BY DEF Between
<1>5. OneBetween'
  BY <1>3 DEF PairInv, OneBetween
<1>6. OneBehind'
  <2> SUFFICES ASSUME NEW e \in Devices
               PROVE  /\ \A q \in Calls : Between(q, e)' =>
                            maps'[e].received = Touched(maps'[e].generated, EntryKey(q)', q)
                      /\ (\A q \in Calls : ~Between(q, e)') => maps'[e].received = maps'[e].generated
    BY DEF OneBehind
  <2>1. CASE e = d
    <3>1. \A q \in Calls : Between(q, d)' <=> q = r
      BY <1>3
    <3> QED
      BY <1>1, <1>2, <2>1, <3>1
  <2>2. CASE e # d
    <3>1. /\ ~Between(r, e)' /\ ~Between(r, e) /\ maps'[e] = maps[e]
      BY <1>1, <1>4, <2>2
    <3>2. \A q \in Calls : (Between(q, e)' <=> Between(q, e))
                             /\ (Between(q, e) => EntryKey(q)' = EntryKey(q))
      BY <1>3, <3>1
    <3> QED
      BY <3>1, <3>2 DEF PairInv, OneBehind
  <2> QED
    BY <2>1, <2>2
<1> QED
  BY <1>1, <1>5, <1>6 DEF PairInv

\* Call r writes the second map of d as it has written the first one.
LEMMA SecondMap ==
    ASSUME PairInv, NEW r \in Calls, NEW d \in Devices, NEW key,
           Save(d, "generated", key, r),
           call' \in [Calls -> CallState], \A q \in Calls \ {r} : call'[q] = call[q],
           call'[r].pc \notin {"generate", "storeGenerated"},
           \A e \in Devices : Between(r, e) <=> e = d,
           EntryKey(r) = key
    PROVE  PairInv'
<1>1. /\ TwoMaps' /\ maps'[d].generated = Touched(maps[d].generated, key, r)
      /\ maps'[d].received = maps[d].received
      /\ \A e \in Devices \ {d} : maps'[e] = maps[e]
  BY SaveFacts DEF PairInv
<1>2. maps[d].received = Touched(maps[d].generated, key, r)
  BY DEF PairInv, OneBehind
<1>3. \A q \in Calls \ {r} : \A e \in Devices :
         (Between(q, e)' <=> Between(q, e)) /\ EntryKey(q)' = EntryKey(q)
  BY DEF Between, EntryKey
<1>4. \A e \in Devices : ~Between(r, e)'
  BY DEF Between
<1>5. OneBetween'
  BY <1>3, <1>4 DEF PairInv, OneBetween
<1>6. OneBehind'
  <2> SUFFICES ASSUME NEW e \in Devices
               PROVE  /\ \A q \in Calls : Between(q, e)' =>
                            maps'[e].received = Touched(maps'[e].generated, EntryKey(q)', q)
                      /\ (\A q \in Calls : ~Between(q, e)') => maps'[e].received = maps'[e].generated
    BY DEF OneBehind
  <2>1. CASE e = d
    <3>1. \A q \in Calls : ~Between(q, d)'
      BY <1>3, <1>4 DEF PairInv, OneBetween
    <3> QED
      BY <1>1, <1>2, <2>1, <3>1
  <2>2. CASE e # d
    <3>1. /\ ~Between(r, e)' /\ ~Between(r, e) /\ maps'[e] = maps[e]
      BY <1>1, <1>4, <2>2
    <3>2. \A q \in Calls : (Between(q, e)' <=> Between(q, e))
                             /\ (Between(q, e) => EntryKey(q)' = EntryKey(q))
      BY <1>3, <3>1
    <3> QED
      BY <3>1, <3>2 DEF PairInv, OneBehind
  <2> QED
    BY <2>1, <2>2
<1> QED
  BY <1>1, <1>5, <1>6 DEF PairInv

-----------------------------------------------------------------------------
(* The four writes. *)

\* The client and the server of a call are devices, and different ones.
LEMMA CallFacts ==
    ASSUME call \in [Calls -> CallState], NEW r \in Calls
    PROVE  /\ call[r].client \in Clients /\ call[r].server \in Servers
           /\ call[r].client \in Devices /\ call[r].server \in Devices
           /\ \A c \in Clients, s \in Servers : c # s
  BY RolesAssumption DEF CallState, Devices

LEMMA SaveNonceStep == ASSUME PairInv, NEW r \in Calls, SaveNonce(r) PROVE PairInv'
<1> DEFINE d == call[r].server
           key == identifier(call[r].client, call[r].server)
<1>1. call \in [Calls -> CallState]
  BY DEF PairInv
<1>2. /\ Save(d, "received", key, r) /\ call[r].pc = "save" /\ Go(r, "generate")
      /\ \A q \in Calls \ {r} : call[q].server # d \/ call[q].pc # "generate"
  BY DEF SaveNonce, Locked
<1>3. /\ call' \in [Calls -> CallState] /\ \A q \in Calls \ {r} : call'[q] = call[q]
      /\ call'[r].pc = "generate" /\ call'[r].client = call[r].client /\ call'[r].server = d
  BY <1>1, <1>2, GoFacts DEF CallPc
<1>4. \A q \in Calls : ~Between(q, d)
  BY <1>1, <1>2, CallFacts DEF Between
<1>5. \A e \in Devices : Between(r, e)' <=> e = d
  BY <1>3 DEF Between
<1>6. EntryKey(r)' = key
  BY <1>3 DEF EntryKey, identifier, Ip
<1>7. d \in Devices
  BY <1>1, CallFacts
<1> HIDE DEF d, key
<1> QED
  BY <1>2, <1>3, <1>4, <1>5, <1>6, <1>7, FirstMap

LEMMA GenerateNonceStep == ASSUME PairInv, NEW r \in Calls, GenerateNonce(r) PROVE PairInv'
<1> DEFINE d == call[r].server
           key == identifier(call[r].client, call[r].server)
<1>1. call \in [Calls -> CallState]
  BY DEF PairInv
<1>2. Save(d, "generated", key, r) /\ call[r].pc = "generate" /\ Reply(r, 200)
  BY DEF GenerateNonce
<1>3. /\ call' \in [Calls -> CallState] /\ \A q \in Calls \ {r} : call'[q] = call[q]
      /\ call'[r].pc = "reply"
  BY <1>1, <1>2, ReplyFacts DEF Statuses
<1>4. \A e \in Devices : Between(r, e) <=> e = d
  BY <1>2 DEF Between
<1>5. EntryKey(r) = key /\ d \in Devices
  BY <1>1, <1>2, CallFacts DEF EntryKey
<1> HIDE DEF d, key
<1> QED
  BY <1>2, <1>3, <1>4, <1>5, SecondMap

LEMMA StoreReceivedStep == ASSUME PairInv, NEW r \in Calls, StoreReceived(r) PROVE PairInv'
<1> DEFINE d == call[r].client
           key == call[r].server
<1>1. call \in [Calls -> CallState]
  BY DEF PairInv
<1>2. /\ Save(d, "received", key, r) /\ call[r].pc = "store" /\ Go(r, "storeGenerated")
      /\ \A q \in Calls \ {r} : call[q].client # d \/ call[q].pc # "storeGenerated"
  BY DEF StoreReceived, ClientLocked
<1>3. /\ call' \in [Calls -> CallState] /\ \A q \in Calls \ {r} : call'[q] = call[q]
      /\ call'[r].pc = "storeGenerated" /\ call'[r].client = d /\ call'[r].server = key
  BY <1>1, <1>2, GoFacts DEF CallPc
<1>4. \A q \in Calls : ~Between(q, d)
  BY <1>1, <1>2, CallFacts DEF Between
<1>5. \A e \in Devices : Between(r, e)' <=> e = d
  BY <1>3 DEF Between
<1>6. EntryKey(r)' = key /\ d \in Devices
  BY <1>1, <1>3, CallFacts DEF EntryKey
<1> HIDE DEF d, key
<1> QED
  BY <1>2, <1>3, <1>4, <1>5, <1>6, FirstMap

LEMMA StoreGeneratedStep == ASSUME PairInv, NEW r \in Calls, StoreGenerated(r) PROVE PairInv'
<1> DEFINE d == call[r].client
           key == call[r].server
<1>1. call \in [Calls -> CallState]
  BY DEF PairInv
<1>2. Save(d, "generated", key, r) /\ call[r].pc = "storeGenerated" /\ Go(r, "ok")
  BY DEF StoreGenerated
<1>3. /\ call' \in [Calls -> CallState] /\ \A q \in Calls \ {r} : call'[q] = call[q]
      /\ call'[r].pc = "ok"
  BY <1>1, <1>2, GoFacts DEF CallPc
<1>4. \A e \in Devices : Between(r, e) <=> e = d
  BY <1>2 DEF Between
<1>5. EntryKey(r) = key /\ d \in Devices
  BY <1>1, <1>2, CallFacts DEF EntryKey
<1> HIDE DEF d, key
<1> QED
  BY <1>2, <1>3, <1>4, <1>5, SecondMap

-----------------------------------------------------------------------------
(* The other steps. *)

LEMMA LifecycleStep ==
    ASSUME PairInv, NEW s \in Servers, Lifecycle(s)
    PROVE  PairInv'
<1>1. call' = call /\ maps' = maps
  BY DEF Lifecycle, ListenerBinds, AcceptFails, Stop
<1> QED
  BY <1>1 DEF PairInv, TwoMaps, OneBetween, OneBehind, Between, EntryKey

\* A call goes on without a write.
LEMMA GoAside ==
    ASSUME PairInv, UNCHANGED maps, NEW r \in Calls,
           call[r].pc \notin {"generate", "storeGenerated"},
           NEW pc \in CallPc \ {"generate", "storeGenerated"}, Go(r, pc)
    PROVE  PairInv'
<1>1. call \in [Calls -> CallState]
  BY DEF PairInv
<1>2. /\ call' \in [Calls -> CallState] /\ call'[r].pc = pc
      /\ \A q \in Calls \ {r} : call'[q] = call[q]
  BY <1>1, GoFacts
<1> QED
  BY <1>2, StepAside

LEMMA ReplyAside ==
    ASSUME PairInv, UNCHANGED maps, NEW r \in Calls,
           call[r].pc \notin {"generate", "storeGenerated"},
           NEW status \in Statuses, Reply(r, status)
    PROVE  PairInv'
<1>1. call \in [Calls -> CallState]
  BY DEF PairInv
<1>2. /\ call' \in [Calls -> CallState] /\ call'[r].pc = "reply"
      /\ \A q \in Calls \ {r} : call'[q] = call[q]
  BY <1>1, ReplyFacts
<1> QED
  BY <1>2, StepAside

LEMMA ServingStep == ASSUME PairInv, NEW r \in Calls, Serving(r) PROVE PairInv'
<1>1. ASSUME NEW ok \in BOOLEAN, Accept(r, ok) PROVE PairInv'
  <2>1. PICK pc \in {"accepted", "failed"} : Go(r, pc)
    BY <1>1 DEF Accept
  <2>2. pc \in CallPc \ {"generate", "storeGenerated"}
    BY DEF CallPc
  <2> QED
    BY <1>1, <2>1, <2>2, GoAside DEF Accept
<1>2. ASSUME NEW status \in Statuses, Handle(r, status) PROVE PairInv'
  <2>1. maps' = maps /\ call[r].pc = "accepted" /\ (Go(r, "save") \/ Reply(r, status))
    BY <1>2 DEF Handle, Handler
  <2>2. "save" \in CallPc \ {"generate", "storeGenerated"}
    BY DEF CallPc
  <2> QED
    BY <2>1, <2>2, GoAside, ReplyAside
<1> QED
  BY <1>1, <1>2, SaveNonceStep, GenerateNonceStep DEF Serving

LEMMA ClientSendsStep ==
    ASSUME PairInv, NEW r \in Calls, NEW path \in Paths, ClientSends(r, path)
    PROVE  PairInv'
<1>1. call \in [Calls -> CallState]
  BY DEF PairInv
<1>2. /\ call' = [call EXCEPT ![r] = [call[r] EXCEPT !.pc = "sent", !.path = path]]
      /\ call[r].pc = "idle" /\ maps' = maps
  BY <1>1 DEF ClientSends
<1>3. /\ call' \in [Calls -> CallState] /\ call'[r].pc = "sent"
      /\ \A q \in Calls \ {r} : call'[q] = call[q]
  BY <1>1, <1>2 DEF CallState, CallPc
<1> QED
  BY <1>2, <1>3, StepAside

LEMMA CallingStep == ASSUME PairInv, NEW r \in Calls, Calling(r) \/ Broken(r) PROVE PairInv'
<1>1. ASSUME NEW readable \in BOOLEAN, Response(r, readable) PROVE PairInv'
  <2>1. PICK pc \in {"failed", "store", "ok"} : Go(r, pc)
    BY <1>1 DEF Response
  <2>2. pc \in CallPc \ {"generate", "storeGenerated"}
    BY DEF CallPc
  <2> QED
    BY <1>1, <2>1, <2>2, GoAside DEF Response
<1>2. CASE OldResponse(r)
  <2>1. PICK pc \in {"failed", "ok"} : Go(r, pc)
    BY <1>2 DEF OldResponse
  <2>2. pc \in CallPc \ {"generate", "storeGenerated"}
    BY DEF CallPc
  <2> QED
    BY <1>2, <2>1, <2>2, GoAside DEF OldResponse
<1>3. CASE Broken(r)
  <2>1. "failed" \in CallPc \ {"generate", "storeGenerated"}
    BY DEF CallPc
  <2> QED
    BY <1>3, <2>1, GoAside DEF Broken
<1> QED
  BY <1>1, <1>2, <1>3, ClientSendsStep, StoreReceivedStep, StoreGeneratedStep DEF Calling

LEMMA InitPairInv == Init => PairInv
<1> SUFFICES ASSUME Init PROVE PairInv
  OBVIOUS
<1>1. /\ call \in [Calls -> CallState] /\ \A r \in Calls : call[r].pc = "idle"
  BY PathsAssumption DEF Init, CallState, CallPc, Statuses
<1>2. \A d \in Devices : maps[d] = [received |-> <<>>, generated |-> <<>>]
  BY DEF Init, Devices, Empty
<1>3. TwoMaps
  BY <1>2 DEF Init, Devices, TwoMaps
<1>4. \A r \in Calls, d \in Devices : ~Between(r, d)
  BY <1>1 DEF Between
<1>5. OneBetween /\ OneBehind
  BY <1>2, <1>4 DEF OneBetween, OneBehind
<1> QED
  BY <1>1, <1>3, <1>5 DEF PairInv

LEMMA PairInvInductive == PairInv /\ [Next]_vars => PairInv'
<1> SUFFICES ASSUME PairInv, [Next]_vars PROVE PairInv'
  OBVIOUS
<1>1. CASE UNCHANGED vars
  BY <1>1 DEF vars, PairInv, TwoMaps, OneBetween, OneBehind, Between, EntryKey
<1> QED
  BY <1>1, LifecycleStep, ServingStep, CallingStep DEF Next

-----------------------------------------------------------------------------
(* The theorem. *)

\* Outside of the two writes of an exchange the maps of a device hold the same
\* entries in the same order: nonces are received and generated, refreshed and
\* evicted in pairs, whatever calls overlap, break off or are refused.
THEOREM MapsInStep == Spec => []PairsMatch
<1>1. PairInv => PairsMatch
  BY DEF PairInv, OneBehind, Between, PairsMatch, Devices
<1> QED
  BY <1>1, InitPairInv, PairInvInductive, PTL DEF Spec

-----------------------------------------------------------------------------
(* What a put does to an LRU map. *)

Unique(map) == \A i, j \in DOMAIN map : map[i].key = map[j].key => i = j

LEMMA AboutEntries ==
    ASSUME NEW map, NEW n \in Nat, DOMAIN map = 1..n, NEW key
    PROVE  \A x : x \in About(map, key) <=>
                     \E i \in 1..n : map[i].key = key /\ map[i].nonce = x
<1>1. ToSet(map) = {map[i] : i \in 1..n}
  BY DEF ToSet
<1> QED
  BY <1>1 DEF About

\* Where the entries behind the first one of a map of n entries come from, when
\* the place free is made free.
Source(n, free, len) == [i \in 2..len |-> IF i <= free THEN i - 1 ELSE i]

\* All places but the free one are used, each of them once.
AllBut(n, free, len, src) ==
    /\ src \in [2..len -> 1..n]
    /\ \A i \in 2..len : src[i] # free
    /\ \A i, j \in 2..len : src[i] = src[j] => i = j
    /\ \A j \in 1..n : j # free => \E i \in 2..len : src[i] = j

LEMMA SourceFacts ==
    ASSUME NEW n \in Nat, NEW free \in Nat \ {0}, free <= n + 1,
           NEW len \in Nat, len = IF free > n THEN free ELSE n
    PROVE  AllBut(n, free, len, Source(n, free, len))
<1> DEFINE src == Source(n, free, len)
<1>1. \A i \in 2..len : src[i] = IF i <= free THEN i - 1 ELSE i
  BY DEF Source
<1>2. \A i \in 2..len : src[i] \in 1..n /\ src[i] # free
  BY <1>1
<1>3. src = [i \in 2..len |-> src[i]]
  BY DEF Source
<1> HIDE DEF src
<1>4. src \in [2..len -> 1..n]
  BY <1>2, <1>3
<1>5. \A i, j \in 2..len : src[i] = src[j] => i = j
  BY <1>1
<1>6. ASSUME NEW j \in 1..n, j # free PROVE \E i \in 2..len : src[i] = j
  <2>1. CASE j < free
    <3>1. j + 1 \in 2..len /\ j + 1 <= free
      BY <2>1
    <3>2. src[j + 1] = j
      BY <1>1, <3>1
    <3> QED
      BY <3>1, <3>2
  <2>2. CASE j > free
    <3>1. j \in 2..len
      BY <2>2
    <3>2. src[j] = j
      BY <1>1, <2>2, <3>1
    <3> QED
      BY <3>1, <3>2
  <2> QED
    BY <1>6, <2>1, <2>2
<1> QED
  BY <1>2, <1>4, <1>5, <1>6 DEF src, AllBut

LEMMA FreePlaceFacts ==
    ASSUME NEW map \in Map, NEW key
    PROVE  /\ Len(map) \in Nat /\ Len(map) <= MapSize /\ DOMAIN map = 1..Len(map)
           /\ \A i \in 1..Len(map) : map[i] \in Entry
           /\ FreePlace(map, key) \in Nat \ {0}
           /\ FreePlace(map, key) <= MapSize /\ FreePlace(map, key) <= Len(map) + 1
           /\ Has(map, key) => /\ FreePlace(map, key) \in 1..Len(map)
                               /\ map[FreePlace(map, key)].key = key
           /\ ~Has(map, key) => \/ FreePlace(map, key) = Len(map) + 1
                                \/ Len(map) = MapSize
<1>1. /\ Len(map) \in Nat /\ Len(map) <= MapSize /\ DOMAIN map = 1..Len(map)
      /\ \A i \in 1..Len(map) : map[i] \in Entry
  BY DEF Map
<1>2. MapSize \in Nat \ {0}
  BY SettingsAssumption
<1>3. CASE Has(map, key)
  <2>1. FreePlace(map, key) = Place(map, key)
    BY <1>3 DEF FreePlace
  <2>2. Place(map, key) \in DOMAIN map /\ map[Place(map, key)].key = key
    BY <1>3 DEF Has, Place
  <2> QED
    BY <1>1, <1>2, <1>3, <2>1, <2>2
<1>4. CASE ~Has(map, key)
  <2>1. FreePlace(map, key) = IF Len(map) < MapSize THEN Len(map) + 1 ELSE MapSize
    BY <1>4 DEF FreePlace
  <2>2. Len(map) \in Nat /\ Len(map) <= MapSize
    BY <1>1
  <2>3. /\ FreePlace(map, key) \in Nat \ {0}
        /\ FreePlace(map, key) <= MapSize /\ FreePlace(map, key) <= Len(map) + 1
        /\ FreePlace(map, key) = Len(map) + 1 \/ Len(map) = MapSize
    BY <1>2, <2>1, <2>2
  <2> QED
    BY <1>1, <1>4, <2>3
<1> QED
  BY <1>3, <1>4

\* Every entry of t but the first is one of map, of another key and from a place
\* of its own; and every one of map is kept, or it had this key, or t is full.
Moved(map, key, t, src) ==
    /\ src \in [2..Len(t) -> 1..Len(map)]
    /\ \A i \in 2..Len(t) : t[i] = map[src[i]] /\ t[i].key # key
    /\ \A i, j \in 2..Len(t) : src[i] = src[j] => i = j
    /\ \A j \in 1..Len(map) : \/ map[j].key = key \/ Len(t) = MapSize
                              \/ \E i \in 2..Len(t) : src[i] = j

LEMMA TouchedEntries ==
    ASSUME NEW map \in Map, Unique(map), NEW key \in Address, NEW nonce \in Calls, NEW t,
           t = Touched(map, key, nonce)
    PROVE  /\ t \in Map /\ Len(map) <= Len(t) /\ 1 <= Len(t)
           /\ t[1] = [key |-> key, nonce |-> nonce]
           /\ \E src : Moved(map, key, t, src)
<1> DEFINE n == Len(map)
           free == FreePlace(map, key)
           len == IF free > n THEN free ELSE n
           src == Source(n, free, len)
<1>1. /\ n \in Nat /\ n <= MapSize /\ DOMAIN map = 1..n /\ MapSize \in Nat \ {0}
      /\ \A i \in 1..n : map[i] \in Entry
      /\ free \in Nat \ {0} /\ free <= MapSize /\ free <= n + 1
      /\ Has(map, key) => free \in 1..n /\ map[free].key = key
      /\ ~Has(map, key) => free = n + 1 \/ n = MapSize
  BY FreePlaceFacts, SettingsAssumption
<1>2. t = [i \in 1..len |-> IF i = 1 THEN [key |-> key, nonce |-> nonce]
                            ELSE IF i <= free THEN map[i - 1] ELSE map[i]]
  BY DEF Touched
<1> HIDE DEF n, free
<1>3. len = IF free > n THEN free ELSE n
  OBVIOUS
<1>4. len \in Nat /\ 1 <= len /\ len <= MapSize /\ n <= len
  BY <1>1
<1>5. ~Has(map, key) /\ free \in 1..n => len = MapSize
  BY <1>1
<1> HIDE DEF len
<1>6. /\ src \in [2..len -> 1..n]
      /\ \A i \in 2..len : src[i] # free
      /\ \A i, j \in 2..len : src[i] = src[j] => i = j
      /\ \A j \in 1..n : j # free => \E i \in 2..len : src[i] = j
  <2>1. /\ n \in Nat /\ free \in Nat \ {0} /\ free <= n + 1 /\ len \in Nat
        /\ len = IF free > n THEN free ELSE n
    BY <1>3, <1>1, <1>4
  <2>2. AllBut(n, free, len, src)
    BY <2>1, SourceFacts
  <2> HIDE DEF src
  <2> QED
    BY <2>2 DEF AllBut
<1>7. \A i \in 2..len : src[i] = IF i <= free THEN i - 1 ELSE i
  BY DEF Source
<1> HIDE DEF src
<1>8. t[1] = [key |-> key, nonce |-> nonce] /\ t = [i \in 1..len |-> t[i]]
  BY <1>2, <1>4
<1>9. \A i \in 2..len : t[i] = map[src[i]]
  BY <1>1, <1>2, <1>4, <1>7
<1>10. t \in Seq(Entry) /\ Len(t) = len
  <2>1. [key |-> key, nonce |-> nonce] \in Entry
    BY DEF Entry
  <2>2. \A i \in 1..len : i = 1 \/ i \in 2..len
    BY <1>4
  <2>3. \A i \in 2..len : src[i] \in 1..n
    BY <1>6
  <2>4. \A i \in 2..len : t[i] \in Entry
    BY <1>1, <1>9, <2>3
  <2>5. \A i \in 1..len : t[i] \in Entry
    BY <1>8, <2>1, <2>2, <2>4
  <2> QED
    BY <1>4, <1>8, <2>5
<1>11. ASSUME NEW i \in 2..len PROVE t[i].key # key
  <2>1. src[i] \in 1..n /\ src[i] # free /\ t[i] = map[src[i]]
    BY <1>6, <1>9
  <2> QED
    BY <1>1, <2>1 DEF Has, Unique
<1>12. ASSUME NEW j \in 1..n, map[j].key # key, len # MapSize
       PROVE  \E i \in 2..len : src[i] = j
  <2>1. j # free
    BY <1>1, <1>5, <1>12
  <2> QED
    BY <1>6, <2>1
<1>13. t \in Map
  BY <1>4, <1>10 DEF Map
<1>14. src \in [2..Len(t) -> 1..n] /\ Len(t) = len
  BY <1>6, <1>10
<1>15. Moved(map, key, t, src)
  BY <1>6, <1>9, <1>11, <1>12, <1>14 DEF Moved, n
<1> QED
  BY <1>4, <1>8, <1>13, <1>14, <1>15 DEF n

\* One entry of each key is left, that of this key is the new one, and another
\* one is as before or evicted.
LEMMA TouchedFacts ==
    ASSUME NEW map \in Map, Unique(map), NEW key \in Address, NEW nonce \in Calls, NEW t,
           t = Touched(map, key, nonce)
    PROVE  /\ t \in Map /\ Unique(t)
           /\ Len(map) = MapSize => Len(t) = MapSize
           /\ About(t, key) = {nonce}
           /\ \A k \in Address \ {key} :
                 \/ About(t, k) = About(map, k)
                 \/ Evicted(t, k)
           /\ \A k \in Address \ {key} : Evicted(map, k) => Evicted(t, k)
<1> DEFINE n == Len(map)
<1>1. /\ t \in Map /\ n <= Len(t) /\ 1 <= Len(t)
      /\ t[1] = [key |-> key, nonce |-> nonce]
  BY TouchedEntries
<1>2. PICK src : Moved(map, key, t, src)
  BY TouchedEntries
<1>3. /\ n \in Nat /\ n <= MapSize /\ DOMAIN map = 1..n /\ MapSize \in Nat
      /\ Len(t) \in Nat /\ Len(t) <= MapSize /\ DOMAIN t = 1..Len(t)
  BY <1>1, FreePlaceFacts, SettingsAssumption
<1>4. n = MapSize => Len(t) = MapSize
  <2>1. n <= Len(t) /\ Len(t) <= MapSize /\ Len(t) \in Nat /\ n \in Nat /\ MapSize \in Nat
    BY <1>1, <1>3
  <2> HIDE DEF n
  <2> QED
    BY <2>1
<1>5. /\ src \in [2..Len(t) -> 1..n]
      /\ \A i \in 2..Len(t) : t[i] = map[src[i]] /\ t[i].key # key
      /\ \A i, j \in 2..Len(t) : src[i] = src[j] => i = j
      /\ \A j \in 1..n : \/ map[j].key = key \/ Len(t) = MapSize
                         \/ \E i \in 2..Len(t) : src[i] = j
  BY <1>2 DEF Moved
<1> HIDE DEF n
<1>6. \A i \in 1..Len(t) : i = 1 \/ i \in 2..Len(t)
  BY <1>3
<1>7. Unique(t)
  <2> SUFFICES ASSUME NEW i \in 1..Len(t), NEW j \in 1..Len(t), t[i].key = t[j].key
               PROVE  i = j
    BY <1>3 DEF Unique
  <2>1. CASE i \in 2..Len(t) /\ j \in 2..Len(t)
    <3>1. src[i] \in 1..n /\ src[j] \in 1..n /\ map[src[i]].key = map[src[j]].key
      BY <1>5, <2>1
    <3>2. src[i] = src[j]
      BY <1>3, <3>1 DEF Unique
    <3> QED
      BY <1>5, <2>1, <3>2
  <2>2. CASE i = 1 \/ j = 1
    <3>1. t[1].key = key
      BY <1>1
    <3> QED
      BY <1>5, <1>6, <2>2, <3>1
  <2> QED
    BY <1>6, <2>1, <2>2
<1>8. About(t, key) = {nonce}
  <2>1. t[1].key = key /\ t[1].nonce = nonce /\ 1 \in 1..Len(t)
    BY <1>1, <1>3
  <2>2. \A i \in 1..Len(t) : t[i].key = key => i = 1
    BY <1>5, <1>6
  <2>3. \A x : x \in About(t, key) <=> \E i \in 1..Len(t) : t[i].key = key /\ t[i].nonce = x
    BY <1>3, AboutEntries
  <2> QED
    BY <2>1, <2>2, <2>3
<1>9. ASSUME NEW k \in Address \ {key}
      PROVE  /\ About(t, k) \subseteq About(map, k)
             /\ About(t, k) = About(map, k) \/ Evicted(t, k)
  <2>1. \A x : x \in About(t, k) <=> \E i \in 1..Len(t) : t[i].key = k /\ t[i].nonce = x
    BY <1>3, AboutEntries
  <2>2. \A x : x \in About(map, k) <=> \E i \in 1..n : map[i].key = k /\ map[i].nonce = x
    BY <1>3, AboutEntries
  <2>3. \A i \in 1..Len(t) : t[i].key = k => i \in 2..Len(t)
    BY <1>1, <1>6
  <2>4. \A i \in 2..Len(t) : src[i] \in 1..n /\ t[i] = map[src[i]]
    BY <1>5
  <2>5. About(t, k) \subseteq About(map, k)
    BY <2>1, <2>2, <2>3, <2>4
  <2>6. CASE \A j \in 1..n : map[j].key = k => \E i \in 2..Len(t) : src[i] = j
    <3>1. \A i \in 2..Len(t) : i \in 1..Len(t)
      BY <1>3
    <3>2. \A j \in 1..n : map[j].key = k => \E i \in 1..Len(t) : t[i] = map[j]
      BY <2>4, <2>6, <3>1
    <3>3. About(map, k) \subseteq About(t, k)
      BY <2>1, <2>2, <3>2
    <3> QED
      BY <2>5, <3>3
  <2>7. ASSUME NEW j \in 1..n, map[j].key = k, ~ \E i \in 2..Len(t) : src[i] = j
        PROVE  Evicted(t, k)
    <3>1. Len(t) = MapSize
      <4>1. map[j].key # key
        BY <2>7
      <4>2. map[j].key = key \/ Len(t) = MapSize \/ \E i \in 2..Len(t) : src[i] = j
        BY <1>5
      <4> QED
        BY <2>7, <4>1, <4>2
    <3>2. ASSUME NEW i \in 2..Len(t), t[i].key = k PROVE FALSE
      <4>1. src[i] \in 1..n /\ map[src[i]].key = map[j].key
        BY <2>4, <2>7, <3>2
      <4>2. src[i] = j
        BY <1>3, <4>1 DEF Unique
      <4> QED
        BY <2>7, <4>2
    <3>3. About(t, k) = {}
      BY <2>1, <2>3, <3>2
    <3> QED
      BY <3>1, <3>3 DEF Evicted
  <2> QED
    BY <2>5, <2>6, <2>7
<1>10. \A k \in Address \ {key} : Evicted(map, k) => Evicted(t, k)
  BY <1>9, <1>4 DEF Evicted, n
<1> QED
  BY <1>1, <1>7, <1>8, <1>9, <1>4, <1>10 DEF n

-----------------------------------------------------------------------------
(* The inductive invariant of the exchange. *)

UniqueKeys ==
    \A d \in Devices : Unique(maps[d].received) /\ Unique(maps[d].generated)

\* Only an exchange has anything to do with the maps.
Exchanges ==
    \A r \in Calls : call[r].pc \in {"save", "generate", "store", "storeGenerated"} =>
       call[r].path = "nonce"

Orderly(c, s) == <<c, s>> \notin muddled /\ (s \in Tls \/ c \notin SharedIp)

OneExchange ==
    \A r, q \in Calls :
       ( /\ Pair(r) = Pair(q) /\ Pair(r) \notin muddled
         /\ call[r].path = "nonce" /\ call[q].path = "nonce"
         /\ call[r].pc \in UnderWay /\ call[q].pc \in UnderWay )
          => r = q

\* The server has made the nonce of call r, and the client does not have it yet.
Ahead(r) ==
    /\ call[r].path = "nonce"
    /\ call[r].pc = "store" \/ (call[r].pc = "reply" /\ call[r].status = 200)

\* The nonce of this call is the one that is kept, or none is.
Kept(map, key, r) == About(map, key) = {r} \/ Evicted(map, key)

\* On its way back an exchange is the one the server keeps, and then the client.
WayBack ==
    \A r \in Calls : Orderly(call[r].client, call[r].server) =>
       /\ Ahead(r) \/ call[r].pc = "storeGenerated" =>
             Kept(maps[call[r].server].generated, identifier(call[r].client, call[r].server), r)
       /\ call[r].pc = "storeGenerated" =>
             Kept(maps[call[r].client].received, call[r].server, r)

Agree(c, s) ==
    \/ About(maps[s].generated, identifier(c, s)) = About(maps[c].received, s)
    \/ Evicted(maps[s].generated, identifier(c, s)) \/ Evicted(maps[c].received, s)

AtRest ==
    \A c \in Clients, s \in Servers :
       Orderly(c, s) /\ (\A r \in Calls : Pair(r) = <<c, s>> => ~Ahead(r)) => Agree(c, s)

AgreeInv ==
    /\ TypeOK
    /\ UniqueKeys /\ Exchanges /\ OneExchange /\ WayBack /\ AtRest

-----------------------------------------------------------------------------
(* The types. *)

LEMMA TypeTwoMaps == TypeOK => TwoMaps
<1> SUFFICES ASSUME TypeOK PROVE TwoMaps
  OBVIOUS
<1>1. maps \in [Devices -> [{"received", "generated"} -> Map]]
  BY DEF TypeOK, Devices
<1>2. ASSUME NEW d \in Devices
      PROVE  maps[d] = [received |-> maps[d].received, generated |-> maps[d].generated]
  BY <1>1
<1> QED
  BY <1>1, <1>2 DEF TwoMaps

\* What a write changes, and what it leaves.
LEMMA SaveType ==
    ASSUME TypeOK, UniqueKeys, NEW d \in Devices, NEW map \in {"received", "generated"},
           NEW key \in Address, NEW r \in Calls, Save(d, map, key, r)
    PROVE  /\ maps' \in [Devices -> [{"received", "generated"} -> Map]]
           /\ UniqueKeys'
<1>1. /\ TwoMaps'
      /\ maps'[d][map] = Touched(maps[d][map], key, r)
      /\ \A other \in {"received", "generated"} \ {map} : maps'[d][other] = maps[d][other]
      /\ \A e \in Devices \ {d} : maps'[e] = maps[e]
  BY TypeTwoMaps, SaveFacts
<1>2. \A e \in Devices : \A m \in {"received", "generated"} : maps[e][m] \in Map
  BY DEF TypeOK, Devices
<1>3. \A e \in Devices : \A m \in {"received", "generated"} : Unique(maps[e][m])
  BY DEF UniqueKeys
<1>4. maps'[d][map] \in Map /\ Unique(maps'[d][map])
  BY <1>1, <1>2, <1>3, TouchedFacts
<1>5. ASSUME NEW e \in Devices, NEW m \in {"received", "generated"}
      PROVE  maps'[e][m] \in Map /\ Unique(maps'[e][m])
  <2>1. CASE e = d /\ m = map
    BY <1>4, <2>1
  <2>2. CASE e = d /\ m # map
    BY <1>1, <1>2, <1>3, <2>2
  <2>3. CASE e # d
    BY <1>1, <1>2, <1>3, <2>3
  <2> QED
    BY <2>1, <2>2, <2>3
<1>6. UniqueKeys'
  BY <1>5 DEF UniqueKeys
<1>7. \A e \in Devices : maps'[e] \in [{"received", "generated"} -> Map]
  <2> SUFFICES ASSUME NEW e \in Devices PROVE maps'[e] \in [{"received", "generated"} -> Map]
    OBVIOUS
  <2>1. /\ maps'[e] = [received |-> maps'[e].received, generated |-> maps'[e].generated]
        /\ maps'[e].received \in Map /\ maps'[e].generated \in Map
    BY <1>1, <1>5 DEF TwoMaps
  <2> QED
    BY <2>1
<1>8. maps' = [e \in Devices |-> maps'[e]]
  BY <1>1 DEF TwoMaps
<1> QED
  BY <1>6, <1>7, <1>8

LEMMA TypeAside ==
    ASSUME TypeOK, UniqueKeys, UNCHANGED <<listening, running, maps>>,
           call' \in [Calls -> CallState],
           open' \subseteq Clients \X Servers, muddled' \subseteq Clients \X Servers
    PROVE  TypeOK' /\ UniqueKeys'
  BY DEF TypeOK, UniqueKeys

LEMMA TypeWrite ==
    ASSUME TypeOK, UniqueKeys, UNCHANGED <<listening, running, open, muddled>>,
           call' \in [Calls -> CallState],
           NEW d \in Devices, NEW map \in {"received", "generated"},
           NEW key \in Address, NEW r \in Calls, Save(d, map, key, r)
    PROVE  TypeOK' /\ UniqueKeys'
<1>1. maps' \in [Devices -> [{"received", "generated"} -> Map]] /\ UniqueKeys'
  BY SaveType
<1> QED
  BY <1>1 DEF TypeOK, Devices

LEMMA IdentifierFacts ==
    ASSUME NEW c \in Clients, NEW s \in Servers
    PROVE  /\ identifier(c, s) \in Address
           /\ \A other \in Clients :
                 (s \in Tls \/ c \notin SharedIp) /\ identifier(other, s) = identifier(c, s)
                    => other = c
  BY RolesAssumption DEF identifier, Ip, Address

LEMMA PairFacts ==
    ASSUME TypeOK, NEW r \in Calls
    PROVE  /\ Pair(r) \in Clients \X Servers
           /\ open \cup {Pair(r)} \subseteq Clients \X Servers
           /\ muddled \cup {Pair(r)} \subseteq Clients \X Servers
<1>1. call[r].client \in Clients /\ call[r].server \in Servers
  BY CallFacts DEF TypeOK
<1> QED
  BY <1>1 DEF Pair, TypeOK

LEMMA MuddleFacts ==
    ASSUME TypeOK, NEW r \in Calls, NEW path, NEW wrong \in BOOLEAN, Muddle(r, path, wrong)
    PROVE  /\ muddled \subseteq muddled' /\ muddled' \subseteq Clients \X Servers
           /\ path = "nonce" /\ wrong => Pair(r) \in muddled'
<1>1. muddled \cup {Pair(r)} \subseteq Clients \X Servers
  BY PairFacts
<1> QED
  BY <1>1 DEF Muddle

LEMMA SendFacts ==
    ASSUME TypeOK, NEW r \in Calls, NEW path \in Paths, ClientSends(r, path)
    PROVE  /\ call' \in [Calls -> CallState]
           /\ call'[r].pc = "sent" /\ call'[r].client = call[r].client
           /\ call'[r].server = call[r].server /\ call'[r].path = path
           /\ \A q \in Calls \ {r} : call'[q] = call[q]
<1>1. call \in [Calls -> CallState]
  BY DEF TypeOK
<1>2. call' = [call EXCEPT ![r] = [call[r] EXCEPT !.pc = "sent", !.path = path]]
  BY <1>1 DEF ClientSends
<1> QED
  BY <1>1, <1>2 DEF CallState, CallPc

LEMMA TypeStep == TypeOK /\ UniqueKeys /\ [Next]_vars => TypeOK' /\ UniqueKeys'
<1> SUFFICES ASSUME TypeOK, UniqueKeys, [Next]_vars PROVE TypeOK' /\ UniqueKeys'
  OBVIOUS
<1>1. call \in [Calls -> CallState] /\ muddled \subseteq Clients \X Servers
      /\ open \subseteq Clients \X Servers
  BY DEF TypeOK
<1>2. CASE UNCHANGED vars
  BY <1>1, <1>2, TypeAside DEF vars
<1>3. ASSUME NEW s \in Servers, Lifecycle(s) PROVE TypeOK' /\ UniqueKeys'
  <2>1. ASSUME NEW family \in {"v4", "v6"}, NEW ok \in BOOLEAN, ListenerBinds(s, family, ok)
        PROVE  TypeOK' /\ UniqueKeys'
    BY <2>1 DEF ListenerBinds, ListenerEnds, TypeOK, UniqueKeys
  <2>2. ASSUME NEW family \in {"v4", "v6"}, AcceptFails(s, family)
        PROVE  TypeOK' /\ UniqueKeys'
    BY <2>2 DEF AcceptFails, ListenerEnds, TypeOK, UniqueKeys
  <2>3. ASSUME Stop(s) PROVE TypeOK' /\ UniqueKeys'
    BY <2>3 DEF Stop, TypeOK, UniqueKeys
  <2> QED
    BY <1>3, <2>1, <2>2, <2>3 DEF Lifecycle
<1>4. ASSUME NEW r \in Calls, NEW ok \in BOOLEAN, Accept(r, ok) PROVE TypeOK' /\ UniqueKeys'
  <2>1. Go(r, "accepted") \/ Go(r, "failed")
    BY <1>4 DEF Accept
  <2>2. call' \in [Calls -> CallState]
    BY <1>1, <2>1, GoFacts DEF CallPc
  <2>3. open' \subseteq Clients \X Servers /\ UNCHANGED <<listening, running, maps, muddled>>
    BY <1>1, <1>4, PairFacts DEF Accept
  <2> QED
    BY <1>1, <2>2, <2>3, TypeAside
<1>5. ASSUME NEW r \in Calls, NEW status \in Statuses, Handle(r, status)
      PROVE  TypeOK' /\ UniqueKeys'
  <2>1. Go(r, "save") \/ Reply(r, status)
    BY <1>5 DEF Handle, Handler
  <2>2. call' \in [Calls -> CallState]
    BY <1>1, <2>1, GoFacts, ReplyFacts DEF CallPc
  <2> QED
    BY <1>1, <1>5, <2>2, TypeAside DEF Handle
<1>6. ASSUME NEW r \in Calls, SaveNonce(r) \/ GenerateNonce(r) PROVE TypeOK' /\ UniqueKeys'
  <2>1. Go(r, "generate") \/ Reply(r, 200)
    BY <1>6 DEF SaveNonce, GenerateNonce
  <2>2. call' \in [Calls -> CallState]
    BY <1>1, <2>1, GoFacts, ReplyFacts DEF CallPc, Statuses
  <2>3. call[r].client \in Clients /\ call[r].server \in Servers /\ call[r].server \in Devices
    BY <1>1, CallFacts
  <2>4. identifier(call[r].client, call[r].server) \in Address
    BY <2>3, IdentifierFacts
  <2> QED
    BY <1>6, <2>2, <2>3, <2>4, TypeWrite DEF SaveNonce, GenerateNonce
<1>7. ASSUME NEW r \in Calls, NEW path \in Paths, ClientSends(r, path)
      PROVE  TypeOK' /\ UniqueKeys'
  <2>1. call' \in [Calls -> CallState]
    BY <1>7, SendFacts
  <2>2. muddled' \subseteq Clients \X Servers
    BY <1>7, MuddleFacts DEF ClientSends
  <2> QED
    BY <1>1, <1>7, <2>1, <2>2, TypeAside DEF ClientSends
<1>8. ASSUME NEW r \in Calls, NEW readable \in BOOLEAN, Response(r, readable)
      PROVE  TypeOK' /\ UniqueKeys'
  <2>1. Go(r, "failed") \/ Go(r, "store") \/ Go(r, "ok")
    BY <1>8 DEF Response
  <2>2. call' \in [Calls -> CallState]
    BY <1>1, <2>1, GoFacts DEF CallPc
  <2>3. muddled' \subseteq Clients \X Servers
    BY <1>8, MuddleFacts DEF Response
  <2>4. UNCHANGED <<listening, running, open, maps>>
    BY <1>8 DEF Response
  <2> QED
    BY <1>1, <2>2, <2>3, <2>4, TypeAside
<1>9. ASSUME NEW r \in Calls, OldResponse(r) PROVE TypeOK' /\ UniqueKeys'
  <2>1. Go(r, "failed") \/ Go(r, "ok")
    BY <1>9 DEF OldResponse
  <2>2. call' \in [Calls -> CallState]
    BY <1>1, <2>1, GoFacts DEF CallPc
  <2> QED
    BY <1>1, <1>9, <2>2, TypeAside DEF OldResponse
<1>10. ASSUME NEW r \in Calls, StoreReceived(r) \/ StoreGenerated(r)
       PROVE  TypeOK' /\ UniqueKeys'
  <2>1. Go(r, "storeGenerated") \/ Go(r, "ok")
    BY <1>10 DEF StoreReceived, StoreGenerated
  <2>2. call' \in [Calls -> CallState]
    BY <1>1, <2>1, GoFacts DEF CallPc
  <2>3. call[r].client \in Devices /\ call[r].server \in Address
    BY <1>1, CallFacts DEF Address
  <2> QED
    BY <1>10, <2>2, <2>3, TypeWrite DEF StoreReceived, StoreGenerated
<1>11. ASSUME NEW r \in Calls, Broken(r) PROVE TypeOK' /\ UniqueKeys'
  <2>1. call' \in [Calls -> CallState]
    BY <1>1, <1>11, GoFacts DEF Broken, CallPc
  <2>2. muddled' \subseteq Clients \X Servers
    BY <1>11, MuddleFacts DEF Broken
  <2> QED
    BY <1>1, <1>11, <2>1, <2>2, TypeAside DEF Broken
<1> QED
  BY <1>2, <1>3, <1>4, <1>5, <1>6, <1>7, <1>8, <1>9, <1>10, <1>11
     DEF Next, Serving, Calling

-----------------------------------------------------------------------------
(* The nonces of a pair. *)

AgreeParts == Exchanges /\ OneExchange /\ WayBack /\ AtRest

\* Call r goes on to the next step, and the others stay.
OneStep(r) ==
    /\ call \in [Calls -> CallState] /\ call' \in [Calls -> CallState]
    /\ \A q \in Calls \ {r} : call'[q] = call[q]
    /\ call'[r].client = call[r].client /\ call'[r].server = call[r].server
    /\ muddled \subseteq muddled'

\* What the step does to the calls alone: r is or becomes an exchange only if it
\* is the one of its pair.
LEMMA ExchangeStep ==
    ASSUME NEW r \in Calls, OneStep(r), Exchanges, OneExchange,
           call'[r].pc \in {"save", "generate", "store", "storeGenerated"} =>
              call'[r].path = "nonce",
           call'[r].path = "nonce" /\ call'[r].pc \in UnderWay =>
              \/ call[r].path = "nonce" /\ call[r].pc \in UnderWay
              \/ Overlapping(r) = {} \/ Pair(r) \in muddled'
    PROVE  Exchanges' /\ OneExchange'
<1>1. \A q \in Calls : Pair(q)' = Pair(q)
  BY DEF OneStep, Pair
<1>2. Exchanges'
  BY DEF Exchanges, OneStep
<1>3. ASSUME NEW q \in Calls \ {r}, Pair(q) = Pair(r), Pair(r) \notin muddled',
             call'[r].path = "nonce", call'[r].pc \in UnderWay,
             call[q].path = "nonce", call[q].pc \in UnderWay
      PROVE  FALSE
  <2>1. q \in Overlapping(r)
    BY <1>3 DEF Overlapping
  <2>2. call[r].path = "nonce" /\ call[r].pc \in UnderWay /\ Pair(r) \notin muddled
    BY <1>3, <2>1 DEF OneStep
  <2> QED
    BY <1>3, <2>2 DEF OneExchange
<1>4. OneExchange'
  <2> SUFFICES ASSUME NEW p \in Calls, NEW q \in Calls,
                      Pair(p) = Pair(q), Pair(p) \notin muddled',
                      call'[p].path = "nonce", call'[q].path = "nonce",
                      call'[p].pc \in UnderWay, call'[q].pc \in UnderWay
               PROVE  p = q
    BY <1>1 DEF OneExchange, UnderWay
  <2>1. CASE p # r /\ q # r
    BY <2>1 DEF OneExchange, OneStep
  <2>2. CASE p = r /\ q # r
    BY <1>3, <2>2 DEF OneStep
  <2>3. CASE p # r /\ q = r
    BY <1>3, <2>3 DEF OneStep
  <2> QED
    BY <2>1, <2>2, <2>3
<1> QED
  BY <1>2, <1>4

\* A step that writes none of the maps an exchange is kept in: r is not ahead
\* afterwards, unless it was before, and if it is no longer it is muddled.
LEMMA AgreeAside ==
    ASSUME NEW r \in Calls, OneStep(r), WayBack, AtRest,
           \A s \in Servers : maps'[s].generated = maps[s].generated,
           \A c \in Clients : maps'[c].received = maps[c].received,
           Ahead(r)' => Ahead(r),
           Ahead(r) => Ahead(r)' \/ Pair(r) \in muddled',
           call'[r].pc # "storeGenerated"
    PROVE  WayBack' /\ AtRest'
<1>1. \A q \in Calls : /\ Pair(q)' = Pair(q)
                       /\ call'[q].client = call[q].client /\ call'[q].server = call[q].server
                       /\ call[q].client \in Clients /\ call[q].server \in Servers
  BY CallFacts DEF OneStep, Pair
<1>2. \A q \in Calls : /\ Ahead(q)' => Ahead(q)
                       /\ call'[q].pc = "storeGenerated" => call[q].pc = "storeGenerated"
                       /\ Ahead(q) => Ahead(q)' \/ Pair(q) \in muddled'
  BY DEF OneStep, Ahead
<1>3. \A c \in Clients, s \in Servers : Orderly(c, s)' => Orderly(c, s)
  BY DEF OneStep, Orderly
<1>4. WayBack'
  <2> SUFFICES ASSUME NEW q \in Calls, Orderly(call[q].client, call[q].server)'
               PROVE  /\ Ahead(q)' \/ call'[q].pc = "storeGenerated" =>
                            Kept(maps'[call[q].server].generated, identifier(call[q].client, call[q].server), q)
                      /\ call'[q].pc = "storeGenerated" =>
                            Kept(maps'[call[q].client].received, call[q].server, q)
    BY <1>1 DEF WayBack, Kept, Orderly
  <2>1. Orderly(call[q].client, call[q].server)
    BY <1>1, <1>3
  <2> QED
    BY <1>1, <1>2, <2>1 DEF WayBack
<1>5. AtRest'
  <2> SUFFICES ASSUME NEW c \in Clients, NEW s \in Servers, Orderly(c, s)',
                      \A q \in Calls : Pair(q) = <<c, s>> => ~Ahead(q)'
               PROVE  Agree(c, s)'
    BY <1>1 DEF AtRest
  <2>1. \A q \in Calls : Pair(q) = <<c, s>> => ~Ahead(q)
    BY <1>2 DEF Orderly
  <2>2. Agree(c, s)
    BY <1>3, <2>1 DEF AtRest
  <2> QED
    BY <2>2 DEF Agree
<1> QED
  BY <1>4, <1>5

LEMMA KeptFacts ==
    ASSUME NEW map \in Map, Unique(map), NEW key \in Address, NEW nonce \in Calls, NEW t,
           t = Touched(map, key, nonce)
    PROVE  /\ Kept(t, key, nonce)
           /\ About(t, key) = {nonce}
           /\ \A k \in Address \ {key} :
                 /\ About(t, k) = About(map, k) \/ Evicted(t, k)
                 /\ Evicted(map, k) => Evicted(t, k)
                 /\ \A q : Kept(map, k, q) => Kept(t, k, q)
  BY TouchedFacts DEF Kept

\* The server makes its nonce, the newest of the exchanges with this client.
LEMMA GenerateAgree ==
    ASSUME TypeOK, UniqueKeys, AgreeParts, NEW r \in Calls, GenerateNonce(r)
    PROVE  AgreeParts'
<1> DEFINE c0 == call[r].client
           s0 == call[r].server
           key == identifier(c0, s0)
<1>1. call \in [Calls -> CallState]
  BY DEF TypeOK
<1>2. /\ call' \in [Calls -> CallState] /\ \A q \in Calls \ {r} : call'[q] = call[q]
      /\ call'[r].client = c0 /\ call'[r].server = s0
      /\ call'[r].pc = "reply" /\ call'[r].path = call[r].path /\ call'[r].status = 200
      /\ call[r].pc = "generate" /\ muddled' = muddled
      /\ Save(s0, "generated", key, r)
  BY <1>1, ReplyFacts DEF GenerateNonce, Statuses
<1>3. c0 \in Clients /\ s0 \in Servers /\ s0 \in Devices /\ key \in Address
      /\ \A q \in Calls : call[q].client \in Clients /\ call[q].server \in Servers
      /\ \A c \in Clients : c # s0 /\ c \in Devices
      /\ \A s \in Servers : s \in Devices
  BY <1>1, CallFacts, IdentifierFacts DEF Devices
<1>4. /\ maps'[s0].generated = Touched(maps[s0].generated, key, r)
      /\ \A s \in Servers \ {s0} : maps'[s] = maps[s]
      /\ \A c \in Clients : maps'[c] = maps[c]
  BY <1>2, <1>3, TypeTwoMaps, SaveFacts
<1>5. maps[s0].generated \in Map /\ Unique(maps[s0].generated)
  BY <1>3 DEF TypeOK, UniqueKeys
<1>6. call[r].path = "nonce"
  BY <1>2 DEF AgreeParts, Exchanges
<1> HIDE DEF key
<1>7. /\ Kept(maps'[s0].generated, key, r)
      /\ \A k \in Address \ {key} :
            /\ \/ About(maps'[s0].generated, k) = About(maps[s0].generated, k)
               \/ Evicted(maps'[s0].generated, k)
            /\ Evicted(maps[s0].generated, k) => Evicted(maps'[s0].generated, k)
            /\ \A q : Kept(maps[s0].generated, k, q) => Kept(maps'[s0].generated, k, q)
  BY <1>3, <1>4, <1>5, KeptFacts
<1>8. \A q \in Calls : /\ Pair(q)' = Pair(q)
                       /\ call'[q].client = call[q].client /\ call'[q].server = call[q].server
  BY <1>2 DEF Pair
<1>9. \A c \in Clients : \A s \in Servers : Orderly(c, s)' <=> Orderly(c, s)
  BY <1>2 DEF Orderly
<1>10. \A q \in Calls \ {r} : Ahead(q)' <=> Ahead(q)
  BY <1>2 DEF Ahead
<1>11. ASSUME NEW c \in Clients \ {c0}, s0 \in Tls \/ c \notin SharedIp
       PROVE  identifier(c, s0) \in Address \ {key}
  BY <1>3, <1>11, IdentifierFacts DEF key
<1>12. Exchanges' /\ OneExchange'
  BY <1>1, <1>2, <1>6, ExchangeStep DEF OneStep, AgreeParts, UnderWay
<1>13. ASSUME NEW q \in Calls, Orderly(call[q].client, call[q].server)
       PROVE  /\ Ahead(q)' \/ call'[q].pc = "storeGenerated" =>
                    Kept(maps'[call[q].server].generated, identifier(call[q].client, call[q].server), q)
              /\ call'[q].pc = "storeGenerated" =>
                    Kept(maps'[call[q].client].received, call[q].server, q)
  <2>1. CASE q = r
    BY <1>2, <1>7, <2>1 DEF key
  <2>2. CASE q # r
    <3> SUFFICES ASSUME Ahead(q) \/ call[q].pc = "storeGenerated"
                 PROVE  /\ Kept(maps'[call[q].server].generated, identifier(call[q].client, call[q].server), q)
                        /\ call[q].pc = "storeGenerated" =>
                              Kept(maps[call[q].client].received, call[q].server, q)
      BY <1>2, <1>3, <1>4, <1>10, <2>2
    <3>1. /\ Kept(maps[call[q].server].generated, identifier(call[q].client, call[q].server), q)
          /\ call[q].pc = "storeGenerated" =>
                Kept(maps[call[q].client].received, call[q].server, q)
      BY <1>13 DEF AgreeParts, WayBack
    <3>2. CASE call[q].server # s0
      BY <1>3, <1>4, <3>1, <3>2
    <3>3. CASE call[q].server = s0 /\ call[q].client # c0
      <4>1. identifier(call[q].client, call[q].server) \in Address \ {key}
        BY <1>3, <1>11, <1>13, <3>3 DEF Orderly
      <4> QED
        BY <1>7, <3>1, <3>3, <4>1
    <3>4. CASE call[q].server = s0 /\ call[q].client = c0
      <4>1. Pair(q) = Pair(r) /\ Pair(q) \notin muddled
        BY <1>13, <3>4 DEF Pair, Orderly
      <4>2. call[q].path = "nonce" /\ call[q].pc \in UnderWay
        BY DEF Ahead, AgreeParts, Exchanges, UnderWay
      <4>3. call[r].pc \in UnderWay
        BY <1>2 DEF UnderWay
      <4>4. q = r
        BY <1>6, <4>1, <4>2, <4>3 DEF AgreeParts, OneExchange
      <4> QED
        BY <2>2, <4>4
    <3> QED
      BY <3>2, <3>3, <3>4
  <2> QED
    BY <2>1, <2>2
<1>14. WayBack'
  BY <1>3, <1>8, <1>9, <1>13 DEF WayBack
<1>15. AtRest'
  <2> SUFFICES ASSUME NEW c \in Clients, NEW s \in Servers, Orderly(c, s),
                      \A q \in Calls : Pair(q) = <<c, s>> => ~Ahead(q)'
               PROVE  Agree(c, s)'
    BY <1>8, <1>9 DEF AtRest
  <2>1. Ahead(r)' /\ Pair(r) = <<c0, s0>>
    BY <1>2, <1>6 DEF Ahead, Pair
  <2>2. <<c, s>> # <<c0, s0>>
    BY <2>1
  <2>3. \A q \in Calls : Pair(q) = <<c, s>> => ~Ahead(q)
    BY <1>10, <2>1, <2>2
  <2>4. Agree(c, s)
    BY <2>3 DEF AgreeParts, AtRest
  <2>5. CASE s # s0
    BY <1>4, <2>4, <2>5 DEF Agree
  <2>6. CASE s = s0 /\ c # c0
    <3>1. identifier(c, s0) \in Address \ {key}
      BY <1>11, <2>6 DEF Orderly
    <3>2. maps'[c] = maps[c]
      BY <1>4
    <3> QED
      BY <1>7, <2>4, <2>6, <3>1, <3>2 DEF Agree
  <2> QED
    BY <2>2, <2>5, <2>6
<1> QED
  BY <1>12, <1>14, <1>15 DEF AgreeParts

\* The client saves the nonce of the exchange that the server still has.
LEMMA StoreAgree ==
    ASSUME TypeOK, UniqueKeys, AgreeParts, NEW r \in Calls, StoreReceived(r)
    PROVE  AgreeParts'
<1> DEFINE c0 == call[r].client
           s0 == call[r].server
<1>1. call \in [Calls -> CallState]
  BY DEF TypeOK
<1>2. /\ call' \in [Calls -> CallState] /\ \A q \in Calls \ {r} : call'[q] = call[q]
      /\ call'[r].client = c0 /\ call'[r].server = s0
      /\ call'[r].pc = "storeGenerated" /\ call'[r].path = call[r].path
      /\ call[r].pc = "store" /\ muddled' = muddled
      /\ Save(c0, "received", s0, r)
      /\ \A q \in Calls \ {r} : call[q].client = c0 => call[q].pc # "storeGenerated"
  BY <1>1, GoFacts DEF StoreReceived, ClientLocked, CallPc
<1>3. c0 \in Clients /\ s0 \in Servers /\ c0 \in Devices /\ s0 \in Address
      /\ \A q \in Calls : call[q].client \in Clients /\ call[q].server \in Servers
      /\ \A s \in Servers : c0 # s /\ s \in Devices /\ s \in Address
      /\ \A c \in Clients : c \in Devices
  BY <1>1, CallFacts DEF Devices, Address
<1>4. /\ maps'[c0].received = Touched(maps[c0].received, s0, r)
      /\ \A c \in Clients \ {c0} : maps'[c] = maps[c]
      /\ \A s \in Servers : maps'[s] = maps[s]
  BY <1>2, <1>3, TypeTwoMaps, SaveFacts
<1>5. maps[c0].received \in Map /\ Unique(maps[c0].received)
  BY <1>3 DEF TypeOK, UniqueKeys
<1>6. call[r].path = "nonce" /\ Ahead(r)
  BY <1>2 DEF AgreeParts, Exchanges, Ahead
<1>7. /\ Kept(maps'[c0].received, s0, r) /\ About(maps'[c0].received, s0) = {r}
      /\ \A k \in Address \ {s0} :
            /\ \/ About(maps'[c0].received, k) = About(maps[c0].received, k)
               \/ Evicted(maps'[c0].received, k)
            /\ Evicted(maps[c0].received, k) => Evicted(maps'[c0].received, k)
  BY <1>3, <1>4, <1>5, KeptFacts
<1>8. \A q \in Calls : /\ Pair(q)' = Pair(q)
                       /\ call'[q].client = call[q].client /\ call'[q].server = call[q].server
  BY <1>2 DEF Pair
<1>9. \A c \in Clients : \A s \in Servers : Orderly(c, s)' <=> Orderly(c, s)
  BY <1>2 DEF Orderly
<1>10. \A q \in Calls \ {r} : Ahead(q)' <=> Ahead(q)
  BY <1>2 DEF Ahead
<1>11. Exchanges' /\ OneExchange'
  BY <1>1, <1>2, <1>6, ExchangeStep DEF OneStep, AgreeParts, UnderWay
<1>12. ASSUME Orderly(c0, s0) PROVE Kept(maps[s0].generated, identifier(c0, s0), r)
  BY <1>6, <1>12 DEF AgreeParts, WayBack
<1>13. ASSUME NEW q \in Calls, Orderly(call[q].client, call[q].server)
       PROVE  /\ Ahead(q)' \/ call'[q].pc = "storeGenerated" =>
                    Kept(maps'[call[q].server].generated, identifier(call[q].client, call[q].server), q)
              /\ call'[q].pc = "storeGenerated" =>
                    Kept(maps'[call[q].client].received, call[q].server, q)
  <2>1. CASE q = r
    BY <1>3, <1>4, <1>7, <1>12, <1>13, <2>1
  <2>2. CASE q # r
    <3>1. /\ Ahead(q) \/ call[q].pc = "storeGenerated" =>
                Kept(maps[call[q].server].generated, identifier(call[q].client, call[q].server), q)
          /\ call[q].pc = "storeGenerated" =>
                Kept(maps[call[q].client].received, call[q].server, q)
      BY <1>13 DEF AgreeParts, WayBack
    <3> QED
      BY <1>2, <1>3, <1>4, <1>10, <2>2, <3>1
  <2> QED
    BY <2>1, <2>2
<1>14. WayBack'
  BY <1>3, <1>8, <1>9, <1>13 DEF WayBack
<1>15. AtRest'
  <2> SUFFICES ASSUME NEW c \in Clients, NEW s \in Servers, Orderly(c, s),
                      \A q \in Calls : Pair(q) = <<c, s>> => ~Ahead(q)'
               PROVE  Agree(c, s)'
    BY <1>8, <1>9 DEF AtRest
  <2>1. CASE c = c0 /\ s = s0
    <3>1. Kept(maps'[s0].generated, identifier(c0, s0), r)
      BY <1>3, <1>4, <1>12, <2>1
    <3> QED
      BY <1>7, <2>1, <3>1 DEF Agree, Kept
  <2>2. CASE <<c, s>> # <<c0, s0>>
    <3>1. \A q \in Calls : Pair(q) = <<c, s>> => ~Ahead(q)
      BY <1>10, <2>2 DEF Pair
    <3>2. Agree(c, s)
      BY <3>1 DEF AgreeParts, AtRest
    <3>3. CASE c # c0
      BY <1>4, <3>2, <3>3 DEF Agree
    <3>4. CASE c = c0 /\ s # s0
      <4>1. s \in Address \ {s0} /\ maps'[s] = maps[s]
        BY <1>3, <1>4, <3>4
      <4> QED
        BY <1>7, <3>2, <3>4, <4>1 DEF Agree
    <3> QED
      BY <2>2, <3>3, <3>4
  <2> QED
    BY <2>1, <2>2
<1> QED
  BY <1>11, <1>14, <1>15 DEF AgreeParts

\* A step of call r that writes no map, or one that no exchange is kept in.
LEMMA AsideAgree ==
    ASSUME NEW r \in Calls, OneStep(r), AgreeParts,
           \A s \in Servers : maps'[s].generated = maps[s].generated,
           \A c \in Clients : maps'[c].received = maps[c].received,
           call'[r].pc \in {"save", "generate", "store"} => call'[r].path = "nonce",
           call'[r].path = "nonce" /\ call'[r].pc \in UnderWay =>
              \/ call[r].path = "nonce" /\ call[r].pc \in UnderWay
              \/ Overlapping(r) = {} \/ Pair(r) \in muddled',
           Ahead(r)' => Ahead(r),
           Ahead(r) => Ahead(r)' \/ Pair(r) \in muddled',
           call'[r].pc # "storeGenerated"
    PROVE  AgreeParts'
<1>1. Exchanges' /\ OneExchange'
  BY ExchangeStep DEF AgreeParts
<1>2. WayBack' /\ AtRest'
  BY AgreeAside DEF AgreeParts
<1> QED
  BY <1>1, <1>2 DEF AgreeParts

LEMMA AgreeStep ==
    ASSUME TypeOK, UniqueKeys, AgreeParts, [Next]_vars
    PROVE  AgreeParts'
<1>1. call \in [Calls -> CallState]
  BY DEF TypeOK
<1>2. ASSUME UNCHANGED <<call, maps, muddled>> PROVE AgreeParts'
  BY <1>2 DEF AgreeParts, Exchanges, OneExchange, WayBack, AtRest, Pair, Orderly, Ahead,
              Kept, Agree
<1>3. ASSUME NEW r \in Calls, NEW ok \in BOOLEAN, Accept(r, ok) PROVE AgreeParts'
  <2>1. PICK pc \in {"accepted", "failed"} : Go(r, pc)
    BY <1>3 DEF Accept
  <2>2. OneStep(r) /\ call'[r].pc = pc /\ call'[r].path = call[r].path /\ muddled' = muddled
    BY <1>1, <1>3, <2>1, GoFacts DEF Accept, OneStep, CallPc
  <2>3. call[r].pc = "sent" /\ maps' = maps
    BY <1>3 DEF Accept
  <2> QED
    BY <2>2, <2>3, AsideAgree DEF Ahead, UnderWay
<1>4. ASSUME NEW r \in Calls, NEW status \in Statuses, Handle(r, status) PROVE AgreeParts'
  <2>1. call[r].pc = "accepted" /\ maps' = maps /\ muddled' = muddled
    BY <1>4 DEF Handle
  <2>2. CASE Go(r, "save") /\ call[r].path = "nonce"
    <3>1. /\ OneStep(r) /\ call'[r].pc = "save" /\ call'[r].path = call[r].path
      BY <1>1, <2>1, <2>2, GoFacts DEF OneStep, CallPc
    <3> QED
      BY <2>1, <2>2, <3>1, AsideAgree DEF Ahead, UnderWay
  <2>3. CASE Reply(r, status) /\ ~(call[r].path = "nonce" /\ status = 200)
    <3>1. /\ OneStep(r) /\ call'[r].pc = "reply" /\ call'[r].path = call[r].path
          /\ call'[r].status = status
      BY <1>1, <2>1, <2>3, ReplyFacts DEF OneStep
    <3> QED
      BY <2>1, <2>3, <3>1, AsideAgree DEF Ahead, UnderWay
  <2> QED
    BY <1>4, <2>2, <2>3 DEF Handle, Handler
<1>5. ASSUME NEW r \in Calls, SaveNonce(r) PROVE AgreeParts'
  <2>1. /\ OneStep(r) /\ call'[r].pc = "generate" /\ call'[r].path = call[r].path
        /\ call[r].pc = "save" /\ muddled' = muddled
        /\ Save(call[r].server, "received", identifier(call[r].client, call[r].server), r)
    BY <1>1, <1>5, GoFacts DEF SaveNonce, OneStep, CallPc
  <2>2. call[r].path = "nonce"
    BY <2>1 DEF AgreeParts, Exchanges
  <2>3. call[r].server \in Devices /\ \A c \in Clients : c # call[r].server /\ c \in Devices
    BY <1>1, CallFacts DEF Devices
  <2>4. /\ \A s \in Servers : maps'[s].generated = maps[s].generated
        /\ \A c \in Clients : maps'[c].received = maps[c].received
    BY <2>1, <2>3, TypeTwoMaps, SaveFacts DEF Devices
  <2> QED
    BY <2>1, <2>2, <2>4, AsideAgree DEF Ahead, UnderWay
<1>6. ASSUME NEW r \in Calls, NEW path \in Paths, ClientSends(r, path) PROVE AgreeParts'
  <2>1. /\ call' \in [Calls -> CallState]
        /\ call'[r].pc = "sent" /\ call'[r].client = call[r].client
        /\ call'[r].server = call[r].server /\ call'[r].path = path
        /\ \A q \in Calls \ {r} : call'[q] = call[q]
    BY <1>6, SendFacts
  <2>2. /\ muddled \subseteq muddled'
        /\ path = "nonce" /\ Overlapping(r) # {} => Pair(r) \in muddled'
    BY <1>6, MuddleFacts DEF ClientSends
  <2>3. OneStep(r) /\ maps' = maps /\ call[r].pc = "idle"
    BY <1>1, <1>6, <2>1, <2>2 DEF ClientSends, OneStep
  <2> QED
    BY <2>1, <2>2, <2>3, AsideAgree DEF Ahead
<1>7. ASSUME NEW r \in Calls, NEW readable \in BOOLEAN, Response(r, readable) PROVE AgreeParts'
  <2>1. /\ call[r].pc = "reply" /\ maps' = maps
        /\ Go(r, IF ~Accepted(r, readable) THEN "failed"
                 ELSE IF call[r].path = "nonce" THEN "store" ELSE "ok")
        /\ Muddle(r, call[r].path, call[r].status = 200 /\ ~Accepted(r, readable))
    BY <1>7 DEF Response
  <2>2. ASSUME NEW wrong \in BOOLEAN, wrong = (call[r].status = 200 /\ ~Accepted(r, readable)),
               Muddle(r, call[r].path, wrong)
        PROVE  /\ muddled \subseteq muddled'
               /\ call[r].path = "nonce" /\ wrong => Pair(r) \in muddled'
    BY <2>2 DEF Muddle
  <2>3. /\ muddled \subseteq muddled'
        /\ call[r].path = "nonce" /\ call[r].status = 200 /\ ~Accepted(r, readable) =>
              Pair(r) \in muddled'
    BY <2>1, <2>2
  <2>4. CASE Accepted(r, readable) /\ call[r].path = "nonce"
    <3>1. Go(r, "store") /\ call[r].status = 200
      BY <2>1, <2>4 DEF Accepted
    <3>2. /\ OneStep(r) /\ call'[r].pc = "store" /\ call'[r].path = call[r].path
      BY <1>1, <2>3, <3>1, GoFacts DEF OneStep, CallPc
    <3> QED
      BY <2>1, <2>4, <3>1, <3>2, AsideAgree DEF Ahead, UnderWay
  <2>5. CASE ~(Accepted(r, readable) /\ call[r].path = "nonce")
    <3>1. PICK pc \in {"failed", "ok"} : Go(r, pc)
      BY <2>1, <2>5
    <3>2. /\ OneStep(r) /\ call'[r].pc = pc /\ call'[r].path = call[r].path
      BY <1>1, <2>3, <3>1, GoFacts DEF OneStep, CallPc
    <3> QED
      BY <2>1, <2>3, <2>5, <3>2, AsideAgree DEF Ahead, UnderWay
  <2> QED
    BY <2>4, <2>5
<1>8. ASSUME NEW r \in Calls, OldResponse(r) PROVE AgreeParts'
  <2>1. PICK pc \in {"failed", "ok"} : Go(r, pc)
    BY <1>8 DEF OldResponse
  <2>2. /\ OneStep(r) /\ call'[r].pc = pc /\ call'[r].path = call[r].path
        /\ maps' = maps /\ call[r].path # "nonce"
    BY <1>1, <1>8, <2>1, GoFacts DEF OldResponse, OneStep, CallPc, v2Paths
  <2> QED
    BY <2>2, AsideAgree DEF Ahead, UnderWay
<1>9. ASSUME NEW r \in Calls, StoreGenerated(r) PROVE AgreeParts'
  <2>1. /\ OneStep(r) /\ call'[r].pc = "ok" /\ call'[r].path = call[r].path
        /\ call[r].pc = "storeGenerated" /\ muddled' = muddled
        /\ Save(call[r].client, "generated", call[r].server, r)
    BY <1>1, <1>9, GoFacts DEF StoreGenerated, OneStep, CallPc
  <2>2. call[r].client \in Devices /\ \A s \in Servers : s # call[r].client /\ s \in Devices
    BY <1>1, CallFacts DEF Devices
  <2>3. /\ \A s \in Servers : maps'[s].generated = maps[s].generated
        /\ \A c \in Clients : maps'[c].received = maps[c].received
    BY <2>1, <2>2, TypeTwoMaps, SaveFacts DEF Devices
  <2> QED
    BY <2>1, <2>3, AsideAgree DEF Ahead, UnderWay
<1>10. ASSUME NEW r \in Calls, Broken(r) PROVE AgreeParts'
  <2>1. /\ call[r].pc \in {"sent", "accepted", "save", "reply"} /\ maps' = maps
        /\ Go(r, "failed") /\ Muddle(r, call[r].path, call[r].pc = "reply")
    BY <1>10 DEF Broken
  <2>2. /\ muddled \subseteq muddled'
        /\ call[r].path = "nonce" /\ call[r].pc = "reply" => Pair(r) \in muddled'
    BY <2>1, MuddleFacts
  <2>3. /\ OneStep(r) /\ call'[r].pc = "failed" /\ call'[r].path = call[r].path
    BY <1>1, <2>1, <2>2, GoFacts DEF OneStep, CallPc
  <2> QED
    BY <2>1, <2>2, <2>3, AsideAgree DEF Ahead, UnderWay
<1>11. ASSUME NEW s \in Servers, Lifecycle(s) PROVE AgreeParts'
  BY <1>2, <1>11 DEF Lifecycle, ListenerBinds, AcceptFails, Stop
<1>12. CASE UNCHANGED vars
  BY <1>2, <1>12 DEF vars
<1> QED
  BY <1>3, <1>4, <1>5, <1>6, <1>7, <1>8, <1>9, <1>10, <1>11, <1>12, GenerateAgree, StoreAgree
     DEF Next, Serving, Calling

LEMMA InitAgree == Init => AgreeInv
<1> SUFFICES ASSUME Init PROVE AgreeInv
  OBVIOUS
<1>1. /\ call \in [Calls -> CallState] /\ \A r \in Calls : call[r].pc = "idle"
  BY PathsAssumption DEF Init, CallState, CallPc, Statuses
<1>2. <<>> \in Map /\ Unique(<<>>) /\ \A key : About(<<>>, key) = {}
  BY SettingsAssumption DEF Map, Unique, About, ToSet
<1>3. \A d \in Devices : maps[d] = [received |-> <<>>, generated |-> <<>>]
  BY DEF Init, Devices, Empty
<1>4. TypeOK
  BY <1>1, <1>2 DEF Init, TypeOK, Empty
<1>5. UniqueKeys
  BY <1>2, <1>3 DEF UniqueKeys
<1>6. Exchanges /\ OneExchange /\ WayBack
  BY <1>1 DEF Exchanges, OneExchange, WayBack, Ahead, UnderWay
<1>7. AtRest
  <2>1. \A s \in Servers : \A c \in Clients :
           maps[s].generated = <<>> /\ maps[c].received = <<>>
    BY <1>3 DEF Devices
  <2>2. \A s \in Servers : \A c \in Clients : Agree(c, s)
    BY <1>2, <2>1 DEF Agree
  <2> QED
    BY <2>2 DEF AtRest
<1> QED
  BY <1>4, <1>5, <1>6, <1>7 DEF AgreeInv

LEMMA AgreeInductive == AgreeInv /\ [Next]_vars => AgreeInv'
  BY TypeStep, AgreeStep DEF AgreeInv, AgreeParts

-----------------------------------------------------------------------------
(* The theorems about the exchange. *)

\* The state has the types of TypeOK; in particular no map grows beyond its size.
THEOREM HttpTypeCorrect == Spec => []TypeOK
<1>1. AgreeInv => TypeOK
  BY DEF AgreeInv
<1> QED
  BY <1>1, InitAgree, AgreeInductive, PTL DEF Spec

\* A client and a server whose exchanges went one after the other and succeeded
\* agree on the nonces of the last one, whatever the other calls of both devices
\* do, unless one of them has evicted it.
THEOREM OrderlyPairsCorrect == Spec => []OrderlyPairsAgree
<1>1. ASSUME AgreeInv PROVE OrderlyPairsAgree
  <2> SUFFICES ASSUME NEW c \in Clients, NEW s \in Servers, Quiet(c, s), Orderly(c, s)
               PROVE  Agree(c, s)
    BY DEF OrderlyPairsAgree, Agree, Orderly
  <2>1. \A r \in Calls : Pair(r) = <<c, s>> => ~Ahead(r)
    BY DEF Quiet, Ahead
  <2> QED
    BY <1>1, <2>1 DEF AgreeInv, AtRest
<1> QED
  BY <1>1, InitAgree, AgreeInductive, PTL DEF Spec
=============================================================================
