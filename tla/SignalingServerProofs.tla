------------------------- MODULE SignalingServerProofs -------------------------
(***************************************************************************)
(* Proofs about SignalingServer, for any connections, limits and capacity: *)
(* once a connection has left nothing about it follows, and when all is    *)
(* quiet a client that was greeted first shows exactly the other members,  *)
(* in both cases but for what a receive task that was aborted while it ran *)
(* still puts.                                                             *)
(*                                                                         *)
(* The argument is about pairs: what a member's client shows of another    *)
(* connection, once its channel is read, differs from the room only by     *)
(* what the task of that other connection has yet to tell.                 *)
(***************************************************************************)
EXTENDS SignalingServer, SequenceTheorems, FiniteSetTheorems, TLAPS

\* The entries of a sequence.
In(q) == {q[i] : i \in 1..Len(q)}

\* m makes its client show x.
Announces(m, x) ==
    \/ m.type = "Hello" /\ x \in m.peers
    \/ m.type \in {"Join", "Update"} /\ m.peer = x

\* A task only tells of its own connection: handle_socket puts the joins and then
\* Hello while it registers, and that it left; the receive task puts the rest.
Own ==
    \A p \in Peers :
       /\ \A e \in In(outbox[p]["socket"]) :
             /\ e.msg.type \in {"Join", "Hello", "Left"}
             /\ e.msg.type = "Join" => e.msg.peer = p /\ e.to # p /\ pc[p] = "joining"
             /\ e.msg.type = "Left" => e.msg.peer = p /\ pc[p] = "gone"
             /\ e.msg.type = "Hello" => e.to = p /\ pc[p] = "joining"
       /\ \A e \in In(outbox[p]["receive"]) :
             /\ e.msg.type \in {"Update", "Sdp", "Error"}
             /\ e.msg.type = "Update" => e.msg.peer = p /\ e.to # p
             /\ e.msg.type = "Sdp" => e.msg.peer = p

Registered ==
    /\ IsFiniteSet(room)
    /\ \A p \in Peers : p \in room <=> pc[p] \in {"joining", "running", "closing"}

\* Where handle_socket is while its tasks run: once it unregisters, a receive task
\* that still runs was cut short.
Stages ==
    \A p \in Peers :
       /\ pc[p] \in {"free", "joining"} => send[p] = "none" /\ recv[p] = "none"
       /\ pc[p] = "running" => recv[p] \in {"running", "ending", "ended"}
       /\ pc[p] \in {"closing", "gone"} => recv[p] \notin {"running", "ending"}
       /\ recv[p] \in {"none", "ended", "stopped"} => outbox[p]["receive"] = <<>>
       /\ send[p] \in {"running", "aborted"} => pc[p] \notin {"free", "joining"}

\* Nothing has reached the client of a connection that has not been spawned.
Fresh ==
    \A p \in Peers :
       /\ pc[p] \in {"free", "joining"} => got[p] = Unserved
       /\ pc[p] = "free" => outbox[p]["socket"] = <<>> /\ chan[p] = <<>>

\* There is one Hello for each connection, the last message of its registration.
OneHello ==
    \A p \in Peers :
       /\ \A i \in 1..Len(outbox[p]["socket"]) :
             outbox[p]["socket"][i].msg.type = "Hello" => i = Len(outbox[p]["socket"])
       /\ \A i \in 1..Len(chan[p]) : chan[p][i].type = "Hello" =>
             /\ ~got[p].greeted
             /\ \A e \in In(outbox[p]["socket"]) : e.msg.type # "Hello"
             /\ \A j \in 1..Len(chan[p]) : chan[p][j].type = "Hello" => j = i

LeftMeansGone ==
    \A p \in Peers : \A m \in In(chan[p]) : m.type = "Left" => pc[m.peer] = "gone"

\* The client of p is greeted before anything else.
Clean(p) ==
    /\ ~got[p].early
    /\ got[p].greeted \/ chan[p] = <<>> \/ chan[p][1].type = "Hello"

\* The client of p shows x, or will unless it is told that x left.
Listed(p, x) ==
    \/ x \in got[p].view
    \/ \E m \in In(chan[p]) : Announces(m, x)
    \/ \E e \in In(outbox[p]["socket"]) : e.msg.type = "Hello" /\ x \in e.msg.peers

\* The handle_socket of x has yet to tell p.
Tells(x, type, p) == \E e \in In(outbox[x]["socket"]) : e.to = p /\ e.msg = About(type, x)

\* Every member knows of every other member or will be told of it.
MembersListed ==
    \A p, x \in room :
       p # x /\ Listening(p) /\ Clean(p) => Listed(p, x) \/ Tells(x, "Join", p)

\* Of one that is not in the room no member knows, or it will be told, unless
\* that one was cut short.
OthersForgotten ==
    \A p \in room, x \in Peers \ room :
       ~CutShort(x) /\ Listening(p) /\ Clean(p) /\ Listed(p, x) =>
          Tells(x, "Left", p) \/ About("Left", x) \in In(chan[p])

\* And nobody is told of itself.
SelfUnlisted == \A p \in Peers : ~Listed(p, p)

RoomInv ==
    /\ TypeOK
    /\ Own /\ Registered /\ Stages /\ Fresh /\ OneHello
    /\ LeftMeansGone /\ LeftIsFinal
    /\ MembersListed /\ OthersForgotten /\ SelfUnlisted

-----------------------------------------------------------------------------
(* Sequences. *)

LEMMA InEmpty == In(<<>>) = {}
  BY DEF In

LEMMA InTyped ==
    ASSUME NEW S, NEW q \in Seq(S)
    PROVE  In(q) \subseteq S /\ Len(q) \in Nat
  BY DEF In

LEMMA InAppend ==
    ASSUME NEW S, NEW q \in Seq(S), NEW m \in S
    PROVE  /\ Append(q, m) \in Seq(S) /\ Len(Append(q, m)) = Len(q) + 1
           /\ \A i \in 1..Len(q) : Append(q, m)[i] = q[i]
           /\ Append(q, m)[Len(q) + 1] = m
           /\ In(Append(q, m)) = In(q) \cup {m}
<1>1. /\ Append(q, m) \in Seq(S) /\ Len(Append(q, m)) = Len(q) + 1
      /\ \A i \in 1..Len(q) : Append(q, m)[i] = q[i]
      /\ Append(q, m)[Len(q) + 1] = m
  BY AppendProperties
<1>2. 1..(Len(q) + 1) = (1..Len(q)) \cup {Len(q) + 1}
  BY InTyped
<1>3. In(Append(q, m)) = In(q) \cup {m}
  BY <1>1, <1>2 DEF In
<1> QED
  BY <1>1, <1>3

LEMMA InTail ==
    ASSUME NEW S, NEW q \in Seq(S), q # <<>>
    PROVE  /\ Head(q) \in S /\ Head(q) = q[1] /\ Len(q) \in Nat \ {0}
           /\ Tail(q) \in Seq(S) /\ Len(Tail(q)) = Len(q) - 1
           /\ \A i \in 1..Len(Tail(q)) : Tail(q)[i] = q[i + 1] /\ i + 1 \in 1..Len(q)
           /\ In(q) = {Head(q)} \cup In(Tail(q))
<1>1. /\ Head(q) \in S /\ Head(q) = q[1] /\ Len(q) \in Nat \ {0}
      /\ Tail(q) \in Seq(S) /\ Len(Tail(q)) = Len(q) - 1
      /\ \A i \in 1..Len(Tail(q)) : Tail(q)[i] = q[i + 1] /\ i + 1 \in 1..Len(q)
  BY HeadTailProperties, EmptySeq
<1>2. \A i \in 1..Len(q) : i = 1 \/ (i - 1 \in 1..Len(Tail(q)) /\ (i - 1) + 1 = i)
  BY <1>1
<1>3. In(q) \subseteq {Head(q)} \cup In(Tail(q))
  <2> SUFFICES ASSUME NEW i \in 1..Len(q) PROVE q[i] \in {Head(q)} \cup In(Tail(q))
    BY DEF In
  <2>1. CASE i = 1
    BY <1>1, <2>1
  <2>2. CASE i # 1
    <3>1. i - 1 \in 1..Len(Tail(q)) /\ Tail(q)[i - 1] = q[i]
      BY <1>1, <1>2, <2>2
    <3> QED
      BY <3>1 DEF In
  <2> QED
    BY <2>1, <2>2
<1>4. {Head(q)} \cup In(Tail(q)) \subseteq In(q)
  BY <1>1 DEF In
<1> QED
  BY <1>1, <1>3, <1>4

LEMMA InConcat ==
    ASSUME NEW S, NEW s \in Seq(S), NEW m \in S
    PROVE  /\ s \o <<m>> \in Seq(S) /\ Len(s \o <<m>>) = Len(s) + 1
           /\ \A i \in 1..Len(s) : (s \o <<m>>)[i] = s[i]
           /\ In(s \o <<m>>) = In(s) \cup {m}
<1> DEFINE t == Append(s, m)
<1>1. s \o <<m>> = t
  BY AppendIsConcat
<1>2. /\ t \in Seq(S) /\ Len(t) = Len(s) + 1
      /\ \A i \in 1..Len(s) : t[i] = s[i]
      /\ In(t) = In(s) \cup {m}
  BY InAppend
<1> HIDE DEF t
<1> QED
  BY <1>1, <1>2

LEMMA InSingle ==
    ASSUME NEW S, NEW m \in S
    PROVE  <<m>> \in Seq(S) /\ Len(<<m>>) = 1 /\ <<m>>[1] = m /\ In(<<m>>) = {m}
<1>1. <<m>> \in Seq(S) /\ Len(<<m>>) = 1 /\ <<m>>[1] = m
  OBVIOUS
<1> QED
  BY <1>1 DEF In

-----------------------------------------------------------------------------
(* Messages. *)

Delivery == [to: Peers, msg: Message]

LEMMA MessageFacts ==
    ASSUME NEW m \in Message
    PROVE  /\ m.type \in {"Join", "Left", "Update", "Sdp", "Hello", "Error"}
           /\ m.type \in {"Join", "Left", "Update", "Sdp"} =>
                 m.peer \in Peers /\ m = About(m.type, m.peer)
           /\ m.type = "Hello" => m.peers \subseteq Peers
  BY DEF Message, About

LEMMA Messages ==
    /\ \A x \in Peers, type \in {"Join", "Left", "Update", "Sdp"} :
          About(type, x) \in Message /\ About(type, x).type = type /\ About(type, x).peer = x
    /\ \A peers \in SUBSET Peers :
          Hello(peers) \in Message /\ Hello(peers).type = "Hello" /\ Hello(peers).peers = peers
    /\ Error \in Message /\ Error.type = "Error"
  BY DEF Message, About, Hello, Error

\* A message to all of S is put once for each of them.
LEMMA ToAllFacts ==
    ASSUME NEW S, S \subseteq Peers, IsFiniteSet(S), NEW m \in Message, NEW q \in ToAll(S, m)
    PROVE  /\ q \in Seq(Delivery)
           /\ \A i \in 1..Len(q) : q[i].msg = m
           /\ In(q) = {[to |-> p, msg |-> m] : p \in S}
<1> DEFINE n == Cardinality(S)
<1>1. PICK f \in Orders(S) : q = [i \in DOMAIN f |-> [to |-> f[i], msg |-> m]]
  BY DEF ToAll
<1>2. f \in [1..n -> S] /\ \A i, j \in 1..n : f[i] = f[j] => i = j
  BY <1>1 DEF Orders
<1>3. n \in Nat
  BY FS_CardinalityType
<1>4. f \in Injection(1..n, S)
  BY <1>2 DEF Injection, IsInjective
<1>5. IsFiniteSet(1..n) /\ Cardinality(1..n) = n
  BY <1>3, FS_Interval
<1>6. f \in Surjection(1..n, S)
  BY <1>4, <1>5, FS_Injection
<1>7. \A p \in S : \E i \in 1..n : f[i] = p
  BY <1>6 DEF Surjection
<1> HIDE DEF n
<1>8. q = [i \in 1..n |-> [to |-> f[i], msg |-> m]]
  BY <1>1, <1>2
<1>9. q \in Seq(Delivery) /\ Len(q) = n
  BY <1>2, <1>3, <1>8 DEF Delivery
<1>10. In(q) = {[to |-> p, msg |-> m] : p \in S}
  <2>1. \A i \in 1..Len(q) : f[i] \in S /\ q[i] = [to |-> f[i], msg |-> m]
    BY <1>2, <1>8, <1>9
  <2>2. In(q) \subseteq {[to |-> p, msg |-> m] : p \in S}
    BY <2>1 DEF In
  <2>3. ASSUME NEW p \in S PROVE [to |-> p, msg |-> m] \in In(q)
    <3>1. PICK i \in 1..n : f[i] = p
      BY <1>7
    <3>2. i \in 1..Len(q) /\ q[i] = [to |-> p, msg |-> m]
      BY <1>9, <2>1, <3>1
    <3> QED
      BY <3>2 DEF In
  <2> QED
    BY <2>2, <2>3
<1> QED
  BY <1>8, <1>9, <1>10

-----------------------------------------------------------------------------
(* The steps of a connection. *)

LEMMA RoomFacts ==
    ASSUME RoomInv
    PROVE  /\ room \subseteq Peers /\ IsFiniteSet(room)
           /\ \A p \in Peers :
                 /\ chan[p] \in Seq(Message) /\ got[p] \in Client
                 /\ \A task \in Tasks : outbox[p][task] \in Seq(Delivery)
                 /\ \A m \in In(chan[p]) : m \in Message
<1>1. \A p \in Peers : /\ chan[p] \in Seq(Message) /\ got[p] \in Client
                       /\ \A task \in Tasks : outbox[p][task] \in Seq(Delivery)
  BY DEF RoomInv, TypeOK, Delivery
<1>2. \A p \in Peers : In(chan[p]) \subseteq Message
  BY <1>1, InTyped
<1>3. room \subseteq Peers /\ IsFiniteSet(room)
  BY DEF RoomInv, TypeOK, Registered
<1> QED
  BY <1>1, <1>2, <1>3

\* One task of p has other messages to put now.
LEMMA OutboxSet ==
    ASSUME RoomInv, NEW p \in Peers, NEW task \in Tasks, NEW q \in Seq(Delivery),
           outbox' = [outbox EXCEPT ![p][task] = q]
    PROVE  /\ outbox' \in [Peers -> [Tasks -> Seq([to: Peers, msg: Message])]]
           /\ \A r \in Peers :
                 /\ outbox'[r]["socket"] =
                       IF r = p /\ task = "socket" THEN q ELSE outbox[r]["socket"]
                 /\ outbox'[r]["receive"] =
                       IF r = p /\ task = "receive" THEN q ELSE outbox[r]["receive"]
<1> DEFINE D == Seq(Delivery)
<1>1. outbox \in [Peers -> [Tasks -> D]] /\ q \in D
  BY DEF RoomInv, TypeOK, Delivery
<1> HIDE DEF D
<1>2. "socket" \in Tasks /\ "receive" \in Tasks
  BY DEF Tasks
<1>3. outbox' \in [Peers -> [Tasks -> D]]
  BY <1>1
<1>4. \A r \in Peers, u \in Tasks :
         outbox'[r][u] = IF r = p /\ u = task THEN q ELSE outbox[r][u]
  BY <1>1
<1> QED
  BY <1>2, <1>3, <1>4 DEF D, Delivery

LEMMA TaskNames == "socket" \in Tasks /\ "receive" \in Tasks
  BY DEF Tasks

\* A step that moves no message: a task begins or ends, or the receive task has
\* other messages to put.
LEMMA MessagesKept ==
    ASSUME RoomInv, TypeOK', UNCHANGED <<room, chan, got>>,
           \A r \in Peers :
              /\ outbox'[r]["socket"] = outbox[r]["socket"]
              /\ \A e \in In(outbox'[r]["receive"]) :
                    /\ e.msg.type \in {"Update", "Sdp", "Error"}
                    /\ e.msg.type = "Update" => e.msg.peer = r /\ e.to # r
                    /\ e.msg.type = "Sdp" => e.msg.peer = r
              /\ pc'[r] = pc[r] \/ (pc[r] # "gone" /\ In(outbox[r]["socket"]) = {})
              /\ CutShort(r) => CutShort(r)'
              /\ Listening(r)' => Listening(r) \/ r \notin room,
           Registered', Stages', Fresh'
    PROVE  RoomInv'
<1>1. room' = room /\ chan' = chan /\ got' = got
  OBVIOUS
<1>2. Own'
  BY DEF RoomInv, Own
<1>3. OneHello'
  BY <1>1 DEF RoomInv, OneHello
<1>4. \A q \in Peers : \A m \in In(chan[q]) : m.type = "Left" => m.peer \in Peers
  BY RoomFacts, MessageFacts
<1>5. LeftMeansGone'
  BY <1>1, <1>4 DEF RoomInv, LeftMeansGone
<1>6. LeftIsFinal'
  <2> SUFFICES ASSUME NEW q \in Peers, NEW i \in 1..Len(chan[q]), NEW j \in 1..Len(chan[q]),
                      i < j, chan[q][i].type = "Left",
                      chan[q][j].type \in {"Join", "Update", "Sdp"},
                      chan[q][j].peer = chan[q][i].peer
               PROVE  chan[q][j].type # "Join" /\ CutShort(chan[q][j].peer)'
    BY <1>1 DEF LeftIsFinal
  <2>1. chan[q][j].type # "Join" /\ CutShort(chan[q][j].peer)
    BY DEF RoomInv, LeftIsFinal
  <2>2. chan[q][i].peer \in Peers
    BY <1>4 DEF In
  <2> QED
    BY <2>1, <2>2
<1>7. \A r, x \in Peers : /\ Clean(r)' <=> Clean(r)
                          /\ Listed(r, x)' <=> Listed(r, x)
  BY <1>1 DEF Clean, Listed
<1>8. \A x, r \in Peers, type \in {"Join", "Left"} : Tells(x, type, r)' <=> Tells(x, type, r)
  BY DEF Tells
<1>9. MembersListed' /\ OthersForgotten' /\ SelfUnlisted'
  <2>1. MembersListed'
    BY <1>1, <1>7, <1>8, RoomFacts DEF RoomInv, MembersListed
  <2>2. OthersForgotten'
    <3> SUFFICES ASSUME NEW r \in room, NEW x \in Peers \ room, ~CutShort(x)', Listening(r)',
                        Clean(r)', Listed(r, x)'
                 PROVE  Tells(x, "Left", r)' \/ About("Left", x) \in In(chan[r])
      BY <1>1 DEF OthersForgotten
    <3>1. r \in Peers /\ ~CutShort(x) /\ Listening(r) /\ Clean(r) /\ Listed(r, x)
      BY <1>7, RoomFacts
    <3>2. Tells(x, "Left", r) \/ About("Left", x) \in In(chan[r])
      BY <3>1 DEF RoomInv, OthersForgotten
    <3> QED
      BY <1>8, <3>1, <3>2
  <2>3. SelfUnlisted'
    BY <1>7 DEF RoomInv, SelfUnlisted
  <2> QED
    BY <2>1, <2>2, <2>3
<1> QED
  BY <1>2, <1>3, <1>5, <1>6, <1>9 DEF RoomInv

\* A connection registers: the members will be told, and it has the list of them.
LEMMA ConnectKeeps ==
    ASSUME RoomInv, NEW p \in Peers, Connect(p)
    PROVE  RoomInv'
<1>1. /\ pc[p] = "free" /\ p \notin room /\ room \subseteq Peers /\ IsFiniteSet(room)
      /\ outbox[p]["socket"] = <<>> /\ chan[p] = <<>>
      /\ got[p] = [greeted |-> FALSE, early |-> FALSE, view |-> {}]
      /\ send[p] = "none" /\ recv[p] = "none"
  BY RoomFacts DEF Connect, RoomInv, Registered, Fresh, Stages, Unserved
<1>2. /\ room' = room \cup {p} /\ chan' = chan /\ got' = got /\ send' = send /\ recv' = recv
      /\ \A r \in Peers : pc'[r] = IF r = p THEN "joining" ELSE pc[r]
  BY DEF Connect, RoomInv, TypeOK
<1>3. PICK joins \in ToAll(room, About("Join", p)) :
         outbox' = [outbox EXCEPT ![p]["socket"] = joins \o To(p, Hello(room))]
  BY DEF Connect
<1> DEFINE hello == [to |-> p, msg |-> Hello(room)]
           q == joins \o <<hello>>
<1>4. About("Join", p) \in Message /\ Hello(room) \in Message /\ hello \in Delivery
  BY <1>1, Messages DEF Delivery
<1>5. /\ joins \in Seq(Delivery) /\ \A i \in 1..Len(joins) : joins[i].msg = About("Join", p)
      /\ In(joins) = {[to |-> r, msg |-> About("Join", p)] : r \in room}
  <2> HIDE DEF q, hello
  <2>1. room \subseteq Peers /\ IsFiniteSet(room) /\ About("Join", p) \in Message
    BY <1>1, <1>4
  <2> QED
    BY <2>1, <1>3, ToAllFacts
<1>6. /\ q \in Seq(Delivery) /\ Len(q) = Len(joins) + 1
      /\ \A i \in 1..Len(joins) : q[i].msg = About("Join", p)
      /\ In(q) = {[to |-> r, msg |-> About("Join", p)] : r \in room} \cup {hello}
  BY <1>4, <1>5, InConcat
<1>7. /\ outbox' \in [Peers -> [Tasks -> Seq([to: Peers, msg: Message])]]
      /\ \A r \in Peers : /\ outbox'[r]["socket"] = IF r = p THEN q ELSE outbox[r]["socket"]
                          /\ outbox'[r]["receive"] = outbox[r]["receive"]
  <2>1. outbox' = [outbox EXCEPT ![p]["socket"] = q]
    BY <1>3 DEF To
  <2> HIDE DEF q
  <2> QED
    BY <1>6, <2>1, OutboxSet, TaskNames
<1>8. \A i \in 1..Len(q) : q[i].msg.type = "Hello" => i = Len(q)
  <2>1. Len(joins) \in Nat
    BY <1>5, InTyped
  <2>2. About("Join", p).type = "Join"
    BY Messages
  <2> QED
    BY <1>6, <2>1, <2>2
<1>9. \A e \in In(q) : \/ /\ e.msg = About("Join", p) /\ e.msg.type = "Join" /\ e.msg.peer = p
                          /\ e.to \in room
                       \/ /\ e.to = p /\ e.msg = Hello(room) /\ e.msg.type = "Hello"
                          /\ e.msg.peers = room
  BY <1>1, <1>6, Messages
<1>10. \A r \in room : [to |-> r, msg |-> About("Join", p)] \in In(q)
  BY <1>6
<1>11. hello \in In(q) /\ hello.to = p /\ hello.msg.type = "Hello" /\ hello.msg.peers = room
  BY <1>1, <1>6, Messages
<1>12. TypeOK'
  <2>1. requests' \in 0..MaxRequests
    BY LimitsAssumption DEF Connect, RoomInv, TypeOK, protect_ddos_refuses
  <2>3. pc' \in [Peers -> {"free", "joining", "running", "closing", "gone"}]
    BY DEF Connect, RoomInv, TypeOK
  <2> QED
    BY <1>1, <1>2, <1>7, <2>1, <2>3 DEF RoomInv, TypeOK
<1> HIDE DEF q, hello
<1>13. Own'
  BY <1>1, <1>2, <1>7, <1>9 DEF RoomInv, Own
<1>14. Registered'
  BY <1>1, <1>2, FS_AddElement DEF RoomInv, Registered
<1>15. Fresh' /\ Stages'
  BY <1>1, <1>2, <1>7 DEF RoomInv, Fresh, Stages, Unserved
<1>16. OneHello'
  <2>1. \A r \in Peers : r = p => \A i \in 1..Len(chan'[r]) : FALSE
    BY <1>1, <1>2
  <2> QED
    BY <1>2, <1>7, <1>8, <2>1 DEF RoomInv, OneHello
<1>17. LeftMeansGone'
  <2>1. \A r \in Peers : \A m \in In(chan[r]) : m.type = "Left" => m.peer \in Peers
    BY RoomFacts, MessageFacts
  <2> QED
    BY <1>1, <1>2, <2>1 DEF RoomInv, LeftMeansGone
<1>18. LeftIsFinal'
  BY <1>2 DEF RoomInv, LeftIsFinal, CutShort
<1>19. \A r \in Peers : (Listening(r) <=> Listening(r)') \/ r = p
  BY <1>2 DEF Listening
<1>20. \A r \in Peers : Clean(r) <=> Clean(r)'
  BY <1>2 DEF Clean
<1>21. \A r, x \in Peers : r # p => (Listed(r, x) <=> Listed(r, x)')
  BY <1>2, <1>7 DEF Listed
<1>22. \A x \in Peers : Listed(p, x)' <=> x \in room
  <2> SUFFICES ASSUME NEW x \in Peers PROVE Listed(p, x)' <=> x \in room
    OBVIOUS
  <2>1. In(chan'[p]) = {} /\ x \notin got'[p].view /\ outbox'[p]["socket"] = q
    BY <1>1, <1>2, <1>7, InEmpty
  <2>2. x \in room => \E e \in In(q) : e.msg.type = "Hello" /\ x \in e.msg.peers
    BY <1>11
  <2>3. \A e \in In(q) : e.msg.type = "Hello" => e.msg.peers = room
    BY <1>9
  <2> QED
    BY <2>1, <2>2, <2>3 DEF Listed
<1>23. \A r, x \in Peers, type \in {"Join", "Left"} : 
          x # p => (Tells(x, type, r) <=> Tells(x, type, r)')
  BY <1>2, <1>7 DEF Tells
<1>24. ASSUME NEW r \in room PROVE Tells(p, "Join", r)'
  <2>1. PICK e \in In(q) : e = [to |-> r, msg |-> About("Join", p)]
    BY <1>10
  <2>2. e.to = r /\ e.msg = About("Join", p) /\ outbox'[p]["socket"] = q
    BY <1>7, <2>1
  <2> QED
    BY <2>2 DEF Tells
<1>25. MembersListed'
  BY <1>1, <1>2, <1>19, <1>20, <1>21, <1>22, <1>23, <1>24 DEF RoomInv, MembersListed
<1>26. OthersForgotten'
  BY <1>1, <1>2, <1>19, <1>20, <1>21, <1>22, <1>23 DEF RoomInv, OthersForgotten, CutShort
<1>27. SelfUnlisted'
  BY <1>1, <1>21, <1>22 DEF RoomInv, SelfUnlisted
<1> QED
  BY <1>12, <1>13, <1>14, <1>15, <1>16, <1>17, <1>18, <1>25, <1>26, <1>27 DEF RoomInv

\* A member that leaves: the others will be told.
LEMMA LeaveKeeps ==
    ASSUME RoomInv, NEW p \in Peers, Leave(p)
    PROVE  RoomInv'
<1>1. pc[p] = "closing" /\ p \in room /\ room \subseteq Peers /\ IsFiniteSet(room)
  BY RoomFacts DEF Leave, RoomInv, Registered
<1>0. recv[p] \notin {"running", "ending"} /\ In(outbox[p]["socket"]) = {}
  BY <1>1 DEF RoomInv, Own, Stages
<1>2. /\ room' = room \ {p} /\ requests' = requests /\ chan' = chan /\ got' = got
      /\ send' = send /\ recv' = recv
      /\ \A r \in Peers : pc'[r] = IF r = p THEN "gone" ELSE pc[r]
      /\ pc' \in [Peers -> {"free", "joining", "running", "closing", "gone"}]
  BY DEF Leave, RoomInv, TypeOK
<1>3. PICK q \in ToAll(room \ {p}, About("Left", p)) : 
          outbox' = [outbox EXCEPT ![p]["socket"] = q]
  BY DEF Leave
<1>4. IsFiniteSet(room \ {p}) /\ About("Left", p) \in Message
  BY <1>1, FS_RemoveElement, Messages
<1>5. /\ q \in Seq(Delivery) /\ \A i \in 1..Len(q) : q[i].msg = About("Left", p)
      /\ In(q) = {[to |-> r, msg |-> About("Left", p)] : r \in room \ {p}}
  BY <1>1, <1>4, ToAllFacts
<1>6. /\ outbox' \in [Peers -> [Tasks -> Seq([to: Peers, msg: Message])]]
      /\ \A r \in Peers : /\ outbox'[r]["socket"] = IF r = p THEN q ELSE outbox[r]["socket"]
                          /\ outbox'[r]["receive"] = outbox[r]["receive"]
  BY <1>3, <1>5, OutboxSet, TaskNames
<1>7. \A e \in In(q) : e.msg.type = "Left" /\ e.msg.peer = p
  BY <1>5, Messages
<1>8. \A i \in 1..Len(q) : q[i].msg.type # "Hello"
  BY <1>5, Messages
<1>9. \A r \in Peers : CutShort(r)' <=> CutShort(r)
  BY <1>2 DEF CutShort
<1>10. TypeOK'
  BY <1>1, <1>2, <1>6 DEF RoomInv, TypeOK
<1>11. Own' /\ Stages'
  <2>1. Own'
    BY <1>0, <1>1, <1>2, <1>6, <1>7 DEF RoomInv, Own
  <2>2. Stages'
    BY <1>0, <1>1, <1>2, <1>6 DEF RoomInv, Stages
  <2> QED
    BY <2>1, <2>2
<1>12. Registered'
  BY <1>1, <1>2, <1>4 DEF RoomInv, Registered
<1>13. Fresh'
  BY <1>1, <1>2, <1>6 DEF RoomInv, Fresh
<1>14. OneHello'
  BY <1>2, <1>6, <1>7, <1>8 DEF RoomInv, OneHello
<1>15. LeftMeansGone'
  <2>1. \A r \in Peers : \A m \in In(chan[r]) : m.type = "Left" => m.peer \in Peers
    BY RoomFacts, MessageFacts
  <2> QED
    BY <1>1, <1>2, <2>1 DEF RoomInv, LeftMeansGone
<1>16. LeftIsFinal'
  BY <1>2 DEF RoomInv, LeftIsFinal, CutShort
<1>17. \A r \in Peers : (Listening(r)' <=> Listening(r)) /\ (Clean(r)' <=> Clean(r))
  <2>1. \A r \in Peers : Listening(r)' <=> Listening(r)
    BY <1>1, <1>2 DEF Listening
  <2>2. \A r \in Peers : Clean(r)' <=> Clean(r)
    BY <1>2 DEF Clean
  <2> QED
    BY <2>1, <2>2
<1>18. \A r, x \in Peers : Listed(r, x)' => Listed(r, x)
  BY <1>2, <1>6, <1>7 DEF Listed
<1>19. \A r, x \in Peers : r # p => (Listed(r, x) <=> Listed(r, x)')
  BY <1>2, <1>6 DEF Listed
<1>20. \A r, x \in Peers, type \in {"Join", "Left"} :
          x # p => (Tells(x, type, r) <=> Tells(x, type, r)')
  BY <1>2, <1>6 DEF Tells
<1>21. ASSUME NEW r \in room, r # p PROVE Tells(p, "Left", r)'
  <2>1. PICK e \in In(q) : e = [to |-> r, msg |-> About("Left", p)]
    BY <1>5, <1>21
  <2>2. e.to = r /\ e.msg = About("Left", p) /\ outbox'[p]["socket"] = q
    BY <1>6, <2>1
  <2> QED
    BY <2>2 DEF Tells
<1>22. MembersListed'
  BY <1>1, <1>2, <1>17, <1>19, <1>20 DEF RoomInv, MembersListed
<1>23. OthersForgotten'
  BY <1>1, <1>2, <1>9, <1>17, <1>18, <1>20, <1>21 DEF RoomInv, OthersForgotten
<1>24. SelfUnlisted'
  BY <1>18 DEF RoomInv, SelfUnlisted
<1> QED
  BY <1>10, <1>11, <1>12, <1>13, <1>14, <1>15, <1>16, <1>22, <1>23, <1>24 DEF RoomInv

\* The receive task has new messages to put.
LEMMA ReceiveTaskKeeps ==
    ASSUME RoomInv, NEW p \in Peers,
           Update(p) \/ (\E target \in Peers : Sdp(p, target)) \/ TooMany(p)
    PROVE  RoomInv'
<1>1. requests \in 0..MaxRequests /\ room \subseteq Peers /\ IsFiniteSet(room)
  BY RoomFacts DEF RoomInv, TypeOK
<1>2. /\ recv[p] \in {"running", "aborted"} /\ requests' \in 0..MaxRequests
      /\ UNCHANGED <<room, pc, send, chan, got>>
      /\ recv' = recv \/ (recv[p] = "running" /\ recv' = [recv EXCEPT ![p] = "ending"])
  BY <1>1, LimitsAssumption DEF Update, Sdp, TooMany, Counted, protect_ddos_refuses
<1>3. \E q \in Seq(Delivery) :
         /\ outbox' = [outbox EXCEPT ![p]["receive"] = q]
         /\ \A e \in In(q) :
               /\ e.msg.type \in {"Update", "Sdp", "Error"}
               /\ e.msg.type = "Update" => e.msg.peer = p /\ e.to # p
               /\ e.msg.type = "Sdp" => e.msg.peer = p
  <2>1. CASE Update(p)
    <3> DEFINE T == IF p \in room THEN room \ {p} ELSE {}
    <3>1. PICK q \in ToAll(T, About("Update", p)) :
             outbox' = [outbox EXCEPT ![p]["receive"] = q]
      BY <2>1 DEF Update
    <3>2. T \subseteq Peers /\ IsFiniteSet(T) /\ p \notin T /\ About("Update", p) \in Message
      BY <1>1, FS_RemoveElement, FS_EmptySet, Messages
    <3> HIDE DEF T
    <3>3. q \in Seq(Delivery) /\ In(q) = {[to |-> r, msg |-> About("Update", p)] : r \in T}
      BY <3>2, ToAllFacts
    <3>4. \A e \in In(q) : e.msg.type = "Update" /\ e.msg.peer = p /\ e.to # p
      BY <3>2, <3>3, Messages
    <3> QED
      BY <3>1, <3>3, <3>4
  <2>2. ASSUME NEW target \in Peers, Sdp(p, target)
        PROVE  \E q \in Seq(Delivery) :
                  /\ outbox' = [outbox EXCEPT ![p]["receive"] = q]
                  /\ \A e \in In(q) : e.msg.type = "Sdp" /\ e.msg.peer = p
    <3> DEFINE e0 == [to |-> target, msg |-> About("Sdp", p)]
               q == IF target \in room THEN <<e0>> ELSE <<>>
    <3>1. e0 \in Delivery /\ e0.msg.type = "Sdp" /\ e0.msg.peer = p
      BY Messages DEF Delivery
    <3>2. <<e0>> \in Seq(Delivery) /\ In(<<e0>>) = {e0} /\ <<>> \in Seq(Delivery) /\ In(<<>>) = {}
      BY <3>1, InSingle, InEmpty
    <3>3. q \in Seq(Delivery) /\ \A e \in In(q) : e = e0
      BY <3>2
    <3>4. outbox' = [outbox EXCEPT ![p]["receive"] = q]
      BY <2>2 DEF Sdp, To
    <3> HIDE DEF q, e0
    <3> QED
      BY <3>1, <3>3, <3>4
  <2>3. CASE TooMany(p)
    <3> DEFINE e0 == [to |-> p, msg |-> Error]
               q == <<e0>>
    <3>1. e0 \in Delivery /\ e0.msg.type = "Error"
      BY Messages DEF Delivery
    <3>2. q \in Seq(Delivery) /\ In(q) = {e0}
      BY <3>1, InSingle
    <3>3. outbox' = [outbox EXCEPT ![p]["receive"] = q]
      BY <2>3 DEF TooMany, To
    <3> HIDE DEF q, e0
    <3>4. \A e \in In(q) : e.msg.type = "Error"
      BY <3>1, <3>2
    <3> QED
      BY <3>2, <3>3, <3>4
  <2>4. ASSUME NEW target \in Peers, Sdp(p, target)
        PROVE  \E q \in Seq(Delivery) :
                  /\ outbox' = [outbox EXCEPT ![p]["receive"] = q]
                  /\ \A e \in In(q) :
                        /\ e.msg.type \in {"Update", "Sdp", "Error"}
                        /\ e.msg.type = "Update" => e.msg.peer = p /\ e.to # p
                        /\ e.msg.type = "Sdp" => e.msg.peer = p
    <3>1. PICK q \in Seq(Delivery) :
             /\ outbox' = [outbox EXCEPT ![p]["receive"] = q]
             /\ \A e \in In(q) : e.msg.type = "Sdp" /\ e.msg.peer = p
      BY <2>2, <2>4
    <3>2. \A e \in In(q) : /\ e.msg.type \in {"Update", "Sdp", "Error"}
                           /\ e.msg.type = "Update" => e.msg.peer = p /\ e.to # p
                           /\ e.msg.type = "Sdp" => e.msg.peer = p
      BY <3>1
    <3> QED
      BY <3>1, <3>2
  <2> QED
    BY <2>1, <2>3, <2>4
<1>4. PICK q \in Seq(Delivery) :
         /\ outbox' = [outbox EXCEPT ![p]["receive"] = q]
         /\ \A e \in In(q) :
               /\ e.msg.type \in {"Update", "Sdp", "Error"}
               /\ e.msg.type = "Update" => e.msg.peer = p /\ e.to # p
               /\ e.msg.type = "Sdp" => e.msg.peer = p
  BY <1>3
<1>5. /\ outbox' \in [Peers -> [Tasks -> Seq([to: Peers, msg: Message])]]
      /\ \A r \in Peers : /\ outbox'[r]["socket"] = outbox[r]["socket"]
                          /\ outbox'[r]["receive"] = IF r = p THEN q ELSE outbox[r]["receive"]
  <2>1. q \in Seq(Delivery) /\ outbox' = [outbox EXCEPT ![p]["receive"] = q]
    BY <1>4
  <2> QED
    BY <2>1, OutboxSet, TaskNames
<1>6. /\ recv' \in [Peers -> {"none", "running", "ending", "ended", "aborted", "stopped"}]
      /\ \A r \in Peers : \/ recv'[r] = recv[r]
                          \/ r = p /\ recv[r] = "running" /\ recv'[r] = "ending"
      /\ recv'[p] \in {"running", "ending", "aborted"}
  BY <1>2 DEF RoomInv, TypeOK
<1>7. TypeOK'
  BY <1>2, <1>5, <1>6 DEF RoomInv, TypeOK
<1>8. Registered' /\ Fresh'
  BY <1>2, <1>5 DEF RoomInv, Registered, Fresh
<1>9. Stages'
  BY <1>2, <1>5, <1>6 DEF RoomInv, Stages
<1>10. \A r \in Peers : /\ CutShort(r) => CutShort(r)'
                        /\ Listening(r)' <=> Listening(r)
                        /\ pc'[r] = pc[r]
  BY <1>2, <1>6 DEF CutShort, Listening
<1>11. \A r \in Peers : \A e \in In(outbox'[r]["receive"]) :
          /\ e.msg.type \in {"Update", "Sdp", "Error"}
          /\ e.msg.type = "Update" => e.msg.peer = r /\ e.to # r
          /\ e.msg.type = "Sdp" => e.msg.peer = r
  BY <1>4, <1>5 DEF RoomInv, Own
<1> QED
  BY <1>2, <1>5, <1>7, <1>8, <1>9, <1>10, <1>11, MessagesKept

\* A message leaves the outbox of p: the first entry, which Tells then misses.
LEMMA PutKeeps ==
    ASSUME RoomInv, NEW p \in Peers, NEW task \in Tasks, Put(p, task)
    PROVE  RoomInv'
<1> DEFINE old == outbox[p][task]
           e0 == Head(old)
           rest == Tail(old)
           to == e0.to
           m == e0.msg
<1>1. /\ old \in Seq(Delivery) /\ old # <<>>
      /\ room' = room /\ requests' = requests /\ pc' = pc /\ got' = got
      /\ send' = send /\ recv' = recv
  BY RoomFacts DEF Put
<1>2. /\ e0 \in Delivery /\ e0 = old[1] /\ Len(old) \in Nat \ {0}
      /\ rest \in Seq(Delivery) /\ Len(rest) = Len(old) - 1
      /\ \A i \in 1..Len(rest) : rest[i] = old[i + 1] /\ i + 1 \in 1..Len(old)
      /\ In(old) = {e0} \cup In(rest)
  <2> HIDE DEF old
  <2> QED
    BY <1>1, InTail
<1>3. to \in Peers /\ m \in Message /\ e0 \in In(old)
  BY <1>2 DEF Delivery
<1>4. outbox' = [outbox EXCEPT ![p][task] = rest]
  BY DEF Put
<1>5. /\ outbox' \in [Peers -> [Tasks -> Seq([to: Peers, msg: Message])]]
      /\ \A r \in Peers :
            /\ outbox'[r]["socket"] = IF r = p /\ task = "socket" THEN rest ELSE outbox[r]["socket"]
            /\ outbox'[r]["receive"] =
                  IF r = p /\ task = "receive" THEN rest ELSE outbox[r]["receive"]
  <2> HIDE DEF old, rest
  <2>1. PICK q \in Seq(Delivery) : q = rest
    BY <1>2
  <2>2. outbox' = [outbox EXCEPT ![p][task] = q]
    BY <1>4, <2>1
  <2>3. /\ outbox' \in [Peers -> [Tasks -> Seq([to: Peers, msg: Message])]]
        /\ \A r \in Peers :
              /\ outbox'[r]["socket"] = IF r = p /\ task = "socket" THEN q ELSE outbox[r]["socket"]
              /\ outbox'[r]["receive"] =
                    IF r = p /\ task = "receive" THEN q ELSE outbox[r]["receive"]
    <3>1. CASE task = "socket"
      <4>1. outbox' = [outbox EXCEPT ![p]["socket"] = q]
        BY <2>2, <3>1
      <4>2. /\ outbox' \in [Peers -> [Tasks -> Seq([to: Peers, msg: Message])]]
            /\ \A r \in Peers :
                  /\ outbox'[r]["socket"] = IF r = p THEN q ELSE outbox[r]["socket"]
                  /\ outbox'[r]["receive"] = outbox[r]["receive"]
        BY <4>1, OutboxSet, TaskNames
      <4> QED
        BY <3>1, <4>2
    <3>2. CASE task = "receive"
      <4>1. outbox' = [outbox EXCEPT ![p]["receive"] = q]
        BY <2>2, <3>2
      <4>2. /\ outbox' \in [Peers -> [Tasks -> Seq([to: Peers, msg: Message])]]
            /\ \A r \in Peers :
                  /\ outbox'[r]["socket"] = outbox[r]["socket"]
                  /\ outbox'[r]["receive"] = IF r = p THEN q ELSE outbox[r]["receive"]
        BY <4>1, OutboxSet, TaskNames
      <4> QED
        BY <3>2, <4>2
    <3> QED
      BY <3>1, <3>2 DEF Tasks
  <2> QED
    BY <2>1, <2>3
<1>6. chan[to] \in Seq(Message)
  BY <1>3, RoomFacts
<1>7. IF Listening(to)
        THEN Len(chan[to]) < Capacity /\ chan' = [chan EXCEPT ![to] = Append(@, m)]
        ELSE chan' = chan
  BY DEF Put
<1>8. \A r \in Peers : r # to \/ ~Listening(to) => chan'[r] = chan[r]
  BY <1>7 DEF RoomInv, TypeOK
<1>9. Listening(to) =>
         /\ chan'[to] \in Seq(Message) /\ Len(chan[to]) \in Nat
         /\ Len(chan'[to]) = Len(chan[to]) + 1 /\ Len(chan'[to]) <= Capacity
         /\ \A i \in 1..Len(chan[to]) : chan'[to][i] = chan[to][i]
         /\ chan'[to][Len(chan[to]) + 1] = m
         /\ In(chan'[to]) = In(chan[to]) \cup {m}
  <2> HIDE DEF to, m
  <2> DEFINE t == Append(chan[to], m)
  <2>1. Listening(to) => chan'[to] = t
    BY <1>3, <1>7 DEF RoomInv, TypeOK
  <2>2. /\ t \in Seq(Message) /\ Len(t) = Len(chan[to]) + 1
        /\ \A i \in 1..Len(chan[to]) : t[i] = chan[to][i]
        /\ t[Len(chan[to]) + 1] = m
        /\ In(t) = In(chan[to]) \cup {m}
    BY <1>3, <1>6, InAppend
  <2>3. Len(chan[to]) \in Nat
    BY <1>6, InTyped
  <2> HIDE DEF t
  <2>4. Listening(to) => Len(t) <= Capacity
    BY <1>7, <2>2, <2>3, LimitsAssumption
  <2> SUFFICES ASSUME Listening(to)
               PROVE  /\ t \in Seq(Message) /\ Len(chan[to]) \in Nat
                      /\ Len(t) = Len(chan[to]) + 1 /\ Len(t) <= Capacity
                      /\ \A i \in 1..Len(chan[to]) : t[i] = chan[to][i]
                      /\ t[Len(chan[to]) + 1] = m
                      /\ In(t) = In(chan[to]) \cup {m}
    BY <2>1
  <2> QED
    BY <2>2, <2>3, <2>4
<1>10. /\ task = "socket" \/ task = "receive"
       /\ task = "socket" => m.type \in {"Join", "Hello", "Left"}
       /\ task = "receive" => m.type \in {"Update", "Sdp", "Error"}
       /\ m.type = "Join" => m.peer = p /\ to # p /\ pc[p] = "joining"
       /\ m.type = "Update" => m.peer = p /\ to # p
       /\ m.type = "Sdp" => m.peer = p
       /\ m.type = "Left" => m.peer = p /\ pc[p] = "gone"
       /\ m.type = "Hello" => to = p /\ pc[p] = "joining"
  <2>1. CASE task = "socket"
    <3>1. /\ m.type \in {"Join", "Hello", "Left"}
          /\ m.type = "Join" => m.peer = p /\ to # p /\ pc[p] = "joining"
          /\ m.type = "Left" => m.peer = p /\ pc[p] = "gone"
          /\ m.type = "Hello" => to = p /\ pc[p] = "joining"
      BY <1>3, <2>1 DEF RoomInv, Own
    <3> QED
      BY <2>1, <3>1
  <2>2. CASE task = "receive"
    <3>1. /\ m.type \in {"Update", "Sdp", "Error"}
          /\ m.type = "Update" => m.peer = p /\ to # p
          /\ m.type = "Sdp" => m.peer = p
      BY <1>3, <2>2 DEF RoomInv, Own
    <3> QED
      BY <2>2, <3>1
  <2> QED
    BY <2>1, <2>2 DEF Tasks
<1>26. task = "receive" => pc[p] = "running" \/ CutShort(p)
  <2>1. task = "receive" => recv[p] \in {"running", "ending", "aborted"}
    BY <1>1 DEF RoomInv, TypeOK, Stages
  <2>2. recv[p] \in {"running", "ending"} => pc[p] = "running"
    BY DEF RoomInv, TypeOK, Stages
  <2> QED
    BY <2>1, <2>2 DEF CutShort
<1>27. pc[p] # "free" /\ (task = "receive" => pc[p] # "joining")
  <2>1. task = "receive" => recv[p] # "none"
    BY <1>1 DEF RoomInv, Stages
  <2>2. task = "socket" => pc[p] # "free"
    BY <1>1 DEF RoomInv, Fresh
  <2> QED
    BY <1>10, <2>1, <2>2 DEF RoomInv, Stages
<1>11. m.type = "Hello" => Listening(to) /\ In(rest) = {} /\ ~got[p].greeted /\ task = "socket"
  <2> SUFFICES ASSUME m.type = "Hello"
               PROVE  Listening(to) /\ In(rest) = {} /\ ~got[p].greeted /\ task = "socket"
    OBVIOUS
  <2>0. task = "socket"
    BY <1>10
  <2>1. 1 = Len(old)
    <3>1. 1 \in 1..Len(old) /\ old[1].msg.type = "Hello"
      BY <1>2
    <3> QED
      BY <2>0, <3>1 DEF RoomInv, OneHello
  <2>2. In(rest) = {}
    BY <1>2, <2>1 DEF In
  <2>3. ~got[p].greeted
    BY <1>10 DEF RoomInv, Fresh, Unserved
  <2> QED
    BY <1>10, <2>0, <2>2, <2>3 DEF Listening
<1> HIDE DEF e0, rest, old
<1>12. TypeOK'
  <2>2. chan' \in [Peers -> Seq(Message)] /\ \A r \in Peers : Len(chan'[r]) <= Capacity
    <3>1. CASE Listening(to)
      <4>1. chan' = [chan EXCEPT ![to] = Append(chan[to], m)]
        BY <1>7, <3>1
      <4>2. Append(chan[to], m) \in Seq(Message)
        BY <1>3, <1>6, InAppend
      <4>3. chan' \in [Peers -> Seq(Message)]
        BY <4>1, <4>2 DEF RoomInv, TypeOK
      <4> QED
        BY <1>8, <1>9, <3>1, <4>3 DEF RoomInv, TypeOK
    <3>2. CASE ~Listening(to)
      BY <1>7, <3>2 DEF RoomInv, TypeOK
    <3> QED
      BY <3>1, <3>2
  <2> QED
    BY <1>1, <1>5, <2>2 DEF RoomInv, TypeOK
<1>28. \A r \in Peers : /\ In(outbox'[r]["socket"]) \subseteq In(outbox[r]["socket"])
                        /\ In(outbox'[r]["receive"]) \subseteq In(outbox[r]["receive"])
  BY <1>2, <1>5 DEF old
<1>13. Own'
  BY <1>1, <1>28 DEF RoomInv, Own
<1>14. Registered' /\ Stages'
  <2>1. Registered'
    BY <1>1 DEF RoomInv, Registered
  <2>2. recv[p] \in {"none", "ended", "stopped"} => task # "receive"
    BY <1>1 DEF RoomInv, Stages, old
  <2>3. Stages'
    BY <1>1, <1>5, <2>2 DEF RoomInv, Stages
  <2> QED
    BY <2>1, <2>3
<1>15. Fresh'
  <2>1. Listening(to) => pc[to] # "free"
    BY <1>3 DEF Listening, RoomInv, Stages
  <2> QED
    BY <1>1, <1>5, <1>8, <1>27, <2>1 DEF RoomInv, Fresh
<1>16. OneHello'
  <2>1. \A r \in Peers : \A i \in 1..Len(outbox'[r]["socket"]) :
           outbox'[r]["socket"][i].msg.type = "Hello" => i = Len(outbox'[r]["socket"])
    <3>1. task = "socket" =>
             \A i \in 1..Len(rest) : rest[i].msg.type = "Hello" => i = Len(rest)
      BY <1>2 DEF RoomInv, OneHello, old
    <3> QED
      BY <1>5, <3>1 DEF RoomInv, OneHello
  <2>2. \A r \in Peers : In(outbox'[r]["socket"]) \subseteq In(outbox[r]["socket"])
    BY <1>28
  <2> DEFINE n == Len(chan[to])
  <2>3. Listening(to) => \A j \in 1..Len(chan'[to]) :
           (j \in 1..n /\ chan'[to][j] = chan[to][j]) \/ (j = n + 1 /\ chan'[to][j] = m)
    BY <1>9
  <2> HIDE DEF n
  <2>4. ASSUME NEW r \in Peers, NEW i \in 1..Len(chan'[r]), chan'[r][i].type = "Hello"
        PROVE  /\ ~got'[r].greeted
               /\ \A e \in In(outbox'[r]["socket"]) : e.msg.type # "Hello"
               /\ \A j \in 1..Len(chan'[r]) : chan'[r][j].type = "Hello" => j = i
    <3>1. CASE r # to \/ ~Listening(to)
      BY <1>1, <1>8, <2>2, <2>4, <3>1 DEF RoomInv, OneHello
    <3>2. CASE r = to /\ Listening(to) /\ m.type # "Hello"
      <4>1. \A j \in 1..Len(chan'[r]) : chan'[r][j].type = "Hello" =>
               j \in 1..Len(chan[r]) /\ chan[r][j].type = "Hello"
        BY <2>3, <3>2 DEF n
      <4> QED
        BY <1>1, <2>2, <2>4, <4>1 DEF RoomInv, OneHello
    <3>3. CASE r = to /\ Listening(to) /\ m.type = "Hello"
      <4>1. r = p /\ In(outbox'[r]["socket"]) = {} /\ ~got'[r].greeted
        BY <1>1, <1>5, <1>10, <1>11, <3>3
      <4>2. \A j \in 1..n : chan[r][j].type # "Hello"
        BY <1>3, <1>11, <3>3, <4>1 DEF RoomInv, OneHello, n, old
      <4>3. \A j \in 1..Len(chan'[r]) : chan'[r][j].type = "Hello" => j = n + 1
        BY <2>3, <3>3, <4>2
      <4> QED
        BY <2>4, <3>3, <4>1, <4>3
    <3> QED
      BY <3>1, <3>2, <3>3
  <2> QED
    BY <2>1, <2>4 DEF OneHello
<1>17. LeftMeansGone'
  BY <1>1, <1>8, <1>9, <1>10 DEF RoomInv, LeftMeansGone
<1>18. LeftIsFinal'
  <2> SUFFICES ASSUME NEW q \in Peers, NEW i \in 1..Len(chan'[q]), NEW j \in 1..Len(chan'[q]),
                      i < j, chan'[q][i].type = "Left",
                      chan'[q][j].type \in {"Join", "Update", "Sdp"},
                      chan'[q][j].peer = chan'[q][i].peer
               PROVE  chan'[q][j].type # "Join" /\ CutShort(chan'[q][j].peer)
    BY <1>1 DEF LeftIsFinal, CutShort
  <2>1. CASE q # to \/ ~Listening(to)
    BY <1>8, <2>1 DEF RoomInv, LeftIsFinal
  <2>2. CASE q = to /\ Listening(to) /\ j # Len(chan[to]) + 1
    <3>1. i \in 1..Len(chan[q]) /\ j \in 1..Len(chan[q])
      BY <1>9, <2>2
    <3>2. chan'[q][i] = chan[q][i] /\ chan'[q][j] = chan[q][j]
      BY <1>9, <2>2, <3>1
    <3> QED
      BY <3>1, <3>2 DEF RoomInv, LeftIsFinal
  <2>3. CASE q = to /\ Listening(to) /\ j = Len(chan[to]) + 1
    <3>1. i \in 1..Len(chan[q])
      BY <1>9, <2>3
    <3>2. chan'[q][i] = chan[q][i] /\ chan'[q][j] = m
      BY <1>9, <2>3, <3>1
    <3>3. chan[q][i] \in In(chan[q])
      BY <3>1 DEF In
    <3>4. m.peer = p /\ pc[p] = "gone"
      BY <1>10, <3>2, <3>3 DEF RoomInv, LeftMeansGone
    <3>5. m.type # "Join" /\ task = "receive"
      BY <1>10, <3>2, <3>4
    <3> QED
      BY <1>26, <3>2, <3>4, <3>5
  <2> QED
    BY <2>1, <2>2, <2>3
<1>19. \A r \in Peers : (Listening(r)' <=> Listening(r)) /\ (Clean(r)' => Clean(r))
  <2>1. \A r \in Peers : Listening(r)' <=> Listening(r)
    BY <1>1 DEF Listening
  <2>2. ASSUME NEW r \in Peers, Clean(r)' PROVE Clean(r)
    <3>1. CASE r # to \/ ~Listening(to)
      BY <1>1, <1>8, <2>2, <3>1 DEF Clean
    <3>2. CASE r = to /\ Listening(to) /\ chan[to] # <<>>
      <4>1. 1 \in 1..Len(chan[to])
        BY <1>6, <3>2, EmptySeq, LenProperties
      <4>2. chan'[to][1] = chan[to][1] /\ chan'[to] # <<>>
        BY <1>9, <3>2, <4>1
      <4> QED
        BY <1>1, <2>2, <3>2, <4>2 DEF Clean
    <3>3. CASE r = to /\ chan[to] = <<>>
      BY <1>1, <2>2, <3>3 DEF Clean
    <3> QED
      BY <3>1, <3>2, <3>3
  <2> QED
    BY <2>1, <2>2
<1>20. ASSUME NEW r \in Peers, NEW x \in Peers, Listed(r, x) PROVE Listed(r, x)'
  <2>1. CASE x \in got[r].view
    BY <1>1, <2>1 DEF Listed
  <2>2. CASE \E n \in In(chan[r]) : Announces(n, x)
    BY <1>8, <1>9, <2>2 DEF Listed
  <2>3. ASSUME NEW e \in In(outbox[r]["socket"]), e.msg.type = "Hello", x \in e.msg.peers
        PROVE  Listed(r, x)'
    <3>1. CASE e \in In(outbox'[r]["socket"])
      BY <2>3, <3>1 DEF Listed
    <3>2. CASE r = p /\ e = e0
      <4>1. Announces(m, x) /\ m \in In(chan'[r])
        BY <1>9, <1>10, <1>11, <2>3, <3>2 DEF Announces
      <4> QED
        BY <4>1 DEF Listed
    <3> QED
      BY <1>2, <1>5, <3>1, <3>2 DEF old
  <2> QED
    BY <1>20, <2>1, <2>2, <2>3 DEF Listed
<1>21. ASSUME NEW r \in Peers, NEW x \in Peers, Listed(r, x)'
       PROVE  Listed(r, x) \/ (x = p /\ r # p /\ (p \in room \/ CutShort(p)))
  <2>1. CASE x \in got[r].view
    BY <2>1 DEF Listed
  <2>2. ASSUME NEW n \in In(chan'[r]), Announces(n, x)
        PROVE  Listed(r, x) \/ (x = p /\ r # p /\ (p \in room \/ CutShort(p)))
    <3>1. CASE n \in In(chan[r])
      BY <2>2, <3>1 DEF Listed
    <3>2. CASE r = to /\ n = m
      <4>1. m.type = "Hello" => Listed(r, x)
        BY <1>3, <1>10, <1>11, <2>2, <3>2 DEF Listed, Announces, old
      <4>2. m.type \in {"Join", "Update"} => x = p /\ r # p
        BY <1>10, <2>2, <3>2 DEF Announces
      <4>3. m.type \in {"Join", "Update"} => p \in room \/ CutShort(p)
        BY <1>10, <1>26 DEF RoomInv, Registered
      <4> QED
        BY <2>2, <3>2, <4>1, <4>2, <4>3 DEF Announces
    <3> QED
      BY <1>8, <1>9, <3>1, <3>2
  <2>3. CASE \E e \in In(outbox'[r]["socket"]) : e.msg.type = "Hello" /\ x \in e.msg.peers
    BY <1>28, <2>3 DEF Listed
  <2> QED
    BY <1>1, <1>21, <2>1, <2>2, <2>3 DEF Listed
<1>22. \A r, x \in Peers, type \in {"Join", "Left"} :
          Tells(x, type, r) => Tells(x, type, r)' \/ (r = to /\ m = About(type, x))
  BY <1>2, <1>5 DEF Tells, old
<1>23. MembersListed'
  <2> SUFFICES ASSUME NEW r \in room, NEW x \in room, r # x, Listening(r), Clean(r)
               PROVE  Listed(r, x)' \/ Tells(x, "Join", r)'
    BY <1>1, <1>19, RoomFacts DEF MembersListed
  <2>1. r \in Peers /\ x \in Peers
    BY RoomFacts
  <2>2. Listed(r, x) \/ Tells(x, "Join", r)
    BY DEF RoomInv, MembersListed
  <2>3. CASE r = to /\ m = About("Join", x)
    <3>1. m \in In(chan'[r]) /\ Announces(m, x)
      BY <1>9, <2>1, <2>3, Messages DEF Announces
    <3> QED
      BY <3>1 DEF Listed
  <2> QED
    BY <1>20, <1>22, <2>1, <2>2, <2>3
<1>24. OthersForgotten'
  <2> SUFFICES ASSUME NEW r \in room, NEW x \in Peers \ room, ~CutShort(x), Listening(r),
                      Clean(r), Listed(r, x)'
               PROVE  Tells(x, "Left", r)' \/ About("Left", x) \in In(chan'[r])
    BY <1>1, <1>19, RoomFacts DEF OthersForgotten, CutShort
  <2>1. r \in Peers /\ Listed(r, x)
    BY <1>21, RoomFacts
  <2>2. Tells(x, "Left", r) \/ About("Left", x) \in In(chan[r])
    BY <2>1 DEF RoomInv, OthersForgotten
  <2>3. In(chan[r]) \subseteq In(chan'[r])
    BY <1>8, <1>9, <2>1
  <2>4. r = to => m \in In(chan'[r])
    BY <1>9
  <2> QED
    BY <1>22, <2>1, <2>2, <2>3, <2>4
<1>25. SelfUnlisted'
  BY <1>21 DEF RoomInv, SelfUnlisted
<1> QED
  BY <1>12, <1>13, <1>14, <1>15, <1>16, <1>17, <1>18, <1>23, <1>24, <1>25 DEF RoomInv

\* The client of p takes the next message.
LEMMA SendKeeps ==
    ASSUME RoomInv, NEW p \in Peers, Send(p)
    PROVE  RoomInv'
<1> DEFINE m == Head(chan[p])
           rest == Tail(chan[p])
<1>1. /\ chan[p] \in Seq(Message) /\ chan[p] # <<>> /\ got[p] \in Client
      /\ room' = room /\ requests' = requests /\ pc' = pc /\ outbox' = outbox
      /\ send' = send /\ recv' = recv
      /\ pc[p] \notin {"free", "joining"}
  BY RoomFacts DEF Send, RoomInv, Stages
<1>2. /\ m \in Message /\ m = chan[p][1] /\ Len(chan[p]) \in Nat \ {0}
      /\ rest \in Seq(Message) /\ Len(rest) = Len(chan[p]) - 1
      /\ \A i \in 1..Len(rest) : rest[i] = chan[p][i + 1] /\ i + 1 \in 1..Len(chan[p])
      /\ In(chan[p]) = {m} \cup In(rest)
  BY <1>1, InTail
<1>3. /\ chan' = [chan EXCEPT ![p] = rest]
      /\ got' = [got EXCEPT ![p] = Receive(got[p], m)]
  BY DEF Send
<1>4. \A r \in Peers : /\ chan'[r] = IF r = p THEN rest ELSE chan[r]
                       /\ got'[r] = IF r = p THEN Receive(got[p], m) ELSE got[r]
  BY <1>3 DEF RoomInv, TypeOK
<1>5. /\ m.type \in {"Join", "Left", "Update", "Sdp", "Hello", "Error"}
      /\ m.type \in {"Join", "Left", "Update", "Sdp"} =>
            m.peer \in Peers /\ m = About(m.type, m.peer)
      /\ m.type = "Hello" => m.peers \subseteq Peers
  BY <1>2, MessageFacts
<1>6. 1 \in 1..Len(chan[p])
  BY <1>2
<1> HIDE DEF m, rest
<1>7. /\ got'[p] \in Client
      /\ got'[p].greeted = (got[p].greeted \/ m.type = "Hello")
      /\ got'[p].early = (got[p].early \/ (m.type # "Hello" /\ ~got[p].greeted))
      /\ m.type = "Hello" => got'[p].view = got[p].view \cup m.peers
      /\ m.type \in {"Join", "Update"} => got'[p].view = got[p].view \cup {m.peer}
      /\ m.type = "Left" => got'[p].view = got[p].view \ {m.peer}
      /\ m.type \in {"Sdp", "Error"} => got'[p].view = got[p].view
  <2>1. /\ got'[p].greeted = (got[p].greeted \/ m.type = "Hello")
        /\ got'[p].early = (got[p].early \/ (m.type # "Hello" /\ ~got[p].greeted))
    BY <1>4 DEF Receive
  <2>2. /\ m.type = "Hello" => got'[p].view = got[p].view \cup m.peers
        /\ m.type \in {"Join", "Update"} => got'[p].view = got[p].view \cup {m.peer}
        /\ m.type = "Left" => got'[p].view = got[p].view \ {m.peer}
        /\ m.type \in {"Sdp", "Error"} => got'[p].view = got[p].view
    BY <1>4 DEF Receive
  <2>3. got'[p].view \subseteq Peers
    BY <1>1, <1>5, <2>2 DEF Client
  <2>4. /\ (got[p].greeted \/ m.type = "Hello") \in BOOLEAN
        /\ (got[p].early \/ (m.type # "Hello" /\ ~got[p].greeted)) \in BOOLEAN
    OBVIOUS
  <2>5. got'[p] = [greeted |-> got'[p].greeted, early |-> got'[p].early, view |-> got'[p].view]
    BY <1>4 DEF Receive
  <2>6. got'[p] \in Client
    BY <2>1, <2>3, <2>4, <2>5 DEF Client
  <2> QED
    BY <2>1, <2>2, <2>6
<1>8. TypeOK'
  <2>1. chan' \in [Peers -> Seq(Message)] /\ got' \in [Peers -> Client]
    BY <1>2, <1>3, <1>4, <1>7 DEF RoomInv, TypeOK
  <2>2. \A r \in Peers : Len(chan'[r]) <= Capacity
    <3>1. \A r \in Peers : Len(chan[r]) <= Capacity
      BY DEF RoomInv, TypeOK
    <3>2. Len(rest) <= Capacity
      BY <1>2, <3>1, LimitsAssumption
    <3> QED
      BY <1>4, <3>1, <3>2
  <2> QED
    BY <1>1, <2>1, <2>2 DEF RoomInv, TypeOK
<1>9. Own' /\ Registered'
  BY <1>1 DEF RoomInv, Own, Registered
<1>10. Fresh' /\ Stages'
  <2>1. Fresh'
    BY <1>1, <1>4 DEF RoomInv, Fresh
  <2>2. Stages'
    BY <1>1 DEF RoomInv, Stages
  <2> QED
    BY <2>1, <2>2
<1>11. OneHello'
  <2>1. \A r \in Peers : \A i \in 1..Len(outbox'[r]["socket"]) :
           outbox'[r]["socket"][i].msg.type = "Hello" => i = Len(outbox'[r]["socket"])
    BY <1>1 DEF RoomInv, OneHello
  <2>2. ASSUME NEW i \in 1..Len(rest), rest[i].type = "Hello"
        PROVE  /\ ~got'[p].greeted
               /\ \A e \in In(outbox[p]["socket"]) : e.msg.type # "Hello"
               /\ \A j \in 1..Len(rest) : rest[j].type = "Hello" => j = i
    <3>1. chan[p][i + 1].type = "Hello" /\ i + 1 \in 1..Len(chan[p])
      BY <1>2, <2>2
    <3>2. /\ ~got[p].greeted
          /\ \A e \in In(outbox[p]["socket"]) : e.msg.type # "Hello"
          /\ \A j \in 1..Len(chan[p]) : chan[p][j].type = "Hello" => j = i + 1
      BY <3>1 DEF RoomInv, OneHello
    <3>3. i # 0 /\ 1 # i + 1
      OBVIOUS
    <3>4. m.type # "Hello"
      BY <1>2, <1>6, <3>2, <3>3
    <3>5. ASSUME NEW j \in 1..Len(rest), rest[j].type = "Hello" PROVE j = i
      <4>1. j + 1 = i + 1
        BY <1>2, <3>2, <3>5
      <4> QED
        BY <4>1
    <3> QED
      BY <1>7, <3>2, <3>4, <3>5
  <2> QED
    BY <1>1, <1>4, <2>1, <2>2 DEF RoomInv, OneHello
<1>12. LeftMeansGone'
  BY <1>1, <1>2, <1>4 DEF RoomInv, LeftMeansGone
<1>13. LeftIsFinal'
  <2> SUFFICES ASSUME NEW q \in Peers, NEW i \in 1..Len(chan'[q]), NEW j \in 1..Len(chan'[q]),
                      i < j, chan'[q][i].type = "Left",
                      chan'[q][j].type \in {"Join", "Update", "Sdp"},
                      chan'[q][j].peer = chan'[q][i].peer
               PROVE  chan'[q][j].type # "Join" /\ CutShort(chan'[q][j].peer)
    BY <1>1 DEF LeftIsFinal, CutShort
  <2>1. CASE q # p
    BY <1>4, <2>1 DEF RoomInv, LeftIsFinal
  <2>2. CASE q = p
    <3>1. /\ i + 1 \in 1..Len(chan[p]) /\ chan'[q][i] = chan[p][i + 1]
          /\ j + 1 \in 1..Len(chan[p]) /\ chan'[q][j] = chan[p][j + 1]
          /\ i + 1 < j + 1
      BY <1>2, <1>4, <2>2
    <3> QED
      BY <3>1 DEF RoomInv, LeftIsFinal
  <2> QED
    BY <2>1, <2>2
<1>14. \A r \in Peers : Listening(r)' <=> Listening(r)
  BY <1>1 DEF Listening
<1>15. Clean(p)' => Clean(p) /\ (got[p].greeted \/ m.type = "Hello")
  BY <1>1, <1>2, <1>7 DEF Clean, RoomInv, TypeOK, Client
<1>16. \A r \in Peers : r # p => (Clean(r)' <=> Clean(r))
  BY <1>4 DEF Clean
<1>17. \A r, x \in Peers : r # p => (Listed(r, x)' <=> Listed(r, x))
  BY <1>1, <1>4 DEF Listed
<1>18. \A x \in Peers : Listed(p, x)' => Listed(p, x)
  <2> SUFFICES ASSUME NEW x \in Peers, Listed(p, x)' PROVE Listed(p, x)
    OBVIOUS
  <2>1. CASE x \in got'[p].view
    <3>1. x \in got[p].view \/ Announces(m, x)
      BY <1>5, <1>7, <2>1 DEF Announces
    <3> QED
      BY <1>2, <3>1 DEF Listed
  <2>2. CASE \E n \in In(rest) : Announces(n, x)
    BY <1>2, <2>2 DEF Listed
  <2>3. CASE \E e \in In(outbox[p]["socket"]) : e.msg.type = "Hello" /\ x \in e.msg.peers
    BY <2>3 DEF Listed
  <2> QED
    BY <1>1, <1>4, <2>1, <2>2, <2>3 DEF Listed
<1>19. \A x \in Peers : Listed(p, x) => Listed(p, x)' \/ m = About("Left", x)
  <2> SUFFICES ASSUME NEW x \in Peers, Listed(p, x), m # About("Left", x)
               PROVE  Listed(p, x)'
    OBVIOUS
  <2>1. m.type = "Left" => m.peer # x
    BY <1>5
  <2>2. CASE x \in got[p].view
    <3>1. x \in got'[p].view
      BY <1>5, <1>7, <2>1, <2>2
    <3> QED
      BY <3>1 DEF Listed
  <2>3. CASE Announces(m, x)
    <3>1. x \in got'[p].view
      BY <1>5, <1>7, <2>3 DEF Announces
    <3> QED
      BY <3>1 DEF Listed
  <2>4. CASE \E n \in In(rest) : Announces(n, x)
    BY <1>4, <2>4 DEF Listed
  <2>5. CASE \E e \in In(outbox[p]["socket"]) : e.msg.type = "Hello" /\ x \in e.msg.peers
    BY <1>1, <2>5 DEF Listed
  <2> QED
    BY <1>2, <2>2, <2>3, <2>4, <2>5 DEF Listed
<1>20. \A x, r \in Peers, type \in {"Join", "Left"} : Tells(x, type, r)' <=> Tells(x, type, r)
  BY <1>1 DEF Tells
<1>21. MembersListed'
  <2> SUFFICES ASSUME NEW r \in room, NEW x \in room, r # x, Listening(r), Clean(r)'
               PROVE  Listed(r, x)' \/ Tells(x, "Join", r)
    BY <1>1, <1>14, <1>20, RoomFacts DEF MembersListed
  <2>1. r \in Peers /\ x \in Peers
    BY RoomFacts
  <2>2. Listed(r, x) \/ Tells(x, "Join", r)
    BY <1>15, <1>16, <2>1 DEF RoomInv, MembersListed
  <2>3. r = p => m # About("Left", x)
    <3>1. m = About("Left", x) => m.type = "Left" /\ m.peer = x
      BY <2>1, Messages
    <3>2. m.type = "Left" => pc[m.peer] = "gone"
      BY <1>2 DEF RoomInv, LeftMeansGone
    <3>3. pc[x] # "gone"
      BY <2>1 DEF RoomInv, Registered
    <3> QED
      BY <3>1, <3>2, <3>3
  <2> QED
    BY <1>17, <1>19, <2>1, <2>2, <2>3
<1>22. ASSUME NEW x \in Peers, x # p, ~CutShort(x), m = About("Left", x), Clean(p)'
       PROVE  ~Listed(p, x)'
  <2>1. m.type = "Left" /\ m.peer = x
    BY <1>22, Messages
  <2>2. x \notin got'[p].view
    BY <1>7, <2>1
  <2>3. got[p].greeted
    BY <1>15, <1>22, <2>1
  <2>4. ASSUME NEW n \in In(rest), Announces(n, x) PROVE FALSE
    <3>1. PICK i \in 1..Len(rest) : n = rest[i]
      BY DEF In
    <3>2. /\ i + 1 \in 1..Len(chan[p]) /\ n = chan[p][i + 1] /\ 1 < i + 1
      BY <1>2, <3>1
    <3>3. n.type # "Hello"
      BY <2>3, <3>2 DEF RoomInv, OneHello
    <3>4. n.type \in {"Join", "Update"} /\ n.peer = x
      BY <2>4, <3>3 DEF Announces
    <3>5. chan[p][1].type = "Left" /\ chan[p][1].peer = x
      BY <1>2, <2>1
    <3> QED
      BY <1>6, <1>22, <3>2, <3>4, <3>5 DEF RoomInv, LeftIsFinal
  <2>5. ASSUME NEW e \in In(outbox[p]["socket"]), e.msg.type = "Hello" PROVE FALSE
    BY <1>1, <2>5 DEF RoomInv, Own
  <2> QED
    BY <1>1, <1>4, <2>2, <2>4, <2>5 DEF Listed
<1>23. OthersForgotten'
  <2> SUFFICES ASSUME NEW r \in room, NEW x \in Peers \ room, ~CutShort(x), Listening(r),
                      Clean(r)', Listed(r, x)'
               PROVE  Tells(x, "Left", r) \/ About("Left", x) \in In(chan'[r])
    BY <1>1, <1>14, <1>20, RoomFacts DEF OthersForgotten, CutShort
  <2>1. r \in Peers /\ Clean(r) /\ Listed(r, x)
    BY <1>15, <1>16, <1>17, <1>18, RoomFacts
  <2>2. Tells(x, "Left", r) \/ About("Left", x) \in In(chan[r])
    BY <2>1 DEF RoomInv, OthersForgotten
  <2>3. CASE r # p
    BY <1>4, <2>1, <2>2, <2>3
  <2>4. CASE r = p
    BY <1>2, <1>4, <1>22, <2>1, <2>2, <2>4
  <2> QED
    BY <2>3, <2>4
<1>24. SelfUnlisted'
  BY <1>17, <1>18 DEF RoomInv, SelfUnlisted
<1> QED
  BY <1>8, <1>9, <1>10, <1>11, <1>12, <1>13, <1>21, <1>23, <1>24 DEF RoomInv

\* The send task ends with its channel: what is dropped matters to nobody any more.
LEMMA SendEndsKeeps ==
    ASSUME RoomInv, NEW p \in Peers, WriteFails(p) \/ SendStops(p)
    PROVE  RoomInv'
<1>1. /\ room' = room /\ requests' = requests /\ pc' = pc /\ recv' = recv /\ outbox' = outbox
      /\ send[p] \in {"running", "aborted"}
      /\ send' = [send EXCEPT ![p] = "ended"] /\ chan' = [chan EXCEPT ![p] = <<>>]
      /\ got' = [got EXCEPT ![p] = Unserved]
  BY DEF WriteFails, SendStops, SendEnds
<1>2. \A r \in Peers : /\ send'[r] = IF r = p THEN "ended" ELSE send[r]
                       /\ chan'[r] = IF r = p THEN <<>> ELSE chan[r]
                       /\ got'[r] = IF r = p THEN Unserved ELSE got[r]
  BY <1>1 DEF RoomInv, TypeOK
<1>3. (\A i \in 1..Len(<<>>) : FALSE) /\ In(<<>>) = {}
  BY InEmpty
<1>4. TypeOK'
  <2>1. <<>> \in Seq(Message) /\ Len(<<>>) <= Capacity /\ Unserved \in Client
    BY LimitsAssumption DEF Unserved, Client
  <2>2. chan' \in [Peers -> Seq(Message)] /\ got' \in [Peers -> Client]
    BY <1>1, <2>1 DEF RoomInv, TypeOK
  <2>3. send' \in [Peers -> {"none", "running", "aborted", "ended"}]
    BY <1>1 DEF RoomInv, TypeOK
  <2> QED
    BY <1>1, <1>2, <2>1, <2>2, <2>3 DEF RoomInv, TypeOK
<1>5. Own' /\ Registered'
  BY <1>1 DEF RoomInv, Own, Registered
<1>6. Stages' /\ Fresh'
  BY <1>1, <1>2 DEF RoomInv, Stages, Fresh
<1>7. OneHello'
  <2>1. \A r \in Peers : r = p => \A i \in 1..Len(chan'[r]) : FALSE
    BY <1>2, <1>3
  <2> QED
    BY <1>1, <1>2, <2>1 DEF RoomInv, OneHello
<1>8. LeftMeansGone'
  BY <1>1, <1>2, <1>3 DEF RoomInv, LeftMeansGone
<1>9. LeftIsFinal'
  <2>1. \A r \in Peers : r = p => \A i \in 1..Len(chan'[r]) : FALSE
    BY <1>2, <1>3
  <2> QED
    BY <1>1, <1>2, <2>1 DEF RoomInv, LeftIsFinal, CutShort
<1>10. pc[p] # "joining"
  BY <1>1 DEF RoomInv, Stages
<1>11. \A r \in Peers : /\ Listening(r)' => Listening(r) /\ r # p
                        /\ r # p => (Clean(r)' <=> Clean(r))
  BY <1>1, <1>2, <1>10 DEF Listening, Clean
<1>12. \A r, x \in Peers : /\ Listed(r, x)' => Listed(r, x)
                           /\ r # p => (Listed(r, x)' <=> Listed(r, x))
  BY <1>1, <1>2, <1>3 DEF Listed, Unserved
<1>13. \A x, r \in Peers, type \in {"Join", "Left"} : Tells(x, type, r)' <=> Tells(x, type, r)
  BY <1>1 DEF Tells
<1>14. MembersListed' /\ OthersForgotten' /\ SelfUnlisted'
  <2>1. MembersListed'
    BY <1>1, <1>11, <1>12, <1>13, RoomFacts DEF RoomInv, MembersListed
  <2>2. OthersForgotten'
    BY <1>1, <1>2, <1>11, <1>12, <1>13, RoomFacts DEF RoomInv, OthersForgotten, CutShort
  <2>3. SelfUnlisted'
    BY <1>12 DEF RoomInv, SelfUnlisted
  <2> QED
    BY <2>1, <2>2, <2>3
<1> QED
  BY <1>4, <1>5, <1>6, <1>7, <1>8, <1>9, <1>14 DEF RoomInv

\* Counting anew, or nothing at all.
LEMMA CountKeeps ==
    ASSUME RoomInv, ClearRequests \/ UNCHANGED vars
    PROVE  RoomInv'
<1>1. /\ UNCHANGED <<room, pc, send, recv, outbox, chan, got>>
      /\ requests' \in 0..MaxRequests
  BY LimitsAssumption DEF ClearRequests, vars, RoomInv, TypeOK
<1>2. TypeOK' /\ Registered' /\ Stages' /\ Fresh'
  <2>1. TypeOK'
    BY <1>1 DEF RoomInv, TypeOK
  <2>2. Registered' /\ Stages' /\ Fresh'
    BY <1>1 DEF RoomInv, Registered, Stages, Fresh
  <2> QED
    BY <2>1, <2>2
<1>3. \A r \in Peers : /\ CutShort(r)' <=> CutShort(r)
                       /\ Listening(r)' <=> Listening(r)
  BY <1>1 DEF CutShort, Listening
<1>4. \A r \in Peers : \A e \in In(outbox'[r]["receive"]) :
         /\ e.msg.type \in {"Update", "Sdp", "Error"}
         /\ e.msg.type = "Update" => e.msg.peer = r /\ e.to # r
         /\ e.msg.type = "Sdp" => e.msg.peer = r
  BY <1>1 DEF RoomInv, Own
<1> QED
  BY <1>1, <1>2, <1>3, <1>4, MessagesKept

\* A connection is refused or its tasks are spawned, and no task has a message.
LEMMA AsideKeeps ==
    ASSUME RoomInv, NEW p \in Peers, Spawn(p) \/ Refuse(p)
    PROVE  RoomInv'
<1>1. UNCHANGED <<room, requests, outbox, chan, got>>
  BY DEF Spawn, Refuse
<1>2. /\ outbox[p]["socket"] = <<>> /\ pc[p] \in {"free", "joining"}
      /\ send[p] = "none" /\ recv[p] = "none"
  BY DEF Spawn, Refuse, RoomInv, Fresh, Stages
<1>3. \/ /\ pc[p] = "joining" /\ pc' = [pc EXCEPT ![p] = "running"]
         /\ send' = [send EXCEPT ![p] = "running"] /\ recv' = [recv EXCEPT ![p] = "running"]
      \/ /\ pc[p] = "free" /\ pc' = [pc EXCEPT ![p] = "gone"] /\ send' = send /\ recv' = recv
  BY DEF Spawn, Refuse
<1>4. TypeOK'
  BY <1>1, <1>3 DEF RoomInv, TypeOK
<1>5. /\ \A r \in Peers : r # p => pc'[r] = pc[r] /\ send'[r] = send[r] /\ recv'[r] = recv[r]
      /\ \/ /\ pc[p] = "joining" /\ pc'[p] = "running" /\ send'[p] = "running"
            /\ recv'[p] = "running"
         \/ pc[p] = "free" /\ pc'[p] = "gone" /\ send'[p] = "none" /\ recv'[p] = "none"
  BY <1>2, <1>3 DEF RoomInv, TypeOK
<1>6. Registered' /\ Stages' /\ Fresh'
  <2>1. Registered'
    BY <1>1, <1>5 DEF RoomInv, Registered
  <2>2. Stages'
    BY <1>1, <1>2, <1>5 DEF RoomInv, Stages
  <2>3. Fresh'
    BY <1>1, <1>5 DEF RoomInv, Fresh
  <2> QED
    BY <2>1, <2>2, <2>3
<1>7. \A r \in Peers : /\ CutShort(r) => CutShort(r)'
                       /\ Listening(r)' => Listening(r)
  BY <1>2, <1>5 DEF CutShort, Listening
<1>8. \A r \in Peers : pc'[r] = pc[r] \/ (pc[r] # "gone" /\ In(outbox[r]["socket"]) = {})
  BY <1>2, <1>5, InEmpty
<1>9. \A r \in Peers : \A e \in In(outbox'[r]["receive"]) :
         /\ e.msg.type \in {"Update", "Sdp", "Error"}
         /\ e.msg.type = "Update" => e.msg.peer = r /\ e.to # r
         /\ e.msg.type = "Sdp" => e.msg.peer = r
  BY <1>1 DEF RoomInv, Own
<1> QED
  BY <1>1, <1>4, <1>6, <1>7, <1>8, <1>9, MessagesKept

\* A receive task ends, or is aborted, or the send task is.
LEMMA TaskEndsKeeps ==
    ASSUME RoomInv, NEW p \in Peers,
           \/ SocketCloses(p) \/ Returns(p) \/ ReceiveStops(p)
           \/ AbortReceive(p) \/ AbortSend(p)
    PROVE  RoomInv'
<1>1. UNCHANGED <<room, requests, chan, got>>
  BY DEF SocketCloses, Returns, ReceiveEnds, ReceiveStops, AbortReceive, AbortSend
<1>2. \/ /\ recv[p] \in {"running", "ending"} /\ outbox[p]["receive"] = <<>>
         /\ recv' = [recv EXCEPT ![p] = "ended"] /\ UNCHANGED <<pc, send, outbox>>
      \/ /\ recv[p] = "aborted" /\ recv' = [recv EXCEPT ![p] = "stopped"]
         /\ outbox' = [outbox EXCEPT ![p]["receive"] = <<>>] /\ UNCHANGED <<pc, send>>
      \/ /\ pc[p] = "running" /\ pc' = [pc EXCEPT ![p] = "closing"] /\ send' = send
         /\ recv' = [recv EXCEPT ![p] = "ended"]
         /\ outbox' = [outbox EXCEPT ![p]["receive"] = <<>>]
      \/ /\ pc[p] = "running" /\ pc' = [pc EXCEPT ![p] = "closing"] /\ send' = send
         /\ recv[p] = "running" /\ recv' = [recv EXCEPT ![p] = "aborted"] /\ outbox' = outbox
      \/ /\ pc[p] = "running" /\ pc' = [pc EXCEPT ![p] = "closing"] /\ recv[p] = "ended"
         /\ \/ send' = [send EXCEPT ![p] = "aborted"] /\ send[p] = "running"
            \/ send' = [send EXCEPT ![p] = send[p]]
         /\ UNCHANGED <<recv, outbox>>
  BY DEF SocketCloses, Returns, ReceiveEnds, ReceiveStops, AbortReceive, AbortSend
<1>3. <<>> \in Seq(Delivery) /\ In(<<>>) = {}
  BY InEmpty
<1>4. /\ outbox' \in [Peers -> [Tasks -> Seq([to: Peers, msg: Message])]]
      /\ \A r \in Peers : /\ outbox'[r]["socket"] = outbox[r]["socket"]
                          /\ \/ outbox'[r]["receive"] = outbox[r]["receive"]
                             \/ outbox'[r]["receive"] = <<>>
  <2>1. CASE outbox' = outbox
    BY <2>1 DEF RoomInv, TypeOK
  <2>2. CASE outbox' = [outbox EXCEPT ![p]["receive"] = <<>>]
    <3> DEFINE e == <<>>
    <3>1. e \in Seq(Delivery) /\ outbox' = [outbox EXCEPT ![p]["receive"] = e]
      BY <1>3, <2>2
    <3> HIDE DEF e
    <3>2. /\ outbox' \in [Peers -> [Tasks -> Seq([to: Peers, msg: Message])]]
          /\ \A r \in Peers : /\ outbox'[r]["socket"] = outbox[r]["socket"]
                              /\ outbox'[r]["receive"] = IF r = p THEN e ELSE outbox[r]["receive"]
      BY <3>1, OutboxSet, TaskNames
    <3> QED
      BY <3>2 DEF e
  <2> QED
    BY <1>2, <2>1, <2>2
<1>5. /\ \A r \in Peers : r # p => /\ pc'[r] = pc[r] /\ send'[r] = send[r] /\ recv'[r] = recv[r]
                                   /\ outbox'[r]["receive"] = outbox[r]["receive"]
      /\ \/ pc'[p] = pc[p] /\ pc[p] \notin {"free", "joining"}
         \/ pc[p] = "running" /\ pc'[p] = "closing"
      /\ \/ send'[p] = send[p]
         \/ send[p] = "running" /\ send'[p] = "aborted"
  <2>1. \A r \in Peers : r # p => outbox'[r]["receive"] = outbox[r]["receive"]
    BY <1>2 DEF RoomInv, TypeOK
  <2>2. /\ \A r \in Peers : r # p => pc'[r] = pc[r] /\ send'[r] = send[r] /\ recv'[r] = recv[r]
        /\ \/ pc'[p] = pc[p] /\ pc[p] \notin {"free", "joining"}
           \/ pc[p] = "running" /\ pc'[p] = "closing"
        /\ \/ send'[p] = send[p]
           \/ send[p] = "running" /\ send'[p] = "aborted"
    BY <1>2 DEF RoomInv, TypeOK, Stages
  <2> QED
    BY <2>1, <2>2
<1>6. \/ /\ pc'[p] = pc[p] /\ pc[p] = "running" /\ outbox'[p]["receive"] = <<>>
         /\ recv'[p] = "ended"
      \/ /\ pc'[p] = pc[p] /\ recv[p] = "aborted" /\ recv'[p] = "stopped"
         /\ outbox'[p]["receive"] = <<>>
      \/ /\ pc'[p] = "closing" /\ recv[p] \in {"running", "ending", "ended"} /\ recv'[p] = "ended"
         /\ outbox'[p]["receive"] = <<>>
      \/ pc'[p] = "closing" /\ recv'[p] = "aborted"
  <2>1. outbox' = [outbox EXCEPT ![p]["receive"] = <<>>] => outbox'[p]["receive"] = <<>>
    BY TaskNames DEF RoomInv, TypeOK
  <2>2. pc[p] = "running" => recv[p] \in {"running", "ending", "ended"}
    BY DEF RoomInv, Stages
  <2>3. recv[p] \in {"running", "ending"} => pc[p] = "running"
    BY DEF RoomInv, TypeOK, Stages
  <2>4. recv[p] = "ended" => outbox[p]["receive"] = <<>>
    BY DEF RoomInv, Stages
  <2> QED
    BY <1>2, <2>1, <2>2, <2>3, <2>4 DEF RoomInv, TypeOK
<1>7. TypeOK'
  <2>1. /\ pc' \in [Peers -> {"free", "joining", "running", "closing", "gone"}]
        /\ send' \in [Peers -> {"none", "running", "aborted", "ended"}]
        /\ recv' \in [Peers -> {"none", "running", "ending", "ended", "aborted", "stopped"}]
    BY <1>2 DEF RoomInv, TypeOK
  <2> QED
    BY <1>1, <1>4, <2>1 DEF RoomInv, TypeOK
<1>8. Registered' /\ Stages' /\ Fresh'
  <2>1. Registered'
    BY <1>1, <1>5 DEF RoomInv, Registered
  <2>2. Stages'
    BY <1>5, <1>6 DEF RoomInv, Stages
  <2>3. Fresh'
    BY <1>1, <1>4, <1>5 DEF RoomInv, Fresh
  <2> QED
    BY <2>1, <2>2, <2>3
<1>9. \A r \in Peers : /\ CutShort(r) => CutShort(r)'
                       /\ Listening(r)' => Listening(r)
  <2>1. CutShort(p) => CutShort(p)'
    BY <1>6 DEF CutShort, RoomInv, Stages
  <2>2. Listening(p)' => Listening(p)
    BY <1>5 DEF Listening
  <2> QED
    BY <1>5, <2>1, <2>2 DEF CutShort, Listening
<1>10. \A r \in Peers : pc'[r] = pc[r] \/ (pc[r] # "gone" /\ In(outbox[r]["socket"]) = {})
  BY <1>5 DEF RoomInv, Own
<1>11. \A r \in Peers : \A e \in In(outbox'[r]["receive"]) :
          /\ e.msg.type \in {"Update", "Sdp", "Error"}
          /\ e.msg.type = "Update" => e.msg.peer = r /\ e.to # r
          /\ e.msg.type = "Sdp" => e.msg.peer = r
  BY <1>3, <1>4 DEF RoomInv, Own
<1> QED
  BY <1>1, <1>4, <1>7, <1>8, <1>9, <1>10, <1>11, MessagesKept

-----------------------------------------------------------------------------
(* The theorems. *)

LEMMA InitRoom == Init => RoomInv
<1> SUFFICES ASSUME Init PROVE RoomInv
  OBVIOUS
<1>1. /\ room = {} /\ requests = 0
      /\ \A p \in Peers : /\ pc[p] = "free" /\ send[p] = "none" /\ recv[p] = "none"
                          /\ outbox[p]["socket"] = <<>> /\ outbox[p]["receive"] = <<>>
                          /\ chan[p] = <<>> /\ got[p] = Unserved
  BY TaskNames DEF Init
<1>2. In(<<>>) = {} /\ \A i \in 1..Len(<<>>) : FALSE
  BY InEmpty
<1>3. TypeOK
  <2>1. <<>> \in Seq(Message) /\ <<>> \in Seq([to: Peers, msg: Message]) /\ Len(<<>>) <= Capacity
    BY LimitsAssumption
  <2>2. /\ outbox \in [Peers -> [Tasks -> Seq([to: Peers, msg: Message])]]
        /\ chan \in [Peers -> Seq(Message)]
    BY <2>1 DEF Init
  <2>3. Unserved \in Client
    BY DEF Client, Unserved
  <2>4. /\ got \in [Peers -> Client]
        /\ pc \in [Peers -> {"free", "joining", "running", "closing", "gone"}]
        /\ send \in [Peers -> {"none", "running", "aborted", "ended"}]
        /\ recv \in [Peers -> {"none", "running", "ending", "ended", "aborted", "stopped"}]
    BY <2>3 DEF Init
  <2>5. \A p \in Peers : Len(chan[p]) <= Capacity
    BY <1>1, <2>1
  <2>6. requests \in 0..MaxRequests /\ room \subseteq Peers
    BY <1>1, LimitsAssumption
  <2> QED
    BY <2>2, <2>4, <2>5, <2>6 DEF TypeOK
<1>4. Own /\ LeftMeansGone
  BY <1>1, <1>2 DEF Own, LeftMeansGone
<1>5. Registered /\ Stages /\ Fresh
  BY <1>1, FS_EmptySet DEF Registered, Fresh, Stages
<1>6. OneHello /\ LeftIsFinal
  BY <1>1, <1>2 DEF OneHello, LeftIsFinal
<1>7. MembersListed /\ OthersForgotten
  BY <1>1 DEF MembersListed, OthersForgotten
<1>8. SelfUnlisted
  BY <1>1, <1>2 DEF SelfUnlisted, Listed, Unserved
<1> QED
  BY <1>3, <1>4, <1>5, <1>6, <1>7, <1>8 DEF RoomInv

LEMMA NextRoom == RoomInv /\ [Next]_vars => RoomInv'
<1> SUFFICES ASSUME RoomInv, [Next]_vars PROVE RoomInv'
  OBVIOUS
<1>1. ASSUME NEW p \in Peers, Server(p) \/ Clients(p) PROVE RoomInv'
  BY <1>1, PutKeeps, AsideKeeps, SendKeeps, SendEndsKeeps, TaskEndsKeeps, LeaveKeeps,
     ConnectKeeps, ReceiveTaskKeeps DEF Server, Clients
<1>2. CASE ClearRequests \/ UNCHANGED vars
  BY <1>2, CountKeeps
<1> QED
  BY <1>1, <1>2 DEF Next

LEMMA AlwaysRoom == Spec => []RoomInv
  BY InitRoom, NextRoom, PTL DEF Spec

\* The room, the channels and the clients keep their types: no channel holds more
\* than its capacity and no hour more than its requests.
THEOREM RoomTypeCorrect == Spec => []TypeOK
<1>1. RoomInv => TypeOK
  BY DEF RoomInv
<1> QED
  BY <1>1, AlwaysRoom, PTL

\* After "p has left" nothing about p follows in any channel, whatever the tasks
\* beside the one that unregisters put, but for updates and offers of a receive
\* task that was aborted while it ran: LeftIsFinal.
THEOREM LeftIsTheLast == Spec => []LeftIsFinal
<1>1. RoomInv => LeftIsFinal
  BY DEF RoomInv
<1> QED
  BY <1>1, AlwaysRoom, PTL

\* When all is quiet a client that was greeted before anything else shows every
\* other member of the room, and nobody else but connections that were cut
\* short: QuietViewExact.
THEOREM ViewsCorrect == Spec => []QuietViewExact
<1>1. ASSUME RoomInv PROVE QuietViewExact
  <2> SUFFICES ASSUME Quiet, NEW p \in Greeted
               PROVE  /\ room \ {p} \subseteq got[p].view
                      /\ \A x \in got[p].view \ room : CutShort(x)
                      /\ p \notin got[p].view
    BY DEF QuietViewExact
  <2>1. /\ p \in room /\ ~got[p].early /\ p \in Peers /\ room \subseteq Peers
        /\ got[p].view \subseteq Peers
    BY <1>1, RoomFacts DEF Client, Greeted
  <2>2. \A r \in Peers : outbox[r]["socket"] = <<>> /\ chan[r] = <<>>
    BY TaskNames DEF Quiet
  <2>3. Listening(p) /\ Clean(p)
    BY <1>1, <2>1, <2>2 DEF Quiet, RoomInv, Registered, Listening, Clean
  <2>4. \A x \in Peers : Listed(p, x) <=> x \in got[p].view
    BY <2>1, <2>2, InEmpty DEF Listed
  <2>5. \A x \in Peers, type \in {"Join", "Left"} : ~Tells(x, type, p)
    BY <2>2, InEmpty DEF Tells
  <2>6. \A x \in room : x # p => x \in got[p].view
    BY <1>1, <2>1, <2>3, <2>4, <2>5 DEF RoomInv, MembersListed
  <2>7. \A x \in Peers \ room : x \in got[p].view => CutShort(x)
    BY <1>1, <2>1, <2>2, <2>3, <2>4, <2>5, InEmpty DEF RoomInv, OthersForgotten
  <2>8. p \notin got[p].view
    BY <1>1, <2>1, <2>4 DEF RoomInv, SelfUnlisted
  <2> QED
    BY <2>1, <2>6, <2>7, <2>8
<1> QED
  BY <1>1, AlwaysRoom, PTL
=============================================================================
