--------------------------- MODULE SignalingServer ---------------------------
(***************************************************************************)
(* One room (IP group) of the WebSocket signaling server, ws_controller.rs,*)
(* and what its clients make of the messages.                              *)
(*                                                                         *)
(* A connection is a peer id.  Two of its tasks put messages one at a time *)
(* into the bounded channels of connections, and wait while a channel is   *)
(* full: handle_socket ("socket") the Join messages and its own Hello, and *)
(* the Left messages at the end; the receive task ("receive") what its     *)
(* client sends.  outbox is what each has yet to put, in the order of the  *)
(* code.  The channel of a connection is drained by its send task, which   *)
(* is spawned after Hello was put, and it is dropped with that task.       *)
(*                                                                         *)
(* When one of the two spawned tasks ends, handle_socket aborts the other  *)
(* and does not wait for it: a task that waits is dropped, but one that a  *)
(* worker is just running goes on until it has to wait, beside the rest of *)
(* handle_socket.                                                          *)
(***************************************************************************)
EXTENDS Integers, FiniteSets, Sequences

CONSTANTS
    Peers,          \* connections; every connection draws a fresh id
    Capacity,       \* of a channel: 4
    MaxConnections, \* MAX_CONNECTIONS_PER_IP
    MaxRequests     \* MAX_REQUESTS_PER_IP_PER_HOUR

ASSUME LimitsAssumption ==
    /\ Capacity \in Nat \ {0}
    /\ MaxConnections \in Nat
    /\ MaxRequests \in Nat

VARIABLES
    room,           \* the registered connections of the room
    requests,       \* the requests counted since the last full hour
    pc,             \* the state of handle_socket, per connection
    send,           \* its send task
    recv,           \* its receive task
    outbox,         \* the messages its tasks have yet to put
    chan,           \* its channel
    got             \* what its client has made of the messages so far

vars == <<room, requests, pc, send, recv, outbox, chan, got>>

-----------------------------------------------------------------------------
(* Data. *)

Message ==
    [type: {"Join", "Left", "Update", "Sdp"}, peer: Peers]
       \cup [type: {"Hello"}, peers: SUBSET Peers]
       \cup [type: {"Error"}]

About(type, p) == [type |-> type, peer |-> p]
Hello(peers)   == [type |-> "Hello", peers |-> peers]
Error          == [type |-> "Error"]

\* What the client keeps: has it been greeted, did anything come before that,
\* and which peers does it show?
Client == [greeted: BOOLEAN, early: BOOLEAN, view: SUBSET Peers]

Unserved == [greeted |-> FALSE, early |-> FALSE, view |-> {}]

\* The iteration orders of a hash map.
Orders(S) ==
    {q \in [1..Cardinality(S) -> S] : \A i, j \in DOMAIN q : q[i] = q[j] => i = j}

\* Put m into the channels of S, in some order.
ToAll(S, m) == {[i \in DOMAIN q |-> [to |-> q[i], msg |-> m]] : q \in Orders(S)}

To(p, m) == <<[to |-> p, msg |-> m]>>

\* The tasks that put messages.
Tasks == {"socket", "receive"}

\* Is the receiving end of p's channel still there?
Listening(p) == pc[p] = "joining" \/ send[p] \in {"running", "aborted"}

Init ==
    /\ room = {}
    /\ requests = 0
    /\ pc = [p \in Peers |-> "free"]
    /\ send = [p \in Peers |-> "none"]
    /\ recv = [p \in Peers |-> "none"]
    /\ outbox = [p \in Peers |-> [t \in Tasks |-> <<>>]]
    /\ chan = [p \in Peers |-> <<>>]
    /\ got = [p \in Peers |-> Unserved]

-----------------------------------------------------------------------------
(* The limits. *)

roomFull == Cardinality(room) >= MaxConnections

\* Mutant of protect_ddos_refuses: one request too many.
protect_ddos_lenient == requests > MaxRequests

\* protect_ddos_request_count refuses, or counts.
protect_ddos_refuses == requests >= MaxRequests

\* The scheduler clears the counts every full hour.
ClearRequests ==
    /\ requests > 0
    /\ requests' = 0
    /\ UNCHANGED <<room, pc, send, recv, outbox, chan, got>>

-----------------------------------------------------------------------------
(* A connection. *)

Refuse(p) ==
    /\ pc[p] = "free"
    /\ roomFull \/ protect_ddos_refuses
    /\ pc' = [pc EXCEPT ![p] = "gone"]
    /\ UNCHANGED <<room, requests, send, recv, outbox, chan, got>>

\* Register under the lock; the members of that moment are told and listed.
Connect(p) ==
    /\ pc[p] = "free"
    /\ ~roomFull /\ ~protect_ddos_refuses
    /\ requests' = requests + 1
    /\ room' = room \cup {p}
    /\ pc' = [pc EXCEPT ![p] = "joining"]
    /\ \E joins \in ToAll(room, About("Join", p)) :
          outbox' = [outbox EXCEPT ![p]["socket"] = joins \o To(p, Hello(room))]
    /\ UNCHANGED <<send, recv, chan, got>>

\* A task of p puts its next message: it waits for room in a channel, and a
\* channel that is dropped swallows the message.
Put(p, task) ==
    /\ outbox[p][task] # <<>>
    /\ outbox' = [outbox EXCEPT ![p][task] = Tail(@)]
    /\ LET to == Head(outbox[p][task]).to IN
       IF Listening(to)
         THEN /\ Len(chan[to]) < Capacity
              /\ chan' = [chan EXCEPT ![to] = Append(@, Head(outbox[p][task]).msg)]
         ELSE UNCHANGED chan
    /\ UNCHANGED <<room, requests, pc, send, recv, got>>

\* Hello is put: the send task and the receive task are spawned.
Spawn(p) ==
    /\ pc[p] = "joining" /\ outbox[p]["socket"] = <<>>
    /\ pc' = [pc EXCEPT ![p] = "running"]
    /\ send' = [send EXCEPT ![p] = "running"]
    /\ recv' = [recv EXCEPT ![p] = "running"]
    /\ UNCHANGED <<room, requests, outbox, chan, got>>

-----------------------------------------------------------------------------
(* The send task. *)

\* What the client of the app makes of a message.
Receive(c, m) ==
    [greeted |-> c.greeted \/ m.type = "Hello",
     early   |-> c.early \/ (m.type # "Hello" /\ ~c.greeted),
     view    |-> CASE m.type = "Hello"              -> c.view \cup m.peers
                   [] m.type \in {"Join", "Update"} -> c.view \cup {m.peer}
                   [] m.type = "Left"               -> c.view \ {m.peer}
                   [] OTHER                         -> c.view]

\* It writes the next message to the socket.
Send(p) ==
    /\ send[p] \in {"running", "aborted"} /\ chan[p] # <<>>
    /\ chan' = [chan EXCEPT ![p] = Tail(@)]
    /\ got' = [got EXCEPT ![p] = Receive(@, Head(chan[p]))]
    /\ UNCHANGED <<room, requests, pc, send, recv, outbox>>

SendEnds(p) ==
    /\ send' = [send EXCEPT ![p] = "ended"]
    /\ chan' = [chan EXCEPT ![p] = <<>>]
    /\ got' = [got EXCEPT ![p] = Unserved]
    /\ UNCHANGED <<room, requests, pc, recv, outbox>>

\* The socket takes no more.
WriteFails(p) == send[p] = "running" /\ chan[p] # <<>> /\ SendEnds(p)

SendStops(p) == send[p] = "aborted" /\ SendEnds(p)

-----------------------------------------------------------------------------
(* The receive task. *)

\* It is at its next message, and the message is counted.
Counted(p) ==
    /\ recv[p] \in {"running", "aborted"} /\ outbox[p]["receive"] = <<>>
    /\ ~protect_ddos_refuses
    /\ requests' = requests + 1

\* Only a connection that is still registered updates its information.
Update(p) ==
    /\ Counted(p)
    /\ \E updates \in ToAll(IF p \in room THEN room \ {p} ELSE {}, About("Update", p)) :
          outbox' = [outbox EXCEPT ![p]["receive"] = updates]
    /\ UNCHANGED <<room, pc, send, recv, chan, got>>

\* An offer or an answer, to a peer that may have left by now.
Sdp(p, target) ==
    /\ Counted(p)
    /\ outbox' = [outbox EXCEPT ![p]["receive"] =
                    IF target \in room THEN To(target, About("Sdp", p)) ELSE <<>>]
    /\ UNCHANGED <<room, pc, send, recv, chan, got>>

\* Too many requests: it puts an error to its own client and returns.
TooMany(p) ==
    /\ recv[p] = "running" /\ outbox[p]["receive"] = <<>>
    /\ protect_ddos_refuses
    /\ recv' = [recv EXCEPT ![p] = "ending"]
    /\ outbox' = [outbox EXCEPT ![p]["receive"] = To(p, Error)]
    /\ UNCHANGED <<room, requests, pc, send, chan, got>>

ReceiveEnds(p) ==
    /\ outbox[p]["receive"] = <<>>
    /\ recv' = [recv EXCEPT ![p] = "ended"]
    /\ UNCHANGED <<room, requests, pc, send, outbox, chan, got>>

\* The socket gives no more.
SocketCloses(p) == recv[p] = "running" /\ ReceiveEnds(p)

Returns(p) == recv[p] = "ending" /\ ReceiveEnds(p)

\* It has to wait, and is dropped with what it still had to put.  (If its next
\* message were one too many it would return without effect: nobody listens to
\* the error.)
ReceiveStops(p) ==
    /\ recv[p] = "aborted"
    /\ recv' = [recv EXCEPT ![p] = "stopped"]
    /\ outbox' = [outbox EXCEPT ![p]["receive"] = <<>>]
    /\ UNCHANGED <<room, requests, pc, send, chan, got>>

-----------------------------------------------------------------------------
(* The end of a connection. *)

\* Mutant of AbortReceive: the receive task is not aborted.
AbortNothing(p) ==
    /\ pc[p] = "running" /\ send[p] = "ended"
    /\ pc' = [pc EXCEPT ![p] = "closing"]
    /\ UNCHANGED <<room, requests, send, recv, outbox, chan, got>>

\* The send task has ended and the receive task is aborted: it waits and is
\* dropped, or a worker is just running it.
AbortReceive(p) ==
    /\ pc[p] = "running" /\ send[p] = "ended"
    /\ pc' = [pc EXCEPT ![p] = "closing"]
    /\ \/ /\ recv' = [recv EXCEPT ![p] = "ended"]
          /\ outbox' = [outbox EXCEPT ![p]["receive"] = <<>>]
       \/ /\ recv[p] = "running"
          /\ recv' = [recv EXCEPT ![p] = "aborted"]
          /\ UNCHANGED outbox
    /\ UNCHANGED <<room, requests, send, chan, got>>

\* The receive task has ended and the send task is aborted.
AbortSend(p) ==
    /\ pc[p] = "running" /\ recv[p] = "ended"
    /\ pc' = [pc EXCEPT ![p] = "closing"]
    /\ send' = [send EXCEPT ![p] = IF @ = "running" THEN "aborted" ELSE @]
    /\ UNCHANGED <<room, requests, recv, outbox, chan, got>>

\* Mutant of Leave: the remaining peers are not told.
LeaveSilently(p) ==
    /\ pc[p] = "closing"
    /\ room' = room \ {p}
    /\ pc' = [pc EXCEPT ![p] = "gone"]
    /\ UNCHANGED <<requests, send, recv, outbox, chan, got>>

\* Unregister under the lock; the remaining members of that moment are told.
Leave(p) ==
    /\ pc[p] = "closing"
    /\ room' = room \ {p}
    /\ pc' = [pc EXCEPT ![p] = "gone"]
    /\ \E lefts \in ToAll(room \ {p}, About("Left", p)) :
          outbox' = [outbox EXCEPT ![p]["socket"] = lefts]
    /\ UNCHANGED <<requests, send, recv, chan, got>>

-----------------------------------------------------------------------------
(* The specification. *)

\* What the runtime does by itself.
Server(p) ==
    \/ \E task \in Tasks : Put(p, task)
    \/ Spawn(p)
    \/ Send(p)
    \/ SendStops(p) \/ ReceiveStops(p) \/ Returns(p)
    \/ AbortReceive(p) \/ AbortSend(p)
    \/ Leave(p)

Clients(p) ==
    \/ Connect(p)
    \/ Refuse(p)
    \/ Update(p)
    \/ \E target \in Peers : Sdp(p, target)
    \/ TooMany(p)
    \/ SocketCloses(p) \/ WriteFails(p)

Next == ClearRequests \/ \E p \in Peers : Server(p) \/ Clients(p)

Spec == Init /\ [][Next]_vars

\* The runtime runs every task that can run, and sockets take what is written.
FairSpec ==
    /\ Spec
    /\ \A p \in Peers :
          /\ \A task \in Tasks : WF_vars(Put(p, task))
          /\ WF_vars(Spawn(p)) /\ WF_vars(Send(p))
          /\ WF_vars(SendStops(p)) /\ WF_vars(ReceiveStops(p)) /\ WF_vars(Returns(p))
          /\ WF_vars(AbortReceive(p)) /\ WF_vars(AbortSend(p)) /\ WF_vars(Leave(p))

-----------------------------------------------------------------------------
(* Properties. *)

TypeOK ==
    /\ room \subseteq Peers
    /\ requests \in 0..MaxRequests
    /\ pc \in [Peers -> {"free", "joining", "running", "closing", "gone"}]
    /\ send \in [Peers -> {"none", "running", "aborted", "ended"}]
    /\ recv \in [Peers -> {"none", "running", "ending", "ended", "aborted", "stopped"}]
    /\ outbox \in [Peers -> [Tasks -> Seq([to: Peers, msg: Message])]]
    /\ chan \in [Peers -> Seq(Message)]
    /\ \A p \in Peers : Len(chan[p]) <= Capacity
    /\ got \in [Peers -> Client]

\* The receive task of p was running when it was aborted, and went on.
CutShort(p) == recv[p] \in {"aborted", "stopped"}

\* After "p has left" nothing about p follows in any channel, although joins,
\* updates and offers are put by tasks that run beside the one that unregisters;
\* but for updates and offers of a receive task that was aborted while it ran.
LeftIsFinal ==
    \A q \in Peers : \A i, j \in 1..Len(chan[q]) :
       i < j /\ chan[q][i].type = "Left" /\ chan[q][j].type \in {"Join", "Update", "Sdp"}
         => \/ chan[q][j].peer # chan[q][i].peer
            \/ chan[q][j].type # "Join" /\ CutShort(chan[q][j].peer)

\* Nothing is on its way, and every member of the room is served.
Quiet ==
    \A p \in Peers :
       /\ \A task \in Tasks : outbox[p][task] = <<>>
       /\ chan[p] = <<>>
       /\ pc[p] \notin {"joining", "closing"}
       /\ pc[p] = "running" => send[p] = "running"

\* The clients whose view of the room counts: those that Hello reached first.
Greeted == {p \in room : ~got[p].early}

\* When all is quiet, a client that was greeted before anything else shows every
\* other member of the room, whatever joined, left and was dropped in the
\* meantime, and nobody else but connections that were cut short.
QuietViewExact ==
    Quiet => \A p \in Greeted :
                /\ room \ {p} \subseteq got[p].view
                /\ \A x \in got[p].view \ room : CutShort(x)
                /\ p \notin got[p].view

\* Every client that connected is sent its Hello at last, "the initial message
\* sent to the client that has just connected" (core/src/webrtc/signaling.rs:22).
HelloIsSent == \A p \in Peers : pc[p] = "joining" ~> got[p].greeted \/ pc[p] # "joining"
=============================================================================
