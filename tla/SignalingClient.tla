--------------------------- MODULE SignalingClient ---------------------------
(***************************************************************************)
(* One connection of the app to the signaling server, signaling.rs and the *)
(* functions connect, send_offer and accept_offer of api/webrtc.rs, up to  *)
(* the exchange of the session descriptions.                               *)
(*                                                                         *)
(* Four tasks work on a connection.  The reader takes messages from the    *)
(* socket; the listener calls back whoever waits for an answer and passes  *)
(* everything on; the main task connects, and then forwards the messages   *)
(* to the Dart stream; the writer sends what the offers and answers put    *)
(* into its channel.  The channels between them are bounded.               *)
(*                                                                         *)
(*   socket -> reader -> received (1) -> listener -> app (16) -> main      *)
(*                                                                         *)
(* The server and the other peers are the environment: it sends a notice   *)
(* (Join, Update, Left, Error) or an offer at any time, before Hello too,  *)
(* as SignalingServer does, and answers an offer that was written.         *)
(***************************************************************************)
EXTENDS Naturals, Sequences, SequencesExt

CONSTANTS
    Notices,        \* the Joins, Updates, Lefts and Errors of the server
    Offers,         \* the sessions this client offers
    Incoming,       \* the sessions offered to it
    AppCapacity     \* of the channel between listener and main task: 16

ASSUME CapacityAssumption == AppCapacity \in Nat \ {0}

VARIABLES
    server,         \* what the server has sent, and whether the socket is closed
    inbox,          \* the messages in the socket
    reader,         \* the task over the read half of the socket
    hello,          \* is the client of Hello in the channel of connect()?
    received,       \* receive_tx to receive_rx
    listener,       \* the task of start_listener
    registered,     \* the sessions that have a callback in on_answer
    app,            \* tx to rx of start_listener
    main,           \* the task of connect(), api/webrtc.rs
    shown,          \* what the Dart stream got
    call,           \* the offers and the acceptances
    outbox,         \* send_tx to send_rx
    writer,         \* the task over the write half of the socket
    wire            \* what it has written

reading == <<inbox, reader, hello>>
listening == <<received, listener, registered, app>>
writing == <<outbox, writer, wire>>
vars == <<server, reading, listening, main, shown, call, writing>>

-----------------------------------------------------------------------------
(* Data. *)

\* Capacity of receive_tx, of client_tx and of send_tx.
Capacity == 1

\* Mutant of HasRoom: one message too many.
HasRoomOffByOne(channel) == Len(channel) <= Capacity

HasRoom(channel) == Len(channel) < Capacity

Calls == Offers \cup Incoming

Hello == [type |-> "hello"]
Notice(n) == [type |-> "notice", notice |-> n]
Offer(i) == [type |-> "offer", session |-> i]
Answer(o) == [type |-> "answer", session |-> o]

WsServerMessage ==
    {Hello} \cup {Notice(n) : n \in Notices} \cup {Offer(i) : i \in Incoming}
            \cup {Answer(o) : o \in Offers}

\* At most one message in the hands of a task.
Holding == {<<>>} \cup {<<m>> : m \in WsServerMessage}

\* A call makes a peer connection and its description (sdp), puts that into the
\* channel of the writer (put); an offer then registers its callback and waits.
CallPc == {"idle", "sdp", "put", "register", "wait", "answered", "exchanged", "error"}

Init ==
    /\ server = [sent |-> <<>>, closed |-> FALSE]
    /\ inbox = <<>>
    /\ reader = [pc |-> "read", msg |-> <<>>]
    /\ hello = FALSE
    /\ received = <<>>
    /\ listener = [pc |-> "off", msg |-> <<>>]
    /\ registered = {}
    /\ app = <<>>
    /\ main = "dial"
    /\ shown = <<>>
    /\ call = [c \in Calls |-> "idle"]
    /\ outbox = <<>>
    /\ writer = [pc |-> "recv", msg |-> <<>>]
    /\ wire = <<>>

-----------------------------------------------------------------------------
(* The server, its peers and the network. *)

ServerSends(m) ==
    /\ main \notin {"dial", "failed"} /\ ~server.closed
    /\ m \notin ToSet(server.sent)
    /\ m.type = "answer" => m.session \in ToSet(wire)
    /\ server' = [server EXCEPT !.sent = Append(@, m)]
    /\ inbox' = Append(inbox, m)
    /\ UNCHANGED <<reader, hello, listening, main, shown, call, writing>>

\* Either side closes or the network fails: the last messages may be lost.
Close ==
    /\ main \notin {"dial", "failed"} /\ ~server.closed
    /\ server' = [server EXCEPT !.closed = TRUE]
    /\ \E k \in 0..Len(inbox) : inbox' = SubSeq(inbox, 1, k)
    /\ UNCHANGED <<reader, hello, listening, main, shown, call, writing>>

-----------------------------------------------------------------------------
(* The reader. *)

\* Mutant of FirstStop: the message is passed on before connect() is told.
FirstStopReceive(m) == "receive"

\* Where the reader takes a message first: the client of Hello goes to connect().
FirstStop(m) == IF m = Hello THEN "client" ELSE "receive"

ReaderReads ==
    /\ reader.pc = "read" /\ inbox # <<>>
    /\ main # "dial"
    /\ reader' = [pc |-> FirstStop(Head(inbox)), msg |-> <<Head(inbox)>>]
    /\ inbox' = Tail(inbox)
    /\ UNCHANGED <<server, hello, listening, main, shown, call, writing>>

\* There is one Hello, so its channel has room.
ReaderGreets ==
    /\ reader.pc = "client"
    /\ hello' = TRUE
    /\ reader' = [reader EXCEPT !.pc = "receive"]
    /\ UNCHANGED <<server, inbox, listening, main, shown, call, writing>>

ReaderPuts ==
    /\ reader.pc = "receive" /\ HasRoom(received)
    /\ received' = received \o reader.msg
    /\ reader' = [pc |-> "read", msg |-> <<>>]
    /\ UNCHANGED <<server, inbox, hello, listener, registered, app, main, shown, call, writing>>

ReaderEnds ==
    /\ reader.pc = "read" /\ inbox = <<>> /\ server.closed
    /\ reader' = [reader EXCEPT !.pc = "done"]
    /\ UNCHANGED <<server, inbox, hello, listening, main, shown, call, writing>>

-----------------------------------------------------------------------------
(* The listener. *)

\* Mutant of PassedOn: an answer that was called back goes no further.
PassedOnUnlessAnswered(m) ==
    IF m.type = "answer" /\ m.session \in registered THEN <<>> ELSE <<m>>

\* What the listener sends on when it has taken m.
PassedOn(m) == <<m>>

\* Mutant of Callback: the callback is looked up under the name of the peer,
\* where there is none.
CallbackOfPeer(m) == {}

\* The offers that m calls back.  The callback hands the description to the
\* offer, which waits for it.
Callback(m) == {o \in registered : m = Answer(o)}

ListenerTakes ==
    /\ listener.pc = "recv" /\ received # <<>>
    /\ LET m == Head(received) IN
         /\ registered' = registered \ Callback(m)
         /\ call' = [c \in Calls |-> IF c \in Callback(m) THEN "answered" ELSE call[c]]
         /\ listener' = [pc |-> "send", msg |-> PassedOn(m)]
    /\ received' = Tail(received)
    /\ UNCHANGED <<server, reading, app, main, shown, writing>>

ListenerSends ==
    /\ listener.pc = "send" /\ Len(app) < AppCapacity
    /\ app' = app \o listener.msg
    /\ listener' = [pc |-> "recv", msg |-> <<>>]
    /\ UNCHANGED <<server, reading, received, registered, main, shown, call, writing>>

\* Mutant of NoMoreReceived: the listener keeps a sender of its own channel.
NoMoreReceivedEver == FALSE

\* All senders of the channel are gone, and so are the messages.
NoMoreReceived == received = <<>> /\ reader.pc = "done"

ListenerEnds ==
    /\ listener.pc = "recv" /\ NoMoreReceived
    /\ listener' = [listener EXCEPT !.pc = "done"]
    /\ UNCHANGED <<server, reading, received, registered, app, main, shown, call, writing>>

-----------------------------------------------------------------------------
(* The main task: api connect(). *)

\* The key is parsed, the token signed and the socket opened.
Dial(ok) ==
    /\ main = "dial"
    /\ main' = IF ok THEN "hello" ELSE "failed"
    /\ UNCHANGED <<server, reading, listening, shown, call, writing>>

\* connect() of the connection returns, and its listener starts.
Connected ==
    /\ main = "hello" /\ hello
    /\ main' = "on_connection"
    /\ hello' = FALSE
    /\ listener' = [listener EXCEPT !.pc = "recv"]
    /\ UNCHANGED <<server, inbox, reader, received, registered, app, shown, call, writing>>

\* The socket ended before Hello: the unwrap in connect() panics.
ConnectPanics ==
    /\ main = "hello" /\ ~hello /\ reader.pc = "done"
    /\ main' = "panicked"
    /\ received' = <<>>
    /\ UNCHANGED <<server, reading, listener, registered, app, shown, call, writing>>

\* The Dart callback has stored the connection.
OnConnection ==
    /\ main = "on_connection"
    /\ main' = "forward"
    /\ UNCHANGED <<server, reading, listening, shown, call, writing>>

Forward ==
    /\ main = "forward" /\ app # <<>>
    /\ shown' = Append(shown, Head(app))
    /\ app' = Tail(app)
    /\ UNCHANGED <<server, reading, received, listener, registered, main, call, writing>>

ForwardEnds ==
    /\ main = "forward" /\ app = <<>> /\ listener.pc = "done"
    /\ main' = "returned"
    /\ UNCHANGED <<server, reading, listening, shown, call, writing>>

-----------------------------------------------------------------------------
(* The calls: send_offer for an offer of our own, accept_offer for one that    *)
(* was shown.                                                                *)

\* Call c goes on at pc.
Go(c, pc) == call' = [call EXCEPT ![c] = pc]

\* Has the connection been handed to Dart?  Dart forgets it when the stream ends.
Available == main \in {"on_connection", "forward"}

StartOffer(o) ==
    /\ Available /\ call[o] = "idle"
    /\ Go(o, "sdp")
    /\ UNCHANGED <<server, reading, listening, main, shown, writing>>

AcceptOffer(i) ==
    /\ call[i] = "idle" /\ Offer(i) \in ToSet(shown)
    /\ Go(i, "sdp")
    /\ UNCHANGED <<server, reading, listening, main, shown, writing>>

\* create_peer_connection, the local description and its candidates.
Describe(c, ok) ==
    /\ call[c] = "sdp"
    /\ Go(c, IF ok THEN "put" ELSE "error")
    /\ UNCHANGED <<server, reading, listening, main, shown, writing>>

\* An offer has its callback registered next; an answer is exchanged.
AfterPut(c) == IF c \in Offers THEN "register" ELSE "answered"

\* signaling.send_offer, signaling.send_answer.
Put(c) ==
    /\ call[c] = "put"
    /\ IF writer.pc = "done"
         THEN Go(c, "error") /\ UNCHANGED outbox
         ELSE /\ HasRoom(outbox)
              /\ outbox' = Append(outbox, c)
              /\ Go(c, AfterPut(c))
    /\ UNCHANGED <<server, reading, listening, main, shown, writer, wire>>

\* signaling.on_answer.
OnAnswer(o) ==
    /\ call[o] = "register"
    /\ registered' = registered \cup {o}
    /\ Go(o, "wait")
    /\ UNCHANGED <<server, reading, received, listener, app, main, shown, writing>>

\* SdpExchanged is reported to the application; an offer decodes and sets the
\* answer.  Each of these may fail.
SdpExchanged(c, ok) ==
    /\ call[c] = "answered"
    /\ Go(c, IF ok THEN "exchanged" ELSE "error")
    /\ UNCHANGED <<server, reading, listening, main, shown, writing>>

-----------------------------------------------------------------------------
(* The writer. *)

WriterTakes ==
    /\ writer.pc = "recv" /\ outbox # <<>>
    /\ writer' = [pc |-> "write", msg |-> <<Head(outbox)>>]
    /\ outbox' = Tail(outbox)
    /\ UNCHANGED <<server, reading, listening, main, shown, call, wire>>

\* 120 seconds have passed since the writer last began to wait: it pings.  What
\* it was writing then stays in the slot of the sink.
WriterTimesOut ==
    /\ writer.pc \in {"recv", "write"}
    /\ main \notin {"dial", "failed"}
    /\ writer' = [writer EXCEPT !.pc = "ping"]
    /\ UNCHANGED <<server, reading, listening, main, shown, call, outbox, wire>>

\* Mutant of Flushed: what was being written at the timeout is lost.
FlushedUnlessPing == IF writer.pc = "ping" THEN <<>> ELSE writer.msg

\* What a write brings onto the wire: a ping is preceded by what is in the slot.
Flushed == writer.msg

\* A write to a socket that was closed may go unnoticed.
WriterWrites ==
    /\ writer.pc \in {"write", "ping"}
    /\ wire' = IF server.closed THEN wire ELSE wire \o Flushed
    /\ writer' = [pc |-> "recv", msg |-> <<>>]
    /\ UNCHANGED <<server, reading, listening, main, shown, call, outbox>>

\* A write fails, or nobody has a sender of the channel any more.
WriterEnds ==
    /\ \/ writer.pc \in {"write", "ping"} /\ server.closed
       \/ /\ writer.pc = "recv" /\ outbox = <<>> /\ main \in {"failed", "panicked", "returned"}
          /\ \A c \in Calls : call[c] \in {"idle", "exchanged", "error"}
    /\ writer' = [pc |-> "done", msg |-> <<>>]
    /\ outbox' = <<>>
    /\ UNCHANGED <<server, reading, listening, main, shown, call, wire>>

-----------------------------------------------------------------------------
(* The specification. *)

Environment == Close \/ \E m \in WsServerMessage : ServerSends(m)

Reader == ReaderReads \/ ReaderGreets \/ ReaderPuts \/ ReaderEnds

Listener == ListenerTakes \/ ListenerSends \/ ListenerEnds

Main ==
    \/ \E ok \in BOOLEAN : Dial(ok)
    \/ Connected \/ ConnectPanics \/ OnConnection \/ Forward \/ ForwardEnds

Calling(c) ==
    \/ \E ok \in BOOLEAN : Describe(c, ok)
    \/ Put(c) \/ OnAnswer(c)
    \/ \E ok \in BOOLEAN : SdpExchanged(c, ok)

Writer == WriterTakes \/ WriterTimesOut \/ WriterWrites \/ WriterEnds

Next ==
    \/ Environment \/ Reader \/ Listener \/ Main \/ Writer
    \/ \E o \in Offers : StartOffer(o)
    \/ \E i \in Incoming : AcceptOffer(i)
    \/ \E c \in Calls : Calling(c)

Spec == Init /\ [][Next]_vars

\* The runtime runs every task that can go on; it does not hurry the timeout.
FairSpec ==
    /\ Spec
    /\ WF_vars(Reader) /\ WF_vars(Listener) /\ WF_vars(Main)
    /\ WF_vars(WriterTakes) /\ WF_vars(WriterWrites) /\ WF_vars(WriterEnds)
    /\ \A c \in Calls : WF_vars(Calling(c))

-----------------------------------------------------------------------------
(* Properties. *)

TypeOK ==
    /\ server \in [sent: Seq(WsServerMessage), closed: BOOLEAN]
    /\ inbox \in Seq(WsServerMessage)
    /\ reader \in [pc: {"read", "client", "receive", "done"}, msg: Holding]
    /\ hello \in BOOLEAN
    /\ received \in Seq(WsServerMessage) /\ Len(received) <= Capacity
    /\ listener \in [pc: {"off", "recv", "send", "done"}, msg: Holding]
    /\ registered \subseteq Offers
    /\ app \in Seq(WsServerMessage) /\ Len(app) <= AppCapacity
    /\ main \in {"dial", "hello", "on_connection", "forward", "returned", "panicked", "failed"}
    /\ shown \in Seq(WsServerMessage)
    /\ call \in [Calls -> CallPc]
    /\ outbox \in Seq(Calls) /\ Len(outbox) <= Capacity
    /\ writer \in [pc: {"recv", "write", "ping", "done"}, msg: {<<>>} \cup {<<c>> : c \in Calls}]
    /\ wire \in Seq(Calls)

\* The messages of the server in the Dart stream and on their way to it, from
\* the first to the last.
Stream == shown \o app \o listener.msg \o received \o reader.msg \o inbox

\* No message of the server is lost, doubled or overtaken on its way through
\* the tasks to the Dart stream; only a closed socket cuts off the last ones.
NothingLost ==
    /\ IsPrefix(Stream, server.sent)
    /\ ~server.closed => Stream = server.sent

\* An offer or answer that was put is written, whatever the timeout of the
\* writer interrupts, as long as the socket is open.
PutIsWritten ==
    \A c \in Calls :
       call[c] \in {"register", "wait", "answered", "exchanged"} /\ ~server.closed
          => c \in ToSet(wire \o writer.msg \o outbox)

\* Hello came after as many other messages as the reader can pass on, at most.
HelloInTime == \E k \in 1..Capacity + 1 : k <= Len(server.sent) /\ server.sent[k] = Hello

\* connect() returns once Hello was sent, if at most one message preceded it.
ConnectReturns == HelloInTime ~> (main \notin {"dial", "hello"} \/ server.closed)

\* The reader holds a message that nobody will take before Hello arrives.
Stuck == main = "hello" /\ ~hello /\ reader.pc = "receive" /\ ~HasRoom(received)

\* When the socket ends, so does connect(), and the app removes the connection.
CloseEnds == server.closed ~> (main \in {"returned", "panicked"} \/ Stuck)

\* An offer that registered before its answer came goes on with the answer.
AnsweredInTime ==
    \A o \in Offers :
       (o \in registered /\ Answer(o) \in ToSet(received \o reader.msg \o inbox))
          ~> (call[o] \in {"exchanged", "error"} \/ server.closed)
=============================================================================
