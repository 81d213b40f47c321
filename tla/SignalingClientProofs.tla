------------------------- MODULE SignalingClientProofs -------------------------
(***************************************************************************)
(* Proofs about SignalingClient: for any notices, offers and capacity of   *)
(* the application's channel, the tasks pass on what the server sends      *)
(* without losing, doubling or reordering it, and write what calls put.    *)
(***************************************************************************)
EXTENDS SignalingClient, SequenceTheorems, TLAPS

\* A task that waits for its next message holds none, and the listener starts
\* with connect().
Hands ==
    /\ reader.pc \in {"read", "done"} => reader.msg = <<>>
    /\ reader.pc = "done" => inbox = <<>> /\ server.closed
    /\ listener.pc \in {"off", "recv", "done"} => listener.msg = <<>>
    /\ main \in {"dial", "hello"} => listener.pc = "off"
    /\ writer.pc \in {"recv", "done"} => writer.msg = <<>>

\* A callback is that of an offer that was put and waits.
Waiting ==
    /\ \A c \in Calls : call[c] = "register" => c \in Offers
    /\ \A o \in registered : call[o] = "wait"

ClientInv == TypeOK /\ Hands /\ Waiting /\ NothingLost /\ PutIsWritten

-----------------------------------------------------------------------------
(* Sequences. *)

LEMMA HeadAndTail ==
    ASSUME NEW S, NEW q \in Seq(S), q # <<>>
    PROVE  /\ Head(q) \in S /\ Tail(q) \in Seq(S) /\ Len(Tail(q)) = Len(q) - 1
           /\ q = <<Head(q)>> \o Tail(q)
<1>1. Head(q) \in S /\ Tail(q) \in Seq(S) /\ Len(Tail(q)) = Len(q) - 1 /\ Len(q) \in Nat \ {0}
  BY HeadTailProperties, EmptySeq
<1>2. <<Head(q)>> \in Seq(S) /\ Len(<<Head(q)>>) = 1 /\ <<Head(q)>>[1] = q[1]
  BY <1>1
<1>3. /\ <<Head(q)>> \o Tail(q) \in Seq(S)
      /\ Len(<<Head(q)>> \o Tail(q)) = Len(q)
      /\ \A i \in 1..Len(q) : (<<Head(q)>> \o Tail(q))[i] =
            IF i <= 1 THEN <<Head(q)>>[i] ELSE Tail(q)[i - 1]
  BY <1>1, <1>2, ConcatProperties
<1>4. \A i \in 1..Len(q) : (<<Head(q)>> \o Tail(q))[i] = q[i]
  <2> SUFFICES ASSUME NEW i \in 1..Len(q) PROVE (<<Head(q)>> \o Tail(q))[i] = q[i]
    OBVIOUS
  <2>1. CASE i = 1
    BY <1>2, <1>3, <2>1
  <2>2. CASE i # 1
    <3>1. i - 1 \in 1..Len(Tail(q)) /\ (i - 1) + 1 = i /\ ~(i <= 1)
      BY <1>1, <2>2
    <3>2. Tail(q)[i - 1] = q[(i - 1) + 1]
      BY <3>1, HeadTailProperties
    <3> QED
      BY <1>3, <3>1, <3>2
  <2> QED
    BY <2>1, <2>2
<1>5. q = <<Head(q)>> \o Tail(q)
  BY <1>3, <1>4, SeqEqual
<1> QED
  BY <1>1, <1>5

\* A message that goes from the start of a channel to the end of what is before it.
LEMMA Moved ==
    ASSUME NEW S, NEW s \in Seq(S), NEW q \in Seq(S), q # <<>>
    PROVE  (s \o <<Head(q)>>) \o Tail(q) = s \o q
<1>1. <<Head(q)>> \in Seq(S) /\ Tail(q) \in Seq(S) /\ q = <<Head(q)>> \o Tail(q)
  BY HeadAndTail
<1>2. (s \o <<Head(q)>>) \o Tail(q) = s \o (<<Head(q)>> \o Tail(q))
  BY <1>1, ConcatAssociative
<1> QED
  BY <1>1, <1>2

LEMMA AppendedLast ==
    ASSUME NEW S, NEW s \in Seq(S), NEW q \in Seq(S), NEW m \in S
    PROVE  s \o Append(q, m) = Append(s \o q, m)
<1>1. <<m>> \in Seq(S) /\ s \o q \in Seq(S)
  BY ConcatProperties
<1>2. Append(q, m) = q \o <<m>> /\ Append(s \o q, m) = (s \o q) \o <<m>>
  BY <1>1, AppendIsConcat
<1> QED
  BY <1>1, <1>2, ConcatAssociative

\* A prefix, entry by entry.
LEMMA PrefixEntries ==
    ASSUME NEW S, NEW s \in Seq(S), NEW t \in Seq(S)
    PROVE  IsPrefix(s, t) <=> Len(s) <= Len(t) /\ \A i \in 1..Len(s) : s[i] = t[i]
<1>1. Len(s) \in Nat /\ Len(t) \in Nat
  BY LenProperties
<1>2. \A i \in 1..Len(s) : s[i] \in S
  BY ElementOfSeq
<1>3. SubSeq(s, 1, Len(s)) = s
  BY SubSeqFull
<1>4. ASSUME Len(s) <= Len(t)
      PROVE  /\ SubSeq(t, 1, Len(s)) \in Seq(S) /\ Len(SubSeq(t, 1, Len(s))) = Len(s)
             /\ \A i \in 1..Len(s) : SubSeq(t, 1, Len(s))[i] = t[i]
  <2>1. \A i \in 1..Len(s) : t[i] \in S
    BY <1>1, <1>4, ElementOfSeq
  <2>2. /\ SubSeq(t, 1, Len(s)) \in Seq(S)
        /\ Len(SubSeq(t, 1, Len(s))) = IF 1 <= Len(s) THEN Len(s) - 1 + 1 ELSE 0
        /\ \A i \in 1..(Len(s) - 1 + 1) : SubSeq(t, 1, Len(s))[i] = t[1 + i - 1]
    BY <1>1, <2>1, SubSeqProperties
  <2>3. Len(s) - 1 + 1 = Len(s) /\ \A i \in 1..Len(s) : 1 + i - 1 = i
    BY <1>1
  <2> QED
    BY <1>1, <2>2, <2>3
<1>5. ASSUME IsPrefix(s, t) PROVE Len(s) <= Len(t) /\ \A i \in 1..Len(s) : s[i] = t[i]
  BY <1>3, <1>4, <1>5 DEF IsPrefix
<1>6. ASSUME Len(s) <= Len(t), \A i \in 1..Len(s) : s[i] = t[i] PROVE IsPrefix(s, t)
  <2>1. s = SubSeq(t, 1, Len(s))
    BY <1>4, <1>6, SeqEqual
  <2> QED
    BY <1>3, <1>6, <2>1 DEF IsPrefix
<1> QED
  BY <1>5, <1>6

\* What is cut off at the end leaves a prefix.
LEMMA CutPrefix ==
    ASSUME NEW S, NEW s \in Seq(S), NEW q \in Seq(S), NEW k \in 0..Len(q)
    PROVE  SubSeq(q, 1, k) \in Seq(S) /\ IsPrefix(s \o SubSeq(q, 1, k), s \o q)
<1> DEFINE r == SubSeq(q, 1, k)
<1>1. Len(q) \in Nat /\ k \in Nat /\ Len(s) \in Nat /\ k <= Len(q)
  BY LenProperties
<1>2. \A i \in 1..k : q[i] \in S
  BY <1>1, ElementOfSeq
<1>3. r \in Seq(S) /\ Len(r) = k /\ \A i \in 1..k : r[i] = q[i]
  <2>1. /\ r \in Seq(S) /\ Len(r) = IF 1 <= k THEN k - 1 + 1 ELSE 0
        /\ \A i \in 1..(k - 1 + 1) : r[i] = q[1 + i - 1]
    BY <1>1, <1>2, SubSeqProperties
  <2>2. k - 1 + 1 = k /\ \A i \in 1..k : 1 + i - 1 = i
    BY <1>1
  <2> QED
    BY <1>1, <2>1, <2>2
<1> HIDE DEF r
<1>4. /\ s \o r \in Seq(S) /\ Len(s \o r) = Len(s) + k
      /\ \A i \in 1..Len(s) + k : (s \o r)[i] = IF i <= Len(s) THEN s[i] ELSE r[i - Len(s)]
  BY <1>3, ConcatProperties
<1>5. /\ s \o q \in Seq(S) /\ Len(s \o q) = Len(s) + Len(q)
      /\ \A i \in 1..Len(s) + Len(q) :
            (s \o q)[i] = IF i <= Len(s) THEN s[i] ELSE q[i - Len(s)]
  BY ConcatProperties
<1>6. \A i \in 1..Len(s \o r) : (s \o r)[i] = (s \o q)[i]
  <2> SUFFICES ASSUME NEW i \in 1..Len(s) + k PROVE (s \o r)[i] = (s \o q)[i]
    BY <1>4
  <2>1. i \in 1..Len(s) + Len(q) /\ (~(i <= Len(s)) => i - Len(s) \in 1..k)
    BY <1>1
  <2> QED
    BY <1>3, <1>4, <1>5, <2>1
<1>7. IsPrefix(s \o r, s \o q)
  <2> DEFINE a == s \o r
             b == s \o q
  <2>1. a \in Seq(S) /\ b \in Seq(S) /\ Len(a) <= Len(b) /\ \A i \in 1..Len(a) : a[i] = b[i]
    BY <1>1, <1>4, <1>5, <1>6
  <2> HIDE DEF a, b
  <2>2. IsPrefix(a, b)
    BY <2>1, PrefixEntries
  <2> QED
    BY <2>2 DEF a, b
<1> QED
  BY <1>3, <1>7 DEF r

\* The members of sequences.
LEMMA Members ==
    ASSUME NEW S, NEW s \in Seq(S), NEW t \in Seq(S)
    PROVE  ToSet(s \o t) = ToSet(s) \cup ToSet(t)
<1>1. /\ Len(s) \in Nat /\ Len(t) \in Nat /\ DOMAIN s = 1..Len(s) /\ DOMAIN t = 1..Len(t)
  BY LenProperties
<1>2. /\ s \o t \in Seq(S) /\ Len(s \o t) = Len(s) + Len(t)
      /\ \A i \in 1..Len(s) + Len(t) : (s \o t)[i] =
            IF i <= Len(s) THEN s[i] ELSE t[i - Len(s)]
  BY ConcatProperties
<1>3. DOMAIN (s \o t) = 1..Len(s) + Len(t)
  BY <1>2, LenProperties
<1>4. ASSUME NEW i \in 1..Len(s) PROVE s[i] \in ToSet(s \o t)
  BY <1>1, <1>2, <1>3, <1>4 DEF ToSet
<1>5. ASSUME NEW i \in 1..Len(t) PROVE t[i] \in ToSet(s \o t)
  <2>1. Len(s) + i \in 1..Len(s) + Len(t) /\ ~(Len(s) + i <= Len(s)) /\ (Len(s) + i) - Len(s) = i
    BY <1>1
  <2>2. (s \o t)[Len(s) + i] = t[i]
    BY <1>2, <2>1
  <2> QED
    BY <1>3, <2>1, <2>2 DEF ToSet
<1>6. ASSUME NEW i \in 1..Len(s) + Len(t) PROVE (s \o t)[i] \in ToSet(s) \cup ToSet(t)
  <2>1. i <= Len(s) => i \in 1..Len(s)
    BY <1>1
  <2>2. ~(i <= Len(s)) => i - Len(s) \in 1..Len(t)
    BY <1>1
  <2> QED
    BY <1>1, <1>2, <2>1, <2>2 DEF ToSet
<1> QED
  BY <1>1, <1>3, <1>4, <1>5, <1>6 DEF ToSet

\* A channel that is added to the one before it, and emptied.
LEMMA Joined ==
    ASSUME NEW S, NEW s \in Seq(S), NEW q \in Seq(S), NEW r \in Seq(S)
    PROVE  (s \o (q \o r)) \o <<>> = (s \o q) \o r
<1>1. (s \o q) \o r = s \o (q \o r)
  BY ConcatAssociative
<1>2. (s \o q) \o r \in Seq(S)
  <2>1. s \o q \in Seq(S)
    BY ConcatProperties
  <2> QED
    BY <2>1, ConcatProperties
<1>3. ((s \o q) \o r) \o <<>> = (s \o q) \o r
  BY <1>2, ConcatEmptySeq
<1> QED
  BY <1>1, <1>3, Zenon

-----------------------------------------------------------------------------
(* The stream of messages through the tasks. *)

LEMMA Held == ASSUME NEW h \in Holding PROVE h \in Seq(WsServerMessage) /\ Len(h) <= 1
<1>1. CASE h = <<>>
  BY <1>1
<1>2. ASSUME NEW m \in WsServerMessage, h = <<m>>
      PROVE  h \in Seq(WsServerMessage) /\ Len(h) <= 1
  BY <1>2
<1> QED
  BY <1>1, <1>2 DEF Holding

\* The stream up to each of the channels.
ToApp == shown \o app
ToListener == ToApp \o listener.msg
ToReceived == ToListener \o received
ToReader == ToReceived \o reader.msg

LEMMA StreamTypes ==
    ASSUME TypeOK
    PROVE  /\ listener.msg \in Seq(WsServerMessage) /\ reader.msg \in Seq(WsServerMessage)
           /\ ToApp \in Seq(WsServerMessage) /\ ToListener \in Seq(WsServerMessage)
           /\ ToReceived \in Seq(WsServerMessage) /\ ToReader \in Seq(WsServerMessage)
           /\ Stream \in Seq(WsServerMessage) /\ Stream = ToReader \o inbox
<1>1. /\ shown \in Seq(WsServerMessage) /\ app \in Seq(WsServerMessage)
      /\ received \in Seq(WsServerMessage) /\ inbox \in Seq(WsServerMessage)
      /\ listener.msg \in Seq(WsServerMessage) /\ reader.msg \in Seq(WsServerMessage)
  <2>1. listener.msg \in Holding /\ reader.msg \in Holding
    BY DEF TypeOK
  <2> QED
    BY <2>1, Held DEF TypeOK
<1>2. ToApp \in Seq(WsServerMessage)
  BY <1>1, ConcatProperties DEF ToApp
<1>3. ToListener \in Seq(WsServerMessage)
  BY <1>1, <1>2, ConcatProperties DEF ToListener
<1>4. ToReceived \in Seq(WsServerMessage)
  BY <1>1, <1>3, ConcatProperties DEF ToReceived
<1>5. ToReader \in Seq(WsServerMessage)
  BY <1>1, <1>4, ConcatProperties DEF ToReader
<1>6. Stream = ToReader \o inbox
  BY Zenon DEF Stream, ToReader, ToReceived, ToListener, ToApp
<1>7. Stream \in Seq(WsServerMessage)
  BY <1>1, <1>5, <1>6, ConcatProperties
<1> QED
  BY <1>1, <1>2, <1>3, <1>4, <1>5, <1>6, <1>7

LEMMA ReaderReadsStream == ASSUME TypeOK, Hands, ReaderReads PROVE Stream' = Stream
<1>1. /\ inbox \in Seq(WsServerMessage) /\ inbox # <<>> /\ inbox' = Tail(inbox)
      /\ reader.msg = <<>> /\ reader'.msg = <<Head(inbox)>>
      /\ ToReceived \in Seq(WsServerMessage)
  BY StreamTypes DEF TypeOK, Hands, ReaderReads
<1>2. ToReceived' = ToReceived
  BY Zenon DEF ReaderReads, listening, ToReceived, ToListener, ToApp
<1>3. Stream = (ToReceived \o reader.msg) \o inbox
  BY Zenon DEF Stream, ToReceived, ToListener, ToApp
<1>4. Stream' = (ToReceived' \o reader'.msg) \o inbox'
  BY Zenon DEF Stream, ToReceived, ToListener, ToApp
<1>5. ToReceived \o <<>> = ToReceived
  BY <1>1, ConcatEmptySeq
<1>6. (ToReceived \o <<Head(inbox)>>) \o Tail(inbox) = ToReceived \o inbox
  BY <1>1, Moved
<1> QED
  BY <1>1, <1>2, <1>3, <1>4, <1>5, <1>6, Zenon

LEMMA ReaderPutsStream == ASSUME TypeOK, ReaderPuts PROVE Stream' = Stream
<1>1. /\ received \in Seq(WsServerMessage) /\ reader.msg \in Seq(WsServerMessage)
      /\ ToListener \in Seq(WsServerMessage)
      /\ received' = received \o reader.msg /\ reader'.msg = <<>> /\ inbox' = inbox
  BY StreamTypes DEF TypeOK, ReaderPuts
<1>2. ToListener' = ToListener
  BY Zenon DEF ReaderPuts, ToListener, ToApp
<1>3. Stream = ((ToListener \o received) \o reader.msg) \o inbox
  BY Zenon DEF Stream, ToListener, ToApp
<1>4. Stream' = ((ToListener' \o received') \o reader'.msg) \o inbox'
  BY Zenon DEF Stream, ToListener, ToApp
<1>5. (ToListener \o (received \o reader.msg)) \o <<>> = (ToListener \o received) \o reader.msg
  <2> DEFINE held == reader.msg
  <2>1. ToListener \in Seq(WsServerMessage) /\ held \in Seq(WsServerMessage)
    BY <1>1
  <2> HIDE DEF held
  <2>2. (ToListener \o (received \o held)) \o <<>> = (ToListener \o received) \o held
    BY ONLY <1>1, <2>1, Joined
  <2> QED
    BY <2>2, Zenon DEF held
<1> QED
  BY <1>1, <1>2, <1>3, <1>4, <1>5, Zenon

LEMMA ListenerTakesStream == ASSUME TypeOK, Hands, ListenerTakes PROVE Stream' = Stream
<1>1. /\ received \in Seq(WsServerMessage) /\ received # <<>> /\ received' = Tail(received)
      /\ listener.msg = <<>> /\ listener'.msg = <<Head(received)>>
      /\ ToApp \in Seq(WsServerMessage) /\ reader' = reader /\ inbox' = inbox
  BY StreamTypes DEF TypeOK, Hands, ListenerTakes, PassedOn, reading
<1>2. ToApp' = ToApp
  BY Zenon DEF ListenerTakes, ToApp
<1>3. Stream = (((ToApp \o listener.msg) \o received) \o reader.msg) \o inbox
  BY Zenon DEF Stream, ToApp
<1>4. Stream' = (((ToApp' \o listener'.msg) \o received') \o reader'.msg) \o inbox'
  BY Zenon DEF Stream, ToApp
<1>5. ToApp \o <<>> = ToApp
  BY <1>1, ConcatEmptySeq
<1>6. (ToApp \o <<Head(received)>>) \o Tail(received) = ToApp \o received
  BY <1>1, Moved
<1> QED
  BY <1>1, <1>2, <1>3, <1>4, <1>5, <1>6, Zenon

LEMMA ListenerSendsStream == ASSUME TypeOK, ListenerSends PROVE Stream' = Stream
<1>1. /\ shown \in Seq(WsServerMessage) /\ app \in Seq(WsServerMessage)
      /\ listener.msg \in Seq(WsServerMessage)
      /\ app' = app \o listener.msg /\ listener'.msg = <<>>
      /\ received' = received /\ shown' = shown /\ reader' = reader /\ inbox' = inbox
  BY StreamTypes DEF TypeOK, ListenerSends, reading
<1>2. Stream = ((((shown \o app) \o listener.msg) \o received) \o reader.msg) \o inbox
  BY Zenon DEF Stream
<1>3. Stream' = ((((shown' \o app') \o listener'.msg) \o received') \o reader'.msg) \o inbox'
  BY Zenon DEF Stream
<1>4. (shown \o (app \o listener.msg)) \o <<>> = (shown \o app) \o listener.msg
  <2> DEFINE held == listener.msg
  <2>1. held \in Seq(WsServerMessage)
    BY <1>1
  <2> HIDE DEF held
  <2>2. (shown \o (app \o held)) \o <<>> = (shown \o app) \o held
    BY ONLY <1>1, <2>1, Joined
  <2> QED
    BY <2>2, Zenon DEF held
<1> QED
  BY <1>1, <1>2, <1>3, <1>4, Zenon

LEMMA ForwardStream == ASSUME TypeOK, Forward PROVE Stream' = Stream
<1>1. /\ shown \in Seq(WsServerMessage) /\ app \in Seq(WsServerMessage) /\ app # <<>>
      /\ shown' = Append(shown, Head(app)) /\ app' = Tail(app)
      /\ received' = received /\ listener' = listener /\ reader' = reader /\ inbox' = inbox
  BY DEF TypeOK, Forward, reading
<1>2. Stream = ((((shown \o app) \o listener.msg) \o received) \o reader.msg) \o inbox
  BY Zenon DEF Stream
<1>3. Stream' = ((((shown' \o app') \o listener'.msg) \o received') \o reader'.msg) \o inbox'
  BY Zenon DEF Stream
<1>4. Append(shown, Head(app)) = shown \o <<Head(app)>>
  BY <1>1, HeadAndTail, AppendIsConcat
<1>5. (shown \o <<Head(app)>>) \o Tail(app) = shown \o app
  BY <1>1, Moved
<1> QED
  BY <1>1, <1>2, <1>3, <1>4, <1>5, Zenon

\* The server sends one more, and the network loses the last ones.
LEMMA ServerSendsStream ==
    ASSUME TypeOK, NothingLost, NEW m \in WsServerMessage, ServerSends(m)
    PROVE  NothingLost'
<1>1. /\ inbox \in Seq(WsServerMessage) /\ ToReader \in Seq(WsServerMessage)
      /\ server.sent \in Seq(WsServerMessage) /\ Stream = ToReader \o inbox
      /\ inbox' = Append(inbox, m) /\ ~server.closed
      /\ server'.sent = Append(server.sent, m)
  BY StreamTypes DEF TypeOK, ServerSends
<1>2. ToReader' = ToReader
  BY Zenon DEF ServerSends, listening, ToReader, ToReceived, ToListener, ToApp
<1>3. Stream' = ToReader' \o inbox'
  BY Zenon DEF Stream, ToReader, ToReceived, ToListener, ToApp
<1>4. ToReader \o Append(inbox, m) = Append(ToReader \o inbox, m)
  BY <1>1, AppendedLast
<1>5. Stream = server.sent
  BY <1>1 DEF NothingLost
<1>6. Stream' = server'.sent
  BY <1>1, <1>2, <1>3, <1>4, <1>5, Zenon
<1>7. server'.sent \in Seq(WsServerMessage)
  BY <1>1, AppendProperties
<1>8. IsPrefix(server'.sent, server'.sent)
  BY <1>7, PrefixEntries, LenProperties
<1> QED
  BY <1>6, <1>8, Zenon DEF NothingLost

LEMMA CloseStream == ASSUME TypeOK, NothingLost, Close PROVE NothingLost'
<1>1. /\ inbox \in Seq(WsServerMessage) /\ ToReader \in Seq(WsServerMessage)
      /\ Stream = ToReader \o inbox /\ ~server.closed
      /\ server'.sent = server.sent /\ server'.closed
  BY StreamTypes DEF TypeOK, Close
<1>2. PICK k \in 0..Len(inbox) : inbox' = SubSeq(inbox, 1, k)
  BY DEF Close
<1>3. ToReader' = ToReader
  BY Zenon DEF Close, listening, ToReader, ToReceived, ToListener, ToApp
<1>4. Stream' = ToReader' \o inbox'
  BY Zenon DEF Stream, ToReader, ToReceived, ToListener, ToApp
<1>5. IsPrefix(ToReader \o SubSeq(inbox, 1, k), ToReader \o inbox)
  BY <1>1, CutPrefix
<1>6. Stream = server.sent
  BY <1>1 DEF NothingLost
<1>7. IsPrefix(Stream', server'.sent)
  BY <1>1, <1>2, <1>3, <1>4, <1>5, <1>6, Zenon
<1> QED
  BY <1>1, <1>7, Zenon DEF NothingLost

\* connect() gives up when its reader has ended: what waited for it is dropped.
LEMMA PanicStream == ASSUME TypeOK, Hands, NothingLost, ConnectPanics PROVE NothingLost'
<1>1. /\ reader.pc = "done" /\ reader.msg = <<>> /\ inbox = <<>> /\ server.closed
      /\ received' = <<>> /\ reader'.msg = <<>> /\ inbox' = <<>> /\ server' = server
  BY DEF ConnectPanics, Hands, reading
<1>2. ToListener' = ToListener
  BY Zenon DEF ConnectPanics, ToListener, ToApp
<1>3. /\ ToListener \in Seq(WsServerMessage) /\ received \in Seq(WsServerMessage)
      /\ ToReceived \in Seq(WsServerMessage) /\ ToReceived = ToListener \o received
  BY StreamTypes, Zenon DEF TypeOK, ToReceived
<1>4. server.sent \in Seq(WsServerMessage)
  BY DEF TypeOK
<1>5. Stream = (ToReceived \o reader.msg) \o inbox
  BY Zenon DEF Stream, ToReceived, ToListener, ToApp
<1>6. Stream' = ((ToListener' \o received') \o reader'.msg) \o inbox'
  BY Zenon DEF Stream, ToListener, ToApp
<1>7. ToReceived \o <<>> = ToReceived /\ ToListener \o <<>> = ToListener
  BY <1>3, ConcatEmptySeq
<1>8. Stream = ToListener \o received /\ Stream' = ToListener
  BY <1>1, <1>2, <1>3, <1>5, <1>6, <1>7, Zenon
<1> DEFINE sent == server.sent
           front == ToListener
<1>9. front \in Seq(WsServerMessage) /\ sent \in Seq(WsServerMessage)
      /\ IsPrefix(front \o received, sent)
  BY <1>3, <1>4, <1>8, Zenon DEF NothingLost
<1> HIDE DEF sent, front
<1>10. IsPrefix(front, sent)
  <2>1. /\ Len(front) \in Nat /\ Len(received) \in Nat
        /\ front \o received \in Seq(WsServerMessage)
        /\ Len(front \o received) = Len(front) + Len(received)
        /\ \A i \in 1..Len(front) + Len(received) :
             (front \o received)[i] = IF i <= Len(front) THEN front[i] ELSE received[i - Len(front)]
    BY <1>3, <1>9, ConcatProperties, LenProperties
  <2>2. /\ Len(front \o received) <= Len(sent)
        /\ \A i \in 1..Len(front \o received) : (front \o received)[i] = sent[i]
    BY <1>9, <2>1, PrefixEntries
  <2>3. Len(sent) \in Nat
    BY <1>9, LenProperties
  <2>4. Len(front) <= Len(sent) /\ \A i \in 1..Len(front) : front[i] = sent[i]
    BY <2>1, <2>2, <2>3
  <2> QED
    BY <1>9, <2>4, PrefixEntries
<1>11. IsPrefix(Stream', server'.sent)
  BY <1>1, <1>8, <1>10, Zenon DEF sent, front
<1> QED
  BY <1>1, <1>11, Zenon DEF NothingLost

\* Nothing else touches the stream.
LEMMA StreamAside ==
    ASSUME NothingLost, server' = server, inbox' = inbox, received' = received, app' = app,
           shown' = shown, reader'.msg = reader.msg, listener'.msg = listener.msg
    PROVE  NothingLost'
<1>1. Stream' = Stream
  BY Zenon DEF Stream
<1> QED
  BY <1>1, Zenon DEF NothingLost

LEMMA SameStream == ASSUME NothingLost, Stream' = Stream, server' = server PROVE NothingLost'
  BY Zenon DEF NothingLost

LEMMA NextStream == ASSUME TypeOK, Hands, NothingLost, [Next]_vars PROVE NothingLost'
<1>1. CASE Environment
  BY <1>1, ServerSendsStream, CloseStream DEF Environment
<1>2. CASE Reader
  <2>1. CASE ReaderReads
    BY <2>1, ReaderReadsStream, SameStream DEF ReaderReads
  <2>2. CASE ReaderPuts
    BY <2>2, ReaderPutsStream, SameStream DEF ReaderPuts
  <2>3. CASE ReaderGreets \/ ReaderEnds
    <3>1. reader'.msg = reader.msg
      BY <2>3 DEF ReaderGreets, ReaderEnds, TypeOK
    <3> QED
      BY <2>3, <3>1, StreamAside DEF ReaderGreets, ReaderEnds, listening
  <2> QED
    BY <1>2, <2>1, <2>2, <2>3 DEF Reader
<1>3. CASE Listener
  <2>1. CASE ListenerTakes
    BY <2>1, ListenerTakesStream, SameStream DEF ListenerTakes
  <2>2. CASE ListenerSends
    BY <2>2, ListenerSendsStream, SameStream DEF ListenerSends
  <2>3. CASE ListenerEnds
    <3>1. listener'.msg = listener.msg
      BY <2>3 DEF ListenerEnds, TypeOK
    <3> QED
      BY <2>3, <3>1, StreamAside DEF ListenerEnds, reading
  <2> QED
    BY <1>3, <2>1, <2>2, <2>3 DEF Listener
<1>4. CASE Main
  <2>1. CASE ConnectPanics
    BY <2>1, PanicStream
  <2>2. CASE Forward
    BY <2>2, ForwardStream, SameStream DEF Forward
  <2>3. CASE OnConnection \/ ForwardEnds \/ \E ok \in BOOLEAN : Dial(ok)
    BY <2>3, StreamAside DEF OnConnection, ForwardEnds, Dial, reading, listening
  <2>4. CASE Connected
    <3>1. listener'.msg = listener.msg
      BY <2>4 DEF Connected, TypeOK
    <3> QED
      BY <2>4, <3>1, StreamAside DEF Connected
  <2> QED
    BY <1>4, <2>1, <2>2, <2>3, <2>4 DEF Main
<1>5. CASE Writer
  BY <1>5, StreamAside
     DEF Writer, WriterTakes, WriterTimesOut, WriterWrites, WriterEnds, reading, listening
<1>6. CASE (\E o \in Offers : StartOffer(o)) \/ (\E i \in Incoming : AcceptOffer(i))
  BY <1>6, StreamAside DEF StartOffer, AcceptOffer, reading, listening
<1>7. ASSUME NEW c \in Calls, Calling(c) PROVE NothingLost'
  <2>1. /\ server' = server /\ inbox' = inbox /\ received' = received /\ app' = app
        /\ shown' = shown /\ reader' = reader /\ listener' = listener
    BY <1>7 DEF Calling, Describe, Put, OnAnswer, SdpExchanged, reading, listening
  <2> QED
    BY <2>1, StreamAside
<1>8. CASE UNCHANGED vars
  BY <1>8, StreamAside DEF vars, reading, listening
<1> QED
  BY <1>1, <1>2, <1>3, <1>4, <1>5, <1>6, <1>7, <1>8 DEF Next

-----------------------------------------------------------------------------
(* Types. *)

LEMMA NextType == ASSUME TypeOK, Waiting, [Next]_vars PROVE TypeOK'
<1> USE DEF TypeOK
<1>1. CASE Close
  <2>1. PICK k \in 0..Len(inbox) : inbox' = SubSeq(inbox, 1, k)
    BY <1>1 DEF Close
  <2>2. inbox' \in Seq(WsServerMessage)
    BY <2>1, CutPrefix
  <2>3. server' \in [sent: Seq(WsServerMessage), closed: BOOLEAN]
    BY <1>1 DEF Close
  <2>4. UNCHANGED <<reader, hello, listening, main, shown, call, writing>>
    BY <1>1 DEF Close
  <2> QED
    BY <2>2, <2>3, <2>4 DEF listening, writing
<1>2. ASSUME NEW m \in WsServerMessage, ServerSends(m) PROVE TypeOK'
  <2>1. server.sent \in Seq(WsServerMessage)
    OBVIOUS
  <2>2. /\ Append(server.sent, m) \in Seq(WsServerMessage)
        /\ Append(inbox, m) \in Seq(WsServerMessage)
    BY <2>1, AppendProperties
  <2>3. server' \in [sent: Seq(WsServerMessage), closed: BOOLEAN]
    BY <1>2, <2>2 DEF ServerSends
  <2> QED
    BY <1>2, <2>2, <2>3 DEF ServerSends, listening, writing
<1>3. CASE ReaderReads
  <2>1. Head(inbox) \in WsServerMessage /\ inbox' \in Seq(WsServerMessage)
    BY <1>3, HeadAndTail DEF ReaderReads
  <2>2. reader' \in [pc: {"read", "client", "receive", "done"}, msg: Holding]
    BY <1>3, <2>1 DEF ReaderReads, FirstStop, Holding
  <2> QED
    BY <1>3, <2>1, <2>2 DEF ReaderReads, listening, writing
<1>4. CASE ReaderGreets \/ ReaderEnds
  BY <1>4 DEF ReaderGreets, ReaderEnds, listening, writing
<1>5. CASE ReaderPuts
  <2>1. /\ reader.msg \in Seq(WsServerMessage) /\ Len(reader.msg) <= 1
        /\ Len(reader.msg) \in Nat /\ Len(received) = 0
    BY <1>5, Held, LenProperties DEF ReaderPuts, HasRoom, Capacity
  <2>2. received' \in Seq(WsServerMessage) /\ Len(received') <= Capacity
    <3> DEFINE held == reader.msg
    <3>1. held \in Seq(WsServerMessage) /\ Len(held) <= 1 /\ Len(held) \in Nat
      BY <2>1
    <3>2. received' = received \o held
      BY <1>5 DEF ReaderPuts
    <3> HIDE DEF held
    <3> QED
      BY <2>1, <3>1, <3>2, ConcatProperties DEF Capacity
  <2> QED
    BY <1>5, <2>2 DEF ReaderPuts, Holding, writing
<1>6. CASE ListenerTakes
  <2>1. /\ Head(received) \in WsServerMessage /\ received' \in Seq(WsServerMessage)
        /\ Len(received') <= Capacity
    BY <1>6, HeadAndTail, LenProperties DEF ListenerTakes, Capacity
  <2>2. listener' \in [pc: {"off", "recv", "send", "done"}, msg: Holding]
    BY <1>6, <2>1 DEF ListenerTakes, PassedOn, Holding
  <2>3. call' \in [Calls -> CallPc] /\ registered' \subseteq Offers
    BY <1>6 DEF ListenerTakes, CallPc
  <2> QED
    BY <1>6, <2>1, <2>2, <2>3 DEF ListenerTakes, reading, writing
<1>7. CASE ListenerSends
  <2>1. /\ listener.msg \in Seq(WsServerMessage) /\ Len(listener.msg) <= 1
        /\ Len(listener.msg) \in Nat /\ Len(app) \in Nat /\ Len(app) < AppCapacity
    BY <1>7, Held, LenProperties DEF ListenerSends
  <2>2. app' \in Seq(WsServerMessage) /\ Len(app') <= AppCapacity
    <3> DEFINE held == listener.msg
    <3>1. held \in Seq(WsServerMessage) /\ Len(held) <= 1 /\ Len(held) \in Nat
      BY <2>1
    <3>2. app' = app \o held
      BY <1>7 DEF ListenerSends
    <3> HIDE DEF held
    <3> QED
      BY <2>1, <3>1, <3>2, ConcatProperties, CapacityAssumption
  <2> QED
    BY <1>7, <2>2 DEF ListenerSends, Holding, reading, writing
<1>8. CASE ListenerEnds
  BY <1>8 DEF ListenerEnds, reading, writing
<1>9. CASE Main
  <2>1. CASE Connected
    BY <1>9, <2>1 DEF Connected, writing
  <2>2. CASE ConnectPanics
    BY <1>9, <2>2 DEF ConnectPanics, reading, writing, Capacity
  <2>3. CASE Forward
    <3>1. /\ Head(app) \in WsServerMessage /\ app' \in Seq(WsServerMessage)
          /\ Len(app') <= AppCapacity
      BY <2>3, HeadAndTail, LenProperties, CapacityAssumption DEF Forward
    <3> QED
      BY <2>3, <3>1 DEF Forward, reading, writing
  <2>4. CASE OnConnection \/ ForwardEnds \/ \E ok \in BOOLEAN : Dial(ok)
    BY <2>4 DEF OnConnection, ForwardEnds, Dial, reading, listening, writing
  <2> QED
    BY <1>9, <2>1, <2>2, <2>3, <2>4 DEF Main
<1>10. CASE WriterTakes
  <2>1. Head(outbox) \in Calls /\ outbox' \in Seq(Calls) /\ Len(outbox') <= Capacity
    BY <1>10, HeadAndTail, LenProperties DEF WriterTakes, Capacity
  <2> QED
    BY <1>10, <2>1 DEF WriterTakes, reading, listening
<1>11. CASE WriterTimesOut
  BY <1>11 DEF WriterTimesOut, reading, listening
<1>12. CASE WriterWrites
  <2>1. writer.msg \in Seq(Calls)
    <3>1. CASE writer.msg = <<>>
      BY <3>1
    <3>2. ASSUME NEW c \in Calls, writer.msg = <<c>> PROVE writer.msg \in Seq(Calls)
      BY <3>2
    <3> QED
      BY <3>1, <3>2
  <2>2. wire' \in Seq(Calls)
    BY <1>12, <2>1, ConcatProperties DEF WriterWrites, Flushed
  <2> QED
    BY <1>12, <2>2 DEF WriterWrites, reading, listening
<1>13. CASE WriterEnds
  BY <1>13 DEF WriterEnds, reading, listening, Capacity
<1>14. CASE (\E o \in Offers : StartOffer(o)) \/ (\E i \in Incoming : AcceptOffer(i))
  <2>1. PICK c \in Calls : Go(c, "sdp")
    BY <1>14 DEF StartOffer, AcceptOffer, Calls
  <2>2. call' \in [Calls -> CallPc]
    BY <2>1 DEF Go, CallPc
  <2>3. UNCHANGED <<server, reading, listening, main, shown, writing>>
    BY <1>14 DEF StartOffer, AcceptOffer
  <2> QED
    BY <2>2, <2>3 DEF reading, listening, writing
<1>15. ASSUME NEW c \in Calls, Calling(c) PROVE TypeOK'
  <2>1. CASE Put(c)
    <3>1. outbox' \in Seq(Calls) /\ Len(outbox') <= Capacity
      BY <1>15, <2>1, LenProperties DEF Put, HasRoom, Capacity
    <3>2. call' \in [Calls -> CallPc]
      BY <2>1 DEF Put, Go, AfterPut, CallPc
    <3> QED
      BY <2>1, <3>1, <3>2 DEF Put, reading, listening
  <2>2. CASE OnAnswer(c)
    <3>1. c \in Offers
      BY <2>2 DEF OnAnswer, Waiting
    <3> QED
      BY <2>2, <3>1 DEF OnAnswer, Go, CallPc, reading, writing
  <2>3. CASE \E ok \in BOOLEAN : Describe(c, ok) \/ SdpExchanged(c, ok)
    BY <2>3 DEF Describe, SdpExchanged, Go, CallPc, reading, listening, writing
  <2> QED
    BY <1>15, <2>1, <2>2, <2>3 DEF Calling
<1>16. CASE UNCHANGED vars
  BY <1>16 DEF vars, reading, listening, writing
<1> QED
  BY <1>1, <1>2, <1>3, <1>4, <1>5, <1>6, <1>7, <1>8, <1>9, <1>10, <1>11, <1>12, <1>13, <1>14,
     <1>15, <1>16 DEF Next, Environment, Reader, Listener, Writer

-----------------------------------------------------------------------------
(* Tasks and calls. *)

LEMMA NextHands == ASSUME TypeOK, Hands, [Next]_vars PROVE Hands'
<1> USE DEF Hands
<1>1. CASE Environment
  <2>1. /\ reader' = reader /\ listener' = listener /\ main' = main /\ writer' = writer
        /\ reader.pc # "done"
        /\ ~server.closed
    BY <1>1 DEF Environment, Close, ServerSends, listening, writing
  <2> QED
    BY <2>1
<1>2. CASE Reader
  BY <1>2 DEF Reader, ReaderReads, ReaderGreets, ReaderPuts, ReaderEnds, FirstStop, listening,
              writing, TypeOK
<1>3. CASE Listener
  BY <1>3 DEF Listener, ListenerTakes, ListenerSends, ListenerEnds, reading, writing, TypeOK
<1>4. CASE Main
  BY <1>4 DEF Main, Dial, Connected, ConnectPanics, OnConnection, Forward, ForwardEnds, reading,
              listening, writing, TypeOK
<1>5. CASE Writer
  BY <1>5 DEF Writer, WriterTakes, WriterTimesOut, WriterWrites, WriterEnds, reading, listening,
              TypeOK
<1>6. CASE (\E o \in Offers : StartOffer(o)) \/ (\E i \in Incoming : AcceptOffer(i))
  BY <1>6 DEF StartOffer, AcceptOffer, reading, listening, writing
<1>7. ASSUME NEW c \in Calls, Calling(c) PROVE Hands'
  BY <1>7 DEF Calling, Describe, Put, OnAnswer, SdpExchanged, reading, listening, writing
<1>8. CASE UNCHANGED vars
  BY <1>8 DEF vars, reading, listening, writing
<1> QED
  BY <1>1, <1>2, <1>3, <1>4, <1>5, <1>6, <1>7, <1>8 DEF Next

\* One call goes on.
LEMMA GoFacts ==
    ASSUME TypeOK, NEW c \in Calls, NEW pc, Go(c, pc)
    PROVE  call'[c] = pc /\ \A other \in Calls \ {c} : call'[other] = call[other]
  BY DEF Go, TypeOK

LEMMA NextWaiting == ASSUME TypeOK, Waiting, [Next]_vars PROVE Waiting'
<1> USE DEF Waiting
<1>1. CASE ListenerTakes
  <2>1. /\ registered' = registered \ Callback(Head(received))
        /\ \A c \in Calls : call'[c] =
              IF c \in Callback(Head(received)) THEN "answered" ELSE call[c]
    BY <1>1 DEF ListenerTakes
  <2> QED
    BY <2>1 DEF TypeOK, Calls
<1>2. ASSUME call' = call, registered' = registered PROVE Waiting'
  BY <1>2
<1>3. ASSUME NEW c \in Calls, NEW pc, Go(c, pc), registered' = registered,
             call[c] # "wait", pc = "register" => c \in Offers
      PROVE  Waiting'
  <2>1. call'[c] = pc /\ \A other \in Calls \ {c} : call'[other] = call[other]
    BY <1>3, GoFacts
  <2>2. c \notin registered
    BY <1>3
  <2> QED
    BY <1>3, <2>1, <2>2 DEF TypeOK, Calls
<1>4. CASE Environment \/ Reader \/ Main \/ Writer \/ ListenerSends \/ ListenerEnds
  BY <1>2, <1>4
     DEF Environment, Close, ServerSends, Reader, ReaderReads, ReaderGreets, ReaderPuts,
         ReaderEnds, Main, Dial, Connected, ConnectPanics, OnConnection, Forward, ForwardEnds,
         Writer, WriterTakes, WriterTimesOut, WriterWrites, WriterEnds, ListenerSends,
         ListenerEnds, reading, listening, writing
<1>5. CASE (\E o \in Offers : StartOffer(o)) \/ (\E i \in Incoming : AcceptOffer(i))
  <2>1. PICK c \in Calls : Go(c, "sdp") /\ call[c] = "idle" /\ registered' = registered
    BY <1>5 DEF StartOffer, AcceptOffer, Calls, listening
  <2> QED
    BY <1>3, <2>1
<1>6. ASSUME NEW c \in Calls, Calling(c) PROVE Waiting'
  <2>1. CASE OnAnswer(c)
    <3>1. /\ registered' = registered \cup {c} /\ call'[c] = "wait"
          /\ \A other \in Calls \ {c} : call'[other] = call[other]
      BY <2>1, GoFacts DEF OnAnswer
    <3> QED
      BY <3>1 DEF TypeOK, Calls
  <2>2. CASE Put(c)
    <3>1. /\ call[c] = "put" /\ registered' = registered
          /\ Go(c, "error") \/ Go(c, AfterPut(c))
      BY <2>2 DEF Put, listening
    <3>2. AfterPut(c) = "register" => c \in Offers
      BY DEF AfterPut
    <3> QED
      BY <1>3, <3>1, <3>2
  <2>3. ASSUME NEW ok \in BOOLEAN, Describe(c, ok) PROVE Waiting'
    <3>1. /\ call[c] = "sdp" /\ registered' = registered
          /\ Go(c, "put") \/ Go(c, "error")
      BY <2>3 DEF Describe, listening
    <3> QED
      BY <1>3, <3>1
  <2>4. ASSUME NEW ok \in BOOLEAN, SdpExchanged(c, ok) PROVE Waiting'
    <3>1. /\ call[c] = "answered" /\ registered' = registered
          /\ Go(c, "exchanged") \/ Go(c, "error")
      BY <2>4 DEF SdpExchanged, listening
    <3> QED
      BY <1>3, <3>1
  <2> QED
    BY <1>6, <2>1, <2>2, <2>3, <2>4 DEF Calling
<1>7. CASE UNCHANGED vars
  BY <1>2, <1>7 DEF vars, listening
<1> QED
  BY <1>1, <1>4, <1>5, <1>6, <1>7 DEF Next, Listener

-----------------------------------------------------------------------------
(* What is put is written. *)

\* What is on the wire, in the writer's hands and in its channel.
Written == ToSet(wire \o writer.msg \o outbox)

LEMMA WrittenParts ==
    TypeOK => Written = (ToSet(wire) \cup ToSet(writer.msg)) \cup ToSet(outbox)
<1> SUFFICES ASSUME TypeOK
             PROVE  Written = (ToSet(wire) \cup ToSet(writer.msg)) \cup ToSet(outbox)
  OBVIOUS
<1> DEFINE held == writer.msg
<1>1. held \in Seq(Calls)
  <2>1. CASE held = <<>>
    BY <2>1
  <2>2. ASSUME NEW c \in Calls, held = <<c>> PROVE held \in Seq(Calls)
    BY <2>2
  <2> QED
    BY <2>1, <2>2 DEF TypeOK
<1>2. wire \in Seq(Calls) /\ outbox \in Seq(Calls)
  BY DEF TypeOK
<1> HIDE DEF held
<1>3. wire \o held \in Seq(Calls)
  BY <1>1, <1>2, ConcatProperties
<1>4. ToSet(wire \o held) = ToSet(wire) \cup ToSet(held)
  BY <1>1, <1>2, Members
<1>5. ToSet((wire \o held) \o outbox) = ToSet(wire \o held) \cup ToSet(outbox)
  <2> DEFINE front == wire \o held
  <2>1. front \in Seq(Calls) /\ outbox \in Seq(Calls)
    BY <1>2, <1>3
  <2> HIDE DEF front
  <2>2. ToSet(front \o outbox) = ToSet(front) \cup ToSet(outbox)
    BY ONLY <2>1, Members
  <2> QED
    BY <2>2, Zenon DEF front
<1> QED
  BY <1>4, <1>5, Zenon DEF held, Written

LEMMA WrittenNext ==
    (TypeOK => Written = (ToSet(wire) \cup ToSet(writer.msg)) \cup ToSet(outbox))'
  BY WrittenParts, PTL

LEMMA SetOf ==
    /\ ToSet(<<>>) = {}
    /\ \A x : ToSet(<<x>>) = {x}
  BY DEF ToSet

LEMMA SetOfHead ==
    ASSUME NEW S, NEW q \in Seq(S), q # <<>>
    PROVE  ToSet(q) = {Head(q)} \cup ToSet(Tail(q))
<1>1. <<Head(q)>> \in Seq(S) /\ Tail(q) \in Seq(S) /\ q = <<Head(q)>> \o Tail(q)
  BY HeadAndTail
<1>2. ToSet(<<Head(q)>> \o Tail(q)) = ToSet(<<Head(q)>>) \cup ToSet(Tail(q))
  <2> DEFINE first == <<Head(q)>>
             rest == Tail(q)
  <2>1. first \in Seq(S) /\ rest \in Seq(S)
    BY <1>1
  <2> HIDE DEF first, rest
  <2>2. ToSet(first \o rest) = ToSet(first) \cup ToSet(rest)
    BY ONLY <2>1, Members
  <2> QED
    BY <2>2, Zenon DEF first, rest
<1> QED
  BY <1>1, <1>2, SetOf, Zenon

LEMMA SetOfAppend ==
    ASSUME NEW S, NEW q \in Seq(S), NEW x \in S
    PROVE  ToSet(Append(q, x)) = ToSet(q) \cup {x}
<1>1. <<x>> \in Seq(S) /\ Append(q, x) = q \o <<x>>
  BY AppendIsConcat
<1>2. ToSet(q \o <<x>>) = ToSet(q) \cup ToSet(<<x>>)
  BY <1>1, Members
<1> QED
  BY <1>1, <1>2, SetOf, Zenon

\* The writer keeps what was put, whatever it does, while the socket is open.
LEMMA WriterKeeps ==
    ASSUME TypeOK, TypeOK', Hands, Writer, ~server.closed
    PROVE  Written' = Written
<1> DEFINE Parts == (ToSet(wire) \cup ToSet(writer.msg)) \cup ToSet(outbox)
<1>1. Written = Parts /\ Written' = Parts'
  BY WrittenParts, WrittenNext
<1>2. CASE WriterTakes
  <2>1. /\ writer.msg = <<>> /\ writer'.msg = <<Head(outbox)>> /\ wire' = wire
        /\ outbox # <<>> /\ outbox' = Tail(outbox) /\ outbox \in Seq(Calls)
    BY <1>2 DEF WriterTakes, Hands, TypeOK
  <2>2. ToSet(outbox) = {Head(outbox)} \cup ToSet(Tail(outbox))
    BY <2>1, SetOfHead
  <2>3. ToSet(writer.msg) = {} /\ ToSet(writer'.msg) = {Head(outbox)}
    BY <2>1, SetOf, Zenon
  <2> QED
    BY <1>1, <2>1, <2>2, <2>3, Zenon
<1>3. CASE WriterTimesOut
  <2>1. writer'.msg = writer.msg /\ wire' = wire /\ outbox' = outbox
    BY <1>3 DEF WriterTimesOut, TypeOK
  <2> QED
    BY <1>1, <2>1, Zenon
<1>4. CASE WriterWrites
  <2> DEFINE held == writer.msg
  <2>1. wire' = wire \o held /\ writer'.msg = <<>> /\ outbox' = outbox
    BY <1>4 DEF WriterWrites, Flushed
  <2>2. held \in Seq(Calls) /\ wire \in Seq(Calls)
    <3>1. CASE held = <<>>
      BY <3>1 DEF TypeOK
    <3>2. ASSUME NEW c \in Calls, held = <<c>> PROVE held \in Seq(Calls)
      BY <3>2
    <3> QED
      BY <3>1, <3>2 DEF TypeOK
  <2> HIDE DEF held
  <2>3. ToSet(wire \o held) = ToSet(wire) \cup ToSet(held)
    BY <2>2, Members
  <2>4. ToSet(wire') = ToSet(wire) \cup ToSet(writer.msg) /\ ToSet(writer'.msg) = {}
    BY <2>1, <2>3, SetOf, Zenon DEF held
  <2> QED
    BY <1>1, <2>1, <2>4, Zenon
<1>5. CASE WriterEnds
  <2>1. /\ writer.msg = <<>> /\ outbox = <<>> /\ writer'.msg = <<>> /\ outbox' = <<>>
        /\ wire' = wire
    BY <1>5 DEF WriterEnds, Hands
  <2> QED
    BY <1>1, <2>1, Zenon
<1> QED
  BY <1>2, <1>3, <1>4, <1>5 DEF Writer

LEMMA NextPut ==
    ASSUME TypeOK, TypeOK', Hands, Waiting, PutIsWritten, [Next]_vars
    PROVE  PutIsWritten'
<1> DEFINE IsPut(pc) == pc \in {"register", "wait", "answered", "exchanged"}
<1>1. PutIsWritten <=> \A c \in Calls : IsPut(call[c]) /\ ~server.closed => c \in Written
  BY DEF PutIsWritten, Written
<1>2. PutIsWritten' <=> \A c \in Calls : IsPut(call'[c]) /\ ~server'.closed => c \in Written'
  BY DEF PutIsWritten, Written
<1>3. ASSUME Written' = Written, \A c \in Calls : IsPut(call'[c]) => IsPut(call[c]),
             ~server'.closed => ~server.closed
      PROVE  PutIsWritten'
  BY <1>1, <1>2, <1>3
<1>4. ASSUME UNCHANGED writing PROVE Written' = Written
  BY <1>4 DEF writing, Written
<1>5. CASE Environment \/ Reader \/ Main \/ ListenerSends \/ ListenerEnds
  <2>1. UNCHANGED writing /\ call' = call /\ (~server'.closed => ~server.closed)
    BY <1>5
       DEF Environment, Close, ServerSends, Reader, ReaderReads, ReaderGreets, ReaderPuts,
           ReaderEnds, Main, Dial, Connected, ConnectPanics, OnConnection, Forward, ForwardEnds,
           ListenerSends, ListenerEnds, TypeOK
  <2> QED
    BY <1>3, <1>4, <2>1
<1>6. CASE ListenerTakes
  <2>1. /\ UNCHANGED writing /\ server' = server
        /\ \A c \in Calls : call'[c] =
              IF c \in Callback(Head(received)) THEN "answered" ELSE call[c]
    BY <1>6 DEF ListenerTakes
  <2>2. \A c \in Callback(Head(received)) : call[c] = "wait"
    BY DEF Callback, Waiting
  <2>3. \A c \in Calls : IsPut(call'[c]) => IsPut(call[c])
    BY <2>1, <2>2
  <2> QED
    BY <1>3, <1>4, <2>1, <2>3
<1>7. CASE Writer
  <2>1. call' = call /\ server' = server
    BY <1>7 DEF Writer, WriterTakes, WriterTimesOut, WriterWrites, WriterEnds
  <2>2. ~server.closed => Written' = Written
    BY <1>7, WriterKeeps
  <2> QED
    BY <1>1, <1>2, <2>1, <2>2
<1>8. ASSUME NEW c \in Calls, NEW pc, Go(c, pc), UNCHANGED writing, server' = server,
             IsPut(pc) => IsPut(call[c])
      PROVE  PutIsWritten'
  <2>1. call'[c] = pc /\ \A other \in Calls \ {c} : call'[other] = call[other]
    BY <1>8, GoFacts
  <2>2. \A other \in Calls : IsPut(call'[other]) => IsPut(call[other])
    BY <1>8, <2>1
  <2> QED
    BY <1>3, <1>4, <1>8, <2>2
<1>9. CASE (\E o \in Offers : StartOffer(o)) \/ (\E i \in Incoming : AcceptOffer(i))
  <2>1. PICK c \in Calls : Go(c, "sdp") /\ UNCHANGED writing /\ server' = server
    BY <1>9 DEF StartOffer, AcceptOffer, Calls
  <2> QED
    BY <1>8, <2>1
<1>10. ASSUME NEW c \in Calls, Calling(c) PROVE PutIsWritten'
  <2>1. CASE Put(c) /\ writer.pc = "done"
    BY <1>8, <2>1 DEF Put, writing
  <2>2. CASE Put(c) /\ writer.pc # "done"
    <3>1. /\ outbox \in Seq(Calls) /\ outbox' = Append(outbox, c)
          /\ writer' = writer /\ wire' = wire /\ server' = server /\ Go(c, AfterPut(c))
      BY <2>2 DEF Put, TypeOK
    <3>2. ToSet(outbox') = ToSet(outbox) \cup {c}
      BY <3>1, SetOfAppend
    <3>3. Written' = Written \cup {c}
      BY <3>1, <3>2, WrittenParts, WrittenNext, Zenon
    <3>4. \A other \in Calls \ {c} : call'[other] = call[other]
      BY <3>1, GoFacts
    <3> QED
      BY <1>1, <1>2, <3>1, <3>3, <3>4
  <2>3. CASE OnAnswer(c)
    BY <1>8, <2>3 DEF OnAnswer
  <2>4. ASSUME NEW ok \in BOOLEAN, Describe(c, ok) PROVE PutIsWritten'
    <3>1. (Go(c, "put") \/ Go(c, "error")) /\ UNCHANGED writing /\ server' = server
      BY <2>4 DEF Describe
    <3> QED
      BY <1>8, <3>1
  <2>5. ASSUME NEW ok \in BOOLEAN, SdpExchanged(c, ok) PROVE PutIsWritten'
    <3>1. /\ Go(c, "exchanged") \/ Go(c, "error")
          /\ call[c] = "answered" /\ UNCHANGED writing /\ server' = server
      BY <2>5 DEF SdpExchanged
    <3> QED
      BY <1>8, <3>1
  <2> QED
    BY <1>10, <2>1, <2>2, <2>3, <2>4, <2>5 DEF Calling
<1>11. CASE UNCHANGED vars
  BY <1>3, <1>4, <1>11 DEF vars
<1> QED
  BY <1>5, <1>6, <1>7, <1>9, <1>10, <1>11 DEF Next, Listener

-----------------------------------------------------------------------------
(* The theorems. *)

LEMMA InitClient == Init => ClientInv
<1> SUFFICES ASSUME Init PROVE ClientInv
  OBVIOUS
<1>1. /\ <<>> \in Seq(WsServerMessage) /\ <<>> \in Seq(Calls) /\ Len(<<>>) = 0
  BY EmptySeq
<1>2. TypeOK
  <2>1. Len(received) <= Capacity /\ Len(app) <= AppCapacity /\ Len(outbox) <= Capacity
    BY <1>1, CapacityAssumption DEF Init, Capacity
  <2>2. call \in [Calls -> CallPc]
    BY DEF Init, CallPc
  <2>3. /\ server \in [sent: Seq(WsServerMessage), closed: BOOLEAN]
        /\ reader \in [pc: {"read", "client", "receive", "done"}, msg: Holding]
        /\ listener \in [pc: {"off", "recv", "send", "done"}, msg: Holding]
        /\ writer \in [pc: {"recv", "write", "ping", "done"},
                       msg: {<<>>} \cup {<<c>> : c \in Calls}]
    BY <1>1 DEF Init, Holding
  <2> QED
    BY <1>1, <2>1, <2>2, <2>3 DEF Init, TypeOK
<1>3. Hands /\ Waiting
  BY DEF Init, Hands, Waiting
<1>4. PutIsWritten
  BY DEF Init, PutIsWritten
<1>5. NothingLost
  <2>1. <<>> \o <<>> = <<>>
    BY <1>1, ConcatEmptySeq
  <2>2. Stream = <<>>
    BY <2>1, Zenon DEF Init, Stream
  <2>3. server.sent = <<>>
    BY DEF Init
  <2>4. \A q \in Seq(Calls) : IsPrefix(q, q)
    BY PrefixEntries, LenProperties
  <2> QED
    BY <1>1, <2>2, <2>3, <2>4, Zenon DEF NothingLost
<1> QED
  BY <1>2, <1>3, <1>4, <1>5 DEF ClientInv

LEMMA NextClient == ClientInv /\ [Next]_vars => ClientInv'
<1> SUFFICES ASSUME ClientInv, [Next]_vars PROVE ClientInv'
  OBVIOUS
<1>1. TypeOK /\ Hands /\ Waiting /\ NothingLost /\ PutIsWritten
  BY DEF ClientInv
<1>2. TypeOK' /\ Hands' /\ Waiting' /\ NothingLost'
  BY <1>1, NextType, NextHands, NextWaiting, NextStream
<1>3. PutIsWritten'
  BY <1>1, <1>2, NextPut
<1> QED
  BY <1>2, <1>3 DEF ClientInv

LEMMA AlwaysClient == Spec => []ClientInv
  BY InitClient, NextClient, PTL DEF Spec

\* The variables keep their types; no channel holds more than its capacity.
THEOREM ClientTypeCorrect == Spec => []TypeOK
<1>1. ClientInv => TypeOK
  BY DEF ClientInv
<1> QED
  BY <1>1, AlwaysClient, PTL

\* What the Dart stream got, followed by what the tasks and channels hold in the
\* order of their chain, is what the server has sent, in its order and without
\* loss or duplicate, up to the end that a closed socket cuts off: NothingLost.
THEOREM ClientLosesNothing == Spec => []NothingLost
<1>1. ClientInv => NothingLost
  BY DEF ClientInv
<1> QED
  BY <1>1, AlwaysClient, PTL

\* An offer or answer that was put is on the wire, in the writer's hands or in
\* its channel, whatever the timeout of the writer interrupts: PutIsWritten.
THEOREM ClientWritesAll == Spec => []PutIsWritten
<1>1. ClientInv => PutIsWritten
  BY DEF ClientInv
<1> QED
  BY <1>1, AlwaysClient, PTL
=============================================================================
