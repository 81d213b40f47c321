------------------------- MODULE ServerServiceProofs -------------------------
(***************************************************************************)
(* WebSend alone: its type, and that files go to accepted browsers only    *)
(* and answers to the browser that waits.  Then the server with both of    *)
(* its controllers: it restricts WebSend, which so keeps all this.         *)
(*                                                                         *)
(* The properties are inductive with five facts beside them: a request     *)
(* that was let in gave the PIN, there is a web send state only while the  *)
(* server is online, nobody waits for an answer while it is not, a session *)
(* that asks and a request that waits refer to one another, and a request  *)
(* that has not come yet is later than no other.                           *)
(***************************************************************************)
EXTENDS ServerService, TLAPS

Refers ==
    /\ \A a \in Addresses :
          web.sessions[a].status = "asking" => web.sessions[a].handler \in Requests
    /\ \A r \in Requests : ask[r].pc = "waiting" => ask[r].from \in Addresses
    /\ \A r \in Requests : ask[r].pc = "free" => ask[r].after = {}

IInv ==
    /\ TypeOK
    /\ \A r \in Requests : ~ask[r].pinless
    /\ web.on => online
    /\ ~online => \A r \in Requests : ask[r].pc # "waiting"
    /\ Refers
    /\ ConsentBeforeDownload
    /\ AnswersReach

-----------------------------------------------------------------------------
(* The records. *)

LEMMA NewWebType ==
    ASSUME NEW autoAccept \in BOOLEAN, NEW pin \in BOOLEAN
    PROVE  /\ NewWeb(autoAccept, pin) \in WebSendState
           /\ \A a \in Addresses : NewWeb(autoAccept, pin).sessions[a] = NoSession
           /\ NoSession \in Session
  BY SMT DEF NewWeb, WebSendState, NoSession, Session

LEMMA NoWebType ==
    /\ NoWeb \in WebSendState /\ ~NoWeb.on
    /\ \A a \in Addresses : NoWeb.sessions[a] = NoSession
<1> DEFINE new == NewWeb(FALSE, FALSE)
<1>1. new \in WebSendState /\ \A a \in Addresses : new.sessions[a] = NoSession
  BY NewWebType
<1>2. NoWeb = [new EXCEPT !.on = FALSE]
  BY DEF NoWeb
<1> HIDE DEF new
<1> QED
  BY <1>1, <1>2 DEF WebSendState

LEMMA SessionTypes ==
    /\ Accepted \in Session /\ NoSession \in Session
    /\ \A r \in Requests : Asking(r) \in Session
  BY DEF Accepted, NoSession, Asking, Session

\* Replacing the session of one address.
LEMMA SessionReplaced ==
    ASSUME web \in WebSendState, NEW a \in Addresses, NEW s \in Session,
           web' = [web EXCEPT !.sessions[a] = s]
    PROVE  /\ web' \in WebSendState
           /\ web'.on = web.on
           /\ web'.sessions[a] = s
           /\ \A b \in Addresses : b # a => web'.sessions[b] = web.sessions[b]
  BY SMT DEF WebSendState

\* A session that asks and the request it asks for.
LEMMA AskingFacts ==
    ASSUME IInv, NEW a \in Addresses, web.sessions[a].status = "asking"
    PROVE  LET h == web.sessions[a].handler
           IN  /\ h \in Requests /\ ask[h].pc = "waiting" /\ ask[h].from = a
               /\ web.sessions[a] = Asking(h)
<1>1. web.sessions[a] \in Session
  BY DEF IInv, TypeOK, WebSendState
<1>2. web.sessions[a] = Asking(web.sessions[a].handler)
  BY <1>1 DEF Session, Asking
<1> QED
  BY <1>2 DEF IInv, Refers, AnswersReach

LEMMA InitIInv == Init => IInv
<1> SUFFICES ASSUME Init PROVE IInv
  OBVIOUS
<1>1. \A r \in Requests : ask[r].pc = "free" /\ ~ask[r].pinless /\ ask[r].after = {}
  BY DEF Init, Unasked
<1>2. /\ ~web.on /\ served = {} /\ web \in WebSendState
      /\ \A a \in Addresses : web.sessions[a].status = "none"
  BY NoWebType DEF Init, NoSession
<1>3. TypeOK
  <2>1. ask \in [Requests -> Request]
    BY DEF Init, Request, Unasked
  <2>2. page \in Page
    BY DEF Init, Page, Closed
  <2> QED
    BY <1>2, <2>1, <2>2 DEF Init, TypeOK
<1>4. ConsentBeforeDownload
  BY <1>2 DEF ConsentBeforeDownload, MayDownload
<1>5. AnswersReach
  BY <1>1, <1>2 DEF AnswersReach
<1> QED
  BY <1>1, <1>2, <1>3, <1>4, <1>5 DEF IInv, Refers

-----------------------------------------------------------------------------
(* The page and the server. *)

\* Steps of the page that leave the browsers and their sessions alone.
LEMMA PageKeepsIInv ==
    ASSUME IInv, PageStep
    PROVE  IInv'
<1>1. /\ UNCHANGED <<online, ask, served>> /\ page' \in Page
      /\ web' \in WebSendState /\ web'.on = web.on /\ web'.sessions = web.sessions
  <2>1. web \in WebSendState /\ page \in Page /\ web.autoAccept \in BOOLEAN /\ web.pin \in BOOLEAN
    BY DEF IInv, TypeOK, WebSendState
  <2>2. CASE Open \/ Leave
    BY <2>1, <2>2 DEF Open, Leave, Page
  <2>3. CASE Restart
    BY <2>1, <2>3 DEF Restart, Page
  <2>4. CASE startFails
    BY <2>1, <2>4 DEF startFails, Page, Closed
  <2>5. CASE setWebSendAutoAccept
    <3> DEFINE new == ~web.autoAccept
    <3>1. new \in BOOLEAN
      OBVIOUS
    <3>2. web' = [web EXCEPT !.autoAccept = new] /\ UNCHANGED <<online, page, ask, served>>
      BY <2>5 DEF setWebSendAutoAccept
    <3> HIDE DEF new
    <3> QED
      BY <2>1, <3>1, <3>2 DEF WebSendState
  <2>6. CASE setWebSendPin
    <3> DEFINE new == ~web.pin
    <3>1. new \in BOOLEAN
      OBVIOUS
    <3>2. web' = [web EXCEPT !.pin = new] /\ UNCHANGED <<online, page, ask, served>>
      BY <2>6 DEF setWebSendPin
    <3> HIDE DEF new
    <3> QED
      BY <2>1, <3>1, <3>2 DEF WebSendState
  <2> QED
    BY <2>2, <2>3, <2>4, <2>5, <2>6 DEF PageStep
<1>2. TypeOK'
  BY <1>1 DEF IInv, TypeOK
<1>3. ConsentBeforeDownload' /\ AnswersReach'
  BY <1>1 DEF IInv, ConsentBeforeDownload, AnswersReach, Overtaken, MayDownload
<1> QED
  BY <1>1, <1>2, <1>3 DEF IInv, Refers

LEMMA StopKeepsIInv ==
    ASSUME IInv, stopServer
    PROVE  IInv'
<1>1. /\ served' = {} /\ web' = NoWeb /\ page' = page /\ online' = FALSE
      /\ ask \in [Requests -> Request] /\ page \in Page
  BY DEF stopServer, IInv, TypeOK
<1>2. /\ ~web'.on /\ web' \in WebSendState
      /\ \A a \in Addresses : web'.sessions[a].status = "none"
  BY <1>1, NoWebType DEF NoSession
<1>3. /\ ask' \in [Requests -> Request]
      /\ \A r \in Requests : /\ ask'[r].pc # "waiting" /\ ask'[r].pinless = ask[r].pinless
                             /\ ask'[r].pc = "free" => ask'[r].after = {}
  BY <1>1 DEF stopServer, Request, IInv, Refers
<1>4. TypeOK'
  BY <1>1, <1>2, <1>3 DEF TypeOK
<1>5. ConsentBeforeDownload'
  BY <1>1, <1>2 DEF ConsentBeforeDownload, MayDownload
<1>6. AnswersReach'
  BY <1>2, <1>3 DEF AnswersReach
<1> QED
  BY <1>1, <1>2, <1>3, <1>4, <1>5, <1>6 DEF IInv, Refers

\* Nobody is asking: the server was not there.
LEMMA StartKeepsIInv ==
    ASSUME IInv, startServer
    PROVE  IInv'
<1>1. /\ ~online /\ online' /\ UNCHANGED <<ask, served>> /\ ask \in [Requests -> Request]
      /\ \A r \in Requests : ask[r].pc # "waiting"
      /\ served \subseteq Addresses /\ web \in WebSendState
  BY DEF startServer, IInv, TypeOK
<1>2. /\ web' \in WebSendState
      /\ \/ web' = web
         \/ \A a \in Addresses : web'.sessions[a].status = "none"
  <2>1. CASE web' = web
    BY <1>1, <2>1
  <2>2. CASE \E autoAccept, pin \in BOOLEAN : web' = NewWeb(autoAccept, pin)
    BY <2>2, NewWebType DEF NoSession
  <2> QED
    BY <2>1, <2>2 DEF startServer
<1>3. page' \in Page /\ online' \in BOOLEAN
  <2>1. page' \in {Closed, [Closed EXCEPT !.stage = "running"]} /\ online' = TRUE
    BY <1>1 DEF startServer
  <2>2. Closed \in Page /\ [Closed EXCEPT !.stage = "running"] \in Page
    BY DEF Page, Closed
  <2> QED
    BY <2>1, <2>2
<1>4. TypeOK'
  BY <1>1, <1>2, <1>3 DEF TypeOK
<1>5. ConsentBeforeDownload'
  BY <1>1, <1>2 DEF IInv, ConsentBeforeDownload, MayDownload
<1>6. AnswersReach'
  BY <1>1, <1>2 DEF IInv, AnswersReach, Overtaken
<1> QED
  BY <1>1, <1>2, <1>4, <1>5, <1>6 DEF IInv, Refers

-----------------------------------------------------------------------------
(* The browsers. *)

LEMMA PinRejectedKeepsIInv ==
    ASSUME IInv, NEW a \in Addresses, PinRejected(a)
    PROVE  IInv'
<1>1. /\ web \in WebSendState /\ UNCHANGED <<online, page, ask, served>>
      /\ web.pinAttempts[a] \in 0..3 /\ web.pinAttempts[a] < 3
      /\ web' = [web EXCEPT !.pinAttempts[a] = @ + 1]
  BY DEF PinRejected, IInv, TypeOK, WebSendState
<1>2. web' \in WebSendState /\ web'.on = web.on /\ web'.sessions = web.sessions
  <2> DEFINE new == web.pinAttempts[a] + 1
  <2>1. new \in 0..3 /\ web' = [web EXCEPT !.pinAttempts[a] = new]
    BY <1>1
  <2> HIDE DEF new
  <2> QED
    BY <1>1, <2>1 DEF WebSendState
<1>3. TypeOK'
  BY <1>1, <1>2 DEF IInv, TypeOK
<1>4. ConsentBeforeDownload' /\ AnswersReach'
  BY <1>1, <1>2 DEF IInv, ConsentBeforeDownload, AnswersReach, Overtaken, MayDownload
<1> QED
  BY <1>1, <1>2, <1>3, <1>4 DEF IInv, Refers

\* What a request that comes in does: it is let in with the PIN, takes the
\* session of its address and leaves all others alone.
LEMMA PrepareFacts ==
    ASSUME IInv, NEW r \in Requests, NEW a \in Addresses, NEW right \in BOOLEAN,
           prepareDownload(r, a, right)
    PROVE  /\ web.on /\ web'.on /\ web' \in WebSendState /\ UNCHANGED <<online, page, served>>
           /\ ask \in [Requests -> Request] /\ ask' \in [Requests -> Request]
           /\ ask[r].pc = "free" /\ ask'[r].from = a /\ ~ask'[r].pinless
           /\ \A q \in Requests : ask[q].pc # "free" => q \in ask'[r].after
           /\ \/ web'.sessions[a] = Accepted /\ ask'[r].pc = "granted"
              \/ web'.sessions[a] = Asking(r) /\ ask'[r].pc = "waiting"
           /\ \A q \in Requests : q # r => ask'[q] = ask[q]
           /\ \A b \in Addresses : b # a => web'.sessions[b] = web.sessions[b]
<1>1. /\ web \in WebSendState /\ ask \in [Requests -> Request] /\ web.on
      /\ checkPin(a, right) /\ UNCHANGED <<online, page, served>>
  BY DEF prepareDownload, IInv, TypeOK
<1>2. (web.pin /\ ~right) = FALSE
  BY <1>1 DEF checkPin
<1>3. PICK pc \in {"granted", "waiting"} :
         /\ Asks(r, a, pc, right)
         /\ web' = [web EXCEPT !.sessions[a] = IF pc = "granted" THEN Accepted ELSE Asking(r)]
  BY DEF prepareDownload
<1> DEFINE before == {q \in Requests : ask[q].pc # "free"}
           new == [pc |-> pc, from |-> a, pinless |-> FALSE, after |-> before]
<1>4. ask[r].pc = "free" /\ ask' = [ask EXCEPT ![r] = new]
  BY <1>2, <1>3 DEF Asks
<1>5. /\ new \in Request /\ new.from = a /\ new.pc = pc /\ ~new.pinless
      /\ \A q \in Requests : ask[q].pc # "free" => q \in new.after
  BY DEF Request
<1> HIDE DEF new
<1>6. /\ ask' \in [Requests -> Request] /\ ask'[r].from = a /\ ask'[r].pc = pc /\ ~ask'[r].pinless
      /\ \A q \in Requests : ask[q].pc # "free" => q \in ask'[r].after
      /\ \A q \in Requests : q # r => ask'[q] = ask[q]
  BY <1>1, <1>4, <1>5
<1> DEFINE s == IF pc = "granted" THEN Accepted ELSE Asking(r)
<1>7. s \in Session /\ web' = [web EXCEPT !.sessions[a] = s]
  BY <1>3, SessionTypes
<1>8. \/ s = Accepted /\ pc = "granted"
      \/ s = Asking(r) /\ pc = "waiting"
  OBVIOUS
<1> HIDE DEF s
<1>9. /\ web' \in WebSendState /\ web'.on = web.on /\ web'.sessions[a] = s
      /\ \A b \in Addresses : b # a => web'.sessions[b] = web.sessions[b]
  BY <1>1, <1>7, SessionReplaced
<1> QED
  BY <1>1, <1>4, <1>6, <1>8, <1>9

LEMMA PrepareKeepsIInv ==
    ASSUME IInv, NEW r \in Requests, NEW a \in Addresses, NEW right \in BOOLEAN,
           prepareDownload(r, a, right)
    PROVE  IInv'
<1>1. TypeOK'
  BY PrepareFacts DEF IInv, TypeOK
<1>2. /\ web'.on => online'
      /\ ~online' => \A q \in Requests : ask'[q].pc # "waiting"
      /\ \A q \in Requests : ~ask'[q].pinless
  BY PrepareFacts DEF IInv
<1>3. ConsentBeforeDownload'
  <2> SUFFICES ASSUME NEW b \in Addresses, b \in served' \/ web'.sessions[b].status = "accepted"
               PROVE  \E q \in Requests : /\ ask'[q].pc = "granted" /\ ask'[q].from = b
                                         /\ ~ask'[q].pinless
    BY DEF ConsentBeforeDownload, MayDownload
  <2>1. CASE b \in served \/ web.sessions[b].status = "accepted"
    <3>1. PICK q \in Requests : ask[q].pc = "granted" /\ ask[q].from = b /\ ~ask[q].pinless
      BY <2>1 DEF IInv, ConsentBeforeDownload, MayDownload
    <3> QED
      BY <3>1, PrepareFacts
  <2>2. CASE ~(b \in served \/ web.sessions[b].status = "accepted")
    <3>1. b = a /\ web'.sessions[a].status = "accepted"
      BY <2>2, PrepareFacts
    <3>2. Asking(r).status # "accepted"
      BY DEF Asking
    <3> QED
      BY <3>1, <3>2, PrepareFacts
  <2> QED
    BY <2>1, <2>2
<1>4. Refers' /\ AnswersReach'
  <2>1. ASSUME NEW b \in Addresses, web'.sessions[b].status = "asking"
        PROVE  /\ web'.sessions[b].handler \in Requests
               /\ ask'[web'.sessions[b].handler].pc = "waiting"
               /\ ask'[web'.sessions[b].handler].from = b
    <3>1. CASE b = a
      <4>1. Accepted.status # "asking" /\ Asking(r).handler = r
        BY DEF Accepted, Asking
      <4> QED
        BY <2>1, <3>1, <4>1, PrepareFacts
    <3>2. CASE b # a
      <4> DEFINE h == web.sessions[b].handler
      <4>1. /\ web.sessions[b].status = "asking" /\ web'.sessions[b] = web.sessions[b]
        BY <2>1, <3>2, PrepareFacts
      <4>2. h \in Requests /\ ask[h].pc = "waiting" /\ ask[h].from = b
        BY <4>1, AskingFacts
      <4>3. h # r
        BY <4>2, PrepareFacts
      <4> QED
        BY <4>1, <4>2, <4>3, PrepareFacts
    <3> QED
      BY <3>1, <3>2
  <2>2. ASSUME NEW q \in Requests, ask'[q].pc = "waiting"
        PROVE  web'.sessions[ask'[q].from] = Asking(q) \/ Overtaken(q)'
    <3>1. CASE q = r
      BY <2>2, <3>1, PrepareFacts
    <3>2. CASE q # r
      <4>1. ask'[q] = ask[q] /\ ask[q].pc = "waiting"
        BY <2>2, <3>2, PrepareFacts
      <4>2. CASE ask[q].from = a
        <5>1. q \in ask'[r].after /\ ask'[r].from = ask'[q].from
          BY <4>1, <4>2, PrepareFacts
        <5> QED
          BY <5>1 DEF Overtaken
      <4>3. CASE ask[q].from # a /\ web.sessions[ask[q].from] = Asking(q)
        <5>1. ask[q].from \in Addresses
          BY <4>1 DEF IInv, Refers
        <5> QED
          BY <4>1, <4>3, <5>1, PrepareFacts
      <4>4. CASE Overtaken(q)
        <5>1. PICK later \in Requests : q \in ask[later].after /\ ask[later].from = ask[q].from
          BY <4>4 DEF Overtaken
        <5>2. CASE later # r
          <6>1. ask'[later] = ask[later]
            BY <5>2, PrepareFacts
          <6> QED
            BY <4>1, <5>1, <6>1 DEF Overtaken
        <5>3. CASE later = r
          BY <5>1, <5>3, PrepareFacts DEF IInv, Refers
        <5> QED
          BY <5>2, <5>3
      <4>5. web.sessions[ask[q].from] = Asking(q) \/ Overtaken(q)
        BY <4>1 DEF IInv, AnswersReach
      <4> QED
        BY <4>2, <4>3, <4>4, <4>5
    <3> QED
      BY <3>1, <3>2
  <2>3. ASSUME NEW q \in Requests, ask'[q].pc = "waiting"
        PROVE  ask'[q].from \in Addresses
    BY <2>3, PrepareFacts DEF IInv, Refers
  <2>4. \A q \in Requests : ask'[q].pc = "free" => ask'[q].after = {}
    BY PrepareFacts DEF IInv, Refers
  <2> QED
    BY <2>1, <2>2, <2>3, <2>4 DEF AnswersReach, Refers
<1> QED
  BY <1>1, <1>2, <1>3, <1>4 DEF IInv

\* What an answer of the user does: it settles the request that the session of
\* this address refers to, which no other session refers to.
LEMMA RespondFacts ==
    ASSUME IInv, NEW a \in Addresses, NEW accept \in BOOLEAN, respondRequest(a, accept)
    PROVE  \E h \in Requests :
             /\ UNCHANGED <<online, page, served>> /\ web'.on = web.on /\ web' \in WebSendState
             /\ ask' \in [Requests -> Request]
             /\ web.sessions[a] = Asking(h) /\ ask[h].pc = "waiting" /\ ask[h].from = a
             /\ ask'[h].from = a /\ ask'[h].pinless = ask[h].pinless
             /\ ask'[h].after = ask[h].after
             /\ \/ web'.sessions[a] = Accepted /\ ask'[h].pc = "granted"
                \/ web'.sessions[a] = NoSession /\ ask'[h].pc = "declined"
             /\ \A q \in Requests : q # h => ask'[q] = ask[q]
             /\ \A b \in Addresses : b # a => web'.sessions[b] = web.sessions[b]
<1> DEFINE h == web.sessions[a].handler
           s == Answered(a, accept)
           pc == IF accept THEN "granted" ELSE "declined"
<1>1. /\ web.sessions[a].status = "asking" /\ UNCHANGED <<online, page, served>>
      /\ web' = [web EXCEPT !.sessions[a] = s]
      /\ ask' = [ask EXCEPT ![h].pc = pc]
  BY DEF respondRequest
<1>2. /\ h \in Requests /\ ask[h].pc = "waiting" /\ ask[h].from = a
      /\ web.sessions[a] = Asking(h)
  BY <1>1, AskingFacts
<1>3. web \in WebSendState /\ ask \in [Requests -> Request]
  BY DEF IInv, TypeOK
<1>4. /\ s \in Session
      /\ \/ s = Accepted /\ pc = "granted"
         \/ s = NoSession /\ pc = "declined"
  BY SessionTypes DEF Answered
<1> HIDE DEF h, s, pc
<1>5. /\ web' \in WebSendState /\ web'.on = web.on /\ web'.sessions[a] = s
      /\ \A b \in Addresses : b # a => web'.sessions[b] = web.sessions[b]
  BY <1>1, <1>3, <1>4, SessionReplaced
<1>6. /\ ask' \in [Requests -> Request]
      /\ ask'[h].pc = pc /\ ask'[h].from = ask[h].from /\ ask'[h].pinless = ask[h].pinless
      /\ ask'[h].after = ask[h].after
      /\ \A q \in Requests : q # h => ask'[q] = ask[q]
  BY <1>1, <1>2, <1>3, <1>4 DEF Request
<1> QED
  BY <1>1, <1>2, <1>4, <1>5, <1>6

LEMMA RespondKeepsIInv ==
    ASSUME IInv, NEW a \in Addresses, NEW accept \in BOOLEAN, respondRequest(a, accept)
    PROVE  IInv'
<1>1. PICK h \in Requests :
        /\ UNCHANGED <<online, page, served>> /\ web'.on = web.on /\ web' \in WebSendState
        /\ ask' \in [Requests -> Request]
        /\ web.sessions[a] = Asking(h) /\ ask[h].pc = "waiting" /\ ask[h].from = a
        /\ ask'[h].from = a /\ ask'[h].pinless = ask[h].pinless
        /\ ask'[h].after = ask[h].after
        /\ \/ web'.sessions[a] = Accepted /\ ask'[h].pc = "granted"
           \/ web'.sessions[a] = NoSession /\ ask'[h].pc = "declined"
        /\ \A q \in Requests : q # h => ask'[q] = ask[q]
        /\ \A b \in Addresses : b # a => web'.sessions[b] = web.sessions[b]
  BY RespondFacts
<1>2. /\ Accepted.status = "accepted" /\ NoSession.status = "none"
      /\ \A q : Asking(q).status = "asking" /\ Asking(q).handler = q
  BY DEF Accepted, NoSession, Asking
<1>3. TypeOK'
  BY <1>1 DEF IInv, TypeOK
<1>4. /\ web'.on => online'
      /\ ~online' => \A q \in Requests : ask'[q].pc # "waiting"
      /\ \A q \in Requests : ~ask'[q].pinless
  BY <1>1 DEF IInv
<1>5. ConsentBeforeDownload'
  <2> SUFFICES ASSUME NEW b \in Addresses, b \in served' \/ web'.sessions[b].status = "accepted"
               PROVE  \E q \in Requests : /\ ask'[q].pc = "granted" /\ ask'[q].from = b
                                         /\ ~ask'[q].pinless
    BY DEF ConsentBeforeDownload, MayDownload
  <2>1. CASE b \in served \/ web.sessions[b].status = "accepted"
    <3>1. PICK q \in Requests : ask[q].pc = "granted" /\ ask[q].from = b /\ ~ask[q].pinless
      BY <2>1 DEF IInv, ConsentBeforeDownload, MayDownload
    <3> QED
      BY <1>1, <3>1
  <2>2. CASE ~(b \in served \/ web.sessions[b].status = "accepted")
    <3>1. b = a /\ web'.sessions[a].status = "accepted"
      BY <1>1, <2>2
    <3> QED
      BY <1>1, <1>2, <1>4, <3>1
  <2> QED
    BY <2>1, <2>2
<1>6. Refers' /\ AnswersReach'
  <2>1. ASSUME NEW b \in Addresses, web'.sessions[b].status = "asking"
        PROVE  /\ web'.sessions[b].handler \in Requests
               /\ ask'[web'.sessions[b].handler].pc = "waiting"
               /\ ask'[web'.sessions[b].handler].from = b
    <3>1. b # a /\ web'.sessions[b] = web.sessions[b] /\ web.sessions[b].status = "asking"
      BY <1>1, <1>2, <2>1
    <3>2. /\ web.sessions[b].handler \in Requests
          /\ ask[web.sessions[b].handler].pc = "waiting"
          /\ ask[web.sessions[b].handler].from = b
      BY <3>1, AskingFacts
    <3> QED
      BY <1>1, <3>1, <3>2
  <2>2. ASSUME NEW q \in Requests, ask'[q].pc = "waiting"
        PROVE  /\ ask'[q].from \in Addresses
               /\ web'.sessions[ask'[q].from] = Asking(q) \/ Overtaken(q)'
    <3>1. q # h /\ ask'[q] = ask[q] /\ ask[q].from \in Addresses
      BY <1>1, <2>2 DEF IInv, Refers
    <3>2. CASE ask[q].from = a /\ web.sessions[a] = Asking(q)
      <4>1. Asking(q).handler = q /\ Asking(h).handler = h /\ Asking(q) = Asking(h)
        BY <1>1, <1>2, <3>2
      <4> QED
        BY <3>1, <4>1
    <3>3. CASE ask[q].from # a /\ web.sessions[ask[q].from] = Asking(q)
      BY <1>1, <3>1, <3>3
    <3>4. CASE Overtaken(q)
      <4>1. PICK later \in Requests : q \in ask[later].after /\ ask[later].from = ask[q].from
        BY <3>4 DEF Overtaken
      <4>2. ask'[later].after = ask[later].after /\ ask'[later].from = ask[later].from
        BY <1>1, <4>1
      <4> QED
        BY <3>1, <4>1, <4>2 DEF Overtaken
    <3>5. web.sessions[ask[q].from] = Asking(q) \/ Overtaken(q)
      BY <2>2, <3>1 DEF IInv, AnswersReach
    <3> QED
      BY <3>2, <3>3, <3>4, <3>5
  <2>3. \A q \in Requests : ask'[q].pc = "free" => ask'[q].after = {}
    BY <1>1 DEF IInv, Refers
  <2> QED
    BY <2>1, <2>2, <2>3 DEF AnswersReach, Refers
<1> QED
  BY <1>3, <1>4, <1>5, <1>6 DEF IInv

LEMMA DownloadKeepsIInv ==
    ASSUME IInv, NEW a \in Addresses, download(a)
    PROVE  IInv'
<1>1. UNCHANGED <<online, page, web, ask>> /\ served' = served \cup {a} /\ MayDownload(a)
  BY DEF download
<1>2. TypeOK'
  BY <1>1 DEF IInv, TypeOK
<1>3. ConsentBeforeDownload'
  BY <1>1 DEF IInv, ConsentBeforeDownload, MayDownload
<1>4. AnswersReach' /\ Refers'
  BY <1>1 DEF IInv, AnswersReach, Overtaken, Refers
<1> QED
  BY <1>1, <1>2, <1>3, <1>4 DEF IInv

-----------------------------------------------------------------------------
(* WebSend. *)

LEMMA IInvInductive == IInv /\ [Next]_vars => IInv'
<1> SUFFICES ASSUME IInv, [Next]_vars PROVE IInv'
  OBVIOUS
<1>1. CASE PageStep
  BY <1>1, PageKeepsIInv
<1>2. CASE stopServer
  BY <1>2, StopKeepsIInv
<1>3. CASE startServer
  BY <1>3, StartKeepsIInv
<1>4. ASSUME NEW a \in Addresses, BrowserStep(a, Requests)
      PROVE  IInv'
  BY <1>4, PinRejectedKeepsIInv, PrepareKeepsIInv, RespondKeepsIInv, DownloadKeepsIInv
     DEF BrowserStep
<1>5. CASE UNCHANGED vars
  <2>1. UNCHANGED <<online, page, web, ask, served>>
    BY <1>5 DEF vars
  <2> QED
    BY <2>1 DEF IInv, TypeOK, Refers, ConsentBeforeDownload, AnswersReach, Overtaken, MayDownload
<1> QED
  BY <1>1, <1>2, <1>3, <1>4, <1>5 DEF Next

\* The web send state, its page and the requests keep their types, and no
\* address ever has more than three wrong PINs.
THEOREM WebTypeCorrect == Spec => []TypeOK
<1>1. IInv => TypeOK
  BY DEF IInv
<1> QED
  BY InitIInv, IInvInductive, <1>1, PTL DEF Spec

\* However requests, answers and restarts interleave, for any number of
\* browsers: only a browser that gave the PIN and was accepted downloads.
THEOREM ConsentToDownload == Spec => []ConsentBeforeDownload
<1>1. IInv => ConsentBeforeDownload
  BY DEF IInv
<1> QED
  BY InitIInv, IInvInductive, <1>1, PTL DEF Spec

\* The answer of the user reaches the browser that waits for it, and the user is
\* still asked for every browser that waits, but for one whose own address has
\* asked again since.
THEOREM AnswersCorrect == Spec => []AnswersReach
<1>1. IInv => AnswersReach
  BY DEF IInv
<1> QED
  BY InitIInv, IInvInductive, <1>1, PTL DEF Spec

-----------------------------------------------------------------------------
(* The server with both controllers. *)

LEMMA ReceiveKeepsOnline == Receive => UNCHANGED <<online, page, web, ask, served>>
<1> SUFFICES ASSUME Receive PROVE UNCHANGED online
  BY DEF Receive, sharing
<1>1. ASSUME NEW selection \in SUBSET Files, R!acceptFileRequest(selection)
      PROVE  UNCHANGED online
  BY <1>1 DEF R!acceptFileRequest
<1>2. CASE R!acceptMessage \/ R!declineFileRequest \/ R!closeCanceled \/ R!cancelSession
  BY <1>2 DEF R!acceptMessage, R!declineFileRequest, R!closeCanceled, R!cancelSession
<1>3. ASSUME NEW r, NEW p, R!PrepareStart(r, p, "right")
      PROVE  UNCHANGED online
  BY <1>3 DEF R!PrepareStart
<1>4. ASSUME NEW r, R!Prepare(r)
      PROVE  UNCHANGED online
  BY <1>4 DEF R!Prepare, R!PrepareMalformed, R!PrepareInstall, R!PrepareOffline, R!PrepareRespond
<1>5. ASSUME NEW u, NEW p, NEW s, NEW f, R!UploadStart(u, p, s, f)
      PROVE  UNCHANGED online
  BY <1>5 DEF R!UploadStart
<1>6. ASSUME NEW u, R!Upload(u)
      PROVE  UNCHANGED online
  BY <1>6 DEF R!Upload, R!UploadSaved, R!UploadFailed, R!UploadRecorded
<1>7. ASSUME NEW p, NEW s, R!Cancel(p, TRUE, s)
      PROVE  UNCHANGED online
  BY <1>7 DEF R!Cancel
<1> QED
  BY <1>1, <1>2, <1>3, <1>4, <1>5, <1>6, <1>7 DEF Receive

InBounds == bound \in Bounds

\* The receive controller only restricts when the server starts and stops: the
\* server implements WebSend, whatever the senders and the user do.
THEOREM ServiceImplementsWebSend == ServiceSpec => Spec
<1>1. ServiceInit => Init /\ InBounds
  BY DEF ServiceInit, InBounds
<1>2. InBounds /\ [ServiceNext]_serviceVars => [Next]_vars /\ InBounds'
  <2> SUFFICES ASSUME InBounds, [ServiceNext]_serviceVars
               PROVE  [Next]_vars /\ InBounds'
    OBVIOUS
  <2> USE DEF InBounds
  <2>1. CASE (ServiceStarts \/ ServiceStops) /\ UNCHANGED bound
    BY <2>1 DEF ServiceStarts, ServiceStops, Next
  <2>2. CASE Share /\ UNCHANGED bound
    <3>1. bound.addresses \subseteq Addresses /\ bound.requests \subseteq Requests
      BY BoundsAssumption
    <3>2. ASSUME NEW a \in bound.addresses, BrowserStep(a, bound.requests)
          PROVE  BrowserStep(a, Requests)
      BY <3>1, <3>2 DEF BrowserStep
    <3>3. Next
      BY <2>2, <3>1, <3>2 DEF Share, Next
    <3> QED
      BY <2>2, <3>3
  <2>3. CASE Receive /\ UNCHANGED bound
    BY <2>3, ReceiveKeepsOnline DEF vars
  <2>4. CASE \E u \in Uploads : QuickSaveClose(u)
    BY <2>4 DEF QuickSaveClose, R!QuickSaveClose, sharing, vars
  <2>5. CASE UNCHANGED serviceVars
    BY <2>5 DEF serviceVars, sharing, vars
  <2> QED
    BY <2>1, <2>2, <2>3, <2>4, <2>5 DEF ServiceNext
<1> QED
  BY <1>1, <1>2, PTL DEF ServiceSpec, Spec

LEMMA ReceiveIsANext == InBounds /\ Receive => R!Next
<1> SUFFICES ASSUME InBounds, Receive PROVE R!Next
  OBVIOUS
<1>1. /\ bound.peers \subseteq Peers /\ bound.prepares \subseteq Prepares
      /\ bound.uploads \subseteq Uploads
  BY BoundsAssumption DEF InBounds
<1>2. ASSUME NEW selection \in SUBSET Files, R!acceptFileRequest(selection)
      PROVE  R!Next
  BY <1>2 DEF R!Next, R!User
<1>3. CASE R!acceptMessage \/ R!declineFileRequest \/ R!closeCanceled \/ R!cancelSession
  BY <1>3 DEF R!Next, R!User
<1>4. ASSUME NEW r \in Prepares, NEW p \in Peers, R!PrepareStart(r, p, "right")
      PROVE  R!Next
  BY <1>4 DEF R!Next, R!Network
<1>5. ASSUME NEW r \in Prepares, R!Prepare(r)
      PROVE  R!Next
  BY <1>5 DEF R!Next
<1>6. ASSUME NEW u \in Uploads, NEW p \in Peers, NEW s \in Prepares, NEW f \in Files,
             R!UploadStart(u, p, s, f)
      PROVE  R!Next
  BY <1>6 DEF R!Next, R!Network
<1>7. ASSUME NEW u \in Uploads, R!Upload(u)
      PROVE  R!Next
  BY <1>7 DEF R!Next
<1>8. ASSUME NEW p \in Peers, NEW s \in Prepares \cup {None}, R!Cancel(p, TRUE, s)
      PROVE  R!Next
  BY <1>8 DEF R!Next, R!Network
<1> QED
  BY <1>1, <1>2, <1>3, <1>4, <1>5, <1>6, <1>7, <1>8 DEF Receive

LEMMA ShareKeepsReceiving == Share => UNCHANGED <<online, receiving>>
<1>1. PageStep => UNCHANGED online
  BY DEF PageStep, Open, Restart, Leave, startFails, setWebSendAutoAccept, setWebSendPin
<1>2. ASSUME NEW a, NEW requests, BrowserStep(a, requests)
      PROVE  UNCHANGED online
  BY <1>2 DEF BrowserStep, PinRejected, prepareDownload, respondRequest, download
<1> QED
  BY <1>1, <1>2 DEF Share

\* Nor does web send add anything to what the receive controller does: a page
\* that restarts the server is a stop and a start.
THEOREM ServiceImplementsReceive == ServiceSpec => R!Spec
<1>1. ServiceInit => R!Init /\ InBounds
  BY DEF ServiceInit, InBounds
<1>2. InBounds /\ [ServiceNext]_serviceVars => [R!Next]_(R!vars) /\ InBounds'
  <2> SUFFICES ASSUME InBounds, [ServiceNext]_serviceVars
               PROVE  [R!Next]_(R!vars) /\ InBounds'
    OBVIOUS
  <2>1. CASE (ServiceStarts \/ ServiceStops) /\ UNCHANGED bound
    BY <2>1 DEF ServiceStarts, ServiceStops, R!Next, R!User, InBounds
  <2>2. CASE Share /\ UNCHANGED bound
    BY <2>2, ShareKeepsReceiving DEF R!vars, receiving, InBounds
  <2>3. CASE Receive /\ UNCHANGED bound
    BY <2>3, ReceiveIsANext DEF InBounds
  <2>4. CASE \E u \in Uploads : QuickSaveClose(u)
    BY <2>4 DEF QuickSaveClose, R!Next, InBounds
  <2>5. CASE UNCHANGED serviceVars
    BY <2>5 DEF serviceVars, receiving, R!vars, InBounds
  <2> QED
    BY <2>1, <2>2, <2>3, <2>4, <2>5 DEF ServiceNext
<1> QED
  BY <1>1, <1>2, PTL DEF ServiceSpec, R!Spec

\* So nobody downloads without consent while files are received, too.
THEOREM ServiceConsentToDownload == ServiceSpec => []ConsentBeforeDownload
  BY ServiceImplementsWebSend, ConsentToDownload, PTL
=============================================================================
