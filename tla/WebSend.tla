------------------------------- MODULE WebSend -------------------------------
(***************************************************************************)
(* Sharing files via a link: send_controller.dart and web_send_page.dart.  *)
(* The page restarts the server with a web send state and back without it. *)
(* A browser asks for permission (prepare-download), which the user or     *)
(* auto accept gives to its address, and then downloads.                   *)
(*                                                                         *)
(* A request that asks the user waits for the stream of its session, the   *)
(* only thing that refers to it: when the session is replaced by that of   *)
(* another request, or the web send state is dropped, it waits for ever.   *)
(***************************************************************************)
EXTENDS Naturals

CONSTANTS
    Addresses,      \* of browsers
    Requests,       \* prepare-download requests
    None            \* no request

ASSUME RequestsAssumption == None \notin Requests

VARIABLES
    online,         \* is the server started?
    page,           \* the web send page, and what it carries over a restart
    web,            \* ServerState.webSendState
    ask,            \* the prepare-download requests
    served          \* the addresses that have downloaded in this web send

vars == <<online, page, web, ask, served>>

-----------------------------------------------------------------------------
(* Data. *)

\* status: is there a session, and does it have a responseHandler?
Session == [status: {"none", "asking", "accepted"}, handler: Requests \cup {None}]

NoSession == [status |-> "none", handler |-> None]
Accepted == [status |-> "accepted", handler |-> None]
Asking(r) == [status |-> "asking", handler |-> r]

WebSendState ==
    [on: BOOLEAN, sessions: [Addresses -> Session], autoAccept: BOOLEAN, pin: BOOLEAN,
     pinAttempts: [Addresses -> 0..3]]

NewWeb(autoAccept, pin) ==
    [on |-> TRUE, sessions |-> [a \in Addresses |-> NoSession], autoAccept |-> autoAccept,
     pin |-> pin, pinAttempts |-> [a \in Addresses |-> 0]]

NoWeb == [NewWeb(FALSE, FALSE) EXCEPT !.on = FALSE]

\* again: is it a restart of the page, which keeps autoAccept and pin?
Page ==
    [stage: {"closed", "initializing", "running", "stopping", "error"}, again: BOOLEAN,
     autoAccept: BOOLEAN, pin: BOOLEAN]

Closed == [stage |-> "closed", again |-> FALSE, autoAccept |-> FALSE, pin |-> FALSE]

\* Who asked, how it went, did it come without the PIN that was set, and which
\* requests had come before it (the last two are history)?
Request ==
    [pc: {"free", "waiting", "granted", "declined", "dropped"}, from: Addresses \cup {None},
     pinless: BOOLEAN, after: SUBSET Requests]

Unasked == [pc |-> "free", from |-> None, pinless |-> FALSE, after |-> {}]

Init ==
    /\ online = FALSE
    /\ page = Closed
    /\ web = NoWeb
    /\ ask = [r \in Requests |-> Unasked]
    /\ served = {}

-----------------------------------------------------------------------------
(* The page and the server. *)

Open ==
    /\ page.stage = "closed"
    /\ page' = [page EXCEPT !.stage = "initializing"]
    /\ UNCHANGED <<online, web, ask, served>>

\* Encryption is switched on or off: the server starts again.
Restart ==
    /\ page.stage = "running"
    /\ page' = [stage |-> "initializing", again |-> TRUE, autoAccept |-> web.autoAccept,
                pin |-> web.pin]
    /\ UNCHANGED <<online, web, ask, served>>

Leave ==
    /\ page.stage = "running"
    /\ page' = [page EXCEPT !.stage = "stopping"]
    /\ UNCHANGED <<online, web, ask, served>>

\* The page stops the server, or the settings do when the page is closed.  What
\* was asked or granted in this web send is gone with its state.
stopServer ==
    /\ online /\ page.stage # "running"
    /\ online' = FALSE
    /\ web' = NoWeb
    /\ ask' = [r \in Requests |->
                 IF ask[r].pc = "free" THEN ask[r] ELSE [ask[r] EXCEPT !.pc = "dropped"]]
    /\ served' = {}
    /\ UNCHANGED page

\* initializeWebSend takes autoAccept from the settings and no PIN; the page
\* then restores what there was before.
Kept(autoAccept, pin) ==
    IF page.again THEN autoAccept = page.autoAccept /\ pin = page.pin ELSE pin = FALSE

startServer ==
    /\ ~online /\ page.stage \in {"closed", "initializing", "stopping"}
    /\ online' = TRUE
    /\ IF page.stage = "initializing"
         THEN /\ \E autoAccept, pin \in BOOLEAN :
                    Kept(autoAccept, pin) /\ web' = NewWeb(autoAccept, pin)
              /\ page' = [Closed EXCEPT !.stage = "running"]
         ELSE /\ page' = Closed
              /\ UNCHANGED web
    /\ UNCHANGED <<ask, served>>

\* The port is taken.  The page shows the error, or that it is stopping, and
\* cannot be left any more.
startFails ==
    /\ ~online /\ page.stage \in {"initializing", "stopping"}
    /\ page' = [Closed EXCEPT !.stage = "error"]
    /\ UNCHANGED <<online, web, ask, served>>

setWebSendAutoAccept ==
    /\ page.stage = "running"
    /\ web' = [web EXCEPT !.autoAccept = ~@]
    /\ UNCHANGED <<online, page, ask, served>>

setWebSendPin ==
    /\ page.stage = "running"
    /\ web' = [web EXCEPT !.pin = ~@]
    /\ UNCHANGED <<online, page, ask, served>>

-----------------------------------------------------------------------------
(* The browsers. *)

\* Mutant of checkPin: what is counted is not looked at, nor is the PIN.
checkNoPin(a, right) == TRUE

checkPin(a, right) == ~web.pin \/ (web.pinAttempts[a] < 3 /\ right)

\* A wrong PIN that is not empty.
PinRejected(a) ==
    /\ web.on /\ web.pin /\ web.pinAttempts[a] < 3
    /\ web' = [web EXCEPT !.pinAttempts[a] = @ + 1]
    /\ UNCHANGED <<online, page, ask, served>>

Asks(r, a, pc, right) ==
    /\ ask[r].pc = "free"
    /\ ask' = [ask EXCEPT ![r] = [pc |-> pc, from |-> a, pinless |-> web.pin /\ ~right,
                                 after |-> {q \in Requests : ask[q].pc # "free"}]]

\* Mutant of prepareDownload: the session of an earlier request is kept.
prepareDownloadOnce(r, a, right) ==
    /\ web.on /\ checkPin(a, right)
    /\ Asks(r, a, IF web.autoAccept THEN "granted" ELSE "waiting", right)
    /\ web' = IF web.sessions[a] # NoSession THEN web
              ELSE [web EXCEPT !.sessions[a] = IF web.autoAccept THEN Accepted ELSE Asking(r)]
    /\ UNCHANGED <<online, page, served>>

\* The session of an earlier request of this address is replaced, whether it
\* was accepted or not.  (A browser that sends the id of its accepted session
\* is only answered again.)
prepareDownload(r, a, right) ==
    /\ web.on /\ checkPin(a, right)
    /\ IF web.autoAccept
         THEN Asks(r, a, "granted", right) /\ web' = [web EXCEPT !.sessions[a] = Accepted]
         ELSE Asks(r, a, "waiting", right) /\ web' = [web EXCEPT !.sessions[a] = Asking(r)]
    /\ UNCHANGED <<online, page, served>>

Answered(a, accept) == IF accept THEN Accepted ELSE NoSession

\* acceptRequest or declineRequest, and the handler that resumes.
respondRequest(a, accept) ==
    /\ page.stage = "running"
    /\ web.sessions[a].status = "asking"
    /\ web' = [web EXCEPT !.sessions[a] = Answered(a, accept)]
    /\ ask' = [ask EXCEPT ![web.sessions[a].handler].pc = IF accept THEN "granted" ELSE "declined"]
    /\ UNCHANGED <<online, page, served>>

\* Mutant of MayDownload: any session will do.
MayDownloadAsking(a) == web.sessions[a].status # "none"

MayDownload(a) == web.sessions[a].status = "accepted"

download(a) ==
    /\ web.on /\ MayDownload(a)
    /\ served' = served \cup {a}
    /\ UNCHANGED <<online, page, web, ask>>

-----------------------------------------------------------------------------
(* The specification. *)

PageStep ==
    \/ Open \/ Restart \/ Leave \/ startFails
    \/ setWebSendAutoAccept \/ setWebSendPin

\* With one of these requests, if it asks.
BrowserStep(a, requests) ==
    \/ PinRejected(a)
    \/ \E r \in requests, right \in BOOLEAN : prepareDownload(r, a, right)
    \/ \E accept \in BOOLEAN : respondRequest(a, accept)
    \/ download(a)

Next ==
    \/ startServer \/ stopServer \/ PageStep
    \/ \E a \in Addresses : BrowserStep(a, Requests)

Spec == Init /\ [][Next]_vars

-----------------------------------------------------------------------------
(* Properties. *)

TypeOK ==
    /\ online \in BOOLEAN
    /\ page \in Page
    /\ web \in WebSendState
    /\ ask \in [Requests -> Request]
    /\ served \subseteq Addresses

\* Files only go to an address that asked in this web send and was accepted, by
\* the user or by auto accept, after it gave the PIN if one was set by then.
ConsentBeforeDownload ==
    \A a \in Addresses :
       a \in served \/ MayDownload(a) =>
          \E r \in Requests : /\ ask[r].pc = "granted" /\ ask[r].from = a
                              /\ ~ask[r].pinless

\* A later request of the same address has come.
Overtaken(r) ==
    \E later \in Requests : r \in ask[later].after /\ ask[later].from = ask[r].from

\* A question the user sees is that of a browser that waits for the answer; and
\* the user is still asked for every browser that waits, but for one whose address
\* has asked again since: the last request of an address is never lost.
AnswersReach ==
    /\ \A a \in Addresses : web.sessions[a].status = "asking" =>
          /\ ask[web.sessions[a].handler].pc = "waiting"
          /\ ask[web.sessions[a].handler].from = a
    /\ \A r \in Requests : ask[r].pc = "waiting" =>
          web.sessions[ask[r].from] = Asking(r) \/ Overtaken(r)
=============================================================================
