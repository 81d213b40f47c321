# LocalSend in TLA+

Specifications of the parts of LocalSend that coordinate: the HTTP server that
receives files and shares them via links, the provider that sends them, the
transfer between the two, the WebSocket server that introduces devices to each
other and its client, the transfer over WebRTC with the applications of both
sides, and the HTTP client and server of the Rust core. Each specification is translated
from the source and checked by TLC on small instances; eight modules of proofs
state the main results for every instance, checked by TLAPS.

Paths are relative to the repository. `app/.../controller/` stands for
`app/lib/provider/network/server/controller/`.

## 1. The system

LocalSend is a Flutter application (Dart) around a Rust core, and a small Rust
server. Every device runs an HTTP server and is a client of the servers of the
other devices.

| part | state | operations | interacts with |
|---|---|---|---|
| **Receive server** `app/.../controller/receive_controller.dart`, `common.dart`, `server_provider.dart` | one optional receive session (status, sender, files with status and token), PIN attempts per address | prepare-upload, upload, cancel, info, register, show; the user's accept, decline, cancel, close; start and stop | the send provider of another device over HTTP; the user through a `StreamController` held in the session; history, progress |
| **Send provider** `app/lib/provider/network/send_provider.dart` | a map of send sessions | start (request, PIN dialog, send loop), send file, retry, cancel, close, clear all, background | the receive server of another device; upload isolates; the cancel route of its own device |
| **Signaling server** `server/src/controller/ws_controller.rs` | per IP group a map of peers to bounded channels, a request count per address | connect, update, offer, answer, disconnect, hourly reset | signaling clients over WebSocket |
| **Signaling client** `core/src/webrtc/signaling.rs`, `app/.../webrtc/signaling_provider.dart` | connections, answer callbacks; the app's set of signaled devices | connect, send, listen, on_answer | signaling server; WebRTC transfer |
| **Web send** `app/.../controller/send_controller.dart`, `web_send_page.dart` | one optional web send state with a session per address | prepare-download, download, accept, decline, initialize, restart | browsers over HTTP; shares the server, its start and stop with the receive server |
| **WebRTC transfer** `core/src/webrtc/webrtc.rs` | per transfer: data channel, PIN, file queues | send_offer, accept_offer, nonce and token exchange, PIN, files, acks | signaling client, the app |
| **WebRTC controllers** `app/rust/src/api/webrtc.rs` | a status channel of one, a slot for the PIN, the bridge's lock | listen_status, send_pin, select_files, send_file | the WebRTC transfer; Dart |
| **Core HTTP (v3)** `core/src/http/` | two listeners, connections, two LRU maps of nonces per server and client | listen, stop, nonce exchange, register, the client's calls | each other |
| **Discovery** `nearby_devices_provider.dart`, `scan_facade.dart` | devices by address, running scans | multicast, legacy and favorite scans, register | isolates, favorites |
| **Isolates and task runner** `common/lib/isolate.dart`, `common/lib/util/task_runner.dart` | task queues | run, cancel | send provider, discovery |
| **Settings, history, favorites** | preferences | read-modify-write | all |
| **Uyava instrumentation** `app/lib/uyava/` | none of the above | emits events | all |

What is hard in it:

* A Dart handler runs alone until it awaits. Between two awaits everything it
  read may have changed: the session it checked may be closed, replaced by
  another, canceled. The receive server has **one** session for all requests.
* Uploads are concurrent on both sides and outlive the session they belong to:
  closing or canceling a session stops none of the running handlers.
* The user retries single files while the send loop runs; the loop does not
  know about them.
* The signaling server reads the members of a room under a lock and sends to
  them after releasing it, through channels of four messages.
* A WebRTC transfer is two tasks that await each other's messages in a fixed
  order over one channel, with up to two PIN challenges in opposite directions.
* Between two devices, requests, answers and cancels cross: a cancel overtakes
  its request, an answer is lost after its effect, a late cancel meets another session.
* The signaling client passes a message through four tasks and three bounded
  channels; one that waits for a Dart callback holds up the others.
* Both sides of a nonce exchange write two maps, one after the other.

What makes each part correct: the receive server stores only what was
accepted, reports success only for what it stored, ends its session, and is
then free for others. The send provider ends each session, shows what is in
flight, and does not revive what was closed. A signaling client shows the
members of its room, and the room holds the connected ones. A WebRTC transfer
sends nothing before both sides agreed, and neither side is stuck or lost in
the dialogue. Web send serves an address it granted, in this web send. Sender and
receiver agree on what was sent, and neither waits for one that is gone without
a reason that can be named. The two nonce maps of a device belong together.

## 2. The modules

| module | models | checked with |
|---|---|---|
| `ReceiveController` | the receive server | `MCReceiveController` |
| `SendProvider` | the send provider | `MCSendProvider` |
| `Transfer` | a `SendProvider` and a `ReceiveController` over HTTP | `MCTransfer` |
| `WebSend` | sharing via a link | through `ServerService` |
| `ServerService` | `WebSend` and a `ReceiveController` on one HTTP server | `MCServerService` |
| `SignalingServer` | one room of the signaling server, and what the app makes of its messages | `MCSignalingServer` |
| `SignalingClient` | one connection to it, with the exchange of descriptions | `MCSignalingClient` |
| `FileTransfer` | abstract: what a WebRTC transfer promises | as a property of `RtcApp` |
| `RtcTransfer` | one transfer over an open WebRTC data channel | through `RtcApp` |
| `RtcApp` | `RtcTransfer` with the applications of both sides | `MCRtcApp` |
| `HttpV3` | client and server of the core | `MCHttpV3` |
| `ReceiveControllerProofs`, `SendProviderProofs`, `ServerServiceProofs`, `RtcProofs`, `HttpV3Proofs`, `SignalingClientProofs`, `SignalingServerProofs`, `TransferProofs` | theorems | TLAPS |

Composition: `Transfer` is `S == INSTANCE SendProvider` and `R == INSTANCE
ReceiveController` with the network between them; `ServerService` extends
`WebSend` by an instance of `ReceiveController`, which shares `online`; `RtcApp`
extends `RtcTransfer`, each of whose steps is a step of `RtcApp` with what it
reports. Refinement: `FileTransfer` <- `RtcTransfer` <- `RtcApp`;
`WebSend`, `ReceiveController` <- `ServerService`; and `SendProvider`, `ReceiveController` <- `Transfer`.

An operator whose comment starts with "Mutant of" is a plausible bug; it is used
nowhere in the specifications and shows that a property can fail.

### ReceiveController

`session` is `ServerState.session`, with an id of `None` for null. The id of a
session is the prepare-upload request that created it, for the code draws a
fresh UUID there. A token stands for the file and session it was drawn for, so
"has the right token" is `f \in session.tokens` in the session with id `s`.
`prep` and `upl` hold the requests in flight with a program counter each:

| action | code (`receive_controller.dart`) |
|---|---|
| `PinRejected`, `PrepareStart` | the null check of the session, `checkPin`, up to the first await (197-214) |
| `PrepareMalformed` | the body cannot be parsed (212-223) |
| `PrepareInstall` | the body is read: a session is built and set; quick save accepts at once (220-289, 404-431) |
| `PrepareOffline` | the server was stopped meanwhile, `getState()` throws |
| `acceptFileRequest`, `acceptMessage`, `declineFileRequest` | the decision of the user **and** what the waiting handler does with it: the stream resumes the handler in a microtask, before any other event |
| `closeCanceled`, `cancelSession` | the pages' "close" and "cancel" (864-908, `receive_page.dart` 302-325) |
| `PrepareRespond` | the answer, after the permission dialogs (450-482) |
| `UploadStart` | the checks of an upload and the file set to sending (484-578) |
| `UploadSaved`, `UploadFailed`, `UploadRecorded` | saving returned or threw, the history was written; then the status of the session and the answer (554-709) |
| `QuickSaveClose` | the zero-delay timer that closes a quick-save session (682-702) |
| `Cancel` | `_cancelHandler` (711-744) |
| `startServer`, `stopServer` | `server_provider.dart` 90-177 |

Two details matter. An upload that ends looks up *the session there is now*,
not the one it started in; when that is another one, `Map.update` throws for
the unknown file id inside the try block and again inside its catch block, and
the request is never answered (`pc = "dead"`). And `prepare-upload` sets its
session without looking again at what it checked two awaits before.

### SendProvider

`sessions` is the notifier's map, with `NoSession` for a missing key. `co` is
the coroutine of `startSession` with the queue of its send loop, `task` the
uploads in flight and whether they belong to the loop or are a retry. An answer of a v1
receiver that cannot be read ends the coroutine and leaves the session waiting (`Unreadable`). A worker
whose upload ends takes its next file, or ends the loop, in the same action,
since nothing is awaited in between. `CancelRequest` is the second half of the
receive server's cancel route (745-788), which a receiver's cancel reaches.

### Transfer

The two modules as they are, with one request and one session id per send session
and the n-th upload of a file as the upload `<<s, f, n>>` of the receiver. What is added
is the network. A prepare-upload request arrives, is refused with 409, is
answered, or its connection breaks before or after the receiver took it
(`PrepareBroken`); an upload arrives late, is refused, answered or broken; a cancel of the sender
carries the session id if the sender knows one by then, and arrives, is refused or
lost (`CancelArrives`, `CancelRefused`, `CancelLost`); so does the notice of a
receiver that cancels (`NoticeArrives`, `NoticeLost`). A cancel without an id is about
whatever the receiver is being asked, as in `receive_controller.dart` 726.

`forsaken` is a history: the sessions the sender's device left without the
receiver's knowledge. Its assignments are the list of causes: `clearAllSessions`; closing a
session with failed or retried files; a background session that closes itself over
a retry; a prepare-upload request whose connection broke; a cancel that was lost,
that had no id and was refused, or that met another session. `LeftAlone` says that
there is no other way to leave a receiver waiting for a sender that is gone.

### WebSend and ServerService

`page` is the stage of `web_send_page.dart` and what it keeps over a restart
(`autoAccept`, `pin`); `web` is `ServerState.webSendState` with a session per address;
`ask` holds the prepare-download requests, `served` who downloaded in this web send.

| action | code |
|---|---|
| `Open`, `Restart`, `Leave`, `startFails` | `web_send_page.dart`: the page stops the server and starts it with or without a web send state |
| `startServer`, `stopServer` | `server_provider.dart` 90-177, `initializeWebSend` |
| `setWebSendAutoAccept`, `setWebSendPin` | the switches of the page |
| `PinRejected`, `prepareDownload` | `send_controller.dart` 84-191: PIN, session, question |
| `respondRequest` | the user's answer and the handler that resumes |
| `download` | `send_controller.dart`, the download route |

A request of an address replaces the session of an earlier one, accepted or not;
the handler of the earlier one then waits for ever. `AnswersReach` names that as the only case:
`after` is a history, the requests that had come before this one, so that only a *later* request of
the address (`Overtaken`) excuses one that waits in vain. When the port is taken, the page shows the error, or that it is stopping, and cannot
be left any more.

`ServerService` puts both controllers on one server: starting and stopping act on
both, everything else on one. Its senders give the right PIN and speak 2.1; the
others are in `ReceiveController`.

### SignalingServer

A connection is a peer id with three tasks: `pc` follows `handle_socket`, `send` and `recv`
the two tasks it spawns after Hello. `outbox` is what `handle_socket` ("socket") and the
receive task ("receive") have yet to put, each in the order of the code and beside the
other; `Put` waits while the channel is full; `chan` is the channel, drained by the send task and
dropped with it. Messages are put after the lock is released, to the members read under it, in any
order of a hash map. When one of the spawned tasks ends, `handle_socket` aborts the other and does
not wait for it (231-246): one that waits is dropped, but one that a worker is just running
(`aborted`) goes on reading, putting and sending until it has to wait, while `handle_socket` unregisters
the peer and puts Left. `CutShort` are the connections whose receive task was aborted so.
`got` is what the app makes of the messages (`signaling_provider.dart` 114-165).
IP groups share nothing but the lock, so one room is enough.

### SignalingClient

    socket -> reader -> received (1) -> listener -> app (16) -> main -> Dart

Reader, listener, main task and writer are the tasks of `signaling.rs` and of
`connect` in `app/rust/src/api/webrtc.rs`, each with a program counter and the message it holds.
`Main` awaits Hello, then the Dart callback `on_connection`, then forwards.
`Calling` are the offers and acceptances: put the offer, register the callback, wait.
The writer's timeout of 120 seconds ends a write that is under way in favour of a ping.
The server and the other peers are the environment; they send anything that
`SignalingServer` sends, before Hello, too.

### RtcTransfer

`snd` and `rcv` are the tasks that `send_offer` and `accept_offer` spawn once the
peers are connected; `pc` is the message a task awaits or has to send, and
`outcome` is what became of the function around it. There is one action for each
message that is awaited and each question to the application:

| action | code (`core/src/webrtc/webrtc.rs`) |
|---|---|
| `SendNonce`, `ReturnNonce`, `SendToken` | the nonce exchange (230-264, 676-693) |
| `TokenRequest`, `TokenResponse` | the tokens are verified, a PIN is announced (266-296, 697-733) |
| `SenderPin`, `SenderPinResult`, `VerifySender` | the receiver's PIN: `handle_pin` and `verify_pin` (1110-1226) |
| `Challenge`, `SenderStatus`, `ReceiverPin`, `VerifyReceiver` | the sender's PIN, and the file list that is the answer to the right one (327-396, 772-834) |
| `Select`, `Decline`, `ListResponse` | the selection of the user (836-880, 400-498) |
| `SendFile`, `NoMoreFiles`, `LastResponse` | the loop over the files, the delimiter, the last response (502-560) |
| `FirstHeader`, `FileData`, `FileEnds`, `FileStatus` | the loop of the receiver and the verdict of its application (883-1000) |
| `ReceiverConfused` | a message that does not parse |
| `SenderReturns`, `ReceiverReturns`, `Disconnected` | the two `select!`, closing, and the state callback (602-625, 1027-1048, 1066-1073) |

A message in chunks up to its delimiter is one message. The WebRTC library is
taken as the code uses it: the channel is reliable and ordered, a disconnect may
come at any time and lose any tail of what is under way, closing may lose what
was not waited for (`wait_buffer_empty`), and sending over one's own closed
connection fails. PINs are not empty (`verify_pin` takes an empty PIN as entered),
`max_tries` is at least one, and a file has one piece of data. The application
reads its channels and reports each file once. A PIN that is not parsed
as JSON, and other messages that only a foreign peer would send, do not occur:
`Understood` is the statement that the two functions here never send them.

### FileTransfer and RtcApp

`FileTransfer` has three variables: what is selected (once), what is sent (of the
selection, once each), what is received (of what was sent). `RtcTransfer` refines it with
`selection <- rcv.selection, sent <- snd.sent, received <- rcv.bodies`.

`RtcApp` adds a `Controller` per side: the status channel of one, whether the
application listens, where a request for a PIN is, and what its task has still to report
(`due`): the last status of one that ends, before the error of the function, or that a PIN is
required, which the receiver reports after the token reply that says so. A PIN that is given before the request for it is
stored fails, and the application gives it again. A task that reports waits for room,
so every step of `RtcTransfer` that reports has this as one more guard. `Bridge` chooses how
the sender's application calls: directly, or through the generated bridge, where
`listen_status(&mut self)` holds the lock of the controller while statuses come.

### HttpV3

A server runs an IPv4 and an IPv6 listener until it is told to stop or the first of them
ends; connections it accepted live on. A call goes through `ClientSends`,
`Accept`, `Handle`, and, for a nonce, `SaveNonce`, `GenerateNonce`, `Response`,
`StoreReceived`, `StoreGenerated`. The handler holds the lock of the first map while it
writes the second, and so does the client. A handler that goes on after its client has failed is
a call that breaks off on its way back. The maps are sequences of entries,
most recent first, of at most `MapSize`; a nonce is the call that made it. `muddled`
is a history: the pairs of devices whose exchanges overlapped or failed half-way,
which cannot be expected to agree. A client has maps of its own, so a program that is
both counts as two devices (`RolesAssumption`). `Tls` is the set of servers with a TLS configuration, which know a client by the key of its certificate and
not by its address. The v2 paths lead to register if
`Legacy`; no other v3 route exists in the server.

## 3. What the runs show

| run | instance | result |
|---|---|---|
| `receive_safety` | two senders (one on quick save, one v1, PIN set), two files, two racing requests, two uploads, stops and restarts | `ConsentBeforeData`, `SendingHasWork`, `FinishedMeansSaved`, `OkMeansSaved`, `EndIsFinal` hold |
| `send_safety` | two sessions, two files, one isolate, one v1 and one v2 receiver, retries, fairness | `InFlightIffSending`, `SendingHasWork`, `NoUploadAfterEnd`, `EndIsFinal`, `LoopEnds` hold |
| `transfer` | two sessions of one file, or one session of two files with two tries, foreground and background; fairness (272 000 states) | `SentMeansSaved`, `CancelIsPrecise`, `LeftAlone`, `StopsSending` hold |
| `server_service` | six kinds of traffic: two uploads of one transfer, two transfers, a transfer beside two browser requests, a transfer the user is asked about, two browsers, three requests of one browser; fairness (658 000 states) | `ConsentBeforeDownload`, `AnswersReach`, `QuickSaveReleases` hold |
| `signaling_room` | three connections for two places, channels of two, one request per hour, three messages under way (2.1 million states) | `QuietViewExact`, `LeftIsFinal` hold |
| `signaling_client` | a notice, an offer, an incoming offer, app channel of one; fairness | `NothingLost`, `PutIsWritten`, `ConnectReturns`, `CloseEnds`, `AnsweredInTime` hold |
| `rtc_app` | two files, two tries, each side with or without a PIN, no bridge; fairness | `ConsentBeforeFiles`, `NoMutualWait`, `Understood`, `ResultMeansReceived`, `ImplementsFileTransfer`, `ErrorIsLast`, `PinProceeds`, `TransferEnds` hold |
| `http_v3` | three clients, two of them behind one address, a server with TLS and one without, two calls of a nonce, a cancel or an old upload, maps of one (2.4 million states) | `PairsMatch`, `OrderlyPairsAgree` hold |
| `receive_session_not_replaced` | two requests of one sender | **violated** |
| `send_finished_means_sent` | one session of two files | **violated** |
| `signaling_hello_is_sent` | two connections, channels of four, fairness | **violated** |
| `rtc_pin_proceeds` | one file, the sender's application behind the bridge, fairness | **violated** |

Each passing run of a module with variables of its own also checks the module's `TypeOK`,
except those that `transfer` and `server_service` take from their components, where the
larger runs leave it out.

The four violations are disagreements between the code and what it says:

* **A session is replaced** (`receive_controller.dart` 198 "block incoming
  requests when we are already in a session"). The check is at the start of
  the handler, the session is set after three awaits (234). Two senders that
  ask at the same moment both pass; the second session overwrites the first,
  whose handler waits for a decision that can no longer come.
* **Finished with files unsent** (`session_status.dart` 9 "all files sent").
  `_finish` looks for failed files only. When the loop ends while a retry of a
  failed file is in flight, the session becomes finished, cannot be retried,
  and stays finished when the retry fails.
* **A greeting that never comes** (`signaling.rs` 22 "the initial message sent
  to the client that has just connected"). `handle_socket` registers the peer
  and then puts its Hello into the peer's own channel of four, which nobody
  drains yet. When four messages of others come first, it waits for ever, the
  peer stays in the room, and whoever writes to it waits too.
* **A PIN that cannot be given** (`webrtc.rs` 147 "PIN is required to proceed.").
  `RTCSendController::listen_status` takes `&mut self` (`api/webrtc.rs` 254), so
  the bridge holds the write lock of the controller as long as statuses come
  (`frb_generated.rs` 1080). The application learns from that stream that a PIN
  is required; its call of `send_pin` needs a read lock and waits for ever.

The models show two more, which the properties allow for and no run counts as a violation:

* A receive task that is aborted while a worker runs it (`ws_controller.rs` 238) has read the members
  under the lock and may put its Update after `handle_socket` has unregistered the peer and put Left; the
  other client then shows a peer that is gone, and nothing removes it. `LeftIsFinal` and
  `QuietViewExact` except the connections that were `CutShort`, and no others: without that
  exception TLC finds this behaviour.
* `handle_pin` reports that a PIN is required before it makes the request for it
  (`webrtc.rs` 1119), which then passes a channel and a task. An application that answers at once gets the error
  "Pin already sent" (`api/webrtc.rs` 280, 349) although it sent none; the transfer goes on only if it gives the PIN
  again, which the fairness of `rtc_app` assumes.

### Bounds and why they are enough

Every bound is a constant of the instance, except the limit of three wrong
PINs, which is the code's. Two prepare-upload requests are enough for
one to be overtaken by another at each await; two uploads are the same file
twice (a retry) or two files, in one session or in two; the second request
gives an upload of an old session a new session to end in. Two files for one worker
let it take a second file while a retry of the first one runs. `Transfer` and
`ServerService` choose the bounds of a behaviour in its initial state (`Bounds`), since each
question needs only some of the actors: two sessions of one file make a cancel
meet another session, two tries of two files make a session close over a retry; a
second browser request of one address replaces the first, a third comes after one that was
answered or replaced, and two addresses show that a grant is not shared. In the room, two places for three connections make one
be turned away and another come after a leave; a channel of two blocks at the
third message, a channel of four (the run of the greeting) at the fifth. The limit of requests bounds
the clients; the hourly reset makes the number of messages in a
behaviour unbounded, and the room's run explores the states with at most `Capacity + 1` messages under way
(`FewUnderWay`): one channel full and one message that waits for room in it, or that is put after
its sender has left. The client's channel between listener and main task
has one place instead of 16, so that it is full early. Two offered files have selections of
none, one and all of them, and two tries a first and a last wrong PIN. Maps of
one nonce evict at the second client, and on the client at the second server; two calls
are two exchanges of one pair, one after the other or at once, or one of each of two pairs
that share a device. The server without TLS knows three clients by two addresses, so that
one entry is written for two of them and a third one has its own. Symmetry is used only where no liveness is checked,
among values that differ in nothing.

### Fairness

* `QuickSaveClose` of `server_service`: weakly fair, for the Dart event loop runs every due timer.
  Nothing else of the receive server is: a user need not decide and
  a connection has no timeout.
* `UploadEnds` of `send_safety`: an upload isolate reports success or an error. `LoopEnds` relies
  on it and on nothing of the user or the receiver's session.
* `transfer`: uploads arrive and are answered, and the handlers of the receiver go
  on. Prepare-upload requests, cancels and notices may take for ever.
* Signaling server: tokio runs every task that can run, and sockets take what is
  written. Clients and the hourly reset are not fair.
* Signaling client: its four tasks and the calls are fair; the server, the other
  peers and the timeout of the writer are not.
* `rtc_app`: the tasks and functions are fair, and the applications do their part: they
  listen, give some PIN when asked, again when `send_pin` has failed, and select. A disconnect is not fair. `TransferEnds` leaves
  out a transfer in which one side failed: it keeps the connection open, and the other waits.

`CHECK_DEADLOCK FALSE` is used where the system may stop: all sessions done, all
connections gone, all calls made, both tasks ended. The receive server always has something to do.

## 4. What is proved

`ReceiveControllerProofs` proves, for any sets of peers, files and requests and
any settings, from `NoneAssumption` (`None` is no request and no peer) and
`SettingsAssumption` (the settings are about peers):

* `TypeCorrect`: `Spec => []TypeOK`. It includes that a peer is never counted
  beyond three wrong PINs.
* `ConsentCorrect`: `Spec => []ConsentBeforeData`. A file is only taken in a
  session of the peer that asked, and only if it was accepted for that very
  request. The property is not inductive: nothing in it says that the
  session's handler still stands where it was when it set the session, nor that
  a request that has not been answered has granted nothing. `ConsentInv` adds
  both: `SessionOwner` (the session's request is past reading and has the
  session's sender and tokens), `Ungranted` (a request before its answer has
  granted nothing), `UploadConsent`. Its preservation goes through three frames
  (`SessionFrame`, `PrepareFrame`, `UploadFrame`): most steps change at most one
  of the three, and what they keep of it is the argument.
* `AnswersCorrect`: `Spec => []OkMeansSaved`. The answer is decided by the status
  the session *now* shows for the file. `SavedInv` adds that a handler that waits
  for the history has saved its file, and that one that has not started has not.
* `FinishedCorrect`: `Spec => []FinishedMeansSaved`. `FinishedInv` says that a
  file the session shows as finished was saved by an upload of that session, and
  that no accepted file is shown as skipped or absent; so "no file failed and all
  ended" does mean all accepted ones were saved. It needs that a session id
  is never used twice (an upload of an older session must not count), which
  `ConsentInv` gives.
* `EndCorrect`: `Spec => EndIsFinal`, directly from `TypeOK`.
* `SendingWorks`: `Spec => []SendingHasWork`, with `WorkInv`: what is no session is the
  one value `NoSession`, and a session in progress has a file left or an upload
  that runs. The case that needs an argument is an upload that
  ends in another session than it began in.

`SendProviderProofs`, for any finite set of files (`FilesAssumption`), any sessions,
receivers and number of isolates:

* `SendTypeCorrect`, `InFlightCorrect`, `SendingWorks`: `TypeOK`, `InFlightIffSending`,
  `SendingHasWork`. They are parts of one invariant `Local`, said of each session
  alone, because no step of a session touches another one: its type; nothing runs before the answer (`BeforeAnswer`); the
  loop counts its own uploads and no retries (`LoopUploads`); what is shown as
  sending is in flight and the reverse (`Shown`); and a session in progress has work (`HasWork`).
* `EndedStaysEnded`, `NoLateUpload`: `EndIsFinal`, `NoUploadAfterEnd`, from it.

`ServerServiceProofs`, for any number of browsers, senders and requests:

* `WebTypeCorrect`, `ConsentToDownload`, `AnswersCorrect`: `TypeOK`,
  `ConsentBeforeDownload` and `AnswersReach` of `WebSend`. The invariant `IInv` adds that
  no granted request came without the PIN that was set, that there is a web send state only while the
  server is online, that nobody waits at a stopped server, and that each session refers to a
  request of its own address (`Refers`). A request that waits and is no longer the one its address is
  asked about has been followed by another one of that address, and that stays so.
* `ServiceImplementsWebSend`, `ServiceImplementsReceive`: `ServiceSpec => Spec` and
  `ServiceSpec => R!Spec`: each step of the server with both controllers is a step
  or a stutter of each controller. What is proved of a controller alone so holds for
  the server, `ServiceConsentToDownload` for one.

`RtcProofs`, for any files and up to 255 tries, with and without the bridge:

* `RtcTypeCorrect`, `AppTypeCorrect`: the type invariants.
* `RtcImplements`: `Spec => ImplementsFileTransfer`. The refinement needs that the sender's
  files are among the receiver's selection and are only sent after it, also while both
  are in messages on their way, and that a received file was sent.
* `AppImplementsTransfer`, `AppImplementsPromise`: `AppSpec => Spec`, and so
  `AppSpec => ImplementsFileTransfer`: the applications, their channels and locks
  add waiting and no new behaviour.
* `ConsentCorrect`, `NoMutualWaitCorrect`, `UnderstoodCorrect`:
  `ConsentBeforeFiles`, `NoMutualWait`, `Understood`. None of them is inductive, for each depends on
  which messages are under way at each pair of places. `Dialogue` describes that: until
  the selection the tasks take turns, with at most one message under way, and the two places tell
  which one (`Nonces`, `Tokens`, `SenderChallenged`, `ReceiverChallenged`, `Listed`, or one
  side is gone with its last word); a message can only be missing if the connection is not open.
  In `FilesPhase` both have given the PINs they were asked for, each header is followed by its data,
  a receiver that began a file has its data next, and the delimiter is still to come
  while the sender waits for the last response. Each step is shown to lead from turn to turn; losses and
  disconnects keep every turn (`LossKeeps`).
* `ResultsCorrect`: `ResultMeansReceived`, with `Verdicts`: a verdict of success is about a file whose
  data was given, and so is every success under way. `Dialogue` gives
  the step that needs it: when a file's data has been read to its end, it was given.
  All four hold of the transfer with its applications too, by `AppImplementsTransfer`.
* `ErrorIsTheLast`: `AppSpec => ErrorIsLast`: a task that still has a status to report keeps the
  error of its function waiting.

`HttpV3Proofs`, for any devices, calls and size of the maps, from `RolesAssumption`:

* `MapsInStep`: `Spec => []PairsMatch`. `PairInv` says that at most one call of a device is between
  the two writes (`OneBetween`, the lock) and that the second map lags by just that
  write (`OneBehind`). What the LRU map does with an entry plays no part.
* `HttpTypeCorrect`: the type invariant; a map never holds more than `MapSize` entries.
* `OrderlyPairsCorrect`: `Spec => []OrderlyPairsAgree`. Here a put matters: it moves the entry
  of its key to the front, keeps the others in their order, or drops the last one of a full map
  (`TouchedEntries`, `TouchedFacts`, `KeptFacts`). `AgreeInv` adds that a map has one entry per key
  (`UniqueKeys`), that an orderly pair has one exchange at a time (`OneExchange`), and what the two maps
  hold while its nonce is on the way back (`WayBack`) and when none is (`AtRest`).
  The client's map evicts as the server's does, when it meets more servers than it holds;
  so the property excepts an eviction on either side.

`SignalingClientProofs`, for any notices, offers and incoming offers and any capacity
of the application's channel (`CapacityAssumption`):

* `ClientTypeCorrect`: the type invariant.
* `ClientLosesNothing`: `Spec => []NothingLost`. The messages shown, in the application's
  channel, with the listener, in its channel, with the reader and in the socket make up
  `Stream`; each step moves the head of one part to the end of the part before it, adds what
  the server sends at the end, or cuts off the end when the socket closes. For that
  `Hands` says that a task that waits for its next message holds none, and that an
  ended reader has emptied a closed socket.
* `ClientWritesAll`: `Spec => []PutIsWritten`; `Waiting` says that a callback is that of an
  offer that waits.

`SignalingServerProofs`, for any connections, limits and capacity of the channels
(`LimitsAssumption`):

* `RoomTypeCorrect`, `LeftIsTheLast`, `ViewsCorrect`: `TypeOK`, `LeftIsFinal`, `QuietViewExact`.
  `RoomInv` is about pairs of connections. A task tells only of its own connection, and what it tells
  fits its place (`Own`, `Registered`, `Stages`), so a Left message under way means that its connection is gone
  (`LeftMeansGone`), and nothing about it can follow but what a receive task puts that was cut short. For a client that is greeted first there is one
  Hello (`OneHello`), every other member is shown, in its channel, or still to be told by that member's
  task (`MembersListed`), one that left, and was not cut short, is unknown or its Left is still to come (`OthersForgotten`),
  and nobody is told of itself (`SelfUnlisted`). When nothing is under way, what is left of
  these three is `QuietViewExact`.

`TransferProofs`, for any sessions, finite set of files and number of tries, from
`TransferAssumption` (which values the bounds are taken from), `NoneAssumption` and `FilesAssumption`:

* `TransferImplementsSending`, `TransferImplementsReceiving`: `Spec => S!Spec` and `Spec => R!Spec`: each
  step of the two devices is a step or a stutter of either module. What is proved of
  `SendProvider` and `ReceiveController` alone, for any network, is so known of the two
  (`FactsHold`, `ReceiverKnown`), and the rest of the proof is about how they relate.
* `TransferTypeCorrect`: the type invariant.
* `SentCorrect`: `Spec => []SentMeansSaved`. The answer 200 means that the receiver saved the upload
  (`OkMeansSaved` of the receiver), and nothing else makes a file finished at the sender.
* `CancelCorrect`: `Spec => []CancelIsPrecise`. `Canceling` says that a cancel request is of a session the
  sender has forgotten, under no id or its own; `Awaited` that a session that was accepted does not wait any
  more, so that a cancel without an id cannot meet it.
* `LeftAloneCorrect`: `Spec => []LeftAlone`. `GoneSettled` says that a session that the sender has forgotten,
  and that is not in `forsaken`, is told of by a cancel request under way or has nothing left to wait
  for at the receiver (`Settled`). A receiver that still waits for a file has had no upload of it and has
  granted it (`Awaited`), while a file of which the sender knows the fate was saved or was
  not granted (`Answered`): so a session closed with all files sent or skipped is settled. The receiver's
  `SendingHasWork` closes the argument: a session that sends with nothing queued has an upload
  that runs, and then the sender's part is not over.

TLC has checked the inductive invariants of the receive server, the send provider,
web send, the WebRTC dialogue, the core's maps and exchanges, the room of the signaling server and
the transfer on instances like those of the runs.

Only model-checked: liveness (`QuickSaveReleases`, `LoopEnds`, `StopsSending`, `ConnectReturns`,
`CloseEnds`, `AnsweredInTime`, `PinProceeds`, `TransferEnds`), which needs ENABLED and is
out of the prover's reach. Every invariant and every action property that a passing run checks has
its theorem. No module uses a recursive operator or induction over data.

## 5. What is not modelled

* Receive server: the info, register and show routes (they read, or only
  touch discovery), the save-path settings of a session, progress and speeds,
  names and paths of files, the contents of the history, certificates. A message
  page of an orphaned handler that stays open is taken as closed with its session.
* Send provider: the selection of files that closing a finished session clears,
  progress, error texts.
* Transfer: a device that sends and receives at once. Its cancel route and the
  progress page (`progress_page.dart` 159) ask for whichever session there is; this is
  listed as a hazard without a property.
* Web send: the static pages and the streaming of a file, which change no state.
* Signaling: what the app still shows after its own connection has ended, of which nothing in the
  repository says what it should be (`got` ends with the connection); the contents of client infos; the lock beyond its critical
  sections; groups of other addresses; an update of the own info by the client, which is one more message to the writer.
* WebRTC transfer: pairing, for `accept_offer` never asks for it; the error streams, which nothing
  waits for; `RTCStatus::Sending`, which is never reported; a timeout of an offer that waits for
  its answer, since the code has none (`AnsweredInTime` and `CloseEnds` are stated around that). An error of one side
  leaves the connection open until the caller drops it: the other
  side waits, which `NoMutualWait` and `TransferEnds` do not count.
* Core: signatures, tokens and certificates are a verdict that is either good or bad.
  `core/src/main.rs` is a sample program. The state for web pages of the v3 server is never set.
  A server does not come back with empty maps: the code keeps the maps with the server it started, a
  client that meets another one at the same address has the nonces of the old one, and no
  agreement could be stated between them. To everything else such a server is another element of `Servers`.
* Discovery, isolates and task runner: see the plan. Settings, history and favorites are
  read-modify-writes of preferences, and constants of the models. Uyava, user interface,
  translations, platform code and packaging hold none of the state above.

## 6. Plan

1. `NearbyDevices` and `TaskRunner`: scans over worker pools that are restarted while
   they run, with devices found by several of them.
2. A device that sends and receives at once: `Transfer` with both providers on both
   sides, and the page that decides what a cancel is about.
3. Theorems about steps: that a file saved for a session is not asked for again, that the messages of
   a connection reach a room's members in the order they were put, and the safety half of the liveness
   properties (what a fair step of each task does).
