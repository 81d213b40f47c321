---------------------------- MODULE ServerService ----------------------------
(***************************************************************************)
(* The HTTP server of a device with both of its controllers: sharing files *)
(* via a link (WebSend) and receiving them (ReceiveController), which have *)
(* the state of server_provider.dart and its start and stop in common.     *)
(*                                                                         *)
(* Senders give the right PIN and speak protocol 2.1 here; other ones are  *)
(* in ReceiveController.                                                   *)
(***************************************************************************)
EXTENDS WebSend

CONSTANTS
    Peers, Files, Prepares, Uploads, PinSet, QuickSavePeers, V1Peers,
    Bounds          \* senders, their requests, browsers and theirs, of a behaviour

ASSUME BoundsAssumption ==
    Bounds \subseteq [peers: SUBSET Peers, prepares: SUBSET Prepares, uploads: SUBSET Uploads,
                      addresses: SUBSET Addresses, requests: SUBSET Requests]

VARIABLES
    pinAttempts, session, prep, upl,    \* of the receive controller
    bound                               \* the bounds of this behaviour

receiving == <<pinAttempts, session, prep, upl>>
sharing == <<page, web, ask, served>>
serviceVars == <<online, sharing, receiving, bound>>

R == INSTANCE ReceiveController

ServiceInit == Init /\ R!Init /\ bound \in Bounds

-----------------------------------------------------------------------------
(* Starting and stopping drops the state of both controllers, but for a web  *)
(* send page that waits for the start.                                       *)

ServiceStops == stopServer /\ R!stopServer

ServiceStarts == startServer /\ R!startServer

Receive ==
    /\ \/ \E selection \in SUBSET Files : R!acceptFileRequest(selection)
       \/ R!acceptMessage \/ R!declineFileRequest \/ R!closeCanceled \/ R!cancelSession
       \/ \E r \in bound.prepares : \/ \E p \in bound.peers : R!PrepareStart(r, p, "right")
                                    \/ R!Prepare(r)
       \/ \E u \in bound.uploads :
             \/ \E p \in bound.peers, s \in Prepares, f \in Files : R!UploadStart(u, p, s, f)
             \/ R!Upload(u)
       \/ \E p \in bound.peers, s \in Prepares \cup {None} : R!Cancel(p, TRUE, s)
    /\ UNCHANGED sharing

QuickSaveClose(u) == R!QuickSaveClose(u) /\ UNCHANGED <<sharing, bound>>

Share ==
    /\ \/ PageStep
       \/ \E a \in bound.addresses : BrowserStep(a, bound.requests)
    /\ UNCHANGED receiving

ServiceNext ==
    \/ (ServiceStarts \/ ServiceStops \/ Receive \/ Share) /\ UNCHANGED bound
    \/ \E u \in Uploads : QuickSaveClose(u)

ServiceSpec == ServiceInit /\ [][ServiceNext]_serviceVars

\* The event loop runs its timers.
ServiceFairSpec == ServiceSpec /\ \A u \in Uploads : WF_serviceVars(QuickSaveClose(u))

-----------------------------------------------------------------------------
(* Properties. *)

\* A transfer of a quick-save peer that is over is closed in the end, also when
\* the server is restarted for web send, and the device takes requests again.
QuickSaveReleases == R!QuickSaveReleases
=============================================================================
