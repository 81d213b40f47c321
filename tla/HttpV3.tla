------------------------------- MODULE HttpV3 --------------------------------
(***************************************************************************)
(* The HTTP server and client of the core, protocol v3: src/core/src/http. *)
(*                                                                         *)
(* A server runs two listeners, IPv4 and IPv6, until the first of them     *)
(* ends or it is told to stop; its connections live on.  Of the v3 routes  *)
(* it has the nonce exchange and register; the v2 routes all lead to       *)
(* register, and only with legacy_enabled.  The client has all v3 calls.   *)
(*                                                                         *)
(* In an exchange the client and the server each make a nonce and keep     *)
(* both: the one received and the one generated, each in an LRU map under  *)
(* the identifier of the other side.  A nonce of an exchange is written as *)
(* the call that made it, so the two maps can be compared entry by entry.  *)
(***************************************************************************)
EXTENDS Naturals, Sequences, FiniteSets, SequencesExt

CONSTANTS
    Clients,        \* the devices that call the server
    Servers,        \* the devices that run a server
    Calls,          \* the calls of all clients
    Paths,          \* what they call
    Tls,            \* the servers that were started with a TLS configuration
    SharedIp,       \* the clients that share one IP address
    Legacy,         \* legacy_enabled
    MapSize         \* of every LRU map: 200

\* A client has maps of its own, so it is a device of its own here, also when
\* one program is both.  "sharedIp" stands for an address.
ASSUME RolesAssumption == Clients \cap Servers = {} /\ "sharedIp" \notin Clients

ASSUME SettingsAssumption ==
    /\ Tls \subseteq Servers /\ Legacy \in BOOLEAN
    /\ SharedIp \subseteq Clients
    /\ MapSize \in Nat \ {0}

VARIABLES
    listening,      \* the state of both listeners of every server
    running,        \* the servers whose task runs
    open,           \* the connections in the pools of the clients
    call,           \* the calls, at the client and at the server
    maps,           \* received_nonce_map and generated_nonce_map of every device
    muddled         \* history: the pairs whose exchanges overlapped or failed

vars == <<listening, running, open, call, maps, muddled>>

-----------------------------------------------------------------------------
(* LRU maps: sequences of entries, the most recent first. *)

Address == Clients \cup Servers \cup {"sharedIp"}

Entry == [key: Address, nonce: Calls]

\* The place of key in map.
Place(map, key) == CHOOSE i \in DOMAIN map : map[i].key = key

Has(map, key) == \E i \in DOMAIN map : map[i].key = key

\* Mutant of FreePlace: the map has no limit.
FreePlaceUnbounded(map, key) == IF Has(map, key) THEN Place(map, key) ELSE Len(map) + 1

\* The place that a put of key makes free: that of its old entry, a new one at
\* the end, or the last one of a map that is full.
FreePlace(map, key) ==
    IF Has(map, key) THEN Place(map, key)
    ELSE IF Len(map) < MapSize THEN Len(map) + 1 ELSE MapSize

\* LruCache::put: the new entry is the first, those before the free place move on.
Touched(map, key, nonce) ==
    LET free == FreePlace(map, key) IN
    [i \in 1..(IF free > Len(map) THEN free ELSE Len(map)) |->
        IF i = 1 THEN [key |-> key, nonce |-> nonce]
        ELSE IF i <= free THEN map[i - 1] ELSE map[i]]

Empty == [received |-> <<>>, generated |-> <<>>]

-----------------------------------------------------------------------------
(* Identifiers, routes and status codes. *)

Ip(c) == IF c \in SharedIp THEN "sharedIp" ELSE c

\* Mutant of identifier: all clients are known by one address.
identifierShared(c, s) == IF s \in Tls THEN c ELSE "sharedIp"

\* Of a client at server s: the public key of its certificate, or its address.
identifier(c, s) == IF s \in Tls THEN c ELSE Ip(c)

\* What the client calls, and the old paths that others call.
v3Paths == {"nonce", "register", "prepare-upload", "upload", "cancel"}
v2Paths == {"v2/register", "v2/prepare-upload", "v2/upload", "v2/cancel"}

ASSUME PathsAssumption == "nonce" \in Paths /\ Paths \subseteq v3Paths \cup v2Paths

\* Where a request goes.
Handler(path) ==
    IF path = "nonce" THEN "nonce_exchange"
    ELSE IF path = "register" \/ (Legacy /\ path \in v2Paths) THEN "register"
    ELSE "not_found"

\* Statuses of a response: collect_to_json and the checks of the nonce answer
\* 400, a body that breaks off answers 500.
Statuses == {200, 400, 404, 500}

\* A call: waiting to be sent, under way, at the server, on its way back, being
\* saved by the client, over.  The maps are only written at save and generate.
CallPc == {"idle", "sent", "accepted", "save", "generate", "reply", "store", "storeGenerated",
           "ok", "failed"}

CallState ==
    [pc: CallPc, client: Clients, server: Servers, path: Paths, status: Statuses]

Init ==
    /\ listening = [s \in Servers |-> [v4 |-> "binding", v6 |-> "binding"]]
    /\ running = Servers
    /\ open = {}
    /\ call \in [Calls -> [pc: {"idle"}, client: Clients, server: Servers, path: {"nonce"},
                           status: {200}]]
    /\ maps = [d \in Clients \cup Servers |-> Empty]
    /\ muddled = {}

-----------------------------------------------------------------------------
(* The listeners: start_with_port and start_server_with_addr. *)

\* Does the end of this listener end the select of start_with_port?  The other
\* one sleeps for ever.
Decides(family) == family = "v4"

ListenerEnds(s, family, ok) ==
    running' = IF ~ok /\ Decides(family) THEN running \ {s} ELSE running

ListenerBinds(s, family, ok) ==
    /\ s \in running /\ listening[s][family] = "binding"
    /\ listening' = [listening EXCEPT ![s][family] = IF ok THEN "listening" ELSE "failed"]
    /\ ListenerEnds(s, family, ok)
    /\ UNCHANGED <<open, call, maps, muddled>>

\* accept() returns an error.
AcceptFails(s, family) ==
    /\ s \in running /\ listening[s][family] = "listening"
    /\ listening' = [listening EXCEPT ![s][family] = "failed"]
    /\ ListenerEnds(s, family, FALSE)
    /\ UNCHANGED <<open, call, maps, muddled>>

\* stop_rx: a message, or its sender is dropped.
Stop(s) ==
    /\ s \in running
    /\ running' = running \ {s}
    /\ UNCHANGED <<listening, open, call, maps, muddled>>

-----------------------------------------------------------------------------
(* The client sends. *)

Go(r, pc) == call' = [call EXCEPT ![r].pc = pc]

UnderWay == {"sent", "accepted", "save", "generate", "reply", "store", "storeGenerated"}

Pair(r) == <<call[r].client, call[r].server>>

\* Exchanges of this pair of devices, one of which is call r.
Overlapping(r) ==
    {other \in Calls \ {r} :
       Pair(other) = Pair(r) /\ call[other].path = "nonce" /\ call[other].pc \in UnderWay}

\* History: muddled if r is an exchange and something is wrong with it.
Muddle(r, path, wrong) ==
    muddled' = IF path = "nonce" /\ wrong THEN muddled \cup {Pair(r)} ELSE muddled

ClientSends(r, path) ==
    /\ call[r].pc = "idle"
    /\ call' = [call EXCEPT ![r].pc = "sent", ![r].path = path]
    /\ Muddle(r, path, Overlapping(r) # {})
    /\ UNCHANGED <<listening, running, open, maps>>

\* The request comes over a new connection or one of the pool; the handshake
\* asks for a certificate of the client and checks it.
Accept(r, ok) ==
    /\ call[r].pc = "sent"
    /\ \/ Pair(r) \in open /\ ok
       \/ /\ call[r].server \in running
          /\ \E family \in {"v4", "v6"} : listening[call[r].server][family] = "listening"
    /\ Go(r, IF ok THEN "accepted" ELSE "failed")
    /\ open' = IF ok THEN open \cup {Pair(r)} ELSE open
    /\ UNCHANGED <<listening, running, maps, muddled>>

\* No connection is made, or it breaks off.  A handler that waits for a body or
\* for a lock may be dropped with it; one that holds the lock is not interrupted,
\* because it never has to wait for the second one.  (A handler that goes on when
\* the client has failed is a call that breaks off with its reply: until then the
\* pair is not quiet, and another exchange of it overlaps.)
Broken(r) ==
    /\ call[r].pc \in {"sent", "accepted", "save", "reply"}
    /\ Go(r, "failed")
    /\ open' = open \ {Pair(r)}
    /\ Muddle(r, call[r].path, call[r].pc = "reply")
    /\ UNCHANGED <<listening, running, maps>>

-----------------------------------------------------------------------------
(* The server answers. *)

Reply(r, status) == call' = [call EXCEPT ![r].pc = "reply", ![r].status = status]

\* handle_request: good says that the body is there, can be parsed and, for a
\* nonce, has a length between 16 and 128.
Handle(r, status) ==
    /\ call[r].pc = "accepted"
    /\ CASE Handler(call[r].path) = "not_found" -> status = 404 /\ Reply(r, status)
         [] Handler(call[r].path) = "register" -> status # 404 /\ Reply(r, status)
         [] Handler(call[r].path) = "nonce_exchange" ->
              /\ status # 404
              /\ IF status = 200 THEN Go(r, "save") ELSE Reply(r, status)
    /\ UNCHANGED <<listening, running, open, maps, muddled>>

\* Mutant of Locked: the lock is released after the first map.
LockedNever(r) == FALSE

\* Is the lock of received_nonce_map held by another handler of this server?
Locked(r) ==
    \E other \in Calls \ {r} :
       call[other].server = call[r].server /\ call[other].pc = "generate"

\* Device d puts the nonce of call r into one of its maps.
Save(d, map, key, r) == maps' = [maps EXCEPT ![d][map] = Touched(@, key, r)]

\* nonce_exchange takes the lock of the first map, to the end, and saves the
\* nonce of the client.
SaveNonce(r) ==
    /\ call[r].pc = "save" /\ ~Locked(r)
    /\ Save(call[r].server, "received", identifier(call[r].client, call[r].server), r)
    /\ Go(r, "generate")
    /\ UNCHANGED <<listening, running, open, muddled>>

\* The nonce of the server goes into the second map and into the response.
GenerateNonce(r) ==
    /\ call[r].pc = "generate"
    /\ Save(call[r].server, "generated", identifier(call[r].client, call[r].server), r)
    /\ Reply(r, 200)
    /\ UNCHANGED <<listening, running, open, muddled>>

-----------------------------------------------------------------------------
(* The client reads the response. *)

\* Mutant of Accepted: an error response is taken for an exchange.
AcceptedAlways(r, readable) == TRUE

\* nonce, register, prepare_upload and upload fail on another status than 200,
\* register because it cannot parse the error; cancel looks at nothing.  In TLS,
\* nonce, register and (with a key) prepare_upload check the certificate; these
\* three also parse the body.  readable says that both are fine.
Accepted(r, readable) ==
    \/ call[r].path = "cancel"
    \/ call[r].status = 200 /\ (readable \/ call[r].path = "upload")

Response(r, readable) ==
    /\ call[r].pc = "reply" /\ call[r].path \in v3Paths
    /\ Go(r, IF ~Accepted(r, readable) THEN "failed"
             ELSE IF call[r].path = "nonce" THEN "store" ELSE "ok")
    /\ Muddle(r, call[r].path, call[r].status = 200 /\ ~Accepted(r, readable))
    /\ UNCHANGED <<listening, running, open, maps>>

\* An old client, which is not in this repository.
OldResponse(r) ==
    /\ call[r].pc = "reply" /\ call[r].path \in v2Paths
    /\ Go(r, IF call[r].status = 200 THEN "ok" ELSE "failed")
    /\ UNCHANGED <<listening, running, open, maps, muddled>>

\* Mutant of ClientLocked: each map has its lock for itself.
ClientLockedNever(r) == FALSE

ClientLocked(r) ==
    \E other \in Calls \ {r} :
       call[other].client = call[r].client /\ call[other].pc = "storeGenerated"

\* The client saves both nonces under the lock of the first map, under the key
\* or the address of the server.
StoreReceived(r) ==
    /\ call[r].pc = "store" /\ ~ClientLocked(r)
    /\ Save(call[r].client, "received", call[r].server, r)
    /\ Go(r, "storeGenerated")
    /\ UNCHANGED <<listening, running, open, muddled>>

StoreGenerated(r) ==
    /\ call[r].pc = "storeGenerated"
    /\ Save(call[r].client, "generated", call[r].server, r)
    /\ Go(r, "ok")
    /\ UNCHANGED <<listening, running, open, muddled>>

-----------------------------------------------------------------------------
(* The specification. *)

Lifecycle(s) ==
    \/ \E family \in {"v4", "v6"}, ok \in BOOLEAN : ListenerBinds(s, family, ok)
    \/ \E family \in {"v4", "v6"} : AcceptFails(s, family)
    \/ Stop(s)

Serving(r) ==
    \/ \E ok \in BOOLEAN : Accept(r, ok)
    \/ \E status \in Statuses : Handle(r, status)
    \/ SaveNonce(r) \/ GenerateNonce(r)

Calling(r) ==
    \/ \E path \in Paths : ClientSends(r, path)
    \/ \E readable \in BOOLEAN : Response(r, readable)
    \/ OldResponse(r) \/ StoreReceived(r) \/ StoreGenerated(r)

Next ==
    \/ \E s \in Servers : Lifecycle(s)
    \/ \E r \in Calls : Serving(r) \/ Calling(r) \/ Broken(r)

Spec == Init /\ [][Next]_vars

-----------------------------------------------------------------------------
(* Properties. *)

Map == {m \in Seq(Entry) : Len(m) <= MapSize}

TypeOK ==
    /\ listening \in [Servers -> [{"v4", "v6"} -> {"binding", "listening", "failed"}]]
    /\ running \subseteq Servers
    /\ open \subseteq Clients \X Servers
    /\ call \in [Calls -> CallState]
    /\ maps \in [Clients \cup Servers -> [{"received", "generated"} -> Map]]
    /\ muddled \subseteq Clients \X Servers

\* A device has one entry per partner, and both of its maps have the same entries
\* in the same order, whenever none of its calls is between the two: the nonce
\* received and the one generated are of the same exchange, and are evicted
\* together.
PairsMatch ==
    \A d \in Clients \cup Servers :
       (\A r \in Calls : /\ call[r].server = d => call[r].pc # "generate"
                         /\ call[r].client = d => call[r].pc # "storeGenerated")
          => maps[d].received = maps[d].generated

\* The entries of map about a device.
About(map, key) == {e.nonce : e \in {x \in ToSet(map) : x.key = key}}

\* No exchange of this pair is under way.
Quiet(c, s) == \A r \in Calls : Pair(r) = <<c, s>> => call[r].pc \in {"idle", "ok", "failed"}

\* The nonce d keeps about a device is gone, because others took its place.
Evicted(map, key) == About(map, key) = {} /\ Len(map) = MapSize

\* A pair of devices whose exchanges went one after the other and all succeeded
\* agrees on the nonces of the last one, unless one of them has evicted them or
\* the client shares its identifier with another one.
OrderlyPairsAgree ==
    \A c \in Clients, s \in Servers :
       (Quiet(c, s) /\ <<c, s>> \notin muddled /\ (s \in Tls \/ c \notin SharedIp))
          => \/ About(maps[s].generated, identifier(c, s)) = About(maps[c].received, s)
             \/ Evicted(maps[s].generated, identifier(c, s)) \/ Evicted(maps[c].received, s)
=============================================================================
