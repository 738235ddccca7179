---------------------------- MODULE Connections -----------------------------
(***************************************************************************)
(* The connections of go-bridge and the tables that list them: the direct   *)
(* WebSocket of server.go, the relay device connection of                   *)
(* relay_bridge_client.go, the Broadcaster and the PendingNotificationStore *)
(* of types.go and the DeviceConnRegistry of device_conn_registry.go.       *)
(*                                                                         *)
(* A direct connection has a goroutine of its own that registers it and then *)
(* reads and handles its requests one by one.  All relay connections share   *)
(* one read loop.  The ping goroutine, the heartbeat, a failed write of a    *)
(* broadcast and the revocation of the device close connections from outside *)
(* while a request is being handled.                                        *)
(***************************************************************************)
EXTENDS Integers, Sequences, FiniteSets

CONSTANTS
    Direct,     \* identities of direct connections, each used once
    Relay,      \* identities of relay device connections, each used once
    Devices,
    DeviceOf,   \* connection -> the device it authenticates as
    Keys,       \* the SubscriptionKeys in use
    Rebinds,    \* <<pending id, real id>> pairs the agents resolve
    NoDir,      \* the empty directory
    MaxPending, \* pending notifications kept per device (50 in the code)
    MaxTurns,   \* bound: turns that end
    None

Conns == Direct \union Relay

ASSUME ConnectionsAssumption ==
    /\ Direct \intersect Relay = {}
    /\ DeviceOf \in [Conns -> Devices]
    /\ None \notin Conns \union Keys
    /\ MaxPending \in Nat \ {0}
    /\ MaxTurns \in Nat
    /\ \A r \in Rebinds : r[1] # r[2]

Key(b, s, d) == [backend |-> b, session |-> s, dir |-> d]

Stages == {"absent", "authed", "mapped", "accepted", "registered", "serving", "exited"}

VARIABLES
    stage,      \* connection -> how far its goroutine has registered it
    closed,     \* connection -> Conn.closed
    cleanup,    \* direct connection -> onCleanup is set
    cleaning,   \* connections whose closer has yet to run the cleanup
    rpc,        \* connection -> the key its request is about to subscribe
    allConns,   \* Broadcaster.allConns
    subs,       \* Broadcaster.subscribers, as pairs <<key, connection>>
    connSubs,   \* Broadcaster.connSubs, as pairs <<connection, key>>
    registry,   \* DeviceConnRegistry.conns, all devices together
    relayMap,   \* RelayBridgeClient.devices: device -> connection or None
    revoked,    \* device -> "no", "stored" (RevokeDevice) or "done" (and DisconnectDevice)
    victims,    \* connections DisconnectDevice took and has yet to close
    bound,      \* the rebinds that have happened
    pending,    \* device -> PendingNotificationStore.items, turns by number
    turns,      \* number of turns that ended
    doomed,     \* relay connections a heartbeat found idle in its snapshot
    followed    \* history: <<device, backend, session>> ever subscribed

tables == <<allConns, subs, connSubs>>
vars == <<stage, closed, cleanup, cleaning, rpc, allConns, subs, connSubs,
          registry, relayMap, revoked, victims, bound, pending, turns, doomed, followed>>

Init ==
    /\ stage = [c \in Conns |-> "absent"]
    /\ closed = [c \in Conns |-> FALSE]
    /\ cleanup = [c \in Direct |-> FALSE]
    /\ cleaning = {}
    /\ rpc = [c \in Conns |-> None]
    /\ allConns = {} /\ subs = {} /\ connSubs = {}
    /\ registry = {}
    /\ relayMap = [d \in Devices |-> None]
    /\ revoked = [d \in Devices |-> "no"]
    /\ victims = {}
    /\ bound = {}
    /\ pending = [d \in Devices |-> <<>>]
    /\ turns = 0
    /\ doomed = {}
    /\ followed = {}

-----------------------------------------------------------------------------
(* Broadcaster.                                                             *)

RegisterConn(c) ==
    /\ allConns' = allConns \union {c}
    /\ UNCHANGED <<subs, connSubs>>

Subscribe(c, k) ==
    /\ allConns' = allConns \union {c}
    /\ subs' = subs \union {<<k, c>>}
    /\ connSubs' = connSubs \union {<<c, k>>}

(* For every connection of C: its keys are looked up in connSubs.            *)
UnsubscribeAll(C) ==
    /\ subs' = {p \in subs : ~ (p[2] \in C /\ <<p[2], p[1]>> \in connSubs)}
    /\ connSubs' = {p \in connSubs : p[1] \notin C}
    /\ allConns' = allConns \ C

(* The subscribers of the old key become those of the new key, whose former  *)
(* set is overwritten; without an old entry nothing happens.                 *)
RebindLosingKey(oldKey, newKey) ==
    LET conns == {c \in Conns : <<oldKey, c>> \in subs}
    IN  /\ subs' = IF conns = {} THEN subs
                   ELSE {p \in subs : p[1] \notin {oldKey, newKey}}
                          \union {<<newKey, c>> : c \in conns}
        /\ connSubs' = connSubs \ {<<c, oldKey>> : c \in conns}
        /\ UNCHANGED allConns
Rebind(oldKey, newKey) ==
    LET conns == {c \in Conns : <<oldKey, c>> \in subs}
    IN  /\ subs' = IF conns = {} THEN subs
                   ELSE {p \in subs : p[1] \notin {oldKey, newKey}}
                          \union {<<newKey, c>> : c \in conns}
        /\ connSubs' = (connSubs \ {<<c, oldKey>> : c \in conns})
                          \union {<<c, newKey>> : c \in conns}
        /\ UNCHANGED allConns

(* Send: the exact key; the same session without directory; for an event      *)
(* without directory every directory; then the backend, then everybody.       *)
Listeners(b, s, D) == {p[2] : p \in {q \in subs : q[1].backend = b /\ q[1].session = s
                                                              /\ q[1].dir \in D}}
AllDirs == {k.dir : k \in Keys}
TargetsExactly(b, s, d) ==
    LET named == Listeners(b, s, IF d = NoDir THEN AllDirs ELSE {d})
    IN  IF named # {} THEN named ELSE allConns
Targets(b, s, d) ==
    LET named == Listeners(b, s, IF d = NoDir THEN AllDirs ELSE {d, NoDir})
        ofBackend == {p[2] : p \in {q \in subs : q[1].backend = b}}
    IN  CASE named # {} -> named
          [] named = {} /\ ofBackend # {} -> ofBackend
          [] OTHER -> allConns

SubscriberDeviceIDs(b, s) == {DeviceOf[c] : c \in Listeners(b, s, AllDirs)}
ActiveDeviceIDs == {DeviceOf[c] : c \in allConns}

(* PendingNotificationStore.Record: append, then keep the newest.             *)
Record(q, n) ==
    LET all == Append(q, n)
    IN  IF Len(all) > MaxPending
        THEN SubSeq(all, Len(all) - MaxPending + 1, Len(all)) ELSE all

-----------------------------------------------------------------------------
(* Direct connections: ServeHTTP.                                            *)

(* AuthenticateRequest succeeded; the upgrade follows.                        *)
Authenticate(c) ==
    /\ stage[c] = "absent"
    /\ revoked[DeviceOf[c]] = "no"
    /\ stage' = [stage EXCEPT ![c] = "authed"]
    /\ UNCHANGED <<closed, cleanup, cleaning, rpc, tables, registry, relayMap,
                   revoked, victims, bound, pending, turns, doomed, followed>>

Accept(c) ==
    /\ stage[c] = "authed"
    /\ RegisterConn(c)
    /\ stage' = [stage EXCEPT ![c] = "accepted"]
    /\ UNCHANGED <<closed, cleanup, cleaning, rpc, registry, relayMap, revoked,
                   victims, bound, pending, turns, doomed, followed>>

RegisterDevice(c) ==
    /\ stage[c] = "accepted"
    /\ registry' = registry \union {c}
    /\ stage' = [stage EXCEPT ![c] = IF c \in Direct THEN "registered" ELSE "serving"]
    /\ UNCHANGED <<closed, cleanup, cleaning, rpc, tables, relayMap, revoked,
                   victims, bound, pending, turns, doomed, followed>>

SetCleanup(c) ==
    /\ stage[c] = "registered"
    /\ cleanup' = [cleanup EXCEPT ![c] = TRUE]
    /\ stage' = [stage EXCEPT ![c] = "serving"]
    /\ UNCHANGED <<closed, cleaning, rpc, tables, registry, relayMap, revoked,
                   victims, bound, pending, turns, doomed, followed>>

(* CloseWithControl: the first closer takes onCleanup and runs it later,      *)
(* outside the lock; later closers return at once.                           *)
MarkClosed(c) ==
    /\ closed' = [closed EXCEPT ![c] = TRUE]
    /\ cleaning' = IF ~ closed[c] /\ cleanup[c] THEN cleaning \union {c} ELSE cleaning
    /\ cleanup' = [cleanup EXCEPT ![c] = @ /\ closed[c]]

(* The ping goroutine finds no pong for 90 s; CloseAll at shutdown is alike.  *)
PingTimeout(c) ==
    /\ stage[c] = "serving"
    /\ ~ closed[c]
    /\ MarkClosed(c)
    /\ UNCHANGED <<stage, rpc, tables, registry, relayMap, revoked, victims,
                   bound, pending, turns, doomed, followed>>

(* SendJSON of a broadcast: the fifth consecutive write error.                *)
WriteFails(c) ==
    /\ c \in allConns
    /\ ~ closed[c]
    /\ MarkClosed(c)
    /\ UNCHANGED <<stage, rpc, tables, registry, relayMap, revoked, victims,
                   bound, pending, turns, doomed, followed>>

(* The read loop breaks, or finds the socket closed: deferred conn.Close.     *)
ReadLoopEnds(c) ==
    /\ stage[c] = "serving"
    /\ rpc[c] = None
    /\ stage' = [stage EXCEPT ![c] = "exited"]
    /\ MarkClosed(c)
    /\ UNCHANGED <<rpc, tables, registry, relayMap, revoked, victims, bound,
                   pending, turns, doomed, followed>>

-----------------------------------------------------------------------------
(* Relay connections: handleClientHello, the heartbeat and closeConn.         *)

(* The relay read loop is inside a hello or a request.                        *)
RelayBusy == \E c \in Relay : stage[c] \in {"authed", "mapped", "accepted"} \/ rpc[c] # None

RelayHello(c) ==
    /\ ~ RelayBusy
    /\ Authenticate(c)

(* Under RelayBridgeClient.mu: the stale connection of the device goes.       *)
RelayMapped(c) ==
    LET d == DeviceOf[c]
        stale == {relayMap[d]} \ {None}
    IN  /\ stage[c] = "authed"
        /\ UnsubscribeAll(stale)
        /\ registry' = registry \ stale
        /\ closed' = [x \in Conns |-> closed[x] \/ x \in stale]
        /\ relayMap' = [relayMap EXCEPT ![d] = c]
        /\ stage' = [stage EXCEPT ![c] = "mapped"]
        /\ UNCHANGED <<cleanup, cleaning, rpc, revoked, victims, bound, pending,
                       turns, doomed, followed>>

RelayRegister(c) ==
    /\ stage[c] = "mapped"
    /\ RegisterConn(c)
    /\ stage' = [stage EXCEPT ![c] = "accepted"]
    /\ UNCHANGED <<closed, cleanup, cleaning, rpc, registry, relayMap, revoked,
                   victims, bound, pending, turns, doomed, followed>>

(* sendDeviceHeartbeats: a snapshot of the map; then lastActivity is old.     *)
HeartbeatFindsIdle(c) ==
    /\ relayMap[DeviceOf[c]] = c
    /\ stage[c] = "serving"
    /\ doomed' = doomed \union {c}
    /\ UNCHANGED <<stage, closed, cleanup, cleaning, rpc, tables, registry,
                   relayMap, revoked, victims, bound, pending, turns, followed>>

(* pruneDeadDevice: only if the map still holds this very connection.         *)
PruneWithoutIdentity(c) ==
    /\ c \in doomed
    /\ doomed' = doomed \ {c}
    /\ relayMap' = [relayMap EXCEPT ![DeviceOf[c]] = None]
    /\ cleaning' = cleaning \union {c}
    /\ UNCHANGED <<stage, closed, cleanup, rpc, tables, registry, revoked,
                   victims, bound, pending, turns, followed>>
PruneDeadDevice(c) ==
    /\ c \in doomed
    /\ doomed' = doomed \ {c}
    /\ relayMap' = [relayMap EXCEPT ![DeviceOf[c]] = IF @ = c THEN None ELSE @]
    /\ cleaning' = IF relayMap[DeviceOf[c]] = c THEN cleaning \union {c} ELSE cleaning
    /\ UNCHANGED <<stage, closed, cleanup, rpc, tables, registry, revoked,
                   victims, bound, pending, turns, followed>>

(* Run: the read loop has ended; closeConn drops every device.                *)
CloseConn ==
    LET C == {relayMap[d] : d \in Devices} \ {None}
    IN  /\ ~ RelayBusy
        /\ C # {}
        /\ UnsubscribeAll(C)
        /\ registry' = registry \ C
        /\ closed' = [x \in Conns |-> closed[x] \/ x \in C]
        /\ relayMap' = [d \in Devices |-> None]
        /\ UNCHANGED <<stage, cleanup, cleaning, rpc, revoked, victims, bound,
                       pending, turns, doomed, followed>>

-----------------------------------------------------------------------------
(* The cleanup a closer or pruneDeadDevice runs after it let go of its lock.  *)
RunCleanup(c) ==
    /\ c \in cleaning
    /\ cleaning' = cleaning \ {c}
    /\ UnsubscribeAll({c})
    /\ registry' = registry \ {c}
    /\ closed' = [closed EXCEPT ![c] = TRUE]
    /\ UNCHANGED <<stage, cleanup, rpc, relayMap, revoked, victims, bound,
                   pending, turns, doomed, followed>>

(* Requests that subscribe: send_message, get_session_messages, resume.  The  *)
(* handler starts an agent or reads history before it calls Subscribe.        *)
BeginRequest(c, k) ==
    /\ stage[c] = "serving"
    /\ ~ closed[c]
    /\ rpc[c] = None
    /\ c \in Relay => ~ RelayBusy /\ relayMap[DeviceOf[c]] = c
    /\ rpc' = [rpc EXCEPT ![c] = k]
    /\ UNCHANGED <<stage, closed, cleanup, cleaning, tables, registry, relayMap,
                   revoked, victims, bound, pending, turns, doomed, followed>>

EndRequest(c) ==
    /\ rpc[c] # None
    /\ Subscribe(c, rpc[c])
    /\ rpc' = [rpc EXCEPT ![c] = None]
    /\ followed' = followed \union {<<DeviceOf[c], rpc[c].backend, rpc[c].session>>}
    /\ UNCHANGED <<stage, closed, cleanup, cleaning, registry, relayMap, revoked,
                   victims, bound, pending, turns, doomed>>

(* check_pending_notifications.                                              *)
Consume(c) ==
    /\ stage[c] = "serving"
    /\ ~ closed[c]
    /\ rpc[c] = None
    /\ c \in Relay => ~ RelayBusy /\ relayMap[DeviceOf[c]] = c
    /\ pending' = [pending EXCEPT ![DeviceOf[c]] = <<>>]
    /\ UNCHANGED <<stage, closed, cleanup, cleaning, rpc, tables, registry,
                   relayMap, revoked, victims, bound, turns, doomed, followed>>

-----------------------------------------------------------------------------
(* handleRevokeDevice: the store, then DisconnectDevice, which closes the     *)
(* connections it took one after the other.                                   *)
RevokeStored(d) ==
    /\ revoked[d] = "no"
    /\ revoked' = [revoked EXCEPT ![d] = "stored"]
    /\ UNCHANGED <<stage, closed, cleanup, cleaning, rpc, tables, registry,
                   relayMap, victims, bound, pending, turns, doomed, followed>>

DisconnectDevice(d) ==
    /\ revoked[d] = "stored"
    /\ revoked' = [revoked EXCEPT ![d] = "done"]
    /\ victims' = victims \union {c \in registry : DeviceOf[c] = d}
    /\ registry' = {c \in registry : DeviceOf[c] # d}
    /\ UNCHANGED <<stage, closed, cleanup, cleaning, rpc, tables, relayMap,
                   bound, pending, turns, doomed, followed>>

RevokerCloses(c) ==
    /\ c \in victims
    /\ victims' = victims \ {c}
    /\ IF c \in Direct THEN MarkClosed(c)
       ELSE /\ closed' = [closed EXCEPT ![c] = TRUE]
            /\ UNCHANGED <<cleanup, cleaning>>
    /\ UNCHANGED <<stage, rpc, tables, registry, relayMap, revoked, bound,
                   pending, turns, doomed, followed>>

(* rebindSessionIDIfResolved: the relay of a pending session sees its real id. *)
ResolveId(r, k) ==
    /\ r \in Rebinds \ bound
    /\ k.session = r[1]
    /\ Rebind(k, Key(k.backend, r[2], k.dir))
    /\ bound' = bound \union {r}
    /\ UNCHANGED <<stage, closed, cleanup, cleaning, rpc, registry, relayMap,
                   revoked, victims, pending, turns, doomed, followed>>

(* A turn of a session ends: its completion goes to Targets, and              *)
(* recordPendingNotification notes it for SubscriberDeviceIDs.                *)
TurnEnds(b, s) ==
    /\ turns < MaxTurns
    /\ turns' = turns + 1
    /\ pending' = [d \in Devices |-> IF d \in SubscriberDeviceIDs(b, s)
                                     THEN Record(pending[d], turns + 1) ELSE pending[d]]
    /\ UNCHANGED <<stage, closed, cleanup, cleaning, rpc, tables, registry,
                   relayMap, revoked, victims, bound, doomed, followed>>

-----------------------------------------------------------------------------
Sessions == {<<k.backend, k.session>> : k \in Keys}

DirectNext ==
    \E c \in Direct :
        \/ Authenticate(c) \/ Accept(c) \/ RegisterDevice(c) \/ SetCleanup(c)
        \/ PingTimeout(c) \/ WriteFails(c) \/ ReadLoopEnds(c)

RelayNext ==
    \/ \E c \in Relay :
        \/ RelayHello(c) \/ RelayMapped(c) \/ RelayRegister(c) \/ RegisterDevice(c)
        \/ HeartbeatFindsIdle(c) \/ PruneDeadDevice(c)
    \/ CloseConn

Next ==
    \/ DirectNext
    \/ RelayNext
    \/ \E c \in Conns : RunCleanup(c) \/ EndRequest(c) \/ Consume(c) \/ RevokerCloses(c)
    \/ \E c \in Conns, k \in Keys : BeginRequest(c, k)
    \/ \E d \in Devices : RevokeStored(d) \/ DisconnectDevice(d)
    \/ \E r \in Rebinds, k \in Keys : ResolveId(r, k)
    \/ \E s \in Sessions : TurnEnds(s[1], s[2])

Spec == Init /\ [][Next]_vars

-----------------------------------------------------------------------------
(* Every variable has its type; a device keeps at most MaxPending notes.      *)
TypeOK ==
    /\ stage \in [Conns -> Stages]
    /\ closed \in [Conns -> BOOLEAN]
    /\ cleanup \in [Direct -> BOOLEAN]
    /\ cleaning \subseteq Conns
    /\ rpc \in [Conns -> Keys \union {None}]
    /\ allConns \subseteq Conns
    /\ registry \subseteq Conns
    /\ relayMap \in [Devices -> Relay \union {None}]
    /\ revoked \in [Devices -> {"no", "stored", "done"}]
    /\ victims \subseteq Conns
    /\ bound \subseteq Rebinds
    /\ turns \in 0..MaxTurns
    /\ doomed \subseteq Relay
    /\ DOMAIN pending = Devices
    /\ \A d \in Devices : Len(pending[d]) <= MaxPending

(* The two indexes of the Broadcaster agree in the direction UnsubscribeAll   *)
(* and Rebind rely on: a connection listed under a key has that key in its    *)
(* own record (so that unregistering it leaves no trace, and Rebind never     *)
(* writes to a missing record), and only registered connections are listed.   *)
ListedIsRecorded == \A p \in subs : <<p[2], p[1]>> \in connSubs
RecordedIsRegistered == \A p \in connSubs : p[1] \in allConns
IndexSound == ListedIsRecorded /\ RecordedIsRegistered

(* While no id is rebound, a live connection gets the events of every session *)
(* it subscribed to: with its directory, without one, and, if it named none,  *)
(* with any (Broadcaster.Send).                                              *)
Reached(c, k) ==
    /\ c \in Targets(k.backend, k.session, k.dir)
    /\ c \in Targets(k.backend, k.session, NoDir)
    /\ k.dir = NoDir => \A d \in AllDirs : c \in Targets(k.backend, k.session, d)
SubscribersReached == bound = {} => \A p \in connSubs : Reached(p[1], p[2])

(* A relay connection that works is the one the map finds for the envelopes   *)
(* of its device: replacing, pruning and reconnecting never unmap a live one. *)
WorkingIsMapped ==
    \A c \in Relay :
        stage[c] \in {"mapped", "accepted", "serving"} /\ ~ closed[c] /\ c \notin cleaning
          => relayMap[DeviceOf[c]] = c

-----------------------------------------------------------------------------
(* What documents and comments state and the code does not keep (README,      *)
(* section 5).                                                               *)

(* A connection that is closed, with its handlers and its cleanup over, is    *)
(* not listed as an active connection any more.                               *)
Over(c) ==
    /\ closed[c] /\ rpc[c] = None /\ c \notin cleaning \union victims
    /\ IF c \in Direct THEN stage[c] = "exited" ELSE relayMap[DeviceOf[c]] # c
ClosedIsForgotten == \A c \in Conns : Over(c) => c \notin allConns

(* A connection that subscribed to a session gets its events, under the id    *)
(* the session has now.                                                       *)
CurrentId(k) ==
    IF \E r \in bound : r[1] = k.session
    THEN Key(k.backend, (CHOOSE r \in bound : r[1] = k.session)[2], k.dir) ELSE k
SubscribersReachedAfterRebind ==
    \A p \in connSubs : ~ closed[p[1]] => Reached(p[1], CurrentId(p[2]))

(* When a turn ends, a device that follows the session and is not connected   *)
(* finds a note for it.                                                       *)
NotesForOffline ==
    \A s \in Sessions, d \in Devices :
        turns' = turns + 1 /\ <<d, s[1], s[2]>> \in followed /\ d \notin ActiveDeviceIDs
          => \E i \in DOMAIN pending'[d] : pending'[d][i] = turns'
OfflineDeviceNotified == [][NotesForOffline]_vars

(* Once a revocation is carried out, no connection of the device still works. *)
RevokedIsDisconnected ==
    \A c \in Conns :
        revoked[DeviceOf[c]] = "done" /\ victims = {} /\ stage[c] = "serving" => closed[c]

=============================================================================
