---------------------------- MODULE RelayServer -----------------------------
(***************************************************************************)
(* The sockets of the relay server (relay-server/internal/relay/server.go): *)
(* the maps of connected bridges and devices, the handlers that own a       *)
(* socket, the bounded send queue of a device with its writer goroutine,    *)
(* and the revocation handler, on top of the mailbox of RelayMailbox.       *)
(*                                                                         *)
(* Every handler is a goroutine: between the store call that authenticates  *)
(* it, the map update under Server.mu and the close of the socket it        *)
(* replaces, the other goroutines run.  The reader of a bridge looks a      *)
(* device up in one step and uses the answer in the next.                   *)
(***************************************************************************)
EXTENDS RelayMailbox

CONSTANTS
    DevicePeers,   \* identities of device sockets (each used for one connection)
    BridgePeers,   \* identities of bridge sockets
    QueueFrames,   \* perDeviceSendQueueFrames
    MaxEnvelopes,  \* bound: envelopes the bridges send
    None           \* no peer

ASSUME ServerAssumption ==
    /\ QueueFrames \in Nat \ {0}
    /\ MaxEnvelopes \in Nat
    /\ None \notin DevicePeers \union BridgePeers
    /\ DevicePeers \intersect BridgePeers = {}

Peers == DevicePeers \union BridgePeers

VARIABLES
    devices,    \* Server.devices: device -> peer or None
    bridge,     \* Server.bridges: the bridge of the route, a peer or None
    phase,      \* peer -> where the handler that owns the socket is
    owner,      \* device peer -> the device it authenticated as, or None
    open,       \* peer -> the connection has not been closed
    replaced,   \* peer -> the peer its registration displaced, to be closed
    queue,      \* device peer -> number of frames in sendCh
    writer,     \* device peer -> the writer goroutine is running
    reader,     \* bridge peer -> the envelope its read loop is handling
    revoking,   \* device -> its revocation handler, past the store: "lookup" or
                \* the peer it found; None when there is none
    sent        \* number of envelopes the bridges sent so far

sockets == <<devices, bridge, phase, owner, open, replaced, queue, writer,
             reader, revoking, sent>>
mailboxVars == vars
serverVars == <<vars, sockets>>

(* Kinds of frames a bridge sends to a device: an answer of the online       *)
(* handshake, an envelope of the live channel, one marked for the mailbox    *)
(* (keyEpochId "mailbox:...").                                               *)
Kinds == {"hello", "online", "mailbox"}
Idle == [at |-> "idle", kind |-> "online", dest |-> None, target |-> None]

-----------------------------------------------------------------------------
ServerInit ==
    /\ Init
    /\ devices = [d \in Devices |-> None]
    /\ bridge = None
    /\ phase = [p \in Peers |-> "unused"]
    /\ owner = [p \in DevicePeers |-> None]
    /\ open = [p \in Peers |-> FALSE]
    /\ replaced = [p \in Peers |-> None]
    /\ queue = [p \in DevicePeers |-> 0]
    /\ writer = [p \in DevicePeers |-> FALSE]
    /\ reader = [b \in BridgePeers |-> Idle]
    /\ revoking = [d \in Devices |-> None]
    /\ sent = 0

(* closePeer: the connection is closed; a peer that is None is left alone.  *)
Closed(p) == [q \in Peers |-> IF q = p THEN FALSE ELSE open[q]]

(* removeDevice: only if the map still holds this very peer.                *)
RemoveAny(d, p) == [devices EXCEPT ![d] = None]
Without(d, p) == [devices EXCEPT ![d] = IF @ = p THEN None ELSE @]

-----------------------------------------------------------------------------
(* handleDeviceSocket: authenticateDevice and the upgrade; the writer runs.  *)
DeviceConnect(p, d) ==
    /\ phase[p] = "unused"
    /\ status[d] = "active"
    /\ phase' = [phase EXCEPT ![p] = "authenticated"]
    /\ owner' = [owner EXCEPT ![p] = d]
    /\ open' = [open EXCEPT ![p] = TRUE]
    /\ writer' = [writer EXCEPT ![p] = TRUE]
    /\ UNCHANGED <<mailboxVars, devices, bridge, replaced, queue, reader, revoking, sent>>

(* setDevice, under the lock: take the place in the map.                     *)
SetDevice(p) ==
    /\ phase[p] = "authenticated"
    /\ devices' = [devices EXCEPT ![owner[p]] = p]
    /\ replaced' = [replaced EXCEPT ![p] = devices[owner[p]]]
    /\ phase' = [phase EXCEPT ![p] = "displacing"]
    /\ UNCHANGED <<mailboxVars, bridge, owner, open, queue, writer, reader, revoking, sent>>

(* setDevice and setBridge, after the unlock: close the displaced peer, then *)
(* enter the read loop.                                                      *)
CloseReplaced(p) ==
    /\ phase[p] = "displacing"
    /\ open' = Closed(replaced[p])
    /\ replaced' = [replaced EXCEPT ![p] = None]
    /\ phase' = [phase EXCEPT ![p] = "reading"]
    /\ UNCHANGED <<mailboxVars, devices, bridge, owner, queue, writer, reader, revoking, sent>>

(* handleBridgeSocket: authenticate (nothing takes a route's credential away *)
(* in between), upgrade and setBridge under the lock.                        *)
BridgeConnect(b) ==
    /\ phase[b] = "unused"
    /\ open' = [open EXCEPT ![b] = TRUE]
    /\ bridge' = b
    /\ replaced' = [replaced EXCEPT ![b] = bridge]
    /\ phase' = [phase EXCEPT ![b] = "displacing"]
    /\ UNCHANGED <<mailboxVars, devices, owner, queue, writer, reader, revoking, sent>>

(* The connection breaks, or the peer closes it (once the handler is gone    *)
(* nobody notices).                                                          *)
NetworkClose(p) ==
    /\ open[p] /\ phase[p] # "gone"
    /\ open' = Closed(p)
    /\ UNCHANGED <<mailboxVars, devices, bridge, phase, owner, replaced, queue, writer, reader, revoking, sent>>

(* The read loop of a device ends: its read fails on a closed connection;     *)
(* shutdownWriter then closes done.                                          *)
DeviceReadEnds(p) ==
    /\ phase[p] = "reading" /\ p \in DevicePeers
    /\ ~open[p]
    /\ phase' = [phase EXCEPT ![p] = "shutdown"]
    /\ UNCHANGED <<mailboxVars, devices, bridge, owner, open, replaced, queue, writer, reader, revoking, sent>>

(* A read loop also ends on the idle deadline, or because the answer to a    *)
(* ping cannot be written any more; the client decides whether that happens. *)
(* Nothing closes the connection then.                                       *)
ReadGivesUp(p) ==
    /\ phase[p] = "reading" /\ open[p]
    /\ p \in BridgePeers => reader[p] = Idle
    /\ phase' = [phase EXCEPT ![p] = "shutdown"]
    /\ UNCHANGED <<mailboxVars, devices, bridge, owner, open, replaced, queue, writer, reader, revoking, sent>>

(* The rest of the deferred cleanup: removeDevice.                           *)
DeviceCleanupLeaks(p) ==
    /\ phase[p] = "shutdown"
    /\ phase' = [phase EXCEPT ![p] = "gone"]
    /\ UNCHANGED <<mailboxVars, devices, bridge, owner, open, replaced, queue, writer, reader, revoking, sent>>
DeviceCleanup(p) ==
    /\ phase[p] = "shutdown"
    /\ devices' = Without(owner[p], p)
    /\ phase' = [phase EXCEPT ![p] = "gone"]
    /\ UNCHANGED <<mailboxVars, bridge, owner, open, replaced, queue, writer, reader, revoking, sent>>

(* writeLoop: take the head of the queue and write it.  The select may still  *)
(* choose the queue after done is closed.                                    *)
WriterSends(p) ==
    /\ writer[p] /\ queue[p] > 0 /\ open[p]
    /\ queue' = [queue EXCEPT ![p] = @ - 1]
    /\ UNCHANGED <<mailboxVars, devices, bridge, phase, owner, open, replaced, writer, reader, revoking, sent>>

(* A write fails (closed connection, or the write deadline of a receiver     *)
(* that is stuck): the frame is gone and the writer stops draining.          *)
WriterFails(p) ==
    /\ writer[p] /\ queue[p] > 0
    /\ queue' = [queue EXCEPT ![p] = @ - 1]
    /\ writer' = [writer EXCEPT ![p] = FALSE]
    /\ UNCHANGED <<mailboxVars, devices, bridge, phase, owner, open, replaced, reader, revoking, sent>>

(* The writer sees done.                                                     *)
WriterStops(p) ==
    /\ writer[p] /\ phase[p] \in {"shutdown", "gone"}
    /\ writer' = [writer EXCEPT ![p] = FALSE]
    /\ UNCHANGED <<mailboxVars, devices, bridge, phase, owner, open, replaced, queue, reader, revoking, sent>>

-----------------------------------------------------------------------------
(* readBridgeFrames: a frame is read and its destination looked up in the    *)
(* store.  One for an inactive device closes the bridge, also when it is a   *)
(* handshake answer (it is then no valid envelope either).                   *)
BridgeReads(b, d, kind) ==
    /\ phase[b] = "reading" /\ open[b] /\ reader[b] = Idle
    /\ sent < MaxEnvelopes
    /\ sent' = sent + 1
    /\ IF status[d] = "active"
       THEN /\ reader' = [reader EXCEPT ![b] =
                 [at |-> IF kind = "mailbox" THEN "append" ELSE "lookup",
                  kind |-> kind, dest |-> d, target |-> None]]
            /\ UNCHANGED <<open, phase>>
       ELSE /\ open' = Closed(b)
            /\ phase' = [phase EXCEPT ![b] = "shutdown"]
            /\ UNCHANGED reader
    /\ UNCHANGED <<mailboxVars, devices, bridge, owner, replaced, queue, writer, revoking>>

(* Server.device: a device that is not connected gets the envelope through   *)
(* its mailbox; a handshake answer is dropped.                               *)
BridgeLooksUp(b) ==
    LET r == reader[b]
        target == devices[r.dest]
    IN  /\ r.at = "lookup"
        /\ reader' = [reader EXCEPT ![b] =
              CASE target # None -> [r EXCEPT !.at = "enqueue", !.target = target]
                [] target = None /\ r.kind = "hello" -> Idle
                [] OTHER -> [r EXCEPT !.at = "append"]]
        /\ UNCHANGED <<mailboxVars, devices, bridge, phase, owner, open, replaced, queue, writer, revoking, sent>>

(* socketPeer.enqueue on the peer found before: accepted when sendCh has     *)
(* room, whatever became of the peer since.                                  *)
BridgeEnqueues(b) ==
    LET r == reader[b]
    IN  /\ r.at = "enqueue"
        /\ IF queue[r.target] < QueueFrames
           THEN /\ queue' = [queue EXCEPT ![r.target] = @ + 1]
                /\ reader' = [reader EXCEPT ![b] = Idle]
           ELSE /\ reader' = [reader EXCEPT ![b] = [r EXCEPT !.at = "remove"]]
                /\ UNCHANGED queue
        /\ UNCHANGED <<mailboxVars, devices, bridge, phase, owner, open, replaced, writer, revoking, sent>>

(* Queue full: remove the slow device, then close it; its envelope goes to   *)
(* the mailbox, a handshake answer is dropped.                               *)
BridgeRemovesSlow(b) ==
    LET r == reader[b]
    IN  /\ r.at = "remove"
        /\ devices' = Without(r.dest, r.target)
        /\ reader' = [reader EXCEPT ![b] = [r EXCEPT !.at = "close"]]
        /\ UNCHANGED <<mailboxVars, bridge, phase, owner, open, replaced, queue, writer, revoking, sent>>

BridgeClosesSlow(b) ==
    LET r == reader[b]
    IN  /\ r.at = "close"
        /\ open' = Closed(r.target)
        /\ reader' = [reader EXCEPT ![b] =
              IF r.kind = "hello" THEN Idle ELSE [r EXCEPT !.at = "append", !.target = None]]
        /\ UNCHANGED <<mailboxVars, devices, bridge, phase, owner, replaced, queue, writer, revoking, sent>>

(* AppendFrame; when it fails the bridge is closed.                          *)
BridgeAppends(b) ==
    LET r == reader[b]
    IN  /\ r.at = "append"
        /\ reader' = [reader EXCEPT ![b] = Idle]
        /\ \/ /\ \E size \in Sizes : AppendFrame(r.dest, size)
              /\ UNCHANGED <<open, phase>>
           \/ /\ \E size \in Sizes : ~CanAppend(r.dest, size)
              /\ open' = Closed(b)
              /\ phase' = [phase EXCEPT ![b] = "shutdown"]
              /\ UNCHANGED mailboxVars
        /\ UNCHANGED <<devices, bridge, owner, replaced, queue, writer, revoking, sent>>

BridgeReadEnds(b) ==
    /\ phase[b] = "reading" /\ b \in BridgePeers
    /\ ~open[b] /\ reader[b] = Idle
    /\ phase' = [phase EXCEPT ![b] = "shutdown"]
    /\ UNCHANGED <<mailboxVars, devices, bridge, owner, open, replaced, queue, writer, reader, revoking, sent>>

(* removeBridge, deferred: only if the map still holds this peer.            *)
BridgeCleanup(b) ==
    /\ phase[b] = "shutdown"
    /\ bridge' = IF bridge = b THEN None ELSE bridge
    /\ phase' = [phase EXCEPT ![b] = "gone"]
    /\ UNCHANGED <<mailboxVars, devices, owner, open, replaced, queue, writer, reader, revoking, sent>>

(* readDeviceFrames: a frame of the device is written to the bridge; without  *)
(* a bridge that takes it the device is closed and has to reconnect.         *)
DeviceForwards(p) ==
    /\ phase[p] = "reading" /\ open[p] /\ p \in DevicePeers
    /\ bridge # None => ~open[bridge]
    /\ open' = Closed(p)
    /\ UNCHANGED <<mailboxVars, devices, bridge, phase, owner, replaced, queue, writer, reader, revoking, sent>>

-----------------------------------------------------------------------------
(* handleRegisterDevice.                                                     *)
Register(d) == RegisterDevice(d) /\ UNCHANGED sockets

(* handleRevokeDevice: the store first; disconnectDevice then looks the peer *)
(* up, closes it and removes it.                                             *)
Revoke(d) ==
    /\ revoking[d] = None
    /\ RevokeDevice(d)
    /\ revoking' = [revoking EXCEPT ![d] = "lookup"]
    /\ UNCHANGED <<devices, bridge, phase, owner, open, replaced, queue, writer, reader, sent>>

RevokeLooksUp(d) ==
    /\ revoking[d] = "lookup"
    /\ revoking' = [revoking EXCEPT ![d] = devices[d]]
    /\ UNCHANGED <<mailboxVars, devices, bridge, phase, owner, open, replaced, queue, writer, reader, sent>>

RevokeCloses(d) ==
    /\ revoking[d] \in DevicePeers /\ open[revoking[d]]
    /\ open' = Closed(revoking[d])
    /\ UNCHANGED <<mailboxVars, devices, bridge, phase, owner, replaced, queue, writer, reader, revoking, sent>>

RevokeRemoves(d) ==
    /\ revoking[d] \in DevicePeers /\ ~open[revoking[d]]
    /\ devices' = Without(d, revoking[d])
    /\ revoking' = [revoking EXCEPT ![d] = None]
    /\ UNCHANGED <<mailboxVars, bridge, phase, owner, open, replaced, queue, writer, reader, sent>>

RevokeHandler(d) == RevokeLooksUp(d) \/ RevokeCloses(d) \/ RevokeRemoves(d)

(* The relay process dies and is started again: every socket and goroutine   *)
(* is gone, the database stays.                                              *)
Restart ==
    /\ \E p \in Peers : phase[p] # "unused" /\ phase[p] # "gone"
    /\ devices' = [d \in Devices |-> None]
    /\ bridge' = None
    /\ phase' = [p \in Peers |-> IF phase[p] = "unused" THEN "unused" ELSE "gone"]
    /\ open' = [p \in Peers |-> FALSE]
    /\ replaced' = [p \in Peers |-> None]
    /\ queue' = [p \in DevicePeers |-> 0]
    /\ writer' = [p \in DevicePeers |-> FALSE]
    /\ reader' = [b \in BridgePeers |-> Idle]
    /\ revoking' = [d \in Devices |-> None]
    /\ request' = [d \in Devices |-> NoRequest]
    /\ UNCHANGED <<now, status, next, arrived, mail, position, served, evicted, owner, sent>>

DeviceHandler(p) ==
    \/ SetDevice(p) \/ CloseReplaced(p) \/ DeviceReadEnds(p) \/ DeviceCleanup(p)
DeviceWriter(p) ==
    WriterSends(p) \/ WriterFails(p) \/ WriterStops(p)
BridgeHandler(b) ==
    \/ CloseReplaced(b) \/ BridgeReadEnds(b) \/ BridgeCleanup(b)
    \/ BridgeLooksUp(b) \/ BridgeEnqueues(b) \/ BridgeRemovesSlow(b)
    \/ BridgeClosesSlow(b) \/ BridgeAppends(b)

ServerNext ==
    \/ \E p \in DevicePeers :
          \/ \E d \in Devices : DeviceConnect(p, d)
          \/ DeviceHandler(p)
          \/ DeviceWriter(p)
          \/ DeviceForwards(p)
    \/ \E b \in BridgePeers :
          \/ BridgeConnect(b)
          \/ \E d \in Devices, kind \in Kinds : BridgeReads(b, d, kind)
          \/ BridgeHandler(b)
    \/ \E p \in Peers : NetworkClose(p) \/ ReadGivesUp(p)
    \/ \E d \in Devices : Register(d) \/ Revoke(d) \/ RevokeHandler(d)
    \/ Restart

(* The goroutines of a started handler keep running; nothing else is fair:   *)
(* clients need not connect, send or stay.                                   *)
Fairness ==
    /\ \A p \in DevicePeers : WF_serverVars(DeviceHandler(p)) /\ WF_serverVars(DeviceWriter(p))
    /\ \A b \in BridgePeers : WF_serverVars(BridgeHandler(b))
    /\ \A d \in Devices : WF_serverVars(RevokeHandler(d))

ServerSpec == ServerInit /\ [][ServerNext]_serverVars /\ Fairness

-----------------------------------------------------------------------------
ServerTypeOK ==
    /\ devices \in [Devices -> DevicePeers \union {None}]
    /\ bridge \in BridgePeers \union {None}
    /\ phase \in [Peers -> {"unused", "authenticated", "displacing", "reading", "shutdown", "gone"}]
    /\ owner \in [DevicePeers -> Devices \union {None}]
    /\ open \in [Peers -> BOOLEAN]
    /\ replaced \in [Peers -> Peers \union {None}]
    /\ queue \in [DevicePeers -> 0 .. QueueFrames]
    /\ writer \in [DevicePeers -> BOOLEAN]
    /\ reader \in [BridgePeers -> [at: {"idle", "lookup", "enqueue", "remove", "close", "append"},
                                   kind: Kinds,
                                   dest: Devices \union {None}, target: DevicePeers \union {None}]]
    /\ revoking \in [Devices -> DevicePeers \union {None, "lookup"}]
    /\ sent \in 0 .. MaxEnvelopes

(* Some goroutine is about to close p.                                       *)
ToBeClosed(p) ==
    \/ \E q \in Peers : replaced[q] = p
    \/ \E b \in BridgePeers : reader[b].at = "close" /\ reader[b].target = p

(* A connected peer is reachable: a socket that is open and being read is    *)
(* the one the map holds, or some goroutine is about to close it.  A         *)
(* replaced handler's late cleanup, an overflow and a revocation never leave *)
(* a live connection that the relay cannot find.                             *)
NoOrphanSocket ==
    \A p \in Peers :
        phase[p] = "reading" /\ open[p] =>
            \/ p \in DevicePeers /\ devices[owner[p]] = p
            \/ p = bridge
            \/ ToBeClosed(p)

(* What the map holds has a handler that will take it out again.             *)
MapHeldByHandler ==
    /\ \A d \in Devices : devices[d] # None =>
          phase[devices[d]] \in {"displacing", "reading", "shutdown"} /\ owner[devices[d]] = d
    /\ bridge # None => phase[bridge] \in {"displacing", "reading", "shutdown"}

(* Sockets, maps, handlers and mailboxes agree, whatever order a connection  *)
(* is replaced, overflows, is revoked and dies in, and although a device is  *)
(* found active before its envelope is stored.                               *)
ServerSound == NoOrphanSocket /\ MapHeldByHandler /\ RowsBelongToActive

(* A dead connection leaves the maps, although three goroutines may have a   *)
(* hand in removing it: a device's envelopes go to the mailbox again, and a  *)
(* bridge whose connection is gone is forgotten.                             *)
DeadSocketForgotten ==
    \A p \in Peers :
        (phase[p] = "reading" /\ ~open[p]) ~> (bridge # p /\ \A d \in Devices : devices[d] # p)

-----------------------------------------------------------------------------
(* What documents and comments state and the code does not keep (README,      *)
(* section 5).                                                               *)

(* What the comment in writeLoop relies on: the read loop's way out tears     *)
(* the connection down, so a handler that has ended leaves no open one.      *)
HandlerExitCloses == \A p \in DevicePeers : phase[p] = "gone" => ~open[p]

(* What the comment on shutdownWriter asks of its callers: once done is      *)
(* closed nothing is put into the queue any more.                            *)
NoEnqueueAfterShutdown ==
    [][\A p \in DevicePeers :
          phase[p] \in {"shutdown", "gone"} => queue'[p] <= queue[p]]_serverVars
=============================================================================
