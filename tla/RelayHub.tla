------------------------------ MODULE RelayHub ------------------------------
(***************************************************************************)
(* The relay inside the bridge: RelayService and RelayHub.  A handler per  *)
(* socket authorises, upgrades and reads; the hub's maps are read and      *)
(* written under one lock, but a frame is written to a socket, or put in   *)
(* the mailbox, after the lock was released, and the stored frames of a    *)
(* device that connects are sent by a goroutine of its own.  One route;    *)
(* the bytes of a frame are its size, and what a frame carries is opaque.  *)
(***************************************************************************)
EXTENDS Integers, Sequences, FiniteSets, Lists

CONSTANTS
    HubDevices,     \* devices of the route
    Sockets,        \* sockets the devices may open, each once
    MacSockets,     \* sockets the Mac may open, each once
    Sizes,          \* sizes of a frame
    HubCap,         \* maxMailboxBytes (50 MB in the code)
    MaxHubFrames, MaxRegistrations      \* bounds on the frames sent and the registrations

ASSUME HubAssumption ==
    /\ Sizes \subseteq Nat \ {0} /\ Sizes # {} /\ HubCap \in Nat
    /\ MaxHubFrames \in Nat /\ MaxRegistrations \in Nat

VARIABLES
    device,         \* relayDevice: its registration (0 for none), whether it is revoked
                    \* and its conn, a set of at most one socket
    bridgeConn,     \* the Mac's socket, a set of at most one
    sock,           \* each device socket: its device and credential, the stage of its
                    \* handler, and whether the websocket and the relayWSConn are closed
    mac,            \* handler of each Mac socket: "none", "reading", "closed", "gone"
    fwd,            \* ForwardFromBridge of each Mac socket after RUnlock: the frame it
                    \* writes to a socket, or stores (no socket)
    deliveries,        \* deliverPendingMailbox of each socket: not run, writing, or over
    mailbox, mailboxBytes, mailboxSeq,
    sent,           \* frames the Mac sent
    newest          \* the socket each device connected last under its registration

hubVars == <<device, bridgeConn, sock, mac, fwd, deliveries, mailbox, mailboxBytes, mailboxSeq, sent, newest>>

HubFrame == [cursor : Nat, size : Sizes, acked : BOOLEAN]

\* The places of the frames that wait, and the bytes of the frames at places.
Waiting(frames) == {i \in DOMAIN frames : ~frames[i].acked}
FrameBytes(frames, I) == Total([i \in DOMAIN frames |-> frames[i].size], I)

HubTypeOK ==
    /\ device \in [HubDevices -> [reg : 0 .. MaxRegistrations, revoked : BOOLEAN, conn : SUBSET Sockets]]
    /\ bridgeConn \subseteq MacSockets
    /\ sock \in [Sockets -> [dev : SUBSET HubDevices, cred : Nat, stage : {"none", "upgraded", "reading", "gone"},
                             closed : BOOLEAN, marked : BOOLEAN]]
    /\ mac \in [MacSockets -> {"none", "reading", "closed", "gone"}]
    /\ \A d \in HubDevices : \A i \in DOMAIN mailbox[d] : mailbox[d][i] \in HubFrame
    /\ mailboxBytes \in [HubDevices -> Int] /\ mailboxSeq \in Nat

HubInit ==
    /\ device = [d \in HubDevices |-> [reg |-> 0, revoked |-> FALSE, conn |-> {}]]
    /\ bridgeConn = {}
    /\ sock = [s \in Sockets |-> [dev |-> {}, cred |-> 0, stage |-> "none", closed |-> FALSE, marked |-> FALSE]]
    /\ mac = [b \in MacSockets |-> "none"]
    /\ fwd = [b \in MacSockets |-> {}]
    /\ deliveries = [s \in Sockets |-> [st |-> "none", to |-> {}, todo |-> <<>>]]
    /\ mailbox = [d \in HubDevices |-> <<>>]
    /\ mailboxBytes = [d \in HubDevices |-> 0]
    /\ mailboxSeq = 0 /\ sent = 0
    /\ newest = [d \in HubDevices |-> {}]

-----------------------------------------------------------------------------
(* Registration and revocation. *)

\* A new record replaces the old one: the credential changes and the socket of
\* the old record is forgotten, but neither closed nor are its frames removed.
RegisterDevice(d) ==
    /\ device[d].reg < MaxRegistrations
    /\ device' = [device EXCEPT ![d] = [reg |-> @.reg + 1, revoked |-> FALSE, conn |-> {}]]
    /\ newest' = [newest EXCEPT ![d] = {}]
    /\ UNCHANGED <<bridgeConn, sock, mac, fwd, deliveries, mailbox, mailboxBytes, mailboxSeq, sent>>

RevokeDevice(d) ==
    /\ device[d].reg > 0
    /\ device' = [device EXCEPT ![d].revoked = TRUE]
    /\ mailbox' = [mailbox EXCEPT ![d] = <<>>]
    /\ mailboxBytes' = [mailboxBytes EXCEPT ![d] = 0]
    /\ sock' = [s \in Sockets |-> IF s \in device[d].conn
                                  THEN [sock[s] EXCEPT !.closed = TRUE, !.marked = TRUE] ELSE sock[s]]
    /\ UNCHANGED <<bridgeConn, mac, fwd, deliveries, mailboxSeq, sent, newest>>

-----------------------------------------------------------------------------
(* Sockets of a device. *)

Authorized(d, cred) == device[d].reg > 0 /\ ~device[d].revoked /\ device[d].reg = cred

\* AuthorizeDevice, then the upgrade, with the credential of the current registration.
UpgradeDevice(s, d) ==
    /\ sock[s].stage = "none"
    /\ Authorized(d, device[d].reg)
    /\ sock' = [sock EXCEPT ![s].dev = {d}, ![s].cred = device[d].reg, ![s].stage = "upgraded"]
    /\ UNCHANGED <<device, bridgeConn, mac, fwd, deliveries, mailbox, mailboxBytes, mailboxSeq, sent, newest>>

\* ConnectDevice checks again, since the device may have been revoked or
\* registered anew meanwhile, and spawns the delivery of the stored frames.
ConnectDevice(s, d) ==
    /\ sock[s].stage = "upgraded" /\ sock[s].dev = {d}
    /\ IF Authorized(d, sock[s].cred)
       THEN /\ device' = [device EXCEPT ![d].conn = {s}]
            /\ sock' = [sock EXCEPT ![s].stage = "reading"]
            /\ deliveries' = [deliveries EXCEPT ![s].st = "spawned"]
            /\ newest' = [newest EXCEPT ![d] = {s}]
       ELSE /\ sock' = [sock EXCEPT ![s].stage = "gone", ![s].closed = TRUE]
            /\ UNCHANGED <<device, deliveries, newest>>
    /\ UNCHANGED <<bridgeConn, mac, fwd, mailbox, mailboxBytes, mailboxSeq, sent>>

\* The phone or the network ends the socket.
SocketBreaks(s) ==
    /\ sock[s].stage = "reading" /\ ~sock[s].closed
    /\ sock' = [sock EXCEPT ![s].closed = TRUE]
    /\ UNCHANGED <<device, bridgeConn, mac, fwd, deliveries, mailbox, mailboxBytes, mailboxSeq, sent, newest>>

\* A defer that does not compare the sockets.
DisconnectAny(s, d) ==
    /\ device' = [device EXCEPT ![d].conn = {}]
    /\ sock' = [sock EXCEPT ![s].stage = "gone", ![s].marked = TRUE]

DisconnectDevice(s, d) ==
    IF s \in device[d].conn
    THEN /\ device' = [device EXCEPT ![d].conn = {}]
         /\ sock' = [sock EXCEPT ![s].stage = "gone", ![s].marked = TRUE]
    ELSE /\ sock' = [sock EXCEPT ![s].stage = "gone"]
         /\ UNCHANGED device

\* The handler's read fails: it leaves through DisconnectDevice.
DeviceHandlerEnds(s, d) ==
    /\ sock[s].stage = "reading" /\ sock[s].closed /\ sock[s].dev = {d}
    /\ DisconnectDevice(s, d)
    /\ UNCHANGED <<bridgeConn, mac, fwd, deliveries, mailbox, mailboxBytes, mailboxSeq, sent, newest>>

\* ForwardFromDevice: the answer of the hub is an error when the device is
\* revoked, the Mac is away or its socket fails; the handler then closes the
\* device's socket.
DeviceSends(s, d) ==
    /\ sock[s].stage = "reading" /\ ~sock[s].closed /\ sock[s].dev = {d}
    /\ \/ device[d].revoked
       \/ bridgeConn = {}
       \/ \E b \in bridgeConn : mac[b] = "closed"
    /\ sock' = [sock EXCEPT ![s].closed = TRUE]
    /\ UNCHANGED <<device, bridgeConn, mac, fwd, deliveries, mailbox, mailboxBytes, mailboxSeq, sent, newest>>

-----------------------------------------------------------------------------
(* Delivery of the stored frames, on the connection the device has when the goroutine runs. *)

DeliverSnapshot(s, d) ==
    /\ deliveries[s].st = "spawned" /\ sock[s].dev = {d}
    /\ deliveries' = [deliveries EXCEPT ![s] =
         IF \E c \in device[d].conn : ~sock[c].marked
         THEN [st |-> "writing", to |-> device[d].conn, todo |-> KeptAt(mailbox[d], Waiting(mailbox[d]))]
         ELSE [st |-> "over", to |-> {}, todo |-> <<>>]]
    /\ UNCHANGED <<device, bridgeConn, sock, mac, fwd, mailbox, mailboxBytes, mailboxSeq, sent, newest>>

DeliverWrite(s) ==
    /\ deliveries[s].st = "writing"
    /\ deliveries' = [deliveries EXCEPT ![s] =
         IF @.todo = <<>> \/ \E c \in @.to : sock[c].closed
         THEN [st |-> "over", to |-> {}, todo |-> <<>>]
         ELSE [@ EXCEPT !.todo = Tail(@)]]
    /\ UNCHANGED <<device, bridgeConn, sock, mac, fwd, mailbox, mailboxBytes, mailboxSeq, sent, newest>>

-----------------------------------------------------------------------------
(* Sockets of the Mac. *)

\* ConnectBridge replaces the socket and does not close the one it had.
ConnectBridge(b) ==
    /\ mac[b] = "none"
    /\ mac' = [mac EXCEPT ![b] = "reading"]
    /\ bridgeConn' = {b}
    /\ UNCHANGED <<device, sock, fwd, deliveries, mailbox, mailboxBytes, mailboxSeq, sent, newest>>

MacSocketBreaks(b) ==
    /\ mac[b] = "reading"
    /\ mac' = [mac EXCEPT ![b] = "closed"]
    /\ UNCHANGED <<device, bridgeConn, sock, fwd, deliveries, mailbox, mailboxBytes, mailboxSeq, sent, newest>>

\* The read loop ends: DisconnectBridge, for the current socket only.
DisconnectBridge(b) ==
    /\ mac[b] = "closed" /\ fwd[b] = {}
    /\ mac' = [mac EXCEPT ![b] = "gone"]
    /\ bridgeConn' = bridgeConn \ {b}
    /\ UNCHANGED <<device, sock, fwd, deliveries, mailbox, mailboxBytes, mailboxSeq, sent, newest>>

\* ForwardFromBridge under RLock: a frame for a device that is unknown or
\* revoked is an error, and readBridgeFrames closes the Mac's socket.
ForwardFromBridge(b, d, size) ==
    /\ mac[b] = "reading" /\ fwd[b] = {} /\ sent < MaxHubFrames
    /\ sent' = sent + 1
    /\ IF device[d].reg = 0 \/ device[d].revoked
       THEN mac' = [mac EXCEPT ![b] = "closed"] /\ UNCHANGED fwd
       ELSE /\ fwd' = [fwd EXCEPT ![b] = {[dev |-> d, size |-> size,
                                           to |-> {c \in device[d].conn : ~sock[c].marked}]}]
            /\ UNCHANGED mac
    /\ UNCHANGED <<device, bridgeConn, sock, deliveries, mailbox, mailboxBytes, mailboxSeq, newest>>

\* The write to the socket read under the lock; its error closes the Mac's socket.
ForwardWrites(b) ==
    /\ \E f \in fwd[b] : f.to # {}
    /\ fwd' = [fwd EXCEPT ![b] = {}]
    /\ mac' = IF mac[b] = "reading" /\ \E f \in fwd[b] : \E c \in f.to : sock[c].closed
              THEN [mac EXCEPT ![b] = "closed"] ELSE mac
    /\ UNCHANGED <<device, bridgeConn, sock, deliveries, mailbox, mailboxBytes, mailboxSeq, sent, newest>>

\* Frames whose eviction frees the bytes needed: the oldest unacknowledged
\* ones, up to the one with which the sum reaches the need.
Evicted(frames, need) ==
    {i \in Waiting(frames) : FrameBytes(frames, {j \in Waiting(frames) : j < i}) < need}

Acked(frames, I) ==     \* the frames at I marked
    [i \in DOMAIN frames |-> IF i \in I THEN [frames[i] EXCEPT !.acked = TRUE] ELSE frames[i]]

\* enqueueMailbox, under the lock again: it does not look at the device.
ForwardStores(b) ==
    \E f \in fwd[b] :
      LET frames == mailbox[f.dev]
          full == mailboxBytes[f.dev] + f.size > HubCap
          out == IF full THEN Evicted(frames, f.size) ELSE {}
      IN  /\ f.to = {}
          /\ fwd' = [fwd EXCEPT ![b] = {}]
          /\ mailboxSeq' = mailboxSeq + 1
          /\ mailbox' = [mailbox EXCEPT ![f.dev] =
                           Append(Acked(frames, out), [cursor |-> mailboxSeq', size |-> f.size, acked |-> FALSE])]
          /\ mailboxBytes' = [mailboxBytes EXCEPT ![f.dev] = @ - FrameBytes(frames, out) + f.size]
          /\ UNCHANGED <<device, bridgeConn, sock, mac, deliveries, sent, newest>>

-----------------------------------------------------------------------------
(* FetchMailbox and AckMailbox. *)

\* The places of the frames a fetch returns, and of those a cursor acknowledges.
FetchMailbox(d, after) == {i \in Waiting(mailbox[d]) : mailbox[d][i].cursor > after}
AckedNow(frames, cursor) == {i \in Waiting(frames) : frames[i].cursor <= cursor}

AckMailbox(d, cursor) ==
    /\ mailbox[d] # <<>>
    /\ mailbox' = [mailbox EXCEPT ![d] = Acked(@, AckedNow(@, cursor))]
    /\ mailboxBytes' = [mailboxBytes EXCEPT ![d] = @ - FrameBytes(mailbox[d], AckedNow(mailbox[d], cursor))]
    /\ UNCHANGED <<device, bridgeConn, sock, mac, fwd, deliveries, mailboxSeq, sent, newest>>

HubNext ==
    \/ \E d \in HubDevices : RegisterDevice(d) \/ RevokeDevice(d)
    \/ \E d \in HubDevices, c \in 1 .. mailboxSeq : AckMailbox(d, c)
    \/ \E s \in Sockets, d \in HubDevices : \/ UpgradeDevice(s, d) \/ ConnectDevice(s, d)
                                            \/ DeviceHandlerEnds(s, d) \/ DeviceSends(s, d)
                                            \/ DeliverSnapshot(s, d)
    \/ \E s \in Sockets : SocketBreaks(s) \/ DeliverWrite(s)
    \/ \E b \in MacSockets : \/ ConnectBridge(b) \/ MacSocketBreaks(b) \/ DisconnectBridge(b)
                             \/ ForwardWrites(b) \/ ForwardStores(b)
                             \/ \E d \in HubDevices, size \in Sizes : ForwardFromBridge(b, d, size)

HubSpec == HubInit /\ [][HubNext]_hubVars

-----------------------------------------------------------------------------
(* Properties. *)

\* The count the eviction is decided by is the sum of the frames that still
\* wait, and stays within the capacity (or is one frame that alone exceeds
\* it), whatever order stores, acknowledgements, evictions and revocations
\* come in: mailboxBytes is kept by differences at four places.
HubBytesExact ==
    \A d \in HubDevices :
      /\ mailboxBytes[d] = FrameBytes(mailbox[d], FetchMailbox(d, 0))
      /\ mailboxBytes[d] <= HubCap \/ Cardinality(FetchMailbox(d, 0)) = 1

\* A device whose newest socket still reads is reached through that socket:
\* the handlers of its earlier sockets, which end later, do not take it away.
NewestSocketReached ==
    \A d \in HubDevices : \A s \in newest[d] :
      sock[s].stage = "reading" => device[d].conn = {s}

\* What the hub keeps of its devices, frames and sockets alike, is exact
\* however the goroutines of their handlers interleave.
HubSound == HubBytesExact /\ NewestSocketReached
=============================================================================
