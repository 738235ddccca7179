---------------------------- MODULE RelayMailbox ----------------------------
(***************************************************************************)
(* The mailbox of the relay server: the tables route_devices and           *)
(* mailbox_frames of relay-server/internal/relay/store.go and the HTTP      *)
(* handlers that read and change them (register, revoke, fetch, ack), for   *)
(* one route (every statement is keyed by the route).                       *)
(*                                                                         *)
(* The store runs on one SQLite connection (SetMaxOpenConns(1)), so a Store *)
(* method is one atomic step (FetchFrames deletes and selects in two        *)
(* statements, but its SELECT repeats the expiry condition, so nothing shows *)
(* in between).  A handler is not: it authenticates the device in one step   *)
(* and touches the mailbox in a later one, and anything may happen between. *)
(***************************************************************************)
EXTENDS Naturals, FiniteSets, Lists

CONSTANTS
    Devices,      \* the device identifiers of the route
    MaxBytes,     \* Config.MaxMailboxBytes
    Sizes,        \* the sizes an envelope may have
    Limits,       \* the values of the fetch's limit after FetchFrames clamps it
    TTL,          \* Config.MailboxTTL, in clock ticks
    MaxTime,      \* bound: the clock stops here
    MaxAppends    \* bound: envelopes appended to one mailbox

ASSUME MailboxAssumption ==
    /\ MaxBytes \in Nat /\ TTL \in Nat \ {0}
    /\ MaxTime \in Nat /\ MaxAppends \in Nat
    /\ Sizes \subseteq Nat \ {0}
    /\ Limits \subseteq Nat \ {0}

VARIABLES
    now,        \* the wall clock the handlers read
    status,     \* device -> "none" (no row), "active" or "revoked" (revoked_at set)
    next,       \* device -> route_devices.next_cursor
    arrived,    \* device -> envelopes appended so far; the latest one's number
    mail,       \* device -> its rows of mailbox_frames
    request,    \* device -> the request that passed authentication and has not
                \*           reached the store yet (NoRequest when there is none)
    position,   \* device -> the cursor the device fetches after (kept by the device)
    served,     \* device -> history: the <<cursor, envelope>> a fetch returned
    evicted     \* device -> history: the cursors deleted to make room

vars == <<now, status, next, arrived, mail, request, position, served, evicted>>

-----------------------------------------------------------------------------
(* A row of mailbox_frames.  Envelopes are opaque: they are numbered by     *)
(* device and order of arrival, so two appends never carry the same one.    *)
Frame == [cursor: Nat, envelope: Nat, size: Nat, expires: Nat, acked: BOOLEAN]

NoRequest == [op |-> "none", arg |-> 0, limit |-> 0]
Request == [op: {"none", "fetch", "ack"}, arg: Nat, limit: Nat]

Unacked(S) == {f \in S : ~f.acked}
Expired(S) == {f \in S : f.expires <= now}
Cursors(S) == {f.cursor : f \in S}

(* SELECT SUM(envelope_size) over rows.                                     *)
Bytes(S) == Total([f \in S |-> f.size], S)

(* The loop deletes the oldest pending row while what is left and the new   *)
(* envelope exceed the capacity: a row survives when the loop stops at it   *)
(* or before it.                                                            *)
From(S, c) == {f \in S : f.cursor >= c}
EvictNewestFirst(S, size) ==
    {f \in S : Bytes({g \in S : g.cursor <= f.cursor}) + size <= MaxBytes}
EvictIgnoringNewRow(S, size) ==
    {f \in S : \E g \in S : g.cursor <= f.cursor /\ Bytes(From(S, g.cursor)) <= MaxBytes}
KeptAfterEviction(S, size) ==
    {f \in S : \E g \in S : g.cursor <= f.cursor /\ Bytes(From(S, g.cursor)) + size <= MaxBytes}

(* ORDER BY cursor LIMIT k.                                                 *)
UnorderedLimit(S, k) ==
    {f \in S : Cardinality({g \in S : g.cursor > f.cursor}) < k}
FirstByCursor(S, k) ==
    {f \in S : Cardinality({g \in S : g.cursor < f.cursor}) < k}

-----------------------------------------------------------------------------
Init ==
    /\ now = 0
    /\ status = [d \in Devices |-> "none"]
    /\ next = [d \in Devices |-> 1]
    /\ arrived = [d \in Devices |-> 0]
    /\ mail = [d \in Devices |-> {}]
    /\ request = [d \in Devices |-> NoRequest]
    /\ position = [d \in Devices |-> 0]
    /\ served = [d \in Devices |-> {}]
    /\ evicted = [d \in Devices |-> {}]

Tick ==
    /\ now < MaxTime
    /\ now' = now + 1
    /\ UNCHANGED <<status, next, arrived, mail, request, position, served, evicted>>

(* RegisterDevice inserts the row or, on conflict, replaces the credential  *)
(* and clears revoked_at; next_cursor is not in the update list.  The       *)
(* device that pairs again either kept its cursor or starts from nothing.   *)
RegisterReplacing(d) ==
    /\ status' = [status EXCEPT ![d] = "active"]
    /\ next' = [next EXCEPT ![d] = 1]
    /\ \E p \in {0, position[d]} : position' = [position EXCEPT ![d] = p]
    /\ UNCHANGED <<now, arrived, mail, request, served, evicted>>
RegisterDevice(d) ==
    /\ status' = [status EXCEPT ![d] = "active"]
    /\ \E p \in {0, position[d]} : position' = [position EXCEPT ![d] = p]
    /\ UNCHANGED <<now, next, arrived, mail, request, served, evicted>>

(* RevokeDevice: mark the row and delete the queued frames, in one          *)
(* transaction; a device that is not active is reported as not found.       *)
RevokeKeepingFrames(d) ==
    /\ status[d] = "active"
    /\ status' = [status EXCEPT ![d] = "revoked"]
    /\ UNCHANGED <<now, next, arrived, mail, request, position, served, evicted>>
RevokeDevice(d) ==
    /\ status[d] = "active"
    /\ status' = [status EXCEPT ![d] = "revoked"]
    /\ mail' = [mail EXCEPT ![d] = {}]
    /\ UNCHANGED <<now, next, arrived, request, position, served, evicted>>

(* AppendFrame fails for an envelope larger than the whole mailbox and for  *)
(* a destination that is not active.                                        *)
CanAppend(d, size) == size <= MaxBytes /\ status[d] = "active"

(* When an envelope appended now expires.                                   *)
ExpiresAt == now + TTL

(* AppendFrame: drop expired and acknowledged rows, evict the oldest        *)
(* pending rows until the envelope fits, insert it under next_cursor.       *)
AppendFrame(d, size) ==
    LET live == Unacked(mail[d]) \ Expired(mail[d])
        kept == KeptAfterEviction(live, size)
        row  == [cursor |-> next[d], envelope |-> arrived[d] + 1, size |-> size,
                 expires |-> ExpiresAt, acked |-> FALSE]
    IN  /\ CanAppend(d, size)
        /\ arrived[d] < MaxAppends
        /\ mail' = [mail EXCEPT ![d] = kept \union {row}]
        /\ next' = [next EXCEPT ![d] = @ + 1]
        /\ arrived' = [arrived EXCEPT ![d] = @ + 1]
        /\ evicted' = [evicted EXCEPT ![d] = @ \union Cursors(live \ kept)]
        /\ UNCHANGED <<now, status, request, position, served>>

(* handleFetchMailbox and handleAckMailbox, up to authenticateDevice.  The   *)
(* device asks for what follows its position; it acknowledges a cursor it   *)
(* has reached (the handler refuses through = 0).                           *)
AuthenticateFetch(d, limit) ==
    /\ request[d] = NoRequest
    /\ status[d] = "active"
    /\ request' = [request EXCEPT ![d] =
                     [op |-> "fetch", arg |-> position[d], limit |-> limit]]
    /\ UNCHANGED <<now, status, next, arrived, mail, position, served, evicted>>

AuthenticateAck(d, through) ==
    /\ request[d] = NoRequest
    /\ status[d] = "active"
    /\ through \in 1 .. position[d]
    /\ request' = [request EXCEPT ![d] =
                     [op |-> "ack", arg |-> through, limit |-> 0]]
    /\ UNCHANGED <<now, status, next, arrived, mail, position, served, evicted>>

(* FetchFrames: delete the expired rows, return the first pending ones      *)
(* after the given cursor.  The device moves its position to the last one   *)
(* unless it re-registered from nothing while the request was under way.    *)
FetchFrames(d) ==
    LET rows  == mail[d] \ Expired(mail[d])
        batch == FirstByCursor({f \in Unacked(rows) : f.cursor > request[d].arg},
                               request[d].limit)
    IN  /\ request[d].op = "fetch"
        /\ mail' = [mail EXCEPT ![d] = rows]
        /\ served' = [served EXCEPT ![d] =
                        @ \union {<<f.cursor, f.envelope>> : f \in batch}]
        /\ IF position[d] = request[d].arg /\ batch # {}
           THEN \E last \in batch :
                   /\ \A f \in batch : f.cursor <= last.cursor
                   /\ position' = [position EXCEPT ![d] = last.cursor]
           ELSE position' = position
        /\ request' = [request EXCEPT ![d] = NoRequest]
        /\ UNCHANGED <<now, status, next, arrived, evicted>>

(* AckFrames: mark every pending row up to the cursor.                       *)
AckFrames(d) ==
    /\ request[d].op = "ack"
    /\ mail' = [mail EXCEPT ![d] =
                  {[f EXCEPT !.acked = f.acked \/ f.cursor <= request[d].arg] : f \in @}]
    /\ request' = [request EXCEPT ![d] = NoRequest]
    /\ UNCHANGED <<now, status, next, arrived, position, served, evicted>>

(* ExpireFrames, run by the cleanup ticker: delete expired and acknowledged *)
(* rows of every device.                                                    *)
ExpireFrames ==
    /\ mail' = [d \in Devices |-> Unacked(mail[d]) \ Expired(mail[d])]
    /\ UNCHANGED <<now, status, next, arrived, request, position, served, evicted>>

Next ==
    \/ Tick
    \/ ExpireFrames
    \/ \E d \in Devices :
          \/ RegisterDevice(d)
          \/ RevokeDevice(d)
          \/ \E size \in Sizes : AppendFrame(d, size)
          \/ \E limit \in Limits : AuthenticateFetch(d, limit)
          \/ \E through \in 1 .. MaxAppends : AuthenticateAck(d, through)
          \/ FetchFrames(d)
          \/ AckFrames(d)

Spec == Init /\ [][Next]_vars

-----------------------------------------------------------------------------
(* The types of the tables and of the devices' requests.                    *)
TypeOK ==
    /\ now \in Nat
    /\ status \in [Devices -> {"none", "active", "revoked"}]
    /\ next \in [Devices -> Nat]
    /\ arrived \in [Devices -> Nat]
    /\ mail \in [Devices -> SUBSET Frame]
    /\ request \in [Devices -> Request]
    /\ position \in [Devices -> Nat]
    /\ served \in [Devices -> SUBSET (Nat \X Nat)]
    /\ evicted \in [Devices -> SUBSET Nat]

(* A device that always fetches after the last cursor it was given misses   *)
(* nothing that is still stored: a row at or below its position was served  *)
(* to it.  This needs the ordered, limited query of FetchFrames together     *)
(* with cursors that keep growing when the device is revoked and registered *)
(* again.                                                                   *)
NoFrameSkipped ==
    \A d \in Devices : \A f \in mail[d] :
        f.cursor <= position[d] => <<f.cursor, f.envelope>> \in served[d]

(* A cursor names one envelope for the life of the database: what was ever  *)
(* served or is stored under a cursor is the same envelope, also across     *)
(* RevokeDevice and RegisterDevice.                                         *)
CursorNamesOneEnvelope ==
    \A d \in Devices :
        LET known == served[d] \union {<<f.cursor, f.envelope>> : f \in mail[d]}
        IN  /\ \A k \in known : k[1] < next[d]
            /\ \A k, l \in known : k[1] = l[1] => k = l
            /\ \A f, g \in mail[d] : f.cursor = g.cursor => f = g

(* Acknowledged rows are rows the device has been given, although the ack   *)
(* is applied after authentication and rows arrive in between.              *)
AckedWereServed ==
    \A d \in Devices : \A f \in mail[d] :
        f.acked => <<f.cursor, f.envelope>> \in served[d]

(* What AppendFrame evicts is always older than everything pending, so the  *)
(* device sees a loss as a missing prefix and never as a hole.              *)
EvictionIsAPrefix ==
    \A d \in Devices : \A c \in evicted[d] : \A f \in Unacked(mail[d]) :
        c < f.cursor

(* The pending rows of a device never exceed MaxMailboxBytes.               *)
WithinCapacity ==
    \A d \in Devices : Bytes(Unacked(mail[d])) <= MaxBytes

(* Rows are only stored for an active device.  AppendFrame has to see to it  *)
(* itself: the reader of a bridge asks DeviceActive long before it appends,  *)
(* and a row left behind by a revocation would be served to whoever          *)
(* registers under the same identifier next.                                 *)
RowsBelongToActive ==
    \A d \in Devices : status[d] # "active" => mail[d] = {}

(* While a device is revoked nothing is served to it, although a fetch that *)
(* was authenticated before the revocation still reaches the store.         *)
RevokedServesNothing ==
    [][\A d \in Devices : status[d] = "revoked" => served'[d] = served[d]]_vars
=============================================================================
