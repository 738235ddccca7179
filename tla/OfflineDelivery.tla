-------------------------- MODULE OfflineDelivery ---------------------------
(***************************************************************************)
(* Offline delivery of durable milestones to one device, as the Mac bridge   *)
(* does it: the prekey pool and the delivery epochs of PrekeyStore           *)
(* (go-bridge/relay_prekey.go), the event router (relay_offline.go), the     *)
(* bounded outbox (relay_observation.go), the flush after every event and    *)
(* after a reconnect (handlers.go, relay_bridge_client.go), and the rules    *)
(* by which the device applies frames (DeliveryState, relay_reconcile.go).   *)
(*                                                                         *)
(* Every session has its own goroutine that routes its events; they meet in  *)
(* the store's and the outbox's locks only, so reserving a counter and       *)
(* queueing the frame are separate steps.  A frame written to the connection *)
(* may still be lost with it; what the relay stores it delivers in order     *)
(* (RelayMailbox).  The store lives in memory.                               *)
(***************************************************************************)
EXTENDS Naturals, Sequences, FiniteSets, SequencesExt

CONSTANTS
    Routers,      \* the session goroutines that route events
    Batches,      \* upload batches: identifier -> sequence of prekeys
    MaxPrekeys,   \* prekeyMaxCount
    OutboxFrames, \* outboxMaxFrames
    MaxEvents,    \* bound: durable events routed
    MaxRestarts   \* bound: restarts of the bridge process

ASSUME DeliveryAssumption ==
    /\ MaxPrekeys \in Nat /\ OutboxFrames \in Nat \ {0}
    /\ MaxEvents \in Nat /\ MaxRestarts \in Nat
    /\ \A b \in DOMAIN Batches : Batches[b] \in Seq(ToSet(Batches[b]))

VARIABLES
    pool,        \* PrekeyStore.prekeys, the unconsumed ones in upload order
    consumed,    \* the prekeys of the pool marked Consumed
    processed,   \* PrekeyStore.processedBatches
    epochs,      \* PrekeyStore.epochs: key pair, prekey and LastCounter of each
    router,      \* goroutine -> where routeOfflineEvent is, with its frame
    outbox,      \* DeviceOutbox.entries
    overflowed,  \* DeviceOutbox.overflowed
    link,        \* the connection to the relay: "down", "connected" (outboxes
                 \* not flushed yet) or "up"
    wire,        \* frames written to the connection, not yet read by the relay
    mailbox,     \* frames the relay stored, in order
    applied,     \* how many of them the device has seen
    counter,     \* DeliveryState.LastCommittedCounter of the device
    reconcile,   \* DeliveryState.ReconcileState of the device
    events,      \* durable events routed so far
    restarts,    \* restarts so far
    begun,       \* history: the prekeys of all epochs ever begun; an epoch's
                 \* key pair is its place here
    sealed,      \* history: the frames encrypted, in order
    queued,      \* history: the frames the outbox accepted, in order
    sent         \* history: the frames written to a connection, in order

store == <<pool, consumed, processed, epochs, begun>>
line == <<link, wire, mailbox, sent>>
device == <<applied, counter, reconcile>>
vars == <<store, router, outbox, overflowed, line, device,
          events, restarts, sealed, queued>>

NoFrame == [key |-> 0, counter |-> 0]
Idle == [at |-> "idle", frame |-> NoFrame]
At(place) == [at |-> place, frame |-> NoFrame]

-----------------------------------------------------------------------------
Init ==
    /\ pool = << >> /\ consumed = {} /\ processed = {} /\ epochs = << >>
    /\ router = [r \in Routers |-> Idle]
    /\ outbox = << >> /\ overflowed = FALSE
    /\ link = "down" /\ wire = << >> /\ mailbox = << >> /\ sent = << >>
    /\ applied = 0 /\ counter = 0 /\ reconcile = "clean"
    /\ events = 0 /\ restarts = 0
    /\ begun = << >> /\ sealed = << >> /\ queued = << >>

(* UploadPrekeys: a batch seen before changes nothing; a batch that would    *)
(* exceed the limit or repeats a prekey is refused as a whole.               *)
UploadPrekeys(b) ==
    /\ b \notin processed
    /\ Len(pool) + Len(Batches[b]) <= MaxPrekeys
    /\ IsInjective(Batches[b])
    /\ ToSet(Batches[b]) \cap (ToSet(pool) \union consumed) = {}
    /\ pool' = pool \o Batches[b]
    /\ processed' = processed \union {b}
    /\ UNCHANGED <<consumed, epochs, begun, router, outbox, overflowed, line,
                   device, events, restarts, sealed, queued>>

(* routeRelayOfflineEvent up to the first lock of ReserveNextFrameCounter:    *)
(* is there an epoch to append to?  Epochs are never sealed by the bridge.   *)
RouteEvent(r) ==
    /\ router[r] = Idle
    /\ events < MaxEvents
    /\ events' = events + 1
    /\ router' = [router EXCEPT ![r] =
                    At(IF epochs = << >> THEN "consume" ELSE "reserve")]
    /\ UNCHANGED <<store, outbox, overflowed, line, device, restarts, sealed, queued>>

(* ConsumePrekey: take the first unconsumed prekey and begin an epoch with   *)
(* it; without one the event is not sent (only marked for a later sync).     *)
ConsumePrekey(r) ==
    /\ router[r].at = "consume"
    /\ IF pool = << >>
       THEN /\ router' = [router EXCEPT ![r] = At("flush")]
            /\ UNCHANGED store
       ELSE /\ router' = [router EXCEPT ![r] = At("reserve")]
            /\ pool' = Tail(pool)
            /\ consumed' = consumed \union {Head(pool)}
            /\ begun' = Append(begun, Head(pool))
            /\ epochs' = Append(epochs, [key |-> Len(begun'), prekey |-> Head(pool), last |-> 0])
            /\ UNCHANGED processed
    /\ UNCHANGED <<outbox, overflowed, line, device, events, restarts, sealed, queued>>

(* The rest of ReserveNextFrameCounter, under the lock again: the newest     *)
(* epoch's next counter, under which the router encrypts the event.          *)
ReserveStale(r) ==
    LET epoch == epochs[Len(epochs)]
        frame == [key |-> epoch.key, counter |-> epoch.last + 1]
    IN  /\ router[r].at = "reserve"
        /\ epochs' = [epochs EXCEPT ![Len(epochs)].last = Len(queued) + 1]
        /\ router' = [router EXCEPT ![r] = [at |-> "enqueue", frame |-> frame]]
        /\ sealed' = Append(sealed, frame)
        /\ UNCHANGED <<pool, consumed, processed, begun, outbox, overflowed, line,
                       device, events, restarts, queued>>
ReserveNextFrameCounter(r) ==
    LET epoch == epochs[Len(epochs)]
        frame == [key |-> epoch.key, counter |-> epoch.last + 1]
    IN  /\ router[r].at = "reserve"
        /\ epochs' = [epochs EXCEPT ![Len(epochs)].last = @ + 1]
        /\ router' = [router EXCEPT ![r] = [at |-> "enqueue", frame |-> frame]]
        /\ sealed' = Append(sealed, frame)
        /\ UNCHANGED <<pool, consumed, processed, begun, outbox, overflowed, line,
                       device, events, restarts, queued>>

(* OutboxManager.Enqueue: an overflowed or full outbox refuses the frame,    *)
(* whose counter is already taken.                                           *)
Enqueue(r) ==
    /\ router[r].at = "enqueue"
    /\ IF overflowed \/ Len(outbox) >= OutboxFrames
       THEN overflowed' = TRUE /\ UNCHANGED <<outbox, queued>>
       ELSE /\ outbox' = Append(outbox, router[r].frame)
            /\ queued' = Append(queued, router[r].frame)
            /\ UNCHANGED overflowed
    /\ router' = [router EXCEPT ![r] = At("flush")]
    /\ UNCHANGED <<store, line, device, events, restarts, sealed>>

(* OutboxManager.Flush, which holds the outbox's lock while it sends: all    *)
(* entries go out and the overflow mark is cleared, or the connection fails  *)
(* after n of them and the rest is kept.                                     *)
Written(n) ==
    /\ wire' = wire \o SubSeq(outbox, 1, n)
    /\ sent' = sent \o SubSeq(outbox, 1, n)
FlushKeepingAll ==
    \/ /\ link # "down" \/ outbox = << >>
       /\ Written(Len(outbox))
       /\ outbox' = << >>
       /\ overflowed' = FALSE
       /\ UNCHANGED link
    \/ \E n \in 0 .. Len(outbox) - 1 :
          /\ n > 0 => link # "down"
          /\ Written(n)
          /\ link' = "down"
          /\ UNCHANGED <<outbox, overflowed>>
Flush ==
    \/ /\ link # "down" \/ outbox = << >>
       /\ Written(Len(outbox))
       /\ outbox' = << >>
       /\ overflowed' = FALSE
       /\ UNCHANGED link
    \/ \E n \in 0 .. Len(outbox) - 1 :
          /\ n > 0 => link # "down"
          /\ Written(n)
          /\ link' = "down"
          /\ outbox' = SubSeq(outbox, n + 1, Len(outbox))
          /\ UNCHANGED overflowed

(* The end of routeRelayOfflineEvent.                                        *)
RouterFlush(r) ==
    /\ router[r].at = "flush"
    /\ Flush
    /\ router' = [router EXCEPT ![r] = Idle]
    /\ UNCHANGED <<store, mailbox, device, events, restarts, sealed, queued>>

(* The relay reads a frame and stores it, also one that was under way when    *)
(* the connection failed.                                                    *)
RelayStores ==
    /\ wire # << >>
    /\ mailbox' = Append(mailbox, Head(wire))
    /\ wire' = Tail(wire)
    /\ UNCHANGED <<store, router, outbox, overflowed, link, sent, device, events, restarts, sealed, queued>>

(* The relay client loses its connection; it connects again and flushes the  *)
(* outboxes before it starts reading.  What the relay has not read from the  *)
(* old connection by then is lost.                                           *)
LinkDown ==
    /\ link # "down"
    /\ link' = "down"
    /\ UNCHANGED <<store, router, outbox, overflowed, wire, mailbox, sent, device, events, restarts, sealed, queued>>

Connect ==
    /\ link = "down"
    /\ link' = "connected"
    /\ wire' = << >>
    /\ UNCHANGED <<store, router, outbox, overflowed, mailbox, sent, device, events, restarts, sealed, queued>>

ReconnectWithoutFlush ==
    /\ link = "connected"
    /\ link' = "up"
    /\ UNCHANGED <<store, router, outbox, overflowed, wire, mailbox, sent, device, events, restarts, sealed, queued>>
FlushRelayOutboxes ==
    /\ link = "connected"
    /\ \/ Flush /\ link' = "down"
       \/ /\ Written(Len(outbox))
          /\ outbox' = << >>
          /\ overflowed' = FALSE
          /\ link' = "up"
    /\ UNCHANGED <<store, router, mailbox, device, events, restarts, sealed, queued>>

-----------------------------------------------------------------------------
(* DeliveryState.ApplyFrame on the next frame of the mailbox: in sequence it  *)
(* is committed, otherwise the device must reconcile; while it must, frames  *)
(* are refused.                                                              *)
ApplyAnyLater ==
    /\ applied < Len(mailbox)
    /\ applied' = applied + 1
    /\ IF reconcile # "required" /\ mailbox[applied'].counter > counter
       THEN counter' = mailbox[applied'].counter /\ UNCHANGED reconcile
       ELSE reconcile' = "required" /\ UNCHANGED counter
    /\ UNCHANGED <<store, router, outbox, overflowed, line, events, restarts, sealed, queued>>
ApplyFrame ==
    /\ applied < Len(mailbox)
    /\ applied' = applied + 1
    /\ IF reconcile # "required" /\ mailbox[applied'].counter = counter + 1
       THEN counter' = counter + 1 /\ UNCHANGED reconcile
       ELSE reconcile' = "required" /\ UNCHANGED counter
    /\ UNCHANGED <<store, router, outbox, overflowed, line, events, restarts, sealed, queued>>

(* StartReconcile, then CompleteReconcile with the chain head the bridge      *)
(* answers.  As no epoch is ever sealed that is the empty head, which the    *)
(* device takes for none (its counter stays) or for one that ends at 0.      *)
StartReconcile ==
    /\ reconcile = "required"
    /\ reconcile' = "in_progress"
    /\ UNCHANGED <<store, router, outbox, overflowed, line, applied, counter,
                   events, restarts, sealed, queued>>

CompleteReconcile ==
    /\ reconcile = "in_progress"
    /\ reconcile' = "completed"
    /\ counter' \in {counter, 0}
    /\ UNCHANGED <<store, router, outbox, overflowed, line, applied,
                   events, restarts, sealed, queued>>

(* The bridge process restarts: everything it kept in memory is gone.        *)
Restart ==
    /\ restarts < MaxRestarts
    /\ restarts' = restarts + 1
    /\ pool' = << >> /\ consumed' = {} /\ processed' = {} /\ epochs' = << >>
    /\ router' = [r \in Routers |-> Idle]
    /\ outbox' = << >> /\ overflowed' = FALSE
    /\ queued' = sent
    /\ link' = "down"
    /\ UNCHANGED <<begun, wire, mailbox, sent, device, events, sealed>>

RouterStep(r) ==
    ConsumePrekey(r) \/ ReserveNextFrameCounter(r) \/ Enqueue(r) \/ RouterFlush(r)

Next ==
    \/ \E b \in DOMAIN Batches : UploadPrekeys(b)
    \/ \E r \in Routers : RouteEvent(r) \/ RouterStep(r)
    \/ LinkDown \/ Connect \/ FlushRelayOutboxes \/ RelayStores
    \/ ApplyFrame \/ StartReconcile \/ CompleteReconcile
    \/ Restart

(* Goroutines run, and the client keeps reconnecting with a bounded backoff. *)
Fairness ==
    /\ \A r \in Routers : WF_vars(RouterStep(r))
    /\ WF_vars(Connect) /\ WF_vars(FlushRelayOutboxes)

Spec == Init /\ [][Next]_vars /\ Fairness

-----------------------------------------------------------------------------
Frame == [key: Nat, counter: Nat]

(* Types of the store, the outbox and the device's state; the pool and the   *)
(* outbox stay within their limits.                                          *)
TypeOK ==
    /\ pool \in Seq(UNION {ToSet(Batches[b]) : b \in DOMAIN Batches})
    /\ Len(pool) <= MaxPrekeys
    /\ processed \subseteq DOMAIN Batches
    /\ \A i \in DOMAIN epochs : epochs[i].key \in 1 .. Len(begun)
    /\ \A r \in Routers :
          /\ router[r].at \in {"idle", "consume", "reserve", "enqueue", "flush"}
          /\ router[r].frame \in Frame
    /\ outbox \in Seq(Frame) /\ Len(outbox) <= OutboxFrames
    /\ overflowed \in BOOLEAN
    /\ link \in {"down", "connected", "up"}
    /\ wire \in Seq(Frame) /\ mailbox \in Seq(Frame) /\ applied \in 0 .. Len(mailbox)
    /\ counter \in Nat
    /\ reconcile \in {"clean", "required", "in_progress", "completed"}

(* Under one epoch key every counter is used for exactly one frame and none  *)
(* is skipped: the frames encrypted with a key carry 1, 2, ... in the order  *)
(* of the reservations, however the goroutines interleave, and a restart     *)
(* never continues an old key.  (The counter is the nonce of the cipher.)    *)
CountersDense ==
    \A n \in DOMAIN sealed :
        sealed[n].counter = Cardinality({i \in 1 .. n : sealed[i].key = sealed[n].key})

(* A prekey is consumed for at most one epoch while the process lives, and   *)
(* never while it is still offered: uploads that are repeated or overlap do  *)
(* not put it back.                                                          *)
PrekeyOnce ==
    /\ \A i, j \in DOMAIN epochs : epochs[i].prekey = epochs[j].prekey => i = j
    /\ \A i \in DOMAIN epochs : epochs[i].prekey \notin ToSet(pool)
    /\ IsInjective(pool)

(* Both: no nonce and no prekey serves twice.                                *)
EpochsSound == CountersDense /\ PrekeyOnce

(* A flush that fails in the middle neither repeats, loses nor reorders a    *)
(* frame: what was sent followed by what is still queued is what the outbox  *)
(* accepted.                                                                 *)
FlushExactlyOnce == sent \o outbox = queued

(* The device never reconciles for nothing: as long as what reached the      *)
(* relay is what the bridge encrypted so far, in order, every frame is       *)
(* committed.  Connection failures by themselves cause no gap.               *)
NoSpuriousReconcile == IsPrefix(mailbox, sealed) => reconcile = "clean" /\ counter = applied

(* No loss goes unnoticed: while the device sees no need to reconcile, what  *)
(* it committed is exactly what was encrypted first, although frames are     *)
(* lost with a connection, refused by a full outbox or overtake each other.  *)
LossIsNoticed ==
    reconcile = "clean" => SubSeq(mailbox, 1, applied) = SubSeq(sealed, 1, applied)

(* Both, as long as the bridge has begun one epoch only (no two sessions     *)
(* raced for the first, no restart lost it): the device reconciles when, and *)
(* only when, a frame did not reach it in its turn.  DeliveryState compares  *)
(* counters, so frames of a second epoch are out of sequence to it.          *)
ReconcileExact == Len(begun) <= 1 => NoSpuriousReconcile /\ LossIsNoticed

(* Once the connection stays up the outbox empties: a frame left behind by a *)
(* failed flush is picked up by the reconnect even if no event follows.      *)
OutboxDrains == <>[](link # "down") => []<>(outbox = << >>)

-----------------------------------------------------------------------------
(* What documents and comments state and the code does not keep (README,      *)
(* section 5).                                                               *)

(* docs/protocol/relay-v1.md, 9.4: after an overflow the bridge must not      *)
(* append ordinary frames after a counter gap.                               *)
NoFrameAfterGap ==
    \A i \in DOMAIN sent :
        sent[i].counter > 1 =>
            \E j \in 1 .. i - 1 : sent[j] = [sent[i] EXCEPT !.counter = @ - 1]

(* OutboxManager.Drain is documented to return the entries sorted by counter. *)
OutboxInCounterOrder ==
    \A i, j \in DOMAIN outbox :
        i < j /\ outbox[i].key = outbox[j].key => outbox[i].counter < outbox[j].counter

(* ReserveNextFrameCounter consumes a prekey only if there is no epoch to     *)
(* append to.                                                                *)
ConsumesOnlyWithoutEpoch ==
    [][Len(epochs') > Len(epochs) => epochs = << >>]_vars

(* relay-v1.md, 8.2: an epoch is immutable once its frames were submitted;    *)
(* later data consumes another prekey.                                       *)
EpochImmutableOnceSubmitted ==
    [][\A i \in DOMAIN epochs \cap DOMAIN epochs' :
          (\E f \in ToSet(sent) : f.key = epochs[i].key) => epochs'[i] = epochs[i]]_vars
=============================================================================
