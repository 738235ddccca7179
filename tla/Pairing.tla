------------------------------- MODULE Pairing -------------------------------
(***************************************************************************)
(* Pairing a phone with the bridge.  The Mac application creates a pairing *)
(* session and polls, approves or rejects it over the management API       *)
(* (management_api.go); the phone claims it over /pairing                  *)
(* (pairing_handler.go), guarded by a gate that counts attempts            *)
(* (pairing_hardening.go), or leaves a sealed claim with the relay         *)
(* (relay_first_pairing.go, and the relay's store.go).  The approval puts  *)
(* a fresh token into the device store and hands it to the claimer.        *)
(*                                                                         *)
(* A token is named by the session it was made for.  A pairing that was    *)
(* never created is an id that a phone made up.  All phones share one      *)
(* source address.                                                         *)
(***************************************************************************)
EXTENDS Naturals, FiniteSets

CONSTANTS Pairings,      \* pairing session ids
          Phones,        \* connections to /pairing, each used once
          RelayPhone,    \* the device that claims through the relay
          Requests,      \* requests to the management API, each used once
          FailLimit,     \* perPairingFailLimit
          MaxPairingBuckets, \* maxPairingBuckets
          MaxActive,     \* globalConcurrentClaims
          SourceLimit    \* sourceIPLimit

ASSUME PairingAssumption ==
    /\ FailLimit \in Nat \ {0} /\ MaxActive \in Nat \ {0} /\ SourceLimit \in Nat \ {0}
    /\ MaxPairingBuckets \in Nat \ {0}
    /\ IsFiniteSet(Phones) /\ RelayPhone \notin Phones

VARIABLES session,  \* pairing -> the PairingSession, kept while anyone holds it
          byID,     \* the sessions in MemoryPairingStore
          gate,     \* [active, fails, source]: pairingAttemptGate
          phone,    \* connection -> [pc, pairing, right]
          conns,    \* pairing -> the pending connection: none or one
          request,  \* management request -> [pc, pairing]
          claimRow, \* pairing -> state of the claim at the relay
          stored,   \* sessions whose token the device store accepted
          got,      \* [who, token]: tokens that reached a device
          wrong     \* pairing -> wrong codes compared while it could be claimed and the
                    \* gate had room to count them

pairingVars == <<session, byID, gate, phone, conns, request, claimRow, stored, got, wrong>>

NoSession == [state |-> "none", by |-> {}, relay |-> FALSE, expired |-> FALSE]

PairingInit ==
    /\ session = [p \in Pairings |-> NoSession]
    /\ byID = {}
    /\ gate = [active |-> 0, fails |-> [p \in Pairings |-> 0], source |-> 0]
    /\ phone = [h \in Phones |-> [pc |-> "new", pairing |-> {}, right |-> FALSE]]
    /\ conns = [p \in Pairings |-> {}]
    /\ request = [q \in Requests |-> [pc |-> "new", pairing |-> {}]]
    /\ claimRow = [p \in Pairings |-> "none"]
    /\ stored = {}
    /\ got = {}
    /\ wrong = [p \in Pairings |-> 0]

-----------------------------------------------------------------------------
(* The transitions of PairingSession, each under its mutex.                *)

Claimable(p) == session[p].state = "created" /\ ~session[p].expired

Claim(p, who) == /\ Claimable(p)
                 /\ session' = [session EXCEPT ![p].state = "claimed", ![p].by = {who}]

Approve(p) == /\ session[p].state = "claimed"
              /\ session' = [session EXCEPT ![p].state = "approved"]

Reject(p) == /\ session[p].state = "claimed"
             /\ session' = [session EXCEPT ![p].state = "rejected"]

(* Complete refuses any other state, and its error is not looked at.       *)
Complete(p) ==
    session' = [session EXCEPT ![p].state = IF @ = "approved" THEN "completed" ELSE @]

(* Five minutes pass.  The window of the failures is as long as the life   *)
(* of a session, so a failure leaves the window only after the session has *)
(* expired.                                                                *)
Expires(p) ==
    /\ session[p].state # "none" /\ ~session[p].expired
    /\ session' = [session EXCEPT ![p].expired = TRUE]
    /\ UNCHANGED <<byID, gate, phone, conns, request, claimRow, stored, got, wrong>>

FailureLapses(p) ==
    /\ session[p].expired \/ session[p].state = "none"
    /\ gate.fails[p] > 0
    /\ gate' = [gate EXCEPT !.fails[p] = @ - 1]
    /\ UNCHANGED <<session, byID, phone, conns, request, claimRow, stored, got, wrong>>

AttemptLapses ==
    /\ gate.source > 0
    /\ gate' = [gate EXCEPT !.source = @ - 1]
    /\ UNCHANGED <<session, byID, phone, conns, request, claimRow, stored, got, wrong>>

-----------------------------------------------------------------------------
(* The handler of /pairing.                                                *)

At(h, pc) == phone[h].pc = pc

Goes(h, pc) == phone' = [phone EXCEPT ![h].pc = pc]

(* Returning runs the deferred release of the gate.                        *)
Released(g) == [g EXCEPT !.active = IF @ = 0 THEN 0 ELSE @ - 1]

(* The claim is read: anything but a complete claim ends the handler       *)
(* before the gate.                                                        *)
BadClaim(h) ==
    /\ At(h, "new")
    /\ Goes(h, "ended")
    /\ UNCHANGED <<session, byID, gate, conns, request, claimRow, stored, got, wrong>>

(* acquire: the attempt counts for its source even if no slot is free.     *)
Acquire(h) ==
    \E p \in Pairings, right \in BOOLEAN :
        /\ At(h, "new")
        /\ \/ /\ gate.source < SourceLimit /\ gate.active < MaxActive
              /\ gate' = [gate EXCEPT !.source = @ + 1, !.active = @ + 1]
              /\ phone' = [phone EXCEPT ![h] = [pc |-> "acquired", pairing |-> {p}, right |-> right]]
           \/ /\ gate.source < SourceLimit /\ gate.active >= MaxActive
              /\ gate' = [gate EXCEPT !.source = @ + 1]
              /\ Goes(h, "ended")
           \/ /\ gate.source >= SourceLimit
              /\ Goes(h, "ended")
              /\ UNCHANGED gate
        /\ UNCHANGED <<session, byID, conns, request, claimRow, stored, got, wrong>>

FailureUncounted(g, p) == g

(* A pairing has a bucket while one of its failures is in the window       *)
(* (sweepStale).  There are so many buckets, and no more.                  *)
NoRoom(g, p) ==
    /\ g.fails[p] = 0
    /\ Cardinality({o \in Pairings : g.fails[o] > 0}) >= MaxPairingBuckets

(* recordPairingFailure: not counted without room for a bucket; exhausted  *)
(* at the limit.                                                           *)
RecordFailure(g, p) ==
    IF NoRoom(g, p) THEN g ELSE [g EXCEPT !.fails[p] = IF @ < FailLimit THEN @ + 1 ELSE @]

Exhausted(g, p) == g.fails[p] >= FailLimit

(* The session is looked up by its id; an unknown id counts as a failure.  *)
LookUp(h) ==
    \E p \in phone[h].pairing :
        /\ At(h, "acquired")
        /\ \/ /\ p \in byID
              /\ Goes(h, "found")
              /\ UNCHANGED gate
           \/ /\ p \notin byID
              /\ Goes(h, "ended")
              /\ gate' = Released(RecordFailure(gate, p))
        /\ UNCHANGED <<session, byID, conns, request, claimRow, stored, got, wrong>>

(* The manual code is compared.  A wrong one is recorded, and the one that *)
(* reaches the limit goes on to delete the session.                        *)
WrongCode(h) ==
    \E p \in phone[h].pairing :
        /\ At(h, "found") /\ ~phone[h].right
        /\ LET g == RecordFailure(gate, p) IN
           IF Exhausted(g, p)
           THEN Goes(h, "exhausted") /\ gate' = g
           ELSE Goes(h, "ended") /\ gate' = Released(g)
        /\ wrong' = [wrong EXCEPT ![p] = IF Claimable(p) /\ ~NoRoom(gate, p) THEN @ + 1 ELSE @]
        /\ UNCHANGED <<session, byID, conns, request, claimRow, stored, got>>

DeleteExhausted(h) ==
    \E p \in phone[h].pairing :
        /\ At(h, "exhausted")
        /\ byID' = byID \ {p}
        /\ Goes(h, "ended")
        /\ gate' = Released(gate)
        /\ UNCHANGED <<session, conns, request, claimRow, stored, got, wrong>>

RightCode(h) ==
    \E p \in phone[h].pairing :
        /\ At(h, "found") /\ phone[h].right
        /\ \/ /\ Claim(p, h)
              /\ Goes(h, "claimed")
              /\ UNCHANGED gate
           \/ /\ ~Claimable(p)
              /\ Goes(h, "ended")
              /\ gate' = Released(gate)
              /\ UNCHANGED session
        /\ UNCHANGED <<byID, conns, request, claimRow, stored, got, wrong>>

(* resetPairingFailures and PairingPendingRegistry.Register.               *)
RegisterPending(h) ==
    \E p \in phone[h].pairing :
        /\ At(h, "claimed")
        /\ IF conns[p] = {}
           THEN /\ conns' = [conns EXCEPT ![p] = {h}]
                /\ gate' = [gate EXCEPT !.fails[p] = 0]
                /\ Goes(h, "pending")
           ELSE /\ Goes(h, "ended")
                /\ gate' = Released([gate EXCEPT !.fails[p] = 0])
                /\ UNCHANGED conns
        /\ UNCHANGED <<session, byID, request, claimRow, stored, got, wrong>>

(* The wait ends: the push closed done, the phone went away, or five       *)
(* minutes passed.  The deferred Unregister deletes by id.                 *)
WaitEnds(h) ==
    \E p \in phone[h].pairing :
        /\ phone[h].pc \in {"pending", "notified"}
        /\ Goes(h, "ended")
        /\ conns' = [conns EXCEPT ![p] = {}]
        /\ gate' = Released(gate)
        /\ UNCHANGED <<session, byID, request, claimRow, stored, got, wrong>>

-----------------------------------------------------------------------------
(* The management API.                                                     *)

On(q, pc) == request[q].pc = pc

Moves(q, pc) == request' = [request EXCEPT ![q].pc = pc]

Starts(q, p, pc) == request' = [request EXCEPT ![q] = [pc |-> pc, pairing |-> {p}]]

(* The id is a fresh random one, with no failure on record.                *)
HandlePairingCreate(q) ==
    \E p \in Pairings :
        /\ On(q, "new")
        /\ session[p].state = "none" /\ gate.fails[p] = 0
        /\ session' = [session EXCEPT ![p].state = "created"]
        /\ byID' = byID \cup {p}
        /\ Moves(q, "done")
        /\ UNCHANGED <<gate, phone, conns, claimRow, stored, got, wrong>>

(* handlePairingGet and syncRelayPairingClaim: a created session is looked *)
(* for among the claims pending at the relay, claimed, and only then given *)
(* its RelayClaim.                                                         *)
HandlePairingGet(q) ==
    \E p \in byID :
        /\ On(q, "new")
        /\ session[p].state = "created" /\ claimRow[p] = "pending"
        /\ Starts(q, p, "listed")
        /\ UNCHANGED <<session, byID, gate, phone, conns, claimRow, stored, got, wrong>>

SyncClaims(q) ==
    \E p \in request[q].pairing :
        /\ On(q, "listed")
        /\ \/ Claim(p, RelayPhone) /\ Moves(q, "synced")
           \/ ~Claimable(p) /\ Moves(q, "done") /\ UNCHANGED session
        /\ UNCHANGED <<byID, gate, phone, conns, claimRow, stored, got, wrong>>

SyncSetsRelayClaim(q) ==
    \E p \in request[q].pairing :
        /\ On(q, "synced")
        /\ session' = [session EXCEPT ![p].relay = TRUE]
        /\ Moves(q, "done")
        /\ UNCHANGED <<byID, gate, phone, conns, claimRow, stored, got, wrong>>

(* handlePairingApprove: Approve, Update, ReplaceDevice, then the relay or *)
(* the push, then Complete.  An error in between ends it.                  *)
HandlePairingApprove(q) ==
    \E p \in byID :
        /\ On(q, "new")
        /\ Approve(p)
        /\ Starts(q, p, "approved")
        /\ UNCHANGED <<byID, gate, phone, conns, claimRow, stored, got, wrong>>

ApproveUpdates(q) ==
    \E p \in request[q].pairing :
        /\ On(q, "approved")
        /\ Moves(q, IF p \in byID THEN "updated" ELSE "done")
        /\ UNCHANGED <<session, byID, gate, phone, conns, claimRow, stored, got, wrong>>

ApproveIgnoresPersistError(q) ==
    \E p \in request[q].pairing :
        /\ On(q, "updated")
        /\ stored' \in {stored, stored \cup {p}}
        /\ Moves(q, IF session[p].relay THEN "provisions" ELSE "pushes")
        /\ UNCHANGED <<session, byID, gate, phone, conns, claimRow, got, wrong>>

ApproveStores(q) ==
    \E p \in request[q].pairing :
        /\ On(q, "updated")
        /\ \/ /\ stored' = stored \cup {p}
              /\ Moves(q, IF session[p].relay THEN "provisions" ELSE "pushes")
           \/ /\ Moves(q, "done")
              /\ UNCHANGED stored
        /\ UNCHANGED <<session, byID, gate, phone, conns, claimRow, got, wrong>>

(* approveRelayPairing: register the device, seal the result, complete the *)
(* claim.  The relay completes only a pending claim.                       *)
ApproveAtRelay(q) ==
    \E p \in request[q].pairing :
        /\ On(q, "provisions")
        /\ \/ /\ claimRow[p] = "pending"
              /\ claimRow' = [claimRow EXCEPT ![p] = "approved"]
              /\ Moves(q, "completes")
           \/ /\ Moves(q, "done")
              /\ UNCHANGED claimRow
        /\ UNCHANGED <<session, byID, gate, phone, conns, stored, got, wrong>>

(* NotifyComplete: the pending connection is looked up and written to; a   *)
(* phone that has gone makes the write fail.                               *)
NotifyComplete(q) ==
    \E p \in request[q].pairing :
        /\ On(q, "pushes")
        /\ \/ /\ conns[p] = {}
              /\ UNCHANGED <<phone, got>>
           \/ \E h \in conns[p] :
                /\ got' = got \cup {[who |-> h, token |-> p]}
                /\ Goes(h, "notified")
           \/ \E h \in conns[p] : Goes(h, "notified") /\ UNCHANGED got
        /\ conns' = [conns EXCEPT ![p] = {}]
        /\ Moves(q, "completes")
        /\ UNCHANGED <<session, byID, gate, claimRow, stored, wrong>>

ApproveCompletes(q) ==
    \E p \in request[q].pairing :
        /\ On(q, "completes")
        /\ Complete(p)
        /\ Moves(q, "done")
        /\ UNCHANGED <<byID, gate, phone, conns, claimRow, stored, got, wrong>>

HandlePairingReject(q) ==
    \E p \in byID :
        /\ On(q, "new")
        /\ Reject(p)
        /\ Starts(q, p, "rejected")
        /\ UNCHANGED <<byID, gate, phone, conns, claimRow, stored, got, wrong>>

RejectAtRelay(q) ==
    \E p \in request[q].pairing :
        /\ On(q, "rejected")
        /\ \/ /\ p \in byID /\ session[p].relay /\ claimRow[p] = "pending"
              /\ claimRow' = [claimRow EXCEPT ![p] = "rejected"]
           \/ UNCHANGED claimRow
        /\ Moves(q, "done")
        /\ UNCHANGED <<session, byID, gate, phone, conns, stored, got, wrong>>

-----------------------------------------------------------------------------
(* The relay: a device submits one claim per session, and reads a result   *)
(* once; the row is consumed before the answer is on its way.              *)
PhoneSubmitsClaim(p) ==
    /\ session[p].state # "none" /\ claimRow[p] = "none"
    /\ claimRow' = [claimRow EXCEPT ![p] = "pending"]
    /\ UNCHANGED <<session, byID, gate, phone, conns, request, stored, got, wrong>>

GetPairingResult(p) ==
    /\ claimRow[p] \in {"approved", "rejected"}
    /\ claimRow' = [claimRow EXCEPT ![p] = "consumed"]
    /\ got' \in IF claimRow[p] = "approved"
                THEN {got, got \cup {[who |-> RelayPhone, token |-> p]}} ELSE {got}
    /\ UNCHANGED <<session, byID, gate, phone, conns, request, stored, wrong>>

ClaimExpires(p) ==
    /\ claimRow[p] \in {"pending", "approved", "rejected", "consumed"} /\ session[p].expired
    /\ claimRow' = [claimRow EXCEPT ![p] = "gone"]
    /\ UNCHANGED <<session, byID, gate, phone, conns, request, stored, got, wrong>>

PairingNext ==
    \/ \E h \in Phones :
          \/ BadClaim(h) \/ Acquire(h) \/ LookUp(h) \/ WrongCode(h) \/ DeleteExhausted(h)
          \/ RightCode(h) \/ RegisterPending(h) \/ WaitEnds(h)
    \/ \E q \in Requests :
          \/ HandlePairingCreate(q) \/ HandlePairingGet(q) \/ SyncClaims(q)
          \/ SyncSetsRelayClaim(q) \/ HandlePairingApprove(q) \/ ApproveUpdates(q)
          \/ ApproveStores(q) \/ ApproveAtRelay(q) \/ NotifyComplete(q) \/ ApproveCompletes(q)
          \/ HandlePairingReject(q) \/ RejectAtRelay(q)
    \/ \E p \in Pairings :
          \/ Expires(p) \/ FailureLapses(p) \/ PhoneSubmitsClaim(p) \/ GetPairingResult(p)
          \/ ClaimExpires(p)
    \/ AttemptLapses

PairingSpec == PairingInit /\ [][PairingNext]_pairingVars

-----------------------------------------------------------------------------
(* A token that reached a device is in the device store, and the device is *)
(* the one whose claim was approved: handlePairingApprove persists before  *)
(* it pushes or seals, and a session is claimed once.                      *)
DeliveredIsTrusted ==
    \A g \in got : g.token \in stored /\ session[g.token].by = {g.who}

(* A rejected session leaves no trusted token and no approved claim, in    *)
(* whatever order an approval and a rejection of it arrive.                *)
RejectedLeavesNothing ==
    \A p \in Pairings : session[p].state = "rejected"
        => p \notin stored /\ claimRow[p] # "approved"

(* The slots in use are exactly the handlers in the claim flow: every      *)
(* return path gives its slot back once (acquire, release).                *)
SlotsExact ==
    gate.active = Cardinality({h \in Phones : phone[h].pc \notin {"new", "ended"}})

(* However the attempts overlap, the codes that can be tried against a     *)
(* session that can still be claimed are bounded: the failures that are    *)
(* counted and the attempts already past the look-up when the session is   *)
(* deleted.  Excused are codes compared while the gate has no bucket left  *)
(* for the session (recordPairingFailure returns without counting).        *)
GuessesBounded == \A p \in Pairings : wrong[p] <= FailLimit - 1 + MaxActive

(* The limits of the pairing flow: no slot is leaked, no more codes are    *)
(* tried than the gate allows, and a rejected claim leaves nothing.        *)
PairingLimits == SlotsExact /\ GuessesBounded /\ RejectedLeavesNothing

(* The comment at maxPairingBuckets says that a new key is refused (fail-  *)
(* closed) when the buckets are used up: no wrong code goes uncounted.     *)
FailClosed ==
    [][\A h \in Phones : At(h, "found") /\ ~phone[h].right /\ ~At(h, "found")'
          => \A p \in phone[h].pairing : gate'.fails[p] > 0]_pairingVars

(* The comment at RegisterPending says the connection is registered before *)
(* the Mac can see the claim, so that the push of an approval finds it.    *)
PushFindsClaimer ==
    [][\A q \in Requests, p \in Pairings :
          On(q, "pushes") /\ request'[q].pc = "completes" /\ request[q].pairing = {p}
          => \A h \in session[p].by \cap Phones : phone[h].pc # "claimed"]_pairingVars
=============================================================================
