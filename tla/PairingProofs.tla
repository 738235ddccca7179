--------------------------- MODULE PairingProofs ----------------------------
(***************************************************************************)
(* How a device comes to be trusted, proved for any number of pairings,    *)
(* phones and requests of the Mac: a token reaches only the device whose   *)
(* claim was approved, a rejection leaves nothing, and the gate bounds the *)
(* codes that are tried.  And of the relay server, which shares no state   *)
(* with the bridge: a signed activation counts once, and the rate it       *)
(* grants, the routes it binds and its answers to claims hold together.    *)
(* Last, of the trusted device store: it implements the registry.          *)
(***************************************************************************)
EXTENDS Pairing, FileDeviceStore, RelayRoutes, FiniteSetTheorems, SequenceTheorems, TLAPS

States == {"none", "created", "claimed", "approved", "rejected", "completed"}
PhoneSteps == {"new", "acquired", "found", "exhausted", "claimed", "pending", "notified", "ended"}
RequestSteps == {"new", "listed", "synced", "approved", "updated", "provisions", "pushes",
                 "completes", "rejected", "done"}
ClaimStates == {"none", "pending", "approved", "rejected", "consumed", "gone"}

Claimants == Phones \cup {RelayPhone}

(* A handler works on one session.                                         *)
Chosen == {S \in SUBSET Pairings : \A p, r \in S : p = r}

Gates == [active : Nat, fails : [Pairings -> 0 .. FailLimit], source : Nat]
PhoneRecords == [pc : PhoneSteps, pairing : Chosen, right : BOOLEAN]

PairingTypes ==
    /\ session \in [Pairings -> [state : States, by : SUBSET Claimants,
                                 relay : BOOLEAN, expired : BOOLEAN]]
    /\ byID \subseteq Pairings
    /\ gate \in Gates
    /\ phone \in [Phones -> PhoneRecords]
    /\ conns \in [Pairings -> SUBSET Phones]
    /\ request \in [Requests -> [pc : RequestSteps, pairing : Chosen]]
    /\ claimRow \in [Pairings -> ClaimStates]
    /\ stored \subseteq Pairings
    /\ got \subseteq [who : Claimants, token : Pairings]
    /\ wrong \in [Pairings -> Nat]

Ours(p, who) == session[p].state \notin {"none", "created"} /\ session[p].by = {who}

Granted(p) == session[p].state \in {"approved", "completed"}

(* A phone past its claim, and the connection a push would write to, are   *)
(* those of the device that claimed the session.                           *)
PhonesOwnTheirClaims ==
    /\ \A h \in Phones : \A p \in phone[h].pairing :
          phone[h].pc \in {"claimed", "pending", "notified"} => Ours(p, h)
    /\ \A p \in Pairings : \A h \in conns[p] :
          Ours(p, h) /\ phone[h].pc = "pending" /\ phone[h].pairing = {p}

(* So is the claim a request of the Mac found at the relay.                *)
RelayOwnsItsClaims ==
    /\ \A p \in Pairings : session[p].relay => Ours(p, RelayPhone)
    /\ \A q \in Requests : \A p \in request[q].pairing :
          request[q].pc = "synced" => Ours(p, RelayPhone)

(* What a request of the Mac has done so far.                              *)
RequestsInOrder ==
    \A q \in Requests : \A p \in request[q].pairing :
        /\ request[q].pc \in {"approved", "updated", "provisions", "pushes", "completes"} => Granted(p)
        /\ request[q].pc \in {"provisions", "pushes"} => p \in stored
        /\ request[q].pc = "provisions" => session[p].relay

(* A token is stored for, and handed to, an approved session's device.     *)
TokensEarned ==
    /\ \A p \in stored : Granted(p)
    /\ \A p \in Pairings : claimRow[p] = "approved" => p \in stored /\ Ours(p, RelayPhone)
    /\ \A g \in got : g.token \in stored /\ Ours(g.token, g.who)

TrustInv == PairingTypes /\ PhonesOwnTheirClaims /\ RelayOwnsItsClaims /\ RequestsInOrder /\ TokensEarned

LEMMA TrustInit == PairingInit => TrustInv
<1> SUFFICES ASSUME PairingInit PROVE TrustInv
  OBVIOUS
<1> USE DEF PairingInit, NoSession
<1>1. PairingTypes
  BY PairingAssumption
  DEF PairingTypes, States, PhoneSteps, RequestSteps, ClaimStates, Chosen, Claimants, Gates,
      PhoneRecords
<1>2. PhonesOwnTheirClaims /\ RelayOwnsItsClaims /\ RequestsInOrder /\ TokensEarned
  BY DEF PhonesOwnTheirClaims, RelayOwnsItsClaims, RequestsInOrder, TokensEarned, Ours, Granted
<1> QED BY <1>1, <1>2 DEF TrustInv

(* The failures on record after another one, which is counted if there is  *)
(* room for it.                                                             *)
FailsAfter(g, p) ==
    IF NoRoom(g, p) THEN g.fails ELSE [g.fails EXCEPT ![p] = IF @ < FailLimit THEN @ + 1 ELSE @]

(* The gate stays what it is through a release or a failure.               *)
LEMMA GateSteps ==
    ASSUME NEW g \in Gates, NEW p \in Pairings
    PROVE  /\ Released(g) \in Gates
           /\ Released(g).fails = g.fails
           /\ Released(g).active = IF g.active = 0 THEN 0 ELSE g.active - 1
           /\ RecordFailure(g, p) \in Gates
           /\ RecordFailure(g, p).active = g.active
           /\ RecordFailure(g, p).fails = FailsAfter(g, p)
<1>1. g.active \in Nat /\ g.fails \in [Pairings -> 0 .. FailLimit] /\ g.source \in Nat
  BY DEF Gates
<1>2. g.fails[p] \in 0 .. FailLimit
  BY <1>1
<1>3. (IF g.active = 0 THEN 0 ELSE g.active - 1) \in Nat
  BY <1>1
<1>4. (IF g.fails[p] < FailLimit THEN g.fails[p] + 1 ELSE g.fails[p]) \in 0 .. FailLimit
  BY <1>2, PairingAssumption
<1> QED BY <1>1, <1>3, <1>4 DEF Released, RecordFailure, FailsAfter, Gates

PhoneStep(h) ==
    \/ BadClaim(h) \/ Acquire(h) \/ LookUp(h) \/ WrongCode(h) \/ DeleteExhausted(h)
    \/ RightCode(h) \/ RegisterPending(h) \/ WaitEnds(h)

Owning == {"claimed", "pending", "notified"}

(* What a handler of /pairing changes that matters to trust: at most its   *)
(* own record, the session it claims and the connection of its session.    *)
LEMMA PhoneFacts ==
    ASSUME PairingTypes, NEW h \in Phones, PhoneStep(h)
    PROVE  /\ UNCHANGED <<request, claimRow, stored, got>>
           /\ byID' \subseteq byID
           /\ gate' \in Gates
           /\ wrong' \in [Pairings -> Nat]
           /\ \E r \in PhoneRecords :
                /\ phone' = [phone EXCEPT ![h] = r]
                /\ \/ r.pc \notin Owning
                   \/ phone[h].pc \in Owning /\ r.pairing = phone[h].pairing
                   \/ RightCode(h) /\ r.pairing = phone[h].pairing
                        /\ \E p \in phone[h].pairing : Claim(p, h)
           /\ \/ UNCHANGED session
              \/ \E p \in phone[h].pairing : Claim(p, h)
           /\ \/ UNCHANGED conns /\ phone[h].pc # "pending"
              \/ \E p \in phone[h].pairing :
                    /\ conns' = [conns EXCEPT ![p] = {h}] /\ phone[h].pc = "claimed"
                    /\ phone'[h].pc = "pending" /\ phone'[h].pairing = phone[h].pairing
              \/ \E p \in phone[h].pairing : conns' = [conns EXCEPT ![p] = {}]
<1> DEFINE old == phone[h]
<1>0. /\ old.pc \in PhoneSteps /\ old.pairing \in Chosen /\ old.right \in BOOLEAN
      /\ old = [pc |-> old.pc, pairing |-> old.pairing, right |-> old.right]
      /\ phone = [phone EXCEPT ![h] = old]
  BY DEF PairingTypes, PhoneRecords
<1>1. \A pc \in PhoneSteps : Goes(h, pc) =>
         LET r == [pc |-> pc, pairing |-> old.pairing, right |-> old.right] IN
         r \in PhoneRecords /\ r.pc = pc /\ r.pairing = old.pairing /\ phone' = [phone EXCEPT ![h] = r]
  BY <1>0 DEF Goes, PhoneRecords, PairingTypes
<1>2. ASSUME NEW p \in Pairings PROVE
        /\ gate \in Gates /\ Released(gate) \in Gates /\ RecordFailure(gate, p) \in Gates
        /\ Released(RecordFailure(gate, p)) \in Gates
        /\ [gate EXCEPT !.source = @ + 1] \in Gates
        /\ [gate EXCEPT !.source = @ + 1, !.active = @ + 1] \in Gates
        /\ [gate EXCEPT !.fails[p] = 0] \in Gates
        /\ Released([gate EXCEPT !.fails[p] = 0]) \in Gates
  <2>1. gate \in Gates
    BY DEF PairingTypes
  <2>2. /\ [gate EXCEPT !.source = @ + 1] \in Gates
        /\ [gate EXCEPT !.source = @ + 1, !.active = @ + 1] \in Gates
    <3>1. gate.source + 1 \in Nat /\ gate.active + 1 \in Nat
      BY <2>1 DEF Gates
    <3>2. \A a, s \in Nat : [gate EXCEPT !.source = s, !.active = a] \in Gates
      BY <2>1 DEF Gates
    <3>3. \A s \in Nat : [gate EXCEPT !.source = s] \in Gates
      BY <2>1 DEF Gates
    <3> QED BY <3>1, <3>2, <3>3, Zenon
  <2>3. [gate EXCEPT !.fails[p] = 0] \in Gates
    BY <2>1, PairingAssumption DEF Gates
  <2> QED BY <2>1, <2>2, <2>3, GateSteps
<1>3. conns \in [Pairings -> SUBSET Phones] /\ wrong \in [Pairings -> Nat]
  BY DEF PairingTypes
<1>4. old.pairing \subseteq Pairings
  BY <1>0 DEF Chosen
<1>5. \A pc \in PhoneSteps : Goes(h, pc) => phone'[h].pc = pc /\ phone'[h].pairing = phone[h].pairing
  BY DEF Goes, PairingTypes
<1> HIDE DEF old
<1>11. CASE BadClaim(h)
  <2>1. old.pc = "new" /\ Goes(h, "ended") /\ UNCHANGED <<session, byID, gate, conns, request, claimRow, stored, got, wrong>>
    BY <1>11, Zenon DEF BadClaim, At, old
  <2>2. gate \in Gates
    BY DEF PairingTypes
  <2> QED BY <2>1, <2>2, <1>1, <1>3, <1>5 DEF PhoneSteps, Owning, old
<1>12. CASE Acquire(h)
  <2>1. PICK p \in Pairings, right \in BOOLEAN :
          /\ old.pc = "new"
          /\ \/ /\ gate' = [gate EXCEPT !.source = @ + 1, !.active = @ + 1]
                /\ phone' = [phone EXCEPT ![h] = [pc |-> "acquired", pairing |-> {p}, right |-> right]]
             \/ gate' = [gate EXCEPT !.source = @ + 1] /\ Goes(h, "ended")
             \/ Goes(h, "ended") /\ UNCHANGED gate
          /\ UNCHANGED <<session, byID, conns, request, claimRow, stored, got, wrong>>
    BY <1>12, Zenon DEF Acquire, At, old
  <2>2. gate' \in Gates
    BY <1>2, <2>1
  <2>3. [pc |-> "acquired", pairing |-> {p}, right |-> right] \in PhoneRecords
    BY DEF PhoneRecords, PhoneSteps, Chosen
  <2> QED BY <2>1, <2>2, <2>3, <1>1, <1>3, <1>5 DEF PhoneSteps, Owning, old
<1>13. CASE LookUp(h)
  <2>1. PICK p \in old.pairing :
          /\ old.pc = "acquired"
          /\ gate' \in {gate, Released(RecordFailure(gate, p))}
          /\ Goes(h, "found") \/ Goes(h, "ended")
          /\ UNCHANGED <<session, byID, conns, request, claimRow, stored, got, wrong>>
    BY <1>13, Zenon DEF LookUp, At, old
  <2>2. gate' \in Gates
    BY <2>1, <1>2, <1>4
  <2> QED BY <2>1, <2>2, <1>1, <1>3, <1>5 DEF PhoneSteps, Owning, old
<1>14. CASE WrongCode(h)
  <2>1. PICK p \in old.pairing :
          /\ old.pc = "found"
          /\ \/ Goes(h, "exhausted") /\ gate' = RecordFailure(gate, p)
             \/ Goes(h, "ended") /\ gate' = Released(RecordFailure(gate, p))
          /\ wrong' = [wrong EXCEPT ![p] = IF Claimable(p) /\ ~NoRoom(gate, p) THEN @ + 1 ELSE @]
          /\ UNCHANGED <<session, byID, conns, request, claimRow, stored, got>>
    BY <1>14, Zenon DEF WrongCode, At, old
  <2>2. wrong' \in [Pairings -> Nat]
    BY <2>1, <1>3, <1>4
  <2>3. gate' \in Gates
    BY <2>1, <1>2, <1>4
  <2> QED BY <2>1, <2>2, <2>3, <1>1, <1>3, <1>5 DEF PhoneSteps, Owning, old
<1>15. CASE DeleteExhausted(h)
  <2>1. PICK p \in old.pairing :
          /\ old.pc = "exhausted"
          /\ byID' = byID \ {p} /\ Goes(h, "ended") /\ gate' = Released(gate)
          /\ UNCHANGED <<session, conns, request, claimRow, stored, got, wrong>>
    BY <1>15, Zenon DEF DeleteExhausted, At, old
  <2> QED BY <2>1, <1>1, <1>2, <1>3, <1>4, <1>5 DEF PhoneSteps, Owning, old
<1>16. CASE RightCode(h)
  <2>1. PICK p \in old.pairing :
          /\ old.pc = "found"
          /\ \/ Claim(p, h) /\ Goes(h, "claimed") /\ UNCHANGED gate
             \/ Goes(h, "ended") /\ gate' = Released(gate) /\ UNCHANGED session
          /\ UNCHANGED <<byID, conns, request, claimRow, stored, got, wrong>>
    BY <1>16, Zenon DEF RightCode, At, old
  <2> QED BY <2>1, <1>16, <1>1, <1>2, <1>3, <1>4, <1>5, Zenon DEF PhoneSteps, Owning, old
<1>17. CASE RegisterPending(h)
  <2>1. PICK p \in old.pairing :
          /\ old.pc = "claimed"
          /\ \/ /\ conns' = [conns EXCEPT ![p] = {h}]
                /\ gate' = [gate EXCEPT !.fails[p] = 0]
                /\ Goes(h, "pending")
             \/ /\ Goes(h, "ended")
                /\ gate' = Released([gate EXCEPT !.fails[p] = 0])
                /\ UNCHANGED conns
          /\ UNCHANGED <<session, byID, request, claimRow, stored, got, wrong>>
    BY <1>17, Zenon DEF RegisterPending, At, old
  <2>3. gate' \in Gates
    BY <2>1, <1>2, <1>4
  <2>4. old.pc \in Owning
    BY <2>1 DEF Owning
  <2> QED BY <2>1, <2>3, <2>4, <1>1, <1>3, <1>5 DEF PhoneSteps, Owning, old
<1>18. CASE WaitEnds(h)
  <2>1. PICK p \in old.pairing :
          /\ Goes(h, "ended") /\ gate' = Released(gate)
          /\ conns' = [conns EXCEPT ![p] = {}]
          /\ UNCHANGED <<session, byID, request, claimRow, stored, got, wrong>>
    BY <1>18, Zenon DEF WaitEnds, old
  <2>2. gate' \in Gates
    BY <2>1, <1>2, <1>4
  <2> QED BY <2>1, <2>2, <1>1, <1>3, <1>5 DEF PhoneSteps, Owning, old
<1> QED BY <1>11, <1>12, <1>13, <1>14, <1>15, <1>16, <1>17, <1>18 DEF PhoneStep

LEMMA PhoneStepKeepsTrust ==
    ASSUME TrustInv, NEW h \in Phones, PhoneStep(h)
    PROVE  TrustInv'
<1> USE DEF TrustInv
<1>1. PICK r \in PhoneRecords :
        /\ phone' = [phone EXCEPT ![h] = r]
        /\ \/ r.pc \notin Owning
           \/ phone[h].pc \in Owning /\ r.pairing = phone[h].pairing
           \/ RightCode(h) /\ r.pairing = phone[h].pairing
                /\ \E p \in phone[h].pairing : Claim(p, h)
  BY PhoneFacts
<1>2. /\ UNCHANGED <<request, claimRow, stored, got>>
      /\ byID' \subseteq byID /\ gate' \in Gates /\ wrong' \in [Pairings -> Nat]
      /\ UNCHANGED session \/ \E p \in phone[h].pairing : Claim(p, h)
      /\ \/ UNCHANGED conns /\ phone[h].pc # "pending"
         \/ \E p \in phone[h].pairing :
               /\ conns' = [conns EXCEPT ![p] = {h}] /\ phone[h].pc = "claimed"
               /\ phone'[h].pc = "pending" /\ phone'[h].pairing = phone[h].pairing
         \/ \E p \in phone[h].pairing : conns' = [conns EXCEPT ![p] = {}]
  BY PhoneFacts
<1>3. /\ phone[h].pairing \subseteq Pairings
      /\ \A p, x \in phone[h].pairing : p = x
      /\ h \in Claimants
  BY DEF PairingTypes, PhoneRecords, Chosen, Claimants
<1>4. /\ session' \in [Pairings -> [state : States, by : SUBSET Claimants, relay : BOOLEAN, expired : BOOLEAN]]
      /\ \A p \in Pairings, w \in Claimants : Ours(p, w) => Ours(p, w)'
      /\ \A p \in Pairings : Granted(p) => Granted(p)'
      /\ \A p \in Pairings : session'[p].relay = session[p].relay
      /\ \A p \in phone[h].pairing : Claim(p, h) => Ours(p, h)'
  <2>1. CASE UNCHANGED session
    BY <2>1, <1>3 DEF PairingTypes, Ours, Granted, Claim, Claimable
  <2>2. ASSUME NEW p \in phone[h].pairing, Claim(p, h) PROVE <1>4
    <3>1. /\ session' \in [Pairings -> [state : States, by : SUBSET Claimants, relay : BOOLEAN, expired : BOOLEAN]]
          /\ \A x \in Pairings : session'[x].relay = session[x].relay
      BY <2>2, <1>3, SMTT(30) DEF PairingTypes, Claim, States
    <3>2. /\ session[p].state = "created"
          /\ session'[p].state = "claimed" /\ session'[p].by = {h}
          /\ \A x \in Pairings : x # p => session'[x] = session[x]
      BY <2>2, <1>3 DEF PairingTypes, Claim, Claimable
    <3>3. \A x \in Pairings, w \in Claimants : Ours(x, w) => Ours(x, w)'
      BY <3>2 DEF Ours
    <3>4. \A x \in Pairings : Granted(x) => Granted(x)'
      BY <3>2 DEF Granted
    <3>5. \A x \in phone[h].pairing : Claim(x, h) => Ours(x, h)'
      BY <3>2, <1>3 DEF Ours
    <3> QED BY <3>1, <3>3, <3>4, <3>5
  <2> QED BY <1>2, <2>1, <2>2
<1>5. PairingTypes'
  <2>1. conns' \in [Pairings -> SUBSET Phones]
    BY <1>2, <1>3 DEF PairingTypes
  <2> QED BY <1>1, <1>2, <1>4, <2>1 DEF PairingTypes
<1>6. PhonesOwnTheirClaims'
  <2>1. ASSUME NEW x \in Phones, NEW p \in phone'[x].pairing, phone'[x].pc \in Owning
        PROVE  Ours(p, x)'
    <3>1. CASE x # h
      BY <2>1, <3>1, <1>1, <1>4
      DEF PhonesOwnTheirClaims, PairingTypes, Owning, Claimants, Chosen, PhoneRecords
    <3>2. CASE x = h
      <4>1. phone'[x] = r
        BY <3>2, <1>1 DEF PairingTypes
      <4>2. CASE phone[h].pc \in Owning /\ r.pairing = phone[h].pairing
        BY <2>1, <3>2, <4>1, <4>2, <1>3, <1>4 DEF PhonesOwnTheirClaims, Owning
      <4>3. CASE r.pairing = phone[h].pairing /\ \E y \in phone[h].pairing : Claim(y, h)
        BY <2>1, <3>2, <4>1, <4>3, <1>3, <1>4
      <4> QED BY <2>1, <4>1, <4>2, <4>3, <1>1
    <3> QED BY <3>1, <3>2
  <2>2. ASSUME NEW p \in Pairings, NEW x \in conns'[p]
        PROVE  Ours(p, x)' /\ phone'[x].pc = "pending" /\ phone'[x].pairing = {p}
    <3>1. x \in Phones /\ x \in Claimants
      BY <1>2, <1>3 DEF Claimants, PairingTypes
    <3>2. CASE x \in conns[p] /\ x # h
      <4>1. Ours(p, x) /\ phone[x].pc = "pending" /\ phone[x].pairing = {p}
        BY <3>2 DEF PhonesOwnTheirClaims
      <4> QED BY <4>1, <3>1, <3>2, <1>1, <1>4 DEF PairingTypes
    <3>3. CASE x \in conns[p] /\ x = h
      <4>1. phone[h].pc = "pending" /\ phone[h].pairing = {p}
        BY <3>3 DEF PhonesOwnTheirClaims
      <4> QED BY <4>1, <3>3, <1>2 DEF PairingTypes
    <3>4. CASE x \notin conns[p]
      <4>1. /\ p \in phone[h].pairing /\ x = h /\ phone[h].pc = "claimed"
            /\ phone'[h].pc = "pending" /\ phone'[h].pairing = phone[h].pairing
        BY <3>4, <1>2, <1>3 DEF PairingTypes
      <4>2. Ours(p, h)
        BY <4>1 DEF PhonesOwnTheirClaims
      <4> QED BY <4>1, <4>2, <1>3, <1>4
    <3> QED BY <3>2, <3>3, <3>4
  <2> QED BY <2>1, <2>2 DEF PhonesOwnTheirClaims, Owning
<1>7. RelayOwnsItsClaims'
  BY <1>2, <1>4 DEF RelayOwnsItsClaims, PairingTypes, Claimants, Chosen
<1>8. RequestsInOrder'
  BY <1>2, <1>4 DEF RequestsInOrder, PairingTypes, Chosen
<1>9. TokensEarned'
  BY <1>2, <1>4 DEF TokensEarned, PairingTypes, Claimants
<1> QED BY <1>5, <1>6, <1>7, <1>8, <1>9

-----------------------------------------------------------------------------
(* The requests of the Mac and the relay.                                  *)

RequestStep(q) ==
    \/ HandlePairingCreate(q) \/ HandlePairingGet(q) \/ SyncClaims(q)
    \/ SyncSetsRelayClaim(q) \/ HandlePairingApprove(q) \/ ApproveUpdates(q)
    \/ ApproveStores(q) \/ ApproveAtRelay(q) \/ NotifyComplete(q) \/ ApproveCompletes(q)
    \/ HandlePairingReject(q) \/ RejectAtRelay(q)

RequestRecords == [pc : RequestSteps, pairing : Chosen]
SessionRecords == [state : States, by : SUBSET Claimants, relay : BOOLEAN, expired : BOOLEAN]

(* A session changes so that nothing that was true of its owner is lost.    *)
SessionAdvances ==
    /\ session' \in [Pairings -> SessionRecords]
    /\ \A p \in Pairings, w \in Claimants : Ours(p, w) => Ours(p, w)'
    /\ \A p \in Pairings : Granted(p) => Granted(p)'
    /\ \A p \in Pairings : session[p].relay => session'[p].relay

(* The trust of the bridge after a request q whose record becomes r, while  *)
(* phones at most learn of the end of their wait.                           *)
LEMMA RequestKeepsTrust ==
    ASSUME TrustInv, SessionAdvances, NEW q \in Requests, NEW r \in RequestRecords,
           request' = [request EXCEPT ![q] = r],
           byID' \subseteq Pairings,
           gate' = gate, wrong' = wrong,
           phone' \in [Phones -> PhoneRecords],
           \A h \in Phones : /\ phone'[h].pairing = phone[h].pairing
                             /\ phone'[h].pc \in Owning => phone[h].pc \in Owning
                             /\ \A p \in Pairings : h \in conns'[p] => phone'[h] = phone[h],
           conns' \in [Pairings -> SUBSET Phones],
           \A p \in Pairings : conns'[p] \subseteq conns[p],
           stored' \subseteq Pairings, stored \subseteq stored',
           \A p \in stored' : p \in stored \/ Granted(p),
           claimRow' \in [Pairings -> ClaimStates],
           \A p \in Pairings : claimRow'[p] = "approved" =>
              claimRow[p] = "approved" \/ (p \in stored /\ Ours(p, RelayPhone)),
           got' \subseteq [who : Claimants, token : Pairings],
           \A g \in got' : g \in got \/ (g.token \in stored /\ Ours(g.token, g.who)),
           \A p \in Pairings : session'[p].relay => session[p].relay \/ Ours(p, RelayPhone)',
           \A p \in r.pairing :
              /\ r.pc = "synced" => Ours(p, RelayPhone)'
              /\ r.pc \in {"approved", "updated", "provisions", "pushes", "completes"} => Granted(p)'
              /\ r.pc \in {"provisions", "pushes"} => p \in stored'
              /\ r.pc = "provisions" => session'[p].relay
    PROVE  TrustInv'
<1> USE DEF TrustInv
<1>0. /\ RelayPhone \in Claimants /\ Phones \subseteq Claimants
      /\ \A x \in Requests : request[x].pairing \subseteq Pairings
      /\ \A x \in Phones : phone[x].pairing \subseteq Pairings
      /\ r.pairing \subseteq Pairings
  BY DEF Claimants, PairingTypes, Chosen, RequestRecords, PhoneRecords
<1>1. PairingTypes'
  BY DEF PairingTypes, SessionAdvances, SessionRecords, RequestRecords
<1>2. PhonesOwnTheirClaims'
  BY <1>0 DEF PhonesOwnTheirClaims, SessionAdvances, Owning, PairingTypes
<1>3. RelayOwnsItsClaims'
  BY <1>0 DEF RelayOwnsItsClaims, SessionAdvances, PairingTypes
<1>4. RequestsInOrder'
  BY <1>0 DEF RequestsInOrder, SessionAdvances, PairingTypes
<1>5. TokensEarned'
  <2>1. \A p \in stored' : Granted(p)'
    BY DEF TokensEarned, SessionAdvances, PairingTypes
  <2>2. \A p \in Pairings : claimRow'[p] = "approved" => p \in stored' /\ Ours(p, RelayPhone)'
    BY <1>0 DEF TokensEarned, SessionAdvances
  <2>3. \A g \in got' : g.token \in stored' /\ Ours(g.token, g.who)'
    BY DEF TokensEarned, SessionAdvances
  <2> QED BY <2>1, <2>2, <2>3 DEF TokensEarned
<1> QED BY <1>1, <1>2, <1>3, <1>4, <1>5

(* The case of a request that leaves the phones, their connections and what *)
(* they were given alone.                                                   *)
LEMMA QuietRequestKeepsTrust ==
    ASSUME TrustInv, SessionAdvances, NEW q \in Requests, NEW r \in RequestRecords,
           request' = [request EXCEPT ![q] = r],
           byID' \subseteq Pairings,
           UNCHANGED <<gate, wrong, phone, conns, got>>,
           stored' \subseteq Pairings, stored \subseteq stored',
           \A p \in stored' : p \in stored \/ Granted(p),
           claimRow' \in [Pairings -> ClaimStates],
           \A p \in Pairings : claimRow'[p] = "approved" =>
              claimRow[p] = "approved" \/ (p \in stored /\ Ours(p, RelayPhone)),
           \A p \in Pairings : session'[p].relay => session[p].relay \/ Ours(p, RelayPhone)',
           \A p \in r.pairing :
              /\ r.pc = "synced" => Ours(p, RelayPhone)'
              /\ r.pc \in {"approved", "updated", "provisions", "pushes", "completes"} => Granted(p)'
              /\ r.pc \in {"provisions", "pushes"} => p \in stored'
              /\ r.pc = "provisions" => session'[p].relay
    PROVE  TrustInv'
<1>1. /\ phone' \in [Phones -> PhoneRecords]
      /\ conns' \in [Pairings -> SUBSET Phones]
      /\ got' \subseteq [who : Claimants, token : Pairings]
  BY DEF TrustInv, PairingTypes
<1> QED BY <1>1, RequestKeepsTrust

(* One session becomes r: nothing is lost if its owner stays, and what was  *)
(* granted stays granted.                                                   *)
LEMMA OneSessionAdvances ==
    ASSUME TrustInv, NEW p \in Pairings, NEW r,
           session' = [session EXCEPT ![p] = r],
           r \in SessionRecords,
           session[p].state \notin {"none", "created"} =>
              r.state \notin {"none", "created"} /\ r.by = session[p].by,
           Granted(p) => r.state \in {"approved", "completed"},
           session[p].relay => r.relay
    PROVE  /\ SessionAdvances
           /\ session'[p] = r
           /\ \A x \in Pairings : x # p => session'[x] = session[x]
<1>1. session \in [Pairings -> SessionRecords]
  BY DEF TrustInv, PairingTypes, SessionRecords
<1>2. session'[p] = r /\ \A x \in Pairings : x # p => session'[x] = session[x]
  BY <1>1
<1>3. session' \in [Pairings -> SessionRecords]
  BY <1>1
<1> QED BY <1>2, <1>3 DEF SessionAdvances, Ours, Granted

(* The transitions a session's mutex lets through.                          *)
LEMMA SessionSteps ==
    ASSUME TrustInv, NEW p \in Pairings
    PROVE  /\ UNCHANGED session => SessionAdvances /\ \A x \in Pairings : session'[x] = session[x]
           /\ Claim(p, RelayPhone) =>
                /\ SessionAdvances /\ Ours(p, RelayPhone)'
                /\ \A x \in Pairings : session'[x].relay = session[x].relay
           /\ Approve(p) => /\ SessionAdvances /\ Granted(p)'
                            /\ \A x \in Pairings : session'[x].relay = session[x].relay
           /\ Reject(p) => /\ SessionAdvances
                           /\ \A x \in Pairings : session'[x].relay = session[x].relay
           /\ Complete(p) => /\ SessionAdvances
                             /\ \A x \in Pairings : session'[x].relay = session[x].relay
           /\ session[p].state = "none" /\ session' = [session EXCEPT ![p].state = "created"] =>
                /\ SessionAdvances
                /\ \A x \in Pairings : session'[x].relay = session[x].relay
           /\ session' = [session EXCEPT ![p].relay = TRUE] =>
                /\ SessionAdvances
                /\ \A x \in Pairings : session'[x].relay => session[x].relay \/ x = p
           /\ session' = [session EXCEPT ![p].expired = TRUE] =>
                /\ SessionAdvances
                /\ \A x \in Pairings : session'[x].relay = session[x].relay
<1> DEFINE s == session[p]
           at(st) == [s EXCEPT !.state = st]
<1>0. /\ s \in SessionRecords
      /\ session \in [Pairings -> SessionRecords]
  BY DEF TrustInv, PairingTypes, SessionRecords
<1>a. s.relay \in BOOLEAN /\ s.by \in SUBSET Claimants /\ s.expired \in BOOLEAN /\ s.state \in States
  BY <1>0 DEF SessionRecords
<1>b. \A st \in States : at(st) \in SessionRecords /\ at(st).state = st /\ at(st).by = s.by /\ at(st).relay = s.relay
  BY <1>0 DEF SessionRecords
<1>1. UNCHANGED session => SessionAdvances /\ \A x \in Pairings : session'[x] = session[x]
  BY <1>0 DEF SessionAdvances, Ours, Granted
<1>2. ASSUME Claim(p, RelayPhone)
      PROVE  /\ SessionAdvances /\ Ours(p, RelayPhone)'
             /\ \A x \in Pairings : session'[x].relay = session[x].relay
  <2> DEFINE r == [s EXCEPT !.state = "claimed", !.by = {RelayPhone}]
  <2>1. session' = [session EXCEPT ![p] = r] /\ s.state = "created"
    BY <1>2, <1>0 DEF Claim, Claimable
  <2>2. r \in SessionRecords /\ r.state = "claimed" /\ r.by = {RelayPhone} /\ r.relay = s.relay
    BY <1>0 DEF SessionRecords, States, Claimants
  <2>3. ~Granted(p)
    BY <2>1 DEF Granted
  <2> HIDE DEF r
  <2>4. /\ SessionAdvances
        /\ session'[p] = r
        /\ \A x \in Pairings : x # p => session'[x] = session[x]
    BY <2>1, <2>2, <2>3, OneSessionAdvances
  <2> QED BY <2>2, <2>4 DEF Ours
<1>c. ASSUME NEW st \in States, session' = [session EXCEPT ![p].state = st],
             s.state \notin {"none", "created"} => st \notin {"none", "created"},
             Granted(p) => st \in {"approved", "completed"}
      PROVE  /\ SessionAdvances /\ session'[p].state = st
             /\ \A x \in Pairings : session'[x].relay = session[x].relay
  <2>1. session' = [session EXCEPT ![p] = at(st)]
    BY <1>0, <1>c
  <2> DEFINE r == at(st)
  <2>2. /\ session' = [session EXCEPT ![p] = r]
        /\ r \in SessionRecords /\ r.state = st /\ r.by = s.by /\ r.relay = s.relay
    BY <1>b, <1>c, <2>1
  <2> HIDE DEF r
  <2>3. /\ SessionAdvances
        /\ session'[p] = r
        /\ \A x \in Pairings : x # p => session'[x] = session[x]
    <3>1. /\ session[p].state \notin {"none", "created"} =>
                r.state \notin {"none", "created"} /\ r.by = session[p].by
          /\ Granted(p) => r.state \in {"approved", "completed"}
          /\ session[p].relay => r.relay
      BY <1>c, <2>2
    <3> QED BY <2>2, <3>1, OneSessionAdvances, Zenon
  <2> QED BY <2>2, <2>3
<1>3. ASSUME Approve(p)
      PROVE  SessionAdvances /\ Granted(p)' /\ \A x \in Pairings : session'[x].relay = session[x].relay
  BY <1>3, <1>c DEF Approve, States, Granted
<1>4. ASSUME Reject(p)
      PROVE  SessionAdvances /\ \A x \in Pairings : session'[x].relay = session[x].relay
  BY <1>4, <1>c DEF Reject, States, Granted
<1>5. ASSUME Complete(p)
      PROVE  SessionAdvances /\ \A x \in Pairings : session'[x].relay = session[x].relay
  <2> DEFINE st == IF s.state = "approved" THEN "completed" ELSE s.state
  <2>1. session' = [session EXCEPT ![p].state = st] /\ st \in States
    BY <1>5, <1>a DEF Complete, States
  <2> QED BY <2>1, <1>c DEF Granted
<1>6. ASSUME session[p].state = "none", session' = [session EXCEPT ![p].state = "created"]
      PROVE  SessionAdvances /\ \A x \in Pairings : session'[x].relay = session[x].relay
  BY <1>6, <1>c DEF States, Granted
<1>7. ASSUME session' = [session EXCEPT ![p].relay = TRUE]
      PROVE  SessionAdvances /\ \A x \in Pairings : session'[x].relay => session[x].relay \/ x = p
  <2> DEFINE r == [s EXCEPT !.relay = TRUE]
  <2>1. session' = [session EXCEPT ![p] = r]
    BY <1>0, <1>7
  <2>2. r \in SessionRecords /\ r.state = s.state /\ r.by = s.by /\ r.relay = TRUE
    BY <1>0 DEF SessionRecords
  <2> HIDE DEF r
  <2>3. SessionAdvances /\ \A x \in Pairings : x # p => session'[x] = session[x]
    BY <2>1, <2>2, OneSessionAdvances DEF Granted
  <2> QED BY <2>3, Zenon
<1>8. ASSUME session' = [session EXCEPT ![p].expired = TRUE]
      PROVE  SessionAdvances /\ \A x \in Pairings : session'[x].relay = session[x].relay
  <2> DEFINE r == [s EXCEPT !.expired = TRUE]
  <2>1. session' = [session EXCEPT ![p] = r]
    BY <1>0, <1>8
  <2>2. r \in SessionRecords /\ r.state = s.state /\ r.by = s.by /\ r.relay = s.relay
    BY <1>0 DEF SessionRecords
  <2> HIDE DEF r
  <2>3. SessionAdvances /\ session'[p] = r /\ \A x \in Pairings : x # p => session'[x] = session[x]
    BY <2>1, <2>2, OneSessionAdvances DEF Granted
  <2> QED BY <2>2, <2>3
<1> QED BY <1>1, <1>2, <1>3, <1>4, <1>5, <1>6, <1>7, <1>8, Zenon

LEMMA RequestStepKeepsTrust ==
    ASSUME TrustInv, NEW q \in Requests, RequestStep(q)
    PROVE  TrustInv'
<1> DEFINE old == request[q]
           to(pc) == [pc |-> pc, pairing |-> old.pairing]
           on(pc, p) == [pc |-> pc, pairing |-> {p}]
<1>0. old.pc \in RequestSteps /\ old.pairing \in Chosen /\ old.pairing \subseteq Pairings
  BY DEF TrustInv, PairingTypes, Chosen
<1>1. \A pc \in RequestSteps : /\ to(pc) \in RequestRecords
                               /\ to(pc).pc = pc /\ to(pc).pairing = old.pairing
                               /\ Moves(q, pc) => request' = [request EXCEPT ![q] = to(pc)]
  BY <1>0 DEF Moves, RequestRecords, TrustInv, PairingTypes
<1>2. \A pc \in RequestSteps, p \in Pairings :
         /\ on(pc, p) \in RequestRecords
         /\ on(pc, p).pc = pc /\ on(pc, p).pairing = {p}
         /\ Starts(q, p, pc) => request' = [request EXCEPT ![q] = on(pc, p)]
  BY DEF Starts, RequestRecords, Chosen
<1>3. /\ byID \subseteq Pairings /\ stored \subseteq Pairings /\ claimRow \in [Pairings -> ClaimStates]
      /\ \A p, x \in old.pairing : p = x
  BY <1>0 DEF TrustInv, PairingTypes, Chosen
<1>4. /\ \A p \in old.pairing :
           /\ old.pc \in {"approved", "updated", "provisions", "pushes", "completes"} => Granted(p)
           /\ old.pc \in {"provisions", "pushes"} => p \in stored
           /\ old.pc = "provisions" => session[p].relay
           /\ old.pc = "synced" => Ours(p, RelayPhone)
      /\ \A p \in Pairings : session[p].relay => Ours(p, RelayPhone)
  BY DEF TrustInv, RequestsInOrder, RelayOwnsItsClaims
<1>5. UNCHANGED session => SessionAdvances /\ \A p \in Pairings : session'[p] = session[p]
                             /\ (Granted(p) => Granted(p)')
  BY SessionSteps DEF Granted, SessionAdvances, TrustInv, PairingTypes, SessionRecords, Ours
<1>6. SessionAdvances => /\ \A p \in Pairings : (Granted(p) => Granted(p)') /\ (Ours(p, RelayPhone) => Ours(p, RelayPhone)')
  BY DEF SessionAdvances, Claimants
<1> HIDE DEF old, to, on
<1>11. CASE HandlePairingCreate(q)
  <2>1. PICK p \in Pairings :
          /\ session[p].state = "none"
          /\ session' = [session EXCEPT ![p].state = "created"]
          /\ byID' = byID \cup {p}
          /\ Moves(q, "done")
          /\ UNCHANGED <<gate, phone, conns, claimRow, stored, got, wrong>>
    BY <1>11, Zenon DEF HandlePairingCreate
  <2>2. SessionAdvances /\ \A x \in Pairings : session'[x].relay = session[x].relay
    BY <2>1, SessionSteps
  <2>3. request' = [request EXCEPT ![q] = to("done")] /\ to("done") \in RequestRecords /\ to("done").pc = "done"
    BY <2>1, <1>1 DEF RequestSteps
  <2> QED BY <2>1, <2>2, <2>3, <1>3, QuietRequestKeepsTrust
<1>12. CASE HandlePairingGet(q)
  <2>1. PICK p \in byID :
          /\ Starts(q, p, "listed")
          /\ UNCHANGED <<session, byID, gate, phone, conns, claimRow, stored, got, wrong>>
    BY <1>12, Zenon DEF HandlePairingGet
  <2>2. /\ request' = [request EXCEPT ![q] = on("listed", p)] /\ on("listed", p) \in RequestRecords
        /\ on("listed", p).pc = "listed"
    BY <2>1, <1>2, <1>3 DEF RequestSteps
  <2> QED BY <2>1, <2>2, <1>3, <1>5, QuietRequestKeepsTrust
<1>13. CASE SyncClaims(q)
  <2>1. PICK p \in old.pairing :
          /\ \/ Claim(p, RelayPhone) /\ Moves(q, "synced")
             \/ Moves(q, "done") /\ UNCHANGED session
          /\ UNCHANGED <<byID, gate, phone, conns, claimRow, stored, got, wrong>>
    BY <1>13, Zenon DEF SyncClaims, old
  <2>2. CASE Claim(p, RelayPhone) /\ Moves(q, "synced")
    <3>1. SessionAdvances /\ Ours(p, RelayPhone)' /\ \A x \in Pairings : session'[x].relay = session[x].relay
      BY <2>2, <1>0, SessionSteps
    <3>2. /\ request' = [request EXCEPT ![q] = to("synced")] /\ to("synced") \in RequestRecords
          /\ to("synced").pc = "synced" /\ to("synced").pairing = old.pairing
      BY <2>2, <1>1 DEF RequestSteps
    <3> QED BY <2>1, <3>1, <3>2, <1>3, QuietRequestKeepsTrust
  <2>3. CASE Moves(q, "done") /\ UNCHANGED session
    <3>1. request' = [request EXCEPT ![q] = to("done")] /\ to("done") \in RequestRecords /\ to("done").pc = "done"
      BY <2>3, <1>1 DEF RequestSteps
    <3> QED BY <2>1, <2>3, <3>1, <1>3, <1>5, QuietRequestKeepsTrust
  <2> QED BY <2>1, <2>2, <2>3
<1>14. CASE SyncSetsRelayClaim(q)
  <2>1. PICK p \in old.pairing :
          /\ old.pc = "synced"
          /\ session' = [session EXCEPT ![p].relay = TRUE]
          /\ Moves(q, "done")
          /\ UNCHANGED <<byID, gate, phone, conns, claimRow, stored, got, wrong>>
    BY <1>14, Zenon DEF SyncSetsRelayClaim, On, old
  <2>2. Ours(p, RelayPhone)
    BY <2>1, <1>4
  <2>3. SessionAdvances /\ \A x \in Pairings : session'[x].relay => session[x].relay \/ x = p
    BY <2>1, <2>2, <1>0, SessionSteps
  <2>4. Ours(p, RelayPhone)'
    BY <2>2, <2>3, <1>0, <1>6
  <2>5. request' = [request EXCEPT ![q] = to("done")] /\ to("done") \in RequestRecords /\ to("done").pc = "done"
    BY <2>1, <1>1 DEF RequestSteps
  <2> QED BY <2>1, <2>3, <2>4, <2>5, <1>3, QuietRequestKeepsTrust
<1>15. CASE HandlePairingApprove(q)
  <2>1. PICK p \in byID :
          /\ Approve(p)
          /\ Starts(q, p, "approved")
          /\ UNCHANGED <<byID, gate, phone, conns, claimRow, stored, got, wrong>>
    BY <1>15, Zenon DEF HandlePairingApprove
  <2>2. SessionAdvances /\ Granted(p)' /\ \A x \in Pairings : session'[x].relay = session[x].relay
    BY <2>1, <1>3, SessionSteps
  <2>3. /\ request' = [request EXCEPT ![q] = on("approved", p)] /\ on("approved", p) \in RequestRecords
        /\ on("approved", p).pc = "approved" /\ on("approved", p).pairing = {p}
    BY <2>1, <1>2, <1>3 DEF RequestSteps
  <2> QED BY <2>1, <2>2, <2>3, <1>3, QuietRequestKeepsTrust
<1>16. CASE ApproveUpdates(q)
  <2>1. /\ old.pc = "approved"
        /\ Moves(q, "updated") \/ Moves(q, "done")
        /\ UNCHANGED <<session, byID, gate, phone, conns, claimRow, stored, got, wrong>>
    BY <1>16, Zenon DEF ApproveUpdates, On, old
  <2>2. PICK pc \in {"updated", "done"} : Moves(q, pc)
    BY <2>1
  <2>3. /\ request' = [request EXCEPT ![q] = to(pc)] /\ to(pc) \in RequestRecords
        /\ to(pc).pc = pc /\ to(pc).pairing = old.pairing
    BY <2>2, <1>1 DEF RequestSteps
  <2>4. \A p \in old.pairing : Granted(p)'
    BY <2>1, <1>0, <1>4, <1>5
  <2> QED BY <2>1, <2>3, <2>4, <1>3, <1>5, QuietRequestKeepsTrust
<1>17. CASE ApproveStores(q)
  <2>1. PICK p \in old.pairing :
          /\ old.pc = "updated"
          /\ \/ /\ stored' = stored \cup {p}
                /\ Moves(q, IF session[p].relay THEN "provisions" ELSE "pushes")
             \/ Moves(q, "done") /\ UNCHANGED stored
          /\ UNCHANGED <<session, byID, gate, phone, conns, claimRow, got, wrong>>
    BY <1>17, Zenon DEF ApproveStores, On, old
  <2>2. Granted(p) /\ Granted(p)'
    BY <2>1, <1>0, <1>4, <1>5
  <2>3. CASE stored' = stored \cup {p} /\ Moves(q, IF session[p].relay THEN "provisions" ELSE "pushes")
    <3>1. PICK pc \in {"provisions", "pushes"} : Moves(q, pc) /\ (pc = "provisions" => session[p].relay)
      BY <2>3
    <3>2. /\ request' = [request EXCEPT ![q] = to(pc)] /\ to(pc) \in RequestRecords
          /\ to(pc).pc = pc /\ to(pc).pairing = old.pairing
      BY <3>1, <1>1 DEF RequestSteps
    <3> QED BY <2>1, <2>2, <2>3, <3>1, <3>2, <1>0, <1>3, <1>5, QuietRequestKeepsTrust
  <2>4. CASE Moves(q, "done") /\ UNCHANGED stored
    <3>1. request' = [request EXCEPT ![q] = to("done")] /\ to("done") \in RequestRecords /\ to("done").pc = "done"
      BY <2>4, <1>1 DEF RequestSteps
    <3> QED BY <2>1, <2>4, <3>1, <1>3, <1>5, QuietRequestKeepsTrust
  <2> QED BY <2>1, <2>3, <2>4
<1>18. CASE ApproveAtRelay(q)
  <2>1. PICK p \in old.pairing :
          /\ old.pc = "provisions"
          /\ \/ claimRow' = [claimRow EXCEPT ![p] = "approved"] /\ Moves(q, "completes")
             \/ Moves(q, "done") /\ UNCHANGED claimRow
          /\ UNCHANGED <<session, byID, gate, phone, conns, stored, got, wrong>>
    BY <1>18, Zenon DEF ApproveAtRelay, On, old
  <2>2. p \in stored /\ Ours(p, RelayPhone) /\ Granted(p)'
    BY <2>1, <1>0, <1>4, <1>5
  <2>3. /\ claimRow' \in [Pairings -> ClaimStates]
        /\ \A x \in Pairings : claimRow'[x] = "approved" => claimRow[x] = "approved" \/ x = p
    BY <2>1, <1>3, <1>0 DEF ClaimStates
  <2>4. PICK pc \in {"completes", "done"} : Moves(q, pc)
    BY <2>1
  <2>5. /\ request' = [request EXCEPT ![q] = to(pc)] /\ to(pc) \in RequestRecords
        /\ to(pc).pc = pc /\ to(pc).pairing = old.pairing
    BY <2>4, <1>1 DEF RequestSteps
  <2> QED BY <2>1, <2>2, <2>3, <2>5, <1>3, <1>5, QuietRequestKeepsTrust
<1>19. CASE NotifyComplete(q)
  <2>1. PICK p \in old.pairing :
          /\ old.pc = "pushes"
          /\ \/ UNCHANGED <<phone, got>>
             \/ \E h \in conns[p] : /\ got' \in {got, got \cup {[who |-> h, token |-> p]}}
                                    /\ Goes(h, "notified")
          /\ conns' = [conns EXCEPT ![p] = {}]
          /\ Moves(q, "completes")
          /\ UNCHANGED <<session, byID, gate, claimRow, stored, wrong>>
    BY <1>19, Zenon DEF NotifyComplete, On, old
  <2>2. p \in Pairings /\ p \in stored /\ Granted(p)'
    BY <2>1, <1>0, <1>4, <1>5
  <2>3. /\ request' = [request EXCEPT ![q] = to("completes")] /\ to("completes") \in RequestRecords
        /\ to("completes").pc = "completes" /\ to("completes").pairing = old.pairing
    BY <2>1, <1>1 DEF RequestSteps
  <2>4. /\ conns' \in [Pairings -> SUBSET Phones]
        /\ \A x \in Pairings : conns'[x] = IF x = p THEN {} ELSE conns[x]
    BY <2>1, <2>2 DEF TrustInv, PairingTypes
  <2>5. \A h \in conns[p] : /\ h \in Phones /\ Ours(p, h) /\ phone[h].pc = "pending" /\ phone[h].pairing = {p}
                            /\ \A x \in Pairings : h \in conns[x] => x = p
    <3>1. \A x \in Pairings : \A h \in conns[x] : h \in Phones /\ Ours(x, h) /\ phone[h].pc = "pending" /\ phone[h].pairing = {x}
      BY DEF TrustInv, PhonesOwnTheirClaims, PairingTypes
    <3> QED BY <2>2, <3>1
  <2>6. /\ got' \subseteq [who : Claimants, token : Pairings]
        /\ \A g \in got' : g \in got \/ (g.token \in stored /\ Ours(g.token, g.who))
    <3>1. got \subseteq [who : Claimants, token : Pairings]
      BY DEF TrustInv, PairingTypes
    <3> QED BY <2>1, <2>2, <2>5, <3>1 DEF Claimants
  <2>7. /\ phone' \in [Phones -> PhoneRecords]
        /\ \A h \in Phones : /\ phone'[h].pairing = phone[h].pairing
                             /\ phone'[h].pc \in Owning => phone[h].pc \in Owning
                             /\ \A x \in Pairings : h \in conns'[x] => phone'[h] = phone[h]
    <3>0. phone \in [Phones -> PhoneRecords]
      BY DEF TrustInv, PairingTypes
    <3>1. CASE UNCHANGED phone
      BY <3>0, <3>1
    <3>2. ASSUME NEW h \in conns[p], Goes(h, "notified") PROVE <2>7
      <4>1. phone' = [phone EXCEPT ![h].pc = "notified"]
        BY <3>2 DEF Goes
      <4> QED BY <3>0, <4>1, <2>4, <2>5 DEF PhoneRecords, PhoneSteps, Owning
    <3> QED BY <2>1, <3>1, <3>2
  <2>8. \A x \in Pairings : conns'[x] \subseteq conns[x]
    BY <2>4
  <2>9. SessionAdvances /\ \A x \in Pairings : session'[x] = session[x]
    BY <2>1, <1>5
  <2> DEFINE r == to("completes")
  <2>10. /\ r \in RequestRecords /\ request' = [request EXCEPT ![q] = r]
         /\ \A x \in r.pairing :
              /\ r.pc = "synced" => Ours(x, RelayPhone)'
              /\ r.pc \in {"approved", "updated", "provisions", "pushes", "completes"} => Granted(x)'
              /\ r.pc \in {"provisions", "pushes"} => x \in stored'
              /\ r.pc = "provisions" => session'[x].relay
    BY <2>2, <2>3, <1>3
  <2>11. /\ byID' \subseteq Pairings /\ gate' = gate /\ wrong' = wrong
         /\ stored' \subseteq Pairings /\ stored \subseteq stored'
         /\ \A x \in stored' : x \in stored \/ Granted(x)
         /\ claimRow' \in [Pairings -> ClaimStates]
         /\ \A x \in Pairings : claimRow'[x] = "approved" =>
              claimRow[x] = "approved" \/ (x \in stored /\ Ours(x, RelayPhone))
         /\ \A x \in Pairings : session'[x].relay => session[x].relay \/ Ours(x, RelayPhone)'
    BY <2>1, <2>9, <1>3
  <2> HIDE DEF r
  <2> QED BY <2>10, <2>11, <2>4, <2>6, <2>7, <2>8, <2>9, RequestKeepsTrust, Zenon
<1>20. CASE ApproveCompletes(q)
  <2>1. PICK p \in old.pairing :
          /\ Complete(p)
          /\ Moves(q, "done")
          /\ UNCHANGED <<byID, gate, phone, conns, claimRow, stored, got, wrong>>
    BY <1>20, Zenon DEF ApproveCompletes, old
  <2>2. SessionAdvances /\ \A x \in Pairings : session'[x].relay = session[x].relay
    BY <2>1, <1>0, SessionSteps
  <2>3. request' = [request EXCEPT ![q] = to("done")] /\ to("done") \in RequestRecords /\ to("done").pc = "done"
    BY <2>1, <1>1 DEF RequestSteps
  <2> QED BY <2>1, <2>2, <2>3, <1>3, QuietRequestKeepsTrust
<1>21. CASE HandlePairingReject(q)
  <2>1. PICK p \in byID :
          /\ Reject(p)
          /\ Starts(q, p, "rejected")
          /\ UNCHANGED <<byID, gate, phone, conns, claimRow, stored, got, wrong>>
    BY <1>21, Zenon DEF HandlePairingReject
  <2>2. SessionAdvances /\ \A x \in Pairings : session'[x].relay = session[x].relay
    BY <2>1, <1>3, SessionSteps
  <2>3. /\ request' = [request EXCEPT ![q] = on("rejected", p)] /\ on("rejected", p) \in RequestRecords
        /\ on("rejected", p).pc = "rejected"
    BY <2>1, <1>2, <1>3 DEF RequestSteps
  <2> QED BY <2>1, <2>2, <2>3, <1>3, QuietRequestKeepsTrust
<1>22. CASE RejectAtRelay(q)
  <2>1. PICK p \in old.pairing :
          /\ claimRow' = [claimRow EXCEPT ![p] = "rejected"] \/ UNCHANGED claimRow
          /\ Moves(q, "done")
          /\ UNCHANGED <<session, byID, gate, phone, conns, stored, got, wrong>>
    BY <1>22, Zenon DEF RejectAtRelay, old
  <2>2. /\ claimRow' \in [Pairings -> ClaimStates]
        /\ \A x \in Pairings : claimRow'[x] = "approved" => claimRow[x] = "approved"
    BY <2>1, <1>3, <1>0 DEF ClaimStates
  <2>3. request' = [request EXCEPT ![q] = to("done")] /\ to("done") \in RequestRecords /\ to("done").pc = "done"
    BY <2>1, <1>1 DEF RequestSteps
  <2> QED BY <2>1, <2>2, <2>3, <1>3, <1>5, QuietRequestKeepsTrust
<1> QED BY <1>11, <1>12, <1>13, <1>14, <1>15, <1>16, <1>17, <1>18, <1>19, <1>20, <1>21, <1>22
        DEF RequestStep

(* Time passes, or a device talks to the relay.                             *)
LEMMA OutsideKeepsTrust ==
    ASSUME TrustInv, SessionAdvances,
           \A x \in Pairings : session'[x].relay = session[x].relay,
           UNCHANGED <<byID, phone, conns, request, stored, wrong>>,
           gate' \in Gates,
           claimRow' \in [Pairings -> ClaimStates],
           \A p \in Pairings : claimRow'[p] = "approved" => claimRow[p] = "approved",
           got' \subseteq [who : Claimants, token : Pairings],
           \A g \in got' : g \in got \/ (g.token \in stored /\ Ours(g.token, g.who))
    PROVE  TrustInv'
<1> USE DEF TrustInv
<1>0. /\ RelayPhone \in Claimants /\ Phones \subseteq Claimants
      /\ \A x \in Requests : request[x].pairing \subseteq Pairings
      /\ \A x \in Phones : phone[x].pairing \subseteq Pairings
      /\ \A p \in Pairings : conns[p] \subseteq Phones
  BY DEF Claimants, PairingTypes, Chosen, PhoneRecords
<1>1. PairingTypes'
  BY DEF PairingTypes, SessionAdvances, SessionRecords
<1>2. PhonesOwnTheirClaims'
  <2>1. \A h \in Phones : \A p \in phone[h].pairing :
          phone[h].pc \in {"claimed", "pending", "notified"} => Ours(p, h)'
    BY <1>0 DEF PhonesOwnTheirClaims, SessionAdvances
  <2>2. \A p \in Pairings : \A h \in conns[p] :
          Ours(p, h)' /\ phone[h].pc = "pending" /\ phone[h].pairing = {p}
    BY <1>0 DEF PhonesOwnTheirClaims, SessionAdvances
  <2> QED BY <2>1, <2>2 DEF PhonesOwnTheirClaims
<1>3. RelayOwnsItsClaims'
  BY <1>0 DEF RelayOwnsItsClaims, SessionAdvances, PairingTypes
<1>4. RequestsInOrder'
  BY <1>0 DEF RequestsInOrder, SessionAdvances, PairingTypes
<1>5. TokensEarned'
  <2>1. \A p \in stored' : Granted(p)'
    BY DEF TokensEarned, SessionAdvances, PairingTypes
  <2>2. \A p \in Pairings : claimRow'[p] = "approved" => p \in stored' /\ Ours(p, RelayPhone)'
    BY <1>0 DEF TokensEarned, SessionAdvances
  <2>3. \A g \in got' : g.token \in stored' /\ Ours(g.token, g.who)'
    BY DEF TokensEarned, SessionAdvances
  <2> QED BY <2>1, <2>2, <2>3 DEF TokensEarned
<1> QED BY <1>1, <1>2, <1>3, <1>4, <1>5

OutsideStep ==
    \/ \E p \in Pairings :
          \/ Expires(p) \/ FailureLapses(p) \/ PhoneSubmitsClaim(p) \/ GetPairingResult(p)
          \/ ClaimExpires(p)
    \/ AttemptLapses

LEMMA OutsideStepKeepsTrust == TrustInv /\ OutsideStep => TrustInv'
<1> SUFFICES ASSUME TrustInv, OutsideStep PROVE TrustInv'
  OBVIOUS
<1>0. /\ claimRow \in [Pairings -> ClaimStates] /\ gate \in Gates
      /\ got \subseteq [who : Claimants, token : Pairings]
      /\ session \in [Pairings -> SessionRecords]
  BY DEF TrustInv, PairingTypes, SessionRecords
<1>1. UNCHANGED session => SessionAdvances /\ \A x \in Pairings : session'[x].relay = session[x].relay
  BY <1>0 DEF SessionAdvances, Ours, Granted
<1>2. ASSUME NEW p \in Pairings, Expires(p) PROVE TrustInv'
  <2>1. /\ session' = [session EXCEPT ![p].expired = TRUE]
        /\ UNCHANGED <<byID, gate, phone, conns, request, claimRow, stored, got, wrong>>
    BY <1>2, Zenon DEF Expires
  <2>2. SessionAdvances /\ \A x \in Pairings : session'[x].relay = session[x].relay
    BY <2>1, SessionSteps
  <2> QED BY <1>0, <2>1, <2>2, OutsideKeepsTrust
<1>3. ASSUME NEW p \in Pairings, FailureLapses(p) PROVE TrustInv'
  <2>1. /\ gate.fails[p] > 0 /\ gate' = [gate EXCEPT !.fails[p] = @ - 1]
        /\ UNCHANGED <<session, byID, phone, conns, request, claimRow, stored, got, wrong>>
    BY <1>3, Zenon DEF FailureLapses
  <2>2. gate' \in Gates
    BY <1>0, <2>1, PairingAssumption DEF Gates
  <2> QED BY <1>0, <1>1, <2>1, <2>2, OutsideKeepsTrust
<1>4. ASSUME NEW p \in Pairings, PhoneSubmitsClaim(p) PROVE TrustInv'
  <2>1. /\ claimRow' = [claimRow EXCEPT ![p] = "pending"]
        /\ UNCHANGED <<session, byID, gate, phone, conns, request, stored, got, wrong>>
    BY <1>4, Zenon DEF PhoneSubmitsClaim
  <2>2. /\ claimRow' \in [Pairings -> ClaimStates]
        /\ \A x \in Pairings : claimRow'[x] = "approved" => claimRow[x] = "approved"
    BY <1>0, <2>1 DEF ClaimStates
  <2> QED BY <1>0, <1>1, <2>1, <2>2, OutsideKeepsTrust
<1>5. ASSUME NEW p \in Pairings, GetPairingResult(p) PROVE TrustInv'
  <2>1. /\ claimRow' = [claimRow EXCEPT ![p] = "consumed"]
        /\ got' \in IF claimRow[p] = "approved"
                    THEN {got, got \cup {[who |-> RelayPhone, token |-> p]}} ELSE {got}
        /\ UNCHANGED <<session, byID, gate, phone, conns, request, stored, wrong>>
    BY <1>5, Zenon DEF GetPairingResult
  <2>2. /\ claimRow' \in [Pairings -> ClaimStates]
        /\ \A x \in Pairings : claimRow'[x] = "approved" => claimRow[x] = "approved"
    BY <1>0, <2>1 DEF ClaimStates
  <2>3. claimRow[p] = "approved" => p \in stored /\ Ours(p, RelayPhone)
    BY DEF TrustInv, TokensEarned
  <2>4. /\ got' \subseteq [who : Claimants, token : Pairings]
        /\ \A g \in got' : g \in got \/ (g.token \in stored /\ Ours(g.token, g.who))
    BY <1>0, <2>1, <2>3 DEF Claimants
  <2> QED BY <1>0, <1>1, <2>1, <2>2, <2>4, OutsideKeepsTrust
<1>6. ASSUME NEW p \in Pairings, ClaimExpires(p) PROVE TrustInv'
  <2>1. /\ claimRow' = [claimRow EXCEPT ![p] = "gone"]
        /\ UNCHANGED <<session, byID, gate, phone, conns, request, stored, got, wrong>>
    BY <1>6, Zenon DEF ClaimExpires
  <2>2. /\ claimRow' \in [Pairings -> ClaimStates]
        /\ \A x \in Pairings : claimRow'[x] = "approved" => claimRow[x] = "approved"
    BY <1>0, <2>1 DEF ClaimStates
  <2> QED BY <1>0, <1>1, <2>1, <2>2, OutsideKeepsTrust
<1>7. ASSUME AttemptLapses PROVE TrustInv'
  <2>1. /\ gate.source > 0 /\ gate' = [gate EXCEPT !.source = @ - 1]
        /\ UNCHANGED <<session, byID, phone, conns, request, claimRow, stored, got, wrong>>
    BY <1>7, Zenon DEF AttemptLapses
  <2>2. gate' \in Gates
    BY <1>0, <2>1 DEF Gates
  <2> QED BY <1>0, <1>1, <2>1, <2>2, OutsideKeepsTrust
<1> QED BY <1>2, <1>3, <1>4, <1>5, <1>6, <1>7 DEF OutsideStep

LEMMA PairingSteps ==
    PairingNext => \/ \E h \in Phones : PhoneStep(h)
                   \/ \E q \in Requests : RequestStep(q)
                   \/ OutsideStep
BY Zenon DEF PairingNext, PhoneStep, RequestStep, OutsideStep

LEMMA TrustInvariant == PairingSpec => []TrustInv
<1>1. TrustInv /\ UNCHANGED pairingVars => TrustInv'
  BY DEF pairingVars, TrustInv, PairingTypes, PhonesOwnTheirClaims, RelayOwnsItsClaims,
         RequestsInOrder, TokensEarned, Ours, Granted
<1>2. TrustInv /\ [PairingNext]_pairingVars => TrustInv'
  BY <1>1, PairingSteps, PhoneStepKeepsTrust, RequestStepKeepsTrust, OutsideStepKeepsTrust
<1> QED BY TrustInit, <1>2, PTL DEF PairingSpec

(* A token that reached a device is in the device store, and the device is  *)
(* the one whose claim the Mac approved: for any number of sessions, phones *)
(* and overlapping requests, with claims through the relay, errors in the   *)
(* middle of handlePairingApprove and phones that go away.                  *)
THEOREM PairingDeliveredIsTrusted == PairingSpec => []DeliveredIsTrusted
<1>1. TrustInv => DeliveredIsTrusted
  BY DEF TrustInv, TokensEarned, DeliveredIsTrusted, Ours
<1> QED BY <1>1, TrustInvariant, PTL

-----------------------------------------------------------------------------
(* The gate.                                                               *)

InFlow == {h \in Phones : phone[h].pc \notin {"new", "ended"}}
Comparing(p) == {h \in Phones : phone[h].pc = "found" /\ p \in phone[h].pairing}
Deleting(p) == {h \in Phones : phone[h].pc = "exhausted" /\ p \in phone[h].pairing}

(* The codes tried so far.  While the session is in the store they are      *)
(* counted failures, save those of handlers about to delete it; once it is  *)
(* deleted only handlers that had looked it up before can try another.      *)
GuessesCounted(p) ==
    /\ wrong[p] <= FailLimit - 1 + MaxActive
    /\ session[p].state = "none" =>
          p \notin byID /\ wrong[p] = 0 /\ Comparing(p) = {} /\ Deleting(p) = {}
    /\ Claimable(p) /\ p \in byID =>
          /\ wrong[p] <= FailLimit - 1 + Cardinality(Deleting(p))
          /\ gate.fails[p] < FailLimit => wrong[p] <= gate.fails[p] /\ Deleting(p) = {}
    /\ Claimable(p) /\ p \notin byID =>
          wrong[p] + Cardinality(Comparing(p)) <= FailLimit - 1 + MaxActive

GateInv == SlotsExact /\ gate.active <= MaxActive /\ \A p \in Pairings : GuessesCounted(p)

LEMMA GateInit == PairingInit => GateInv
<1> SUFFICES ASSUME PairingInit PROVE GateInv
  OBVIOUS
<1>1. InFlow = {} /\ \A p \in Pairings : Comparing(p) = {} /\ Deleting(p) = {}
  BY DEF PairingInit, InFlow, Comparing, Deleting
<1>2. Cardinality({}) = 0
  BY FS_EmptySet
<1>3. SlotsExact /\ gate.active <= MaxActive
  <2>1. SlotsExact <=> gate.active = Cardinality(InFlow)
    BY DEF SlotsExact, InFlow
  <2>2. gate.active = 0
    BY DEF PairingInit
  <2> QED BY <1>1, <1>2, <2>1, <2>2, PairingAssumption
<1>4. ASSUME NEW p \in Pairings PROVE GuessesCounted(p)
  BY <1>1, PairingAssumption DEF PairingInit, NoSession, GuessesCounted, Claimable
<1> QED BY <1>3, <1>4 DEF GateInv

(* The sets of handlers, their sizes, and how one handler's move changes    *)
(* them.                                                                    *)
LEMMA HandlerSets ==
    ASSUME NEW p
    PROVE  /\ IsFiniteSet(InFlow) /\ IsFiniteSet(Comparing(p)) /\ IsFiniteSet(Deleting(p))
           /\ Cardinality(InFlow) \in Nat /\ Cardinality(Comparing(p)) \in Nat
           /\ Cardinality(Deleting(p)) \in Nat
           /\ Cardinality(Deleting(p)) + Cardinality(Comparing(p)) <= Cardinality(InFlow)
<1>1. IsFiniteSet(InFlow)
  BY FS_Subset, PairingAssumption DEF InFlow
<1>2. Comparing(p) \subseteq InFlow /\ Deleting(p) \subseteq InFlow /\ Deleting(p) \cap Comparing(p) = {}
  BY DEF InFlow, Comparing, Deleting
<1>3. IsFiniteSet(Comparing(p)) /\ IsFiniteSet(Deleting(p))
  BY <1>1, <1>2, FS_Subset
<1>4. /\ Cardinality(InFlow) \in Nat /\ Cardinality(Comparing(p)) \in Nat
      /\ Cardinality(Deleting(p)) \in Nat
  BY <1>1, <1>3, FS_CardinalityType
<1>5. Cardinality(Deleting(p) \cup Comparing(p)) = Cardinality(Deleting(p)) + Cardinality(Comparing(p))
  <2>1. Cardinality(Deleting(p) \cap Comparing(p)) = 0
    BY <1>2, FS_EmptySet
  <2>2. Cardinality(Deleting(p) \cup Comparing(p)) =
          Cardinality(Deleting(p)) + Cardinality(Comparing(p)) - Cardinality(Deleting(p) \cap Comparing(p))
    BY <1>3, FS_Union, Zenon
  <2> QED BY <1>4, <2>1, <2>2
<1>6. Cardinality(Deleting(p) \cup Comparing(p)) <= Cardinality(InFlow)
  BY <1>1, <1>2, FS_Subset
<1> QED BY <1>1, <1>3, <1>4, <1>5, <1>6

LEMMA HandlerMoves ==
    ASSUME PairingTypes, NEW h \in Phones, NEW r, phone' = [phone EXCEPT ![h] = r]
    PROVE  /\ InFlow' = IF r.pc \in {"new", "ended"} THEN InFlow \ {h} ELSE InFlow \cup {h}
           /\ \A p : /\ Comparing(p)' = IF r.pc = "found" /\ p \in r.pairing
                                        THEN Comparing(p) \cup {h} ELSE Comparing(p) \ {h}
                     /\ Deleting(p)' = IF r.pc = "exhausted" /\ p \in r.pairing
                                       THEN Deleting(p) \cup {h} ELSE Deleting(p) \ {h}
<1>1. phone'[h] = r /\ \A x \in Phones : x # h => phone'[x] = phone[x]
  BY DEF PairingTypes
<1>2. InFlow' = {x \in Phones : phone'[x].pc \notin {"new", "ended"}}
  BY DEF InFlow
<1>3. \A p : /\ Comparing(p)' = {x \in Phones : phone'[x].pc = "found" /\ p \in phone'[x].pairing}
             /\ Deleting(p)' = {x \in Phones : phone'[x].pc = "exhausted" /\ p \in phone'[x].pairing}
  BY DEF Comparing, Deleting
<1>4. InFlow' = IF r.pc \in {"new", "ended"} THEN InFlow \ {h} ELSE InFlow \cup {h}
  BY <1>1, <1>2 DEF InFlow
<1>5. ASSUME NEW p
      PROVE  /\ Comparing(p)' = IF r.pc = "found" /\ p \in r.pairing
                                THEN Comparing(p) \cup {h} ELSE Comparing(p) \ {h}
             /\ Deleting(p)' = IF r.pc = "exhausted" /\ p \in r.pairing
                               THEN Deleting(p) \cup {h} ELSE Deleting(p) \ {h}
  BY <1>1, <1>3 DEF Comparing, Deleting
<1> QED BY <1>4, <1>5

(* The slots in use stay the handlers in the flow: one more when a handler  *)
(* acquires, one less when it returns.                                      *)
LEMMA SlotsMove ==
    ASSUME PairingTypes, SlotsExact, gate.active <= MaxActive, gate' \in Gates,
           NEW h \in Phones, NEW r, phone' = [phone EXCEPT ![h] = r],
           LET before == phone[h].pc \notin {"new", "ended"}
               after == r.pc \notin {"new", "ended"}
           IN  \/ /\ (before <=> after) /\ gate'.active = gate.active
               \/ /\ ~before /\ after /\ gate'.active = gate.active + 1 /\ gate.active < MaxActive
               \/ /\ before /\ ~after
                  /\ gate'.active = IF gate.active = 0 THEN 0 ELSE gate.active - 1
    PROVE  SlotsExact' /\ gate'.active <= MaxActive
<1>1. /\ IsFiniteSet(InFlow) /\ Cardinality(InFlow) \in Nat
      /\ gate.active = Cardinality(InFlow) /\ MaxActive \in Nat
      /\ (gate'.active = Cardinality(InFlow') => SlotsExact')
  BY HandlerSets, PairingAssumption DEF SlotsExact, InFlow
<1>2. InFlow' = IF r.pc \in {"new", "ended"} THEN InFlow \ {h} ELSE InFlow \cup {h}
  BY HandlerMoves
<1>3. h \in InFlow <=> phone[h].pc \notin {"new", "ended"}
  BY DEF InFlow
<1>4. /\ Cardinality(InFlow \ {h}) = IF h \in InFlow THEN Cardinality(InFlow) - 1 ELSE Cardinality(InFlow)
      /\ Cardinality(InFlow \cup {h}) = IF h \in InFlow THEN Cardinality(InFlow) ELSE Cardinality(InFlow) + 1
  BY <1>1, FS_AddElement, FS_RemoveElement
<1>5. h \in InFlow => Cardinality(InFlow) # 0
  BY <1>1, FS_EmptySet
<1> QED BY <1>1, <1>2, <1>3, <1>4, <1>5

(* A pairing that a step does not touch, or takes out of reach.             *)
LEMMA GuessesFrame ==
    ASSUME NEW p \in Pairings, GuessesCounted(p),
           wrong'[p] = wrong[p],
           session'[p].state = "none" => session[p].state = "none",
           Claimable(p)' => Claimable(p) /\ (p \in byID => gate'.fails[p] = gate.fails[p]),
           session[p].state = "none" \/ Claimable(p)' =>
              (p \in byID' <=> p \in byID) /\ Comparing(p)' = Comparing(p) /\ Deleting(p)' = Deleting(p)
    PROVE  GuessesCounted(p)'
<1>1. wrong'[p] <= FailLimit - 1 + MaxActive
  BY DEF GuessesCounted
<1>2. session'[p].state = "none" =>
          p \notin byID' /\ wrong'[p] = 0 /\ Comparing(p)' = {} /\ Deleting(p)' = {}
  BY DEF GuessesCounted
<1>3. Claimable(p)' /\ p \in byID' =>
          /\ wrong'[p] <= FailLimit - 1 + Cardinality(Deleting(p)')
          /\ gate'.fails[p] < FailLimit => wrong'[p] <= gate'.fails[p] /\ Deleting(p)' = {}
  BY DEF GuessesCounted
<1>4. Claimable(p)' /\ p \notin byID' =>
          wrong'[p] + Cardinality(Comparing(p)') <= FailLimit - 1 + MaxActive
  BY DEF GuessesCounted
<1> QED BY <1>1, <1>2, <1>3, <1>4 DEF GuessesCounted

LEMMA StaysOut ==
    ASSUME PairingTypes, NEW h \in Phones, NEW r, phone' = [phone EXCEPT ![h] = r], NEW p
    PROVE  /\ h \notin Comparing(p) /\ r.pc # "found" => Comparing(p)' = Comparing(p)
           /\ h \notin Deleting(p) /\ r.pc # "exhausted" => Deleting(p)' = Deleting(p)
<1>1. /\ Comparing(p)' = IF r.pc = "found" /\ p \in r.pairing
                         THEN Comparing(p) \cup {h} ELSE Comparing(p) \ {h}
      /\ Deleting(p)' = IF r.pc = "exhausted" /\ p \in r.pairing
                        THEN Deleting(p) \cup {h} ELSE Deleting(p) \ {h}
  BY HandlerMoves
<1> QED BY <1>1

(* One handler moves; of the sets of handlers only those of its own session *)
(* change, and only around the comparison.                                  *)
LEMMA OtherGuesses ==
    ASSUME PairingTypes, NEW h \in Phones, NEW r, phone' = [phone EXCEPT ![h] = r],
           NEW p,
           phone[h].pc \notin {"found", "exhausted"} \/ p \notin phone[h].pairing,
           r.pc \notin {"found", "exhausted"} \/ p \notin r.pairing
    PROVE  Comparing(p)' = Comparing(p) /\ Deleting(p)' = Deleting(p)
<1>1. h \notin Comparing(p) /\ h \notin Deleting(p)
  BY DEF Comparing, Deleting
<1>2. Comparing(p)' = Comparing(p) \ {h} /\ Deleting(p)' = Deleting(p) \ {h}
  BY HandlerMoves
<1> QED BY <1>1, <1>2

LEMMA WrongCodeCounted ==
    ASSUME PairingTypes, GateInv, NEW h \in Phones, WrongCode(h)
    PROVE  GateInv'
<1>1. PICK p \in phone[h].pairing :
        /\ phone[h].pc = "found"
        /\ IF Exhausted(RecordFailure(gate, p), p)
           THEN Goes(h, "exhausted") /\ gate' = RecordFailure(gate, p)
           ELSE Goes(h, "ended") /\ gate' = Released(RecordFailure(gate, p))
        /\ wrong' = [wrong EXCEPT ![p] = IF Claimable(p) /\ ~NoRoom(gate, p) THEN @ + 1 ELSE @]
        /\ UNCHANGED <<session, byID, conns, request, claimRow, stored, got>>
  BY Zenon DEF WrongCode, At
<1>2. /\ phone[h] \in PhoneRecords /\ p \in Pairings /\ \A x \in phone[h].pairing : x = p
      /\ gate \in Gates /\ gate.active \in Nat /\ gate.fails \in [Pairings -> 0 .. FailLimit]
      /\ wrong \in [Pairings -> Nat]
      /\ FailLimit \in Nat \ {0} /\ MaxActive \in Nat
  BY PairingAssumption DEF PairingTypes, PhoneRecords, Chosen, Gates
<1> DEFINE failed == RecordFailure(gate, p)
           full == Exhausted(failed, p)
           r == [phone[h] EXCEPT !.pc = IF full THEN "exhausted" ELSE "ended"]
<1>3. /\ phone' = [phone EXCEPT ![h] = r]
      /\ r.pc = IF full THEN "exhausted" ELSE "ended"
      /\ r.pairing = phone[h].pairing
  BY <1>1, <1>2 DEF Goes, PairingTypes, PhoneRecords
<1>4. /\ failed \in Gates /\ failed.active = gate.active
      /\ failed.fails = FailsAfter(gate, p)
      /\ Released(failed) \in Gates /\ Released(failed).fails = failed.fails
      /\ Released(failed).active = IF failed.active = 0 THEN 0 ELSE failed.active - 1
  BY <1>2, GateSteps
<1>5. /\ gate' \in Gates
      /\ gate'.fails = failed.fails
      /\ gate'.active = IF full THEN gate.active ELSE IF gate.active = 0 THEN 0 ELSE gate.active - 1
  BY <1>1, <1>4
<1>6. /\ gate'.fails[p] = IF NoRoom(gate, p) \/ gate.fails[p] >= FailLimit
                           THEN gate.fails[p] ELSE gate.fails[p] + 1
      /\ \A x \in Pairings : x # p => gate'.fails[x] = gate.fails[x]
      /\ full <=> gate'.fails[p] >= FailLimit
      /\ NoRoom(gate, p) => gate.fails[p] = 0
  BY <1>2, <1>4, <1>5 DEF Exhausted, FailsAfter, NoRoom
<1> HIDE DEF r, full, failed
<1>7. SlotsExact' /\ gate'.active <= MaxActive
  BY <1>1, <1>3, <1>5, SlotsMove DEF GateInv
<1>8. ASSUME NEW x \in Pairings PROVE GuessesCounted(x)'
  <2>0. GuessesCounted(x)
    BY DEF GateInv
  <2>1. session'[x] = session[x] /\ (Claimable(x)' <=> Claimable(x)) /\ (x \in byID' <=> x \in byID)
    BY <1>1 DEF Claimable
  <2>2. CASE x # p
    <3>1. Comparing(x)' = Comparing(x) /\ Deleting(x)' = Deleting(x)
      BY <1>2, <1>3, <2>2, OtherGuesses
    <3> QED BY <3>1, <2>0, <2>1, <2>2, <1>1, <1>2, <1>6, GuessesFrame
  <2>3. CASE x = p
    <3>1. h \in Comparing(p) /\ h \notin Deleting(p)
      BY <1>1 DEF Comparing, Deleting
    <3>2. /\ Comparing(p)' = Comparing(p) \ {h}
          /\ Deleting(p)' = IF full THEN Deleting(p) \cup {h} ELSE Deleting(p)
      <4>1. /\ Comparing(p)' = IF r.pc = "found" /\ p \in r.pairing
                               THEN Comparing(p) \cup {h} ELSE Comparing(p) \ {h}
            /\ Deleting(p)' = IF r.pc = "exhausted" /\ p \in r.pairing
                              THEN Deleting(p) \cup {h} ELSE Deleting(p) \ {h}
        BY <1>3, HandlerMoves
      <4> QED BY <4>1, <1>1, <1>3, <3>1
    <3>3. /\ Cardinality(Comparing(p)') = Cardinality(Comparing(p)) - 1
          /\ Cardinality(Deleting(p)') = IF full THEN Cardinality(Deleting(p)) + 1 ELSE Cardinality(Deleting(p))
      <4>1. IsFiniteSet(Comparing(p)) /\ IsFiniteSet(Deleting(p))
        BY HandlerSets
      <4>2. Cardinality(Comparing(p) \ {h}) = Cardinality(Comparing(p)) - 1
        BY <4>1, <3>1, FS_RemoveElement
      <4>3. Cardinality(Deleting(p) \cup {h}) = Cardinality(Deleting(p)) + 1
        BY <4>1, <3>1, FS_AddElement
      <4> QED BY <3>2, <4>2, <4>3
    <3>4. /\ Cardinality(Comparing(p)) \in Nat /\ Cardinality(Deleting(p)) \in Nat
          /\ Cardinality(Comparing(p)') \in Nat
          /\ Cardinality(Deleting(p)') <= MaxActive
      <4>1. /\ Cardinality(Comparing(p)) \in Nat /\ Cardinality(Deleting(p)) \in Nat
            /\ Cardinality(InFlow) \in Nat
            /\ Cardinality(Deleting(p)) + Cardinality(Comparing(p)) <= Cardinality(InFlow)
        BY HandlerSets
      <4>2. Cardinality(InFlow) <= MaxActive
        BY DEF GateInv, SlotsExact, InFlow
      <4>3. Cardinality(Comparing(p)) # 0
        BY <3>1, HandlerSets, FS_EmptySet
      <4> QED BY <4>1, <4>2, <4>3, <3>3, <1>2
    <3>5. session[p].state # "none" /\ session'[p].state # "none"
      BY <2>0, <2>1, <2>3, <3>1 DEF GuessesCounted
    <3>6. /\ wrong'[p] = IF Claimable(p) /\ ~NoRoom(gate, p) THEN wrong[p] + 1 ELSE wrong[p]
          /\ wrong[p] \in Nat
          /\ gate.fails[p] \in 0 .. FailLimit
      BY <1>1, <1>2
    <3>7. CASE ~Claimable(p)
      BY <2>0, <2>1, <2>3, <3>5, <3>6, <3>7 DEF GuessesCounted
    <3>8. CASE Claimable(p) /\ p \in byID
      <4>1. /\ wrong[p] <= FailLimit - 1 + Cardinality(Deleting(p))
            /\ gate.fails[p] < FailLimit => wrong[p] <= gate.fails[p] /\ Deleting(p) = {}
        BY <2>0, <2>3, <3>8 DEF GuessesCounted
      <4>2. Deleting(p) = {} => Cardinality(Deleting(p)) = 0
        BY FS_EmptySet
      <4>3. /\ wrong'[p] <= FailLimit - 1 + Cardinality(Deleting(p)')
            /\ gate'.fails[p] < FailLimit => wrong'[p] <= gate'.fails[p] /\ Deleting(p)' = {}
        BY <4>1, <4>2, <3>2, <3>3, <3>4, <3>6, <3>8, <1>2, <1>6
      <4>4. wrong'[p] <= FailLimit - 1 + MaxActive
        BY <4>3, <3>3, <3>4, <3>6, <1>2
      <4> QED BY <4>3, <4>4, <3>5, <3>8, <2>1, <2>3 DEF GuessesCounted
    <3>9. CASE Claimable(p) /\ p \notin byID
      <4>1. wrong[p] + Cardinality(Comparing(p)) <= FailLimit - 1 + MaxActive
        BY <2>0, <2>3, <3>9 DEF GuessesCounted
      <4>2. /\ wrong'[p] + Cardinality(Comparing(p)') <= FailLimit - 1 + MaxActive
            /\ wrong'[p] <= FailLimit - 1 + MaxActive
        BY <4>1, <3>3, <3>4, <3>6, <3>9, <1>2
      <4> QED BY <4>2, <3>5, <3>9, <2>1, <2>3 DEF GuessesCounted
    <3> QED BY <3>7, <3>8, <3>9
  <2> QED BY <2>2, <2>3
<1> QED BY <1>7, <1>8 DEF GateInv

(* Moves before the look-up and after the comparison.                       *)
LEMMA OtherMoveCounted ==
    ASSUME PairingTypes, GateInv, NEW h \in Phones, NEW r, phone' = [phone EXCEPT ![h] = r],
           SlotsExact', gate'.active <= MaxActive,
           phone[h].pc \notin {"found", "exhausted"}, r.pc \notin {"found", "exhausted"},
           UNCHANGED <<session, byID, wrong>>,
           \A p \in Pairings : Claimable(p) /\ p \in byID => gate'.fails[p] = gate.fails[p]
    PROVE  GateInv'
<1>1. ASSUME NEW p \in Pairings PROVE GuessesCounted(p)'
  <2>1. GuessesCounted(p) /\ (Claimable(p)' <=> Claimable(p))
    BY DEF GateInv, Claimable
  <2>2. Comparing(p)' = Comparing(p) /\ Deleting(p)' = Deleting(p)
    BY OtherGuesses
  <2> QED BY <2>1, <2>2, GuessesFrame
<1> QED BY <1>1 DEF GateInv

LEMMA PhoneStepCounted ==
    ASSUME TrustInv, GateInv, NEW h \in Phones, PhoneStep(h)
    PROVE  GateInv'
<1> DEFINE old == phone[h]
           to(pc) == [old EXCEPT !.pc = pc]
<1>0. /\ PairingTypes /\ old \in PhoneRecords /\ old.pairing \subseteq Pairings
      /\ \A p, x \in old.pairing : x = p
      /\ gate \in Gates /\ gate.active \in Nat /\ gate.fails \in [Pairings -> 0 .. FailLimit]
      /\ gate.source \in Nat
      /\ wrong \in [Pairings -> Nat] /\ session \in [Pairings -> SessionRecords]
      /\ FailLimit \in Nat \ {0} /\ MaxActive \in Nat
      /\ SlotsExact /\ gate.active <= MaxActive
  BY PairingAssumption
  DEF TrustInv, GateInv, PairingTypes, PhoneRecords, Chosen, Gates, SessionRecords
<1>1. \A pc : /\ to(pc).pc = pc /\ to(pc).pairing = old.pairing
              /\ Goes(h, pc) => phone' = [phone EXCEPT ![h] = to(pc)]
  BY <1>0 DEF Goes, PairingTypes, PhoneRecords
<1>2. /\ Released(gate) \in Gates /\ Released(gate).fails = gate.fails
      /\ Released(gate).active = IF gate.active = 0 THEN 0 ELSE gate.active - 1
  <2>1. gate.active \in Nat /\ (IF gate.active = 0 THEN 0 ELSE gate.active - 1) \in Nat
    BY <1>0
  <2> QED BY <1>0, <2>1 DEF Released, Gates
<1> HIDE DEF old, to
<1>11. CASE BadClaim(h)
  <2>1. old.pc = "new" /\ Goes(h, "ended") /\ UNCHANGED <<session, byID, gate, wrong>>
    BY <1>11, Zenon DEF BadClaim, At, old
  <2>2. SlotsExact' /\ gate'.active <= MaxActive
    BY <2>1, <1>0, <1>1, SlotsMove DEF old
  <2> QED BY <2>1, <2>2, <1>0, <1>1, OtherMoveCounted DEF old
<1>12. CASE Acquire(h)
  <2>1. PICK p \in Pairings, right \in BOOLEAN :
          /\ old.pc = "new"
          /\ \/ /\ gate.active < MaxActive
                /\ gate' = [gate EXCEPT !.source = @ + 1, !.active = @ + 1]
                /\ phone' = [phone EXCEPT ![h] = [pc |-> "acquired", pairing |-> {p}, right |-> right]]
             \/ gate' = [gate EXCEPT !.source = @ + 1] /\ Goes(h, "ended")
             \/ Goes(h, "ended") /\ UNCHANGED gate
          /\ UNCHANGED <<session, byID, wrong>>
    BY <1>12, Zenon DEF Acquire, At, old
  <2>2. /\ gate' \in Gates /\ UNCHANGED <<session, byID, wrong>>
    <3>1. PairingTypes /\ PhoneStep(h)
      BY <1>0
    <3> QED BY <2>1, <3>1, PhoneFacts, Zenon
  <2>3. gate'.fails = gate.fails
    BY <1>0, <2>1 DEF Gates
  <2>4. CASE /\ gate.active < MaxActive
             /\ gate' = [gate EXCEPT !.source = @ + 1, !.active = @ + 1]
             /\ phone' = [phone EXCEPT ![h] = [pc |-> "acquired", pairing |-> {p}, right |-> right]]
    <3> DEFINE r == [pc |-> "acquired", pairing |-> {p}, right |-> right]
    <3>1. phone' = [phone EXCEPT ![h] = r] /\ r.pc = "acquired"
      BY <2>4
    <3>2. gate'.active = gate.active + 1
      BY <2>4, <1>0 DEF Gates
    <3> HIDE DEF r
    <3>3. SlotsExact' /\ gate'.active <= MaxActive
      BY <2>1, <2>2, <2>4, <3>1, <3>2, <1>0, SlotsMove DEF old
    <3> QED BY <2>1, <2>2, <2>3, <3>1, <3>3, <1>0, OtherMoveCounted DEF old
  <2>5. CASE Goes(h, "ended") /\ gate' \in {gate, [gate EXCEPT !.source = @ + 1]}
    <3>1. gate'.active = gate.active
      BY <2>5, <1>0 DEF Gates
    <3>2. SlotsExact' /\ gate'.active <= MaxActive
      BY <2>1, <2>2, <2>5, <3>1, <1>0, <1>1, SlotsMove DEF old
    <3> QED BY <2>1, <2>2, <2>3, <2>5, <3>2, <1>0, <1>1, OtherMoveCounted DEF old
  <2> QED BY <2>1, <2>4, <2>5
<1>13. CASE LookUp(h)
  <2>1. PICK p \in old.pairing :
          /\ old.pc = "acquired"
          /\ \/ p \in byID /\ Goes(h, "found") /\ UNCHANGED gate
             \/ p \notin byID /\ Goes(h, "ended") /\ gate' = Released(RecordFailure(gate, p))
          /\ UNCHANGED <<session, byID, wrong>>
    BY <1>13, Zenon DEF LookUp, At, old
  <2>2. CASE p \in byID /\ Goes(h, "found") /\ UNCHANGED gate
    <3>1. SlotsExact' /\ gate'.active <= MaxActive
      BY <2>1, <2>2, <1>0, <1>1, SlotsMove DEF old
    <3>2. ASSUME NEW x \in Pairings PROVE GuessesCounted(x)'
      <4>1. GuessesCounted(x) /\ (Claimable(x)' <=> Claimable(x))
        BY <2>1 DEF GateInv, Claimable
      <4>2. CASE x # p
        <5>1. Comparing(x)' = Comparing(x) /\ Deleting(x)' = Deleting(x)
          BY <2>1, <2>2, <4>2, <1>0, <1>1, OtherGuesses DEF old
        <5> QED BY <5>1, <4>1, <2>1, <2>2, GuessesFrame
      <4>3. CASE x = p
        <5>1. h \notin Deleting(p)
          BY <2>1 DEF Deleting, old
        <5>2. to("found").pc = "found" /\ phone' = [phone EXCEPT ![h] = to("found")]
          BY <2>2, <1>1
        <5>3. Deleting(p)' = Deleting(p)
          BY <5>1, <5>2, <1>0, StaysOut
        <5> QED BY <5>3, <4>1, <4>3, <2>1, <2>2 DEF GuessesCounted
      <4> QED BY <4>2, <4>3
    <3> QED BY <3>1, <3>2 DEF GateInv
  <2>3. CASE p \notin byID /\ Goes(h, "ended") /\ gate' = Released(RecordFailure(gate, p))
    <3> DEFINE failed == RecordFailure(gate, p)
    <3>0. p \in Pairings
      BY <1>0
    <3>1. /\ failed \in Gates /\ failed.active = gate.active
          /\ failed.fails = FailsAfter(gate, p)
      BY <3>0, <1>0, GateSteps
    <3> HIDE DEF failed
    <3>2. /\ Released(failed) \in Gates /\ Released(failed).fails = failed.fails
          /\ Released(failed).active = IF failed.active = 0 THEN 0 ELSE failed.active - 1
      BY <3>0, <3>1, GateSteps
    <3>3. gate' = Released(failed)
      BY <2>3 DEF failed
    <3>4. SlotsExact' /\ gate'.active <= MaxActive
      BY <2>1, <2>3, <3>1, <3>2, <3>3, <1>0, <1>1, SlotsMove DEF old
    <3>5. \A x \in Pairings : x # p => gate'.fails[x] = gate.fails[x]
      BY <3>1, <3>2, <3>3, <1>0 DEF FailsAfter
    <3> QED BY <2>1, <2>3, <3>4, <3>5, <1>0, <1>1, OtherMoveCounted DEF old
  <2> QED BY <2>1, <2>2, <2>3
<1>14. CASE WrongCode(h)
  BY <1>0, <1>14, WrongCodeCounted
<1>15. CASE DeleteExhausted(h)
  <2>1. PICK p \in old.pairing :
          /\ old.pc = "exhausted"
          /\ byID' = byID \ {p} /\ Goes(h, "ended") /\ gate' = Released(gate)
          /\ UNCHANGED <<session, wrong>>
    BY <1>15, Zenon DEF DeleteExhausted, At, old
  <2>2. SlotsExact' /\ gate'.active <= MaxActive
    BY <2>1, <1>0, <1>1, <1>2, SlotsMove DEF old
  <2>3. ASSUME NEW x \in Pairings PROVE GuessesCounted(x)'
    <3>1. GuessesCounted(x) /\ (Claimable(x)' <=> Claimable(x)) /\ gate'.fails = gate.fails
      BY <2>1, <1>2 DEF GateInv, Claimable
    <3>2. CASE x # p
      <4>1. Comparing(x)' = Comparing(x) /\ Deleting(x)' = Deleting(x)
        BY <2>1, <3>2, <1>0, <1>1, OtherGuesses DEF old
      <4> QED BY <3>1, <3>2, <4>1, <2>1, GuessesFrame
    <3>3. CASE x = p
      <4>1. h \in Deleting(p) /\ h \notin Comparing(p)
        BY <2>1 DEF Deleting, Comparing, old
      <4>2. to("ended").pc = "ended" /\ phone' = [phone EXCEPT ![h] = to("ended")]
        BY <2>1, <1>1
      <4>3. Comparing(p)' = Comparing(p)
        BY <4>1, <4>2, <1>0, StaysOut
      <4>4. session'[p].state # "none" /\ p \notin byID'
        BY <3>1, <3>3, <4>1, <2>1 DEF GuessesCounted
      <4>5. /\ Cardinality(Comparing(p)) \in Nat /\ Cardinality(Deleting(p)) \in Nat
            /\ Cardinality(InFlow) \in Nat
            /\ Cardinality(Deleting(p)) + Cardinality(Comparing(p)) <= Cardinality(InFlow)
        BY HandlerSets
      <4>6. Cardinality(InFlow) <= MaxActive
        BY <1>0 DEF SlotsExact, InFlow
      <4>7. Claimable(p) => wrong[p] + Cardinality(Comparing(p)) <= FailLimit - 1 + MaxActive
        <5>1. CASE p \in byID
          <6>1. Claimable(p) => wrong[p] <= FailLimit - 1 + Cardinality(Deleting(p))
            BY <5>1, <3>1, <3>3 DEF GuessesCounted
          <6>2. wrong[p] \in Nat
            BY <1>0, <3>3
          <6> QED BY <6>1, <6>2, <4>5, <4>6, <1>0
        <5>2. CASE p \notin byID
          BY <5>2, <3>1, <3>3 DEF GuessesCounted
        <5> QED BY <5>1, <5>2
      <4> QED BY <3>1, <3>3, <4>3, <4>4, <4>7, <2>1 DEF GuessesCounted
    <3> QED BY <3>2, <3>3
  <2> QED BY <2>2, <2>3 DEF GateInv
<1>16. CASE RightCode(h)
  <2>1. PICK p \in old.pairing :
          /\ old.pc = "found"
          /\ \/ Claim(p, h) /\ Goes(h, "claimed") /\ UNCHANGED gate
             \/ ~Claimable(p) /\ Goes(h, "ended") /\ gate' = Released(gate) /\ UNCHANGED session
          /\ UNCHANGED <<byID, wrong>>
    BY <1>16, Zenon DEF RightCode, At, old
  <2>2. SlotsExact' /\ gate'.active <= MaxActive
    BY <2>1, <1>0, <1>1, <1>2, SlotsMove DEF old
  <2>3. gate'.fails = gate.fails
    BY <2>1, <1>2
  <2>4. h \in Comparing(p)
    BY <2>1 DEF Comparing, old
  <2>5. session[p].state # "none"
    BY <2>4, <1>0 DEF GateInv, GuessesCounted
  <2>6. /\ session'[p].state # "none" /\ ~Claimable(p)'
        /\ \A x \in Pairings : x # p => session'[x] = session[x]
    <3>1. p \in Pairings
      BY <1>0
    <3>2. CASE Claim(p, h)
      BY <3>1, <3>2, <1>0 DEF Claim, Claimable, SessionRecords
    <3>3. CASE ~Claimable(p) /\ UNCHANGED session
      BY <3>3, <2>5 DEF Claimable
    <3> QED BY <2>1, <3>2, <3>3
  <2>7. PICK pc \in {"claimed", "ended"} : phone' = [phone EXCEPT ![h] = to(pc)]
    BY <2>1, <1>1
  <2>8. ASSUME NEW x \in Pairings PROVE GuessesCounted(x)'
    <3>1. GuessesCounted(x)
      BY DEF GateInv
    <3>2. CASE x # p
      <4>1. Comparing(x)' = Comparing(x) /\ Deleting(x)' = Deleting(x)
        BY <2>1, <2>7, <3>2, <1>0, <1>1, OtherGuesses, ZenonT(60) DEF old
      <4>2. session'[x] = session[x] /\ (Claimable(x)' <=> Claimable(x))
        BY <2>6, <3>2 DEF Claimable
      <4> QED BY <3>1, <4>1, <4>2, <2>1, <2>3, GuessesFrame
    <3>3. CASE x = p
      BY <3>1, <3>3, <2>1, <2>6 DEF GuessesCounted
    <3> QED BY <3>2, <3>3
  <2> QED BY <2>2, <2>8 DEF GateInv
<1>17. CASE RegisterPending(h)
  <2>1. PICK p \in old.pairing :
          /\ old.pc = "claimed"
          /\ \/ gate' = [gate EXCEPT !.fails[p] = 0] /\ Goes(h, "pending")
             \/ Goes(h, "ended") /\ gate' = Released([gate EXCEPT !.fails[p] = 0])
          /\ UNCHANGED <<session, byID, wrong>>
    BY <1>17, Zenon DEF RegisterPending, At, old
  <2> DEFINE reset == [gate EXCEPT !.fails[p] = 0]
  <2>2. /\ p \in Pairings
        /\ reset \in Gates /\ reset.active = gate.active
        /\ reset.fails = [gate.fails EXCEPT ![p] = 0]
    BY <1>0 DEF Gates
  <2>3. gate' = reset \/ gate' = Released(reset)
    BY <2>1
  <2>4. \/ gate' = reset /\ Goes(h, "pending")
        \/ gate' = Released(reset) /\ Goes(h, "ended")
    BY <2>1
  <2> HIDE DEF reset
  <2>5. /\ Released(reset) \in Gates /\ Released(reset).fails = reset.fails
        /\ Released(reset).active = IF reset.active = 0 THEN 0 ELSE reset.active - 1
    BY <2>2, GateSteps
  <2>6. SlotsExact' /\ gate'.active <= MaxActive
    BY <2>1, <2>2, <2>4, <2>5, <1>0, <1>1, SlotsMove DEF old
  <2>7. ~Claimable(p)
    BY <2>1 DEF TrustInv, PhonesOwnTheirClaims, Ours, Claimable, old
  <2>8. \A x \in Pairings : x # p => gate'.fails[x] = gate.fails[x]
    BY <2>2, <2>3, <2>5, <1>0
  <2>9. PICK pc \in {"pending", "ended"} : phone' = [phone EXCEPT ![h] = to(pc)] /\ to(pc).pc = pc
    BY <2>4, <1>1
  <2> QED BY <2>1, <2>6, <2>7, <2>8, <2>9, <1>0, OtherMoveCounted DEF old
<1>18. CASE WaitEnds(h)
  <2>1. /\ old.pc \in {"pending", "notified"} /\ Goes(h, "ended") /\ gate' = Released(gate)
        /\ UNCHANGED <<session, byID, wrong>>
    BY <1>18, Zenon DEF WaitEnds, old
  <2>2. SlotsExact' /\ gate'.active <= MaxActive
    BY <2>1, <1>0, <1>1, <1>2, SlotsMove DEF old
  <2> QED BY <2>1, <2>2, <1>0, <1>1, <1>2, OtherMoveCounted DEF old
<1> QED BY <1>11, <1>12, <1>13, <1>14, <1>15, <1>16, <1>17, <1>18 DEF PhoneStep

(* No session can be claimed again, or forgets that it was created.         *)
NoneReopened ==
    \A p \in Pairings : /\ session'[p].state = "none" => session[p].state = "none"
                        /\ Claimable(p)' => Claimable(p)

LEMMA SessionsClose ==
    ASSUME PairingTypes
    PROVE  /\ UNCHANGED session => NoneReopened
           /\ \A p \in Pairings :
                /\ Claim(p, RelayPhone) => NoneReopened
                /\ Approve(p) => NoneReopened
                /\ Reject(p) => NoneReopened
                /\ Complete(p) => NoneReopened
                /\ session' = [session EXCEPT ![p].relay = TRUE] => NoneReopened
                /\ session' = [session EXCEPT ![p].expired = TRUE] => NoneReopened
<1>1. session \in [Pairings -> SessionRecords]
  BY DEF PairingTypes, SessionRecords
<1>2. UNCHANGED session => NoneReopened
  BY DEF NoneReopened, Claimable
<1>3. ASSUME NEW p \in Pairings
      PROVE  /\ Claim(p, RelayPhone) => NoneReopened
             /\ Approve(p) => NoneReopened
             /\ Reject(p) => NoneReopened
             /\ Complete(p) => NoneReopened
             /\ session' = [session EXCEPT ![p].relay = TRUE] => NoneReopened
             /\ session' = [session EXCEPT ![p].expired = TRUE] => NoneReopened
  <2>1. ASSUME NEW s, session' = [session EXCEPT ![p] = s],
               s.state = "none" => session[p].state = "none",
               s.state = "created" /\ ~s.expired => Claimable(p)
        PROVE  NoneReopened
    BY <1>1, <2>1 DEF NoneReopened, Claimable
  <2>2. Claim(p, RelayPhone) => NoneReopened
    <3> DEFINE s == [session[p] EXCEPT !.state = "claimed", !.by = {RelayPhone}]
    <3>1. Claim(p, RelayPhone) => session' = [session EXCEPT ![p] = s]
      BY DEF Claim
    <3>2. s.state = "claimed"
      BY <1>1 DEF SessionRecords
    <3> QED BY <2>1, <3>1, <3>2
  <2>3. ASSUME NEW st, st # "none", st # "created"
        PROVE  session' = [session EXCEPT ![p].state = st] => NoneReopened
    <3> DEFINE s == [session[p] EXCEPT !.state = st]
    <3>1. s.state = st
      BY <1>1 DEF SessionRecords
    <3> QED BY <2>1, <2>3, <3>1
  <2>4. (Approve(p) => NoneReopened) /\ (Reject(p) => NoneReopened)
    BY <2>3 DEF Approve, Reject
  <2>5. Complete(p) => NoneReopened
    <3> DEFINE s == [session[p] EXCEPT !.state = IF @ = "approved" THEN "completed" ELSE @]
    <3>1. Complete(p) => session' = [session EXCEPT ![p] = s]
      BY DEF Complete
    <3>2. s.state \in {"completed", session[p].state} /\ s.expired = session[p].expired
      BY <1>1 DEF SessionRecords
    <3> HIDE DEF s
    <3> QED BY <2>1, <3>1, <3>2 DEF Claimable
  <2>6. session' = [session EXCEPT ![p].relay = TRUE] => NoneReopened
    <3> DEFINE s == [session[p] EXCEPT !.relay = TRUE]
    <3>1. s.state = session[p].state /\ s.expired = session[p].expired
      BY <1>1 DEF SessionRecords
    <3> QED BY <2>1, <3>1 DEF Claimable
  <2>7. session' = [session EXCEPT ![p].expired = TRUE] => NoneReopened
    <3> DEFINE s == [session[p] EXCEPT !.expired = TRUE]
    <3>1. s.state = session[p].state /\ s.expired
      BY <1>1 DEF SessionRecords
    <3> QED BY <2>1, <3>1
  <2> QED BY <2>2, <2>4, <2>5, <2>6, <2>7
<1> QED BY <1>2, <1>3

(* Steps that leave the counters and the handlers at the gate alone.        *)
LEMMA QuietCounted ==
    ASSUME GateInv, NoneReopened, UNCHANGED <<byID, wrong>>,
           gate'.active = gate.active,
           \A p \in Pairings : Claimable(p)' => gate'.fails[p] = gate.fails[p],
           InFlow' = InFlow,
           \A p \in Pairings : Comparing(p)' = Comparing(p) /\ Deleting(p)' = Deleting(p)
    PROVE  GateInv'
<1>1. SlotsExact' /\ gate'.active <= MaxActive
  <2>1. SlotsExact' <=> gate'.active = Cardinality(InFlow')
    BY DEF SlotsExact, InFlow
  <2>2. gate.active = Cardinality(InFlow) /\ gate.active <= MaxActive
    BY DEF GateInv, SlotsExact, InFlow
  <2> QED BY <2>1, <2>2
<1>2. ASSUME NEW p \in Pairings PROVE GuessesCounted(p)'
  <2>1. GuessesCounted(p)
    BY DEF GateInv
  <2> QED BY <2>1, GuessesFrame DEF NoneReopened
<1> QED BY <1>1, <1>2 DEF GateInv

LEMMA SameHandlers ==
    ASSUME UNCHANGED phone
    PROVE  InFlow' = InFlow /\ \A p \in Pairings : Comparing(p)' = Comparing(p) /\ Deleting(p)' = Deleting(p)
BY DEF InFlow, Comparing, Deleting

LEMMA RequestStepCounted ==
    ASSUME TrustInv, GateInv, NEW q \in Requests, RequestStep(q)
    PROVE  GateInv'
<1>0. /\ PairingTypes /\ byID \subseteq Pairings /\ request[q].pairing \subseteq Pairings
      /\ session \in [Pairings -> SessionRecords]
      /\ gate.fails \in [Pairings -> 0 .. FailLimit] /\ FailLimit \in Nat \ {0} /\ MaxActive \in Nat
  BY PairingAssumption DEF TrustInv, PairingTypes, Chosen, SessionRecords, Gates
<1>1. ASSUME NoneReopened, UNCHANGED <<byID, gate, wrong, phone>> PROVE GateInv'
  BY <1>1, SameHandlers, QuietCounted
<1>2. CASE HandlePairingCreate(q)
  <2>1. PICK p \in Pairings :
          /\ session[p].state = "none"
          /\ session' = [session EXCEPT ![p].state = "created"]
          /\ byID' = byID \cup {p}
          /\ UNCHANGED <<gate, phone, wrong>>
    BY <1>2, Zenon DEF HandlePairingCreate
  <2>2. SlotsExact' /\ gate'.active <= MaxActive
    BY <2>1 DEF GateInv, SlotsExact
  <2>3. /\ session'[p].state = "created"
        /\ \A x \in Pairings : x # p => session'[x] = session[x]
    BY <1>0, <2>1 DEF SessionRecords
  <2>4. ASSUME NEW x \in Pairings PROVE GuessesCounted(x)'
    <3>1. GuessesCounted(x) /\ Comparing(x)' = Comparing(x) /\ Deleting(x)' = Deleting(x)
      BY <2>1, SameHandlers DEF GateInv
    <3>2. CASE x # p
      <4>1. session'[x] = session[x] /\ (Claimable(x)' <=> Claimable(x))
        BY <2>3, <3>2 DEF Claimable
      <4> QED BY <2>1, <3>1, <3>2, <4>1, GuessesFrame
    <3>3. CASE x = p
      <4>1. wrong'[p] = 0 /\ Deleting(p)' = {} /\ p \in byID'
        BY <2>1, <3>1, <3>3 DEF GuessesCounted
      <4>2. Cardinality(Deleting(p)') = 0
        BY <4>1, FS_EmptySet
      <4>3. gate'.fails[p] \in 0 .. FailLimit
        BY <1>0, <2>1
      <4>4. /\ wrong'[p] <= FailLimit - 1 + MaxActive
            /\ wrong'[p] <= FailLimit - 1 + Cardinality(Deleting(p)')
            /\ wrong'[p] <= gate'.fails[p]
        BY <4>1, <4>2, <4>3, <1>0
      <4> QED BY <4>1, <4>4, <2>3, <3>3 DEF GuessesCounted
    <3> QED BY <3>2, <3>3
  <2> QED BY <2>2, <2>4 DEF GateInv
<1>3. CASE SyncClaims(q)
  <2>1. /\ \/ \E p \in Pairings : Claim(p, RelayPhone)
           \/ UNCHANGED session
        /\ UNCHANGED <<byID, gate, phone, wrong>>
    BY <1>0, <1>3 DEF SyncClaims
  <2> QED BY <1>0, <1>1, <2>1, SessionsClose
<1>4. CASE SyncSetsRelayClaim(q)
  <2>1. /\ \E p \in Pairings : session' = [session EXCEPT ![p].relay = TRUE]
        /\ UNCHANGED <<byID, gate, phone, wrong>>
    BY <1>0, <1>4 DEF SyncSetsRelayClaim
  <2> QED BY <1>0, <1>1, <2>1, SessionsClose
<1>5. CASE HandlePairingApprove(q)
  <2>1. /\ \E p \in Pairings : Approve(p)
        /\ UNCHANGED <<byID, gate, phone, wrong>>
    BY <1>0, <1>5 DEF HandlePairingApprove
  <2> QED BY <1>0, <1>1, <2>1, SessionsClose
<1>6. CASE NotifyComplete(q)
  <2>1. PICK p \in request[q].pairing :
          /\ UNCHANGED phone \/ \E h \in conns[p] : Goes(h, "notified")
          /\ UNCHANGED <<session, byID, gate, wrong>>
    BY <1>6, Zenon DEF NotifyComplete
  <2>2. NoneReopened
    BY <1>0, <2>1, SessionsClose
  <2>3. CASE UNCHANGED phone
    BY <1>1, <2>1, <2>2, <2>3
  <2>4. ASSUME NEW h \in conns[p], Goes(h, "notified") PROVE GateInv'
    <3>1. p \in Pairings /\ h \in Phones /\ phone[h].pc = "pending"
      BY <1>0 DEF TrustInv, PairingTypes, PhonesOwnTheirClaims
    <3> DEFINE r == [phone[h] EXCEPT !.pc = "notified"]
    <3>2. phone' = [phone EXCEPT ![h] = r] /\ r.pc = "notified"
      BY <2>4, <3>1, <1>0 DEF Goes, PairingTypes, PhoneRecords
    <3> HIDE DEF r
    <3>3. InFlow' = InFlow
      <4>1. InFlow' = InFlow \cup {h}
        BY <1>0, <3>1, <3>2, HandlerMoves
      <4> QED BY <3>1, <4>1 DEF InFlow
    <3>4. \A x \in Pairings : Comparing(x)' = Comparing(x) /\ Deleting(x)' = Deleting(x)
      BY <1>0, <3>1, <3>2, OtherGuesses
    <3> QED BY <2>1, <2>2, <3>3, <3>4, QuietCounted
  <2> QED BY <2>1, <2>3, <2>4
<1>7. CASE ApproveCompletes(q)
  <2>1. /\ \E p \in Pairings : Complete(p)
        /\ UNCHANGED <<byID, gate, phone, wrong>>
    BY <1>0, <1>7 DEF ApproveCompletes
  <2> QED BY <1>0, <1>1, <2>1, SessionsClose
<1>8. CASE HandlePairingReject(q)
  <2>1. /\ \E p \in Pairings : Reject(p)
        /\ UNCHANGED <<byID, gate, phone, wrong>>
    BY <1>0, <1>8 DEF HandlePairingReject
  <2> QED BY <1>0, <1>1, <2>1, SessionsClose
<1>9. CASE HandlePairingGet(q) \/ ApproveUpdates(q) \/ ApproveStores(q) \/ ApproveAtRelay(q) \/ RejectAtRelay(q)
  <2>1. UNCHANGED <<session, byID, gate, phone, wrong>>
    BY <1>9, Zenon
    DEF HandlePairingGet, ApproveUpdates, ApproveStores, ApproveAtRelay, RejectAtRelay
  <2> QED BY <1>0, <1>1, <2>1, SessionsClose
<1> QED BY <1>2, <1>3, <1>4, <1>5, <1>6, <1>7, <1>8, <1>9 DEF RequestStep

LEMMA OutsideStepCounted == TrustInv /\ GateInv /\ OutsideStep => GateInv'
<1> SUFFICES ASSUME TrustInv, GateInv, OutsideStep PROVE GateInv'
  OBVIOUS
<1>0. PairingTypes /\ gate \in Gates
  BY DEF TrustInv, PairingTypes
<1>1. CASE \E p \in Pairings : PhoneSubmitsClaim(p) \/ GetPairingResult(p) \/ ClaimExpires(p)
  <2>1. UNCHANGED <<session, byID, gate, phone, wrong>>
    BY <1>1, Zenon DEF PhoneSubmitsClaim, GetPairingResult, ClaimExpires
  <2>2. NoneReopened
    BY <1>0, <2>1, SessionsClose
  <2> QED BY <2>1, <2>2, SameHandlers, QuietCounted
<1>2. ASSUME NEW p \in Pairings, Expires(p) PROVE GateInv'
  <2>1. session' = [session EXCEPT ![p].expired = TRUE] /\ UNCHANGED <<byID, gate, phone, wrong>>
    BY <1>2, Zenon DEF Expires
  <2>2. NoneReopened
    BY <1>0, <2>1, SessionsClose
  <2> QED BY <2>1, <2>2, SameHandlers, QuietCounted
<1>3. ASSUME NEW p \in Pairings, FailureLapses(p) PROVE GateInv'
  <2>1. /\ session[p].expired \/ session[p].state = "none"
        /\ gate' = [gate EXCEPT !.fails[p] = @ - 1]
        /\ UNCHANGED <<session, byID, phone, wrong>>
    BY <1>3, Zenon DEF FailureLapses
  <2>2. NoneReopened
    BY <1>0, <2>1, SessionsClose
  <2>3. /\ gate'.active = gate.active
        /\ \A x \in Pairings : x # p => gate'.fails[x] = gate.fails[x]
    BY <1>0, <2>1 DEF Gates
  <2>4. ~Claimable(p)'
    BY <2>1 DEF Claimable
  <2> QED BY <2>1, <2>2, <2>3, <2>4, SameHandlers, QuietCounted
<1>4. CASE AttemptLapses
  <2>1. gate' = [gate EXCEPT !.source = @ - 1] /\ UNCHANGED <<session, byID, phone, wrong>>
    BY <1>4, Zenon DEF AttemptLapses
  <2>2. NoneReopened
    BY <1>0, <2>1, SessionsClose
  <2>3. gate'.active = gate.active /\ gate'.fails = gate.fails
    BY <1>0, <2>1 DEF Gates
  <2> QED BY <2>1, <2>2, <2>3, SameHandlers, QuietCounted
<1> QED BY <1>1, <1>2, <1>3, <1>4 DEF OutsideStep

(* The limits of the pairing flow hold for every limit, number of phones,   *)
(* sessions and requests: no return path of the /pairing handler leaks or   *)
(* returns a slot twice; of the wrong codes compared with a session that    *)
(* can be claimed no more than perPairingFailLimit - 1 plus                 *)
(* globalConcurrentClaims are tried (handlers overlap between the look-up   *)
(* and the comparison) while the gate has room to count them, however often *)
(* its maxPairingBuckets buckets were used up in between, which is when it  *)
(* counts nothing; and a rejected session leaves neither a stored token nor *)
(* an approved claim.                                                       *)
THEOREM PairingLimitsHold == PairingSpec => []PairingLimits
<1>1. TrustInv /\ GateInv /\ UNCHANGED pairingVars => GateInv'
  BY DEF pairingVars, GateInv, SlotsExact, GuessesCounted, Claimable, Comparing, Deleting
<1>2. TrustInv /\ GateInv /\ [PairingNext]_pairingVars => GateInv'
  BY <1>1, PairingSteps, PhoneStepCounted, RequestStepCounted, OutsideStepCounted
<1>3. TrustInv /\ GateInv => PairingLimits
  <2>1. GateInv => SlotsExact /\ GuessesBounded
    BY DEF GateInv, GuessesBounded, GuessesCounted
  <2>2. TrustInv => RejectedLeavesNothing
    BY DEF TrustInv, TokensEarned, RejectedLeavesNothing, Granted, PairingTypes
  <2> QED BY <2>1, <2>2 DEF PairingLimits
<1> QED BY GateInit, <1>2, <1>3, TrustInvariant, PTL DEF PairingSpec

-----------------------------------------------------------------------------
(* The relay: activations.                                                 *)

Message == [install : Installs, key : Keys, at : Nat, ahead : Nat]

MessageTypes ==
    /\ now \in Nat
    /\ messages \in Seq(Message) /\ Len(messages) <= MaxMessages
    /\ opening \subseteq DOMAIN messages
    /\ nonces \in [DOMAIN nonces -> Nat] /\ DOMAIN nonces \subseteq DOMAIN messages
    /\ accepted \in [1 .. MaxMessages -> Nat]

(* A message of an installation whose clock is not ahead was signed in the  *)
(* past.  Once accepted it is remembered since a time not before its        *)
(* timestamp, or its window is over.                                        *)
Remembered(m) == m \in DOMAIN nonces /\ nonces[m] >= messages[m].at

AcceptedOnce ==
    /\ \A m \in DOMAIN messages : messages[m].ahead = 0 =>
          /\ messages[m].at <= now
          /\ accepted[m] \in {0, 1}
          /\ accepted[m] = 1 => Remembered(m) \/ now > messages[m].at + Window
    /\ \A m \in 1 .. MaxMessages : m > Len(messages) => accepted[m] = 0

ActivationInv == MessageTypes /\ AcceptedOnce

LEMMA ActivationInit == RoutesInit => ActivationInv
<1> SUFFICES ASSUME RoutesInit PROVE ActivationInv
  OBVIOUS
<1>1. /\ now = 0 /\ messages = <<>> /\ opening = {} /\ nonces = [m \in {} |-> 0]
      /\ accepted = [m \in 1 .. MaxMessages |-> 0]
  BY DEF RoutesInit
<1>2. MessageTypes
  BY <1>1, RoutesAssumption DEF MessageTypes
<1>3. AcceptedOnce
  BY <1>1 DEF AcceptedOnce
<1> QED BY <1>2, <1>3 DEF ActivationInv

LEMMA ActivationStep == ActivationInv /\ [RoutesNext]_routesVars => ActivationInv'
<1> SUFFICES ASSUME ActivationInv, [RoutesNext]_routesVars PROVE ActivationInv'
  OBVIOUS
<1> USE DEF ActivationInv
<1>0. /\ now \in Nat /\ Window \in Nat /\ MaxMessages \in Nat
      /\ messages \in Seq(Message) /\ DOMAIN messages = 1 .. Len(messages) /\ Len(messages) \in Nat
      /\ Len(messages) <= MaxMessages
      /\ \A m \in DOMAIN messages : messages[m].at \in Nat /\ messages[m] \in Message
  <2>1. messages \in Seq(Message) /\ Len(messages) <= MaxMessages /\ now \in Nat
    BY DEF MessageTypes
  <2>2. DOMAIN messages = 1 .. Len(messages) /\ Len(messages) \in Nat
    BY <2>1
  <2>3. \A m \in DOMAIN messages : messages[m] \in Message
    BY <2>1
  <2>4. \A x \in Message : x.at \in Nat
    BY DEF Message
  <2> QED BY <2>1, <2>2, <2>3, <2>4, RoutesAssumption
<1>1. ASSUME UNCHANGED <<messages, opening, nonces, accepted>>, now' \in Nat, now' >= now
      PROVE  ActivationInv'
  <2>1. MessageTypes'
    BY <1>1 DEF MessageTypes
  <2>2. AcceptedOnce'
    BY <1>0, <1>1 DEF AcceptedOnce, Remembered
  <2> QED BY <2>1, <2>2
<1>2. ASSUME NEW i \in Installs, NEW k \in Keys, NEW s \in Skews, Sign(i, k, s) PROVE ActivationInv'
  <2> DEFINE msg == [install |-> i, key |-> k, at |-> now + s, ahead |-> s]
  <2>1. /\ Len(messages) < MaxMessages /\ messages' = Append(messages, msg)
        /\ UNCHANGED <<now, opening, nonces, accepted>>
    BY <1>2, Zenon DEF Sign
  <2>2. msg \in Message /\ msg.ahead = s /\ msg.at = now + s /\ s \in Nat
    BY <1>0, RoutesAssumption DEF Message
  <2> HIDE DEF msg
  <2>3. /\ messages' \in Seq(Message) /\ Len(messages') = Len(messages) + 1
        /\ DOMAIN messages' = 1 .. (Len(messages) + 1)
        /\ \A m \in DOMAIN messages : messages'[m] = messages[m]
        /\ messages'[Len(messages) + 1] = msg
    BY <2>1, <2>2, <1>0
  <2>4. MessageTypes'
    BY <2>1, <2>3, <1>0 DEF MessageTypes
  <2>5. ASSUME NEW m \in DOMAIN messages', messages'[m].ahead = 0
        PROVE  /\ messages'[m].at <= now'
               /\ accepted'[m] \in {0, 1}
               /\ accepted'[m] = 1 => Remembered(m)' \/ now' > messages'[m].at + Window
    <3>1. CASE m \in DOMAIN messages
      BY <3>1, <2>1, <2>3, <2>5 DEF AcceptedOnce, Remembered
    <3>2. CASE m = Len(messages) + 1
      BY <3>2, <2>1, <2>2, <2>3, <2>5, <1>0 DEF AcceptedOnce
    <3> QED BY <3>1, <3>2, <2>3, <1>0
  <2>6. \A m \in 1 .. MaxMessages : m > Len(messages') => accepted'[m] = 0
    BY <2>1, <2>3, <1>0 DEF AcceptedOnce
  <2> QED BY <2>4, <2>5, <2>6 DEF AcceptedOnce
<1>3. ASSUME NEW m \in DOMAIN messages, NEW a \in Addresses, HandleActivate(m, a) PROVE ActivationInv'
  <2>1. PICK checked \in BOOLEAN :
          /\ checked => InWindow(messages[m].at)
          /\ nonces' = IF ~checked THEN nonces
                       ELSE [x \in Recent \cup {m} |-> IF SeenRecently(x) THEN nonces[x] ELSE now]
          /\ IF checked /\ ~SeenRecently(m)
             THEN /\ opening' = opening \cup {m}
                  /\ accepted' = [accepted EXCEPT ![m] = @ + 1]
             ELSE UNCHANGED <<opening, accepted>>
          /\ UNCHANGED <<messages, now>>
    BY <1>3, Zenon DEF HandleActivate
  <2>2. CASE ~checked
    BY <2>1, <2>2, <1>0, <1>1
  <2>3. CASE checked
    <3>1. /\ DOMAIN nonces' = Recent \cup {m}
          /\ \A x \in Recent : nonces'[x] = nonces[x]
          /\ m \notin Recent => nonces'[m] = now
          /\ nonces' = [x \in DOMAIN nonces' |-> nonces'[x]]
      BY <2>1, <2>3 DEF SeenRecently
    <3>2. \A x \in DOMAIN messages : x \in Recent <=> x \in DOMAIN nonces /\ nonces[x] + Window >= now
      BY DEF Recent
    <3>3. Recent \subseteq DOMAIN nonces
      BY DEF Recent
    <3>4. \A x \in DOMAIN nonces : nonces[x] \in Nat /\ x \in DOMAIN messages
      BY DEF MessageTypes
    <3>5. now <= messages[m].at + Window
      BY <2>1, <2>3 DEF InWindow
    <3>6. /\ opening' \subseteq DOMAIN messages
          /\ accepted' \in [1 .. MaxMessages -> Nat]
          /\ accepted'[m] = IF m \in Recent THEN accepted[m] ELSE accepted[m] + 1
          /\ \A x \in 1 .. MaxMessages : x # m => accepted'[x] = accepted[x]
      BY <2>1, <2>3, <1>0 DEF SeenRecently, MessageTypes
    <3>7. MessageTypes'
      <4>1. \A x \in DOMAIN nonces' : nonces'[x] \in Nat
        BY <3>1, <3>3, <3>4, <1>0
      <4>2. DOMAIN nonces' \subseteq DOMAIN messages
        BY <3>1, <3>3, <3>4
      <4>3. nonces' \in [DOMAIN nonces' -> Nat]
        BY <3>1, <4>1
      <4> QED BY <4>2, <4>3, <3>6, <2>1 DEF MessageTypes
    <3>8. ASSUME NEW x \in DOMAIN messages, messages[x].ahead = 0
          PROVE  /\ messages[x].at <= now
                 /\ accepted'[x] \in {0, 1}
                 /\ accepted'[x] = 1 => Remembered(x)' \/ now > messages[x].at + Window
      <4>1. /\ messages[x].at <= now /\ messages[x].at \in Nat
            /\ accepted[x] \in {0, 1}
            /\ accepted[x] = 1 => Remembered(x) \/ now > messages[x].at + Window
        BY <3>8, <1>0 DEF AcceptedOnce
      <4>2. Remembered(x) => Remembered(x)' \/ now > messages[x].at + Window
        <5>1. CASE x \in Recent
          BY <5>1, <3>1, <2>1 DEF Remembered
        <5>2. CASE x \notin Recent
          BY <5>2, <3>2, <3>4, <1>0, <4>1 DEF Remembered
        <5> QED BY <5>1, <5>2
      <4>3. CASE x # m
        BY <4>1, <4>2, <4>3, <3>6, <1>0
      <4>4. CASE x = m /\ m \in Recent
        BY <4>1, <4>2, <4>4, <3>6
      <4>5. CASE x = m /\ m \notin Recent
        <5>1. ~Remembered(m)
          BY <4>5, <4>1, <3>2, <3>4, <3>5, <1>0 DEF Remembered
        <5>2. accepted[m] = 0
          BY <5>1, <4>1, <4>5, <3>5, <1>0
        <5>3. Remembered(m)'
          BY <4>1, <4>5, <3>1, <2>1 DEF Remembered
        <5> QED BY <5>2, <5>3, <4>1, <4>5, <3>6
      <4> QED BY <4>3, <4>4, <4>5
    <3>9. \A x \in 1 .. MaxMessages : x > Len(messages) => accepted'[x] = 0
      BY <3>6, <1>0 DEF AcceptedOnce
    <3> QED BY <3>7, <3>8, <3>9, <2>1 DEF AcceptedOnce
  <2> QED BY <2>2, <2>3
<1>4. ASSUME NEW m \in DOMAIN messages, HandlerActivates(m) PROVE ActivationInv'
  <2>1. opening' = opening \ {m} /\ UNCHANGED <<messages, now, nonces, accepted>>
    BY <1>4, Zenon DEF HandlerActivates
  <2> QED BY <2>1, <1>0 DEF MessageTypes, AcceptedOnce, Remembered
<1>5. CASE RelayRestarts
  <2>1. /\ nonces' = [m \in {} |-> 0] /\ opening' = {}
        /\ accepted' = [m \in 1 .. MaxMessages |-> 0] /\ UNCHANGED <<messages, now>>
    BY <1>5, Zenon DEF RelayRestarts
  <2>2. \A m \in 1 .. MaxMessages : accepted'[m] = 0
    BY <2>1
  <2>3. MessageTypes'
    BY <2>1, <1>0 DEF MessageTypes
  <2>4. \A m \in DOMAIN messages : accepted'[m] = 0
    BY <2>2, <1>0
  <2>5. \A m \in DOMAIN messages : messages[m].ahead = 0 => messages[m].at <= now
    BY DEF AcceptedOnce
  <2>6. AcceptedOnce'
    <3>1. ASSUME NEW m \in DOMAIN messages', messages'[m].ahead = 0
          PROVE  /\ messages'[m].at <= now'
                 /\ accepted'[m] \in {0, 1}
                 /\ accepted'[m] = 1 => Remembered(m)' \/ now' > messages'[m].at + Window
      <4>1. messages' = messages /\ now' = now
        BY <2>1
      <4>2. m \in DOMAIN messages /\ messages[m].at <= now
        BY <3>1, <4>1, <2>5
      <4>3. accepted'[m] = 0
        BY <4>2, <2>4
      <4> QED BY <4>1, <4>2, <4>3
    <3>2. \A m \in 1 .. MaxMessages : m > Len(messages') => accepted'[m] = 0
      BY <2>2
    <3> QED BY <3>1, <3>2 DEF AcceptedOnce
  <2> QED BY <2>3, <2>6
<1>6. CASE \/ \E a \in Addresses, ok \in BOOLEAN : HandleRegisterRoute(a, ok)
           \/ \E c \in Claims, cap \in Capabilities : SubmitPairingClaim(c, cap)
           \/ \E c \in Claims, st \in {"approved", "rejected"} : CompletePairingClaim(c, st)
           \/ \E p \in Pollers, c \in Claims, cap \in Capabilities : PollPairingResult(p, c, cap)
           \/ \E p \in Pollers : AnswerPoll(p)
           \/ ListPairingClaims \/ Tick \/ UNCHANGED routesVars
  <2>1. UNCHANGED <<messages, opening, nonces, accepted>> /\ now' \in {now, now + 1}
    BY <1>6, Zenon
    DEF HandleRegisterRoute, SubmitPairingClaim, CompletePairingClaim, PollPairingResult,
             AnswerPoll, ListPairingClaims, Tick, routesVars
  <2> QED BY <2>1, <1>0, <1>1
<1> QED BY <1>2, <1>3, <1>4, <1>5, <1>6 DEF RoutesNext

(* A signed activation whose timestamp is not ahead of the relay's clock is *)
(* accepted at most once in the life of the process, for every length of    *)
(* the window and however often and whenever it arrives again: the nonce is *)
(* kept at least as long as the timestamp is in the window                  *)
(* (activationNonceCache.seenRecently, handleActivateRoute).                *)
THEOREM RelayActivationOnce == RoutesSpec => []ActivationOnce
<1>1. ActivationInv => ActivationOnce
  BY DEF ActivationInv, AcceptedOnce, ActivationOnce
<1> QED BY ActivationInit, ActivationStep, <1>1, PTL DEF RoutesSpec

-----------------------------------------------------------------------------
(* The relay: routes and who owns them.                                    *)

RouteTypes ==
    /\ routes \in Seq(Nat)
    /\ \A r \in DOMAIN routes : routes[r] = 0 \/ routes[r] \in DOMAIN messages
    /\ bound \in [Installs -> SUBSET [key : Keys, route : Nat]]

OneRow == \A i \in Installs : \A row, other \in bound[i] : row = other

RowsSigned ==
    \A i \in Installs : \A row \in bound[i] :
        /\ row.route \in DOMAIN routes /\ routes[row.route] # 0
        /\ messages[routes[row.route]].install = i
        /\ messages[routes[row.route]].key = row.key

RoutesOwned ==
    \A r \in DOMAIN routes : routes[r] # 0 =>
        \E i \in Installs : \E row \in bound[i] : row.route = r

BindingInv == RouteTypes /\ OneRow /\ RowsSigned /\ RoutesOwned

LEMMA BindingInit == RoutesInit => BindingInv
<1> SUFFICES ASSUME RoutesInit PROVE BindingInv
  OBVIOUS
<1>1. routes = <<>> /\ bound = [i \in Installs |-> {}]
  BY DEF RoutesInit
<1> QED BY <1>1 DEF BindingInv, RouteTypes, OneRow, RowsSigned, RoutesOwned

(* A message is only ever added, so what was signed stays signed.           *)
LEMMA SigningKeepsBindings ==
    ASSUME MessageTypes, BindingInv, UNCHANGED <<routes, bound>>,
           DOMAIN messages \subseteq DOMAIN messages',
           \A m \in DOMAIN messages : messages'[m] = messages[m]
    PROVE  BindingInv'
<1>1. RouteTypes' /\ OneRow' /\ RoutesOwned'
  BY DEF BindingInv, RouteTypes, OneRow, RoutesOwned
<1>2. RowsSigned'
  BY DEF BindingInv, RouteTypes, RowsSigned
<1> QED BY <1>1, <1>2 DEF BindingInv

LEMMA ActivationKeepsBindings ==
    ASSUME MessageTypes, BindingInv, NEW m \in DOMAIN messages, ActivateRoute(m), messages' = messages
    PROVE  BindingInv'
<1> DEFINE i == messages[m].install
           k == messages[m].key
<1>0. /\ i \in Installs /\ k \in Keys /\ m # 0 /\ m \in Nat
      /\ routes \in Seq(Nat) /\ DOMAIN routes = 1 .. Len(routes) /\ Len(routes) \in Nat
  <2>1. messages \in Seq(Message) /\ routes \in Seq(Nat)
    BY DEF MessageTypes, BindingInv, RouteTypes
  <2>2. messages[m] \in Message /\ m \in 1 .. Len(messages) /\ Len(messages) \in Nat
    BY <2>1
  <2> QED BY <2>1, <2>2 DEF Message
<1>1. \/ \E row \in bound[i] : row.key = k /\ routes' = [routes EXCEPT ![row.route] = m] /\ UNCHANGED bound
      \/ UNCHANGED <<routes, bound>>
      \/ /\ bound[i] = {}
         /\ routes' = Append(routes, m)
         /\ bound' = [bound EXCEPT ![i] = {[key |-> k, route |-> Len(routes) + 1]}]
  BY Zenon DEF ActivateRoute
<1> HIDE DEF i, k
<1>2. ASSUME NEW row \in bound[i], row.key = k, routes' = [routes EXCEPT ![row.route] = m], UNCHANGED bound
      PROVE  BindingInv'
  <2>1. /\ row.route \in DOMAIN routes /\ DOMAIN routes' = DOMAIN routes
        /\ routes' \in Seq(Nat)
        /\ routes'[row.route] = m
        /\ \A r \in DOMAIN routes : r # row.route => routes'[r] = routes[r]
    BY <1>0, <1>2 DEF BindingInv, RowsSigned
  <2>2. RouteTypes' /\ OneRow'
    BY <2>1, <1>2 DEF BindingInv, RouteTypes, OneRow
  <2>3. RowsSigned'
    <3>1. ASSUME NEW j \in Installs, NEW other \in bound[j]
          PROVE  /\ other.route \in DOMAIN routes' /\ routes'[other.route] # 0
                 /\ messages[routes'[other.route]].install = j
                 /\ messages[routes'[other.route]].key = other.key
      <4>1. /\ other.route \in DOMAIN routes /\ routes[other.route] # 0
            /\ messages[routes[other.route]].install = j
            /\ messages[routes[other.route]].key = other.key
        BY DEF BindingInv, RowsSigned
      <4>2. CASE other.route # row.route
        BY <4>1, <4>2, <2>1
      <4>3. CASE other.route = row.route
        <5>1. messages[routes[row.route]].install = i
          BY <1>0 DEF BindingInv, RowsSigned
        <5>2. j = i /\ other = row
          BY <4>1, <4>3, <5>1, <1>0 DEF BindingInv, OneRow
        <5> QED BY <5>2, <2>1, <1>0, <1>2 DEF i, k
      <4> QED BY <4>2, <4>3
    <3> QED BY <3>1, <1>2 DEF RowsSigned
  <2>4. RoutesOwned'
    BY <2>1, <1>0, <1>2 DEF BindingInv, RoutesOwned
  <2> QED BY <2>2, <2>3, <2>4 DEF BindingInv
<1>3. CASE UNCHANGED <<routes, bound>>
  BY <1>3 DEF BindingInv, RouteTypes, OneRow, RowsSigned, RoutesOwned
<1>4. ASSUME bound[i] = {}, routes' = Append(routes, m),
             bound' = [bound EXCEPT ![i] = {[key |-> k, route |-> Len(routes) + 1]}]
      PROVE  BindingInv'
  <2> DEFINE n == Len(routes) + 1
             new == [key |-> k, route |-> n]
  <2>1. /\ routes' \in Seq(Nat) /\ DOMAIN routes' = 1 .. n /\ routes'[n] = m
        /\ \A r \in DOMAIN routes : routes'[r] = routes[r]
        /\ DOMAIN routes' = DOMAIN routes \cup {n}
    BY <1>0, <1>4
  <2>2. /\ new \in [key : Keys, route : Nat] /\ new.key = k /\ new.route = n
    BY <1>0
  <2>3. /\ bound'[i] = {new} /\ \A j \in Installs : j # i => bound'[j] = bound[j]
        /\ bound' \in [Installs -> SUBSET [key : Keys, route : Nat]]
    BY <1>0, <1>4, <2>2 DEF BindingInv, RouteTypes
  <2> HIDE DEF n, new
  <2>4. RouteTypes'
    BY <2>1, <2>3 DEF BindingInv, RouteTypes
  <2>5. OneRow'
    BY <2>3 DEF BindingInv, OneRow
  <2>6. RowsSigned'
    <3>1. ASSUME NEW j \in Installs, NEW row \in bound'[j]
          PROVE  /\ row.route \in DOMAIN routes' /\ routes'[row.route] # 0
                 /\ messages[routes'[row.route]].install = j
                 /\ messages[routes'[row.route]].key = row.key
      <4>1. CASE j = i
        BY <4>1, <2>1, <2>2, <2>3, <1>0 DEF i, k
      <4>2. CASE j # i
        <5>1. row \in bound[j]
          BY <4>2, <2>3
        <5>2. /\ row.route \in DOMAIN routes /\ routes[row.route] # 0
              /\ messages[routes[row.route]].install = j
              /\ messages[routes[row.route]].key = row.key
          BY <5>1 DEF BindingInv, RowsSigned
        <5> QED BY <5>2, <2>1
      <4> QED BY <4>1, <4>2
    <3> QED BY <3>1, <1>4 DEF RowsSigned
  <2>7. RoutesOwned'
    <3>1. ASSUME NEW r \in DOMAIN routes', routes'[r] # 0
          PROVE  \E j \in Installs : \E row \in bound'[j] : row.route = r
      <4>1. CASE r = n
        BY <4>1, <2>2, <2>3, <1>0
      <4>2. CASE r # n
        <5>1. PICK j \in Installs : \E row \in bound[j] : row.route = r
          BY <4>2, <3>1, <2>1 DEF BindingInv, RoutesOwned
        <5>2. j # i
          BY <5>1, <1>4
        <5> QED BY <5>1, <5>2, <2>3
      <4> QED BY <4>1, <4>2
    <3> QED BY <3>1 DEF RoutesOwned
  <2> QED BY <2>4, <2>5, <2>6, <2>7 DEF BindingInv
<1> QED BY <1>1, <1>2, <1>3, <1>4

LEMMA BindingStep == MessageTypes /\ BindingInv /\ [RoutesNext]_routesVars => BindingInv'
<1> SUFFICES ASSUME MessageTypes, BindingInv, [RoutesNext]_routesVars PROVE BindingInv'
  OBVIOUS
<1>1. ASSUME UNCHANGED <<messages, routes, bound>> PROVE BindingInv'
  BY <1>1, SigningKeepsBindings
<1>2. ASSUME NEW i \in Installs, NEW k \in Keys, NEW s \in Skews, Sign(i, k, s) PROVE BindingInv'
  <2> DEFINE msg == [install |-> i, key |-> k, at |-> now + s, ahead |-> s]
  <2>1. messages' = Append(messages, msg) /\ UNCHANGED <<routes, bound>>
    BY <1>2, Zenon DEF Sign
  <2>2. messages \in Seq(Message) /\ msg \in Message
    BY RoutesAssumption DEF MessageTypes, Message
  <2> HIDE DEF msg
  <2>3. /\ DOMAIN messages \subseteq DOMAIN messages'
        /\ \A m \in DOMAIN messages : messages'[m] = messages[m]
    BY <2>1, <2>2
  <2> QED BY <2>1, <2>3, SigningKeepsBindings
<1>3. ASSUME NEW m \in DOMAIN messages, HandlerActivates(m) PROVE BindingInv'
  BY <1>3, ActivationKeepsBindings DEF HandlerActivates
<1>4. ASSUME NEW a \in Addresses, NEW ok \in BOOLEAN, HandleRegisterRoute(a, ok) PROVE BindingInv'
  <2>1. /\ routes' = routes \/ routes' = Append(routes, 0)
        /\ UNCHANGED <<messages, bound>>
    BY <1>4, Zenon DEF HandleRegisterRoute
  <2>2. CASE routes' = routes
    BY <1>1, <2>1, <2>2
  <2>3. CASE routes' = Append(routes, 0)
    <3>0. routes \in Seq(Nat)
      BY DEF BindingInv, RouteTypes
    <3>1. /\ routes' \in Seq(Nat) /\ DOMAIN routes' = DOMAIN routes \cup {Len(routes) + 1}
          /\ routes'[Len(routes) + 1] = 0
          /\ \A r \in DOMAIN routes : routes'[r] = routes[r]
      BY <3>0, <2>3
    <3>2. RouteTypes' /\ OneRow'
      BY <3>1, <2>1 DEF BindingInv, RouteTypes, OneRow
    <3>3. RowsSigned'
      BY <3>1, <2>1 DEF BindingInv, RowsSigned
    <3>4. RoutesOwned'
      BY <3>1, <2>1 DEF BindingInv, RoutesOwned
    <3> QED BY <3>2, <3>3, <3>4 DEF BindingInv
  <2> QED BY <2>1, <2>2, <2>3
<1>5. CASE \/ \E m \in DOMAIN messages, a \in Addresses : HandleActivate(m, a)
           \/ \E c \in Claims, cap \in Capabilities : SubmitPairingClaim(c, cap)
           \/ \E c \in Claims, st \in {"approved", "rejected"} : CompletePairingClaim(c, st)
           \/ \E p \in Pollers, c \in Claims, cap \in Capabilities : PollPairingResult(p, c, cap)
           \/ \E p \in Pollers : AnswerPoll(p)
           \/ ListPairingClaims \/ Tick \/ RelayRestarts \/ UNCHANGED routesVars
  <2>1. UNCHANGED <<messages, routes, bound>>
    BY <1>5, Zenon
    DEF HandleActivate, SubmitPairingClaim, CompletePairingClaim, PollPairingResult,
             AnswerPoll, ListPairingClaims, Tick, RelayRestarts, routesVars
  <2> QED BY <2>1, <1>1
<1> QED BY <1>2, <1>3, <1>4, <1>5 DEF RoutesNext

LEMMA BindingsAreSound == BindingInv => BindingSound
<1> SUFFICES ASSUME BindingInv PROVE BindingSound
  OBVIOUS
<1>1. ASSUME NEW r \in DOMAIN routes, routes[r] # 0
      PROVE  Cardinality({i \in Installs : \E row \in bound[i] : row.route = r}) = 1
  <2>1. PICK i \in Installs : \E row \in bound[i] : row.route = r
    BY <1>1 DEF BindingInv, RoutesOwned
  <2>2. \A j \in Installs : (\E row \in bound[j] : row.route = r) => j = i
    BY <2>1 DEF BindingInv, RowsSigned
  <2>3. {j \in Installs : \E row \in bound[j] : row.route = r} = {i}
    BY <2>1, <2>2
  <2> QED BY <2>3, FS_Singleton
<1> QED BY <1>1 DEF BindingSound, BindingInv, RowsSigned

-----------------------------------------------------------------------------
(* The relay: pairing claims.                                              *)

Decisions == {"approved", "rejected"}
ClaimRows == [cap : Capabilities, state : {"pending", "consumed"} \cup Decisions, expires : Nat]
PollRecords == [claim : Claims, state : {"pending"} \cup Decisions, cap : Capabilities]

ClaimTypes ==
    /\ now \in Nat
    /\ claims \in [Claims -> SUBSET ClaimRows]
    /\ poll \in [Pollers -> SUBSET PollRecords]
    /\ decided \in [Claims -> SUBSET Decisions]
    /\ told \in [Claims -> SUBSET Decisions]

(* A claim has one row, and the row's state is the Mac's decision until the *)
(* row is consumed.                                                         *)
RowsDecided ==
    \A c \in Claims :
        /\ \A row, other \in claims[c] : row = other
        /\ \A row \in claims[c] :
             /\ row.state = "pending" => decided[c] = {}
             /\ row.state \in Decisions => decided[c] = {row.state}

(* A poll under way has seen the decision, and its row has not expired.     *)
PollsDecided ==
    \A p \in Pollers : \A r \in poll[p] :
        /\ Live(r.claim) # {}
        /\ r.state # "pending" => decided[r.claim] = {r.state}

ClaimInv == ClaimTypes /\ RowsDecided /\ PollsDecided /\ ClaimAnswersAgree

LEMMA ClaimInit == RoutesInit => ClaimInv
<1> SUFFICES ASSUME RoutesInit PROVE ClaimInv
  OBVIOUS
<1>1. /\ now = 0 /\ claims = [c \in Claims |-> {}] /\ poll = [p \in Pollers |-> {}]
      /\ decided = [c \in Claims |-> {}] /\ told = [c \in Claims |-> {}]
  BY DEF RoutesInit
<1> QED BY <1>1 DEF ClaimInv, ClaimTypes, RowsDecided, PollsDecided, ClaimAnswersAgree

(* Expired rows are deleted; their history goes with them.                  *)
LEMMA PurgeKeepsClaims ==
    ASSUME ClaimInv, UNCHANGED <<now, poll>>,
           claims' \in [Claims -> SUBSET ClaimRows],
           decided' = [x \in Claims |-> IF Live(x) = {} THEN {} ELSE decided[x]],
           told' = [x \in Claims |-> IF Live(x) = {} THEN {} ELSE told[x]],
           \A x \in Claims : \/ claims'[x] = Live(x)
                             \/ Live(x) = {} /\ \E row \in ClaimRows : claims'[x] = {row} /\ row.state = "pending"
    PROVE  ClaimInv'
<1>0. \A x \in Claims : Live(x) \subseteq claims[x]
  BY DEF Live
<1>1. \A x \in Claims : /\ Live(x) = {} => decided'[x] = {} /\ told'[x] = {}
                        /\ Live(x) # {} => decided'[x] = decided[x] /\ told'[x] = told[x] /\ claims'[x] = Live(x)
  OBVIOUS
<1>2. ClaimTypes'
  BY <1>1 DEF ClaimInv, ClaimTypes
<1>3. RowsDecided'
  BY <1>0, <1>1 DEF ClaimInv, RowsDecided, Decisions
<1>4. \A x \in Claims : Live(x) # {} => Live(x)' # {}
  BY <1>1 DEF Live
<1>5. \A p \in Pollers : \A r \in poll[p] : r.claim \in Claims
  BY DEF ClaimInv, ClaimTypes, PollRecords
<1>6. PollsDecided'
  <2>1. ASSUME NEW p \in Pollers, NEW r \in poll[p]
        PROVE  /\ Live(r.claim)' # {}
               /\ r.state # "pending" => decided'[r.claim] = {r.state}
    BY <1>1, <1>4, <1>5, SMTT(30) DEF ClaimInv, PollsDecided
  <2> QED BY <2>1 DEF PollsDecided
<1>7. ClaimAnswersAgree'
  BY <1>1 DEF ClaimInv, ClaimAnswersAgree
<1> QED BY <1>2, <1>3, <1>6, <1>7 DEF ClaimInv

LEMMA ClaimStep == ClaimInv /\ [RoutesNext]_routesVars => ClaimInv'
<1> SUFFICES ASSUME ClaimInv, [RoutesNext]_routesVars PROVE ClaimInv'
  OBVIOUS
<1>0. /\ now \in Nat /\ claims \in [Claims -> SUBSET ClaimRows]
      /\ poll \in [Pollers -> SUBSET PollRecords]
      /\ decided \in [Claims -> SUBSET Decisions] /\ told \in [Claims -> SUBSET Decisions]
      /\ \A x \in Claims : Live(x) \subseteq claims[x]
  BY DEF ClaimInv, ClaimTypes, Live
<1>1. ASSUME NEW c \in Claims, NEW cap \in Capabilities, SubmitPairingClaim(c, cap) PROVE ClaimInv'
  <2> DEFINE row == [cap |-> cap, state |-> "pending", expires |-> now + Window]
  <2>1. /\ claims' = [x \in Claims |-> IF x = c /\ Live(x) = {} THEN {row} ELSE Live(x)]
        /\ decided' = [x \in Claims |-> IF Live(x) = {} THEN {} ELSE decided[x]]
        /\ told' = [x \in Claims |-> IF Live(x) = {} THEN {} ELSE told[x]]
        /\ UNCHANGED <<now, poll>>
    BY <1>1, Zenon DEF SubmitPairingClaim
  <2>2. row \in ClaimRows /\ row.state = "pending"
    BY <1>0, RoutesAssumption DEF ClaimRows
  <2> HIDE DEF row
  <2>3. claims' \in [Claims -> SUBSET ClaimRows]
    BY <2>1, <2>2, <1>0
  <2>4. \A x \in Claims : \/ claims'[x] = Live(x)
                          \/ Live(x) = {} /\ \E y \in ClaimRows : claims'[x] = {y} /\ y.state = "pending"
    BY <2>1, <2>2
  <2> QED BY <2>1, <2>3, <2>4, PurgeKeepsClaims
<1>2. ASSUME ListPairingClaims PROVE ClaimInv'
  <2>1. /\ claims' = [c \in Claims |-> Live(c)]
        /\ decided' = [c \in Claims |-> IF Live(c) = {} THEN {} ELSE decided[c]]
        /\ told' = [c \in Claims |-> IF Live(c) = {} THEN {} ELSE told[c]]
        /\ UNCHANGED <<now, poll>>
    BY <1>2, Zenon DEF ListPairingClaims
  <2>2. claims' \in [Claims -> SUBSET ClaimRows] /\ \A x \in Claims : claims'[x] = Live(x)
    BY <2>1, <1>0
  <2> QED BY <2>1, <2>2, PurgeKeepsClaims
<1>3. ASSUME NEW c \in Claims, NEW st \in Decisions, CompletePairingClaim(c, st) PROVE ClaimInv'
  <2>1. PICK row \in claims[c] :
          /\ row.state = "pending"
          /\ claims' = [claims EXCEPT ![c] = {[row EXCEPT !.state = st]}]
          /\ decided' = [decided EXCEPT ![c] = IF @ = {} THEN {st} ELSE @]
          /\ UNCHANGED <<now, poll, told>>
    BY <1>3, Zenon DEF CompletePairingClaim
  <2> DEFINE new == [row EXCEPT !.state = st]
  <2>2. /\ row \in ClaimRows /\ new \in ClaimRows /\ new.state = st /\ new.expires = row.expires
    BY <1>0 DEF ClaimRows
  <2>3. decided[c] = {} /\ claims[c] = {row} /\ told[c] = {}
    BY <2>1 DEF ClaimInv, RowsDecided, ClaimAnswersAgree
  <2>4. /\ claims'[c] = {new} /\ decided'[c] = {st}
        /\ \A x \in Claims : x # c => claims'[x] = claims[x] /\ decided'[x] = decided[x]
    BY <2>1, <2>3, <1>0
  <2>5. claims' \in [Claims -> SUBSET ClaimRows] /\ decided' \in [Claims -> SUBSET Decisions]
    BY <2>1, <2>2, <2>3, <1>0
  <2> HIDE DEF new
  <2>6. ClaimTypes'
    BY <2>1, <2>5, <1>0 DEF ClaimTypes
  <2>7. RowsDecided'
    BY <2>2, <2>4 DEF ClaimInv, RowsDecided, Decisions
  <2>8. PollsDecided'
    <3>1. ASSUME NEW p \in Pollers, NEW r \in poll[p]
          PROVE  /\ Live(r.claim)' # {}
                 /\ r.state # "pending" => decided'[r.claim] = {r.state}
      <4>1. /\ Live(r.claim) # {} /\ r.claim \in Claims
            /\ r.state # "pending" => decided[r.claim] = {r.state}
        BY <1>0 DEF ClaimInv, PollsDecided, PollRecords
      <4>2. CASE r.claim # c
        BY <4>1, <4>2, <2>1, <2>4 DEF Live
      <4>3. CASE r.claim = c
        <5>1. row.expires > now
          BY <4>1, <4>3, <2>3 DEF Live
        <5> QED BY <4>1, <4>3, <5>1, <2>1, <2>2, <2>3, <2>4 DEF Live
      <4> QED BY <4>2, <4>3
    <3> QED BY <3>1, <2>1 DEF PollsDecided
  <2>9. ClaimAnswersAgree'
    BY <2>1, <2>3, <2>4 DEF ClaimInv, ClaimAnswersAgree
  <2> QED BY <2>6, <2>7, <2>8, <2>9 DEF ClaimInv
<1>4. ASSUME NEW p \in Pollers, NEW c \in Claims, NEW cap \in Capabilities, PollPairingResult(p, c, cap)
      PROVE  ClaimInv'
  <2>1. PICK row \in Live(c) :
          /\ row.state # "consumed"
          /\ poll' = [poll EXCEPT ![p] = {[claim |-> c, state |-> row.state, cap |-> cap]}]
          /\ UNCHANGED <<now, claims, decided, told>>
    BY <1>4, Zenon DEF PollPairingResult
  <2> DEFINE new == [claim |-> c, state |-> row.state, cap |-> cap]
  <2>2. row \in claims[c] /\ row \in ClaimRows
    BY <1>0
  <2>3. new \in PollRecords /\ new.claim = c /\ new.state = row.state /\ new.state \in {"pending"} \cup Decisions
    BY <2>1, <2>2 DEF ClaimRows, PollRecords
  <2>4. poll'[p] = {new} /\ \A x \in Pollers : x # p => poll'[x] = poll[x]
    BY <2>1, <1>0
  <2> HIDE DEF new
  <2>5. new.state # "pending" => decided[c] = {new.state}
    BY <2>2, <2>3 DEF ClaimInv, RowsDecided
  <2>6. \A x \in Claims : Live(x)' = Live(x)
    BY <2>1 DEF Live
  <2>7. ClaimTypes'
    BY <2>1, <2>3, <2>4, <1>0 DEF ClaimTypes
  <2>8. RowsDecided' /\ ClaimAnswersAgree'
    BY <2>1 DEF ClaimInv, RowsDecided, ClaimAnswersAgree
  <2>9. PollsDecided'
    <3>1. ASSUME NEW x \in Pollers, NEW r \in poll'[x]
          PROVE  /\ Live(r.claim)' # {}
                 /\ r.state # "pending" => decided'[r.claim] = {r.state}
      <4>1. CASE x = p
        BY <4>1, <2>1, <2>3, <2>4, <2>5, <2>6
      <4>2. CASE x # p
        BY <4>2, <2>1, <2>4, <2>6, <1>0 DEF ClaimInv, PollsDecided, PollRecords
      <4> QED BY <4>1, <4>2
    <3> QED BY <3>1 DEF PollsDecided
  <2> QED BY <2>7, <2>8, <2>9 DEF ClaimInv
<1>5. ASSUME NEW p \in Pollers, AnswerPoll(p) PROVE ClaimInv'
  <2> DEFINE consumed(row) == IF row.state \in {"approved", "rejected"} THEN [row EXCEPT !.state = "consumed"] ELSE row
  <2>1. PICK r \in poll[p] :
          /\ claims' = IF r.state = "pending" THEN claims
                       ELSE [claims EXCEPT ![r.claim] = {consumed(row) : row \in @}]
          /\ told' = [told EXCEPT ![r.claim] = @ \cup ({r.state} \ {"pending"})]
          /\ poll' = [poll EXCEPT ![p] = {}]
          /\ UNCHANGED <<now, decided>>
    BY <1>5, Zenon DEF AnswerPoll
  <2>2. r \in PollRecords /\ r.claim \in Claims /\ (r.state # "pending" => decided[r.claim] = {r.state})
        /\ r.state \in {"pending"} \cup Decisions
    BY <1>0 DEF ClaimInv, PollsDecided, PollRecords
  <2>3. \A row \in ClaimRows : /\ consumed(row) \in ClaimRows /\ consumed(row).expires = row.expires
                               /\ consumed(row).state = "consumed" \/ consumed(row) = row
    BY DEF ClaimRows, Decisions
  <2> HIDE DEF consumed
  <2>4. \A x \in Claims : claims'[x] = claims[x] \/ claims'[x] = {consumed(row) : row \in claims[x]}
    BY <2>1, <2>2, <1>0
  <2>5. claims' \in [Claims -> SUBSET ClaimRows]
    BY <2>1, <2>2, <2>3, <1>0
  <2>6. told' \in [Claims -> SUBSET Decisions] /\ told'[r.claim] = told[r.claim] \cup ({r.state} \ {"pending"})
        /\ \A x \in Claims : x # r.claim => told'[x] = told[x]
    BY <2>1, <2>2, <1>0
  <2>7. poll'[p] = {} /\ \A x \in Pollers : x # p => poll'[x] = poll[x]
    BY <2>1, <1>0
  <2>8. ClaimTypes'
    BY <2>1, <2>5, <2>6, <2>7, <1>0 DEF ClaimTypes
  <2>9. RowsDecided'
    <3>1. ASSUME NEW x \in Claims
          PROVE  /\ \A row, other \in claims'[x] : row = other
                 /\ \A row \in claims'[x] :
                      /\ row.state = "pending" => decided[x] = {}
                      /\ row.state \in Decisions => decided[x] = {row.state}
      <4>1. /\ \A row, other \in claims[x] : row = other
            /\ \A row \in claims[x] :
                 /\ row.state = "pending" => decided[x] = {}
                 /\ row.state \in Decisions => decided[x] = {row.state}
        BY DEF ClaimInv, RowsDecided
      <4>2. CASE claims'[x] = claims[x]
        BY <4>1, <4>2
      <4>3. CASE claims'[x] = {consumed(row) : row \in claims[x]}
        <5>1. \A row, other \in claims'[x] : row = other
          BY <4>1, <4>3
        <5>2. \A row \in claims'[x] : row.state = "consumed" \/ row \in claims[x]
          BY <4>3, <2>3, <1>0
        <5> QED BY <4>1, <5>1, <5>2 DEF Decisions
      <4> QED BY <4>2, <4>3, <2>4
    <3> QED BY <3>1, <2>1 DEF RowsDecided
  <2>10. \A x \in Claims : Live(x) # {} => Live(x)' # {}
    <3>1. ASSUME NEW x \in Claims, NEW row \in Live(x) PROVE Live(x)' # {}
      <4>1. row \in claims[x] /\ row.expires > now /\ row \in ClaimRows
        BY <1>0 DEF Live
      <4>2. row \in claims'[x] \/ consumed(row) \in claims'[x]
        BY <4>1, <2>4
      <4>3. consumed(row).expires > now'
        BY <4>1, <2>1, <2>3
      <4> QED BY <4>1, <4>2, <4>3, <2>1 DEF Live
    <3> QED BY <3>1
  <2>11. PollsDecided'
    <3>1. ASSUME NEW x \in Pollers, NEW y \in poll'[x]
          PROVE  /\ Live(y.claim)' # {}
                 /\ y.state # "pending" => decided'[y.claim] = {y.state}
      BY <2>1, <2>7, <2>10, <1>0 DEF ClaimInv, PollsDecided, PollRecords
    <3> QED BY <3>1 DEF PollsDecided
  <2>12. ClaimAnswersAgree'
    BY <2>1, <2>2, <2>6 DEF ClaimInv, ClaimAnswersAgree
  <2> QED BY <2>8, <2>9, <2>11, <2>12 DEF ClaimInv
<1>6. ASSUME Tick PROVE ClaimInv'
  <2>1. /\ \A p \in Pollers : poll[p] = {}
        /\ now' = now + 1 /\ UNCHANGED <<claims, poll, decided, told>>
    BY <1>6, Zenon DEF Tick
  <2> QED BY <2>1, <1>0 DEF ClaimInv, ClaimTypes, RowsDecided, PollsDecided, ClaimAnswersAgree
<1>7. ASSUME RelayRestarts PROVE ClaimInv'
  <2>1. poll' = [p \in Pollers |-> {}] /\ UNCHANGED <<now, claims, decided, told>>
    BY <1>7, Zenon DEF RelayRestarts
  <2> QED BY <2>1, <1>0 DEF ClaimInv, ClaimTypes, RowsDecided, PollsDecided, ClaimAnswersAgree
<1>8. CASE \/ \E m \in DOMAIN messages, a \in Addresses : HandleActivate(m, a)
           \/ \E m \in DOMAIN messages : HandlerActivates(m)
           \/ \E i \in Installs, k \in Keys, s \in Skews : Sign(i, k, s)
           \/ \E a \in Addresses, ok \in BOOLEAN : HandleRegisterRoute(a, ok)
           \/ UNCHANGED routesVars
  <2>1. UNCHANGED <<now, claims, poll, decided, told>>
    BY <1>8, Zenon DEF HandleActivate, HandlerActivates, Sign, HandleRegisterRoute, routesVars
  <2>2. \A x \in Claims : Live(x)' = Live(x)
    BY <2>1 DEF Live
  <2>3. PollsDecided'
    BY <2>1, <2>2, <1>0 DEF ClaimInv, PollsDecided, PollRecords
  <2> QED BY <2>1, <2>3, <1>0 DEF ClaimInv, ClaimTypes, RowsDecided, ClaimAnswersAgree
<1> QED BY <1>1, <1>2, <1>3, <1>4, <1>5, <1>6, <1>7, <1>8 DEF RoutesNext, Decisions

-----------------------------------------------------------------------------
(* The relay: the rate limiter.  s is the history of one key: the minutes   *)
(* at which a request of it was let through, in order.                      *)

Ordered(s, t) ==
    /\ s \in Seq(Nat)
    /\ \A a \in DOMAIN s : s[a] <= t
    /\ \A a, b \in DOMAIN s : a <= b => s[a] <= s[b]

(* Twice Limit requests apart is an Interval apart. *)
Spaced(s) == \A a, b \in DOMAIN s : a + 2 * Limit <= b => s[a] + Interval <= s[b]

(* A bucket counts the last requests of the history, those of its window;   *)
(* the ones before them were let through before the window began, and those *)
(* of the window before the last one an Interval earlier.                   *)
Counts(bucket, s, t) ==
    /\ bucket \in [window : Nat, count : Nat]
    /\ bucket.window <= t /\ bucket.count <= Limit /\ bucket.count <= Len(s)
    /\ \A a \in DOMAIN s :
         /\ a + bucket.count > Len(s) => bucket.window <= s[a] /\ s[a] < bucket.window + Interval
         /\ a + bucket.count <= Len(s) => s[a] < bucket.window
         /\ a + bucket.count + Limit <= Len(s) => s[a] + Interval <= bucket.window

(* A key without a bucket has not been let through for an Interval. *)
KeyInv(buckets, s, k, t) ==
    /\ Ordered(s, t) /\ Spaced(s)
    /\ k \in DOMAIN buckets => Counts(buckets[k], s, t)
    /\ k \notin DOMAIN buckets => \A a \in DOMAIN s : s[a] + Interval <= t

(* Limit requests in a row were let through in the Interval that ends at t. *)
Reached(s, t) ==
    \E n \in 0 .. Len(s) :
        /\ n + Limit <= Len(s)
        /\ \A a \in DOMAIN s : n < a /\ a <= n + Limit => t < s[a] + Interval /\ s[a] <= t

IsLimiter(l) == l = [last |-> l.last, buckets |-> l.buckets]

LEMMA CleanupKeeps ==
    ASSUME NEW l, IsLimiter(l), NEW s, NEW k, now \in Nat, KeyInv(l.buckets, s, k, now)
    PROVE  IsLimiter(CleanupLocked(l)) /\ KeyInv(CleanupLocked(l).buckets, s, k, now)
<1> DEFINE kept == {x \in DOMAIN l.buckets : now - l.buckets[x].window < 2 * Interval}
           cut == [x \in kept |-> l.buckets[x]]
<1>0. Interval \in Nat /\ Limit \in Nat
  BY RoutesAssumption
<1>1. CASE CleanupLocked(l) = l
  BY <1>1
<1>2. CASE CleanupLocked(l) = [last |-> {now}, buckets |-> cut]
  <2>1. IsLimiter(CleanupLocked(l)) /\ CleanupLocked(l).buckets = cut
    BY <1>2 DEF IsLimiter
  <2>2. DOMAIN cut = kept
    OBVIOUS
  <2>3. KeyInv(cut, s, k, now)
    <3>1. CASE k \in kept
      <4>1. cut[k] = l.buckets[k] /\ k \in DOMAIN l.buckets
        BY <3>1
      <4> QED BY <4>1, <3>1, <2>2 DEF KeyInv
    <3>2. CASE k \notin kept /\ k \in DOMAIN l.buckets
      <4> DEFINE b == l.buckets[k]
      <4>1. Counts(b, s, now) /\ Ordered(s, now)
        BY <3>2 DEF KeyInv
      <4>2. ~(now - b.window < 2 * Interval)
        BY <3>2
      <4>3. b.window \in Nat /\ b.count \in Nat
        BY <4>1 DEF Counts
      <4> HIDE DEF b
      <4>4. \A a \in DOMAIN s : s[a] + Interval <= now
        <5>1. ASSUME NEW a \in DOMAIN s PROVE s[a] + Interval <= now
          <6>1. s[a] \in Nat /\ a \in Nat /\ Len(s) \in Nat
            BY <4>1 DEF Ordered
          <6>2. s[a] < b.window + Interval
            BY <4>1, <4>3, <6>1, <1>0 DEF Counts
          <6> QED BY <6>1, <6>2, <4>2, <4>3, <1>0
        <5> QED BY <5>1
      <4> QED BY <4>4, <3>2, <2>2 DEF KeyInv
    <3>3. CASE k \notin kept /\ k \notin DOMAIN l.buckets
      BY <3>3, <2>2 DEF KeyInv
    <3> QED BY <3>1, <3>2, <3>3
  <2> QED BY <2>1, <2>3
<1> QED BY <1>1, <1>2 DEF CleanupLocked, Restrict

(* One request more for a bucket that is in its window, and for a new one.  *)
LEMMA ChargeKeeps ==
    ASSUME NEW s, NEW t \in Nat, Ordered(s, t), Spaced(s), NEW bucket,
           Counts(bucket, s, t), t < bucket.window + Interval, bucket.count < Limit
    PROVE  LET more == Append(s, t)
           IN  /\ Ordered(more, t) /\ Spaced(more)
               /\ Counts([bucket EXCEPT !.count = @ + 1], more, t)
<1> DEFINE more == Append(s, t)
           w == bucket.window
           c == bucket.count
           n == Len(s)
           next == [bucket EXCEPT !.count = @ + 1]
<1>0. Interval \in Nat \ {0} /\ Limit \in Nat \ {0}
  BY RoutesAssumption
<1>1. /\ s \in Seq(Nat) /\ n \in Nat /\ DOMAIN s = 1 .. n /\ \A a \in DOMAIN s : s[a] \in Nat
      /\ \A a \in DOMAIN s : s[a] <= t
  BY DEF Ordered
<1>2. /\ more \in Seq(Nat) /\ Len(more) = n + 1 /\ DOMAIN more = 1 .. (n + 1) /\ more[n + 1] = t
      /\ \A a \in DOMAIN s : more[a] = s[a]
  BY <1>1
<1>3. /\ w \in Nat /\ c \in Nat /\ w <= t /\ c < Limit /\ c <= n
      /\ \A a \in DOMAIN s :
           /\ a + c > n => w <= s[a] /\ s[a] < w + Interval
           /\ a + c <= n => s[a] < w
           /\ a + c + Limit <= n => s[a] + Interval <= w
      /\ t < w + Interval
  BY DEF Counts
<1>4. next.window = w /\ next.count = c + 1 /\ next \in [window : Nat, count : Nat]
  BY <1>3 DEF Counts
<1>5. \A a, b \in DOMAIN s : a <= b => s[a] <= s[b]
  BY DEF Ordered
<1>6. \A a, b \in DOMAIN s : a + 2 * Limit <= b => s[a] + Interval <= s[b]
  BY DEF Spaced
<1> HIDE DEF more, w, c, n, next
<1>10. \A a \in DOMAIN more : a \in Nat /\ 1 <= a /\ a <= n + 1 /\ (a \in DOMAIN s \/ a = n + 1)
  BY <1>1, <1>2
<1>11. \A a \in DOMAIN s : a \in Nat /\ a <= n /\ more[a] \in Nat
  BY <1>1, <1>2
<1>7. Ordered(more, t)
  <2>1. \A a \in DOMAIN more : more[a] <= t
    BY <1>1, <1>2, <1>10
  <2>2. ASSUME NEW a \in DOMAIN more, NEW b \in DOMAIN more, a <= b PROVE more[a] <= more[b]
    <3>1. CASE b = n + 1
      BY <3>1, <2>1, <1>2
    <3>2. CASE b \in DOMAIN s
      <4>1. a \in DOMAIN s
        BY <3>2, <2>2, <1>1, <1>10, <1>11
      <4> QED BY <4>1, <3>2, <2>2, <1>2, <1>5
    <3> QED BY <3>1, <3>2, <1>10
  <2> QED BY <2>1, <2>2, <1>2 DEF Ordered
<1>8. Spaced(more)
  <2>1. ASSUME NEW a \in DOMAIN more, NEW b \in DOMAIN more, a + 2 * Limit <= b
        PROVE  more[a] + Interval <= more[b]
    <3>1. a \in DOMAIN s /\ a \in Nat
      <4>1. a \in Nat /\ b \in Nat /\ b <= n + 1
        BY <1>10
      <4>2. a # n + 1
        BY <4>1, <2>1, <1>0, <1>1
      <4> QED BY <4>1, <4>2, <1>10
    <3>2. CASE b \in DOMAIN s
      BY <3>1, <3>2, <2>1, <1>2, <1>6
    <3>3. CASE b = n + 1
      <4>1. a + c + Limit <= n
        BY <3>1, <3>3, <2>1, <1>0, <1>1, <1>3
      <4> QED BY <4>1, <3>1, <3>3, <1>0, <1>1, <1>2, <1>3
    <3> QED BY <3>2, <3>3, <1>1, <1>2
  <2> QED BY <2>1 DEF Spaced
<1>9. Counts(next, more, t)
  <2>1. ASSUME NEW a \in DOMAIN more
        PROVE  /\ a + (c + 1) > n + 1 => w <= more[a] /\ more[a] < w + Interval
               /\ a + (c + 1) <= n + 1 => more[a] < w
               /\ a + (c + 1) + Limit <= n + 1 => more[a] + Interval <= w
    <3>1. CASE a \in DOMAIN s
      <4>1. /\ a + c > n => w <= s[a] /\ s[a] < w + Interval
            /\ a + c <= n => s[a] < w
            /\ a + c + Limit <= n => s[a] + Interval <= w
        BY <3>1, <1>3
      <4>2. a \in Nat /\ more[a] = s[a] /\ c \in Nat /\ n \in Nat
        BY <3>1, <1>1, <1>2, <1>3, <1>11
      <4> QED BY <4>1, <4>2, <1>0
    <3>2. CASE a = n + 1
      <4>1. more[a] = t /\ n \in Nat /\ c \in Nat
        BY <3>2, <1>1, <1>2, <1>3
      <4> QED BY <4>1, <3>2, <1>0, <1>3
    <3> QED BY <3>1, <3>2, <1>10
  <2>2. c + 1 <= Limit /\ c + 1 <= n + 1
    BY <1>0, <1>1, <1>3
  <2> QED BY <2>1, <2>2, <1>2, <1>3, <1>4 DEF Counts
<1> QED BY <1>7, <1>8, <1>9 DEF more, next

(* A new window is right whether there was a bucket or not. *)
LEMMA WindowOpens ==
    ASSUME NEW buckets, NEW s, NEW k, NEW t \in Nat, KeyInv(buckets, s, k, t),
           k \in DOMAIN buckets => ~(t - buckets[k].window < Interval)
    PROVE  Counts([window |-> t, count |-> 0], s, t)
<1>0. Interval \in Nat \ {0} /\ Limit \in Nat \ {0}
  BY RoutesAssumption
<1>1. s \in Seq(Nat) /\ Len(s) \in Nat /\ DOMAIN s = 1 .. Len(s) /\ \A a \in DOMAIN s : s[a] \in Nat
  BY DEF KeyInv, Ordered
<1>2. ASSUME NEW a \in DOMAIN s
      PROVE  s[a] < t /\ (a + Limit <= Len(s) => s[a] + Interval <= t)
  <2>1. CASE k \notin DOMAIN buckets
    <3>1. s[a] + Interval <= t
      BY <2>1 DEF KeyInv
    <3> QED BY <3>1, <1>0, <1>1
  <2>2. CASE k \in DOMAIN buckets
    <3> DEFINE b == buckets[k]
    <3>1. Counts(b, s, t)
      BY <2>2 DEF KeyInv
    <3>2. ~(t - b.window < Interval)
      BY <2>2
    <3> HIDE DEF b
    <3>3. b.window \in Nat /\ b.count \in Nat /\ b.count <= Limit
      BY <3>1 DEF Counts
    <3>4. /\ a + b.count > Len(s) => b.window <= s[a] /\ s[a] < b.window + Interval
          /\ a + b.count <= Len(s) => s[a] < b.window
      BY <3>1 DEF Counts
    <3>5. a \in Nat /\ s[a] \in Nat /\ Len(s) \in Nat
      BY <1>1
    <3>6. b.window + Interval <= t
      BY <3>2, <3>3, <1>0
    <3>7. CASE a + b.count > Len(s)
      <4>1. s[a] < b.window + Interval
        BY <3>4, <3>7
      <4>2. s[a] < t
        BY <4>1, <3>3, <3>5, <3>6, <1>0
      <4>3. ~(a + Limit <= Len(s))
        BY <3>7, <3>3, <3>5, <1>0
      <4> QED BY <4>2, <4>3
    <3>8. CASE a + b.count <= Len(s)
      <4>1. s[a] < b.window
        BY <3>4, <3>8
      <4> QED BY <4>1, <3>3, <3>5, <3>6, <1>0
    <3>9. a + b.count > Len(s) \/ a + b.count <= Len(s)
      BY <3>3, <3>5
    <3> QED BY <3>7, <3>8, <3>9
  <2> QED BY <2>1, <2>2
<1> DEFINE new == [window |-> t, count |-> 0]
<1>3. new \in [window : Nat, count : Nat] /\ new.window = t /\ new.count = 0
  OBVIOUS
<1> HIDE DEF new
<1>4. \A a \in DOMAIN s : a \in Nat /\ a <= Len(s)
  BY <1>1
<1> QED BY <1>0, <1>1, <1>2, <1>3, <1>4 DEF Counts, new

Put(buckets, k, bucket) == [x \in DOMAIN buckets \cup {k} |-> IF x = k THEN bucket ELSE buckets[x]]

LEMMA PutKeeps ==
    ASSUME NEW buckets, NEW k, NEW bucket
    PROVE  /\ \A x, s, t : x # k /\ KeyInv(buckets, s, x, t) => KeyInv(Put(buckets, k, bucket), s, x, t)
           /\ \A s, t : Ordered(s, t) /\ Spaced(s) /\ Counts(bucket, s, t) => KeyInv(Put(buckets, k, bucket), s, k, t)
<1> DEFINE f == Put(buckets, k, bucket)
<1>1. /\ DOMAIN f = DOMAIN buckets \cup {k} /\ f[k] = bucket
      /\ \A x \in DOMAIN buckets : x # k => f[x] = buckets[x]
  BY DEF Put
<1> HIDE DEF f
<1>2. ASSUME NEW x, NEW s, NEW t, x # k, KeyInv(buckets, s, x, t) PROVE KeyInv(f, s, x, t)
  <2>1. x \in DOMAIN f <=> x \in DOMAIN buckets
    BY <1>1, <1>2
  <2>2. x \in DOMAIN buckets => f[x] = buckets[x]
    BY <1>1, <1>2
  <2> QED BY <2>1, <2>2, <1>2 DEF KeyInv
<1>3. ASSUME NEW s, NEW t, Ordered(s, t), Spaced(s), Counts(bucket, s, t) PROVE KeyInv(f, s, k, t)
  BY <1>1, <1>3 DEF KeyInv
<1> QED BY <1>2, <1>3 DEF f

LEMMA AllowCases ==
    ASSUME NEW l, IsLimiter(l), NEW k
    PROVE  LET c == CleanupLocked(l)
               b == BucketFor(c, k)
               a == Allow(l, k)
           IN  \/ a.verdict = "capacity" /\ a.limiter = c
               \/ /\ a.verdict = "rate" /\ b.count >= Limit
                  /\ a.limiter = [last |-> c.last, buckets |-> Put(c.buckets, k, b)]
               \/ /\ a.verdict = "ok" /\ ~(b.count >= Limit)
                  /\ a.limiter = [last |-> c.last, buckets |-> Put(c.buckets, k, [b EXCEPT !.count = @ + 1])]
<1> DEFINE c == CleanupLocked(l)
           b == BucketFor(c, k)
           with(bucket) == [c EXCEPT !.buckets = [x \in DOMAIN @ \cup {k} |-> IF x = k THEN bucket ELSE @[x]]]
<1>1. c = [last |-> c.last, buckets |-> c.buckets]
  BY DEF CleanupLocked, IsLimiter
<1>2. ASSUME NEW bucket
      PROVE  with(bucket) = [last |-> c.last, buckets |-> Put(c.buckets, k, bucket)]
  BY <1>1 DEF Put
<1>3. Allow(l, k) = IF k \notin DOMAIN c.buckets /\ Cardinality(DOMAIN c.buckets) >= MaxBuckets
                    THEN [verdict |-> "capacity", limiter |-> c]
                    ELSE IF b.count >= Limit THEN [verdict |-> "rate", limiter |-> with(b)]
                    ELSE [verdict |-> "ok", limiter |-> with([b EXCEPT !.count = @ + 1])]
  BY DEF Allow
<1> HIDE DEF c, b, with
<1> QED BY <1>2, <1>3 DEF c, b

LEMMA AllowKeeps ==
    ASSUME NEW l, IsLimiter(l), NEW k, now \in Nat
    PROVE  LET a == Allow(l, k)
           IN  /\ IsLimiter(a.limiter)
               /\ \A x, s : x # k /\ KeyInv(l.buckets, s, x, now) => KeyInv(a.limiter.buckets, s, x, now)
               /\ \A s : KeyInv(l.buckets, s, k, now) =>
                    /\ a.verdict = "ok" => KeyInv(a.limiter.buckets, Append(s, now), k, now)
                    /\ a.verdict # "ok" => KeyInv(a.limiter.buckets, s, k, now)
                    /\ a.verdict = "rate" => Reached(s, now)
<1> DEFINE c == CleanupLocked(l)
           b == BucketFor(c, k)
           a == Allow(l, k)
           one == [b EXCEPT !.count = @ + 1]
<1>0. Interval \in Nat \ {0} /\ Limit \in Nat \ {0}
  BY RoutesAssumption
<1>1. \A x, s : KeyInv(l.buckets, s, x, now) => KeyInv(c.buckets, s, x, now)
  BY CleanupKeeps
<1>2. IsLimiter(c)
  BY DEF CleanupLocked, IsLimiter
<1>3. \/ a.verdict = "capacity" /\ a.limiter = c
      \/ /\ a.verdict = "rate" /\ b.count >= Limit
         /\ a.limiter = [last |-> c.last, buckets |-> Put(c.buckets, k, b)]
      \/ /\ a.verdict = "ok" /\ ~(b.count >= Limit)
         /\ a.limiter = [last |-> c.last, buckets |-> Put(c.buckets, k, one)]
  BY AllowCases
<1>4. ASSUME NEW s, KeyInv(l.buckets, s, k, now)
      PROVE  /\ Ordered(s, now) /\ Spaced(s) /\ KeyInv(c.buckets, s, k, now)
             /\ Counts(b, s, now) /\ now < b.window + Interval
  <2>1. KeyInv(c.buckets, s, k, now)
    BY <1>1, <1>4
  <2>2. Ordered(s, now) /\ Spaced(s)
    BY <2>1 DEF KeyInv
  <2>3. CASE k \in DOMAIN c.buckets /\ now - c.buckets[k].window < Interval
    <3>1. b = c.buckets[k]
      BY <2>3 DEF BucketFor
    <3>2. Counts(b, s, now)
      BY <3>1, <2>1, <2>3 DEF KeyInv
    <3>3. now - b.window < Interval
      BY <2>3, <3>1
    <3>4. b.window \in Nat
      BY <3>2 DEF Counts
    <3> HIDE DEF b
    <3> QED BY <2>1, <2>2, <3>2, <3>3, <3>4, <1>0
  <2>4. CASE ~(k \in DOMAIN c.buckets /\ now - c.buckets[k].window < Interval)
    <3>1. b = [window |-> now, count |-> 0]
      BY <2>4 DEF BucketFor
    <3>2. Counts(b, s, now)
      BY <3>1, <2>1, <2>4, WindowOpens
    <3>3. b.window = now
      BY <3>1
    <3> HIDE DEF b
    <3> QED BY <2>1, <2>2, <3>2, <3>3, <1>0
  <2> QED BY <2>3, <2>4
<1> HIDE DEF c, b, a, one
<1>5. CASE a.verdict = "capacity" /\ a.limiter = c
  <2>1. a.verdict # "ok" /\ a.verdict # "rate"
    BY <1>5
  <2> QED BY <1>1, <1>2, <1>5, <2>1 DEF a
<1>6. CASE /\ a.verdict = "rate" /\ b.count >= Limit
           /\ a.limiter = [last |-> c.last, buckets |-> Put(c.buckets, k, b)]
  <2>1. IsLimiter(a.limiter) /\ a.limiter.buckets = Put(c.buckets, k, b) /\ a.verdict # "ok"
    BY <1>6 DEF IsLimiter
  <2>2. ASSUME NEW s, KeyInv(l.buckets, s, k, now)
        PROVE  KeyInv(a.limiter.buckets, s, k, now) /\ Reached(s, now)
    <3>1. KeyInv(a.limiter.buckets, s, k, now)
      BY <1>4, <2>1, <2>2, PutKeeps
    <3>2. Reached(s, now)
      <4>1. /\ b.count = Limit /\ Limit <= Len(s) /\ Len(s) \in Nat /\ b.window \in Nat
            /\ now < b.window + Interval /\ b.window <= now
        BY <1>0, <1>4, <1>6, <2>2 DEF Counts, Ordered
      <4>2. \A i \in DOMAIN s : i \in Nat /\ s[i] \in Nat /\ s[i] <= now
        BY <1>4, <2>2 DEF Ordered
      <4>3. \A i \in DOMAIN s : i + Limit > Len(s) => b.window <= s[i]
        BY <1>4, <2>2, <4>1 DEF Counts
      <4> DEFINE n == Len(s) - Limit
      <4>4. n \in Nat /\ n + Limit <= Len(s)
        BY <1>0, <4>1
      <4>5. ASSUME NEW i \in DOMAIN s, n < i, i <= n + Limit PROVE now < s[i] + Interval /\ s[i] <= now
        <5>1. i + Limit > Len(s)
          BY <4>1, <4>2, <4>5, <1>0
        <5> QED BY <5>1, <4>1, <4>2, <4>3, <1>0
      <4>6. n \in 0 .. Len(s)
        BY <4>1, <4>4, <1>0
      <4> QED BY <4>4, <4>5, <4>6 DEF Reached
    <3> QED BY <3>1, <3>2
  <2>3. ASSUME NEW x, NEW s, x # k, KeyInv(l.buckets, s, x, now) PROVE KeyInv(a.limiter.buckets, s, x, now)
    BY <2>1, <2>3, <1>1, PutKeeps
  <2> QED BY <2>1, <2>2, <2>3 DEF a
<1>7. CASE /\ a.verdict = "ok" /\ ~(b.count >= Limit)
           /\ a.limiter = [last |-> c.last, buckets |-> Put(c.buckets, k, one)]
  <2>1. IsLimiter(a.limiter) /\ a.limiter.buckets = Put(c.buckets, k, one) /\ a.verdict # "rate"
    BY <1>7 DEF IsLimiter
  <2>2. ASSUME NEW s, KeyInv(l.buckets, s, k, now)
        PROVE  KeyInv(a.limiter.buckets, Append(s, now), k, now)
    <3>1. b.count < Limit
      BY <1>0, <1>4, <1>7, <2>2 DEF Counts
    <3>2. /\ Ordered(Append(s, now), now) /\ Spaced(Append(s, now))
          /\ Counts(one, Append(s, now), now)
      BY <1>4, <2>2, <3>1, ChargeKeeps DEF one
    <3> QED BY <2>1, <3>2, PutKeeps
  <2>3. ASSUME NEW x, NEW s, x # k, KeyInv(l.buckets, s, x, now) PROVE KeyInv(a.limiter.buckets, s, x, now)
    BY <2>1, <2>3, <1>1, PutKeeps
  <2> QED BY <2>1, <2>2, <2>3, <1>7 DEF a
<1> QED BY <1>3, <1>5, <1>6, <1>7

LimitersCount ==
    /\ now \in Nat
    /\ limiters = [w \in Which |-> limiters[w]]
    /\ passed = [w \in Which |-> [k \in BucketKeys |-> passed[w][k]]]
    /\ \A w \in Which :
         /\ IsLimiter(limiters[w])
         /\ \A k \in BucketKeys : KeyInv(limiters[w].buckets, passed[w][k], k, now)

RefusalsEarned ==
    \A r \in refused : r.w \in Which /\ r.key \in BucketKeys /\ r.at \in Nat /\ Reached(passed[r.w][r.key], r.at)

RateInv == LimitersCount /\ RefusalsEarned

LEMMA RateInit == RoutesInit => RateInv
<1> SUFFICES ASSUME RoutesInit PROVE RateInv
  OBVIOUS
<1>1. /\ now = 0 /\ limiters = [w \in Which |-> NewRateLimiter] /\ refused = {}
      /\ passed = [w \in Which |-> [k \in BucketKeys |-> <<>>]]
  BY DEF RoutesInit
<1>2. IsLimiter(NewRateLimiter) /\ DOMAIN NewRateLimiter.buckets = {}
  BY DEF NewRateLimiter, NoBuckets, IsLimiter
<1>3. \A k : KeyInv(NewRateLimiter.buckets, <<>>, k, 0)
  BY <1>2 DEF KeyInv, Ordered, Spaced
<1> QED BY <1>1, <1>2, <1>3 DEF RateInv, LimitersCount, RefusalsEarned

(* What a verdict on a request to limiter w must be for the histories to    *)
(* stay exact.                                                              *)
VerdictSound(w, result) ==
    /\ IsLimiter(result.limiter) /\ result.by \in BucketKeys
    /\ \A k \in BucketKeys :
         /\ k \in result.keys => KeyInv(result.limiter.buckets, Append(passed[w][k], now), k, now)
         /\ k \notin result.keys => KeyInv(result.limiter.buckets, passed[w][k], k, now)
    /\ result.verdict = "rate" => Reached(passed[w][result.by], now)

LEMMA AllowOneSound ==
    ASSUME LimitersCount, NEW w \in Which, NEW k \in BucketKeys
    PROVE  VerdictSound(w, AllowOne(limiters[w], k))
<1> DEFINE l == limiters[w]
           a == Allow(l, k)
           result == AllowOne(l, k)
<1>1. /\ IsLimiter(l) /\ now \in Nat
      /\ \A x \in BucketKeys : KeyInv(l.buckets, passed[w][x], x, now)
  BY DEF LimitersCount
<1>2. /\ IsLimiter(a.limiter)
      /\ \A x, s : x # k /\ KeyInv(l.buckets, s, x, now) => KeyInv(a.limiter.buckets, s, x, now)
      /\ \A s : KeyInv(l.buckets, s, k, now) =>
           /\ a.verdict = "ok" => KeyInv(a.limiter.buckets, Append(s, now), k, now)
           /\ a.verdict # "ok" => KeyInv(a.limiter.buckets, s, k, now)
           /\ a.verdict = "rate" => Reached(s, now)
  BY <1>1, AllowKeeps
<1>3. /\ result.verdict = a.verdict /\ result.limiter = a.limiter /\ result.by = k
      /\ result.keys = IF a.verdict = "ok" THEN {k} ELSE {}
  BY DEF AllowOne, Charged
<1> HIDE DEF l, a, result
<1>4. a.verdict = "rate" => Reached(passed[w][k], now)
  BY <1>1, <1>2
<1>5. ASSUME NEW x \in BucketKeys
      PROVE  /\ x \in result.keys => KeyInv(result.limiter.buckets, Append(passed[w][x], now), x, now)
             /\ x \notin result.keys => KeyInv(result.limiter.buckets, passed[w][x], x, now)
  BY <1>1, <1>2, <1>3
<1>6. VerdictSound(w, result)
  BY <1>2, <1>3, <1>4, <1>5 DEF VerdictSound
<1> QED BY <1>6 DEF result, l

LEMMA AllowBothSound ==
    ASSUME LimitersCount, NEW w \in Which, NEW k1 \in BucketKeys, NEW k2 \in BucketKeys, k1 # k2
    PROVE  VerdictSound(w, AllowBoth(limiters[w], k1, k2))
<1> DEFINE l == limiters[w]
           a == Allow(l, k1)
           b == Allow(a.limiter, k2)
           result == AllowBoth(l, k1, k2)
<1>1. /\ IsLimiter(l) /\ now \in Nat
      /\ \A x \in BucketKeys : KeyInv(l.buckets, passed[w][x], x, now)
  BY DEF LimitersCount
<1>2. /\ IsLimiter(a.limiter)
      /\ \A x, s : x # k1 /\ KeyInv(l.buckets, s, x, now) => KeyInv(a.limiter.buckets, s, x, now)
      /\ \A s : KeyInv(l.buckets, s, k1, now) =>
           /\ a.verdict = "ok" => KeyInv(a.limiter.buckets, Append(s, now), k1, now)
           /\ a.verdict # "ok" => KeyInv(a.limiter.buckets, s, k1, now)
           /\ a.verdict = "rate" => Reached(s, now)
  BY <1>1, AllowKeeps
<1>3. /\ IsLimiter(b.limiter)
      /\ \A x, s : x # k2 /\ KeyInv(a.limiter.buckets, s, x, now) => KeyInv(b.limiter.buckets, s, x, now)
      /\ \A s : KeyInv(a.limiter.buckets, s, k2, now) =>
           /\ b.verdict = "ok" => KeyInv(b.limiter.buckets, Append(s, now), k2, now)
           /\ b.verdict # "ok" => KeyInv(b.limiter.buckets, s, k2, now)
           /\ b.verdict = "rate" => Reached(s, now)
  BY <1>1, <1>2, AllowKeeps
<1>4. /\ a.verdict # "ok" => /\ result.verdict = a.verdict /\ result.limiter = a.limiter
                             /\ result.by = k1 /\ result.keys = {}
      /\ a.verdict = "ok" => /\ result.verdict = b.verdict /\ result.limiter = b.limiter /\ result.by = k2
                             /\ result.keys = IF b.verdict = "ok" THEN {k1, k2} ELSE {k1}
  BY DEF AllowBoth, Charged
<1> HIDE DEF l, a, b, result
<1>5. CASE a.verdict # "ok"
  <2>1. a.verdict = "rate" => Reached(passed[w][k1], now)
    BY <1>1, <1>2
  <2>2. \A x \in BucketKeys : KeyInv(a.limiter.buckets, passed[w][x], x, now)
    BY <1>1, <1>2, <1>5
  <2>3. VerdictSound(w, result)
    BY <1>2, <1>4, <1>5, <2>1, <2>2 DEF VerdictSound
  <2> QED BY <2>3 DEF result, l
<1>6. CASE a.verdict = "ok"
  <2>1. KeyInv(a.limiter.buckets, Append(passed[w][k1], now), k1, now)
    BY <1>1, <1>2, <1>6
  <2>2. \A x \in BucketKeys : x # k1 => KeyInv(a.limiter.buckets, passed[w][x], x, now)
    BY <1>1, <1>2
  <2>3. b.verdict = "rate" => Reached(passed[w][k2], now)
    BY <1>3, <2>2
  <2>4. ASSUME NEW x \in BucketKeys
        PROVE  /\ x \in result.keys => KeyInv(result.limiter.buckets, Append(passed[w][x], now), x, now)
               /\ x \notin result.keys => KeyInv(result.limiter.buckets, passed[w][x], x, now)
    <3>1. CASE x = k1
      <4>1. KeyInv(b.limiter.buckets, Append(passed[w][k1], now), k1, now)
        BY <2>1, <1>3
      <4> QED BY <3>1, <4>1, <1>4, <1>6
    <3>2. CASE x = k2
      BY <3>2, <2>2, <1>3, <1>4, <1>6
    <3>3. CASE x # k1 /\ x # k2
      BY <3>3, <2>2, <1>3, <1>4, <1>6
    <3> QED BY <3>1, <3>2, <3>3
  <2>5. VerdictSound(w, result)
    BY <1>3, <1>4, <1>6, <2>3, <2>4 DEF VerdictSound
  <2> QED BY <2>5 DEF result, l
<1> QED BY <1>5, <1>6

LEMMA ReachedStays ==
    ASSUME NEW s \in Seq(Nat), NEW t, NEW x \in Nat, Reached(s, t)
    PROVE  Reached(Append(s, x), t)
<1> DEFINE more == Append(s, x)
<1>1. PICK n \in 0 .. Len(s) :
           /\ n + Limit <= Len(s)
           /\ \A a \in DOMAIN s : n < a /\ a <= n + Limit => t < s[a] + Interval /\ s[a] <= t
  BY DEF Reached
<1>2. /\ Len(more) = Len(s) + 1 /\ DOMAIN more = 1 .. (Len(s) + 1) /\ DOMAIN s = 1 .. Len(s) /\ Len(s) \in Nat
      /\ \A a \in DOMAIN s : more[a] = s[a]
  OBVIOUS
<1> HIDE DEF more
<1>3. Limit \in Nat
  BY RoutesAssumption
<1>4. \A a \in DOMAIN more : a <= n + Limit => a \in DOMAIN s
  BY <1>1, <1>2, <1>3
<1>5. n + Limit <= Len(more)
  BY <1>1, <1>2, <1>3
<1>6. n \in 0 .. Len(more)
  BY <1>2
<1>7. Reached(more, t)
  BY <1>1, <1>2, <1>4, <1>5, <1>6 DEF Reached
<1> QED BY <1>7 DEF more

LEMMA JudgedKeeps ==
    ASSUME RateInv, NEW w \in Which, NEW result, VerdictSound(w, result), Judged(w, result), now' = now
    PROVE  RateInv'
<1> DEFINE grown(k) == IF k \in result.keys THEN Append(passed[w][k], now) ELSE passed[w][k]
<1>1. /\ now \in Nat /\ limiters = [v \in Which |-> limiters[v]]
      /\ passed = [v \in Which |-> [k \in BucketKeys |-> passed[v][k]]]
      /\ \A v \in Which : IsLimiter(limiters[v])
      /\ \A v \in Which, k \in BucketKeys : KeyInv(limiters[v].buckets, passed[v][k], k, now)
  BY DEF RateInv, LimitersCount
<1>2. /\ limiters' = [limiters EXCEPT ![w] = result.limiter]
      /\ passed' = [passed EXCEPT ![w] = [k \in BucketKeys |-> grown(k)]]
      /\ refused' = IF result.verdict = "rate" THEN {[w |-> w, key |-> result.by, at |-> now]} ELSE refused
  BY DEF Judged
<1>3. /\ limiters'[w] = result.limiter /\ \A v \in Which : v # w => limiters'[v] = limiters[v]
      /\ limiters' = [v \in Which |-> limiters'[v]]
  BY <1>1, <1>2
<1>4. /\ \A k \in BucketKeys : passed'[w][k] = grown(k)
      /\ \A v \in Which : v # w => passed'[v] = passed[v]
      /\ passed' = [v \in Which |-> [k \in BucketKeys |-> passed'[v][k]]]
  <2>1. passed' = [v \in Which |-> IF v = w THEN [k \in BucketKeys |-> grown(k)] ELSE passed[v]]
    BY <1>1, <1>2
  <2>2. \A v \in Which : passed[v] = [k \in BucketKeys |-> passed[v][k]]
    BY <1>1
  <2>3. passed'[w] = [k \in BucketKeys |-> grown(k)] /\ \A v \in Which : v # w => passed'[v] = passed[v]
    BY <2>1
  <2>4. \A v \in Which : passed'[v] = [k \in BucketKeys |-> passed'[v][k]]
    BY <2>2, <2>3
  <2>5. DOMAIN passed' = Which /\ passed' = [v \in Which |-> passed'[v]]
    BY <2>1
  <2>6. passed' = [v \in Which |-> [k \in BucketKeys |-> passed'[v][k]]]
    BY <2>4, <2>5
  <2> QED BY <2>3, <2>6
<1>5. LimitersCount'
  <2>1. ASSUME NEW v \in Which
        PROVE  IsLimiter(limiters'[v]) /\ \A k \in BucketKeys : KeyInv(limiters'[v].buckets, passed'[v][k], k, now')
    <3>1. CASE v = w
      BY <3>1, <1>3, <1>4 DEF VerdictSound
    <3>2. CASE v # w
      BY <3>2, <1>1, <1>3, <1>4
    <3> QED BY <3>1, <3>2
  <2> QED BY <2>1, <1>1, <1>3, <1>4 DEF LimitersCount
<1>6. ASSUME NEW v \in Which, NEW k \in BucketKeys, NEW t, Reached(passed[v][k], t)
      PROVE  Reached(passed'[v][k], t)
  <2>1. passed'[v][k] = passed[v][k] \/ passed'[v][k] = Append(passed[v][k], now)
    BY <1>4
  <2>2. passed[v][k] \in Seq(Nat)
    BY <1>1 DEF KeyInv, Ordered
  <2> QED BY <2>1, <2>2, <1>1, <1>6, ReachedStays
<1>7. RefusalsEarned'
  <2>1. ASSUME NEW r \in refused'
        PROVE  r.w \in Which /\ r.key \in BucketKeys /\ r.at \in Nat /\ Reached(passed'[r.w][r.key], r.at)
    <3>1. CASE r \in refused
      <4>1. r.w \in Which /\ r.key \in BucketKeys /\ r.at \in Nat /\ Reached(passed[r.w][r.key], r.at)
        BY <3>1 DEF RateInv, RefusalsEarned
      <4> QED BY <4>1, <1>6
    <3>2. CASE r \notin refused
      <4>1. result.verdict = "rate" /\ r.w = w /\ r.key = result.by /\ r.at = now
        BY <3>2, <2>1, <1>2
      <4>2. Reached(passed[w][result.by], now) /\ result.by \in BucketKeys
        BY <4>1 DEF VerdictSound
      <4> QED BY <4>1, <4>2, <1>1, <1>6
    <3> QED BY <3>1, <3>2
  <2> QED BY <2>1 DEF RefusalsEarned
<1> QED BY <1>5, <1>7 DEF RateInv

LEMMA RateStep == MessageTypes /\ RateInv /\ [RoutesNext]_routesVars => RateInv'
<1> SUFFICES ASSUME MessageTypes, RateInv, [RoutesNext]_routesVars PROVE RateInv'
  OBVIOUS
<1>0. LimitersCount /\ now \in Nat /\ {"general", "activation"} = Which
  BY DEF RateInv, LimitersCount, Which
<1>1. ASSUME NEW m \in DOMAIN messages, NEW a \in Addresses, HandleActivate(m, a)
      PROVE  RateInv'
  <2> DEFINE ip == <<"ip", a>>
             own == <<"install", messages[m].install>>
             l == limiters["activation"]
             result == IF InWindow(messages[m].at) THEN AllowBoth(l, ip, own) ELSE AllowOne(l, ip)
  <2>1. ip \in BucketKeys /\ own \in BucketKeys /\ ip # own
    <3>1. messages[m].install \in Installs
      <4>1. messages[m] \in Message
        BY DEF MessageTypes
      <4> QED BY <4>1 DEF Message
    <3> QED BY <3>1 DEF BucketKeys
  <2>2. now' = now /\ Judged("activation", result)
    BY <1>1, Zenon DEF HandleActivate
  <2> HIDE DEF ip, own
  <2>3. VerdictSound("activation", AllowBoth(l, ip, own)) /\ VerdictSound("activation", AllowOne(l, ip))
    BY <2>1, <1>0, AllowOneSound, AllowBothSound
  <2>4. VerdictSound("activation", result)
    BY <2>3
  <2> HIDE DEF result
  <2> QED BY <2>2, <2>4, <1>0, JudgedKeeps
<1>2. ASSUME NEW a \in Addresses, NEW ok \in BOOLEAN, HandleRegisterRoute(a, ok) PROVE RateInv'
  <2> DEFINE ip == <<"ip", a>>
             path == <<"route", "register">>
             result == AllowBoth(limiters["general"], ip, path)
  <2>1. ip \in BucketKeys /\ path \in BucketKeys /\ ip # path
    BY DEF BucketKeys
  <2>2. now' = now /\ Judged("general", result)
    BY <1>2, Zenon DEF HandleRegisterRoute
  <2> HIDE DEF ip, path
  <2>3. VerdictSound("general", result)
    BY <2>1, <1>0, AllowBothSound
  <2> HIDE DEF result
  <2> QED BY <2>2, <2>3, <1>0, JudgedKeeps
<1>3. CASE Tick
  <2>1. now' = now + 1 /\ UNCHANGED <<limiters, passed, refused>>
    BY <1>3, Zenon DEF Tick
  <2>2. ASSUME NEW buckets, NEW s, NEW k, KeyInv(buckets, s, k, now) PROVE KeyInv(buckets, s, k, now + 1)
    <3>0. Interval \in Nat
      BY RoutesAssumption
    <3>1. s \in Seq(Nat) /\ \A i \in DOMAIN s : s[i] \in Nat
      BY <2>2 DEF KeyInv, Ordered
    <3>2. Ordered(s, now + 1)
      BY <2>2, <3>1, <1>0 DEF KeyInv, Ordered
    <3>3. k \in DOMAIN buckets => Counts(buckets[k], s, now + 1)
      <4>1. ASSUME k \in DOMAIN buckets PROVE Counts(buckets[k], s, now + 1)
        <5> DEFINE b == buckets[k]
        <5>1. Counts(b, s, now)
          BY <4>1, <2>2 DEF KeyInv
        <5> HIDE DEF b
        <5>2. b.window \in Nat
          BY <5>1 DEF Counts
        <5>3. Counts(b, s, now + 1)
          BY <5>1, <5>2, <1>0 DEF Counts
        <5> QED BY <5>3 DEF b
      <4> QED BY <4>1
    <3>4. k \notin DOMAIN buckets => \A i \in DOMAIN s : s[i] + Interval <= now + 1
      BY <2>2, <3>0, <3>1, <1>0 DEF KeyInv
    <3> QED BY <2>2, <3>2, <3>3, <3>4 DEF KeyInv
  <2>3. LimitersCount'
    BY <2>1, <2>2, <1>0 DEF LimitersCount
  <2>4. RefusalsEarned'
    BY <2>1 DEF RateInv, RefusalsEarned
  <2> QED BY <2>3, <2>4 DEF RateInv
<1>4. CASE RelayRestarts
  <2>1. /\ now' = now /\ limiters' = [w \in Which |-> NewRateLimiter] /\ refused' = {}
        /\ passed' = [w \in Which |-> [k \in BucketKeys |-> <<>>]]
    BY <1>4, Zenon DEF RelayRestarts
  <2>2. IsLimiter(NewRateLimiter) /\ DOMAIN NewRateLimiter.buckets = {}
    BY DEF NewRateLimiter, NoBuckets, IsLimiter
  <2>3. \A k : KeyInv(NewRateLimiter.buckets, <<>>, k, now)
    BY <2>2 DEF KeyInv, Ordered, Spaced
  <2> QED BY <2>1, <2>2, <2>3, <1>0 DEF RateInv, LimitersCount, RefusalsEarned
<1>5. CASE \/ \E i \in Installs, k \in Keys, s \in Skews : Sign(i, k, s)
           \/ \E m \in DOMAIN messages : HandlerActivates(m)
           \/ \E c \in Claims, cap \in Capabilities : SubmitPairingClaim(c, cap)
           \/ \E c \in Claims, st \in {"approved", "rejected"} : CompletePairingClaim(c, st)
           \/ \E p \in Pollers, c \in Claims, cap \in Capabilities : PollPairingResult(p, c, cap)
           \/ \E p \in Pollers : AnswerPoll(p)
           \/ ListPairingClaims \/ UNCHANGED routesVars
  <2>1. UNCHANGED <<now, limiters, passed, refused>>
    BY <1>5, Zenon
    DEF Sign, HandlerActivates, SubmitPairingClaim, CompletePairingClaim, PollPairingResult,
       AnswerPoll, ListPairingClaims, routesVars
  <2> QED BY <2>1 DEF RateInv, LimitersCount, RefusalsEarned
<1> QED BY <1>1, <1>2, <1>3, <1>4, <1>5 DEF RoutesNext

(* What is Spaced fits at most 2 * Limit times into an Interval. *)
LEMMA SpacedIsBounded ==
    ASSUME NEW s, NEW u \in Nat, Ordered(s, u), Spaced(s), NEW t \in Int
    PROVE  Cardinality({n \in DOMAIN s : s[n] >= t /\ s[n] < t + Interval}) <= 2 * Limit
<1> DEFINE S == {n \in DOMAIN s : s[n] >= t /\ s[n] < t + Interval}
<1>0. Interval \in Nat \ {0} /\ Limit \in Nat \ {0}
  BY RoutesAssumption
<1>1. s \in Seq(Nat) /\ DOMAIN s = 1 .. Len(s) /\ Len(s) \in Nat /\ \A n \in DOMAIN s : s[n] \in Nat
  BY DEF Ordered
<1>2. CASE S = {}
  <2>1. Cardinality(S) = 0
    BY <1>2, FS_EmptySet
  <2> QED BY <2>1, <1>0
<1>3. CASE S # {}
  <2>1. S \subseteq Nat
    BY <1>1
  <2>2. PICK low \in S : \A y \in S : ~(<<y, low>> \in OpToRel(<, Nat))
    BY <1>3, <2>1, WFMin, NatLessThanWellFounded
  <2>3. \A y \in S : low <= y
    <3>1. ASSUME NEW y \in S, y < low PROVE FALSE
      <4>1. <<y, low>> \in Nat \X Nat
        BY <2>1
      <4>2. <<y, low>> \in OpToRel(<, Nat)
        BY <3>1, <4>1 DEF OpToRel
      <4> QED BY <2>2, <4>2
    <3> QED BY <3>1, <2>1
  <2> DEFINE top == low + 2 * Limit - 1
  <2>4. low \in Nat /\ top \in Int /\ low \in DOMAIN s
    BY <2>1, <1>0
  <2>5. ASSUME NEW y \in S PROVE y \in low .. top
    <3>1. y \in Nat /\ low <= y /\ y \in DOMAIN s /\ s[y] \in Nat /\ s[low] \in Nat
      BY <2>1, <2>3, <1>1, <2>4
    <3>2. s[y] < t + Interval /\ s[low] >= t
      OBVIOUS
    <3>3. ~(low + 2 * Limit <= y)
      BY <3>1, <3>2, <2>4, <1>0 DEF Spaced
    <3> QED BY <3>1, <3>3, <2>4, <1>0
  <2>6. IsFiniteSet(low .. top) /\ Cardinality(low .. top) = 2 * Limit
    <3>1. ~(low > top) /\ (top - low) + 1 = 2 * Limit
      BY <2>4, <1>0
    <3> HIDE DEF top, S
    <3>2. low \in Int /\ top \in Int
      BY <2>4
    <3>3. IsFiniteSet(low .. top) /\ Cardinality(low .. top) = IF low > top THEN 0 ELSE top - low + 1
      BY <3>2, FS_Interval, Zenon
    <3> QED BY <3>1, <3>3
  <2> HIDE DEF S, top
  <2>7. S \in SUBSET (low .. top)
    BY <2>5
  <2>8. Cardinality(S) <= Cardinality(low .. top)
    BY <2>6, <2>7, FS_Subset
  <2> QED BY <2>6, <2>8 DEF S
<1> QED BY <1>2, <1>3

LEMMA ReachedIsEnough ==
    ASSUME NEW s, NEW u \in Nat, Ordered(s, u), NEW t \in Nat, Reached(s, t)
    PROVE  Cardinality({n \in DOMAIN s : s[n] >= (t + 1) - Interval /\ s[n] < ((t + 1) - Interval) + Interval}) >= Limit
<1> DEFINE S == {n \in DOMAIN s : s[n] >= (t + 1) - Interval /\ s[n] < ((t + 1) - Interval) + Interval}
<1>0. Interval \in Nat \ {0} /\ Limit \in Nat \ {0}
  BY RoutesAssumption
<1>1. s \in Seq(Nat) /\ DOMAIN s = 1 .. Len(s) /\ Len(s) \in Nat /\ \A n \in DOMAIN s : s[n] \in Nat
  BY DEF Ordered
<1>2. PICK n \in 0 .. Len(s) :
           /\ n + Limit <= Len(s)
           /\ \A a \in DOMAIN s : n < a /\ a <= n + Limit => t < s[a] + Interval /\ s[a] <= t
  BY DEF Reached
<1> DEFINE run == (n + 1) .. (n + Limit)
<1>3. ASSUME NEW a \in run PROVE a \in S
  <2>1. a \in Nat /\ n < a /\ a <= n + Limit /\ a \in DOMAIN s
    BY <1>0, <1>1, <1>2
  <2>2. t < s[a] + Interval /\ s[a] <= t /\ s[a] \in Nat
    BY <2>1, <1>1, <1>2
  <2>3. s[a] >= (t + 1) - Interval /\ s[a] < ((t + 1) - Interval) + Interval
    BY <2>2, <1>0
  <2> QED BY <2>1, <2>3
<1>4. IsFiniteSet(run) /\ Cardinality(run) = Limit
  BY <1>0, FS_Interval
<1>5. IsFiniteSet(S) /\ Cardinality(S) \in Nat
  <2>1. IsFiniteSet(DOMAIN s)
    BY <1>1, FS_Interval
  <2>2. S \in SUBSET DOMAIN s
    OBVIOUS
  <2>3. IsFiniteSet(S)
    BY <2>1, <2>2, FS_Subset
  <2> QED BY <2>3, FS_CardinalityType
<1> HIDE DEF S, run
<1>6. run \in SUBSET S
  BY <1>3
<1>7. Cardinality(run) <= Cardinality(S)
  BY <1>5, <1>6, FS_Subset
<1>8. Cardinality(S) >= Limit
  BY <1>0, <1>4, <1>5, <1>7
<1> QED BY <1>8 DEF S

LEMMA RatesAreFair == RateInv => RateFair
<1> SUFFICES ASSUME RateInv PROVE RateFair
  OBVIOUS
<1>1. now \in Nat /\ \A w \in Which, k \in BucketKeys : Ordered(passed[w][k], now) /\ Spaced(passed[w][k])
  BY DEF RateInv, LimitersCount, KeyInv
<1>2. ASSUME NEW w \in Which, NEW k \in BucketKeys, NEW t \in 0 .. now
      PROVE  Cardinality(PassedFrom(w, k, t)) <= 2 * Limit
  BY <1>1, SpacedIsBounded DEF PassedFrom
<1>3. ASSUME NEW r \in refused PROVE Cardinality(PassedFrom(r.w, r.key, (r.at + 1) - Interval)) >= Limit
  <2>1. r.w \in Which /\ r.key \in BucketKeys /\ r.at \in Nat /\ Reached(passed[r.w][r.key], r.at)
    BY DEF RateInv, RefusalsEarned
  <2> QED BY <1>1, <2>1, ReachedIsEnough DEF PassedFrom
<1> QED BY <1>2, <1>3 DEF RateFair

(* What the relay decides for its clients holds together in every           *)
(* behaviour: no key is let through more than 2 * Limit times in an         *)
(* Interval and none is refused before it used its Limit (RateLimiter.Allow *)
(* with its clean-up), each activated route has one owner whose key signed  *)
(* its credential (Store.ActivateRoute), and every poll of a pairing claim  *)
(* is told the Mac's first decision (the pairing-claim handlers).           *)
THEOREM RelayRoutesSound == RoutesSpec => []RoutesSound
<1>1. RoutesInit => MessageTypes /\ AcceptedOnce /\ BindingInv /\ ClaimInv /\ RateInv
  BY ActivationInit, BindingInit, ClaimInit, RateInit DEF ActivationInv
<1>2. MessageTypes /\ AcceptedOnce /\ BindingInv /\ ClaimInv /\ RateInv /\ [RoutesNext]_routesVars
      => MessageTypes' /\ AcceptedOnce' /\ BindingInv' /\ ClaimInv' /\ RateInv'
  BY ActivationStep, BindingStep, ClaimStep, RateStep DEF ActivationInv
<1>3. BindingInv /\ ClaimInv /\ RateInv => RoutesSound
  BY BindingsAreSound, RatesAreFair DEF ClaimInv, RoutesSound
<1> QED BY <1>1, <1>2, <1>3, PTL DEF RoutesSpec

-----------------------------------------------------------------------------
(* The trusted device store: it implements the registry, and its token     *)
(* index agrees with its records, for any number of devices, tokens,       *)
(* names, keys and concurrent callers.                                     *)

Tokens(table) == {table[d].token : d \in DOMAIN table}

DistinctTokens(table) ==
    \A d, e \in DOMAIN table : table[d].token = table[e].token => d = e

(* The two maps of a snapshot agree.                                        *)
IndexAgrees(m) ==
    /\ DOMAIN m.byToken = Tokens(m.byID)
    /\ \A t \in DOMAIN m.byToken :
          m.byToken[t] \in DOMAIN m.byID /\ m.byID[m.byToken[t]].token = t

(* A pairing brings a token that no record has.                             *)
FreshFor(table, op) == op.kind = "replace" => op.rec.token \notin Tokens(table)

-----------------------------------------------------------------------------
(* The operators on tables.                                                 *)

(* A table is a function from some devices to records.                      *)
LEMMA TableShape ==
    ASSUME NEW f
    PROVE  f \in Tables <=> /\ f = [d \in DOMAIN f |-> f[d]]
                            /\ DOMAIN f \subseteq Devices
                            /\ \A d \in DOMAIN f : f[d] \in DeviceRecord
<1>1. ASSUME f \in Tables
      PROVE  /\ f = [d \in DOMAIN f |-> f[d]]
             /\ DOMAIN f \subseteq Devices
             /\ \A d \in DOMAIN f : f[d] \in DeviceRecord
  <2>1. PICK S \in SUBSET Devices : f \in [S -> DeviceRecord]
    BY <1>1 DEF Tables
  <2> QED BY <2>1
<1>2. ASSUME f = [d \in DOMAIN f |-> f[d]], DOMAIN f \subseteq Devices,
             \A d \in DOMAIN f : f[d] \in DeviceRecord
      PROVE  f \in Tables
  <2>1. f \in [DOMAIN f -> DeviceRecord]
    BY <1>2
  <2> QED BY <1>2, <2>1 DEF Tables
<1> QED BY <1>1, <1>2

(* What an accepted change makes of a table, record by record.               *)
LEMMA AppliedShape ==
    ASSUME NEW table \in Tables, NEW op \in Operations, Accepts(table, op)
    PROVE  /\ Applied(table, op) \in Tables
           /\ op.device \in DOMAIN Applied(table, op)
           /\ \A d \in DOMAIN Applied(table, op) \ {op.device} :
                 /\ d \in DOMAIN table
                 /\ Applied(table, op)[d] = table[d]
                 /\ op.kind = "replace" => d \notin SameDevice(table, op)
           /\ \A d \in DOMAIN table \ {op.device} :
                 \/ d \in DOMAIN Applied(table, op)
                 \/ op.kind = "replace" /\ d \in SameDevice(table, op)
           /\ op.kind \in {"add", "replace"} => Applied(table, op)[op.device] = op.rec
           /\ op.kind \notin {"add", "replace"} =>
                 /\ op.device \in DOMAIN table
                 /\ Applied(table, op)[op.device].token = table[op.device].token
<1> DEFINE new == Applied(table, op)
<1>0. /\ table = [d \in DOMAIN table |-> table[d]]
      /\ DOMAIN table \subseteq Devices
      /\ \A d \in DOMAIN table : table[d] \in DeviceRecord
  BY TableShape
<1>1. CASE op.kind = "add"
  <2>1. op.device \in Devices /\ op.rec \in DeviceRecord
    BY <1>1 DEF Operations
  <2>2. new = [e \in DOMAIN table \cup {op.device} |->
                  IF e = op.device THEN op.rec ELSE table[e]]
    BY <1>1 DEF Applied, With
  <2>3. new \in Tables
    BY <1>0, <2>1, <2>2, TableShape
  <2> QED BY <1>0, <1>1, <2>2, <2>3
<1>2. CASE op.kind = "replace"
  <2> DEFINE gone == SameDevice(table, op)
  <2>1. op.device \in Devices /\ op.rec \in DeviceRecord
    BY <1>2 DEF Operations
  <2>2. new = With(Without(table, gone), op.device, op.rec)
    BY <1>2 DEF Applied
  <2>3. Without(table, gone) = [e \in DOMAIN table \ gone |-> table[e]]
    BY DEF Without, Restrict
  <2>4. new = [e \in (DOMAIN table \ gone) \cup {op.device} |->
                  IF e = op.device THEN op.rec ELSE table[e]]
    BY <2>2, <2>3 DEF With
  <2>5. new \in Tables
    BY <1>0, <2>1, <2>4, TableShape
  <2>6. gone \subseteq DOMAIN table
    BY DEF SameDevice
  <2> QED BY <1>0, <1>2, <2>4, <2>5, <2>6
<1>3. CASE op.kind \in {"enable", "revoke"}
  <2>1. op.device \in DOMAIN table
    BY <1>3 DEF Accepts
  <2>2. PICK rec \in DeviceRecord :
           /\ rec.token = table[op.device].token
           /\ new = With(table, op.device, rec)
    <3>1. CASE op.kind = "enable"
      <4>1. op.key \in IdentityKeys BY <3>1 DEF Operations
      <4>2. [table[op.device] EXCEPT !.key = op.key] \in DeviceRecord
        BY <1>0, <2>1, <4>1 DEF DeviceRecord
      <4>3. new = With(table, op.device, [table[op.device] EXCEPT !.key = op.key])
        BY <3>1 DEF Applied
      <4> QED BY <1>0, <2>1, <4>2, <4>3 DEF DeviceRecord
    <3>2. CASE op.kind = "revoke"
      <4>1. [table[op.device] EXCEPT !.revoked = TRUE] \in DeviceRecord
        BY <1>0, <2>1 DEF DeviceRecord
      <4>2. new = With(table, op.device, [table[op.device] EXCEPT !.revoked = TRUE])
        BY <3>2 DEF Applied
      <4> QED BY <1>0, <2>1, <4>1, <4>2 DEF DeviceRecord
    <3> QED BY <1>3, <3>1, <3>2
  <2>3. new = [e \in DOMAIN table \cup {op.device} |->
                  IF e = op.device THEN rec ELSE table[e]]
    BY <2>2 DEF With
  <2>4. new \in Tables
    BY <1>0, <2>1, <2>2, <2>3, TableShape
  <2> QED BY <1>0, <1>3, <2>1, <2>2, <2>3, <2>4
<1>4. op.kind \in {"add", "replace", "enable", "revoke"}
  BY DEF Operations
<1> QED BY <1>1, <1>2, <1>3, <1>4

(* A change adds no token but that of a pairing, and keeps tokens distinct.  *)
LEMMA AppliedTokens ==
    ASSUME NEW table \in Tables, NEW op \in Operations, Accepts(table, op),
           op.kind # "add", DistinctTokens(table), FreshFor(table, op)
    PROVE  /\ DistinctTokens(Applied(table, op))
           /\ op.kind = "replace" =>
                 Tokens(Applied(table, op)) \subseteq Tokens(table) \cup {op.rec.token}
           /\ op.kind # "replace" => Tokens(Applied(table, op)) \subseteq Tokens(table)
<1> DEFINE new == Applied(table, op)
<1>1. CASE op.kind = "replace"
  <2>1. \A d \in DOMAIN new : d # op.device => d \in DOMAIN table /\ new[d] = table[d]
    BY AppliedShape
  <2>2. new[op.device] = op.rec
    BY <1>1, AppliedShape
  <2>3. \A d \in DOMAIN table : table[d].token # op.rec.token
    BY <1>1 DEF FreshFor, Tokens
  <2>4. DistinctTokens(new)
    BY <2>1, <2>2, <2>3 DEF DistinctTokens
  <2>5. Tokens(new) \subseteq Tokens(table) \cup {op.rec.token}
    BY <2>1, <2>2 DEF Tokens
  <2> QED BY <1>1, <2>4, <2>5
<1>2. CASE op.kind # "replace"
  <2>1. \A d \in DOMAIN new : d \in DOMAIN table /\ new[d].token = table[d].token
    BY <1>2, AppliedShape
  <2>2. DistinctTokens(new)
    BY <2>1 DEF DistinctTokens
  <2>3. Tokens(new) \subseteq Tokens(table)
    BY <2>1 DEF Tokens
  <2> QED BY <1>2, <2>2, <2>3
<1> QED BY <1>1, <1>2

(* An in-memory change, made on a clone whose index was built anew, changes  *)
(* the records as the operation says and keeps the two maps together.        *)
LEMMA CloneIndex ==
    ASSUME NEW m
    PROVE  /\ CloneSnapshot(m).byID = m.byID
           /\ IndexAgrees(CloneSnapshot(m))
<1>1. \A t \in Tokens(m.byID) : \E d \in DOMAIN m.byID : m.byID[d].token = t
  BY DEF Tokens
<1>2. DOMAIN Index(m.byID) = Tokens(m.byID)
  BY DEF Index, Tokens
<1>3. ASSUME NEW t \in Tokens(m.byID)
      PROVE  /\ Index(m.byID)[t] \in DOMAIN m.byID
             /\ m.byID[Index(m.byID)[t]].token = t
  <2>1. Index(m.byID)[t] = CHOOSE d \in DOMAIN m.byID : m.byID[d].token = t
    BY DEF Index, Tokens
  <2> QED BY <1>1, <2>1
<1> QED BY <1>2, <1>3 DEF CloneSnapshot, IndexAgrees

LEMMA MemAppliedSound ==
    ASSUME NEW m, m.byID \in Tables, NEW op \in Operations, Accepts(m.byID, op),
           op.kind # "add", DistinctTokens(m.byID), FreshFor(m.byID, op)
    PROVE  /\ MemApplied(CloneSnapshot(m), op).byID = Applied(m.byID, op)
           /\ IndexAgrees(MemApplied(CloneSnapshot(m), op))
<1> DEFINE k == CloneSnapshot(m)
           new == Applied(m.byID, op)
           made == MemApplied(k, op)
<1>0. k = [byID |-> m.byID, byToken |-> k.byToken] /\ IndexAgrees(k)
  BY CloneIndex DEF CloneSnapshot
<1> SUFFICES made.byID = new /\ IndexAgrees(made)
  OBVIOUS
<1> HIDE DEF k
<1>1. CASE op.kind = "replace"
  <2> DEFINE gone == SameDevice(m.byID, op)
             dead == {m.byID[d].token : d \in gone}
  <2>1. made = MemAdd([byID |-> Without(m.byID, gone), byToken |-> Without(k.byToken, dead)], op)
    <3>1. made = MemReplace(k, op) BY <1>1 DEF MemApplied
    <3>2. k.byID = m.byID BY <1>0
    <3> QED BY <3>1, <3>2, Zenon DEF MemReplace
  <2>2. made.byID = new
    BY <1>1, <2>1 DEF MemAdd, Applied
  <2>3. made.byToken = [t \in (DOMAIN k.byToken \ dead) \cup {op.rec.token} |->
                           IF t = op.rec.token THEN op.device ELSE k.byToken[t]]
    BY <2>1 DEF MemAdd, With, Without, Restrict
  <2>4. DOMAIN new = (DOMAIN m.byID \ gone) \cup {op.device}
    BY <1>1 DEF Applied, With, Without, Restrict
  <2>5. /\ new[op.device] = op.rec
        /\ \A d \in DOMAIN m.byID \ gone : new[d] = m.byID[d] /\ d # op.device
    BY <1>1, <2>4, AppliedShape DEF SameDevice
  <2>6. gone \subseteq DOMAIN m.byID
    BY DEF SameDevice
  <2>7. \A d \in DOMAIN m.byID : m.byID[d].token \in dead <=> d \in gone
    BY <2>6 DEF DistinctTokens
  <2>8. \A d \in DOMAIN m.byID : m.byID[d].token # op.rec.token
    BY <1>1 DEF FreshFor, Tokens
  <2>9. DOMAIN k.byToken = {m.byID[d].token : d \in DOMAIN m.byID}
    BY <1>0 DEF IndexAgrees, Tokens
  <2>10. DOMAIN made.byToken = Tokens(new)
    <3>1. ASSUME NEW t \in DOMAIN made.byToken PROVE t \in Tokens(new)
      <4>1. CASE t = op.rec.token
        BY <2>4, <2>5, <4>1 DEF Tokens
      <4>2. CASE t # op.rec.token
        <5>1. t \in DOMAIN k.byToken \ dead BY <2>3, <3>1, <4>2
        <5>2. PICK d \in DOMAIN m.byID : t = m.byID[d].token BY <2>9, <5>1
        <5>3. d \in DOMAIN new /\ new[d].token = t
          BY <2>4, <2>5, <2>7, <5>1, <5>2
        <5> QED BY <5>3 DEF Tokens
      <4> QED BY <4>1, <4>2
    <3>2. ASSUME NEW t \in Tokens(new) PROVE t \in DOMAIN made.byToken
      <4>1. PICK d \in DOMAIN new : t = new[d].token BY <3>2 DEF Tokens
      <4> QED BY <2>3, <2>4, <2>5, <2>7, <2>9, <4>1
    <3> QED BY <3>1, <3>2
  <2>11. ASSUME NEW t \in DOMAIN made.byToken
         PROVE  made.byToken[t] \in DOMAIN new /\ new[made.byToken[t]].token = t
    <3>1. CASE t = op.rec.token
      BY <2>3, <2>4, <2>5, <3>1
    <3>2. CASE t # op.rec.token
      <4>1. t \in DOMAIN k.byToken \ dead /\ made.byToken[t] = k.byToken[t]
        BY <2>3, <2>11, <3>2
      <4>2. k.byToken[t] \in DOMAIN m.byID /\ m.byID[k.byToken[t]].token = t
        BY <1>0, <4>1 DEF IndexAgrees
      <4>3. k.byToken[t] \notin gone
        BY <2>7, <4>1, <4>2
      <4> QED BY <2>4, <2>5, <4>1, <4>2, <4>3
    <3> QED BY <3>1, <3>2
  <2> HIDE DEF made, new
  <2> QED BY <2>2, <2>10, <2>11 DEF IndexAgrees
<1>2. CASE op.kind # "replace"
  <2>1. made = [k EXCEPT !.byID = Applied(m.byID, op)]
    BY <1>0, <1>2 DEF MemApplied
  <2>2. made.byID = new /\ made.byToken = k.byToken
    BY <1>0, <2>1
  <2>3. /\ DOMAIN new = DOMAIN m.byID
        /\ \A d \in DOMAIN new : new[d].token = m.byID[d].token
    <3>1. \A d \in DOMAIN new : d \in DOMAIN m.byID /\ new[d].token = m.byID[d].token
      BY <1>2, AppliedShape
    <3>2. \A d \in DOMAIN m.byID : d \in DOMAIN new
      BY <1>2, AppliedShape
    <3> QED BY <3>1, <3>2
  <2> HIDE DEF made, new
  <2>4. Tokens(new) = Tokens(m.byID)
    BY <2>3 DEF Tokens
  <2>5. IndexAgrees(made)
    BY <1>0, <2>2, <2>3, <2>4 DEF IndexAgrees
  <2> QED BY <2>2, <2>5
<1> QED BY <1>1, <1>2

(* Over an index that agrees, ValidateDeviceAuth judges by the records alone. *)
LEMMA ValidateIsVerdict ==
    ASSUME NEW m, IndexAgrees(m), DistinctTokens(m.byID), NEW t, NEW d
    PROVE  ValidateDeviceAuth(m, t, d) = Verdict(m.byID, t, d)
<1> DEFINE owners == {e \in DOMAIN m.byID : m.byID[e].token = t}
<1>1. CASE t \notin DOMAIN m.byToken
  <2>1. owners = {} BY <1>1 DEF IndexAgrees, Tokens
  <2> QED BY <1>1, <2>1 DEF ValidateDeviceAuth, Verdict
<1>2. CASE t \in DOMAIN m.byToken
  <2>1. m.byToken[t] \in DOMAIN m.byID /\ m.byID[m.byToken[t]].token = t
    BY <1>2 DEF IndexAgrees
  <2>2. owners = {m.byToken[t]}
    BY <2>1 DEF DistinctTokens
  <2>3. (CHOOSE e \in owners : TRUE) = m.byToken[t]
    BY <2>2
  <2>4. owners # {} /\ (d \in owners) = (d = m.byToken[t])
    BY <2>2
  <2>5. Verdict(m.byID, t, d) = Judgement(m.byID[m.byToken[t]], d = m.byToken[t])
    <3>1. Verdict(m.byID, t, d) =
             IF owners = {} THEN "invalid_token"
             ELSE Judgement(m.byID[CHOOSE e \in owners : TRUE], d \in owners)
      BY Zenon DEF Verdict
    <3> HIDE DEF owners
    <3> QED BY <2>3, <2>4, <3>1, Zenon
  <2> QED BY <1>2, <2>1, <2>5, Zenon DEF ValidateDeviceAuth
<1> QED BY <1>1, <1>2

-----------------------------------------------------------------------------
(* The inductive invariant.                                                 *)

Pairs(c) == caller[c].op.kind = "replace"
Commits(c) == caller[c].pc \in {"cloned", "written"}

(* The snapshot's records have distinct tokens, which were all generated.    *)
SnapshotSound ==
    /\ Tokens(mem.byID) \subseteq minted
    /\ DistinctTokens(mem.byID)
    /\ IndexAgrees(mem)

(* The token of a pairing under way is its own until it is committed.        *)
PendingTokens ==
    /\ \A c \in Callers : Pairs(c) =>
          caller[c].op.rec.token \in minted \ Tokens(mem.byID)
    /\ \A c, e \in Callers :
          Pairs(c) /\ Pairs(e) /\ caller[c].op.rec.token = caller[e].op.rec.token => c = e

(* A caller has a change under way exactly when it is not idle.              *)
CallsSound ==
    \A c \in Callers :
        /\ caller[c].pc = "idle" <=> caller[c].op = NoOp
        /\ caller[c].op.kind # "add"

(* commitMu is held by the one caller that clones, writes and swaps.         *)
LockSound ==
    /\ \A c \in Callers : c \in commitMu <=> Commits(c)
    /\ \A c, e \in commitMu : c = e

(* The clone is the snapshot with the holder's change, and the file is one   *)
(* of the two.                                                              *)
CopySound ==
    \A c \in commitMu :
        /\ Accepts(mem.byID, caller[c].op)
        /\ copy.byID = Applied(mem.byID, caller[c].op)
        /\ IndexAgrees(copy)

FileSound ==
    /\ \A c \in commitMu :
          file = IF caller[c].pc = "written" THEN copy.byID ELSE mem.byID
    /\ commitMu = {} => file = mem.byID

StoreInv ==
    /\ StoreTypeOK
    /\ SnapshotSound
    /\ PendingTokens
    /\ CallsSound
    /\ LockSound
    /\ CopySound
    /\ FileSound

CallerStates ==
    [pc : {"idle", "provisions", "waits", "cloned", "written"},
     op : Operations \cup {NoOp},
     answer : {"none", "ok", "error", "accepted", "revoked", "invalid_token"}]

(* A caller starts a change: a pairing with a token never seen, or another.  *)
LEMMA RequestKeeps ==
    ASSUME StoreInv, NEW c \in Callers, NEW op \in Operations, op.kind # "add",
           NEW pc \in {"waits", "provisions"},
           caller[c].pc = "idle",
           caller' = [caller EXCEPT ![c] = [pc |-> pc, op |-> op, answer |-> "none"]],
           minted \subseteq minted',
           op.kind = "replace" => op.rec.token \in minted' \ minted,
           upgradeMu' \subseteq Callers,
           UNCHANGED <<mem, file, copy, commitMu>>
    PROVE  StoreInv'
<1>0. /\ caller'[c] = [pc |-> pc, op |-> op, answer |-> "none"]
      /\ \A e \in Callers : e # c => caller'[e] = caller[e]
  BY DEF StoreInv, StoreTypeOK
<1>1. StoreTypeOK'
  BY DEF StoreInv, StoreTypeOK
<1>2. SnapshotSound'
  BY DEF StoreInv, SnapshotSound
<1>3. PendingTokens'
  <2>1. ASSUME NEW e \in Callers, Pairs(e)'
        PROVE  caller'[e].op.rec.token \in minted' \ Tokens(mem'.byID)
    BY <1>0, <2>1 DEF StoreInv, PendingTokens, SnapshotSound, Pairs
  <2>2. ASSUME NEW e \in Callers, NEW f \in Callers, Pairs(e)', Pairs(f)',
               caller'[e].op.rec.token = caller'[f].op.rec.token
        PROVE  e = f
    BY <1>0, <2>2 DEF StoreInv, PendingTokens, Pairs
  <2> QED BY <2>1, <2>2 DEF PendingTokens
<1>4. CallsSound'
  <2>1. op # NoOp BY DEF Operations, NoOp
  <2> QED BY <1>0, <2>1 DEF StoreInv, CallsSound
<1>5. c \notin commitMu
  BY DEF StoreInv, LockSound, Commits
<1>6. LockSound'
  BY <1>0, <1>5 DEF StoreInv, LockSound, Commits
<1>7. CopySound' /\ FileSound'
  BY <1>0, <1>5 DEF StoreInv, CopySound, FileSound
<1> QED BY <1>1, <1>2, <1>3, <1>4, <1>6, <1>7 DEF StoreInv

(* A caller that does not hold commitMu gives its change up, or only changes *)
(* where it is before the commit.                                           *)
LEMMA AsideKeeps ==
    ASSUME StoreInv, NEW c \in Callers, c \notin commitMu,
           caller' = [caller EXCEPT ![c] = caller'[c]],
           caller'[c] \in CallerStates,
           \/ caller'[c].pc = "idle" /\ caller'[c].op = NoOp
           \/ caller'[c].pc = "waits" /\ caller[c].pc # "idle" /\ caller'[c].op = caller[c].op,
           upgradeMu' \subseteq Callers,
           UNCHANGED <<mem, file, copy, commitMu, minted>>
    PROVE  StoreInv'
<1>0. \A e \in Callers : e # c => caller'[e] = caller[e]
  BY DEF StoreInv, StoreTypeOK
<1>1. StoreTypeOK'
  BY DEF StoreInv, StoreTypeOK, CallerStates
<1>2. SnapshotSound'
  BY DEF StoreInv, SnapshotSound
<1>3. \A e \in Callers : Pairs(e)' => Pairs(e) /\ caller'[e].op = caller[e].op
  BY <1>0 DEF Pairs, NoOp
<1>4. PendingTokens'
  BY <1>3 DEF StoreInv, PendingTokens
<1>5. CallsSound'
  BY <1>0 DEF StoreInv, CallsSound, NoOp
<1>6. LockSound'
  BY <1>0 DEF StoreInv, LockSound, Commits
<1>7. CopySound' /\ FileSound'
  <2>1. \A e \in commitMu : caller'[e] = caller[e]
    BY <1>0 DEF StoreInv, StoreTypeOK
  <2> QED BY <2>1 DEF StoreInv, CopySound, FileSound
<1> QED BY <1>1, <1>2, <1>4, <1>5, <1>6, <1>7 DEF StoreInv

(* commit clones the snapshot and changes the clone.                         *)
LEMMA CloneKeeps ==
    ASSUME StoreInv, NEW c \in Callers, CommitClones(c)
    PROVE  StoreInv'
<1> DEFINE op == caller[c].op
<1>0. /\ caller[c].pc = "waits" /\ commitMu = {}
      /\ UNCHANGED <<mem, file, asked, minted>>
  BY DEF CommitClones
<1>1. op \in Operations /\ op.kind # "add" /\ caller[c] \in CallerStates
  BY <1>0 DEF StoreInv, StoreTypeOK, CallsSound, CallerStates
<1>2. CASE ~Accepts(mem.byID, op)
  <2>1. /\ caller' = [caller EXCEPT ![c] = [Idle EXCEPT !.answer = "error"]]
        /\ upgradeMu' = upgradeMu \ {c}
        /\ UNCHANGED <<copy, commitMu>>
    BY <1>2 DEF CommitClones, Ends
  <2>2. caller'[c] = [pc |-> "idle", op |-> NoOp, answer |-> "error"]
    BY <2>1 DEF Idle, StoreInv, StoreTypeOK
  <2>3. caller'[c] \in CallerStates /\ caller' = [caller EXCEPT ![c] = caller'[c]]
    <3>1. caller'[c] \in CallerStates BY <2>2 DEF CallerStates
    <3>2. caller' = [caller EXCEPT ![c] = caller'[c]]
      BY <2>1 DEF StoreInv, StoreTypeOK
    <3> QED BY <3>1, <3>2
  <2>4. upgradeMu' \subseteq Callers
    BY <2>1 DEF StoreInv, StoreTypeOK
  <2>5. c \notin commitMu /\ caller'[c].pc = "idle" /\ caller'[c].op = NoOp
    BY <1>0, <2>2
  <2> HIDE DEF op
  <2> QED BY <1>0, <2>1, <2>3, <2>4, <2>5, AsideKeeps
<1>3. CASE Accepts(mem.byID, op)
  <2>1. /\ copy' = MemApplied(CloneSnapshot(mem), op)
        /\ commitMu' = {c}
        /\ caller' = [caller EXCEPT ![c].pc = "cloned"]
        /\ upgradeMu' = upgradeMu
    BY <1>3 DEF CommitClones
  <2>2. FreshFor(mem.byID, op)
    BY DEF FreshFor, StoreInv, PendingTokens, Pairs
  <2>3. mem.byID \in Tables /\ DistinctTokens(mem.byID)
    BY DEF StoreInv, StoreTypeOK, SnapshotSound
  <2>4. copy'.byID = Applied(mem.byID, op) /\ IndexAgrees(copy')
    BY <1>1, <1>3, <2>1, <2>2, <2>3, MemAppliedSound
  <2>5. copy'.byID \in Tables
    BY <1>1, <1>3, <2>3, <2>4, AppliedShape
  <2>6. /\ caller'[c] = [caller[c] EXCEPT !.pc = "cloned"]
        /\ caller'[c].pc = "cloned" /\ caller'[c].op = op
        /\ \A e \in Callers : e # c => caller'[e] = caller[e]
    BY <1>1, <2>1 DEF StoreInv, StoreTypeOK, CallerStates
  <2>7. StoreTypeOK'
    BY <1>0, <1>1, <2>1, <2>5 DEF StoreInv, StoreTypeOK
  <2>8. SnapshotSound'
    BY <1>0 DEF StoreInv, SnapshotSound
  <2>9. \A e \in Callers : caller'[e].op = caller[e].op
    BY <2>6
  <2>10. PendingTokens'
    BY <1>0, <2>9 DEF StoreInv, PendingTokens, Pairs
  <2>11. CallsSound'
    <3>1. op # NoOp BY <1>0 DEF StoreInv, CallsSound
    <3>2. ASSUME NEW e \in Callers
          PROVE  /\ caller'[e].pc = "idle" <=> caller'[e].op = NoOp
                 /\ caller'[e].op.kind # "add"
      BY <1>1, <2>6, <3>1 DEF StoreInv, CallsSound
    <3> QED BY <3>2 DEF CallsSound
  <2>12. LockSound'
    BY <1>0, <2>1, <2>6 DEF StoreInv, LockSound, Commits
  <2>13. CopySound' /\ FileSound'
    BY <1>0, <1>3, <2>1, <2>4, <2>6 DEF StoreInv, CopySound, FileSound
  <2> QED BY <2>7, <2>8, <2>10, <2>11, <2>12, <2>13 DEF StoreInv
<1> QED BY <1>2, <1>3

(* The holder of commitMu swaps the snapshot.                                *)
LEMMA SwapKeeps ==
    ASSUME StoreInv, NEW c \in Callers, CommitSwaps(c)
    PROVE  StoreInv'
<1> DEFINE op == caller[c].op
<1>0. /\ caller[c].pc = "written" /\ mem' = copy /\ commitMu' = {}
      /\ caller' = [caller EXCEPT ![c] = [Idle EXCEPT !.answer = "ok"]]
      /\ upgradeMu' = upgradeMu \ {c}
      /\ UNCHANGED <<file, copy, asked, minted>>
  BY DEF CommitSwaps, Ends
<1>1. /\ caller'[c] = [pc |-> "idle", op |-> NoOp, answer |-> "ok"]
      /\ \A e \in Callers : e # c => caller'[e] = caller[e]
  BY <1>0 DEF Idle, StoreInv, StoreTypeOK
<1>2. commitMu = {c}
  BY <1>0 DEF StoreInv, StoreTypeOK, LockSound, Commits
<1>3. /\ Accepts(mem.byID, op) /\ copy.byID = Applied(mem.byID, op)
      /\ IndexAgrees(copy) /\ file = copy.byID
  BY <1>0, <1>2 DEF StoreInv, CopySound, FileSound
<1>4. /\ op \in Operations /\ op.kind # "add" /\ FreshFor(mem.byID, op)
      /\ mem.byID \in Tables /\ DistinctTokens(mem.byID)
  <2>1. op \in Operations /\ op.kind # "add"
    BY <1>0 DEF StoreInv, StoreTypeOK, CallsSound
  <2> QED BY <2>1 DEF StoreInv, StoreTypeOK, SnapshotSound, FreshFor, PendingTokens, Pairs
<1>5. /\ DistinctTokens(copy.byID)
      /\ op.kind = "replace" => Tokens(copy.byID) \subseteq Tokens(mem.byID) \cup {op.rec.token}
      /\ op.kind # "replace" => Tokens(copy.byID) \subseteq Tokens(mem.byID)
  BY <1>3, <1>4, AppliedTokens
<1>6. StoreTypeOK'
  <2>1. caller' \in [Callers -> CallerStates]
    BY <1>0, <1>1 DEF StoreInv, StoreTypeOK, CallerStates
  <2> QED BY <1>0, <2>1 DEF StoreInv, StoreTypeOK, CallerStates
<1>7. SnapshotSound'
  BY <1>0, <1>3, <1>5 DEF StoreInv, SnapshotSound, PendingTokens, Pairs
<1>8. \A e \in Callers : Pairs(e)' => e # c /\ Pairs(e) /\ caller'[e].op = caller[e].op
  BY <1>1 DEF Pairs, NoOp
<1>9. PendingTokens'
  BY <1>0, <1>5, <1>8 DEF StoreInv, PendingTokens, Pairs
<1>10. CallsSound'
  BY <1>1 DEF StoreInv, CallsSound, NoOp
<1>11. LockSound'
  BY <1>0, <1>1, <1>2 DEF StoreInv, LockSound, Commits
<1>12. CopySound' /\ FileSound'
  BY <1>0, <1>3 DEF CopySound, FileSound
<1> QED BY <1>6, <1>7, <1>9, <1>10, <1>11, <1>12 DEF StoreInv

(* A death of the process leaves what the file holds: the old or the new     *)
(* records of the commit under way.                                          *)
LEMMA FileTokens ==
    ASSUME StoreInv
    PROVE  /\ Tokens(file) \subseteq minted
           /\ DistinctTokens(file)
<1>1. CASE file = mem.byID
  BY <1>1 DEF StoreInv, SnapshotSound
<1>2. ASSUME NEW c \in commitMu, file = copy.byID
      PROVE  Tokens(file) \subseteq minted /\ DistinctTokens(file)
  <2> DEFINE op == caller[c].op
  <2>0. c \in Callers /\ caller[c].pc # "idle"
    BY <1>2 DEF StoreInv, StoreTypeOK, LockSound, Commits
  <2>1. op \in Operations /\ op.kind # "add"
    BY <2>0 DEF StoreInv, StoreTypeOK, CallsSound
  <2>2. /\ FreshFor(mem.byID, op) /\ mem.byID \in Tables /\ DistinctTokens(mem.byID)
        /\ Accepts(mem.byID, op) /\ file = Applied(mem.byID, op)
    BY <1>2, <2>0 DEF StoreInv, StoreTypeOK, SnapshotSound, FreshFor, PendingTokens, Pairs,
       CopySound
  <2>3. /\ DistinctTokens(file)
        /\ op.kind = "replace" => Tokens(file) \subseteq Tokens(mem.byID) \cup {op.rec.token}
        /\ op.kind # "replace" => Tokens(file) \subseteq Tokens(mem.byID)
    BY <2>1, <2>2, AppliedTokens
  <2> QED BY <2>0, <2>3 DEF StoreInv, SnapshotSound, PendingTokens, Pairs
<1>3. file = mem.byID \/ \E c \in commitMu : file = copy.byID
  BY DEF StoreInv, FileSound
<1> QED BY <1>1, <1>2, <1>3

LEMMA CrashKeeps ==
    ASSUME StoreInv, Crash PROVE StoreInv'
<1>0. /\ mem' = Load /\ commitMu' = {} /\ upgradeMu' = {}
      /\ caller' = [c \in Callers |-> Idle] /\ copy' = NewMemoryDeviceStore
      /\ UNCHANGED <<file, asked, minted>>
  BY DEF Crash
<1>1. mem'.byID = file /\ IndexAgrees(mem')
  <2>1. Load = CloneSnapshot([byID |-> file]) BY DEF Load, CloneSnapshot
  <2> QED BY <1>0, <2>1, CloneIndex
<1>2. \A c \in Callers : caller'[c] = [pc |-> "idle", op |-> NoOp, answer |-> "none"]
  BY <1>0 DEF Idle
<1>3. StoreTypeOK'
  <2>1. copy'.byID \in Tables
    BY <1>0, TableShape DEF NewMemoryDeviceStore, EmptyTable
  <2>2. caller' \in [Callers -> CallerStates]
    BY <1>0 DEF Idle, CallerStates
  <2> QED BY <1>0, <1>1, <2>1, <2>2 DEF StoreInv, StoreTypeOK, CallerStates
<1>4. SnapshotSound'
  BY <1>0, <1>1, FileTokens DEF SnapshotSound
<1>5. PendingTokens' /\ CallsSound' /\ LockSound'
  BY <1>0, <1>2 DEF PendingTokens, Pairs, NoOp, CallsSound, LockSound, Commits
<1>6. CopySound' /\ FileSound'
  BY <1>0, <1>1 DEF CopySound, FileSound
<1> QED BY <1>3, <1>4, <1>5, <1>6 DEF StoreInv

LEMMA StoreInvStep == StoreInv /\ [StoreNext]_storeVars => StoreInv'
<1> SUFFICES ASSUME StoreInv, [StoreNext]_storeVars PROVE StoreInv'
  OBVIOUS
<1>1. CASE UNCHANGED storeVars
  BY <1>1 DEF storeVars, StoreInv, StoreTypeOK, SnapshotSound, PendingTokens, Pairs,
     CallsSound, LockSound, Commits, CopySound, FileSound
<1>2. ASSUME NEW c \in Callers, ReplaceDevice(c) PROVE StoreInv'
  <2>1. PICK d \in Devices, t \in DeviceTokens \ minted, n \in DeviceNames,
             k \in IdentityKeys \cup {NoKey} :
           /\ DeviceRequests(c, [kind |-> "replace", device |-> d,
                  rec |-> [token |-> t, name |-> n, key |-> k, revoked |-> FALSE]])
           /\ minted' = minted \cup {t}
    BY <1>2 DEF ReplaceDevice
  <2> DEFINE op == [kind |-> "replace", device |-> d,
                    rec |-> [token |-> t, name |-> n, key |-> k, revoked |-> FALSE]]
  <2>2. op \in Operations
    BY DEF Operations, DeviceRecord
  <2>3. op.kind # "add" /\ op.rec.token = t
    OBVIOUS
  <2>4. /\ caller[c].pc = "idle"
        /\ caller' = [caller EXCEPT ![c] = [pc |-> "waits", op |-> op, answer |-> "none"]]
        /\ UNCHANGED <<mem, file, copy, commitMu, upgradeMu>>
    BY <2>1 DEF DeviceRequests
  <2>5. upgradeMu' \subseteq Callers
    BY <2>4 DEF StoreInv, StoreTypeOK
  <2> HIDE DEF op
  <2> QED BY <2>1, <2>2, <2>3, <2>4, <2>5, RequestKeeps
<1>3. ASSUME NEW c \in Callers, HandleRevokeDevice(c) PROVE StoreInv'
  <2>1. PICK d \in Devices :
           DeviceRequests(c, [kind |-> "revoke", device |-> d]) /\ UNCHANGED minted
    BY <1>3 DEF HandleRevokeDevice
  <2> DEFINE op == [kind |-> "revoke", device |-> d]
  <2>2. op \in Operations /\ op.kind \notin {"add", "replace"}
    BY DEF Operations
  <2>3. /\ caller[c].pc = "idle"
        /\ caller' = [caller EXCEPT ![c] = [pc |-> "waits", op |-> op, answer |-> "none"]]
        /\ UNCHANGED <<mem, file, copy, commitMu, upgradeMu>>
    BY <2>1 DEF DeviceRequests
  <2>4. upgradeMu' \subseteq Callers
    BY <2>3 DEF StoreInv, StoreTypeOK
  <2> HIDE DEF op
  <2> QED BY <2>1, <2>2, <2>3, <2>4, RequestKeeps
<1>4. ASSUME NEW c \in Callers, HandleRelayUpgrade(c) PROVE StoreInv'
  <2>1. PICK d \in DOMAIN mem.byID, k \in IdentityKeys :
           /\ caller[c].pc = "idle"
           /\ upgradeMu' = {c}
           /\ caller' = [caller EXCEPT ![c] =
                  [pc |-> "provisions", op |-> [kind |-> "enable", device |-> d, key |-> k],
                   answer |-> "none"]]
           /\ UNCHANGED <<mem, file, copy, commitMu, minted>>
    BY <1>4 DEF HandleRelayUpgrade
  <2> DEFINE op == [kind |-> "enable", device |-> d, key |-> k]
  <2>2. d \in Devices
    BY TableShape DEF StoreInv, StoreTypeOK
  <2>3. op \in Operations /\ op.kind \notin {"add", "replace"}
    BY <2>2 DEF Operations
  <2> HIDE DEF op
  <2> QED BY <2>1, <2>3, RequestKeeps DEF op
<1>5. ASSUME NEW c \in Callers, Provisioned(c) PROVE StoreInv'
  <2>1. /\ caller[c].pc = "provisions"
        /\ UNCHANGED <<mem, file, copy, commitMu, asked, minted>>
    BY <1>5 DEF Provisioned
  <2>2. caller[c] \in CallerStates /\ c \notin commitMu
    BY <2>1 DEF StoreInv, StoreTypeOK, CallerStates, LockSound, Commits
  <2>3. CASE caller' = [caller EXCEPT ![c].pc = "waits"] /\ UNCHANGED upgradeMu
    <3>1. /\ caller'[c] \in CallerStates
          /\ caller'[c].pc = "waits" /\ caller'[c].op = caller[c].op
      BY <2>2, <2>3 DEF StoreInv, StoreTypeOK, CallerStates
    <3>2. caller' = [caller EXCEPT ![c] = caller'[c]]
      BY <2>3 DEF StoreInv, StoreTypeOK
    <3>3. upgradeMu' \subseteq Callers
      BY <2>3 DEF StoreInv, StoreTypeOK
    <3> QED BY <2>1, <2>2, <3>1, <3>2, <3>3, AsideKeeps
  <2>4. CASE Ends(c, "error") /\ upgradeMu' = {}
    <3>1. caller'[c] = [pc |-> "idle", op |-> NoOp, answer |-> "error"]
      BY <2>4 DEF Ends, Idle, StoreInv, StoreTypeOK
    <3>2. caller'[c] \in CallerStates BY <3>1 DEF CallerStates
    <3>3. caller' = [caller EXCEPT ![c] = caller'[c]]
      BY <2>4 DEF Ends, StoreInv, StoreTypeOK
    <3>4. caller'[c].pc = "idle" /\ caller'[c].op = NoOp BY <3>1
    <3> QED BY <2>1, <2>2, <2>4, <3>2, <3>3, <3>4, AsideKeeps
  <2> QED BY <1>5, <2>3, <2>4 DEF Provisioned
<1>6. ASSUME NEW c \in Callers, CommitWrites(c) PROVE StoreInv'
  <2>1. /\ caller[c].pc = "cloned" /\ file' = copy.byID
        /\ caller' = [caller EXCEPT ![c].pc = "written"]
        /\ UNCHANGED <<mem, copy, commitMu, upgradeMu, asked, minted>>
    BY <1>6 DEF CommitWrites
  <2>2. caller[c] \in CallerStates /\ caller[c].op # NoOp /\ commitMu = {c}
    BY <2>1 DEF StoreInv, StoreTypeOK, CallerStates, LockSound, Commits, CallsSound
  <2>3. /\ caller'[c].pc = "written" /\ caller'[c].op = caller[c].op
        /\ \A e \in Callers : e # c => caller'[e] = caller[e]
    BY <2>1, <2>2 DEF StoreInv, StoreTypeOK, CallerStates
  <2>4. \A e \in Callers : caller'[e].op = caller[e].op
    BY <2>3
  <2>5. StoreTypeOK'
    BY <2>1, <2>2 DEF StoreInv, StoreTypeOK, CallerStates
  <2>6. SnapshotSound' /\ PendingTokens'
    BY <2>1, <2>4 DEF StoreInv, SnapshotSound, PendingTokens, Pairs
  <2>7. CallsSound'
    BY <2>2, <2>3 DEF StoreInv, CallsSound
  <2>8. LockSound'
    BY <2>1, <2>2, <2>3 DEF StoreInv, LockSound, Commits
  <2>9. CopySound' /\ FileSound'
    BY <2>1, <2>2, <2>3 DEF StoreInv, CopySound, FileSound
  <2> QED BY <2>5, <2>6, <2>7, <2>8, <2>9 DEF StoreInv
<1>7. ASSUME NEW c \in Callers, CommitWriteFails(c) PROVE StoreInv'
  <2>1. /\ caller[c].pc = "cloned" /\ commitMu' = {}
        /\ caller' = [caller EXCEPT ![c] = [Idle EXCEPT !.answer = "error"]]
        /\ upgradeMu' = upgradeMu \ {c}
        /\ UNCHANGED <<mem, file, copy, asked, minted>>
    BY <1>7 DEF CommitWriteFails, Ends
  <2>2. commitMu = {c}
    BY <2>1 DEF StoreInv, StoreTypeOK, LockSound, Commits
  <2>3. /\ caller'[c] = [pc |-> "idle", op |-> NoOp, answer |-> "error"]
        /\ \A e \in Callers : e # c => caller'[e] = caller[e]
    BY <2>1 DEF Idle, StoreInv, StoreTypeOK
  <2>4. StoreTypeOK'
    <3>1. caller' \in [Callers -> CallerStates]
      BY <2>1, <2>3 DEF StoreInv, StoreTypeOK, CallerStates
    <3> QED BY <2>1, <3>1 DEF StoreInv, StoreTypeOK, CallerStates
  <2>5. \A e \in Callers : Pairs(e)' => Pairs(e) /\ caller'[e].op = caller[e].op
    BY <2>3 DEF Pairs, NoOp
  <2>6. SnapshotSound' /\ PendingTokens'
    BY <2>1, <2>5 DEF StoreInv, SnapshotSound, PendingTokens
  <2>7. CallsSound'
    BY <2>3 DEF StoreInv, CallsSound, NoOp
  <2>8. LockSound'
    BY <2>1, <2>2, <2>3 DEF StoreInv, LockSound, Commits
  <2>9. CopySound' /\ FileSound'
    BY <2>1, <2>2 DEF StoreInv, CopySound, FileSound
  <2> QED BY <2>4, <2>6, <2>7, <2>8, <2>9 DEF StoreInv
<1>8. ASSUME NEW c \in Callers, Authenticates(c) PROVE StoreInv'
  <2>1. PICK t \in DeviceTokens, d \in Devices :
           /\ caller[c].pc = "idle"
           /\ caller' = [caller EXCEPT ![c].answer = ValidateDeviceAuth(mem, t, d)]
           /\ UNCHANGED <<mem, file, copy, commitMu, upgradeMu, asked, minted>>
    BY <1>8 DEF Authenticates
  <2>2. ValidateDeviceAuth(mem, t, d) \in {"accepted", "revoked", "invalid_token"}
    BY Zenon DEF ValidateDeviceAuth, Judgement
  <2>3. caller[c] \in CallerStates /\ c \notin commitMu /\ caller[c].op = NoOp
    BY <2>1 DEF StoreInv, StoreTypeOK, CallerStates, LockSound, Commits, CallsSound
  <2>4. caller'[c] = [caller[c] EXCEPT !.answer = ValidateDeviceAuth(mem, t, d)]
    BY <2>1 DEF StoreInv, StoreTypeOK
  <2>5. /\ caller'[c] \in CallerStates
        /\ caller'[c].pc = "idle" /\ caller'[c].op = NoOp
    BY <2>1, <2>2, <2>3, <2>4 DEF CallerStates
  <2>6. caller' = [caller EXCEPT ![c] = caller'[c]]
    BY <2>1 DEF StoreInv, StoreTypeOK
  <2>7. upgradeMu' \subseteq Callers
    BY <2>1 DEF StoreInv, StoreTypeOK
  <2> QED BY <2>1, <2>3, <2>5, <2>6, <2>7, AsideKeeps
<1> QED BY <1>1, <1>2, <1>3, <1>4, <1>5, <1>6, <1>7, <1>8, CloneKeeps, SwapKeeps, CrashKeeps
    DEF StoreNext

LEMMA StoreInvInit == StoreInit => StoreInv
<1> SUFFICES ASSUME StoreInit PROVE StoreInv
  OBVIOUS
<1>1. /\ mem.byID = EmptyTable /\ mem.byToken = EmptyTable /\ copy.byID = EmptyTable
      /\ file = EmptyTable /\ commitMu = {} /\ upgradeMu = {} /\ minted = {}
  BY DEF StoreInit, NewMemoryDeviceStore
<1>2. DOMAIN EmptyTable = {} /\ EmptyTable \in Tables
  <2>1. DOMAIN EmptyTable = {} BY DEF EmptyTable
  <2>2. EmptyTable = [d \in DOMAIN EmptyTable |-> EmptyTable[d]] BY DEF EmptyTable
  <2> QED BY <2>1, <2>2, TableShape
<1>3. \A c \in Callers : caller[c] = [pc |-> "idle", op |-> NoOp, answer |-> "none"]
  BY DEF StoreInit, Idle
<1>4. StoreTypeOK
  BY <1>1, <1>2 DEF StoreTypeOK, StoreInit, Idle
<1>5. SnapshotSound
  BY <1>1, <1>2 DEF SnapshotSound, Tokens, DistinctTokens, IndexAgrees
<1>6. PendingTokens /\ CallsSound /\ LockSound
  BY <1>1, <1>3 DEF PendingTokens, Pairs, NoOp, CallsSound, LockSound, Commits
<1>7. CopySound /\ FileSound
  BY <1>1 DEF CopySound, FileSound
<1> QED BY <1>4, <1>5, <1>6, <1>7 DEF StoreInv

LEMMA StoreInvariant == StoreSpec => []StoreInv
BY StoreInvInit, StoreInvStep, PTL DEF StoreSpec

(* The token index of the snapshot and its records agree however many         *)
(* callers pair, upgrade and revoke at a time, with writes that fail and      *)
(* deaths of the process in between: no token of a replaced record is left    *)
(* in the index (trusted_device_store.go, ReplaceDevice and cloneSnapshot).   *)
THEOREM StoreTokenIndexSound == StoreSpec => []TokenIndexSound
<1>1. StoreInv => TokenIndexSound
  BY DEF StoreInv, SnapshotSound, IndexAgrees, TokenIndexSound, Tokens
<1> QED BY <1>1, StoreInvariant, PTL

-----------------------------------------------------------------------------
(* The refinement.  The registry's table is the snapshot; its calls are the   *)
(* callers without their place in the commit.                                 *)

Calls == [c \in Callers |-> [op |-> caller[c].op, answer |-> caller[c].answer]]

(* The operators of the instance are those of DeviceRecords.                  *)
LEMMA SameOperators ==
    /\ Registry!NoOp = NoOp /\ Registry!Operations = Operations
    /\ Registry!EmptyTable = EmptyTable
    /\ \A table, op : Registry!Accepts(table, op) = Accepts(table, op)
    /\ \A table, op : Registry!Applied(table, op) = Applied(table, op)
    /\ \A table, t, d : Registry!Verdict(table, t, d) = Verdict(table, t, d)
<1>1. Registry!NoOp = NoOp /\ Registry!EmptyTable = EmptyTable
  BY DEF Registry!NoOp, NoOp, Registry!EmptyTable, EmptyTable
<1>2. Registry!Operations = Operations
  BY DEF Registry!Operations, Operations, Registry!DeviceRecord, DeviceRecord
<1>3. \A table, op : Registry!Accepts(table, op) = Accepts(table, op)
  BY Zenon DEF Registry!Accepts, Accepts
<1>4. \A table, op : Registry!Applied(table, op) = Applied(table, op)
  BY Zenon DEF Registry!Applied, Applied, Registry!With, With, Registry!Without, Without,
     Registry!SameDevice, SameDevice, Registry!Restrict, Restrict
<1>5. \A table, t, d : Registry!Verdict(table, t, d) = Verdict(table, t, d)
  BY Zenon DEF Registry!Verdict, Verdict, Registry!Judgement, Judgement
<1> QED BY <1>1, <1>2, <1>3, <1>4, <1>5

(* The steps of the registry, over the snapshot and the callers.              *)
LEMMA RegistrySteps ==
    ASSUME NEW c \in Callers
    PROVE  /\ /\ caller[c].op = NoOp /\ Calls'[c].op \in Operations
              /\ Calls' = [Calls EXCEPT ![c] = [op |-> Calls'[c].op, answer |-> "none"]]
              /\ mem'.byID = mem.byID
              => Registry!Ask(c)
           /\ /\ caller[c].op # NoOp /\ Accepts(mem.byID, caller[c].op)
              /\ mem'.byID = Applied(mem.byID, caller[c].op)
              /\ Calls' = [Calls EXCEPT ![c] = [op |-> NoOp, answer |-> "ok"]]
              => Registry!Grant(c)
           /\ /\ caller[c].op # NoOp
              /\ Calls' = [Calls EXCEPT ![c] = [op |-> NoOp, answer |-> "error"]]
              /\ mem'.byID = mem.byID
              => Registry!Decline(c)
           /\ /\ \E t \in DeviceTokens, d \in Devices :
                    Calls' = [Calls EXCEPT ![c].answer = Verdict(mem.byID, t, d)]
              /\ caller[c].op = NoOp
              /\ mem'.byID = mem.byID
              => Registry!Judge(c)
<1>0. Calls[c].op = caller[c].op
  BY DEF Calls
<1>1. /\ caller[c].op = NoOp /\ Calls'[c].op \in Operations
      /\ Calls' = [Calls EXCEPT ![c] = [op |-> Calls'[c].op, answer |-> "none"]]
      /\ mem'.byID = mem.byID
      => Registry!Ask(c)
  BY <1>0, SameOperators, Zenon DEF Registry!Ask, Calls
<1>2. /\ caller[c].op # NoOp /\ Accepts(mem.byID, caller[c].op)
      /\ mem'.byID = Applied(mem.byID, caller[c].op)
      /\ Calls' = [Calls EXCEPT ![c] = [op |-> NoOp, answer |-> "ok"]]
      => Registry!Grant(c)
  BY <1>0, SameOperators, Zenon DEF Registry!Grant, Calls
<1>3. /\ caller[c].op # NoOp
      /\ Calls' = [Calls EXCEPT ![c] = [op |-> NoOp, answer |-> "error"]]
      /\ mem'.byID = mem.byID
      => Registry!Decline(c)
  BY <1>0, SameOperators, Zenon DEF Registry!Decline, Calls
<1>4. /\ \E t \in DeviceTokens, d \in Devices :
            Calls' = [Calls EXCEPT ![c].answer = Verdict(mem.byID, t, d)]
      /\ caller[c].op = NoOp
      /\ mem'.byID = mem.byID
      => Registry!Judge(c)
  BY <1>0, SameOperators, Zenon DEF Registry!Judge, Calls
<1> QED BY <1>1, <1>2, <1>3, <1>4, Zenon

LEMMA CallsUpdate ==
    ASSUME StoreTypeOK, NEW c \in Callers, NEW pc, NEW op, NEW answer,
           caller' = [caller EXCEPT ![c] = [pc |-> pc, op |-> op, answer |-> answer]]
    PROVE  /\ Calls' = [Calls EXCEPT ![c] = [op |-> op, answer |-> answer]]
           /\ Calls'[c].op = op
<1>1. DOMAIN caller = Callers
  BY DEF StoreTypeOK
<1> QED BY <1>1 DEF Calls

(* Every step of the store is a step of the registry or leaves its state.     *)
LEMMA RefinementStep ==
    ASSUME StoreInv, [StoreNext]_storeVars
    PROVE  [Registry!RegistryNext]_(Registry!registryVars)
<1>0. StoreTypeOK /\ DOMAIN caller = Callers
  BY DEF StoreInv, StoreTypeOK
<1>1. ASSUME Calls' = Calls, mem'.byID = mem.byID
      PROVE  UNCHANGED Registry!registryVars
  BY <1>1, Zenon DEF Registry!registryVars, Calls
<1>2. ASSUME NEW c \in Callers,
             Registry!Ask(c) \/ Registry!Grant(c) \/ Registry!Decline(c) \/ Registry!Judge(c)
      PROVE  Registry!RegistryNext
  BY <1>2 DEF Registry!RegistryNext
<1>3. CASE UNCHANGED storeVars
  <2>1. Calls' = Calls /\ mem'.byID = mem.byID
    BY <1>3 DEF storeVars, Calls
  <2> QED BY <1>1, <2>1
<1>4. ASSUME NEW c \in Callers, NEW op \in Operations, DeviceRequests(c, op)
      PROVE  Registry!RegistryNext
  <2>1. /\ caller[c].pc = "idle" /\ mem' = mem
        /\ caller' = [caller EXCEPT ![c] = [pc |-> "waits", op |-> op, answer |-> "none"]]
    BY <1>4 DEF DeviceRequests
  <2>2. /\ Calls' = [Calls EXCEPT ![c] = [op |-> op, answer |-> "none"]]
        /\ Calls'[c].op = op
    BY <1>0, <2>1, CallsUpdate
  <2>3. caller[c].op = NoOp
    BY <2>1 DEF StoreInv, CallsSound
  <2> QED BY <1>2, <2>1, <2>2, <2>3, RegistrySteps
<1>5. ASSUME NEW c \in Callers, ReplaceDevice(c) PROVE Registry!RegistryNext
  <2>1. \E op \in Operations : DeviceRequests(c, op)
    BY <1>5 DEF ReplaceDevice, Operations, DeviceRecord
  <2> QED BY <1>4, <2>1
<1>6. ASSUME NEW c \in Callers, HandleRevokeDevice(c) PROVE Registry!RegistryNext
  <2>1. \E op \in Operations : DeviceRequests(c, op)
    BY <1>6 DEF HandleRevokeDevice, Operations
  <2> QED BY <1>4, <2>1
<1>7. ASSUME NEW c \in Callers, HandleRelayUpgrade(c) PROVE Registry!RegistryNext
  <2>1. PICK d \in DOMAIN mem.byID, k \in IdentityKeys :
           /\ caller[c].pc = "idle" /\ mem' = mem
           /\ caller' = [caller EXCEPT ![c] =
                  [pc |-> "provisions", op |-> [kind |-> "enable", device |-> d, key |-> k],
                   answer |-> "none"]]
    BY <1>7 DEF HandleRelayUpgrade
  <2> DEFINE op == [kind |-> "enable", device |-> d, key |-> k]
  <2>2. d \in Devices
    BY <1>0, TableShape DEF StoreTypeOK
  <2>3. op \in Operations
    BY <2>2 DEF Operations
  <2>4. caller' = [caller EXCEPT ![c] = [pc |-> "provisions", op |-> op, answer |-> "none"]]
    BY <2>1
  <2> HIDE DEF op
  <2>6. /\ Calls' = [Calls EXCEPT ![c] = [op |-> op, answer |-> "none"]]
        /\ Calls'[c].op = op
    BY <1>0, <2>4, CallsUpdate
  <2>5. caller[c].op = NoOp
    BY <2>1 DEF StoreInv, CallsSound
  <2> QED BY <1>2, <2>1, <2>3, <2>5, <2>6, RegistrySteps
<1>8. ASSUME NEW c \in Callers, caller[c].pc # "idle", Ends(c, "error"), mem' = mem
      PROVE  Registry!RegistryNext
  <2>1. caller' = [caller EXCEPT ![c] = [pc |-> "idle", op |-> NoOp, answer |-> "error"]]
    <3>1. [Idle EXCEPT !.answer = "error"] = [pc |-> "idle", op |-> NoOp, answer |-> "error"]
      BY DEF Idle
    <3> QED BY <1>8, <3>1, Zenon DEF Ends
  <2>2. Calls' = [Calls EXCEPT ![c] = [op |-> NoOp, answer |-> "error"]]
    BY <1>0, <2>1, CallsUpdate, ZenonT(60)
  <2>3. caller[c].op # NoOp
    BY <1>8 DEF StoreInv, CallsSound
  <2> QED BY <1>2, <1>8, <2>2, <2>3, RegistrySteps
<1>9. ASSUME NEW c \in Callers, NEW pc, caller' = [caller EXCEPT ![c].pc = pc], mem' = mem
      PROVE  UNCHANGED Registry!registryVars
  <2>1. Calls' = Calls
    BY <1>0, <1>9 DEF StoreTypeOK, Calls
  <2> QED BY <1>1, <1>9, <2>1
<1>10. ASSUME NEW c \in Callers, Provisioned(c)
       PROVE  Registry!RegistryNext \/ UNCHANGED Registry!registryVars
  BY <1>8, <1>9, <1>10 DEF Provisioned
<1>11. ASSUME NEW c \in Callers, CommitClones(c)
       PROVE  Registry!RegistryNext \/ UNCHANGED Registry!registryVars
  BY <1>8, <1>9, <1>11 DEF CommitClones
<1>12. ASSUME NEW c \in Callers, CommitWrites(c)
       PROVE  UNCHANGED Registry!registryVars
  BY <1>9, <1>12 DEF CommitWrites
<1>13. ASSUME NEW c \in Callers, CommitWriteFails(c)
       PROVE  Registry!RegistryNext
  BY <1>8, <1>13 DEF CommitWriteFails
<1>14. ASSUME NEW c \in Callers, CommitSwaps(c) PROVE Registry!RegistryNext
  <2>1. /\ caller[c].pc = "written" /\ mem' = copy
        /\ caller' = [caller EXCEPT ![c] = [pc |-> "idle", op |-> NoOp, answer |-> "ok"]]
    <3>1. [Idle EXCEPT !.answer = "ok"] = [pc |-> "idle", op |-> NoOp, answer |-> "ok"]
      BY DEF Idle
    <3> QED BY <1>14, <3>1, Zenon DEF CommitSwaps, Ends
  <2>2. Calls' = [Calls EXCEPT ![c] = [op |-> NoOp, answer |-> "ok"]]
    BY <1>0, <2>1, CallsUpdate, ZenonT(60)
  <2>3. /\ caller[c].op # NoOp /\ Accepts(mem.byID, caller[c].op)
        /\ copy.byID = Applied(mem.byID, caller[c].op)
    BY <2>1 DEF StoreInv, CallsSound, LockSound, Commits, CopySound
  <2> QED BY <1>2, <2>1, <2>2, <2>3, RegistrySteps
<1>15. ASSUME NEW c \in Callers, Authenticates(c) PROVE Registry!RegistryNext
  <2>1. PICK t \in DeviceTokens, d \in Devices :
           /\ caller[c].pc = "idle" /\ mem' = mem
           /\ caller' = [caller EXCEPT ![c].answer = ValidateDeviceAuth(mem, t, d)]
    BY <1>15 DEF Authenticates
  <2>2. ValidateDeviceAuth(mem, t, d) = Verdict(mem.byID, t, d)
    BY ValidateIsVerdict DEF StoreInv, SnapshotSound
  <2>3. Calls' = [Calls EXCEPT ![c].answer = Verdict(mem.byID, t, d)]
    BY <1>0, <2>1, <2>2 DEF StoreTypeOK, Calls
  <2>4. caller[c].op = NoOp
    BY <2>1 DEF StoreInv, CallsSound
  <2> QED BY <1>2, <2>1, <2>3, <2>4, RegistrySteps
<1>16. CASE Crash
  <2>1. /\ mem'.byID = file
        /\ Calls' = [c \in Callers |-> [op |-> NoOp, answer |-> "none"]]
    BY <1>16 DEF Crash, Load, Idle, Calls
  <2>2. \/ file = mem.byID
        \/ \E c \in Callers : /\ caller[c].op # NoOp
                              /\ Accepts(mem.byID, caller[c].op)
                              /\ file = Applied(mem.byID, caller[c].op)
    BY DEF StoreInv, StoreTypeOK, FileSound, CopySound, LockSound, Commits, CallsSound
  <2>3. \A c \in Callers : Calls[c].op = caller[c].op
    BY DEF Calls
  <2>4. Registry!Restart
    BY <2>1, <2>2, <2>3, SameOperators, Zenon DEF Registry!Restart, Calls
  <2> QED BY <2>4 DEF Registry!RegistryNext
<1> QED BY <1>3, <1>5, <1>6, <1>7, <1>10, <1>11, <1>12, <1>13, <1>14, <1>15, <1>16 DEF StoreNext

(* The store with its file, clones, locks, failed writes and restarts         *)
(* implements the registry: a change answered with success has taken effect   *)
(* and survives, a failed one has not, one cut short by a death of the        *)
(* process took effect wholly or not at all, and a token is judged against    *)
(* one table (trusted_device_store.go, commit and ValidateDeviceAuth).        *)
THEOREM StoreImplementsRegistry == StoreSpec => ImplementsRegistry
<1>1. StoreInit => Registry!RegistryInit
  <2>1. StoreInit => /\ mem.byID = EmptyTable
                     /\ Calls = [c \in Callers |-> [op |-> NoOp, answer |-> "none"]]
    BY DEF StoreInit, NewMemoryDeviceStore, Idle, Calls
  <2> QED BY <2>1, SameOperators, Zenon DEF Registry!RegistryInit, Calls
<1>2. StoreInv /\ [StoreNext]_storeVars => [Registry!RegistryNext]_(Registry!registryVars)
  BY RefinementStep
<1> QED BY <1>1, <1>2, StoreInvariant, PTL
        DEF StoreSpec, ImplementsRegistry, Registry!RegistrySpec
=============================================================================
