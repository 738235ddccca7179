------------------------- MODULE MCOfflineDelivery --------------------------
(* Upload batches that overlap or repeat a prekey, so that retries and        *)
(* refusals occur.  Two sessions route events and the bridge restarts; or one *)
(* session routes alone and the bridge stays up, so that frames are only lost *)
(* with a connection or to a full outbox.                                     *)
EXTENDS OfflineDelivery

CONSTANTS k1, k2, k3, r1, r2

VARIABLE alone

MCBatches == [b1 |-> <<k1, k2>>, b2 |-> <<k2>>, b3 |-> <<k3, k3>>, b4 |-> <<k3>>]

MCInit == Init /\ alone \in BOOLEAN

MCNext ==
    /\ Next
    /\ IF alone THEN router'[r2] = Idle /\ restarts' = 0 ELSE events' < MaxEvents
    /\ UNCHANGED alone

MCSpec == MCInit /\ [][MCNext]_<<vars, alone>> /\ Fairness
=============================================================================
