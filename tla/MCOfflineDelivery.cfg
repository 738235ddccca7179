CONSTANTS
    r1 = r1
    r2 = r2
    k1 = k1
    k2 = k2
    k3 = k3
    Routers = {r1, r2}
    Batches <- MCBatches
    MaxPrekeys = 2
    OutboxFrames = 2
    MaxEvents = 4
    MaxRestarts = 1
SPECIFICATION MCSpec
INVARIANTS
    EpochsSound
    FlushExactlyOnce
    ReconcileExact
PROPERTY OutboxDrains
CHECK_DEADLOCK FALSE
