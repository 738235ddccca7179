CONSTANTS
    Devices = {d1}
    MaxBytes = 3
    Sizes = {1, 2}
    Limits = {1, 2}
    TTL = 2
    MaxTime = 3
    MaxAppends = 4
SPECIFICATION Spec
INVARIANTS
    NoFrameSkipped
    CursorNamesOneEnvelope
    EvictionIsAPrefix
    WithinCapacity
PROPERTIES
    RevokedServesNothing
