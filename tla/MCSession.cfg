CONSTANTS
    c1 = c1
    c2 = c2
    Clients = {c1, c2}
    Modes <- All
    MaxAgents = 2
    MaxTurns = 3
    MaxRelays = 2
SPECIFICATION Spec
SYMMETRY ClientSymmetry
INVARIANTS
    SendsSound
    FlagHasOwner
CHECK_DEADLOCK FALSE
