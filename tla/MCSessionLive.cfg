CONSTANTS
    c1 = c1
    c2 = c2
    Clients = {c1, c2}
    Modes <- ClaudeSending
    MaxAgents = 2
    MaxTurns = 3
    MaxRelays = 2
SPECIFICATION LiveSpec
PROPERTY TurnReported
CHECK_DEADLOCK FALSE
