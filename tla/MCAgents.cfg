CONSTANTS
    Tokens = {a, b}
    MsgIDs = {m1, m2}
    EventCap = 1
    PipeCap = 1
    ClaudeBounds <- MCClaudeBounds
    Kinds = {"codex", "opencode"}
    Prompts = {p1, p2}
    CliClosers = {c1}
    CliEventCap = 1
    CliScenarios <- MCCliScenarios
    Subscribers = {"codex", "opencode"}
    PassiveCap = 1
    NetCap = 1
    MaxText = 2
    MaxTurns = 2
    MaxSteps = 2
    MaxLosses = 1
SPECIFICATION MCSpec
INVARIANTS
    StreamedTextExact
    ResultNotSwallowed
    TurnTextExact
    EveryRunReports
    PassiveTextExact
    ResultsExact
PROPERTIES
    AgentsLetGo
CHECK_DEADLOCK FALSE
