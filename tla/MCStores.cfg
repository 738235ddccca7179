CONSTANTS
    ProjectNames = {p1, p2}
    ProviderNames = {g1, g2}
    Words = {w1}
    Users = {u1}
    Writers = {a, b}
    Formatters = {fmt}
    RawWriters = {raw}
    MaxEdits = 2
    UserKeys = {u1, u2}
    AgentIDs = {a1}
    Savers = {x, y}
    MaxSessions = 2
    MaxChanges = 2
    Closers = {c1}
    Items = {i1}
    AppEventCap = 1
    MaxRequests = 4
    MaxInbound = 1
    MaxNotes = 1
    Backends = {"claudecode", "codex"}
    Reqs = {r1, r2}
    Dirs = {"d1", "d2"}
    Models = {"m1", "m2"}
    Efforts = {"low", "high"}
    ProviderSpecs <- MCProviders
    SettingsEffort = "low"
    OpScenarios <- MCOpScenarios
    HubDevices = {d1}
    Sockets = {s1, s2}
    MacSockets = {b1}
    Sizes = {2}
    HubCap = 3
    MaxHubFrames = 2
    MaxRegistrations = 2
    MaxStarts = 2
    MaxRotations = 1
    MaxFaults = 1
    PageBackends = {"codex", "claude"}
    RecordKinds = {"user", "call", "result"}
    MsgKeys = {"k1"}
    Readers = {r1, r2}
    PageSize = 2
    PageBudget = 1
    AnchorWindow = 1
    LineageDepth = 2
    ByteBudget = 2
    MaxRecords = 3
    MaxFileChanges = 1
    MaxPageRequests = 2
    MaxBridgeRestarts = 1
SPECIFICATION MCSpec
INVARIANTS
    ConfigSound
    RegistrySound
    LoopsNeverSendOnClosed
    MessageOnce
    ProxyFollowsProvider
    SettingsTakeEffect
    HubSound
    BootSound
    WalkExact
    NoStitching
CHECK_DEADLOCK FALSE
