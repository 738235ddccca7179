CONSTANTS
    PageBackends = {"codex", "claude"}
    RecordKinds = {"user"}
    MsgKeys = {"k1"}
    Readers = {r1}
    PageSize = 2
    PageBudget = 2
    AnchorWindow = 1
    LineageDepth = 2
    ByteBudget = 9
    MaxRecords = 5
    MaxFileChanges = 0
    MaxPageRequests = 3
    MaxBridgeRestarts = 0
SPECIFICATION PagesSpec
INVARIANT PagesExact
CHECK_DEADLOCK FALSE
