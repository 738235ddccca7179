CONSTANTS
    Closers = {c1}
    Items = {i1}
    AppEventCap = 1
    MaxRequests = 5
    MaxInbound = 2
    MaxNotes = 1
SPECIFICATION AppSpec
INVARIANT NoSendOnClosed
CHECK_DEADLOCK FALSE
