CONSTANTS
    Devices = {d1}
    MaxBytes = 2
    Sizes = {1}
    Limits = {}
    TTL = 2
    MaxTime = 0
    MaxAppends = 1
    DevicePeers = {p1}
    BridgePeers = {b1, b2}
    QueueFrames = 1
    MaxEnvelopes = 1
    None = None
SPECIFICATION ServerSpec
PROPERTY DeadSocketForgotten
CHECK_DEADLOCK FALSE
