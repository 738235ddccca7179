CONSTANTS
    Devices = {d1}
    MaxBytes = 2
    Sizes = {1}
    Limits = {}
    TTL = 2
    MaxTime = 0
    MaxAppends = 2
    DevicePeers = {p1, p2}
    BridgePeers = {b1}
    QueueFrames = 1
    MaxEnvelopes = 2
    None = None
SPECIFICATION ServerSpec
SYMMETRY PeerSymmetry
INVARIANTS
    ServerSound
CHECK_DEADLOCK FALSE
