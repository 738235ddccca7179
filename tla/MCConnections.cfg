CONSTANTS
    DevA = DevA
    DevB = DevB
    c1 = c1
    c2 = c2
    r1 = r1
    r2 = r2
    P = P
    R = R
    Dir = Dir
    NoDir = NoDir
    None = None
    DeviceOf <- MCDeviceOf
    Direct = {c1, c2}
    Relay = {r1, r2}
    Devices = {DevA, DevB}
    Keys <- AllKeys
    Rebinds <- ResolvesP
    MaxPending = 2
    MaxTurns = 3
SPECIFICATION MCSpec
INVARIANTS
    IndexSound
    SubscribersReached
    WorkingIsMapped
CHECK_DEADLOCK FALSE
