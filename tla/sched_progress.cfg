SPECIFICATION FairSpec
CONSTANTS
    w1 = w1
    w2 = w2
    x = x
    y = y
    c1 = c1
    c2 = c2
    c3 = c3
    Instances = {x, y}
    NoInstance = NoInstance
    Workers = {w1, w2}
    Apis = {}
    InstanceOf <- IdsDiffer
    LeaseTime = 6
    RenewEvery = 2
    MinCycle = 3
    Late = 1
    CycleIds = {c1, c2, c3}
    NoCycleId = NoCycleId
    Scopes = {"account", "other"}
    HasGate = FALSE
    Puttable <- NoControls
    MaxFaults = 1
    Faults <- CrashFaults
PROPERTIES CyclesKeepRunning
