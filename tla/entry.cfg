SPECIFICATION EntrySpec
CONSTANTS
    p1 = p1
    p2 = p2
    NoIntent = NoIntent
    None = None
    Procs = {p1, p2}
    Intents = {"i1", "i2", "i3", "i4"}
    Amount <- SomeAmount
    Basis <- SomeBasis
    Caller <- AllAgents
    BuyingPowers = {2000}
    AgentCeiling = 1000
    DemoCeiling = 200
    MaxReplacements = 0
    Faults <- NoFaults
    Freshness = 1
    Frames <- AllFrames
    Frame <- SomeFrame
    Shown <- SomeShown
    News = {"news"}
    Theses = {"bull", "peer", "bear"}
    Thesis <- SomeThesis
    Accounts <- SomeAccounts
    Valuations <- SomeValuations
    Times = {2}
INVARIANTS EntryTypeOK EvidenceHasOneThesis RouteIsBest
SYMMETRY Symmetry
