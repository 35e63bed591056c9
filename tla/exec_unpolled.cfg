SPECIFICATION FairSpec
CONSTANTS
    p1 = p1
    p2 = p2
    i1 = i1
    i2 = i2
    NoIntent = NoIntent
    Procs = {p1, p2}
    Intents = {i1, i2}
    Amount <- OneUnit
    Caller <- AllAgents
    BuyingPowers = {2}
    AgentCeiling = 2
    DemoCeiling = 1
    MaxReplacements = 1
    Faults <- NoFaults
PROPERTIES FillIsReconciled
