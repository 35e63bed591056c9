SPECIFICATION Spec
CONSTANTS
    p1 = p1
    p2 = p2
    i1 = i1
    i2 = i2
    NoIntent = NoIntent
    Procs = {p1, p2}
    Intents = {i1, i2}
    Amount <- UnevenAmounts
    Caller <- AgentAndDemo
    BuyingPowers = {1, 4}
    AgentCeiling = 2
    DemoCeiling = 1
    MaxReplacements = 1
    Faults <- ContractFaults
INVARIANTS SingleSubmitter RiskWithinCeiling
PROPERTIES KeepsRiskContract
