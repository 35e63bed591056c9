SPECIFICATION Spec
CONSTANTS
    p1 = p1
    p2 = p2
    i1 = i1
    i2 = i2
    NoIntent = NoIntent
    Procs = {p1, p2}
    Intents = {i1}
    Amount <- OneUnit
    Caller <- AllAgents
    BuyingPowers = {1}
    AgentCeiling = 1
    DemoCeiling = 1
    MaxReplacements = 1
    Faults <- EveryFault
INVARIANTS TypeOK LedgerAgrees ReconciledIsFilled ReceiptIsReconciled
PROPERTIES OutcomeIsFinal
