SPECIFICATION Spec
CONSTANTS
    Positions = {1}
    Units = 2
    ActivityTypes <- Assignments
    Occurring = {1}
    Workers = {w1, w2}
    Holders = {}
    Contexts <- AllContexts
    MaxEvents = 2
    MaxFaults = 1
    Faults <- TimelyFaults
INVARIANTS TypeOK RowsValidate CloseIsProven ActivitiesAreApplied ExitMeetsPolicy
PROPERTIES FailClosed KeepsPositionContract
SYMMETRY Symmetry
