SPECIFICATION FairSpec
CONSTANTS
    Positions = {1, 2}
    Units = 1
    ActivityTypes <- Expirations
    Occurring = {1}
    Workers = {w1}
    Holders = {w1}
    Contexts <- SomeContexts
    MaxEvents = 2
    MaxFaults = 1
    Faults <- ClosesFill
PROPERTIES EventsAreReviewed ClosesComplete
