SPECIFICATION Spec
CONSTANTS
    Accounts = {a1, a2}
    Expected = a1
    Verifiers = {v1, v2}
    Processes <- SomeProcesses
    Standing <- SomeStanding
    Inherited <- SomeInherited
    MaxTime = 2
    MaxMoves = 2
INVARIANTS TypeOK BaselinesAreRoots VerifiedIsStored
PROPERTIES CertificatesAreEarned
SYMMETRY Symmetry
