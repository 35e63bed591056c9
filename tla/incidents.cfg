SPECIFICATION Spec
CONSTANTS
    i1 = i1
    i2 = i2
    alice = alice
    bob = bob
    IncidentIds = {i1, i2}
    Operators = {alice, bob}
    Severities = {"INFO", "WARNING", "CRITICAL"}
    NoIncident = NoIncident
    MaxVersion = 3
    Scopes = {"account"}
INVARIANTS TypeOK IncidentIsControlled
PROPERTIES ResolutionsAreInformed
SYMMETRY Symmetry
