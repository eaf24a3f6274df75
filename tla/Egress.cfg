SPECIFICATION EgressSpec
CONSTANTS
    Callers = {a, b}
    Workers = {a, b}
    Connections = {x, y}
    GrantLife = 1
    UseLife = 1
    MaxRevision = 5
    MaxNonces = 2
    MaxTime = 1
    MaxUpsets = 1
    BatchSize = 2
    MaxEvents = 4
    MaxCrashes = 1
    MaxLate = 2
SYMMETRY Symmetry
INVARIANTS
    RevocationIsComplete
    StoredConsentIsReadable
    SinkFollowsOutbox
CHECK_DEADLOCK FALSE
