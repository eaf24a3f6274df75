SPECIFICATION RecordsSpec
CONSTANTS
    MemoryCallers = {a, b}
    MemoryFacts = {f, g}
    Executors = {x, y}
    ClaimMs = 1
    Expiry = 2
    MaxTime = 4
    MaxClaims = 5
    MaxMishaps = 4
SYMMETRY Symmetry
INVARIANTS
    MemoryStaysWhole
    
    InboxIsSound
    MonitoringIsSound
    FollowupsAreSafe
PROPERTIES
    ForgetIsPermanent
CHECK_DEADLOCK FALSE
