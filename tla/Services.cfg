SPECIFICATION ServicesSpec
CONSTANTS
    DockerSlots = {s, t}
    DeliveryIds = {d, e}
    DeliveryHelpers = {h, i}
    Components = {"provider", "voice"}
    Releases = {"a", "b"}
    First = "a"
    Procs = {p, q}
    MaxOps = 3
    MaxFailures = 1
SYMMETRY Symmetry
INVARIANTS
    OwnershipHolds
    VoiceIsSound
    
    InstallIsSound
    DeliveryIsSound
    
CHECK_DEADLOCK FALSE
