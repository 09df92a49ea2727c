SPECIFICATION Spec
CONSTANTS
    Window = 1
    BootsMax = 6
    Lifetime = 2
    Durable = TRUE
    FirstBoots = {3, 5}
    MaxEngines = 2
    MaxRestarts = 2
    MaxNow = 3
    MaxCopies = 1
    MaxInFlight = 2
INVARIANTS ServedInThisBoot ManagerKeepsTrack
PROPERTY Recovers
