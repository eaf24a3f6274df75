SPECIFICATION SupervisionSpec
CONSTANTS
    CrashWindow = 2
    CrashBudget = 2
    PermitLife = 1
    MaxTime = 3
    MaxSteps = 7
    MaxDirect = 1
    MaxBack = 1
    RestartUpdates = {1}
    MaxUpdate = 2
    MaxIntents = 2
    MaxDeaths = 1
    MaxFailures = 1
    Clients = {"a", "b"}
    Processes = {"p", "q"}
    ProcessOf <- OwnProcess
    MaxInodes = 4
    MaxCalls = 3
    MaxRemovals = 1
    MaxKills = 1
    MaxCrashes = 1
    MaxFaults = 1
INVARIANTS
    TypesAreKept
    DirectExcludesSupervised
    ExitIsBackedUnlessWithdrawn
PROPERTIES
    BudgetIsEnforced
    
    LeaseIsExclusiveAndAvailable
CHECK_DEADLOCK FALSE
