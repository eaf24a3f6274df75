SPECIFICATION FairSpec
CONSTANTS
  Ids = {1, 2}
  MaxTurns = 2
  Voice = {1}
  MaxCrashes = 2
  MaxFaults = 1
  MaxPublish = 1
  MaxUpgrades = 1
  MaxTrouble = 3
CHECK_DEADLOCK FALSE
PROPERTIES
  TurnIsReleased
INVARIANTS
  OwnershipIsConsistent
  EffectsAreAuthorized
