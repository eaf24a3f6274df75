SPECIFICATION FairSpec
CONSTANTS
  Ids = {1, 2}
  MaxTurns = 2
  Voice = {}
  MaxCrashes = 0
  MaxFaults = 0
  MaxPublish = 0
  MaxUpgrades = 0
  MaxTrouble = 3
CHECK_DEADLOCK FALSE
PROPERTIES
  FinalReplyIsPublished
