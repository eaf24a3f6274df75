SPECIFICATION RecordsSpec
CONSTANTS
  N = 3
  TaskOnly = {3}
  MaxTurns = 2
  MaxCrashes = 3
  LedgerChecked = FALSE
  Envelopes = {e1, e2}
  Runs = {n1}
  Hashes = {h1, h2}
  MaxRef = 2
  MaxTelegram = 2
  MaxTime = 1
INVARIANTS
  TurnIsConsistent
  TurnIsSettled
PROPERTIES
  EffectsNeedALiveTurn
  
  CancelledRunIsRetired
  EvidenceMovesForward
CHECK_DEADLOCK FALSE
