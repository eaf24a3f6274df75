SPECIFICATION Spec
CONSTANTS
  N = 1
  TaskOnly = {}
  MaxTurns = 1
  MaxCrashes = 0
  LedgerChecked = TRUE
PROPERTY FirstDecisionIsConsumed
CHECK_DEADLOCK FALSE
