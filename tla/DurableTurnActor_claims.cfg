SPECIFICATION Spec
CONSTANTS
  Actors = {a1}
  Clients = {c1, c2}
  MaxTime = 1
  MaxCards = 2
  MaxClaims = 2
  MaxAdmissions = 2
SYMMETRY Symmetry
INVARIANTS
  RowsAreSound
PROPERTIES
  HistoryIsFinal
