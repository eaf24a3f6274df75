SPECIFICATION Spec
CONSTANTS
  Actors = {a1, a2}
  Clients = {c1}
  MaxTime = 0
  MaxCards = 2
  MaxClaims = 1
  MaxAdmissions = 1
SYMMETRY Symmetry

  
PROPERTIES
  ImplementsLifecycle
