SPECIFICATION Spec
CONSTANTS
    AutonomySessions = {u, v}
SYMMETRY Symmetry
INVARIANTS
    TurnIsAccounted
    
    
    
    
    
CHECK_DEADLOCK FALSE
