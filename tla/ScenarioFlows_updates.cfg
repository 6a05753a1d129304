SPECIFICATION Spec
CONSTANTS
    Flow = {f1, f2}
    Serial = {n1, n2}
    Call = {c1, c2}
    MaxNew = 1
SYMMETRY Symmetry
CHECK_DEADLOCK FALSE
INVARIANTS
    UpdateIsExact
    UpdatesInv
    FlowsAreKept

    
