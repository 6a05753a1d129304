SPECIFICATION Spec
CONSTANTS
    Browser = {b1, b2}
    Call = {q1, q2}
    Lifetime = 2
    MaxNow = 2
    NoBrowser = NoBrowser
    NoToken = NoToken
SYMMETRY Symmetry
INVARIANTS
    SessionInv
    SessionsLast
    NoLeftovers

    
