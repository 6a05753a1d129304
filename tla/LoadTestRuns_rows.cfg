SPECIFICATION Spec
CONSTANTS
    Scenario = {s1}
    Removable = {}
    Run = {r1, r2}
    Starter = {h1}
    Stopper = {}
    Follower = {f1}
    DeleteMayFail = TRUE
    NoRun = NoRun
    NoScenario = NoScenario
SYMMETRY Symmetry
INVARIANTS
    RunningRowsBounded
    
