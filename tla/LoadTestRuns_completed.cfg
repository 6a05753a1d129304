SPECIFICATION Spec
CONSTANTS
    Scenario = {s1}
    Removable = {}
    Run = {r1}
    Starter = {h1}
    Stopper = {}
    Follower = {f1}
    DeleteMayFail = FALSE
    NoRun = NoRun
    NoScenario = NoScenario
SYMMETRY Symmetry
INVARIANTS
    CompletionIsRecorded
