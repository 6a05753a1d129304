SPECIFICATION Spec
CONSTANTS
    Scenario = {s1}
    Removable = {s1}
    Run = {r1}
    Starter = {h1, h2}
    Stopper = {t1}
    Follower = {f1}
    DeleteMayFail = FALSE
    NoRun = NoRun
    NoScenario = NoScenario
SYMMETRY Symmetry
INVARIANTS
    SafetyInv
    RowsAreDated
    AnnouncedEndIsRecorded
    StoppedRowsHaveEnded
PROPERTIES
    RunsKeepLifecycle
