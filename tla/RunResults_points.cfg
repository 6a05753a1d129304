SPECIFICATION FairSpec
CONSTANTS
    Step = {"a", "b", "c"}
    NameOf <- Names
    User = {u1, u2}
    Completion = {c1, c2}
    Plans <- Versions
    Pause = 3
    Grain = 2
    MaxTime = 4
    Whole = Whole
INVARIANTS
    ResultsInv
    AnnouncedRunsAreMeasured
    FlowSharesAreWeights

    
CHECK_DEADLOCK FALSE
