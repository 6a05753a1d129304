SPECIFICATION Spec
CONSTANTS
    Status = {Running, Ended}
    Running = Running
    Garbled = Garbled
    NoSearch = NoSearch
    NoRow = NoRow
    Request <- SmallRequests
    DefaultTake = 2
    MaxRow = 3
    MaxTime = 3
INVARIANTS
    PagesInv
    
    NothingHidden
    RepeatsHaveCause
CHECK_DEADLOCK FALSE
