SPECIFICATION FairSpec
CONSTANTS
    Sched = {s1}
    Request = {q1, q2}
    Plan = {good, bad}
    BadPlan = {bad}
    MaxNow = 2
    Never = Never
    Keep = Keep
    NoSched = NoSched
    NoPlan = NoPlan
    NoJob = NoJob
INVARIANTS
    SchedulerInv
    NoStrays
    StoppedMeansBusy
    DatedSchedulersRun
    DeletedStaysQuiet
    JobFollowsRow
PROPERTIES
    EndedJobsStop
