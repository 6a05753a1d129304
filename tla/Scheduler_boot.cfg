SPECIFICATION Spec
CONSTANTS
    Sched = {s1}
    Request = {q1}
    Plan = {good, bad}
    BadPlan = {bad}
    MaxNow = 1
    Never = Never
    Keep = Keep
    NoSched = NoSched
    NoPlan = NoPlan
    NoJob = NoJob
SYMMETRY Symmetry
INVARIANTS
    BootIsPossible
