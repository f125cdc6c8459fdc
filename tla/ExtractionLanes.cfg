SPECIFICATION Spec
CONSTANTS
    File = {f1, s1, s2}
    Heavy = {s1, s2}
    FastSlots = 1
    HeavySlots = 1
    Rpm = 2
    Window = 2
    MaxLoops = 2
INVARIANTS
    TypeOK
    SlotsAreConserved
    RateIsBounded
    FirstBatchIsThrottled
PROPERTIES
    EveryFileReturns
CHECK_DEADLOCK FALSE
