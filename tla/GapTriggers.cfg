SPECIFICATION Spec
CONSTANTS
    a1 = a1
    a2 = a2
    b1 = b1
    p1 = p1
    p2 = p2
    Gap = {a1, a2, b1}
    ClientGap = {a1, a2}
    Period = {p1, p2}
    PeriodOf <- GapPeriod
    Month = 2
    MaxLost = 1
INVARIANTS
    ClosedGapsRest
PROPERTIES
    OncePerMonth
    ContactIsVetted
