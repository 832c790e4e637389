CONSTANTS
    Payments = {x1, x2, x3}
    Tenants = {s1, s2}
    Periods = {p1}
    Labels = {l1, l2}
    StartNumbers = {2}
    Corrections = {3}
    MaxCrashes = 1
    None = None
SPECIFICATION FairSpec
CHECK_DEADLOCK FALSE
INVARIANTS
    TypeOK
    Gapless
    WaitsEnd
PROPERTIES
    IssuesInSequence
    EveryPaymentRecorded
