CONSTANTS
    Payments = {x1, x2}
    Tenants = {s1}
    Periods = {p1}
    Labels = {l1}
    StartNumbers = {1}
    Corrections = {0}
    MaxCrashes = 0
    None = None
SPECIFICATION FairSpec
CHECK_DEADLOCK FALSE
PROPERTIES
    RecordedWhateverIsSet
