CONSTANTS
    Orders = {o1, o2}
    Attempts = {a1}
    Verifiers = {v}
    Hooks = {h}
    RazorpayOrders = {}
    PaymentNamed = TRUE
    InitialDue = 4
    MaxDue = 4
    Moves <- Shrinking
    OrderAmounts = {2}
    FullBalance = TRUE
    MaxCrashes = 1
    Idle = Idle
SPECIFICATION Spec
PROPERTY SettlesOnce
CHECK_DEADLOCK FALSE
