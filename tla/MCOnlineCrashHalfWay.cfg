CONSTANTS
    Orders = {o1}
    Attempts = {a1}
    Verifiers = {}
    Hooks = {h}
    RazorpayOrders = {}
    PaymentNamed = FALSE
    InitialDue = 4
    MaxDue = 4
    Moves = {}
    OrderAmounts = {2, 4}
    FullBalance = FALSE
    MaxCrashes = 1
    Idle = Idle
SPECIFICATION FairSpec
PROPERTY CapturedIsCredited
CHECK_DEADLOCK FALSE
