CONSTANTS
    Orders = {o1}
    Attempts = {a1, a2, a3}
    Verifiers = {}
    Hooks = {h1, h2}
    RazorpayOrders = {}
    PaymentNamed = FALSE
    InitialDue = 4
    MaxDue = 4
    Moves = {}
    OrderAmounts = {2, 4}
    FullBalance = FALSE
    MaxCrashes = 0
    Idle = Idle
SPECIFICATION FairSpec
PROPERTY CapturedIsCredited
CHECK_DEADLOCK FALSE
