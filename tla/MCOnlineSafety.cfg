CONSTANTS
    Orders = {o1, o2}
    Attempts = {a1, a2}
    Verifiers = {v}
    Hooks = {h}
    RazorpayOrders = {o1}
    PaymentNamed = TRUE
    InitialDue = 4
    MaxDue = 4
    Moves <- Moving
    OrderAmounts = {3}
    FullBalance = FALSE
    MaxCrashes = 0
    Idle = Idle
SPECIFICATION Spec
SYMMETRY Symmetry
INVARIANTS TypeOK CreditIsExplained NeverOvercredited PaidIsCaptured
CHECK_DEADLOCK FALSE
