CONSTANTS
    Orders = {o1}
    Attempts = {a1}
    Verifiers = {v}
    Hooks = {h}
    RazorpayOrders = {}
    PaymentNamed = TRUE
    InitialDue = 4
    MaxDue = 4
    Moves = {}
    OrderAmounts = {2, 4}
    FullBalance = FALSE
    MaxCrashes = 0
    Idle = Idle
SPECIFICATION Spec
SYMMETRY Symmetry
INVARIANT AtMostOneCredit
CHECK_DEADLOCK FALSE
