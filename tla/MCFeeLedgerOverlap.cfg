CONSTANTS
    Fees = {f1}
    MaxFeePayments = 2
    Operators = {o1, o2}
    OriginalAmounts = {4}
    UploadDiscounts = {0}
    Amounts = {2, 3}
    MaxAudited = 0
    OfflineTypes = {"CASH", "CHEQUE"}
    OnlineTypes = {"CASHFREE"}
    ClearingTypes = {"CHEQUE"}
    ReclearBounced = FALSE
    OverlappingClearance = TRUE
    NoFee = NoFee
    NoRequest = NoRequest
SPECIFICATION Spec
SYMMETRY Symmetry
CHECK_DEADLOCK FALSE
INVARIANT LedgerBalanced
