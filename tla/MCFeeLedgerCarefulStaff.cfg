CONSTANTS
    Fees = {f1}
    MaxFeePayments = 3
    Operators = {o1, o2}
    OriginalAmounts = {4}
    UploadDiscounts = {0, 1, 8}
    Amounts = {2, 3}
    MaxAudited = 3
    OfflineTypes = {"CASH", "CHEQUE"}
    OnlineTypes = {"CASHFREE"}
    ClearingTypes = {"CHEQUE"}
    ReclearBounced = FALSE
    OverlappingClearance = FALSE
    NoFee = NoFee
    NoRequest = NoRequest
SPECIFICATION Spec
SYMMETRY Symmetry
CHECK_DEADLOCK FALSE
INVARIANTS
    LedgerBalanced
PROPERTIES
    OverpaidOnlyByWaiverOrCheque
