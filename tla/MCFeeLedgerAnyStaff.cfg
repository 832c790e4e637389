CONSTANTS
    Fees = {f1, f2}
    MaxFeePayments = 1
    Operators = {o1, o2}
    OriginalAmounts = {4}
    UploadDiscounts = {0, 5}
    Amounts = {2, 3}
    MaxAudited = 3
    OfflineTypes = {"CASH", "CHEQUE"}
    OnlineTypes = {"CASHFREE"}
    ClearingTypes = {"CHEQUE"}
    ReclearBounced = TRUE
    OverlappingClearance = TRUE
    NoFee = NoFee
    NoRequest = NoRequest
SPECIFICATION Spec
SYMMETRY Symmetry
CHECK_DEADLOCK FALSE
INVARIANTS
    TypeOK
    DerivedColumnsFollow
PROPERTIES
    TotalsMoveWithAudit
    PaidReopensOnlyByBounceOrDiscountWaiver
