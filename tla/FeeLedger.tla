----------------------------- MODULE FeeLedger -----------------------------
(***************************************************************************)
(* The fee ledger of api/src/modules/fees/fees.service.ts: the rows of     *)
(* `fees` (one bill per student and term), `fee_payments` (one row per     *)
(* instalment) and `fee_adjustments` (the audit of penalties and           *)
(* discounts).  Amounts are integers, in the smallest currency unit.       *)
(*                                                                         *)
(* Every handler but one is a single transaction that starts by locking    *)
(* the fee rows it changes (SELECT ... FOR UPDATE), so it is one action.   *)
(* updateClearance reads the fee_payment row BEFORE it takes the fee lock  *)
(* and acts on what it read: it is two actions, ReadClearance and          *)
(* CommitClearance, and any other step may fall between them.              *)
(***************************************************************************)
EXTENDS Integers

CONSTANTS
    Fees,              \* ids of the bills
    MaxFeePayments,    \* bound: rows fee_payments may hold
    Operators,         \* staff requests that may be in progress at once
    OriginalAmounts,   \* amounts an upload may bill
    UploadDiscounts,   \* discounts an upload may carry
    Amounts,           \* positive amounts of a payment, penalty or discount
    MaxAudited,        \* bound: sum of the audit rows of one kind on a fee
    OfflineTypes,      \* payment types the staff may record
    OnlineTypes,       \* payment types the gateways may record
    ClearingTypes,     \* payment types a bank clears later: CHEQUE and DD
    ReclearBounced,    \* may staff ask for CLEARED on a bounced cheque?
    OverlappingClearance, \* may two requests on one cheque overlap?
    NoFee, NoRequest

ASSUME FeesAssumption ==
    /\ MaxFeePayments \in Nat
    /\ MaxAudited \in Nat
    /\ OriginalAmounts \subseteq Nat
    /\ UploadDiscounts \subseteq Nat
    /\ Amounts \subseteq Nat \ {0}
    /\ ClearingTypes \subseteq OfflineTypes
    /\ OfflineTypes \cap OnlineTypes = {}
    /\ ReclearBounced \in BOOLEAN
    /\ OverlappingClearance \in BOOLEAN
    /\ NoFee \notin Fees

PaymentIds == 1 .. MaxFeePayments
PaymentStates == {"UNPAID", "PARTIAL", "PAID"}
Settled == {"CLEARED", "BOUNCED"}
ClearanceStates == {"NONE", "NA", "PENDING"} \cup Settled
Kinds == {"PENALTY_ADD", "PENALTY_WAIVE", "DISCOUNT_ADD", "DISCOUNT_WAIVE"}
Requests == [payment : PaymentIds, status : Settled, seen : ClearanceStates]

ASSUME NoRequestAssumption == NoRequest \notin Requests

VARIABLES
    created,         \* the bills that exist
    originalAmount, totalPenalty, totalDiscount, netAmount, paidAmount,
    paymentStatus,   \* columns of fees
    rows,            \* number of fee_payments rows inserted so far
    feeOf, amountOf, clearance,   \* columns of fee_payments
    adjusted,        \* per fee and kind, the sum of its fee_adjustments rows
    request          \* updateClearance transactions between read and commit

billVars == <<originalAmount, totalPenalty, totalDiscount, netAmount>>
rowVars == <<rows, feeOf, amountOf, clearance>>
vars == <<created, billVars, paidAmount, paymentStatus, rowVars, adjusted,
          request>>

-----------------------------------------------------------------------------
(* fee-math.ts and the private helpers of the service.                     *)

\* UNPAID at 0, PARTIAL below net, PAID once paid covers net.
DeriveStatus(paid, net) ==
    IF paid = 0 THEN "UNPAID" ELSE IF paid < net THEN "PARTIAL" ELSE "PAID"

\* recomputeDerived: what the student owes.
Net(original, penalty, discount) == original + penalty - discount

AtLeastZero(n) == IF n < 0 THEN 0 ELSE n
Least(m, n) == IF m < n THEN m ELSE n

\* recordPayment accepts amount > remaining by at most 0.01.
Tolerance == 1

(***************************************************************************)
(* The tail every adjustment handler shares: write the new total_penalty   *)
(* and total_discount of the fees hit, recompute net_amount and            *)
(* payment_status, save, and log one audit row per fee.                    *)
(***************************************************************************)
Adjust(hit, penalty, discount, kind, logged) ==
    /\ hit # {}
    /\ \A f \in hit : adjusted[f][kind] + logged[f] <= MaxAudited
    /\ totalPenalty' =
         [f \in Fees |-> IF f \in hit THEN penalty[f] ELSE totalPenalty[f]]
    /\ totalDiscount' =
         [f \in Fees |-> IF f \in hit THEN discount[f] ELSE totalDiscount[f]]
    /\ netAmount' =
         [f \in Fees |-> IF f \in hit
                         THEN Net(originalAmount[f], penalty[f], discount[f])
                         ELSE netAmount[f]]
    /\ paymentStatus' =
         [f \in Fees |->
            IF f \in hit
            THEN DeriveStatus(paidAmount[f],
                              Net(originalAmount[f], penalty[f], discount[f]))
            ELSE paymentStatus[f]]
    /\ adjusted' =
         [f \in Fees |-> [k \in Kinds |->
            IF f \in hit /\ k = kind THEN adjusted[f][k] + logged[f]
                                     ELSE adjusted[f][k]]]
    /\ UNCHANGED <<created, originalAmount, paidAmount, rowVars, request>>

Same(value) == [f \in Fees |-> value]

-----------------------------------------------------------------------------
Init ==
    /\ created = {}
    /\ originalAmount = Same(0)
    /\ totalPenalty = Same(0)
    /\ totalDiscount = Same(0)
    /\ netAmount = Same(0)
    /\ paidAmount = Same(0)
    /\ paymentStatus = Same("UNPAID")
    /\ rows = 0
    /\ feeOf = [p \in PaymentIds |-> NoFee]
    /\ amountOf = [p \in PaymentIds |-> 0]
    /\ clearance = [p \in PaymentIds |-> "NONE"]
    /\ adjusted = [f \in Fees |-> [k \in Kinds |-> 0]]
    /\ request = [o \in Operators |-> NoRequest]

\* bulkCreate, inside the upload's or the add-student transaction.  The
\* unique key (tenant, branch, student, year, term) makes the whole
\* transaction fail when one of the bills exists.
BulkCreate(bills, original, discount) ==
    /\ bills # {}
    /\ bills \cap created = {}
    /\ created' = created \cup bills
    /\ originalAmount' =
         [f \in Fees |-> IF f \in bills THEN original[f] ELSE originalAmount[f]]
    /\ totalDiscount' =
         [f \in Fees |-> IF f \in bills THEN discount[f] ELSE totalDiscount[f]]
    /\ netAmount' =
         [f \in Fees |-> IF f \in bills
                         THEN AtLeastZero(original[f] - discount[f])
                         ELSE netAmount[f]]
    /\ UNCHANGED <<totalPenalty, paidAmount, paymentStatus, rowVars, adjusted,
                   request>>

(* The bulk handlers.  `scope` is what the locking query returned: any set *)
(* of existing bills may share a branch, a year and a term.                *)

\* Mutant of AddPenaltyForStudents: paid bills are charged too.
AddPenaltyToPaidToo(scope, amount) ==
    Adjust(scope, [f \in Fees |-> totalPenalty[f] + amount], totalDiscount,
           "PENALTY_ADD", Same(amount))

AddPenaltyForStudents(scope, amount) ==
    LET hit == {f \in scope : paymentStatus[f] # "PAID"} IN
    Adjust(hit, [f \in Fees |-> totalPenalty[f] + amount], totalDiscount,
           "PENALTY_ADD", Same(amount))

WaivePenaltyForStudents(scope) ==
    LET hit == {f \in scope : paymentStatus[f] # "PAID" /\ totalPenalty[f] # 0}
    IN  Adjust(hit, Same(0), totalDiscount, "PENALTY_WAIVE", totalPenalty)

AddDiscountForStudents(scope, amount) ==
    LET newDiscount == [f \in Fees |-> totalDiscount[f] + amount]
        hit == {f \in scope :
                  /\ paymentStatus[f] # "PAID"
                  /\ Net(originalAmount[f], totalPenalty[f], newDiscount[f])
                       >= paidAmount[f]}
    IN  Adjust(hit, totalPenalty, newDiscount, "DISCOUNT_ADD", Same(amount))

WaiveDiscountForStudents(scope) ==
    LET hit == {f \in scope :
                  /\ paymentStatus[f] # "PAID"
                  /\ totalDiscount[f] # 0
                  /\ Net(originalAmount[f], totalPenalty[f], 0)
                       >= paidAmount[f]}
    IN  Adjust(hit, totalPenalty, Same(0), "DISCOUNT_WAIVE", totalDiscount)

(* The single-fee handlers.  For a waiver, `asked` is the amount of the    *)
(* request; the whole total is an amount at least as large (or none).      *)

\* Mutant of AddPenaltyToFee: recomputeDerived is forgotten.
AddPenaltyWithoutRecompute(f, amount) ==
    /\ paymentStatus[f] # "PAID"
    /\ totalPenalty' = [totalPenalty EXCEPT ![f] = @ + amount]
    /\ adjusted' = [adjusted EXCEPT ![f]["PENALTY_ADD"] = @ + amount]
    /\ UNCHANGED <<created, originalAmount, totalDiscount, netAmount,
                   paidAmount, paymentStatus, rowVars, request>>

AddPenaltyToFee(f, amount) ==
    /\ paymentStatus[f] # "PAID"
    /\ Adjust({f}, [totalPenalty EXCEPT ![f] = @ + amount], totalDiscount,
              "PENALTY_ADD", Same(amount))

\* Mutant of WaivePenaltyOnFee: the audit row holds the amount asked for.
WaivePenaltyLoggingAsked(f, asked) ==
    LET waived == Least(asked, totalPenalty[f]) IN
    /\ paymentStatus[f] # "PAID"
    /\ totalPenalty[f] # 0
    /\ Adjust({f}, [totalPenalty EXCEPT ![f] = @ - waived], totalDiscount,
              "PENALTY_WAIVE", Same(asked))

WaivePenaltyOnFee(f, asked) ==
    LET waived == Least(asked, totalPenalty[f]) IN
    /\ paymentStatus[f] # "PAID"
    /\ totalPenalty[f] # 0
    /\ Adjust({f}, [totalPenalty EXCEPT ![f] = @ - waived], totalDiscount,
              "PENALTY_WAIVE", Same(waived))

\* Mutant of AddDiscount: what was already paid is not looked at.
AddDiscountBelowPaid(f, amount) ==
    Adjust({f}, totalPenalty, [totalDiscount EXCEPT ![f] = @ + amount],
           "DISCOUNT_ADD", Same(amount))

AddDiscount(f, amount) ==
    LET newDiscount == [totalDiscount EXCEPT ![f] = @ + amount] IN
    /\ Net(originalAmount[f], totalPenalty[f], newDiscount[f])
         >= paidAmount[f]
    /\ Adjust({f}, totalPenalty, newDiscount, "DISCOUNT_ADD", Same(amount))

WaiveDiscountOnFee(f, asked) ==
    LET waived == Least(asked, totalDiscount[f])
        newDiscount == [totalDiscount EXCEPT ![f] = @ - waived]
    IN
    /\ totalDiscount[f] # 0
    /\ Net(originalAmount[f], totalPenalty[f], newDiscount[f])
         >= paidAmount[f]
    /\ Adjust({f}, totalPenalty, newDiscount, "DISCOUNT_WAIVE", Same(waived))

(***************************************************************************)
(* recordPayment, one transaction under the fee lock: reject what exceeds  *)
(* the balance, insert the row, and count it at once unless a bank clears  *)
(* it later.  (The receipt number it draws is the module ReceiptSequence.) *)
(***************************************************************************)
RecordPayment(f, amount, type) ==
    LET p == rows + 1
        counted == type \notin ClearingTypes
        paid == paidAmount[f] + amount
    IN
    /\ rows < MaxFeePayments
    /\ amount <= netAmount[f] - paidAmount[f] + Tolerance
    /\ rows' = p
    /\ feeOf' = [feeOf EXCEPT ![p] = f]
    /\ amountOf' = [amountOf EXCEPT ![p] = amount]
    /\ clearance' = [clearance EXCEPT ![p] = IF counted THEN "NA" ELSE "PENDING"]
    /\ IF counted
       THEN /\ paidAmount' = [paidAmount EXCEPT ![f] = paid]
            /\ paymentStatus' =
                 [paymentStatus EXCEPT ![f] = DeriveStatus(paid, netAmount[f])]
       ELSE UNCHANGED <<paidAmount, paymentStatus>>
    /\ UNCHANGED <<created, billVars, adjusted, request>>

RecordOfflinePayment(f, amount, type) ==
    type \in OfflineTypes /\ RecordPayment(f, amount, type)

RecordOnlinePayment(f, amount, type) ==
    type \in OnlineTypes /\ RecordPayment(f, amount, type)

-----------------------------------------------------------------------------
(* updateClearance.                                                        *)

\* What the staff are assumed not to do, when the constants say so.
StaffMayAsk(p, status) ==
    /\ ~ReclearBounced => ~(clearance[p] = "BOUNCED" /\ status = "CLEARED")
    /\ ~OverlappingClearance =>
         \A o \in Operators : request[o] # NoRequest => request[o].payment # p

\* The read, without a lock.  Only a cheque or DD has a clearance step, and
\* a request for the status the row already has returns at once.
ReadClearance(o, p, status) ==
    /\ request[o] = NoRequest
    /\ p <= rows
    /\ clearance[p] \notin {"NA", status}
    /\ StaffMayAsk(p, status)
    /\ request' = [request EXCEPT ![o] =
                     [payment |-> p, status |-> status, seen |-> clearance[p]]]
    /\ UNCHANGED <<created, billVars, paidAmount, paymentStatus, rowVars,
                   adjusted>>

\* Mutant of PaidAfter: a bounce may take paid_amount below zero.
PaidAfterUnfloored(f, r) ==
    IF r.seen = "PENDING" /\ r.status = "CLEARED"
    THEN paidAmount[f] + amountOf[r.payment]
    ELSE IF r.seen = "CLEARED" /\ r.status = "BOUNCED"
    THEN paidAmount[f] - amountOf[r.payment]
    ELSE paidAmount[f]

\* Mutant of PaidAfter: a bounce is subtracted though it never counted.
PaidAfterAnyBounce(f, r) ==
    IF r.seen = "PENDING" /\ r.status = "CLEARED"
    THEN paidAmount[f] + amountOf[r.payment]
    ELSE IF r.status = "BOUNCED"
    THEN AtLeastZero(paidAmount[f] - amountOf[r.payment])
    ELSE paidAmount[f]

\* paid_amount after the update, from the status read earlier.
PaidAfter(f, r) ==
    IF r.seen = "PENDING" /\ r.status = "CLEARED"
    THEN paidAmount[f] + amountOf[r.payment]
    ELSE IF r.seen = "CLEARED" /\ r.status = "BOUNCED"
    THEN AtLeastZero(paidAmount[f] - amountOf[r.payment])
    ELSE paidAmount[f]

\* Mutant of CommitClearance: payment_status is not derived again.
CommitClearanceKeepingStatus(o) ==
    /\ request[o] # NoRequest
    /\ LET r == request[o]
           f == feeOf[r.payment]
       IN
       /\ paidAmount' = [paidAmount EXCEPT ![f] = PaidAfter(f, r)]
       /\ clearance' = [clearance EXCEPT ![r.payment] = r.status]
    /\ request' = [request EXCEPT ![o] = NoRequest]
    /\ UNCHANGED <<created, billVars, paymentStatus, rows, feeOf, amountOf,
                   adjusted>>

\* lockFee, the update of the fee from the status read earlier, both saves.
CommitClearance(o) ==
    /\ request[o] # NoRequest
    /\ LET r == request[o]
           f == feeOf[r.payment]
       IN
       /\ paidAmount' = [paidAmount EXCEPT ![f] = PaidAfter(f, r)]
       /\ paymentStatus' =
            [paymentStatus EXCEPT ![f] =
               DeriveStatus(PaidAfter(f, r), netAmount[f])]
       /\ clearance' = [clearance EXCEPT ![r.payment] = r.status]
    /\ request' = [request EXCEPT ![o] = NoRequest]
    /\ UNCHANGED <<created, billVars, rows, feeOf, amountOf, adjusted>>

\* The transaction rolls back: a lost connection or a restart of the API.
AbortClearance(o) ==
    /\ request[o] # NoRequest
    /\ request' = [request EXCEPT ![o] = NoRequest]
    /\ UNCHANGED <<created, billVars, paidAmount, paymentStatus, rowVars,
                   adjusted>>

-----------------------------------------------------------------------------
BulkAdjustment(scope) ==
    \/ \E amount \in Amounts : AddPenaltyForStudents(scope, amount)
    \/ WaivePenaltyForStudents(scope)
    \/ \E amount \in Amounts : AddDiscountForStudents(scope, amount)
    \/ WaiveDiscountForStudents(scope)

FeeAdjustment(f, amount) ==
    \/ AddPenaltyToFee(f, amount)
    \/ WaivePenaltyOnFee(f, amount)
    \/ AddDiscount(f, amount)
    \/ WaiveDiscountOnFee(f, amount)

Payment(f, amount) ==
    \/ \E type \in OfflineTypes : RecordOfflinePayment(f, amount, type)
    \/ \E type \in OnlineTypes : RecordOnlinePayment(f, amount, type)

Clearance(o) ==
    \/ \E p \in PaymentIds, status \in Settled : ReadClearance(o, p, status)
    \/ CommitClearance(o)
    \/ AbortClearance(o)

Next ==
    \/ \E bills \in SUBSET Fees, original \in [Fees -> OriginalAmounts],
          discount \in [Fees -> UploadDiscounts] :
            BulkCreate(bills, original, discount)
    \/ \E scope \in SUBSET created : BulkAdjustment(scope)
    \/ \E f \in created, amount \in Amounts : FeeAdjustment(f, amount)
    \/ \E f \in created, amount \in Amounts : Payment(f, amount)
    \/ \E o \in Operators : Clearance(o)

Spec == Init /\ [][Next]_vars

-----------------------------------------------------------------------------
(* Properties.                                                             *)

\* Every column keeps its domain.  net_amount alone has no CHECK in the
\* schema and can indeed go below zero.
TypeOK ==
    /\ created \subseteq Fees
    /\ originalAmount \in [Fees -> Nat]
    /\ totalPenalty \in [Fees -> Nat]
    /\ totalDiscount \in [Fees -> Nat]
    /\ netAmount \in [Fees -> Int]
    /\ paidAmount \in [Fees -> Nat]
    /\ paymentStatus \in [Fees -> PaymentStates]
    /\ rows \in 0 .. MaxFeePayments
    /\ feeOf \in [PaymentIds -> Fees \cup {NoFee}]
    /\ amountOf \in [PaymentIds -> Nat]
    /\ clearance \in [PaymentIds -> ClearanceStates]
    /\ adjusted \in [Fees -> [Kinds -> Nat]]
    /\ request \in [Operators -> Requests \cup {NoRequest}]

\* The stored net_amount is original + penalty - discount, except on a bill
\* uploaded with a discount above its amount (clamped to 0) that no
\* adjustment has touched since.
NetFollowsTotals ==
    \A f \in created :
        \/ netAmount[f] =
             Net(originalAmount[f], totalPenalty[f], totalDiscount[f])
        \/ /\ totalDiscount[f] > originalAmount[f]
           /\ netAmount[f] = 0
           /\ \A k \in Kinds : adjusted[f][k] = 0

\* The stored payment_status is never stale: whatever handler ran last, it is
\* what deriveStatus makes of the stored paid and net amounts.
StatusFollowsAmounts ==
    \A f \in Fees :
        paymentStatus[f] = DeriveStatus(paidAmount[f], netAmount[f])

\* net_amount and payment_status are never stale: nine handlers write the
\* columns they are derived from, in any order, and each derives them again.
DerivedColumnsFollow == NetFollowsTotals /\ StatusFollowsAmounts

\* What row p contributes to the paid_amount of fee f: its amount, when it
\* counts (instantly recognised, or cleared by the bank).
Counts(p, f) == feeOf[p] = f /\ clearance[p] \in {"NA", "CLEARED"}
Contribution(p, f) == IF Counts(p, f) THEN amountOf[p] ELSE 0

\* The sum of the contributions of rows 1 .. n, as a function of n.
Collected(f) ==
    LET sum[n \in 0 .. MaxFeePayments] ==
          IF n = 0 THEN 0 ELSE sum[n - 1] + Contribution(n, f)
    IN  sum

\* paid_amount is the sum of the fee_payments rows that count.
LedgerBalanced ==
    \A f \in Fees : paidAmount[f] = Collected(f)[MaxFeePayments]

\* A step's audit rows account for what it does to the totals.
TotalsExplained ==
    \A f \in created :
        LET new(k) == adjusted'[f][k] - adjusted[f][k] IN
        /\ totalPenalty'[f] - totalPenalty[f]
             = new("PENALTY_ADD") - new("PENALTY_WAIVE")
        /\ totalDiscount'[f] - totalDiscount[f]
             = new("DISCOUNT_ADD") - new("DISCOUNT_WAIVE")

\* A penalty or discount total moves only together with the audit rows that
\* explain the move.
TotalsMoveWithAudit == [][TotalsExplained]_vars

\* A step that reopens a PAID bill is a bounce or takes a discount back.
ReopeningExplained ==
    \A f \in created :
        paymentStatus[f] = "PAID" /\ paymentStatus'[f] # "PAID" =>
            \/ totalDiscount'[f] < totalDiscount[f]
            \/ \E p \in PaymentIds : /\ feeOf[p] = f
                                     /\ clearance'[p] = "BOUNCED"
                                     /\ paidAmount'[f] < paidAmount[f]

\* A PAID bill is reopened only by a cheque that bounces after clearing or by
\* a discount taken back: never by a penalty, a payment or a late clearance.
PaidReopensOnlyByBounceOrDiscountWaiver == [][ReopeningExplained]_vars

Overpaid(f) == paidAmount[f] > netAmount[f] + Tolerance

\* The bill's net_amount was clamped to 0 by the upload and still is.
Clamped(f) == totalDiscount[f] > originalAmount[f] /\ netAmount[f] = 0

\* A step that leaves a bill overpaid waives a penalty, clears a cheque, or
\* is the first to recompute a net_amount the upload had clamped.
OverpaymentExplained ==
    \A f \in created :
        ~Overpaid(f) /\ Overpaid(f)' =>
            \/ totalPenalty'[f] < totalPenalty[f]
            \/ Clamped(f) /\ netAmount'[f] < 0
            \/ \E p \in PaymentIds : /\ feeOf[p] = f
                                     /\ clearance[p] = "PENDING"
                                     /\ clearance'[p] = "CLEARED"

\* A bill becomes overpaid only when a penalty is waived after it was paid,
\* when a cheque clears that was accepted against the same balance as another
\* payment, or when an adjustment recomputes below 0 the net_amount of a bill
\* uploaded with a discount above its amount.
OverpaidOnlyByWaiverOrCheque == [][OverpaymentExplained]_vars
=============================================================================
