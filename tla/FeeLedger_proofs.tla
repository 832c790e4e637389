-------------------------- MODULE FeeLedger_proofs --------------------------
(***************************************************************************)
(* Proofs about FeeLedger, for any bills, rows and requests: what its      *)
(* columns have to do with each other and, in the second part, that        *)
(* paid_amount is the sum of the fee_payments rows that count.             *)
(***************************************************************************)
EXTENDS FeeLedger, SetLemmas

(***************************************************************************)
(* A bill that was never uploaded has nothing paid or adjusted, and no row *)
(* of fee_payments refers to it.                                           *)
(***************************************************************************)
Untouched ==
    /\ \A f \in Fees \ created :
          /\ totalPenalty[f] = 0
          /\ paidAmount[f] = 0
          /\ \A k \in Kinds : adjusted[f][k] = 0
    /\ \A p \in PaymentIds : feeOf[p] \in created \cup {NoFee}

ColumnsInv ==
    /\ TypeOK
    /\ Untouched
    /\ NetFollowsTotals
    /\ StatusFollowsAmounts

(***************************************************************************)
(* What the shared tail of the eight adjustment handlers keeps.            *)
(***************************************************************************)
LEMMA AdjustKeepsColumns ==
    ASSUME ColumnsInv,
           NEW hit \in SUBSET created,
           NEW penalty \in [Fees -> Nat],
           NEW discount \in [Fees -> Nat],
           NEW kind \in Kinds,
           NEW logged \in [Fees -> Nat],
           Adjust(hit, penalty, discount, kind, logged)
    PROVE  ColumnsInv'
  <1> USE DEF ColumnsInv, Adjust, Net
  <1>1. TypeOK'
    BY DEF TypeOK, rowVars, DeriveStatus, PaymentStates
  <1>2. Untouched'
    BY DEF TypeOK, Untouched, rowVars
  <1>3. NetFollowsTotals'
    BY DEF TypeOK, NetFollowsTotals, rowVars
  <1>4. StatusFollowsAmounts'
    BY DEF TypeOK, StatusFollowsAmounts, rowVars
  <1>5. QED
    BY <1>1, <1>2, <1>3, <1>4

\* What the columns of a bill and an amount give the helper.
LEMMA ColumnTypes ==
    ASSUME ColumnsInv, NEW n \in Nat
    PROVE  /\ totalPenalty \in [Fees -> Nat]
           /\ totalDiscount \in [Fees -> Nat]
           /\ Same(n) \in [Fees -> Nat]
           /\ [f \in Fees |-> totalPenalty[f] + n] \in [Fees -> Nat]
           /\ [f \in Fees |-> totalDiscount[f] + n] \in [Fees -> Nat]
           /\ \A f \in created :
                /\ [totalPenalty EXCEPT ![f] = @ + n] \in [Fees -> Nat]
                /\ [totalDiscount EXCEPT ![f] = @ + n] \in [Fees -> Nat]
                /\ [totalPenalty EXCEPT ![f] = @ - Least(n, @)]
                     \in [Fees -> Nat]
                /\ [totalDiscount EXCEPT ![f] = @ - Least(n, @)]
                     \in [Fees -> Nat]
                /\ Same(Least(n, totalPenalty[f])) \in [Fees -> Nat]
                /\ Same(Least(n, totalDiscount[f])) \in [Fees -> Nat]
  BY DEF ColumnsInv, TypeOK, Same, Least

LEMMA BulkAdjustmentKeepsColumns ==
    ASSUME ColumnsInv, NEW scope \in SUBSET created, BulkAdjustment(scope)
    PROVE  ColumnsInv'
  <1> USE ColumnTypes, FeesAssumption DEF Kinds
  <1>1. ASSUME NEW amount \in Amounts, AddPenaltyForStudents(scope, amount)
        PROVE  ColumnsInv'
    <2> DEFINE hit == {f \in scope : paymentStatus[f] # "PAID"}
               penalty == [f \in Fees |-> totalPenalty[f] + amount]
    <2>1. Adjust(hit, penalty, totalDiscount, "PENALTY_ADD", Same(amount))
      BY <1>1 DEF AddPenaltyForStudents
    <2>2. hit \in SUBSET created /\ penalty \in [Fees -> Nat]
      OBVIOUS
    <2> HIDE DEF hit, penalty
    <2>3. QED
      BY <2>1, <2>2, AdjustKeepsColumns
  <1>2. CASE WaivePenaltyForStudents(scope)
    BY <1>2, AdjustKeepsColumns DEF WaivePenaltyForStudents
  <1>3. ASSUME NEW amount \in Amounts, AddDiscountForStudents(scope, amount)
        PROVE  ColumnsInv'
    <2> DEFINE discount == [f \in Fees |-> totalDiscount[f] + amount]
               hit == {f \in scope :
                         /\ paymentStatus[f] # "PAID"
                         /\ Net(originalAmount[f], totalPenalty[f], discount[f])
                              >= paidAmount[f]}
    <2>1. Adjust(hit, totalPenalty, discount, "DISCOUNT_ADD", Same(amount))
      BY <1>3 DEF AddDiscountForStudents
    <2>2. hit \in SUBSET created /\ discount \in [Fees -> Nat]
      OBVIOUS
    <2> HIDE DEF hit, discount
    <2>3. QED
      BY <2>1, <2>2, AdjustKeepsColumns
  <1>4. CASE WaiveDiscountForStudents(scope)
    BY <1>4, AdjustKeepsColumns DEF WaiveDiscountForStudents
  <1>5. QED
    BY <1>1, <1>2, <1>3, <1>4 DEF BulkAdjustment

LEMMA FeeAdjustmentKeepsColumns ==
    ASSUME ColumnsInv, NEW f \in created, NEW amount \in Amounts,
           FeeAdjustment(f, amount)
    PROVE  ColumnsInv'
  <1>0. /\ {f} \in SUBSET created
        /\ totalPenalty \in [Fees -> Nat]
        /\ totalDiscount \in [Fees -> Nat]
        /\ Same(amount) \in [Fees -> Nat]
        /\ amount \in Nat
    BY FeesAssumption, ColumnTypes
  <1>1. CASE AddPenaltyToFee(f, amount)
    <2> DEFINE penalty == [totalPenalty EXCEPT ![f] = @ + amount]
    <2>1. Adjust({f}, penalty, totalDiscount, "PENALTY_ADD", Same(amount))
      BY <1>1 DEF AddPenaltyToFee
    <2>2. penalty \in [Fees -> Nat]
      BY <1>0, ColumnTypes
    <2> HIDE DEF penalty
    <2>3. QED
      BY <1>0, <2>1, <2>2, AdjustKeepsColumns DEF Kinds
  <1>2. CASE WaivePenaltyOnFee(f, amount)
    <2> DEFINE waived == Least(amount, totalPenalty[f])
               penalty == [totalPenalty EXCEPT ![f] = @ - waived]
    <2>1. Adjust({f}, penalty, totalDiscount, "PENALTY_WAIVE", Same(waived))
      BY <1>2 DEF WaivePenaltyOnFee
    <2>2. penalty \in [Fees -> Nat] /\ Same(waived) \in [Fees -> Nat]
      BY <1>0, ColumnTypes
    <2> HIDE DEF waived, penalty
    <2>3. QED
      BY <1>0, <2>1, <2>2, AdjustKeepsColumns DEF Kinds
  <1>3. CASE AddDiscount(f, amount)
    <2> DEFINE discount == [totalDiscount EXCEPT ![f] = @ + amount]
    <2>1. Adjust({f}, totalPenalty, discount, "DISCOUNT_ADD", Same(amount))
      BY <1>3 DEF AddDiscount
    <2>2. discount \in [Fees -> Nat]
      BY <1>0, ColumnTypes
    <2> HIDE DEF discount
    <2>3. QED
      BY <1>0, <2>1, <2>2, AdjustKeepsColumns DEF Kinds
  <1>4. CASE WaiveDiscountOnFee(f, amount)
    <2> DEFINE waived == Least(amount, totalDiscount[f])
               discount == [totalDiscount EXCEPT ![f] = @ - waived]
    <2>1. Adjust({f}, totalPenalty, discount, "DISCOUNT_WAIVE", Same(waived))
      BY <1>4 DEF WaiveDiscountOnFee
    <2>2. discount \in [Fees -> Nat] /\ Same(waived) \in [Fees -> Nat]
      BY <1>0, ColumnTypes
    <2> HIDE DEF waived, discount
    <2>3. QED
      BY <1>0, <2>1, <2>2, AdjustKeepsColumns DEF Kinds
  <1>5. QED
    BY <1>1, <1>2, <1>3, <1>4 DEF FeeAdjustment

LEMMA PaymentKeepsColumns ==
    ASSUME ColumnsInv, NEW f \in created, NEW amount \in Amounts, NEW type,
           RecordPayment(f, amount, type)
    PROVE  ColumnsInv'
  <1> USE FeesAssumption DEF ColumnsInv, RecordPayment, billVars
  <1>0. /\ amount \in Nat
        /\ rows + 1 \in PaymentIds
        /\ f \in Fees
        /\ paidAmount[f] + amount \in Nat
    BY DEF TypeOK, PaymentIds
  <1>1. TypeOK'
    <2>1. rows' \in 0 .. MaxFeePayments
      BY DEF TypeOK
    <2>2. /\ feeOf' \in [PaymentIds -> Fees \cup {NoFee}]
          /\ amountOf' \in [PaymentIds -> Nat]
          /\ clearance' \in [PaymentIds -> ClearanceStates]
      BY <1>0 DEF TypeOK, ClearanceStates
    <2>3. /\ paidAmount' \in [Fees -> Nat]
          /\ paymentStatus' \in [Fees -> PaymentStates]
      <3>1. CASE type \in ClearingTypes
        BY <3>1 DEF TypeOK
      <3>2. CASE type \notin ClearingTypes
        <4>1. DeriveStatus(paidAmount[f] + amount, netAmount[f]) \in PaymentStates
          BY DEF DeriveStatus, PaymentStates
        <4>2. /\ paidAmount' = [paidAmount EXCEPT ![f] = paidAmount[f] + amount]
              /\ paymentStatus' =
                   [paymentStatus EXCEPT ![f] =
                      DeriveStatus(paidAmount[f] + amount, netAmount[f])]
          BY <3>2
        <4>3. paidAmount' \in [Fees -> Nat]
          BY <1>0, <4>2 DEF TypeOK
        <4>4. QED
          BY <4>1, <4>2, <4>3 DEF TypeOK
      <3>3. QED
        BY <3>1, <3>2
    <2>4. QED
      BY <2>1, <2>2, <2>3 DEF TypeOK
  <1>2. Untouched'
    BY DEF TypeOK, Untouched
  <1>3. NetFollowsTotals'
    BY DEF TypeOK, NetFollowsTotals
  <1>4. StatusFollowsAmounts'
    BY <1>0, SMTT(30) DEF TypeOK, StatusFollowsAmounts
  <1>5. QED
    BY <1>1, <1>2, <1>3, <1>4

LEMMA CommitKeepsColumns ==
    ASSUME ColumnsInv, NEW o \in Operators, CommitClearance(o)
    PROVE  ColumnsInv'
  <1> USE FeesAssumption, NoRequestAssumption
      DEF ColumnsInv, CommitClearance, billVars
  <1> DEFINE r == request[o]
             f == feeOf[r.payment]
  <1>0. /\ r \in Requests
        /\ r.payment \in PaymentIds
        /\ r.status \in ClearanceStates
        /\ f \in created \cup {NoFee}
    BY DEF TypeOK, Requests, ClearanceStates, Untouched
  <1>1. f \in Fees => PaidAfter(f, r) \in Nat
    BY <1>0 DEF TypeOK, PaidAfter, AtLeastZero
  <1>2. TypeOK'
    BY <1>0, <1>1 DEF TypeOK, DeriveStatus, PaymentStates
  <1>3. Untouched'
    BY <1>0 DEF TypeOK, Untouched
  <1>4. NetFollowsTotals'
    BY DEF TypeOK, NetFollowsTotals
  <1>5. StatusFollowsAmounts'
    BY <1>0 DEF TypeOK, StatusFollowsAmounts
  <1>6. QED
    BY <1>2, <1>3, <1>4, <1>5

LEMMA BulkCreateKeepsColumns ==
    ASSUME ColumnsInv,
           NEW bills \in SUBSET Fees,
           NEW original \in [Fees -> OriginalAmounts],
           NEW discount \in [Fees -> UploadDiscounts],
           BulkCreate(bills, original, discount)
    PROVE  ColumnsInv'
  <1> USE FeesAssumption DEF ColumnsInv, BulkCreate, rowVars
  <1>0. \A f \in Fees : original[f] \in Nat /\ discount[f] \in Nat
    OBVIOUS
  <1>1. TypeOK'
    BY <1>0 DEF TypeOK, AtLeastZero
  <1>2. Untouched'
    BY DEF TypeOK, Untouched
  <1>3. NetFollowsTotals'
    BY <1>0 DEF TypeOK, Untouched, NetFollowsTotals, Net, AtLeastZero
  <1>4. StatusFollowsAmounts'
    BY DEF TypeOK, Untouched, StatusFollowsAmounts, DeriveStatus
  <1>5. QED
    BY <1>1, <1>2, <1>3, <1>4

LEMMA ColumnsInductive == ColumnsInv /\ [Next]_vars => ColumnsInv'
  <1> SUFFICES ASSUME ColumnsInv, [Next]_vars
               PROVE  ColumnsInv'
    OBVIOUS
  <1>1. ASSUME NEW bills \in SUBSET Fees,
               NEW original \in [Fees -> OriginalAmounts],
               NEW discount \in [Fees -> UploadDiscounts],
               BulkCreate(bills, original, discount)
        PROVE  ColumnsInv'
    BY <1>1, BulkCreateKeepsColumns
  <1>2. ASSUME NEW scope \in SUBSET created, BulkAdjustment(scope)
        PROVE  ColumnsInv'
    BY <1>2, BulkAdjustmentKeepsColumns
  <1>3. ASSUME NEW f \in created, NEW amount \in Amounts,
               FeeAdjustment(f, amount)
        PROVE  ColumnsInv'
    BY <1>3, FeeAdjustmentKeepsColumns
  <1>4. ASSUME NEW f \in created, NEW amount \in Amounts, Payment(f, amount)
        PROVE  ColumnsInv'
    BY <1>4, PaymentKeepsColumns
       DEF Payment, RecordOfflinePayment, RecordOnlinePayment
  <1>5. ASSUME NEW o \in Operators, Clearance(o)
        PROVE  ColumnsInv'
    <2>1. ASSUME NEW p \in PaymentIds, NEW status \in Settled,
                 ReadClearance(o, p, status)
          PROVE  ColumnsInv'
      BY <2>1 DEF ColumnsInv, TypeOK, Untouched, NetFollowsTotals,
                  StatusFollowsAmounts, ReadClearance, Requests,
                  billVars, rowVars
    <2>2. CASE CommitClearance(o)
      BY <2>2, CommitKeepsColumns
    <2>3. CASE AbortClearance(o)
      BY <2>3 DEF ColumnsInv, TypeOK, Untouched, NetFollowsTotals,
                  StatusFollowsAmounts, AbortClearance, billVars, rowVars
    <2>4. QED
      BY <1>5, <2>1, <2>2, <2>3 DEF Clearance
  <1>6. CASE UNCHANGED vars
    BY <1>6 DEF ColumnsInv, TypeOK, Untouched, NetFollowsTotals,
                StatusFollowsAmounts, vars, billVars, rowVars
  <1>7. QED
    BY <1>1, <1>2, <1>3, <1>4, <1>5, <1>6 DEF Next

LEMMA ColumnsInitially == Init => ColumnsInv
  BY FeesAssumption
     DEF Init, Same, ColumnsInv, TypeOK, Untouched, NetFollowsTotals,
         StatusFollowsAmounts, DeriveStatus, PaymentStates, ClearanceStates

LEMMA ColumnsAlways == Spec => []ColumnsInv
  <1>1. QED
    BY ColumnsInitially, ColumnsInductive, PTL DEF Spec

\* Every column of fees, fee_payments and fee_adjustments keeps its domain.
THEOREM TypeCorrect == Spec => []TypeOK
  <1>1. ColumnsInv => TypeOK
    BY DEF ColumnsInv
  <1>2. QED
    BY <1>1, ColumnsAlways, PTL

\* net_amount and payment_status are never stale, whatever handlers ran in
\* whatever order (recomputeDerived, deriveStatus).
THEOREM DerivedCorrect == Spec => []DerivedColumnsFollow
  <1>1. ColumnsInv => DerivedColumnsFollow
    BY DEF ColumnsInv, DerivedColumnsFollow
  <1>2. QED
    BY <1>1, ColumnsAlways, PTL

-----------------------------------------------------------------------------
(* The action properties.                                                  *)

\* What a bill has in penalties is what its audit rows say.  (Of discounts
\* this is false: an upload brings one without an audit row.)
PenaltyAudited ==
    \A f \in Fees :
        totalPenalty[f] =
            adjusted[f]["PENALTY_ADD"] - adjusted[f]["PENALTY_WAIVE"]

Explained == TotalsExplained /\ ReopeningExplained /\ PenaltyAudited'

\* The rows logged for the bills hit are the differences of their totals.
LogsDifference(hit, penalty, discount, kind, logged) ==
    \A f \in hit :
        /\ penalty[f] - totalPenalty[f] =
             (IF kind = "PENALTY_ADD" THEN logged[f] ELSE 0)
               - (IF kind = "PENALTY_WAIVE" THEN logged[f] ELSE 0)
        /\ discount[f] - totalDiscount[f] =
             (IF kind = "DISCOUNT_ADD" THEN logged[f] ELSE 0)
               - (IF kind = "DISCOUNT_WAIVE" THEN logged[f] ELSE 0)

\* No bill hit is PAID, unless its discount shrinks.
SparesPaid(hit, discount) ==
    \A f \in hit : \/ paymentStatus[f] # "PAID"
                   \/ discount[f] < totalDiscount[f]

LEMMA AdjustIsExplained ==
    ASSUME ColumnsInv, PenaltyAudited,
           NEW hit \in SUBSET created,
           NEW penalty \in [Fees -> Nat],
           NEW discount \in [Fees -> Nat],
           NEW kind \in Kinds,
           NEW logged \in [Fees -> Nat],
           Adjust(hit, penalty, discount, kind, logged),
           LogsDifference(hit, penalty, discount, kind, logged),
           SparesPaid(hit, discount)
    PROVE  Explained
  <1>1. TotalsExplained
    <2> SUFFICES ASSUME NEW f \in created
                 PROVE  /\ totalPenalty'[f] - totalPenalty[f] =
                             (adjusted'[f]["PENALTY_ADD"]
                                - adjusted[f]["PENALTY_ADD"])
                             - (adjusted'[f]["PENALTY_WAIVE"]
                                  - adjusted[f]["PENALTY_WAIVE"])
                        /\ totalDiscount'[f] - totalDiscount[f] =
                             (adjusted'[f]["DISCOUNT_ADD"]
                                - adjusted[f]["DISCOUNT_ADD"])
                             - (adjusted'[f]["DISCOUNT_WAIVE"]
                                  - adjusted[f]["DISCOUNT_WAIVE"])
      BY DEF TotalsExplained
    <2>1. /\ f \in Fees
          /\ totalPenalty[f] \in Nat /\ totalDiscount[f] \in Nat
          /\ penalty[f] \in Nat /\ discount[f] \in Nat /\ logged[f] \in Nat
          /\ \A k \in Kinds : adjusted[f][k] \in Nat
      BY DEF ColumnsInv, TypeOK
    <2>2. CASE f \in hit
      <3>1. \A k \in Kinds : adjusted'[f][k] =
              IF k = kind THEN adjusted[f][k] + logged[f] ELSE adjusted[f][k]
        BY <2>1, <2>2 DEF Adjust
      <3>2. totalPenalty'[f] = penalty[f] /\ totalDiscount'[f] = discount[f]
        BY <2>1, <2>2 DEF Adjust
      <3>3. /\ \A k \in Kinds : adjusted'[f][k] - adjusted[f][k] =
                 IF k = kind THEN logged[f] ELSE 0
        BY <2>1, <3>1
      <3>4. QED
        BY <2>1, <2>2, <3>2, <3>3 DEF Kinds, LogsDifference
    <2>3. CASE f \notin hit
      <3>1. /\ totalPenalty'[f] = totalPenalty[f]
            /\ totalDiscount'[f] = totalDiscount[f]
            /\ \A k \in Kinds : adjusted'[f][k] = adjusted[f][k]
        BY <2>1, <2>3 DEF Adjust
      <3>2. QED
        BY <2>1, <3>1 DEF Kinds
    <2>4. QED
      BY <2>2, <2>3
  <1>2. ReopeningExplained
    BY DEF Adjust, SparesPaid, ReopeningExplained, ColumnsInv, TypeOK
  <1>3. PenaltyAudited'
    <2> SUFFICES ASSUME NEW f \in Fees
                 PROVE  totalPenalty'[f] =
                          adjusted'[f]["PENALTY_ADD"]
                            - adjusted'[f]["PENALTY_WAIVE"]
      BY DEF PenaltyAudited
    <2>1. /\ totalPenalty[f] \in Nat
          /\ penalty[f] \in Nat /\ logged[f] \in Nat
          /\ \A k \in Kinds : adjusted[f][k] \in Nat
          /\ totalPenalty[f] =
               adjusted[f]["PENALTY_ADD"] - adjusted[f]["PENALTY_WAIVE"]
      BY DEF ColumnsInv, TypeOK, PenaltyAudited
    <2>2. \A k \in Kinds : adjusted'[f][k] =
            IF f \in hit /\ k = kind THEN adjusted[f][k] + logged[f]
                                     ELSE adjusted[f][k]
      BY DEF Adjust
    <2>3. totalPenalty'[f] = IF f \in hit THEN penalty[f] ELSE totalPenalty[f]
      BY DEF Adjust
    <2>4. CASE f \in hit
      <3>1. \A k \in Kinds : adjusted'[f][k] =
              IF k = kind THEN adjusted[f][k] + logged[f] ELSE adjusted[f][k]
        BY <2>2, <2>4
      <3>2. penalty[f] - totalPenalty[f] =
              (IF kind = "PENALTY_ADD" THEN logged[f] ELSE 0)
                - (IF kind = "PENALTY_WAIVE" THEN logged[f] ELSE 0)
        BY <2>4 DEF LogsDifference
      <3>3. totalPenalty'[f] = penalty[f]
        BY <2>3, <2>4
      <3>4. /\ adjusted[f]["PENALTY_ADD"] \in Nat
            /\ adjusted[f]["PENALTY_WAIVE"] \in Nat
            /\ adjusted'[f]["PENALTY_ADD"] =
                 IF kind = "PENALTY_ADD"
                 THEN adjusted[f]["PENALTY_ADD"] + logged[f]
                 ELSE adjusted[f]["PENALTY_ADD"]
            /\ adjusted'[f]["PENALTY_WAIVE"] =
                 IF kind = "PENALTY_WAIVE"
                 THEN adjusted[f]["PENALTY_WAIVE"] + logged[f]
                 ELSE adjusted[f]["PENALTY_WAIVE"]
        BY <2>1, <3>1 DEF Kinds
      <3>5. QED
        BY <2>1, <3>2, <3>3, <3>4, SMTT(30)
    <2>5. CASE f \notin hit
      BY <2>1, <2>2, <2>3, <2>5 DEF Kinds
    <2>6. QED
      BY <2>4, <2>5
  <1>4. QED
    BY <1>1, <1>2, <1>3 DEF Explained

LEMMA BulkAdjustmentIsExplained ==
    ASSUME ColumnsInv, PenaltyAudited, NEW scope \in SUBSET created,
           BulkAdjustment(scope)
    PROVE  Explained
  <1> USE DEF Kinds
  <1>0. /\ totalPenalty \in [Fees -> Nat]
        /\ totalDiscount \in [Fees -> Nat]
        /\ Same(0) \in [Fees -> Nat]
        /\ Amounts \subseteq Nat
        /\ scope \subseteq Fees
        /\ scope \subseteq created
    BY FeesAssumption DEF Same, ColumnsInv, TypeOK
  <1>1. ASSUME NEW amount \in Amounts, AddPenaltyForStudents(scope, amount)
        PROVE  Explained
    <2> DEFINE hit == {f \in scope : paymentStatus[f] # "PAID"}
               penalty == [f \in Fees |-> totalPenalty[f] + amount]
    <2>1. Adjust(hit, penalty, totalDiscount, "PENALTY_ADD", Same(amount))
      BY <1>1 DEF AddPenaltyForStudents
    <2>2. /\ hit \in SUBSET created
          /\ penalty \in [Fees -> Nat]
          /\ Same(amount) \in [Fees -> Nat]
      <3>1. hit \in SUBSET created
        BY <1>0
      <3>2. penalty \in [Fees -> Nat] /\ Same(amount) \in [Fees -> Nat]
        BY <1>0 DEF Same
      <3>3. QED
        BY <3>1, <3>2
    <2>3. LogsDifference(hit, penalty, totalDiscount, "PENALTY_ADD",
                         Same(amount))
      BY <1>0 DEF Same, LogsDifference
    <2>4. SparesPaid(hit, totalDiscount)
      BY DEF SparesPaid
    <2> HIDE DEF hit, penalty
    <2>5. QED
      BY <1>0, <2>1, <2>2, <2>3, <2>4, AdjustIsExplained
  <1>2. CASE WaivePenaltyForStudents(scope)
    <2> DEFINE hit == {f \in scope : /\ paymentStatus[f] # "PAID"
                                     /\ totalPenalty[f] # 0}
    <2>1. Adjust(hit, Same(0), totalDiscount, "PENALTY_WAIVE", totalPenalty)
      BY <1>2 DEF WaivePenaltyForStudents
    <2>2. hit \in SUBSET created
      BY <1>0 DEF Same
    <2>3. LogsDifference(hit, Same(0), totalDiscount, "PENALTY_WAIVE",
                         totalPenalty)
      BY <1>0 DEF Same, LogsDifference
    <2>4. SparesPaid(hit, totalDiscount)
      BY DEF SparesPaid
    <2> HIDE DEF hit
    <2>5. QED
      BY <1>0, <2>1, <2>2, <2>3, <2>4, AdjustIsExplained
  <1>3. ASSUME NEW amount \in Amounts, AddDiscountForStudents(scope, amount)
        PROVE  Explained
    <2> DEFINE discount == [f \in Fees |-> totalDiscount[f] + amount]
               hit == {f \in scope :
                         /\ paymentStatus[f] # "PAID"
                         /\ Net(originalAmount[f], totalPenalty[f], discount[f])
                              >= paidAmount[f]}
    <2>1. Adjust(hit, totalPenalty, discount, "DISCOUNT_ADD", Same(amount))
      BY <1>3 DEF AddDiscountForStudents
    <2>2. /\ hit \in SUBSET created
          /\ discount \in [Fees -> Nat]
          /\ Same(amount) \in [Fees -> Nat]
      <3>1. hit \in SUBSET created
        BY <1>0
      <3>2. discount \in [Fees -> Nat] /\ Same(amount) \in [Fees -> Nat]
        BY <1>0 DEF Same
      <3>3. QED
        BY <3>1, <3>2
    <2>3. LogsDifference(hit, totalPenalty, discount, "DISCOUNT_ADD",
                         Same(amount))
      BY <1>0 DEF Same, LogsDifference
    <2>4. SparesPaid(hit, discount)
      BY DEF SparesPaid
    <2> HIDE DEF hit, discount
    <2>5. QED
      BY <1>0, <2>1, <2>2, <2>3, <2>4, AdjustIsExplained
  <1>4. CASE WaiveDiscountForStudents(scope)
    <2> DEFINE hit == {f \in scope :
                         /\ paymentStatus[f] # "PAID"
                         /\ totalDiscount[f] # 0
                         /\ Net(originalAmount[f], totalPenalty[f], 0)
                              >= paidAmount[f]}
    <2>1. Adjust(hit, totalPenalty, Same(0), "DISCOUNT_WAIVE", totalDiscount)
      BY <1>4 DEF WaiveDiscountForStudents
    <2>2. hit \in SUBSET created
      BY <1>0 DEF Same
    <2>3. LogsDifference(hit, totalPenalty, Same(0), "DISCOUNT_WAIVE",
                         totalDiscount)
      BY <1>0 DEF Same, LogsDifference
    <2>4. SparesPaid(hit, Same(0))
      BY DEF SparesPaid
    <2> HIDE DEF hit
    <2>5. QED
      BY <1>0, <2>1, <2>2, <2>3, <2>4, AdjustIsExplained
  <1>5. QED
    BY <1>1, <1>2, <1>3, <1>4 DEF BulkAdjustment

LEMMA FeeAdjustmentIsExplained ==
    ASSUME ColumnsInv, PenaltyAudited,
           NEW f \in created, NEW amount \in Amounts,
           FeeAdjustment(f, amount)
    PROVE  Explained
  <1>0. /\ {f} \in SUBSET created
        /\ f \in Fees
        /\ originalAmount[f] \in Nat
        /\ paidAmount[f] \in Nat
        /\ totalPenalty[f] \in Nat
        /\ totalDiscount[f] \in Nat
        /\ totalPenalty \in [Fees -> Nat]
        /\ totalDiscount \in [Fees -> Nat]
        /\ Same(amount) \in [Fees -> Nat]
        /\ amount \in Nat \ {0}
    BY FeesAssumption, ColumnTypes DEF ColumnsInv, TypeOK
  <1>1. CASE AddPenaltyToFee(f, amount)
    <2> DEFINE penalty == [totalPenalty EXCEPT ![f] = @ + amount]
    <2>1. Adjust({f}, penalty, totalDiscount, "PENALTY_ADD", Same(amount))
      BY <1>1 DEF AddPenaltyToFee
    <2>2. penalty \in [Fees -> Nat]
      BY <1>0, ColumnTypes
    <2>3. LogsDifference({f}, penalty, totalDiscount, "PENALTY_ADD",
                         Same(amount))
      <3>1. amount \in Nat
        BY <1>0
      <3>2. penalty[f] = totalPenalty[f] + amount /\ Same(amount)[f] = amount
        BY <1>0 DEF Same
      <3> HIDE DEF penalty
      <3>3. QED
        BY <1>0, <3>1, <3>2 DEF LogsDifference
    <2>4. SparesPaid({f}, totalDiscount)
      BY <1>0, <1>1 DEF SparesPaid, AddPenaltyToFee
    <2> HIDE DEF penalty
    <2>5. QED
      BY <1>0, <2>1, <2>2, <2>3, <2>4, AdjustIsExplained DEF Kinds
  <1>2. CASE WaivePenaltyOnFee(f, amount)
    <2> DEFINE waived == Least(amount, totalPenalty[f])
               penalty == [totalPenalty EXCEPT ![f] = @ - waived]
    <2>1. Adjust({f}, penalty, totalDiscount, "PENALTY_WAIVE", Same(waived))
      BY <1>2 DEF WaivePenaltyOnFee
    <2>2. penalty \in [Fees -> Nat] /\ Same(waived) \in [Fees -> Nat]
      BY <1>0, ColumnTypes
    <2>3. LogsDifference({f}, penalty, totalDiscount, "PENALTY_WAIVE",
                         Same(waived))
      <3>1. waived \in Nat
        BY <1>0 DEF Least
      <3>2. penalty[f] = totalPenalty[f] - waived /\ Same(waived)[f] = waived
        BY <1>0 DEF Same
      <3> HIDE DEF penalty, waived
      <3>3. QED
        BY <1>0, <3>1, <3>2 DEF LogsDifference
    <2>4. SparesPaid({f}, totalDiscount)
      BY <1>0, <1>2 DEF SparesPaid, WaivePenaltyOnFee, Least
    <2> HIDE DEF waived, penalty
    <2>5. QED
      BY <1>0, <2>1, <2>2, <2>3, <2>4, AdjustIsExplained DEF Kinds
  <1>3. CASE AddDiscount(f, amount)
    <2> DEFINE discount == [totalDiscount EXCEPT ![f] = @ + amount]
    <2>1. Adjust({f}, totalPenalty, discount, "DISCOUNT_ADD", Same(amount))
      BY <1>3 DEF AddDiscount
    <2>2. discount \in [Fees -> Nat]
      BY <1>0, ColumnTypes
    <2>3. LogsDifference({f}, totalPenalty, discount, "DISCOUNT_ADD",
                         Same(amount))
      <3>1. amount \in Nat
        BY <1>0
      <3>2. discount[f] = totalDiscount[f] + amount /\ Same(amount)[f] = amount
        BY <1>0 DEF Same
      <3> HIDE DEF discount
      <3>3. QED
        BY <1>0, <3>1, <3>2 DEF LogsDifference
    <2>4. SparesPaid({f}, discount)
      <3> SUFFICES ASSUME paymentStatus[f] = "PAID" PROVE FALSE
        BY DEF SparesPaid
      <3>1. paidAmount[f] # 0 /\ paidAmount[f] >= netAmount[f]
        BY <1>0 DEF ColumnsInv, TypeOK, StatusFollowsAmounts, DeriveStatus
      <3>2. originalAmount[f] + totalPenalty[f] - (totalDiscount[f] + amount)
              >= paidAmount[f]
        BY <1>0, <1>3 DEF AddDiscount, Net
      <3>3. \/ netAmount[f] =
                 originalAmount[f] + totalPenalty[f] - totalDiscount[f]
            \/ /\ totalDiscount[f] > originalAmount[f]
               /\ netAmount[f] = 0
               /\ \A k \in Kinds : adjusted[f][k] = 0
        BY DEF ColumnsInv, NetFollowsTotals, Net
      <3>0. totalPenalty[f] =
              adjusted[f]["PENALTY_ADD"] - adjusted[f]["PENALTY_WAIVE"]
        BY <1>0 DEF PenaltyAudited
      <3>4. QED
        BY <1>0, <3>0, <3>1, <3>2, <3>3 DEF Kinds
    <2> HIDE DEF discount
    <2>5. QED
      BY <1>0, <2>1, <2>2, <2>3, <2>4, AdjustIsExplained DEF Kinds
  <1>4. CASE WaiveDiscountOnFee(f, amount)
    <2> DEFINE waived == Least(amount, totalDiscount[f])
               discount == [totalDiscount EXCEPT ![f] = @ - waived]
    <2>1. Adjust({f}, totalPenalty, discount, "DISCOUNT_WAIVE", Same(waived))
      BY <1>4 DEF WaiveDiscountOnFee
    <2>2. discount \in [Fees -> Nat] /\ Same(waived) \in [Fees -> Nat]
      BY <1>0, ColumnTypes
    <2>3. LogsDifference({f}, totalPenalty, discount, "DISCOUNT_WAIVE",
                         Same(waived))
      <3>1. waived \in Nat
        BY <1>0 DEF Least
      <3>2. discount[f] = totalDiscount[f] - waived /\ Same(waived)[f] = waived
        BY <1>0 DEF Same
      <3> HIDE DEF discount, waived
      <3>3. QED
        BY <1>0, <3>1, <3>2 DEF LogsDifference
    <2>4. SparesPaid({f}, discount)
      BY <1>0, <1>4 DEF SparesPaid, WaiveDiscountOnFee, Least
    <2> HIDE DEF waived, discount
    <2>5. QED
      BY <1>0, <2>1, <2>2, <2>3, <2>4, AdjustIsExplained DEF Kinds
  <1>5. QED
    BY <1>1, <1>2, <1>3, <1>4 DEF FeeAdjustment

LEMMA CommitIsExplained ==
    ASSUME ColumnsInv, NEW o \in Operators, CommitClearance(o)
    PROVE  ReopeningExplained
  <1> DEFINE r == request[o]
  <1> SUFFICES ASSUME NEW f \in created,
                      paymentStatus[f] = "PAID",
                      paymentStatus'[f] # "PAID"
               PROVE  \E p \in PaymentIds : /\ feeOf[p] = f
                                            /\ clearance'[p] = "BOUNCED"
                                            /\ paidAmount'[f] < paidAmount[f]
    BY DEF ReopeningExplained
  <1>1. /\ r \in Requests
        /\ r.payment \in PaymentIds
        /\ f \in Fees
        /\ paidAmount[f] \in Nat
        /\ netAmount[f] \in Int
        /\ amountOf[r.payment] \in Nat
    BY NoRequestAssumption
       DEF ColumnsInv, TypeOK, CommitClearance, Requests
  <1>2. feeOf[r.payment] = f
    BY <1>1 DEF CommitClearance, ColumnsInv, TypeOK
  <1>3. /\ paidAmount'[f] = PaidAfter(f, r)
        /\ paymentStatus'[f] = DeriveStatus(PaidAfter(f, r), netAmount[f])
        /\ clearance'[r.payment] = r.status
    BY <1>1, <1>2 DEF CommitClearance, ColumnsInv, TypeOK
  <1>4. paidAmount[f] # 0 /\ paidAmount[f] >= netAmount[f]
    BY <1>1 DEF ColumnsInv, StatusFollowsAmounts, DeriveStatus
  <1>5. PaidAfter(f, r) < paidAmount[f]
    <2>1. PaidAfter(f, r) \in Nat
      BY <1>1 DEF PaidAfter, AtLeastZero
    <2>2. PaidAfter(f, r) = 0 \/ PaidAfter(f, r) < netAmount[f]
      BY <1>3 DEF DeriveStatus
    <2>3. QED
      BY <1>1, <1>4, <2>1, <2>2
  <1>6. r.status = "BOUNCED"
    BY <1>1, <1>5 DEF PaidAfter
  <1>7. QED
    BY <1>1, <1>2, <1>3, <1>5, <1>6

LEMMA PaymentIsExplained ==
    ASSUME ColumnsInv, NEW f \in created, NEW amount \in Amounts, NEW type,
           RecordPayment(f, amount, type)
    PROVE  ReopeningExplained
  <1> SUFFICES ASSUME NEW g \in created, paymentStatus[g] = "PAID"
               PROVE  paymentStatus'[g] = "PAID"
    BY DEF ReopeningExplained
  <1>1. /\ f \in Fees /\ g \in Fees
        /\ amount \in Nat
        /\ paidAmount[g] \in Nat
        /\ netAmount[g] \in Int
    BY FeesAssumption DEF ColumnsInv, TypeOK
  <1>2. paidAmount[g] # 0 /\ paidAmount[g] >= netAmount[g]
    BY <1>1 DEF ColumnsInv, StatusFollowsAmounts, DeriveStatus
  <1>3. CASE g = f /\ type \notin ClearingTypes
    BY <1>1, <1>2, <1>3
       DEF RecordPayment, DeriveStatus, ColumnsInv, TypeOK
  <1>4. CASE g # f \/ type \in ClearingTypes
    BY <1>1, <1>4 DEF RecordPayment, ColumnsInv, TypeOK
  <1>5. QED
    BY <1>3, <1>4

\* A step that leaves the totals and the audit alone is explained if it
\* reopens no bill without saying why.
LEMMA SameTotalsAreExplained ==
    ASSUME ColumnsInv, PenaltyAudited, ReopeningExplained,
           UNCHANGED <<totalPenalty, adjusted>>,
           \A f \in created : totalDiscount'[f] = totalDiscount[f]
    PROVE  Explained
  <1>1. \A f \in created :
           /\ f \in Fees
           /\ totalPenalty[f] \in Nat
           /\ totalDiscount[f] \in Nat
           /\ \A k \in Kinds : adjusted[f][k] \in Nat
    BY DEF ColumnsInv, TypeOK
  <1>2. TotalsExplained
    BY <1>1 DEF TotalsExplained, Kinds
  <1>3. PenaltyAudited'
    BY DEF PenaltyAudited
  <1>4. QED
    BY <1>2, <1>3 DEF Explained

LEMMA StepIsExplained ==
    ColumnsInv /\ PenaltyAudited /\ [Next]_vars => Explained
  <1> SUFFICES ASSUME ColumnsInv, PenaltyAudited, [Next]_vars
               PROVE  Explained
    OBVIOUS
  <1>1. ASSUME NEW bills \in SUBSET Fees,
               NEW original \in [Fees -> OriginalAmounts],
               NEW discount \in [Fees -> UploadDiscounts],
               BulkCreate(bills, original, discount)
        PROVE  Explained
    <2>1. UNCHANGED <<totalPenalty, adjusted, paymentStatus>>
      BY <1>1 DEF BulkCreate
    <2>2. \A f \in created : totalDiscount'[f] = totalDiscount[f]
      BY <1>1 DEF BulkCreate, ColumnsInv, TypeOK
    <2>3. QED
      BY <2>1, <2>2, SameTotalsAreExplained DEF ReopeningExplained
  <1>2. ASSUME NEW scope \in SUBSET created, BulkAdjustment(scope)
        PROVE  Explained
    BY <1>2, BulkAdjustmentIsExplained
  <1>3. ASSUME NEW f \in created, NEW amount \in Amounts,
               FeeAdjustment(f, amount)
        PROVE  Explained
    BY <1>3, FeeAdjustmentIsExplained
  <1>4. ASSUME NEW f \in created, NEW amount \in Amounts, Payment(f, amount)
        PROVE  Explained
    <2>1. PICK type : RecordPayment(f, amount, type)
      BY <1>4 DEF Payment, RecordOfflinePayment, RecordOnlinePayment
    <2>2. UNCHANGED <<totalPenalty, totalDiscount, adjusted>>
      BY <2>1 DEF RecordPayment, billVars
    <2>3. ReopeningExplained
      BY <2>1, PaymentIsExplained
    <2>4. QED
      BY <2>2, <2>3, SameTotalsAreExplained
  <1>5. ASSUME NEW o \in Operators, Clearance(o)
        PROVE  Explained
    <2>1. UNCHANGED <<totalPenalty, totalDiscount, adjusted>>
      BY <1>5 DEF Clearance, ReadClearance, CommitClearance, AbortClearance,
                  billVars
    <2>2. ReopeningExplained
      <3>1. CASE CommitClearance(o)
        BY <3>1, CommitIsExplained
      <3>2. CASE UNCHANGED paymentStatus
        BY <3>2 DEF ReopeningExplained
      <3>3. QED
        BY <1>5, <3>1, <3>2 DEF Clearance, ReadClearance, AbortClearance
    <2>3. QED
      BY <2>1, <2>2, SameTotalsAreExplained
  <1>6. CASE UNCHANGED vars
    <2>1. /\ UNCHANGED <<totalPenalty, totalDiscount, adjusted>>
          /\ UNCHANGED paymentStatus
      BY <1>6 DEF vars, billVars
    <2>2. QED
      BY <2>1, SameTotalsAreExplained DEF ReopeningExplained
  <1>7. QED
    BY <1>1, <1>2, <1>3, <1>4, <1>5, <1>6 DEF Next

LEMMA AuditInitially == Init => PenaltyAudited
  <1> SUFFICES ASSUME Init, NEW f \in Fees
               PROVE  totalPenalty[f] =
                        adjusted[f]["PENALTY_ADD"]
                          - adjusted[f]["PENALTY_WAIVE"]
    BY DEF PenaltyAudited
  <1>1. /\ totalPenalty[f] = 0
        /\ \A k \in Kinds : adjusted[f][k] = 0
    BY DEF Init, Same
  <1>2. QED
    BY <1>1 DEF Kinds

LEMMA AuditAlways == Spec => [](ColumnsInv /\ PenaltyAudited)
  <1>1. ColumnsInv /\ PenaltyAudited /\ [Next]_vars
          => (ColumnsInv /\ PenaltyAudited)'
    BY ColumnsInductive, StepIsExplained DEF Explained
  <1>2. QED
    BY <1>1, ColumnsInitially, AuditInitially, PTL DEF Spec

\* No handler moves a total of a bill without the audit rows that say so,
\* also when a waiver asks for more than there is (waivePenaltyOnFee).
THEOREM TotalsAudited == Spec => TotalsMoveWithAudit
  <1>1. ColumnsInv /\ PenaltyAudited /\ [Next]_vars => [TotalsExplained]_vars
    BY StepIsExplained DEF Explained
  <1>2. QED
    BY <1>1, AuditAlways, PTL DEF Spec, TotalsMoveWithAudit

\* Once PAID, a bill is reopened by a bounce or a discount taken back only,
\* whatever requests overlap (addPenaltyForStudents, updateClearance).
THEOREM ReopeningCorrect == Spec => PaidReopensOnlyByBounceOrDiscountWaiver
  <1>1. ColumnsInv /\ PenaltyAudited /\ [Next]_vars
          => [ReopeningExplained]_vars
    BY StepIsExplained DEF Explained
  <1>2. QED
    BY <1>1, AuditAlways, PTL
       DEF Spec, PaidReopensOnlyByBounceOrDiscountWaiver

-----------------------------------------------------------------------------
(* The balance: paid_amount and the rows of fee_payments.                  *)

(* It holds when the staff neither overlap two clearance requests on one   *)
(* cheque nor ask to clear a bounced one.  A sum over rows is a recursive  *)
(* function, and no prover here does induction over data.  The invariant   *)
(* therefore carries a WITNESS of the sum, a function g of running totals  *)
(* with g[i] = g[i-1] + Contribution, which each step updates from one row *)
(* on (first-order reasoning), and one lemma shows that any such witness   *)
(* is the recursive function.                                              *)

-----------------------------------------------------------------------------
(* Running totals.                                                         *)

Rows == 0 .. MaxFeePayments

\* g[i] is what rows 1 .. i contribute to the paid_amount of fee f.  The
\* monotonicity is what lets a bounce subtract without hitting the floor.
RunningTotal(f, g) ==
    /\ g \in [Rows -> Nat]
    /\ g[0] = 0
    /\ \A i \in PaymentIds : g[i] = g[i - 1] + Contribution(i, f)
    /\ \A i, j \in Rows : i <= j => g[i] <= g[j]

LEMMA ContributionType ==
    ASSUME TypeOK, NEW f \in Fees, NEW p \in PaymentIds
    PROVE  Contribution(p, f) \in Nat
  BY DEF TypeOK, Contribution

\* Two functions of running totals of the same rows are equal.
LEMMA RunningTotalUnique ==
    ASSUME TypeOK, NEW f \in Fees,
           NEW g, RunningTotal(f, g),
           NEW h, h = [n \in Rows |->
                         IF n = 0 THEN 0 ELSE h[n - 1] + Contribution(n, f)]
    PROVE  h = g
  <1> USE FeesAssumption
  <1> DEFINE S == {n \in Nat : n \in Rows => h[n] = g[n]}
  <1>1. 0 \in S
    BY DEF RunningTotal, Rows
  <1>2. ASSUME NEW n \in Nat, n \in S PROVE n + 1 \in S
    <2> SUFFICES ASSUME n + 1 \in Rows PROVE h[n + 1] = g[n + 1]
      OBVIOUS
    <2>1. n + 1 \in PaymentIds /\ n \in Rows /\ (n + 1) - 1 = n
      BY DEF Rows, PaymentIds
    <2>2. g[n + 1] = g[n] + Contribution(n + 1, f)
      BY <2>1 DEF RunningTotal
    <2>3. h[n + 1] = h[n] + Contribution(n + 1, f)
      BY <2>1
    <2>4. h[n] = g[n]
      BY <1>2, <2>1
    <2>5. QED
      BY <2>2, <2>3, <2>4
  <1>3. Nat \subseteq S
    <2> HIDE DEF S
    <2>1. QED
      BY <1>1, <1>2, SetInduction
  <1>4. \A n \in Rows : h[n] = g[n]
    BY <1>3 DEF Rows
  <1>5. QED
    BY <1>4 DEF RunningTotal

\* Hence the recursive sum of the model is any function of running totals.
LEMMA CollectedIsRunningTotal ==
    ASSUME TypeOK, NEW f \in Fees, NEW g, RunningTotal(f, g)
    PROVE  Collected(f) = g
  <1> DEFINE Step(h) == [n \in Rows |->
                 IF n = 0 THEN 0 ELSE h[n - 1] + Contribution(n, f)]
  <1>1. g = Step(g)
    BY FeesAssumption DEF RunningTotal, Rows, PaymentIds
  <1>2. Collected(f) = CHOOSE h : h = Step(h)
    BY DEF Collected, Rows
  <1>3. Collected(f) = Step(Collected(f))
    BY <1>1, <1>2
  <1>4. QED
    BY <1>3, RunningTotalUnique
-----------------------------------------------------------------------------
(* The inductive invariant.                                                *)

\* Rows are inserted in order, each with its bill and clearance status.
RowsInv ==
    \A p \in PaymentIds :
        IF p <= rows THEN feeOf[p] \in Fees /\ clearance[p] # "NONE"
                     ELSE feeOf[p] = NoFee

\* With careful staff, what a request read is still true when it commits.
RequestsInv ==
    /\ \A o \in Operators : request[o] # NoRequest =>
          LET r == request[o] IN
          /\ r.payment <= rows
          /\ r.seen = clearance[r.payment]
          /\ r.seen \notin {"NA", r.status}
          /\ ~(r.seen = "BOUNCED" /\ r.status = "CLEARED")
    /\ \A o1, o2 \in Operators :
          /\ request[o1] # NoRequest
          /\ request[o2] # NoRequest
          /\ request[o1].payment = request[o2].payment
          => o1 = o2

PaidInv ==
    \A f \in Fees :
        \E g : RunningTotal(f, g) /\ g[MaxFeePayments] = paidAmount[f]

BalanceInv == TypeOK /\ RowsInv /\ RequestsInv /\ PaidInv

LEMMA BalanceInitially == Init => BalanceInv
  <1> SUFFICES ASSUME Init PROVE BalanceInv
    OBVIOUS
  <1> USE FeesAssumption
  <1>1. TypeOK
    BY ColumnsInitially DEF ColumnsInv
  <1>2. RowsInv
    BY DEF Init, RowsInv, PaymentIds
  <1>3. RequestsInv
    BY DEF Init, RequestsInv
  <1>4. ASSUME NEW f \in Fees
        PROVE  \E g : RunningTotal(f, g) /\ g[MaxFeePayments] = paidAmount[f]
    <2> DEFINE g == [i \in Rows |-> 0]
    <2>1. \A p \in PaymentIds : Contribution(p, f) = 0
      BY DEF Init, Contribution, Counts
    <2>2. RunningTotal(f, g)
      BY <2>1 DEF RunningTotal, Rows, PaymentIds
    <2>3. g[MaxFeePayments] = paidAmount[f]
      BY DEF Init, Same, Rows
    <2>4. QED
      BY <2>2, <2>3
  <1>5. QED
    BY <1>1, <1>2, <1>3, <1>4 DEF BalanceInv, PaidInv

(***************************************************************************)
(* Changing the contribution of row k by d (d may be negative, but not     *)
(* below what row k contributed) shifts the running totals from k on.      *)
(***************************************************************************)
LEMMA ShiftRunningTotal ==
    ASSUME TypeOK, TypeOK', NEW f \in Fees, NEW g, RunningTotal(f, g),
           NEW k \in PaymentIds, NEW d \in Int,
           Contribution(k, f)' = Contribution(k, f) + d,
           \A p \in PaymentIds \ {k} : Contribution(p, f)' = Contribution(p, f)
    PROVE  \E h : RunningTotal(f, h)' /\ h[MaxFeePayments] = g[MaxFeePayments] + d
  <1> USE FeesAssumption
  <1> DEFINE h == [i \in Rows |-> IF i < k THEN g[i] ELSE g[i] + d]
  <1>0. /\ Contribution(k, f) \in Nat
        /\ Contribution(k, f)' \in Nat
        /\ g[k - 1] \in Nat
        /\ g[k] = g[k - 1] + Contribution(k, f)
    BY ContributionType DEF RunningTotal, Rows, PaymentIds, TypeOK, Contribution
  <1>1. \A i \in Rows : i < k => g[i] <= g[k - 1]
    BY DEF RunningTotal, Rows, PaymentIds
  <1>2. \A i \in Rows : i >= k => g[i] \in Nat /\ g[i] >= g[k]
    BY DEF RunningTotal, Rows, PaymentIds
  <1>3. h \in [Rows -> Nat]
    BY <1>0, <1>2, SMTT(30) DEF RunningTotal, Rows, PaymentIds
  <1>4. h[0] = 0
    BY DEF RunningTotal, Rows, PaymentIds
  <1>5. ASSUME NEW i \in PaymentIds
        PROVE  h[i] = h[i - 1] + Contribution(i, f)'
    <2>1. /\ g[i] = g[i - 1] + Contribution(i, f)
          /\ g[i - 1] \in Nat /\ g[i] \in Nat
          /\ i - 1 \in Rows /\ i \in Rows
          /\ Contribution(i, f) \in Nat
      BY ContributionType DEF RunningTotal, Rows, PaymentIds
    <2>2. CASE i = k
      BY <2>1, <2>2, <1>0 DEF PaymentIds
    <2>3. CASE i # k
      BY <2>1, <2>3 DEF PaymentIds
    <2>4. QED
      BY <2>2, <2>3
  <1>6. ASSUME NEW i \in Rows, NEW j \in Rows, i <= j
        PROVE  h[i] <= h[j]
    <2>1. g[i] \in Nat /\ g[j] \in Nat /\ g[i] <= g[j]
      BY <1>6 DEF RunningTotal
    <2>2. CASE i < k /\ k <= j
      BY <2>1, <2>2, <1>0, <1>1, <1>2 DEF Rows, PaymentIds
    <2>3. CASE ~(i < k /\ k <= j)
      BY <2>1, <2>3, <1>6 DEF Rows, PaymentIds
    <2>4. QED
      BY <2>2, <2>3
  <1>7. h[MaxFeePayments] = g[MaxFeePayments] + d
    BY DEF Rows, PaymentIds
  <1> HIDE DEF h
  <1>8. RunningTotal(f, h)'
    BY <1>3, <1>4, <1>5, <1>6 DEF RunningTotal
  <1>9. QED
    BY <1>7, <1>8

-----------------------------------------------------------------------------
(* The steps.                                                              *)

\* A step that leaves the rows and paid_amount alone leaves the sums alone.
LEMMA SameRowsKeepPaid ==
    ASSUME TypeOK, TypeOK', PaidInv, RowsInv,
           UNCHANGED <<paidAmount, rowVars>>
    PROVE  PaidInv' /\ RowsInv'
  <1>1. \A p \in PaymentIds, f \in Fees : Contribution(p, f)' = Contribution(p, f)
    BY DEF Contribution, Counts, rowVars
  <1>2. ASSUME NEW f \in Fees, NEW g, RunningTotal(f, g)
        PROVE  RunningTotal(f, g)'
    BY <1>1, <1>2 DEF RunningTotal
  <1>3. PaidInv'
    BY <1>2 DEF PaidInv, rowVars
  <1>4. RowsInv'
    BY DEF RowsInv, rowVars
  <1>5. QED
    BY <1>3, <1>4

\* A row's contribution moves by d and so does the bill's paid_amount.
LEMMA MovedRowKeepsPaid ==
    ASSUME TypeOK, TypeOK', PaidInv,
           NEW k \in PaymentIds, NEW e \in Fees, NEW d \in Int,
           feeOf'[k] = e,
           Contribution(k, e)' = Contribution(k, e) + d,
           \A f \in Fees \ {e} : Contribution(k, f)' = Contribution(k, f),
           \A p \in PaymentIds \ {k}, f \in Fees :
              Contribution(p, f)' = Contribution(p, f),
           paidAmount' = [paidAmount EXCEPT ![e] = @ + d]
    PROVE  PaidInv'
  <1> SUFFICES ASSUME NEW f \in Fees
               PROVE  \E h : RunningTotal(f, h)'
                             /\ h[MaxFeePayments] = paidAmount'[f]
    BY DEF PaidInv
  <1>1. PICK g : RunningTotal(f, g) /\ g[MaxFeePayments] = paidAmount[f]
    BY DEF PaidInv
  <1>2. CASE f = e
    <2>1. PICK h : RunningTotal(f, h)'
                   /\ h[MaxFeePayments] = g[MaxFeePayments] + d
      BY <1>1, <1>2, ShiftRunningTotal
    <2>2. QED
      BY <1>1, <1>2, <2>1 DEF TypeOK
  <1>3. CASE f # e
    <2>1. \A p \in PaymentIds : Contribution(p, f)' = Contribution(p, f)
      BY <1>3
    <2>2. RunningTotal(f, g)'
      BY <1>1, <2>1 DEF RunningTotal
    <2>3. paidAmount'[f] = paidAmount[f]
      BY <1>3 DEF TypeOK
    <2>4. QED
      BY <1>1, <2>2, <2>3
  <1>4. QED
    BY <1>2, <1>3

LEMMA PaymentKeepsBalance ==
    ASSUME BalanceInv, TypeOK',
           NEW e \in created, NEW amount \in Amounts, NEW type,
           RecordPayment(e, amount, type)
    PROVE  BalanceInv'
  <1> USE FeesAssumption
  <1> DEFINE d == IF type \in ClearingTypes THEN 0 ELSE amount
  <1>a. PICK k : k = rows + 1
    OBVIOUS
  <1>0. /\ k \in PaymentIds /\ e \in Fees /\ amount \in Nat /\ d \in Int
        /\ rows \in Nat
    BY <1>a DEF BalanceInv, TypeOK, RecordPayment, PaymentIds
  <1>1. /\ rows' = k
        /\ feeOf' = [feeOf EXCEPT ![k] = e]
        /\ amountOf' = [amountOf EXCEPT ![k] = amount]
        /\ clearance' = [clearance EXCEPT
             ![k] = IF type \notin ClearingTypes THEN "NA" ELSE "PENDING"]
        /\ request' = request
    BY <1>a DEF RecordPayment
  <1>2. RowsInv'
    BY <1>0, <1>a, <1>1 DEF BalanceInv, TypeOK, RowsInv, PaymentIds
  <1>3. RequestsInv'
    <2>1. ASSUME NEW o \in Operators, request[o] # NoRequest
          PROVE  /\ request[o].payment <= rows
                 /\ clearance'[request[o].payment]
                      = clearance[request[o].payment]
      BY <1>0, <1>a, <1>1, <2>1, SMTT(30)
         DEF BalanceInv, TypeOK, RequestsInv, Requests, PaymentIds
    <2>2. ASSUME NEW o \in Operators, request[o] # NoRequest
          PROVE  request[o].payment <= rows'
      BY <1>0, <1>a, <1>1, <2>1, <2>2, SMTT(30)
         DEF BalanceInv, TypeOK, Requests, PaymentIds
    <2>3. QED
      BY <1>1, <2>1, <2>2 DEF BalanceInv, RequestsInv
  <1>4. PaidInv'
    <2>1. feeOf[k] = NoFee /\ feeOf'[k] = e
      BY <1>0, <1>a, <1>1 DEF BalanceInv, TypeOK, RowsInv
    <2>2. Contribution(k, e) = 0 /\ Contribution(k, e)' = d
      BY <1>0, <1>1, <2>1 DEF BalanceInv, TypeOK, Contribution, Counts
    <2>3. \A f \in Fees \ {e} : Contribution(k, f)' = Contribution(k, f)
      BY <1>0, <1>1, <2>1 DEF Contribution, Counts
    <2>4. \A p \in PaymentIds \ {k}, f \in Fees :
             Contribution(p, f)' = Contribution(p, f)
      BY <1>0, <1>1 DEF BalanceInv, TypeOK, Contribution, Counts
    <2>5. paidAmount' = [paidAmount EXCEPT ![e] = @ + d]
      BY <1>0 DEF RecordPayment, BalanceInv, TypeOK
    <2>6. Contribution(k, e)' = Contribution(k, e) + d
      BY <1>0, <2>2
    <2> HIDE DEF d
    <2>7. QED
      BY <1>0, <2>1, <2>3, <2>4, <2>5, <2>6, MovedRowKeepsPaid DEF BalanceInv
  <1>5. QED
    BY <1>2, <1>3, <1>4 DEF BalanceInv

LEMMA CommitKeepsBalance ==
    ASSUME BalanceInv, TypeOK', NEW o \in Operators, CommitClearance(o)
    PROVE  BalanceInv'
  <1> USE FeesAssumption, NoRequestAssumption
  <1>a. PICK r, k, e : r = request[o] /\ k = r.payment /\ e = feeOf[k]
    OBVIOUS
  <1> DEFINE d == IF r.seen = "PENDING" /\ r.status = "CLEARED"
                  THEN amountOf[k]
                  ELSE IF r.seen = "CLEARED" /\ r.status = "BOUNCED"
                  THEN -amountOf[k] ELSE 0
  <1>1. /\ r \in Requests /\ k \in PaymentIds /\ k <= rows /\ e \in Fees
        /\ r.status \in Settled
        /\ amountOf[k] \in Nat
        /\ r.seen = clearance[k]
        /\ r.seen \notin {"NA", r.status}
        /\ \/ r.seen = "PENDING"
           \/ r.seen = "CLEARED" /\ r.status = "BOUNCED"
    BY <1>a DEF BalanceInv, TypeOK, RowsInv, RequestsInv, Requests,
                CommitClearance, ClearanceStates, Settled
  <1>2. /\ clearance' = [clearance EXCEPT ![k] = r.status]
        /\ request' = [request EXCEPT ![o] = NoRequest]
        /\ rows' = rows /\ feeOf' = feeOf /\ amountOf' = amountOf
        /\ paidAmount' = [paidAmount EXCEPT ![e] = PaidAfter(e, r)]
    BY <1>a DEF CommitClearance
  <1>3. RowsInv'
    BY <1>1, <1>2 DEF BalanceInv, TypeOK, RowsInv, Settled
  <1>4. RequestsInv'
    BY <1>a, <1>1, <1>2 DEF BalanceInv, TypeOK, RequestsInv, Requests
  <1>5. PaidInv'
    <2>1. Contribution(k, e)' = Contribution(k, e) + d
      BY <1>a, <1>1, <1>2 DEF BalanceInv, TypeOK, Contribution, Counts,
                              Settled
    <2>2. \A f \in Fees \ {e} : Contribution(k, f)' = Contribution(k, f)
      BY <1>a, <1>2 DEF Contribution, Counts
    <2>3. \A p \in PaymentIds \ {k}, f \in Fees :
             Contribution(p, f)' = Contribution(p, f)
      BY <1>a, <1>2 DEF BalanceInv, TypeOK, Contribution, Counts
    <2>4. clearance[k] = "CLEARED" => amountOf[k] <= paidAmount[e]
      <3>1. PICK g : RunningTotal(e, g) /\ g[MaxFeePayments] = paidAmount[e]
        BY <1>1 DEF BalanceInv, PaidInv
      <3>2. /\ g[k] = g[k - 1] + Contribution(k, e)
            /\ g[k - 1] \in Nat
            /\ g[k] <= g[MaxFeePayments]
            /\ g[k] \in Nat /\ paidAmount[e] \in Nat
        BY <1>1, <3>1 DEF RunningTotal, Rows, PaymentIds, BalanceInv, TypeOK
      <3>3. clearance[k] = "CLEARED" => Contribution(k, e) = amountOf[k]
        BY <1>a DEF Contribution, Counts
      <3>4. QED
        BY <1>1, <3>1, <3>2, <3>3
    <2>5. PaidAfter(e, r) = paidAmount[e] + d
      <3>1. paidAmount[e] \in Nat /\ amountOf[k] \in Nat
        BY <1>1 DEF BalanceInv, TypeOK
      <3>2. amountOf[r.payment] = amountOf[k]
        BY <1>a
      <3>3. CASE r.seen = "PENDING"
        BY <3>1, <3>2, <3>3 DEF PaidAfter
      <3>4. CASE r.seen = "CLEARED" /\ r.status = "BOUNCED"
        BY <1>1, <2>4, <3>1, <3>2, <3>4 DEF PaidAfter, AtLeastZero
      <3>5. QED
        BY <1>1, <3>3, <3>4
    <2>6. d \in Int
      BY <1>1
    <2>7. feeOf'[k] = e
      BY <1>a, <1>2
    <2>8. paidAmount' = [paidAmount EXCEPT ![e] = @ + d]
      BY <1>2, <2>5
    <2> HIDE DEF d
    <2>9. QED
      BY <1>1, <2>1, <2>2, <2>3, <2>6, <2>7, <2>8, MovedRowKeepsPaid
         DEF BalanceInv
  <1>6. QED
    BY <1>3, <1>4, <1>5 DEF BalanceInv

LEMMA BalanceInductive ==
    ASSUME ~ReclearBounced, ~OverlappingClearance,
           BalanceInv, ColumnsInv, [Next]_vars
    PROVE  BalanceInv'
  <1>0. TypeOK'
    BY ColumnsInductive DEF ColumnsInv
  <1>1. ASSUME UNCHANGED <<paidAmount, rowVars, request>>
        PROVE  BalanceInv'
    BY <1>0, <1>1, SameRowsKeepPaid DEF BalanceInv, RequestsInv, rowVars
  <1>2. ASSUME NEW bills \in SUBSET Fees,
               NEW original \in [Fees -> OriginalAmounts],
               NEW discount \in [Fees -> UploadDiscounts],
               BulkCreate(bills, original, discount)
        PROVE  BalanceInv'
    BY <1>1, <1>2 DEF BulkCreate
  <1>3. ASSUME NEW scope \in SUBSET created, BulkAdjustment(scope)
        PROVE  BalanceInv'
    BY <1>1, <1>3 DEF BulkAdjustment, AddPenaltyForStudents,
       WaivePenaltyForStudents, AddDiscountForStudents,
       WaiveDiscountForStudents, Adjust
  <1>4. ASSUME NEW f \in created, NEW amount \in Amounts,
               FeeAdjustment(f, amount)
        PROVE  BalanceInv'
    BY <1>1, <1>4 DEF FeeAdjustment, AddPenaltyToFee, WaivePenaltyOnFee,
       AddDiscount, WaiveDiscountOnFee, Adjust
  <1>5. ASSUME NEW f \in created, NEW amount \in Amounts, Payment(f, amount)
        PROVE  BalanceInv'
    BY <1>0, <1>5, PaymentKeepsBalance
       DEF Payment, RecordOfflinePayment, RecordOnlinePayment
  <1>6. ASSUME NEW o \in Operators, Clearance(o)
        PROVE  BalanceInv'
    <2>1. ASSUME NEW p \in PaymentIds, NEW status \in Settled,
                 ReadClearance(o, p, status)
          PROVE  BalanceInv'
      <3>1. RequestsInv'
        BY <2>1, NoRequestAssumption
           DEF BalanceInv, TypeOK, RequestsInv, ReadClearance, StaffMayAsk,
               Requests, rowVars
      <3>2. UNCHANGED <<paidAmount, rowVars>>
        BY <2>1 DEF ReadClearance
      <3>3. QED
        BY <1>0, <3>1, <3>2, SameRowsKeepPaid DEF BalanceInv
    <2>2. CASE CommitClearance(o)
      BY <1>0, <2>2, CommitKeepsBalance
    <2>3. CASE AbortClearance(o)
      <3>1. RequestsInv'
        BY <2>3 DEF BalanceInv, TypeOK, RequestsInv, AbortClearance, rowVars
      <3>2. UNCHANGED <<paidAmount, rowVars>>
        BY <2>3 DEF AbortClearance
      <3>3. QED
        BY <1>0, <3>1, <3>2, SameRowsKeepPaid DEF BalanceInv
    <2>4. QED
      BY <1>6, <2>1, <2>2, <2>3 DEF Clearance
  <1>7. CASE UNCHANGED vars
    BY <1>1, <1>7 DEF vars
  <1>8. QED
    BY <1>2, <1>3, <1>4, <1>5, <1>6, <1>7 DEF Next

LEMMA BalanceImpliesLedger == BalanceInv => LedgerBalanced
  BY CollectedIsRunningTotal DEF BalanceInv, PaidInv, LedgerBalanced

\* paid_amount of every bill is the sum of the fee_payments rows that count,
\* as long as no two clearance requests on one cheque overlap and nobody
\* asks to clear a bounced cheque.
THEOREM LedgerCorrect ==
    ASSUME ~ReclearBounced, ~OverlappingClearance
    PROVE  Spec => []LedgerBalanced
  <1>1. BalanceInv /\ ColumnsInv /\ [Next]_vars => BalanceInv'
    BY BalanceInductive
  <1>2. QED
    BY <1>1, BalanceInitially, BalanceImpliesLedger, ColumnsAlways, PTL
       DEF Spec

-----------------------------------------------------------------------------
(* How a bill becomes overpaid.                                            *)

\* An adjustment overpays a bill only if it waives a penalty of it, or finds
\* its net_amount clamped: otherwise it raises the net or has compared it
\* with what was paid.
Covers(hit, penalty, discount) ==
    \A f \in hit :
        \/ penalty[f] < totalPenalty[f]
        \/ Net(originalAmount[f], penalty[f], discount[f]) >= paidAmount[f]
        \/ Net(originalAmount[f], penalty[f], discount[f]) >=
             Net(originalAmount[f], totalPenalty[f], totalDiscount[f])

LEMMA AdjustOverpays ==
    ASSUME ColumnsInv,
           NEW hit \in SUBSET created,
           NEW penalty \in [Fees -> Nat],
           NEW discount \in [Fees -> Nat],
           NEW kind \in Kinds,
           NEW logged \in [Fees -> Nat],
           Adjust(hit, penalty, discount, kind, logged),
           Covers(hit, penalty, discount)
    PROVE  OverpaymentExplained
  <1> SUFFICES ASSUME NEW f \in created, ~Overpaid(f), Overpaid(f)'
               PROVE  \/ totalPenalty'[f] < totalPenalty[f]
                      \/ Clamped(f) /\ netAmount'[f] < 0
    BY DEF OverpaymentExplained
  <1> DEFINE newNet == Net(originalAmount[f], penalty[f], discount[f])
             oldNet == Net(originalAmount[f], totalPenalty[f],
                           totalDiscount[f])
  <1>1. /\ f \in Fees
        /\ originalAmount[f] \in Nat
        /\ totalPenalty[f] \in Nat /\ penalty[f] \in Nat
        /\ totalDiscount[f] \in Nat /\ discount[f] \in Nat
        /\ paidAmount[f] \in Nat
        /\ netAmount[f] \in Int
        /\ paidAmount'[f] = paidAmount[f]
    BY DEF ColumnsInv, TypeOK, Adjust
  <1>2. newNet \in Int /\ oldNet \in Int
    BY <1>1 DEF Net
  <1>3. netAmount'[f] = IF f \in hit THEN newNet ELSE netAmount[f]
    BY <1>1 DEF Adjust
  <1>4. f \in hit
    BY <1>1, <1>3 DEF Overpaid
  <1>5. totalPenalty'[f] = penalty[f]
    BY <1>1, <1>4 DEF Adjust
  <1>6. newNet < paidAmount[f]
    <2> HIDE DEF newNet
    <2>1. QED
      BY <1>1, <1>2, <1>3, <1>4 DEF Overpaid, Tolerance
  <1>7. penalty[f] < totalPenalty[f] \/ newNet >= oldNet
    BY <1>1, <1>2, <1>4, <1>6 DEF Covers
  <1>8. CASE netAmount[f] = oldNet
    <2> HIDE DEF newNet, oldNet
    <2>1. QED
      BY <1>1, <1>2, <1>3, <1>4, <1>5, <1>7, <1>8 DEF Overpaid, Tolerance
  <1>9. CASE netAmount[f] # oldNet
    <2>1. Clamped(f)
      BY <1>9 DEF ColumnsInv, NetFollowsTotals, Clamped
    <2>2. netAmount[f] = 0
      BY <2>1 DEF Clamped
    <2> HIDE DEF newNet, oldNet
    <2>3. netAmount'[f] < 0
      BY <1>1, <1>2, <1>3, <1>4, <2>2 DEF Overpaid, Tolerance
    <2>4. QED
      BY <2>1, <2>3
  <1>10. QED
    BY <1>8, <1>9

LEMMA BulkAdjustmentOverpays ==
    ASSUME ColumnsInv, NEW scope \in SUBSET created, BulkAdjustment(scope)
    PROVE  OverpaymentExplained
  <1>0. /\ originalAmount \in [Fees -> Nat]
        /\ totalPenalty \in [Fees -> Nat]
        /\ totalDiscount \in [Fees -> Nat]
        /\ Same(0) \in [Fees -> Nat]
        /\ \A n \in Nat : Same(n) \in [Fees -> Nat]
        /\ Amounts \subseteq Nat
        /\ scope \subseteq Fees
        /\ scope \subseteq created
    BY FeesAssumption DEF Same, ColumnsInv, TypeOK
  <1>1. ASSUME NEW amount \in Amounts, AddPenaltyForStudents(scope, amount)
        PROVE  OverpaymentExplained
    <2> DEFINE hit == {f \in scope : paymentStatus[f] # "PAID"}
               penalty == [f \in Fees |-> totalPenalty[f] + amount]
    <2>1. Adjust(hit, penalty, totalDiscount, "PENALTY_ADD", Same(amount))
      BY <1>1 DEF AddPenaltyForStudents
    <2>2. hit \in SUBSET created /\ hit \subseteq Fees
      BY <1>0
    <2>3. penalty \in [Fees -> Nat] /\ Same(amount) \in [Fees -> Nat]
      BY <1>0
    <2>4. \A f \in Fees : penalty[f] = totalPenalty[f] + amount
      OBVIOUS
    <2> HIDE DEF hit, penalty
    <2>5. Covers(hit, penalty, totalDiscount)
      <3> SUFFICES ASSUME NEW f \in hit
                   PROVE  Net(originalAmount[f], penalty[f], totalDiscount[f])
                            >= Net(originalAmount[f], totalPenalty[f],
                                   totalDiscount[f])
        BY DEF Covers
      <3>1. /\ penalty[f] = totalPenalty[f] + amount
            /\ amount \in Nat
            /\ originalAmount[f] \in Nat
            /\ totalPenalty[f] \in Nat
            /\ totalDiscount[f] \in Nat
        BY <1>0, <2>2, <2>4
      <3>2. QED
        BY <3>1 DEF Net
    <2>6. QED
      BY <1>0, <2>1, <2>2, <2>3, <2>5, AdjustOverpays DEF Kinds
  <1>2. CASE WaivePenaltyForStudents(scope)
    <2> DEFINE hit == {f \in scope : /\ paymentStatus[f] # "PAID"
                                     /\ totalPenalty[f] # 0}
    <2>1. Adjust(hit, Same(0), totalDiscount, "PENALTY_WAIVE", totalPenalty)
      BY <1>2 DEF WaivePenaltyForStudents
    <2>2. hit \in SUBSET created
      BY <1>0
    <2>3. Covers(hit, Same(0), totalDiscount)
      BY <1>0 DEF Covers, Same
    <2> HIDE DEF hit
    <2>4. QED
      BY <1>0, <2>1, <2>2, <2>3, AdjustOverpays DEF Kinds
  <1>3. ASSUME NEW amount \in Amounts, AddDiscountForStudents(scope, amount)
        PROVE  OverpaymentExplained
    <2> DEFINE discount == [f \in Fees |-> totalDiscount[f] + amount]
               hit == {f \in scope :
                         /\ paymentStatus[f] # "PAID"
                         /\ Net(originalAmount[f], totalPenalty[f], discount[f])
                              >= paidAmount[f]}
    <2>1. Adjust(hit, totalPenalty, discount, "DISCOUNT_ADD", Same(amount))
      BY <1>3 DEF AddDiscountForStudents
    <2>2. discount \in [Fees -> Nat] /\ Same(amount) \in [Fees -> Nat]
      BY <1>0
    <2> HIDE DEF discount
    <2>3. hit \in SUBSET created
      BY <1>0
    <2>4. Covers(hit, totalPenalty, discount)
      BY DEF Covers
    <2> HIDE DEF hit
    <2>5. QED
      BY <1>0, <2>1, <2>2, <2>3, <2>4, AdjustOverpays DEF Kinds
  <1>4. CASE WaiveDiscountForStudents(scope)
    <2> DEFINE hit == {f \in scope :
                         /\ paymentStatus[f] # "PAID"
                         /\ totalDiscount[f] # 0
                         /\ Net(originalAmount[f], totalPenalty[f], 0)
                              >= paidAmount[f]}
    <2>1. Adjust(hit, totalPenalty, Same(0), "DISCOUNT_WAIVE", totalDiscount)
      BY <1>4 DEF WaiveDiscountForStudents
    <2>2. hit \in SUBSET created
      BY <1>0
    <2>3. Covers(hit, totalPenalty, Same(0))
      BY <1>0 DEF Covers, Same
    <2> HIDE DEF hit
    <2>4. QED
      BY <1>0, <2>1, <2>2, <2>3, AdjustOverpays DEF Kinds
  <1>5. QED
    BY <1>1, <1>2, <1>3, <1>4 DEF BulkAdjustment

LEMMA FeeAdjustmentOverpays ==
    ASSUME ColumnsInv, NEW f \in created, NEW amount \in Amounts,
           FeeAdjustment(f, amount)
    PROVE  OverpaymentExplained
  <1>0. /\ {f} \in SUBSET created
        /\ f \in Fees
        /\ originalAmount[f] \in Nat
        /\ totalPenalty[f] \in Nat
        /\ totalDiscount[f] \in Nat
        /\ totalPenalty \in [Fees -> Nat]
        /\ totalDiscount \in [Fees -> Nat]
        /\ Same(amount) \in [Fees -> Nat]
        /\ amount \in Nat \ {0}
    BY FeesAssumption, ColumnTypes DEF ColumnsInv, TypeOK
  <1>1. CASE AddPenaltyToFee(f, amount)
    <2> DEFINE penalty == [totalPenalty EXCEPT ![f] = @ + amount]
    <2>1. Adjust({f}, penalty, totalDiscount, "PENALTY_ADD", Same(amount))
      BY <1>1 DEF AddPenaltyToFee
    <2>2. penalty \in [Fees -> Nat]
      BY <1>0, ColumnTypes
    <2>3. penalty[f] = totalPenalty[f] + amount
      BY <1>0
    <2> HIDE DEF penalty
    <2>4. Covers({f}, penalty, totalDiscount)
      BY <1>0, <2>3 DEF Covers, Net
    <2>5. QED
      BY <1>0, <2>1, <2>2, <2>4, AdjustOverpays DEF Kinds
  <1>2. CASE WaivePenaltyOnFee(f, amount)
    <2> DEFINE waived == Least(amount, totalPenalty[f])
               penalty == [totalPenalty EXCEPT ![f] = @ - waived]
    <2>1. Adjust({f}, penalty, totalDiscount, "PENALTY_WAIVE", Same(waived))
      BY <1>2 DEF WaivePenaltyOnFee
    <2>2. penalty \in [Fees -> Nat] /\ Same(waived) \in [Fees -> Nat]
      BY <1>0, ColumnTypes
    <2>3. penalty[f] < totalPenalty[f]
      BY <1>0, <1>2 DEF Least, WaivePenaltyOnFee
    <2> HIDE DEF waived, penalty
    <2>4. Covers({f}, penalty, totalDiscount)
      BY <2>3 DEF Covers
    <2>5. QED
      BY <1>0, <2>1, <2>2, <2>4, AdjustOverpays DEF Kinds
  <1>3. CASE AddDiscount(f, amount)
    <2> DEFINE discount == [totalDiscount EXCEPT ![f] = @ + amount]
    <2>1. Adjust({f}, totalPenalty, discount, "DISCOUNT_ADD", Same(amount))
      BY <1>3 DEF AddDiscount
    <2>2. discount \in [Fees -> Nat]
      BY <1>0, ColumnTypes
    <2>3. Covers({f}, totalPenalty, discount)
      BY <1>3 DEF Covers, AddDiscount
    <2> HIDE DEF discount
    <2>4. QED
      BY <1>0, <2>1, <2>2, <2>3, AdjustOverpays DEF Kinds
  <1>4. CASE WaiveDiscountOnFee(f, amount)
    <2> DEFINE waived == Least(amount, totalDiscount[f])
               discount == [totalDiscount EXCEPT ![f] = @ - waived]
    <2>1. Adjust({f}, totalPenalty, discount, "DISCOUNT_WAIVE", Same(waived))
      BY <1>4 DEF WaiveDiscountOnFee
    <2>2. discount \in [Fees -> Nat] /\ Same(waived) \in [Fees -> Nat]
      BY <1>0, ColumnTypes
    <2>3. Covers({f}, totalPenalty, discount)
      BY <1>4 DEF Covers, WaiveDiscountOnFee
    <2> HIDE DEF waived, discount
    <2>4. QED
      BY <1>0, <2>1, <2>2, <2>3, AdjustOverpays DEF Kinds
  <1>5. QED
    BY <1>1, <1>2, <1>3, <1>4 DEF FeeAdjustment

LEMMA PaymentNeverOverpays ==
    ASSUME ColumnsInv, NEW f \in created, NEW amount \in Amounts, NEW type,
           RecordPayment(f, amount, type)
    PROVE  OverpaymentExplained
  <1> SUFFICES ASSUME NEW g \in created, ~Overpaid(g) PROVE ~Overpaid(g)'
    BY DEF OverpaymentExplained
  <1>1. /\ f \in Fees /\ g \in Fees
        /\ amount \in Nat
        /\ \A h \in Fees : paidAmount[h] \in Nat /\ netAmount[h] \in Int
        /\ netAmount' = netAmount
    BY FeesAssumption DEF ColumnsInv, TypeOK, RecordPayment, billVars
  <1>2. CASE g = f /\ type \notin ClearingTypes
    <2>1. paidAmount'[f] = paidAmount[f] + amount
      BY <1>1, <1>2 DEF RecordPayment, ColumnsInv, TypeOK
    <2>2. amount <= netAmount[f] - paidAmount[f] + Tolerance
      BY DEF RecordPayment
    <2>3. QED
      BY <1>1, <1>2, <2>1, <2>2 DEF Overpaid, Tolerance
  <1>3. CASE g # f \/ type \in ClearingTypes
    BY <1>1, <1>3 DEF RecordPayment, Overpaid, ColumnsInv, TypeOK
  <1>4. QED
    BY <1>2, <1>3

\* Careful staff act on the status the cheque still has.
LEMMA CommitOverpays ==
    ASSUME ColumnsInv, RequestsInv, NEW o \in Operators, CommitClearance(o)
    PROVE  OverpaymentExplained
  <1> DEFINE r == request[o]
  <1> SUFFICES ASSUME NEW f \in created, ~Overpaid(f), Overpaid(f)'
               PROVE  \E p \in PaymentIds : /\ feeOf[p] = f
                                            /\ clearance[p] = "PENDING"
                                            /\ clearance'[p] = "CLEARED"
    BY DEF OverpaymentExplained
  <1>1. /\ request[o] # NoRequest
        /\ r \in Requests
        /\ r.payment \in PaymentIds
        /\ f \in Fees
        /\ paidAmount[f] \in Nat
        /\ netAmount[f] \in Int
        /\ netAmount' = netAmount
        /\ amountOf[r.payment] \in Nat
    BY NoRequestAssumption
       DEF ColumnsInv, TypeOK, CommitClearance, Requests, billVars
  <1>2. feeOf[r.payment] = f
    BY <1>1 DEF CommitClearance, ColumnsInv, TypeOK, Overpaid
  <1>3. /\ paidAmount'[f] = PaidAfter(f, r)
        /\ clearance'[r.payment] = r.status
    BY <1>1, <1>2 DEF CommitClearance, ColumnsInv, TypeOK
  <1>4. PaidAfter(f, r) > paidAmount[f]
    <2>1. PaidAfter(f, r) \in Nat
      BY <1>1 DEF PaidAfter, AtLeastZero
    <2>2. QED
      BY <1>1, <1>3, <2>1 DEF Overpaid, Tolerance
  <1>5. r.seen = "PENDING" /\ r.status = "CLEARED"
    BY <1>1, <1>4 DEF PaidAfter, AtLeastZero
  <1>6. clearance[r.payment] = "PENDING"
    BY <1>1, <1>5 DEF RequestsInv
  <1>7. QED
    BY <1>1, <1>2, <1>3, <1>5, <1>6

LEMMA StepOverpays ==
    ColumnsInv /\ RequestsInv /\ [Next]_vars => [OverpaymentExplained]_vars
  <1> SUFFICES ASSUME ColumnsInv, RequestsInv, Next
               PROVE  OverpaymentExplained
    OBVIOUS
  <1>0. (\A f \in created : ~Overpaid(f) => ~Overpaid(f)')
           => OverpaymentExplained
    BY DEF OverpaymentExplained
  <1>1. ASSUME NEW bills \in SUBSET Fees,
               NEW original \in [Fees -> OriginalAmounts],
               NEW discount \in [Fees -> UploadDiscounts],
               BulkCreate(bills, original, discount)
        PROVE  OverpaymentExplained
    <2>1. \A f \in created : /\ netAmount'[f] = netAmount[f]
                             /\ paidAmount'[f] = paidAmount[f]
      BY <1>1 DEF BulkCreate, ColumnsInv, TypeOK
    <2>2. QED
      BY <1>0, <2>1 DEF Overpaid
  <1>2. ASSUME NEW scope \in SUBSET created, BulkAdjustment(scope)
        PROVE  OverpaymentExplained
    BY <1>2, BulkAdjustmentOverpays
  <1>3. ASSUME NEW f \in created, NEW amount \in Amounts,
               FeeAdjustment(f, amount)
        PROVE  OverpaymentExplained
    BY <1>3, FeeAdjustmentOverpays
  <1>4. ASSUME NEW f \in created, NEW amount \in Amounts, Payment(f, amount)
        PROVE  OverpaymentExplained
    BY <1>4, PaymentNeverOverpays
       DEF Payment, RecordOfflinePayment, RecordOnlinePayment
  <1>5. ASSUME NEW o \in Operators, Clearance(o)
        PROVE  OverpaymentExplained
    <2>1. CASE CommitClearance(o)
      BY <2>1, CommitOverpays
    <2>2. CASE UNCHANGED <<netAmount, paidAmount>>
      BY <1>0, <2>2 DEF Overpaid
    <2>3. QED
      BY <1>5, <2>1, <2>2
         DEF Clearance, ReadClearance, AbortClearance, billVars
  <1>6. QED
    BY <1>1, <1>2, <1>3, <1>4, <1>5 DEF Next

\* With careful staff, a bill is overpaid only by a waived penalty, a cheque
\* accepted against the same balance as another payment, or the adjustment of
\* a bill uploaded with a discount above its amount (recordPayment).
THEOREM OverpaymentCorrect ==
    ASSUME ~ReclearBounced, ~OverlappingClearance
    PROVE  Spec => OverpaidOnlyByWaiverOrCheque
  <1>1. BalanceInv /\ ColumnsInv /\ [Next]_vars => BalanceInv'
    BY BalanceInductive
  <1>2. BalanceInv /\ ColumnsInv /\ [Next]_vars => [OverpaymentExplained]_vars
    BY StepOverpays DEF BalanceInv
  <1>3. QED
    BY <1>1, <1>2, BalanceInitially, ColumnsAlways, PTL
       DEF Spec, OverpaidOnlyByWaiverOrCheque
=============================================================================
