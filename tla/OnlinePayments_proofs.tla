------------------------ MODULE OnlinePayments_proofs ------------------------
(***************************************************************************)
(* Proofs about OnlinePayments: what a request remembers of the gateway's  *)
(* answer stays true while it writes its rows one by one (RequestsAreTrue),*)
(* so every row it leaves behind, also when it is lost half way, is true.  *)
(* Where orders are for the whole balance the fee is closed by the first   *)
(* credit, and the payments implement Settlement.                          *)
(***************************************************************************)
EXTENDS OnlinePayments, TLAPS

Explained(o) ==
    /\ Captured(o)
    /\ \E t \in transactions :
          t.order = o /\ t.success /\ CapturedBy(o, t.attempt)

RequestsAreTrue ==
    \A w \in Workers : worker[w] # Idle =>
        /\ worker[w].step # "read" /\ worker[w].success =>
              CapturedBy(worker[w].order, worker[w].attempt)
        /\ worker[w].step \in {"logged", "checked"} =>
              Explained(worker[w].order)

TruthInv ==
    /\ TypeOK
    /\ RequestsAreTrue
    /\ CreditIsExplained
    /\ NeverOvercredited
    /\ PaidIsCaptured

LEMMA InitTruth == Init => TruthInv
  BY OnlineAssumption
  DEF Init, TruthInv, TypeOK, RequestsAreTrue, CreditIsExplained,
      NeverOvercredited, PaidIsCaptured, Tolerance, PaymentStatus, Outcomes

\* What was captured and explained stays so.
LEMMA TruthIsStable ==
    ASSUME TypeOK, NEW o \in Orders,
           \/ UNCHANGED outcome
           \/ \E p \in Orders, a \in Attempts, r \in {"captured", "failed"} :
                 Attempt(p, a, r),
           transactions \subseteq transactions'
    PROVE  /\ \A a \in Attempts : CapturedBy(o, a) => CapturedBy(o, a)'
           /\ Captured(o) => Captured(o)'
           /\ Explained(o) => Explained(o)'
  <1>1. \A a \in Attempts : CapturedBy(o, a) => CapturedBy(o, a)'
    BY DEF TypeOK, CapturedBy, Attempt, Attempted
  <1>2. Captured(o) => Captured(o)'
    BY <1>1 DEF Captured
  <1>3. Explained(o) => Explained(o)'
    BY <1>1, <1>2 DEF Explained, TypeOK
  <1>4. QED
    BY <1>1, <1>2, <1>3

\* Steps of the payers, the staff and the pages: no request moves.
LEMMA OutsideKeepsTruth ==
    ASSUME TruthInv,
           \/ \E o \in Orders, n \in OrderAmounts \cup {due} : CreateOrder(o, n)
           \/ \E o \in Orders, a \in Attempts, r \in {"captured", "failed"} :
                 Attempt(o, a, r)
           \/ \E n \in Moves : MoveBalance(n)
    PROVE  TruthInv'
  <1> USE DEF TruthInv
  <1>1. UNCHANGED <<transactions, credits, worker, acked, crashes>>
    BY DEF CreateOrder, Attempt, MoveBalance
  <1>2. TypeOK'
    <2>1. CASE \E o \in Orders, n \in OrderAmounts \cup {due} : CreateOrder(o, n)
      BY <2>1, OnlineAssumption DEF CreateOrder, TypeOK, PaymentStatus
    <2>2. CASE \E o \in Orders, a \in Attempts, r \in {"captured", "failed"} :
                  Attempt(o, a, r)
      BY <2>2 DEF Attempt, TypeOK, Outcomes
    <2>3. CASE \E n \in Moves : MoveBalance(n)
      BY <2>3, OnlineAssumption DEF MoveBalance, TypeOK
    <2>4. QED
      BY <2>1, <2>2, <2>3
  <1>3. \/ UNCHANGED outcome
        \/ \E p \in Orders, a \in Attempts, r \in {"captured", "failed"} :
              Attempt(p, a, r)
    BY DEF CreateOrder, MoveBalance
  <1>4. \A o \in Orders :
           /\ \A a \in Attempts : CapturedBy(o, a) => CapturedBy(o, a)'
           /\ Captured(o) => Captured(o)'
           /\ Explained(o) => Explained(o)'
    BY <1>1, <1>3, TruthIsStable
  <1>5. RequestsAreTrue'
    BY <1>1, <1>4 DEF RequestsAreTrue, TypeOK, Jobs
  <1>6. CreditIsExplained'
    BY <1>1, <1>4 DEF CreditIsExplained, Explained
  <1>7. NeverOvercredited'
    BY DEF NeverOvercredited, CreateOrder, Attempt, MoveBalance, Tolerance,
       TypeOK
  <1>8. PaidIsCaptured'
    BY <1>4 DEF PaidIsCaptured, CreateOrder, Attempt, MoveBalance, TypeOK
  <1>9. QED
    BY <1>2, <1>5, <1>6, <1>7, <1>8

\* Requests that end, however they end.
LEMMA EndKeepsTruth ==
    ASSUME TruthInv, NEW w \in Workers,
           worker' = [worker EXCEPT ![w] = Idle],
           acked' \subseteq Orders \X Attempts,
           crashes' \in 0 .. MaxCrashes,
           UNCHANGED <<due, outcome, amount, status, transactions, credits>>
    PROVE  TruthInv'
  <1> USE DEF TruthInv
  <1>1. TypeOK'
    BY DEF TypeOK
  <1>2. RequestsAreTrue'
    BY DEF RequestsAreTrue, TypeOK, Explained, Captured, CapturedBy
  <1>3. CreditIsExplained' /\ NeverOvercredited' /\ PaidIsCaptured'
    BY DEF CreditIsExplained, NeverOvercredited, PaidIsCaptured, Captured,
       CapturedBy
  <1>4. QED
    BY <1>1, <1>2, <1>3

\* Requests that start: they know nothing yet, or what a webhook told them.
LEMMA StartKeepsTruth ==
    ASSUME TruthInv, NEW w \in Workers, NEW o \in Orders, NEW a \in Attempts,
           NEW step \in {"read", "answered"}, NEW success \in BOOLEAN,
           success => CapturedBy(o, a),
           worker' = [worker EXCEPT ![w] =
             [order |-> o, attempt |-> a, step |-> step, success |-> success]],
           UNCHANGED <<due, outcome, amount, status, transactions, credits,
                       acked, crashes>>
    PROVE  TruthInv'
  <1> USE DEF TruthInv
  <1>1. TypeOK'
    <2>1. [order |-> o, attempt |-> a, step |-> step, success |-> success]
            \in Jobs
      BY DEF Jobs, Steps
    <2>2. QED
      BY <2>1 DEF TypeOK
  <1>2. RequestsAreTrue'
    <2> SUFFICES ASSUME NEW v \in Workers, worker'[v] # Idle
                 PROVE  (/\ worker[v].step # "read" /\ worker[v].success =>
                               CapturedBy(worker[v].order, worker[v].attempt)
                         /\ worker[v].step \in {"logged", "checked"} =>
                               Explained(worker[v].order))'
      BY DEF RequestsAreTrue
    <2>1. CASE v = w
      BY <2>1 DEF TypeOK, CapturedBy
    <2>2. CASE v # w
      BY <2>2 DEF TypeOK, RequestsAreTrue, CapturedBy, Explained, Captured
    <2>3. QED
      BY <2>1, <2>2
  <1>3. CreditIsExplained' /\ NeverOvercredited' /\ PaidIsCaptured'
    BY DEF CreditIsExplained, NeverOvercredited, PaidIsCaptured, Captured,
       CapturedBy
  <1>4. QED
    BY <1>1, <1>2, <1>3

LEMMA AskGatewayKeepsTruth ==
    ASSUME TruthInv, NEW w \in Workers, AskGateway(w)
    PROVE  TruthInv'
  <1>1. PICK o \in Orders : o = worker[w].order
    BY DEF TruthInv, TypeOK, Jobs, AskGateway
  <1>2. PICK a \in Attempts : a = worker[w].attempt
    BY DEF TruthInv, TypeOK, Jobs, AskGateway
  <1>3. UNCHANGED <<due, outcome, amount, status, transactions, credits, acked,
                    crashes>>
    BY DEF AskGateway
  <1>4. CASE o \notin RazorpayOrders /\ Captured(o)
    <2>1. PICK b \in Attempts : b = CHOOSE c \in Attempts : CapturedBy(o, c)
      BY <1>4 DEF Captured
    <2>2. CapturedBy(o, b)
      BY <1>4, <2>1 DEF Captured
    <2>3. worker' = [worker EXCEPT ![w] =
             [order |-> o, attempt |-> b, step |-> "answered", success |-> TRUE]]
      BY <1>1, <1>4, <2>1 DEF AskGateway
    <2>4. QED
      BY <1>3, <2>2, <2>3, StartKeepsTruth
  <1>5. CASE ~(o \notin RazorpayOrders /\ Captured(o))
    <2>1. CapturedBy(o, a) \in BOOLEAN
      BY DEF CapturedBy
    <2>2. worker' = [worker EXCEPT ![w] =
             [order |-> o, attempt |-> a, step |-> "answered",
              success |-> CapturedBy(o, a)]]
      BY <1>1, <1>2, <1>5 DEF AskGateway
    <2>3. QED
      BY <1>3, <2>1, <2>2, StartKeepsTruth
  <1>6. QED
    BY <1>4, <1>5

LEMMA StartVerifyKeepsTruth ==
    ASSUME TruthInv, NEW w \in Workers, NEW o \in Orders, NEW a \in Attempts,
           StartVerify(w, o, a)
    PROVE  TruthInv'
  BY StartKeepsTruth DEF StartVerify

LEMMA StartWebhookKeepsTruth ==
    ASSUME TruthInv, NEW w \in Workers, NEW o \in Orders, NEW a \in Attempts,
           StartWebhook(w, o, a)
    PROVE  TruthInv'
  <1>1. CASE Processed(o, a)
    BY <1>1
    DEF StartWebhook, TruthInv, TypeOK, RequestsAreTrue, CreditIsExplained,
        NeverOvercredited, PaidIsCaptured, Explained, Captured, CapturedBy
  <1>2. CASE ~Processed(o, a)
    <2>1. CapturedBy(o, a) \in BOOLEAN
      BY DEF CapturedBy
    <2>2. QED
      BY <1>2, <2>1, StartKeepsTruth DEF StartWebhook
  <1>3. QED
    BY <1>1, <1>2

\* A request that goes on or ends disturbs no other one.
LEMMA OthersStayTrue ==
    ASSUME TruthInv, NEW w \in Workers, NEW job \in Jobs \cup {Idle},
           worker' = [worker EXCEPT ![w] = job],
           UNCHANGED outcome, transactions \subseteq transactions',
           job # Idle =>
             /\ job.step # "read" /\ job.success =>
                   CapturedBy(job.order, job.attempt)
             /\ job.step \in {"logged", "checked"} => Explained(job.order)'
    PROVE  RequestsAreTrue'
  <1> SUFFICES ASSUME NEW v \in Workers, worker'[v] # Idle
               PROVE  (/\ worker[v].step # "read" /\ worker[v].success =>
                             CapturedBy(worker[v].order, worker[v].attempt)
                       /\ worker[v].step \in {"logged", "checked"} =>
                             Explained(worker[v].order))'
    BY DEF RequestsAreTrue
  <1> USE DEF TruthInv
  <1>1. \A o \in Orders : Explained(o) => Explained(o)'
    BY TruthIsStable
  <1>2. CASE v = w
    BY <1>2 DEF TypeOK, CapturedBy
  <1>3. CASE v # w
    <2>1. worker'[v] = worker[v] /\ worker[v] \in Jobs
      BY <1>3 DEF TypeOK
    <2>2. worker[v].order \in Orders
      BY <2>1 DEF Jobs
    <2>3. QED
      BY <2>1, <2>2, <1>1 DEF RequestsAreTrue, CapturedBy
  <1>4. QED
    BY <1>2, <1>3

LEMMA SavePaymentKeepsTruth ==
    ASSUME TruthInv, NEW w \in Workers, SavePayment(w)
    PROVE  TruthInv'
  <1> USE DEF TruthInv
  <1>1. worker[w] \in Jobs /\ worker[w] # Idle /\ worker[w].step = "answered"
    BY DEF SavePayment, TypeOK
  <1>2. PICK job \in Jobs : job = [worker[w] EXCEPT !.step = "saved"]
    BY <1>1 DEF Jobs, Steps
  <1>3. worker' = [worker EXCEPT ![w] = job]
    BY <1>2 DEF SavePayment, Goto
  <1>4. /\ job.success = worker[w].success
        /\ job.order = worker[w].order
        /\ job.attempt = worker[w].attempt
        /\ job.step = "saved"
    BY <1>1, <1>2 DEF Jobs
  <1>5. UNCHANGED <<due, outcome, amount, transactions, credits, acked, crashes>>
    BY DEF SavePayment
  <1>6. worker[w].success => CapturedBy(worker[w].order, worker[w].attempt)
    BY <1>1 DEF RequestsAreTrue
  <1>7. TypeOK'
    BY <1>1, <1>3, <1>5 DEF SavePayment, TypeOK, Jobs, PaymentStatus
  <1>8. RequestsAreTrue'
    BY <1>1, <1>3, <1>4, <1>5, <1>6, OthersStayTrue
  <1>9. CreditIsExplained' /\ NeverOvercredited'
    BY <1>5 DEF CreditIsExplained, NeverOvercredited, Captured, CapturedBy
  <1>10. PaidIsCaptured'
    BY <1>1, <1>5, <1>6
    DEF PaidIsCaptured, SavePayment, TypeOK, Jobs, Captured, CapturedBy
  <1>11. QED
    BY <1>7, <1>8, <1>9, <1>10

LEMMA SaveTransactionKeepsTruth ==
    ASSUME TruthInv, NEW w \in Workers, SaveTransaction(w)
    PROVE  TruthInv'
  <1> USE DEF TruthInv
  <1>1. worker[w] \in Jobs /\ worker[w] # Idle /\ worker[w].step = "saved"
    BY DEF SaveTransaction, TypeOK
  <1>2. PICK o \in Orders : o = worker[w].order
    BY <1>1 DEF Jobs
  <1>3. PICK a \in Attempts : a = worker[w].attempt
    BY <1>1 DEF Jobs
  <1>4. PICK t \in [order : Orders, attempt : Attempts, success : BOOLEAN] :
           t = [order |-> o, attempt |-> a, success |-> worker[w].success]
    BY <1>1 DEF Jobs
  <1>5. transactions' = transactions \cup {t}
    BY <1>2, <1>3, <1>4 DEF SaveTransaction
  <1>6. UNCHANGED <<due, outcome, amount, status, credits, crashes>>
    BY DEF SaveTransaction
  <1>7. worker[w].success => CapturedBy(o, a)
    BY <1>1, <1>2, <1>3 DEF RequestsAreTrue
  <1>8. worker[w].success => Explained(o)'
    BY <1>4, <1>5, <1>6, <1>7 DEF Explained, Captured, CapturedBy
  <1>9. PICK job \in Jobs \cup {Idle} :
           /\ worker' = [worker EXCEPT ![w] = job]
           /\ job # Idle => /\ worker[w].success
                            /\ job = [worker[w] EXCEPT !.step = "logged"]
    <2>1. CASE worker[w].success
      <3>1. [worker[w] EXCEPT !.step = "logged"] \in Jobs
        BY <1>1 DEF Jobs, Steps
      <3>2. QED
        BY <2>1, <3>1 DEF SaveTransaction, Goto
    <2>2. CASE ~worker[w].success
      BY <2>2 DEF SaveTransaction, Finish
    <2>3. QED
      BY <2>1, <2>2
  <1>10. job # Idle =>
           /\ job.success /\ job.order = o /\ job.attempt = a
           /\ job.step = "logged"
    BY <1>1, <1>2, <1>3, <1>9 DEF Jobs
  <1>11. TypeOK'
    BY <1>1, <1>2, <1>3, <1>4, <1>5, <1>6, <1>9
    DEF TypeOK, SaveTransaction, Finish
  <1>12. RequestsAreTrue'
    BY <1>5, <1>6, <1>7, <1>8, <1>9, <1>10, OthersStayTrue
  <1>13. CreditIsExplained'
    BY <1>5, <1>6 DEF CreditIsExplained, Captured, CapturedBy
  <1>14. NeverOvercredited' /\ PaidIsCaptured'
    BY <1>6 DEF NeverOvercredited, PaidIsCaptured, Captured, CapturedBy
  <1>15. QED
    BY <1>11, <1>12, <1>13, <1>14

LEMMA FindExistingKeepsTruth ==
    ASSUME TruthInv, NEW w \in Workers, FindExisting(w)
    PROVE  TruthInv'
  <1> USE DEF TruthInv
  <1>1. worker[w] \in Jobs /\ worker[w] # Idle /\ worker[w].step = "logged"
    BY DEF FindExisting, TypeOK
  <1>2. UNCHANGED <<due, outcome, amount, status, transactions, credits, crashes>>
    BY DEF FindExisting
  <1>3. CASE credits[worker[w].order] > 0
    <2>1. worker' = [worker EXCEPT ![w] = Idle]
      BY <1>3 DEF FindExisting, Finish
    <2>2. acked' \subseteq Orders \X Attempts
      BY <1>1, <1>3 DEF FindExisting, Finish, TypeOK, Jobs
    <2>3. crashes' \in 0 .. MaxCrashes
      BY <1>2 DEF TypeOK
    <2>4. QED
      BY <1>2, <2>1, <2>2, <2>3, EndKeepsTruth
  <1>4. CASE ~(credits[worker[w].order] > 0)
    <2>1. PICK job \in Jobs : job = [worker[w] EXCEPT !.step = "checked"]
      BY <1>1 DEF Jobs, Steps
    <2>2. /\ worker' = [worker EXCEPT ![w] = job]
          /\ UNCHANGED acked
      BY <1>4, <2>1 DEF FindExisting, Goto
    <2>3. /\ job.success = worker[w].success
          /\ job.order = worker[w].order
          /\ job.attempt = worker[w].attempt
          /\ job.step = "checked"
      BY <1>1, <2>1 DEF Jobs
    <2>4. /\ worker[w].success => CapturedBy(job.order, job.attempt)
          /\ Explained(job.order)
      BY <1>1, <2>3 DEF RequestsAreTrue
    <2>5. Explained(job.order)'
      BY <1>2, <2>4 DEF Explained, Captured, CapturedBy
    <2>6. RequestsAreTrue'
      BY <1>2, <2>2, <2>3, <2>4, <2>5, OthersStayTrue
    <2>7. TypeOK'
      BY <1>2, <2>2 DEF TypeOK
    <2>8. CreditIsExplained' /\ NeverOvercredited' /\ PaidIsCaptured'
      BY <1>2 DEF CreditIsExplained, NeverOvercredited, PaidIsCaptured,
         Captured, CapturedBy
    <2>9. QED
      BY <2>6, <2>7, <2>8
  <1>5. QED
    BY <1>3, <1>4

\* Only here is the balance lowered and a credit written: by the rows the
\* request wrote before, the credit is explained.
LEMMA CreditKeepsTruth ==
    ASSUME TruthInv, NEW w \in Workers, Credit(w)
    PROVE  TruthInv'
  <1> USE DEF TruthInv
  <1>1. worker[w] \in Jobs /\ worker[w] # Idle /\ worker[w].step = "checked"
    BY DEF Credit, TypeOK
  <1>2. PICK o \in Orders : o = worker[w].order
    BY <1>1 DEF Jobs
  <1>3. UNCHANGED <<outcome, amount, status, transactions, crashes>>
    BY DEF Credit
  <1>4. worker' = [worker EXCEPT ![w] = Idle]
    BY DEF Credit, Finish
  <1>5. acked' \subseteq Orders \X Attempts
    BY <1>1 DEF Credit, Finish, TypeOK, Jobs
  <1>6. CASE ~Fits(o)
    BY <1>2, <1>3, <1>4, <1>5, <1>6, EndKeepsTruth DEF Credit, TypeOK
  <1>7. CASE Fits(o)
    <2>1. /\ credits' = [credits EXCEPT ![o] = @ + 1]
          /\ due' = due - amount[o]
      BY <1>2, <1>7 DEF Credit
    <2>2. /\ due' \in Int
          /\ due' <= MaxDue
          /\ due' >= -Tolerance
      BY <1>7, <2>1, OnlineAssumption DEF Fits, TypeOK, Tolerance
    <2>3. TypeOK'
      BY <1>3, <1>4, <1>5, <2>1, <2>2 DEF TypeOK
    <2>4. RequestsAreTrue'
      BY <1>3, <1>4, OthersStayTrue
    <2>5. Explained(o)
      BY <1>1, <1>2 DEF RequestsAreTrue
    <2>6. CreditIsExplained'
      BY <1>3, <2>1, <2>5
      DEF CreditIsExplained, Explained, Captured, CapturedBy, TypeOK
    <2>7. NeverOvercredited' /\ PaidIsCaptured'
      BY <1>3, <2>2 DEF NeverOvercredited, PaidIsCaptured, Captured, CapturedBy,
         Tolerance
    <2>8. QED
      BY <2>3, <2>4, <2>6, <2>7
  <1>8. QED
    BY <1>6, <1>7

LEMMA CrashKeepsTruth ==
    ASSUME TruthInv, NEW w \in Workers, Crash(w)
    PROVE  TruthInv'
  <1>1. worker[w] \in Jobs
    BY DEF Crash, TruthInv, TypeOK
  <1>2. acked' \subseteq Orders \X Attempts
    BY <1>1 DEF Crash, Finish, TruthInv, TypeOK, Jobs
  <1>3. crashes' \in 0 .. MaxCrashes
    BY OnlineAssumption DEF Crash, TruthInv, TypeOK
  <1>4. worker' = [worker EXCEPT ![w] = Idle]
    BY DEF Crash, Finish
  <1>5. UNCHANGED <<due, outcome, amount, status, transactions, credits>>
    BY DEF Crash
  <1>6. QED
    BY <1>2, <1>3, <1>4, <1>5, EndKeepsTruth

LEMMA NextKeepsTruth == TruthInv /\ [Next]_vars => TruthInv'
  <1> SUFFICES ASSUME TruthInv, [Next]_vars
               PROVE  TruthInv'
    OBVIOUS
  <1>1. CASE \/ \E o \in Orders, n \in OrderAmounts \cup {due} :
                   CreateOrder(o, n)
             \/ \E o \in Orders, a \in Attempts, r \in {"captured", "failed"} :
                   Attempt(o, a, r)
             \/ \E n \in Moves : MoveBalance(n)
    BY <1>1, OutsideKeepsTruth
  <1>2. CASE \E w \in Verifiers, o \in Orders, a \in Attempts :
                StartVerify(w, o, a)
    BY <1>2, StartVerifyKeepsTruth DEF Workers
  <1>3. CASE \E o \in Orders, a \in Attempts : Deliver(o, a)
    BY <1>3, StartWebhookKeepsTruth DEF Deliver, Workers
  <1>4. CASE \E w \in Workers : Serve(w)
    BY <1>4, AskGatewayKeepsTruth, SavePaymentKeepsTruth,
       SaveTransactionKeepsTruth, FindExistingKeepsTruth, CreditKeepsTruth
    DEF Serve
  <1>5. CASE \E w \in Workers : Crash(w)
    BY <1>5, CrashKeepsTruth
  <1>6. CASE UNCHANGED vars
    BY <1>6
    DEF vars, TruthInv, TypeOK, RequestsAreTrue, CreditIsExplained,
        NeverOvercredited, PaidIsCaptured, Explained, Captured, CapturedBy
  <1>7. QED
    BY <1>1, <1>2, <1>3, <1>4, <1>5, <1>6 DEF Next

LEMMA TruthInvariant == Spec => []TruthInv
  BY InitTruth, NextKeepsTruth, PTL DEF Spec

-----------------------------------------------------------------------------
\* Every column, also of requests cut off half way, keeps its domain.
THEOREM TypeCorrect == Spec => []TypeOK
  <1>1. TruthInv => TypeOK
    BY DEF TruthInv
  <1>2. QED
    BY <1>1, TruthInvariant, PTL

\* No fee is credited without captured money and a success row that names
\* it, for any orders, attempts, requests and crashes (recordOnlineFeePayment).
THEOREM CreditCorrect == Spec => []CreditIsExplained
  <1>1. TruthInv => CreditIsExplained
    BY DEF TruthInv
  <1>2. QED
    BY <1>1, TruthInvariant, PTL

\* However many requests race with each other and with the office, the balance
\* check inside the transaction keeps the fee from being overpaid by more than
\* the tolerance (recordPayment).
THEOREM OvercreditCorrect == Spec => []NeverOvercredited
  <1>1. TruthInv => NeverOvercredited
    BY DEF TruthInv
  <1>2. QED
    BY <1>1, TruthInvariant, PTL

\* payments.status never says paid of an order the gateway did not capture,
\* although late failures and successes overwrite each other (verifyPayment).
THEOREM PaidCorrect == Spec => []PaidIsCaptured
  <1>1. TruthInv => PaidIsCaptured
    BY DEF TruthInv
  <1>2. QED
    BY <1>1, TruthInvariant, PTL

-----------------------------------------------------------------------------
(* Settlement.  Every order was made for all that was due, and nothing is  *)
(* due once a fee is credited; a second credit of an order would have to   *)
(* fit into the tolerance.                                                 *)

\* What the run of SettlesOnce gives its constants.
WholeBalances == FullBalance = TRUE /\ \A n \in Moves : n <= 0

\* No order is for as little as the tolerance, 0.01 (recordPayment compares
\* with the balance and 0.01 more).
MoreThanTolerance == \A o \in Orders : status[o] # "none" => amount[o] > Tolerance

CoversBalance ==
    /\ \A o \in Orders : status[o] # "none" => amount[o] >= due
    /\ \A o \in Orders : credits[o] > 0 => due <= 0

\* Only orders that were made are attempted and asked about.
AboutOrdersMade ==
    /\ \A o \in Orders, a \in Attempts : Attempted(o, a) => status[o] # "none"
    /\ \A w \in Workers : worker[w] # Idle => status[worker[w].order] # "none"

SettlementInv == TruthInv /\ AboutOrdersMade /\ CoversBalance

\* A request that is not lost stays about its order.
LEMMA SameOrder ==
    ASSUME TruthInv, NEW w \in Workers, Serve(w) \/ Crash(w)
    PROVE  /\ worker[w] \in Jobs
           /\ \A v \in Workers : worker'[v] # Idle =>
                 worker[v] # Idle /\ worker'[v].order = worker[v].order
<1>1. worker \in [Workers -> Jobs \cup {Idle}]
  BY DEF TruthInv, TypeOK
<1>2. worker[w] \in Jobs
  BY <1>1 DEF Serve, AskGateway, SavePayment, SaveTransaction, FindExisting, Credit, Crash
<1>i. worker[w] # Idle
  BY DEF Serve, AskGateway, SavePayment, SaveTransaction, FindExisting, Credit, Crash
<1> SUFFICES \A v \in Workers : worker'[v] # Idle =>
                worker[v] # Idle /\ worker'[v].order = worker[v].order
  BY <1>2
<1>d. ASSUME NEW job \in Jobs, worker' = [worker EXCEPT ![w] = job], worker[w] # Idle,
             job.order = worker[w].order
      PROVE  \A v \in Workers : worker'[v] # Idle =>
                worker[v] # Idle /\ worker'[v].order = worker[v].order
  BY <1>1, <1>d
<1>3. CASE AskGateway(w)
  <2>1. PICK o \in Orders : o = worker[w].order
    BY <1>2 DEF Jobs
  <2>2. PICK a \in Attempts : a = worker[w].attempt
    BY <1>2 DEF Jobs
  <2>3. worker[w] # Idle
    BY <1>3 DEF AskGateway
  <2>4. CASE o \notin RazorpayOrders /\ Captured(o)
    <3>1. PICK b \in Attempts : b = CHOOSE c \in Attempts : CapturedBy(o, c)
      BY <2>4 DEF Captured
    <3>2. worker' = [worker EXCEPT ![w] =
             [order |-> o, attempt |-> b, step |-> "answered", success |-> TRUE]]
      BY <1>3, <2>1, <2>4, <3>1 DEF AskGateway
    <3>3. [order |-> o, attempt |-> b, step |-> "answered", success |-> TRUE] \in Jobs
      BY DEF Jobs, Steps
    <3> QED
      BY <1>d, <2>1, <2>3, <3>2, <3>3
  <2>5. CASE ~(o \notin RazorpayOrders /\ Captured(o))
    <3>1. worker' = [worker EXCEPT ![w] =
             [order |-> o, attempt |-> a, step |-> "answered", success |-> CapturedBy(o, a)]]
      BY <1>3, <2>1, <2>2, <2>5 DEF AskGateway
    <3>2. [order |-> o, attempt |-> a, step |-> "answered", success |-> CapturedBy(o, a)] \in Jobs
      BY DEF Jobs, Steps, CapturedBy
    <3> QED
      BY <1>d, <2>1, <2>3, <3>1, <3>2
  <2> QED
    BY <2>4, <2>5
<1>4. ASSUME NEW step \in Steps, Goto(w, step), worker[w] # Idle
      PROVE  \A v \in Workers : worker'[v] # Idle =>
                worker[v] # Idle /\ worker'[v].order = worker[v].order
  <2>0. \A j \in Jobs : \E job \in Jobs : job = [j EXCEPT !.step = step] /\ job.order = j.order
    <3> SUFFICES ASSUME NEW j \in Jobs
                 PROVE  [j EXCEPT !.step = step] \in Jobs /\ [j EXCEPT !.step = step].order = j.order
      OBVIOUS
    <3> QED
      BY DEF Jobs
  <2>1. PICK job \in Jobs : job = [worker[w] EXCEPT !.step = step] /\ job.order = worker[w].order
    BY <1>2, <2>0, Zenon
  <2>2. worker' = [worker EXCEPT ![w] = job]
    BY <1>4, <2>1 DEF Goto
  <2> QED
    BY <1>4, <1>d, <2>1, <2>2
<1>5. CASE worker' = [worker EXCEPT ![w] = Idle]
  BY <1>1, <1>5
<1>6. \/ AskGateway(w) \/ Goto(w, "saved") \/ Goto(w, "logged") \/ Goto(w, "checked")
      \/ worker' = [worker EXCEPT ![w] = Idle]
  BY DEF Serve, SavePayment, SaveTransaction, FindExisting, Credit, Crash, Finish
<1> QED
  BY <1>i, <1>3, <1>4, <1>5, <1>6 DEF Steps

LEMMA MadeStep == TruthInv /\ AboutOrdersMade /\ [Next]_vars => AboutOrdersMade'
<1> SUFFICES ASSUME TruthInv, AboutOrdersMade, [Next]_vars PROVE AboutOrdersMade'
  OBVIOUS
<1>0. /\ status \in [Orders -> PaymentStatus] /\ worker \in [Workers -> Jobs \cup {Idle}]
      /\ outcome \in [Orders -> [Attempts -> Outcomes]]
  BY DEF TruthInv, TypeOK
<1>a. \A w \in Workers : worker[w] # Idle => worker[w].order \in Orders
  BY <1>0 DEF Jobs
<1>b. ASSUME UNCHANGED outcome,
             \A o \in Orders : status[o] # "none" => status'[o] # "none",
             \A w \in Workers : worker'[w] # Idle =>
                worker[w] # Idle /\ worker'[w].order = worker[w].order
      PROVE  AboutOrdersMade'
  BY <1>a, <1>b DEF AboutOrdersMade, Attempted
<1>c. ASSUME NEW w \in Workers, NEW o \in Orders, NEW job \in Jobs, job.order = o,
             status[o] # "none", UNCHANGED <<outcome, status>>,
             worker' = [worker EXCEPT ![w] = job]
      PROVE  AboutOrdersMade'
  BY <1>0, <1>c DEF AboutOrdersMade, Attempted
<1>1. ASSUME NEW p \in Orders, NEW n \in OrderAmounts \cup {due}, CreateOrder(p, n)
      PROVE  AboutOrdersMade'
  BY <1>0, <1>1, <1>b DEF CreateOrder
<1>2. ASSUME NEW p \in Orders, NEW a \in Attempts, NEW r \in {"captured", "failed"},
             Attempt(p, a, r)
      PROVE  AboutOrdersMade'
  BY <1>0, <1>2 DEF Attempt, AboutOrdersMade, Attempted
<1>3. ASSUME NEW n \in Moves, MoveBalance(n) PROVE AboutOrdersMade'
  BY <1>3, <1>b DEF MoveBalance
<1>4. ASSUME NEW w \in Verifiers, NEW o \in Orders, NEW a \in Attempts, StartVerify(w, o, a)
      PROVE  AboutOrdersMade'
  <2>1. [order |-> o, attempt |-> a, step |-> "read", success |-> FALSE] \in Jobs
    BY DEF Jobs, Steps
  <2> QED
    BY <1>4, <1>c, <2>1 DEF StartVerify, Workers
<1>5. ASSUME NEW w \in Hooks, NEW o \in Orders, NEW a \in Attempts, StartWebhook(w, o, a)
      PROVE  AboutOrdersMade'
  <2>1. [order |-> o, attempt |-> a, step |-> "answered", success |-> CapturedBy(o, a)] \in Jobs
    BY DEF Jobs, Steps, CapturedBy
  <2>2. status[o] # "none"
    BY <1>5 DEF StartWebhook, AboutOrdersMade
  <2> QED
    BY <1>5, <1>b, <1>c, <2>1, <2>2 DEF StartWebhook, Workers
<1>6. ASSUME NEW w \in Workers, Serve(w) \/ Crash(w) PROVE AboutOrdersMade'
  <2>1. UNCHANGED outcome
    BY <1>6 DEF Serve, AskGateway, SavePayment, SaveTransaction, FindExisting, Credit, Crash
  <2>2. UNCHANGED status \/ SavePayment(w)
    BY <1>6 DEF Serve, AskGateway, SaveTransaction, FindExisting, Credit, Crash
  <2>3. \A o \in Orders : status[o] # "none" => status'[o] # "none"
    BY <1>0, <2>2 DEF SavePayment
  <2> QED
    BY <1>6, <1>b, <2>1, <2>3, SameOrder
<1>7. CASE UNCHANGED vars
  BY <1>7, <1>b DEF vars
<1> QED
  BY <1>1, <1>2, <1>3, <1>4, <1>5, <1>6, <1>7 DEF Next, Deliver

LEMMA SettlementStep ==
    ASSUME WholeBalances
    PROVE  SettlementInv /\ MoreThanTolerance /\ [Next]_vars =>
               CoversBalance' /\ [Settled!Next]_Settled!vars
<1> SUFFICES ASSUME SettlementInv, MoreThanTolerance, [Next]_vars
             PROVE  CoversBalance' /\ [Settled!Next]_Settled!vars
  OBVIOUS
<1>0. /\ due \in Int /\ amount \in [Orders -> Nat] /\ credits \in [Orders -> Nat]
      /\ status \in [Orders -> PaymentStatus] /\ outcome \in [Orders -> [Attempts -> Outcomes]]
  BY DEF SettlementInv, TruthInv, TypeOK
<1>c. CoversBalance /\ AboutOrdersMade /\ TruthInv
  BY DEF SettlementInv
<1>a. ASSUME UNCHANGED <<outcome, credits>> PROVE UNCHANGED Settled!vars
  <2>1. \A o \in Orders : Captured(o)' <=> Captured(o)
    BY <1>a DEF Captured, CapturedBy
  <2> QED
    BY <1>a, <2>1 DEF Settled!vars
<1>b. ASSUME UNCHANGED <<due, amount, credits>>,
             \A o \in Orders : status'[o] # "none" => status[o] # "none"
      PROVE  CoversBalance'
  BY <1>b, <1>c DEF CoversBalance
<1>1. ASSUME NEW p \in Orders, NEW n \in OrderAmounts \cup {due}, CreateOrder(p, n)
      PROVE  CoversBalance' /\ UNCHANGED Settled!vars
  <2>1. UNCHANGED <<due, outcome, credits>> /\ n = due
    BY <1>1 DEF CreateOrder, WholeBalances
  <2>2. \A o \in Orders : status'[o] # "none" => amount'[o] >= due'
    BY <1>0, <1>1, <1>c, <2>1 DEF CreateOrder, CoversBalance
  <2> QED
    BY <1>a, <1>c, <2>1, <2>2 DEF CoversBalance
<1>2. ASSUME NEW p \in Orders, NEW a \in Attempts, NEW r \in {"captured", "failed"},
             Attempt(p, a, r)
      PROVE  CoversBalance' /\ [Settled!Next]_Settled!vars
  <2>1. UNCHANGED <<due, amount, status, credits>> /\ ~Captured(p)
    BY <1>2 DEF Attempt
  <2>2. \A o \in Orders \ {p} : Captured(o)' <=> Captured(o)
    BY <1>0, <1>2 DEF Attempt, Captured, CapturedBy
  <2>3. CoversBalance'
    BY <1>b, <2>1
  <2>4. CASE Captured(p)'
    <3>1. {o \in Orders : Captured(o)'} = {o \in Orders : Captured(o)} \cup {p}
      BY <2>2, <2>4
    <3>2. Settled!Capture(p)
      BY <2>1, <3>1 DEF Settled!Capture
    <3> QED
      BY <2>3, <3>2 DEF Settled!Next
  <2>5. CASE ~Captured(p)'
    <3>1. {o \in Orders : Captured(o)'} = {o \in Orders : Captured(o)}
      BY <2>1, <2>2, <2>5
    <3> QED
      BY <2>1, <2>3, <3>1 DEF Settled!vars
  <2> QED
    BY <2>4, <2>5
<1>3. ASSUME NEW n \in Moves, MoveBalance(n) PROVE CoversBalance' /\ UNCHANGED Settled!vars
  <2>1. UNCHANGED <<amount, status, outcome, credits>> /\ due' = due + n /\ n \in Int /\ n <= 0
    BY <1>3, OnlineAssumption DEF MoveBalance, WholeBalances
  <2>2. due' \in Int /\ due' <= due
    BY <1>0, <2>1
  <2>3. CoversBalance'
    BY <1>0, <1>c, <2>1, <2>2 DEF CoversBalance
  <2> QED
    BY <1>a, <2>1, <2>3
<1>4. ASSUME NEW w \in Workers, NEW o \in Orders, NEW a \in Attempts,
             StartVerify(w, o, a) \/ StartWebhook(w, o, a)
      PROVE  CoversBalance' /\ UNCHANGED Settled!vars
  BY <1>4, <1>a, <1>b DEF StartVerify, StartWebhook
<1>5. ASSUME NEW w \in Workers, Serve(w) \/ Crash(w), ~Credit(w)
      PROVE  CoversBalance' /\ UNCHANGED Settled!vars
  <2>1. UNCHANGED <<due, outcome, amount, credits>>
    BY <1>5 DEF Serve, AskGateway, SavePayment, SaveTransaction, FindExisting, Crash
  <2>2. UNCHANGED status \/ SavePayment(w)
    BY <1>5 DEF Serve, AskGateway, SaveTransaction, FindExisting, Crash
  <2>3. worker[w] # Idle
    BY <1>5 DEF Serve, AskGateway, SavePayment, SaveTransaction, FindExisting, Crash
  <2>4. status[worker[w].order] # "none"
    BY <1>c, <2>3 DEF AboutOrdersMade
  <2>5. \A o \in Orders : status'[o] # "none" => status[o] # "none"
    BY <1>0, <2>2, <2>4 DEF SavePayment
  <2> QED
    BY <1>a, <1>b, <2>1, <2>5
<1>6. ASSUME NEW w \in Workers, Credit(w) PROVE CoversBalance' /\ [Settled!Next]_Settled!vars
  <2>1. worker[w] \in Jobs /\ worker[w] # Idle /\ worker[w].step = "checked"
    BY <1>6, <1>c DEF Credit, TruthInv, TypeOK
  <2>2. PICK o \in Orders : o = worker[w].order
    BY <2>1 DEF Jobs
  <2>3. UNCHANGED <<outcome, amount, status>>
    BY <1>6 DEF Credit
  <2>4. CASE ~Fits(o)
    BY <1>6, <1>a, <1>b, <2>2, <2>3, <2>4 DEF Credit
  <2>5. CASE Fits(o)
    <3>1. credits' = [credits EXCEPT ![o] = @ + 1] /\ due' = due - amount[o]
      BY <1>6, <2>2, <2>5 DEF Credit
    <3>2. Captured(o)
      BY <1>c, <2>1, <2>2 DEF TruthInv, RequestsAreTrue, Explained
    <3>3. status[o] # "none"
      BY <1>c, <2>1, <2>2 DEF AboutOrdersMade
    <3>4. amount[o] \in Nat /\ amount[o] >= due /\ amount[o] > Tolerance
      BY <1>0, <1>c, <3>3 DEF CoversBalance, MoreThanTolerance
    <3>5. due' \in Int /\ due' <= due /\ due' <= 0
      BY <1>0, <3>1, <3>4 DEF Tolerance
    <3>6. CoversBalance'
      BY <1>0, <1>c, <2>3, <3>5 DEF CoversBalance
    <3>7. due > 0
      BY <1>0, <2>5, <3>4 DEF Fits, Tolerance
    <3>8. credits[o] = 0
      BY <1>0, <1>c, <3>7 DEF CoversBalance
    <3>9. {p \in Orders : Captured(p)'} = {p \in Orders : Captured(p)}
      BY <2>3 DEF Captured, CapturedBy
    <3>10. credits' = [credits EXCEPT ![o] = 1]
      BY <1>0, <3>1, <3>8
    <3>11. Settled!Credit(o)
      BY <3>2, <3>8, <3>9, <3>10 DEF Settled!Credit
    <3> QED
      BY <3>6, <3>11 DEF Settled!Next
  <2> QED
    BY <2>4, <2>5
<1>7. CASE UNCHANGED vars
  BY <1>7, <1>a, <1>b DEF vars
<1> QED
  BY <1>1, <1>2, <1>3, <1>4, <1>5, <1>6, <1>7 DEF Next, Deliver, Workers

LEMMA SettlementInit == Init => SettlementInv /\ Settled!Init
<1> SUFFICES ASSUME Init PROVE SettlementInv /\ Settled!Init
  OBVIOUS
<1>1. TruthInv
  BY InitTruth
<1>2. AboutOrdersMade /\ CoversBalance
  BY DEF Init, AboutOrdersMade, CoversBalance, Attempted
<1>3. Settled!Init
  BY DEF Init, Settled!Init, Captured, CapturedBy
<1> QED
  BY <1>1, <1>2, <1>3 DEF SettlementInv

\* Where pages order the whole balance and the balance only shrinks, no
\* interleaving of verifications, webhooks and crashes lets the gateway's one
\* capture of an order be credited twice or a failed one at all, although
\* recordOnlineFeePayment searches and inserts in two steps: recordPayment's
\* check of the balance refuses.  The exception is an order for 0.01.
THEOREM SettlementImplemented ==
    ASSUME WholeBalances
    PROVE  Spec /\ []MoreThanTolerance => SettlesOnce
<1>1. SettlementInv /\ MoreThanTolerance /\ [Next]_vars =>
          SettlementInv' /\ [Settled!Next]_Settled!vars
  BY SettlementStep, MadeStep, NextKeepsTruth DEF SettlementInv
<1> QED
  BY <1>1, SettlementInit, PTL DEF Spec, SettlesOnce, Settled!Spec
=============================================================================
