--------------------------- MODULE OnlinePayments ---------------------------
(***************************************************************************)
(* Online payment of one fee: createOrder and verifyPayment of             *)
(* payments.service.ts, the webhook handlers of                            *)
(* webhook-handler.service.ts, and recordOnlineFeePayment, which both use  *)
(* to credit the fee.  A gateway order may be attempted several times; the *)
(* gateway reports each attempt by a webhook, possibly late, in any order  *)
(* and repeatedly, while the payer's browser asks for verification.        *)
(*                                                                         *)
(* The two gateways differ in what reaches the handlers.  A Razorpay       *)
(* webhook never does: extractOrderId wants payment.entity.order_id, the   *)
(* handler payment.id and order.id, and no payload has both.  A Cashfree   *)
(* page does not know the id of the payment, without which verifyPayment   *)
(* refuses: PaymentNamed says whether other clients name it.               *)
(*                                                                         *)
(* Every await of a handler is a step of its own, and nothing holds a lock *)
(* across two of them: only the balance check and the credit are in one    *)
(* transaction (recordPayment, see FeeLedger).                             *)
(***************************************************************************)
EXTENDS Integers

CONSTANTS
    Orders, Attempts,
    Verifiers, Hooks,  \* verification and webhook requests being served
    RazorpayOrders,    \* the others are Cashfree's
    PaymentNamed,      \* do clients name the payment of a Cashfree order?
    InitialDue,        \* net_amount - paid_amount of the fee at the start
    MaxDue,            \* bound on it
    Moves,             \* what penalties, discounts and staff payments add
    OrderAmounts,      \* amounts a client of create-order may name
    FullBalance,       \* are orders only made for the whole balance?
    MaxCrashes,        \* bound: requests that end half way
    Idle

ASSUME OnlineAssumption ==
    /\ RazorpayOrders \subseteq Orders
    /\ PaymentNamed \in BOOLEAN
    /\ MaxDue \in Nat
    /\ InitialDue \in 0 .. MaxDue
    /\ Moves \subseteq Int
    /\ OrderAmounts \subseteq Nat \ {0}
    /\ FullBalance \in BOOLEAN
    /\ MaxCrashes \in Nat
    /\ Verifiers \cap Hooks = {}

Workers == Verifiers \cup Hooks
PaymentStatus == {"none", "created", "paid", "failed"}
Outcomes == {"none", "captured", "failed"}
Steps == {"read", "answered", "saved", "logged", "checked"}
Jobs == [order : Orders, attempt : Attempts, step : Steps, success : BOOLEAN]

VARIABLES
    due,            \* net_amount - paid_amount of the fee
    outcome,        \* at the gateway: how each attempt at an order ended
    amount, status, \* rows of payments
    transactions,   \* rows of transactions, equal ones counted once
    credits,        \* per order, its rows in fee_payments
    worker,         \* requests being served
    acked,          \* webhooks answered with a 2xx, not sent again
    crashes

vars == <<due, outcome, amount, status, transactions, credits, worker, acked,
          crashes>>

Attempted(o, a) == outcome[o][a] # "none"

CapturedBy(o, a) == outcome[o][a] = "captured"

Captured(o) == \E a \in Attempts : CapturedBy(o, a)

TypeOK ==
    /\ due \in Int
    /\ due <= MaxDue
    /\ outcome \in [Orders -> [Attempts -> Outcomes]]
    /\ amount \in [Orders -> Nat]
    /\ status \in [Orders -> PaymentStatus]
    /\ transactions \subseteq
         [order : Orders, attempt : Attempts, success : BOOLEAN]
    /\ credits \in [Orders -> Nat]
    /\ worker \in [Workers -> Jobs \cup {Idle}]
    /\ acked \subseteq Orders \X Attempts
    /\ crashes \in 0 .. MaxCrashes

Init ==
    /\ due = InitialDue
    /\ outcome = [o \in Orders |-> [a \in Attempts |-> "none"]]
    /\ amount = [o \in Orders |-> 0]
    /\ status = [o \in Orders |-> "none"]
    /\ transactions = {}
    /\ credits = [o \in Orders |-> 0]
    /\ worker = [w \in Workers |-> Idle]
    /\ acked = {}
    /\ crashes = 0

-----------------------------------------------------------------------------
\* createOrder, called by public-pay and the parent portal for the balance
\* they just read, and by payments/create-order for any amount.  (A balance
\* read long before the order exists is an order made at that time: nobody
\* can use it in between.)
CreateOrder(o, n) ==
    /\ status[o] = "none"
    /\ IF FullBalance THEN n = due /\ due > 0 ELSE n \in OrderAmounts
    /\ amount' = [amount EXCEPT ![o] = n]
    /\ status' = [status EXCEPT ![o] = "created"]
    /\ UNCHANGED <<due, outcome, transactions, credits, worker, acked, crashes>>

\* The payer at the gateway: an attempt ends, and at most one at an order is
\* captured.  Until then its outcome is "none", begun or not.
Attempt(o, a, result) ==
    /\ status[o] # "none"
    /\ ~Attempted(o, a)
    /\ ~Captured(o)
    /\ outcome' = [outcome EXCEPT ![o][a] = result]
    /\ UNCHANGED <<due, amount, status, transactions, credits, worker, acked,
                   crashes>>

\* A penalty, a discount or an offline payment on the same fee.
MoveBalance(n) ==
    /\ due + n \in 0 .. MaxDue
    /\ due' = due + n
    /\ UNCHANGED <<outcome, amount, status, transactions, credits, worker,
                   acked, crashes>>

-----------------------------------------------------------------------------
(* The requests.  Finish ends one; only a webhook is acknowledged.         *)

Goto(w, step) == worker' = [worker EXCEPT ![w].step = step]

Finish(w) ==
    /\ worker' = [worker EXCEPT ![w] = Idle]
    /\ acked' = IF w \in Hooks
                THEN acked \cup {<<worker[w].order, worker[w].attempt>>}
                ELSE acked

\* verifyPayment up to the call of the gateway.  A paid order returns early,
\* and so does a request that names no payment.
StartVerify(w, o, a) ==
    /\ worker[w] = Idle
    /\ o \in RazorpayOrders \/ PaymentNamed
    /\ status[o] \in {"created", "failed"}
    /\ worker' = [worker EXCEPT ![w] =
         [order |-> o, attempt |-> a, step |-> "read", success |-> FALSE]]
    /\ UNCHANGED <<due, outcome, amount, status, transactions, credits, acked,
                   crashes>>

\* The gateways' verifyPayment, in production.  Razorpay: the signature fits
\* the attempt the browser names.  Cashfree: the order is paid, by whichever.
AskGateway(w) ==
    LET o == worker[w].order
        a == worker[w].attempt
    IN
    /\ worker[w] # Idle
    /\ worker[w].step = "read"
    /\ worker' =
         [worker EXCEPT ![w] =
            IF o \notin RazorpayOrders /\ Captured(o)
            THEN [order |-> o, step |-> "answered", success |-> TRUE,
                  attempt |-> CHOOSE b \in Attempts : CapturedBy(o, b)]
            ELSE [order |-> o, step |-> "answered", attempt |-> a,
                  success |-> CapturedBy(o, a)]]
    /\ UNCHANGED <<due, outcome, amount, status, transactions, credits, acked,
                   crashes>>

\* The handlers' "Prevent duplicate processing".
Processed(o, a) == \E t \in transactions : t.order = o /\ t.attempt = a

\* A webhook arrives, its order is read and the check for a duplicate made.
StartWebhook(w, o, a) ==
    /\ worker[w] = Idle
    /\ o \notin RazorpayOrders
    /\ Attempted(o, a)
    /\ <<o, a>> \notin acked
    /\ IF Processed(o, a)
       THEN acked' = acked \cup {<<o, a>>} /\ UNCHANGED worker
       ELSE /\ worker' = [worker EXCEPT ![w] =
                 [order |-> o, attempt |-> a, step |-> "answered",
                  success |-> CapturedBy(o, a)]]
            /\ UNCHANGED acked
    /\ UNCHANGED <<due, outcome, amount, status, transactions, credits, crashes>>

\* Mutant of SavePayment: every outcome counts as paid.
SavePaymentAsPaid(w) ==
    /\ worker[w] # Idle
    /\ worker[w].step = "answered"
    /\ status' = [status EXCEPT ![worker[w].order] = "paid"]
    /\ Goto(w, "saved")
    /\ UNCHANGED <<due, outcome, amount, transactions, credits, acked, crashes>>

\* payments.save with the status the request decided on, whatever the row
\* says by now.
SavePayment(w) ==
    /\ worker[w] # Idle
    /\ worker[w].step = "answered"
    /\ status' = [status EXCEPT ![worker[w].order] =
                    IF worker[w].success THEN "paid" ELSE "failed"]
    /\ Goto(w, "saved")
    /\ UNCHANGED <<due, outcome, amount, transactions, credits, acked, crashes>>

\* Mutant of SaveTransaction: a failure is credited too.
SaveTransactionAndGoOn(w) ==
    /\ worker[w] # Idle
    /\ worker[w].step = "saved"
    /\ transactions' = transactions \cup
         {[order |-> worker[w].order, attempt |-> worker[w].attempt,
           success |-> worker[w].success]}
    /\ Goto(w, "logged")
    /\ UNCHANGED <<due, outcome, amount, status, credits, acked, crashes>>

\* transactions.save; a failure ends here.
SaveTransaction(w) ==
    /\ worker[w] # Idle
    /\ worker[w].step = "saved"
    /\ transactions' = transactions \cup
         {[order |-> worker[w].order, attempt |-> worker[w].attempt,
           success |-> worker[w].success]}
    /\ IF worker[w].success
       THEN Goto(w, "logged") /\ UNCHANGED acked
       ELSE Finish(w)
    /\ UNCHANGED <<due, outcome, amount, status, credits, crashes>>

\* Mutant of FindExisting: another attempt is taken for a duplicate.
FindExistingTransaction(w) ==
    /\ worker[w] # Idle
    /\ worker[w].step = "logged"
    /\ IF \E t \in transactions :
            t.order = worker[w].order /\ t.attempt # worker[w].attempt
       THEN Finish(w)
       ELSE Goto(w, "checked") /\ UNCHANGED acked
    /\ UNCHANGED <<due, outcome, amount, status, transactions, credits, crashes>>

\* recordOnlineFeePayment: "Idempotent by orderId".
FindExisting(w) ==
    /\ worker[w] # Idle
    /\ worker[w].step = "logged"
    /\ IF credits[worker[w].order] > 0
       THEN Finish(w)
       ELSE Goto(w, "checked") /\ UNCHANGED acked
    /\ UNCHANGED <<due, outcome, amount, status, transactions, credits, crashes>>

\* recordPayment accepts at most 0.01 above the balance.
Tolerance == 1
\* Mutant of Fits: the amount is not compared with the balance.
FitsWhileOpen(o) == due > 0

Fits(o) == amount[o] <= due + Tolerance

\* Mutant of Credit: the balance is not lowered.
CreditKeepingBalance(w) ==
    LET o == worker[w].order IN
    /\ worker[w] # Idle
    /\ worker[w].step = "checked"
    /\ credits' = IF Fits(o) THEN [credits EXCEPT ![o] = @ + 1] ELSE credits
    /\ Finish(w)
    /\ UNCHANGED <<due, outcome, amount, status, transactions, crashes>>

\* Mutant of Credit: the amount has the wrong sign.
CreditRaisingBalance(w) ==
    LET o == worker[w].order IN
    /\ worker[w] # Idle
    /\ worker[w].step = "checked"
    /\ IF Fits(o)
       THEN /\ credits' = [credits EXCEPT ![o] = @ + 1]
            /\ due' = due + amount[o]
       ELSE UNCHANGED <<credits, due>>
    /\ Finish(w)
    /\ UNCHANGED <<outcome, amount, status, transactions, crashes>>

\* The transaction of recordPayment.  A refusal is caught and forgotten.
Credit(w) ==
    LET o == worker[w].order IN
    /\ worker[w] # Idle
    /\ worker[w].step = "checked"
    /\ IF Fits(o)
       THEN /\ credits' = [credits EXCEPT ![o] = @ + 1]
            /\ due' = due - amount[o]
       ELSE UNCHANGED <<credits, due>>
    /\ Finish(w)
    /\ UNCHANGED <<outcome, amount, status, transactions, crashes>>

\* The request ends here.  Either the process dies, or an exception does it:
\* the webhook endpoint catches that and answers like a success.
Crash(w) ==
    /\ worker[w] # Idle
    /\ crashes < MaxCrashes
    /\ crashes' = crashes + 1
    /\ \/ worker' = [worker EXCEPT ![w] = Idle] /\ UNCHANGED acked
       \/ Finish(w)
    /\ UNCHANGED <<due, outcome, amount, status, transactions, credits>>

-----------------------------------------------------------------------------
Serve(w) ==
    \/ AskGateway(w)
    \/ SavePayment(w)
    \/ SaveTransaction(w)
    \/ FindExisting(w)
    \/ Credit(w)

Deliver(o, a) == \E w \in Hooks : StartWebhook(w, o, a)

Next ==
    \/ \E o \in Orders, n \in OrderAmounts \cup {due} : CreateOrder(o, n)
    \/ \E o \in Orders, a \in Attempts, r \in {"captured", "failed"} :
          Attempt(o, a, r)
    \/ \E n \in Moves : MoveBalance(n)
    \/ \E w \in Verifiers, o \in Orders, a \in Attempts : StartVerify(w, o, a)
    \/ \E o \in Orders, a \in Attempts : Deliver(o, a)
    \/ \E w \in Workers : Serve(w)
    \/ \E w \in Workers : Crash(w)

Spec == Init /\ [][Next]_vars

\* A request that is not lost is served, and the gateway sends a webhook
\* again until it is acknowledged.  Payers and browsers owe nothing.
FairSpec ==
    /\ Spec
    /\ \A w \in Workers : WF_vars(Serve(w))
    /\ \A o \in Orders, a \in Attempts : WF_vars(Deliver(o, a))

-----------------------------------------------------------------------------
(* Properties.                                                             *)

\* Money is credited only if the gateway took it, and only after a success
\* transaction was written that explains it.
CreditIsExplained ==
    \A o \in Orders : credits[o] > 0 =>
        /\ Captured(o)
        /\ \E t \in transactions :
              t.order = o /\ t.success /\ CapturedBy(o, t.attempt)

\* Online payments never overpay the fee by more than the tolerance, whatever
\* the orders, and however they race with the office.
NeverOvercredited == due >= -Tolerance

\* payments.status says paid only of an order whose money was taken, however
\* verifications and webhooks of its attempts overwrite each other.
PaidIsCaptured == \A o \in Orders : status[o] = "paid" => Captured(o)

\* recordOnlineFeePayment: "shared between verify-time and webhook paths so
\* they can't double-count".
AtMostOneCredit == \A o \in Orders : credits[o] <= 1

\* Captured money reaches the fee, by verification or by webhook: "the webhook
\* reconciles if this fails" (verifyPayment), "The webhook stays the source of
\* truth" (the parent portal).
CapturedIsCredited == \A o \in Orders : Captured(o) ~> credits[o] > 0

Settled == INSTANCE Settlement WITH captured <- {o \in Orders : Captured(o)}

\* Orders for the whole balance of a fee that only shrinks settle as
\* Settlement says: the check of the balance refuses every second credit,
\* unless the order is for no more than the tolerance.
SettlesOnce == Settled!Spec
=============================================================================
