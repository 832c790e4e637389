----------------------------- MODULE Approvals -----------------------------
(***************************************************************************)
(* Approval of concessions: approvals.service.ts.  A fin or ops admin's    *)
(* concession waits as a PENDING row until a tenant admin decides.  To     *)
(* approve is three awaits without a transaction: read the row, run the    *)
(* stored FeesService call, save the row as APPROVED; to reject is two.    *)
(* Other decisions and a restart of the API may fall between any of them.  *)
(***************************************************************************)
EXTENDS Naturals

CONSTANTS
    Concessions,    \* the concessions the staff ask for
    Deciders,       \* approve and reject requests that may be in progress
    MaxRestarts     \* bound: restarts of the API

ASSUME ApprovalsAssumption == MaxRestarts \in Nat

VARIABLES
    status, result,   \* columns of adjustment_approvals; no row: "NONE"
    applied,          \* how often FeesService applied each concession
    deciding,         \* the concession each request works on
    stage,            \* how far each request is
    restarts,
    overlapped,       \* concessions two requests worked on at once (history)
    interrupted       \* concessions a restart left applied but PENDING (history)

rowVars == <<status, result>>
requestVars == <<deciding, stage>>
approvalVars ==
    <<rowVars, applied, requestVars, restarts, overlapped, interrupted>>

Stages == {"idle", "approving", "rejecting", "ran", "failed"}

ApprovalsTypeOK ==
    /\ status \in [Concessions -> {"NONE", "PENDING", "APPROVED", "REJECTED"}]
    /\ result \in [Concessions -> {"null", "ok", "error"}]
    /\ applied \in [Concessions -> Nat]
    /\ deciding \in [Deciders -> Concessions]
    /\ stage \in [Deciders -> Stages]
    /\ restarts \in 0 .. MaxRestarts
    /\ overlapped \subseteq Concessions
    /\ interrupted \subseteq Concessions

Open(c) == {d \in Deciders : stage[d] # "idle" /\ deciding[d] = c}

InitApprovals ==
    /\ status = [c \in Concessions |-> "NONE"]
    /\ result = [c \in Concessions |-> "null"]
    /\ applied = [c \in Concessions |-> 0]
    /\ \E c \in Concessions : deciding = [d \in Deciders |-> c]
    /\ stage = [d \in Deciders |-> "idle"]
    /\ restarts = 0
    /\ overlapped = {}
    /\ interrupted = {}

\* gate, called by an approver: the concession is applied at once.
GateApply(c) ==
    /\ status[c] = "NONE" /\ applied[c] = 0
    /\ applied' = [applied EXCEPT ![c] = 1]
    /\ UNCHANGED <<rowVars, requestVars, restarts, overlapped, interrupted>>

\* gate, called by anyone else: the concession waits for an approver.
GateQueue(c) ==
    /\ status[c] = "NONE" /\ applied[c] = 0
    /\ status' = [status EXCEPT ![c] = "PENDING"]
    /\ UNCHANGED <<result, applied, requestVars, restarts, overlapped, interrupted>>

\* Mutant of BeginDecision: the status is not tested.
BeginDecisionUntested(d, c, first) ==
    /\ stage[d] = "idle"
    /\ status[c] # "NONE"
    /\ deciding' = [deciding EXCEPT ![d] = c]
    /\ stage' = [stage EXCEPT ![d] = first]
    /\ overlapped' = IF Open(c) = {} THEN overlapped ELSE overlapped \cup {c}
    /\ UNCHANGED <<rowVars, applied, restarts, interrupted>>

\* approve and reject: findOne, and the row must be PENDING.
BeginDecision(d, c, first) ==
    /\ stage[d] = "idle"
    /\ status[c] = "PENDING"
    /\ deciding' = [deciding EXCEPT ![d] = c]
    /\ stage' = [stage EXCEPT ![d] = first]
    /\ overlapped' = IF Open(c) = {} THEN overlapped ELSE overlapped \cup {c}
    /\ UNCHANGED <<rowVars, applied, restarts, interrupted>>

Approve(d, c) == BeginDecision(d, c, "approving")
Reject(d, c) == BeginDecision(d, c, "rejecting")

\* Mutant of RunFails: the error is met after the fees were written.
RunFailsLate(d) ==
    /\ stage[d] = "approving"
    /\ applied' = [applied EXCEPT ![deciding[d]] = @ + 1]
    /\ stage' = [stage EXCEPT ![d] = "failed"]
    /\ UNCHANGED <<rowVars, deciding, restarts, overlapped, interrupted>>

\* run: one transaction of FeesService, which commits or throws.
RunCommits(d) ==
    /\ stage[d] = "approving"
    /\ applied' = [applied EXCEPT ![deciding[d]] = @ + 1]
    /\ stage' = [stage EXCEPT ![d] = "ran"]
    /\ UNCHANGED <<rowVars, deciding, restarts, overlapped, interrupted>>

RunFails(d) ==
    /\ stage[d] = "approving"
    /\ stage' = [stage EXCEPT ![d] = "failed"]
    /\ UNCHANGED <<rowVars, applied, deciding, restarts, overlapped, interrupted>>

\* save writes every column that differs from the row as it is now, so the
\* request that saves last wins.
SaveRow(d, decision, outcome) ==
    /\ status' = [status EXCEPT ![deciding[d]] = decision]
    /\ result' = [result EXCEPT ![deciding[d]] = outcome]
    /\ stage' = [stage EXCEPT ![d] = "idle"]
    /\ UNCHANGED <<applied, deciding, restarts, overlapped, interrupted>>

SaveApproval(d) ==
    \/ stage[d] = "ran" /\ SaveRow(d, "APPROVED", "ok")
    \/ stage[d] = "failed" /\ SaveRow(d, "APPROVED", "error")

SaveRejection(d) ==
    /\ stage[d] = "rejecting"
    /\ SaveRow(d, "REJECTED", "null")

\* The API restarts: the requests in progress are lost, the rows stay.
Restart ==
    /\ restarts < MaxRestarts
    /\ \E d \in Deciders : stage[d] # "idle"
    /\ restarts' = restarts + 1
    /\ stage' = [d \in Deciders |-> "idle"]
    /\ interrupted' = interrupted \cup {c \in Concessions : \E d \in Open(c) : stage[d] = "ran"}
    /\ UNCHANGED <<rowVars, applied, deciding, overlapped>>

Proceed(d) == RunCommits(d) \/ RunFails(d) \/ SaveApproval(d) \/ SaveRejection(d)

NextApprovals ==
    \/ \E c \in Concessions : GateApply(c) \/ GateQueue(c)
    \/ \E d \in Deciders, c \in Concessions : Approve(d, c) \/ Reject(d, c)
    \/ \E d \in Deciders : Proceed(d)
    \/ Restart

SpecApprovals == InitApprovals /\ [][NextApprovals]_approvalVars

-----------------------------------------------------------------------------
(* Properties.                                                             *)

Disturbed == overlapped \cup interrupted

\* A concession is applied once at most, and once nobody is deciding the row
\* says whether it was: a rejected or waiting one was not, an approved one with
\* result ok was.  Unless two administrators decided it at once or a restart
\* fell between the fees and the row.
RowTellsLedger ==
    \A c \in Concessions \ Disturbed :
        /\ applied[c] <= 1
        /\ Open(c) = {} /\ status[c] # "NONE" =>
              (applied[c] = 1 <=> status[c] = "APPROVED" /\ result[c] = "ok")

Standing(c) ==
    IF c \in Disturbed THEN "disturbed"
    ELSE CASE status[c] = "REJECTED" -> "refused"
           [] status[c] = "APPROVED" -> "applied"
           [] status[c] = "PENDING" ->
                IF \E d \in Open(c) : stage[d] = "ran" THEN "applied" ELSE "open"
           [] status[c] = "NONE" ->
                IF applied[c] = 0 THEN "unasked" ELSE "applied"

Desk == INSTANCE ConcessionDesk WITH
    state <- [c \in Concessions |-> Standing(c)],
    granted <- {c \in Concessions \ Disturbed : applied[c] > 0}

\* Undisturbed concessions are granted or refused as at a desk, one by one.
DecidesLikeDesk == Desk!Spec
=============================================================================
