--------------------------- MODULE ConcessionDesk ---------------------------
(***************************************************************************)
(* What the approval of concessions promises, without awaits: a concession *)
(* is asked for, then granted or refused, and granting applies it once at  *)
(* most.  About a concession that was disturbed (two decisions at once, or *)
(* a restart in the middle of one) nothing is promised.                    *)
(***************************************************************************)
EXTENDS Naturals

CONSTANT Concessions

VARIABLES
    state,      \* where each concession stands
    granted     \* the concessions applied to the fees

vars == <<state, granted>>

Init ==
    /\ state = [c \in Concessions |-> "unasked"]
    /\ granted = {}

Ask(c) ==
    /\ state[c] = "unasked"
    /\ state' = [state EXCEPT ![c] = "open"]
    /\ UNCHANGED granted

\* An administrator's own concession needs no approval.
ApplyAtOnce(c) ==
    /\ state[c] = "unasked"
    /\ state' = [state EXCEPT ![c] = "applied"]
    /\ granted' = granted \cup {c}

\* Granted: it is applied, or it turns out that it cannot be.
Grant(c) ==
    /\ state[c] = "open"
    /\ state' = [state EXCEPT ![c] = "applied"]
    /\ granted' \in {granted, granted \cup {c}}

Refuse(c) ==
    /\ state[c] = "open"
    /\ state' = [state EXCEPT ![c] = "refused"]
    /\ UNCHANGED granted

Disturb(C) ==
    /\ state' = [c \in Concessions |-> IF c \in C THEN "disturbed" ELSE state[c]]
    /\ granted' = granted \ C

Next ==
    \/ \E C \in SUBSET Concessions : Disturb(C)
    \/ \E c \in Concessions :
          Ask(c) \/ ApplyAtOnce(c) \/ Grant(c) \/ Refuse(c)

Spec == Init /\ [][Next]_vars
=============================================================================
