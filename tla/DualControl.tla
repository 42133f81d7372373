---------------------------- MODULE DualControl ----------------------------
(***************************************************************************)
(* What IAM-02 promises of a gated operation, whatever runs concurrently:  *)
(* it is submitted by one user, decided once, approved only by another     *)
(* user, and carried out at most once, after the approval.                 *)
(***************************************************************************)
CONSTANTS Users, Requests, None

VARIABLES
    state,      \* of each request: "none", "pending", "approved" or "refused"
    maker,      \* the user who submitted it
    checker,    \* the user who approved it
    done        \* the requests carried out

vars == <<state, maker, checker, done>>

Init ==
    /\ state = [r \in Requests |-> "none"]
    /\ maker = [r \in Requests |-> None]
    /\ checker = [r \in Requests |-> None]
    /\ done = {}

Submit(r) ==
    /\ state[r] = "none"
    /\ state' = [state EXCEPT ![r] = "pending"]
    /\ \E u \in Users : maker' = [maker EXCEPT ![r] = u]
    /\ UNCHANGED <<checker, done>>

Approve(r) ==
    /\ state[r] = "pending"
    /\ state' = [state EXCEPT ![r] = "approved"]
    /\ \E u \in Users \ {maker[r]} : checker' = [checker EXCEPT ![r] = u]
    /\ UNCHANGED <<maker, done>>

\* Rejected, withdrawn, expired or blocked.
Refuse(r) ==
    /\ state[r] = "pending"
    /\ state' = [state EXCEPT ![r] = "refused"]
    /\ UNCHANGED <<maker, checker, done>>

CarryOut(r) ==
    /\ state[r] = "approved" /\ r \notin done
    /\ done' = done \cup {r}
    /\ UNCHANGED <<state, maker, checker>>

Next == \E r \in Requests : Submit(r) \/ Approve(r) \/ Refuse(r) \/ CarryOut(r)

Spec == Init /\ [][Next]_vars
=============================================================================
