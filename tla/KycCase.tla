------------------------------- MODULE KycCase -------------------------------
(***************************************************************************)
(* KYC-01: how one verification case comes by its outcome.  Evidence is    *)
(* uploaded and its findings recorded, the engine computes an outcome from *)
(* them, and an approved manual override may replace it.  An override is   *)
(* asked for and applied by handlers that call IAM-02 between reading the  *)
(* case and writing it.                                                    *)
(***************************************************************************)
EXTENDS Naturals, FiniteSets

CONSTANTS
    Documents,      \* required checklist items of the case's type
    Users,
    Requests,       \* numbers of the override requests, in the order they are filed
    Workers,
    MaxOutcomes,    \* bound: outcomes recorded
    None

VARIABLES
    item,           \* kyc1.document_checklist_item.status
    finding,        \* the latest identity (or entity) findings: more than one if their times tie
    provided,       \* users with a manual verification_result on the case
    outcome,        \* the current kyc1.cdd_outcome: number, result, manual
    override,       \* kyc1.manual_override_request
    work            \* the point each worker has reached

vars == <<item, finding, provided, outcome, override, work>>

OutcomeValues == {"pass", "fail", "remediation_required"}
NoOutcome == [number |-> 0, result |-> None, manual |-> FALSE]
NoRequest == [by |-> None, target |-> None, against |-> NoOutcome, status |-> None]
Idle == [at |-> "idle", req |-> NoRequest, id |-> None]

Now(w) == work[w].at
Rest(w) == work' = [work EXCEPT ![w] = Idle]
CaseUntouched == UNCHANGED <<item, finding, provided>>

-----------------------------------------------------------------------------
(* Evidence *)

Upload(d) ==
    /\ item' = [item EXCEPT ![d] = IF @ = "missing" THEN "received" ELSE @]
    /\ UNCHANGED <<finding, provided, outcome, override, work>>

\* A finding is manual, and then its provider is on record, or the registry's (None).
Provides_Registry(u) == provided' = provided \cup {u}
Provides(u) == provided' = provided \cup ({u} \ {None})

RecordDocument(d, u, s) ==
    /\ item' = [item EXCEPT ![d] = IF s = "pass" THEN "verified" ELSE "rejected"]
    /\ Provides(u)
    /\ UNCHANGED <<finding, outcome, override, work>>

RecordIdentity(u, s, tied) ==
    /\ finding' = IF tied THEN finding \cup {s} ELSE {s}
    /\ Provides(u)
    /\ UNCHANGED <<item, outcome, override, work>>

\* computeCddOutcome; of findings whose times tie, the one with the greater id counts.
Verdicts(found) ==
    CASE found = "fail" -> "fail"
      [] found # "fail" /\ (\E d \in Documents : item[d] = "rejected") -> "fail"
      [] found = "pass" /\ (\A d \in Documents : item[d] = "verified") -> "pass"
      [] OTHER -> "remediation_required"
Engine == {Verdicts(f) : f \in IF finding = {} THEN {None} ELSE finding}

-----------------------------------------------------------------------------
(* Outcomes *)

Record(result, manual) ==
    /\ outcome.number < MaxOutcomes
    /\ outcome' = [number |-> outcome.number + 1, result |-> result, manual |-> manual]

Overridden_Fail == outcome.manual /\ outcome.result = "fail"
Overridden == outcome.manual

\* compute-outcome, under the case's row lock.
Compute ==
    /\ outcome.result # "pass" /\ ~Overridden
    /\ \E s \in Engine : Record(s, FALSE)
    /\ CaseUntouched /\ UNCHANGED <<override, work>>

-----------------------------------------------------------------------------
(* Override *)

Overridable(target) == outcome.result \notin {None, target} /\ ~outcome.manual
OpenRequest == \E q \in Requests : override[q].status = "requested"
IsNext(q) == \A p \in Requests : override[p] = NoRequest <=> p >= q

\* The request handler up to its transaction: it asks IAM-02 for the requester's permission.
AskOverride(w, u, target) ==
    /\ Now(w) = "idle" /\ Overridable(target) /\ u \notin provided
    /\ work' = [work EXCEPT ![w] =
          [at |-> "asking", id |-> None,
           req |-> [by |-> u, target |-> target, against |-> NoOutcome, status |-> None]]]
    /\ CaseUntouched /\ UNCHANGED <<outcome, override>>

\* The request is bound to the outcome read again under the lock.
FileOverride(w, q) ==
    LET r == work[w].req IN
    /\ Now(w) = "asking" /\ IsNext(q)
    /\ override' = IF Overridable(r.target) /\ ~OpenRequest
                   THEN [override EXCEPT ![q] = 
                                         [by |-> r.by, target |-> r.target, against |-> outcome, status |-> "requested"]]
                   ELSE override
    /\ Rest(w)
    /\ CaseUntouched /\ UNCHANGED outcome

\* The apply handler up to its transaction: IAM-02 consumes a token for this request.
VerifyOverride(w, q) ==
    /\ Now(w) = "idle" /\ override[q].status = "requested"
    /\ work' = [work EXCEPT ![w] = [at |-> "verified", req |-> NoRequest, id |-> q]]
    /\ CaseUntouched /\ UNCHANGED <<outcome, override>>

CaseStateChanged_StatusOnly(q) == outcome.result # override[q].against.result
CaseStateChanged(q) ==
    outcome.number # override[q].against.number \/ outcome.result # override[q].against.result

ApplyOverride(w) ==
    LET q == work[w].id IN
    /\ Now(w) = "verified" /\ Rest(w)
    /\ \/ /\ override[q].status = "requested" /\ ~CaseStateChanged(q) /\ Overridable(override[q].target)
          /\ Record(override[q].target, TRUE)
          /\ override' = [override EXCEPT ![q].status = "applied"]
       \/ /\ override[q].status = "requested"
          /\ CaseStateChanged(q) \/ ~Overridable(override[q].target)
          /\ override' = [override EXCEPT ![q].status = "failed"]
          /\ UNCHANGED outcome
       \/ override[q].status # "requested" /\ UNCHANGED <<outcome, override>>
    /\ CaseUntouched

-----------------------------------------------------------------------------
Init ==
    /\ item = [d \in Documents |-> "missing"]
    /\ finding = {} /\ provided = {} /\ outcome = NoOutcome
    /\ override = [q \in Requests |-> NoRequest]
    /\ work = [w \in Workers |-> Idle]

Next ==
    \/ \E d \in Documents : Upload(d)
    \/ \E d \in Documents, u \in Users \cup {None}, s \in {"pass", "fail"} : RecordDocument(d, u, s)
    \/ \E u \in Users \cup {None}, s \in {"pass", "fail"}, tied \in BOOLEAN : RecordIdentity(u, s, tied)
    \/ Compute
    \/ \E w \in Workers :
          \/ \E u \in Users, target \in OutcomeValues : AskOverride(w, u, target)
          \/ \E q \in Requests : FileOverride(w, q) \/ VerifyOverride(w, q)
          \/ ApplyOverride(w)

Spec == Init /\ [][Next]_vars

-----------------------------------------------------------------------------
ItemStatuses == {"missing", "received", "verified", "rejected"}

FindingStatuses == {"pass", "fail"}
OutcomeRows == [number : 0..MaxOutcomes, result : OutcomeValues \cup {None}, manual : BOOLEAN]
OverrideRows == [by : Users, target : OutcomeValues, against : OutcomeRows, status : {"requested", "applied", "failed"}]

TypeOK ==
    /\ item \in [Documents -> ItemStatuses]
    /\ finding \subseteq FindingStatuses /\ provided \subseteq Users
    /\ outcome \in OutcomeRows
    /\ \A q \in Requests : override[q] \in OverrideRows \cup {NoRequest}
    /\ \A w \in Workers : Now(w) \in {"idle", "asking", "verified"}

\* An override replaces the very outcome it was approved against: an outcome computed in
\* between, even with the same result, ends the request.
ReplacesWhatWasApproved ==
    [][outcome'.manual /\ outcome' # outcome =>
          \E q \in Requests :
             /\ override[q].status = "requested" /\ override'[q].status = "applied"
             /\ outcome = override[q].against /\ outcome'.result = override[q].target]_vars

\* What a reviewer decided by override stands: nothing computed, and no other override,
\* replaces it, whatever evidence arrives.
ManualStands == [][outcome.manual => outcome' = outcome]_vars
=============================================================================
