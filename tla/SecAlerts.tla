------------------------------ MODULE SecAlerts ------------------------------
(***************************************************************************)
(* SEC-01: the alerts that failed verifications raise, and their closure.  *)
(* A verification of a range is recorded once for an Idempotency-Key, a    *)
(* seal is verified anew by every request; after that transaction has      *)
(* committed, an alert is raised in one of its own, or else a dead letter  *)
(* is left in a third.  These alerts are critical: to close one the        *)
(* request has a decision token verified by IAM-02 between its first and   *)
(* its last transaction.                                                   *)
(***************************************************************************)
EXTENDS Naturals, FiniteSets, Sequences

CONSTANTS
    Keys,       \* Idempotency-Keys of verifications; a range's run is named by its key
    Seal,       \* a seal batch
    CloseKeys,  \* Idempotency-Keys of closures
    Tokens,     \* decision tokens, each for the closure of one alert
    Workers, MaxAlerts, None

VARIABLES
    whole,      \* the events verified are as they were ingested
    run,        \* sec1.integrity_verification_run by key: None, "pass" or "fail"
    alert,      \* statuses of sec1.security_alert by entity, in order of creation
    letter,     \* entities with a sec1.monitoring_dead_letter
    warned,     \* entities whose dead letter could not be written, which is logged
    closure,    \* foundation.idempotency_record of a closure: its status, and the alert and token of its body
    bound,      \* by token, the alert it is bound to: its entity and number
    spent,      \* tokens IAM-02 has consumed
    work,
    told,       \* history: entities whose verification was answered as failed
    closedBy,   \* history: the token each alert was closed with
    confirmed   \* history: alerts that a request was told are closed

vars == <<whole, run, alert, letter, warned, closure, bound, spent, work, told, closedBy, confirmed>>

Entities == Keys \cup {Seal}
NoAlert == <<None, 0>>
Idle == [at |-> "idle", entity |-> None, key |-> None, alert |-> NoAlert, token |-> None]
At(w, point) == work[w].at = point
Go(w, point) == work' = [work EXCEPT ![w].at = point]
Rest(w) == work' = [work EXCEPT ![w] = Idle]

Alerts == {<<e, n>> : e \in Entities, n \in 1..MaxAlerts}
Exists(a) == a[2] \in 1..Len(alert[a[1]])
Status(a) == alert[a[1]][a[2]]
OpenOf(e) == {n \in 1..Len(alert[e]) : alert[e][n] # "closed"}

-----------------------------------------------------------------------------
(* Verification *)

Verified(w, e, result) ==
    work' = IF result = "fail" THEN [work EXCEPT ![w].at = "raising", ![w].entity = e] ELSE work

\* The key's run, if it has one; the claim of the key and the run are one transaction.
VerifyRange(w, k) ==
    /\ At(w, "idle")
    /\ run' = IF run[k] = None THEN [run EXCEPT ![k] = IF whole THEN "pass" ELSE "fail"] ELSE run
    /\ Verified(w, k, run'[k])
    /\ UNCHANGED <<whole, alert, letter, warned, closure, bound, spent, told, closedBy, confirmed>>

\* Whatever the key says, the seal is verified again.
VerifySeal(w) ==
    /\ At(w, "idle") /\ Verified(w, Seal, IF whole THEN "valid" ELSE "fail")
    /\ UNCHANGED <<whole, run, alert, letter, warned, closure, bound, spent, told, closedBy, confirmed>>

\* pg_advisory_xact_lock of the entity.
Free_Always(e) == TRUE
Free(e) == \A w \in Workers : At(w, "creating") => work[w].entity # e

FindOpen(w) ==
    LET e == work[w].entity IN
    /\ At(w, "raising") /\ Free(e) /\ Len(alert[e]) < MaxAlerts
    /\ \/ OpenOf(e) = {} /\ Go(w, "creating")
       \/ OpenOf(e) # {} /\ Go(w, "told")
       \/ Go(w, "failed")
    /\ UNCHANGED <<whole, run, alert, letter, warned, closure, bound, spent, told, closedBy, confirmed>>

createSystemAlert(w) ==
    /\ At(w, "creating")
    /\ \/ alert' = [alert EXCEPT ![work[w].entity] = Append(@, "open")] /\ Go(w, "told")
       \/ Go(w, "failed") /\ UNCHANGED alert
    /\ UNCHANGED <<whole, run, letter, warned, closure, bound, spent, told, closedBy, confirmed>>

\* A dead letter that cannot be written either is only logged.
writeMonitoringDeadLetter_Silent(w) ==
    \/ letter' = letter \cup {work[w].entity} /\ UNCHANGED warned
    \/ UNCHANGED <<letter, warned>>
writeMonitoringDeadLetter(w) ==
    \/ letter' = letter \cup {work[w].entity} /\ UNCHANGED warned
    \/ warned' = warned \cup {work[w].entity} /\ UNCHANGED letter

RaisingFailed(w) ==
    /\ At(w, "failed") /\ Go(w, "told") /\ writeMonitoringDeadLetter(w)
    /\ UNCHANGED <<whole, run, alert, closure, bound, spent, told, closedBy, confirmed>>

\* The result of the verification is answered, whatever became of its alert.
AnswerFailed(w) ==
    /\ At(w, "told") /\ Rest(w) /\ told' = told \cup {work[w].entity}
    /\ UNCHANGED <<whole, run, alert, letter, warned, closure, bound, spent, closedBy, confirmed>>

\* The process dies between two transactions of a request.
Dies(w) ==
    /\ ~At(w, "idle") /\ Rest(w)
    /\ UNCHANGED <<whole, run, alert, letter, warned, closure, bound, spent, told, closedBy, confirmed>>

-----------------------------------------------------------------------------
(* Closure *)

\* Assigned and triaged, each under the row lock.
Reviewed(a) ==
    /\ Exists(a) /\ Status(a) \in {"open", "assigned"}
    /\ alert' = [alert EXCEPT ![a[1]][a[2]] = IF @ = "open" THEN "assigned" ELSE "triaged"]
    /\ UNCHANGED <<whole, run, letter, warned, closure, bound, spent, work, told, closedBy, confirmed>>

Approve(t, a) ==
    /\ bound[t] = NoAlert /\ Exists(a) /\ bound' = [bound EXCEPT ![t] = a]
    /\ UNCHANGED <<whole, run, alert, letter, warned, closure, spent, work, told, closedBy, confirmed>>

\* The key is claimed in a transaction of its own.  Only a completed closure is a replay: one
\* still processing may have failed, and is gone through again.
Replayed_Processing(k) == closure[k].status # None
Replayed(k) == closure[k].status = "completed"

\* A key belongs to one body for good, so to one alert and token; another body is refused.
Close(w, k, a, t) ==
    /\ At(w, "idle") /\ Exists(a)
    /\ closure[k].status # None => closure[k].alert = a /\ closure[k].token = t
    /\ IF Replayed(k)
       THEN /\ confirmed' = confirmed \cup {a}
            /\ UNCHANGED <<closure, work>>
       ELSE /\ closure' = [closure EXCEPT ![k] = [status |-> "processing", alert |-> a, token |-> t]]
            /\ work' = [work EXCEPT ![w] = [at |-> "verifying", entity |-> None, key |-> k, alert |-> a, token |-> t]]
            /\ UNCHANGED confirmed
    /\ UNCHANGED <<whole, run, alert, letter, warned, bound, spent, told, closedBy>>

\* IAM-02 consumes the token; its answer may be lost, and then nothing is closed.
verifyDecisionToken(w) ==
    LET t == work[w].token IN
    /\ At(w, "verifying")
    /\ IF bound[t] = work[w].alert /\ t \notin spent
       THEN spent' = spent \cup {t} /\ (Go(w, "closing") \/ Rest(w))
       ELSE UNCHANGED spent /\ Rest(w)
    /\ UNCHANGED <<whole, run, alert, letter, warned, closure, bound, told, closedBy, confirmed>>

\* Under the row lock, from triaged only; the key is completed in the same transaction.
closeAlert(w) ==
    LET closing == work[w].alert IN
    /\ At(w, "closing") /\ Rest(w)
    /\ IF Status(closing) = "triaged"
       THEN /\ alert' = [alert EXCEPT ![closing[1]][closing[2]] = "closed"]
            /\ closure' = [closure EXCEPT ![work[w].key].status = "completed"]
            /\ closedBy' = closedBy \cup {<<closing, work[w].token>>}
            /\ confirmed' = confirmed \cup {closing}
       ELSE UNCHANGED <<alert, closure, closedBy, confirmed>>
    /\ UNCHANGED <<whole, run, letter, warned, bound, spent, told>>

-----------------------------------------------------------------------------
\* A row is altered in the database, or restored.
Altered ==
    /\ whole' = ~whole
    /\ UNCHANGED <<run, alert, letter, warned, closure, bound, spent, work, told, closedBy, confirmed>>

Init ==
    /\ whole = FALSE /\ run = [k \in Keys |-> None]
    /\ alert = [e \in Entities |-> <<>>] /\ letter = {} /\ warned = {}
    /\ closure = [k \in CloseKeys |-> [status |-> None, alert |-> NoAlert, token |-> None]]
    /\ bound = [t \in Tokens |-> NoAlert] /\ spent = {}
    /\ work = [w \in Workers |-> Idle]
    /\ told = {} /\ closedBy = {} /\ confirmed = {}

Next ==
    \/ \E w \in Workers :
          \/ \E k \in Keys : VerifyRange(w, k)
          \/ VerifySeal(w) \/ FindOpen(w) \/ createSystemAlert(w) \/ RaisingFailed(w) \/ AnswerFailed(w) \/ Dies(w)
          \/ \E k \in CloseKeys, a \in Alerts, t \in Tokens : Close(w, k, a, t)
          \/ verifyDecisionToken(w) \/ closeAlert(w)
    \/ \E a \in Alerts : Reviewed(a) \/ \E t \in Tokens : Approve(t, a)
    \/ Altered

Spec == Init /\ [][Next]_vars

-----------------------------------------------------------------------------
TypeOK ==
    /\ \A k \in Keys : run[k] \in {None, "pass", "fail"}
    /\ \A e \in Entities : \A n \in 1..Len(alert[e]) : alert[e][n] \in {"open", "assigned", "triaged", "closed"}
    /\ \A k \in CloseKeys : closure[k].status \in {None, "processing", "completed"}
    /\ letter \cup warned \cup told \subseteq Entities

\* Failed verifications of one run or seal that overlap leave one open alert for it.
OneOpenPerEntity == \A e \in Entities : Cardinality(OpenOf(e)) <= 1

\* Whoever is answered that a verification failed knows that an alert was raised for it, or a
\* dead letter left, or at least a warning logged.
FailureRaised == \A e \in told : alert[e] # <<>> \/ e \in letter \cup warned

\* An alert is closed with a token that was bound to it and is spent, each closes one alert,
\* and a request is told of a closure, or of an earlier one of its key, only once it happened.
ClosedByApproval ==
    /\ \A a \in Alerts : Exists(a) /\ Status(a) = "closed" => \E t \in spent : <<a, t>> \in closedBy /\ bound[t] = a
    /\ \A x, y \in closedBy : x[2] = y[2] => x = y
    /\ \A a \in confirmed : Status(a) = "closed"
=============================================================================
