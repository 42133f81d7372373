---------------------------- MODULE SecMonitoring ----------------------------
(***************************************************************************)
(* SEC-01: the evaluation of a monitoring rule after an event's ingestion  *)
(* has committed, its alerts and its dead letters.  Each step is a         *)
(* transaction of its own, so a process that dies in between leaves an     *)
(* ingested event unevaluated; an evaluation that fails leaves a dead      *)
(* letter, which an operator may replay.  One rule, and events of one      *)
(* window.                                                                 *)
(***************************************************************************)
EXTENDS Naturals, FiniteSets, Sequences

CONSTANTS
    Events, Scopes,
    Scope,          \* [Events -> Scopes], the value of the rule's scope column
    Threshold,      \* events of a scope the rule alerts on
    MaxRetries,     \* DEAD_LETTER_ESCALATE_AFTER_RETRIES, and the bound on replays that fail
    Workers, None

VARIABLES
    active,     \* the rule is active
    ingested,   \* events of sec1.audit_event the rule counts
    alert,      \* statuses of sec1.security_alert of the rule, by scope, in order of creation
    dead,       \* sec1.monitoring_dead_letter, by event
    work,
    evaluated,  \* history: how often the rule has been evaluated for an event and the result kept
    attempts    \* history: replays of a dead letter that failed

vars == <<active, ingested, alert, dead, work, evaluated, attempts>>

NoLetter == [status |-> None, rule |-> FALSE, retries |-> 0]
Idle == [at |-> "idle", event |-> None]

Now(w) == work[w].at
Go(w, at) == work' = [work EXCEPT ![w].at = at]
Rest(w) == work' = [work EXCEPT ![w] = Idle]

InScope(s) == {e \in ingested : Scope[e] = s}
OpenIn(s) == {n \in 1..Len(alert[s]) : alert[s][n] # "closed"}
\* pg_advisory_xact_lock of the rule and the scope.
Free_Always(s) == TRUE
Free(s) == \A w \in Workers : Now(w) \in {"checking", "creating"} => Scope[work[w].event] # s
Due_Above(s) == Cardinality(InScope(s)) > Threshold /\ OpenIn(s) = {}
Due(s) == Cardinality(InScope(s)) >= Threshold /\ OpenIn(s) = {}
Evaluated(e) == evaluated' = [evaluated EXCEPT ![e] = @ + 1]

-----------------------------------------------------------------------------
(* Evaluation *)

Ingest_Uncommitted(w, e) ==
    /\ Now(w) = "idle" /\ e \notin ingested
    /\ work' = [work EXCEPT ![w] = [at |-> "ingested", event |-> e]]
    /\ UNCHANGED <<active, ingested, alert, dead, evaluated, attempts>>
Ingest(w, e) ==
    /\ Now(w) = "idle" /\ e \notin ingested
    /\ ingested' = ingested \cup {e}
    /\ work' = [work EXCEPT ![w] = [at |-> "ingested", event |-> e]]
    /\ UNCHANGED <<active, alert, dead, evaluated, attempts>>

\* The active rules of the event's type, or the failure to read them.
FetchRules(w) ==
    /\ Now(w) = "ingested"
    /\ IF active THEN Go(w, "waiting") \/ Go(w, "rules unread") ELSE Rest(w)
    /\ UNCHANGED <<active, ingested, alert, dead, evaluated, attempts>>

LockScope(w) ==
    /\ Now(w) = "waiting" /\ Free(Scope[work[w].event])
    /\ Go(w, "checking") \/ Go(w, "failed")
    /\ UNCHANGED <<active, ingested, alert, dead, evaluated, attempts>>

Check(w) ==
    /\ Now(w) = "checking"
    /\ \/ Due(Scope[work[w].event]) /\ Go(w, "creating") /\ UNCHANGED evaluated
       \/ ~Due(Scope[work[w].event]) /\ Rest(w) /\ Evaluated(work[w].event)
       \/ Go(w, "failed") /\ UNCHANGED evaluated
    /\ UNCHANGED <<active, ingested, alert, dead, attempts>>

CreateAlert(w) ==
    /\ Now(w) = "creating"
    /\ \/ /\ alert' = [alert EXCEPT ![Scope[work[w].event]] = Append(@, "open")]
          /\ Rest(w) /\ Evaluated(work[w].event)
       \/ Go(w, "failed") /\ UNCHANGED <<alert, evaluated>>
    /\ UNCHANGED <<active, ingested, dead, attempts>>

\* safeDeadLetter: a failure to write it is only logged.
DeadLetter(w) ==
    /\ Now(w) \in {"failed", "rules unread"} /\ Rest(w)
    /\ \/ dead' = [dead EXCEPT ![work[w].event] = [status |-> "pending", rule |-> Now(w) = "failed", retries |-> 0]]
       \/ UNCHANGED dead
    /\ UNCHANGED <<active, ingested, alert, evaluated, attempts>>

Dies(w) ==
    /\ Now(w) # "idle" /\ Rest(w)
    /\ UNCHANGED <<active, ingested, alert, dead, evaluated, attempts>>

-----------------------------------------------------------------------------
(* Replay of dead letters: one transaction for all the rows of a call *)

Replayable(e) == dead[e].rule /\ active

Failed(letter) ==
    [letter EXCEPT !.retries = @ + 1, !.status = IF letter.retries + 1 >= MaxRetries THEN "escalated" ELSE "failed"]

\* The letters of one call: an item in any status, or the eligible ones.
Calls == {{e} : e \in {d \in Events : dead[d] # NoLetter}}
         \cup {{d \in Events : dead[d].status \in {"pending", "failed"}}}

Untouched_None(D) == {}
Untouched(D) == {e \in D : dead[e].status = "replayed"}

Replay(D) ==
    LET todo == D \ Untouched(D)
        done == {e \in todo : Replayable(e)}
        scopes == {Scope[e] : e \in done}
    IN
    /\ todo # {} /\ \A s \in scopes : Free(s)
    /\ \A e \in todo \ done : dead[e].retries < MaxRetries
    /\ alert' = [s \in Scopes |-> IF s \in scopes /\ Due(s) THEN Append(alert[s], "open") ELSE alert[s]]
    /\ dead' = [e \in Events |-> CASE e \in done -> [dead[e] EXCEPT !.status = "replayed"]
                                   [] e \in todo \ done -> Failed(dead[e])
                                   [] OTHER -> dead[e]]
    /\ evaluated' = [e \in Events |-> evaluated[e] + IF e \in done THEN 1 ELSE 0]
    /\ attempts' = [e \in Events |-> attempts[e] + IF e \in todo \ done THEN 1 ELSE 0]
    /\ UNCHANGED <<active, ingested, work>>

\* A statement of the evaluation of e fails: the transaction can only roll back, with the
\* record of the failure in it.
ReplayFails(D, e) ==
    /\ e \in D \ Untouched(D) /\ Replayable(e) /\ attempts[e] < MaxRetries
    /\ attempts' = [attempts EXCEPT ![e] = @ + 1]
    /\ UNCHANGED <<active, ingested, alert, dead, work, evaluated>>

-----------------------------------------------------------------------------
(* Alerts, each under its row lock *)

Move(s, n, from, to) ==
    /\ n <= Len(alert[s]) /\ alert[s][n] \in from
    /\ alert' = [alert EXCEPT ![s][n] = to]
    /\ UNCHANGED <<active, ingested, dead, work, evaluated, attempts>>

Assign(s, n) == Move(s, n, {"open", "assigned"}, "assigned")
Triage(s, n) == Move(s, n, {"assigned", "triaged"}, "triaged") \/ Move(s, n, {"assigned", "triaged"}, "escalated")
Close(s, n) == Move(s, n, {"triaged"}, "closed")

Toggle ==
    /\ active' = ~active
    /\ UNCHANGED <<ingested, alert, dead, work, evaluated, attempts>>

-----------------------------------------------------------------------------
Init ==
    /\ active = TRUE /\ ingested = {}
    /\ alert = [s \in Scopes |-> <<>>]
    /\ dead = [e \in Events |-> NoLetter]
    /\ work = [w \in Workers |-> Idle]
    /\ evaluated = [e \in Events |-> 0] /\ attempts = [e \in Events |-> 0]

Next ==
    \/ \E w \in Workers :
          \/ \E e \in Events : Ingest(w, e)
          \/ FetchRules(w) \/ LockScope(w) \/ Check(w) \/ CreateAlert(w) \/ DeadLetter(w) \/ Dies(w)
    \/ \E D \in Calls : Replay(D) \/ \E e \in D : ReplayFails(D, e)
    \/ \E s \in Scopes : \E n \in 1..Len(alert[s]) : Assign(s, n) \/ Triage(s, n) \/ Close(s, n)
    \/ Toggle

Spec == Init /\ [][Next]_vars

-----------------------------------------------------------------------------
AlertStatuses == {"open", "assigned", "triaged", "escalated", "closed"}

TypeOK ==
    /\ \A s \in Scopes : \A n \in 1..Len(alert[s]) : alert[s][n] \in AlertStatuses
    /\ \A e \in Events : dead[e].retries \in 0..MaxRetries /\ (dead[e] # NoLetter => e \in ingested)

\* Events that cross the threshold together, and replays of their dead letters, leave one alert
\* open for the rule and the scope.
OneOpenAlert == \A s \in Scopes : Cardinality(OpenIn(s)) <= 1

\* A scope at its threshold has an alert, or an event of it has not been evaluated: it still
\* is to be, its process died, or its evaluation failed.
CrossingSeen ==
    \A s \in Scopes : Cardinality(InScope(s)) >= Threshold /\ alert[s] = <<>> => \E e \in InScope(s) : evaluated[e] = 0

\* An event is evaluated once: no replay repeats an evaluation whose result was kept, so that
\* a closed alert is not raised again by the events that raised it.
EvaluatedOnce == \A e \in Events : evaluated[e] <= 1

\* (monitoring-dead-letter.ts) A failed replay attempt is counted, whatever failed.
EveryFailureCounted == \A e \in Events : attempts[e] = dead[e].retries
=============================================================================
