------------------------------- MODULE FndJobs -------------------------------
(***************************************************************************)
(* FND-01 and the foundation library: requests under an idempotency key    *)
(* (packages/foundation/src/idempotency.ts) that enqueue a job or register *)
(* a scheduled one, each with its audit row in the same transaction.  A    *)
(* request carries a key of its own and, in its body, the code of the job; *)
(* both are unique.  Nothing in the repository runs a job, so a message    *)
(* stays queued.                                                           *)
(***************************************************************************)
EXTENDS Naturals, Sequences, FiniteSets

CONSTANTS
    Keys,           \* Idempotency-Key headers, in the scope of one module, actor and action
    Jobs,           \* job_code, or idempotency_key of a body
    Payloads,       \* the rest of a body: payload_ref, or owner and criticality
    Critical,       \* payloads of the criticalities "critical" and "high"
    Unowned,        \* payloads whose owner module is not registered
    Workers,
    MaxAudits,      \* bound on the requests carried out
    None

VARIABLES
    record,     \* foundation.idempotency_record, by key
    message,    \* foundation.job_queue_message, by job: its payload
    scheduled,  \* foundation.scheduled_job, by job
    outbox,     \* foundation.outbox_event: the audit events, in order of their commits
    smoke,      \* foundation.smoke_test_run: the statuses of its runs
    work,
    answers     \* history: what callers were told

vars == <<record, message, scheduled, outbox, smoke, work, answers>>

Kinds == {"enqueue", "register"}
Bodies == [kind : Kinds, job : Jobs, payload : Payloads]
NoRecord == [fingerprint |-> None, result |-> None]
NoJob == [owner |-> None, settings |-> None, missed_run_detection |-> FALSE]
Idle == [at |-> "idle", key |-> None, body |-> None]

Now(w) == work[w].at
Rest(w) == work' = [work EXCEPT ![w] = Idle]
Holding(at) == {w \in Workers : Now(w) \in at}

enqueueOutbox(event) == Len(outbox) < MaxAudits /\ outbox' = Append(outbox, event)
publishAudit(k, entity) == enqueueOutbox([key |-> k, body |-> entity])

-----------------------------------------------------------------------------
(* The idempotency record *)

\* The INSERT waits for a transaction that has inserted the same key of the same action.
KeyFree_NoWait(k, kind) == TRUE
KeyFree(k, kind) == \A w \in Holding({"new", "inserted"}) : work[w].key # k \/ work[w].body.kind # kind

Known(k, b) == record[<<k, b.kind>>] # NoRecord

beginIdempotent(w, k, b) ==
    /\ Now(w) = "idle" /\ KeyFree(k, b.kind) /\ ~Known(k, b)
    /\ work' = [work EXCEPT ![w] = [at |-> "new", key |-> k, body |-> b]]
    /\ UNCHANGED <<record, message, scheduled, outbox, smoke, answers>>

SameRequest_AnyBody(k, b) == TRUE
SameRequest(k, b) == record[<<k, b.kind>>].fingerprint = b

\* The same request again: its result is told, and nothing is done.  A registration is told
\* the job's setting as it now is.  Another request under the key is told of the conflict alone.
Replayed(w, k, b) ==
    /\ Now(w) = "idle" /\ KeyFree(k, b.kind) /\ Known(k, b)
    /\ answers' = answers \cup
          (IF SameRequest(k, b) THEN {[key |-> k, body |-> b, result |-> record[<<k, b.kind>>].result]} ELSE {})
    /\ UNCHANGED <<record, message, scheduled, outbox, smoke, work>>

\* completeIdempotent, and the commit.
Completed(w) ==
    LET k == work[w].key
        body == work[w].body
    IN
    /\ record' = [record EXCEPT ![<<k, body.kind>>] = [fingerprint |-> body, result |-> body.job]]
    /\ publishAudit(k, body)
    /\ answers' = answers \cup {[key |-> k, body |-> body, result |-> body.job]}
    /\ Rest(w)

-----------------------------------------------------------------------------
(* What the requests do *)

\* The row of the job is held from its insertion to the commit.
JobFree(j, kind) == \A w \in Holding({"inserted"}) : work[w].body.job # j \/ work[w].body.kind # kind

Inserts(w, kind) ==
    /\ Now(w) = "new" /\ work[w].body.kind = kind /\ JobFree(work[w].body.job, kind)
    /\ work' = [work EXCEPT ![w].at = "inserted"]
    /\ UNCHANGED <<record, message, scheduled, outbox, smoke, answers>>

InsertMessage(w) == Inserts(w, "enqueue")

OwnerRegistered(w) == work[w].body.payload \notin Unowned
UpsertJob(w) == Inserts(w, "register") /\ OwnerRegistered(w)

\* ON CONFLICT (idempotency_key) DO NOTHING: the first message of a job stays.
Enqueued_Replaced(j, p) == [message EXCEPT ![j] = p]
Enqueued(j, p) == IF message[j] = None THEN [message EXCEPT ![j] = p] ELSE message

Enqueue(w) ==
    /\ Now(w) = "inserted" /\ work[w].body.kind = "enqueue" /\ Completed(w)
    /\ message' = Enqueued(work[w].body.job, work[w].body.payload)
    /\ UNCHANGED <<scheduled, smoke>>

\* ON CONFLICT (job_code) DO UPDATE: the last registration wins, but for the owner.
Registered_KeepsDetection(j, p) ==
    [scheduled EXCEPT ![j] =
        [owner |-> IF @ = NoJob THEN p ELSE @.owner, settings |-> p,
         missed_run_detection |-> IF @ = NoJob THEN p \in Critical ELSE @.missed_run_detection]]
Registered(j, p) ==
    [scheduled EXCEPT ![j] =
        [owner |-> IF @ = NoJob THEN p ELSE @.owner, settings |-> p, missed_run_detection |-> p \in Critical]]

Register(w) ==
    /\ Now(w) = "inserted" /\ work[w].body.kind = "register" /\ Completed(w)
    /\ scheduled' = Registered(work[w].body.job, work[w].body.payload)
    /\ UNCHANGED <<message, smoke>>

\* Any statement fails, the audit row's among them: the transaction rolls back, its record too.
RollsBack(w) ==
    /\ Now(w) # "idle" /\ Rest(w)
    /\ UNCHANGED <<record, message, scheduled, outbox, smoke, answers>>

RunStatus(reachable) == IF reachable THEN "passed" ELSE "failed"

\* One transaction after the checks: the run with its checks, and the audit of the run.
SmokeTest(reachable) ==
    /\ smoke' = Append(smoke, RunStatus(reachable))
    /\ publishAudit(None, Len(smoke) + 1)
    /\ UNCHANGED <<record, message, scheduled, work, answers>>

-----------------------------------------------------------------------------
Init ==
    /\ record = [s \in Keys \X Kinds |-> NoRecord]
    /\ message = [j \in Jobs |-> None] /\ scheduled = [j \in Jobs |-> NoJob]
    /\ outbox = <<>> /\ smoke = <<>> /\ answers = {}
    /\ work = [w \in Workers |-> Idle]

Next ==
    \/ \E w \in Workers :
          \/ \E k \in Keys, b \in Bodies : beginIdempotent(w, k, b) \/ Replayed(w, k, b)
          \/ InsertMessage(w) \/ Enqueue(w) \/ UpsertJob(w) \/ Register(w) \/ RollsBack(w)
    \/ \E reachable \in BOOLEAN : SmokeTest(reachable)

Spec == Init /\ [][Next]_vars

-----------------------------------------------------------------------------
Audited(k, kind) == {n \in 1..Len(outbox) : outbox[n].key = k /\ outbox[n].body.kind = kind}

SmokeStatuses == {"passed", "failed"}       \* a run is inserted when its checks are done
OutboxRow(event) == IF event.key = None THEN event.body \in Nat ELSE event.key \in Keys /\ event.body \in Bodies

TypeOK ==
    /\ (\A i \in DOMAIN outbox : OutboxRow(outbox[i])) /\ smoke \in Seq(SmokeStatuses)
    /\ \A j \in Jobs : message[j] \in Payloads \cup {None} /\ scheduled[j].settings \in (Payloads \ Unowned) \cup {None}
    /\ \A s \in Keys \X Kinds : record[s] # NoRecord => record[s].fingerprint \in Bodies

\* However often and however concurrently a request is sent, it is carried out and audited once
\* or not at all, and everyone who asked under its key asked for the same.
DoneOnce ==
    /\ \A k \in Keys, kind \in Kinds : Cardinality(Audited(k, kind)) = IF record[<<k, kind>>] = NoRecord THEN 0 ELSE 1
    /\ \A a, b \in answers : a.key = b.key /\ a.body.kind = b.body.kind => a = b

Carried(kind, j) == {n \in 1..Len(outbox) : outbox[n].key # None /\ outbox[n].body.kind = kind /\ outbox[n].body.job = j}
First(S) == {n \in S : \A i \in S : n <= i}
Last(S) == {n \in S : \A i \in S : i <= n}
Payload(n) == outbox[n].body.payload

\* The audit events tell what the tables hold: the message of a job is the one of the first
\* request that enqueued it, a scheduled job has the owner of the first registration and the
\* settings of the last, and what is not audited has not happened.
OutboxTells ==
    \A j \in Jobs :
        LET enqueued == Carried("enqueue", j)
            registered == Carried("register", j)
        IN
        /\ IF enqueued = {} THEN message[j] = None ELSE \E n \in First(enqueued) : message[j] = Payload(n)
        /\ IF registered = {} THEN scheduled[j] = NoJob
           ELSE /\ \E n \in First(registered) : scheduled[j].owner = Payload(n)
                /\ \E n \in Last(registered) : scheduled[j].settings = Payload(n)

\* A critical job has missed-run detection, whichever registrations overlapped.
CriticalWatched == \A j \in Jobs : scheduled[j].settings \in Critical => scheduled[j].missed_run_detection

\* (jobs.ts) A job that was accepted is queued.
AcceptedIsQueued ==
    \A a \in answers : a.body.kind = "enqueue" => message[a.body.job] = a.body.payload
=============================================================================
