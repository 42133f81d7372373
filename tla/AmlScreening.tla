---------------------------- MODULE AmlScreening ----------------------------
(***************************************************************************)
(* AML-01: screening requests and their provider calls, manual rescreens,  *)
(* monitoring runs, and the recovery of requests whose caller died.  A     *)
(* request is inserted in one transaction, the provider is called outside  *)
(* any, and its answer is applied in another.  A monitoring run holds an   *)
(* advisory lock on a connection of its own while it selects its           *)
(* candidates and claims each on a second connection of the same pool.     *)
(*                                                                         *)
(* Times are abstracted to whether a screening has fallen due.             *)
(***************************************************************************)
EXTENDS Naturals, FiniteSets

CONSTANTS
    Subjects,
    Requests,       \* numbers of the screening requests, in the order they are inserted
    Runs,           \* numbers of the monitoring runs
    Workers,        \* HTTP requests in progress at once
    PoolSize,       \* connections of the process's pool
    BatchSize,      \* candidates of one run
    None

ASSUME RequestsAssumption == Requests \subseteq Nat \ {0} /\ IsFiniteSet(Requests)
ASSUME RunsAssumption == Runs \subseteq Nat
ASSUME BatchAssumption == BatchSize \in Nat
ASSUME NoneAssumption ==
    None \notin Subjects \cup {"requested", "completed", "failed", "running", "monitoring", "manual"}

VARIABLES
    request,        \* aml1.screening_request with its attempt
    results,        \* aml1.screening_result: how many rows each request has
    overdue,        \* open rescreen_overdue signals of each subject
    run,            \* aml1.monitoring_run
    work            \* the point each worker has reached

vars == <<request, results, overdue, run, work>>

NoScreening == [subject |-> None, status |-> None, attempt |-> None, of |-> 0, trigger |-> None, due |-> FALSE]
NoRun == [status |-> None, selected |-> 0, created |-> 0, failures |-> 0]
Idle == [at |-> "idle", id |-> 0, todo |-> {}, claims |-> {}, signals |-> {}, count |-> NoRun]

Now(w) == work[w].at
Go(w, point, id) == work' = [work EXCEPT ![w] = [Idle EXCEPT !.at = point, !.id = id]]
Rest(w) == work' = [work EXCEPT ![w] = Idle]

\* initPool gives no maximum and no acquisition timeout: whoever finds no connection free waits.
Holding == {w \in Workers : Now(w) \in {"locking", "claiming"}}
Free_Leaking == Cardinality({w \in Workers : Now(w) \in {"locking", "claiming", "completing"}}) < PoolSize
Free == Cardinality(Holding) < PoolSize

-----------------------------------------------------------------------------
(* One screening *)

InFlight(s) == \E n \in Requests : request[n].subject = s /\ request[n].status = "requested"
IsNext(n) == \A m \in Requests : request[m] = NoScreening <=> m >= n

\* beginScreening; one request in flight per subject by a unique index.
Inserted(n, s, of, trigger) ==
    request' = [request EXCEPT ![n] = [subject |-> s, status |-> "requested", attempt |-> "pending",
                                          of |-> of, trigger |-> trigger, due |-> FALSE]]

Screen(w, s) ==
    /\ Now(w) = "idle" /\ Free /\ ~InFlight(s)
    /\ \E n \in Requests : IsNext(n) /\ Inserted(n, s, 0, "manual") /\ Go(w, "calling", n)
    /\ UNCHANGED <<results, overdue, run>>

\* A request can be the source of another one while nothing of its subject is in flight.
Rescreenable(m) == request[m] # NoScreening /\ ~InFlight(request[m].subject)
Claimed(n, m, trigger) == Rescreenable(m) /\ IsNext(n) /\ Inserted(n, request[m].subject, m, trigger)

\* POST .../rescreen: any request will do as the source.
Rescreen(w, m) ==
    /\ Now(w) = "idle" /\ Free
    /\ \E n \in Requests : Claimed(n, m, "manual") /\ Go(w, "calling", n)
    /\ UNCHANGED <<results, overdue, run>>

\* The second transaction, under the request's row lock: the provider answered, or failed.
StillRequested_Unread(n) == TRUE
StillRequested(n) == request[n].status = "requested"

Apply_RequestOnly(n, answered) ==
    /\ request' = IF ~StillRequested(n) THEN request
                  ELSE [request EXCEPT ![n].status = IF answered THEN "completed" ELSE "failed"]
    /\ results' = IF StillRequested(n) /\ answered THEN [results EXCEPT ![n] = @ + 1] ELSE results
Apply(n, answered) ==
    /\ request' = IF ~StillRequested(n) THEN request
                  ELSE [request EXCEPT ![n].status = IF answered THEN "completed" ELSE "failed",
                                       ![n].attempt = IF answered THEN "succeeded" ELSE "failed"]
    /\ results' = IF StillRequested(n) /\ answered THEN [results EXCEPT ![n] = @ + 1] ELSE results

Complete(w) ==
    /\ Now(w) = "calling" /\ Free
    /\ \E answered \in BOOLEAN : Apply(work[w].id, answered)
    /\ Rest(w)
    /\ UNCHANGED <<overdue, run>>

\* Recovery waits for the threshold, which a slow provider may outlast.
Recovered(n) ==
    /\ request[n].status = "requested" /\ request[n].attempt = "pending"
    /\ request' = [request EXCEPT ![n].status = "failed", ![n].attempt = "failed"]
Recover(n) ==
    /\ Free /\ Recovered(n)
    /\ UNCHANGED <<results, overdue, run, work>>

\* A completed screening reaches the rescreening age, or the provider publishes a new list.
FallsDue(n) ==
    /\ request[n].status = "completed" /\ ~request[n].due
    /\ request' = [request EXCEPT ![n].due = TRUE]
    /\ UNCHANGED <<results, overdue, run, work>>

-----------------------------------------------------------------------------
(* Monitoring runs *)

\* The newest screening of a subject is its latest.
Latest(m) ==
    /\ request[m] # NoScreening
    /\ \A n \in Requests : request[n].subject = request[m].subject => n <= m
IsDue(m) == request[m].status = "completed" /\ request[m].due
Batches ==
    LET due == {m \in Requests : Latest(m) /\ IsDue(m)} IN
    {C \in SUBSET due : Cardinality(C) = IF Cardinality(due) < BatchSize THEN Cardinality(due) ELSE BatchSize}

\* A connection is taken from the pool before the lock is asked for.
Connect(w) ==
    /\ Now(w) = "idle" /\ Free
    /\ Cardinality(Holding) < Cardinality({r \in Runs : run[r] = NoRun})
    /\ Go(w, "locking", 0)
    /\ UNCHANGED <<request, results, overdue, run>>

LockFree_Selecting == TRUE
LockFree == \A v \in Workers : Now(v) # "claiming"
IsNextRun(r) == \A q \in Runs : run[q] = NoRun <=> q >= r

\* No second open signal for a subject that has one.
Unsignalled_Any(S) == S
Unsignalled(S) == {s \in S : overdue[s] = 0}

\* Of the subjects with a request in flight those past the threshold, whichever they are.
StuckSubjects == {s \in Subjects : InFlight(s)}

\* Under the lock: the candidates, the run's row, and a signal for each candidate of a periodic
\* run and each stuck subject, which its transaction keeps to itself until it commits.
Select(w) ==
    /\ Now(w) = "locking" /\ LockFree
    /\ \E C \in Batches, late \in SUBSET Subjects :
          /\ \A s \in late : s \in StuckSubjects \/ \E n \in C : request[n].subject = s
          /\ work' = [work EXCEPT ![w] = [Idle EXCEPT !.at = "claiming", !.todo = C, !.count.selected = Cardinality(C),
                                                      !.signals = Unsignalled(late)]]
    /\ UNCHANGED <<request, results, overdue, run>>

\* claimRescreen on a second connection; a subject in flight, or a failed transaction, is counted
\* as a failure.
Claim(w, m) ==
    /\ Now(w) = "claiming" /\ m \in work[w].todo /\ Free
    /\ \/ /\ work' = [work EXCEPT ![w].todo = @ \ {m}, ![w].count.failures = @ + 1]
          /\ UNCHANGED request
       \/ \E n \in Requests :
          /\ Claimed(n, m, "monitoring")
          /\ work' = [work EXCEPT ![w].todo = @ \ {m}, ![w].claims = @ \cup {n}]
    /\ UNCHANGED <<results, overdue, run>>

\* The locked transaction commits.
Commit(w) ==
    /\ Now(w) = "claiming" /\ work[w].todo = {}
    /\ overdue' = [s \in Subjects |-> IF s \in work[w].signals THEN overdue[s] + 1 ELSE overdue[s]]
    /\ \E r \in Runs :
          /\ IsNextRun(r)
          /\ run' = [run EXCEPT ![r] = [NoRun EXCEPT !.status = "running", !.selected = work[w].count.selected]]
          /\ work' = [work EXCEPT ![w].at = "completing", ![w].id = r, ![w].signals = {}]
    /\ UNCHANGED <<request, results>>

\* The transaction is lost: its claims stay, requested, for the recovery to find.
Abort(w) ==
    /\ Now(w) = "claiming"
    /\ Rest(w)
    /\ UNCHANGED <<request, results, overdue, run>>

\* completeRescreenClaim: an answer that came too late is a failure of the run.
Tallied_AnsweredOnly(k, n, answered) ==
    IF answered THEN [k EXCEPT !.created = @ + 1] ELSE [k EXCEPT !.failures = @ + 1]
Tallied(k, n, answered) ==
    IF answered /\ StillRequested(n) THEN [k EXCEPT !.created = @ + 1] ELSE [k EXCEPT !.failures = @ + 1]

CompleteClaim(w) ==
    \E n \in work[w].claims, answered \in BOOLEAN :
        /\ Now(w) = "completing" /\ Free
        /\ Apply(n, answered)
        /\ work' = [work EXCEPT ![w].claims = @ \ {n}, ![w].count = Tallied(work[w].count, n, answered)]
        /\ UNCHANGED <<overdue, run>>

Finalize(w) ==
    LET k == work[w].count IN
    /\ Now(w) = "completing" /\ Free /\ work[w].claims = {}
    /\ run' = [run EXCEPT ![work[w].id] =
          [k EXCEPT !.status = IF k.selected > 0 /\ k.failures = k.selected THEN "failed" ELSE "completed"]]
    /\ Rest(w)
    /\ UNCHANGED <<request, results, overdue>>

Acknowledge(s) ==
    /\ Free /\ overdue[s] > 0
    /\ overdue' = [overdue EXCEPT ![s] = @ - 1]
    /\ UNCHANGED <<request, results, run, work>>

\* The process dies while it waits for the provider.
Dies(w) ==
    /\ Now(w) \in {"calling", "completing"}
    /\ Rest(w)
    /\ UNCHANGED <<request, results, overdue, run>>

-----------------------------------------------------------------------------
Init ==
    /\ request = [n \in Requests |-> NoScreening]
    /\ results = [n \in Requests |-> 0]
    /\ overdue = [s \in Subjects |-> 0]
    /\ run = [r \in Runs |-> NoRun]
    /\ work = [w \in Workers |-> Idle]

Proceed(w) ==
    \/ Select(w) \/ Commit(w) \/ CompleteClaim(w) \/ Finalize(w) \/ Complete(w)
    \/ \E m \in Requests : Claim(w, m)

Next ==
    \/ \E n \in Requests : Recover(n) \/ FallsDue(n)
    \/ \E s \in Subjects : Acknowledge(s)
    \/ \E w \in Workers :
          \/ \E s \in Subjects : Screen(w, s)
          \/ \E m \in Requests : Rescreen(w, m)
          \/ Connect(w) \/ Abort(w) \/ Dies(w) \/ Proceed(w)

Spec == Init /\ [][Next]_vars

\* A handler that has begun goes on, and PostgreSQL grants the advisory lock in the order it was
\* asked for.
FairSpec == Spec /\ \A w \in Workers : WF_vars(Proceed(w)) /\ SF_vars(Select(w))

-----------------------------------------------------------------------------
AttemptStatuses == {"pending", "succeeded", "failed"}

TypeOK ==
    /\ \A n \in Requests :
          /\ request[n].status \in {None, "requested", "completed", "failed"}
          /\ request[n].status = "completed" => request[n].attempt = "succeeded"
          /\ request[n].attempt \in AttemptStatuses \cup {None}
          /\ request[n].of \in 0..(n - 1)
    /\ \A r \in Runs : run[r].status \in {None, "running", "completed", "failed"}
    /\ \A w \in Workers : Now(w) \in {"idle", "calling", "locking", "claiming", "completing"}

\* However late an answer, a request that was recovered as stuck stays failed with nothing
\* recorded for it, and one that completed keeps its one result.
EndedStands ==
    [][\A n \in Requests :
          /\ request[n].status \in {"completed", "failed"} =>
                request'[n].status = request[n].status /\ results'[n] = results[n]
          /\ results'[n] = IF request'[n].status = "completed" THEN 1 ELSE 0]_vars

\* Runs that overlap rescreen no screening twice.
MonitoredOnce ==
    \A m, n \in Requests :
       request[m].trigger = "monitoring" /\ request[n].trigger = "monitoring" /\ request[m].of = request[n].of
          => m = n

\* Each candidate of a run that is over is counted once, and what it counts as created is there.
RunAccounts ==
    \A r \in Runs : run[r].status \in {"completed", "failed"} =>
       /\ run[r].created + run[r].failures = run[r].selected
       /\ run[r].created <= Cardinality({n \in Requests : request[n].trigger = "monitoring" /\ results[n] = 1})

\* A subject has one open overdue signal at most, however many runs find it overdue.
OneOverdueSignal == \A s \in Subjects : overdue[s] <= 1

\* Overlapping monitoring runs carry a screening over once, signal it overdue once, and a run's
\* counters account for what it selected.
RunsAccount == TypeOK /\ MonitoredOnce /\ RunAccounts /\ OneOverdueSignal

\* A run that holds the lock lets go of it.
LockReleased == \A w \in Workers : Now(w) = "claiming" ~> Now(w) # "claiming"
=============================================================================
