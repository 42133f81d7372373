--------------------------- MODULE PlatformProofs ---------------------------
(***************************************************************************)
(* What AML-01 and SEC-01 promise, for any numbers of subjects, requests,  *)
(* runs, matches, deliveries, events, rules, verifications and workers.    *)
(* The parts of the platform share no variable, so each has an inductive   *)
(* invariant of its own; the last section shows that a behaviour of the    *)
(* platform is one of each part.  The invariant of AML-01's screenings     *)
(* says what the one run that holds the advisory lock has selected and not *)
(* yet claimed, and that each run's candidates are all open, claimed,      *)
(* counted as created or counted as failures.                              *)
(***************************************************************************)
EXTENDS Platform, FiniteSetTheorems, SequenceTheorems, WellFoundedInduction, TLAPS

ScreeningRows == [subject : Subjects \cup {None}, status : {None, "requested", "completed", "failed"},
               attempt : AttemptStatuses \cup {None}, of : Nat, trigger : {None, "manual", "monitoring"},
               due : BOOLEAN]
Counts == [status : {None, "running", "completed", "failed"}, selected : Nat, created : Nat, failures : Nat]
Points == {"idle", "calling", "locking", "claiming", "completing"}
Tasks == [at : Points, id : Requests \cup Runs \cup {0}, todo : SUBSET Requests, claims : SUBSET Requests,
          signals : SUBSET Subjects, count : Counts]

Typed ==
    /\ request \in [Requests -> ScreeningRows]
    /\ results \in [Requests -> 0..1]
    /\ overdue \in [Subjects -> 0..1]
    /\ run \in [Runs -> Counts]
    /\ work \in [Workers -> Tasks]

Made(n) == request[n] # NoScreening
Monitored(n) == request[n].trigger = "monitoring"

\* A row that was inserted, and what became of it.
Row(n) ==
    /\ Made(n) <=> request[n].status # None
    /\ Made(n) => request[n].subject # None
    /\ Monitored(n) => Made(n) /\ request[n].of # 0
    /\ request[n].of # 0 => LET m == request[n].of IN
          m \in Requests /\ m < n /\ Made(m) /\ request[m].subject = request[n].subject
    /\ request[n].status = "completed" => request[n].attempt = "succeeded"
    /\ results[n] = IF request[n].status = "completed" THEN 1 ELSE 0

\* Nobody has carried this screening over yet.
Unmonitored(m) == \A n \in Requests : Monitored(n) => request[n].of # m

Done == {n \in Requests : Monitored(n) /\ results[n] = 1}

Fit(w) ==
    LET k == work[w].count
        claims == work[w].claims
        todo == work[w].todo
    IN
    /\ Now(w) = "calling" => work[w].id \in Requests
    /\ Now(w) = "claiming" =>
          /\ k.created = 0
          /\ Cardinality(todo) + Cardinality(claims) + k.failures = k.selected
          /\ \A n \in claims : Monitored(n)
          /\ \A m \in todo : Made(m) /\ Unmonitored(m)
          /\ \A s \in work[w].signals : overdue[s] = 0
    /\ Now(w) = "completing" =>
          /\ Cardinality(claims) + k.created + k.failures = k.selected
          /\ k.created <= Cardinality(Done)
          /\ \A n \in claims : Monitored(n)

\* The advisory lock.
OneClaims == \A v, w \in Workers : Now(v) = "claiming" /\ Now(w) = "claiming" => v = w

Over(r) ==
    run[r].status \in {"completed", "failed"} =>
       run[r].created + run[r].failures = run[r].selected /\ run[r].created <= Cardinality(Done)

IInv ==
    /\ Typed /\ MonitoredOnce /\ OneClaims
    /\ \A n \in Requests : Row(n)
    /\ \A r \in Runs : Over(r)
    /\ \A w \in Workers : Fit(w)

-----------------------------------------------------------------------------
(* Frames.                                                                 *)

LEMMA DoneFinite == IsFiniteSet(Done) /\ Cardinality(Done) \in Nat
<1>1. Done \subseteq Requests
  BY DEF Done
<1> HIDE DEF Done
<1> QED  BY <1>1, RequestsAssumption, FS_Subset, FS_CardinalityType

LEMMA Grows ==
  ASSUME Done \subseteq Done'
  PROVE  Cardinality(Done) <= Cardinality(Done)'
<1>1. IsFiniteSet(Done')
  <2>1. Done' \subseteq Requests
    BY DEF Done
  <2> HIDE DEF Done
  <2> QED  BY <2>1, RequestsAssumption, FS_Subset
<1> HIDE DEF Done
<1> QED  BY <1>1, FS_Subset

\* A row stays about what it was inserted for, and what is done stays so.
Kept ==
    /\ \A n \in Requests : Made(n) => /\ Made(n)' /\ request'[n].subject = request[n].subject
                                      /\ request'[n].of = request[n].of /\ request'[n].trigger = request[n].trigger
    /\ Cardinality(Done) <= Cardinality(Done)'

\* What the holder of the lock has selected is nobody else's.
SelectedKept(w) ==
    Now(w) = "claiming" => /\ \A m \in work[w].todo : Unmonitored(m)'
                           /\ \A s \in work[w].signals : overdue'[s] = 0

\* What ended stands.
EndKept ==
    \A n \in Requests : request[n].status \in {"completed", "failed"} =>
       request'[n].status = request[n].status /\ results'[n] = results[n]

RowsKept == Kept /\ MonitoredOnce' /\ (\A n \in Requests : Row(n)') /\ EndKept

LEMMA FitKept ==
  ASSUME IInv, NEW w \in Workers, work'[w] = work[w], Kept, SelectedKept(w)
  PROVE  Fit(w)'
<1>1. /\ Fit(w) /\ work[w] \in Tasks
  BY DEF IInv, Typed
<1>2. CASE Now(w) = "claiming"
  <2>1. \A n \in work[w].claims : Monitored(n)'
    BY <1>1, <1>2 DEF Fit, Kept, Monitored, Row, IInv, Tasks
  <2>2. \A m \in work[w].todo : Made(m)'
    BY <1>1, <1>2 DEF Fit, Kept, Tasks
  <2> QED  BY <1>1, <1>2, <2>1, <2>2 DEF Fit, Now, SelectedKept
<1>3. CASE Now(w) = "completing"
  <2>1. \A n \in work[w].claims : Monitored(n)'
    BY <1>1, <1>3 DEF Fit, Kept, Monitored, Row, IInv, Tasks
  <2>2. work[w].count.created \in Nat /\ work[w].count.created <= Cardinality(Done)
    BY <1>1, <1>3 DEF Fit, Tasks, Counts
  <2>3. Cardinality(Done)' \in Nat
    <3>1. Done' \subseteq Requests
      BY DEF Done
    <3> HIDE DEF Done
    <3> QED  BY <3>1, RequestsAssumption, FS_Subset, FS_CardinalityType
  <2>4. work[w].count.created <= Cardinality(Done)'
    BY <2>2, <2>3, DoneFinite DEF Kept
  <2> HIDE DEF Done
  <2> QED  BY <1>1, <1>3, <2>1, <2>4 DEF Fit, Now
<1>4. CASE Now(w) \notin {"claiming", "completing"}
  BY <1>1, <1>4 DEF Fit, Now
<1> QED  BY <1>2, <1>3, <1>4

LEMMA OverKept ==
  ASSUME IInv, Kept, NEW r \in Runs, run'[r] = run[r]
  PROVE  Over(r)'
<1>1. Over(r) /\ run[r].created \in Nat
  BY DEF IInv, Typed, Counts
<1>2. Cardinality(Done)' \in Nat
  <2>1. Done' \subseteq Requests
    BY DEF Done
  <2> HIDE DEF Done
  <2> QED  BY <2>1, RequestsAssumption, FS_Subset, FS_CardinalityType
<1> QED  BY <1>1, <1>2, DoneFinite DEF Over, Kept

\* One worker moves, and everything it does not name stays right.
LEMMA WorkerStep ==
  ASSUME IInv, Typed', NEW w \in Workers, Fit(w)', \A v \in Workers \ {w} : work'[v] = work[v],
         Now(w)' = "claiming" => Now(w) = "claiming" \/ LockFree,
         RowsKept, \A v \in Workers \ {w} : SelectedKept(v), \A r \in Runs : Over(r)'
  PROVE  IInv'
<1>1. \A v \in Workers : Fit(v)'
  BY FitKept DEF RowsKept
<1>2. OneClaims'
  BY DEF IInv, OneClaims, Now, LockFree
<1> QED  BY <1>1, <1>2 DEF IInv, RowsKept

\* Nobody moves.
LEMMA SystemStep ==
  ASSUME IInv, Typed', work' = work, run' = run, RowsKept, \A v \in Workers : SelectedKept(v)
  PROVE  IInv'
<1>1. \A v \in Workers : Fit(v)'
  BY FitKept DEF RowsKept
<1>2. OneClaims' /\ \A r \in Runs : Over(r)'
  BY OverKept DEF IInv, OneClaims, Now, RowsKept
<1> QED  BY <1>1, <1>2 DEF IInv, RowsKept

\* With the rows as they are.
LEMMA Unmoved ==
  ASSUME IInv, UNCHANGED <<request, results>>
  PROVE  /\ RowsKept
         /\ \A v \in Workers : (\A s \in Subjects : overdue[s] = 0 => overdue'[s] = 0) => SelectedKept(v)
<1>1. Done' = Done /\ \A m : Unmonitored(m)' <=> Unmonitored(m)
  BY DEF Done, Unmonitored, Monitored
<1>2. Kept
  BY <1>1, DoneFinite DEF Kept, Made
<1>3. MonitoredOnce' /\ EndKept /\ \A n \in Requests : Row(n)'
  BY DEF IInv, MonitoredOnce, EndKept, Row, Made, Monitored
<1>4. ASSUME NEW v \in Workers, \A s \in Subjects : overdue[s] = 0 => overdue'[s] = 0
      PROVE  SelectedKept(v)
  BY <1>1, <1>4 DEF SelectedKept, IInv, Fit, Typed, Tasks
<1> QED  BY <1>2, <1>3, <1>4 DEF RowsKept

\* A row that was inserted is answered, recovered or falls due.
LEMMA UpdateStep ==
  ASSUME IInv, NEW n \in Requests, Made(n), NEW x \in ScreeningRows, NEW v \in 0..1,
         request' = [request EXCEPT ![n] = x], results' = [results EXCEPT ![n] = v],
         x.subject = request[n].subject, x.of = request[n].of, x.trigger = request[n].trigger,
         x.status # None, v = IF x.status = "completed" THEN 1 ELSE 0,
         x.status = "completed" => x.attempt = "succeeded",
         request[n].status = "requested" \/ x.status = request[n].status
  PROVE  /\ RowsKept
         /\ request' \in [Requests -> ScreeningRows] /\ results' \in [Requests -> 0..1]
         /\ \A m \in Requests : Monitored(m)' <=> Monitored(m)
         /\ \A m : Unmonitored(m)' <=> Unmonitored(m)
         /\ Done' = IF Monitored(n) /\ v = 1 THEN Done \cup {n} ELSE Done
<1>1. request' \in [Requests -> ScreeningRows] /\ results' \in [Requests -> 0..1]
  BY DEF IInv, Typed
<1>2. /\ request'[n] = x /\ results'[n] = v
      /\ \A m \in Requests \ {n} : request'[m] = request[m] /\ results'[m] = results[m]
  BY DEF IInv, Typed
<1>3. x # NoScreening /\ Row(n)
  BY DEF NoScreening, IInv
<1>4. \A m \in Requests : /\ Made(m)' <=> Made(m)
                          /\ request'[m].subject = request[m].subject /\ request'[m].of = request[m].of
                          /\ request'[m].trigger = request[m].trigger
  BY <1>2, <1>3 DEF Made
<1>5. /\ \A m \in Requests : Monitored(m)' <=> Monitored(m)
      /\ \A m : Unmonitored(m)' <=> Unmonitored(m)
  BY <1>4 DEF Monitored, Unmonitored
<1>6. results[n] = 1 => v = 1
  BY <1>3, NoneAssumption DEF Row
<1>7. Done' = IF Monitored(n) /\ v = 1 THEN Done \cup {n} ELSE Done
  BY <1>2, <1>5, <1>6 DEF Done
<1>8. Cardinality(Done) <= Cardinality(Done)'
  <2>1. Done \subseteq Done'
    BY <1>7
  <2> QED  BY <2>1, Grows
<1>9. Kept
  BY <1>4, <1>8 DEF Kept
<1>10. \A m \in Requests : Row(m)'
  <2> SUFFICES ASSUME NEW m \in Requests PROVE Row(m)'
    OBVIOUS
  <2>1. Row(m)
    BY DEF IInv
  <2>2. request[m].of # 0 => request[m].of \in Requests
    BY <2>1 DEF Row
  <2>3. CASE m = n
    BY <1>2, <1>3, <1>4, <1>5, <2>1, <2>2, <2>3 DEF Row
  <2>4. CASE m # n
    BY <1>2, <1>4, <1>5, <2>1, <2>2, <2>4 DEF Row
  <2> QED  BY <2>3, <2>4
<1>11. MonitoredOnce'
  BY <1>4 DEF IInv, MonitoredOnce
<1>12. EndKept
  <2>1. request[n].status \in {"completed", "failed"} => v = results[n]
    BY <1>3 DEF Row
  <2> QED  BY <1>2, <2>1 DEF EndKept
<1> QED  BY <1>1, <1>5, <1>7, <1>9, <1>10, <1>11, <1>12 DEF RowsKept

\* A row is inserted, for a screening that is carried over if there is one.
LEMMA InsertStep ==
  ASSUME IInv, NEW n \in Requests, IsNext(n), NEW s \in Subjects, NEW of \in Requests \cup {0},
         NEW trigger \in {"manual", "monitoring"}, Inserted(n, s, of, trigger), results' = results,
         of # 0 => Made(of) /\ request[of].subject = s,
         trigger = "monitoring" => of # 0 /\ Unmonitored(of)
  PROVE  /\ RowsKept /\ request' \in [Requests -> ScreeningRows]
         /\ Monitored(n)' <=> trigger = "monitoring"
         /\ Made(n)' /\ ~Made(n)
         /\ \A m : Unmonitored(m)' <=> Unmonitored(m) /\ (trigger = "monitoring" => m # of)
<1> DEFINE x == [subject |-> s, status |-> "requested", attempt |-> "pending", of |-> of, trigger |-> trigger,
                 due |-> FALSE]
<1>1. request' = [request EXCEPT ![n] = x]
  BY DEF Inserted
<1>2. /\ x \in ScreeningRows /\ x.subject = s /\ x.status = "requested" /\ x.of = of /\ x.trigger = trigger
      /\ x # NoScreening
  <2>1. of \in Nat
    BY RequestsAssumption
  <2>2. x \in ScreeningRows
    BY <2>1 DEF ScreeningRows, AttemptStatuses
  <2>3. x.status = "requested" /\ NoScreening.status = None
    BY DEF NoScreening
  <2> QED  BY <2>2, <2>3, NoneAssumption
<1> HIDE DEF x
<1>3. \A m \in Requests : Made(m) <=> m < n
  BY RequestsAssumption DEF IsNext, Made
<1>4. /\ request' \in [Requests -> ScreeningRows] /\ request'[n] = x
      /\ \A m \in Requests \ {n} : request'[m] = request[m]
  BY <1>1, <1>2 DEF IInv, Typed
<1>5. ~Made(n) /\ Made(n)' /\ results[n] = 0 /\ ~Monitored(n)
  <2>1. ~Made(n) /\ Made(n)'
    BY <1>2, <1>3, <1>4, RequestsAssumption DEF Made
  <2>2. Row(n)
    BY DEF IInv
  <2> QED  BY <2>1, <2>2, NoneAssumption DEF Row
<1>6. /\ Monitored(n)' <=> trigger = "monitoring"
      /\ \A m \in Requests \ {n} : Monitored(m)' <=> Monitored(m)
  BY <1>2, <1>4 DEF Monitored
<1>7. Done' = Done
  BY <1>4, <1>5, <1>6 DEF Done
<1>8. Kept
  BY <1>4, <1>5, <1>7, DoneFinite DEF Kept, Made
<1>9. \A m \in Requests : Row(m)'
  <2> SUFFICES ASSUME NEW m \in Requests PROVE Row(m)'
    OBVIOUS
  <2>1. Row(m)
    BY DEF IInv
  <2>2. \A q \in Requests : Made(q) => Made(q)' /\ request'[q].subject = request[q].subject /\ q # n
    BY <1>4, <1>5 DEF Made
  <2>3. CASE m # n
    BY <1>4, <1>6, <2>1, <2>2, <2>3 DEF Row, Made
  <2>4. CASE m = n
    <3>1. of # 0 => of \in Requests /\ of < n /\ Made(of)' /\ request'[of].subject = s
      BY <1>3, <2>2
    <3>2. s # None
      BY NoneAssumption
    <3> QED  BY <1>2, <1>4, <1>5, <1>6, <2>4, <3>1, <3>2, NoneAssumption DEF Row
  <2> QED  BY <2>3, <2>4
<1>10. \A m : Unmonitored(m)' <=> Unmonitored(m) /\ (trigger = "monitoring" => m # of)
  BY <1>2, <1>4, <1>5, <1>6 DEF Unmonitored
<1>11. MonitoredOnce'
  <2> SUFFICES ASSUME NEW m \in Requests, NEW q \in Requests, Monitored(m)', Monitored(q)',
                      request'[m].of = request'[q].of
               PROVE  m = q
    BY DEF MonitoredOnce, Monitored
  <2>1. CASE m # n /\ q # n
    BY <1>4, <1>6, <2>1 DEF IInv, MonitoredOnce, Monitored
  <2>2. CASE m = n /\ q # n
    BY <1>2, <1>4, <1>6, <2>2 DEF Unmonitored
  <2>3. CASE m # n /\ q = n
    BY <1>2, <1>4, <1>6, <2>3 DEF Unmonitored
  <2> QED  BY <2>1, <2>2, <2>3
<1>12. EndKept
  BY <1>4, <1>5, NoneAssumption DEF EndKept, Made, NoScreening
<1> QED  BY <1>4, <1>5, <1>6, <1>8, <1>9, <1>10, <1>11, <1>12 DEF RowsKept

\* The provider's answer finds the request still waiting for it.
LEMMA ApplyStep ==
  ASSUME IInv, NEW n \in Requests, NEW came \in BOOLEAN, Apply(n, came), StillRequested(n)
  PROVE  /\ RowsKept
         /\ request' \in [Requests -> ScreeningRows] /\ results' \in [Requests -> 0..1]
         /\ \A m \in Requests : Monitored(m)' <=> Monitored(m)
         /\ \A m : Unmonitored(m)' <=> Unmonitored(m)
         /\ Done' = IF Monitored(n) /\ came THEN Done \cup {n} ELSE Done
         /\ n \notin Done
<1> DEFINE ended == IF came THEN "completed" ELSE "failed"
           outcome == IF came THEN "succeeded" ELSE "failed"
           y == [request[n] EXCEPT !.status = ended]
           v == IF came THEN 1 ELSE 0
<1>1. request[n] \in ScreeningRows /\ request[n].status = "requested" /\ Row(n) /\ results[n] = 0
  BY DEF StillRequested, IInv, Typed, Row
<1>2. request' = [request EXCEPT ![n] = [y EXCEPT !.attempt = outcome]]
  BY DEF Apply
<1>3. results' = [results EXCEPT ![n] = v]
  <2>1. results \in [Requests -> 0..1] /\ results[n] = 0
    BY <1>1 DEF IInv, Typed
  <2>2. CASE came
    <3>1. results' = [results EXCEPT ![n] = results[n] + 1]
      BY <2>2 DEF Apply
    <3> QED  BY <2>1, <2>2, <3>1
  <2>3. CASE ~came
    <3>1. results' = results
      BY <2>3 DEF Apply
    <3> QED  BY <2>1, <2>3, <3>1
  <2> QED  BY <2>2, <2>3
<1>4. /\ y \in ScreeningRows /\ y.status = ended /\ y.subject = request[n].subject /\ y.of = request[n].of
      /\ y.trigger = request[n].trigger
  BY <1>1 DEF ScreeningRows
<1>5. ended \in {"completed", "failed"} /\ outcome \in AttemptStatuses /\ (ended = "completed" => outcome = "succeeded")
      /\ v \in 0..1 /\ v = IF ended = "completed" THEN 1 ELSE 0
  BY DEF AttemptStatuses
<1> HIDE DEF y, ended, outcome
<1>6. PICK x \in ScreeningRows :
         /\ x = [y EXCEPT !.attempt = outcome]
         /\ x.subject = request[n].subject /\ x.of = request[n].of /\ x.trigger = request[n].trigger
         /\ x.status = ended /\ x.attempt = outcome
  <2> DEFINE x == [y EXCEPT !.attempt = outcome]
  <2>1. x \in ScreeningRows /\ x.subject = y.subject /\ x.of = y.of /\ x.trigger = y.trigger
        /\ x.status = y.status /\ x.attempt = outcome
    BY <1>4, <1>5 DEF ScreeningRows
  <2> QED  BY <1>4, <2>1
<1>7. Made(n) /\ x.status # None
  BY <1>1, <1>5, <1>6, NoneAssumption DEF Row
<1>8. request' = [request EXCEPT ![n] = x]
  BY <1>2, <1>6
<1> HIDE DEF v
<1>9. /\ RowsKept
      /\ request' \in [Requests -> ScreeningRows] /\ results' \in [Requests -> 0..1]
      /\ \A m \in Requests : Monitored(m)' <=> Monitored(m)
      /\ \A m : Unmonitored(m)' <=> Unmonitored(m)
      /\ Done' = IF Monitored(n) /\ v = 1 THEN Done \cup {n} ELSE Done
  <2>1. PICK u \in 0..1 : u = v
    BY <1>5
  <2>2. x.status # None /\ u = IF x.status = "completed" THEN 1 ELSE 0
    BY <1>5, <1>6, <1>7, <2>1
  <2>3. (x.status = "completed" => x.attempt = "succeeded") /\ request[n].status = "requested"
    BY <1>1, <1>5, <1>6
  <2>4. results' = [results EXCEPT ![n] = u]
    BY <1>3, <2>1
  <2>5. /\ RowsKept
        /\ request' \in [Requests -> ScreeningRows] /\ results' \in [Requests -> 0..1]
        /\ \A m \in Requests : Monitored(m)' <=> Monitored(m)
        /\ \A m : Unmonitored(m)' <=> Unmonitored(m)
        /\ Done' = IF Monitored(n) /\ u = 1 THEN Done \cup {n} ELSE Done
    BY <1>6, <1>7, <1>8, <2>2, <2>3, <2>4, UpdateStep
  <2> QED  BY <2>1, <2>5
<1>10. n \notin Done
  BY <1>1 DEF Done
<1> QED  BY <1>9, <1>10 DEF v

-----------------------------------------------------------------------------
(* ScreeningRows.                                                             *)

LEMMA IdleTyped == Idle \in Tasks /\ Idle.at = "idle"
<1>1. NoRun \in Counts
  BY DEF NoRun, Counts
<1> QED  BY <1>1 DEF Idle, Tasks, Points

LEMMA RestTyped ==
  ASSUME Typed, NEW w \in Workers, Rest(w)
  PROVE  /\ work' \in [Workers -> Tasks] /\ Fit(w)' /\ Now(w)' = "idle"
         /\ \A v \in Workers \ {w} : work'[v] = work[v]
<1>1. PICK idle \in Tasks : idle = Idle /\ idle.at = "idle"
  BY IdleTyped
<1>2. work' = [work EXCEPT ![w] = idle]
  BY <1>1 DEF Rest
<1>3. /\ work' \in [Workers -> Tasks] /\ work'[w].at = "idle"
      /\ \A v \in Workers \ {w} : work'[v] = work[v]
  BY <1>1, <1>2 DEF Typed
<1> QED  BY <1>3 DEF Fit, Now

LEMMA GoTyped ==
  ASSUME Typed, NEW w \in Workers, NEW point \in Points, NEW id \in Requests \cup {0}, Go(w, point, id)
  PROVE  /\ work' \in [Workers -> Tasks] /\ work'[w].at = point /\ work'[w].id = id
         /\ \A v \in Workers \ {w} : work'[v] = work[v]
<1>1. PICK idle \in Tasks : idle = Idle
  BY IdleTyped
<1> DEFINE x == [idle EXCEPT !.at = point]
<1>2. work' = [work EXCEPT ![w] = [x EXCEPT !.id = id]]
  BY <1>1 DEF Go
<1>3. x \in Tasks /\ x.at = point
  BY <1>1 DEF Tasks
<1> HIDE DEF x
<1>4. PICK y \in Tasks : y = [x EXCEPT !.id = id] /\ y.at = point /\ y.id = id
  <2>1. [x EXCEPT !.id = id] \in Tasks /\ [x EXCEPT !.id = id].at = point /\ [x EXCEPT !.id = id].id = id
    BY <1>3 DEF Tasks
  <2> QED  BY <2>1
<1>5. work' = [work EXCEPT ![w] = y]
  BY <1>2, <1>4
<1> QED  BY <1>4, <1>5 DEF Typed

LEMMA RestStep ==
  ASSUME IInv, NEW w \in Workers, Rest(w), UNCHANGED <<request, results, overdue, run>>
  PROVE  IInv' /\ EndKept
<1>1. work' \in [Workers -> Tasks] /\ Fit(w)' /\ Now(w)' = "idle" /\ \A v \in Workers \ {w} : work'[v] = work[v]
  BY RestTyped DEF IInv
<1>2. Typed'
  BY <1>1 DEF IInv, Typed
<1>3. RowsKept /\ \A v \in Workers : SelectedKept(v)
  BY Unmoved
<1>4. \A r \in Runs : Over(r)'
  BY <1>3, OverKept DEF RowsKept
<1> QED  BY <1>1, <1>2, <1>3, <1>4, WorkerStep DEF RowsKept

LEMMA ScreenStep ==
  ASSUME IInv, NEW w \in Workers, NEW n \in Requests, IsNext(n), NEW s \in Subjects, NEW of \in Requests \cup {0},
         of # 0 => Made(of) /\ request[of].subject = s,
         Inserted(n, s, of, "manual"), Go(w, "calling", n), UNCHANGED <<results, overdue, run>>
  PROVE  IInv' /\ EndKept
<1>1. /\ RowsKept /\ request' \in [Requests -> ScreeningRows]
      /\ \A m : Unmonitored(m)' <=> Unmonitored(m)
  BY InsertStep
<1>2. /\ work' \in [Workers -> Tasks] /\ work'[w].at = "calling" /\ work'[w].id = n
      /\ \A v \in Workers \ {w} : work'[v] = work[v]
  BY GoTyped DEF IInv, Points
<1>3. Fit(w)' /\ Now(w)' = "calling"
  BY <1>2 DEF Fit, Now
<1>4. Typed'
  BY <1>1, <1>2 DEF IInv, Typed
<1>5. \A v \in Workers : SelectedKept(v)
  BY <1>1 DEF SelectedKept, IInv, Fit
<1>6. \A r \in Runs : Over(r)'
  BY <1>1, OverKept DEF RowsKept
<1> QED  BY <1>1, <1>2, <1>3, <1>4, <1>5, <1>6, WorkerStep DEF RowsKept

LEMMA CompleteStep ==
  ASSUME IInv, NEW w \in Workers, Complete(w)
  PROVE  IInv' /\ EndKept
<1>1. PICK n \in Requests, came \in BOOLEAN : n = work[w].id /\ Apply(n, came)
  BY DEF Complete, IInv, Fit
<1>2. CASE ~StillRequested(n)
  BY <1>1, <1>2, RestStep DEF Complete, Apply
<1>3. CASE StillRequested(n)
  <2>1. /\ RowsKept
        /\ request' \in [Requests -> ScreeningRows] /\ results' \in [Requests -> 0..1]
        /\ \A m : Unmonitored(m)' <=> Unmonitored(m)
    BY <1>1, <1>3, ApplyStep
  <2>2. work' \in [Workers -> Tasks] /\ Fit(w)' /\ Now(w)' = "idle" /\ \A v \in Workers \ {w} : work'[v] = work[v]
    BY RestTyped DEF IInv, Complete
  <2>3. Typed'
    BY <2>1, <2>2 DEF IInv, Typed, Complete
  <2>4. \A v \in Workers : SelectedKept(v)
    BY <2>1 DEF SelectedKept, IInv, Fit, Complete
  <2>5. \A r \in Runs : Over(r)'
    BY <2>1, OverKept DEF RowsKept, Complete
  <2> QED  BY <2>1, <2>2, <2>3, <2>4, <2>5, WorkerStep DEF RowsKept
<1> QED  BY <1>2, <1>3

\* A request is recovered, or a completed one falls due.
LEMMA RecoverStep ==
  ASSUME IInv, NEW n \in Requests, Recover(n) \/ FallsDue(n)
  PROVE  IInv' /\ EndKept
<1>1. request[n] \in ScreeningRows /\ Row(n) /\ results[n] \in 0..1
  BY DEF IInv, Typed
<1>2. PICK x \in ScreeningRows :
         /\ request' = [request EXCEPT ![n] = x]
         /\ x.subject = request[n].subject /\ x.of = request[n].of /\ x.trigger = request[n].trigger
         /\ \/ request[n].status = "requested" /\ x.status = "failed"
            \/ request[n].status = "completed" /\ x.status = "completed" /\ x.attempt = request[n].attempt
  <2>1. CASE Recover(n)
    <3> DEFINE y == [request[n] EXCEPT !.status = "failed"]
    <3>1. request' = [request EXCEPT ![n] = [y EXCEPT !.attempt = "failed"]] /\ request[n].status = "requested"
      BY <2>1 DEF Recover, Recovered
    <3>2. /\ y \in ScreeningRows /\ y.status = "failed" /\ y.subject = request[n].subject /\ y.of = request[n].of
          /\ y.trigger = request[n].trigger
      BY <1>1 DEF ScreeningRows
    <3> HIDE DEF y
    <3>3. PICK x \in ScreeningRows :
             /\ x = [y EXCEPT !.attempt = "failed"]
             /\ x.subject = request[n].subject /\ x.of = request[n].of /\ x.trigger = request[n].trigger
             /\ x.status = "failed"
      <4> DEFINE x == [y EXCEPT !.attempt = "failed"]
      <4>1. x \in ScreeningRows /\ x.subject = y.subject /\ x.of = y.of /\ x.trigger = y.trigger /\ x.status = y.status
        BY <3>2 DEF ScreeningRows, AttemptStatuses
      <4> QED  BY <3>2, <4>1
    <3> QED  BY <3>1, <3>3
  <2>2. CASE FallsDue(n)
    <3>1. PICK x \in ScreeningRows :
             /\ x = [request[n] EXCEPT !.due = TRUE]
             /\ x.subject = request[n].subject /\ x.of = request[n].of /\ x.trigger = request[n].trigger
             /\ x.status = request[n].status /\ x.attempt = request[n].attempt
      <4> DEFINE x == [request[n] EXCEPT !.due = TRUE]
      <4>1. /\ x \in ScreeningRows /\ x.subject = request[n].subject /\ x.of = request[n].of
            /\ x.trigger = request[n].trigger /\ x.status = request[n].status /\ x.attempt = request[n].attempt
        BY <1>1 DEF ScreeningRows
      <4> QED  BY <4>1
    <3>2. request' = [request EXCEPT ![n] = x] /\ request[n].status = "completed"
      BY <2>2, <3>1 DEF FallsDue
    <3> QED  BY <3>1, <3>2
  <2> QED  BY <2>1, <2>2
<1>3. results' = [results EXCEPT ![n] = results[n]] /\ UNCHANGED <<overdue, run, work>>
  BY <1>1 DEF Recover, Recovered, FallsDue, IInv, Typed
<1>4. Made(n) /\ x.status # None /\ results[n] = IF x.status = "completed" THEN 1 ELSE 0
  BY <1>1, <1>2, NoneAssumption DEF Row
<1>5. /\ RowsKept
      /\ request' \in [Requests -> ScreeningRows] /\ results' \in [Requests -> 0..1]
      /\ \A m : Unmonitored(m)' <=> Unmonitored(m)
  <2>1. PICK v \in 0..1 : v = results[n]
    BY <1>1
  <2>2. (x.status = "completed" => x.attempt = "succeeded") /\ (request[n].status = "requested" \/ x.status = request[n].status)
    BY <1>1, <1>2 DEF Row
  <2> QED  BY <1>2, <1>3, <1>4, <2>1, <2>2, UpdateStep
<1>6. Typed'
  BY <1>3, <1>5 DEF IInv, Typed
<1>7. \A v \in Workers : SelectedKept(v)
  BY <1>3, <1>5 DEF SelectedKept, IInv, Fit
<1> QED  BY <1>3, <1>5, <1>6, <1>7, SystemStep DEF RowsKept

-----------------------------------------------------------------------------
(* Monitoring runs.                                                        *)

LEMMA Sizes ==
  ASSUME NEW S \in SUBSET Requests
  PROVE  /\ Cardinality(S) \in Nat
         /\ \A n \in S : Cardinality(S \ {n}) = Cardinality(S) - 1
         /\ \A n \in Requests \ S : Cardinality(S \cup {n}) = Cardinality(S) + 1
<1>1. IsFiniteSet(S)
  BY RequestsAssumption, FS_Subset
<1> QED  BY <1>1, FS_CardinalityType, FS_RemoveElement, FS_AddElement

\* A worker's task becomes y.
LEMMA TaskSet ==
  ASSUME Typed, NEW w \in Workers, NEW y \in Tasks, work' = [work EXCEPT ![w] = y]
  PROVE  /\ work' \in [Workers -> Tasks] /\ work'[w] = y
         /\ \A v \in Workers \ {w} : work'[v] = work[v]
BY DEF Typed

\* The rows stay as they are, and one worker goes on.
LEMMA GoStep ==
  ASSUME IInv, NEW w \in Workers, NEW y \in Tasks, work' = [work EXCEPT ![w] = y], Fit(w)',
         y.at = "claiming" => LockFree, UNCHANGED <<request, results, overdue, run>>
  PROVE  IInv' /\ EndKept
<1>1. /\ work' \in [Workers -> Tasks] /\ work'[w] = y
      /\ \A v \in Workers \ {w} : work'[v] = work[v]
  BY TaskSet DEF IInv
<1>2. Typed'
  BY <1>1 DEF IInv, Typed
<1>3. RowsKept /\ \A v \in Workers : SelectedKept(v)
  BY Unmoved
<1>4. \A r \in Runs : Over(r)'
  BY <1>3, OverKept DEF RowsKept
<1> QED  BY <1>1, <1>2, <1>3, <1>4, WorkerStep DEF RowsKept, Now

LEMMA ConnectStep ==
  ASSUME IInv, NEW w \in Workers, Connect(w)
  PROVE  IInv' /\ EndKept
<1>1. PICK y \in Tasks : work' = [work EXCEPT ![w] = y] /\ y.at = "locking"
  <2>1. PICK idle \in Tasks : idle = Idle
    BY IdleTyped
  <2> DEFINE x == [idle EXCEPT !.at = "locking"]
             y == [x EXCEPT !.id = 0]
  <2>2. work' = [work EXCEPT ![w] = y]
    BY <2>1 DEF Connect, Go
  <2>3. x \in Tasks /\ x.at = "locking"
    BY <2>1 DEF Tasks, Points
  <2> HIDE DEF x
  <2>4. y \in Tasks /\ y.at = "locking"
    BY <2>3 DEF Tasks
  <2> QED  BY <2>2, <2>4
<1>2. work'[w] = y
  BY <1>1 DEF IInv, Typed
<1>3. Fit(w)'
  BY <1>1, <1>2 DEF Fit, Now
<1> QED  BY <1>1, <1>3, GoStep DEF Connect

\* A screening that is its subject's latest has not been carried over.
LEMMA LatestUnmonitored ==
  ASSUME IInv, NEW m \in Requests, Latest(m)
  PROVE  Made(m) /\ Unmonitored(m)
<1>1. ASSUME NEW n \in Requests, Monitored(n), request[n].of = m PROVE FALSE
  <2>1. Row(n) /\ m # 0
    BY RequestsAssumption DEF IInv
  <2>2. m < n /\ request[n].subject = request[m].subject
    BY <1>1, <2>1 DEF Row
  <2>3. n <= m
    BY <2>2 DEF Latest
  <2> QED  BY <2>2, <2>3, RequestsAssumption
<1> QED  BY <1>1 DEF Unmonitored, Latest, Made

\* The run selects under the lock.
LEMMA SelectStep ==
  ASSUME IInv, NEW w \in Workers, Select(w)
  PROVE  IInv' /\ EndKept
<1>1. PICK C \in Batches, late \in SUBSET Subjects :
         work' = [work EXCEPT ![w] = [Idle EXCEPT !.at = "claiming", !.todo = C, !.count.selected = Cardinality(C),
                                                  !.signals = Unsignalled(late)]]
  BY DEF Select
<1>2. C \in SUBSET Requests /\ \A m \in C : Made(m) /\ Unmonitored(m)
  BY LatestUnmonitored DEF Batches
<1>3. PICK k \in Nat : k = Cardinality(C)
  BY <1>2, Sizes
<1>4. PICK S \in SUBSET Subjects : S = Unsignalled(late) /\ \A s \in S : overdue[s] = 0
  <2>1. Unsignalled(late) \in SUBSET Subjects /\ \A s \in Unsignalled(late) : overdue[s] = 0
    BY DEF Unsignalled
  <2> QED  BY <2>1
<1>5. PICK idle \in Tasks : idle = Idle /\ idle.claims = {} /\ idle.count = NoRun
  BY IdleTyped DEF Idle
<1>6. PICK count \in Counts : count = [NoRun EXCEPT !.selected = k] /\ count.selected = k
                              /\ count.created = 0 /\ count.failures = 0
  <2>1. [NoRun EXCEPT !.selected = k] = [status |-> None, selected |-> k, created |-> 0, failures |-> 0]
    BY DEF NoRun
  <2>2. [status |-> None, selected |-> k, created |-> 0, failures |-> 0] \in Counts
    BY DEF Counts
  <2> QED  BY <2>1, <2>2
<1> DEFINE x == [idle EXCEPT !.at = "claiming"]
           y == [x EXCEPT !.todo = C]
           z == [y EXCEPT !.count = count]
           t == [z EXCEPT !.signals = S]
<1>7. x \in Tasks /\ x.at = "claiming" /\ x.claims = {} /\ x.count = NoRun
  BY <1>5 DEF Tasks, Points
<1>8. y \in Tasks /\ y.at = "claiming" /\ y.claims = {} /\ y.todo = C /\ y.count = NoRun
  <2> HIDE DEF x
  <2> QED  BY <1>2, <1>7 DEF Tasks
<1>9. z \in Tasks /\ z.at = "claiming" /\ z.claims = {} /\ z.todo = C /\ z.count = count
  <2> HIDE DEF y
  <2> QED  BY <1>8 DEF Tasks
<1>10. t \in Tasks /\ t.at = "claiming" /\ t.claims = {} /\ t.todo = C /\ t.count = count /\ t.signals = S
  <2> HIDE DEF z
  <2> QED  BY <1>9 DEF Tasks
<1>11. work' = [work EXCEPT ![w] = t]
  <2>1. work' = [work EXCEPT ![w] = [idle EXCEPT !.at = "claiming", !.todo = C, !.count.selected = k, !.signals = S]]
    BY <1>1, <1>3, <1>4, <1>5
  <2>2. [idle EXCEPT !.at = "claiming", !.todo = C, !.count.selected = k, !.signals = S]
          = [[y EXCEPT !.count.selected = k] EXCEPT !.signals = S]
    OBVIOUS
  <2>3. [y EXCEPT !.count.selected = k] = [y EXCEPT !.count = [y.count EXCEPT !.selected = k]]
    <3> HIDE DEF y
    <3> QED  OBVIOUS
  <2>4. [y EXCEPT !.count.selected = k] = z
    <3> HIDE DEF y
    <3> QED  BY <2>3, <1>6, <1>8
  <2> HIDE DEF y, z
  <2> QED  BY <2>1, <2>2, <2>4
<1> HIDE DEF t
<1>12. work'[w] = t /\ overdue' = overdue
  BY <1>10, <1>11 DEF IInv, Typed, Select
<1>13. Fit(w)'
  <2>1. \A m \in C : Made(m)' /\ Unmonitored(m)'
    BY <1>2 DEF Select, Made, Unmonitored, Monitored
  <2>2. Cardinality(C) + Cardinality({}) + 0 = k
    BY <1>3, FS_EmptySet
  <2> QED  BY <1>4, <1>6, <1>10, <1>12, <2>1, <2>2 DEF Fit, Now
<1> QED  BY <1>10, <1>11, <1>13, GoStep DEF Select

\* A candidate is claimed, or fails.
LEMMA ClaimStep ==
  ASSUME IInv, NEW w \in Workers, NEW m \in Requests, Claim(w, m)
  PROVE  IInv' /\ EndKept
<1> DEFINE T == work[w].todo \ {m}
           k == work[w].count
           x == [work[w] EXCEPT !.todo = T]
<1>1. /\ work[w] \in Tasks /\ Fit(w) /\ Now(w) = "claiming" /\ m \in work[w].todo
      /\ work[w].todo \in SUBSET Requests /\ work[w].claims \in SUBSET Requests /\ k \in Counts
  BY DEF Claim, IInv, Typed, Tasks
<1>2. /\ x \in Tasks /\ x.at = "claiming" /\ x.todo = T /\ x.claims = work[w].claims /\ x.count = k
      /\ x.signals = work[w].signals
  BY <1>1 DEF Tasks, Now
<1>3. /\ Cardinality(T) = Cardinality(work[w].todo) - 1 /\ Cardinality(work[w].todo) \in Nat
      /\ Cardinality(work[w].claims) \in Nat
  BY <1>1, Sizes
<1>4. /\ k.created = 0 /\ Cardinality(work[w].todo) + Cardinality(work[w].claims) + k.failures = k.selected
      /\ \A n \in work[w].claims : Monitored(n)
      /\ \A q \in work[w].todo : Made(q) /\ Unmonitored(q)
      /\ \A s \in work[w].signals : overdue[s] = 0
  BY <1>1 DEF Fit
<1>5. /\ k.created \in Nat /\ k.failures \in Nat /\ k.selected \in Nat
  BY <1>1 DEF Counts
<1>6. CASE /\ work' = [work EXCEPT ![w].todo = @ \ {m}, ![w].count.failures = @ + 1]
           /\ UNCHANGED request
  <2> DEFINE c == [k EXCEPT !.failures = k.failures + 1]
             y == [x EXCEPT !.count = c]
  <2>1. c \in Counts /\ c.failures = k.failures + 1 /\ c.created = k.created /\ c.selected = k.selected
    BY <1>1 DEF Counts
  <2>2. work' = [work EXCEPT ![w] = y]
    BY <1>1, <1>6 DEF IInv, Typed, Tasks
  <2> HIDE DEF c, x
  <2>3. /\ y \in Tasks /\ y.at = "claiming" /\ y.todo = T /\ y.claims = work[w].claims /\ y.count = c
        /\ y.signals = work[w].signals
    BY <1>2, <2>1 DEF Tasks
  <2> HIDE DEF y, T, k
  <2>4. work'[w] = y
    BY <2>2, <2>3 DEF IInv, Typed
  <2>5. /\ \A n \in Requests : (Monitored(n)' <=> Monitored(n)) /\ (Made(n)' <=> Made(n))
        /\ \A q : Unmonitored(q)' <=> Unmonitored(q)
        /\ overdue' = overdue
    BY <1>6 DEF Monitored, Unmonitored, Made, Claim
  <2>6. c.created = 0 /\ Cardinality(T) + Cardinality(work[w].claims) + c.failures = c.selected
    BY <1>3, <1>4, <1>5, <2>1
  <2>7. T \subseteq work[w].todo
    BY DEF T
  <2>8. Fit(w)'
    BY <1>1, <1>4, <2>3, <2>4, <2>5, <2>6, <2>7 DEF Fit, Now
  <2>9. LockFree \/ ~LockFree
    OBVIOUS
  <2>10. /\ work' \in [Workers -> Tasks]
         /\ \A v \in Workers \ {w} : work'[v] = work[v]
    BY <2>2, <2>3 DEF IInv, Typed
  <2>11. Typed'
    BY <1>6, <2>10 DEF IInv, Typed, Claim
  <2>12. RowsKept /\ \A v \in Workers : SelectedKept(v)
    BY <1>6, Unmoved DEF Claim
  <2>13. \A r \in Runs : Over(r)'
    BY <2>12, OverKept DEF RowsKept, Claim
  <2> QED  BY <1>1, <2>8, <2>10, <2>11, <2>12, <2>13, WorkerStep DEF RowsKept
<1>7. ASSUME NEW n \in Requests, IsNext(n), Inserted(n, request[m].subject, m, "monitoring"),
             work' = [work EXCEPT ![w].todo = @ \ {m}, ![w].claims = @ \cup {n}]
      PROVE  IInv' /\ EndKept
  <2> DEFINE D == work[w].claims \cup {n}
             y == [x EXCEPT !.claims = D]
  <2>1. work' = [work EXCEPT ![w] = y]
    BY <1>1, <1>7 DEF IInv, Typed, Tasks
  <2> HIDE DEF x
  <2>2. /\ y \in Tasks /\ y.at = "claiming" /\ y.todo = T /\ y.claims = D /\ y.count = k
        /\ y.signals = work[w].signals
    BY <1>1, <1>2 DEF Tasks
  <2> HIDE DEF y
  <2>3. /\ work' \in [Workers -> Tasks] /\ work'[w] = y
        /\ \A v \in Workers \ {w} : work'[v] = work[v]
    BY <2>1, <2>2, TaskSet DEF IInv
  <2>4. PICK s \in Subjects : s = request[m].subject /\ Made(m) /\ Unmonitored(m)
    BY <1>1, <1>4 DEF IInv, Row, Typed, ScreeningRows
  <2>5. results' = results /\ overdue' = overdue /\ run' = run
    BY DEF Claim
  <2>6. /\ RowsKept /\ request' \in [Requests -> ScreeningRows]
        /\ Monitored(n)' /\ ~Made(n)
        /\ \A q : Unmonitored(q)' <=> Unmonitored(q) /\ q # m
    BY <1>7, <2>4, <2>5, RequestsAssumption, InsertStep
  <2>7. n \notin work[w].claims
    BY <1>1, <1>4, <2>6 DEF IInv, Row
  <2>8. Cardinality(D) = Cardinality(work[w].claims) + 1
    BY <1>1, <2>7, Sizes
  <2>9. \A q \in D : Monitored(q)'
    BY <1>1, <1>4, <2>6 DEF RowsKept, Kept, Monitored, IInv, Row
  <2>10. \A q \in T : Made(q)' /\ Unmonitored(q)'
    BY <1>1, <1>4, <2>6 DEF RowsKept, Kept
  <2> HIDE DEF T, D, k
  <2>11. Fit(w)'
    <3>1. Cardinality(T) + Cardinality(D) + k.failures = k.selected
      BY <1>3, <1>4, <1>5, <2>8
    <3> QED  BY <1>4, <2>2, <2>3, <2>5, <2>9, <2>10, <3>1 DEF Fit, Now
  <2>12. Typed'
    BY <2>3, <2>5, <2>6 DEF IInv, Typed
  <2>13. \A v \in Workers \ {w} : SelectedKept(v)
    BY <1>1 DEF SelectedKept, IInv, OneClaims
  <2>14. \A r \in Runs : Over(r)'
    BY <2>5, <2>6, OverKept DEF RowsKept
  <2> QED  BY <1>1, <2>3, <2>6, <2>11, <2>12, <2>13, <2>14, WorkerStep DEF RowsKept
<1> QED  BY <1>6, <1>7 DEF Claim, Claimed

\* The run's transaction commits: its row, and its signals.
LEMMA CommitStep ==
  ASSUME IInv, NEW w \in Workers, Commit(w)
  PROVE  IInv' /\ EndKept
<1> DEFINE k == work[w].count
           x == [work[w] EXCEPT !.at = "completing"]
<1>1. /\ work[w] \in Tasks /\ Fit(w) /\ Now(w) = "claiming" /\ work[w].todo = {}
      /\ work[w].claims \in SUBSET Requests /\ work[w].signals \in SUBSET Subjects /\ k \in Counts
      /\ UNCHANGED <<request, results>>
  BY DEF Commit, IInv, Typed, Tasks
<1>2. PICK r \in Runs :
         /\ run' = [run EXCEPT ![r] = [NoRun EXCEPT !.status = "running", !.selected = k.selected]]
         /\ work' = [work EXCEPT ![w].at = "completing", ![w].id = r, ![w].signals = {}]
  BY DEF Commit
<1> DEFINE y == [x EXCEPT !.id = r]
           t == [y EXCEPT !.signals = {}]
<1>3. x \in Tasks /\ x.at = "completing" /\ x.claims = work[w].claims /\ x.count = k
  BY <1>1 DEF Tasks, Points
<1>4. y \in Tasks /\ y.at = "completing" /\ y.claims = work[w].claims /\ y.count = k
  <2> HIDE DEF x
  <2> QED  BY <1>3 DEF Tasks
<1>5. t \in Tasks /\ t.at = "completing" /\ t.claims = work[w].claims /\ t.count = k
  <2> HIDE DEF y
  <2> QED  BY <1>4 DEF Tasks
<1>6. work' = [work EXCEPT ![w] = t]
  BY <1>1, <1>2 DEF IInv, Typed
<1> HIDE DEF t
<1>7. /\ work' \in [Workers -> Tasks] /\ work'[w] = t
      /\ \A v \in Workers \ {w} : work'[v] = work[v]
  BY <1>5, <1>6, TaskSet DEF IInv
<1>8. PICK row \in Counts : row.status = "running" /\ run' = [run EXCEPT ![r] = row]
  <2> DEFINE d == [NoRun EXCEPT !.status = "running"]
             c == [d EXCEPT !.selected = k.selected]
  <2>1. run' = [run EXCEPT ![r] = c]
    BY <1>2
  <2>2. d \in Counts /\ d.status = "running"
    BY DEF NoRun, Counts
  <2> HIDE DEF d
  <2>3. c \in Counts /\ c.status = "running"
    BY <1>1, <2>2 DEF Counts
  <2> QED  BY <2>1, <2>3
<1>9. run' \in [Runs -> Counts] /\ run'[r] = row /\ \A q \in Runs \ {r} : run'[q] = run[q]
  BY <1>8 DEF IInv, Typed
<1>10. overdue' \in [Subjects -> 0..1]
  BY <1>1 DEF Commit, Fit, IInv, Typed
<1>11. RowsKept
  BY <1>1, Unmoved
<1>12. \A v \in Workers \ {w} : SelectedKept(v)
  BY <1>1 DEF SelectedKept, IInv, OneClaims
<1>13. \A q \in Runs : Over(q)'
  <2>1. \A q \in Runs \ {r} : Over(q)'
    BY <1>9, <1>11, OverKept DEF RowsKept
  <2>2. Over(r)'
    BY <1>8, <1>9 DEF Over
  <2> QED  BY <2>1, <2>2
<1>14. Fit(w)'
  <2>1. Cardinality(work[w].claims) \in Nat /\ k.failures \in Nat /\ k.selected \in Nat
    BY <1>1, Sizes DEF Counts
  <2>2. k.created = 0 /\ Cardinality({}) + Cardinality(work[w].claims) + k.failures = k.selected
        /\ \A n \in work[w].claims : Monitored(n)
    BY <1>1 DEF Fit
  <2>3. Cardinality(work[w].claims) + k.created + k.failures = k.selected
    BY <2>1, <2>2, FS_EmptySet
  <2>4. Cardinality(Done)' \in Nat
    <3>1. Done' = Done
      BY <1>1 DEF Done, Monitored
    <3> QED  BY <3>1, DoneFinite
  <2>5. \A n \in work[w].claims : Monitored(n)'
    BY <1>1, <2>2 DEF Monitored
  <2>6. k.created <= Cardinality(Done)'
    BY <2>2, <2>4
  <2> HIDE DEF k, Done
  <2> QED  BY <1>5, <1>7, <2>3, <2>5, <2>6 DEF Fit, Now
<1>15. Typed' /\ Now(w)' # "claiming"
  BY <1>1, <1>5, <1>7, <1>9, <1>10 DEF IInv, Typed, Now
<1> QED  BY <1>7, <1>11, <1>12, <1>13, <1>14, <1>15, WorkerStep DEF RowsKept

\* A claim of the run is answered, and counted.
LEMMA CompleteClaimStep ==
  ASSUME IInv, NEW w \in Workers, CompleteClaim(w)
  PROVE  IInv' /\ EndKept
<1>1. PICK n \in work[w].claims, came \in BOOLEAN :
         /\ Now(w) = "completing" /\ Apply(n, came)
         /\ work' = [work EXCEPT ![w].claims = @ \ {n}, ![w].count = Tallied(work[w].count, n, came)]
         /\ UNCHANGED <<overdue, run>>
  BY DEF CompleteClaim
<1> DEFINE k == work[w].count
           C == work[w].claims \ {n}
           good == came /\ StillRequested(n)
           x == [work[w] EXCEPT !.claims = C]
           c == Tallied(k, n, came)
           y == [x EXCEPT !.count = c]
<1>2. /\ work[w] \in Tasks /\ Fit(w) /\ n \in Requests
      /\ work[w].claims \in SUBSET Requests /\ k \in Counts
  BY DEF IInv, Typed, Tasks
<1>3. /\ k.created \in Nat /\ k.failures \in Nat /\ k.selected \in Nat
      /\ Cardinality(work[w].claims) \in Nat /\ Cardinality(C) = Cardinality(work[w].claims) - 1
  BY <1>2, Sizes DEF Counts
<1>4. /\ Cardinality(work[w].claims) + k.created + k.failures = k.selected
      /\ k.created <= Cardinality(Done)
      /\ \A q \in work[w].claims : Monitored(q)
  BY <1>1, <1>2 DEF Fit
<1>5. /\ c \in Counts /\ c.selected = k.selected
      /\ good => c.created = k.created + 1 /\ c.failures = k.failures
      /\ ~good => c.created = k.created /\ c.failures = k.failures + 1
  <2>1. CASE good
    <3>1. c = [k EXCEPT !.created = k.created + 1]
      BY <2>1 DEF Tallied
    <3> HIDE DEF k, c
    <3> QED  BY <1>2, <1>3, <2>1, <3>1 DEF Counts
  <2>2. CASE ~good
    <3>1. c = [k EXCEPT !.failures = k.failures + 1]
      BY <2>2 DEF Tallied
    <3> HIDE DEF k, c
    <3> QED  BY <1>2, <1>3, <2>2, <3>1 DEF Counts
  <2> QED  BY <2>1, <2>2
<1>6. x \in Tasks /\ x.at = "completing" /\ x.claims = C
  BY <1>1, <1>2 DEF Tasks, Now
<1>7. work' = [work EXCEPT ![w] = y]
  <2> HIDE DEF c
  <2>1. work' = [work EXCEPT ![w].claims = @ \ {n}, ![w].count = c]
    BY <1>1 DEF c
  <2> QED  BY <2>1 DEF IInv, Typed
<1> HIDE DEF x, c
<1>8. y \in Tasks /\ y.at = "completing" /\ y.claims = C /\ y.count = c
  BY <1>5, <1>6 DEF Tasks
<1> HIDE DEF y
<1>9. /\ work' \in [Workers -> Tasks] /\ work'[w] = y
      /\ \A v \in Workers \ {w} : work'[v] = work[v]
  BY <1>7, <1>8, TaskSet DEF IInv
<1>10. /\ RowsKept
       /\ request' \in [Requests -> ScreeningRows] /\ results' \in [Requests -> 0..1]
       /\ \A m \in Requests : Monitored(m)' <=> Monitored(m)
       /\ \A m : Unmonitored(m)' <=> Unmonitored(m)
       /\ Done' = (IF good THEN Done \cup {n} ELSE Done) /\ (good => n \notin Done)
  <2>1. CASE StillRequested(n)
    BY <1>1, <1>2, <1>4, <2>1, ApplyStep
  <2>2. CASE ~StillRequested(n)
    <3>1. UNCHANGED <<request, results>>
      BY <1>1, <2>2 DEF Apply
    <3> QED  BY <2>2, <3>1, Unmoved DEF IInv, Typed, Monitored, Unmonitored, Done
  <2> QED  BY <2>1, <2>2
<1>11. c.created <= Cardinality(Done)'
  <2>1. CASE good
    <3>1. Done' = Done \cup {n} /\ n \notin Done /\ Done \in SUBSET Requests
      BY <1>10, <2>1 DEF Done
    <3>2. Cardinality(Done)' = Cardinality(Done) + 1
      <4> HIDE DEF Done
      <4> QED  BY <1>2, <3>1, Sizes
    <3> QED  BY <1>3, <1>4, <1>5, <2>1, <3>2, DoneFinite
  <2>2. CASE ~good
    <3>1. Done' = Done
      BY <1>10, <2>2
    <3> QED  BY <1>4, <1>5, <2>2, <3>1
  <2> QED  BY <2>1, <2>2
<1>12. Cardinality(C) + c.created + c.failures = c.selected
  BY <1>3, <1>4, <1>5
<1>13. Fit(w)'
  <2>1. \A q \in C : Monitored(q)'
    BY <1>2, <1>4, <1>10
  <2> HIDE DEF C, Done
  <2> QED  BY <1>8, <1>9, <1>11, <1>12, <2>1 DEF Fit, Now
<1>14. Typed' /\ Now(w)' # "claiming"
  BY <1>1, <1>8, <1>9, <1>10 DEF IInv, Typed, Now
<1>15. \A v \in Workers \ {w} : SelectedKept(v)
  BY <1>1, <1>10 DEF SelectedKept, IInv, Fit
<1>16. \A r \in Runs : Over(r)'
  BY <1>1, <1>10, OverKept DEF RowsKept
<1> QED  BY <1>9, <1>10, <1>13, <1>14, <1>15, <1>16, WorkerStep DEF RowsKept

\* The run is over, with every candidate counted.
LEMMA FinalizeStep ==
  ASSUME IInv, NEW w \in Workers, Finalize(w)
  PROVE  IInv' /\ EndKept
<1> DEFINE k == work[w].count
           id == work[w].id
           ended == IF k.selected > 0 /\ k.failures = k.selected THEN "failed" ELSE "completed"
           row == [k EXCEPT !.status = ended]
<1>1. /\ work[w] \in Tasks /\ Fit(w) /\ Now(w) = "completing" /\ work[w].claims = {} /\ k \in Counts
      /\ run' = [run EXCEPT ![id] = row]
      /\ Rest(w) /\ UNCHANGED <<request, results, overdue>>
  BY DEF Finalize, IInv, Typed, Tasks
<1>2. /\ k.created \in Nat /\ k.failures \in Nat /\ k.selected \in Nat
      /\ k.created + k.failures = k.selected /\ k.created <= Cardinality(Done)
  BY <1>1, FS_EmptySet DEF Fit, Counts
<1>3. /\ row \in Counts /\ row.created + row.failures = row.selected
      /\ row.created <= Cardinality(Done)
  <2>1. ended \in {"failed", "completed"}
    OBVIOUS
  <2> HIDE DEF ended, k
  <2> QED  BY <1>1, <1>2, <2>1 DEF Counts
<1> HIDE DEF row
<1>4. run' \in [Runs -> Counts] /\ \A r \in Runs : run'[r] = IF r = id THEN row ELSE run[r]
  BY <1>1, <1>3 DEF IInv, Typed
<1>5. RowsKept /\ \A v \in Workers : SelectedKept(v)
  BY <1>1, Unmoved
<1>6. \A r \in Runs : Over(r)'
  <2> SUFFICES ASSUME NEW r \in Runs PROVE Over(r)'
    OBVIOUS
  <2>1. CASE r # id
    BY <1>4, <1>5, <2>1, OverKept DEF RowsKept
  <2>2. CASE r = id
    <3>1. Done' = Done
      BY <1>1 DEF Done, Monitored
    <3> QED  BY <1>3, <1>4, <2>2, <3>1 DEF Over
  <2> QED  BY <2>1, <2>2
<1>7. work' \in [Workers -> Tasks] /\ Fit(w)' /\ Now(w)' = "idle" /\ \A v \in Workers \ {w} : work'[v] = work[v]
  BY <1>1, RestTyped DEF IInv
<1>8. Typed'
  BY <1>1, <1>4, <1>7 DEF IInv, Typed
<1> QED  BY <1>5, <1>6, <1>7, <1>8, WorkerStep DEF RowsKept

LEMMA AcknowledgeStep ==
  ASSUME IInv, NEW s \in Subjects, Acknowledge(s)
  PROVE  IInv' /\ EndKept
<1>1. /\ overdue \in [Subjects -> 0..1] /\ overdue[s] > 0 /\ overdue' = [overdue EXCEPT ![s] = overdue[s] - 1]
      /\ UNCHANGED <<request, results, run, work>>
  BY DEF Acknowledge, IInv, Typed
<1>2. overdue' \in [Subjects -> 0..1] /\ \A t \in Subjects : overdue[t] = 0 => overdue'[t] = 0
  BY <1>1
<1>3. RowsKept /\ \A v \in Workers : SelectedKept(v)
  BY <1>1, <1>2, Unmoved
<1>4. Typed'
  BY <1>1, <1>2 DEF IInv, Typed
<1> QED  BY <1>1, <1>3, <1>4, SystemStep DEF RowsKept

-----------------------------------------------------------------------------
(* The theorems.                                                           *)

LEMMA Step ==
  ASSUME IInv, [Next]_vars
  PROVE  IInv' /\ EndKept
<1>1. ASSUME NEW w \in Workers, NEW s \in Subjects, Screen(w, s) PROVE IInv' /\ EndKept
  <2>1. PICK n \in Requests : IsNext(n) /\ Inserted(n, s, 0, "manual") /\ Go(w, "calling", n)
    BY <1>1 DEF Screen
  <2>2. 0 \in Requests \cup {0}
    OBVIOUS
  <2> QED  BY <1>1, <2>1, <2>2, ScreenStep DEF Screen
<1>2. ASSUME NEW w \in Workers, NEW m \in Requests, Rescreen(w, m) PROVE IInv' /\ EndKept
  <2>1. PICK n \in Requests : IsNext(n) /\ Inserted(n, request[m].subject, m, "manual") /\ Go(w, "calling", n)
    BY <1>2 DEF Rescreen, Claimed
  <2>2. PICK s \in Subjects : s = request[m].subject /\ Made(m)
    BY <1>2 DEF Rescreen, Claimed, Rescreenable, Made, Row, IInv, Typed, ScreeningRows
  <2> QED  BY <1>2, <2>1, <2>2, ScreenStep DEF Rescreen
<1>3. CASE UNCHANGED vars
  <2>1. UNCHANGED <<request, results, overdue, run, work>>
    BY <1>3 DEF vars
  <2>2. Typed'
    BY <2>1 DEF IInv, Typed
  <2> QED  BY <2>1, <2>2, Unmoved, SystemStep DEF RowsKept
<1>4. ASSUME NEW w \in Workers, Abort(w) \/ Dies(w) PROVE IInv' /\ EndKept
  BY <1>4, RestStep DEF Abort, Dies
<1>5. ASSUME NEW w \in Workers, Proceed(w) PROVE IInv' /\ EndKept
  BY <1>5, SelectStep, CommitStep, CompleteClaimStep, FinalizeStep, CompleteStep, ClaimStep DEF Proceed
<1> QED  BY <1>1, <1>2, <1>3, <1>4, <1>5, RecoverStep, AcknowledgeStep, ConnectStep DEF Next

\* The inductive invariant holds at all times.
THEOREM Inductive == Spec => []IInv
<1>1. Init => IInv
  <2> SUFFICES ASSUME Init PROVE IInv
    OBVIOUS
  <2> USE DEF Init
  <2>1. NoScreening \in ScreeningRows /\ NoScreening.status = None /\ NoScreening.trigger = None /\ NoScreening.of = 0
    BY DEF NoScreening, ScreeningRows
  <2>2. NoRun \in Counts /\ NoRun.status = None
    BY DEF NoRun, Counts
  <2>3. PICK none \in ScreeningRows : none = NoScreening /\ none.status = None /\ none.trigger = None /\ none.of = 0
    BY <2>1
  <2>4. PICK idle \in Tasks : idle = Idle /\ idle.at = "idle"
    BY IdleTyped
  <2>5. PICK norun \in Counts : norun = NoRun /\ norun.status = None
    BY <2>2
  <2>6. /\ request = [n \in Requests |-> none] /\ results = [n \in Requests |-> 0]
        /\ overdue = [s \in Subjects |-> 0]
        /\ run = [r \in Runs |-> norun] /\ work = [w \in Workers |-> idle]
    BY <2>3, <2>4, <2>5
  <2> HIDE DEF Init
  <2>7. Typed
    BY <2>6 DEF Typed
  <2>8. \A n \in Requests : Row(n) /\ ~Monitored(n)
    BY <2>3, <2>6, NoneAssumption DEF Row, Made, Monitored
  <2>9. MonitoredOnce
    BY <2>8 DEF MonitoredOnce, Monitored
  <2>10. OneClaims /\ \A w \in Workers : Fit(w)
    BY <2>4, <2>6 DEF OneClaims, Fit, Now
  <2>11. \A r \in Runs : Over(r)
    BY <2>5, <2>6, NoneAssumption DEF Over
  <2> QED  BY <2>7, <2>8, <2>9, <2>10, <2>11 DEF IInv
<1>2. IInv /\ [Next]_vars => IInv'
  BY Step
<1> QED  BY <1>1, <1>2, PTL DEF Spec

\* Overlapping monitoring runs carry a screening over once, signal it overdue once, and a run's
\* counters account for what it selected.
THEOREM Accounted == Spec => []RunsAccount
<1>1. IInv => RunsAccount
  <2> SUFFICES ASSUME IInv PROVE RunsAccount
    OBVIOUS
  <2>1. TypeOK
    <3>1. ASSUME NEW n \in Requests PROVE request[n].of \in 0..(n - 1)
      <4>1. n \in Nat /\ n # 0 /\ request[n].of \in Nat /\ Row(n)
        BY RequestsAssumption DEF IInv, Typed, ScreeningRows
      <4> QED  BY <4>1 DEF Row
    <3>2. \A n \in Requests :
             /\ request[n].status \in {None, "requested", "completed", "failed"}
             /\ request[n].status = "completed" => request[n].attempt = "succeeded"
             /\ request[n].attempt \in AttemptStatuses \cup {None}
      BY DEF IInv, Typed, ScreeningRows, Row
    <3>3. \A r \in Runs : run[r].status \in {None, "running", "completed", "failed"}
      BY DEF IInv, Typed, Counts
    <3>4. \A w \in Workers : Now(w) \in Points
      BY DEF IInv, Typed, Tasks, Now
    <3> QED  BY <3>1, <3>2, <3>3, <3>4 DEF TypeOK, Points
  <2>2. RunAccounts
    BY DEF IInv, Over, RunAccounts, Done, Monitored
  <2>3. OneOverdueSignal
    BY DEF IInv, Typed, OneOverdueSignal
  <2> QED  BY <2>1, <2>2, <2>3 DEF IInv, RunsAccount
<1> QED  BY <1>1, Inductive, PTL

\* However late an answer, a request that was recovered as stuck stays failed with nothing
\* recorded for it, and one that completed keeps its one result.
THEOREM EndsStand == Spec => EndedStands
<1>1. IInv /\ [Next]_vars =>
        [\A n \in Requests :
            /\ request[n].status \in {"completed", "failed"} =>
                  request'[n].status = request[n].status /\ results'[n] = results[n]
            /\ results'[n] = IF request'[n].status = "completed" THEN 1 ELSE 0]_vars
  BY Step DEF EndKept, IInv, Row
<1> QED  BY <1>1, Inductive, PTL DEF Spec, EndedStands

-----------------------------------------------------------------------------
(* SEC-01's audit streams.  However ingestions, seals and alterations of   *)
(* rows interleave, a stream is one chain without a gap, and a check that  *)
(* passed read no row that was altered.                                    *)

Hashed == Seq(Contents \cup {Forgery})
Busy == [at : {"locked"}, event : Events, content : Contents, stream : Streams, seq : Nat, hash : Seq(Contents)]
Stored == [event : Events, content : Contents \cup {Forgery}, sent : Contents, stream : Streams, seq : Nat,
           prev : Seq(Contents), hash : Hashed]
Told == [content : Contents, stream : Streams, seq : Nat]

StreamTyped ==
    /\ stream \in [Streams -> [seq : Nat, hash : Seq(Contents)]]
    /\ rows \subseteq Stored /\ locked \subseteq Streams
    /\ streamWork \in [Workers -> Busy \cup {Stream!Idle}]
    /\ seals \subseteq Stream!Seals /\ runs \subseteq Stream!PassedRuns
    /\ answered \in [Events -> SUBSET Told]

\* A row builds on the rows before it; an altered one shows it in its hash, or has a hash that
\* the next row was not built on.
StreamRow(row) ==
    LET h == stream[row.stream].hash IN
    /\ row.seq \in 1..stream[row.stream].seq
    /\ row.prev = SubSeq(h, 1, row.seq - 1) /\ row.sent = h[row.seq]
    /\ \/ row.content = row.sent /\ row.hash = Append(row.prev, row.sent)
       \/ row.content = Forgery /\ row.hash \in {Append(row.prev, row.sent), Append(row.prev, Forgery)}

StreamChain ==
    /\ \A s \in Streams : stream[s].seq = Len(stream[s].hash)
    /\ \A row \in rows : StreamRow(row)
    /\ \A s \in Streams : \A q \in 1..stream[s].seq : \E row \in rows : row.stream = s /\ row.seq = q
    /\ \A row, other \in rows :
          row.event = other.event \/ (row.stream = other.stream /\ row.seq = other.seq) => row = other

\* A transaction that holds the lock of a stream's row knows its end.
StreamLocking ==
    /\ \A w \in Workers : streamWork[w] # Stream!Idle =>
          /\ streamWork[w].stream \in locked
          /\ streamWork[w].seq = stream[streamWork[w].stream].seq + 1 /\ streamWork[w].hash = stream[streamWork[w].stream].hash
    /\ \A v, w \in Workers : streamWork[v] # Stream!Idle /\ streamWork[w] # Stream!Idle /\ streamWork[v].stream = streamWork[w].stream => v = w

\* A seal over rows that existed still has their hashes, but for an altered one.
Sealed(mark) ==
    mark.whole =>
        LET S == Stream!Between(mark.stream, mark.from, mark.to) IN
        /\ mark.to <= stream[mark.stream].seq
        /\ Stream!Hashes(S) = mark.hashes \/ Stream!Altered(S) # {}
        /\ mark.status = "failed" => Stream!Altered(S) # {}

StreamIInv == StreamTyped /\ StreamChain /\ StreamLocking /\ Stream!AnswersAgree /\ Stream!PassMeansIntact /\ \A mark \in seals : Sealed(mark)

-----------------------------------------------------------------------------
\* The module of the streams counts with a copy of FiniteSets of its own.
LEMMA StreamSize == \A S : Stream!Cardinality(S) = Cardinality(S)
BY DEF Cardinality, IsFiniteSet, Stream!Cardinality, Stream!IsFiniteSet

-----------------------------------------------------------------------------
(* Sequences. *)

LEMMA AppendFacts ==
  ASSUME NEW S, NEW h \in Seq(S), NEW c \in S
  PROVE  /\ Append(h, c) \in Seq(S) /\ Len(Append(h, c)) = Len(h) + 1
         /\ Append(h, c)[Len(h) + 1] = c
         /\ \A i \in 1..Len(h) : Append(h, c)[i] = h[i]
OBVIOUS

\* What a prefix is does not depend on what is appended.
LEMMA PrefixKept ==
  ASSUME NEW S, NEW h \in Seq(S), NEW c \in S, NEW n \in 0..Len(h)
  PROVE  /\ SubSeq(Append(h, c), 1, n) = SubSeq(h, 1, n)
         /\ SubSeq(h, 1, n) \in Seq(S) /\ Len(SubSeq(h, 1, n)) = n
         /\ \A i \in 1..n : SubSeq(h, 1, n)[i] = h[i]
<1>1. /\ SubSeq(h, 1, n) \in Seq(S) /\ Len(SubSeq(h, 1, n)) = n
      /\ \A i \in 1..n : SubSeq(h, 1, n)[i] = h[i]
  <2>1. \A i \in 1..n : h[i] \in S
    BY ElementOfSeq
  <2> QED  BY <2>1, SubSeqProperties
<1>2. /\ SubSeq(Append(h, c), 1, n) \in Seq(S) /\ Len(SubSeq(Append(h, c), 1, n)) = n
      /\ \A i \in 1..n : SubSeq(Append(h, c), 1, n)[i] = h[i]
  <2>1. \A i \in 1..n : Append(h, c)[i] \in S /\ Append(h, c)[i] = h[i]
    BY AppendFacts, ElementOfSeq
  <2> DEFINE a == Append(h, c)
  <2> HIDE DEF a
  <2>2. /\ SubSeq(a, 1, n) \in Seq(S) /\ Len(SubSeq(a, 1, n)) = n
        /\ \A i \in 1..n : SubSeq(a, 1, n)[i] = a[i]
    BY <2>1, SubSeqProperties DEF a
  <2> QED  BY <2>1, <2>2 DEF a
<1>3. SubSeq(Append(h, c), 1, n) = SubSeq(h, 1, n)
  BY <1>1, <1>2, SeqEqual
<1> QED  BY <1>1, <1>3

LEMMA PrefixIs ==
  ASSUME NEW S, NEW h \in Seq(S), NEW n \in 0..Len(h)
  PROVE  Len(SubSeq(h, 1, n)) = n /\ \A i \in 1..n : SubSeq(h, 1, n)[i] = h[i]
<1>1. \A i \in 1..n : h[i] \in S
  BY ElementOfSeq
<1> QED  BY <1>1, SubSeqProperties

LEMMA PrefixAll ==
  ASSUME NEW S, NEW h \in Seq(S)
  PROVE  SubSeq(h, 1, Len(h)) = h
BY SubSeqFull
-----------------------------------------------------------------------------
(* ReadRows and chains. *)

LEMMA RowTyped ==
  ASSUME StreamTyped, NEW row \in rows
  PROVE  /\ row \in Stored /\ row.event \in Events /\ row.sent \in Contents /\ row.stream \in Streams
         /\ row.seq \in Nat /\ row.prev \in Seq(Contents) /\ row.hash \in Hashed
         /\ stream[row.stream].seq \in Nat /\ stream[row.stream].hash \in Seq(Contents)
<1>1. row \in Stored
  BY DEF StreamTyped
<1>2. row.stream \in Streams
  BY <1>1 DEF Stored
<1> QED  BY <1>1, <1>2 DEF StreamTyped, Stored

\* With the streams and their rows as they are.
LEMMA SameChain ==
  ASSUME StreamTyped, StreamChain, Stream!AnswersAgree, \A mark \in seals : Sealed(mark), UNCHANGED <<stream, rows>>
  PROVE  /\ StreamChain' /\ \A mark \in seals : Sealed(mark)'
         /\ answered' = answered => Stream!AnswersAgree'
BY DEF StreamChain, StreamRow, Sealed, Stream!Between, Stream!Of, Stream!Hashes, Stream!Altered, Stream!AnswersAgree

LEMMA StreamLockStep ==
  ASSUME StreamIInv, NEW w \in Workers, NEW e \in Events, NEW c \in Contents, NEW s \in Streams, Stream!LockStream(w, e, c, s)
  PROVE  StreamIInv'
<1> DEFINE task == [at |-> "locked", event |-> e, content |-> c, stream |-> s, seq |-> stream[s].seq + 1, hash |-> stream[s].hash]
<1>1. task \in Busy /\ task.stream = s /\ task.seq = stream[s].seq + 1 /\ task.hash = stream[s].hash
  BY DEF StreamIInv, StreamTyped, Busy
<1>2. streamWork' = [streamWork EXCEPT ![w] = task] /\ streamWork[w] = Stream!Idle /\ s \notin locked /\ locked' = locked \cup {s}
      /\ UNCHANGED <<stream, rows, seals, runs, answered>>
  BY DEF Stream!LockStream
<1> HIDE DEF task
<1>3. streamWork' \in [Workers -> Busy \cup {Stream!Idle}] /\ streamWork'[w] = task /\ \A v \in Workers \ {w} : streamWork'[v] = streamWork[v]
  BY <1>1, <1>2 DEF StreamIInv, StreamTyped
<1>4. StreamTyped'
  BY <1>2, <1>3 DEF StreamIInv, StreamTyped
<1>5. StreamLocking'
  BY <1>1, <1>2, <1>3 DEF StreamIInv, StreamLocking
<1>6. StreamChain' /\ Stream!AnswersAgree' /\ \A mark \in seals' : Sealed(mark)'
  BY <1>2, SameChain DEF StreamIInv
<1>7. Stream!PassMeansIntact'
  BY <1>2 DEF StreamIInv, Stream!PassMeansIntact
<1> QED  BY <1>4, <1>5, <1>6, <1>7 DEF StreamIInv

\* A transaction ends: its stream may have grown by what it holds, no other has.
LEMMA ReleaseStep ==
  ASSUME StreamTyped, StreamLocking, NEW w \in Workers, streamWork[w].at = "locked", Stream!Release(w),
         \A s \in Streams : s # streamWork[w].stream => stream'[s] = stream[s]
  PROVE  /\ streamWork[w] \in Busy /\ StreamLocking'
         /\ streamWork' \in [Workers -> Busy \cup {Stream!Idle}] /\ locked' \subseteq Streams
<1>1. streamWork[w] \in Busy
  BY DEF StreamTyped, Stream!Idle
<1>2. streamWork' = [streamWork EXCEPT ![w] = Stream!Idle] /\ locked' = locked \ {streamWork[w].stream}
  BY DEF Stream!Release
<1>3. streamWork' \in [Workers -> Busy \cup {Stream!Idle}] /\ streamWork'[w] = Stream!Idle /\ \A v \in Workers \ {w} : streamWork'[v] = streamWork[v]
  BY <1>2 DEF StreamTyped
<1>4. streamWork[w] # Stream!Idle
  BY DEF Stream!Idle
<1>5. ASSUME NEW v \in Workers, streamWork'[v] # Stream!Idle
      PROVE  /\ v # w /\ streamWork'[v] = streamWork[v] /\ streamWork[v] \in Busy /\ streamWork[v].stream \in Streams
             /\ streamWork[v].stream # streamWork[w].stream /\ streamWork[v].stream \in locked'
             /\ stream'[streamWork[v].stream] = stream[streamWork[v].stream]
  <2>1. v # w /\ streamWork'[v] = streamWork[v] /\ streamWork[v] # Stream!Idle
    BY <1>3, <1>5
  <2>2. streamWork[v] \in Busy /\ streamWork[v].stream \in Streams
    BY <2>1 DEF StreamTyped, Busy
  <2>3. streamWork[v].stream # streamWork[w].stream /\ streamWork[v].stream \in locked
    BY <1>4, <2>1 DEF StreamLocking
  <2> QED  BY <1>2, <2>1, <2>2, <2>3
<1>6. StreamLocking'
  BY <1>5 DEF StreamLocking
<1> QED  BY <1>1, <1>2, <1>3, <1>6 DEF StreamTyped

LEMMA StreamDieStep ==
  ASSUME StreamIInv, NEW w \in Workers, Stream!Dies(w)
  PROVE  StreamIInv'
<1>1. Stream!Release(w) /\ streamWork[w].at = "locked" /\ UNCHANGED <<stream, rows, seals, runs, answered>>
  BY DEF Stream!Dies
<1>2. StreamLocking' /\ streamWork' \in [Workers -> Busy \cup {Stream!Idle}] /\ locked' \subseteq Streams
  BY <1>1, ReleaseStep DEF StreamIInv
<1>3. StreamTyped'
  BY <1>1, <1>2 DEF StreamIInv, StreamTyped
<1>4. StreamChain' /\ Stream!AnswersAgree' /\ \A mark \in seals' : Sealed(mark)'
  BY <1>1, SameChain DEF StreamIInv
<1> QED  BY <1>1, <1>2, <1>3, <1>4 DEF StreamIInv, Stream!PassMeansIntact

\* What is told of a row that is in the log and has what was sent.
LEMMA StreamTellStep ==
  ASSUME StreamTyped, NEW w \in Workers, streamWork[w] \in Busy, NEW r \in Stored, Stream!Tell(w, r), Stream!AnswersAgree,
         \A e \in Events : \A heard \in answered[e] :
            \E row \in rows' : row.event = e /\ row.sent = heard.content /\ row.stream = heard.stream /\ row.seq = heard.seq,
         r \in rows', r.event = streamWork[w].event, r.sent = streamWork[w].content, r.stream = streamWork[w].stream
  PROVE  answered' \in [Events -> SUBSET Told] /\ Stream!AnswersAgree'
<1> DEFINE entry == [content |-> streamWork[w].content, stream |-> streamWork[w].stream, seq |-> r.seq]
<1>1. entry \in Told /\ entry.content = streamWork[w].content /\ entry.stream = streamWork[w].stream /\ entry.seq = r.seq
  BY DEF Busy, Stored, Told
<1>2. streamWork[w].event \in Events
  BY DEF Busy
<1>3. answered' = [answered EXCEPT ![streamWork[w].event] = answered[streamWork[w].event] \cup {entry}]
  BY DEF Stream!Tell
<1> HIDE DEF entry
<1>4. answered' \in [Events -> SUBSET Told]
  BY <1>1, <1>2, <1>3 DEF StreamTyped
<1>5. \A e \in Events : \A heard \in answered'[e] : heard \in answered[e] \/ (e = streamWork[w].event /\ heard = entry)
  BY <1>2, <1>3 DEF StreamTyped
<1> QED  BY <1>1, <1>4, <1>5 DEF Stream!AnswersAgree

LEMMA DuplicateStep ==
  ASSUME StreamIInv, NEW w \in Workers, streamWork[w].at = "locked", Stream!Release(w), Stream!Duplicate(w, streamWork[w].event), UNCHANGED <<seals, runs>>
  PROVE  StreamIInv'
<1>1. PICK row \in rows : /\ row.event = streamWork[w].event /\ UNCHANGED <<stream, rows>>
                          /\ IF Stream!SamePayload(w, row) THEN Stream!Tell(w, row) ELSE UNCHANGED answered
  BY DEF Stream!Duplicate
<1>2. streamWork[w] \in Busy /\ StreamLocking' /\ streamWork' \in [Workers -> Busy \cup {Stream!Idle}] /\ locked' \subseteq Streams
  BY <1>1, ReleaseStep DEF StreamIInv
<1>3. StreamChain' /\ (answered' = answered => Stream!AnswersAgree') /\ \A mark \in seals' : Sealed(mark)'
  BY <1>1, SameChain DEF StreamIInv
<1>4. answered' \in [Events -> SUBSET Told] /\ Stream!AnswersAgree'
  <2>1. CASE Stream!SamePayload(w, row)
    <3>1. row \in Stored /\ row.sent = streamWork[w].content /\ row.stream = streamWork[w].stream /\ Stream!Tell(w, row)
      BY <1>1, <2>1, RowTyped DEF StreamIInv, Stream!SamePayload
    <3>2. \A e \in Events : \A heard \in answered[e] :
             \E r \in rows' : r.event = e /\ r.sent = heard.content /\ r.stream = heard.stream /\ r.seq = heard.seq
      BY <1>1 DEF StreamIInv, Stream!AnswersAgree
    <3> QED  BY <1>1, <1>2, <3>1, <3>2, StreamTellStep DEF StreamIInv
  <2>2. CASE ~Stream!SamePayload(w, row)
    BY <1>1, <1>3, <2>2 DEF StreamIInv, StreamTyped
  <2> QED  BY <2>1, <2>2
<1>5. StreamTyped'
  BY <1>1, <1>2, <1>4 DEF StreamIInv, StreamTyped
<1> QED  BY <1>2, <1>3, <1>4, <1>5 DEF StreamIInv, Stream!PassMeansIntact

LEMMA StreamInsertStep ==
  ASSUME StreamIInv, NEW w \in Workers, streamWork[w].at = "locked", Stream!Release(w),
         Stream!Insert(w, streamWork[w].event, streamWork[w].content, streamWork[w].stream), UNCHANGED <<seals, runs>>
  PROVE  StreamIInv'
<1> DEFINE new == [event |-> streamWork[w].event, content |-> streamWork[w].content, sent |-> streamWork[w].content, stream |-> streamWork[w].stream,
                   seq |-> streamWork[w].seq, prev |-> streamWork[w].hash, hash |-> Append(streamWork[w].hash, streamWork[w].content)]
           end == [seq |-> streamWork[w].seq, hash |-> Append(streamWork[w].hash, streamWork[w].content)]
<1>1. PICK e \in Events, c \in Contents, s \in Streams, n \in Nat, h \in Seq(Contents) :
         /\ streamWork[w].event = e /\ streamWork[w].content = c /\ streamWork[w].stream = s
         /\ streamWork[w].seq = n /\ streamWork[w].hash = h
         /\ streamWork[w] \in Busy /\ n >= 1 /\ stream[s].seq = n - 1 /\ h = stream[s].hash /\ Len(h) = n - 1
  <2>1. streamWork[w] \in Busy /\ streamWork[w] # Stream!Idle
    BY DEF StreamIInv, StreamTyped, Stream!Idle
  <2>2. /\ streamWork[w].event \in Events /\ streamWork[w].content \in Contents /\ streamWork[w].stream \in Streams
        /\ streamWork[w].seq \in Nat /\ streamWork[w].hash \in Seq(Contents)
    BY <2>1 DEF Busy
  <2>3. /\ streamWork[w].seq = stream[streamWork[w].stream].seq + 1 /\ streamWork[w].hash = stream[streamWork[w].stream].hash
        /\ stream[streamWork[w].stream].seq = Len(stream[streamWork[w].stream].hash) /\ stream[streamWork[w].stream].seq \in Nat
    BY <2>1, <2>2 DEF StreamIInv, StreamLocking, StreamChain, StreamTyped
  <2> QED  BY <2>1, <2>2, <2>3
<1>2. /\ Append(h, c) \in Seq(Contents) /\ Append(h, c) \in Hashed /\ Len(Append(h, c)) = n
      /\ Append(h, c)[n] = c /\ SubSeq(Append(h, c), 1, n - 1) = h
      /\ \A i \in 1..(n - 1) : Append(h, c)[i] = h[i] /\ SubSeq(Append(h, c), 1, i - 1) = SubSeq(h, 1, i - 1)
  <2>1. Append(h, c) \in Seq(Contents) /\ Len(Append(h, c)) = n /\ Append(h, c)[n] = c /\ \A i \in 1..(n - 1) : Append(h, c)[i] = h[i]
    BY <1>1, AppendFacts
  <2>2. Append(h, c) \in Hashed
    BY <2>1, SeqMonotonic DEF Hashed
  <2>3. \A i \in 0..(n - 1) : SubSeq(Append(h, c), 1, i) = SubSeq(h, 1, i)
    BY <1>1, PrefixKept
  <2>4. SubSeq(h, 1, n - 1) = h
    BY <1>1, PrefixAll
  <2> QED  BY <2>1, <2>2, <2>3, <2>4
<1>3. PICK a \in Seq(Contents) : a = Append(h, c)
  BY <1>2
<1>4. PICK r \in Stored : /\ r = new
                          /\ r.event = e /\ r.content = c /\ r.sent = c /\ r.stream = s /\ r.seq = n /\ r.prev = h /\ r.hash = a
  <2>1. new \in Stored
    BY <1>1, <1>2 DEF Stored
  <2>2. /\ new.event = e /\ new.content = c /\ new.sent = c /\ new.stream = s /\ new.seq = n /\ new.prev = h
        /\ new.hash = a
    BY <1>1, <1>3
  <2> QED  BY <2>1, <2>2
<1>5. PICK z \in [seq : Nat, hash : Seq(Contents)] : z = end /\ z.seq = n /\ z.hash = a
  <2>1. end = [seq |-> n, hash |-> a]
    BY <1>1, <1>3
  <2>2. [seq |-> n, hash |-> a] \in [seq : Nat, hash : Seq(Contents)]
    OBVIOUS
  <2> QED  BY <2>1, <2>2
<1>6. Stream!Unique(r) /\ rows' = rows \cup {r} /\ Stream!Tell(w, r) /\ stream' = [stream EXCEPT ![s] = z]
  BY <1>1, <1>4, <1>5 DEF Stream!Insert, Stream!Advance
<1> HIDE DEF new, end
<1>7. /\ stream' \in [Streams -> [seq : Nat, hash : Seq(Contents)]] /\ stream'[s] = z
      /\ \A t \in Streams : t # s => stream'[t] = stream[t]
  BY <1>6 DEF StreamIInv, StreamTyped
<1>8. StreamLocking' /\ streamWork' \in [Workers -> Busy \cup {Stream!Idle}] /\ locked' \subseteq Streams
  BY <1>1, <1>7, ReleaseStep DEF StreamIInv
<1>9. StreamChain'
  <2>1. \A t \in Streams : stream'[t].seq = Len(stream'[t].hash)
    BY <1>2, <1>3, <1>5, <1>7 DEF StreamIInv, StreamChain
  <2>2. ASSUME NEW row \in rows PROVE StreamRow(row)'
    <3>1. StreamRow(row) /\ row \in Stored /\ row.stream \in Streams /\ row.seq \in Nat
      BY RowTyped DEF StreamIInv, StreamChain
    <3>2. CASE row.stream # s
      BY <1>7, <3>1, <3>2 DEF StreamRow
    <3>3. CASE row.stream = s
      <4>1. row.seq \in 1..(n - 1) /\ row.seq \in 1..n
        BY <1>1, <3>1, <3>3 DEF StreamRow
      <4>2. row.prev = SubSeq(a, 1, row.seq - 1) /\ row.sent = a[row.seq]
        BY <1>1, <1>2, <1>3, <3>1, <3>3, <4>1 DEF StreamRow
      <4> QED  BY <1>5, <1>7, <3>1, <3>3, <4>1, <4>2 DEF StreamRow
    <3> QED  BY <3>2, <3>3
  <2>3. StreamRow(r)'
    <3>1. n \in 1..n
      BY <1>1, <1>2
    <3>2. stream'[r.stream].seq = n /\ stream'[r.stream].hash = a
      BY <1>4, <1>5, <1>7
    <3>3. r.prev = SubSeq(a, 1, r.seq - 1) /\ r.sent = a[r.seq] /\ r.content = r.sent /\ r.hash = Append(r.prev, r.sent)
      BY <1>2, <1>3, <1>4
    <3> QED  BY <1>4, <3>1, <3>2, <3>3 DEF StreamRow
  <2>4. ASSUME NEW t \in Streams, NEW q \in 1..stream'[t].seq
        PROVE  \E row \in rows' : row.stream = t /\ row.seq = q
    <3>1. CASE t = s /\ q = n
      BY <1>4, <1>6, <3>1
    <3>2. CASE ~(t = s /\ q = n)
      <4>1. q \in 1..stream[t].seq
        BY <1>1, <1>5, <1>7, <3>2
      <4> QED  BY <1>6, <4>1 DEF StreamIInv, StreamChain
    <3> QED  BY <3>1, <3>2
  <2>5. ASSUME NEW row \in rows', NEW other \in rows', row.event = other.event \/ (row.stream = other.stream /\ row.seq = other.seq)
        PROVE  row = other
    <3>1. \A x \in rows : x.event # r.event /\ ~(x.stream = r.stream /\ x.seq = r.seq)
      BY <1>6 DEF Stream!Unique
    <3>2. CASE row = r \/ other = r
      BY <1>6, <2>5, <3>1, <3>2
    <3>3. CASE row \in rows /\ other \in rows
      BY <2>5, <3>3 DEF StreamIInv, StreamChain
    <3> QED  BY <1>6, <3>2, <3>3
  <2> QED  BY <1>6, <2>1, <2>2, <2>3, <2>4, <2>5 DEF StreamChain
<1>10. answered' \in [Events -> SUBSET Told] /\ Stream!AnswersAgree'
  <2>1. \A x \in Events : \A heard \in answered[x] :
           \E row \in rows' : row.event = x /\ row.sent = heard.content /\ row.stream = heard.stream /\ row.seq = heard.seq
    BY <1>6 DEF StreamIInv, Stream!AnswersAgree
  <2> QED  BY <1>1, <1>4, <1>6, <2>1, StreamTellStep DEF StreamIInv
<1>11. StreamTyped'
  BY <1>6, <1>7, <1>8, <1>10 DEF StreamIInv, StreamTyped
<1>12. ASSUME NEW mark \in seals, mark.whole PROVE Sealed(mark)'
  <2>1. mark \in Stream!Seals /\ mark.stream \in Streams /\ mark.from \in Nat /\ mark.to \in Nat
    BY DEF StreamIInv, StreamTyped, Stream!Seals
  <2>2. mark.to <= stream[mark.stream].seq /\ stream[mark.stream].seq \in Nat
    BY <1>12, <2>1 DEF StreamIInv, Sealed, StreamTyped
  <2>3. Stream!Between(mark.stream, mark.from, mark.to)' = Stream!Between(mark.stream, mark.from, mark.to)
    <3>1. ~(r.stream = mark.stream /\ r.seq \in mark.from..mark.to)
      BY <1>1, <1>4, <2>1, <2>2
    <3> QED  BY <1>6, <3>1 DEF Stream!Between, Stream!Of
  <2>4. mark.to <= stream'[mark.stream].seq
    <3>1. CASE mark.stream = s
      <4>1. stream'[s].seq = n /\ stream[s].seq <= n /\ n \in Nat
        BY <1>1, <1>5, <1>7
      <4> QED  BY <2>1, <2>2, <3>1, <4>1
    <3>2. CASE mark.stream # s
      BY <1>7, <2>1, <2>2, <3>2
    <3> QED  BY <3>1, <3>2
  <2> QED  BY <2>3, <2>4, <1>12 DEF StreamIInv, Sealed
<1>13. \A mark \in seals' : Sealed(mark)'
  BY <1>12 DEF Sealed
<1> QED  BY <1>8, <1>9, <1>10, <1>11, <1>13 DEF StreamIInv, Stream!PassMeansIntact

LEMMA SealStep ==
  ASSUME StreamIInv, NEW s \in Streams, NEW from \in Nat, NEW to \in Nat, Stream!SealBatch(s, from, to)
  PROVE  StreamIInv'
<1> DEFINE S == Stream!Between(s, from, to)
           x == [stream |-> s, from |-> from, to |-> to, whole |-> to <= stream[s].seq, hashes |-> Stream!Hashes(S), status |-> "pending"]
<1>1. seals' = seals \cup {x} /\ UNCHANGED <<stream, rows, locked, streamWork, runs, answered>>
  BY DEF Stream!SealBatch
<1>2. Stream!Hashes(S) \in SUBSET (Nat \X Seq(Contents \cup {Forgery}))
  <2>1. \A row \in S : row.seq \in Nat /\ row.hash \in Seq(Contents \cup {Forgery})
    BY RowTyped DEF StreamIInv, Stream!Between, Stream!Of, Hashed
  <2> QED  BY <2>1 DEF Stream!Hashes
<1>3. PICK H \in SUBSET (Nat \X Seq(Contents \cup {Forgery})) : H = Stream!Hashes(S)
  BY <1>2
<1>4. /\ x \in Stream!Seals /\ x.stream = s /\ x.from = from /\ x.to = to /\ x.hashes = H
      /\ x.whole <=> to <= stream[s].seq
      /\ x.status = "pending"
  <2>1. PICK b \in BOOLEAN : b = (to <= stream[s].seq)
    <3>1. CASE to <= stream[s].seq
      <4>1. TRUE = (to <= stream[s].seq)
        BY <3>1
      <4> QED  BY <4>1, Zenon
    <3>2. CASE ~(to <= stream[s].seq)
      <4>1. FALSE = (to <= stream[s].seq)
        BY <3>2
      <4> QED  BY <4>1, Zenon
    <3> QED  BY <3>1, <3>2
  <2>2. x = [stream |-> s, from |-> from, to |-> to, whole |-> b, hashes |-> H, status |-> "pending"]
    BY <1>3, <2>1, Zenon
  <2> QED  BY <2>1, <2>2 DEF Stream!Seals
<1> HIDE DEF x
<1>5. PICK new \in Stream!Seals :
         /\ seals' = seals \cup {new} /\ new.stream = s /\ new.from = from /\ new.to = to /\ new.hashes = H
         /\ new.whole <=> to <= stream[s].seq
         /\ new.status = "pending"
  BY <1>1, <1>4
<1>6. StreamChain' /\ Stream!AnswersAgree' /\ (\A mark \in seals : Sealed(mark)')
  BY <1>1, SameChain DEF StreamIInv
<1>7. Sealed(new)'
  <2>1. Stream!Between(s, from, to)' = S
    BY <1>1 DEF Stream!Between, Stream!Of
  <2> HIDE DEF S
  <2>2. Stream!Hashes(S)' = Stream!Hashes(S)
    BY <1>1, <2>1 DEF S, Stream!Hashes
  <2> QED  BY <1>1, <1>3, <1>5, <2>1, <2>2 DEF Sealed, S
<1>8. StreamTyped'
  BY <1>1, <1>5 DEF StreamIInv, StreamTyped
<1>9. StreamLocking' /\ Stream!PassMeansIntact'
  BY <1>1 DEF StreamIInv, StreamLocking, Stream!PassMeansIntact
<1>10. \A mark \in seals' : Sealed(mark)'
  BY <1>5, <1>6, <1>7 DEF Sealed
<1> QED  BY <1>6, <1>8, <1>9, <1>10 DEF StreamIInv

LEMMA StreamVerifyStep ==
  ASSUME StreamIInv, NEW mark \in seals, Stream!VerifySeal(mark)
  PROVE  StreamIInv'
<1>1. PICK verdict \in {"valid", "failed"} :
         /\ verdict = IF Stream!Hashes(Stream!SealRange(mark)) = mark.hashes THEN "valid" ELSE "failed"
         /\ seals' = (seals \ {mark}) \cup {[mark EXCEPT !.status = verdict]}
  BY DEF Stream!VerifySeal
<1>2. UNCHANGED <<stream, rows, locked, streamWork, runs, answered>>
  BY DEF Stream!VerifySeal
<1>3. mark \in Stream!Seals
  BY DEF StreamIInv, StreamTyped
<1>4. PICK new \in Stream!Seals : /\ new = [mark EXCEPT !.status = verdict]
                           /\ new.stream = mark.stream /\ new.from = mark.from /\ new.to = mark.to /\ new.whole = mark.whole
                           /\ new.hashes = mark.hashes /\ new.status = verdict
  <2> DEFINE x == [mark EXCEPT !.status = verdict]
  <2>1. /\ x \in Stream!Seals /\ x.stream = mark.stream /\ x.from = mark.from /\ x.to = mark.to /\ x.whole = mark.whole
        /\ x.hashes = mark.hashes /\ x.status = verdict
    BY <1>3 DEF Stream!Seals
  <2> QED  BY <2>1
<1>5. StreamChain' /\ Stream!AnswersAgree' /\ (\A x \in seals : Sealed(x)')
  BY <1>2, SameChain DEF StreamIInv
<1>6. Sealed(new)'
  <2>1. ASSUME new.whole PROVE Sealed(new)'
    <3>1. mark.whole /\ Sealed(mark) /\ Sealed(mark)'
      BY <1>4, <1>5, <2>1 DEF StreamIInv
    <3>2. verdict = "failed" => Stream!Altered(Stream!Between(mark.stream, mark.from, mark.to)) # {}
      BY <1>1, <3>1 DEF Sealed, Stream!SealRange
    <3>3. Stream!Altered(Stream!Between(mark.stream, mark.from, mark.to))' = Stream!Altered(Stream!Between(mark.stream, mark.from, mark.to))
      BY <1>2 DEF Stream!Altered, Stream!Between, Stream!Of
    <3> QED  BY <1>2, <1>4, <3>1, <3>2, <3>3 DEF Sealed
  <2> QED  BY <2>1 DEF Sealed
<1>7. seals' \subseteq seals \cup {new}
  BY <1>1, <1>4
<1>8. StreamTyped'
  BY <1>2, <1>7 DEF StreamIInv, StreamTyped
<1>9. StreamLocking' /\ Stream!PassMeansIntact'
  BY <1>2 DEF StreamIInv, StreamLocking, Stream!PassMeansIntact
<1> QED  BY <1>5, <1>6, <1>7, <1>8, <1>9 DEF StreamIInv

\* An altered row is found out by its own hash or by the row that follows it.
LEMMA RunStep ==
  ASSUME StreamIInv, Forgery \notin Contents, NEW s \in Streams, NEW from \in Nat, NEW to \in Nat, Stream!RunIntegrity(s, from, to)
  PROVE  StreamIInv'
<1> DEFINE S == Stream!Between(s, from, to)
           new == [last |-> {row.seq : row \in {r \in S : r.seq = to \/ r.seq = stream[s].seq}}, altered |-> Stream!Altered(S)]
<1>1. /\ runs' = runs \cup {new} /\ UNCHANGED <<stream, rows, locked, streamWork, seals, answered>>
      /\ Stream!Linked(S) /\ Stream!Rehashed(S)
  BY DEF Stream!RunIntegrity
<1>2. \A row \in S : /\ row \in rows /\ row.stream = s /\ row.seq \in from..to /\ row.seq \in Nat /\ StreamRow(row)
                     /\ row.prev \in Seq(Contents) /\ row.hash \in Hashed
  BY RowTyped DEF StreamIInv, StreamChain, Stream!Between, Stream!Of
<1>3. new \in Stream!PassedRuns /\ new.altered = Stream!Altered(S)
  BY <1>2 DEF Stream!PassedRuns, Stream!Altered
<1>4. ASSUME NEW row \in S, row.content = Forgery, row.seq # to, row.seq # stream[s].seq
      PROVE  FALSE
  <2>1. /\ stream[s].seq \in Nat /\ stream[s].hash \in Seq(Contents) /\ stream[s].seq = Len(stream[s].hash)
        /\ row.seq \in 1..stream[s].seq
    BY <1>2 DEF StreamIInv, StreamTyped, StreamChain, StreamRow
  <2>2. row.seq + 1 \in 1..stream[s].seq /\ row.seq + 1 \in from..to /\ row.seq \in 1..stream[s].seq
    BY <1>2, <1>4, <2>1
  <2>3. PICK next \in S : next.seq = row.seq + 1
    BY <2>2 DEF StreamIInv, StreamChain, Stream!Between, Stream!Of
  <2>4. next.prev = row.hash /\ row.hash = Append(row.prev, Forgery)
    BY <1>1, <1>4, <2>3 DEF Stream!Linked, Stream!Rehashed
  <2>5. next.prev = SubSeq(stream[s].hash, 1, row.seq) /\ row.prev = SubSeq(stream[s].hash, 1, row.seq - 1)
    <3>1. StreamRow(next) /\ next.stream = s /\ StreamRow(row) /\ row.stream = s
      BY <1>2, <2>3
    <3>2. next.prev = SubSeq(stream[s].hash, 1, next.seq - 1) /\ row.prev = SubSeq(stream[s].hash, 1, row.seq - 1)
      BY <3>1 DEF StreamRow
    <3>3. next.seq - 1 = row.seq
      BY <2>2, <2>3
    <3> QED  BY <3>2, <3>3
  <2>6. Len(row.prev) = row.seq - 1
    <3>1. row.seq - 1 \in 0..Len(stream[s].hash)
      BY <2>1, <2>2
    <3> QED  BY <2>1, <2>5, <3>1, PrefixIs
  <2>7. next.prev[row.seq] = stream[s].hash[row.seq] /\ stream[s].hash[row.seq] \in Contents
    <3>1. row.seq \in 0..Len(stream[s].hash) /\ row.seq \in 1..row.seq
      BY <2>1, <2>2
    <3> QED  BY <2>1, <2>2, <2>5, <3>1, PrefixIs, ElementOfSeq
  <2>8. Append(row.prev, Forgery)[row.seq] = Forgery
    <3>1. row.prev \in Seq(Contents \cup {Forgery})
      BY <1>2, SeqMonotonic
    <3> HIDE DEF S
    <3> QED  BY <2>1, <2>6, <3>1, AppendFacts
  <2> QED  BY <2>4, <2>7, <2>8
<1>5. new.altered \subseteq new.last
  BY <1>4 DEF Stream!Altered
<1> HIDE DEF new
<1>6. StreamTyped' /\ StreamLocking' /\ Stream!PassMeansIntact'
  BY <1>1, <1>3, <1>5 DEF StreamIInv, StreamTyped, StreamLocking, Stream!PassMeansIntact
<1>7. StreamChain' /\ Stream!AnswersAgree' /\ (\A mark \in seals' : Sealed(mark)')
  BY <1>1, SameChain DEF StreamIInv
<1> QED  BY <1>6, <1>7 DEF StreamIInv

LEMMA AlterStep ==
  ASSUME StreamIInv, NEW row \in rows, Stream!Alter(row)
  PROVE  StreamIInv'
<1>1. PICK hash \in {row.hash, Append(row.prev, Forgery)} :
         rows' = (rows \ {row}) \cup {[row EXCEPT !.content = Forgery, !.hash = hash]}
  BY DEF Stream!Alter
<1>2. row.content # Forgery /\ UNCHANGED <<stream, locked, streamWork, seals, runs, answered>>
  BY DEF Stream!Alter
<1>3. row \in Stored /\ row.prev \in Seq(Contents) /\ row.hash \in Hashed /\ StreamRow(row)
  BY RowTyped DEF StreamIInv, StreamChain
<1>4. hash \in Hashed
  <2>1. row.prev \in Seq(Contents \cup {Forgery})
    BY <1>3, SeqMonotonic
  <2> QED  BY <1>3, <2>1, AppendFacts, SMTT(30) DEF Hashed
<1> DEFINE y == [row EXCEPT !.content = Forgery]
<1>5. /\ y \in Stored /\ y.event = row.event /\ y.content = Forgery /\ y.sent = row.sent /\ y.stream = row.stream
      /\ y.seq = row.seq /\ y.prev = row.prev
      /\ [row EXCEPT !.content = Forgery, !.hash = hash] = [y EXCEPT !.hash = hash]
  BY <1>3 DEF Stored
<1> HIDE DEF y
<1>6. PICK new \in Stored :
         /\ rows' = (rows \ {row}) \cup {new}
         /\ new.event = row.event /\ new.content = Forgery /\ new.sent = row.sent /\ new.stream = row.stream
         /\ new.seq = row.seq /\ new.prev = row.prev /\ new.hash = hash
  <2> DEFINE x == [y EXCEPT !.hash = hash]
  <2>1. /\ x \in Stored /\ x.event = y.event /\ x.content = y.content /\ x.sent = y.sent /\ x.stream = y.stream
        /\ x.seq = y.seq /\ x.prev = y.prev /\ x.hash = hash
    BY <1>4, <1>5 DEF Stored
  <2> QED  BY <1>1, <1>5, <2>1
<1>7. StreamTyped'
  BY <1>2, <1>6 DEF StreamIInv, StreamTyped
<1>8. StreamChain'
  <2>1. StreamRow(new)'
    BY <1>2, <1>3, <1>6 DEF StreamRow
  <2>2. \A r \in rows : StreamRow(r)'
    BY <1>2 DEF StreamIInv, StreamChain, StreamRow
  <2>3. ASSUME NEW s \in Streams, NEW q \in 1..stream'[s].seq
        PROVE  \E r \in rows' : r.stream = s /\ r.seq = q
    <3>1. PICK r \in rows : r.stream = s /\ r.seq = q
      BY <1>2 DEF StreamIInv, StreamChain
    <3> QED  BY <1>6, <3>1
  <2>4. ASSUME NEW r \in rows', NEW other \in rows', r.event = other.event \/ (r.stream = other.stream /\ r.seq = other.seq)
        PROVE  r = other
    BY <1>6, <2>4 DEF StreamIInv, StreamChain
  <2> QED  BY <1>2, <1>6, <2>1, <2>2, <2>3, <2>4 DEF StreamIInv, StreamChain
<1>9. Stream!AnswersAgree'
  <2> SUFFICES ASSUME NEW e \in Events, NEW heard \in answered[e]
               PROVE  \E r \in rows' : r.event = e /\ r.sent = heard.content /\ r.stream = heard.stream /\ r.seq = heard.seq
    BY <1>2 DEF Stream!AnswersAgree
  <2>1. PICK r \in rows : r.event = e /\ r.sent = heard.content /\ r.stream = heard.stream /\ r.seq = heard.seq
    BY DEF StreamIInv, Stream!AnswersAgree
  <2> QED  BY <1>6, <2>1
<1>10. ASSUME NEW mark \in seals, mark.whole PROVE Sealed(mark)'
  <2> DEFINE S == Stream!Between(mark.stream, mark.from, mark.to)
  <2>1. /\ mark.to <= stream[mark.stream].seq /\ (Stream!Hashes(S) = mark.hashes \/ Stream!Altered(S) # {})
        /\ mark.status = "failed" => Stream!Altered(S) # {}
    BY <1>10 DEF StreamIInv, Sealed
  <2>2. CASE row \in S
    <3>1. new \in Stream!Between(mark.stream, mark.from, mark.to)'
      BY <1>6, <2>2 DEF Stream!Between, Stream!Of
    <3>2. new.seq \in Stream!Altered(Stream!Between(mark.stream, mark.from, mark.to))'
      BY <1>6, <3>1 DEF Stream!Altered
    <3> QED  BY <1>2, <2>1, <3>2 DEF Sealed
  <2>3. CASE row \notin S
    <3>1. Stream!Between(mark.stream, mark.from, mark.to)' = S
      BY <1>6, <2>3 DEF Stream!Between, Stream!Of
    <3> QED  BY <1>2, <2>1, <3>1 DEF Sealed
  <2> QED  BY <2>2, <2>3
<1>11. \A mark \in seals' : Sealed(mark)'
  BY <1>2, <1>10 DEF Sealed
<1>12. StreamLocking' /\ Stream!PassMeansIntact'
  BY <1>2 DEF StreamIInv, StreamLocking, Stream!PassMeansIntact
<1> QED  BY <1>7, <1>8, <1>9, <1>11, <1>12 DEF StreamIInv

\* A stream is no longer than there are events: each of its rows has an event of its own.
LEMMA StreamBounded ==
  ASSUME StreamTyped, StreamChain, IsFiniteSet(Events), NEW s \in Streams
  PROVE  stream[s].seq <= Cardinality(Events)
<1> DEFINE n == stream[s].seq
           at(q) == CHOOSE row \in rows : row.stream = s /\ row.seq = q
           f == [q \in 1..n |-> at(q).event]
<1>1. n \in Nat
  BY DEF StreamTyped
<1>2. \A q \in 1..n : at(q) \in rows /\ at(q).stream = s /\ at(q).seq = q /\ at(q).event \in Events
  <2> SUFFICES ASSUME NEW q \in 1..n PROVE at(q) \in rows /\ at(q).stream = s /\ at(q).seq = q /\ at(q).event \in Events
    OBVIOUS
  <2>1. \E row \in rows : row.stream = s /\ row.seq = q
    BY DEF StreamChain
  <2>2. at(q) \in rows /\ at(q).stream = s /\ at(q).seq = q
    BY <2>1
  <2> QED  BY <2>2, RowTyped
<1> HIDE DEF at, n
<1>3. f \in Injection(1..n, Events)
  <2>1. f \in [1..n -> Events]
    BY <1>2
  <2>2. ASSUME NEW p \in 1..n, NEW q \in 1..n, f[p] = f[q] PROVE p = q
    <3>1. at(p).event = at(q).event
      BY <2>2
    <3>2. at(p) = at(q)
      BY <1>2, <3>1 DEF StreamChain
    <3> QED  BY <1>2, <3>2
  <2> HIDE DEF f
  <2> QED  BY <2>1, <2>2 DEF Injection, IsInjective
<1>4. Cardinality(1..n) <= Cardinality(Events)
  BY <1>3, FS_Injection
<1>5. Cardinality(1..n) = n
  BY <1>1, FS_Interval
<1> QED  BY <1>4, <1>5 DEF n

LEMMA StreamStep ==
  ASSUME StreamIInv, [Stream!Next]_Stream!vars, IsFiniteSet(Events), Forgery \notin Contents
  PROVE  StreamIInv'
<1>1. ASSUME NEW w \in Workers, NEW e \in Events, NEW c \in Contents, NEW s \in Streams, Stream!LockStream(w, e, c, s)
      PROVE  StreamIInv'
  BY <1>1, StreamLockStep
<1>2. ASSUME NEW w \in Workers, Stream!Ingest(w) PROVE StreamIInv'
  <2>1. streamWork[w].at = "locked" /\ Stream!Release(w) /\ UNCHANGED <<seals, runs>>
    BY <1>2 DEF Stream!Ingest
  <2>2. CASE Stream!Insert(w, streamWork[w].event, streamWork[w].content, streamWork[w].stream)
    BY <2>1, <2>2, StreamInsertStep
  <2>3. CASE Stream!Duplicate(w, streamWork[w].event)
    BY <2>1, <2>3, DuplicateStep
  <2> QED  BY <1>2, <2>2, <2>3 DEF Stream!Ingest
<1>3. ASSUME NEW w \in Workers, Stream!Dies(w) PROVE StreamIInv'
  BY <1>3, StreamDieStep
<1>4. ASSUME NEW s \in Streams, NEW to \in 1..Cardinality(Events), NEW from \in 1..to,
             Stream!SealBatch(s, from, to) \/ Stream!RunIntegrity(s, from, to)
      PROVE  StreamIInv'
  <2>1. from \in Nat /\ to \in Nat
    BY FS_CardinalityType
  <2> QED  BY <1>4, <2>1, SealStep, RunStep
<1>5. ASSUME NEW mark \in seals, Stream!VerifySeal(mark) PROVE StreamIInv'
  BY <1>5, StreamVerifyStep
<1>6. ASSUME NEW row \in rows, Stream!Alter(row) PROVE StreamIInv'
  BY <1>6, AlterStep
<1>7. CASE UNCHANGED Stream!vars
  <2>1. StreamChain' /\ Stream!AnswersAgree' /\ \A mark \in seals' : Sealed(mark)'
    BY <1>7, SameChain DEF StreamIInv, Stream!vars
  <2> QED  BY <1>7, <2>1 DEF StreamIInv, Stream!vars, StreamTyped, StreamLocking, Stream!PassMeansIntact
<1> QED  BY StreamSize, <1>1, <1>2, <1>3, <1>4, <1>5, <1>6, <1>7 DEF Stream!Next

LEMMA StreamInitHolds == ASSUME Stream!Init PROVE StreamIInv
<1>1. StreamTyped
  <2>1. Stream!NewStream \in [seq : Nat, hash : Seq(Contents)]
    BY DEF Stream!NewStream
  <2> QED  BY <2>1 DEF Stream!Init, StreamTyped
<1>2. StreamChain
  BY DEF Stream!Init, StreamChain, Stream!NewStream
<1>3. StreamLocking /\ Stream!AnswersAgree /\ Stream!PassMeansIntact
  BY DEF Stream!Init, StreamLocking, Stream!AnswersAgree, Stream!PassMeansIntact
<1> QED  BY <1>1, <1>2, <1>3 DEF Stream!Init, StreamIInv

LEMMA StreamConsequences ==
  ASSUME StreamIInv, IsFiniteSet(Events)
  PROVE  Stream!TypeOK /\ Stream!ChainWhole /\ Stream!AnswersAgree /\ Stream!PassMeansIntact /\ Stream!SealsHold
<1>1. Stream!TypeOK
  <2>1. ASSUME NEW row \in rows PROVE row.seq = Len(row.hash) /\ row.content \in Contents \cup {Forgery}
    <3>1. /\ row \in Stored /\ StreamRow(row) /\ row.stream \in Streams /\ row.prev \in Seq(Contents) /\ row.seq \in Nat
          /\ row.sent \in Contents
      BY RowTyped DEF StreamIInv, StreamChain
    <3>2. /\ stream[row.stream].hash \in Seq(Contents) /\ stream[row.stream].seq = Len(stream[row.stream].hash)
          /\ row.seq - 1 \in 0..Len(stream[row.stream].hash) /\ row.prev = SubSeq(stream[row.stream].hash, 1, row.seq - 1)
      <4>1. stream[row.stream] \in [seq : Nat, hash : Seq(Contents)]
        BY <3>1 DEF StreamIInv, StreamTyped
      <4>2. stream[row.stream].seq = Len(stream[row.stream].hash)
        BY <3>1 DEF StreamIInv, StreamChain
      <4>3. row.seq \in 1..stream[row.stream].seq /\ row.prev = SubSeq(stream[row.stream].hash, 1, row.seq - 1)
        BY <3>1 DEF StreamRow
      <4> QED  BY <4>1, <4>2, <4>3
    <3>3. Len(row.prev) = row.seq - 1
      BY <3>2, PrefixIs
    <3>4. row.prev \in Seq(Contents \cup {Forgery})
      BY <3>1, SeqMonotonic
    <3>5. row.hash \in {Append(row.prev, row.sent), Append(row.prev, Forgery)}
      BY <3>1 DEF StreamRow
    <3>6. Len(Append(row.prev, row.sent)) = row.seq /\ Len(Append(row.prev, Forgery)) = row.seq
      BY <3>1, <3>3, <3>4, AppendFacts
    <3> QED  BY <3>1, <3>5, <3>6 DEF Stored
  <2>2. \A s \in Streams : stream[s].seq = Len(stream[s].hash) /\ stream[s].seq <= Stream!Cardinality(Events)
    BY StreamSize, StreamBounded DEF StreamIInv, StreamChain
  <2> QED  BY <2>1, <2>2 DEF StreamIInv, StreamTyped, StreamLocking, Stream!TypeOK
<1>2. Stream!ChainWhole
  <2> SUFFICES ASSUME NEW s \in Streams
               PROVE  /\ {row.seq : row \in Stream!Of(s)} = 1..stream[s].seq
                      /\ \A row \in Stream!Of(s) : row.prev = SubSeq(stream[s].hash, 1, row.seq - 1) /\ row.sent = stream[s].hash[row.seq]
    BY DEF Stream!ChainWhole
  <2>1. \A row \in Stream!Of(s) : StreamRow(row) /\ row.stream = s /\ row \in rows
    BY DEF StreamIInv, StreamChain, Stream!Of
  <2>2. \A q \in 1..stream[s].seq : \E row \in Stream!Of(s) : row.seq = q
    BY DEF StreamIInv, StreamChain, Stream!Of
  <2> QED  BY <2>1, <2>2 DEF StreamRow
<1>3. Stream!SealsHold
  BY DEF StreamIInv, Sealed, Stream!SealsHold
<1> QED  BY <1>1, <1>2, <1>3 DEF StreamIInv

\* However ingestions overlap, fail and repeat, each audit stream is one chain without a gap; an
\* event is answered alike each time; and neither a seal nor an integrity run passes over a row
\* that was altered.  An alteration is one that changes the content of a row.
THEOREM StreamWhole == Stream!Spec => []ChainWhole
<1>1. Stream!Init => StreamIInv
  BY StreamInitHolds
<1>2. StreamIInv /\ [Stream!Next]_Stream!vars => StreamIInv'
  BY StreamAssumption, StreamStep
<1>3. StreamIInv => ChainWhole
  BY StreamAssumption, StreamConsequences DEF ChainWhole
<1> QED  BY <1>1, <1>2, <1>3, PTL DEF Stream!Spec

-----------------------------------------------------------------------------
(* The review of matches.  A match that has been decided, or that was not  *)
(* there, stays as it is; so what a delivery was planned from may only     *)
(* have moved forward since, and what it says of clear or confirmed        *)
(* matches still holds.                                                    *)

MatchRows == [Matches -> {None, "potential_match", "confirmed_hit", "dismissed"}]
DecisionRows ==
    {Outcome!NoDecision} \cup
    [screening : Screenings, match : Matches, to : {"confirmed_hit", "dismissed"}, status : {"requested", "applied"}]
Effects == {"clear", "clear_after_review", "potential_match", "confirmed_hit"}
Deliverable ==
    [screening : Screenings, type : Outcome!Types, effective : Effects, status : {"pending", "succeeded", "failed"}]
OutcomeSteps ==
    {Outcome!Idle}
    \cup [at : {"verified"}, id : Decisions, plan : {Outcome!NoMatches}, todo : {{}}]
    \cup [at : {"planned"}, id : Screenings, plan : MatchRows, todo : {{}}]
    \cup [at : {"sending"}, id : {None}, plan : {Outcome!NoMatches}, todo : SUBSET Deliveries]
    \cup [at : {"succeeded", "failed"}, id : Deliveries, plan : {Outcome!NoMatches}, todo : SUBSET Deliveries]

OutcomeTyped ==
    /\ screening \in [Screenings -> {None, "requested", "completed", "failed"}]
    /\ match \in [Screenings -> MatchRows]
    /\ decision \in [Decisions -> DecisionRows]
    /\ delivery \in [Deliveries -> {Outcome!NoDelivery} \cup Deliverable]
    /\ outcomeWork \in [Workers -> OutcomeSteps]
    /\ clt \in [Outcome!Types -> Deliveries \cup {0}]

\* Only the newest screening is under way, and one that has not completed has no matches.
Ordered ==
    /\ \A k, n \in Screenings : screening[k] = "requested" /\ screening[n] # None => n <= k
    /\ \A n \in Screenings : screening[n] # "completed" => match[n] = Outcome!NoMatches

Later(old, new) ==
    \A m \in Matches : /\ old[m] # "potential_match" => new[m] = old[m]
                       /\ old[m] = "potential_match" => new[m] # None

\* What an outcome type's effective status says of the matches.
Tells(effective, row, t) ==
    /\ effective = "clear" => \A m \in Matches : MatchType[m] = t => row[m] = None
    /\ effective = "clear_after_review" =>
          /\ \A m \in Matches : MatchType[m] = t => row[m] \in {None, "dismissed"}
          /\ \E m \in Matches : MatchType[m] = t /\ row[m] = "dismissed"
    /\ effective = "confirmed_hit" => \E m \in Matches : MatchType[m] = t /\ row[m] = "confirmed_hit"

There(k) == delivery[k] # Outcome!NoDelivery
Truthful(k) ==
    There(k) => /\ screening[delivery[k].screening] = "completed"
                /\ Tells(delivery[k].effective, match[delivery[k].screening], delivery[k].type)
Heard(t) == clt[t] # 0 => There(clt[t]) /\ delivery[clt[t]].type = t
InTurn == \A j, k \in Deliveries : j < k /\ There(k) => There(j)

Doing(e) ==
    /\ e.at = "planned" => screening[e.id] = "completed" /\ Later(e.plan, match[e.id])
    /\ e.at \in {"sending", "succeeded", "failed"} => \A k \in e.todo : There(k)
    /\ e.at \in {"succeeded", "failed"} => There(e.id)

OutcomeIInv ==
    /\ OutcomeTyped /\ Ordered /\ Outcome!DecidedOnce /\ InTurn
    /\ \A k \in Deliveries : Truthful(k)
    /\ \A t \in Outcome!Types : Heard(t)
    /\ \A w \in Workers : Doing(outcomeWork[w])

LEMMA EffectiveTells ==
    ASSUME NEW row \in MatchRows, NEW t
    PROVE  /\ Outcome!Effective(row, t) \in Effects /\ Tells(Outcome!Effective(row, t), row, t)
           /\ \A e \in Effects \ {"potential_match"} : Tells(e, row, t) => Outcome!Effective(row, t) = e
<1> DEFINE found == {row[m] : m \in {k \in Matches : MatchType[k] = t}} \ {None}
<1>1. /\ \A m \in Matches : MatchType[m] = t /\ row[m] # None => row[m] \in found
      /\ \A s \in found : s # None /\ \E m \in Matches : MatchType[m] = t /\ row[m] = s
      /\ found \subseteq {"potential_match", "confirmed_hit", "dismissed"}
  BY DEF MatchRows
<1>2. Outcome!Effective(row, t) =
        CASE found = {} -> "clear"
          [] "confirmed_hit" \in found -> "confirmed_hit"
          [] "confirmed_hit" \notin found /\ "potential_match" \in found -> "potential_match"
          [] found = {"dismissed"} -> "clear_after_review"
  BY DEF Outcome!Effective
<1> HIDE DEF found
<1>3. None \notin {"potential_match", "confirmed_hit", "dismissed"}
  BY OutcomeAssumption
<1>4. CASE found = {}
  <2>1. Outcome!Effective(row, t) = "clear"
    BY <1>2, <1>4
  <2>2. \A m \in Matches : MatchType[m] = t => row[m] = None
    BY <1>1, <1>4
  <2> QED  BY <2>1, <2>2, <1>3 DEF Effects, Tells
<1>5. CASE "confirmed_hit" \in found
  <2>1. Outcome!Effective(row, t) = "confirmed_hit"
    BY <1>2, <1>5
  <2>2. \E m \in Matches : MatchType[m] = t /\ row[m] = "confirmed_hit"
    BY <1>1, <1>5
  <2> QED  BY <2>1, <2>2, <1>3 DEF Effects, Tells
<1>6. CASE "confirmed_hit" \notin found /\ "potential_match" \in found
  <2>1. Outcome!Effective(row, t) = "potential_match"
    BY <1>2, <1>6
  <2>2. \E m \in Matches : MatchType[m] = t /\ row[m] = "potential_match"
    BY <1>1, <1>6
  <2>3. \A m \in Matches : MatchType[m] = t => row[m] # "confirmed_hit"
    BY <1>1, <1>3, <1>6
  <2> QED  BY <2>1, <2>2, <2>3, <1>3 DEF Effects, Tells
<1>7. CASE found = {"dismissed"}
  <2>1. Outcome!Effective(row, t) = "clear_after_review"
    BY <1>2, <1>7
  <2>2. \A m \in Matches : MatchType[m] = t => row[m] \in {None, "dismissed"}
    BY <1>1, <1>7
  <2>3. \E m \in Matches : MatchType[m] = t /\ row[m] = "dismissed"
    BY <1>1, <1>7
  <2> QED  BY <2>1, <2>2, <2>3, <1>3 DEF Effects, Tells
<1>8. found = {} \/ "confirmed_hit" \in found \/ ("confirmed_hit" \notin found /\ "potential_match" \in found) \/ found = {"dismissed"}
  BY <1>1
<1> QED  BY <1>4, <1>5, <1>6, <1>7, <1>8

LEMMA StillTells ==
    ASSUME NEW e, NEW t, NEW old \in MatchRows, NEW new \in MatchRows, Later(old, new), Tells(e, old, t)
    PROVE  Tells(e, new, t)
BY OutcomeAssumption DEF Later, Tells

\* Whatever moves matches and deliveries forward keeps what is planned, sent and received.
Onwards ==
    /\ \A n \in Screenings : screening[n] = "completed" => screening'[n] = "completed" /\ Later(match[n], match'[n])
    /\ \A k \in Deliveries : There(k) => /\ There(k)' /\ delivery'[k].screening = delivery[k].screening
                                         /\ delivery'[k].type = delivery[k].type /\ delivery'[k].effective = delivery[k].effective

LEMMA LaterYet == ASSUME NEW a1, NEW a2, NEW a3, Later(a1, a2), Later(a2, a3) PROVE Later(a1, a3)
BY DEF Later

LEMMA GoesOnwards ==
    ASSUME OutcomeIInv, Onwards, match' \in [Screenings -> MatchRows]
    PROVE  /\ \A e \in OutcomeSteps : Doing(e) => Doing(e)'
           /\ \A k \in Deliveries : There(k) => Truthful(k)'
           /\ \A t \in Outcome!Types : clt'[t] = clt[t] => Heard(t)'
<1>1. ASSUME NEW e \in OutcomeSteps, Doing(e) PROVE Doing(e)'
  <2>1. e.at = "planned" => screening'[e.id] = "completed" /\ Later(e.plan, match'[e.id])
    <3> SUFFICES ASSUME e.at = "planned" PROVE screening'[e.id] = "completed" /\ Later(e.plan, match'[e.id])
      OBVIOUS
    <3>1. e.id \in Screenings
      BY DEF OutcomeSteps, Outcome!Idle, Outcome!At
    <3>2. screening[e.id] = "completed" /\ Later(e.plan, match[e.id])
      BY <1>1 DEF Doing
    <3> QED  BY <3>1, <3>2, LaterYet DEF Onwards
  <2>2. /\ e.at \in {"sending", "succeeded", "failed"} => e.todo \subseteq Deliveries
        /\ e.at \in {"succeeded", "failed"} => e.id \in Deliveries
    BY DEF OutcomeSteps, Outcome!Idle, Outcome!At
  <2>3. \A k \in Deliveries : There(k) => There(k)'
    BY DEF Onwards
  <2>4. /\ e.at \in {"sending", "succeeded", "failed"} => \A k \in e.todo : There(k)'
        /\ e.at \in {"succeeded", "failed"} => There(e.id)'
    BY <1>1, <2>2, <2>3 DEF Doing
  <2> QED  BY <2>1, <2>4 DEF Doing, Later, There
<1>2. ASSUME NEW k \in Deliveries, There(k) PROVE Truthful(k)'
  <2>1. delivery[k] \in Deliverable /\ Truthful(k)
    BY <1>2 DEF OutcomeIInv, OutcomeTyped, There
  <2> DEFINE n == delivery[k].screening
  <2>2. n \in Screenings /\ screening[n] = "completed" /\ Tells(delivery[k].effective, match[n], delivery[k].type)
    BY <1>2, <2>1 DEF Truthful, Deliverable
  <2>3. screening'[n] = "completed" /\ Later(match[n], match'[n]) /\ match[n] \in MatchRows /\ match'[n] \in MatchRows
    BY <2>2 DEF Onwards, OutcomeIInv, OutcomeTyped
  <2>4. Tells(delivery[k].effective, match'[n], delivery[k].type)
    BY <2>2, <2>3, StillTells
  <2>5. delivery'[k].screening = n /\ delivery'[k].type = delivery[k].type /\ delivery'[k].effective = delivery[k].effective
    BY <1>2 DEF Onwards
  <2> HIDE DEF n
  <2> QED  BY <2>3, <2>4, <2>5 DEF Truthful, Tells
<1>3. ASSUME NEW t \in Outcome!Types, clt'[t] = clt[t] PROVE Heard(t)'
  <2>1. Heard(t) /\ clt[t] \in Deliveries \cup {0}
    BY DEF OutcomeIInv, OutcomeTyped
  <2> QED  BY <1>3, <2>1 DEF Heard, Onwards
<1> QED  BY <1>1, <1>2, <1>3

\* A step of one worker beside rows that only move forward.
LEMMA WorkerGoes ==
    ASSUME OutcomeIInv, Onwards, match' \in [Screenings -> MatchRows],
           NEW w \in Workers, NEW e \in OutcomeSteps, outcomeWork' = [outcomeWork EXCEPT ![w] = e], Doing(e)'
    PROVE  outcomeWork' \in [Workers -> OutcomeSteps] /\ \A v \in Workers : Doing(outcomeWork[v])'
<1>1. outcomeWork' \in [Workers -> OutcomeSteps] /\ \A v \in Workers : outcomeWork'[v] = IF v = w THEN e ELSE outcomeWork[v]
  BY DEF OutcomeIInv, OutcomeTyped
<1>2. ASSUME NEW v \in Workers PROVE Doing(outcomeWork[v])'
  <2>1. PICK mine \in OutcomeSteps : mine = outcomeWork[v] /\ Doing(mine)
    BY DEF OutcomeIInv, OutcomeTyped
  <2>2. Doing(mine)'
    BY <2>1, GoesOnwards
  <2>3. outcomeWork'[v] = e \/ outcomeWork'[v] = mine
    BY <1>1, <2>1
  <2> QED  BY <2>2, <2>3 DEF Doing, Later, There
<1> QED  BY <1>1, <1>2

LEMMA LaterItself == ASSUME NEW row \in MatchRows PROVE Later(row, row)
BY OutcomeAssumption DEF Later, MatchRows

LEMMA WorkOnly ==
    ASSUME OutcomeIInv, UNCHANGED <<screening, match, decision, delivery, clt>>,
           NEW w \in Workers, NEW e \in OutcomeSteps, outcomeWork' = [outcomeWork EXCEPT ![w] = e], Doing(e)
    PROVE  OutcomeIInv'
<1>1. Onwards /\ match' \in [Screenings -> MatchRows]
  BY LaterItself DEF Onwards, OutcomeIInv, OutcomeTyped, There
<1>2. Doing(e)'
  BY <1>1, GoesOnwards
<1>3. outcomeWork' \in [Workers -> OutcomeSteps] /\ \A v \in Workers : Doing(outcomeWork[v])'
  BY <1>1, <1>2, WorkerGoes
<1>4. OutcomeTyped' /\ Ordered' /\ Outcome!DecidedOnce' /\ InTurn'
  BY <1>3 DEF OutcomeIInv, OutcomeTyped, Ordered, Outcome!DecidedOnce, InTurn, There
<1>5. (\A k \in Deliveries : Truthful(k)') /\ \A t \in Outcome!Types : Heard(t)'
  BY DEF OutcomeIInv, Truthful, Heard, There
<1> QED  BY <1>3, <1>4, <1>5 DEF OutcomeIInv

LEMMA IdleDoes == Outcome!Idle \in OutcomeSteps /\ Doing(Outcome!Idle)
BY DEF OutcomeSteps, Doing, Outcome!Idle, Outcome!At

\* Beside rows that only move forward, a worker that does not step keeps what it does.
LEMMA WorkersStay ==
    ASSUME OutcomeIInv, Onwards, match' \in [Screenings -> MatchRows], UNCHANGED outcomeWork
    PROVE  \A w \in Workers : Doing(outcomeWork[w])'
<1>1. ASSUME NEW w \in Workers PROVE Doing(outcomeWork[w])'
  <2>1. PICK mine \in OutcomeSteps : mine = outcomeWork[w] /\ Doing(mine)
    BY DEF OutcomeIInv, OutcomeTyped
  <2>2. Doing(mine)'
    BY <2>1, GoesOnwards
  <2> QED  BY <2>1, <2>2 DEF Doing, Later, There
<1> QED  BY <1>1

LEMMA OutcomeRequestStep ==
    ASSUME OutcomeIInv, NEW n \in Screenings, Outcome!Request(n)
    PROVE  OutcomeIInv'
<1>1. /\ \A k \in Screenings : (screening[k] = None <=> k >= n) /\ screening[k] # "requested"
      /\ screening' = [screening EXCEPT ![n] = "requested"]
      /\ UNCHANGED <<match, decision, delivery, outcomeWork, clt>>
  BY DEF Outcome!Request
<1>2. /\ screening' \in [Screenings -> {None, "requested", "completed", "failed"}]
      /\ \A k \in Screenings : screening'[k] = IF k = n THEN "requested" ELSE screening[k]
  BY <1>1 DEF OutcomeIInv, OutcomeTyped
<1>3. screening[n] = None /\ None # "completed" /\ Screenings \subseteq Nat
  BY <1>1, OutcomeAssumption
<1>4. Onwards /\ match' \in [Screenings -> MatchRows]
  BY <1>1, <1>2, <1>3, LaterItself DEF Onwards, OutcomeIInv, OutcomeTyped, There
<1>5. Ordered'
  <2>1. ASSUME NEW k \in Screenings, NEW j \in Screenings, screening'[k] = "requested", screening'[j] # None PROVE j <= k
    BY <1>1, <1>2, <1>3, <2>1
  <2>2. ASSUME NEW k \in Screenings, screening'[k] # "completed" PROVE match'[k] = Outcome!NoMatches
    BY <1>1, <1>2, <1>3, <2>2 DEF OutcomeIInv, Ordered
  <2> QED  BY <2>1, <2>2, <1>1 DEF Ordered, Outcome!NoMatches
<1>6. \A w \in Workers : Doing(outcomeWork[w])'
  BY <1>1, <1>4, WorkersStay
<1>7. OutcomeTyped' /\ Outcome!DecidedOnce' /\ InTurn'
  BY <1>1, <1>2 DEF OutcomeIInv, OutcomeTyped, Outcome!DecidedOnce, InTurn, There
<1>8. (\A k \in Deliveries : Truthful(k)') /\ \A t \in Outcome!Types : Heard(t)'
  BY <1>1, <1>4, GoesOnwards DEF Truthful, There
<1> QED  BY <1>5, <1>6, <1>7, <1>8 DEF OutcomeIInv

LEMMA AnswerStep ==
    ASSUME OutcomeIInv, NEW n \in Screenings, Outcome!Answer(n)
    PROVE  OutcomeIInv'
<1>1. /\ screening[n] = "requested" /\ UNCHANGED <<decision, delivery, outcomeWork, clt>>
      /\ \/ /\ screening' = [screening EXCEPT ![n] = "completed"]
            /\ \E found \in SUBSET Matches :
                 match' = [match EXCEPT ![n] = [m \in Matches |-> IF m \in found THEN "potential_match" ELSE None]]
         \/ screening' = [screening EXCEPT ![n] = "failed"] /\ UNCHANGED match
  BY DEF Outcome!Answer
<1>2. PICK s \in {"completed", "failed"} : screening' = [screening EXCEPT ![n] = s] /\ (s = "failed" => UNCHANGED match)
  BY <1>1
<1>3. /\ screening' \in [Screenings -> {None, "requested", "completed", "failed"}]
      /\ \A k \in Screenings : screening'[k] = IF k = n THEN s ELSE screening[k]
  BY <1>2 DEF OutcomeIInv, OutcomeTyped
<1>4. match' \in [Screenings -> MatchRows] /\ \A k \in Screenings \ {n} : match'[k] = match[k]
  BY <1>1 DEF OutcomeIInv, OutcomeTyped, MatchRows
<1>5. match[n] = Outcome!NoMatches
  BY <1>1 DEF OutcomeIInv, Ordered
<1>6. Onwards
  BY <1>1, <1>3, <1>4, LaterItself DEF Onwards, OutcomeIInv, OutcomeTyped, There
<1>7. Ordered'
  <2>1. ASSUME NEW k \in Screenings, NEW j \in Screenings, screening'[k] = "requested", screening'[j] # None PROVE j <= k
    BY <1>1, <1>3, <2>1, OutcomeAssumption DEF OutcomeIInv, Ordered
  <2>2. ASSUME NEW k \in Screenings, screening'[k] # "completed" PROVE match'[k] = Outcome!NoMatches
    BY <1>2, <1>3, <1>4, <1>5, <2>2 DEF OutcomeIInv, Ordered
  <2> QED  BY <2>1, <2>2 DEF Ordered, Outcome!NoMatches
<1>8. Outcome!DecidedOnce'
  <2>1. ASSUME NEW c \in Decisions, decision[c].status = "applied"
        PROVE  match'[decision[c].screening][decision[c].match] = match[decision[c].screening][decision[c].match]
    <3>1. decision[c] \in DecisionRows /\ decision[c] # Outcome!NoDecision
      BY <2>1, OutcomeAssumption DEF OutcomeIInv, OutcomeTyped, Outcome!NoDecision
    <3>2. decision[c].screening \in Screenings /\ decision[c].match \in Matches /\ decision[c].to # None
      BY <3>1, OutcomeAssumption DEF DecisionRows
    <3>3. match[decision[c].screening][decision[c].match] = decision[c].to
      BY <2>1 DEF OutcomeIInv, Outcome!DecidedOnce
    <3>4. decision[c].screening # n
      BY <1>5, <3>2, <3>3 DEF Outcome!NoMatches
    <3> QED  BY <1>4, <3>2, <3>4
  <2> QED  BY <1>1, <2>1 DEF OutcomeIInv, Outcome!DecidedOnce
<1>9. OutcomeTyped' /\ InTurn'
  BY <1>1, <1>3, <1>4 DEF OutcomeIInv, OutcomeTyped, InTurn, There
<1>10. (\A k \in Deliveries : Truthful(k)') /\ \A t \in Outcome!Types : Heard(t)'
  BY <1>1, <1>4, <1>6, GoesOnwards DEF Truthful, There
<1> QED  BY <1>1, <1>4, <1>6, <1>7, <1>8, <1>9, <1>10, WorkersStay DEF OutcomeIInv

LEMMA DecisionIsRow ==
    ASSUME OutcomeIInv, NEW d \in Decisions, decision[d].status # None
    PROVE  /\ decision[d].screening \in Screenings /\ decision[d].match \in Matches
           /\ decision[d].to \in {"confirmed_hit", "dismissed"} /\ decision[d].status \in {"requested", "applied"}
           /\ decision[d] \in [screening : Screenings, match : Matches, to : {"confirmed_hit", "dismissed"}, status : {"requested", "applied"}]
BY DEF OutcomeIInv, OutcomeTyped, DecisionRows, Outcome!NoDecision

LEMMA RequestDispositionStep ==
    ASSUME OutcomeIInv, NEW d \in Decisions, NEW n \in Screenings, NEW m \in Matches, NEW to \in {"confirmed_hit", "dismissed"},
           Outcome!RequestDisposition(d, n, m, to)
    PROVE  OutcomeIInv'
<1> DEFINE row == [screening |-> n, match |-> m, to |-> to, status |-> "requested"]
<1>1. decision' = [decision EXCEPT ![d] = row] /\ UNCHANGED <<screening, match, delivery, outcomeWork, clt>>
  BY DEF Outcome!RequestDisposition
<1>2. row \in DecisionRows /\ row.status # "applied"
  BY DEF DecisionRows
<1> HIDE DEF row
<1>3. decision' \in [Decisions -> DecisionRows] /\ \A c \in Decisions : decision'[c] = IF c = d THEN row ELSE decision[c]
  BY <1>1, <1>2 DEF OutcomeIInv, OutcomeTyped
<1>4. \A c \in Decisions : decision'[c].status = "applied" => c # d /\ decision'[c] = decision[c]
  BY <1>2, <1>3
<1>5. Outcome!DecidedOnce'
  BY <1>1, <1>4 DEF OutcomeIInv, Outcome!DecidedOnce
<1>6. OutcomeTyped' /\ Ordered' /\ InTurn'
  BY <1>1, <1>3 DEF OutcomeIInv, OutcomeTyped, Ordered, InTurn, There
<1>7. (\A k \in Deliveries : Truthful(k)') /\ (\A t \in Outcome!Types : Heard(t)') /\ \A w \in Workers : Doing(outcomeWork[w])'
  BY <1>1 DEF OutcomeIInv, Truthful, Heard, There, Doing
<1> QED  BY <1>5, <1>6, <1>7 DEF OutcomeIInv

LEMMA BeginsStep ==
    ASSUME OutcomeIInv, NEW w \in Workers,
           \/ \E d \in Decisions : Outcome!Verify(w, d)
           \/ \E n \in Screenings : Outcome!Plan(w, n)
           \/ \E k \in Deliveries : Outcome!Retry(w, k)
           \/ Outcome!Dies(w)
    PROVE  OutcomeIInv'
<1>1. ASSUME NEW d \in Decisions, Outcome!Verify(w, d) PROVE OutcomeIInv'
  <2> DEFINE e == Outcome!At("verified", d, Outcome!NoMatches, {})
  <2>1. outcomeWork' = [outcomeWork EXCEPT ![w] = e] /\ UNCHANGED <<screening, match, decision, delivery, clt>>
    BY <1>1 DEF Outcome!Verify, Outcome!Go
  <2>2. e \in OutcomeSteps /\ Doing(e)
    BY DEF OutcomeSteps, Outcome!At, Doing
  <2> QED  BY <2>1, <2>2, WorkOnly
<1>2. ASSUME NEW n \in Screenings, Outcome!Plan(w, n) PROVE OutcomeIInv'
  <2> DEFINE e == Outcome!At("planned", n, match[n], {})
  <2>1. /\ outcomeWork' = [outcomeWork EXCEPT ![w] = e] /\ UNCHANGED <<screening, match, decision, delivery, clt>>
        /\ screening[n] = "completed" /\ match[n] \in MatchRows
    BY <1>2 DEF Outcome!Plan, Outcome!Go, OutcomeIInv, OutcomeTyped
  <2>2. e \in OutcomeSteps /\ Doing(e)
    BY <2>1, LaterItself DEF OutcomeSteps, Outcome!At, Doing
  <2> QED  BY <2>1, <2>2, WorkOnly
<1>3. ASSUME NEW k \in Deliveries, Outcome!Retry(w, k) PROVE OutcomeIInv'
  <2> DEFINE e == Outcome!At("sending", None, Outcome!NoMatches, {k})
  <2>1. /\ outcomeWork' = [outcomeWork EXCEPT ![w] = e] /\ UNCHANGED <<screening, match, decision, delivery, clt>>
        /\ delivery[k].status \in {"pending", "failed"}
    BY <1>3 DEF Outcome!Retry, Outcome!Go
  <2>2. There(k)
    BY <2>1, OutcomeAssumption DEF There, Outcome!NoDelivery
  <2>3. e \in OutcomeSteps /\ Doing(e)
    BY <2>2 DEF OutcomeSteps, Outcome!At, Doing
  <2> QED  BY <2>1, <2>3, WorkOnly
<1>4. CASE Outcome!Dies(w)
  <2>1. outcomeWork' = [outcomeWork EXCEPT ![w] = Outcome!Idle] /\ UNCHANGED <<screening, match, decision, delivery, clt>>
    BY <1>4 DEF Outcome!Dies, Outcome!Rest, Outcome!Go
  <2> QED  BY <2>1, IdleDoes, WorkOnly
<1> QED  BY <1>1, <1>2, <1>3, <1>4

LEMMA DisposeStep ==
    ASSUME OutcomeIInv, NEW w \in Workers, Outcome!Dispose(w)
    PROVE  OutcomeIInv'
<1> DEFINE d == outcomeWork[w].id
           q == decision[d]
           n == q.screening
           m == q.match
<1>1. /\ outcomeWork[w].at = "verified" /\ outcomeWork' = [outcomeWork EXCEPT ![w] = Outcome!Idle]
      /\ UNCHANGED <<screening, delivery, clt>>
      /\ \/ /\ q.status = "requested" /\ match[n][m] = "potential_match"
            /\ match' = [match EXCEPT ![n][m] = q.to] /\ decision' = [decision EXCEPT ![d].status = "applied"]
         \/ UNCHANGED <<match, decision>>
  BY DEF Outcome!Dispose, Outcome!Now, Outcome!Rest, Outcome!Go, Outcome!StillUndisposed, Outcome!Undisposed
<1>2. CASE UNCHANGED <<match, decision>>
  BY <1>1, <1>2, IdleDoes, WorkOnly
<1>3. CASE /\ q.status = "requested" /\ match[n][m] = "potential_match"
           /\ match' = [match EXCEPT ![n][m] = q.to] /\ decision' = [decision EXCEPT ![d].status = "applied"]
  <2>1. d \in Decisions
    BY <1>1 DEF OutcomeIInv, OutcomeTyped, OutcomeSteps, Outcome!Idle, Outcome!At
  <2>2. /\ n \in Screenings /\ m \in Matches /\ q.to \in {"confirmed_hit", "dismissed"}
        /\ q \in [screening : Screenings, match : Matches, to : {"confirmed_hit", "dismissed"}, status : {"requested", "applied"}]
    BY <1>3, <2>1, OutcomeAssumption, DecisionIsRow
  <2> DEFINE done == [q EXCEPT !.status = "applied"]
             row == [match[n] EXCEPT ![m] = q.to]
  <2>3. decision' = [decision EXCEPT ![d] = done] /\ match' = [match EXCEPT ![n] = row]
    BY <1>3
  <2>4. /\ done \in DecisionRows /\ done.screening = n /\ done.match = m /\ done.to = q.to
        /\ done.status = "applied"
    <3> HIDE DEF q
    <3> QED  BY <2>2 DEF DecisionRows
  <2>5. /\ row \in MatchRows /\ row[m] = q.to /\ match[n] \in MatchRows
        /\ \A x \in Matches \ {m} : row[x] = match[n][x]
    <3>1. match[n] \in MatchRows
      BY <2>2 DEF OutcomeIInv, OutcomeTyped
    <3> HIDE DEF n, m, q
    <3> QED  BY <2>2, <3>1 DEF MatchRows
  <2>6. q.status = "requested" /\ match[n][m] = "potential_match"
    BY <1>3
  <2> HIDE DEF done, row, d
  <2>7. /\ decision' \in [Decisions -> DecisionRows] /\ match' \in [Screenings -> MatchRows]
        /\ \A c \in Decisions : decision'[c] = IF c = d THEN done ELSE decision[c]
        /\ \A k \in Screenings : match'[k] = IF k = n THEN row ELSE match[k]
    BY <2>1, <2>2, <2>3, <2>4, <2>5 DEF OutcomeIInv, OutcomeTyped
  <2>8. screening[n] = "completed"
    BY <2>2, <2>6, OutcomeAssumption DEF OutcomeIInv, Ordered, Outcome!NoMatches
  <2>9. Later(match[n], row)
    <3> HIDE DEF n, m, q
    <3> QED  BY <2>2, <2>5, <2>6, OutcomeAssumption DEF Later
  <2>10. Onwards
    BY <1>1, <2>7, <2>9, LaterItself DEF Onwards, OutcomeIInv, OutcomeTyped, There
  <2>11. Ordered'
    BY <1>1, <2>7, <2>8 DEF OutcomeIInv, Ordered, Outcome!NoMatches
  <2>12. Outcome!DecidedOnce'
    <3>1. ASSUME NEW c \in Decisions, c # d, decision[c].status = "applied"
          PROVE  /\ match'[decision[c].screening][decision[c].match] = decision[c].to
                 /\ ~(decision[c].screening = n /\ decision[c].match = m)
      <4>1. /\ decision[c].screening \in Screenings /\ decision[c].match \in Matches
            /\ decision[c].to # "potential_match" /\ match[decision[c].screening][decision[c].match] = decision[c].to
        BY <3>1, OutcomeAssumption, DecisionIsRow DEF OutcomeIInv, Outcome!DecidedOnce
      <4>2. ~(decision[c].screening = n /\ decision[c].match = m)
        BY <2>6, <4>1
      <4> QED  BY <2>5, <2>7, <4>1, <4>2
    <3>2. \A c \in Decisions \ {d} : decision'[c] = decision[c]
      BY <2>7
    <3>3. decision'[d] = done /\ match'[n][m] = q.to
      BY <2>1, <2>2, <2>5, <2>7
    <3>4. ASSUME NEW c \in Decisions, decision'[c].status = "applied"
          PROVE  match'[decision'[c].screening][decision'[c].match] = decision'[c].to
      BY <2>4, <3>1, <3>2, <3>3, <3>4
    <3>5. ASSUME NEW c \in Decisions, NEW b \in Decisions, decision'[c].status = "applied", decision'[b].status = "applied",
                 decision'[b].screening = decision'[c].screening, decision'[b].match = decision'[c].match
          PROVE  c = b
      <4>1. CASE c = d
        BY <2>4, <3>1, <3>2, <3>3, <3>5, <4>1
      <4>2. CASE b = d
        BY <2>4, <3>1, <3>2, <3>3, <3>5, <4>2
      <4>3. CASE c # d /\ b # d
        BY <3>2, <3>5, <4>3 DEF OutcomeIInv, Outcome!DecidedOnce
      <4> QED  BY <4>1, <4>2, <4>3
    <3> QED  BY <3>4, <3>5 DEF Outcome!DecidedOnce
  <2>13. Doing(Outcome!Idle)'
    BY <2>7, <2>10, IdleDoes, GoesOnwards
  <2>14. outcomeWork' \in [Workers -> OutcomeSteps] /\ \A v \in Workers : Doing(outcomeWork[v])'
    BY <1>1, <2>7, <2>10, <2>13, IdleDoes, WorkerGoes
  <2>15. OutcomeTyped' /\ InTurn'
    BY <1>1, <2>7, <2>14 DEF OutcomeIInv, OutcomeTyped, InTurn, There
  <2>16. (\A k \in Deliveries : Truthful(k)') /\ \A t \in Outcome!Types : Heard(t)'
    BY <1>1, <2>7, <2>10, GoesOnwards DEF Truthful, There
  <2> QED  BY <2>11, <2>12, <2>14, <2>15, <2>16 DEF OutcomeIInv
<1> QED  BY <1>1, <1>2, <1>3

LEMMA RowThere == ASSUME NEW row \in Deliverable PROVE row # Outcome!NoDelivery
BY OutcomeAssumption DEF Deliverable, Outcome!NoDelivery

LEMMA OutcomeInsertStep ==
    ASSUME OutcomeIInv, NEW w \in Workers, Outcome!Insert(w)
    PROVE  OutcomeIInv'
<1> DEFINE n == outcomeWork[w].id
           plan == outcomeWork[w].plan
           row(t) == [screening |-> n, type |-> t, effective |-> Outcome!Effective(plan, t), status |-> "pending"]
           e(new) == Outcome!At("sending", None, Outcome!NoMatches, new)
<1>1. outcomeWork[w].at = "planned" /\ UNCHANGED <<screening, match, decision, clt>>
  BY DEF Outcome!Insert, Outcome!Now
<1>2. PICK new \in SUBSET Outcome!Free :
            /\ \A k \in new, j \in Outcome!Free \ new : k < j
            /\ outcomeWork' = [outcomeWork EXCEPT ![w] = e(new)]
            /\ \E kind \in [new -> Outcome!Types] :
                 delivery' = [k \in Deliveries |-> IF k \notin new THEN delivery[k] ELSE row(kind[k])]
  BY DEF Outcome!Insert, Outcome!Go
<1>3. PICK kind \in [new -> Outcome!Types] :
                 delivery' = [k \in Deliveries |-> IF k \notin new THEN delivery[k] ELSE row(kind[k])]
  BY <1>2
<1>4. outcomeWork[w] \in OutcomeSteps /\ Doing(outcomeWork[w])
  BY DEF OutcomeIInv, OutcomeTyped
<1>5. n \in Screenings /\ plan \in MatchRows
  BY <1>1, <1>4 DEF OutcomeSteps, Outcome!Idle, Outcome!At
<1>6. screening[n] = "completed" /\ Later(plan, match[n]) /\ match[n] \in MatchRows
  BY <1>1, <1>4, <1>5 DEF Doing, OutcomeIInv, OutcomeTyped
<1>7. \A k \in new : ~There(k)
  BY DEF Outcome!Free, There
<1>8. \A j \in Deliveries \ new : ~There(j) => \A k \in new : k < j
  BY <1>2 DEF Outcome!Free, There
<1>9. ASSUME NEW t \in Outcome!Types
      PROVE  row(t) \in Deliverable /\ row(t).screening = n /\ row(t).type = t /\ Tells(row(t).effective, match[n], t)
  <2>1. Outcome!Effective(plan, t) \in Effects /\ Tells(Outcome!Effective(plan, t), match[n], t)
    BY <1>5, <1>6, EffectiveTells, StillTells
  <2> HIDE DEF plan, n
  <2> QED  BY <1>5, <2>1 DEF Deliverable
<1>10. \A k \in Deliveries : delivery'[k] = IF k \notin new THEN delivery[k] ELSE row(kind[k])
  BY <1>3
<1>11. \A k \in new : k \in Deliveries /\ kind[k] \in Outcome!Types
  BY <1>3 DEF Outcome!Free
<1>12. e(new) \in OutcomeSteps /\ e(new).at = "sending" /\ e(new).todo = new
  BY <1>11 DEF OutcomeSteps, Outcome!At
<1> HIDE DEF row, n, plan, e
<1>13. delivery' \in [Deliveries -> {Outcome!NoDelivery} \cup Deliverable]
  <2>1. delivery' = [k \in Deliveries |-> delivery'[k]]
    BY <1>3
  <2>2. \A k \in Deliveries : delivery'[k] \in {Outcome!NoDelivery} \cup Deliverable
    BY <1>9, <1>10, <1>11 DEF OutcomeIInv, OutcomeTyped
  <2> QED  BY <2>1, <2>2
<1>14. \A k \in new : There(k)'
  BY <1>9, <1>10, <1>11, RowThere DEF There
<1>15. Onwards /\ match' \in [Screenings -> MatchRows]
  BY <1>1, <1>7, <1>10, LaterItself DEF Onwards, OutcomeIInv, OutcomeTyped, There
<1>16. Doing(e(new))'
  <2>1. \A k \in e(new).todo : There(k)'
    BY <1>12, <1>14
  <2> QED  BY <1>12, <2>1 DEF Doing
<1>17. outcomeWork' \in [Workers -> OutcomeSteps] /\ \A v \in Workers : Doing(outcomeWork[v])'
  BY <1>2, <1>12, <1>15, <1>16, WorkerGoes
<1>18. ASSUME NEW k \in Deliveries PROVE Truthful(k)'
  <2>1. CASE k \in new
    <3>1. delivery'[k] = row(kind[k]) /\ kind[k] \in Outcome!Types
      BY <1>10, <1>11, <2>1
    <3>2. screening'[n] = "completed" /\ match'[n] = match[n]
      BY <1>1, <1>6
    <3>3. delivery'[k].screening = n /\ delivery'[k].type = kind[k] /\ Tells(delivery'[k].effective, match'[n], kind[k])
      BY <1>9, <3>1, <3>2
    <3> QED  BY <3>2, <3>3 DEF Truthful, Tells
  <2>2. CASE k \notin new /\ There(k)
    BY <1>15, <2>2, GoesOnwards
  <2>3. CASE k \notin new /\ ~There(k)
    BY <1>10, <2>3 DEF Truthful, There
  <2> QED  BY <2>1, <2>2, <2>3
<1>19. InTurn'
  <2>1. ASSUME NEW j \in Deliveries, NEW k \in Deliveries, j < k, There(k)' PROVE There(j)'
    <3>1. CASE There(k)
      BY <2>1, <3>1, <1>15 DEF OutcomeIInv, InTurn, Onwards
    <3>2. CASE ~There(k)
      <4>1. k \in new
        BY <1>10, <2>1, <3>2 DEF There
      <4>2. CASE There(j)
        BY <1>15, <4>2 DEF Onwards
      <4>3. CASE ~There(j)
        <5>1. j \in new
          BY <1>8, <2>1, <4>1, <4>3, OutcomeAssumption
        <5> QED  BY <1>14, <5>1
      <4> QED  BY <4>2, <4>3
    <3> QED  BY <3>1, <3>2
  <2> QED  BY <2>1 DEF InTurn, There
<1>20. OutcomeTyped' /\ Ordered' /\ Outcome!DecidedOnce'
  BY <1>1, <1>13, <1>17 DEF OutcomeIInv, OutcomeTyped, Ordered, Outcome!DecidedOnce, Outcome!NoMatches
<1>21. \A t \in Outcome!Types : Heard(t)'
  BY <1>1, <1>15, GoesOnwards
<1> QED  BY <1>17, <1>18, <1>19, <1>20, <1>21 DEF OutcomeIInv

LEMMA CallStep ==
    ASSUME OutcomeIInv, NEW w \in Workers, Outcome!Call(w)
    PROVE  OutcomeIInv'
<1>1. PICK k \in outcomeWork[w].todo, received \in BOOLEAN :
        /\ outcomeWork[w].at = "sending" /\ UNCHANGED <<screening, match, decision, delivery>>
        /\ clt' = IF received THEN [clt EXCEPT ![delivery[k].type] = k] ELSE clt
        /\ \E heard \in {FALSE, received} :
              outcomeWork' = [outcomeWork EXCEPT ![w] =
                  Outcome!At(IF heard THEN "succeeded" ELSE "failed", k, Outcome!NoMatches, outcomeWork[w].todo)]
  BY DEF Outcome!Call, Outcome!Now, Outcome!Go
<1>2. PICK point \in {"succeeded", "failed"} :
        outcomeWork' = [outcomeWork EXCEPT ![w] = Outcome!At(point, k, Outcome!NoMatches, outcomeWork[w].todo)]
  BY <1>1
<1> DEFINE todo == outcomeWork[w].todo
           e == Outcome!At(point, k, Outcome!NoMatches, todo)
<1>3. outcomeWork[w] \in OutcomeSteps /\ Doing(outcomeWork[w])
  BY DEF OutcomeIInv, OutcomeTyped
<1>4. todo \in SUBSET Deliveries /\ k \in Deliveries /\ \A j \in todo : There(j)
  BY <1>1, <1>3 DEF OutcomeSteps, Outcome!Idle, Outcome!At, Doing
<1>5. There(k) /\ delivery[k].type \in Outcome!Types
  BY <1>1, <1>4 DEF OutcomeIInv, OutcomeTyped, There, Deliverable
<1>6. e \in OutcomeSteps /\ Doing(e)
  BY <1>4, <1>5 DEF OutcomeSteps, Outcome!At, Doing
<1>7. Onwards /\ match' \in [Screenings -> MatchRows]
  BY <1>1, LaterItself DEF Onwards, OutcomeIInv, OutcomeTyped, There
<1>8. outcomeWork' \in [Workers -> OutcomeSteps] /\ \A v \in Workers : Doing(outcomeWork[v])'
  <2>1. PICK x \in OutcomeSteps : x = e /\ Doing(x)
    BY <1>6
  <2>2. Doing(x)' /\ outcomeWork' = [outcomeWork EXCEPT ![w] = x]
    BY <1>2, <1>7, <2>1, GoesOnwards
  <2> QED  BY <1>7, <2>2, WorkerGoes
<1>9. clt' \in [Outcome!Types -> Deliveries \cup {0}]
      /\ \A t \in Outcome!Types : clt'[t] = clt[t] \/ (clt'[t] = k /\ t = delivery[k].type)
  BY <1>1, <1>4, <1>5 DEF OutcomeIInv, OutcomeTyped
<1>10. ASSUME NEW t \in Outcome!Types PROVE Heard(t)'
  <2>1. CASE clt'[t] = clt[t]
    BY <1>7, <2>1, GoesOnwards
  <2>2. CASE clt'[t] = k /\ t = delivery[k].type
    BY <1>1, <1>5, <2>2 DEF Heard, There
  <2> QED  BY <1>9, <2>1, <2>2
<1>11. OutcomeTyped' /\ Ordered' /\ Outcome!DecidedOnce' /\ InTurn'
  BY <1>1, <1>8, <1>9 DEF OutcomeIInv, OutcomeTyped, Ordered, Outcome!DecidedOnce, Outcome!NoMatches, InTurn, There
<1>12. \A j \in Deliveries : Truthful(j)'
  BY <1>1, <1>7, GoesOnwards DEF Truthful, There
<1> QED  BY <1>8, <1>10, <1>11, <1>12 DEF OutcomeIInv

LEMMA RecordStep ==
    ASSUME OutcomeIInv, NEW w \in Workers, Outcome!Record(w)
    PROVE  OutcomeIInv'
<1> DEFINE k == outcomeWork[w].id
           todo == outcomeWork[w].todo
           onward == Outcome!At("sending", None, Outcome!NoMatches, todo \ {k})
           recorded == [delivery[k] EXCEPT !.status = outcomeWork[w].at]
<1>1. /\ outcomeWork[w].at \in {"succeeded", "failed"} /\ UNCHANGED <<screening, match, decision, clt>>
      /\ delivery' = [delivery EXCEPT ![k] = recorded]
      /\ \/ outcomeWork' = [outcomeWork EXCEPT ![w] = Outcome!Idle]
         \/ outcomeWork' = [outcomeWork EXCEPT ![w] = onward]
  BY DEF Outcome!Record, Outcome!Recorded, Outcome!Now, Outcome!Rest, Outcome!Go
<1>2. outcomeWork[w] \in OutcomeSteps /\ Doing(outcomeWork[w])
  BY DEF OutcomeIInv, OutcomeTyped
<1>3. todo \in SUBSET Deliveries /\ k \in Deliveries /\ There(k) /\ \A j \in todo : There(j)
  BY <1>1, <1>2 DEF OutcomeSteps, Outcome!Idle, Outcome!At, Doing
<1>4. delivery[k] \in Deliverable
  BY <1>3 DEF OutcomeIInv, OutcomeTyped, There
<1>5. /\ recorded \in Deliverable /\ recorded.screening = delivery[k].screening /\ recorded.type = delivery[k].type
      /\ recorded.effective = delivery[k].effective
  <2> HIDE DEF k
  <2> QED  BY <1>1, <1>4 DEF Deliverable
<1>6. onward \in OutcomeSteps /\ Doing(onward)
  BY <1>3 DEF OutcomeSteps, Outcome!At, Doing
<1> HIDE DEF k, todo, onward, recorded
<1>7. /\ delivery' \in [Deliveries -> {Outcome!NoDelivery} \cup Deliverable]
      /\ \A j \in Deliveries : delivery'[j] = IF j = k THEN recorded ELSE delivery[j]
  BY <1>1, <1>3, <1>5 DEF OutcomeIInv, OutcomeTyped
<1>8. \A j \in Deliveries : There(j)' <=> There(j)
  BY <1>3, <1>5, <1>7, RowThere DEF There
<1>9. Onwards /\ match' \in [Screenings -> MatchRows]
  BY <1>1, <1>5, <1>7, <1>8, LaterItself DEF Onwards, OutcomeIInv, OutcomeTyped
<1>10. PICK e \in OutcomeSteps : Doing(e) /\ outcomeWork' = [outcomeWork EXCEPT ![w] = e]
  BY <1>1, <1>6, IdleDoes
<1>11. outcomeWork' \in [Workers -> OutcomeSteps] /\ \A v \in Workers : Doing(outcomeWork[v])'
  BY <1>9, <1>10, GoesOnwards, WorkerGoes
<1>12. OutcomeTyped' /\ Ordered' /\ Outcome!DecidedOnce'
  BY <1>1, <1>7, <1>11 DEF OutcomeIInv, OutcomeTyped, Ordered, Outcome!DecidedOnce, Outcome!NoMatches
<1>13. InTurn'
  <2>1. ASSUME NEW i \in Deliveries, NEW j \in Deliveries, i < j, There(j)' PROVE There(i)'
    BY <1>8, <2>1 DEF OutcomeIInv, InTurn
  <2> QED  BY <2>1 DEF InTurn, There
<1>14. ASSUME NEW j \in Deliveries PROVE Truthful(j)'
  <2>1. CASE There(j)
    BY <1>9, <2>1, GoesOnwards
  <2>2. CASE ~There(j)
    BY <1>8, <2>2 DEF Truthful, There
  <2> QED  BY <2>1, <2>2
<1>15. \A t \in Outcome!Types : Heard(t)'
  BY <1>1, <1>9, GoesOnwards
<1> QED  BY <1>11, <1>12, <1>13, <1>14, <1>15 DEF OutcomeIInv

LEMMA OutcomeStep ==
    ASSUME OutcomeIInv, [Outcome!Next]_Outcome!vars
    PROVE  OutcomeIInv'
<1>1. CASE UNCHANGED Outcome!vars
  <2>1. UNCHANGED <<screening, match, decision, delivery, outcomeWork, clt>>
    BY <1>1 DEF Outcome!vars
  <2>2. OutcomeTyped' /\ Ordered' /\ Outcome!DecidedOnce' /\ InTurn'
    BY <2>1 DEF OutcomeIInv, OutcomeTyped, Ordered, Outcome!DecidedOnce, Outcome!NoMatches, InTurn, There
  <2>3. (\A k \in Deliveries : Truthful(k)') /\ (\A t \in Outcome!Types : Heard(t)') /\ \A w \in Workers : Doing(outcomeWork[w])'
    BY <2>1 DEF OutcomeIInv, Truthful, Heard, Doing, There
  <2> QED  BY <2>2, <2>3 DEF OutcomeIInv
<1>2. ASSUME NEW n \in Screenings, Outcome!Request(n) \/ Outcome!Answer(n) PROVE OutcomeIInv'
  BY <1>2, OutcomeRequestStep, AnswerStep
<1>3. ASSUME NEW d \in Decisions, NEW n \in Screenings, NEW m \in Matches, NEW to \in {"confirmed_hit", "dismissed"},
             Outcome!RequestDisposition(d, n, m, to)
      PROVE  OutcomeIInv'
  BY <1>3, RequestDispositionStep
<1>4. ASSUME NEW w \in Workers,
             \/ \E d \in Decisions : Outcome!Verify(w, d)
             \/ \E n \in Screenings : Outcome!Plan(w, n)
             \/ \E k \in Deliveries : Outcome!Retry(w, k)
             \/ Outcome!Dispose(w) \/ Outcome!Insert(w) \/ Outcome!Call(w) \/ Outcome!Record(w) \/ Outcome!Dies(w)
      PROVE  OutcomeIInv'
  BY <1>4, BeginsStep, DisposeStep, OutcomeInsertStep, CallStep, RecordStep
<1> QED  BY <1>1, <1>2, <1>3, <1>4 DEF Outcome!Next

LEMMA OutcomeBegins == Outcome!Init => OutcomeIInv
<1> SUFFICES ASSUME Outcome!Init PROVE OutcomeIInv
  OBVIOUS
<1>1. OutcomeTyped
  BY IdleDoes DEF Outcome!Init, OutcomeTyped, DecisionRows, MatchRows, Outcome!NoMatches
<1>2. Ordered /\ Outcome!DecidedOnce /\ InTurn
  BY OutcomeAssumption DEF Outcome!Init, Ordered, Outcome!DecidedOnce, InTurn, There, Outcome!NoDecision, Outcome!NoDelivery
<1>3. (\A k \in Deliveries : Truthful(k)) /\ \A t \in Outcome!Types : Heard(t)
  BY DEF Outcome!Init, Truthful, Heard, There
<1>4. \A w \in Workers : Doing(outcomeWork[w])
  BY IdleDoes DEF Outcome!Init
<1> QED  BY <1>1, <1>2, <1>3, <1>4 DEF OutcomeIInv

LEMMA OutcomeSound ==
    OutcomeIInv => Outcome!TypeOK /\ Outcome!DecidedOnce /\ Outcome!ClearedByReview /\ Outcome!AllowedOnlyWhenCleared
<1> SUFFICES ASSUME OutcomeIInv
             PROVE  Outcome!TypeOK /\ Outcome!DecidedOnce /\ Outcome!ClearedByReview /\ Outcome!AllowedOnlyWhenCleared
  OBVIOUS
<1>1. Outcome!TypeOK
  <2>1. \A d \in Decisions : decision[d].status \in {None, "requested", "applied"}
    BY DEF OutcomeIInv, OutcomeTyped, DecisionRows, Outcome!NoDecision
  <2>2. \A k \in Deliveries : delivery[k].status \in {None, "pending", "succeeded", "failed"}
    BY DEF OutcomeIInv, OutcomeTyped, Deliverable, Outcome!NoDelivery
  <2> QED  BY <2>1, <2>2 DEF OutcomeIInv, OutcomeTyped, MatchRows, Outcome!TypeOK
<1>2. Outcome!ClearedByReview
  <2> SUFFICES ASSUME NEW t \in Outcome!Types, clt[t] # 0
               PROVE  LET now1 == Outcome!Effective(match[delivery[clt[t]].screening], t) IN
                      /\ delivery[clt[t]].effective \in {"clear", "clear_after_review"} => now1 = delivery[clt[t]].effective
                      /\ delivery[clt[t]].effective = "confirmed_hit" => now1 = "confirmed_hit"
    BY DEF Outcome!ClearedByReview
  <2> DEFINE k == clt[t]
             row == match[delivery[k].screening]
  <2>1. k \in Deliveries /\ There(k) /\ delivery[k].type = t /\ Truthful(k)
    BY DEF OutcomeIInv, OutcomeTyped, Heard
  <2>2. delivery[k] \in Deliverable
    BY <2>1 DEF OutcomeIInv, OutcomeTyped, There
  <2>3. row \in MatchRows /\ delivery[k].effective \in Effects
    BY <2>2 DEF OutcomeIInv, OutcomeTyped, Deliverable
  <2>4. Tells(delivery[k].effective, row, t)
    BY <2>1 DEF Truthful
  <2>5. delivery[k].effective # "potential_match" => Outcome!Effective(row, t) = delivery[k].effective
    BY <2>3, <2>4, EffectiveTells
  <2> QED  BY <2>5
<1>3. Outcome!AllowedOnlyWhenCleared
  <2> SUFFICES ASSUME Outcome!Gate = "allow"
               PROVE  /\ \A n \in Screenings : screening[n] # "requested"
                      /\ \A k \in Screenings : screening[k] \in {"completed", "failed"} =>
                            (\E n \in Screenings : n > k /\ screening[n] # None) \/ Outcome!Undismissed(k) = {}
    BY DEF Outcome!AllowedOnlyWhenCleared
  <2>1. Outcome!Newest # {} /\ Outcome!Verdict(CHOOSE n \in Outcome!Newest : TRUE) = "allow"
    BY DEF Outcome!Gate
  <2>2. PICK n \in Outcome!Newest : Outcome!Verdict(n) = "allow"
    BY <2>1
  <2>3. screening[n] = "completed" /\ Outcome!Undismissed(n) = {}
    <3>1. screening[n] = "completed"
      BY <2>2 DEF Outcome!Verdict
    <3>2. Outcome!Overall(n) # "confirmed_hit"
      BY DEF Outcome!Overall
    <3> QED  BY <2>2, <3>1, <3>2 DEF Outcome!Verdict
  <2>4. n \in Screenings /\ \A k \in Screenings : screening[k] # None => k <= n
    BY DEF Outcome!Newest
  <2>5. Screenings \subseteq Nat /\ None \notin {"requested", "completed", "failed"}
    BY OutcomeAssumption
  <2>6. ASSUME NEW k \in Screenings, screening[k] = "requested" PROVE FALSE
    <3>1. n <= k /\ k <= n
      BY <2>3, <2>4, <2>5, <2>6 DEF OutcomeIInv, Ordered
    <3>2. n = k
      BY <2>4, <2>5, <3>1
    <3> QED  BY <2>3, <2>6, <3>2
  <2>7. ASSUME NEW k \in Screenings, screening[k] \in {"completed", "failed"}
        PROVE  (\E j \in Screenings : j > k /\ screening[j] # None) \/ Outcome!Undismissed(k) = {}
    <3>1. CASE k = n
      BY <2>3, <3>1
    <3>2. CASE k # n
      BY <2>3, <2>4, <2>5, <2>7, <3>2
    <3> QED  BY <3>1, <3>2
  <2> QED  BY <2>6, <2>7
<1> QED  BY <1>1, <1>2, <1>3 DEF OutcomeIInv

\* For any numbers of screenings, matches, reviewers and deliveries: a match is decided once, CLT-01
\* holds a pass or a hit only as the review said, and the gate allows only what a review cleared.
THEOREM ReviewFollowed == Outcome!Spec => []FollowsReview
<1>1. Outcome!TypeOK /\ Outcome!DecidedOnce /\ Outcome!ClearedByReview /\ Outcome!AllowedOnlyWhenCleared => FollowsReview
  BY DEF FollowsReview
<1> QED  BY <1>1, OutcomeBegins, OutcomeStep, OutcomeSound, PTL DEF Outcome!Spec

-----------------------------------------------------------------------------
(* Monitoring.  An event that is being evaluated is evaluated by one       *)
(* worker, has no dead letter yet and has not been evaluated; no           *)
(* evaluation or replay of a scope overlaps another's; and who is about to *)
(* create an alert knows that none is open.                                *)

Letters == [status : {None, "pending", "failed", "replayed", "escalated"}, rule : BOOLEAN, retries : 0..MaxRetries]
Evaluations ==
    {Monitoring!Idle} \cup
    [at : {"ingested", "waiting", "rules unread", "checking", "creating", "failed"}, event : Watched]

MonitorTyped ==
    /\ active \in BOOLEAN /\ ingested \subseteq Watched
    /\ alert \in [RuleScopes -> Seq(Monitoring!AlertStatuses)]
    /\ dead \in [Watched -> Letters]
    /\ monitorWork \in [Workers -> Evaluations]
    /\ evaluated \in [Watched -> Nat]

Evaluating(w) == monitorWork[w].at # "idle"
Holds(w) == monitorWork[w].at \in {"checking", "creating"}
ScopeOf(w) == RuleScope[monitorWork[w].event]

MonitorAlone ==
    /\ \A v, w \in Workers : v # w /\ Evaluating(v) /\ Evaluating(w) => monitorWork[v].event # monitorWork[w].event
    /\ \A v, w \in Workers : v # w /\ Holds(v) /\ Holds(w) => ScopeOf(v) # ScopeOf(w)
ToEvaluate ==
    \A w \in Workers : Evaluating(w) =>
        LET e == monitorWork[w].event IN e \in ingested /\ evaluated[e] = 0 /\ dead[e] = Monitoring!NoLetter
EvaluatedOrLeft ==
    \A e \in Watched :
        /\ evaluated[e] <= 1
        /\ e \notin ingested => evaluated[e] = 0 /\ dead[e] = Monitoring!NoLetter
        /\ dead[e] # Monitoring!NoLetter /\ dead[e].status # "replayed" => evaluated[e] = 0
NoneOpenYet == \A w \in Workers : monitorWork[w].at = "creating" => Monitoring!OpenIn(ScopeOf(w)) = {}
OneOpen == \A s \in RuleScopes : \A m, n \in Monitoring!OpenIn(s) : m = n

MonitorIInv ==
    /\ MonitorTyped /\ MonitorAlone /\ ToEvaluate /\ EvaluatedOrLeft
    /\ NoneOpenYet /\ OneOpen /\ Monitoring!CrossingSeen

LEMMA EvaluationTypes ==
    ASSUME MonitorTyped, NEW w \in Workers, Evaluating(w)
    PROVE  /\ monitorWork[w].event \in Watched /\ ScopeOf(w) \in RuleScopes
           /\ monitorWork[w] = [at |-> monitorWork[w].at, event |-> monitorWork[w].event]
           /\ monitorWork[w].at \in {"ingested", "waiting", "rules unread", "checking", "creating", "failed"}
<1>1. monitorWork[w] \in Evaluations /\ monitorWork[w] # Monitoring!Idle
  BY DEF MonitorTyped, Evaluating, Monitoring!Idle
<1>2. monitorWork[w] \in [at : {"ingested", "waiting", "rules unread", "checking", "creating", "failed"}, event : Watched]
  BY <1>1 DEF Evaluations
<1> QED  BY <1>2, MonitorAssumption DEF ScopeOf

\* One worker goes on to another point of the evaluation of its event, or rests, and what the
\* tables hold stays: no lock is taken that another holds.
LEMMA EvaluationMoves ==
    ASSUME MonitorIInv, NEW w \in Workers, Evaluating(w),
           UNCHANGED <<active, ingested, alert, dead, evaluated>>,
           NEW at \in {"waiting", "rules unread", "checking", "creating", "failed", "idle"},
           IF at = "idle" THEN Monitoring!Rest(w) ELSE Monitoring!Go(w, at),
           at \in {"checking", "creating"} => Holds(w) \/ Monitoring!Free(ScopeOf(w)),
           at = "creating" => Monitoring!OpenIn(ScopeOf(w)) = {}
    PROVE  MonitorIInv'
<1> DEFINE e == monitorWork[w].event
<1>1. /\ e \in Watched /\ ScopeOf(w) \in RuleScopes /\ monitorWork[w] = [at |-> monitorWork[w].at, event |-> e]
  BY EvaluationTypes DEF MonitorIInv
<1>2. /\ monitorWork \in [Workers -> Evaluations] /\ monitorWork' \in [Workers -> Evaluations]
      /\ \A v \in Workers \ {w} : monitorWork'[v] = monitorWork[v]
      /\ monitorWork'[w].at = at
      /\ at # "idle" => monitorWork'[w].event = e
  <2>1. monitorWork \in [Workers -> Evaluations]
    BY DEF MonitorIInv, MonitorTyped
  <2>2. CASE at = "idle"
    <3>1. Monitoring!Idle \in Evaluations /\ Monitoring!Idle.at = "idle"
      BY DEF Monitoring!Idle, Evaluations
    <3> QED  BY <2>1, <2>2, <3>1 DEF Monitoring!Rest
  <2>3. CASE at # "idle"
    <3>1. monitorWork' = [monitorWork EXCEPT ![w] = [at |-> at, event |-> e]]
      BY <1>1, <2>3 DEF Monitoring!Go
    <3>2. [at |-> at, event |-> e] \in Evaluations
      BY <1>1, <2>3 DEF Evaluations
    <3> QED  BY <2>1, <3>1, <3>2
  <2> QED  BY <2>2, <2>3
<1>3. MonitorTyped'
  BY <1>2 DEF MonitorIInv, MonitorTyped
<1>4. /\ \A v \in Workers : Evaluating(v)' => Evaluating(v) /\ (monitorWork'[v].event = monitorWork[v].event)
      /\ \A v \in Workers \ {w} : Holds(v)' => Holds(v) /\ ScopeOf(v)' = ScopeOf(v)
      /\ Holds(w)' => at \in {"checking", "creating"} /\ ScopeOf(w)' = ScopeOf(w)
  <2>1. ASSUME NEW v \in Workers \ {w}
        PROVE  monitorWork'[v] = monitorWork[v]
    BY <1>2
  <2>2. Evaluating(w)' => monitorWork'[w].event = e
    BY <1>2 DEF Evaluating
  <2>3. Holds(w)' => at \in {"checking", "creating"} /\ monitorWork'[w].event = e
    BY <1>2 DEF Holds
  <2> QED  BY <2>1, <2>2, <2>3 DEF Evaluating, Holds, ScopeOf
<1>5. MonitorAlone'
  <2>1. ASSUME NEW v \in Workers, NEW u \in Workers, v # u, Evaluating(v)', Evaluating(u)'
        PROVE  monitorWork'[v].event # monitorWork'[u].event
    BY <1>4, <2>1 DEF MonitorIInv, MonitorAlone
  <2>2. ASSUME NEW v \in Workers \ {w}, Holds(v)', Holds(w)'
        PROVE  ScopeOf(v)' # ScopeOf(w)'
    BY <1>4, <2>2, ZenonT(60) DEF MonitorIInv, MonitorAlone, Monitoring!Free, Monitoring!Now, Holds, ScopeOf
  <2>3. ASSUME NEW v \in Workers \ {w}, NEW u \in Workers \ {w}, v # u, Holds(v)', Holds(u)'
        PROVE  ScopeOf(v)' # ScopeOf(u)'
    BY <1>4, <2>3 DEF MonitorIInv, MonitorAlone
  <2> QED  BY <2>1, <2>2, <2>3 DEF MonitorAlone
<1>6. ToEvaluate'
  BY <1>4 DEF MonitorIInv, ToEvaluate
<1>7. NoneOpenYet'
  <2>1. ASSUME NEW v \in Workers, monitorWork'[v].at = "creating"
        PROVE  Monitoring!OpenIn(ScopeOf(v))' = {}
    <3>1. Monitoring!OpenIn(ScopeOf(v)) = {} /\ monitorWork'[v].event = monitorWork[v].event
      BY <1>2, <2>1 DEF MonitorIInv, NoneOpenYet, ScopeOf
    <3> QED  BY <3>1 DEF ScopeOf, Monitoring!OpenIn
  <2> QED  BY <2>1 DEF NoneOpenYet
<1>8. EvaluatedOrLeft'
  BY DEF MonitorIInv, EvaluatedOrLeft
<1>9. OneOpen'
  BY ZenonT(60) DEF MonitorIInv, OneOpen, Monitoring!OpenIn
<1>10. Monitoring!CrossingSeen'
  BY DEF MonitorIInv, Monitoring!CrossingSeen, Monitoring!InScope
<1> QED  BY <1>3, <1>5, <1>6, <1>7, <1>8, <1>9, <1>10 DEF MonitorIInv

LEMMA IngestStep ==
    ASSUME MonitorIInv, NEW w \in Workers, NEW e \in Watched, Monitoring!Ingest(w, e)
    PROVE  MonitorIInv'
<1> DEFINE task == [at |-> "ingested", event |-> e]
<1>1. /\ ~Evaluating(w) /\ e \notin ingested /\ ingested' = ingested \cup {e}
      /\ monitorWork' = [monitorWork EXCEPT ![w] = task]
      /\ UNCHANGED <<active, alert, dead, evaluated>>
  BY DEF Monitoring!Ingest, Monitoring!Now, Evaluating
<1>2. /\ monitorWork \in [Workers -> Evaluations] /\ ingested \subseteq Watched
      /\ evaluated[e] = 0 /\ dead[e] = Monitoring!NoLetter
  BY <1>1 DEF MonitorIInv, MonitorTyped, EvaluatedOrLeft
<1>3. monitorWork'[w] = task /\ \A v \in Workers \ {w} : monitorWork'[v] = monitorWork[v]
  BY <1>1, <1>2
<1>4. MonitorTyped'
  <2>1. task \in Evaluations
    BY DEF Evaluations
  <2>2. monitorWork' \in [Workers -> Evaluations]
    BY <1>1, <1>2, <2>1
  <2> QED  BY <1>1, <1>2, <2>2 DEF MonitorIInv, MonitorTyped
<1>5. \A v \in Workers : Evaluating(v) => monitorWork[v].event # e
  BY <1>1 DEF MonitorIInv, ToEvaluate
<1>6. MonitorAlone'
  BY <1>3, <1>5 DEF MonitorIInv, MonitorAlone, Evaluating, Holds, ScopeOf
<1>7. ToEvaluate'
  BY <1>1, <1>2, <1>3 DEF MonitorIInv, ToEvaluate, Evaluating
<1>8. EvaluatedOrLeft'
  BY <1>1 DEF MonitorIInv, EvaluatedOrLeft
<1>9. NoneOpenYet'
  <2>1. ASSUME NEW v \in Workers, monitorWork'[v].at = "creating"
        PROVE  Monitoring!OpenIn(ScopeOf(v))' = {}
    <3>1. Monitoring!OpenIn(ScopeOf(v)) = {} /\ monitorWork'[v] = monitorWork[v]
      BY <1>3, <2>1 DEF MonitorIInv, NoneOpenYet
    <3> QED  BY <1>1, <3>1 DEF ScopeOf, Monitoring!OpenIn
  <2> QED  BY <2>1 DEF NoneOpenYet
<1>10. OneOpen'
  BY <1>1 DEF MonitorIInv, OneOpen, Monitoring!OpenIn
<1>11. Monitoring!CrossingSeen'
  <2>1. ASSUME NEW s \in RuleScopes, (Monitoring!Cardinality(Monitoring!InScope(s)) >= Threshold)', alert'[s] = <<>>
        PROVE  (\E d \in Monitoring!InScope(s) : evaluated[d] = 0)'
    <3>1. CASE RuleScope[e] = s
      BY <1>1, <1>2, <3>1 DEF Monitoring!InScope
    <3>2. CASE RuleScope[e] # s
      <4>1. Monitoring!InScope(s)' = Monitoring!InScope(s)
        BY <1>1, <3>2 DEF Monitoring!InScope
      <4> QED  BY <1>1, <2>1, <4>1 DEF MonitorIInv, Monitoring!CrossingSeen
    <3> QED  BY <3>1, <3>2
  <2> QED  BY <2>1 DEF Monitoring!CrossingSeen
<1> QED  BY <1>4, <1>6, <1>7, <1>8, <1>9, <1>10, <1>11 DEF MonitorIInv

\* The steps of an evaluation that change no table.
LEMMA EvaluationStep ==
    ASSUME MonitorIInv, NEW w \in Workers, UNCHANGED <<alert, dead, evaluated>>,
           \/ Monitoring!FetchRules(w) \/ Monitoring!LockScope(w) \/ Monitoring!Check(w)
           \/ Monitoring!CreateAlert(w) \/ Monitoring!DeadLetter(w) \/ Monitoring!Dies(w)
    PROVE  MonitorIInv'
<1> DEFINE Goes(at) == IF at = "idle" THEN Monitoring!Rest(w) ELSE Monitoring!Go(w, at)
           Plain == {"waiting", "rules unread", "failed", "idle"}
<1>1. UNCHANGED <<active, ingested, alert, dead, evaluated>>
  BY DEF Monitoring!FetchRules, Monitoring!LockScope, Monitoring!Check, Monitoring!CreateAlert, Monitoring!DeadLetter,
         Monitoring!Dies
<1>2. CASE Evaluating(w) /\ \E at \in Plain : Goes(at)
  <2>1. PICK at \in Plain : Goes(at)
    BY <1>2
  <2> QED  BY <1>1, <1>2, <2>1, EvaluationMoves
<1>3. CASE Monitoring!Now(w) = "waiting" /\ Monitoring!Free(ScopeOf(w)) /\ Goes("checking")
  <2>1. Evaluating(w)
    BY <1>3 DEF Evaluating, Monitoring!Now
  <2> QED  BY <1>1, <1>3, <2>1, EvaluationMoves
<1>4. CASE Monitoring!Now(w) = "checking" /\ Monitoring!OpenIn(ScopeOf(w)) = {} /\ Goes("creating")
  <2>1. Evaluating(w) /\ Holds(w)
    BY <1>4 DEF Evaluating, Holds, Monitoring!Now
  <2> QED  BY <1>1, <1>4, <2>1, EvaluationMoves
<1>5. \/ Evaluating(w) /\ \E at \in Plain : Goes(at)
      \/ Monitoring!Now(w) = "waiting" /\ Monitoring!Free(ScopeOf(w)) /\ Goes("checking")
      \/ Monitoring!Now(w) = "checking" /\ Monitoring!OpenIn(ScopeOf(w)) = {} /\ Goes("creating")
  <2>1. CASE Monitoring!FetchRules(w)
    BY <2>1 DEF Monitoring!FetchRules, Evaluating, Monitoring!Now
  <2>2. CASE Monitoring!LockScope(w)
    BY <2>2 DEF Monitoring!LockScope, Evaluating, Monitoring!Now, ScopeOf
  <2>3. CASE Monitoring!Check(w)
    BY <2>3 DEF Monitoring!Check, Evaluating, Monitoring!Now, ScopeOf, Monitoring!Due
  <2>4. CASE Monitoring!CreateAlert(w)
    BY <2>4 DEF Monitoring!CreateAlert, Evaluating, Monitoring!Now
  <2>5. CASE Monitoring!DeadLetter(w) \/ Monitoring!Dies(w)
    BY <2>5 DEF Monitoring!DeadLetter, Monitoring!Dies, Evaluating, Monitoring!Now
  <2> QED  BY <2>1, <2>2, <2>3, <2>4, <2>5
<1> QED  BY <1>2, <1>3, <1>4, <1>5

\* Of an alert appended where none was open, the open ones are the new one.
LEMMA AlertRaised ==
    ASSUME MonitorTyped, NEW s \in RuleScopes, Monitoring!OpenIn(s) = {}, alert'[s] = Append(alert[s], "open")
    PROVE  /\ alert'[s] \in Seq(Monitoring!AlertStatuses) /\ alert'[s] # <<>>
           /\ \A m, n \in Monitoring!OpenIn(s)' : m = n
<1>1. alert[s] \in Seq(Monitoring!AlertStatuses) /\ "open" \in Monitoring!AlertStatuses
  BY DEF MonitorTyped, Monitoring!AlertStatuses
<1>2. /\ alert'[s] \in Seq(Monitoring!AlertStatuses) /\ Len(alert'[s]) = Len(alert[s]) + 1 /\ Len(alert[s]) \in Nat
      /\ \A n \in 1..Len(alert[s]) : alert'[s][n] = alert[s][n]
  BY <1>1, AppendProperties, LenProperties
<1>3. \A n \in Monitoring!OpenIn(s)' : n = Len(alert[s]) + 1
  BY <1>2 DEF Monitoring!OpenIn
<1>4. Append(alert[s], "open") # <<>>
  BY <1>1, AppendProperties
<1>5. alert'[s] # <<>>
  BY <1>4
<1>6. ASSUME NEW m \in Monitoring!OpenIn(s)', NEW n \in Monitoring!OpenIn(s)'
      PROVE  m = n
  BY <1>3
<1> QED  BY <1>2, <1>5, <1>6

\* The worker's evaluation of its event is kept and the worker rests: every scope but its own,
\* and every event but its own, is as it was.
LEMMA EvaluationKept ==
    ASSUME MonitorIInv, NEW w \in Workers, Holds(w), Monitoring!Rest(w), Monitoring!Evaluated(monitorWork[w].event),
           UNCHANGED <<active, ingested, dead>>,
           alert' \in [RuleScopes -> Seq(Monitoring!AlertStatuses)],
           NEW own \in RuleScopes, own = ScopeOf(w), \A s \in RuleScopes \ {own} : alert'[s] = alert[s],
           \A m, n \in Monitoring!OpenIn(own)' : m = n,
           Monitoring!Cardinality(Monitoring!InScope(own)) >= Threshold => alert'[own] # <<>>
    PROVE  MonitorIInv'
<1> DEFINE e == monitorWork[w].event
<1>1. /\ e \in Watched /\ ScopeOf(w) \in RuleScopes /\ Evaluating(w)
  BY EvaluationTypes DEF MonitorIInv, Holds, Evaluating
<1>2. /\ monitorWork \in [Workers -> Evaluations] /\ evaluated \in [Watched -> Nat]
      /\ monitorWork' = [monitorWork EXCEPT ![w] = Monitoring!Idle]
      /\ evaluated' = [evaluated EXCEPT ![e] = @ + 1]
  BY DEF MonitorIInv, MonitorTyped, Monitoring!Rest, Monitoring!Evaluated
<1>3. /\ e \in ingested /\ evaluated[e] = 0 /\ dead[e] = Monitoring!NoLetter
  BY <1>1 DEF MonitorIInv, ToEvaluate
<1>4. /\ monitorWork' \in [Workers -> Evaluations] /\ evaluated' \in [Watched -> Nat]
      /\ evaluated'[e] = 1 /\ \A d \in Watched \ {e} : evaluated'[d] = evaluated[d]
      /\ monitorWork'[w].at = "idle" /\ \A v \in Workers \ {w} : monitorWork'[v] = monitorWork[v]
  <2>1. Monitoring!Idle \in Evaluations /\ Monitoring!Idle.at = "idle"
    BY DEF Monitoring!Idle, Evaluations
  <2> QED  BY <1>1, <1>2, <1>3, <2>1
<1>5. MonitorTyped'
  BY <1>4 DEF MonitorIInv, MonitorTyped
<1>6. MonitorAlone'
  <2>1. \A v \in Workers : (Evaluating(v)' \/ Holds(v)') => v # w
    BY <1>4 DEF Evaluating, Holds
  <2>2. \A v \in Workers \ {w} : /\ Evaluating(v)' = Evaluating(v) /\ Holds(v)' = Holds(v)
                                /\ monitorWork'[v] = monitorWork[v] /\ ScopeOf(v)' = ScopeOf(v)
    BY <1>4 DEF Evaluating, Holds, ScopeOf
  <2> QED  BY <2>1, <2>2 DEF MonitorIInv, MonitorAlone
<1>7. ToEvaluate'
  <2>1. ASSUME NEW v \in Workers, Evaluating(v)'
        PROVE  (monitorWork[v].event \in ingested /\ evaluated[monitorWork[v].event] = 0
                /\ dead[monitorWork[v].event] = Monitoring!NoLetter)'
    <3>1. v # w /\ monitorWork'[v] = monitorWork[v] /\ Evaluating(v)
      BY <1>4, <2>1 DEF Evaluating
    <3>2. monitorWork[v].event # e /\ monitorWork[v].event \in Watched
      BY <1>1, <3>1, EvaluationTypes DEF MonitorIInv, MonitorAlone
    <3> QED  BY <1>4, <3>1, <3>2 DEF MonitorIInv, ToEvaluate
  <2> QED  BY <2>1 DEF ToEvaluate
<1>8. EvaluatedOrLeft'
  BY <1>3, <1>4, SMTT(30) DEF MonitorIInv, EvaluatedOrLeft
<1>9. NoneOpenYet'
  <2>1. ASSUME NEW v \in Workers, monitorWork'[v].at = "creating"
        PROVE  Monitoring!OpenIn(ScopeOf(v))' = {}
    <3>1. v # w /\ monitorWork'[v] = monitorWork[v] /\ Holds(v) /\ Evaluating(v)
      BY <1>4, <2>1 DEF Holds, Evaluating
    <3>2. ScopeOf(v) # ScopeOf(w) /\ ScopeOf(v) \in RuleScopes /\ Monitoring!OpenIn(ScopeOf(v)) = {}
      BY <2>1, <3>1, EvaluationTypes DEF MonitorIInv, MonitorAlone, NoneOpenYet
    <3> QED  BY <3>1, <3>2 DEF ScopeOf, Monitoring!OpenIn
  <2> QED  BY <2>1 DEF NoneOpenYet
<1>10. OneOpen'
  <2>1. ASSUME NEW s \in RuleScopes \ {own}
        PROVE  Monitoring!OpenIn(s)' = Monitoring!OpenIn(s)
    BY DEF Monitoring!OpenIn
  <2> QED  BY <1>1, <2>1 DEF MonitorIInv, OneOpen
<1>11. Monitoring!CrossingSeen'
  <2>1. ASSUME NEW s \in RuleScopes, (Monitoring!Cardinality(Monitoring!InScope(s)) >= Threshold)', alert'[s] = <<>>
        PROVE  (\E d \in Monitoring!InScope(s) : evaluated[d] = 0)'
    <3>1. Monitoring!InScope(s)' = Monitoring!InScope(s)
      BY DEF Monitoring!InScope
    <3>2. s # ScopeOf(w) /\ alert[s] = <<>>
      BY <2>1, <3>1
    <3>3. PICK d \in Monitoring!InScope(s) : evaluated[d] = 0
      BY <2>1, <3>1, <3>2 DEF MonitorIInv, Monitoring!CrossingSeen
    <3>4. d # e /\ d \in Watched
      BY <3>2, <3>3 DEF ScopeOf, Monitoring!InScope, MonitorIInv, MonitorTyped
    <3> QED  BY <1>4, <3>1, <3>3, <3>4
  <2> QED  BY <2>1 DEF Monitoring!CrossingSeen
<1> QED  BY <1>5, <1>6, <1>7, <1>8, <1>9, <1>10, <1>11 DEF MonitorIInv

\* An evaluation that found nothing due, or raised its alert.
LEMMA NothingDue ==
    ASSUME MonitorIInv, NEW w \in Workers, monitorWork[w].at = "checking", ~Monitoring!Due(ScopeOf(w)),
           Monitoring!Rest(w), Monitoring!Evaluated(monitorWork[w].event), UNCHANGED <<active, ingested, alert, dead>>
    PROVE  MonitorIInv'
<1> DEFINE own == ScopeOf(w)
<1>1. Holds(w) /\ Evaluating(w)
  BY DEF Holds, Evaluating
<1>2. own \in RuleScopes /\ alert \in [RuleScopes -> Seq(Monitoring!AlertStatuses)]
  BY <1>1, EvaluationTypes DEF MonitorIInv, MonitorTyped
<1>3. Monitoring!Cardinality(Monitoring!InScope(own)) >= Threshold => alert[own] # <<>>
  <2>1. Len(<<>>) = 0
    OBVIOUS
  <2>2. alert[own] = <<>> => Monitoring!OpenIn(own) = {}
    BY <2>1 DEF Monitoring!OpenIn
  <2> QED  BY <2>2 DEF Monitoring!Due
<1>4. \A m, n \in Monitoring!OpenIn(own) : m = n
  BY <1>2 DEF MonitorIInv, OneOpen
<1> HIDE DEF own
<1>5. PICK s \in RuleScopes : s = ScopeOf(w) /\ s = own
  BY <1>2 DEF own
<1>6. \A m, n \in Monitoring!OpenIn(s)' : m = n
  BY <1>4, <1>5 DEF Monitoring!OpenIn
<1> QED  BY <1>1, <1>2, <1>3, <1>5, <1>6, EvaluationKept

LEMMA AlertStep ==
    ASSUME MonitorIInv, NEW w \in Workers, monitorWork[w].at = "creating",
           alert' = [alert EXCEPT ![ScopeOf(w)] = Append(@, "open")],
           Monitoring!Rest(w), Monitoring!Evaluated(monitorWork[w].event), UNCHANGED <<active, ingested, dead>>
    PROVE  MonitorIInv'
<1>1. Holds(w) /\ Evaluating(w)
  BY DEF Holds, Evaluating
<1>2. PICK s \in RuleScopes : s = ScopeOf(w)
  BY <1>1, EvaluationTypes DEF MonitorIInv
<1>3. Monitoring!OpenIn(s) = {} /\ alert \in [RuleScopes -> Seq(Monitoring!AlertStatuses)] /\ MonitorTyped
  BY <1>2 DEF MonitorIInv, NoneOpenYet, MonitorTyped
<1>4. alert'[s] = Append(alert[s], "open") /\ \A r \in RuleScopes \ {s} : alert'[r] = alert[r]
  BY <1>2, <1>3
<1>5. /\ alert'[s] \in Seq(Monitoring!AlertStatuses) /\ alert'[s] # <<>>
      /\ \A m, n \in Monitoring!OpenIn(s)' : m = n
  BY <1>3, <1>4, AlertRaised
<1>6. alert' \in [RuleScopes -> Seq(Monitoring!AlertStatuses)]
  BY <1>2, <1>3, <1>5
<1> QED  BY <1>1, <1>2, <1>4, <1>5, <1>6, EvaluationKept

LEMMA LetterStep ==
    ASSUME MonitorIInv, NEW w \in Workers, Monitoring!DeadLetter(w)
    PROVE  MonitorIInv'
<1> DEFINE e == monitorWork[w].event
           written == [status |-> "pending", rule |-> Monitoring!Now(w) = "failed", retries |-> 0]
<1>1. CASE UNCHANGED dead
  BY <1>1, EvaluationStep DEF Monitoring!DeadLetter
<1>2. CASE dead' = [dead EXCEPT ![e] = written]
  <2>1. /\ Evaluating(w) /\ Monitoring!Rest(w) /\ UNCHANGED <<active, ingested, alert, evaluated>>
    BY DEF Monitoring!DeadLetter, Monitoring!Now, Evaluating
  <2>2. /\ e \in Watched /\ e \in ingested /\ evaluated[e] = 0
    BY <2>1, EvaluationTypes DEF MonitorIInv, ToEvaluate
  <2>3. /\ written \in Letters /\ written # Monitoring!NoLetter /\ written.status = "pending"
    <3>1. PICK b \in BOOLEAN : b <=> (Monitoring!Now(w) = "failed")
      OBVIOUS
    <3>2. written = [status |-> "pending", rule |-> b, retries |-> 0]
      BY <3>1
    <3>3. [status |-> "pending", rule |-> b, retries |-> 0] \in Letters
      BY MonitorAssumption DEF Letters
    <3> QED  BY <3>2, <3>3, MonitorAssumption DEF Monitoring!NoLetter
  <2> HIDE DEF written
  <2>4. /\ monitorWork \in [Workers -> Evaluations] /\ dead \in [Watched -> Letters]
        /\ monitorWork' = [monitorWork EXCEPT ![w] = Monitoring!Idle]
    BY <2>1 DEF MonitorIInv, MonitorTyped, Monitoring!Rest
  <2>5. /\ monitorWork' \in [Workers -> Evaluations] /\ dead' \in [Watched -> Letters]
        /\ dead'[e] = written /\ \A d \in Watched \ {e} : dead'[d] = dead[d]
        /\ monitorWork'[w].at = "idle" /\ \A v \in Workers \ {w} : monitorWork'[v] = monitorWork[v]
    <3>1. Monitoring!Idle \in Evaluations /\ Monitoring!Idle.at = "idle"
      BY DEF Monitoring!Idle, Evaluations
    <3> QED  BY <1>2, <2>2, <2>3, <2>4, <3>1
  <2>6. MonitorTyped'
    BY <2>1, <2>5 DEF MonitorIInv, MonitorTyped
  <2>7. /\ \A v \in Workers : (Evaluating(v)' \/ Holds(v)') => v # w
        /\ \A v \in Workers \ {w} : /\ Evaluating(v)' = Evaluating(v) /\ Holds(v)' = Holds(v)
                                    /\ monitorWork'[v] = monitorWork[v] /\ ScopeOf(v)' = ScopeOf(v)
    BY <2>5 DEF Evaluating, Holds, ScopeOf
  <2>8. MonitorAlone'
    BY <2>7 DEF MonitorIInv, MonitorAlone
  <2>9. ToEvaluate'
    <3>1. ASSUME NEW v \in Workers, Evaluating(v)'
          PROVE  (monitorWork[v].event \in ingested /\ evaluated[monitorWork[v].event] = 0
                  /\ dead[monitorWork[v].event] = Monitoring!NoLetter)'
      <4>1. v # w /\ monitorWork'[v] = monitorWork[v] /\ Evaluating(v)
        BY <2>7, <3>1
      <4>2. monitorWork[v].event # e /\ monitorWork[v].event \in Watched
        BY <2>1, <4>1, EvaluationTypes DEF MonitorIInv, MonitorAlone
      <4>3. dead'[monitorWork[v].event] = dead[monitorWork[v].event]
        BY <2>5, <4>2
      <4> QED  BY <2>1, <4>1, <4>3 DEF MonitorIInv, ToEvaluate
    <3> QED  BY <3>1 DEF ToEvaluate
  <2>10. EvaluatedOrLeft'
    BY <2>1, <2>2, <2>5 DEF MonitorIInv, EvaluatedOrLeft
  <2>11. NoneOpenYet'
    <3>1. ASSUME NEW v \in Workers, monitorWork'[v].at = "creating"
          PROVE  Monitoring!OpenIn(ScopeOf(v))' = {}
      <4>1. monitorWork'[v] = monitorWork[v] /\ Monitoring!OpenIn(ScopeOf(v)) = {}
        BY <2>5, <3>1 DEF MonitorIInv, NoneOpenYet
      <4> QED  BY <2>1, <4>1 DEF ScopeOf, Monitoring!OpenIn
    <3> QED  BY <3>1 DEF NoneOpenYet
  <2>12. OneOpen'
    BY <2>1 DEF MonitorIInv, OneOpen, Monitoring!OpenIn
  <2>13. Monitoring!CrossingSeen'
    BY <2>1 DEF MonitorIInv, Monitoring!CrossingSeen, Monitoring!InScope
  <2> QED  BY <2>6, <2>8, <2>9, <2>10, <2>11, <2>12, <2>13 DEF MonitorIInv
<1> QED  BY <1>1, <1>2 DEF Monitoring!DeadLetter

\* Alerts are moved, and nothing else: none is opened.
LEMMA AlertsMove ==
    ASSUME MonitorIInv, UNCHANGED <<ingested, dead, monitorWork, evaluated>>, active' \in BOOLEAN,
           alert' \in [RuleScopes -> Seq(Monitoring!AlertStatuses)],
           \A s \in RuleScopes : alert'[s] = <<>> => alert[s] = <<>>,
           \A s \in RuleScopes : Monitoring!OpenIn(s)' \subseteq Monitoring!OpenIn(s)
    PROVE  MonitorIInv'
<1>1. MonitorTyped' /\ MonitorAlone' /\ ToEvaluate' /\ EvaluatedOrLeft'
  BY DEF MonitorIInv, MonitorTyped, MonitorAlone, ToEvaluate, EvaluatedOrLeft, Evaluating, Holds, ScopeOf
<1>2. NoneOpenYet'
  <2>1. ASSUME NEW v \in Workers, monitorWork'[v].at = "creating"
        PROVE  Monitoring!OpenIn(ScopeOf(v))' = {}
    <3>1. Evaluating(v) /\ monitorWork'[v] = monitorWork[v] /\ monitorWork[v].at = "creating"
      BY <2>1 DEF Evaluating
    <3>2. PICK s \in RuleScopes : s = ScopeOf(v)
      BY <3>1, EvaluationTypes DEF MonitorIInv
    <3>3. Monitoring!OpenIn(s) = {} /\ s = ScopeOf(v)'
      BY <3>1, <3>2 DEF MonitorIInv, NoneOpenYet, ScopeOf
    <3>4. Monitoring!OpenIn(s)' = {}
      BY <3>3
    <3> QED  BY <3>3, <3>4 DEF Monitoring!OpenIn
  <2> QED  BY <2>1 DEF NoneOpenYet
<1>3. OneOpen'
  BY DEF MonitorIInv, OneOpen
<1>4. Monitoring!CrossingSeen'
  BY DEF MonitorIInv, Monitoring!CrossingSeen, Monitoring!InScope
<1> QED  BY <1>1, <1>2, <1>3, <1>4 DEF MonitorIInv

LEMMA MoveStep ==
    ASSUME MonitorIInv, NEW s \in RuleScopes, NEW n \in 1..Len(alert[s]),
           Monitoring!Assign(s, n) \/ Monitoring!Triage(s, n) \/ Monitoring!Close(s, n)
    PROVE  MonitorIInv'
<1>1. PICK to \in Monitoring!AlertStatuses :
        /\ alert[s][n] # "closed" /\ alert' = [alert EXCEPT ![s][n] = to]
        /\ UNCHANGED <<active, ingested, dead, monitorWork, evaluated>>
  BY DEF Monitoring!Assign, Monitoring!Triage, Monitoring!Close, Monitoring!Move, Monitoring!AlertStatuses
<1>2. alert \in [RuleScopes -> Seq(Monitoring!AlertStatuses)] /\ active \in BOOLEAN
  BY DEF MonitorIInv, MonitorTyped
<1>3. alert[s] \in Seq(Monitoring!AlertStatuses) /\ Len(alert[s]) \in Nat
  BY <1>2, LenProperties
<1> DEFINE moved == [alert[s] EXCEPT ![n] = to]
<1>4. /\ moved \in Seq(Monitoring!AlertStatuses) /\ Len(moved) = Len(alert[s])
      /\ \A i \in 1..Len(alert[s]) : i # n => moved[i] = alert[s][i]
  BY <1>3, ExceptSeq
<1>5. alert'[s] = moved /\ \A r \in RuleScopes \ {s} : alert'[r] = alert[r]
  BY <1>1, <1>2
<1>6. alert' \in [RuleScopes -> Seq(Monitoring!AlertStatuses)]
  <2>1. alert' = [alert EXCEPT ![s] = moved]
    BY <1>1
  <2> HIDE DEF moved
  <2> QED  BY <1>2, <1>4, <2>1
<1> HIDE DEF moved
<1>7. moved # <<>>
  <2>1. Len(<<>>) = 0
    OBVIOUS
  <2> QED  BY <1>3, <1>4, <2>1
<1>8. \A r \in RuleScopes : alert'[r] = <<>> => alert[r] = <<>>
  BY <1>5, <1>7
<1>9. \A r \in RuleScopes : Monitoring!OpenIn(r)' \subseteq Monitoring!OpenIn(r)
  <2>1. ASSUME NEW r \in RuleScopes \ {s}
        PROVE  Monitoring!OpenIn(r)' = Monitoring!OpenIn(r)
    BY <1>5 DEF Monitoring!OpenIn
  <2>2. Monitoring!OpenIn(s)' \subseteq Monitoring!OpenIn(s)
    BY <1>1, <1>3, <1>4, <1>5 DEF Monitoring!OpenIn
  <2> QED  BY <2>1, <2>2
<1> QED  BY <1>1, <1>2, <1>6, <1>8, <1>9, AlertsMove

LEMMA ToggleStep ==
    ASSUME MonitorIInv, Monitoring!Toggle \/ \E D \in Monitoring!Calls : \E e \in D : Monitoring!ReplayFails(D, e)
    PROVE  MonitorIInv'
<1>1. /\ UNCHANGED <<ingested, alert, dead, monitorWork, evaluated>>
      /\ active' = active \/ active' = ~active
  BY DEF Monitoring!Toggle, Monitoring!ReplayFails
<1>2. active' \in BOOLEAN
  BY <1>1 DEF MonitorIInv, MonitorTyped
<1>3. alert' \in [RuleScopes -> Seq(Monitoring!AlertStatuses)]
  BY <1>1 DEF MonitorIInv, MonitorTyped
<1>4. \A s \in RuleScopes : Monitoring!OpenIn(s)' \subseteq Monitoring!OpenIn(s)
  BY <1>1 DEF Monitoring!OpenIn
<1> QED  BY <1>1, <1>2, <1>3, <1>4, AlertsMove

LEMMA ReplayStep ==
    ASSUME MonitorIInv, NEW D \in Monitoring!Calls, Monitoring!Replay(D)
    PROVE  MonitorIInv'
<1> DEFINE todo == D \ Monitoring!Untouched(D)
           done == {e \in todo : Monitoring!Replayable(e)}
           scopes == {RuleScope[e] : e \in done}
<1>1. /\ \A s \in scopes : Monitoring!Free(s)
      /\ \A e \in todo \ done : dead[e].retries < MaxRetries
      /\ alert' = [s \in RuleScopes |-> IF s \in scopes /\ Monitoring!Due(s) THEN Append(alert[s], "open") ELSE alert[s]]
      /\ dead' = [e \in Watched |-> CASE e \in done -> [dead[e] EXCEPT !.status = "replayed"]
                                      [] e \in todo \ done -> Monitoring!Failed(dead[e])
                                      [] OTHER -> dead[e]]
      /\ evaluated' = [e \in Watched |-> evaluated[e] + IF e \in done THEN 1 ELSE 0]
      /\ UNCHANGED <<active, ingested, monitorWork>>
  BY DEF Monitoring!Replay
<1>2. /\ dead \in [Watched -> Letters] /\ evaluated \in [Watched -> Nat] /\ MonitorTyped
      /\ alert \in [RuleScopes -> Seq(Monitoring!AlertStatuses)]
  BY DEF MonitorIInv, MonitorTyped
<1>3. D \subseteq Watched /\ \A e \in D : dead[e] # Monitoring!NoLetter
  <2>1. \A e \in Watched : dead[e].status \in {"pending", "failed"} => dead[e] # Monitoring!NoLetter
    BY MonitorAssumption DEF Monitoring!NoLetter
  <2> QED  BY <2>1 DEF Monitoring!Calls
<1>4. /\ todo \subseteq D /\ done \subseteq todo
      /\ \A e \in todo : dead[e].status # "replayed"
  BY DEF Monitoring!Untouched
<1>5. /\ scopes \subseteq RuleScopes /\ \A e \in done : RuleScope[e] \in scopes
  BY <1>3, <1>4, MonitorAssumption
<1> HIDE DEF todo, done, scopes
<1>6. \A e \in todo : e \in Watched /\ e \in ingested /\ evaluated[e] = 0 /\ dead[e] # Monitoring!NoLetter
  BY <1>3, <1>4 DEF MonitorIInv, EvaluatedOrLeft
<1>7. ASSUME NEW e \in done
      PROVE  /\ dead'[e] \in Letters /\ dead'[e].status = "replayed" /\ dead'[e] # Monitoring!NoLetter
             /\ evaluated'[e] = 1
  <2>1. dead'[e] = [dead[e] EXCEPT !.status = "replayed"] /\ dead[e] \in Letters /\ evaluated'[e] = 1
    BY <1>1, <1>2, <1>4, <1>6, SMTT(30)
  <2>2. dead'[e] \in Letters /\ dead'[e].status = "replayed"
    BY <2>1 DEF Letters
  <2> QED  BY <2>1, <2>2, MonitorAssumption DEF Monitoring!NoLetter
<1>8. ASSUME NEW e \in todo \ done
      PROVE  /\ dead'[e] \in Letters /\ dead'[e].status # "replayed" /\ dead'[e] # Monitoring!NoLetter
             /\ evaluated'[e] = evaluated[e]
  <2> DEFINE letter1 == dead[e]
  <2>1. dead'[e] = Monitoring!Failed(letter1) /\ letter1 \in Letters /\ evaluated'[e] = evaluated[e]
        /\ letter1.retries < MaxRetries
    BY <1>1, <1>2, <1>4, <1>6
  <2> HIDE DEF letter1
  <2>2. Monitoring!Failed(letter1) =
          [status |-> IF letter1.retries + 1 >= MaxRetries THEN "escalated" ELSE "failed", rule |-> letter1.rule,
           retries |-> letter1.retries + 1]
    BY <2>1 DEF Monitoring!Failed, Letters
  <2>3. letter1.retries + 1 \in 0..MaxRetries /\ letter1.rule \in BOOLEAN
    BY <2>1, MonitorAssumption DEF Letters
  <2>4. dead'[e] \in Letters /\ dead'[e].status \in {"escalated", "failed"}
    BY <2>1, <2>2, <2>3 DEF Letters
  <2> QED  BY <2>1, <2>4, MonitorAssumption DEF Monitoring!NoLetter
<1>9. ASSUME NEW e \in Watched \ todo
      PROVE  dead'[e] = dead[e] /\ evaluated'[e] = evaluated[e]
  BY <1>1, <1>2, <1>4
<1>10. MonitorTyped'
  <2>1. ASSUME NEW s \in RuleScopes
        PROVE  alert'[s] \in Seq(Monitoring!AlertStatuses)
    <3>1. alert[s] \in Seq(Monitoring!AlertStatuses) /\ "open" \in Monitoring!AlertStatuses
      BY <1>2 DEF Monitoring!AlertStatuses
    <3>2. alert'[s] \in {Append(alert[s], "open"), alert[s]}
      BY <1>1
    <3>3. CASE alert'[s] = Append(alert[s], "open")
      BY ONLY <3>1, <3>3, AppendProperties
    <3>4. CASE alert'[s] = alert[s]
      BY ONLY <3>1, <3>4
    <3> QED  BY <3>2, <3>3, <3>4
  <2>2. \A e \in Watched : dead'[e] \in Letters /\ evaluated'[e] \in Nat
    BY <1>2, <1>6, <1>7, <1>8, <1>9
  <2>3. alert' \in [RuleScopes -> Seq(Monitoring!AlertStatuses)]
    BY <1>1, <2>1
  <2>4. dead' \in [Watched -> Letters] /\ evaluated' \in [Watched -> Nat]
    BY <1>1, <2>2
  <2> QED  BY <1>1, <1>2, <2>3, <2>4 DEF MonitorTyped
<1>11. MonitorAlone'
  BY <1>1 DEF MonitorIInv, MonitorAlone, Evaluating, Holds, ScopeOf
<1>12. ToEvaluate'
  <2>1. ASSUME NEW v \in Workers, Evaluating(v)
        PROVE  LET e == monitorWork[v].event
               IN  e \in ingested /\ evaluated'[e] = 0 /\ dead'[e] = Monitoring!NoLetter
    <3>1. /\ monitorWork[v].event \in Watched \ todo /\ monitorWork[v].event \in ingested
          /\ evaluated[monitorWork[v].event] = 0 /\ dead[monitorWork[v].event] = Monitoring!NoLetter
      BY <1>2, <1>6, <2>1, EvaluationTypes DEF MonitorIInv, ToEvaluate
    <3> QED  BY <1>9, <3>1
  <2> QED  BY <1>1, <2>1 DEF ToEvaluate, Evaluating
<1>13. EvaluatedOrLeft'
  <2>1. ASSUME NEW e \in Watched
        PROVE  /\ evaluated'[e] <= 1
               /\ e \notin ingested => evaluated'[e] = 0 /\ dead'[e] = Monitoring!NoLetter
               /\ dead'[e] # Monitoring!NoLetter /\ dead'[e].status # "replayed" => evaluated'[e] = 0
    <3>1. CASE e \in done
      BY <1>4, <1>6, <1>7, <3>1
    <3>2. CASE e \in todo \ done
      BY <1>6, <1>8, <3>2
    <3>3. CASE e \notin todo
      BY <1>9, <3>3 DEF MonitorIInv, EvaluatedOrLeft
    <3> QED  BY <3>1, <3>2, <3>3
  <2> QED  BY <1>1, <2>1 DEF EvaluatedOrLeft
<1>14. ASSUME NEW s \in RuleScopes, ~(s \in scopes /\ Monitoring!Due(s))
       PROVE  alert'[s] = alert[s] /\ Monitoring!OpenIn(s)' = Monitoring!OpenIn(s)
  BY <1>1, <1>14 DEF Monitoring!OpenIn
<1>15. ASSUME NEW s \in scopes, Monitoring!Due(s)
       PROVE  alert'[s] # <<>> /\ \A m, n \in Monitoring!OpenIn(s)' : m = n
  <2>1. s \in RuleScopes /\ alert'[s] = Append(alert[s], "open") /\ Monitoring!OpenIn(s) = {}
    BY <1>1, <1>5, <1>15 DEF Monitoring!Due
  <2> QED  BY <1>2, <2>1, AlertRaised
<1>16. NoneOpenYet'
  <2>1. ASSUME NEW v \in Workers, monitorWork[v].at = "creating"
        PROVE  Monitoring!OpenIn(ScopeOf(v))' = {}
    <3>1. Evaluating(v) /\ monitorWork'[v] = monitorWork[v] /\ Holds(v)
      BY <1>1, <2>1 DEF Evaluating, Holds
    <3>2. PICK s \in RuleScopes : s = ScopeOf(v)
      BY <1>2, <3>1, EvaluationTypes
    <3>3. Monitoring!OpenIn(s) = {} /\ s = ScopeOf(v)'
      BY <2>1, <3>1, <3>2 DEF MonitorIInv, NoneOpenYet, ScopeOf
    <3>4. s \notin scopes
      BY <1>1, <2>1, <3>2 DEF Monitoring!Free, Monitoring!Now, ScopeOf
    <3>5. Monitoring!OpenIn(s)' = {}
      BY <1>14, <3>3, <3>4
    <3> QED  BY <3>3, <3>5 DEF Monitoring!OpenIn
  <2> QED  BY <1>1, <2>1 DEF NoneOpenYet
<1>17. OneOpen'
  BY <1>14, <1>15 DEF MonitorIInv, OneOpen
<1>18. Monitoring!CrossingSeen'
  <2>1. ASSUME NEW s \in RuleScopes, (Monitoring!Cardinality(Monitoring!InScope(s)) >= Threshold)', alert'[s] = <<>>
        PROVE  (\E d \in Monitoring!InScope(s) : evaluated[d] = 0)'
    <3>1. Monitoring!InScope(s)' = Monitoring!InScope(s)
      BY <1>1 DEF Monitoring!InScope
    <3>2. ~(s \in scopes /\ Monitoring!Due(s)) /\ alert[s] = <<>>
      BY <1>14, <1>15, <2>1
    <3>3. Monitoring!Due(s)
      <4>1. Len(<<>>) = 0
        OBVIOUS
      <4>2. Monitoring!OpenIn(s) = {}
        BY <3>2, <4>1 DEF Monitoring!OpenIn
      <4> QED  BY <2>1, <3>1, <4>2 DEF Monitoring!Due
    <3>4. PICK d \in Monitoring!InScope(s) : evaluated[d] = 0
      BY <2>1, <3>1, <3>2 DEF MonitorIInv, Monitoring!CrossingSeen
    <3>5. d \in Watched /\ RuleScope[d] = s /\ d \notin done
      BY <1>2, <1>5, <3>2, <3>3, <3>4 DEF Monitoring!InScope, MonitorTyped
    <3>6. evaluated'[d] = 0
      BY <1>8, <1>9, <3>4, <3>5
    <3> QED  BY <3>1, <3>4, <3>6
  <2> QED  BY <2>1 DEF Monitoring!CrossingSeen
<1> QED  BY <1>10, <1>11, <1>12, <1>13, <1>16, <1>17, <1>18 DEF MonitorIInv

LEMMA MonitorBegins == Monitoring!Init => MonitorIInv
<1> SUFFICES ASSUME Monitoring!Init PROVE MonitorIInv
  OBVIOUS
<1>1. MonitorTyped
  <2>1. Monitoring!NoLetter \in Letters /\ Monitoring!Idle \in Evaluations /\ <<>> \in Seq(Monitoring!AlertStatuses)
    <3>1. 0 \in 0..MaxRetries
      BY MonitorAssumption
    <3>2. Monitoring!NoLetter \in Letters
      BY <3>1 DEF Monitoring!NoLetter, Letters
    <3> QED  BY <3>2 DEF Evaluations
  <2> QED  BY <2>1 DEF Monitoring!Init, MonitorTyped
<1>2. \A w \in Workers : monitorWork[w].at = "idle"
  BY DEF Monitoring!Init, Monitoring!Idle
<1>3. MonitorAlone /\ ToEvaluate /\ NoneOpenYet
  BY <1>2 DEF MonitorAlone, ToEvaluate, NoneOpenYet, Evaluating, Holds
<1>4. EvaluatedOrLeft
  BY DEF Monitoring!Init, EvaluatedOrLeft
<1>5. OneOpen
  <2>1. Len(<<>>) = 0
    OBVIOUS
  <2> QED  BY <2>1 DEF Monitoring!Init, OneOpen, Monitoring!OpenIn
<1>6. Monitoring!CrossingSeen
  <2>1. \A s \in RuleScopes : Monitoring!InScope(s) = {}
    BY DEF Monitoring!Init, Monitoring!InScope
  <2>2. ~(Monitoring!Cardinality({}) >= Threshold)
    <3>1. Monitoring!Cardinality({}) = 0
      BY FS_EmptySet DEF Cardinality, IsFiniteSet, Monitoring!Cardinality, Monitoring!IsFiniteSet
    <3> QED  BY <3>1, MonitorAssumption
  <2> QED  BY <2>1, <2>2 DEF Monitoring!CrossingSeen
<1> QED  BY <1>1, <1>3, <1>4, <1>5, <1>6 DEF MonitorIInv

LEMMA MonitorStep == MonitorIInv /\ [Monitoring!Next]_Monitoring!vars => MonitorIInv'
<1> SUFFICES ASSUME MonitorIInv, [Monitoring!Next]_Monitoring!vars PROVE MonitorIInv'
  OBVIOUS
<1>1. CASE UNCHANGED Monitoring!vars
  BY <1>1 DEF Monitoring!vars, MonitorIInv, MonitorTyped, MonitorAlone, ToEvaluate, EvaluatedOrLeft, NoneOpenYet, OneOpen,
              Evaluating, Holds, ScopeOf, Monitoring!OpenIn, Monitoring!CrossingSeen, Monitoring!InScope
<1>2. CASE \E w \in Workers : \E e \in Watched : Monitoring!Ingest(w, e)
  BY <1>2, IngestStep
<1>3. CASE \E w \in Workers : Monitoring!FetchRules(w) \/ Monitoring!LockScope(w) \/ Monitoring!Dies(w)
  <2>1. PICK w \in Workers : Monitoring!FetchRules(w) \/ Monitoring!LockScope(w) \/ Monitoring!Dies(w)
    BY <1>3
  <2>2. UNCHANGED <<alert, dead, evaluated>>
    BY <2>1 DEF Monitoring!FetchRules, Monitoring!LockScope, Monitoring!Dies
  <2> QED  BY <2>1, <2>2, EvaluationStep
<1>4. CASE \E w \in Workers : Monitoring!Check(w)
  <2>1. PICK w \in Workers : Monitoring!Check(w)
    BY <1>4
  <2>2. CASE UNCHANGED evaluated
    <3>1. UNCHANGED <<alert, dead, evaluated>>
      BY <2>1, <2>2 DEF Monitoring!Check
    <3> QED  BY <2>1, <3>1, EvaluationStep
  <2>3. CASE ~UNCHANGED evaluated
    <3>1. /\ monitorWork[w].at = "checking" /\ ~Monitoring!Due(ScopeOf(w)) /\ Monitoring!Rest(w)
          /\ Monitoring!Evaluated(monitorWork[w].event) /\ UNCHANGED <<active, ingested, alert, dead>>
      BY <2>1, <2>3 DEF Monitoring!Check, Monitoring!Now, ScopeOf
    <3> QED  BY <3>1, NothingDue
  <2> QED  BY <2>2, <2>3
<1>5. CASE \E w \in Workers : Monitoring!CreateAlert(w)
  <2>1. PICK w \in Workers : Monitoring!CreateAlert(w)
    BY <1>5
  <2>2. CASE UNCHANGED <<alert, evaluated>>
    <3>1. UNCHANGED <<alert, dead, evaluated>>
      BY <2>1, <2>2 DEF Monitoring!CreateAlert
    <3> QED  BY <2>1, <3>1, EvaluationStep
  <2>3. CASE ~UNCHANGED <<alert, evaluated>>
    <3>1. /\ monitorWork[w].at = "creating" /\ alert' = [alert EXCEPT ![ScopeOf(w)] = Append(@, "open")]
          /\ Monitoring!Rest(w) /\ Monitoring!Evaluated(monitorWork[w].event) /\ UNCHANGED <<active, ingested, dead>>
      BY <2>1, <2>3 DEF Monitoring!CreateAlert, Monitoring!Now, ScopeOf
    <3> QED  BY <3>1, AlertStep
  <2> QED  BY <2>2, <2>3
<1>6. CASE \E w \in Workers : Monitoring!DeadLetter(w)
  BY <1>6, LetterStep
<1>7. CASE \E D \in Monitoring!Calls : Monitoring!Replay(D)
  BY <1>7, ReplayStep
<1>8. CASE Monitoring!Toggle \/ \E D \in Monitoring!Calls : \E e \in D : Monitoring!ReplayFails(D, e)
  BY <1>8, ToggleStep
<1>9. CASE \E s \in RuleScopes : \E n \in 1..Len(alert[s]) :
              Monitoring!Assign(s, n) \/ Monitoring!Triage(s, n) \/ Monitoring!Close(s, n)
  BY <1>9, MoveStep
<1> QED  BY <1>1, <1>2, <1>3, <1>4, <1>5, <1>6, <1>7, <1>8, <1>9 DEF Monitoring!Next

LEMMA MonitorSound ==
    MonitorIInv => Monitoring!TypeOK /\ Monitoring!OneOpenAlert /\ Monitoring!CrossingSeen /\ Monitoring!EvaluatedOnce
<1> SUFFICES ASSUME MonitorIInv
             PROVE  Monitoring!TypeOK /\ Monitoring!OneOpenAlert /\ Monitoring!CrossingSeen /\ Monitoring!EvaluatedOnce
  OBVIOUS
<1>1. Monitoring!TypeOK
  <2>1. ASSUME NEW s \in RuleScopes, NEW n \in 1..Len(alert[s])
        PROVE  alert[s][n] \in Monitoring!AlertStatuses
    <3>1. alert[s] \in Seq(Monitoring!AlertStatuses)
      BY DEF MonitorIInv, MonitorTyped
    <3> QED  BY <3>1, ElementOfSeq
  <2>2. \A e \in Watched : dead[e] \in Letters /\ (dead[e] # Monitoring!NoLetter => e \in ingested)
    BY DEF MonitorIInv, MonitorTyped, EvaluatedOrLeft
  <2> QED  BY <2>1, <2>2 DEF Monitoring!TypeOK, Letters
<1>2. Monitoring!OneOpenAlert
  <2>1. ASSUME NEW s \in RuleScopes
        PROVE  Monitoring!Cardinality(Monitoring!OpenIn(s)) <= 1
    <3> DEFINE S == Monitoring!OpenIn(s)
    <3>1. \A m, n \in S : m = n
      BY DEF MonitorIInv, OneOpen
    <3> HIDE DEF S
    <3>2. Cardinality(S) <= 1
      <4>1. CASE S = {}
        BY <4>1, FS_EmptySet
      <4>2. CASE S # {}
        <5>1. PICK n \in S : TRUE
          BY <4>2
        <5>2. S = {n}
          BY <3>1, <5>1
        <5> QED  BY <5>2, FS_Singleton
      <4> QED  BY <4>1, <4>2
    <3>3. Monitoring!Cardinality(S) = Cardinality(S)
      BY DEF Cardinality, IsFiniteSet, Monitoring!Cardinality, Monitoring!IsFiniteSet
    <3> QED  BY <3>2, <3>3 DEF S
  <2> QED  BY <2>1 DEF Monitoring!OneOpenAlert
<1>3. Monitoring!EvaluatedOnce
  BY DEF MonitorIInv, EvaluatedOrLeft, Monitoring!EvaluatedOnce
<1> QED  BY <1>1, <1>2, <1>3 DEF MonitorIInv

-----------------------------------------------------------------------------
(* Verifications and the closure of their alerts.  What alerts, letters,   *)
(* closures and tokens show only grows: an alert once closed stays closed, *)
(* a closure keeps its body and a token what it is bound to.  So a request *)
(* may rely on what it found.                                              *)

RaisedStatuses == {"open", "assigned", "triaged", "closed"}
ClosureRows ==
    [status : {None, "processing", "completed"}, alert : Alerts!Alerts \cup {Alerts!NoAlert}, token : Tokens \cup {None}]
AlertTasks ==
    {Alerts!Idle}
    \cup [at : {"raising", "creating", "failed", "told"}, entity : Alerts!Entities, key : {None},
          alert : {Alerts!NoAlert}, token : {None}]
    \cup [at : {"verifying", "closing"}, entity : {None}, key : Closures, alert : Alerts!Alerts, token : Tokens]

AlertTyped ==
    /\ verification \in [Verifications -> {None, "pass", "fail"}]
    /\ raised \in [Alerts!Entities -> Seq(RaisedStatuses)]
    /\ letter \subseteq Alerts!Entities /\ warned \subseteq Alerts!Entities /\ toldFailed \subseteq Alerts!Entities
    /\ closure \in [Closures -> ClosureRows]
    /\ approved \in [Tokens -> Alerts!Alerts \cup {Alerts!NoAlert}] /\ exhausted \subseteq Tokens
    /\ closedBy \subseteq Alerts!Alerts \X Tokens
    /\ alertWork \in [Workers -> AlertTasks]

Traced(e) == raised[e] # <<>> \/ e \in letter \cup warned
Ended(a) == a \in Alerts!Alerts /\ Alerts!Exists(a) /\ Alerts!Status(a) = "closed"

\* What a request knows.
Raising(w) ==
    /\ alertWork[w].at = "creating" => Alerts!OpenOf(alertWork[w].entity) = {}
    /\ alertWork[w].at = "told" => Traced(alertWork[w].entity)
Closing(w) ==
    alertWork[w].at \in {"verifying", "closing"} =>
        LET task == alertWork[w] IN
        /\ Alerts!Exists(task.alert)
        /\ closure[task.key].status # None /\ closure[task.key].alert = task.alert
        /\ task.at = "closing" => task.token \in exhausted /\ approved[task.token] = task.alert
CreatesAlone ==
    \A v, w \in Workers : v # w /\ alertWork[v].at = "creating" /\ alertWork[w].at = "creating" =>
        alertWork[v].entity # alertWork[w].entity

OneOpenEach == \A e \in Alerts!Entities : \A m, n \in Alerts!OpenOf(e) : m = n
ClosedUnder == \A a \in Alerts!Alerts : Ended(a) => \E t \in Tokens : <<a, t>> \in closedBy
Exhausted == \A a \in Alerts!Alerts, t \in Tokens : <<a, t>> \in closedBy => t \in exhausted /\ approved[t] = a
CompletedEnded == \A k \in Closures : closure[k].status = "completed" => Ended(closure[k].alert)
ConfirmedEnded == \A a \in confirmed : Ended(a)
ToldTraced == \A e \in toldFailed : Traced(e)

AlertIInv ==
    /\ AlertTyped /\ CreatesAlone /\ \A w \in Workers : Raising(w) /\ Closing(w)
    /\ OneOpenEach /\ ClosedUnder /\ Exhausted /\ CompletedEnded /\ ConfirmedEnded /\ ToldTraced

AlertOnwards ==
    /\ \A e \in Alerts!Entities :
          /\ Len(raised[e]) <= Len(raised'[e])
          /\ \A n \in 1..Len(raised[e]) : raised[e][n] = "closed" => raised'[e][n] = "closed"
    /\ letter \cup warned \subseteq letter' \cup warned'
    /\ \A k \in Closures : closure[k].status # None => closure'[k].status # None /\ closure'[k].alert = closure[k].alert
    /\ exhausted \subseteq exhausted'
    /\ \A t \in Tokens : approved[t] # Alerts!NoAlert => approved'[t] = approved[t]

LEMMA AlertParts == \A a \in Alerts!Alerts : a[1] \in Alerts!Entities /\ a[2] \in 1..MaxAlerts /\ a # Alerts!NoAlert /\ a = <<a[1], a[2]>>
BY AlertAssumption DEF Alerts!Alerts, Alerts!NoAlert

\* Whoever is at none of its points knows nothing; what a request knows stays known.
LEMMA StaysKnown ==
    ASSUME AlertTyped, AlertTyped', AlertOnwards
    PROVE  /\ \A a \in Alerts!Alerts : Alerts!Exists(a) => Alerts!Exists(a)'
           /\ \A a \in Alerts!Alerts : Ended(a) => Ended(a)'
           /\ \A e \in Alerts!Entities : Traced(e) => Traced(e)'
<1>1. ASSUME NEW e \in Alerts!Entities
      PROVE  /\ raised[e] \in Seq(RaisedStatuses) /\ Len(raised[e]) \in Nat
             /\ raised'[e] \in Seq(RaisedStatuses) /\ Len(raised'[e]) \in Nat
  BY LenProperties DEF AlertTyped
<1>2. ASSUME NEW a \in Alerts!Alerts, Alerts!Exists(a)
      PROVE  Alerts!Exists(a)'
  BY <1>1, <1>2, AlertParts DEF AlertOnwards, Alerts!Exists
<1>3. ASSUME NEW a \in Alerts!Alerts, Ended(a)
      PROVE  Ended(a)'
  BY <1>1, <1>2, <1>3, AlertParts DEF AlertOnwards, Ended, Alerts!Exists, Alerts!Status
<1>4. ASSUME NEW e \in Alerts!Entities, Traced(e)
      PROVE  Traced(e)'
  <2>1. CASE raised[e] # <<>>
    <3>1. Len(raised[e]) # 0
      BY <1>1, <2>1, EmptySeq
    <3>2. Len(raised'[e]) # 0
      BY <1>1, <3>1 DEF AlertOnwards
    <3>3. Len(<<>>) = 0
      OBVIOUS
    <3> QED  BY <3>2, <3>3 DEF Traced
  <2>2. CASE e \in letter \cup warned
    BY <2>2 DEF AlertOnwards, Traced
  <2> QED  BY <1>4, <2>1, <2>2 DEF Traced
<1> QED  BY <1>2, <1>3, <1>4

LEMMA TaskTypes ==
    ASSUME AlertTyped, NEW w \in Workers
    PROVE  /\ alertWork[w].at = "idle" => alertWork[w] = Alerts!Idle
           /\ alertWork[w].at \in {"raising", "creating", "failed", "told"} =>
                 /\ alertWork[w].entity \in Alerts!Entities
                 /\ \A at : [alertWork[w] EXCEPT !.at = at] =
                       [at |-> at, entity |-> alertWork[w].entity, key |-> None, alert |-> Alerts!NoAlert, token |-> None]
           /\ alertWork[w].at \in {"verifying", "closing"} =>
                 /\ alertWork[w].key \in Closures /\ alertWork[w].alert \in Alerts!Alerts /\ alertWork[w].token \in Tokens
                 /\ \A at : [alertWork[w] EXCEPT !.at = at] =
                       [at |-> at, entity |-> None, key |-> alertWork[w].key, alert |-> alertWork[w].alert,
                        token |-> alertWork[w].token]
           /\ alertWork[w].at \in {"idle", "raising", "creating", "failed", "told", "verifying", "closing"}
<1>1. alertWork[w] \in AlertTasks
  BY DEF AlertTyped
<1>2. CASE alertWork[w] = Alerts!Idle
  BY <1>2 DEF Alerts!Idle
<1>3. CASE alertWork[w] \in [at : {"raising", "creating", "failed", "told"}, entity : Alerts!Entities, key : {None},
                            alert : {Alerts!NoAlert}, token : {None}]
  BY <1>3
<1>4. CASE alertWork[w] \in [at : {"verifying", "closing"}, entity : {None}, key : Closures, alert : Alerts!Alerts,
                            token : Tokens]
  BY <1>4
<1> QED  BY <1>1, <1>2, <1>3, <1>4 DEF AlertTasks

LEMMA OthersKnow ==
    ASSUME AlertIInv, AlertTyped', AlertOnwards, NEW w \in Workers, alertWork'[w] = alertWork[w],
           alertWork[w].at = "creating" => Alerts!OpenOf(alertWork[w].entity)' = {}
    PROVE  Raising(w)' /\ Closing(w)'
<1> DEFINE task == alertWork[w]
<1>1. AlertTyped /\ Raising(w) /\ Closing(w)
  BY DEF AlertIInv
<1>2. Raising(w)'
  <2>1. CASE task.at = "creating"
    BY <2>1 DEF Raising
  <2>2. CASE task.at = "told"
    <3>1. PICK e \in Alerts!Entities : e = task.entity
      BY <1>1, <2>2, TaskTypes
    <3>2. Traced(e)'
      BY <1>1, <2>2, <3>1, StaysKnown DEF Raising
    <3> QED  BY <2>2, <3>1, <3>2 DEF Raising, Traced
  <2> QED  BY <2>1, <2>2 DEF Raising
<1>3. Closing(w)'
  <2>1. SUFFICES ASSUME task.at \in {"verifying", "closing"} PROVE Closing(w)'
    BY DEF Closing
  <2>2. PICK a \in Alerts!Alerts, k \in Closures, t \in Tokens : a = task.alert /\ k = task.key /\ t = task.token
    BY <1>1, <2>1, TaskTypes
  <2>3. /\ Alerts!Exists(a)' /\ closure'[k].status # None /\ closure'[k].alert = a
    BY <1>1, <2>1, <2>2, StaysKnown DEF Closing, AlertOnwards
  <2>4. task.at = "closing" => t \in exhausted' /\ approved'[t] = a
    BY <1>1, <2>1, <2>2, AlertParts DEF Closing, AlertOnwards
  <2> QED  BY <2>2, <2>3, <2>4 DEF Closing, Alerts!Exists
<1> QED  BY <1>2, <1>3
LEMMA RowsFrame ==
    ASSUME AlertIInv, AlertTyped', AlertOnwards, closedBy \subseteq closedBy',
           \A a \in Alerts!Alerts : Ended(a)' => Ended(a) \/ \E t \in Tokens : <<a, t>> \in closedBy',
           \A a \in Alerts!Alerts, t \in Tokens :
              <<a, t>> \in closedBy' => <<a, t>> \in closedBy \/ (t \in exhausted' /\ approved'[t] = a),
           \A k \in Closures : (closure[k].status = "completed")' =>
              closure[k].status = "completed" \/ Ended(closure[k].alert)',
           \A a \in confirmed' : a \in confirmed \/ Ended(a)',
           \A e \in toldFailed' : e \in toldFailed \/ Traced(e)'
    PROVE  ClosedUnder' /\ Exhausted' /\ CompletedEnded' /\ ConfirmedEnded' /\ ToldTraced'
<1>1. AlertTyped
  BY DEF AlertIInv
<1>2. /\ \A a \in Alerts!Alerts : Ended(a) => Ended(a)'
      /\ \A e \in Alerts!Entities : Traced(e) => Traced(e)'
  BY <1>1, StaysKnown
<1>3. ClosedUnder'
  BY DEF AlertIInv, ClosedUnder
<1>4. Exhausted'
  BY AlertParts DEF AlertIInv, Exhausted, AlertOnwards
<1>5. CompletedEnded'
  <2>1. ASSUME NEW k \in Closures, closure'[k].status = "completed", closure[k].status = "completed"
        PROVE  Ended(closure[k].alert)'
    <3>1. PICK a \in Alerts!Alerts : a = closure[k].alert /\ Ended(a)
      BY <2>1 DEF AlertIInv, CompletedEnded, Ended
    <3>2. a = closure'[k].alert
      BY <1>1, <2>1, <3>1, AlertAssumption DEF AlertOnwards
    <3> QED  BY <1>2, <3>1, <3>2 DEF Ended, Alerts!Exists, Alerts!Status
  <2> QED  BY <2>1 DEF CompletedEnded
<1>6. ConfirmedEnded'
  <2>1. ASSUME NEW a \in confirmed
        PROVE  Ended(a)'
    BY <1>2 DEF AlertIInv, ConfirmedEnded, Ended
  <2> QED  BY <2>1 DEF ConfirmedEnded
<1>7. ToldTraced'
  <2>1. toldFailed \subseteq Alerts!Entities
    BY <1>1 DEF AlertTyped
  <2> QED  BY <1>2, <2>1 DEF AlertIInv, ToldTraced
<1> QED  BY <1>3, <1>4, <1>5, <1>6, <1>7

\* What a request does that leaves alerts, closures and approvals alone.
LEMMA AlertRequestStep ==
    ASSUME AlertIInv, NEW w \in Workers, NEW task \in AlertTasks, alertWork' = [alertWork EXCEPT ![w] = task],
           UNCHANGED <<raised, closure, approved, closedBy, confirmed>>,
           verification' \in [Verifications -> {None, "pass", "fail"}],
           letter \cup warned \subseteq letter' \cup warned', letter' \cup warned' \cup toldFailed' \subseteq Alerts!Entities,
           exhausted \subseteq exhausted', exhausted' \subseteq Tokens,
           \A e \in toldFailed' : e \in toldFailed \/ Traced(e)',
           task.at = "creating" => Alerts!OpenOf(task.entity) = {} /\ Alerts!Free(task.entity),
           task.at = "told" => Traced(task.entity)',
           Closing(w)'
    PROVE  AlertIInv'
<1>1. AlertTyped
  BY DEF AlertIInv
<1>2. alertWork'[w] = task /\ \A v \in Workers \ {w} : alertWork'[v] = alertWork[v]
  BY <1>1 DEF AlertTyped
<1>3. AlertTyped'
  BY <1>1 DEF AlertTyped
<1>4. AlertOnwards
  <2>1. \A e \in Alerts!Entities : Len(raised[e]) \in Nat
    BY <1>1, LenProperties DEF AlertTyped
  <2> QED  BY <2>1 DEF AlertOnwards
<1>5. \A a \in Alerts!Alerts : Ended(a)' <=> Ended(a)
  BY DEF Ended, Alerts!Exists, Alerts!Status
<1>6. ClosedUnder' /\ Exhausted' /\ CompletedEnded' /\ ConfirmedEnded' /\ ToldTraced'
  BY <1>3, <1>4, <1>5, RowsFrame
<1>7. CreatesAlone'
  BY <1>2 DEF AlertIInv, CreatesAlone, Alerts!Free, Alerts!At
<1>8. Raising(w)'
  BY <1>2 DEF Raising, Alerts!OpenOf, Traced
<1>9. ASSUME NEW v \in Workers \ {w}
      PROVE  Raising(v)' /\ Closing(v)'
  <2>1. alertWork[v].at = "creating" => Alerts!OpenOf(alertWork[v].entity)' = {}
    BY <1>2, <1>9 DEF AlertIInv, Raising, Alerts!OpenOf
  <2> QED  BY <1>2, <1>3, <1>4, <1>9, <2>1, OthersKnow
<1>10. OneOpenEach'
  BY DEF AlertIInv, OneOpenEach, Alerts!OpenOf
<1> QED  BY <1>3, <1>6, <1>7, <1>8, <1>9, <1>10 DEF AlertIInv
\* A request without rows of its own to change: where it goes, or that it rests.
LEMMA RequestMoves ==
    ASSUME AlertIInv, NEW w \in Workers,
           NEW task \in AlertTasks, task = Alerts!Idle \/ task.at \in {"raising", "failed"},
           alertWork' = [alertWork EXCEPT ![w] = task],
           UNCHANGED <<raised, letter, warned, closure, approved, closedBy, confirmed>>,
           verification' \in [Verifications -> {None, "pass", "fail"}],
           exhausted \subseteq exhausted', exhausted' \subseteq Tokens,
           toldFailed' \subseteq Alerts!Entities, \A e \in toldFailed' : e \in toldFailed \/ Traced(e)
    PROVE  AlertIInv'
<1>1. AlertTyped
  BY DEF AlertIInv
<1>2. task.at \in {"idle", "raising", "failed"}
  BY DEF Alerts!Idle
<1>3. alertWork'[w] = task
  BY <1>1 DEF AlertTyped
<1>4. Closing(w)'
  BY <1>2, <1>3 DEF Closing
<1>5. letter' \cup warned' \cup toldFailed' \subseteq Alerts!Entities
  BY <1>1 DEF AlertTyped
<1>6. \A e \in toldFailed' : e \in toldFailed \/ Traced(e)'
  BY DEF Traced
<1> QED  BY <1>2, <1>4, <1>5, <1>6, AlertRequestStep

LEMMA VerifyStep ==
    ASSUME AlertIInv, NEW w \in Workers,
           \/ \E k \in Verifications : Alerts!VerifyRange(w, k)
           \/ Alerts!VerifySeal(w)
    PROVE  AlertIInv'
<1>1. AlertTyped
  BY DEF AlertIInv
<1>2. alertWork[w] = Alerts!Idle
  BY <1>1, TaskTypes DEF Alerts!VerifyRange, Alerts!VerifySeal, Alerts!At
<1>3. PICK e \in Alerts!Entities, result \in {"pass", "fail", "valid", None} :
         /\ Alerts!Verified(w, e, result)
         /\ verification' \in [Verifications -> {None, "pass", "fail"}]
         /\ UNCHANGED <<raised, letter, warned, closure, approved, exhausted, toldFailed, closedBy, confirmed>>
  <2>1. CASE \E k \in Verifications : Alerts!VerifyRange(w, k)
    <3>1. PICK k \in Verifications : Alerts!VerifyRange(w, k)
      BY <2>1
    <3>2. verification' \in [Verifications -> {None, "pass", "fail"}]
      BY <1>1, <3>1 DEF Alerts!VerifyRange, AlertTyped
    <3>3. k \in Alerts!Entities /\ verification'[k] \in {None, "pass", "fail"}
      BY <3>2 DEF Alerts!Entities
    <3> QED  BY <3>1, <3>2, <3>3 DEF Alerts!VerifyRange
  <2>2. CASE Alerts!VerifySeal(w)
    <3>1. Seal \in Alerts!Entities /\ verification' \in [Verifications -> {None, "pass", "fail"}]
      BY <1>1, <2>2 DEF Alerts!VerifySeal, AlertTyped, Alerts!Entities
    <3>2. Alerts!Verified(w, Seal, "valid") \/ Alerts!Verified(w, Seal, "fail")
      BY <2>2 DEF Alerts!VerifySeal
    <3> QED  BY <2>2, <3>1, <3>2 DEF Alerts!VerifySeal
  <2> QED  BY <2>1, <2>2
<1>4. PICK task \in AlertTasks :
         (task = Alerts!Idle \/ task.at = "raising") /\ alertWork' = [alertWork EXCEPT ![w] = task]
  <2> DEFINE old == alertWork[w]
             raising == [old EXCEPT !.at = "raising", !.entity = e]
  <2>1. Alerts!Idle \in AlertTasks
    BY DEF AlertTasks
  <2>2. raising \in AlertTasks /\ raising.at = "raising"
    <3>1. old \in [at : {"idle"}, entity : {None}, key : {None}, alert : {Alerts!NoAlert}, token : {None}]
      BY <1>2 DEF Alerts!Idle
    <3> HIDE DEF old
    <3>2. raising \in [at : {"raising"}, entity : Alerts!Entities, key : {None}, alert : {Alerts!NoAlert}, token : {None}]
      BY <3>1
    <3> HIDE DEF raising
    <3> QED  BY <3>2 DEF AlertTasks
  <2>3. [alertWork EXCEPT ![w].at = "raising", ![w].entity = e] = [alertWork EXCEPT ![w] = raising]
    BY <1>1 DEF AlertTyped
  <2>4. alertWork = [alertWork EXCEPT ![w] = Alerts!Idle]
    BY <1>1, <1>2 DEF AlertTyped
  <2> HIDE DEF raising
  <2> QED  BY <1>3, <2>1, <2>2, <2>3, <2>4 DEF Alerts!Verified
<1>5. toldFailed' \subseteq Alerts!Entities /\ exhausted' \subseteq Tokens
  BY <1>1, <1>3 DEF AlertTyped
<1> QED  BY <1>3, <1>4, <1>5, RequestMoves

LEMMA AlertRestStep ==
    ASSUME AlertIInv, NEW w \in Workers, Alerts!Dies(w) \/ Alerts!AnswerFailed(w)
    PROVE  AlertIInv'
<1>1. AlertTyped /\ Raising(w)
  BY DEF AlertIInv
<1>2. Alerts!Idle \in AlertTasks
  BY DEF AlertTasks
<1>3. /\ alertWork' = [alertWork EXCEPT ![w] = Alerts!Idle]
      /\ UNCHANGED <<verification, raised, letter, warned, closure, approved, exhausted, closedBy, confirmed>>
  BY DEF Alerts!Dies, Alerts!AnswerFailed, Alerts!Rest
<1>4. /\ toldFailed' \subseteq Alerts!Entities /\ exhausted' \subseteq Tokens
      /\ verification' \in [Verifications -> {None, "pass", "fail"}]
      /\ \A e \in toldFailed' : e \in toldFailed \/ Traced(e)
  <2>1. CASE Alerts!Dies(w)
    BY <1>1, <2>1 DEF Alerts!Dies, AlertTyped
  <2>2. CASE Alerts!AnswerFailed(w)
    <3>1. PICK e \in Alerts!Entities : e = alertWork[w].entity /\ Traced(e)
      BY <1>1, <2>2, TaskTypes DEF Alerts!AnswerFailed, Alerts!At, Raising
    <3>2. toldFailed' = toldFailed \cup {e}
      BY <2>2, <3>1 DEF Alerts!AnswerFailed
    <3> QED  BY <1>1, <1>3, <3>1, <3>2 DEF AlertTyped
  <2> QED  BY <2>1, <2>2
<1> QED  BY <1>2, <1>3, <1>4, RequestMoves

LEMMA FindOpenStep ==
    ASSUME AlertIInv, NEW w \in Workers, Alerts!FindOpen(w)
    PROVE  AlertIInv'
<1>1. AlertTyped
  BY DEF AlertIInv
<1>2. PICK e \in Alerts!Entities : e = alertWork[w].entity
  BY <1>1, TaskTypes DEF Alerts!FindOpen, Alerts!At
<1> DEFINE task(at) == [at |-> at, entity |-> e, key |-> None, alert |-> Alerts!NoAlert, token |-> None]
<1>3. \A at \in {"creating", "told", "failed"} : task(at) \in AlertTasks /\ task(at).at = at /\ task(at).entity = e
  BY DEF AlertTasks
<1>4. /\ alertWork[w].at = "raising" /\ Alerts!Free(e)
      /\ UNCHANGED <<verification, raised, letter, warned, closure, approved, exhausted, toldFailed, closedBy, confirmed>>
  BY <1>2 DEF Alerts!FindOpen, Alerts!At
<1>5. PICK at \in {"creating", "told", "failed"} :
         /\ alertWork' = [alertWork EXCEPT ![w].at = at]
         /\ at = "creating" => Alerts!OpenOf(e) = {}
         /\ at = "told" => Alerts!OpenOf(e) # {}
  <2>1. CASE Alerts!OpenOf(e) = {} /\ Alerts!Go(w, "creating")
    BY <2>1 DEF Alerts!Go
  <2>2. CASE Alerts!OpenOf(e) # {} /\ Alerts!Go(w, "told")
    BY <2>2 DEF Alerts!Go
  <2>3. CASE Alerts!Go(w, "failed")
    BY <2>3 DEF Alerts!Go
  <2> QED  BY <1>2, <2>1, <2>2, <2>3 DEF Alerts!FindOpen
<1>6. alertWork' = [alertWork EXCEPT ![w] = task(at)]
  <2>1. [alertWork[w] EXCEPT !.at = at] = task(at)
    BY <1>1, <1>2, <1>4, TaskTypes
  <2> QED  BY <1>1, <1>5, <2>1 DEF AlertTyped
<1>7. at = "told" => Traced(e)'
  <2>1. Len(<<>>) = 0
    OBVIOUS
  <2>2. at = "told" => raised[e] # <<>>
    BY <1>5, <2>1 DEF Alerts!OpenOf
  <2> QED  BY <1>4, <2>2 DEF Traced
<1>8. /\ exhausted' \subseteq Tokens /\ letter' \cup warned' \cup toldFailed' \subseteq Alerts!Entities
      /\ verification' \in [Verifications -> {None, "pass", "fail"}]
  BY <1>1, <1>4 DEF AlertTyped
<1>9. Closing(w)'
  <2>1. alertWork'[w] = task(at)
    BY <1>1, <1>6 DEF AlertTyped
  <2>2. alertWork'[w].at = at
    BY <1>3, <2>1
  <2> QED  BY <2>2 DEF Closing
<1>10. /\ task(at).at = at /\ task(at).entity = e /\ task(at) \in AlertTasks
  BY <1>3
<1>11. task(at).at = "told" => Traced(task(at).entity)'
  BY <1>7, <1>10 DEF Traced
<1> HIDE DEF task
<1> QED  BY <1>4, <1>5, <1>6, <1>8, <1>9, <1>10, <1>11, AlertRequestStep
LEMMA RaisingFailedStep ==
    ASSUME AlertIInv, NEW w \in Workers, Alerts!RaisingFailed(w)
    PROVE  AlertIInv'
<1>1. AlertTyped
  BY DEF AlertIInv
<1>2. PICK e \in Alerts!Entities : e = alertWork[w].entity
  BY <1>1, TaskTypes DEF Alerts!RaisingFailed, Alerts!At
<1> DEFINE task == [at |-> "told", entity |-> e, key |-> None, alert |-> Alerts!NoAlert, token |-> None]
<1>3. task \in AlertTasks /\ task.at = "told" /\ task.entity = e
  BY DEF AlertTasks
<1>4. /\ alertWork[w].at = "failed"
      /\ UNCHANGED <<verification, raised, closure, approved, exhausted, toldFailed, closedBy, confirmed>>
      /\ letter \cup warned \subseteq letter' \cup warned' /\ e \in letter' \cup warned'
      /\ letter' \cup warned' \subseteq letter \cup warned \cup {e}
  BY <1>2 DEF Alerts!RaisingFailed, Alerts!At, Alerts!writeMonitoringDeadLetter
<1>5. alertWork' = [alertWork EXCEPT ![w] = task]
  <2>1. [alertWork[w] EXCEPT !.at = "told"] = task
    BY <1>1, <1>2, <1>4, TaskTypes
  <2>2. alertWork' = [alertWork EXCEPT ![w].at = "told"]
    BY DEF Alerts!RaisingFailed, Alerts!Go
  <2> QED  BY <1>1, <2>1, <2>2 DEF AlertTyped
<1>6. /\ exhausted' \subseteq Tokens /\ letter' \cup warned' \cup toldFailed' \subseteq Alerts!Entities
      /\ verification' \in [Verifications -> {None, "pass", "fail"}]
  BY <1>1, <1>4 DEF AlertTyped
<1>7. Closing(w)'
  <2>1. alertWork'[w] = task
    BY <1>1, <1>5 DEF AlertTyped
  <2> QED  BY <1>3, <2>1 DEF Closing
<1>8. Traced(task.entity)'
  BY <1>3, <1>4 DEF Traced
<1> HIDE DEF task
<1> QED  BY <1>3, <1>4, <1>5, <1>6, <1>7, <1>8, AlertRequestStep

LEMMA VerifyTokenStep ==
    ASSUME AlertIInv, NEW w \in Workers, Alerts!verifyDecisionToken(w)
    PROVE  AlertIInv'
<1>1. AlertTyped /\ Closing(w)
  BY DEF AlertIInv
<1>2. PICK k \in Closures, a \in Alerts!Alerts, t \in Tokens :
         k = alertWork[w].key /\ a = alertWork[w].alert /\ t = alertWork[w].token
  BY <1>1, TaskTypes DEF Alerts!verifyDecisionToken, Alerts!At
<1>3. /\ alertWork[w].at = "verifying"
      /\ UNCHANGED <<verification, raised, letter, warned, closure, approved, toldFailed, closedBy, confirmed>>
      /\ exhausted' \in {exhausted, exhausted \cup {t}}
      /\ Alerts!Rest(w) \/ (Alerts!Go(w, "closing") /\ approved[t] = a /\ t \in exhausted')
  BY <1>2 DEF Alerts!verifyDecisionToken, Alerts!At
<1>4. /\ exhausted \subseteq exhausted' /\ exhausted' \subseteq Tokens
      /\ verification' \in [Verifications -> {None, "pass", "fail"}]
      /\ letter' \cup warned' \cup toldFailed' \subseteq Alerts!Entities
  BY <1>1, <1>3 DEF AlertTyped
<1>5. CASE Alerts!Rest(w)
  <2>1. Alerts!Idle \in AlertTasks /\ alertWork' = [alertWork EXCEPT ![w] = Alerts!Idle]
    BY <1>5 DEF Alerts!Rest, AlertTasks
  <2> QED  BY <1>3, <1>4, <2>1, RequestMoves
<1>6. CASE Alerts!Go(w, "closing") /\ approved[t] = a /\ t \in exhausted'
  <2> DEFINE task == [at |-> "closing", entity |-> None, key |-> k, alert |-> a, token |-> t]
  <2>1. task \in AlertTasks /\ task.at = "closing"
    BY DEF AlertTasks
  <2>2. alertWork' = [alertWork EXCEPT ![w] = task]
    <3>1. [alertWork[w] EXCEPT !.at = "closing"] = task
      BY <1>1, <1>2, <1>3, TaskTypes
    <3> QED  BY <1>1, <1>6, <3>1 DEF AlertTyped, Alerts!Go
  <2>3. alertWork'[w] = task
    BY <1>1, <2>2 DEF AlertTyped
  <2>4. Alerts!Exists(a)' /\ closure'[k].status # None /\ closure'[k].alert = a
    BY <1>1, <1>2, <1>3 DEF Closing, Alerts!Exists
  <2>5. Closing(w)'
    <3>1. task.alert = a /\ task.key = k /\ task.token = t
      OBVIOUS
    <3> HIDE DEF task
    <3> QED  BY <1>3, <1>6, <2>3, <2>4, <3>1 DEF Closing, Alerts!Exists
  <2> HIDE DEF task
  <2> QED  BY <1>3, <1>4, <2>1, <2>2, <2>5, AlertRequestStep
<1> QED  BY <1>3, <1>5, <1>6

LEMMA AlteredStep ==
    ASSUME AlertIInv, Alerts!Altered
    PROVE  AlertIInv'
BY DEF Alerts!Altered, AlertIInv, AlertTyped, CreatesAlone, Raising, Closing, OneOpenEach, ClosedUnder, Exhausted, CompletedEnded,
       ConfirmedEnded, ToldTraced, Ended, Traced, Alerts!Exists, Alerts!Status, Alerts!OpenOf
\* An alert that is not closed gets another status: none is opened, and no other is touched.
LEMMA AlertMoved ==
    ASSUME AlertIInv, NEW a \in Alerts!Alerts, Alerts!Exists(a), Alerts!Status(a) # "closed",
           NEW to \in RaisedStatuses, raised' = [raised EXCEPT ![a[1]][a[2]] = to]
    PROVE  /\ raised' \in [Alerts!Entities -> Seq(RaisedStatuses)]
           /\ \A e \in Alerts!Entities : Len(raised[e]) \in Nat /\ Len(raised'[e]) = Len(raised[e])
           /\ \A e \in Alerts!Entities : \A n \in 1..Len(raised[e]) : raised[e][n] = "closed" => raised'[e][n] = "closed"
           /\ \A e \in Alerts!Entities : Alerts!OpenOf(e)' \subseteq Alerts!OpenOf(e)
           /\ \A b \in Alerts!Alerts : Ended(b)' <=> (Ended(b) \/ (b = a /\ to = "closed"))
<1> DEFINE s == a[1]
           n == a[2]
           moved == [raised[s] EXCEPT ![n] = to]
<1>1. /\ raised \in [Alerts!Entities -> Seq(RaisedStatuses)] /\ s \in Alerts!Entities /\ n \in 1..Len(raised[s])
      /\ raised[s][n] # "closed"
  BY AlertParts DEF AlertIInv, AlertTyped, Alerts!Exists, Alerts!Status
<1>2. \A e \in Alerts!Entities : raised[e] \in Seq(RaisedStatuses) /\ Len(raised[e]) \in Nat
  BY <1>1, LenProperties
<1>3. /\ moved \in Seq(RaisedStatuses) /\ Len(moved) = Len(raised[s]) /\ moved[n] = to
      /\ \A i \in 1..Len(raised[s]) : i # n => moved[i] = raised[s][i]
  BY <1>1, <1>2, ExceptSeq
<1>4. raised' = [raised EXCEPT ![s] = moved]
  OBVIOUS
<1> HIDE DEF moved
<1>5. raised'[s] = moved /\ (\A e \in Alerts!Entities \ {s} : raised'[e] = raised[e])
  BY <1>1, <1>4
<1>6. raised' \in [Alerts!Entities -> Seq(RaisedStatuses)]
  BY <1>1, <1>3, <1>4
<1>7. \A e \in Alerts!Entities : Len(raised'[e]) = Len(raised[e])
  BY <1>3, <1>5
<1>8. \A e \in Alerts!Entities : \A i \in 1..Len(raised[e]) : raised'[e][i] = raised[e][i] \/ (e = s /\ i = n)
  BY <1>3, <1>5
<1>9. \A e \in Alerts!Entities : \A i \in 1..Len(raised[e]) : raised[e][i] = "closed" => raised'[e][i] = "closed"
  BY <1>1, <1>8
<1>10. \A e \in Alerts!Entities : Alerts!OpenOf(e)' \subseteq Alerts!OpenOf(e)
  BY <1>7, <1>9 DEF Alerts!OpenOf
<1>11. ASSUME NEW b \in Alerts!Alerts
       PROVE  Ended(b)' <=> (Ended(b) \/ (b = a /\ to = "closed"))
  <2>1. b[1] \in Alerts!Entities /\ a = <<s, n>> /\ b = <<b[1], b[2]>>
    BY <1>11, AlertParts
  <2>2. CASE b[1] = s /\ b[2] = n
    <3>1. b = a
      BY <2>1, <2>2
    <3>2. Ended(b)' <=> to = "closed"
      BY <1>1, <1>3, <1>5, <2>2 DEF Ended, Alerts!Exists, Alerts!Status
    <3>3. ~Ended(b)
      BY <3>1 DEF Ended
    <3> QED  BY <3>1, <3>2, <3>3
  <2>3. CASE ~(b[1] = s /\ b[2] = n)
    <3>1. b # a
      BY <2>3
    <3>2. Ended(b)' <=> Ended(b)
      BY <1>7, <1>8, <2>1, <2>3 DEF Ended, Alerts!Exists, Alerts!Status
    <3> QED  BY <3>1, <3>2
  <2> QED  BY <2>2, <2>3
<1> QED  BY <1>2, <1>6, <1>7, <1>9, <1>10, <1>11

\* Every request as it was, over alerts, closures and approvals that have moved on.
LEMMA RestKnow ==
    ASSUME AlertIInv, AlertTyped', AlertOnwards, NEW w \in Workers,
           \A v \in Workers \ {w} : alertWork'[v] = alertWork[v],
           \A v \in Workers \ {w} : alertWork[v].at = "creating" => Alerts!OpenOf(alertWork[v].entity)' = {},
           alertWork'[w].at # "creating", Raising(w)', Closing(w)'
    PROVE  CreatesAlone' /\ \A v \in Workers : Raising(v)' /\ Closing(v)'
<1>1. CreatesAlone'
  BY DEF AlertIInv, CreatesAlone
<1>2. ASSUME NEW v \in Workers \ {w}
      PROVE  Raising(v)' /\ Closing(v)'
  BY <1>2, OthersKnow
<1> QED  BY <1>1, <1>2

LEMMA ReviewedStep ==
    ASSUME AlertIInv, NEW a \in Alerts!Alerts, Alerts!Reviewed(a)
    PROVE  AlertIInv'
<1>1. AlertTyped
  BY DEF AlertIInv
<1>2. PICK to \in RaisedStatuses : to # "closed" /\ raised' = [raised EXCEPT ![a[1]][a[2]] = to]
  <2>1. "assigned" \in RaisedStatuses /\ "triaged" \in RaisedStatuses
    BY DEF RaisedStatuses
  <2>2. \/ raised' = [raised EXCEPT ![a[1]][a[2]] = "assigned"]
        \/ raised' = [raised EXCEPT ![a[1]][a[2]] = "triaged"]
    <3>1. CASE raised[a[1]][a[2]] = "open"
      BY <3>1 DEF Alerts!Reviewed
    <3>2. CASE raised[a[1]][a[2]] # "open"
      BY <3>2 DEF Alerts!Reviewed
    <3> QED  BY <3>1, <3>2
  <2> QED  BY <2>1, <2>2
<1>3. /\ Alerts!Exists(a) /\ Alerts!Status(a) # "closed"
      /\ UNCHANGED <<verification, letter, warned, closure, approved, exhausted, alertWork, toldFailed, closedBy, confirmed>>
  BY DEF Alerts!Reviewed
<1>4. /\ raised' \in [Alerts!Entities -> Seq(RaisedStatuses)]
      /\ \A e \in Alerts!Entities : Len(raised[e]) \in Nat /\ Len(raised'[e]) = Len(raised[e])
      /\ \A e \in Alerts!Entities : \A n \in 1..Len(raised[e]) : raised[e][n] = "closed" => raised'[e][n] = "closed"
      /\ \A e \in Alerts!Entities : Alerts!OpenOf(e)' \subseteq Alerts!OpenOf(e)
      /\ \A b \in Alerts!Alerts : Ended(b)' <=> (Ended(b) \/ (b = a /\ to = "closed"))
  BY <1>2, <1>3, AlertMoved
<1>5. AlertTyped' /\ AlertOnwards
  BY <1>1, <1>3, <1>4 DEF AlertTyped, AlertOnwards
<1>6. ClosedUnder' /\ Exhausted' /\ CompletedEnded' /\ ConfirmedEnded' /\ ToldTraced'
  BY <1>2, <1>3, <1>4, <1>5, RowsFrame
<1>7. ASSUME NEW w \in Workers
      PROVE  Raising(w)' /\ Closing(w)'
  <2>1. ASSUME alertWork[w].at = "creating"
        PROVE  Alerts!OpenOf(alertWork[w].entity)' = {}
    <3>1. PICK e \in Alerts!Entities : e = alertWork[w].entity /\ Alerts!OpenOf(e) = {}
      BY <1>1, <2>1, TaskTypes DEF AlertIInv, Raising
    <3>2. Alerts!OpenOf(e)' = {}
      BY <1>4, <3>1
    <3> QED  BY <1>3, <3>1, <3>2 DEF Alerts!OpenOf
  <2> QED  BY <1>3, <1>5, <2>1, OthersKnow
<1>8. CreatesAlone' /\ OneOpenEach'
  BY <1>3, <1>4 DEF AlertIInv, CreatesAlone, OneOpenEach
<1> QED  BY <1>5, <1>6, <1>7, <1>8 DEF AlertIInv

LEMMA ApproveStep ==
    ASSUME AlertIInv, NEW t \in Tokens, NEW a \in Alerts!Alerts, Alerts!Approve(t, a)
    PROVE  AlertIInv'
<1>1. AlertTyped
  BY DEF AlertIInv
<1>2. /\ approved[t] = Alerts!NoAlert /\ approved' = [approved EXCEPT ![t] = a]
      /\ UNCHANGED <<verification, raised, letter, warned, closure, exhausted, alertWork, toldFailed, closedBy, confirmed>>
  BY DEF Alerts!Approve
<1>3. AlertTyped'
  BY <1>1, <1>2 DEF AlertTyped
<1>4. AlertOnwards
  <2>1. \A e \in Alerts!Entities : Len(raised[e]) \in Nat
    BY <1>1, LenProperties DEF AlertTyped
  <2> QED  BY <1>1, <1>2, <2>1 DEF AlertOnwards, AlertTyped
<1>5. \A b \in Alerts!Alerts : Ended(b)' <=> Ended(b)
  BY <1>2 DEF Ended, Alerts!Exists, Alerts!Status
<1>6. ClosedUnder' /\ Exhausted' /\ CompletedEnded' /\ ConfirmedEnded' /\ ToldTraced'
  BY <1>2, <1>3, <1>4, <1>5, RowsFrame
<1>7. ASSUME NEW w \in Workers
      PROVE  Raising(w)' /\ Closing(w)'
  <2>1. alertWork[w].at = "creating" => Alerts!OpenOf(alertWork[w].entity)' = {}
    BY <1>2 DEF AlertIInv, Raising, Alerts!OpenOf
  <2> QED  BY <1>2, <1>3, <1>4, <2>1, OthersKnow
<1>8. CreatesAlone' /\ OneOpenEach'
  BY <1>2 DEF AlertIInv, CreatesAlone, OneOpenEach, Alerts!OpenOf
<1> QED  BY <1>3, <1>6, <1>7, <1>8 DEF AlertIInv
LEMMA CloseStep ==
    ASSUME AlertIInv, NEW w \in Workers, NEW k \in Closures, NEW a \in Alerts!Alerts, NEW t \in Tokens, Alerts!Close(w, k, a, t)
    PROVE  AlertIInv'
<1>1. AlertTyped
  BY DEF AlertIInv
<1>2. /\ alertWork[w].at = "idle" /\ Alerts!Exists(a)
      /\ closure[k].status # None => closure[k].alert = a
      /\ UNCHANGED <<verification, raised, letter, warned, approved, exhausted, toldFailed, closedBy>>
  BY DEF Alerts!Close, Alerts!At
<1>3. closure[k] \in ClosureRows
  BY <1>1 DEF AlertTyped
<1>4. \A e \in Alerts!Entities : Len(raised[e]) \in Nat
  BY <1>1, LenProperties DEF AlertTyped
<1>5. \A b \in Alerts!Alerts : Ended(b)' <=> Ended(b)
  BY <1>2 DEF Ended, Alerts!Exists, Alerts!Status
<1>6. /\ OneOpenEach'
      /\ \A v \in Workers :
            alertWork'[v] = alertWork[v] /\ alertWork[v].at = "creating" => Alerts!OpenOf(alertWork[v].entity)' = {}
  BY <1>2 DEF AlertIInv, OneOpenEach, Raising, Alerts!OpenOf
<1>7. CASE Alerts!Replayed(k)
  <2>1. confirmed' = confirmed \cup {a} /\ UNCHANGED <<closure, alertWork>>
    BY <1>7 DEF Alerts!Close
  <2>2. Ended(a) /\ closure[k].alert = a
    BY <1>2, <1>7, AlertAssumption DEF AlertIInv, CompletedEnded, Alerts!Replayed
  <2>3. AlertTyped' /\ AlertOnwards
    BY <1>1, <1>2, <1>4, <2>1 DEF AlertTyped, AlertOnwards
  <2>4. ClosedUnder' /\ Exhausted' /\ CompletedEnded' /\ ConfirmedEnded' /\ ToldTraced'
    <3>1. \A b \in confirmed' : b \in confirmed \/ Ended(b)'
      BY <1>5, <2>1, <2>2
    <3>2. \A x \in Closures : (closure[x].status = "completed")' => closure[x].status = "completed"
      BY <2>1
    <3> QED  BY <1>2, <1>5, <2>3, <3>1, <3>2, RowsFrame
  <2>5. ASSUME NEW v \in Workers
        PROVE  Raising(v)' /\ Closing(v)'
    BY <1>6, <2>1, <2>3, OthersKnow
  <2>6. CreatesAlone'
    BY <2>1 DEF AlertIInv, CreatesAlone
  <2> QED  BY <1>6, <2>3, <2>4, <2>5, <2>6 DEF AlertIInv
<1>8. CASE ~Alerts!Replayed(k)
  <2> DEFINE row == [status |-> "processing", alert |-> a, token |-> t]
             task == [at |-> "verifying", entity |-> None, key |-> k, alert |-> a, token |-> t]
  <2>1. /\ closure' = [closure EXCEPT ![k] = row] /\ alertWork' = [alertWork EXCEPT ![w] = task]
        /\ UNCHANGED confirmed
    BY <1>8 DEF Alerts!Close
  <2>2. /\ row \in ClosureRows /\ row.status = "processing" /\ row.alert = a
        /\ task \in AlertTasks /\ task.at = "verifying" /\ task.alert = a /\ task.key = k
    BY DEF ClosureRows, AlertTasks
  <2> HIDE DEF row, task
  <2>3. /\ closure'[k] = row /\ \A x \in Closures \ {k} : closure'[x] = closure[x]
        /\ alertWork'[w] = task /\ \A v \in Workers \ {w} : alertWork'[v] = alertWork[v]
    BY <1>1, <2>1 DEF AlertTyped
  <2>4. AlertTyped'
    BY <1>1, <1>2, <2>1, <2>2 DEF AlertTyped
  <2>5. AlertOnwards
    <3>1. \A x \in Closures : closure[x].status # None => closure'[x].status # None /\ closure'[x].alert = closure[x].alert
      BY <1>2, <2>2, <2>3, AlertAssumption
    <3> QED  BY <1>2, <1>4, <3>1 DEF AlertOnwards
  <2>6. ClosedUnder' /\ Exhausted' /\ CompletedEnded' /\ ConfirmedEnded' /\ ToldTraced'
    <3>1. \A x \in Closures : (closure[x].status = "completed")' => closure[x].status = "completed"
      BY <2>2, <2>3
    <3> QED  BY <1>2, <1>5, <2>1, <2>4, <2>5, <3>1, RowsFrame
  <2>7. alertWork'[w].at # "creating" /\ Raising(w)' /\ Closing(w)'
    <3>1. Alerts!Exists(a)'
      BY <1>2 DEF Alerts!Exists
    <3>2. Closing(w)'
      BY <2>2, <2>3, <3>1, AlertAssumption DEF Closing, Alerts!Exists
    <3> QED  BY <2>2, <2>3, <3>2 DEF Raising
  <2>8. CreatesAlone' /\ \A v \in Workers : Raising(v)' /\ Closing(v)'
    BY <1>6, <2>3, <2>4, <2>5, <2>7, RestKnow
  <2> QED  BY <1>6, <2>4, <2>6, <2>8 DEF AlertIInv
<1> QED  BY <1>7, <1>8

LEMMA CloseAlertStep ==
    ASSUME AlertIInv, NEW w \in Workers, Alerts!closeAlert(w)
    PROVE  AlertIInv'
<1>1. AlertTyped /\ Closing(w)
  BY DEF AlertIInv
<1>2. PICK k \in Closures, a \in Alerts!Alerts, t \in Tokens :
         k = alertWork[w].key /\ a = alertWork[w].alert /\ t = alertWork[w].token
  BY <1>1, TaskTypes DEF Alerts!closeAlert, Alerts!At
<1>3. /\ alertWork[w].at = "closing" /\ Alerts!Rest(w)
      /\ UNCHANGED <<verification, letter, warned, approved, exhausted, toldFailed>>
  BY DEF Alerts!closeAlert, Alerts!At
<1>4. Alerts!Idle \in AlertTasks /\ Alerts!Idle.at = "idle" /\ alertWork' = [alertWork EXCEPT ![w] = Alerts!Idle]
  BY <1>3 DEF Alerts!Rest, Alerts!Idle, AlertTasks
<1>5. /\ Alerts!Exists(a) /\ closure[k].status # None /\ closure[k].alert = a /\ t \in exhausted /\ approved[t] = a
  BY <1>1, <1>2, <1>3 DEF Closing
<1>6. CASE Alerts!Status(a) # "triaged"
  <2>1. UNCHANGED <<raised, closure, closedBy, confirmed>>
    BY <1>2, <1>6 DEF Alerts!closeAlert
  <2>2. /\ verification' \in [Verifications -> {None, "pass", "fail"}] /\ exhausted' \subseteq Tokens
        /\ toldFailed' \subseteq Alerts!Entities
    BY <1>1, <1>3 DEF AlertTyped
  <2> QED  BY <1>3, <1>4, <2>1, <2>2, RequestMoves
<1>7. CASE Alerts!Status(a) = "triaged"
  <2>1. /\ raised' = [raised EXCEPT ![a[1]][a[2]] = "closed"]
        /\ closure' = [closure EXCEPT ![k].status = "completed"]
        /\ closedBy' = closedBy \cup {<<a, t>>} /\ confirmed' = confirmed \cup {a}
    BY <1>2, <1>7 DEF Alerts!closeAlert
  <2>2. "closed" \in RaisedStatuses
    BY DEF RaisedStatuses
  <2>3. /\ raised' \in [Alerts!Entities -> Seq(RaisedStatuses)]
        /\ \A e \in Alerts!Entities : Len(raised[e]) \in Nat /\ Len(raised'[e]) = Len(raised[e])
        /\ \A e \in Alerts!Entities : \A n \in 1..Len(raised[e]) : raised[e][n] = "closed" => raised'[e][n] = "closed"
        /\ \A e \in Alerts!Entities : Alerts!OpenOf(e)' \subseteq Alerts!OpenOf(e)
        /\ \A b \in Alerts!Alerts : Ended(b)' <=> (Ended(b) \/ b = a)
    BY <1>5, <1>7, <2>1, <2>2, AlertMoved
  <2>4. /\ closure'[k] = [closure[k] EXCEPT !.status = "completed"] /\ closure[k] \in ClosureRows
        /\ \A x \in Closures \ {k} : closure'[x] = closure[x]
    BY <1>1, <2>1 DEF AlertTyped
  <2>5. closure'[k] \in ClosureRows /\ closure'[k].status = "completed" /\ closure'[k].alert = a
    BY <1>5, <2>4 DEF ClosureRows
  <2>6. AlertTyped'
    <3>1. closure' \in [Closures -> ClosureRows]
      BY <1>1, <2>1, <2>4, <2>5 DEF AlertTyped
    <3>2. alertWork' \in [Workers -> AlertTasks] /\ closedBy' \subseteq Alerts!Alerts \X Tokens
      BY <1>1, <1>4, <2>1 DEF AlertTyped
    <3> QED  BY <1>1, <1>3, <2>3, <3>1, <3>2 DEF AlertTyped
  <2>7. AlertOnwards
    <3>1. \A x \in Closures : closure[x].status # None => closure'[x].status # None /\ closure'[x].alert = closure[x].alert
      BY <1>5, <2>4, <2>5, AlertAssumption
    <3> QED  BY <1>3, <2>3, <3>1 DEF AlertOnwards
  <2>8. ClosedUnder' /\ Exhausted' /\ CompletedEnded' /\ ConfirmedEnded' /\ ToldTraced'
    <3>1. \A b \in Alerts!Alerts : Ended(b)' => Ended(b) \/ \E x \in Tokens : <<b, x>> \in closedBy'
      BY <2>1, <2>3
    <3>2. \A b \in Alerts!Alerts, x \in Tokens :
             <<b, x>> \in closedBy' => <<b, x>> \in closedBy \/ (x \in exhausted' /\ approved'[x] = b)
      BY <1>3, <1>5, <2>1
    <3>3. \A x \in Closures : (closure[x].status = "completed")' =>
             closure[x].status = "completed" \/ Ended(closure[x].alert)'
      <4>1. Ended(a)'
        BY <2>3
      <4>2. Ended(closure[k].alert)'
        BY <2>5, <4>1 DEF Ended, Alerts!Exists, Alerts!Status
      <4> QED  BY <2>4, <4>2
    <3>4. \A b \in confirmed' : b \in confirmed \/ Ended(b)'
      BY <2>1, <2>3
    <3>5. \A e \in toldFailed' : e \in toldFailed
      BY <1>3
    <3> QED  BY <2>1, <2>6, <2>7, <3>1, <3>2, <3>3, <3>4, <3>5, RowsFrame
  <2>9. alertWork'[w] = Alerts!Idle /\ \A v \in Workers \ {w} : alertWork'[v] = alertWork[v]
    BY <1>1, <1>4 DEF AlertTyped
  <2>10. alertWork'[w].at # "creating" /\ Raising(w)' /\ Closing(w)'
    BY <1>4, <2>9 DEF Raising, Closing
  <2>11. ASSUME NEW v \in Workers \ {w}, alertWork[v].at = "creating"
         PROVE  Alerts!OpenOf(alertWork[v].entity)' = {}
    <3>1. PICK e \in Alerts!Entities : e = alertWork[v].entity /\ Alerts!OpenOf(e) = {}
      BY <1>1, <2>11, TaskTypes DEF AlertIInv, Raising
    <3>2. Alerts!OpenOf(e)' = {}
      BY <2>3, <3>1
    <3> QED  BY <2>9, <3>1, <3>2 DEF Alerts!OpenOf
  <2>12. CreatesAlone' /\ \A v \in Workers : Raising(v)' /\ Closing(v)'
    BY <2>6, <2>7, <2>9, <2>10, <2>11, RestKnow
  <2>13. OneOpenEach'
    BY <2>3 DEF AlertIInv, OneOpenEach
  <2> QED  BY <2>6, <2>8, <2>12, <2>13 DEF AlertIInv
<1> QED  BY <1>6, <1>7
LEMMA CreateStep ==
    ASSUME AlertIInv, NEW w \in Workers, Alerts!createSystemAlert(w)
    PROVE  AlertIInv'
<1>1. AlertTyped /\ Raising(w)
  BY DEF AlertIInv
<1>2. PICK e \in Alerts!Entities : e = alertWork[w].entity
  BY <1>1, TaskTypes DEF Alerts!createSystemAlert, Alerts!At
<1>3. /\ alertWork[w].at = "creating"
      /\ UNCHANGED <<verification, letter, warned, closure, approved, exhausted, toldFailed, closedBy, confirmed>>
  BY DEF Alerts!createSystemAlert, Alerts!At
<1> DEFINE task(at) == [at |-> at, entity |-> e, key |-> None, alert |-> Alerts!NoAlert, token |-> None]
<1>4. \A at \in {"told", "failed"} : task(at) \in AlertTasks /\ task(at).at = at /\ task(at).entity = e
  BY DEF AlertTasks
<1>5. \A at : Alerts!Go(w, at) => alertWork' = [alertWork EXCEPT ![w] = task(at)]
  <2>1. ASSUME NEW at
        PROVE  [alertWork[w] EXCEPT !.at = at] = task(at)
    BY <1>1, <1>2, <1>3, TaskTypes
  <2> QED  BY <1>1, <2>1 DEF AlertTyped, Alerts!Go
<1>6. CASE Alerts!Go(w, "failed") /\ UNCHANGED raised
  <2>1. task("failed") \in AlertTasks /\ task("failed").at = "failed"
    BY <1>4
  <2>2. alertWork' = [alertWork EXCEPT ![w] = task("failed")]
    BY <1>5, <1>6
  <2>3. /\ verification' \in [Verifications -> {None, "pass", "fail"}] /\ exhausted' \subseteq Tokens
        /\ toldFailed' \subseteq Alerts!Entities
    BY <1>1, <1>3 DEF AlertTyped
  <2> HIDE DEF task
  <2> QED  BY <1>3, <1>6, <2>1, <2>2, <2>3, RequestMoves
<1>7. CASE raised' = [raised EXCEPT ![e] = Append(@, "open")] /\ Alerts!Go(w, "told")
  <2>1. /\ alertWork' = [alertWork EXCEPT ![w] = task("told")]
        /\ task("told") \in AlertTasks /\ task("told").at = "told" /\ task("told").entity = e
    BY <1>4, <1>5, <1>7
  <2> HIDE DEF task
  <2>2. alertWork'[w] = task("told") /\ \A v \in Workers \ {w} : alertWork'[v] = alertWork[v]
    BY <1>1, <2>1 DEF AlertTyped
  <2>3. /\ raised[e] \in Seq(RaisedStatuses) /\ "open" \in RaisedStatuses
        /\ \A f \in Alerts!Entities : Len(raised[f]) \in Nat
    BY <1>1, LenProperties DEF AlertTyped, RaisedStatuses
  <2>4. raised'[e] = Append(raised[e], "open") /\ \A f \in Alerts!Entities \ {e} : raised'[f] = raised[f]
    BY <1>1, <1>7 DEF AlertTyped
  <2>5. /\ raised'[e] \in Seq(RaisedStatuses) /\ Len(raised'[e]) = Len(raised[e]) + 1
        /\ raised'[e][Len(raised[e]) + 1] = "open" /\ raised'[e] # <<>>
        /\ \A n \in 1..Len(raised[e]) : raised'[e][n] = raised[e][n]
    <3>1. Append(raised[e], "open") # <<>>
      BY <2>3, AppendProperties
    <3> QED  BY <2>3, <2>4, <3>1, AppendProperties
  <2>6. AlertTyped'
    <3>1. raised' \in [Alerts!Entities -> Seq(RaisedStatuses)]
      BY <1>1, <1>7, <2>4, <2>5 DEF AlertTyped
    <3>2. alertWork' \in [Workers -> AlertTasks]
      BY <1>1, <2>1 DEF AlertTyped
    <3> QED  BY <1>1, <1>3, <3>1, <3>2 DEF AlertTyped
  <2>7. AlertOnwards
    BY <1>3, <2>3, <2>4, <2>5 DEF AlertOnwards
  <2>8. ASSUME NEW a \in Alerts!Alerts, Ended(a)'
        PROVE  Ended(a)
    <3>1. a[1] \in Alerts!Entities /\ a[2] \in Nat
      BY AlertParts, AlertAssumption
    <3>2. a[2] \in 1..Len(raised'[a[1]]) /\ raised'[a[1]][a[2]] = "closed"
      BY <2>8 DEF Ended, Alerts!Exists, Alerts!Status
    <3>3. a[2] \in 1..Len(raised[a[1]]) /\ raised[a[1]][a[2]] = "closed"
      BY <2>3, <2>4, <2>5, <3>1, <3>2, SMTT(30)
    <3> QED  BY <3>3 DEF Ended, Alerts!Exists, Alerts!Status
  <2>9. ClosedUnder' /\ Exhausted' /\ CompletedEnded' /\ ConfirmedEnded' /\ ToldTraced'
    BY <1>3, <2>6, <2>7, <2>8, RowsFrame
  <2>10. alertWork'[w].at # "creating" /\ Raising(w)' /\ Closing(w)'
    <3>1. Traced(e)'
      BY <2>5 DEF Traced
    <3> QED  BY <2>1, <2>2, <3>1 DEF Raising, Closing, Traced
  <2>11. ASSUME NEW v \in Workers \ {w}, alertWork[v].at = "creating"
         PROVE  Alerts!OpenOf(alertWork[v].entity)' = {}
    <3>1. PICK f \in Alerts!Entities : f = alertWork[v].entity /\ Alerts!OpenOf(f) = {}
      BY <1>1, <2>11, TaskTypes DEF AlertIInv, Raising
    <3>2. f # e
      BY <1>2, <1>3, <2>11, <3>1 DEF AlertIInv, CreatesAlone
    <3>3. Alerts!OpenOf(f)' = {}
      BY <2>4, <3>1, <3>2 DEF Alerts!OpenOf
    <3> QED  BY <2>2, <3>1, <3>3 DEF Alerts!OpenOf
  <2>12. CreatesAlone' /\ \A v \in Workers : Raising(v)' /\ Closing(v)'
    BY <2>2, <2>6, <2>7, <2>10, <2>11, RestKnow
  <2>13. OneOpenEach'
    <3>1. Alerts!OpenOf(e) = {}
      BY <1>1, <1>2, <1>3 DEF Raising
    <3>2. \A n \in Alerts!OpenOf(e)' : n = Len(raised[e]) + 1
      BY <2>3, <2>5, <3>1, SMTT(30) DEF Alerts!OpenOf
    <3>3. \A f \in Alerts!Entities \ {e} : Alerts!OpenOf(f)' = Alerts!OpenOf(f)
      BY <2>4 DEF Alerts!OpenOf
    <3> QED  BY <3>2, <3>3 DEF AlertIInv, OneOpenEach
  <2> QED  BY <2>6, <2>9, <2>12, <2>13 DEF AlertIInv
<1> QED  BY <1>2, <1>6, <1>7 DEF Alerts!createSystemAlert

LEMMA AlertsBegin == Alerts!Init => AlertIInv
<1> SUFFICES ASSUME Alerts!Init PROVE AlertIInv
  OBVIOUS
<1>1. Alerts!Idle \in AlertTasks /\ Alerts!Idle.at = "idle"
  BY DEF Alerts!Idle, AlertTasks
<1>2. [status |-> None, alert |-> Alerts!NoAlert, token |-> None] \in ClosureRows
  BY DEF ClosureRows
<1>3. <<>> \in Seq(RaisedStatuses) /\ Len(<<>>) = 0
  OBVIOUS
<1>4. AlertTyped
  BY <1>1, <1>2, <1>3 DEF Alerts!Init, AlertTyped
<1>5. CreatesAlone /\ \A w \in Workers : Raising(w) /\ Closing(w)
  BY <1>1 DEF Alerts!Init, CreatesAlone, Raising, Closing
<1>6. OneOpenEach
  BY <1>3 DEF Alerts!Init, OneOpenEach, Alerts!OpenOf
<1>7. \A a \in Alerts!Alerts : ~Ended(a)
  BY <1>3, AlertParts DEF Alerts!Init, Ended, Alerts!Exists
<1>8. \A k \in Closures : closure[k].status # "completed"
  BY AlertAssumption DEF Alerts!Init
<1>9. ClosedUnder /\ Exhausted /\ CompletedEnded /\ ConfirmedEnded /\ ToldTraced
  BY <1>7, <1>8 DEF Alerts!Init, ClosedUnder, Exhausted, CompletedEnded, ConfirmedEnded, ToldTraced
<1> QED  BY <1>4, <1>5, <1>6, <1>9 DEF AlertIInv

LEMMA AlertsStep == AlertIInv /\ [Alerts!Next]_Alerts!vars => AlertIInv'
<1> SUFFICES ASSUME AlertIInv, [Alerts!Next]_Alerts!vars PROVE AlertIInv'
  OBVIOUS
<1>1. CASE UNCHANGED Alerts!vars
  <2>1. UNCHANGED <<verification, raised, letter, warned, closure, approved, exhausted, alertWork, toldFailed, closedBy, confirmed>>
    BY <1>1 DEF Alerts!vars
  <2>2. AlertTyped' /\ OneOpenEach' /\ ToldTraced'
    BY <2>1 DEF AlertIInv, AlertTyped, OneOpenEach, ToldTraced, Traced, Alerts!OpenOf
  <2>3. CreatesAlone' /\ \A w \in Workers : Raising(w)' /\ Closing(w)'
    BY <2>1 DEF AlertIInv, CreatesAlone, Raising, Closing, Traced, Alerts!Exists, Alerts!OpenOf
  <2>4. ClosedUnder' /\ Exhausted' /\ CompletedEnded' /\ ConfirmedEnded'
    BY <2>1 DEF AlertIInv, ClosedUnder, Exhausted, CompletedEnded, ConfirmedEnded, Ended, Alerts!Exists, Alerts!Status
  <2> QED  BY <2>2, <2>3, <2>4 DEF AlertIInv
<1>2. CASE \E w \in Workers : (\E k \in Verifications : Alerts!VerifyRange(w, k)) \/ Alerts!VerifySeal(w)
  BY <1>2, VerifyStep
<1>3. CASE \E w \in Workers : Alerts!FindOpen(w)
  BY <1>3, FindOpenStep
<1>4. CASE \E w \in Workers : Alerts!createSystemAlert(w)
  BY <1>4, CreateStep
<1>5. CASE \E w \in Workers : Alerts!RaisingFailed(w)
  BY <1>5, RaisingFailedStep
<1>6. CASE \E w \in Workers : Alerts!AnswerFailed(w) \/ Alerts!Dies(w)
  BY <1>6, AlertRestStep
<1>7. CASE \E w \in Workers : \E k \in Closures, a \in Alerts!Alerts, t \in Tokens : Alerts!Close(w, k, a, t)
  BY <1>7, CloseStep
<1>8. CASE \E w \in Workers : Alerts!verifyDecisionToken(w)
  BY <1>8, VerifyTokenStep
<1>9. CASE \E w \in Workers : Alerts!closeAlert(w)
  BY <1>9, CloseAlertStep
<1>10. CASE \E a \in Alerts!Alerts : Alerts!Reviewed(a) \/ \E t \in Tokens : Alerts!Approve(t, a)
  BY <1>10, ReviewedStep, ApproveStep
<1>11. CASE Alerts!Altered
  BY <1>11, AlteredStep
<1> QED  BY <1>1, <1>2, <1>3, <1>4, <1>5, <1>6, <1>7, <1>8, <1>9, <1>10, <1>11 DEF Alerts!Next

LEMMA AlertsSound == AlertIInv => Alerts!TypeOK /\ Alerts!OneOpenPerEntity /\ Alerts!FailureRaised /\ Alerts!ClosedByApproval
<1> SUFFICES ASSUME AlertIInv
             PROVE  Alerts!TypeOK /\ Alerts!OneOpenPerEntity /\ Alerts!FailureRaised /\ Alerts!ClosedByApproval
  OBVIOUS
<1>1. AlertTyped
  BY DEF AlertIInv
<1>2. Alerts!TypeOK
  <2>1. ASSUME NEW e \in Alerts!Entities, NEW n \in 1..Len(raised[e])
        PROVE  raised[e][n] \in RaisedStatuses
    <3>1. raised[e] \in Seq(RaisedStatuses)
      BY <1>1 DEF AlertTyped
    <3> QED  BY <3>1, ElementOfSeq
  <2>2. \A k \in Closures : closure[k] \in ClosureRows
    BY <1>1 DEF AlertTyped
  <2>3. \A k \in Closures : closure[k].status \in {None, "processing", "completed"}
    BY <2>2 DEF ClosureRows
  <2> QED  BY <1>1, <2>1, <2>3 DEF Alerts!TypeOK, AlertTyped, RaisedStatuses
<1>3. Alerts!OneOpenPerEntity
  <2>1. ASSUME NEW e \in Alerts!Entities
        PROVE  Alerts!Cardinality(Alerts!OpenOf(e)) <= 1
    <3> DEFINE S == Alerts!OpenOf(e)
    <3>1. \A m, n \in S : m = n
      BY DEF AlertIInv, OneOpenEach
    <3> HIDE DEF S
    <3>2. Cardinality(S) <= 1
      <4>1. CASE S = {}
        BY <4>1, FS_EmptySet
      <4>2. CASE S # {}
        <5>1. PICK n \in S : TRUE
          BY <4>2
        <5>2. S = {n}
          BY <3>1, <5>1
        <5> QED  BY <5>2, FS_Singleton
      <4> QED  BY <4>1, <4>2
    <3>3. Alerts!Cardinality(S) = Cardinality(S)
      BY DEF Cardinality, IsFiniteSet, Alerts!Cardinality, Alerts!IsFiniteSet
    <3> QED  BY <3>2, <3>3 DEF S
  <2> QED  BY <2>1 DEF Alerts!OneOpenPerEntity
<1>4. Alerts!FailureRaised
  BY DEF AlertIInv, ToldTraced, Traced, Alerts!FailureRaised
<1>5. Alerts!ClosedByApproval
  <2>1. ASSUME NEW a \in Alerts!Alerts, Alerts!Exists(a), Alerts!Status(a) = "closed"
        PROVE  \E t \in exhausted : <<a, t>> \in closedBy /\ approved[t] = a
    BY <1>1, <2>1 DEF AlertIInv, ClosedUnder, Exhausted, Ended
  <2>2. ASSUME NEW x \in closedBy, NEW y \in closedBy, x[2] = y[2]
        PROVE  x = y
    <3>1. PICK a \in Alerts!Alerts, b \in Alerts!Alerts, t \in Tokens : x = <<a, t>> /\ y = <<b, t>>
      BY <1>1, <2>2 DEF AlertTyped
    <3>2. a = b
      BY <3>1 DEF AlertIInv, Exhausted
    <3> QED  BY <3>1, <3>2
  <2>3. \A a \in confirmed : Alerts!Status(a) = "closed"
    BY DEF AlertIInv, ConfirmedEnded, Ended
  <2> QED  BY <2>1, <2>2, <2>3 DEF Alerts!ClosedByApproval
<1> QED  BY <1>2, <1>3, <1>4, <1>5

-----------------------------------------------------------------------------
(* Searches page by page.  The rows that a page can hold are ordered by    *)
(* their stamps and references, newest first, and a committed row keeps    *)
(* its place: what is inserted meanwhile moves no row across a cursor.     *)

\* Of finitely many things in a strict order there is one that none is less than.
LEMMA SomeLeast ==
    ASSUME NEW S, IsFiniteSet(S), S # {}, NEW R,
           \A x \in S : <<x, x>> \notin R,
           \A x, y, z \in S : <<x, y>> \in R /\ <<y, z>> \in R => <<x, z>> \in R
    PROVE  \E x \in S : \A y \in S : <<y, x>> \notin R
<1> DEFINE Under(x) == {y \in S : <<y, x>> \in R}
           count == [x \in S |-> Cardinality(Under(x))]
           counts == {count[x] : x \in S}
<1>1. \A x \in S : IsFiniteSet(Under(x)) /\ Cardinality(Under(x)) \in Nat
  BY FS_Subset, FS_CardinalityType
<1>2. count \in [S -> Nat] /\ \A x \in S : count[x] = Cardinality(Under(x))
  BY <1>1
<1> HIDE DEF count
<1>3. PICK x \in S : \A y \in S : ~(Cardinality(Under(y)) < Cardinality(Under(x)))
  <2>1. counts \subseteq Nat /\ counts # {}
    BY <1>2
  <2>2. \A y \in S : count[y] \in counts
    OBVIOUS
  <2>3. \A n \in counts : \E y \in S : n = count[y]
    OBVIOUS
  <2> HIDE DEF counts
  <2>4. PICK n \in counts : \A m \in counts : ~(<<m, n>> \in OpToRel(<, Nat))
    BY <2>1, WFMin, NatLessThanWellFounded
  <2>5. \A m \in counts : ~(m < n)
    BY <2>1, <2>4 DEF OpToRel
  <2>6. PICK x \in S : n = count[x]
    BY <2>3
  <2>7. \A y \in S : ~(count[y] < count[x])
    BY <2>2, <2>5, <2>6
  <2> HIDE DEF Under
  <2> QED  BY <1>2, <2>7
<1>4. ASSUME NEW y \in S, <<y, x>> \in R
      PROVE  FALSE
  <2>1. Under(y) \subseteq Under(x) /\ y \in Under(x) /\ y \notin Under(y)
    BY <1>4
  <2>2. Under(y) \in SUBSET Under(x) /\ Under(y) # Under(x)
    BY <2>1
  <2>3. Cardinality(Under(y)) <= Cardinality(Under(x)) /\ Cardinality(Under(y)) # Cardinality(Under(x))
    BY <1>1, <2>2, FS_Subset
  <2>4. Cardinality(Under(y)) \in Nat /\ Cardinality(Under(x)) \in Nat
    BY <1>1
  <2> HIDE DEF Under
  <2> QED  BY <1>3, <2>3, <2>4
<1> QED  BY <1>4

Stamped == stamp \in [ReadRows -> Nat]

LEMMA NewerOrders ==
    ASSUME Stamped
    PROVE  /\ \A e \in ReadRows : ~Reads!Newer(e, e)
           /\ \A d, e \in ReadRows : d # e => Reads!Newer(d, e) \/ Reads!Newer(e, d)
           /\ \A d, e, f \in ReadRows : Reads!Newer(d, e) /\ Reads!Newer(e, f) => Reads!Newer(d, f)
           /\ \A d, e \in ReadRows : ~(Reads!Newer(d, e) /\ Reads!Newer(e, d))
BY ReadAssumption DEF Stamped, Reads!Newer

LEMMA SomeNewest ==
    ASSUME Stamped, NEW S \in SUBSET ReadRows, S # {}
    PROVE  /\ \E e \in S : \A d \in S : ~Reads!Newer(d, e)
           /\ \E e \in S : \A d \in S \ {e} : Reads!Newer(d, e)
<1>1. IsFiniteSet(S)
  BY ReadAssumption, FS_Subset
<1> DEFINE R == {x \in ReadRows \X ReadRows : Reads!Newer(x[1], x[2])}
           Q == {x \in ReadRows \X ReadRows : Reads!Newer(x[2], x[1])}
<1>2. \A d, e \in ReadRows : (<<d, e>> \in R <=> Reads!Newer(d, e)) /\ (<<d, e>> \in Q <=> Reads!Newer(e, d))
  OBVIOUS
<1>3. \E e \in S : \A d \in S : <<d, e>> \notin R
  <2>1. \A e \in S : <<e, e>> \notin R
    BY <1>2, NewerOrders
  <2>2. \A d, e, f \in S : <<d, e>> \in R /\ <<e, f>> \in R => <<d, f>> \in R
    BY <1>2, NewerOrders
  <2> HIDE DEF R
  <2> QED  BY <1>1, <2>1, <2>2, SomeLeast
<1>4. \E e \in S : \A d \in S : <<d, e>> \notin Q
  <2>1. \A e \in S : <<e, e>> \notin Q
    BY <1>2, NewerOrders
  <2>2. \A d, e, f \in S : <<d, e>> \in Q /\ <<e, f>> \in Q => <<d, f>> \in Q
    BY <1>2, NewerOrders
  <2> HIDE DEF Q
  <2> QED  BY <1>1, <2>1, <2>2, SomeLeast
<1>5. PICK e \in S : \A d \in S : ~Reads!Newer(e, d)
  BY <1>2, <1>4
<1>6. \A d \in S \ {e} : Reads!Newer(d, e)
  BY <1>5, NewerOrders
<1> QED  BY <1>2, <1>3, <1>6

\* A page that leaves rows out has an oldest row, and those left out are older than it.
LEMMA PageCuts ==
    ASSUME Stamped, NEW S \in SUBSET ReadRows, Reads!PageOf(S) # S
    PROVE  LET page == Reads!PageOf(S)
               oldest == Reads!Oldest(page)
           IN  /\ page \subseteq S /\ oldest \in page
               /\ \A e \in S \ page : Reads!Newer(oldest, e)
               /\ \A e \in page : ~Reads!Newer(oldest, e)
<1> DEFINE page == Reads!PageOf(S)
           oldest == Reads!Oldest(page)
           Before(e) == {d \in S : Reads!Newer(d, e)}
<1>1. page = {e \in S : Cardinality(Before(e)) < PageLimit}
  BY DEF Reads!PageOf, Cardinality, IsFiniteSet, Reads!Cardinality, Reads!IsFiniteSet
<1>2. \A e \in S : IsFiniteSet(Before(e)) /\ Cardinality(Before(e)) \in Nat
  BY ReadAssumption, FS_Subset, FS_CardinalityType
<1>3. page # {}
  <2>1. S # {}
    BY <1>1
  <2>2. PICK e \in S : \A d \in S : ~Reads!Newer(d, e)
    BY <2>1, SomeNewest
  <2>3. Before(e) = {}
    BY <2>2
  <2>4. Cardinality(Before(e)) = 0
    BY <2>3, FS_EmptySet
  <2> QED  BY <1>1, <2>4, ReadAssumption
<1>4. oldest \in page /\ \A e \in page \ {oldest} : Reads!Newer(e, oldest)
  <2>1. \E e \in page : \A d \in page \ {e} : Reads!Newer(d, e)
    BY <1>1, <1>3, SomeNewest
  <2> QED  BY <2>1 DEF Reads!Oldest
<1>5. ASSUME NEW e \in S \ page
      PROVE  Reads!Newer(oldest, e)
  <2>1. oldest \in S /\ oldest # e
    BY <1>1, <1>4, <1>5
  <2>2. SUFFICES ASSUME Reads!Newer(e, oldest) PROVE FALSE
    BY <2>1, NewerOrders
  <2>3. Before(e) \in SUBSET Before(oldest)
    BY <2>1, <2>2, NewerOrders
  <2>4. Cardinality(Before(e)) <= Cardinality(Before(oldest))
    BY <1>2, <2>1, <2>3, FS_Subset
  <2>5. Cardinality(Before(oldest)) < PageLimit /\ ~(Cardinality(Before(e)) < PageLimit)
    BY <1>1, <1>4, <1>5
  <2>6. Cardinality(Before(e)) \in Nat /\ Cardinality(Before(oldest)) \in Nat
    BY <1>2, <2>1
  <2> QED  BY <2>4, <2>5, <2>6, ReadAssumption
<1>6. ASSUME NEW e \in page
      PROVE  ~Reads!Newer(oldest, e)
  BY <1>1, <1>4, <1>6, NewerOrders
<1> QED  BY <1>1, <1>4, <1>5, <1>6

-----------------------------------------------------------------------------
Cursors == [stamp : Nat, row : Nat]
Searches ==
    [at : {"idle", "allowed", "ready", "sent", "end"}, tier : BOOLEAN, cursor : Cursors \cup {None},
     pages : Seq(SUBSET ReadRows), next : Cursors \cup {None}, page : SUBSET ReadRows, requests : 0..MaxRequests]

ReadTyped ==
    /\ Stamped /\ clock \in 0..MaxReadTime /\ \A e \in ReadRows : stamp[e] <= MaxReadTime
    /\ inserting \subseteq ReadRows \ visible /\ visible \subseteq ReadRows /\ matching \subseteq ReadRows
    /\ reader \in [Readers -> Searches] /\ steady \in [Readers -> SUBSET ReadRows]

Got(s) == UNION {s.pages[n] : n \in 1..Len(s.pages)}
Below(d, c) == d.stamp < c.stamp \/ (d.stamp = c.stamp /\ d.row < c.row)

\* No row is on two pages; what a search is yet to be given comes before its cursor, and what it
\* has been given does not.
Apart(s) ==
    /\ \A n \in 1..Len(s.pages) : s.pages[n] \subseteq visible
    /\ \A m, n \in 1..Len(s.pages) : m # n => s.pages[m] \cap s.pages[n] = {}
    /\ s.page \subseteq visible
Ahead(s, kept) ==
    s.at # "end" =>
       /\ s.cursor \in Cursors /\ (s.pages = <<>> => s.cursor = Reads!Newest)
       /\ \A e \in kept : e \in Got(s) \/ Reads!Before(e, s.cursor)
       /\ \A e \in Got(s) : ~Reads!Before(e, s.cursor)
Answered(s, kept) ==
    s.at = "sent" =>
       /\ \A e \in s.page : Reads!Before(e, s.cursor)
       /\ s.next = None => kept \subseteq Got(s) \cup s.page
       /\ s.next # None =>
             /\ Below(s.next, s.cursor)
             /\ \A e \in kept : e \in Got(s) \cup s.page \/ Reads!Before(e, s.next)
             /\ \A e \in s.page : ~Reads!Before(e, s.next)
ReadOver(s, kept) == s.at = "end" => kept \subseteq Got(s)
Walk(r) ==
    /\ steady[r] \subseteq visible \cap matching
    /\ Apart(reader[r]) /\ Ahead(reader[r], steady[r]) /\ Answered(reader[r], steady[r]) /\ ReadOver(reader[r], steady[r])

ReadIInv == ReadTyped /\ (\A r \in Readers : Walk(r)) /\ Reads!DisclosedIsLogged

\* Rows that come move no committed one across a cursor.
LEMMA WalkStays ==
    ASSUME ReadTyped, NEW r \in Readers, Walk(r), reader'[r] = reader[r], steady'[r] \subseteq steady[r],
           visible \subseteq visible', steady'[r] \subseteq matching', \A e \in visible : stamp'[e] = stamp[e]
    PROVE  Walk(r)'
<1> DEFINE s == reader[r]
<1>1. Got(s) \subseteq visible
  BY DEF Walk, Apart, Got
<1>2. \A e \in visible, c \in Cursors : Reads!Before(e, c)' <=> Reads!Before(e, c)
  BY DEF Reads!Before
<1>3. s.cursor \in Cursors \cup {None} /\ s.next \in Cursors \cup {None}
  BY DEF ReadTyped, Searches
<1>4. Apart(s)'
  BY DEF Walk, Apart
<1>5. Got(s)' = Got(s)
  BY DEF Got
<1>6. Ahead(reader[r], steady[r])'
  <2>1. SUFFICES ASSUME s.at # "end" PROVE Ahead(reader[r], steady[r])'
    BY DEF Ahead
  <2>2. s.cursor \in Cursors /\ (s.pages = <<>> => s.cursor = Reads!Newest)
    BY <2>1 DEF Walk, Ahead
  <2>3. \A e \in steady'[r] : e \in Got(s) \/ Reads!Before(e, s.cursor)'
    BY <1>2, <2>1, <2>2 DEF Walk, Ahead, Reads!Before
  <2>4. \A e \in Got(s) : ~Reads!Before(e, s.cursor)'
    BY <1>1, <1>2, <2>1, <2>2 DEF Walk, Ahead, Reads!Before
  <2> QED  BY <1>5, <2>2, <2>3, <2>4 DEF Ahead, Reads!Newest, Reads!Before
<1>7. Answered(reader[r], steady[r])'
  <2>1. SUFFICES ASSUME s.at = "sent" PROVE Answered(reader[r], steady[r])'
    BY DEF Answered
  <2>2. s.cursor \in Cursors
    BY <2>1 DEF Walk, Ahead
  <2>3. \A e \in s.page : Reads!Before(e, s.cursor)'
    BY <1>2, <2>1, <2>2 DEF Walk, Answered, Apart, Reads!Before
  <2>4. s.next = None => steady'[r] \subseteq Got(s) \cup s.page
    BY <2>1 DEF Walk, Answered
  <2>5. ASSUME s.next # None
        PROVE  /\ Below(s.next, s.cursor)
               /\ \A e \in steady'[r] : e \in Got(s) \cup s.page \/ Reads!Before(e, s.next)'
               /\ \A e \in s.page : ~Reads!Before(e, s.next)'
    <3>1. s.next \in Cursors
      BY <1>3, <2>5
    <3>2. \A e \in steady'[r] : e \in Got(s) \cup s.page \/ Reads!Before(e, s.next)'
      BY <1>2, <2>1, <2>5, <3>1 DEF Walk, Answered, Reads!Before
    <3>3. \A e \in s.page : ~Reads!Before(e, s.next)'
      BY <1>2, <2>1, <2>5, <3>1 DEF Walk, Answered, Apart, Reads!Before
    <3> QED  BY <2>1, <2>5, <3>2, <3>3 DEF Walk, Answered
  <2> QED  BY <1>5, <2>3, <2>4, <2>5 DEF Answered, Reads!Before, Below
<1>8. ReadOver(reader[r], steady[r])'
  BY <1>5 DEF Walk, ReadOver
<1> QED  BY <1>4, <1>6, <1>7, <1>8 DEF Walk

LEMMA RowStep ==
    ASSUME ReadIInv,
           \/ Reads!Tick
           \/ \E e \in ReadRows : Reads!Insert(e) \/ Reads!Commit(e) \/ Reads!Move(e)
           \/ \E r \in Readers : Reads!Revoke(r)
    PROVE  ReadIInv'
<1>1. ReadTyped
  BY DEF ReadIInv
<1>2. /\ UNCHANGED <<reader, log, shown>> /\ visible \subseteq visible'
      /\ \A d \in visible : stamp'[d] = stamp[d]
  BY <1>1 DEF Reads!Tick, Reads!Insert, Reads!Commit, Reads!Move, Reads!Revoke, ReadTyped, Stamped
<1>3. \A v \in Readers : steady'[v] \subseteq steady[v] /\ steady'[v] \subseteq matching'
  <2>1. CASE UNCHANGED <<matching, steady>>
    BY <2>1 DEF ReadIInv, Walk
  <2>2. CASE \E e \in ReadRows : Reads!Move(e)
    BY <2>2 DEF ReadIInv, Walk, Reads!Move
  <2> QED  BY <2>1, <2>2 DEF Reads!Tick, Reads!Insert, Reads!Commit, Reads!Revoke
<1>4. ReadTyped'
  <2>1. CASE Reads!Tick
    BY <1>1, <2>1, ReadAssumption DEF Reads!Tick, ReadTyped, Stamped
  <2>2. CASE \E e \in ReadRows : Reads!Insert(e)
    BY <1>1, <2>2, ReadAssumption DEF Reads!Insert, ReadTyped, Stamped
  <2>3. CASE \E e \in ReadRows : Reads!Commit(e)
    BY <1>1, <2>3 DEF Reads!Commit, ReadTyped, Stamped
  <2>4. CASE \E e \in ReadRows : Reads!Move(e)
    BY <1>1, <2>4 DEF Reads!Move, ReadTyped, Stamped
  <2>5. CASE \E r \in Readers : Reads!Revoke(r)
    BY <1>1, <2>5 DEF Reads!Revoke, ReadTyped, Stamped
  <2> QED  BY <2>1, <2>2, <2>3, <2>4, <2>5
<1>5. \A v \in Readers : Walk(v)'
  BY <1>1, <1>2, <1>3, WalkStays DEF ReadIInv
<1>6. Reads!DisclosedIsLogged'
  BY <1>2 DEF ReadIInv, Reads!DisclosedIsLogged
<1> QED  BY <1>4, <1>5, <1>6 DEF ReadIInv

LEMMA SearchFrame ==
    ASSUME ReadIInv, NEW r \in Readers, NEW s \in Searches, reader' = [reader EXCEPT ![r] = s],
           UNCHANGED <<clock, inserting, stamp, visible, matching>>,
           steady' \in [Readers -> SUBSET ReadRows], \A v \in Readers \ {r} : steady'[v] = steady[v],
           steady'[r] \subseteq visible \cap matching,
           Apart(s), Ahead(s, steady'[r]), Answered(s, steady'[r]), ReadOver(s, steady'[r]),
           Reads!DisclosedIsLogged'
    PROVE  ReadIInv'
<1>1. ReadTyped
  BY DEF ReadIInv
<1>2. reader'[r] = s /\ \A v \in Readers \ {r} : reader'[v] = reader[v]
  BY <1>1 DEF ReadTyped
<1>3. ReadTyped'
  BY <1>1 DEF ReadTyped, Stamped
<1>4. ASSUME NEW v \in Readers \ {r}
      PROVE  Walk(v)'
  <2>1. steady'[v] \subseteq matching'
    BY DEF ReadIInv, Walk
  <2> QED  BY <1>1, <1>2, <2>1, WalkStays DEF ReadIInv
<1>5. Walk(r)'
  <2>1. Apart(reader[r])'
    BY <1>2 DEF Apart
  <2>2. Ahead(reader[r], steady[r])'
    BY <1>2 DEF Ahead, Got, Reads!Newest, Reads!Before
  <2>3. Answered(reader[r], steady[r])'
    BY <1>2 DEF Answered, Got, Below, Reads!Before
  <2>4. ReadOver(reader[r], steady[r])'
    BY <1>2 DEF ReadOver, Got
  <2> QED  BY <2>1, <2>2, <2>3, <2>4 DEF Walk
<1> QED  BY <1>3, <1>4, <1>5 DEF ReadIInv

\* A step of a search that receives no page.
LEMMA SearchGoes ==
    ASSUME ReadIInv, NEW r \in Readers, reader[r].at # "end",
           NEW s \in Searches, s.at \in {"idle", "allowed", "ready"}, s.cursor = reader[r].cursor,
           s.pages = reader[r].pages, s.page \in {reader[r].page, {}},
           reader' = [reader EXCEPT ![r] = s],
           UNCHANGED <<clock, inserting, stamp, visible, matching, steady>>,
           Reads!DisclosedIsLogged'
    PROVE  ReadIInv'
<1>1. ReadTyped /\ Walk(r)
  BY DEF ReadIInv
<1>2. Apart(s)
  BY <1>1 DEF Walk, Apart
<1>3. Got(s) = Got(reader[r])
  BY DEF Got
<1>4. Ahead(s, steady'[r]) /\ Answered(s, steady'[r]) /\ ReadOver(s, steady'[r])
  BY <1>1, <1>3 DEF Walk, Ahead, Answered, ReadOver
<1>5. steady'[r] \subseteq visible \cap matching /\ steady' \in [Readers -> SUBSET ReadRows]
  BY <1>1 DEF Walk, ReadTyped
<1> QED  BY <1>2, <1>4, <1>5, SearchFrame

LEMMA SearchRequestStep ==
    ASSUME ReadIInv, NEW r \in Readers, Reads!Request(r)
    PROVE  ReadIInv'
<1>1. ReadTyped /\ Walk(r)
  BY DEF ReadIInv
<1> DEFINE old == reader[r]
<1>2. old \in Searches /\ old.at = "idle" /\ old.requests + 1 \in 0..MaxRequests
  <2>1. old \in Searches /\ old.requests \in 0..MaxRequests
    BY <1>1 DEF ReadTyped, Searches
  <2> QED  BY <2>1, ReadAssumption DEF Reads!Request, Reads!At
<1>3. PICK s \in Searches :
         /\ s.at \in {"idle", "allowed"} /\ s.cursor = old.cursor /\ s.pages = old.pages /\ s.page = old.page
         /\ reader' = [reader EXCEPT ![r] = s]
  <2> DEFINE allowed == [old EXCEPT !.at = "allowed", !.requests = @ + 1]
             refused == [old EXCEPT !.at = "idle", !.tier = FALSE, !.requests = @ + 1]
  <2> HIDE DEF old
  <2>1. /\ allowed \in Searches /\ allowed.at = "allowed" /\ allowed.cursor = old.cursor
        /\ allowed.pages = old.pages /\ allowed.page = old.page
    BY <1>2 DEF Searches
  <2>2. /\ refused \in Searches /\ refused.at = "idle" /\ refused.cursor = old.cursor
        /\ refused.pages = old.pages /\ refused.page = old.page
    BY <1>2 DEF Searches
  <2>3. reader' = [reader EXCEPT ![r] = allowed] \/ reader' = [reader EXCEPT ![r] = refused]
    BY <1>1 DEF Reads!Request, Reads!Refused, ReadTyped, old
  <2> HIDE DEF allowed, refused
  <2> QED  BY <2>1, <2>2, <2>3
<1>4. /\ UNCHANGED <<clock, inserting, stamp, visible, matching, log, shown>>
      /\ \A v \in Readers \ {r} : steady'[v] = steady[v]
      /\ steady' \in [Readers -> SUBSET ReadRows]
      /\ IF old.pages = <<>> THEN steady'[r] = visible \cap matching ELSE steady'[r] = steady[r]
  BY <1>1 DEF Reads!Request, ReadTyped
<1>5. steady'[r] \subseteq visible \cap matching
  BY <1>1, <1>4 DEF Walk
<1>6. Apart(s)
  BY <1>1, <1>3 DEF Walk, Apart
<1>7. Got(s) = Got(old)
  BY <1>3 DEF Got
<1>8. Ahead(s, steady'[r])
  <2>1. CASE old.pages = <<>>
    <3>1. s.cursor = Reads!Newest /\ s.cursor \in Cursors
      BY <1>1, <1>2, <1>3, <2>1 DEF Walk, Ahead
    <3>2. \A e \in ReadRows : Reads!Before(e, s.cursor)
      BY <1>1, <3>1, ReadAssumption DEF Reads!Newest, Reads!Before, ReadTyped, Stamped
    <3>3. \A e \in steady'[r] : Reads!Before(e, s.cursor)
      BY <1>1, <1>5, <3>2 DEF ReadTyped
    <3>4. \A e \in Got(s) : ~Reads!Before(e, s.cursor)
      BY <1>1, <1>2, <1>3, <1>7 DEF Walk, Ahead
    <3> QED  BY <3>1, <3>3, <3>4 DEF Ahead
  <2>2. CASE old.pages # <<>>
    BY <1>1, <1>2, <1>3, <1>4, <1>7, <2>2 DEF Walk, Ahead
  <2> QED  BY <2>1, <2>2
<1>9. Answered(s, steady'[r]) /\ ReadOver(s, steady'[r])
  BY <1>3 DEF Answered, ReadOver
<1>10. Reads!DisclosedIsLogged'
  BY <1>4 DEF ReadIInv, Reads!DisclosedIsLogged
<1> QED  BY <1>3, <1>4, <1>5, <1>6, <1>8, <1>9, <1>10, SearchFrame

LEMMA AskTierStep ==
    ASSUME ReadIInv, NEW r \in Readers, Reads!AskTier(r)
    PROVE  ReadIInv'
<1>1. ReadTyped
  BY DEF ReadIInv
<1> DEFINE old == reader[r]
<1>2. old \in Searches /\ old.at = "allowed" /\ UNCHANGED <<clock, inserting, stamp, visible, matching, steady, log, shown>>
  BY <1>1 DEF ReadTyped, Reads!AskTier, Reads!At
<1>3. PICK tier \in BOOLEAN : reader' = [reader EXCEPT ![r].at = "ready", ![r].tier = tier]
  <2>1. PICK asked \in {FALSE, (r \in permitted)} : reader' = [reader EXCEPT ![r].at = "ready", ![r].tier = asked]
    BY DEF Reads!AskTier
  <2>2. FALSE \in BOOLEAN /\ (r \in permitted) \in BOOLEAN
    OBVIOUS
  <2>3. asked \in BOOLEAN
    BY <2>2, Zenon
  <2> QED  BY <2>1, <2>3
<1>4. PICK s \in Searches :
         /\ s.at = "ready" /\ s.cursor = old.cursor /\ s.pages = old.pages /\ s.page = old.page
         /\ reader' = [reader EXCEPT ![r] = s]
  <2> DEFINE ready == [old EXCEPT !.at = "ready", !.tier = tier]
  <2>1. reader' = [reader EXCEPT ![r] = ready]
    BY <1>1, <1>3 DEF ReadTyped
  <2> HIDE DEF old
  <2>2. /\ ready \in Searches /\ ready.at = "ready" /\ ready.cursor = old.cursor
        /\ ready.pages = old.pages /\ ready.page = old.page
    BY <1>2 DEF Searches
  <2> HIDE DEF ready
  <2> QED  BY <2>1, <2>2
<1>5. Reads!DisclosedIsLogged'
  BY <1>2 DEF ReadIInv, Reads!DisclosedIsLogged
<1> QED  BY <1>2, <1>4, <1>5, SearchGoes

LEMMA PageStep ==
    ASSUME ReadIInv, NEW r \in Readers, reader[r].at \in {"allowed", "ready"}, Reads!Page(r),
           UNCHANGED <<clock, inserting, stamp, visible, matching, steady>>,
           Reads!DisclosedIsLogged'
    PROVE  ReadIInv'
<1>1. ReadTyped /\ Walk(r)
  BY DEF ReadIInv
<1> DEFINE old == reader[r]
           found == Reads!Found(old.cursor)
           page == Reads!PageOf(found)
           oldest == Reads!Oldest(page)
<1>2. old \in Searches /\ old.cursor \in Cursors /\ old.at # "end"
  BY <1>1 DEF ReadTyped, Walk, Ahead
<1>3. /\ found \in SUBSET ReadRows /\ found \subseteq visible /\ page \subseteq found
      /\ \A e \in found : Reads!Before(e, old.cursor)
      /\ \A e \in visible \cap matching : Reads!Before(e, old.cursor) => e \in found
  BY <1>1 DEF ReadTyped, Reads!Found, Reads!PageOf
<1>4. page # found =>
         /\ oldest \in page
         /\ \A e \in found \ page : Reads!Newer(oldest, e)
         /\ \A e \in page : ~Reads!Newer(oldest, e)
  BY <1>1, <1>3, PageCuts DEF ReadTyped
<1>5. PICK next \in Cursors \cup {None} :
         /\ reader' = [reader EXCEPT ![r].at = "sent", ![r].page = page, ![r].next = next]
         /\ page = found => next = None
         /\ page # found => next = [stamp |-> stamp[oldest], row |-> oldest] /\ next \in Cursors
  <2>1. CASE page = found
    <3>1. reader' = [reader EXCEPT ![r].at = "sent", ![r].page = page, ![r].next = None]
      BY <2>1 DEF Reads!Page
    <3> HIDE DEF page, found
    <3> QED  BY <2>1, <3>1
  <2>2. CASE page # found
    <3>1. reader' = [reader EXCEPT ![r].at = "sent", ![r].page = page, ![r].next = [stamp |-> stamp[oldest], row |-> oldest]]
      BY <2>2 DEF Reads!Page
    <3>2. stamp[oldest] \in Nat /\ oldest \in Nat
      BY <1>1, <1>3, <1>4, <2>2, ReadAssumption DEF ReadTyped, Stamped
    <3>3. [stamp |-> stamp[oldest], row |-> oldest] \in Cursors
      BY <3>2 DEF Cursors
    <3> HIDE DEF page, found, oldest
    <3> QED  BY <2>2, <3>1, <3>3
  <2> QED  BY <2>1, <2>2
<1> DEFINE s == [old EXCEPT !.at = "sent", !.page = page, !.next = next]
<1>6. reader' = [reader EXCEPT ![r] = s]
  BY <1>1, <1>5 DEF ReadTyped
<1>7. /\ s \in Searches /\ s.at = "sent" /\ s.cursor = old.cursor /\ s.pages = old.pages
      /\ s.page = page /\ s.next = next
  <2>1. page \in SUBSET ReadRows
    BY <1>3
  <2> HIDE DEF page, old
  <2> QED  BY <1>2, <1>5, <2>1 DEF Searches
<1> HIDE DEF s
<1>8. Apart(s)
  BY <1>1, <1>3, <1>7 DEF Walk, Apart
<1>9. Got(s) = Got(old)
  BY <1>7 DEF Got
<1>10. Ahead(s, steady'[r]) /\ ReadOver(s, steady'[r])
  BY <1>1, <1>2, <1>7, <1>9 DEF Walk, Ahead, ReadOver
<1>11. Answered(s, steady'[r])
  <2>1. \A e \in s.page : Reads!Before(e, s.cursor)
    BY <1>3, <1>7
  <2>2. \A e \in steady'[r] : e \in Got(s) \/ e \in found
    BY <1>1, <1>2, <1>3, <1>9 DEF Walk, Ahead
  <2>3. CASE page = found
    BY <1>5, <1>7, <2>1, <2>2, <2>3 DEF Answered
  <2>4. CASE page # found
    <3>1. next = [stamp |-> stamp[oldest], row |-> oldest] /\ next # None
      BY <1>5, <2>4, ReadAssumption DEF Cursors
    <3>2. \A e \in ReadRows : Reads!Before(e, next) <=> Reads!Newer(oldest, e)
      BY <3>1 DEF Reads!Before, Reads!Newer
    <3>3. Below(next, old.cursor)
      <4>1. oldest \in page /\ Reads!Before(oldest, old.cursor)
        BY <1>3, <1>4, <2>4
      <4> QED  BY <3>1, <4>1 DEF Below, Reads!Before
    <3>4. \A e \in found : e \in page \/ Reads!Before(e, next)
      BY <1>3, <1>4, <2>4, <3>2
    <3>5. \A e \in page : ~Reads!Before(e, next)
      BY <1>3, <1>4, <2>4, <3>2
    <3> HIDE DEF page, found, old
    <3> QED  BY <1>7, <2>1, <2>2, <3>1, <3>3, <3>4, <3>5 DEF Answered
  <2> QED  BY <2>3, <2>4
<1>12. steady'[r] \subseteq visible \cap matching /\ steady' \in [Readers -> SUBSET ReadRows]
  BY <1>1 DEF Walk, ReadTyped
<1> QED  BY <1>6, <1>7, <1>8, <1>10, <1>11, <1>12, SearchFrame

LEMMA SearchEventsStep ==
    ASSUME ReadIInv, NEW r \in Readers, Reads!searchAuditEvents(r)
    PROVE  ReadIInv'
<1>1. ReadTyped
  BY DEF ReadIInv
<1> DEFINE old == reader[r]
           disclosed == Reads!redactAuditEventRow(r)
<1>2. old \in Searches /\ old.at = "ready" /\ UNCHANGED <<clock, inserting, stamp, visible, matching, steady>>
  BY <1>1 DEF ReadTyped, Reads!searchAuditEvents, Reads!At
<1>3. Reads!DisclosedIsLogged'
  <2>1. CASE UNCHANGED <<log, shown>>
    BY <2>1 DEF ReadIInv, Reads!DisclosedIsLogged
  <2>2. CASE /\ IF disclosed = {} THEN UNCHANGED log ELSE Reads!writeSensitiveReadLog(r)
             /\ shown' = shown \cup {<<r, reader[r].requests, e>> : e \in disclosed}
    <3> HIDE DEF disclosed
    <3>1. log \subseteq log' /\ (disclosed # {} => <<r, reader[r].requests>> \in log')
      BY <2>2 DEF Reads!writeSensitiveReadLog
    <3>2. ASSUME NEW show \in shown'
          PROVE  <<show[1], show[2]>> \in log'
      <4>1. CASE show \in shown
        BY <3>1, <4>1 DEF ReadIInv, Reads!DisclosedIsLogged
      <4>2. CASE show \notin shown
        <5>1. PICK e \in disclosed : show = <<r, reader[r].requests, e>>
          BY <2>2, <4>2
        <5> QED  BY <3>1, <5>1
      <4> QED  BY <4>1, <4>2
    <3> QED  BY <3>2 DEF Reads!DisclosedIsLogged
  <2> QED  BY <2>1, <2>2 DEF Reads!searchAuditEvents
<1>4. CASE Reads!Page(r)
  BY <1>2, <1>3, <1>4, PageStep
<1>5. CASE reader' = [reader EXCEPT ![r].at = "idle", ![r].tier = FALSE]
  <2> DEFINE s == [old EXCEPT !.at = "idle", !.tier = FALSE]
  <2>1. reader' = [reader EXCEPT ![r] = s]
    BY <1>1, <1>5 DEF ReadTyped
  <2> HIDE DEF old
  <2>2. /\ s \in Searches /\ s.at = "idle" /\ s.cursor = old.cursor /\ s.pages = old.pages /\ s.page = old.page
    BY <1>2 DEF Searches
  <2> HIDE DEF s
  <2>3. old = reader[r]
    BY DEF old
  <2> QED  BY <1>2, <1>3, <2>1, <2>2, <2>3, SearchGoes
<1> QED  BY <1>4, <1>5 DEF Reads!searchAuditEvents

LEMMA SearchAlertsStep ==
    ASSUME ReadIInv, NEW r \in Readers, Reads!searchAlerts(r)
    PROVE  ReadIInv'
<1>1. Reads!DisclosedIsLogged'
  BY DEF ReadIInv, Reads!DisclosedIsLogged, Reads!searchAlerts
<1> QED  BY <1>1, PageStep DEF Reads!searchAlerts, Reads!At

LEMMA ReadOneStep ==
    ASSUME ReadIInv, NEW r \in Readers, NEW e \in ReadRows, Reads!ReadOne(r, e)
    PROVE  ReadIInv'
<1>1. ReadTyped
  BY DEF ReadIInv
<1> DEFINE old == reader[r]
<1>2. /\ old \in Searches /\ old.at = "ready" /\ UNCHANGED <<clock, inserting, stamp, visible, matching, steady>>
      /\ reader' = [reader EXCEPT ![r].at = "idle", ![r].tier = FALSE]
  BY <1>1 DEF ReadTyped, Reads!ReadOne, Reads!At
<1>3. Reads!DisclosedIsLogged'
  <2>1. \/ UNCHANGED <<log, shown>>
        \/ UNCHANGED shown /\ log \subseteq log'
        \/ log' = log \cup {<<r, reader[r].requests>>} /\ shown' = shown \cup {<<r, reader[r].requests, e>>}
    BY DEF Reads!ReadOne, Reads!writeSensitiveReadLog
  <2>2. \A show \in shown' :
           show \in shown \/ (show = <<r, reader[r].requests, e>> /\ <<r, reader[r].requests>> \in log')
    BY <2>1
  <2>3. log \subseteq log'
    BY <2>1
  <2>4. ASSUME NEW show \in shown'
        PROVE  <<show[1], show[2]>> \in log'
    BY <2>2, <2>3 DEF ReadIInv, Reads!DisclosedIsLogged
  <2> QED  BY <2>4 DEF Reads!DisclosedIsLogged
<1>4. PICK s \in Searches :
         /\ s.at = "idle" /\ s.cursor = old.cursor /\ s.pages = old.pages /\ s.page = old.page
         /\ reader' = [reader EXCEPT ![r] = s]
  <2> DEFINE s == [old EXCEPT !.at = "idle", !.tier = FALSE]
  <2>1. reader' = [reader EXCEPT ![r] = s]
    BY <1>1, <1>2 DEF ReadTyped
  <2> HIDE DEF old
  <2>2. /\ s \in Searches /\ s.at = "idle" /\ s.cursor = old.cursor /\ s.pages = old.pages /\ s.page = old.page
    BY <1>2 DEF Searches
  <2> HIDE DEF s
  <2> QED  BY <2>1, <2>2
<1> QED  BY <1>2, <1>3, <1>4, SearchGoes

LEMMA LostStep ==
    ASSUME ReadIInv, NEW r \in Readers, Reads!Lost(r)
    PROVE  ReadIInv'
<1>1. ReadTyped
  BY DEF ReadIInv
<1> DEFINE old == reader[r]
           s == [Reads!NoSearch EXCEPT !.requests = old.requests, !.pages = old.pages, !.cursor = old.cursor]
<1>2. /\ old \in Searches /\ old.at = "sent" /\ UNCHANGED <<clock, inserting, stamp, visible, matching, steady, log, shown>>
      /\ reader' = [reader EXCEPT ![r] = s]
  BY <1>1 DEF ReadTyped, Reads!Lost, Reads!At
<1>3. s \in Searches /\ s.at = "idle" /\ s.cursor = old.cursor /\ s.pages = old.pages /\ s.page = {}
  <2>1. Reads!NoSearch \in Searches /\ Reads!NoSearch.at = "idle" /\ Reads!NoSearch.page = {}
    BY ReadAssumption DEF Reads!NoSearch, Reads!Newest, Searches, Cursors
  <2> HIDE DEF old
  <2> QED  BY <1>2, <2>1 DEF Searches
<1>4. Reads!DisclosedIsLogged'
  BY <1>2 DEF ReadIInv, Reads!DisclosedIsLogged
<1> HIDE DEF s
<1> QED  BY <1>2, <1>3, <1>4, SearchGoes

LEMMA ReceiveStep ==
    ASSUME ReadIInv, NEW r \in Readers, Reads!Receive(r)
    PROVE  ReadIInv'
<1>1. ReadTyped /\ Walk(r)
  BY DEF ReadIInv
<1> DEFINE old == reader[r]
           at == IF old.next = None THEN "end" ELSE "idle"
           s == [Reads!NoSearch EXCEPT
                   !.at = at, !.requests = old.requests, !.pages = Append(old.pages, old.page), !.cursor = old.next]
<1>2. /\ old \in Searches /\ old.at = "sent" /\ UNCHANGED <<clock, inserting, stamp, visible, matching, steady, log, shown>>
      /\ reader' = [reader EXCEPT ![r] = s]
  BY <1>1 DEF ReadTyped, Reads!Receive, Reads!At
<1>3. /\ old.pages \in Seq(SUBSET ReadRows) /\ old.page \in SUBSET ReadRows /\ old.next \in Cursors \cup {None}
      /\ at \in {"end", "idle"} /\ (at = "end" <=> old.next = None)
  BY <1>2 DEF Searches
<1> DEFINE pages == Append(old.pages, old.page)
           last == Len(old.pages) + 1
<1>4. /\ pages \in Seq(SUBSET ReadRows) /\ Len(old.pages) \in Nat /\ Len(pages) = last /\ pages[last] = old.page
      /\ \A n \in 1..Len(old.pages) : pages[n] = old.pages[n]
  BY <1>3, AppendProperties, LenProperties
<1>5. s \in Searches /\ s.at = at /\ s.cursor = old.next /\ s.pages = pages /\ s.page = {}
  <2>1. Reads!NoSearch \in Searches /\ Reads!NoSearch.page = {}
    BY ReadAssumption DEF Reads!NoSearch, Reads!Newest, Searches, Cursors
  <2>2. old.requests \in 0..MaxRequests
    BY <1>2 DEF Searches
  <2> HIDE DEF old, at, pages
  <2> QED  BY <1>3, <1>4, <2>1, <2>2 DEF Searches, pages
<1>6. pages # <<>>
  <2>1. Append(old.pages, old.page) # <<>>
    BY <1>3, AppendProperties
  <2> QED  BY <2>1
<1> HIDE DEF s, at, pages
<1>7. Got(s) = Got(old) \cup old.page
  <2>1. ASSUME NEW e \in Got(s)
        PROVE  e \in Got(old) \cup old.page
    <3>1. PICK n \in 1..last : e \in pages[n]
      BY <1>4, <1>5 DEF Got
    <3> QED  BY <1>4, <3>1, SMTT(30) DEF Got
  <2>2. ASSUME NEW e \in Got(old)
        PROVE  e \in Got(s)
    <3>1. PICK n \in 1..Len(old.pages) : e \in old.pages[n]
      BY DEF Got
    <3>2. n \in 1..last /\ e \in pages[n]
      BY <1>4, <3>1
    <3> QED  BY <1>4, <1>5, <3>2 DEF Got
  <2>3. old.page \subseteq Got(s)
    <3>1. last \in 1..last
      BY <1>4
    <3> QED  BY <1>4, <1>5, <3>1 DEF Got
  <2> QED  BY <2>1, <2>2, <2>3
<1>8. /\ \A e \in old.page : Reads!Before(e, old.cursor)
      /\ \A e \in Got(old) : ~Reads!Before(e, old.cursor)
      /\ old.cursor \in Cursors
  BY <1>1, <1>2 DEF Walk, Answered, Ahead
<1>9. Apart(s)
  <2>1. \A n \in 1..last : pages[n] \subseteq visible
    BY <1>1, <1>4, SMTT(30) DEF Walk, Apart
  <2>2. \A n \in 1..Len(old.pages) : old.pages[n] \subseteq Got(old)
    BY DEF Got
  <2>3. \A n \in 1..Len(old.pages) : pages[n] \cap old.page = {}
    BY <1>4, <1>8, <2>2
  <2>4. \A m, n \in 1..Len(old.pages) : m # n => pages[m] \cap pages[n] = {}
    BY <1>1, <1>4 DEF Walk, Apart
  <2>5. \A m, n \in 1..last : m # n => pages[m] \cap pages[n] = {}
    BY <1>4, <2>3, <2>4
  <2> QED  BY <1>4, <1>5, <2>1, <2>5 DEF Apart
<1>10. steady'[r] \subseteq visible \cap matching /\ steady' \in [Readers -> SUBSET ReadRows] /\ steady'[r] = steady[r]
  BY <1>1, <1>2 DEF Walk, ReadTyped
<1>11. Ahead(s, steady'[r])
  <2>1. SUFFICES ASSUME old.next # None PROVE Ahead(s, steady'[r])
    BY <1>3, <1>5 DEF Ahead
  <2>2. /\ old.next \in Cursors /\ Below(old.next, old.cursor)
        /\ \A e \in steady[r] : e \in Got(old) \cup old.page \/ Reads!Before(e, old.next)
        /\ \A e \in old.page : ~Reads!Before(e, old.next)
    BY <1>1, <1>2, <1>3, <2>1 DEF Walk, Answered
  <2>3. \A e \in ReadRows : Reads!Before(e, old.next) => Reads!Before(e, old.cursor)
    BY <1>1, <1>8, <2>2, ReadAssumption DEF ReadTyped, Stamped, Below, Reads!Before, Cursors
  <2>4. Got(old) \subseteq ReadRows
    BY <1>1 DEF Walk, Apart, Got, ReadTyped
  <2>5. \A e \in Got(s) : ~Reads!Before(e, old.next)
    BY <1>7, <1>8, <2>2, <2>3, <2>4
  <2> QED  BY <1>5, <1>6, <1>7, <1>10, <2>2, <2>5 DEF Ahead
<1>12. ReadOver(s, steady'[r])
  BY <1>1, <1>2, <1>3, <1>5, <1>7, <1>10 DEF Walk, Answered, ReadOver
<1>13. Answered(s, steady'[r])
  BY <1>3, <1>5 DEF Answered
<1>14. Reads!DisclosedIsLogged'
  BY <1>2 DEF ReadIInv, Reads!DisclosedIsLogged
<1> QED  BY <1>2, <1>5, <1>9, <1>10, <1>11, <1>12, <1>13, <1>14, SearchFrame

LEMMA ReadBegins == Reads!Init => ReadIInv
<1> SUFFICES ASSUME Reads!Init PROVE ReadIInv
  OBVIOUS
<1>1. Reads!NoSearch \in Searches
  BY ReadAssumption DEF Reads!NoSearch, Reads!Newest, Searches, Cursors
<1>2. /\ Reads!NoSearch.at = "idle" /\ Reads!NoSearch.pages = <<>> /\ Reads!NoSearch.page = {}
      /\ Reads!NoSearch.cursor = Reads!Newest /\ Reads!Newest \in Cursors
  BY ReadAssumption DEF Reads!NoSearch, Reads!Newest, Cursors
<1>3. ReadTyped
  BY <1>1, ReadAssumption DEF Reads!Init, ReadTyped, Stamped
<1>4. Len(<<>>) = 0
  OBVIOUS
<1>5. ASSUME NEW r \in Readers
      PROVE  Walk(r)
  <2>1. reader[r] = Reads!NoSearch /\ steady[r] = {}
    BY DEF Reads!Init
  <2>2. Got(reader[r]) = {}
    BY <1>2, <1>4, <2>1 DEF Got
  <2>3. Apart(reader[r])
    BY <1>2, <1>4, <2>1 DEF Apart
  <2>4. Ahead(reader[r], steady[r]) /\ Answered(reader[r], steady[r]) /\ ReadOver(reader[r], steady[r])
    BY <1>2, <2>1, <2>2 DEF Ahead, Answered, ReadOver
  <2> QED  BY <2>1, <2>3, <2>4 DEF Walk
<1>6. Reads!DisclosedIsLogged
  BY DEF Reads!Init, Reads!DisclosedIsLogged
<1> QED  BY <1>3, <1>5, <1>6 DEF ReadIInv

LEMMA ReadsStep == ReadIInv /\ [Reads!Next]_Reads!vars => ReadIInv'
<1> SUFFICES ASSUME ReadIInv, [Reads!Next]_Reads!vars PROVE ReadIInv'
  OBVIOUS
<1>1. CASE UNCHANGED Reads!vars
  <2>1. UNCHANGED <<clock, inserting, stamp, visible, matching, log, reader, shown, steady>>
    BY <1>1 DEF Reads!vars
  <2>2. ReadTyped /\ ReadTyped'
    BY <2>1 DEF ReadIInv, ReadTyped, Stamped
  <2>3. \A r \in Readers : Walk(r)'
    <3>1. ASSUME NEW r \in Readers
          PROVE  Walk(r)'
      <4>1. Walk(r) /\ steady'[r] \subseteq matching'
        BY <2>1 DEF ReadIInv, Walk
      <4> QED  BY <2>1, <2>2, <4>1, WalkStays
    <3> QED  BY <3>1
  <2>4. Reads!DisclosedIsLogged'
    BY <2>1 DEF ReadIInv, Reads!DisclosedIsLogged
  <2> QED  BY <2>2, <2>3, <2>4 DEF ReadIInv
<1>2. CASE Reads!Tick
  BY <1>2, RowStep
<1>3. CASE \E e \in ReadRows : Reads!Insert(e) \/ Reads!Commit(e) \/ Reads!Move(e)
  BY <1>3, RowStep
<1>4. CASE \E r \in Readers : Reads!Request(r) \/ Reads!AskTier(r)
  BY <1>4, SearchRequestStep, AskTierStep
<1>5. CASE \E r \in Readers : Reads!searchAuditEvents(r) \/ Reads!searchAlerts(r) \/ \E e \in ReadRows : Reads!ReadOne(r, e)
  BY <1>5, SearchEventsStep, SearchAlertsStep, ReadOneStep
<1>6. CASE \E r \in Readers : Reads!Receive(r) \/ Reads!Lost(r)
  BY <1>6, ReceiveStep, LostStep
<1>7. CASE \E r \in Readers : Reads!Revoke(r)
  BY <1>7, RowStep
<1> QED  BY <1>1, <1>2, <1>3, <1>4, <1>5, <1>6, <1>7 DEF Reads!Next

LEMMA ReadSound == ReadIInv => Reads!TypeOK /\ Reads!WalksAll /\ Reads!DisclosedIsLogged
<1> SUFFICES ASSUME ReadIInv PROVE Reads!TypeOK /\ Reads!WalksAll
  BY DEF ReadIInv
<1>1. Reads!TypeOK
  <2>1. ASSUME NEW r \in Readers
        PROVE  reader[r].requests \in 0..MaxRequests /\ reader[r].page \subseteq visible /\ steady[r] \subseteq visible
    <3>1. reader[r] \in Searches
      BY DEF ReadIInv, ReadTyped
    <3> QED  BY <3>1 DEF ReadIInv, Walk, Apart, Searches
  <2> QED  BY <2>1 DEF ReadIInv, ReadTyped, Reads!TypeOK
<1>2. Reads!WalksAll
  <2>1. ASSUME NEW r \in Readers
        PROVE  /\ \A m, n \in 1..Len(reader[r].pages) : m # n => reader[r].pages[m] \cap reader[r].pages[n] = {}
               /\ Reads!At(r, "end") => steady[r] \subseteq Reads!Received(r)
    BY DEF ReadIInv, Walk, Apart, ReadOver, Got, Reads!At, Reads!Received
  <2> QED  BY <2>1 DEF Reads!WalksAll
<1> QED  BY <1>1, <1>2

-----------------------------------------------------------------------------
(* The parts together.                                                     *)

LEMMA PartsBegin ==
  PlatformInit =>
     /\ Init /\ Outcome!Init /\ Stream!Init /\ Monitoring!Init /\ Alerts!Init /\ Reads!Init
     /\ Feature!Init /\ Decision!Init /\ Switch!Init /\ RateLimit!Init /\ Jobs!Init /\ Calls!Init
BY DEF PlatformInit

LEMMA AmlRests ==
  ASSUME UNCHANGED <<vars, outcomeVars>> PROVE UNCHANGED vars /\ UNCHANGED Outcome!vars
BY DEF outcomeVars, Outcome!vars

LEMMA SecRests ==
  ASSUME SecKept
  PROVE  UNCHANGED Stream!vars /\ UNCHANGED Monitoring!vars /\ UNCHANGED Alerts!vars /\ UNCHANGED Reads!vars
BY DEF SecKept, streamVars, monitorVars, alertVars, readVars, Stream!vars, Monitoring!vars, Alerts!vars, Reads!vars

LEMMA CfgRests ==
  ASSUME CfgKept PROVE UNCHANGED Feature!vars /\ UNCHANGED Decision!vars /\ UNCHANGED Switch!vars
BY DEF CfgKept, featureVars, decisionVars, switchVars, Feature!vars, Decision!vars, Switch!vars

LEMMA FndRests ==
  ASSUME FndKept PROVE UNCHANGED RateLimit!vars /\ UNCHANGED Jobs!vars /\ UNCHANGED Calls!vars
BY DEF FndKept, limitVars, jobVars, callVars, RateLimit!vars, Jobs!vars, Calls!vars

LEMMA PartsStep ==
  [PlatformNext]_allVars =>
     /\ [Next]_vars /\ [Outcome!Next]_Outcome!vars
     /\ [Stream!Next]_Stream!vars /\ [Monitoring!Next]_Monitoring!vars
     /\ [Alerts!Next]_Alerts!vars /\ [Reads!Next]_Reads!vars
     /\ [Feature!Next]_Feature!vars /\ [Decision!Next]_Decision!vars /\ [Switch!Next]_Switch!vars
     /\ [RateLimit!Next]_RateLimit!vars /\ [Jobs!Next]_Jobs!vars /\ [Calls!Next]_Calls!vars
<1>1. CASE AmlNext
  <2>1. SecKept /\ CfgKept /\ FndKept
    BY <1>1 DEF AmlNext
  <2>2. [Next]_vars /\ [Outcome!Next]_Outcome!vars
    BY <1>1 DEF AmlNext, outcomeVars, Outcome!vars
  <2> QED  BY <2>1, <2>2, SecRests, CfgRests, FndRests
<1>2. CASE SecNext
  <2>1. UNCHANGED <<vars, outcomeVars>> /\ CfgKept /\ FndKept
    BY <1>2 DEF SecNext, AmlKept
  <2>2. UNCHANGED vars /\ UNCHANGED Outcome!vars
    BY <2>1, AmlRests
  <2>3. /\ [Stream!Next]_Stream!vars /\ [Monitoring!Next]_Monitoring!vars
        /\ [Alerts!Next]_Alerts!vars /\ [Reads!Next]_Reads!vars
    BY <1>2 DEF SecNext, streamVars, monitorVars, alertVars, readVars,
                Stream!vars, Monitoring!vars, Alerts!vars, Reads!vars
  <2> QED  BY <2>1, <2>2, <2>3, CfgRests, FndRests
<1>3. CASE CfgNext
  <2>1. UNCHANGED <<vars, outcomeVars>> /\ SecKept /\ FndKept
    BY <1>3 DEF CfgNext, AmlKept
  <2>2. UNCHANGED vars /\ UNCHANGED Outcome!vars
    BY <2>1, AmlRests
  <2>3. [Feature!Next]_Feature!vars /\ [Decision!Next]_Decision!vars /\ [Switch!Next]_Switch!vars
    BY <1>3 DEF CfgNext, featureVars, decisionVars, switchVars, Feature!vars, Decision!vars, Switch!vars
  <2> QED  BY <2>1, <2>2, <2>3, SecRests, FndRests
<1>4. CASE FndNext
  <2>1. UNCHANGED <<vars, outcomeVars>> /\ SecKept /\ CfgKept
    BY <1>4 DEF FndNext, AmlKept
  <2>2. UNCHANGED vars /\ UNCHANGED Outcome!vars
    BY <2>1, AmlRests
  <2>3. [RateLimit!Next]_RateLimit!vars /\ [Jobs!Next]_Jobs!vars /\ [Calls!Next]_Calls!vars
    BY <1>4 DEF FndNext, limitVars, jobVars, callVars, RateLimit!vars, Jobs!vars, Calls!vars
  <2> QED  BY <2>1, <2>2, <2>3, SecRests, CfgRests
<1>5. CASE UNCHANGED allVars
  <2>1. /\ UNCHANGED <<vars, outcomeVars>>
        /\ UNCHANGED <<streamVars, monitorVars, alertVars, readVars>>
        /\ UNCHANGED <<featureVars, decisionVars, switchVars>>
        /\ UNCHANGED <<limitVars, jobVars, callVars>>
    BY <1>5 DEF allVars
  <2> QED  BY <2>1, AmlRests, SecRests, CfgRests, FndRests DEF SecKept, CfgKept, FndKept
<1> QED  BY <1>1, <1>2, <1>3, <1>4, <1>5 DEF PlatformNext

\* Whatever part a behaviour of the platform is about, it is a behaviour of every part: what is
\* proved of a part by itself holds of the platform.
THEOREM Composed ==
  PlatformSpec =>
     /\ Spec /\ Outcome!Spec /\ Stream!Spec /\ Monitoring!Spec /\ Alerts!Spec /\ Reads!Spec
     /\ Feature!Spec /\ Decision!Spec /\ Switch!Spec /\ RateLimit!Spec /\ Jobs!Spec /\ Calls!Spec
BY PartsBegin, PartsStep, PTL
   DEF PlatformSpec, Spec, Outcome!Spec, Stream!Spec, Monitoring!Spec, Alerts!Spec, Reads!Spec,
       Feature!Spec, Decision!Spec, Switch!Spec, RateLimit!Spec, Jobs!Spec, Calls!Spec

\* For any rules, verifications and readers: of the events that cross a threshold one open alert
\* comes, and one at least; verifications that fail together leave one open alert, a trace of each
\* failure that is told, and a closure has an approval of its own; a search has every row that was
\* there, none twice, and what it discloses of sensitive events is in their log.
THEOREM MonitoringSound == PlatformSpec => []MonitoringHolds
<1>1. MonitorIInv /\ AlertIInv /\ ReadIInv => MonitoringHolds
  BY MonitorSound, AlertsSound, ReadSound DEF MonitoringHolds
<1>2. Monitoring!Spec => []MonitorIInv
  BY MonitorBegins, MonitorStep, PTL DEF Monitoring!Spec
<1>3. Alerts!Spec => []AlertIInv
  BY AlertsBegin, AlertsStep, PTL DEF Alerts!Spec
<1>4. Reads!Spec => []ReadIInv
  BY ReadBegins, ReadsStep, PTL DEF Reads!Spec
<1> QED  BY <1>1, <1>2, <1>3, <1>4, Composed, PTL
=============================================================================
