---------------------------- MODULE FndRateLimit ----------------------------
(***************************************************************************)
(* FND-01: the shared rate-limit engine, for the counter of one module,    *)
(* bucket and subject.  The row keeps two fixed windows, and one upsert    *)
(* counts a check in both.  PostgreSQL's now() is the time a transaction   *)
(* began, so a check that waited for the row is counted at an older time   *)
(* than one counted before it.  Policies change by migration only and are  *)
(* constants here.                                                         *)
(***************************************************************************)
EXTENDS Naturals, Sequences, FiniteSetsExt

CONSTANTS
    BurstLimit, BurstWindow, SustainedLimit, SustainedWindow,   \* foundation.rate_limit_policy: positive, the burst's no larger
    Ceiling,        \* COUNTER_SATURATION_CEILING, above any limit
    Workers,
    MaxTime,        \* bound on the clock
    MaxChecks       \* bound on the checks answered

VARIABLES
    now,
    counter,    \* foundation.rate_limit_counter of the subject
    checking,   \* by worker: when its transaction began, or Idle
    answered,   \* history: the checks answered, in the order of their commits
    throttled   \* foundation.rate_limit_decision_log: the checks it has a row of

vars == <<now, counter, checking, answered, throttled>>

Idle == MaxTime + 1
Window(start, count) == [start |-> start, count |-> count]
NoCounter == [burst |-> Window(0, 0), sustained |-> Window(0, 0)]

-----------------------------------------------------------------------------
Saturated_Wraps(n) == n % Ceiling
Saturated(n) == Min({n, Ceiling})

Ended_Early(window, length, at) == window.start + length <= at + 1
Ended(window, length, at) == window.start + length <= at

\* One dimension of the upsert: a window that has ended starts again with this check.
Counted_KeepsStart(window, length, at) ==
    IF window.count = 0 \/ Ended(window, length, at)
    THEN Window(IF window.count = 0 THEN at ELSE window.start, 1)
    ELSE Window(window.start, Saturated(window.count + 1))
Counted(window, length, at) ==
    IF window.count = 0 \/ Ended(window, length, at)
    THEN Window(at, 1)
    ELSE Window(window.start, Saturated(window.count + 1))

upsertCounter(at) ==
    [burst |-> Counted(counter.burst, BurstWindow, at), sustained |-> Counted(counter.sustained, SustainedWindow, at)]

Allowed(burst, sustained) == burst <= BurstLimit /\ sustained <= SustainedLimit

\* The counts before this check are taken to be one less than those after it.
isTransitionToDeny_Exact(c) == c.burst.count = BurstLimit + 1
isTransitionToDeny(c) ==
    /\ Allowed(c.burst.count - 1, c.sustained.count - 1)
    /\ ~Allowed(c.burst.count, c.sustained.count)

\* When the later of the denying windows ends.
Reset_EveryWindow(c) == Max({c.burst.start + BurstWindow, c.sustained.start + SustainedWindow})
Reset(c) ==
    Max((IF c.burst.count > BurstLimit THEN {c.burst.start + BurstWindow} ELSE {})
        \cup (IF c.sustained.count > SustainedLimit THEN {c.sustained.start + SustainedWindow} ELSE {}))

\* retry_after_seconds counts from the time the transaction began.
Answer(c, at) ==
    LET allowed == Allowed(c.burst.count, c.sustained.count) IN
    [allowed |-> allowed, counts |-> c, told |-> now,
     retry |-> IF allowed THEN 0 ELSE at + Max({1, Reset(c) - at})]

-----------------------------------------------------------------------------
\* The policy has been read, and the transaction begins.
Begin(w) ==
    /\ checking[w] = Idle
    /\ checking' = [checking EXCEPT ![w] = now]
    /\ UNCHANGED <<now, counter, answered, throttled>>

\* The upsert takes the row's lock, and nothing waits between it and the commit.
checkRateLimit(w) ==
    LET at == checking[w]
        c == upsertCounter(at)
    IN
    /\ at # Idle /\ Len(answered) < MaxChecks
    /\ counter' = c
    /\ answered' = Append(answered, Answer(c, at))
    /\ throttled' = IF isTransitionToDeny(c) THEN throttled \cup {Len(answered) + 1} ELSE throttled
    /\ checking' = [checking EXCEPT ![w] = Idle]
    /\ UNCHANGED now

\* A statement fails or the pool is exhausted: the caller is told RATE_LIMIT_UNAVAILABLE, and
\* nothing is counted.
Unavailable(w) ==
    /\ checking[w] # Idle
    /\ checking' = [checking EXCEPT ![w] = Idle]
    /\ UNCHANGED <<now, counter, answered, throttled>>

Tick ==
    /\ now < MaxTime /\ now' = now + 1
    /\ UNCHANGED <<counter, checking, answered, throttled>>

-----------------------------------------------------------------------------
Init ==
    /\ now = 0 /\ counter = NoCounter /\ answered = <<>> /\ throttled = {}
    /\ checking = [w \in Workers |-> Idle]

Next == (\E w \in Workers : Begin(w) \/ checkRateLimit(w) \/ Unavailable(w)) \/ Tick

Spec == Init /\ [][Next]_vars

-----------------------------------------------------------------------------
Checks == 1..Len(answered)
AllowedSince(field, start) == Cardinality({n \in Checks : answered[n].allowed /\ answered[n].counts[field].start = start})

TypeOK ==
    /\ counter.burst.count \in 0..Ceiling /\ counter.sustained.count \in 0..Ceiling
    /\ counter.burst.start <= now
    /\ throttled \subseteq Checks

\* Whatever the order in which overlapping checks commit, no window admits more than its limit.
WithinLimits ==
    \A n \in Checks :
        /\ AllowedSince("burst", answered[n].counts.burst.start) <= BurstLimit
        /\ AllowedSince("sustained", answered[n].counts.sustained.start) <= SustainedLimit

\* Nobody is admitted before the time a denied caller was told to come back at.
RetryIsTrue ==
    \A n \in Checks : \A m \in (n + 1)..Len(answered) :
        ~answered[n].allowed /\ answered[m].told < answered[n].retry => ~answered[m].allowed

RolledOver(n) ==
    \E field \in {"burst", "sustained"} : answered[n].counts[field].start # answered[n - 1].counts[field].start

\* An unbroken run of denials has a log row, of its first; another one only where a window
\* began anew inside it.
DenialsLogged ==
    \A n \in Checks :
        /\ ~answered[n].allowed /\ (n = 1 \/ answered[n - 1].allowed) => n \in throttled
        /\ n \in throttled => ~answered[n].allowed /\ (n > 1 => answered[n - 1].allowed \/ RolledOver(n))

\* (rate-limit.ts) A log row stands for a passage from allowed to denied.
LoggedOnTransitionOnly == \A n \in throttled : n > 1 => answered[n - 1].allowed
=============================================================================
