--------------------------- MODULE WltRescreening ---------------------------
(***************************************************************************)
(* WLT-01 ongoing rescreening.  A request opens a run under the advisory   *)
(* lock wlt1.rescreening_run, reclaiming one that is stuck, and selects    *)
(* the destinations whose evidence is about to lapse; their provider calls *)
(* are made one after the other without a lock, each answer is applied in  *)
(* a transaction of its own, and the run is finalised without the lock.  A *)
(* run that was reclaimed may therefore still be at work beside the next.  *)
(*                                                                         *)
(* Times are abstracted to what they decide: whether a run is past the     *)
(* threshold, and the order in which evidence falls due.  X_Y is a mutant  *)
(* of X, used by no definition.                                            *)
(***************************************************************************)
EXTENDS Naturals, Sequences, FiniteSets, SequencesExt

CONSTANTS
    Dests,          \* destinations
    Unscreenable,   \* of them: fiat ones, and wallets on a chain no provider covers
    BatchSize,      \* destinations a periodic run selects
    Workers,        \* requests in progress at once
    Verdicts,       \* bound: the risks a provider reports
    Targets,        \* bound: the destinations of scope "destination"
    Revocable,      \* bound: the destinations an operator or AML-01 may revoke
    MaxRuns,        \* bound: rows of wlt1.rescreening_run
    MaxCrashes,     \* bound: requests that end without finalising
    Forget,         \* bound: whether rows of runs that are over are used again
    None

ASSUME SizeAssumption == {BatchSize, MaxRuns, MaxCrashes} \subseteq Nat /\ BatchSize > 0
ASSUME DestAssumption ==
    IsFiniteSet(Dests) /\ Unscreenable \subseteq Dests /\ Targets \subseteq Dests

VARIABLES
    status,     \* wlt1.destination.status: "review", "eligible" or "revoked"
    due,        \* destinations due for rescreening, by valid_until_utc, NULL first
    risk,       \* the latest screening result of each destination
    run,        \* wlt1.rescreening_run
    aged,       \* running runs past the stuck threshold
    pc, req,    \* each request: where it is; its run, what is left, its counters
    written,    \* history: the screening results and revocations of each run
    crashes     \* requests that ended without finalising

vars == <<status, due, risk, run, aged, pc, req, written, crashes>>
registry == <<status, due, risk, written>>

Runs == 1..MaxRuns
Zero == [selected |-> 0, clear |-> 0, adverse |-> 0, revoked |-> 0, skipped |-> 0, failures |-> 0]
NoRun == [status |-> "none", scope |-> None, count |-> Zero]
Nothing == [run |-> 0, found |-> 0, stuck |-> FALSE, todo |-> <<>>, count |-> Zero]
NothingWritten == [clear |-> 0, adverse |-> 0, revoked |-> 0]

At(w, point) == pc[w] = point
GoTo(w, point) == pc' = [pc EXCEPT ![w] = point]
End(w) == GoTo(w, "idle") /\ req' = [req EXCEPT ![w] = Nothing]
Running == {r \in Runs : run[r].status = "running"}
IsDue(d) == \E i \in DOMAIN due : due[i] = d

-----------------------------------------------------------------------------
(* Phase A.                                                                *)

LockFree_NotTaken == TRUE
LockFree == \A w \in Workers : pc[w] # "locked"

\* A request takes the run lock and locks the running row, if there is one.
Lock(w) ==
    /\ At(w, "idle") /\ LockFree
    /\ GoTo(w, "locked")
    /\ \/ Running = {} /\ req' = [req EXCEPT ![w] = Nothing]
       \/ \E r \in Running : req' = [req EXCEPT ![w] = [Nothing EXCEPT !.found = r,
                                                                      !.stuck = r \in aged]]
    /\ UNCHANGED <<registry, run, aged, crashes>>

Admitted_NeverReclaims(w) == req[w].found = 0
Admitted(w) == req[w].found = 0 \/ req[w].stuck

\* WLT1_RESCREENING_RUN_ACTIVE.
Refuse(w) ==
    /\ At(w, "locked") /\ ~Admitted(w)
    /\ End(w)
    /\ UNCHANGED <<registry, run, aged, crashes>>

\* reclaimStuckRescreeningRun.
Reclaimed_ByReason(r) == IF r = 0 THEN run ELSE [run EXCEPT ![r].status = "reclaimed_stuck"]
Reclaimed(r) == IF r = 0 THEN run ELSE [run EXCEPT ![r].status = "failed"]

\* The due destinations that are selected, the earliest first, whatever their type.
Candidates(todo) ==
    LET eligible == {i \in DOMAIN due : status[due[i]] = "eligible"}
        Rank(i) == Cardinality({j \in eligible : j <= i})
    IN
    /\ Len(todo) = Min({Cardinality(eligible), BatchSize})
    /\ \A i \in eligible : Rank(i) <= BatchSize => todo[Rank(i)] = due[i]

Unused(r) ==
    \/ run[r].status = "none"
    \/ Forget /\ r \notin Running /\ \A w \in Workers : req[w].run # r
NewRun(r) == Unused(r) /\ \A q \in 1..(r - 1) : ~Unused(q)

Open(w, scope, todo) ==
    \E r \in Runs :
        /\ At(w, "locked") /\ Admitted(w) /\ NewRun(r)
        /\ run' = [Reclaimed(req[w].found) EXCEPT ![r] =
              [status |-> "running", scope |-> scope, count |-> [Zero EXCEPT !.selected = Len(todo)]]]
        /\ aged' = aged \ {req[w].found}
        /\ written' = [written EXCEPT ![r] = NothingWritten]
        /\ req' = [req EXCEPT ![w] = [Nothing EXCEPT !.run = r, !.todo = todo,
                                                     !.count.selected = Len(todo)]]
        /\ GoTo(w, "loop")
        /\ UNCHANGED <<status, due, risk, crashes>>
OpenPeriodic(w) ==
    \E todo \in SeqOf(Dests, BatchSize) : Candidates(todo) /\ Open(w, "periodic_due", todo)
OpenTargeted(w, d) == Open(w, "destination", <<d>>)

-----------------------------------------------------------------------------
(* Phase B, one candidate after the other.                                 *)

\* The candidate in hand is done with, and counted.
Count(w, counts) ==
    /\ req' = [req EXCEPT ![w].todo = Tail(@), ![w].count = counts]
    /\ GoTo(w, "loop")

Skipped(w) == [req[w].count EXCEPT !.skipped = @ + 1]
Failed_Skipped(w) == Skipped(w)
Failed(w) == [req[w].count EXCEPT !.failures = @ + 1]

\* The unlocked pre-check decides whether the provider is called.
Skip(w) ==
    /\ At(w, "loop") /\ req[w].todo # <<>>
    /\ status[Head(req[w].todo)] # "eligible" \/ Head(req[w].todo) \in Unscreenable
    /\ Count(w, Skipped(w))
    /\ UNCHANGED <<registry, run, aged, crashes>>

Call(w) ==
    /\ At(w, "loop") /\ req[w].todo # <<>>
    /\ status[Head(req[w].todo)] = "eligible" /\ Head(req[w].todo) \notin Unscreenable
    /\ GoTo(w, "called")
    /\ UNCHANGED <<registry, run, aged, req, crashes>>

\* The provider fails, its answer does not hold up, or the application rolls back.
Fail(w) ==
    /\ At(w, "called")
    /\ Count(w, Failed(w))
    /\ UNCHANGED <<registry, run, aged, crashes>>

\* The re-check under the destination's lock: still whitelisted, and, in a periodic run, still
\* due.
Applicable_StatusUnread(w) ==
    run[req[w].run].scope = "periodic_due" => IsDue(Head(req[w].todo))
Applicable(w) ==
    /\ status[Head(req[w].todo)] = "eligible"
    /\ run[req[w].run].scope = "periodic_due" => IsDue(Head(req[w].todo))

Discard(w) ==
    /\ At(w, "called") /\ ~Applicable(w)
    /\ Count(w, Skipped(w))
    /\ UNCHANGED <<registry, run, aged, crashes>>

Tally(count, verdict) ==
    CASE verdict = "clear" -> [count EXCEPT !.clear = @ + 1]
      [] verdict = "hit" -> [count EXCEPT !.adverse = @ + 1, !.revoked = @ + 1]
      [] OTHER -> [count EXCEPT !.adverse = @ + 1]

\* One terminal result is appended, and a hit revokes.  When the answer to the COMMIT is lost
\* the candidate counts as a failure although its result stands.
Apply(w, verdict, acknowledged) ==
    LET d == Head(req[w].todo)
        r == req[w].run
    IN
    /\ At(w, "called") /\ Applicable(w)
    /\ risk' = [risk EXCEPT ![d] = verdict]
    /\ due' = RemoveFirst(due, d)
    /\ status' = IF verdict = "hit" THEN [status EXCEPT ![d] = "revoked"] ELSE status
    /\ written' = [written EXCEPT ![r] = Tally(@, verdict)]
    /\ Count(w, IF acknowledged THEN Tally(req[w].count, verdict) ELSE Failed(w))
    /\ UNCHANGED <<run, aged, crashes>>

-----------------------------------------------------------------------------
(* Finalisation, and the end of a request without it.                      *)

RowFree(r) == \A w \in Workers : At(w, "locked") => req[w].found # r

Classified(count) == IF count.failures > 0 THEN "completed_with_errors" ELSE "completed"

\* The update is not conditional on the run still being "running".
Finalize(w) ==
    LET r == req[w].run IN
    /\ At(w, "loop") /\ req[w].todo = <<>> /\ RowFree(r)
    /\ run' = [run EXCEPT ![r].status = Classified(req[w].count), ![r].count = req[w].count]
    /\ aged' = aged \ {r}
    /\ End(w)
    /\ UNCHANGED <<registry, crashes>>

\* The process dies, or the finalising transaction rolls back: the run stays as it is.
Crash(w) ==
    /\ ~At(w, "idle") /\ crashes < MaxCrashes
    /\ crashes' = crashes + 1
    /\ End(w)
    /\ UNCHANGED <<registry, run, aged>>

-----------------------------------------------------------------------------
(* The surroundings.                                                       *)

\* Evidence comes to lapse within the lead time.
FallDue(d) ==
    /\ ~IsDue(d)
    /\ due' = Append(due, d)
    /\ UNCHANGED <<status, risk, run, aged, pc, req, written, crashes>>

\* Approval and cooling-off (WltDestinationUse).
Whitelist(d) ==
    /\ status[d] = "review"
    /\ status' = [status EXCEPT ![d] = "eligible"]
    /\ UNCHANGED <<due, risk, run, aged, pc, req, written, crashes>>

Revoke(d) ==
    /\ d \in Revocable /\ status[d] # "revoked"
    /\ status' = [status EXCEPT ![d] = "revoked"]
    /\ UNCHANGED <<due, risk, run, aged, pc, req, written, crashes>>

Age(r) ==
    /\ r \in Running \ aged
    /\ aged' = aged \cup {r}
    /\ UNCHANGED <<registry, run, pc, req, crashes>>

-----------------------------------------------------------------------------
Process(w) ==
    \/ Refuse(w) \/ Skip(w) \/ Call(w) \/ Fail(w) \/ Discard(w) \/ Finalize(w)
    \/ \E verdict \in Verdicts, acknowledged \in BOOLEAN : Apply(w, verdict, acknowledged)

\* What was never screened, a fiat destination for one, has NULL for valid_until_utc and is first.
Init ==
    /\ status \in [Dests -> {"review", "eligible"}]
    /\ \E dated \in SUBSET (Dests \ Unscreenable) :
          \E first \in SetToSeqs(Unscreenable), rest \in SetToSeqs(dated) : due = first \o rest
    /\ risk = [d \in Dests |-> IF d \in Unscreenable THEN None ELSE "clear"]
    /\ run = [r \in Runs |-> NoRun] /\ aged = {}
    /\ pc = [w \in Workers |-> "idle"] /\ req = [w \in Workers |-> Nothing]
    /\ written = [r \in Runs |-> NothingWritten]
    /\ crashes = 0

Next ==
    \/ \E w \in Workers :
          \/ Lock(w) \/ OpenPeriodic(w) \/ Process(w) \/ Crash(w)
          \/ \E d \in Targets : OpenTargeted(w, d)
    \/ \E d \in Dests : FallDue(d) \/ Whitelist(d) \/ Revoke(d)
    \/ \E r \in Runs : Age(r)

Spec == Init /\ [][Next]_vars

\* Some request gets on, one at least whenever there is one; time passes; periodic runs are
\* requested again and again; and a provider that is asked often enough answers.
Fairness ==
    /\ WF_vars(\E w \in Workers : Process(w)) /\ WF_vars(\E r \in Runs : Age(r))
    /\ SF_vars(\E w \in Workers : Lock(w)) /\ SF_vars(\E w \in Workers : OpenPeriodic(w))
    /\ \A d \in Dests : SF_vars(\E w \in Workers : /\ req[w].todo # <<>> /\ Head(req[w].todo) = d
                                                  /\ Apply(w, "clear", TRUE))
FairSpec == Spec /\ Fairness

-----------------------------------------------------------------------------
Counters == [selected : Nat, clear : Nat, adverse : Nat, revoked : Nat, skipped : Nat,
             failures : Nat]

TypeOK ==
    /\ status \in [Dests -> {"review", "eligible", "revoked"}]
    /\ due \in Seq(Dests) /\ IsInjective(due)
    /\ risk \in [Dests -> Verdicts \cup {"clear", None}]
    /\ run \in [Runs -> [status : {"none", "running", "completed", "completed_with_errors", "failed"},
                         scope : {"periodic_due", "destination", None}, count : Counters]]
    /\ aged \subseteq Running
    /\ pc \in [Workers -> {"idle", "locked", "loop", "called"}]
    /\ \A w \in Workers :
          /\ req[w].run \in 0..MaxRuns /\ req[w].todo \in Seq(Dests) /\ req[w].count \in Counters
          /\ At(w, "called") => req[w].todo # <<>>

\* findRunningRescreeningRun: at most one running row can ever exist.
OneRunning == Cardinality(Running) <= 1

\* The row of a finalised run accounts for its candidates and for what the run wrote, even when
\* it was reclaimed and overtaken by another run: exactly, or up to the failures it reports.
Accounts ==
    \A r \in Runs : run[r].status \in {"completed", "completed_with_errors"} =>
        LET c == run[r].count IN
        /\ c.selected = c.clear + c.adverse + c.skipped + c.failures
        /\ c.clear + c.adverse <= written[r].clear + written[r].adverse
        /\ written[r].clear + written[r].adverse <= c.clear + c.adverse + c.failures
        /\ run[r].status = "completed" =>
              written[r] = [clear |-> c.clear, adverse |-> c.adverse, revoked |-> c.revoked]

\* What holds of the runs whatever overlaps, dies or is reclaimed.
RunsAccount == TypeOK /\ OneRunning /\ Accounts

\* An answer that was under way when its destination was revoked adds no evidence and revives
\* nothing.
RevokedFrozen ==
    [][\A d \in Dests : status[d] = "revoked" =>
          status'[d] = "revoked" /\ risk'[d] = risk[d]]_vars

\* No run keeps the others out for good, whether its process died or its provider hangs: again
\* and again a request is let in.
NeverShut == []<>(\E w \in Workers : At(w, "locked") /\ Admitted(w))

\* selectDuePeriodicCandidates: repeated runs drain the due list, so that no wallet is starved
\* under a batch cap.
Drains ==
    \A d \in Dests \ Unscreenable :
        IsDue(d) /\ status[d] = "eligible" ~> ~IsDue(d) \/ status[d] # "eligible"
=============================================================================
