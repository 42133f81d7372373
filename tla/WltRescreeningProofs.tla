------------------------ MODULE WltRescreeningProofs ------------------------
(***************************************************************************)
(* Rescreening runs account for what they wrote whatever overlaps, and an  *)
(* answer under way revives nothing.  The inductive invariant says who is  *)
(* at work on which run: one request at most, on a run that is running or  *)
(* was reclaimed, with counters that agree with what the run has written;  *)
(* and the request that holds the run lock knows the only running row.     *)
(***************************************************************************)
EXTENDS WltRescreening, FiniteSetTheorems, SequenceTheorems, TLAPS

Requests == [run : 0..MaxRuns, found : 0..MaxRuns, stuck : BOOLEAN, todo : Seq(Dests),
             count : Counters]
Written == [clear : Nat, adverse : Nat, revoked : Nat]
Rows == [status : {"none", "running", "completed", "completed_with_errors", "failed"},
         scope : {"periodic_due", "destination", None}, count : Counters]
Working(w) == pc[w] \in {"loop", "called"}

Typed ==
    /\ req \in [Workers -> Requests]
    /\ written \in [Runs -> Written]

\* The request with the run lock is the only one, and has found what is running.
Holding ==
    \A w \in Workers : At(w, "locked") =>
        /\ \A v \in Workers : At(v, "locked") => v = w
        /\ Running = {req[w].found} \ {0}

\* A request is at work on a run of its own, which nobody else finalises.
Owned ==
    \A w \in Workers :
        /\ Working(w) => req[w].run \in Runs /\ run[req[w].run].status \in {"running", "failed"}
        /\ ~Working(w) => req[w].run = 0
Alone ==
    \A v, w \in Workers : req[v].run = req[w].run /\ req[v].run # 0 => v = w

\* Counters that leave so many candidates open agree with what was written.
Agrees(c, open, w) ==
    /\ c.selected = c.clear + c.adverse + c.skipped + c.failures + open
    /\ c.clear + c.adverse <= w.clear + w.adverse
    /\ w.clear + w.adverse <= c.clear + c.adverse + c.failures
    /\ c.failures = 0 => w.clear = c.clear /\ w.adverse = c.adverse /\ w.revoked = c.revoked
Progress ==
    \A w \in Workers :
        Working(w) => Agrees(req[w].count, Len(req[w].todo), written[req[w].run])

Single == \A q, r \in Running : q = r

IInv == TypeOK /\ Typed /\ Holding /\ Owned /\ Alone /\ Progress /\ Single /\ Accounts

-----------------------------------------------------------------------------
(* Sequences and sets.                                                     *)

\* Removing a destination from the due list leaves a list without repetitions.
LEMMA RemoveFirstProper ==
  ASSUME NEW S, NEW s \in Seq(S), IsInjective(s), NEW e
  PROVE  RemoveFirst(s, e) \in Seq(S) /\ IsInjective(RemoveFirst(s, e))
<1>1. CASE ~ \E i \in 1..Len(s) : s[i] = e
  BY <1>1 DEF RemoveFirst
<1>2. ASSUME NEW i \in 1..Len(s), s[i] = e
      PROVE  RemoveFirst(s, e) \in Seq(S) /\ IsInjective(RemoveFirst(s, e))
  <2> DEFINE a == SubSeq(s, 1, i - 1)
             b == SubSeq(s, i + 1, Len(s))
  <2>0. Len(s) \in Nat /\ DOMAIN s = 1..Len(s)
    BY LenProperties
  <2>1. {j \in 1..Len(s) : s[j] = e} = {i}
    BY <1>2, <2>0 DEF IsInjective
  <2>2. Min({i}) = i
    BY <2>0 DEF Min
  <2>3. SelectInSeq(s, LAMBDA v : v = e) = i
    BY <2>1, <2>2 DEF SelectInSeq
  <2>4. RemoveFirst(s, e) = a \o b
    BY <1>2, <2>3 DEF RemoveFirst, RemoveAt
  <2>5. /\ a \in Seq(S) /\ Len(a) = i - 1
        /\ \A k \in 1..(i - 1) : a[k] = s[k]
    BY <2>0, SubSeqProperties
  <2>6. /\ b \in Seq(S) /\ Len(b) = Len(s) - i
        /\ \A k \in 1..(Len(s) - i) : b[k] = s[i + k]
    <3>1. \A k \in (i + 1)..Len(s) : s[k] \in S
      BY <2>0, ElementOfSeq
    <3>2. /\ b \in Seq(S)
          /\ Len(b) = IF i + 1 <= Len(s) THEN Len(s) - (i + 1) + 1 ELSE 0
          /\ \A k \in 1..(Len(s) - (i + 1) + 1) : b[k] = s[i + 1 + k - 1]
      BY <2>0, <3>1, SubSeqProperties
    <3> HIDE DEF b
    <3>3. Len(b) = Len(s) - i
      <4>1. Len(b) = IF i + 1 <= Len(s) THEN Len(s) - (i + 1) + 1 ELSE 0
        BY <3>2
      <4>2. \A n \in Nat : i <= n => (IF i + 1 <= n THEN n - (i + 1) + 1 ELSE 0) = n - i
        OBVIOUS
      <4>3. i <= Len(s)
        BY <2>0
      <4> QED BY <4>1, <4>2, <4>3, <2>0
    <3>4. ASSUME NEW k \in 1..(Len(s) - i) PROVE b[k] = s[i + k]
      <4>1. k \in 1..(Len(s) - (i + 1) + 1) /\ i + 1 + k - 1 = i + k
        BY <2>0
      <4> QED BY <3>2, <4>1
    <3> QED BY <3>2, <3>3, <3>4
  <2> HIDE DEF a, b
  <2> DEFINE c == a \o b
  <2>7. /\ c \in Seq(S) /\ Len(c) = Len(s) - 1
        /\ \A k \in 1..(Len(s) - 1) : c[k] = IF k < i THEN s[k] ELSE s[k + 1]
    <3>1. /\ c \in Seq(S) /\ Len(c) = Len(a) + Len(b)
          /\ \A k \in 1..(Len(a) + Len(b)) :
                c[k] = IF k <= Len(a) THEN a[k] ELSE b[k - Len(a)]
      BY <2>5, <2>6, ConcatProperties
    <3> HIDE DEF c
    <3>2. Len(a) + Len(b) = Len(s) - 1
      BY <2>0, <2>5, <2>6
    <3>3. ASSUME NEW k \in 1..(Len(s) - 1)
          PROVE  c[k] = IF k < i THEN s[k] ELSE s[k + 1]
      <4>1. CASE k < i
        <5>1. k \in 1..(i - 1) /\ k <= Len(a) /\ k \in 1..(Len(a) + Len(b))
          BY <4>1, <2>0, <2>5, <3>2
        <5> QED BY <4>1, <5>1, <2>5, <3>1
      <4>2. CASE k >= i
        <5>1. c[k] = b[k - (i - 1)]
          BY <4>2, <2>0, <2>5, <3>1, <3>2
        <5>2. k - (i - 1) \in 1..(Len(s) - i) /\ i + (k - (i - 1)) = k + 1
          BY <4>2, <2>0
        <5> QED BY <4>2, <5>1, <5>2, <2>6
      <4> QED BY <4>1, <4>2, <2>0
    <3> QED BY <3>1, <3>2, <3>3
  <2>8. DOMAIN c = 1..(Len(s) - 1)
    BY <2>7, LenProperties
  <2>9. IsInjective(c)
    <3>1. ASSUME NEW k \in 1..(Len(s) - 1), NEW l \in 1..(Len(s) - 1), c[k] = c[l]
          PROVE  k = l
      <4> DEFINE At1(n) == IF n < i THEN n ELSE n + 1
      <4>1. At1(k) \in 1..Len(s) /\ At1(l) \in 1..Len(s)
        BY <2>0
      <4>2. c[k] = s[At1(k)] /\ c[l] = s[At1(l)]
        BY <2>7
      <4>3. At1(k) = At1(l)
        BY <3>1, <4>1, <4>2, <2>0 DEF IsInjective
      <4> QED BY <4>3, <2>0
    <3> QED BY <3>1, <2>8 DEF IsInjective
  <2> QED BY <2>4, <2>7, <2>9
<1> QED BY <1>1, <1>2

\* One running run at most, as a count.
LEMMA CountOfSingle ==
  ASSUME NEW S, \A x, y \in S : x = y
  PROVE  Cardinality(S) <= 1
<1>1. CASE S = {}
  BY <1>1, FS_EmptySet
<1>2. ASSUME NEW x \in S PROVE Cardinality(S) <= 1
  <2>1. S = {x}
    OBVIOUS
  <2> QED BY <2>1, FS_Singleton
<1> QED BY <1>1, <1>2

\* The due list of Init: what was never screened, then what has a date.
LEMMA InitialDue ==
  ASSUME NEW dated \in SUBSET (Dests \ Unscreenable),
         NEW first \in SetToSeqs(Unscreenable), NEW rest \in SetToSeqs(dated)
  PROVE  first \o rest \in Seq(Dests) /\ IsInjective(first \o rest)
<1>1. ASSUME NEW S \in SUBSET Dests, NEW s \in SetToSeqs(S)
      PROVE  s \in Seq(Dests) /\ Len(s) \in Nat
             /\ \A i, j \in 1..Len(s) : s[i] \in S /\ (s[i] = s[j] => i = j)
  <2>1. Cardinality(S) \in Nat
    BY DestAssumption, FS_Subset, FS_CardinalityType
  <2>2. s \in [1..Cardinality(S) -> S]
        /\ \A i, j \in 1..Cardinality(S) : i # j => s[i] # s[j]
    BY DEF SetToSeqs
  <2>3. s \in Seq(Dests)
    BY <2>1, <2>2
  <2>4. Len(s) = Cardinality(S)
    BY <2>1, <2>2, <2>3, LenProperties
  <2> QED BY <2>1, <2>2, <2>3, <2>4
<1> DEFINE c == first \o rest
<1>2. /\ first \in Seq(Dests) /\ Len(first) \in Nat
      /\ \A i, j \in 1..Len(first) : first[i] \in Unscreenable /\ (first[i] = first[j] => i = j)
  BY <1>1, DestAssumption
<1>3. /\ rest \in Seq(Dests) /\ Len(rest) \in Nat
      /\ \A i, j \in 1..Len(rest) : rest[i] \in dated /\ (rest[i] = rest[j] => i = j)
  BY <1>1
<1>4. /\ c \in Seq(Dests) /\ Len(c) = Len(first) + Len(rest)
      /\ \A i \in 1..(Len(first) + Len(rest)) :
            c[i] = IF i <= Len(first) THEN first[i] ELSE rest[i - Len(first)]
  BY <1>2, <1>3, ConcatProperties
<1> HIDE DEF c
<1>5. DOMAIN c = 1..(Len(first) + Len(rest))
  BY <1>4, LenProperties
<1>6. ASSUME NEW i \in 1..(Len(first) + Len(rest)), NEW j \in 1..(Len(first) + Len(rest)), c[i] = c[j]
      PROVE  i = j
  <2>1. CASE i <= Len(first) /\ j <= Len(first)
    BY <2>1, <1>2, <1>3, <1>4, <1>6
  <2>2. CASE i > Len(first) /\ j > Len(first)
    <3>1. i - Len(first) \in 1..Len(rest) /\ j - Len(first) \in 1..Len(rest)
      BY <2>2, <1>2, <1>3
    <3>2. rest[i - Len(first)] = rest[j - Len(first)]
      BY <2>2, <1>2, <1>3, <1>4, <1>6
    <3>3. i - Len(first) = j - Len(first)
      BY <3>1, <3>2, <1>3
    <3> QED BY <3>3, <1>2, <1>3
  <2>3. ASSUME NEW k \in 1..(Len(first) + Len(rest)), NEW l \in 1..(Len(first) + Len(rest)),
               k <= Len(first), l > Len(first)
        PROVE  c[k] # c[l]
    <3>1. k \in 1..Len(first) /\ l - Len(first) \in 1..Len(rest)
      BY <2>3, <1>2, <1>3
    <3>2. c[k] = first[k] /\ first[k] \in Unscreenable
      BY <2>3, <3>1, <1>2, <1>4
    <3>3. c[l] = rest[l - Len(first)] /\ ~(l <= Len(first))
      BY <2>3, <1>2, <1>4
    <3>4. rest[l - Len(first)] \in dated
      BY <3>1, <1>3
    <3> QED BY <3>2, <3>3, <3>4
  <2> QED BY <2>1, <2>2, <2>3, <1>2, <1>3, <1>6
<1> QED BY <1>4, <1>5, <1>6 DEF c, IsInjective

-----------------------------------------------------------------------------
(* The invariant holds first, and each step keeps it.                      *)

LEMMA NothingTyped ==
  Nothing \in Requests /\ Nothing.run = 0 /\ Nothing.todo = <<>> /\ Nothing.count = Zero
  BY SizeAssumption DEF Nothing, Requests, Zero, Counters

LEMMA Initially == Init => IInv
<1> SUFFICES ASSUME Init PROVE IInv
  OBVIOUS
<1> USE SizeAssumption
<1>1. due \in Seq(Dests) /\ IsInjective(due)
  BY InitialDue DEF Init
<1>2. Running = {}
  BY DEF Init, Running, NoRun
<1>3. TypeOK
  <2>1. Zero \in Counters /\ Nothing \in Requests
    BY DEF Zero, Counters, Nothing, Requests
  <2>2. /\ status \in [Dests -> {"review", "eligible", "revoked"}]
        /\ risk \in [Dests -> Verdicts \cup {"clear", None}]
    BY DEF Init
  <2>3. run \in [Runs -> [status : {"none", "running", "completed", "completed_with_errors",
                                    "failed"},
                          scope : {"periodic_due", "destination", None}, count : Counters]]
    BY <2>1 DEF Init, NoRun
  <2>4. aged \subseteq Running /\ pc \in [Workers -> {"idle", "locked", "loop", "called"}]
    BY DEF Init
  <2>5. \A w \in Workers :
          /\ req[w].run \in 0..MaxRuns /\ req[w].todo \in Seq(Dests) /\ req[w].count \in Counters
          /\ At(w, "called") => req[w].todo # <<>>
    BY <2>1 DEF Init, Requests, At
  <2> QED BY <1>1, <2>2, <2>3, <2>4, <2>5 DEF TypeOK
<1>4. Typed
  BY DEF Init, Typed, Requests, Runs, Nothing, NothingWritten, Zero, Counters, Written
<1>5. Holding /\ Owned /\ Alone /\ Progress
  BY DEF Init, Holding, Owned, Alone, Progress, Working, At, Nothing
<1>6. Single /\ Accounts
  BY <1>2 DEF Init, Single, Accounts, NoRun
<1> QED BY <1>3, <1>4, <1>5, <1>6 DEF IInv

\* Nothing but the registry changes: what a run wrote stays.
LEMMA RegistryStep ==
  ASSUME IInv, UNCHANGED <<run, pc, req, written>>,
         status' \in [Dests -> {"review", "eligible", "revoked"}],
         due' \in Seq(Dests), IsInjective(due)',
         risk' \in [Dests -> Verdicts \cup {"clear", None}],
         aged' \subseteq Running
  PROVE  IInv'
<1>1. Running' = Running
  BY DEF Running
<1>2. TypeOK'
  BY <1>1 DEF IInv, TypeOK, At
<1>3. Typed' /\ Holding' /\ Owned' /\ Alone' /\ Progress' /\ Single' /\ Accounts'
  BY <1>1 DEF IInv, Typed, Holding, Owned, Alone, Progress, Single, Accounts, Working, At
<1> QED BY <1>2, <1>3 DEF IInv

\* A request goes where it holds nothing, or where it has a run no longer.
LEMMA EndStep ==
  ASSUME IInv, NEW w \in Workers, End(w), UNCHANGED registry,
         run' \in [Runs -> Rows], aged' \subseteq Running', Running' \subseteq Running,
         Accounts', Holding',
         \A r \in Runs : r # req[w].run => run'[r] = run[r]
  PROVE  IInv'
<1> USE SizeAssumption
<1>1. /\ pc' = [pc EXCEPT ![w] = "idle"] /\ req' = [req EXCEPT ![w] = Nothing]
      /\ pc'[w] = "idle" /\ req'[w] = Nothing
      /\ \A v \in Workers : v # w => pc'[v] = pc[v] /\ req'[v] = req[v]
  BY DEF End, GoTo, IInv, TypeOK, Typed
<1>2. Nothing \in Requests
  BY DEF Nothing, Requests, Zero, Counters
<1>3. TypeOK'
  BY <1>1, <1>2 DEF IInv, TypeOK, Typed, Requests, Rows, registry, At, Nothing
<1>4. Typed'
  BY <1>1, <1>2 DEF IInv, Typed, registry
<1>6. \A v \in Workers : Working(v)' => v # w /\ Working(v) /\ req[v].run # req[w].run
  BY <1>1 DEF IInv, Owned, Alone, Working, Runs
<1>7. Owned'
  BY <1>1, <1>6 DEF IInv, Owned, Working, Nothing
<1>8. Alone'
  BY <1>1 DEF IInv, Alone, Nothing
<1>9. Progress'
  BY <1>1, <1>6 DEF IInv, Progress, Working, registry
<1>10. Single'
  BY DEF IInv, Single
<1> QED BY <1>3, <1>4, <1>7, <1>8, <1>9, <1>10 DEF IInv

\* The candidate in hand is counted, and at most the run's own record of what it wrote changes.
LEMMA CountStep ==
  ASSUME IInv, NEW w \in Workers, Working(w), req[w].todo # <<>>, NEW counts \in Counters,
         Count(w, counts), UNCHANGED <<run, aged>>,
         status' \in [Dests -> {"review", "eligible", "revoked"}],
         due' \in Seq(Dests), IsInjective(due)',
         risk' \in [Dests -> Verdicts \cup {"clear", None}],
         written' \in [Runs -> Written],
         \A r \in Runs : r # req[w].run => written'[r] = written[r],
         Agrees(counts, Len(req[w].todo) - 1, written'[req[w].run])
  PROVE  IInv'
<1> USE SizeAssumption
<1> DEFINE mine == req[w].run
<1>1. /\ pc'[w] = "loop" /\ req'[w] = [req[w] EXCEPT !.todo = Tail(@), !.count = counts]
      /\ \A v \in Workers : v # w => pc'[v] = pc[v] /\ req'[v] = req[v]
      /\ pc' \in [Workers -> {"idle", "locked", "loop", "called"}]
      /\ DOMAIN req' = Workers
  BY DEF Count, GoTo, IInv, TypeOK, Typed
<1>2. req[w] \in Requests /\ mine \in Runs /\ run[mine].status \in {"running", "failed"}
  BY DEF IInv, Typed, Owned
<1>3. Tail(req[w].todo) \in Seq(Dests) /\ Len(Tail(req[w].todo)) = Len(req[w].todo) - 1
  BY <1>2, HeadTailProperties DEF Requests
<1>4. /\ req'[w] \in Requests /\ req'[w].run = mine /\ req'[w].found = req[w].found
      /\ req'[w].count = counts /\ Len(req'[w].todo) = Len(req[w].todo) - 1
  BY <1>1, <1>2, <1>3 DEF Requests
<1>5. Running' = Running
  BY DEF Running
<1>6. req' \in [Workers -> Requests]
  BY <1>1, <1>4 DEF IInv, Typed, Count
<1>7. TypeOK'
  <2>1. \A v \in Workers :
           /\ req'[v].run \in 0..MaxRuns /\ req'[v].todo \in Seq(Dests) /\ req'[v].count \in Counters
           /\ pc'[v] = "called" => req'[v].todo # <<>>
    <3>1. ASSUME NEW v \in Workers, v # w
          PROVE  /\ req'[v].run \in 0..MaxRuns /\ req'[v].todo \in Seq(Dests) /\ req'[v].count \in Counters
                 /\ pc'[v] = "called" => req'[v].todo # <<>>
      BY <1>1, <3>1 DEF IInv, TypeOK, At
    <3>2. /\ req'[w].run \in 0..MaxRuns /\ req'[w].todo \in Seq(Dests) /\ req'[w].count \in Counters
          /\ pc'[w] # "called"
      BY <1>1, <1>4 DEF Requests
    <3> QED BY <3>1, <3>2
  <2> QED BY <1>1, <1>5, <2>1 DEF IInv, TypeOK, At
<1>8. Typed'
  BY <1>6 DEF Typed
<1>9. Holding'
  BY <1>1, <1>5 DEF IInv, Holding, At
<1>15. \A v \in Workers : req'[v].run = req[v].run /\ (Working(v)' <=> Working(v))
  BY <1>1, <1>4 DEF Working
<1>10. Owned'
  BY <1>15 DEF IInv, Owned
<1>11. Alone'
  BY <1>15 DEF IInv, Alone
<1>12. Progress'
  <2>1. ASSUME NEW v \in Workers, v # w, Working(v)'
        PROVE  Agrees(req'[v].count, Len(req'[v].todo), written'[req'[v].run])
    <3>1. Working(v) /\ req'[v] = req[v] /\ req[v].run \in Runs /\ req[v].run # mine
      BY <2>1, <1>1, <1>2 DEF IInv, Owned, Alone, Working, Runs
    <3> QED BY <3>1 DEF IInv, Progress
  <2>2. Agrees(req'[w].count, Len(req'[w].todo), written'[req'[w].run])
    BY <1>4
  <2> QED BY <2>1, <2>2 DEF Progress
<1>13. Single'
  BY <1>5 DEF IInv, Single
<1>14. Accounts'
  BY <1>2 DEF IInv, Accounts
<1> QED BY <1>7, <1>8, <1>9, <1>10, <1>11, <1>12, <1>13, <1>14 DEF IInv

LEMMA LockStep ==
  ASSUME IInv, NEW w \in Workers, Lock(w)
  PROVE  IInv'
<1> USE SizeAssumption
<1>1. /\ pc'[w] = "locked" /\ pc[w] = "idle"
      /\ \A v \in Workers : v # w => pc'[v] = pc[v] /\ pc[v] # "locked" /\ req'[v] = req[v]
      /\ pc' \in [Workers -> {"idle", "locked", "loop", "called"}]
  BY DEF Lock, LockFree, GoTo, At, IInv, TypeOK, Typed
<1>2. /\ req' = [req EXCEPT ![w] = req'[w]] /\ req'[w] \in Requests /\ req'[w].run = 0
      /\ Running = {req'[w].found} \ {0} /\ req'[w].todo = <<>>
  <2>1. CASE Running = {} /\ req' = [req EXCEPT ![w] = Nothing]
    <3>1. req \in [Workers -> Requests] /\ Nothing \in Requests
      BY DEF IInv, Typed, Nothing, Requests, Zero, Counters
    <3>2. req'[w] = Nothing
      BY <2>1, <3>1
    <3> QED BY <2>1, <3>1, <3>2 DEF Nothing
  <2>2. CASE \E r \in Running : req' = [req EXCEPT ![w] = [Nothing EXCEPT !.found = r,
                                                                       !.stuck = r \in aged]]
    <3>1. PICK r \in Running : req' = [req EXCEPT ![w] = [Nothing EXCEPT !.found = r,
                                                                       !.stuck = r \in aged]]
      BY <2>2
    <3>2. Running = {r} /\ r \in 0..MaxRuns /\ r # 0
      BY DEF IInv, Single, Running, Runs
    <3> DEFINE old == r \in aged
               found == [Nothing EXCEPT !.found = r, !.stuck = old]
    <3>3. old \in BOOLEAN
      OBVIOUS
    <3>4. req' = [req EXCEPT ![w] = found]
      BY <3>1
    <3> HIDE DEF old
    <3>5. found \in Requests /\ found.found = r /\ found.run = 0 /\ found.todo = <<>>
      BY <3>2, <3>3, NothingTyped DEF Requests
    <3> HIDE DEF found
    <3>6. req'[w] = found
      BY <3>4 DEF IInv, Typed
    <3>7. req' = [req EXCEPT ![w] = req'[w]]
      BY <3>4, <3>6
    <3>8. Running = {req'[w].found} \ {0}
      BY <3>2, <3>5, <3>6
    <3> QED BY <3>5, <3>6, <3>7, <3>8
  <2> QED BY <2>1, <2>2 DEF Lock
<1>3. UNCHANGED <<status, due, risk, written, run, aged>> /\ Running' = Running
  BY DEF Lock, registry, Running
<1>4. Typed'
  BY <1>2, <1>3 DEF IInv, Typed
<1>5. TypeOK'
  BY <1>1, <1>2, <1>3, <1>4 DEF IInv, TypeOK, Typed, At, Requests
<1>6. Holding'
  BY <1>1, <1>2, <1>3 DEF IInv, Holding, At
<1>9. ~Working(w)' /\ \A v \in Workers : v # w => (Working(v)' <=> Working(v))
  BY <1>1 DEF Working
<1>10. ~Working(w) /\ req[w].run = 0
  BY <1>1 DEF Working, IInv, Owned
<1>11. Owned'
  BY <1>1, <1>2, <1>3, <1>9 DEF IInv, Owned
<1>12. Alone'
  BY <1>1, <1>2 DEF IInv, Alone
<1>7. Progress'
  BY <1>1, <1>3, <1>9 DEF IInv, Progress
<1>8. Single' /\ Accounts'
  BY <1>3 DEF IInv, Single, Accounts
<1> QED BY <1>4, <1>5, <1>6, <1>7, <1>8, <1>11, <1>12 DEF IInv

LEMMA OpenStep ==
  ASSUME IInv, NEW w \in Workers, NEW scope \in {"periodic_due", "destination"},
         NEW todo \in Seq(Dests), Open(w, scope, todo)
  PROVE  IInv'
<1> USE SizeAssumption
<1> DEFINE fnd == req[w].found
           start == [Zero EXCEPT !.selected = Len(todo)]
<1>1. PICK r \in Runs :
        /\ At(w, "locked") /\ Admitted(w) /\ NewRun(r)
        /\ run' = [Reclaimed(fnd) EXCEPT ![r] =
              [status |-> "running", scope |-> scope, count |-> start]]
        /\ aged' = aged \ {fnd}
        /\ written' = [written EXCEPT ![r] = NothingWritten]
        /\ req' = [req EXCEPT ![w] = [Nothing EXCEPT !.run = r, !.todo = todo,
                                                     !.count.selected = Len(todo)]]
        /\ GoTo(w, "loop")
        /\ UNCHANGED <<status, due, risk, crashes>>
  BY DEF Open
<1>2. start \in Counters /\ Len(todo) \in Nat
      /\ start.selected = Len(todo) /\ start.clear = 0 /\ start.adverse = 0
      /\ start.revoked = 0 /\ start.skipped = 0 /\ start.failures = 0
  BY LenProperties DEF Zero, Counters
<1> DEFINE opened == [Nothing EXCEPT !.run = r, !.todo = todo, !.count.selected = Len(todo)]
<1>3. r \in 0..MaxRuns /\ Zero \in Counters
  BY DEF Runs, Zero, Counters
<1>4. opened \in Requests /\ opened.run = r /\ opened.todo = todo /\ opened.count = start
  <2>1. opened \in Requests
    BY <1>2, <1>3, NothingTyped DEF Requests, Counters
  <2>2. opened.run = r /\ opened.todo = todo
    BY <1>2, <1>3, NothingTyped DEF Requests
  <2>3. opened.count = start
    BY <1>2, <1>3, NothingTyped DEF Requests
  <2> QED BY <2>1, <2>2, <2>3
<1> HIDE DEF start, opened
<1>5. /\ req' = [req EXCEPT ![w] = opened]
      /\ req'[w].run = r /\ req'[w].todo = todo /\ req'[w].count = start
      /\ \A v \in Workers : v # w => req'[v] = req[v]
      /\ req' \in [Workers -> Requests]
  BY <1>1, <1>4 DEF opened, IInv, Typed
<1>6. /\ pc'[w] = "loop" /\ pc[w] = "locked"
      /\ \A v \in Workers : v # w => pc'[v] = pc[v] /\ pc[v] # "locked"
      /\ pc' \in [Workers -> {"idle", "locked", "loop", "called"}]
  BY <1>1 DEF GoTo, At, IInv, TypeOK, Holding
<1>7. /\ fnd \in 0..MaxRuns /\ Running = {fnd} \ {0} /\ fnd # r /\ r \in Runs
      /\ r \notin Running /\ \A v \in Workers : req[v].run # r
  <2>1. fnd \in 0..MaxRuns /\ Running = {fnd} \ {0}
    BY <1>1 DEF IInv, Typed, Requests, Holding
  <2>2. Unused(r)
    BY <1>1 DEF NewRun
  <2>3. r \notin Running
    BY <2>2 DEF Unused, Running
  <2>4. \A v \in Workers : req[v].run # r
    <3>1. CASE run[r].status = "none"
      BY <3>1 DEF IInv, Owned, Runs
    <3>2. CASE \A v \in Workers : req[v].run # r
      BY <3>2
    <3> QED BY <2>2, <3>1, <3>2 DEF Unused
  <2> QED BY <2>1, <2>3, <2>4 DEF Runs
<1>8. /\ run'[r] = [status |-> "running", scope |-> scope, count |-> start]
      /\ \A q \in Runs : q # r /\ q # fnd => run'[q] = run[q]
      /\ fnd # 0 => run'[fnd].status = "failed"
      /\ run' \in [Runs -> [status : {"none", "running", "completed", "completed_with_errors",
                                      "failed"},
                            scope : {"periodic_due", "destination", None}, count : Counters]]
  <2> DEFINE Row == [status : {"none", "running", "completed", "completed_with_errors", "failed"},
                     scope : {"periodic_due", "destination", None}, count : Counters]
             new == [status |-> "running", scope |-> scope, count |-> start]
             rec == Reclaimed(fnd)
  <2>1. run \in [Runs -> Row] /\ new \in Row
    BY <1>2 DEF IInv, TypeOK
  <2>2. fnd # 0 => fnd \in Runs
    BY <1>7 DEF Runs
  <2>3. /\ rec \in [Runs -> Row] /\ \A q \in Runs : q # fnd => rec[q] = run[q]
        /\ fnd # 0 => rec[fnd].status = "failed"
    BY <2>1, <2>2 DEF Reclaimed
  <2>4. run' = [rec EXCEPT ![r] = new]
    BY <1>1
  <2> HIDE DEF Row, new, rec
  <2>5. /\ run'[r] = new /\ run' \in [Runs -> Row]
        /\ \A q \in Runs : q # r => run'[q] = rec[q]
    BY <2>1, <2>3, <2>4
  <2>6. fnd # 0 => run'[fnd].status = "failed"
    BY <2>2, <2>3, <2>5, <1>7
  <2>7. \A q \in Runs : q # r /\ q # fnd => run'[q] = run[q]
    BY <2>3, <2>5
  <2> QED BY <2>5, <2>6, <2>7 DEF Row, new
<1>9. /\ written'[r] = NothingWritten
      /\ \A q \in Runs : q # r => written'[q] = written[q]
      /\ written' \in [Runs -> Written]
  BY <1>1 DEF IInv, Typed, NothingWritten, Written
<1>10. Running' = {r}
  <2>1. \A q \in Runs : run'[q].status = "running" => q = r
    <3>1. \A q \in Runs : q # r /\ q # fnd => run'[q].status # "running"
      BY <1>7, <1>8 DEF Running
    <3>2. \A q \in Runs : q = fnd => run'[q].status # "running"
      BY <1>8 DEF Runs
    <3> QED BY <3>1, <3>2
  <2> QED BY <2>1, <1>7, <1>8 DEF Running
<1>11. TypeOK'
  <2>1. aged' \subseteq Running'
    BY <1>1, <1>7, <1>10 DEF IInv, TypeOK
  <2>2. \A v \in Workers :
          /\ req'[v].run \in 0..MaxRuns /\ req'[v].todo \in Seq(Dests) /\ req'[v].count \in Counters
          /\ pc'[v] = "called" => req'[v].todo # <<>>
    BY <1>5, <1>6 DEF IInv, TypeOK, At, Requests
  <2> QED BY <1>1, <1>6, <1>8, <2>1, <2>2 DEF IInv, TypeOK, At
<1>12. Typed'
  BY <1>5, <1>9 DEF Typed
<1>13. Holding'
  BY <1>6 DEF Holding, At
<1>14. \A v \in Workers : v # w /\ Working(v)' => Working(v) /\ req[v].run # r /\ req'[v] = req[v]
  BY <1>5, <1>6, <1>7 DEF Working
<1>15. Owned'
  <2>1. ASSUME NEW v \in Workers, Working(v)'
        PROVE  req'[v].run \in Runs /\ run'[req'[v].run].status \in {"running", "failed"}
    <3>1. CASE v = w
      BY <3>1, <1>5, <1>8
    <3>2. CASE v # w
      <4>1. req[v].run \in Runs /\ run[req[v].run].status \in {"running", "failed"} /\ req[v].run # r
        BY <3>2, <2>1, <1>14 DEF IInv, Owned
      <4>2. req'[v].run = req[v].run
        BY <3>2, <2>1, <1>14
      <4>3. CASE req[v].run = fnd
        BY <4>1, <4>2, <4>3, <1>8 DEF Runs
      <4>4. CASE req[v].run # fnd
        BY <4>1, <4>2, <4>4, <1>8
      <4> QED BY <4>3, <4>4
    <3> QED BY <3>1, <3>2
  <2>2. ASSUME NEW v \in Workers, ~Working(v)'
        PROVE  req'[v].run = 0
    BY <2>2, <1>5, <1>6 DEF IInv, Owned, Working
  <2> QED BY <2>1, <2>2 DEF Owned
<1>16. Alone'
  BY <1>5, <1>7 DEF IInv, Alone
<1>17. Progress'
  <2>1. Agrees(req'[w].count, Len(req'[w].todo), written'[req'[w].run])
    BY <1>2, <1>5, <1>9 DEF Agrees, NothingWritten
  <2>2. ASSUME NEW v \in Workers, v # w, Working(v)'
        PROVE  Agrees(req'[v].count, Len(req'[v].todo), written'[req'[v].run])
    <3>1. req[v].run \in Runs /\ req[v].run # r /\ req'[v] = req[v] /\ Working(v)
      BY <2>2, <1>14 DEF IInv, Owned
    <3> QED BY <3>1, <1>9 DEF IInv, Progress
  <2> QED BY <2>1, <2>2 DEF Progress
<1>18. Single'
  BY <1>10 DEF Single
<1>19. Accounts'
  <2>1. ASSUME NEW q \in Runs, run'[q].status \in {"completed", "completed_with_errors"}
        PROVE  run'[q] = run[q] /\ written'[q] = written[q]
    BY <2>1, <1>7, <1>8, <1>9 DEF Runs
  <2> QED BY <2>1 DEF IInv, Accounts
<1> QED BY <1>11, <1>12, <1>13, <1>15, <1>16, <1>17, <1>18, <1>19 DEF IInv

\* The provider is called: nothing else happens.
LEMMA CallStep ==
  ASSUME IInv, NEW w \in Workers, Call(w)
  PROVE  IInv'
<1>1. /\ pc'[w] = "called" /\ pc[w] = "loop" /\ req[w].todo # <<>>
      /\ \A v \in Workers : v # w => pc'[v] = pc[v]
      /\ pc' \in [Workers -> {"idle", "locked", "loop", "called"}]
      /\ UNCHANGED <<status, due, risk, written, run, aged, req>>
  BY DEF Call, GoTo, At, IInv, TypeOK, registry
<1>2. Running' = Running /\ \A v \in Workers : Working(v)' <=> Working(v)
  BY <1>1 DEF Running, Working
<1>3. TypeOK'
  BY <1>1, <1>2 DEF IInv, TypeOK, At
<1>4. Typed' /\ Holding' /\ Single' /\ Accounts'
  BY <1>1, <1>2 DEF IInv, Typed, Holding, Single, Accounts, At
<1>5. Owned' /\ Alone' /\ Progress'
  BY <1>1, <1>2 DEF IInv, Owned, Alone, Progress
<1> QED BY <1>3, <1>4, <1>5 DEF IInv

\* What a verdict adds, to the counters of a run and to what it has written.
LEMMA TallyTyped ==
  ASSUME NEW verdict
  PROVE  /\ \A x \in Counters : Tally(x, verdict) \in Counters
         /\ \A x \in Written : Tally(x, verdict) \in Written
<1>1. ASSUME NEW x \in Counters PROVE Tally(x, verdict) \in Counters
  <2>1. x.clear + 1 \in Nat /\ x.adverse + 1 \in Nat /\ x.revoked + 1 \in Nat
    BY DEF Counters
  <2>2. \A a, r \in Nat : /\ [x EXCEPT !.clear = a] \in Counters
                          /\ [x EXCEPT !.adverse = a] \in Counters
                          /\ [x EXCEPT !.adverse = a, !.revoked = r] \in Counters
    BY DEF Counters
  <2> QED BY <2>1, <2>2 DEF Tally
<1>2. ASSUME NEW x \in Written PROVE Tally(x, verdict) \in Written
  <2>1. x.clear + 1 \in Nat /\ x.adverse + 1 \in Nat /\ x.revoked + 1 \in Nat
    BY DEF Written
  <2>2. \A a, r \in Nat : /\ [x EXCEPT !.clear = a] \in Written
                          /\ [x EXCEPT !.adverse = a] \in Written
                          /\ [x EXCEPT !.adverse = a, !.revoked = r] \in Written
    BY DEF Written
  <2> QED BY <2>1, <2>2 DEF Tally
<1> QED BY <1>1, <1>2

\* A candidate that is left out is counted as skipped or as a failure.
LEMMA AgreesLeft ==
  ASSUME NEW c \in Counters, NEW wr \in Written, NEW open \in Nat, Agrees(c, open, wr)
  PROVE  /\ [c EXCEPT !.skipped = @ + 1] \in Counters
         /\ [c EXCEPT !.failures = @ + 1] \in Counters
         /\ Agrees([c EXCEPT !.skipped = @ + 1], open - 1, wr)
         /\ Agrees([c EXCEPT !.failures = @ + 1], open - 1, wr)
  BY DEF Agrees, Counters, Written

\* An acknowledged result is counted as what it is.
LEMMA AgreesTally ==
  ASSUME NEW c \in Counters, NEW wr \in Written, NEW open \in Nat, NEW verdict, Agrees(c, open, wr)
  PROVE  Agrees(Tally(c, verdict), open - 1, Tally(wr, verdict))
<1>1. CASE verdict = "clear"
  BY <1>1 DEF Agrees, Counters, Written, Tally
<1>2. CASE verdict = "hit"
  <2>1. Agrees([c EXCEPT !.adverse = @ + 1, !.revoked = @ + 1], open - 1,
               [wr EXCEPT !.adverse = @ + 1, !.revoked = @ + 1])
    BY DEF Agrees, Counters, Written
  <2> QED BY <1>2, <2>1 DEF Tally
<1>3. CASE verdict \notin {"clear", "hit"}
  BY <1>3 DEF Agrees, Counters, Written, Tally
<1> QED BY <1>1, <1>2, <1>3

\* The result stands, and the candidate is counted as a failure.
LEMMA AgreesUnacknowledged ==
  ASSUME NEW c \in Counters, NEW wr \in Written, NEW open \in Nat, NEW verdict, Agrees(c, open, wr)
  PROVE  Agrees([c EXCEPT !.failures = @ + 1], open - 1, Tally(wr, verdict))
<1>1. CASE verdict = "clear"
  BY <1>1 DEF Agrees, Counters, Written, Tally
<1>2. CASE verdict = "hit"
  <2>1. /\ Tally(wr, verdict).clear = wr.clear
        /\ Tally(wr, verdict).adverse = wr.adverse + 1
    BY <1>2 DEF Tally, Written
  <2> DEFINE x == Tally(wr, verdict)
  <2> HIDE DEF x
  <2> QED BY <2>1 DEF Agrees, Counters, Written, x
<1>3. CASE verdict \notin {"clear", "hit"}
  BY <1>3 DEF Agrees, Counters, Written, Tally
<1> QED BY <1>1, <1>2, <1>3

\* A candidate that is not screened is counted as skipped or as a failure.
LEMMA LeftStep ==
  ASSUME IInv, NEW w \in Workers, Working(w), req[w].todo # <<>>,
         NEW counts \in {Skipped(w), Failed(w)}, Count(w, counts),
         UNCHANGED <<registry, run, aged>>
  PROVE  IInv'
<1> DEFINE c == req[w].count
           wr == written[req[w].run]
           open == Len(req[w].todo)
<1>1. c \in Counters /\ open \in Nat /\ wr \in Written /\ Agrees(c, open, wr)
  BY LenProperties DEF IInv, Typed, Requests, Owned, Progress
<1>2. counts = [c EXCEPT !.skipped = @ + 1] \/ counts = [c EXCEPT !.failures = @ + 1]
  BY DEF Skipped, Failed
<1> HIDE DEF c, wr, open
<1>3. counts \in Counters /\ Agrees(counts, open - 1, wr)
  BY <1>1, <1>2, AgreesLeft
<1>4. /\ status' \in [Dests -> {"review", "eligible", "revoked"}]
      /\ due' \in Seq(Dests) /\ IsInjective(due)'
      /\ risk' \in [Dests -> Verdicts \cup {"clear", None}]
      /\ written' = written /\ written \in [Runs -> Written]
  BY DEF registry, IInv, TypeOK, Typed
<1> QED BY <1>3, <1>4, CountStep DEF open, wr

LEMMA ApplyStep ==
  ASSUME IInv, NEW w \in Workers, NEW verdict \in Verdicts, NEW acknowledged \in BOOLEAN,
         Apply(w, verdict, acknowledged)
  PROVE  IInv'
<1> DEFINE c == req[w].count
           mine == req[w].run
           wr == written[mine]
           d == Head(req[w].todo)
           open == Len(req[w].todo)
           counts == IF acknowledged THEN Tally(c, verdict) ELSE Failed(w)
<1>1. /\ Working(w) /\ req[w].todo # <<>> /\ d \in Dests /\ mine \in Runs
      /\ c \in Counters /\ open \in Nat /\ wr \in Written /\ Agrees(c, open, wr)
  BY LenProperties, HeadTailProperties
     DEF Apply, At, Working, IInv, TypeOK, Typed, Requests, Owned, Progress
<1>2. Count(w, counts) /\ UNCHANGED <<run, aged>>
  BY DEF Apply
<1>3. /\ status' \in [Dests -> {"review", "eligible", "revoked"}]
      /\ risk' \in [Dests -> Verdicts \cup {"clear", None}]
  BY <1>1 DEF Apply, IInv, TypeOK
<1>4. due' \in Seq(Dests) /\ IsInjective(due)'
  BY RemoveFirstProper DEF Apply, IInv, TypeOK
<1>5. /\ written' \in [Runs -> Written] /\ written'[mine] = Tally(wr, verdict)
      /\ \A r \in Runs : r # mine => written'[r] = written[r]
  <2>1. written' = [written EXCEPT ![mine] = Tally(@, verdict)]
    BY DEF Apply
  <2> QED BY <1>1, <2>1, TallyTyped DEF IInv, Typed
<1>6. counts \in Counters /\ Agrees(counts, open - 1, Tally(wr, verdict))
  <2>1. Failed(w) = [c EXCEPT !.failures = @ + 1]
    BY DEF Failed
  <2> HIDE DEF c, wr, open
  <2>2. Tally(c, verdict) \in Counters /\ Agrees(Tally(c, verdict), open - 1, Tally(wr, verdict))
    BY <1>1, TallyTyped, AgreesTally
  <2>3. Failed(w) \in Counters /\ Agrees(Failed(w), open - 1, Tally(wr, verdict))
    BY <1>1, <2>1, AgreesLeft, AgreesUnacknowledged
  <2> QED BY <2>2, <2>3
<1> HIDE DEF counts
<1> QED BY <1>1, <1>2, <1>3, <1>4, <1>5, <1>6, CountStep

LEMMA FinalizeStep ==
  ASSUME IInv, NEW w \in Workers, Finalize(w)
  PROVE  IInv'
<1> DEFINE r == req[w].run
           c == req[w].count
<1>1. /\ Working(w) /\ r \in Runs /\ c \in Counters /\ written[r] \in Written
      /\ Agrees(c, 0, written[r]) /\ run \in [Runs -> Rows]
  <2>1. Working(w) /\ req[w].todo = <<>> /\ c \in Counters /\ run \in [Runs -> Rows]
    BY DEF Finalize, At, Working, IInv, TypeOK, Rows
  <2>2. Len(req[w].todo) = 0
    BY <2>1
  <2> QED BY <2>1, <2>2 DEF IInv, Typed, Owned, Progress
<1>2. /\ run'[r].status = Classified(c) /\ run'[r].count = c
      /\ run' \in [Runs -> Rows] /\ \A q \in Runs : q # r => run'[q] = run[q]
  <2>1. /\ run' = [run EXCEPT ![r].status = Classified(c), ![r].count = c]
        /\ Classified(c) \in {"completed", "completed_with_errors"}
    BY DEF Finalize, Classified
  <2> HIDE DEF c, r
  <2> QED BY <1>1, <2>1 DEF Rows
<1>3. Running' = Running \ {r}
  BY <1>1, <1>2 DEF Running, Classified
<1>4. UNCHANGED registry /\ End(w)
  BY DEF Finalize
<1>5. Accounts'
  <2>1. c.failures = 0 =>
            written[r] = [clear |-> c.clear, adverse |-> c.adverse, revoked |-> c.revoked]
    BY <1>1 DEF Agrees, Counters, Written
  <2>2. Classified(c) = "completed" => c.failures = 0
    BY <1>1 DEF Classified, Counters
  <2>3. ASSUME NEW q \in Runs, run'[q].status \in {"completed", "completed_with_errors"}, q # r
        PROVE  run'[q] = run[q] /\ written'[q] = written[q]
    BY <2>3, <1>2, <1>4 DEF registry
  <2> HIDE DEF c, r
  <2>4. LET k == run'[r].count IN
        /\ k.selected = k.clear + k.adverse + k.skipped + k.failures
        /\ k.clear + k.adverse <= written'[r].clear + written'[r].adverse
        /\ written'[r].clear + written'[r].adverse <= k.clear + k.adverse + k.failures
        /\ run'[r].status = "completed" =>
              written'[r] = [clear |-> k.clear, adverse |-> k.adverse, revoked |-> k.revoked]
    BY <1>1, <1>2, <1>4, <2>1, <2>2 DEF Agrees, registry, Counters
  <2> QED BY <1>2, <2>3, <2>4 DEF IInv, Accounts
<1>6. Holding'
  <2>1. \A v \in Workers : At(v, "locked") => req[v].found # r
    BY DEF Finalize, RowFree
  <2>2. \A v \in Workers : At(v, "locked")' => At(v, "locked") /\ req'[v] = req[v]
    BY <1>4 DEF End, GoTo, At, IInv, TypeOK, Typed
  <2> QED BY <1>3, <2>1, <2>2 DEF IInv, Holding
<1>7. aged' \subseteq Running'
  BY <1>3 DEF Finalize, IInv, TypeOK
<1> QED BY <1>2, <1>3, <1>4, <1>5, <1>6, <1>7, EndStep

\* A request that goes without finalising leaves its run as it is.
LEMMA GoneStep ==
  ASSUME IInv, NEW w \in Workers, End(w), UNCHANGED <<registry, run, aged>>
  PROVE  IInv'
<1>1. /\ run' \in [Runs -> Rows] /\ aged' \subseteq Running' /\ Running' = Running
      /\ \A r \in Runs : run'[r] = run[r]
  BY DEF IInv, TypeOK, Rows, Running
<1>2. Accounts'
  BY DEF IInv, Accounts, registry
<1>3. Holding'
  <2>1. \A v \in Workers : At(v, "locked")' => At(v, "locked") /\ req'[v] = req[v]
    BY DEF End, GoTo, At, IInv, TypeOK, Typed
  <2> QED BY <1>1, <2>1 DEF IInv, Holding
<1> QED BY <1>1, <1>2, <1>3, EndStep

\* Evidence that comes to lapse goes to the end of the due list.
LEMMA FallDueStep ==
  ASSUME IInv, NEW d \in Dests, FallDue(d)
  PROVE  IInv'
<1> DEFINE new == Append(due, d)
<1>1. due \in Seq(Dests) /\ IsInjective(due) /\ Len(due) \in Nat /\ DOMAIN due = 1..Len(due)
  BY LenProperties DEF IInv, TypeOK
<1>2. /\ new \in Seq(Dests) /\ Len(new) = Len(due) + 1 /\ DOMAIN new = 1..(Len(due) + 1)
      /\ \A i \in 1..Len(due) : new[i] = due[i]
      /\ new[Len(due) + 1] = d
  BY <1>1, AppendProperties, LenProperties
<1>3. \A i \in 1..Len(due) : due[i] # d
  BY <1>1 DEF FallDue, IsDue
<1> HIDE DEF new
<1>4. IsInjective(new)
  <2>1. ASSUME NEW i \in 1..(Len(due) + 1), NEW j \in 1..(Len(due) + 1), new[i] = new[j]
        PROVE  i = j
    <3>1. \A k \in 1..(Len(due) + 1) : k # Len(due) + 1 => k \in 1..Len(due)
      BY <1>1
    <3> QED BY <2>1, <3>1, <1>1, <1>2, <1>3 DEF IsInjective
  <2> QED BY <2>1, <1>2 DEF IsInjective
<1>5. due' = new /\ UNCHANGED <<status, risk, run, aged, pc, req, written>>
  BY DEF FallDue, new
<1>6. /\ due' \in Seq(Dests) /\ IsInjective(due)' /\ aged' \subseteq Running
      /\ status' \in [Dests -> {"review", "eligible", "revoked"}]
      /\ risk' \in [Dests -> Verdicts \cup {"clear", None}]
  BY <1>2, <1>4, <1>5 DEF IInv, TypeOK
<1> QED BY <1>5, <1>6, RegistryStep

\* Whitelisting, revocation and the stuck threshold touch no run.
LEMMA SurroundingsStep ==
  ASSUME IInv, \/ \E d \in Dests : Whitelist(d) \/ Revoke(d)
               \/ \E r \in Runs : Age(r)
  PROVE  IInv'
<1>1. /\ UNCHANGED <<run, pc, req, written>>
      /\ status' \in [Dests -> {"review", "eligible", "revoked"}]
      /\ due' = due /\ risk' = risk /\ aged' \subseteq Running
  BY DEF Whitelist, Revoke, Age, registry, IInv, TypeOK
<1>2. due' \in Seq(Dests) /\ IsInjective(due)' /\ risk' \in [Dests -> Verdicts \cup {"clear", None}]
  BY <1>1 DEF IInv, TypeOK
<1> QED BY <1>1, <1>2, RegistryStep

LEMMA StepKeepsIInv == IInv /\ [Next]_vars => IInv'
<1> SUFFICES ASSUME IInv, [Next]_vars PROVE IInv'
  OBVIOUS
<1>1. ASSUME NEW w \in Workers, Lock(w) PROVE IInv'
  BY <1>1, LockStep
<1>2. ASSUME NEW w \in Workers, OpenPeriodic(w) PROVE IInv'
  <2>1. SeqOf(Dests, BatchSize) \subseteq Seq(Dests)
    BY SizeAssumption DEF SeqOf
  <2> QED BY <1>2, <2>1, OpenStep DEF OpenPeriodic
<1>3. ASSUME NEW w \in Workers, NEW d \in Targets, OpenTargeted(w, d) PROVE IInv'
  <2>1. <<d>> \in Seq(Dests)
    BY DestAssumption
  <2> QED BY <1>3, <2>1, OpenStep DEF OpenTargeted
<1>4. ASSUME NEW w \in Workers, Refuse(w) \/ Crash(w) PROVE IInv'
  BY <1>4, GoneStep DEF Refuse, Crash
<1>5. ASSUME NEW w \in Workers, Skip(w) \/ Fail(w) \/ Discard(w) PROVE IInv'
  <2>1. Working(w) /\ req[w].todo # <<>> /\ UNCHANGED <<registry, run, aged>>
    BY <1>5 DEF Skip, Fail, Discard, At, Working, IInv, TypeOK
  <2>2. Count(w, Skipped(w)) \/ Count(w, Failed(w))
    BY <1>5 DEF Skip, Fail, Discard
  <2> QED BY <2>1, <2>2, LeftStep
<1>6. ASSUME NEW w \in Workers, Call(w) PROVE IInv'
  BY <1>6, CallStep
<1>7. ASSUME NEW w \in Workers, Finalize(w) PROVE IInv'
  BY <1>7, FinalizeStep
<1>8. ASSUME NEW w \in Workers, NEW verdict \in Verdicts, NEW acknowledged \in BOOLEAN,
             Apply(w, verdict, acknowledged)
      PROVE  IInv'
  BY <1>8, ApplyStep
<1>9. ASSUME NEW d \in Dests, FallDue(d) PROVE IInv'
  BY <1>9, FallDueStep
<1>10. ASSUME \/ \E d \in Dests : Whitelist(d) \/ Revoke(d)
              \/ \E r \in Runs : Age(r)
       PROVE  IInv'
  BY <1>10, SurroundingsStep
<1>11. ASSUME UNCHANGED vars PROVE IInv'
  <2>1. /\ UNCHANGED <<run, pc, req, written>>
        /\ status' = status /\ due' = due /\ risk' = risk /\ aged' = aged
    BY <1>11 DEF vars
  <2>2. /\ status' \in [Dests -> {"review", "eligible", "revoked"}]
        /\ due' \in Seq(Dests) /\ IsInjective(due)' /\ aged' \subseteq Running
        /\ risk' \in [Dests -> Verdicts \cup {"clear", None}]
    BY <2>1 DEF IInv, TypeOK
  <2> QED BY <2>1, <2>2, RegistryStep
<1> QED BY <1>1, <1>2, <1>3, <1>4, <1>5, <1>6, <1>7, <1>8, <1>9, <1>10, <1>11 DEF Next, Process

LEMMA AlwaysIInv == Spec => []IInv
<1>1. Init => IInv
  BY Initially
<1>2. IInv /\ [Next]_vars => IInv'
  BY StepKeepsIInv
<1> QED BY <1>1, <1>2, PTL DEF Spec

-----------------------------------------------------------------------------
(* The theorems.                                                           *)

\* At most one run is running, and the row of a finalised run accounts for its candidates and for
\* what the run wrote, however runs overlap, are reclaimed or die (runRescreening).
THEOREM RunsTell == Spec => []RunsAccount
<1>1. IInv => RunsAccount
  <2>1. ASSUME IInv PROVE Cardinality(Running) <= 1
    BY <2>1, CountOfSingle DEF IInv, Single
  <2> QED BY <2>1 DEF RunsAccount, IInv, OneRunning
<1> QED BY <1>1, AlwaysIInv, PTL

\* A destination that is revoked while its provider call is under way is left alone by the answer:
\* it stays revoked and gets no new evidence (applyRescreening's re-check under the row lock).
THEOREM RevokedStays == Spec => RevokedFrozen
<1> DEFINE A == \A d \in Dests : status[d] = "revoked" =>
                   status'[d] = "revoked" /\ risk'[d] = risk[d]
<1>1. ASSUME IInv, [Next]_vars PROVE [A]_vars
  <2>1. ASSUME NEW w \in Workers, NEW verdict \in Verdicts, NEW acknowledged \in BOOLEAN,
               Apply(w, verdict, acknowledged)
        PROVE  A
    <3> DEFINE e == Head(req[w].todo)
    <3>1. /\ status[e] = "eligible" /\ risk' = [risk EXCEPT ![e] = verdict]
          /\ status' = IF verdict = "hit" THEN [status EXCEPT ![e] = "revoked"] ELSE status
      BY <2>1 DEF Apply, Applicable
    <3>2. status \in [Dests -> {"review", "eligible", "revoked"}]
          /\ risk \in [Dests -> Verdicts \cup {"clear", None}]
      BY <1>1 DEF IInv, TypeOK
    <3> HIDE DEF e
    <3> QED BY <3>1, <3>2
  <2>2. ASSUME NEW w \in Workers,
               \/ Lock(w) \/ OpenPeriodic(w) \/ Crash(w) \/ Refuse(w) \/ Skip(w) \/ Call(w)
               \/ Fail(w) \/ Discard(w) \/ Finalize(w) \/ \E d \in Targets : OpenTargeted(w, d)
        PROVE  A
    BY <2>2 DEF Lock, OpenPeriodic, OpenTargeted, Open, Crash, Refuse, Skip, Call, Fail, Discard,
                Finalize, registry
  <2>3. ASSUME NEW d \in Dests, FallDue(d) \/ Whitelist(d) \/ Revoke(d) PROVE A
    <3>1. status \in [Dests -> {"review", "eligible", "revoked"}]
      BY <1>1 DEF IInv, TypeOK
    <3> QED BY <2>3, <3>1 DEF FallDue, Whitelist, Revoke
  <2>4. ASSUME NEW r \in Runs, Age(r) PROVE A
    BY <2>4 DEF Age, registry
  <2> HIDE DEF A
  <2> QED BY <1>1, <2>1, <2>2, <2>3, <2>4 DEF Next, Process
<1>2. IInv /\ [Next]_vars => [A]_vars
  BY <1>1
<1> QED BY <1>2, AlwaysIInv, PTL DEF Spec, RevokedFrozen
=============================================================================
