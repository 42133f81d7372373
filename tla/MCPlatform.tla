----------------------------- MODULE MCPlatform -----------------------------
(***************************************************************************)
(* Small instances of the parts of Platform:                               *)
(*   "screening"    two subjects, three screenings, two monitoring runs    *)
(*   "outcome"      a screening with two matches and two deliveries, or    *)
(*                  two screenings with a match each and one delivery      *)
(*   "stream"       two events for two audit streams, a seal, a check      *)
(*   "monitoring"   a rule that alerts on two events of a scope            *)
(*   "verification" a run or a seal that fails, the closure of its alert   *)
(*   "reads"        three events, one sensitive, or three alerts, one of   *)
(*                  them moved, searched one by one                        *)
(*   "feature"      two changes of a feature, which may not be there yet,  *)
(*                  and one of another, or two of the licence profile      *)
(*   "decision"     two transactions, two changes between their reads      *)
(*   "kill switch"  two actors, three deactivation requests                *)
(*   "rate limit"   one subject, windows of two and three ticks            *)
(*   "jobs"         two keys and one job, one payload without an owner     *)
(*   "calls"        two requests that verify one token, or one that asks   *)
(***************************************************************************)
EXTENDS Platform, TLC

CONSTANTS w1, w2, s1, s2, m1, m2, d1, d2, r1, r2, r3, a, b, f, g, h, l, c1, t1

MCWorkers == {w1, w2}
MCSubjects == {s1, s2}
MCMatches == {m1, m2}
Sanctions == [m \in MCMatches |-> "sanctions"]
MCScope == <<a, a, b>>
MCTarget == <<f, f, g, g, l, l, h>>
MCTo == <<"disabled", "enabled", "enabled", "enabled", "locked", "enabled", "enabled">>
Alike == UNION {Permutations(S) : S \in {MCWorkers, MCSubjects}}

\* Of two screenings each has one match, and one delivery is made.
OutcomeBound ==
    screening[2] # None =>
       /\ \A n \in Screenings : match[n][m2] = None
       /\ \E k \in Deliveries : delivery[k] = Outcome!NoDelivery

\* The verifications are of one run or of one seal.
AlertBound ==
    Cardinality({e \in {r1, l} : raised[e] # <<>> \/ e \in letter \cup warned \/ \E w \in MCWorkers : alertWork[w].entity = e}) <= 1

\* A change of a feature is approved once; the second of g is requested where f is left alone.  The
\* changes are of features or of the licence; of the licence's, only the one feature is looked at.
FeatureBound ==
    /\ \A n \in 1..4 : spent[n] <= 1
    /\ change[4] # None => change[3] # None /\ \A n \in 1..2 : change[n] = None
    /\ change[5] # None \/ change[6] # None => (\A n \in 1..4 : change[n] = None) /\ g \notin killed /\ token[t1].feature # g
    /\ h \notin killed

\* Two transactions overlap where both verify the token, as its caller received it.
DecisionBound ==
    LET Busy == {w \in MCWorkers : decisionWork[w] # Decision!Idle}
        Plain(w) == decisionWork[w].asserted /\ decisionWork[w].fits IN
    /\ Busy = MCWorkers => \A w \in Busy : decisionWork[w].token = t1 /\ decisionWork[w].feature = f /\ Plain(w)
    /\ \A w \in Busy : decisionWork[w].feature = h => Plain(w)
    /\ g \notin stopped /\ feature[g] = [state |-> "enabled", version |-> 1, available |-> TRUE] /\ \A w \in Busy : decisionWork[w].feature # g

\* What is asked besides tokens is asked by one request at a time; one verification is late.
CallBound ==
    /\ \A w \in MCWorkers : call[w].what \notin {None, "token"} =>
          \A v \in MCWorkers \ {w} : call[v] = Calls!NoCall
    /\ \A x, y \in abandoned : x = y

Bounds ==
    CASE focus = "outcome" -> OutcomeBound
      [] focus = "verification" -> AlertBound
      [] focus = "feature" -> FeatureBound
      [] focus = "decision" -> DecisionBound
      [] focus = "calls" -> CallBound
      [] OTHER -> TRUE

MCInit ==
    /\ PlatformInit
    /\ focus # "calls" => bound[t1] = "WLT-01"      \* read by the calls alone
    /\ focus # "reads" => ~ofAlerts                 \* read by the searches alone
    /\ state[h] = Feature!NewRow /\ (focus # "feature" => \A r \in {f, g} : state[r] = Feature!NewRow)
MCNext == PlatformNext /\ Bounds'
MCSpec == MCInit /\ [][MCNext]_allVars
=============================================================================
