--------------------------- MODULE KycPublication ---------------------------
(***************************************************************************)
(* KYC-01: the verification cases of one application, the publication of   *)
(* their aggregate outcome over CLT-01's roster of parties, and its        *)
(* delivery to CLT-01.  A publication fetches the roster, then validates   *)
(* and inserts in one transaction; a delivery fetches it again, validates  *)
(* in one transaction, calls CLT-01, and records the answer in another.    *)
(* The call may be answered late or never, the worker may die at any point,*)
(* and meanwhile cases are decided again, overridden or replaced, and the  *)
(* roster moves on.                                                        *)
(*                                                                         *)
(* How a case comes by its outcome is module KycCase.                      *)
(***************************************************************************)
EXTENDS Naturals, Sequences, FiniteSets

CONSTANTS
    CaseTypes,      \* case types a primary case may be opened with; the applicant is an "individual"
    Parties,        \* authorised parties CLT-01 may list
    Results,        \* outcomes of a case
    Pubs,           \* numbers of the publications, in the order they are inserted
    Workers,
    MaxCases,       \* bound: cases of the application
    MaxOutcomes,    \* bound: outcomes recorded
    MaxStragglers,  \* bound: calls at once that nobody waits for
    MaxRevision,    \* bound: changes of the roster
    None

ASSUME PubsAssumption == Pubs \subseteq Nat
ASSUME BoundAssumption == MaxCases \in Nat /\ MaxOutcomes \in Nat /\ MaxRevision \in Nat
ASSUME CasesAssumption == "individual" \in CaseTypes /\ "pass" \in Results
ASSUME NoneAssumption == None \notin Results \cup {"pending", "succeeded", "failed", "superseded"}

Anchors == Parties \cup CaseTypes

VARIABLES
    roster,         \* CLT-01's answer: open (under review), required parties, revision
    cases,          \* kyc1.kyc_case rows of each anchor, oldest first
    pub,            \* kyc1.outcome_publication
    work,           \* the point each worker has reached, with what it read
    loose,          \* calls whose caller has given up, or died, and which CLT-01 may still receive
    client          \* what CLT-01 holds: the call accepted last, and the parties it then required

vars == <<roster, cases, pub, work, loose, client>>

NoPub == [status |-> None, result |-> None, roster |-> None, on |-> None]
Idle == [at |-> "idle", arg |-> None, roster |-> None]

\* A call to CLT-01; history: whether a case changed, or its publication was superseded,
\* while it was in flight.
Call(n) == [pub |-> n, drifted |-> FALSE, overtaken |-> FALSE]
NewCase == [status |-> "pending_documents", result |-> None, outcome |-> 0]

Now(w) == work[w].at
Go(w, point, arg) == work' = [work EXCEPT ![w] = [Idle EXCEPT !.at = point, !.arg = arg]]
Rest(w) == work' = [work EXCEPT ![w] = Idle]
Resting(w) == [work EXCEPT ![w] = Idle]

\* Every call in flight is marked by Mark.
Marked(now, Mark(_)) ==
    /\ work' = [v \in Workers |-> IF now[v].at = "calling" THEN [now[v] EXCEPT !.arg = Mark(now[v].arg)] ELSE now[v]]
    /\ loose' = {Mark(c) : c \in loose}
Drift(now) == Marked(now, LAMBDA c : [c EXCEPT !.drifted = TRUE])

-----------------------------------------------------------------------------
(* Cases *)

Opened(a) == cases[a] # <<>>
Authoritative(a) == cases[a][Len(cases[a])]
Outcomes == {o \in 0..MaxOutcomes : \E a \in Anchors : \E i \in DOMAIN cases[a] : cases[a][i].outcome = o}
IsNextOutcome(n) == (\A m \in Outcomes : m < n) /\ n - 1 \in Outcomes \cup {0}

\* idx_kyc1_kyc_case_one_active_per_anchor: one case of an anchor is not completed.
ActiveElsewhere(a, i) == \E j \in DOMAIN cases[a] \ {i} : cases[a][j].status # "completed"

CaseCount == Cardinality({p \in Anchors \X (1..MaxCases) : p[2] \in DOMAIN cases[p[1]]})

\* POST /handoffs
Handoff(a) ==
    /\ CaseCount < MaxCases /\ ~ActiveElsewhere(a, 0)
    /\ cases' = [cases EXCEPT ![a] = Append(@, NewCase)]
    /\ Drift(work)
    /\ UNCHANGED <<roster, pub, client>>

\* compute-outcome or an applied override gives a case its next outcome.
StatusFor_Raw(s) == s
StatusFor(s) == IF s = "remediation_required" THEN "remediation" ELSE "completed"
Decide(a, i, s) ==
    /\ i \in DOMAIN cases[a]
    /\ StatusFor(s) # "completed" => ~ActiveElsewhere(a, i)
    /\ \E n \in 1..MaxOutcomes : /\ IsNextOutcome(n)
                                 /\ cases' = [cases EXCEPT ![a][i] =
                                        [status |-> StatusFor(s), result |-> s, outcome |-> n]]
    /\ Drift(work)
    /\ UNCHANGED <<roster, pub, client>>

\* CLT-01: parties come and go, and the application leaves review.
RosterMoves(required, open) ==
    /\ roster.open /\ roster.revision < MaxRevision
    /\ open \/ required = roster.required
    /\ roster' = [open |-> open, required |-> required, revision |-> roster.revision + 1]
    /\ UNCHANGED <<cases, pub, work, loose, client>>

\* fetchClt1KycRoster: no answer, or a malformed one, ends every handler that asks.
Fetch(w, point, n) ==
    /\ Now(w) = "idle" /\ roster.open
    /\ work' = [work EXCEPT ![w] = [at |-> point, arg |-> n, roster |-> roster]]
    /\ UNCHANGED <<roster, cases, pub, loose, client>>

\* roster-sync: a case for every required party that has none, under the application lock.
SyncRead(w) == Fetch(w, "syncing", None)
SyncWrite(w) ==
    /\ Now(w) = "syncing"
    /\ CaseCount + Cardinality({p \in work[w].roster.required : ~Opened(p)}) <= MaxCases
    /\ cases' = [a \in Anchors |->
                    IF a \in work[w].roster.required /\ ~Opened(a) THEN <<NewCase>> ELSE cases[a]]
    /\ Drift(Resting(w))
    /\ UNCHANGED <<roster, pub, client>>

-----------------------------------------------------------------------------
(* The aggregate over a roster *)

PrimaryResolved ==
    /\ Opened("individual") /\ (\A t \in CaseTypes \ {"individual"} : ~Opened(t))
    /\ Authoritative("individual").result # None
PartiesResolved_PresentOnly(required) ==
    \A p \in required : Opened(p) => Authoritative(p).result # None
PartiesResolved(required) ==
    \A p \in required : Opened(p) /\ Authoritative(p).result # None

Publishable(required) == PrimaryResolved /\ PartiesResolved(required)

Contributing(required) == {a \in required \cup {"individual"} : Opened(a)}
Aggregate(required) ==
    LET results == {Authoritative(a).result : a \in Contributing(required)} IN
    CASE "fail" \in results -> "fail"
      [] "fail" \notin results /\ "remediation_required" \in results -> "remediation_required"
      [] OTHER -> "pass"
OutcomesOf(required) == [a \in Contributing(required) |-> Authoritative(a).outcome]

-----------------------------------------------------------------------------
(* Publication *)

Active(n) == pub[n].status \notin {None, "superseded"}
IsNext(n) == \A m \in Pubs : pub[m] = NoPub <=> m >= n

PublishRead(w) == Fetch(w, "publishing", None)

\* A pass over tied, conflicting evidence is refused: KycCase.
PublishWrite(w, n) ==
    LET r == work[w].roster IN
    /\ Now(w) = "publishing" /\ IsNext(n)
    /\ \/ /\ Publishable(r.required)
          /\ pub' = [m \in Pubs |->
                IF m = n THEN [status |-> "pending", result |-> Aggregate(r.required),
                               roster |-> r, on |-> OutcomesOf(r.required)]
                ELSE IF Active(m) THEN [pub[m] EXCEPT !.status = "superseded"] ELSE pub[m]]
          /\ Marked(Resting(w), LAMBDA c : [c EXCEPT !.overtaken = c.overtaken \/ Active(c.pub)])
       \/ /\ ~Publishable(r.required) \/ Aggregate(r.required) = "pass"
          /\ Rest(w) /\ UNCHANGED <<pub, loose>>
    /\ UNCHANGED <<roster, cases, client>>

-----------------------------------------------------------------------------
(* Delivery *)

DeliverRead(w, n) == pub[n] # NoPub /\ Fetch(w, "preparing", n)

Deliverable_Any(n) == TRUE
Deliverable(n) == pub[n].status \in {"pending", "failed"}

\* detectStaleness, against the roster fetched before the transaction.
Current_Unread(n, r) == pub[n].roster = r
Current(n, r) ==
    /\ pub[n].roster = r /\ Publishable(r.required)
    /\ pub[n].on = OutcomesOf(r.required) /\ pub[n].result = Aggregate(r.required)

DeliverPrepare(w) ==
    LET n == work[w].arg IN
    /\ Now(w) = "preparing"
    /\ IF Deliverable(n) /\ Current(n, work[w].roster) THEN Go(w, "calling", Call(n)) ELSE Rest(w)
    /\ UNCHANGED <<roster, cases, pub, loose, client>>

\* CLT-01's atomic receipt: under review, and the roster is the one the outcome names.
Accepts_Unbound(n) == roster.open
Accepts(n) == roster.open /\ pub[n].roster = roster
Receive(c) ==
    client' = IF Accepts(c.pub) THEN [call |-> c, required |-> roster.required] ELSE client

Answered(w) ==
    LET c == work[w].arg IN
    /\ Now(w) = "calling" /\ Receive(c)
    /\ Go(w, IF Accepts(c.pub) THEN "accepted" ELSE "failed", c.pub)
    /\ UNCHANGED <<roster, cases, pub, loose>>

Strays(c) == loose' = loose \cup {c} /\ Cardinality(loose') <= MaxStragglers

TimesOut(w) ==
    /\ Now(w) = "calling"
    /\ Strays(work[w].arg)
    /\ Go(w, "failed", work[w].arg.pub)
    /\ UNCHANGED <<roster, cases, pub, client>>

\* A call nobody waits for any more arrives, or is lost.
Straggles(c) ==
    /\ loose' = loose \ {c}
    /\ Receive(c) \/ UNCHANGED client
    /\ UNCHANGED <<roster, cases, pub, work>>

\* The finalising transaction.
Recorded_TwoWay(n, point) == IF point = "accepted" THEN "succeeded" ELSE "failed"
Recorded(n, point) ==
    IF pub[n].status = "superseded" THEN "superseded"
    ELSE IF point = "accepted" THEN "succeeded" ELSE "failed"

DeliverRecord(w) ==
    LET n == work[w].arg IN
    /\ Now(w) \in {"accepted", "failed"}
    /\ pub' = [pub EXCEPT ![n].status = Recorded(n, Now(w))]
    /\ Rest(w)
    /\ UNCHANGED <<roster, cases, loose, client>>

\* The process dies, or the finalising transaction rolls back.
Dies(w) ==
    /\ Now(w) \in {"calling", "accepted", "failed"}
    /\ IF Now(w) = "calling" THEN Strays(work[w].arg) ELSE UNCHANGED loose
    /\ Rest(w)
    /\ UNCHANGED <<roster, cases, pub, client>>

-----------------------------------------------------------------------------
Init ==
    /\ roster = [open |-> TRUE, required |-> {}, revision |-> 0]
    /\ cases = [a \in Anchors |-> <<>>]
    /\ pub = [n \in Pubs |-> NoPub]
    /\ work = [w \in Workers |-> Idle]
    /\ loose = {} /\ client = None

Next ==
    \/ \E a \in Anchors : Handoff(a)
    \/ \E a \in Anchors, i \in 1..MaxCases, s \in Results : Decide(a, i, s)
    \/ \E required \in SUBSET Parties, open \in BOOLEAN : RosterMoves(required, open)
    \/ \E c \in loose : Straggles(c)
    \/ \E w \in Workers :
          \/ SyncRead(w) \/ SyncWrite(w) \/ PublishRead(w)
          \/ \E n \in Pubs : PublishWrite(w, n) \/ DeliverRead(w, n)
          \/ DeliverPrepare(w) \/ Answered(w) \/ TimesOut(w) \/ DeliverRecord(w) \/ Dies(w)

Spec == Init /\ [][Next]_vars

-----------------------------------------------------------------------------
Calls == [pub : Pubs, drifted : BOOLEAN, overtaken : BOOLEAN]

CaseRows == [status : {"pending_documents", "completed", "remediation"},
             result : Results \cup {None}, outcome : 0..MaxOutcomes]

RosterBindings == [open : BOOLEAN, required : SUBSET Parties, revision : 0..MaxRevision]
PublicationRows == [status : {"pending", "succeeded", "failed", "superseded"}, result : Results,
                    roster : RosterBindings, on : UNION {[A -> 1..MaxOutcomes] : A \in SUBSET Anchors}]

TypeOK ==
    /\ roster \in RosterBindings
    /\ \A a \in Anchors : \A i \in DOMAIN cases[a] :
          cases[a][i] \in CaseRows
    /\ \A n \in Pubs : pub[n] \in PublicationRows \cup {NoPub}
    /\ \A w \in Workers :
          Now(w) \in {"idle", "syncing", "publishing", "preparing", "calling", "accepted", "failed"}
    /\ loose \subseteq Calls
    /\ client = None \/ client \in [call : Calls, required : SUBSET Parties]

\* Whatever answers come in, and however late, at most one publication of the application is
\* not superseded, and it is the one inserted last.
NewestIsActive == \A n \in Pubs : Active(n) => \A m \in Pubs : m > n => pub[m] = NoPub

\* What CLT-01 accepted was computed over every party CLT-01 required at that moment.
AcceptedComplete ==
    client # None => client.required \cup {"individual"} = DOMAIN pub[client.call.pub].on

\* CLT-01 accepts an outcome that is no longer what KYC-01 would publish only when a case
\* changed while the call was in flight.
AcceptedAsOfSending ==
    [][client' # client =>
          \/ client'.call.drifted
          \/ pub[client'.call.pub].on = OutcomesOf(client'.required)]_vars

\* Once a publication has succeeded, CLT-01 holds an older one only if that one was superseded
\* with this very call in flight.
OlderOnlyIfOvertaken ==
    \A n \in Pubs : pub[n].status = "succeeded" /\ client.call.pub < n => client.call.overtaken

\* One publication is current, the newest; what CLT-01 accepted covers the parties it required,
\* and is older than a success only if that success was overtaken with its call in flight.
AcceptedSoundly == TypeOK /\ NewestIsActive /\ AcceptedComplete /\ OlderOnlyIfOvertaken
=============================================================================
