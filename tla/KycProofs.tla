------------------------------ MODULE KycProofs ------------------------------
(***************************************************************************)
(* What CLT-01 has accepted, for any roster of parties, any number of      *)
(* publications, cases and workers, and calls that arrive late or never.   *)
(* The invariant is about calls in flight: one is marked if a case changed *)
(* since it was prepared, and marked if its publication was superseded; a  *)
(* publication that succeeded, or is about to be recorded so, was the last *)
(* to be accepted but for calls so marked.                                 *)
(***************************************************************************)
EXTENDS Kyc, SequenceTheorems, TLAPS

Points == {"idle", "syncing", "publishing", "preparing", "calling", "accepted", "failed"}
Tasks == [at : Points, arg : Calls \cup Pubs \cup {None}, roster : RosterBindings \cup {None}]
Accepted == [call : Calls, required : SUBSET Parties]

\* A case with a result has an outcome row.
Recorded1 == {r \in CaseRows : r.result # None => r.outcome # 0}

Typed ==
    /\ roster \in RosterBindings
    /\ cases \in [Anchors -> Seq(Recorded1)]
    /\ pub \in [Pubs -> PublicationRows \cup {NoPub}]
    /\ work \in [Workers -> Tasks]
    /\ loose \subseteq Calls

Sent(n) == pub[n] # NoPub

\* A publication names an outcome for every party of its roster, and for the applicant.
Whole == \A n \in Pubs : Sent(n) => DOMAIN pub[n].on = pub[n].roster.required \cup {"individual"}

\* A call CLT-01 may still receive.
InFlight(c) ==
    /\ c \in Calls /\ Sent(c.pub)
    /\ c.overtaken \/ Active(c.pub)
    /\ c.drifted \/ pub[c.pub].on = OutcomesOf(pub[c.pub].roster.required)

\* CLT-01 holds this publication or a newer one, or an older one whose call was overtaken.
Held(n) == client \in Accepted /\ (client.call.pub < n => client.call.overtaken)

Holds ==
    client = None \/ (/\ client \in Accepted /\ Sent(client.call.pub)
                      /\ client.required = pub[client.call.pub].roster.required)

Fit(w) ==
    LET arg == work[w].arg IN
    /\ Now(w) \in {"syncing", "publishing", "preparing"} => work[w].roster \in RosterBindings
    /\ Now(w) \in {"preparing", "accepted", "failed"} => arg \in Pubs /\ Sent(arg)
    /\ Now(w) = "calling" => InFlight(arg)
    /\ Now(w) = "accepted" => Held(arg)

IInv ==
    /\ Typed /\ NewestIsActive /\ Whole /\ Holds
    /\ \A n \in Pubs : pub[n].status = "succeeded" => Held(n)
    /\ \A c \in loose : InFlight(c)
    /\ \A w \in Workers : Fit(w)

-----------------------------------------------------------------------------
(* Rows.                                                                   *)

\* A publication that was inserted is a row.
LEMMA SentRow ==
  ASSUME Typed, NEW n \in Pubs
  PROVE  /\ Sent(n) <=> pub[n] \in PublicationRows
         /\ Sent(n) <=> pub[n].status # None
         /\ Active(n) => Sent(n)
         /\ pub[n].status = "succeeded" => Active(n)
BY NoneAssumption DEF Typed, Sent, NoPub, PublicationRows, Active

\* The case of an anchor that counts is its newest.
LEMMA AuthoritativeRow ==
  ASSUME Typed, NEW a \in Anchors, Opened(a)
  PROVE  Authoritative(a) \in Recorded1
<1>1. cases[a] \in Seq(Recorded1) /\ cases[a] # <<>>
  BY DEF Typed, Opened
<1>2. Len(cases[a]) \in 1..Len(cases[a])
  BY <1>1, EmptySeq, LenProperties
<1> QED  BY <1>1, <1>2, ElementOfSeq DEF Authoritative

\* What is published names a result, and an outcome for every party and the applicant.
LEMMA PublishableRow ==
  ASSUME Typed, NEW required \in SUBSET Parties, Publishable(required)
  PROVE  /\ Aggregate(required) \in Results
         /\ OutcomesOf(required) \in UNION {[A -> 1..MaxOutcomes] : A \in SUBSET Anchors}
         /\ DOMAIN OutcomesOf(required) = required \cup {"individual"}
<1> DEFINE C == required \cup {"individual"}
<1>1. C \subseteq Anchors
  BY CasesAssumption DEF Anchors
<1>2. \A a \in C : Opened(a) /\ Authoritative(a).result # None
  BY DEF Publishable, PrimaryResolved, PartiesResolved
<1>3. Contributing(required) = C
  BY <1>2 DEF Contributing
<1>4. \A a \in C : Authoritative(a).outcome \in 1..MaxOutcomes
  <2>1. \A a \in C : Authoritative(a) \in Recorded1
    BY <1>1, <1>2, AuthoritativeRow
  <2> QED  BY <1>2, <2>1, BoundAssumption DEF Recorded1, CaseRows
<1>5. OutcomesOf(required) = [a \in C |-> Authoritative(a).outcome]
  BY <1>3 DEF OutcomesOf
<1>6. OutcomesOf(required) \in [C -> 1..MaxOutcomes]
  BY <1>4, <1>5
<1>7. OutcomesOf(required) \in UNION {[A -> 1..MaxOutcomes] : A \in SUBSET Anchors}
  <2> HIDE DEF C
  <2> QED  BY <1>1, <1>6
<1>8. \A a \in C : Authoritative(a).result \in Results
  <2>1. \A a \in C : Authoritative(a) \in Recorded1
    BY <1>1, <1>2, AuthoritativeRow
  <2> QED  BY <1>2, <2>1 DEF Recorded1, CaseRows
<1>9. Aggregate(required) \in Results
  <2> DEFINE results == {Authoritative(a).result : a \in Contributing(required)}
  <2>1. results \subseteq Results
    BY <1>3, <1>8
  <2>2. Aggregate(required) = CASE "fail" \in results -> "fail"
           [] "fail" \notin results /\ "remediation_required" \in results -> "remediation_required"
           [] OTHER -> "pass"
    BY DEF Aggregate
  <2> HIDE DEF results
  <2> QED  BY <2>1, <2>2, CasesAssumption
<1> QED  BY <1>5, <1>7, <1>9

-----------------------------------------------------------------------------
(* Steps that insert no publication.                                       *)

\* Publications keep what they are bound to, and the current one stays so.
PubKept ==
    \A n \in Pubs : Sent(n) =>
        /\ Sent(n)' /\ pub'[n].on = pub[n].on /\ pub'[n].roster = pub[n].roster
        /\ Active(n) => Active(n)'

\* Whatever CLT-01 received, nothing it holds is older than it was but for an overtaken call.
ClientKept == \A n \in Pubs : Sent(n) /\ Held(n) => Held(n)'

LEMMA InFlightKept ==
  ASSUME NEW c, InFlight(c), PubKept, cases' = cases
  PROVE  InFlight(c)'
<1>1. c.pub \in Pubs /\ Sent(c.pub)
  BY DEF InFlight, Calls
<1>2. /\ Sent(c.pub)' /\ pub'[c.pub].on = pub[c.pub].on /\ pub'[c.pub].roster = pub[c.pub].roster
      /\ Active(c.pub) => Active(c.pub)'
  BY <1>1 DEF PubKept
<1>3. \A required : OutcomesOf(required)' = OutcomesOf(required)
  BY DEF OutcomesOf, Contributing, Opened, Authoritative
<1> QED  BY <1>1, <1>2, <1>3 DEF InFlight

LEMMA FitKept ==
  ASSUME NEW w \in Workers, Fit(w), PubKept, ClientKept, cases' = cases, work'[w] = work[w]
  PROVE  Fit(w)'
<1>1. CASE Now(w) = "calling"
  BY <1>1, InFlightKept DEF Fit, Now
<1>2. CASE Now(w) \in {"preparing", "accepted", "failed"}
  BY <1>2 DEF Fit, Now, PubKept, ClientKept
<1>3. CASE Now(w) \notin {"calling", "preparing", "accepted", "failed"}
  BY <1>3 DEF Fit, Now
<1> QED  BY <1>1, <1>2, <1>3

\* A step of one worker, who becomes Fit again, changes nothing for the others.
LEMMA WorkerStep ==
  ASSUME IInv, Typed', NEW w \in Workers, Fit(w)', \A v \in Workers \ {w} : work'[v] = work[v],
         PubKept, NewestIsActive', Whole', ClientKept, Holds',
         \A n \in Pubs : pub'[n].status = "succeeded" => Held(n)',
         cases' = cases, \A c \in loose' : c \in loose \/ InFlight(c)'
  PROVE  IInv'
<1>1. \A v \in Workers : Fit(v)'
  BY FitKept DEF IInv
<1>2. \A c \in loose' : InFlight(c)'
  BY InFlightKept DEF IInv
<1> QED  BY <1>1, <1>2 DEF IInv

LEMMA RestTyped ==
  ASSUME Typed, NEW w \in Workers, Rest(w)
  PROVE  /\ work' \in [Workers -> Tasks] /\ Fit(w)'
         /\ \A v \in Workers \ {w} : work'[v] = work[v]
BY DEF Typed, Rest, Idle, Tasks, Points, Fit, Now

\* The task of a worker who rests.
LEMMA RestingTyped ==
  ASSUME Typed, NEW w \in Workers
  PROVE  /\ Resting(w) \in [Workers -> Tasks]
         /\ \A v \in Workers : Resting(w)[v] = work[v] \/ Resting(w)[v] = Idle
<1>1. Idle \in Tasks
  BY DEF Idle, Tasks, Points
<1>2. work \in [Workers -> Tasks]
  BY DEF Typed
<1>3. PICK idle \in Tasks : idle = Idle
  BY <1>1
<1>4. Resting(w) = [work EXCEPT ![w] = idle]
  BY <1>3 DEF Resting
<1> QED  BY <1>2, <1>3, <1>4

LEMMA GoTyped ==
  ASSUME Typed, NEW w \in Workers, NEW point \in Points, NEW arg \in Calls \cup Pubs, Go(w, point, arg)
  PROVE  /\ work' \in [Workers -> Tasks]
         /\ work'[w].at = point /\ work'[w].arg = arg
         /\ \A v \in Workers \ {w} : work'[v] = work[v]
<1> DEFINE x == [Idle EXCEPT !.at = point]
<1>1. x \in Tasks /\ x.at = point
  BY DEF Idle, Tasks
<1>2. [Idle EXCEPT !.at = point, !.arg = arg] = [x EXCEPT !.arg = arg]
  OBVIOUS
<1> HIDE DEF x
<1>3. [x EXCEPT !.arg = arg] \in Tasks /\ [x EXCEPT !.arg = arg].at = point /\ [x EXCEPT !.arg = arg].arg = arg
  BY <1>1 DEF Tasks
<1>4. PICK y \in Tasks : y = [x EXCEPT !.arg = arg] /\ y.at = point /\ y.arg = arg
  BY <1>3
<1>5. work' = [work EXCEPT ![w] = y]
  BY <1>2, <1>4 DEF Go
<1> QED  BY <1>4, <1>5 DEF Typed

\* With the publications, the cases and the client as they are, all of them stay right.
LEMMA StillRight ==
  ASSUME IInv, UNCHANGED <<cases, pub, client>>
  PROVE  /\ PubKept /\ ClientKept /\ NewestIsActive' /\ Whole' /\ Holds'
         /\ \A n \in Pubs : pub'[n].status = "succeeded" => Held(n)'
BY DEF IInv, PubKept, ClientKept, NewestIsActive, Active, Whole, Sent, Holds, Held

\* A handler that asks CLT-01 for the roster.
LEMMA FetchStep ==
  ASSUME IInv, NEW w \in Workers, NEW point \in {"syncing", "publishing", "preparing"}, NEW n \in Pubs \cup {None},
         Fetch(w, point, n), point = "preparing" => n \in Pubs /\ Sent(n)
  PROVE  IInv'
<1> DEFINE row == [at |-> point, arg |-> n, roster |-> roster]
<1>1. row \in Tasks /\ work' = [work EXCEPT ![w] = row] /\ UNCHANGED <<roster, cases, pub, loose, client>>
  BY DEF Fetch, IInv, Typed, Tasks, Points
<1>2. Typed' /\ \A v \in Workers \ {w} : work'[v] = work[v]
  BY <1>1 DEF IInv, Typed
<1>3. work'[w].at = point /\ work'[w].arg = n /\ work'[w].roster = roster
  BY <1>1 DEF IInv, Typed
<1>4. Fit(w)'
  BY <1>1, <1>3 DEF Fit, Now, IInv, Typed, Sent
<1> QED  BY <1>1, <1>2, <1>4, StillRight, WorkerStep

\* A worker that ends, or dies with its call under way.
LEMMA RestStep ==
  ASSUME IInv, NEW w \in Workers, Rest(w), UNCHANGED <<roster, cases, pub, client>>,
         \/ UNCHANGED loose
         \/ Now(w) = "calling" /\ loose' = loose \cup {work[w].arg}
  PROVE  IInv'
<1>1. work' \in [Workers -> Tasks] /\ Fit(w)' /\ \A v \in Workers \ {w} : work'[v] = work[v]
  BY RestTyped DEF IInv
<1>2. PubKept
  BY StillRight
<1>3. \A c \in loose' : c \in loose \/ InFlight(c)'
  BY <1>2, InFlightKept DEF IInv, Fit
<1>4. Typed'
  BY <1>1 DEF IInv, Typed, Fit, InFlight
<1> QED  BY <1>1, <1>3, <1>4, StillRight, WorkerStep

\* A delivery is prepared: the call names a publication that is current.
LEMMA PrepareStep ==
  ASSUME IInv, NEW w \in Workers, DeliverPrepare(w)
  PROVE  IInv'
<1>1. PICK n \in Pubs : n = work[w].arg /\ Sent(n)
  BY DEF DeliverPrepare, IInv, Fit
<1>2. CASE Rest(w)
  BY <1>2, RestStep DEF DeliverPrepare
<1>3. CASE Deliverable(n) /\ Current(n, work[w].roster) /\ Go(w, "calling", Call(n))
  <2>1. Call(n) \in Calls /\ Call(n).pub = n
    BY DEF Call, Calls
  <2>2. /\ work' \in [Workers -> Tasks] /\ work'[w].at = "calling" /\ work'[w].arg = Call(n)
        /\ \A v \in Workers \ {w} : work'[v] = work[v]
    BY <1>3, <2>1, GoTyped DEF IInv, Points
  <2>3. InFlight(Call(n))
    <3>1. Active(n)
      BY <1>3, NoneAssumption DEF Deliverable, Active
    <3>2. pub[n].on = OutcomesOf(pub[n].roster.required)
      BY <1>3 DEF Current
    <3> QED  BY <1>1, <2>1, <3>1, <3>2 DEF InFlight
  <2>4. PubKept /\ cases' = cases
    BY StillRight DEF DeliverPrepare
  <2>5. PICK c : c = Call(n)
    OBVIOUS
  <2>6. Fit(w)'
    <3>1. InFlight(c)'
      BY <2>3, <2>4, <2>5, InFlightKept
    <3> QED  BY <2>2, <2>5, <3>1 DEF Fit, Now
  <2> QED  BY <2>2, <2>6, StillRight, WorkerStep DEF DeliverPrepare, IInv, Typed
<1> QED  BY <1>1, <1>2, <1>3 DEF DeliverPrepare

-----------------------------------------------------------------------------
(* What CLT-01 receives.                                                   *)

\* An accepted call replaces what CLT-01 holds with its publication, which covers CLT-01's parties,
\* and is still what KYC-01 would publish unless a case changed meanwhile.
LEMMA Receipt ==
  ASSUME IInv, NEW c, InFlight(c), Receive(c), UNCHANGED <<roster, cases, pub>>
  PROVE  /\ PubKept /\ ClientKept /\ NewestIsActive' /\ Whole' /\ Holds'
         /\ \A n \in Pubs : pub'[n].status = "succeeded" => Held(n)'
         /\ Accepts(c.pub) => Held(c.pub)'
         /\ client' # client => \/ client'.call.drifted
                                \/ pub[client'.call.pub].on = OutcomesOf(client'.required)
<1>1. c \in Calls /\ c.pub \in Pubs /\ Sent(c.pub) /\ (c.overtaken \/ Active(c.pub)) /\ c.overtaken \in BOOLEAN
  BY DEF InFlight, Calls
<1>2. PubKept /\ NewestIsActive' /\ Whole'
  BY DEF IInv, PubKept, NewestIsActive, Active, Whole, Sent
<1>3. CASE ~Accepts(c.pub)
  <2>1. client' = client
    BY <1>3 DEF Receive
  <2> QED  BY <1>2, <1>3, <2>1, StillRight
<1>4. CASE Accepts(c.pub)
  <2> DEFINE new == [call |-> c, required |-> roster.required]
  <2>1. client' = new /\ pub[c.pub].roster = roster
    BY <1>4 DEF Receive, Accepts
  <2>2. client' \in Accepted /\ client'.call = c /\ client'.required = roster.required
    BY <1>1, <2>1 DEF Accepted, IInv, Typed, RosterBindings
  <2>3. \A n \in Pubs : Sent(n) /\ c.pub < n => c.overtaken
    BY <1>1 DEF IInv, NewestIsActive, Sent
  <2>4. \A n \in Pubs : Sent(n) => Held(n)'
    BY <2>2, <2>3 DEF Held
  <2>5. \A n \in Pubs : pub[n].status = "succeeded" => Sent(n)
    BY SentRow DEF IInv
  <2>6. Holds'
    BY <1>1, <2>1, <2>2 DEF Holds, Sent
  <2>7. client'.call.drifted \/ pub[client'.call.pub].on = OutcomesOf(client'.required)
    BY <2>1, <2>2 DEF InFlight
  <2> QED  BY <1>1, <1>2, <2>4, <2>5, <2>6, <2>7 DEF ClientKept
<1> QED  BY <1>3, <1>4

\* CLT-01 answers the worker that called.
LEMMA AnsweredStep ==
  ASSUME IInv, NEW w \in Workers, Answered(w)
  PROVE  /\ IInv'
         /\ client' # client => \/ client'.call.drifted
                                \/ pub[client'.call.pub].on = OutcomesOf(client'.required)
<1>1. PICK c : c = work[w].arg /\ InFlight(c)
  BY DEF Answered, IInv, Fit
<1>2. PICK n \in Pubs : n = c.pub /\ Sent(n)
  BY <1>1 DEF InFlight, Calls
<1>3. PICK point \in {"accepted", "failed"} : Go(w, point, n) /\ (point = "accepted" => Accepts(n))
  BY <1>1, <1>2 DEF Answered
<1>4. Receive(c) /\ UNCHANGED <<roster, cases, pub, loose>>
  BY <1>1 DEF Answered
<1>5. /\ work' \in [Workers -> Tasks] /\ work'[w].at = point /\ work'[w].arg = n
      /\ \A v \in Workers \ {w} : work'[v] = work[v]
  BY <1>3, GoTyped DEF IInv, Points
<1>6. Fit(w)'
  BY <1>1, <1>2, <1>3, <1>4, <1>5, Receipt DEF Fit, Now, Sent
<1>7. Typed'
  BY <1>4, <1>5 DEF IInv, Typed
<1> QED  BY <1>1, <1>4, <1>5, <1>6, <1>7, Receipt, WorkerStep

\* The worker stops waiting; the call may still arrive.
LEMMA TimesOutStep ==
  ASSUME IInv, NEW w \in Workers, TimesOut(w)
  PROVE  IInv'
<1>1. PICK c : c = work[w].arg /\ InFlight(c)
  BY DEF TimesOut, IInv, Fit
<1>2. PICK n \in Pubs : n = c.pub /\ Sent(n)
  BY <1>1 DEF InFlight, Calls
<1>3. Go(w, "failed", n) /\ loose' = loose \cup {c} /\ UNCHANGED <<roster, cases, pub, client>>
  BY <1>1, <1>2 DEF TimesOut, Strays
<1>4. /\ work' \in [Workers -> Tasks] /\ work'[w].at = "failed" /\ work'[w].arg = n
      /\ \A v \in Workers \ {w} : work'[v] = work[v]
  BY <1>3, GoTyped DEF IInv, Points
<1>5. Fit(w)'
  BY <1>2, <1>3, <1>4 DEF Fit, Now, Sent
<1>6. Typed'
  BY <1>1, <1>3, <1>4 DEF IInv, Typed, InFlight
<1>7. PubKept
  BY <1>3, StillRight
<1>8. \A d \in loose' : d \in loose \/ InFlight(d)'
  BY <1>1, <1>3, <1>7, InFlightKept
<1> QED  BY <1>3, <1>4, <1>5, <1>6, <1>8, StillRight, WorkerStep

\* A call nobody waits for arrives, or is lost.
LEMMA StragglesStep ==
  ASSUME IInv, NEW c \in loose, Straggles(c)
  PROVE  /\ IInv'
         /\ client' # client => \/ client'.call.drifted
                                \/ pub[client'.call.pub].on = OutcomesOf(client'.required)
<1>1. InFlight(c) /\ UNCHANGED <<roster, cases, pub, work>> /\ loose' \subseteq loose
  BY DEF IInv, Straggles
<1>2. /\ PubKept /\ ClientKept /\ NewestIsActive' /\ Whole' /\ Holds'
      /\ \A n \in Pubs : pub'[n].status = "succeeded" => Held(n)'
      /\ client' # client => \/ client'.call.drifted
                             \/ pub[client'.call.pub].on = OutcomesOf(client'.required)
  BY <1>1, Receipt, StillRight DEF Straggles
<1>3. Typed'
  BY <1>1 DEF IInv, Typed
<1>4. \A w \in Workers : Fit(w)'
  BY <1>1, <1>2, FitKept DEF IInv
<1>5. \A d \in loose' : InFlight(d)'
  BY <1>1, <1>2, InFlightKept DEF IInv
<1> QED  BY <1>2, <1>3, <1>4, <1>5 DEF IInv

\* The answer is recorded, unless the publication was superseded meanwhile.
LEMMA RecordStep ==
  ASSUME IInv, NEW w \in Workers, DeliverRecord(w)
  PROVE  IInv'
<1>1. PICK n \in Pubs : n = work[w].arg /\ Sent(n) /\ (Now(w) = "accepted" => Held(n))
  BY DEF DeliverRecord, IInv, Fit
<1>2. PICK s \in {"superseded", "succeeded", "failed"} : s = Recorded(n, Now(w))
  BY DEF Recorded
<1>3. /\ pub' = [pub EXCEPT ![n].status = s] /\ UNCHANGED <<roster, cases, loose, client>>
      /\ s = "succeeded" => Held(n)
      /\ s = "superseded" <=> pub[n].status = "superseded"
  BY <1>1, <1>2 DEF DeliverRecord, Recorded
<1>4. /\ work' \in [Workers -> Tasks] /\ Fit(w)'
      /\ \A v \in Workers \ {w} : work'[v] = work[v]
  BY RestTyped DEF DeliverRecord, IInv
<1>5. pub[n] \in PublicationRows /\ pub \in [Pubs -> PublicationRows \cup {NoPub}]
  BY <1>1, SentRow DEF IInv, Typed
<1>6. /\ pub'[n] \in PublicationRows /\ pub'[n].status = s
      /\ pub'[n].on = pub[n].on /\ pub'[n].roster = pub[n].roster
      /\ \A m \in Pubs \ {n} : pub'[m] = pub[m]
      /\ pub' \in [Pubs -> PublicationRows \cup {NoPub}]
  BY <1>3, <1>5 DEF PublicationRows
<1>7. Active(n)' <=> Active(n)
  BY <1>3, <1>5, <1>6, NoneAssumption DEF Active, PublicationRows
<1>8. Sent(n)'
  BY <1>6, NoneAssumption DEF Sent, NoPub, PublicationRows
<1>9. PubKept
  BY <1>6, <1>7, <1>8 DEF PubKept, Sent, Active
<1>10. \A m \in Pubs : (Active(m)' <=> Active(m)) /\ (Sent(m)' <=> Sent(m))
  BY <1>1, <1>6, <1>7, <1>8 DEF Active, Sent
<1>11. NewestIsActive'
  <2> SUFFICES ASSUME NEW m \in Pubs, Active(m)', NEW k \in Pubs, k > m PROVE ~Sent(k)'
    BY DEF NewestIsActive, Sent
  <2> QED  BY <1>10 DEF IInv, NewestIsActive, Sent
<1>12. Whole'
  BY <1>6, <1>8, <1>10 DEF IInv, Whole, Sent
<1>13. Holds' /\ ClientKept
  <2>1. client # None => client.call.pub \in Pubs
    BY DEF IInv, Holds, Accepted, Calls
  <2>2. Holds'
    BY <1>3, <1>6, <1>10, <2>1 DEF IInv, Holds
  <2> QED  BY <1>3, <2>2 DEF ClientKept, Held
<1>14. \A m \in Pubs : pub'[m].status = "succeeded" => Held(m)'
  BY <1>3, <1>6 DEF IInv, Held
<1>15. Typed'
  BY <1>3, <1>4, <1>6 DEF IInv, Typed
<1> QED  BY <1>3, <1>4, <1>9, <1>11, <1>12, <1>13, <1>14, <1>15, WorkerStep

-----------------------------------------------------------------------------
(* Steps that mark every call in flight.                                   *)

\* Calls are marked by f: those of the workers, as now has them, and those nobody waits for.
MarkedBy(f, now) ==
    /\ work' = [v \in Workers |-> IF now[v].at = "calling" THEN [now[v] EXCEPT !.arg = f[now[v].arg]]
                                  ELSE now[v]]
    /\ loose' = {f[c] : c \in loose}

\* If the marked calls are right, everybody is.
LEMMA MarkedFit ==
  ASSUME IInv, NEW f \in [Calls -> Calls], NEW now \in [Workers -> Tasks],
         \A v \in Workers : now[v] = work[v] \/ now[v] = Idle,
         MarkedBy(f, now), ClientKept, \A n \in Pubs : Sent(n) => Sent(n)',
         \A c : InFlight(c) => InFlight(f[c])'
  PROVE  /\ work' \in [Workers -> Tasks] /\ loose' \subseteq Calls
         /\ \A w \in Workers : Fit(w)'
         /\ \A c \in loose' : InFlight(c)'
<1>1. loose' \subseteq Calls /\ \A c \in loose' : InFlight(c)'
  BY DEF MarkedBy, IInv, Typed
<1>2. ASSUME NEW w \in Workers PROVE work'[w] \in Tasks /\ Fit(w)'
  <2>1. CASE now[w] = Idle
    BY <2>1 DEF MarkedBy, Idle, Tasks, Points, Fit, Now
  <2>2. CASE now[w] = work[w] /\ work[w].at # "calling"
    <3>1. work'[w] = work[w] /\ work[w] \in Tasks /\ Fit(w)
      BY <2>2 DEF MarkedBy, IInv, Typed
    <3> QED  BY <2>2, <3>1 DEF Fit, Now, ClientKept
  <2>3. CASE now[w] = work[w] /\ work[w].at = "calling"
    <3>1. PICK c \in Calls : c = work[w].arg /\ InFlight(c)
      BY <2>3 DEF IInv, Fit, Now, InFlight
    <3>2. work'[w] = [work[w] EXCEPT !.arg = f[c]] /\ work[w] \in Tasks
      BY <2>3, <3>1 DEF MarkedBy, IInv, Typed
    <3>3. f[c] \in Calls
      OBVIOUS
    <3>4. work'[w] \in Tasks /\ work'[w].at = "calling" /\ work'[w].arg = f[c]
      BY <2>3, <3>2, <3>3 DEF Tasks
    <3>5. InFlight(f[c])'
      BY <3>1
    <3>6. PICK d : d = f[c]
      OBVIOUS
    <3> QED  BY <3>4, <3>5, <3>6 DEF Fit, Now
  <2> QED  BY <2>1, <2>2, <2>3
<1>3. work' \in [Workers -> Tasks]
  BY <1>2 DEF MarkedBy
<1> QED  BY <1>1, <1>2, <1>3

\* A case changes: every call in flight has drifted.
LEMMA DriftStep ==
  ASSUME IInv, NEW now \in [Workers -> Tasks], \A v \in Workers : now[v] = work[v] \/ now[v] = Idle,
         Drift(now), cases' \in [Anchors -> Seq(Recorded1)], UNCHANGED <<roster, pub, client>>
  PROVE  IInv'
<1> DEFINE f == [c \in Calls |-> [c EXCEPT !.drifted = TRUE]]
<1>1. f \in [Calls -> Calls] /\ \A c \in Calls : f[c] = [c EXCEPT !.drifted = TRUE]
  BY DEF Calls
<1>2. MarkedBy(f, now)
  <2>1. ASSUME NEW v \in Workers, now[v].at = "calling" PROVE now[v].arg \in Calls
    BY <2>1 DEF Idle, IInv, Fit, Now, InFlight
  <2>2. \A c \in loose : c \in Calls
    BY DEF IInv, Typed
  <2> QED  BY <1>1, <2>1, <2>2 DEF Drift, Marked, MarkedBy
<1>3. \A c : InFlight(c) => InFlight(f[c])'
  <2> SUFFICES ASSUME NEW c, InFlight(c) PROVE InFlight(f[c])'
    OBVIOUS
  <2>1. c \in Calls /\ Sent(c.pub) /\ (c.overtaken \/ Active(c.pub))
    BY DEF InFlight
  <2>2. PICK d \in Calls : d = f[c]
    BY <1>1, <2>1
  <2>3. d.pub = c.pub /\ d.drifted /\ d.overtaken = c.overtaken
    BY <1>1, <2>1, <2>2 DEF Calls
  <2>4. InFlight(d)'
    BY <2>1, <2>3 DEF InFlight, Sent, Active
  <2> QED  BY <2>2, <2>4
<1>4. /\ ClientKept /\ NewestIsActive' /\ Whole' /\ Holds'
      /\ \A n \in Pubs : pub'[n].status = "succeeded" => Held(n)'
      /\ \A n \in Pubs : Sent(n) => Sent(n)'
  BY DEF IInv, ClientKept, NewestIsActive, Active, Whole, Sent, Holds, Held
<1> HIDE DEF f
<1>5. /\ work' \in [Workers -> Tasks] /\ loose' \subseteq Calls
      /\ \A w \in Workers : Fit(w)'
      /\ \A c \in loose' : InFlight(c)'
  BY <1>1, <1>2, <1>3, <1>4, MarkedFit
<1> QED  BY <1>4, <1>5 DEF IInv, Typed

\* A publication is inserted: those before are superseded, and calls of theirs overtaken.
LEMMA PublishStep ==
  ASSUME IInv, NEW w \in Workers, NEW n \in Pubs, PublishWrite(w, n)
  PROVE  IInv'
<1>1. PICK r \in RosterBindings : r = work[w].roster
  BY DEF PublishWrite, IInv, Fit
<1>2. CASE Rest(w) /\ UNCHANGED <<pub, loose>>
  BY <1>2, RestStep DEF PublishWrite
<1>3. CASE ~(Rest(w) /\ UNCHANGED <<pub, loose>>)
  <2> DEFINE row == [status |-> "pending", result |-> Aggregate(r.required), roster |-> r,
                     on |-> OutcomesOf(r.required)]
             mark == [c \in Calls |-> [c EXCEPT !.overtaken = c.overtaken \/ Active(c.pub)]]
  <2>1. /\ Publishable(r.required) /\ IsNext(n) /\ UNCHANGED <<roster, cases, client>>
        /\ pub' = [m \in Pubs |-> IF m = n THEN row
                   ELSE IF Active(m) THEN [pub[m] EXCEPT !.status = "superseded"] ELSE pub[m]]
        /\ Marked(Resting(w), LAMBDA c : [c EXCEPT !.overtaken = c.overtaken \/ Active(c.pub)])
    BY <1>1, <1>3 DEF PublishWrite
  <2>2. r.required \in SUBSET Parties
    BY DEF RosterBindings
  <2>3. row \in PublicationRows /\ DOMAIN row.on = row.roster.required \cup {"individual"}
        /\ row.roster = r /\ row.status = "pending"
    BY <2>1, <2>2, PublishableRow DEF IInv, PublicationRows
  <2> HIDE DEF row
  <2>4. /\ ~Sent(n) /\ \A m \in Pubs : Sent(m) <=> m < n
    BY <2>1, PubsAssumption DEF IsNext, Sent
  <2>5. \A m \in Pubs \ {n} : /\ pub'[m] = IF Active(m) THEN [pub[m] EXCEPT !.status = "superseded"] ELSE pub[m]
                              /\ Active(m) => pub[m] \in PublicationRows
    BY <2>1, SentRow DEF IInv
  <2>6. \A m \in Pubs \ {n} :
           /\ pub'[m] \in PublicationRows \cup {NoPub}
           /\ Sent(m)' <=> Sent(m)
           /\ ~Active(m)'
           /\ Sent(m) => pub'[m].on = pub[m].on /\ pub'[m].roster = pub[m].roster
    <3> SUFFICES ASSUME NEW m \in Pubs \ {n}
                 PROVE  /\ pub'[m] \in PublicationRows \cup {NoPub}
                        /\ Sent(m)' <=> Sent(m)
                        /\ ~Active(m)'
                        /\ Sent(m) => pub'[m].on = pub[m].on /\ pub'[m].roster = pub[m].roster
      OBVIOUS
    <3>1. CASE Active(m)
      <4>1. pub[m] \in PublicationRows /\ pub'[m] = [pub[m] EXCEPT !.status = "superseded"] /\ Sent(m)
        BY <2>5, <3>1, SentRow DEF IInv
      <4>2. /\ pub'[m] \in PublicationRows /\ pub'[m].status = "superseded"
            /\ pub'[m].on = pub[m].on /\ pub'[m].roster = pub[m].roster
        BY <4>1 DEF PublicationRows
      <4> QED  BY <4>1, <4>2, NoneAssumption DEF Sent, Active, NoPub
    <3>2. CASE ~Active(m)
      BY <2>5, <3>2 DEF IInv, Typed, Sent, Active
    <3> QED  BY <3>1, <3>2
  <2>7. pub'[n] = row
    BY <2>1
  <2>8. Sent(n)'
    BY <2>3, <2>7, NoneAssumption DEF Sent, NoPub, PublicationRows
  <2>9. pub' \in [Pubs -> PublicationRows \cup {NoPub}]
    BY <2>1, <2>3, <2>6, <2>7
  <2>10. NewestIsActive'
    BY <2>4, <2>6, PubsAssumption DEF NewestIsActive, Sent
  <2>11. Whole'
    BY <2>3, <2>6, <2>7 DEF Whole, IInv
  <2>12. ClientKept
    BY <2>1 DEF ClientKept, Held
  <2>13. \A m \in Pubs : pub'[m].status = "succeeded" => Held(m)'
    BY <2>3, <2>6, <2>7, NoneAssumption DEF Active
  <2>14. Holds'
    <3>1. client # None => client.call.pub \in Pubs \ {n} /\ Sent(client.call.pub)
      BY <2>4 DEF IInv, Holds, Accepted, Calls
    <3> QED  BY <2>1, <2>6, <3>1 DEF IInv, Holds
  <2>15. PICK now \in [Workers -> Tasks] :
            now = Resting(w) /\ \A v \in Workers : now[v] = work[v] \/ now[v] = Idle
    BY RestingTyped DEF IInv
  <2>16. mark \in [Calls -> Calls]
    <3>1. \A c \in Calls : [c EXCEPT !.overtaken = c.overtaken \/ Active(c.pub)] \in Calls
      BY DEF Calls
    <3> QED  BY <3>1
  <2>17. PICK f \in [Calls -> Calls] :
            \A c \in Calls : f[c] = [c EXCEPT !.overtaken = c.overtaken \/ Active(c.pub)]
    BY <2>16
  <2>18. MarkedBy(f, now)
    <3>1. ASSUME NEW v \in Workers, now[v].at = "calling" PROVE now[v].arg \in Calls
      BY <2>15, <3>1 DEF Idle, IInv, Fit, Now, InFlight
    <3>2. \A c \in loose : c \in Calls
      BY DEF IInv, Typed
    <3>3. /\ work' = [v \in Workers |-> IF now[v].at = "calling"
                        THEN [now[v] EXCEPT !.arg = [now[v].arg EXCEPT !.overtaken =
                                                       now[v].arg.overtaken \/ Active(now[v].arg.pub)]]
                        ELSE now[v]]
          /\ loose' = {[c EXCEPT !.overtaken = c.overtaken \/ Active(c.pub)] : c \in loose}
      <4>1. now = Resting(w)
        BY <2>15
      <4> QED  BY <2>1, <4>1 DEF Marked
    <3>4. \A v \in Workers : now[v].at = "calling" =>
             f[now[v].arg] = [now[v].arg EXCEPT !.overtaken = now[v].arg.overtaken \/ Active(now[v].arg.pub)]
      BY <2>17, <3>1
    <3>5. work' = [v \in Workers |-> IF now[v].at = "calling"
                     THEN [now[v] EXCEPT !.arg = f[now[v].arg]] ELSE now[v]]
      BY <3>3, <3>4
    <3>6. loose' = {f[c] : c \in loose}
      BY <2>17, <3>2, <3>3
    <3> QED  BY <3>5, <3>6 DEF MarkedBy
  <2>19. \A c : InFlight(c) => InFlight(f[c])'
    <3> SUFFICES ASSUME NEW c, InFlight(c) PROVE InFlight(f[c])'
      OBVIOUS
    <3>1. c \in Calls /\ Sent(c.pub) /\ (c.overtaken \/ Active(c.pub)) /\ c.pub \in Pubs
      BY DEF InFlight, Calls
    <3>2. PICK d \in Calls : d = f[c]
      BY <2>17, <3>1
    <3>3. d.pub = c.pub /\ d.drifted = c.drifted /\ d.overtaken
      BY <2>17, <3>1, <3>2 DEF Calls
    <3>4. c.pub # n
      BY <2>4, <3>1
    <3>5. OutcomesOf(pub[c.pub].roster.required)' = OutcomesOf(pub[c.pub].roster.required)
      BY <2>1, <2>6, <3>1, <3>4 DEF OutcomesOf, Contributing, Opened, Authoritative
    <3>6. InFlight(d)'
      BY <2>6, <3>1, <3>3, <3>4, <3>5 DEF InFlight
    <3> QED  BY <3>2, <3>6
  <2>20. /\ work' \in [Workers -> Tasks] /\ loose' \subseteq Calls
         /\ \A v \in Workers : Fit(v)'
         /\ \A c \in loose' : InFlight(c)'
    <3>1. \A m \in Pubs : Sent(m) => Sent(m)'
      BY <2>6, <2>8
    <3> QED  BY <2>12, <2>15, <2>18, <2>19, <3>1, MarkedFit
  <2> QED  BY <2>1, <2>9, <2>10, <2>11, <2>13, <2>14, <2>20 DEF IInv, Typed
<1> QED  BY <1>2, <1>3

-----------------------------------------------------------------------------
(* Steps of the cases and the roster.                                      *)

\* A case with its outcome stays a proper row; so does a case that is added.
LEMMA CaseSteps ==
  ASSUME IInv, \/ \E a \in Anchors : Handoff(a)
               \/ \E a \in Anchors, i \in 1..MaxCases, s \in Results : Decide(a, i, s)
               \/ \E w \in Workers : SyncWrite(w)
  PROVE  IInv'
<1>1. NewCase \in Recorded1
  BY BoundAssumption DEF NewCase, Recorded1, CaseRows
<1>2. work \in [Workers -> Tasks] /\ cases \in [Anchors -> Seq(Recorded1)]
  BY DEF IInv, Typed
<1>3. ASSUME NEW a \in Anchors, Handoff(a) PROVE IInv'
  <2>1. Append(cases[a], NewCase) \in Seq(Recorded1)
    BY <1>1, <1>2, AppendProperties
  <2>2. cases' \in [Anchors -> Seq(Recorded1)]
    BY <1>2, <1>3, <2>1 DEF Handoff
  <2>3. PICK now \in [Workers -> Tasks] : now = work
    BY <1>2
  <2> QED  BY <1>3, <2>2, <2>3, DriftStep DEF Handoff
<1>4. ASSUME NEW a \in Anchors, NEW i \in 1..MaxCases, NEW s \in Results, Decide(a, i, s) PROVE IInv'
  <2>1. PICK n \in 1..MaxOutcomes :
           cases' = [cases EXCEPT ![a][i] = [status |-> StatusFor(s), result |-> s, outcome |-> n]]
    BY <1>4 DEF Decide
  <2>2. [status |-> StatusFor(s), result |-> s, outcome |-> n] \in Recorded1
    BY BoundAssumption DEF StatusFor, Recorded1, CaseRows
  <2>3. PICK row \in Recorded1 : row = [status |-> StatusFor(s), result |-> s, outcome |-> n]
    BY <2>2
  <2>4. cases[a] \in Seq(Recorded1) /\ i \in 1..Len(cases[a])
    BY <1>2, <1>4, LenProperties DEF Decide
  <2>5. [cases[a] EXCEPT ![i] = row] \in Seq(Recorded1)
    BY <2>4, ExceptSeq
  <2>6. cases' = [cases EXCEPT ![a] = [cases[a] EXCEPT ![i] = row]]
    BY <2>1, <2>3
  <2>7. cases' \in [Anchors -> Seq(Recorded1)]
    BY <1>2, <2>5, <2>6
  <2>8. PICK now \in [Workers -> Tasks] : now = work
    BY <1>2
  <2> QED  BY <1>4, <2>7, <2>8, DriftStep DEF Decide
<1>5. ASSUME NEW w \in Workers, SyncWrite(w) PROVE IInv'
  <2>1. <<NewCase>> \in Seq(Recorded1)
    BY <1>1
  <2>2. cases' \in [Anchors -> Seq(Recorded1)]
    BY <1>2, <1>5, <2>1 DEF SyncWrite
  <2>3. PICK now \in [Workers -> Tasks] :
            now = Resting(w) /\ \A v \in Workers : now[v] = work[v] \/ now[v] = Idle
    BY RestingTyped DEF IInv
  <2> QED  BY <1>5, <2>2, <2>3, DriftStep DEF SyncWrite
<1> QED  BY <1>3, <1>4, <1>5

\* CLT-01's roster moves on: what it holds is about the roster it had.
LEMMA RosterStep ==
  ASSUME IInv, NEW required \in SUBSET Parties, NEW open \in BOOLEAN, RosterMoves(required, open)
  PROVE  IInv'
<1>1. roster' \in RosterBindings /\ UNCHANGED <<cases, pub, work, loose, client>>
  BY BoundAssumption DEF RosterMoves, RosterBindings, IInv, Typed
<1>2. /\ PubKept /\ ClientKept /\ NewestIsActive' /\ Whole' /\ Holds'
      /\ \A n \in Pubs : pub'[n].status = "succeeded" => Held(n)'
  BY <1>1, StillRight
<1>3. (\A w \in Workers : Fit(w)') /\ (\A c \in loose' : InFlight(c)')
  BY <1>1, <1>2, FitKept, InFlightKept DEF IInv
<1> QED  BY <1>1, <1>2, <1>3 DEF IInv, Typed

-----------------------------------------------------------------------------
(* The theorems.                                                           *)

\* What CLT-01 takes over in a step is what KYC-01 would publish, or was sent before a case changed.
AcceptsAsOfSending ==
    client' # client => \/ client'.call.drifted
                        \/ pub[client'.call.pub].on = OutcomesOf(client'.required)

LEMMA Step ==
  ASSUME IInv, Next
  PROVE  IInv' /\ AcceptsAsOfSending
<1>1. ASSUME client' = client PROVE AcceptsAsOfSending
  BY <1>1 DEF AcceptsAsOfSending
<1>2. ASSUME NEW a \in Anchors, Handoff(a) PROVE IInv' /\ AcceptsAsOfSending
  BY <1>1, <1>2, CaseSteps DEF Handoff
<1>3. ASSUME NEW a \in Anchors, NEW i \in 1..MaxCases, NEW s \in Results, Decide(a, i, s)
      PROVE  IInv' /\ AcceptsAsOfSending
  BY <1>1, <1>3, CaseSteps DEF Decide
<1>4. ASSUME NEW required \in SUBSET Parties, NEW open \in BOOLEAN, RosterMoves(required, open)
      PROVE  IInv' /\ AcceptsAsOfSending
  BY <1>1, <1>4, RosterStep DEF RosterMoves
<1>5. ASSUME NEW c \in loose, Straggles(c) PROVE IInv' /\ AcceptsAsOfSending
  BY <1>5, StragglesStep DEF AcceptsAsOfSending
<1>6. ASSUME NEW w \in Workers,
             \/ SyncRead(w) \/ SyncWrite(w) \/ PublishRead(w)
             \/ \E n \in Pubs : PublishWrite(w, n) \/ DeliverRead(w, n)
             \/ DeliverPrepare(w) \/ Answered(w) \/ TimesOut(w) \/ DeliverRecord(w) \/ Dies(w)
      PROVE  IInv' /\ AcceptsAsOfSending
  <2>1. CASE SyncRead(w) \/ PublishRead(w) \/ \E n \in Pubs : DeliverRead(w, n)
    <3>1. IInv'
      BY <2>1, FetchStep DEF SyncRead, PublishRead, DeliverRead, Sent
    <3> QED  BY <1>1, <2>1, <3>1 DEF SyncRead, PublishRead, DeliverRead, Fetch
  <2>2. CASE SyncWrite(w)
    BY <1>1, <2>2, CaseSteps DEF SyncWrite
  <2>3. CASE \E n \in Pubs : PublishWrite(w, n)
    BY <1>1, <2>3, PublishStep DEF PublishWrite
  <2>4. CASE DeliverPrepare(w)
    BY <1>1, <2>4, PrepareStep DEF DeliverPrepare
  <2>5. CASE Answered(w)
    BY <2>5, AnsweredStep DEF AcceptsAsOfSending
  <2>6. CASE TimesOut(w)
    BY <1>1, <2>6, TimesOutStep DEF TimesOut
  <2>7. CASE DeliverRecord(w)
    BY <1>1, <2>7, RecordStep DEF DeliverRecord
  <2>8. CASE Dies(w)
    <3>1. IInv'
      BY <2>8, RestStep DEF Dies, Strays
    <3> QED  BY <1>1, <2>8, <3>1 DEF Dies
  <2> QED  BY <1>6, <2>1, <2>2, <2>3, <2>4, <2>5, <2>6, <2>7, <2>8
<1> QED  BY <1>2, <1>3, <1>4, <1>5, <1>6 DEF Next

\* The inductive invariant holds at all times.
THEOREM Inductive == Spec => []IInv
<1>1. Init => IInv
  <2> SUFFICES ASSUME Init PROVE IInv
    OBVIOUS
  <2> USE DEF Init
  <2>1. Typed
    BY BoundAssumption DEF Typed, RosterBindings, Idle, Tasks, Points
  <2>2. \A n \in Pubs : ~Sent(n) /\ pub[n].status = None
    BY DEF Sent, NoPub
  <2>3. NewestIsActive /\ Whole /\ Holds
    BY <2>2 DEF NewestIsActive, Active, Whole, Holds
  <2>4. \A n \in Pubs : pub[n].status # "succeeded"
    BY <2>2, NoneAssumption
  <2>5. \A w \in Workers : Fit(w)
    BY DEF Fit, Now, Idle
  <2> QED  BY <2>1, <2>3, <2>4, <2>5 DEF IInv
<1>2. IInv /\ [Next]_vars => IInv'
  <2> SUFFICES ASSUME IInv, UNCHANGED vars PROVE IInv'
    BY Step
  <2>1. UNCHANGED <<roster, cases, pub, work, loose, client>>
    BY DEF vars
  <2>2. /\ PubKept /\ ClientKept /\ NewestIsActive' /\ Whole' /\ Holds'
        /\ \A n \in Pubs : pub'[n].status = "succeeded" => Held(n)'
    BY <2>1, StillRight
  <2>3. (\A w \in Workers : Fit(w)') /\ (\A c \in loose' : InFlight(c)')
    BY <2>1, <2>2, FitKept, InFlightKept DEF IInv
  <2> QED  BY <2>1, <2>2, <2>3 DEF IInv, Typed
<1> QED  BY <1>1, <1>2, PTL DEF Spec

\* One publication is current, the newest; what CLT-01 accepted covers every party it required; and
\* it is older than a success only if that success was overtaken with its call in flight.
THEOREM Sound == Spec => []AcceptedSoundly
<1>1. IInv => AcceptedSoundly
  <2> SUFFICES ASSUME IInv PROVE AcceptedSoundly
    OBVIOUS
  <2>1. TypeOK
    <3>1. \A a \in Anchors : \A i \in DOMAIN cases[a] : cases[a][i] \in CaseRows
      <4> SUFFICES ASSUME NEW a \in Anchors, NEW i \in DOMAIN cases[a] PROVE cases[a][i] \in CaseRows
        OBVIOUS
      <4>1. cases[a] \in Seq(Recorded1)
        BY DEF IInv, Typed
      <4>2. i \in 1..Len(cases[a])
        BY <4>1, LenProperties
      <4> QED  BY <4>1, <4>2, ElementOfSeq DEF Recorded1
    <3>2. \A w \in Workers : Now(w) \in Points
      BY DEF IInv, Typed, Tasks, Now
    <3>3. client = None \/ client \in Accepted
      BY DEF IInv, Holds
    <3> QED  BY <3>1, <3>2, <3>3 DEF IInv, Typed, TypeOK, Points, Accepted
  <2>2. AcceptedComplete
    BY DEF IInv, Holds, AcceptedComplete, Whole, Accepted, Calls
  <2>3. OlderOnlyIfOvertaken
    BY DEF IInv, OlderOnlyIfOvertaken, Held
  <2> QED  BY <2>1, <2>2, <2>3 DEF AcceptedSoundly, IInv
<1> QED  BY <1>1, Inductive, PTL

\* CLT-01 takes over an outcome that KYC-01 would not publish now only if a case changed while the
\* call was in flight.
THEOREM AsOfSending == Spec => AcceptedAsOfSending
<1>1. IInv /\ [Next]_vars =>
        [client' # client => \/ client'.call.drifted
                             \/ pub[client'.call.pub].on = OutcomesOf(client'.required)]_vars
  BY Step DEF AcceptsAsOfSending
<1> QED  BY <1>1, Inductive, PTL DEF Spec, AcceptedAsOfSending

-----------------------------------------------------------------------------
(* One case and its overrides.  The invariant says what a request in       *)
(* progress carries, and that no request that was filed names an outcome   *)
(* that an override had set; that the outcome has the number and result it *)
(* was approved against then makes it the very same outcome.               *)

\* A row of kyc1.cdd_outcome, and a request that is bound to one.
CaseOutcomes == [number : Nat, result : Case!OutcomeValues \cup {None}, manual : BOOLEAN]
Orders == [by : Users \cup {None}, target : Case!OutcomeValues \cup {None}, against : CaseOutcomes,
           status : {None, "requested", "applied", "failed"}]
Errands == [at : {"idle", "asking", "verified"}, req : Orders, id : Overrides \cup {None}]

CaseTyped ==
    /\ item \in [Documents -> Case!ItemStatuses]
    /\ finding \subseteq Case!FindingStatuses /\ provided \subseteq Users
    /\ outcome \in CaseOutcomes /\ outcome.number <= MaxDecided
    /\ override \in [Overrides -> Orders]
    /\ desk \in [Workers -> Errands]

\* What a worker carries: a request that names who asks and for what, or the number of one that
\* was filed.
Carries(w) ==
    /\ Case!Now(w) = "asking" => desk[w].req.by \in Users /\ desk[w].req.target \in Case!OutcomeValues
    /\ Case!Now(w) = "verified" => desk[w].id \in Overrides /\ override[desk[w].id] # Case!NoRequest

\* A request that was filed names an outcome that no override had set.
FiledWhole(q) ==
    override[q] # Case!NoRequest =>
       /\ override[q].status # None
       /\ override[q].by \in Users /\ override[q].target \in Case!OutcomeValues
       /\ ~override[q].against.manual /\ override[q].against.number <= MaxDecided

CaseIInv ==
    /\ CaseTyped
    /\ \A w \in Workers : Carries(w)
    /\ \A q \in Overrides : FiledWhole(q)

-----------------------------------------------------------------------------
\* What an override does to the outcome, and that nothing else touches a manual one.
OutcomeKept ==
    /\ outcome.manual => outcome' = outcome
    /\ outcome'.manual /\ outcome' # outcome =>
          \E q \in Overrides :
             /\ override[q].status = "requested" /\ override'[q].status = "applied"
             /\ outcome = override[q].against /\ outcome'.result = override[q].target

\* A recorded outcome is one more, of the result and kind that was asked for.
LEMMA RecordTyped ==
    ASSUME outcome \in CaseOutcomes, NEW result \in Case!OutcomeValues, NEW manual \in BOOLEAN, Case!Record(result, manual)
    PROVE  /\ outcome' \in CaseOutcomes /\ outcome'.number <= MaxDecided
           /\ outcome'.result = result /\ outcome'.manual = manual
BY CaseAssumption DEF Case!Record, CaseOutcomes

\* Evidence changes neither outcomes nor requests.
LEMMA EvidenceStep ==
    ASSUME CaseIInv,
           \/ \E d \in Documents : Case!Upload(d)
           \/ \E d \in Documents, u \in Users \cup {None}, s \in {"pass", "fail"} : Case!RecordDocument(d, u, s)
           \/ \E u \in Users \cup {None}, s \in {"pass", "fail"}, tied \in BOOLEAN : Case!RecordIdentity(u, s, tied)
    PROVE  CaseIInv' /\ OutcomeKept
<1>1. UNCHANGED <<outcome, override, desk>>
  BY DEF Case!Upload, Case!RecordDocument, Case!RecordIdentity
<1>2. (\A w \in Workers : Carries(w))' /\ (\A q \in Overrides : FiledWhole(q))'
  BY <1>1 DEF CaseIInv, Carries, FiledWhole, Case!Now
<1>3. item' \in [Documents -> Case!ItemStatuses]
  BY DEF CaseIInv, CaseTyped, Case!Upload, Case!RecordDocument, Case!RecordIdentity, Case!ItemStatuses
<1>4. finding' \subseteq Case!FindingStatuses /\ provided' \subseteq Users
  BY DEF CaseIInv, CaseTyped, Case!Upload, Case!RecordDocument, Case!RecordIdentity, Case!Provides, Case!FindingStatuses
<1>5. OutcomeKept
  BY <1>1 DEF OutcomeKept
<1> QED  BY <1>1, <1>2, <1>3, <1>4, <1>5 DEF CaseIInv, CaseTyped

\* A computation replaces no manual outcome, and records none.
LEMMA ComputeStep ==
    ASSUME CaseIInv, Case!Compute
    PROVE  CaseIInv' /\ OutcomeKept
<1>1. PICK s \in Case!Engine : Case!Record(s, FALSE)
  BY DEF Case!Compute
<1>2. s \in Case!OutcomeValues
  BY <1>1 DEF Case!Engine, Case!Verdicts, Case!OutcomeValues
<1>3. outcome' \in CaseOutcomes /\ outcome'.number <= MaxDecided /\ outcome'.manual = FALSE
  BY <1>1, <1>2, RecordTyped DEF CaseIInv, CaseTyped
<1>4. UNCHANGED <<item, finding, provided, override, desk>> /\ ~outcome.manual
  BY DEF Case!Compute, Case!CaseUntouched, Case!Overridden
<1>5. (\A w \in Workers : Carries(w))' /\ (\A q \in Overrides : FiledWhole(q))'
  BY <1>4 DEF CaseIInv, Carries, FiledWhole, Case!Now
<1>6. OutcomeKept
  BY <1>3, <1>4 DEF OutcomeKept
<1> QED  BY <1>3, <1>4, <1>5, <1>6 DEF CaseIInv, CaseTyped

\* A worker that is done carries nothing.
LEMMA RestKeeps ==
    ASSUME CaseTyped, NEW w \in Workers, Case!Rest(w)
    PROVE  /\ desk' \in [Workers -> Errands]
           /\ \A v \in Workers : desk'[v] = IF v = w THEN Case!Idle ELSE desk[v]
BY CaseAssumption DEF CaseTyped, Case!Rest, Case!Idle, Errands, Orders, CaseOutcomes, Case!NoRequest, Case!NoOutcome

\* The request handler up to its transaction.
LEMMA AskStep ==
    ASSUME CaseIInv, NEW w \in Workers, NEW u \in Users, NEW target \in Case!OutcomeValues, Case!AskOverride(w, u, target)
    PROVE  CaseIInv' /\ OutcomeKept
<1> DEFINE r == [by |-> u, target |-> target, against |-> Case!NoOutcome, status |-> None]
<1>2. r \in Orders /\ r.by = u /\ r.target = target
  BY CaseAssumption DEF Orders, CaseOutcomes, Case!NoOutcome
<1> HIDE DEF r
<1>3. desk' = [desk EXCEPT ![w] = [at |-> "asking", id |-> None, req |-> r]]
  BY DEF Case!AskOverride, r
<1>4. UNCHANGED <<item, finding, provided, outcome, override>>
  BY DEF Case!AskOverride, Case!CaseUntouched
<1>5. desk' \in [Workers -> Errands]
  BY <1>2, <1>3 DEF CaseIInv, CaseTyped, Errands
<1>6. (\A v \in Workers : Carries(v))'
  BY <1>2, <1>3, <1>4 DEF CaseIInv, CaseTyped, Carries, Case!Now
<1>7. (\A q \in Overrides : FiledWhole(q))' /\ OutcomeKept
  BY <1>4 DEF CaseIInv, FiledWhole, OutcomeKept
<1> QED  BY <1>4, <1>5, <1>6, <1>7 DEF CaseIInv, CaseTyped

\* A request is filed under the outcome of the moment, which no override has set.
LEMMA FileStep ==
    ASSUME CaseIInv, NEW w \in Workers, NEW q \in Overrides, Case!FileOverride(w, q)
    PROVE  CaseIInv' /\ OutcomeKept
<1> DEFINE r == desk[w].req
           order == [by |-> r.by, target |-> r.target, against |-> outcome, status |-> "requested"]
<1>1. r \in Orders /\ r.by \in Users /\ r.target \in Case!OutcomeValues
  BY DEF CaseIInv, CaseTyped, Case!FileOverride, Carries, Errands, Case!Now
<1>2. UNCHANGED <<item, finding, provided, outcome>> /\ Case!Rest(w) /\ override[q] = Case!NoRequest
  <2>1. Case!IsNext(q) /\ Case!CaseUntouched /\ UNCHANGED outcome /\ Case!Rest(w)
    BY DEF Case!FileOverride
  <2> QED  BY <2>1, CaseAssumption DEF Case!IsNext, Case!CaseUntouched
<1>3. desk' \in [Workers -> Errands] /\ \A v \in Workers : desk'[v] = IF v = w THEN Case!Idle ELSE desk[v]
  BY <1>2, RestKeeps DEF CaseIInv
<1>4. \/ UNCHANGED override
      \/ ~outcome.manual /\ override' = [override EXCEPT ![q] = order]
  BY DEF Case!FileOverride, Case!Overridable
<1> HIDE DEF r
<1>5. order \in Orders /\ order # Case!NoRequest
  BY <1>1, CaseAssumption DEF Orders, Case!NoRequest, CaseIInv, CaseTyped
<1>6. override' \in [Overrides -> Orders]
  BY <1>4, <1>5 DEF CaseIInv, CaseTyped
<1>7. (\A p \in Overrides : FiledWhole(p))'
  <2>1. CASE UNCHANGED override
    BY <2>1 DEF CaseIInv, FiledWhole
  <2>2. CASE ~outcome.manual /\ override' = [override EXCEPT ![q] = order]
    <3>1. \A p \in Overrides : override'[p] = IF p = q THEN order ELSE override[p]
      BY <2>2 DEF CaseIInv, CaseTyped
    <3>2. order.status = "requested" /\ order.against = outcome /\ order.by \in Users /\ order.target \in Case!OutcomeValues
      BY <1>1
    <3>3. outcome.number <= MaxDecided /\ ~outcome.manual /\ None # "requested"
      BY <2>2, CaseAssumption DEF CaseIInv, CaseTyped
    <3> QED  BY <3>1, <3>2, <3>3 DEF CaseIInv, FiledWhole
  <2> QED  BY <1>4, <2>1, <2>2
<1>8. (\A v \in Workers : Carries(v))'
  <2>1. \A v \in Workers \ {w} : desk'[v] = desk[v]
    BY <1>3
  <2>2. \A p \in Overrides : override[p] # Case!NoRequest => override'[p] # Case!NoRequest
    BY <1>4, <1>5 DEF CaseIInv, CaseTyped
  <2> QED  BY <1>3, <2>1, <2>2 DEF CaseIInv, Carries, Case!Now, Case!Idle
<1>9. OutcomeKept
  BY <1>2 DEF OutcomeKept
<1> QED  BY <1>2, <1>3, <1>6, <1>7, <1>8, <1>9 DEF CaseIInv, CaseTyped

\* The apply handler up to its transaction.
LEMMA VerifyStep ==
    ASSUME CaseIInv, NEW w \in Workers, NEW q \in Overrides, Case!VerifyOverride(w, q)
    PROVE  CaseIInv' /\ OutcomeKept
<1>1. UNCHANGED <<item, finding, provided, outcome, override>> /\ override[q] # Case!NoRequest
  BY CaseAssumption DEF Case!VerifyOverride, Case!CaseUntouched, Case!NoRequest
<1> DEFINE x == [at |-> "verified", req |-> Case!NoRequest, id |-> q]
<1>3. x \in Errands
  BY DEF Errands, Case!NoRequest, Case!NoOutcome, Orders, CaseOutcomes
<1>4. desk' = [desk EXCEPT ![w] = x]
  BY DEF Case!VerifyOverride
<1> HIDE DEF x
<1>5. desk' \in [Workers -> Errands] /\ \A v \in Workers : desk'[v] = IF v = w THEN x ELSE desk[v]
  BY <1>3, <1>4 DEF CaseIInv, CaseTyped
<1>6. (\A v \in Workers : Carries(v))'
  BY <1>1, <1>5 DEF CaseIInv, Carries, Case!Now, x
<1>7. (\A p \in Overrides : FiledWhole(p))' /\ OutcomeKept
  BY <1>1 DEF CaseIInv, FiledWhole, OutcomeKept
<1> QED  BY <1>1, <1>5, <1>6, <1>7 DEF CaseIInv, CaseTyped

\* The outcome that is replaced has the number and the result the request was filed against: it is
\* that outcome.
LEMMA ApplyStep ==
    ASSUME CaseIInv, NEW w \in Workers, Case!ApplyOverride(w)
    PROVE  CaseIInv' /\ OutcomeKept
<1> DEFINE q == desk[w].id
           order == override[q]
<1>1. q \in Overrides /\ order \in Orders /\ FiledWhole(q) /\ order # Case!NoRequest
  BY DEF CaseIInv, CaseTyped, Case!ApplyOverride, Carries
<1>2. UNCHANGED <<item, finding, provided>> /\ Case!Rest(w)
  BY DEF Case!ApplyOverride, Case!CaseUntouched
<1>3. desk' \in [Workers -> Errands] /\ \A v \in Workers : desk'[v] = IF v = w THEN Case!Idle ELSE desk[v]
  BY <1>2, RestKeeps DEF CaseIInv
<1>4. CASE order.status = "requested" /\ ~Case!CaseStateChanged(q) /\ Case!Overridable(order.target)
           /\ Case!Record(order.target, TRUE) /\ override' = [override EXCEPT ![q].status = "applied"]
  <2>1. order.target \in Case!OutcomeValues /\ ~order.against.manual
    BY <1>1 DEF FiledWhole
  <2>2. outcome' \in CaseOutcomes /\ outcome'.number <= MaxDecided /\ outcome'.result = order.target
    BY <1>4, <2>1, RecordTyped DEF CaseIInv, CaseTyped
  <2>3. outcome = order.against /\ ~outcome.manual
    <3>1. outcome.number = order.against.number /\ outcome.result = order.against.result /\ ~outcome.manual
      BY <1>4 DEF Case!CaseStateChanged, Case!Overridable
    <3>2. outcome \in CaseOutcomes /\ order.against \in CaseOutcomes
      BY <1>1 DEF CaseIInv, CaseTyped, Orders
    <3> QED  BY <2>1, <3>1, <3>2 DEF CaseOutcomes
  <2>4. /\ override' \in [Overrides -> Orders]
        /\ \A p \in Overrides \ {q} : override'[p] = override[p]
        /\ override'[q] = [override[q] EXCEPT !.status = "applied"]
    BY <1>1, <1>4 DEF CaseIInv, CaseTyped, Orders
  <2>5. (\A p \in Overrides : FiledWhole(p))'
    BY <1>1, <2>4, CaseAssumption DEF CaseIInv, CaseTyped, FiledWhole, Orders
  <2>6. \A p \in Overrides : override[p] # Case!NoRequest => override'[p] # Case!NoRequest
    BY <1>1, <2>4, CaseAssumption DEF FiledWhole, Orders, Case!NoRequest
  <2>7. (\A v \in Workers : Carries(v))'
    BY <1>3, <2>6 DEF CaseIInv, Carries, Case!Now, Case!Idle
  <2>8. OutcomeKept
    BY <1>1, <1>4, <2>2, <2>3, <2>4 DEF OutcomeKept, Orders
  <2> QED  BY <1>2, <1>3, <2>2, <2>4, <2>5, <2>7, <2>8 DEF CaseIInv, CaseTyped
<1>5. CASE override' = [override EXCEPT ![q].status = "failed"] /\ UNCHANGED outcome
  <2>4. /\ override' \in [Overrides -> Orders]
        /\ \A p \in Overrides \ {q} : override'[p] = override[p]
        /\ override'[q] = [override[q] EXCEPT !.status = "failed"]
    BY <1>1, <1>5 DEF CaseIInv, CaseTyped, Orders
  <2>5. (\A p \in Overrides : FiledWhole(p))'
    BY <1>1, <2>4, CaseAssumption DEF CaseIInv, CaseTyped, FiledWhole, Orders
  <2>6. \A p \in Overrides : override[p] # Case!NoRequest => override'[p] # Case!NoRequest
    BY <1>1, <2>4, CaseAssumption DEF FiledWhole, Orders, Case!NoRequest
  <2>7. (\A v \in Workers : Carries(v))'
    BY <1>3, <2>6 DEF CaseIInv, Carries, Case!Now, Case!Idle
  <2>8. OutcomeKept
    BY <1>5 DEF OutcomeKept
  <2> QED  BY <1>2, <1>3, <1>5, <2>4, <2>5, <2>7, <2>8 DEF CaseIInv, CaseTyped
<1>6. CASE UNCHANGED <<outcome, override>>
  <2>7. (\A v \in Workers : Carries(v))'
    BY <1>3, <1>6 DEF CaseIInv, Carries, Case!Now, Case!Idle
  <2>8. OutcomeKept /\ (\A p \in Overrides : FiledWhole(p))'
    BY <1>6 DEF CaseIInv, FiledWhole, OutcomeKept
  <2> QED  BY <1>2, <1>3, <1>6, <2>7, <2>8 DEF CaseIInv, CaseTyped
<1> QED  BY <1>4, <1>5, <1>6 DEF Case!ApplyOverride

\* Every step of a case.
LEMMA CaseStep ==
    ASSUME CaseIInv, [Case!Next]_Case!vars
    PROVE  CaseIInv' /\ OutcomeKept
<1>1. CASE UNCHANGED Case!vars
  BY <1>1 DEF Case!vars, CaseIInv, CaseTyped, Carries, FiledWhole, Case!Now, OutcomeKept
<1>2. CASE Case!Next
  BY <1>2, EvidenceStep, ComputeStep, AskStep, FileStep, VerifyStep, ApplyStep DEF Case!Next
<1> QED  BY <1>1, <1>2

\* A case begins without items received, outcomes or requests.
LEMMA CaseBegins == Case!Init => CaseIInv
BY CaseAssumption DEF Case!Init, CaseIInv, CaseTyped, Carries, FiledWhole, Case!Now, Case!Idle, Case!NoRequest, Case!NoOutcome, Errands,
   Orders, CaseOutcomes, Case!ItemStatuses, Case!FindingStatuses

\* The invariant is the stronger type.
LEMMA CaseWellTyped == CaseIInv => Case!TypeOK
<1> SUFFICES ASSUME CaseIInv PROVE Case!TypeOK
  OBVIOUS
<1>1. outcome \in Case!OutcomeRows
  BY CaseAssumption DEF CaseIInv, CaseTyped, CaseOutcomes, Case!OutcomeRows
<1>2. ASSUME NEW q \in Overrides, override[q] # Case!NoRequest PROVE override[q] \in Case!OverrideRows
  <2>1. override[q] \in Orders /\ FiledWhole(q)
    BY DEF CaseIInv, CaseTyped
  <2>2. override[q].against \in Case!OutcomeRows
    BY <1>2, <2>1, CaseAssumption DEF FiledWhole, Orders, CaseOutcomes, Case!OutcomeRows
  <2> QED  BY <1>2, <2>1, <2>2 DEF FiledWhole, Orders, Case!OverrideRows
<1>3. \A w \in Workers : Case!Now(w) \in {"idle", "asking", "verified"}
  BY DEF CaseIInv, CaseTyped, Errands, Case!Now
<1> QED  BY <1>1, <1>2, <1>3 DEF Case!TypeOK, CaseIInv, CaseTyped

\* An override replaces the very outcome it was approved against, with the result that was asked
\* for, and then stands: nothing computed and no other override replaces it.
THEOREM OverridesStand == Case!Spec => OverrideStands
<1>1. CaseIInv /\ [Case!Next]_Case!vars =>
        /\ [outcome.manual => outcome' = outcome]_Case!vars
        /\ [outcome'.manual /\ outcome' # outcome =>
              \E q \in Overrides :
                 /\ override[q].status = "requested" /\ override'[q].status = "applied"
                 /\ outcome = override[q].against /\ outcome'.result = override[q].target]_Case!vars
  BY CaseStep DEF OutcomeKept
<1> QED  BY <1>1, CaseBegins, CaseStep, CaseWellTyped, PTL
     DEF Case!Spec, OverrideStands, Case!ReplacesWhatWasApproved, Case!ManualStands

-----------------------------------------------------------------------------
\* A behaviour of KYC-01 is one of the publications and one of the case: whichever is not in focus
\* stands still.
LEMMA Parts == KycSpec => Spec /\ Case!Spec
<1>1. KycInit => Init /\ Case!Init
  BY DEF KycInit
<1>2. [KycNext]_<<vars, focus, caseVars>> => [Next]_vars /\ [Case!Next]_Case!vars
  BY DEF KycNext, caseVars, Case!vars
<1> QED  BY <1>1, <1>2, PTL DEF KycSpec, Spec, Case!Spec

\* Of the publications and a case together: what CLT-01 accepted is sound, an outcome it takes over
\* is still what KYC-01 would publish unless a case changed in flight, and an override stands.
THEOREM Together == KycSpec => []AcceptedSoundly /\ AcceptedAsOfSending /\ OverrideStands
BY Parts, Sound, AsOfSending, OverridesStand, PTL
=============================================================================
