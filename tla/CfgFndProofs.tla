---------------------------- MODULE CfgFndProofs ----------------------------
(***************************************************************************)
(* What CFG-01, FND-01 and the calls between the services promise, for any *)
(* numbers of features, licences, changes, tokens, actors, windows, jobs   *)
(* and workers.  Each part has an inductive invariant of its own, carried  *)
(* over to the platform in the last section.                               *)
(***************************************************************************)
EXTENDS PlatformProofs

-----------------------------------------------------------------------------
(* CFG-01's kill switch of a feature: an activation is lifted once, under  *)
(* a request of its own.                                                   *)

SwitchRows == [status : {None, "active", "inactive"}, by : Actors \cup {None}, version : Nat]
SwitchRequestRows == [status : {None, "requested", "applied"}, by : Actors \cup {None}, version : Nat]
SwitchEvents == [kind : {"activated", "deactivated"}, by : Actors \cup {None}]
SwitchTasks == [at : {"idle", "requesting", "verified"}, actor : Actors \cup {None}, version : Nat, request : Deactivations \cup {None}]

SwitchTyped ==
    /\ switch \in SwitchRows /\ deactivation \in [Deactivations -> SwitchRequestRows]
    /\ event \in Seq(SwitchEvents) /\ switchWork \in [Workers -> SwitchTasks]

\* The events alternate, beginning with an activation, and the switch has the state of the last.
SwitchHistory ==
    /\ switch.version = Len(event)
    /\ switch.status = "active" <=> (event # <<>> /\ event[Len(event)].kind = "activated")
    /\ event # <<>> => event[1].kind = "activated"
    /\ Switch!LiftedOnce

SwitchLifted == {n \in 1..Len(event) : Switch!Lifts(n)}
SwitchApplied == {r \in Deactivations : deactivation[r].status = "applied"}
SwitchCounted == IsFiniteSet(SwitchLifted) /\ IsFiniteSet(SwitchApplied) /\ Cardinality(SwitchLifted) = Cardinality(SwitchApplied)

\* What was read of the switch when a request was made, by someone who had not activated it.
SwitchRead(actor, version) ==
    /\ version \in 1..Len(event)
    /\ switch.status = "active" /\ switch.by = actor => version < switch.version

SwitchFit(w) ==
    /\ Switch!Now(w) = "requesting" => SwitchRead(switchWork[w].actor, switchWork[w].version)
    /\ Switch!Now(w) = "verified" => switchWork[w].request \in Deactivations
SwitchFiled(r) == IF deactivation[r] = Switch!NoRequest THEN TRUE ELSE SwitchRead(deactivation[r].by, deactivation[r].version)

SwitchIInv == SwitchTyped /\ SwitchHistory /\ SwitchCounted /\ (\A w \in Workers : SwitchFit(w)) /\ (\A r \in Deactivations : SwitchFiled(r))

-----------------------------------------------------------------------------
\* The module of the switch counts with a copy of FiniteSets of its own.
LEMMA SwitchSize == \A S : Switch!Cardinality(S) = Cardinality(S)
BY DEF Cardinality, IsFiniteSet, Switch!Cardinality, Switch!IsFiniteSet

\* Nothing happens to the switch.
LEMMA SwitchKept ==
  ASSUME UNCHANGED <<switch, event>>
  PROVE  /\ (SwitchHistory => SwitchHistory') /\ SwitchLifted' = SwitchLifted
         /\ \A actor, version : SwitchRead(actor, version) => SwitchRead(actor, version)'
BY DEF SwitchHistory, Switch!LiftedOnce, SwitchLifted, Switch!Lifts, SwitchRead

LEMMA SwitchTaskStep ==
  ASSUME SwitchIInv, NEW w \in Workers, NEW t \in SwitchTasks, switchWork' = [switchWork EXCEPT ![w] = t],
         t.at = "requesting" => SwitchRead(t.actor, t.version)', t.at = "verified" => t.request \in Deactivations,
         \A actor, version : SwitchRead(actor, version) => SwitchRead(actor, version)'
  PROVE  switchWork' \in [Workers -> SwitchTasks] /\ \A v \in Workers : SwitchFit(v)'
<1>1. switchWork' \in [Workers -> SwitchTasks] /\ switchWork'[w] = t /\ \A v \in Workers \ {w} : switchWork'[v] = switchWork[v]
  BY DEF SwitchIInv, SwitchTyped
<1>2. SwitchFit(w)'
  BY <1>1 DEF SwitchFit, Switch!Now, SwitchRead
<1>3. ASSUME NEW v \in Workers \ {w} PROVE SwitchFit(v)'
  BY <1>1 DEF SwitchFit, Switch!Now, SwitchRead, SwitchIInv
<1> QED  BY <1>1, <1>2, <1>3

LEMMA FiledKept ==
  ASSUME SwitchIInv, UNCHANGED deactivation, \A actor, version : SwitchRead(actor, version) => SwitchRead(actor, version)'
  PROVE  SwitchApplied' = SwitchApplied /\ \A r \in Deactivations : SwitchFiled(r)'
BY DEF SwitchIInv, SwitchFiled, SwitchRead, SwitchApplied

LEMMA IdleTask == Switch!Idle \in SwitchTasks /\ Switch!Idle.at = "idle"
BY DEF Switch!Idle, SwitchTasks

\* The switch is as it was before an event.
LEMMA AppendEvent ==
  ASSUME SwitchTyped, NEW e \in SwitchEvents, event' = Append(event, e)
  PROVE  /\ event' \in Seq(SwitchEvents) /\ Len(event') = Len(event) + 1 /\ event'[Len(event) + 1] = e
         /\ \A i \in 1..Len(event) : event'[i] = event[i]
         /\ Len(event) \in Nat /\ event' # <<>> /\ (event = <<>> <=> Len(event) = 0)
BY DEF SwitchTyped

LEMMA ActivateStep ==
  ASSUME SwitchIInv, None # "active", NEW a \in Actors, Switch!Activate(a)
  PROVE  SwitchIInv'
<1> DEFINE e == [kind |-> "activated", by |-> a]
           s == [status |-> "active", by |-> a, version |-> switch.version + 1]
<1>1. e \in SwitchEvents /\ e.kind = "activated"
  BY DEF SwitchEvents
<1>2. s \in SwitchRows /\ s.status = "active" /\ s.by = a /\ s.version = switch.version + 1
  BY DEF SwitchIInv, SwitchTyped, SwitchRows
<1>3. switch' = s /\ event' = Append(event, e) /\ switch.status # "active" /\ UNCHANGED <<deactivation, switchWork>>
  BY DEF Switch!Activate, Switch!Happened
<1> HIDE DEF e, s
<1>4. /\ event' \in Seq(SwitchEvents) /\ Len(event') = Len(event) + 1 /\ event'[Len(event) + 1] = e
      /\ \A i \in 1..Len(event) : event'[i] = event[i]
      /\ Len(event) \in Nat /\ event' # <<>> /\ (event = <<>> <=> Len(event) = 0)
  BY <1>1, <1>3, AppendEvent DEF SwitchIInv
<1>5. SwitchTyped'
  BY <1>2, <1>3, <1>4 DEF SwitchIInv, SwitchTyped
<1>6. SwitchHistory'
  <2>1. Switch!LiftedOnce'
    <3> SUFFICES ASSUME NEW n \in 2..Len(event') PROVE event'[n].kind # event'[n - 1].kind
      BY DEF Switch!LiftedOnce
    <3>1. CASE n \in 2..Len(event)
      BY <1>4, <3>1 DEF SwitchIInv, SwitchHistory, Switch!LiftedOnce
    <3>2. CASE n = Len(event) + 1
      <4>1. event # <<>> /\ n - 1 = Len(event) /\ Len(event) \in 1..Len(event)
        BY <1>4, <3>2
      <4>2. event[Len(event)].kind # "activated"
        BY <1>3, <4>1 DEF SwitchIInv, SwitchHistory
      <4> QED  BY <1>1, <1>4, <3>2, <4>1, <4>2
    <3> QED  BY <1>4, <3>1, <3>2
  <2>2. event'[1].kind = "activated"
    BY <1>1, <1>4 DEF SwitchIInv, SwitchHistory
  <2> QED  BY <1>1, <1>2, <1>3, <1>4, <2>1, <2>2 DEF SwitchIInv, SwitchHistory
<1>7. SwitchLifted' = SwitchLifted
  BY <1>1, <1>4 DEF SwitchLifted, Switch!Lifts
<1>8. \A actor, version : SwitchRead(actor, version) => SwitchRead(actor, version)'
  BY <1>2, <1>3, <1>4 DEF SwitchIInv, SwitchHistory, SwitchRead
<1>9. SwitchApplied' = SwitchApplied /\ \A r \in Deactivations : SwitchFiled(r)'
  BY <1>3, <1>8, FiledKept
<1>10. \A w \in Workers : SwitchFit(w)'
  BY <1>3, <1>8 DEF SwitchIInv, SwitchFit, Switch!Now, SwitchRead
<1> QED  BY <1>5, <1>6, <1>7, <1>9, <1>10 DEF SwitchIInv, SwitchCounted

LEMMA ReadStep ==
  ASSUME SwitchIInv, NEW w \in Workers, NEW a \in Actors, Switch!ReadSwitch(w, a)
  PROVE  SwitchIInv'
<1>1. PICK t \in SwitchTasks : /\ switchWork' = [switchWork EXCEPT ![w] = t]
                         /\ t.at = "requesting" /\ t.actor = a /\ t.version = switch.version
  <2> DEFINE x == [at |-> "requesting", actor |-> a, version |-> switch.version, request |-> None]
  <2>1. x \in SwitchTasks /\ x.at = "requesting" /\ x.actor = a /\ x.version = switch.version
    BY DEF SwitchIInv, SwitchTyped, SwitchRows, SwitchTasks
  <2>2. switchWork' = [switchWork EXCEPT ![w] = x]
    BY DEF Switch!ReadSwitch
  <2> HIDE DEF x
  <2> QED  BY <2>1, <2>2
<1>2. UNCHANGED <<switch, deactivation, event>> /\ Switch!MayRequest(a)
  BY DEF Switch!ReadSwitch
<1>3. /\ (SwitchHistory => SwitchHistory') /\ SwitchLifted' = SwitchLifted
      /\ \A actor, version : SwitchRead(actor, version) => SwitchRead(actor, version)'
  BY <1>2, SwitchKept
<1>4. SwitchRead(a, switch.version)'
  <2>1. switch.version \in 1..Len(event)
    BY <1>2 DEF SwitchIInv, SwitchHistory, SwitchTyped, Switch!MayRequest
  <2> QED  BY <1>2, <2>1 DEF SwitchRead, Switch!MayRequest
<1>5. switchWork' \in [Workers -> SwitchTasks] /\ \A v \in Workers : SwitchFit(v)'
  BY <1>1, <1>2, <1>3, <1>4, SwitchTaskStep
<1>6. SwitchApplied' = SwitchApplied /\ \A r \in Deactivations : SwitchFiled(r)'
  BY <1>2, <1>3, FiledKept
<1>7. SwitchTyped'
  BY <1>2, <1>5 DEF SwitchIInv, SwitchTyped
<1> QED  BY <1>3, <1>5, <1>6, <1>7 DEF SwitchIInv, SwitchCounted

LEMMA RequestStep ==
  ASSUME SwitchIInv, None # "applied", NEW w \in Workers, NEW r \in Deactivations, Switch!Request(w, r)
  PROVE  SwitchIInv'
<1>1. PICK q \in SwitchRequestRows : /\ deactivation' = [deactivation EXCEPT ![r] = q]
                               /\ q.status = "requested" /\ q.by = switchWork[w].actor /\ q.version = switchWork[w].version
  <2> DEFINE x == [status |-> "requested", by |-> switchWork[w].actor, version |-> switchWork[w].version]
  <2>1. x \in SwitchRequestRows /\ x.status = "requested" /\ x.by = switchWork[w].actor /\ x.version = switchWork[w].version
    BY DEF SwitchIInv, SwitchTyped, SwitchTasks, SwitchRequestRows
  <2>2. deactivation' = [deactivation EXCEPT ![r] = x]
    BY DEF Switch!Request
  <2> HIDE DEF x
  <2> QED  BY <2>1, <2>2
<1>2. UNCHANGED <<switch, event>> /\ Switch!Now(w) = "requesting" /\ deactivation[r] = Switch!NoRequest /\ switchWork' = [switchWork EXCEPT ![w] = Switch!Idle]
  BY DEF Switch!Request, Switch!Rest
<1>3. /\ (SwitchHistory => SwitchHistory') /\ SwitchLifted' = SwitchLifted
      /\ \A actor, version : SwitchRead(actor, version) => SwitchRead(actor, version)'
  BY <1>2, SwitchKept
<1>4. /\ deactivation' \in [Deactivations -> SwitchRequestRows] /\ deactivation'[r] = q
      /\ \A p \in Deactivations \ {r} : deactivation'[p] = deactivation[p]
  BY <1>1 DEF SwitchIInv, SwitchTyped
<1>5. PICK t \in SwitchTasks : t = Switch!Idle /\ t.at = "idle"
  BY IdleTask
<1>6. switchWork' \in [Workers -> SwitchTasks] /\ \A v \in Workers : SwitchFit(v)'
  BY <1>2, <1>3, <1>5, SwitchTaskStep
<1>7. \A p \in Deactivations : SwitchFiled(p)'
  <2>1. SwitchRead(switchWork[w].actor, switchWork[w].version)
    BY <1>2 DEF SwitchIInv, SwitchFit
  <2>2. PICK actor, version : actor = switchWork[w].actor /\ version = switchWork[w].version
    OBVIOUS
  <2>3. SwitchRead(actor, version)'
    BY <1>3, <2>1, <2>2
  <2>4. SwitchFiled(r)'
    BY <1>1, <1>4, <2>2, <2>3 DEF SwitchFiled, SwitchRead
  <2>5. ASSUME NEW p \in Deactivations \ {r} PROVE SwitchFiled(p)'
    BY <1>3, <1>4 DEF SwitchIInv, SwitchFiled, SwitchRead
  <2> QED  BY <2>4, <2>5
<1>8. SwitchApplied' = SwitchApplied
  <2>1. deactivation[r].status # "applied" /\ deactivation'[r].status # "applied"
    BY <1>1, <1>2, <1>4 DEF Switch!NoRequest
  <2> QED  BY <1>4, <2>1 DEF SwitchApplied
<1>9. SwitchTyped'
  BY <1>2, <1>4, <1>6 DEF SwitchIInv, SwitchTyped
<1> QED  BY <1>3, <1>6, <1>7, <1>8, <1>9 DEF SwitchIInv, SwitchCounted

LEMMA SwitchVerifyStep ==
  ASSUME SwitchIInv, NEW w \in Workers, NEW r \in Deactivations, Switch!Verify(w, r)
  PROVE  SwitchIInv'
<1>1. PICK t \in SwitchTasks : switchWork' = [switchWork EXCEPT ![w] = t] /\ t.at = "verified" /\ t.request = r
  <2> DEFINE x == [at |-> "verified", actor |-> None, version |-> 0, request |-> r]
  <2>1. x \in SwitchTasks /\ x.at = "verified" /\ x.request = r
    BY DEF SwitchTasks
  <2>2. switchWork' = [switchWork EXCEPT ![w] = x]
    BY DEF Switch!Verify
  <2> HIDE DEF x
  <2> QED  BY <2>1, <2>2
<1>2. UNCHANGED <<switch, deactivation, event>>
  BY DEF Switch!Verify
<1>3. /\ (SwitchHistory => SwitchHistory') /\ SwitchLifted' = SwitchLifted
      /\ \A actor, version : SwitchRead(actor, version) => SwitchRead(actor, version)'
  BY <1>2, SwitchKept
<1>4. switchWork' \in [Workers -> SwitchTasks] /\ \A v \in Workers : SwitchFit(v)'
  BY <1>1, <1>3, SwitchTaskStep
<1>5. SwitchApplied' = SwitchApplied /\ \A p \in Deactivations : SwitchFiled(p)'
  BY <1>2, <1>3, FiledKept
<1>6. SwitchTyped'
  BY <1>2, <1>4 DEF SwitchIInv, SwitchTyped
<1> QED  BY <1>3, <1>4, <1>5, <1>6 DEF SwitchIInv, SwitchCounted

\* A handler that ends and leaves no trace.
LEMMA EndStep ==
  ASSUME SwitchIInv, NEW w \in Workers, Switch!Rest(w), UNCHANGED <<switch, deactivation, event>>
  PROVE  SwitchIInv'
<1>1. PICK t \in SwitchTasks : t = Switch!Idle /\ t.at = "idle"
  BY IdleTask
<1>2. switchWork' = [switchWork EXCEPT ![w] = t]
  BY <1>1 DEF Switch!Rest
<1>3. /\ (SwitchHistory => SwitchHistory') /\ SwitchLifted' = SwitchLifted
      /\ \A actor, version : SwitchRead(actor, version) => SwitchRead(actor, version)'
  BY SwitchKept
<1>4. switchWork' \in [Workers -> SwitchTasks] /\ \A v \in Workers : SwitchFit(v)'
  BY <1>1, <1>2, <1>3, SwitchTaskStep
<1>5. SwitchApplied' = SwitchApplied /\ \A p \in Deactivations : SwitchFiled(p)'
  BY <1>3, FiledKept
<1>6. SwitchTyped'
  BY <1>4 DEF SwitchIInv, SwitchTyped
<1> QED  BY <1>3, <1>4, <1>5, <1>6 DEF SwitchIInv, SwitchCounted

\* The activation that is the last event is lifted, and one more request is applied.
LEMMA LiftStep ==
  ASSUME SwitchIInv, None # "requested", NEW w \in Workers, NEW r \in Deactivations, switchWork[w].request = r, Switch!Now(w) = "verified",
         Switch!Deactivate(w), Switch!StillRequested(r), Switch!StillActive, Len(event) < MaxEvents
  PROVE  SwitchIInv'
<1> DEFINE e == [kind |-> "deactivated", by |-> deactivation[r].by]
           y == [switch EXCEPT !.status = "inactive"]
           p == [deactivation[r] EXCEPT !.status = "applied"]
<1>1. e \in SwitchEvents /\ e.kind = "deactivated"
  BY DEF SwitchIInv, SwitchTyped, SwitchRequestRows, SwitchEvents
<1>2. PICK s \in SwitchRows : switch' = s /\ s.status = "inactive" /\ s.version = switch.version + 1
  <2>1. y \in SwitchRows /\ y.status = "inactive" /\ y.version = switch.version
    BY DEF SwitchIInv, SwitchTyped, SwitchRows
  <2>2. switch' = [y EXCEPT !.version = switch.version + 1]
    BY DEF Switch!Deactivate
  <2> HIDE DEF y
  <2>3. switch' \in SwitchRows /\ switch'.status = "inactive" /\ switch'.version = switch.version + 1
    BY <2>1, <2>2 DEF SwitchRows
  <2> QED  BY <2>3
<1>3. PICK q \in SwitchRequestRows : /\ deactivation' = [deactivation EXCEPT ![r] = q]
                               /\ q.status = "applied" /\ q.by = deactivation[r].by /\ q.version = deactivation[r].version
  <2>1. p \in SwitchRequestRows /\ p.status = "applied" /\ p.by = deactivation[r].by /\ p.version = deactivation[r].version
    BY DEF SwitchIInv, SwitchTyped, SwitchRequestRows
  <2>2. deactivation' = [deactivation EXCEPT ![r] = p]
    BY DEF Switch!Deactivate
  <2> HIDE DEF p
  <2> QED  BY <2>1, <2>2
<1>4. event' = Append(event, e) /\ switchWork' = [switchWork EXCEPT ![w] = Switch!Idle]
  BY DEF Switch!Deactivate, Switch!Happened, Switch!Rest
<1> HIDE DEF e, y, p
<1>5. /\ event' \in Seq(SwitchEvents) /\ Len(event') = Len(event) + 1 /\ event'[Len(event) + 1] = e
      /\ \A i \in 1..Len(event) : event'[i] = event[i]
      /\ Len(event) \in Nat /\ event' # <<>> /\ (event = <<>> <=> Len(event) = 0)
  BY <1>1, <1>4, AppendEvent DEF SwitchIInv
<1>6. /\ deactivation' \in [Deactivations -> SwitchRequestRows] /\ deactivation'[r] = q
      /\ \A x \in Deactivations \ {r} : deactivation'[x] = deactivation[x]
  BY <1>3 DEF SwitchIInv, SwitchTyped
<1>7. event # <<>> /\ Len(event) \in 1..Len(event) /\ event[Len(event)].kind = "activated" /\ event[1].kind = "activated"
  BY <1>5 DEF SwitchIInv, SwitchHistory, Switch!StillActive
<1>8. SwitchHistory'
  <2>1. Switch!LiftedOnce'
    <3> SUFFICES ASSUME NEW n \in 2..Len(event') PROVE event'[n].kind # event'[n - 1].kind
      BY DEF Switch!LiftedOnce
    <3>1. CASE n \in 2..Len(event)
      BY <1>5, <3>1 DEF SwitchIInv, SwitchHistory, Switch!LiftedOnce
    <3>2. CASE n = Len(event) + 1
      <4>1. n - 1 = Len(event)
        BY <1>5, <3>2
      <4> QED  BY <1>1, <1>5, <1>7, <3>2, <4>1
    <3> QED  BY <1>5, <3>1, <3>2
  <2>2. event'[1].kind = "activated"
    BY <1>5, <1>7
  <2> QED  BY <1>1, <1>2, <1>5, <2>1, <2>2 DEF SwitchIInv, SwitchHistory
<1>9. SwitchLifted' = SwitchLifted \cup {Len(event) + 1} /\ Len(event) + 1 \notin SwitchLifted
  <2>1. Len(event) + 1 > 1 /\ Len(event) + 1 \in 1..Len(event') /\ Len(event) + 1 \notin 1..Len(event)
    BY <1>5, <1>7
  <2>2. \A n \in 1..Len(event) : n \in 1..Len(event') /\ event'[n] = event[n]
    BY <1>5
  <2>3. \A n \in 1..Len(event') : n \in 1..Len(event) \/ n = Len(event) + 1
    BY <1>5
  <2> HIDE <1>5
  <2> QED  BY <1>1, <1>5, <2>1, <2>2, <2>3 DEF SwitchLifted, Switch!Lifts
<1>10. SwitchApplied' = SwitchApplied \cup {r} /\ r \notin SwitchApplied
  BY <1>3, <1>6 DEF SwitchApplied, Switch!StillRequested
<1>11. SwitchCounted'
  <2> DEFINE L == SwitchLifted
             A == SwitchApplied
  <2>1. IsFiniteSet(L) /\ IsFiniteSet(A) /\ Cardinality(L) = Cardinality(A)
    BY DEF SwitchIInv, SwitchCounted
  <2> HIDE DEF L, A
  <2>2. /\ IsFiniteSet(L \cup {Len(event) + 1}) /\ IsFiniteSet(A \cup {r})
    BY <2>1, FS_AddElement
  <2>3. Len(event) + 1 \notin L /\ r \notin A
    BY <1>9, <1>10 DEF L, A
  <2>4. Cardinality(L \cup {Len(event) + 1}) = Cardinality(L) + 1 /\ Cardinality(A \cup {r}) = Cardinality(A) + 1
    BY <2>1, <2>3, FS_AddElement
  <2> QED  BY <1>9, <1>10, <2>1, <2>2, <2>4 DEF SwitchCounted, L, A
<1>12. \A actor, version : SwitchRead(actor, version) => SwitchRead(actor, version)'
  BY <1>2, <1>5 DEF SwitchRead
<1>13. PICK t \in SwitchTasks : t = Switch!Idle /\ t.at = "idle"
  BY IdleTask
<1>14. switchWork' \in [Workers -> SwitchTasks] /\ \A v \in Workers : SwitchFit(v)'
  BY <1>4, <1>12, <1>13, SwitchTaskStep
<1>15. \A x \in Deactivations : SwitchFiled(x)'
  <2>1. deactivation[r] # Switch!NoRequest
    BY DEF Switch!StillRequested, Switch!NoRequest
  <2>2. PICK actor, version : actor = deactivation[r].by /\ version = deactivation[r].version
    OBVIOUS
  <2>3. SwitchRead(actor, version)'
    BY <1>12, <2>1, <2>2 DEF SwitchIInv, SwitchFiled
  <2>4. SwitchFiled(r)'
    BY <1>3, <1>6, <2>2, <2>3 DEF SwitchFiled, SwitchRead
  <2>5. ASSUME NEW x \in Deactivations \ {r} PROVE SwitchFiled(x)'
    BY <1>6, <1>12 DEF SwitchIInv, SwitchFiled, SwitchRead
  <2> QED  BY <2>4, <2>5
<1>16. SwitchTyped'
  BY <1>2, <1>5, <1>6, <1>14 DEF SwitchIInv, SwitchTyped
<1> QED  BY <1>8, <1>11, <1>14, <1>15, <1>16 DEF SwitchIInv

LEMMA SwitchStep ==
  ASSUME SwitchIInv, [Switch!Next]_Switch!vars, None \notin {"active", "requested", "applied"}
  PROVE  SwitchIInv'
<1>1. ASSUME NEW a \in Actors, Switch!Activate(a) PROVE SwitchIInv'
  BY <1>1, ActivateStep
<1>2. ASSUME NEW a \in Actors, NEW w \in Workers, Switch!ReadSwitch(w, a) PROVE SwitchIInv'
  BY <1>2, ReadStep
<1>3. ASSUME NEW w \in Workers, NEW r \in Deactivations, Switch!Request(w, r) \/ Switch!Verify(w, r) PROVE SwitchIInv'
  BY <1>3, RequestStep, SwitchVerifyStep
<1>4. ASSUME NEW w \in Workers, Switch!Deactivate(w) PROVE SwitchIInv'
  <2>1. PICK r \in Deactivations : switchWork[w].request = r
    BY <1>4 DEF Switch!Deactivate, SwitchIInv, SwitchFit
  <2>2. CASE Switch!StillRequested(r) /\ Switch!StillActive /\ Len(event) < MaxEvents
    BY <1>4, <2>1, <2>2, LiftStep DEF Switch!Deactivate
  <2>3. CASE ~(Switch!StillRequested(r) /\ Switch!StillActive /\ Len(event) < MaxEvents)
    BY <1>4, <2>1, <2>3, EndStep DEF Switch!Deactivate
  <2> QED  BY <2>2, <2>3
<1>5. ASSUME NEW w \in Workers, Switch!Fails(w) PROVE SwitchIInv'
  BY <1>5, EndStep DEF Switch!Fails
<1>6. CASE UNCHANGED Switch!vars
  <2>1. UNCHANGED <<switch, deactivation, event, switchWork>>
    BY <1>6 DEF Switch!vars
  <2>2. /\ (SwitchHistory => SwitchHistory') /\ SwitchLifted' = SwitchLifted
        /\ \A actor, version : SwitchRead(actor, version) => SwitchRead(actor, version)'
    BY <2>1, SwitchKept
  <2>3. SwitchApplied' = SwitchApplied /\ \A r \in Deactivations : SwitchFiled(r)'
    BY <2>1, <2>2, FiledKept
  <2>4. \A w \in Workers : SwitchFit(w)'
    BY <2>1, <2>2 DEF SwitchIInv, SwitchFit, Switch!Now, SwitchRead
  <2> QED  BY <2>1, <2>2, <2>3, <2>4 DEF SwitchIInv, SwitchTyped, SwitchCounted
<1> QED  BY <1>1, <1>2, <1>3, <1>4, <1>5, <1>6 DEF Switch!Next

LEMMA SwitchInitHolds == ASSUME Switch!Init, None \notin {"active", "requested", "applied"} PROVE SwitchIInv
<1>1. Switch!NoSwitch \in SwitchRows /\ Switch!NoRequest \in SwitchRequestRows /\ Switch!Idle \in SwitchTasks
  BY DEF Switch!NoSwitch, SwitchRows, Switch!NoRequest, SwitchRequestRows, Switch!Idle, SwitchTasks
<1>2. SwitchTyped
  BY <1>1 DEF Switch!Init, SwitchTyped
<1>3. SwitchHistory
  BY DEF Switch!Init, SwitchHistory, Switch!LiftedOnce, Switch!NoSwitch
<1>4. SwitchLifted = {} /\ SwitchApplied = {}
  BY DEF Switch!Init, SwitchLifted, SwitchApplied, Switch!NoRequest
<1>5. SwitchCounted
  BY <1>4, FS_EmptySet DEF SwitchCounted
<1> QED  BY <1>2, <1>3, <1>5 DEF Switch!Init, SwitchIInv, SwitchFit, Switch!Now, Switch!Idle, SwitchFiled

\* However deactivations overlap, an activation is lifted once and an approved request lifts one;
\* an open request of the one who activated the switch was made before that activation.
THEOREM Switched == Switch!Spec => []LiftedUnderRequest
<1>1. Switch!Init => SwitchIInv
  BY SwitchAssumption, SwitchInitHolds
<1>2. SwitchIInv /\ [Switch!Next]_Switch!vars => SwitchIInv'
  BY SwitchAssumption, SwitchStep
<1>3. SwitchIInv => LiftedUnderRequest
  <2> SUFFICES ASSUME SwitchIInv PROVE Switch!TypeOK /\ Switch!LiftedOnce /\ Switch!RequestLiftsOne /\ Switch!SelfOnlyOlder
    BY DEF LiftedUnderRequest
  <2>1. \A r \in Deactivations : deactivation[r] # Switch!NoRequest => SwitchRead(deactivation[r].by, deactivation[r].version)
    BY DEF SwitchIInv, SwitchFiled
  <2>2. Switch!TypeOK
    <3>1. ASSUME NEW r \in Deactivations
          PROVE  /\ deactivation[r].status \in {None, "requested", "applied"} /\ deactivation[r].version <= Len(event)
                 /\ deactivation[r] # Switch!NoRequest => deactivation[r].version > 0
      <4>1. deactivation[r] \in SwitchRequestRows /\ Len(event) \in Nat
        BY DEF SwitchIInv, SwitchTyped
      <4> QED  BY <2>1, <4>1 DEF SwitchRequestRows, Switch!NoRequest, SwitchRead
    <3> QED  BY <3>1 DEF SwitchIInv, SwitchHistory, Switch!TypeOK
  <2>3. Switch!RequestLiftsOne
    BY SwitchSize DEF SwitchIInv, SwitchCounted, SwitchLifted, SwitchApplied, Switch!RequestLiftsOne
  <2>4. Switch!SelfOnlyOlder
    BY SwitchAssumption, <2>1 DEF Switch!SelfOnlyOlder, SwitchRead, Switch!NoRequest
  <2> QED  BY <2>2, <2>3, <2>4 DEF SwitchIInv, SwitchHistory
<1> QED  BY <1>1, <1>2, <1>3, PTL DEF Switch!Spec

-----------------------------------------------------------------------------
(* The rate limit.  Of the checks answered each counts one more than the   *)
(* one before it, or begins a window anew, not before the last has ended:  *)
(* so starts tell windows apart, and within a window the counts rise.      *)

Fields == {"burst", "sustained"}
LimitOf(f) == IF f = "burst" THEN BurstLimit ELSE SustainedLimit
LengthOf(f) == IF f = "burst" THEN BurstWindow ELSE SustainedWindow
Windows == [start : Nat, count : Nat]
CounterRows == [burst : Windows, sustained : Windows]
Answers == [allowed : BOOLEAN, counts : CounterRows, told : Nat, retry : Nat]
Checked == 1..Len(told)

\* A window after an earlier one: the same, counted on, or one begun after that has ended.
CountsOn(w, v) == w.start = v.start /\ (v.count < w.count \/ w.count = Ceiling)
BeginsAnew(w, v, f) == v.start + LengthOf(f) <= w.start
\* A window and the one before it.
Succeeds(w, v, f) ==
    \/ w.start = v.start /\ w.count = (IF v.count + 1 <= Ceiling THEN v.count + 1 ELSE Ceiling)
    \/ BeginsAnew(w, v, f) /\ w.count = 1

Within(c) == \A f \in Fields : c[f].count <= LimitOf(f)

\* What a row of the answers tells.
LimitTells(n) ==
    LET c == told[n].counts IN
    /\ c \in CounterRows /\ told[n].told \in Nat /\ told[n].told <= now
    /\ \A f \in Fields : c[f].count \in 1..Ceiling /\ c[f].start <= told[n].told
    /\ told[n].allowed <=> Within(c)
    /\ ~Within(c) =>
          \E f \in Fields : LimitOf(f) < c[f].count /\ told[n].retry <= c[f].start + LengthOf(f)
Transits(n) ==
    LET c == told[n].counts IN ~Within(c) /\ \A f \in Fields : c[f].count <= LimitOf(f) + 1

LimitTyped ==
    /\ now \in 0..MaxTime /\ counter \in CounterRows
    /\ \A w \in Workers : checking[w] \in 0..now \cup {RateLimit!Idle}
    /\ checking \in [Workers -> 0..MaxTime \cup {RateLimit!Idle}]
    /\ told \in Seq(Answers)
Current ==
    IF told = <<>> THEN counter = RateLimit!NoCounter ELSE counter = told[Len(told)].counts
LimitOrdered ==
    \A m, n \in Checked : m < n =>
        \A f \in Fields :
            LET v == told[m].counts[f]
                w == told[n].counts[f]
            IN  CountsOn(w, v) \/ BeginsAnew(w, v, f)
Consecutive ==
    \A n \in Checked : \A f \in Fields :
        /\ n = 1 => told[n].counts[f].count = 1
        /\ n > 1 => Succeeds(told[n].counts[f], told[n - 1].counts[f], f)
LimitIInv ==
    /\ LimitTyped /\ Current /\ LimitOrdered /\ Consecutive
    /\ \A n \in Checked : LimitTells(n)
    /\ throttled = {n \in Checked : Transits(n)}

LEMMA FieldsOf ==
    /\ \A f \in Fields : LimitOf(f) \in Nat \ {0} /\ LengthOf(f) \in Nat \ {0} /\ LimitOf(f) + 1 < Ceiling
    /\ \A c \in CounterRows : \A f \in Fields : c[f] \in Windows /\ c[f].start \in Nat /\ c[f].count \in Nat
    /\ Ceiling \in Nat
<1>1. \A f \in Fields : LimitOf(f) \in Nat \ {0} /\ LengthOf(f) \in Nat \ {0} /\ LimitOf(f) + 1 < Ceiling
  BY LimitAssumption DEF Fields, LimitOf, LengthOf
<1>2. ASSUME NEW c \in CounterRows, NEW f \in Fields
      PROVE  c[f] \in Windows
  BY DEF Fields, CounterRows
<1> QED  BY <1>1, <1>2, LimitAssumption DEF Windows

LEMMA Extremes ==
    /\ \A m, n \in Nat : RateLimit!Min({m, n}) = (IF m <= n THEN m ELSE n)
    /\ \A m, n \in Nat : RateLimit!Max({m, n}) = (IF m <= n THEN n ELSE m)
BY DEF RateLimit!Min, RateLimit!Max

\* One dimension of the upsert.
LEMMA CountedSucceeds ==
    ASSUME NEW f \in Fields, NEW v \in Windows, NEW at \in Nat, NEW w, w = RateLimit!Counted(v, LengthOf(f), at)
    PROVE  /\ w \in Windows /\ w.count \in 1..Ceiling
           /\ v.count = 0 => w.start = at /\ w.count = 1
           /\ v.count # 0 => Succeeds(w, v, f)
           /\ w.start \in {at, v.start}
           /\ at < w.start + LengthOf(f)
<1>1. LengthOf(f) \in Nat \ {0} /\ Ceiling \in Nat /\ Ceiling > 1 /\ v.start \in Nat /\ v.count \in Nat
  BY FieldsOf DEF Windows
<1>2. CASE v.count = 0 \/ v.start + LengthOf(f) <= at
  <2>1. w = [start |-> at, count |-> 1]
    BY <1>2 DEF RateLimit!Counted, RateLimit!Ended, RateLimit!Window
  <2>2. w \in Windows /\ w.start = at /\ w.count = 1
    BY <2>1 DEF Windows
  <2>3. at < w.start + LengthOf(f) /\ w.count \in 1..Ceiling
    BY <1>1, <2>2
  <2>4. v.count # 0 => BeginsAnew(w, v, f)
    BY <1>2, <2>2 DEF BeginsAnew
  <2> QED  BY <2>2, <2>3, <2>4 DEF Succeeds
<1>3. CASE ~(v.count = 0 \/ v.start + LengthOf(f) <= at)
  <2> DEFINE count == IF v.count + 1 <= Ceiling THEN v.count + 1 ELSE Ceiling
  <2>1. RateLimit!Saturated(v.count + 1) = count
    BY <1>1, Extremes DEF RateLimit!Saturated
  <2>2. w = [start |-> v.start, count |-> count]
    BY <1>3, <2>1 DEF RateLimit!Counted, RateLimit!Ended, RateLimit!Window
  <2>3. count \in 1..Ceiling
    BY <1>1
  <2>4. w \in Windows /\ w.start = v.start /\ w.count = count
    BY <1>1, <2>2, <2>3 DEF Windows
  <2>5. at < w.start + LengthOf(f)
    BY <1>1, <1>3, <2>4
  <2>6. Succeeds(w, v, f)
    BY <2>4 DEF Succeeds
  <2> QED  BY <1>3, <2>3, <2>4, <2>5, <2>6
<1> QED  BY <1>2, <1>3

LEMMA SucceedsOrders ==
    ASSUME NEW f \in Fields, NEW u \in Windows, NEW v \in Windows, NEW w \in Windows, Succeeds(w, v, f)
    PROVE  /\ CountsOn(w, v) \/ BeginsAnew(w, v, f)
           /\ CountsOn(v, u) \/ BeginsAnew(v, u, f) => CountsOn(w, u) \/ BeginsAnew(w, u, f)
<1>1. LengthOf(f) \in Nat \ {0} /\ Ceiling \in Nat
  BY FieldsOf
<1>2. /\ u.start \in Nat /\ u.count \in Nat /\ v.start \in Nat /\ v.count \in Nat /\ w.start \in Nat /\ w.count \in Nat
  BY DEF Windows
<1> QED  BY <1>1, <1>2 DEF Succeeds, CountsOn, BeginsAnew

LEMMA WithinIsAllowed ==
    ASSUME NEW c \in CounterRows
    PROVE  /\ RateLimit!Allowed(c.burst.count, c.sustained.count) <=> Within(c)
           /\ (\A f \in Fields : c[f].count \in 1..Ceiling) =>
                 (RateLimit!isTransitionToDeny(c) <=> ~Within(c) /\ \A f \in Fields : c[f].count <= LimitOf(f) + 1)
<1>1. /\ c.burst.count \in Nat /\ c.sustained.count \in Nat /\ BurstLimit \in Nat /\ SustainedLimit \in Nat
      /\ "burst" \in Fields /\ "sustained" \in Fields /\ Ceiling \in Nat
  BY LimitAssumption DEF CounterRows, Windows, Fields
<1>2. \A n : (\A f \in Fields : c[f].count <= LimitOf(f) + n) <=>
             c.burst.count <= BurstLimit + n /\ c.sustained.count <= SustainedLimit + n
  BY DEF Fields, LimitOf
<1>3. Within(c) <=> c.burst.count <= BurstLimit /\ c.sustained.count <= SustainedLimit
  BY DEF Within, Fields, LimitOf
<1>4. RateLimit!Allowed(c.burst.count, c.sustained.count) <=> Within(c)
  BY <1>3 DEF RateLimit!Allowed
<1>5. ASSUME \A f \in Fields : c[f].count \in 1..Ceiling
      PROVE  RateLimit!isTransitionToDeny(c) <=> ~Within(c) /\ \A f \in Fields : c[f].count <= LimitOf(f) + 1
  <2>1. c.burst.count \in 1..Ceiling /\ c.sustained.count \in 1..Ceiling
    BY <1>1, <1>5
  <2>2. RateLimit!Allowed(c.burst.count - 1, c.sustained.count - 1) <=>
           c.burst.count <= BurstLimit + 1 /\ c.sustained.count <= SustainedLimit + 1
    BY <1>1, <2>1 DEF RateLimit!Allowed
  <2> QED  BY <1>2, <1>4, <2>2 DEF RateLimit!isTransitionToDeny
<1> QED  BY <1>4, <1>5

\* A denied caller is told when the later of the denying windows ends.
LEMMA ResetIsAnEnd ==
    ASSUME NEW c \in CounterRows, ~Within(c)
    PROVE  /\ RateLimit!Reset(c) \in Nat
           /\ \E f \in Fields : LimitOf(f) < c[f].count /\ RateLimit!Reset(c) = c[f].start + LengthOf(f)
<1> DEFINE b == c.burst.start + BurstWindow
           s == c.sustained.start + SustainedWindow
           burst == BurstLimit < c.burst.count
           sustained == SustainedLimit < c.sustained.count
<1>1. /\ c.burst.count \in Nat /\ c.sustained.count \in Nat /\ BurstLimit \in Nat /\ SustainedLimit \in Nat
      /\ b \in Nat /\ s \in Nat
  BY LimitAssumption DEF CounterRows, Windows
<1>2. burst \/ sustained
  BY <1>1 DEF Within, Fields, LimitOf
<1>3. RateLimit!Reset(c) = RateLimit!Max((IF burst THEN {b} ELSE {}) \cup (IF sustained THEN {s} ELSE {}))
  BY <1>1 DEF RateLimit!Reset
<1>4. /\ "burst" \in Fields /\ LimitOf("burst") = BurstLimit /\ c["burst"].start + LengthOf("burst") = b
      /\ "sustained" \in Fields /\ LimitOf("sustained") = SustainedLimit
      /\ c["sustained"].start + LengthOf("sustained") = s
      /\ (burst => LimitOf("burst") < c["burst"].count) /\ (sustained => LimitOf("sustained") < c["sustained"].count)
  BY DEF Fields, LimitOf, LengthOf
<1> HIDE DEF b, s, burst, sustained
<1>5. CASE burst /\ ~sustained
  <2>1. (IF burst THEN {b} ELSE {}) \cup (IF sustained THEN {s} ELSE {}) = {b, b}
    BY <1>5
  <2>2. RateLimit!Reset(c) = b
    BY <1>1, <1>3, <2>1, Extremes
  <2> QED  BY <1>1, <1>4, <1>5, <2>2
<1>6. CASE ~burst /\ sustained
  <2>1. (IF burst THEN {b} ELSE {}) \cup (IF sustained THEN {s} ELSE {}) = {s, s}
    BY <1>6
  <2>2. RateLimit!Reset(c) = s
    BY <1>1, <1>3, <2>1, Extremes
  <2> QED  BY <1>1, <1>4, <1>6, <2>2
<1>7. CASE burst /\ sustained
  <2>1. (IF burst THEN {b} ELSE {}) \cup (IF sustained THEN {s} ELSE {}) = {b, s}
    BY <1>7
  <2>2. RateLimit!Reset(c) = b \/ RateLimit!Reset(c) = s
    BY <1>1, <1>3, <2>1, Extremes
  <2> QED  BY <1>1, <1>4, <1>7, <2>2
<1> QED  BY <1>2, <1>5, <1>6, <1>7

LEMMA AnswerTells ==
    ASSUME NEW c \in CounterRows, NEW at \in Nat, now \in Nat, \A f \in Fields : at < c[f].start + LengthOf(f)
    PROVE  LET a == RateLimit!Answer(c, at) IN
           /\ a \in Answers /\ a.counts = c /\ a.told = now
           /\ a.allowed <=> Within(c)
           /\ ~Within(c) => \E f \in Fields : LimitOf(f) < c[f].count /\ a.retry <= c[f].start + LengthOf(f)
<1> DEFINE a == RateLimit!Answer(c, at)
           Fits == /\ a \in Answers /\ a.counts = c /\ a.told = now
                   /\ a.allowed <=> Within(c)
                   /\ ~Within(c) => \E f \in Fields : LimitOf(f) < c[f].count /\ a.retry <= c[f].start + LengthOf(f)
<1> SUFFICES Fits
  OBVIOUS
<1>1. CASE Within(c)
  <2>1. RateLimit!Allowed(c.burst.count, c.sustained.count)
    BY <1>1, WithinIsAllowed
  <2>2. a = [allowed |-> TRUE, counts |-> c, told |-> now, retry |-> 0]
    BY <2>1 DEF RateLimit!Answer
  <2>3. a \in Answers /\ a.counts = c /\ a.told = now /\ a.allowed = TRUE
    BY <2>2 DEF Answers
  <2> HIDE DEF a
  <2> QED  BY <1>1, <2>3
<1>2. CASE ~Within(c)
  <2> DEFINE retry == at + RateLimit!Max({1, RateLimit!Reset(c) - at})
  <2>1. RateLimit!Allowed(c.burst.count, c.sustained.count) = FALSE
    BY <1>2, WithinIsAllowed DEF RateLimit!Allowed
  <2>2. a = [allowed |-> FALSE, counts |-> c, told |-> now, retry |-> retry]
    BY <2>1 DEF RateLimit!Answer
  <2>3. PICK f \in Fields : /\ LimitOf(f) < c[f].count /\ RateLimit!Reset(c) = c[f].start + LengthOf(f)
                            /\ RateLimit!Reset(c) \in Nat
    BY <1>2, ResetIsAnEnd
  <2>4. RateLimit!Reset(c) - at \in Nat /\ 1 <= RateLimit!Reset(c) - at
    BY <2>3
  <2>5. retry = RateLimit!Reset(c) /\ retry \in Nat
    BY <2>3, <2>4, Extremes
  <2> HIDE DEF retry
  <2>6. a \in Answers /\ a.counts = c /\ a.told = now /\ a.allowed = FALSE /\ a.retry = retry
    BY <2>2, <2>5 DEF Answers
  <2> HIDE DEF a
  <2>7. \E g \in Fields : LimitOf(g) < c[g].count /\ a.retry <= c[g].start + LengthOf(g)
    BY <2>3, <2>5, <2>6
  <2> QED  BY <1>2, <2>6, <2>7
<1> QED  BY <1>1, <1>2

LEMMA CheckStep ==
    ASSUME LimitIInv, NEW w \in Workers, RateLimit!checkRateLimit(w)
    PROVE  LimitIInv'
<1> DEFINE at == checking[w]
           c == RateLimit!upsertCounter(at)
           a == RateLimit!Answer(c, at)
<1>0. PICK last : last = Len(told) + 1
  OBVIOUS
<1>1. /\ LimitTyped /\ now \in Nat /\ told \in Seq(Answers) /\ Len(told) \in Nat /\ counter \in CounterRows
      /\ LimitAssumption
  BY LimitAssumption, LenProperties DEF LimitIInv, LimitTyped
<1>2. /\ at \in 0..now /\ at \in Nat
      /\ counter' = c /\ told' = Append(told, a) /\ UNCHANGED now
      /\ checking' = [checking EXCEPT ![w] = RateLimit!Idle]
      /\ throttled' = IF RateLimit!isTransitionToDeny(c) THEN throttled \cup {last} ELSE throttled
  BY <1>0, <1>1 DEF RateLimit!checkRateLimit, LimitTyped
<1>3. c \in CounterRows /\ \A f \in Fields : c[f] = RateLimit!Counted(counter[f], LengthOf(f), at)
  <2>1. c = [burst |-> RateLimit!Counted(counter.burst, BurstWindow, at),
             sustained |-> RateLimit!Counted(counter.sustained, SustainedWindow, at)]
    BY DEF RateLimit!upsertCounter
  <2>2. \A f \in Fields : c[f] = RateLimit!Counted(counter[f], LengthOf(f), at)
    BY <2>1 DEF Fields, LengthOf
  <2>3. \A f \in Fields : RateLimit!Counted(counter[f], LengthOf(f), at) \in Windows
    BY <1>1, <1>2, FieldsOf, CountedSucceeds
  <2>4. c.burst \in Windows /\ c.sustained \in Windows
    BY <2>2, <2>3 DEF Fields
  <2> QED  BY <2>1, <2>2, <2>4 DEF CounterRows
<1> HIDE DEF c
<1>4. ASSUME NEW f \in Fields
      PROVE  /\ c[f] \in Windows /\ c[f].start \in Nat /\ c[f].count \in 1..Ceiling /\ at < c[f].start + LengthOf(f)
             /\ counter[f].count = 0 => c[f].start = at /\ c[f].count = 1
             /\ counter[f].count # 0 => Succeeds(c[f], counter[f], f)
             /\ c[f].start \in {at, counter[f].start}
  <2>1. counter[f] \in Windows /\ at \in Nat /\ c[f] = RateLimit!Counted(counter[f], LengthOf(f), at)
    BY <1>1, <1>2, <1>3, FieldsOf
  <2>2. /\ c[f] \in Windows /\ c[f].count \in 1..Ceiling
        /\ counter[f].count = 0 => c[f].start = at /\ c[f].count = 1
        /\ counter[f].count # 0 => Succeeds(c[f], counter[f], f)
        /\ c[f].start \in {at, counter[f].start}
        /\ at < c[f].start + LengthOf(f)
    <3> HIDE DEF at
    <3> QED  BY <2>1, CountedSucceeds
  <2> QED  BY <2>2 DEF Windows
<1>5. /\ a \in Answers /\ a.counts = c /\ a.told = now
      /\ a.allowed <=> Within(c)
      /\ ~Within(c) => \E f \in Fields : LimitOf(f) < c[f].count /\ a.retry <= c[f].start + LengthOf(f)
  BY <1>1, <1>2, <1>3, <1>4, AnswerTells
<1> HIDE DEF a
<1>6. /\ told' \in Seq(Answers) /\ Len(told') = last /\ told'[last] = a
      /\ \A n \in Checked : told'[n] = told[n]
      /\ told' # <<>>
  <2>1. Append(told, a) # <<>>
    BY <1>1, <1>5, AppendProperties
  <2>2. told' # <<>>
    BY <1>2, <2>1
  <2> QED  BY <1>0, <1>1, <1>2, <1>5, <2>2, AppendProperties DEF Checked
<1>7. Checked' = Checked \cup {last} /\ last \notin Checked /\ last \in Checked'
  BY <1>0, <1>1, <1>6 DEF Checked
<1>8. LimitTyped'
  BY <1>1, <1>2, <1>3, <1>6 DEF LimitTyped
<1>9. Current'
  BY <1>2, <1>5, <1>6 DEF Current
<1>10. LimitOrdered' /\ Consecutive' /\ \A f \in Fields : c[f].start <= now
  <2>1. CASE told = <<>>
    <3>1. counter = RateLimit!NoCounter /\ Checked = {} /\ last = 1
      <4>1. Len(<<>>) = 0
        OBVIOUS
      <4> QED  BY <1>0, <2>1, <4>1 DEF LimitIInv, Current, Checked
    <3>2. \A f \in Fields : counter[f].count = 0
      BY <3>1 DEF RateLimit!NoCounter, RateLimit!Window, Fields
    <3>5. told'[last].counts = c /\ \A f \in Fields : c[f].count = 1
      BY <1>4, <1>5, <1>6, <3>2
    <3>3. LimitOrdered' /\ Consecutive'
      BY <1>7, <3>1, <3>5 DEF LimitOrdered, Consecutive
    <3>4. \A f \in Fields : c[f].start <= now
      BY <1>2, <1>4, <3>2
    <3> QED  BY <3>3, <3>4
  <2>2. CASE told # <<>>
    <3>1. Len(told) \in Checked /\ counter = told[Len(told)].counts
      <4>1. Len(told) # 0
        BY <1>1, <2>2, EmptySeq
      <4> QED  BY <1>1, <2>2, <4>1 DEF LimitIInv, Current, Checked
    <3>2. \A f \in Fields : counter[f].count # 0 /\ counter[f].start <= now
      <4>1. ASSUME NEW f \in Fields
            PROVE  counter[f].count # 0 /\ counter[f].start <= now
        <5>1. /\ counter \in CounterRows /\ told[Len(told)].told \in Nat /\ told[Len(told)].told <= now
              /\ counter[f].count \in 1..Ceiling /\ counter[f].start <= told[Len(told)].told
          BY <3>1 DEF LimitIInv, LimitTells
        <5>2. counter[f].start \in Nat /\ Ceiling \in Nat
          BY <1>1, FieldsOf
        <5> QED  BY <1>1, <5>1, <5>2
      <4> QED  BY <4>1
    <3>3. \A f \in Fields : Succeeds(c[f], counter[f], f)
      BY <1>4, <3>2
    <3>4. LimitOrdered'
      <4>1. ASSUME NEW m \in Checked, NEW f \in Fields
            PROVE  CountsOn(c[f], told[m].counts[f]) \/ BeginsAnew(c[f], told[m].counts[f], f)
        <5>1. told[m].counts[f] \in Windows /\ counter[f] \in Windows /\ c[f] \in Windows
          BY <1>1, <1>4, FieldsOf DEF LimitIInv, LimitTells
        <5>2. CASE m = Len(told)
          BY <3>1, <3>3, <5>1, <5>2, SucceedsOrders
        <5>3. CASE m # Len(told)
          <6>1. m < Len(told)
            BY <1>1, <5>3 DEF Checked
          <6>2. CountsOn(counter[f], told[m].counts[f]) \/ BeginsAnew(counter[f], told[m].counts[f], f)
            BY <3>1, <6>1 DEF LimitIInv, LimitOrdered
          <6> QED  BY <3>3, <5>1, <6>2, SucceedsOrders
        <5> QED  BY <5>2, <5>3
      <4>2. ASSUME NEW m \in Checked', NEW n \in Checked', m < n, NEW f \in Fields
            PROVE  CountsOn(told'[n].counts[f], told'[m].counts[f]) \/ BeginsAnew(told'[n].counts[f], told'[m].counts[f], f)
        <5>1. m \in Checked
          BY <1>1, <1>6, <1>7, <4>2 DEF Checked
        <5>2. CASE n = last
          BY <1>5, <1>6, <4>1, <5>1, <5>2
        <5>3. CASE n # last
          <6>1. n \in Checked
            BY <1>7, <5>3
          <6> QED  BY <1>6, <4>2, <5>1, <6>1 DEF LimitIInv, LimitOrdered
        <5> QED  BY <5>2, <5>3
      <4> QED  BY <4>2 DEF LimitOrdered, CountsOn, BeginsAnew
    <3>5. Consecutive'
      <4>0. \A n \in Checked' : n = 1 => n \in Checked
        BY <1>0, <1>1, <1>7, <3>1 DEF Checked
      <4>2. \A n \in Checked' : n = 1 => \A f \in Fields : told'[n].counts[f].count = 1
        BY <1>6, <4>0 DEF LimitIInv, Consecutive
      <4>1. ASSUME NEW n \in Checked', n > 1, NEW f \in Fields
            PROVE  Succeeds(told'[n].counts[f], told'[n - 1].counts[f], f)
        <5>1. CASE n = last
          <6>1. n - 1 = Len(told)
            BY <1>0, <1>1, <5>1
          <6> QED  BY <1>5, <1>6, <3>1, <3>3, <5>1, <6>1
        <5>2. CASE n # last
          <6>1. n \in Checked /\ n - 1 \in Checked
            BY <1>1, <1>7, <4>1, <5>2 DEF Checked
          <6> QED  BY <1>6, <4>1, <6>1 DEF LimitIInv, Consecutive
        <5> QED  BY <5>1, <5>2
      <4> QED  BY <4>1, <4>2 DEF Consecutive, Succeeds, BeginsAnew
    <3>6. \A f \in Fields : c[f].start <= now
      BY <1>2, <1>4, <3>2
    <3> QED  BY <3>4, <3>5, <3>6
  <2> QED  BY <2>1, <2>2
<1>12. \A n \in Checked' : LimitTells(n)'
  <2>1. ASSUME NEW n \in Checked
        PROVE  LimitTells(n)'
    BY <1>2, <1>6 DEF LimitIInv, LimitTells, Within
  <2>2. LimitTells(last)'
    <3>1. \A f \in Fields : c[f].count \in 1..Ceiling /\ c[f].start <= now
      BY <1>4, <1>10
    <3>2. told'[last].counts = c /\ told'[last].told = now
      BY <1>5, <1>6
    <3>3. told'[last].allowed <=> Within(c)
      BY <1>5, <1>6
    <3>4. ~Within(c) => \E f \in Fields : LimitOf(f) < c[f].count /\ told'[last].retry <= c[f].start + LengthOf(f)
      BY <1>5, <1>6
    <3> QED  BY <1>1, <1>2, <1>3, <1>6, <3>1, <3>2, <3>3, <3>4 DEF LimitTells, Within
  <2> QED  BY <1>7, <2>1, <2>2
<1>13. throttled' = {n \in Checked' : Transits(n)'}
  <2>1. RateLimit!isTransitionToDeny(c) <=> Transits(last)'
    <3>1. RateLimit!isTransitionToDeny(c) <=> ~Within(c) /\ \A f \in Fields : c[f].count <= LimitOf(f) + 1
      BY <1>3, <1>4, WithinIsAllowed
    <3>2. told'[last].counts = c
      BY <1>5, <1>6
    <3> QED  BY <1>6, <3>1, <3>2 DEF Transits, Within
  <2>2. \A n \in Checked : Transits(n)' <=> Transits(n)
    BY <1>6 DEF Transits, Within
  <2>3. throttled = {n \in Checked : Transits(n)}
    BY DEF LimitIInv
  <2> QED  BY <1>2, <1>7, <2>1, <2>2, <2>3
<1> QED  BY <1>8, <1>9, <1>10, <1>12, <1>13 DEF LimitIInv

LEMMA LimitBegins == RateLimit!Init => LimitIInv
<1> SUFFICES ASSUME RateLimit!Init PROVE LimitIInv
  OBVIOUS
<1>1. Len(<<>>) = 0 /\ <<>> \in Seq(Answers)
  OBVIOUS
<1>2. RateLimit!NoCounter \in CounterRows
  BY DEF RateLimit!NoCounter, RateLimit!Window, CounterRows, Windows
<1>3. LimitTyped /\ Current
  BY <1>1, <1>2, LimitAssumption DEF RateLimit!Init, LimitTyped, Current
<1>4. Checked = {} /\ throttled = {}
  BY <1>1 DEF RateLimit!Init, Checked
<1> QED  BY <1>3, <1>4 DEF LimitIInv, LimitOrdered, Consecutive

LEMMA LimitStep == LimitIInv /\ [RateLimit!Next]_RateLimit!vars => LimitIInv'
<1> SUFFICES ASSUME LimitIInv, [RateLimit!Next]_RateLimit!vars PROVE LimitIInv'
  OBVIOUS
<1>1. CASE \E w \in Workers : RateLimit!checkRateLimit(w)
  BY <1>1, CheckStep
<1>2. CASE ~\E w \in Workers : RateLimit!checkRateLimit(w)
  <2>1. UNCHANGED <<counter, told, throttled>> /\ now \in Nat /\ now' \in 0..MaxTime /\ now <= now'
    <3>1. now \in 0..MaxTime /\ MaxTime \in Nat
      BY LimitAssumption DEF LimitIInv, LimitTyped
    <3>2. CASE UNCHANGED RateLimit!vars
      BY <3>1, <3>2 DEF RateLimit!vars
    <3>3. CASE RateLimit!Next
      BY <1>2, <3>1, <3>3 DEF RateLimit!Next, RateLimit!Begin, RateLimit!Unavailable, RateLimit!Tick
    <3> QED  BY <3>2, <3>3
  <2>2. \A w \in Workers : checking'[w] \in 0..now' \cup {RateLimit!Idle}
    <3>1. checking \in [Workers -> 0..MaxTime \cup {RateLimit!Idle}] /\ \A w \in Workers : checking[w] \in 0..now \cup {RateLimit!Idle}
      BY DEF LimitIInv, LimitTyped
    <3>2. \/ UNCHANGED checking
          \/ \E w \in Workers : checking' = [checking EXCEPT ![w] = now] \/ checking' = [checking EXCEPT ![w] = RateLimit!Idle]
      BY <1>2 DEF RateLimit!Next, RateLimit!Begin, RateLimit!Unavailable, RateLimit!Tick, RateLimit!vars
    <3> QED  BY <2>1, <3>1, <3>2
  <2>3. checking' \in [Workers -> 0..MaxTime \cup {RateLimit!Idle}]
    <3>1. checking \in [Workers -> 0..MaxTime \cup {RateLimit!Idle}] /\ now \in 0..MaxTime
      BY DEF LimitIInv, LimitTyped
    <3>2. \/ UNCHANGED checking
          \/ \E w \in Workers : checking' = [checking EXCEPT ![w] = now] \/ checking' = [checking EXCEPT ![w] = RateLimit!Idle]
      BY <1>2 DEF RateLimit!Next, RateLimit!Begin, RateLimit!Unavailable, RateLimit!Tick, RateLimit!vars
    <3> QED  BY <3>1, <3>2
  <2>4. LimitTyped' /\ Current' /\ LimitOrdered' /\ Consecutive'
    <3>1. LimitTyped'
      BY <2>1, <2>2, <2>3 DEF LimitIInv, LimitTyped
    <3>2. Current'
      BY <2>1 DEF LimitIInv, Current
    <3>3. Checked' = Checked
      BY <2>1 DEF Checked
    <3>4. LimitOrdered'
      BY <2>1, <3>3 DEF LimitIInv, LimitOrdered
    <3>5. Consecutive'
      BY <2>1, <3>3 DEF LimitIInv, Consecutive
    <3> QED  BY <3>1, <3>2, <3>4, <3>5
  <2>5. \A n \in Checked' : LimitTells(n)'
    <3>1. ASSUME NEW n \in Checked
          PROVE  LimitTells(n)'
      BY <2>1 DEF LimitIInv, LimitTyped, LimitTells, Within
    <3> QED  BY <2>1, <3>1 DEF Checked
  <2>6. throttled' = {n \in Checked' : Transits(n)'}
    BY <2>1 DEF LimitIInv, Transits, Within, Checked
  <2> QED  BY <2>4, <2>5, <2>6 DEF LimitIInv
<1> QED  BY <1>1, <1>2

\* The checks a window admits have different counts, none above the limit.
LEMMA AdmitsWithin ==
    ASSUME LimitIInv, NEW f \in Fields, NEW start
    PROVE  RateLimit!AllowedSince(f, start) <= LimitOf(f)
<1> DEFINE S == {n \in Checked : told[n].allowed /\ told[n].counts[f].start = start}
           count == [n \in S |-> told[n].counts[f].count]
<1>1. LimitOf(f) \in Nat /\ LimitOf(f) < Ceiling /\ Ceiling \in Nat
  BY FieldsOf
<1>2. ASSUME NEW n \in S
      PROVE  count[n] = told[n].counts[f].count /\ count[n] \in 1..LimitOf(f)
  <2>1. LimitTells(n)
    BY DEF LimitIInv
  <2>2. told[n].counts[f].count \in 1..Ceiling /\ told[n].counts[f].count <= LimitOf(f)
    BY <2>1 DEF LimitTells, Within
  <2> QED  BY <1>1, <2>2
<1>3. ASSUME NEW m \in S, NEW n \in S, m < n
      PROVE  count[m] # count[n]
  <2>1. told[m].counts[f].start \in Nat /\ LengthOf(f) \in Nat \ {0}
    BY FieldsOf DEF LimitIInv, LimitTells
  <2>2. CountsOn(told[n].counts[f], told[m].counts[f])
    <3>1. ~BeginsAnew(told[n].counts[f], told[m].counts[f], f)
      BY <2>1 DEF BeginsAnew
    <3> QED  BY <1>3, <3>1 DEF LimitIInv, LimitOrdered
  <2>3. /\ count[m] = told[m].counts[f].count /\ count[n] = told[n].counts[f].count
        /\ count[m] \in 1..LimitOf(f) /\ count[n] \in 1..LimitOf(f)
    BY <1>2
  <2> HIDE DEF S, count
  <2>4. count[m] < count[n] \/ count[n] = Ceiling
    BY <2>2, <2>3 DEF CountsOn
  <2> QED  BY <1>1, <2>3, <2>4
<1>4. \A m, n \in S : m # n => count[m] # count[n]
  <2>1. \A m, n \in S : m # n => m < n \/ n < m
    BY LenProperties DEF LimitIInv, LimitTyped, Checked
  <2> HIDE DEF S, count
  <2> QED  BY <1>3, <2>1
<1>5. count \in Injection(S, 1..LimitOf(f))
  <2>1. count \in [S -> 1..LimitOf(f)]
    BY <1>2
  <2>2. \A m, n \in S : count[m] = count[n] => m = n
    BY <1>4
  <2> HIDE DEF S, count
  <2> QED  BY <2>1, <2>2 DEF Injection, IsInjective
<1>6. Cardinality(S) <= LimitOf(f)
  <2>1. IsFiniteSet(1..LimitOf(f)) /\ Cardinality(1..LimitOf(f)) = LimitOf(f)
    BY <1>1, FS_Interval
  <2> HIDE DEF S, count
  <2> QED  BY <1>5, <2>1, FS_Injection
<1>7. RateLimit!AllowedSince(f, start) = RateLimit!Cardinality(S)
  BY DEF RateLimit!AllowedSince, RateLimit!Checks, Checked
<1>8. RateLimit!Cardinality(S) = Cardinality(S)
  BY DEF Cardinality, IsFiniteSet, RateLimit!Cardinality, RateLimit!IsFiniteSet
<1> QED  BY <1>6, <1>7, <1>8

LEMMA LimitSound ==
    LimitIInv => RateLimit!TypeOK /\ RateLimit!WithinLimits /\ RateLimit!RetryIsTrue /\ RateLimit!DenialsLogged
<1> SUFFICES ASSUME LimitIInv
             PROVE  RateLimit!TypeOK /\ RateLimit!WithinLimits /\ RateLimit!RetryIsTrue /\ RateLimit!DenialsLogged
  OBVIOUS
<1>1. Len(told) \in Nat /\ LimitTyped /\ RateLimit!Checks = Checked /\ "burst" \in Fields /\ "sustained" \in Fields
  BY LenProperties DEF LimitIInv, LimitTyped, RateLimit!Checks, Checked, Fields
<1>2. RateLimit!TypeOK
  <2>1. \A f \in Fields : counter[f].count \in 0..Ceiling /\ counter[f].start <= now
    <3>1. CASE told = <<>>
      BY <1>1, <3>1, LimitAssumption DEF LimitIInv, LimitTyped, Current, Fields, RateLimit!NoCounter, RateLimit!Window
    <3>2. CASE told # <<>>
      <4>1. Len(told) \in Checked /\ counter = told[Len(told)].counts
        <5>1. Len(told) # 0
          BY <3>2, EmptySeq DEF LimitIInv, LimitTyped
        <5> QED  BY <1>1, <3>2, <5>1 DEF LimitIInv, Current, Checked
      <4>2. ASSUME NEW f \in Fields
            PROVE  counter[f].count \in 0..Ceiling /\ counter[f].start <= now
        <5>1. /\ counter \in CounterRows /\ told[Len(told)].told \in Nat /\ told[Len(told)].told <= now
              /\ counter[f].count \in 1..Ceiling /\ counter[f].start <= told[Len(told)].told
          BY <4>1 DEF LimitIInv, LimitTells
        <5>2. counter[f].start \in Nat /\ Ceiling \in Nat /\ now \in Nat
          BY <1>1, FieldsOf DEF LimitTyped
        <5> QED  BY <5>1, <5>2
      <4> QED  BY <4>2
    <3> QED  BY <3>1, <3>2
  <2> QED  BY <1>1, <2>1 DEF RateLimit!TypeOK, LimitIInv
<1>3. RateLimit!WithinLimits
  <2>1. BurstLimit = LimitOf("burst") /\ SustainedLimit = LimitOf("sustained")
    BY DEF LimitOf
  <2> QED  BY <1>1, <2>1, AdmitsWithin DEF RateLimit!WithinLimits
<1>4. RateLimit!RetryIsTrue
  <2>1. ASSUME NEW n \in Checked, NEW m \in (n + 1)..Len(told), ~told[n].allowed, told[m].told < told[n].retry, told[m].allowed
        PROVE  FALSE
    <3>1. m \in Checked /\ n < m /\ LimitTells(n) /\ LimitTells(m)
      BY <1>1, <2>1 DEF Checked, LimitIInv
    <3>2. PICK f \in Fields : LimitOf(f) < told[n].counts[f].count /\ told[n].retry <= told[n].counts[f].start + LengthOf(f)
      BY <2>1, <3>1 DEF LimitTells
    <3>3. told[m].counts[f].count <= LimitOf(f)
      BY <2>1, <3>1 DEF LimitTells, Within
    <3>4. /\ told[n].counts[f].count \in Nat /\ told[m].counts[f].count \in Nat
          /\ LimitOf(f) \in Nat /\ LimitOf(f) < Ceiling /\ Ceiling \in Nat /\ LengthOf(f) \in Nat
          /\ told[n].counts[f].start \in Nat /\ told[m].counts[f].start \in Nat
      <4>1. told[n].counts \in CounterRows /\ told[m].counts \in CounterRows
        BY <3>1 DEF LimitTells
      <4>2. LengthOf(f) \in Nat /\ LimitOf(f) \in Nat /\ LimitOf(f) < Ceiling /\ Ceiling \in Nat
        BY FieldsOf
      <4> QED  BY <4>1, <4>2, FieldsOf
    <3>5. BeginsAnew(told[m].counts[f], told[n].counts[f], f)
      <4>1. ~CountsOn(told[m].counts[f], told[n].counts[f])
        BY <3>2, <3>3, <3>4, SMTT(30) DEF CountsOn
      <4> QED  BY <3>1, <4>1 DEF LimitIInv, LimitOrdered
    <3>6. told[m].counts[f].start <= told[m].told /\ told[m].told \in Nat
      BY <3>1 DEF LimitTells
    <3>7. told[n].retry \in Nat
      <4>1. told[n] \in Answers
        BY <1>1, ElementOfSeq DEF LimitTyped, Checked
      <4> QED  BY <4>1 DEF Answers
    <3>8. told[n].counts[f].start + LengthOf(f) <= told[m].counts[f].start
      BY <3>5 DEF BeginsAnew
    <3>9. told[n].retry <= told[m].told
      <4>1. \A a, b, c, d \in Nat : a <= b /\ b <= c /\ c <= d => a <= d
        OBVIOUS
      <4>2. told[n].counts[f].start + LengthOf(f) \in Nat
        <5>1. told[n].counts[f].start \in Nat /\ LengthOf(f) \in Nat
          BY <3>4
        <5>2. \A a, b \in Nat : a + b \in Nat
          OBVIOUS
        <5> QED  BY <5>1, <5>2
      <4>3. told[n].retry <= told[n].counts[f].start + LengthOf(f)
        BY <3>2
      <4> QED  BY <3>4, <3>6, <3>7, <3>8, <4>1, <4>2, <4>3
    <3> QED  BY <2>1, <3>6, <3>7, <3>9
  <2> QED  BY <1>1, <2>1 DEF RateLimit!RetryIsTrue
<1>5. RateLimit!DenialsLogged
  <2>1. ASSUME NEW n \in Checked
        PROVE  /\ LimitTells(n) /\ (n \in throttled <=> Transits(n))
               /\ \A f \in Fields : told[n].counts[f].count \in 1..Ceiling
    BY DEF LimitIInv, LimitTells
  <2>2. ASSUME NEW n \in Checked, ~told[n].allowed, n = 1 \/ told[n - 1].allowed
        PROVE  n \in throttled
    <3>1. ~Within(told[n].counts)
      BY <2>1, <2>2 DEF LimitTells
    <3>2. ASSUME NEW f \in Fields
          PROVE  told[n].counts[f].count <= LimitOf(f) + 1
      <4>1. LimitOf(f) \in Nat \ {0} /\ LimitOf(f) + 1 < Ceiling /\ Ceiling \in Nat
        BY FieldsOf
      <4>2. CASE n = 1
        BY <4>1, <4>2 DEF LimitIInv, Consecutive
      <4>3. CASE n # 1
        <5>1. n - 1 \in Checked /\ n > 1
          BY <1>1, <4>3 DEF Checked
        <5>2. told[n - 1].counts[f].count <= LimitOf(f) /\ told[n - 1].counts[f].count \in 1..Ceiling
          BY <2>1, <2>2, <4>3, <5>1 DEF LimitTells, Within
        <5>3. Succeeds(told[n].counts[f], told[n - 1].counts[f], f)
          BY <5>1 DEF LimitIInv, Consecutive
        <5> QED  BY <4>1, <5>2, <5>3 DEF Succeeds
      <4> QED  BY <4>2, <4>3
    <3> QED  BY <2>1, <3>1, <3>2 DEF Transits
  <2>3. ASSUME NEW n \in throttled
        PROVE  ~told[n].allowed /\ (n > 1 => told[n - 1].allowed \/ RateLimit!RolledOver(n))
    <3>1. n \in Checked /\ Transits(n)
      BY <2>3 DEF LimitIInv
    <3>2. ~told[n].allowed
      BY <2>1, <3>1 DEF Transits, LimitTells
    <3>3. ASSUME n > 1, ~RateLimit!RolledOver(n)
          PROVE  told[n - 1].allowed
      <4>1. n - 1 \in Checked
        BY <1>1, <3>1, <3>3 DEF Checked
      <4>2. ASSUME NEW f \in Fields
            PROVE  told[n - 1].counts[f].count <= LimitOf(f)
        <5>1. told[n].counts[f].start = told[n - 1].counts[f].start
          BY <3>3 DEF RateLimit!RolledOver, Fields
        <5>2. /\ told[n - 1].counts[f].start \in Nat /\ LengthOf(f) \in Nat \ {0} /\ LimitOf(f) \in Nat
              /\ LimitOf(f) + 1 < Ceiling /\ Ceiling \in Nat
          BY <2>1, <4>1, FieldsOf DEF LimitTells
        <5>3. Succeeds(told[n].counts[f], told[n - 1].counts[f], f)
          BY <3>1, <3>3 DEF LimitIInv, Consecutive
        <5>4. told[n].counts[f].count <= LimitOf(f) + 1 /\ told[n - 1].counts[f].count \in 1..Ceiling
          BY <2>1, <3>1, <4>1 DEF Transits
        <5> QED  BY <5>1, <5>2, <5>3, <5>4 DEF Succeeds, BeginsAnew
      <4> QED  BY <2>1, <4>1, <4>2 DEF LimitTells, Within
    <3> QED  BY <3>2, <3>3
  <2>4. throttled \subseteq Checked
    BY DEF LimitIInv
  <2> QED  BY <1>1, <2>2, <2>3, <2>4 DEF RateLimit!DenialsLogged
<1> QED  BY <1>2, <1>3, <1>4, <1>5

-----------------------------------------------------------------------------
(* The jobs.  A key's record and its audit row are written together, once, *)
(* and what the tables hold is what the rows of a job say in their order.  *)

JobEvents == [key : {None}, body : Nat] \cup [key : Keys, body : Jobs!Bodies]
JobMade == [at : {"new", "inserted"}, key : Keys, body : Jobs!Bodies]
JobKept == [owner : Payloads \ Unowned, settings : Payloads \ Unowned, missed_run_detection : BOOLEAN]
JobDone(k, b) == record[<<k, b.kind>>] = [fingerprint |-> b, result |-> b.job]

JobsTyped ==
    /\ outbox \in Seq(JobEvents) /\ smoke \in Seq(Jobs!SmokeStatuses)
    /\ record \in [Keys \X Jobs!Kinds -> {Jobs!NoRecord} \cup [fingerprint : Jobs!Bodies, result : JobCodes]]
    /\ message \in [JobCodes -> Payloads \cup {None}]
    /\ scheduled \in [JobCodes -> JobKept \cup {Jobs!NoJob}]
    /\ jobWork \in [Workers -> JobMade \cup {Jobs!Idle}]
\* Whoever has a key open is the only one to, and has it unanswered.
KeysHeld ==
    /\ \A w \in Workers : jobWork[w] # Jobs!Idle =>
          /\ record[<<jobWork[w].key, jobWork[w].body.kind>>] = Jobs!NoRecord
          /\ jobWork[w].at = "inserted" /\ jobWork[w].body.kind = "register" => jobWork[w].body.payload \notin Unowned
    /\ \A v, w \in Workers :
          /\ jobWork[v] # Jobs!Idle /\ jobWork[w] # Jobs!Idle
          /\ jobWork[v].key = jobWork[w].key /\ jobWork[v].body.kind = jobWork[w].body.kind
          => v = w
AuditedOnce ==
    \A k \in Keys, kind \in Jobs!Kinds :
        IF record[<<k, kind>>] = Jobs!NoRecord THEN Jobs!Audited(k, kind) = {}
        ELSE \E n \in Nat : Jobs!Audited(k, kind) = {n}
ToldTheSame ==
    /\ \A s \in Keys \X Jobs!Kinds : record[s] # Jobs!NoRecord =>
          record[s] = [fingerprint |-> record[s].fingerprint, result |-> record[s].fingerprint.job]
    /\ \A a \in answers :
        /\ a.key \in Keys /\ a.body \in Jobs!Bodies
        /\ a = [key |-> a.key, body |-> a.body, result |-> a.body.job] /\ JobDone(a.key, a.body)
JobsIInv ==
    /\ JobsTyped /\ KeysHeld /\ AuditedOnce /\ ToldTheSame
    /\ Jobs!OutboxTells
    /\ \A j \in JobCodes :
          scheduled[j] # Jobs!NoJob => (scheduled[j].missed_run_detection <=> scheduled[j].settings \in Critical)

LEMMA JobsDiffer ==
    /\ \A b \in Jobs!Bodies : b.kind \in Jobs!Kinds /\ b.job \in JobCodes /\ b.payload \in Payloads /\ b # None
    /\ \A m \in JobMade : /\ m.at \in {"new", "inserted"} /\ m.key \in Keys /\ m.body \in Jobs!Bodies
                       /\ m # Jobs!Idle /\ m.key # None
    /\ Jobs!Idle.at = "idle"
    /\ \A e \in JobKept : e # Jobs!NoJob /\ e.owner \in Payloads /\ e.settings \in Payloads \ Unowned
    /\ \A r \in [fingerprint : Jobs!Bodies, result : JobCodes] :
          r # Jobs!NoRecord /\ r.fingerprint \in Jobs!Bodies
    /\ Jobs!NoJob.settings = None /\ Jobs!NoJob.owner = None
<1>1. \A b \in Jobs!Bodies : b.kind \in Jobs!Kinds /\ b.job \in JobCodes /\ b.payload \in Payloads /\ b # None
  BY JobsAssumption DEF Jobs!Bodies, Jobs!Kinds
<1>2. \A m \in JobMade : m.at \in {"new", "inserted"} /\ m.key \in Keys /\ m.body \in Jobs!Bodies
  BY DEF JobMade
<1>3. Jobs!Idle.at = "idle"
  BY DEF Jobs!Idle
<1>4. \A m \in JobMade : m # Jobs!Idle
  BY <1>2, <1>3
<1>5. \A k \in Keys : k # None
  BY JobsAssumption
<1>6. Jobs!NoJob.settings = None /\ Jobs!NoJob.owner = None
  BY DEF Jobs!NoJob
<1>7. \A e \in JobKept : e.owner \in Payloads /\ e.settings \in Payloads \ Unowned
  BY DEF JobKept
<1>8. \A e \in JobKept : e # Jobs!NoJob
  BY <1>6, <1>7, JobsAssumption
<1>9. \A r \in [fingerprint : Jobs!Bodies, result : JobCodes] : r.fingerprint \in Jobs!Bodies
  OBVIOUS
<1>10. Jobs!NoRecord.fingerprint = None
  BY DEF Jobs!NoRecord
<1>11. \A r \in [fingerprint : Jobs!Bodies, result : JobCodes] : r # Jobs!NoRecord
  BY <1>1, <1>9, <1>10
<1> QED  BY <1>1, <1>2, <1>3, <1>4, <1>5, <1>6, <1>7, <1>8, <1>9, <1>11

\* What one more event changes of what the events say.
LEMMA JobRowStep ==
    ASSUME outbox \in Seq(JobEvents), NEW e \in JobEvents, outbox' = Append(outbox, e),
           NEW last, last = Len(outbox) + 1
    PROVE  /\ outbox' \in Seq(JobEvents) /\ last \in Nat
           /\ \A k, kind : Jobs!Audited(k, kind)' =
                 Jobs!Audited(k, kind) \cup (IF e.key = k /\ e.body.kind = kind THEN {last} ELSE {})
           /\ \A kind, j : Jobs!Carried(kind, j)' =
                 Jobs!Carried(kind, j) \cup (IF e.key # None /\ e.body.kind = kind /\ e.body.job = j THEN {last} ELSE {})
           /\ \A kind, j : \A n \in Jobs!Carried(kind, j) : n \in Nat /\ n < last /\ Jobs!Payload(n)' = Jobs!Payload(n)
           /\ \A n : n = last => Jobs!Payload(n)' = e.body.payload
<1>1. /\ outbox' \in Seq(JobEvents) /\ Len(outbox') = last /\ outbox'[last] = e /\ Len(outbox) \in Nat /\ last \in Nat
      /\ \A n \in 1..Len(outbox) : outbox'[n] = outbox[n]
  BY AppendProperties, LenProperties
<1>2. 1..Len(outbox') = 1..Len(outbox) \cup {last} /\ last \notin 1..Len(outbox) /\ \A n \in 1..Len(outbox) : n < last
  BY <1>1
<1>3. ASSUME NEW k, NEW kind
      PROVE  Jobs!Audited(k, kind)' =
                 Jobs!Audited(k, kind) \cup (IF e.key = k /\ e.body.kind = kind THEN {last} ELSE {})
  BY <1>1, <1>2 DEF Jobs!Audited
<1>4. ASSUME NEW kind, NEW j
      PROVE  Jobs!Carried(kind, j)' =
                 Jobs!Carried(kind, j) \cup (IF e.key # None /\ e.body.kind = kind /\ e.body.job = j THEN {last} ELSE {})
  BY <1>1, <1>2 DEF Jobs!Carried
<1>5. ASSUME NEW kind, NEW j, NEW n \in Jobs!Carried(kind, j)
      PROVE  n \in Nat /\ n < last /\ Jobs!Payload(n)' = Jobs!Payload(n)
  <2>1. n \in 1..Len(outbox)
    BY DEF Jobs!Carried
  <2> QED  BY <1>1, <1>2, <2>1 DEF Jobs!Payload
<1>6. \A n : n = last => Jobs!Payload(n)' = e.body.payload
  BY <1>1 DEF Jobs!Payload
<1> QED  BY <1>1, <1>3, <1>4, <1>5, <1>6

LEMMA FirstAndLast ==
    ASSUME NEW S \in SUBSET Nat, NEW n \in Nat, \A i \in S : i < n
    PROVE  /\ Jobs!First(S \cup {n}) = (IF S = {} THEN {n} ELSE Jobs!First(S))
           /\ Jobs!Last(S \cup {n}) = {n}
<1>0. \A i \in S : i \in Nat /\ i < n /\ i <= n /\ ~(n <= i)
  OBVIOUS
<1>1. Jobs!Last(S \cup {n}) = {n}
  <2>1. n \in Jobs!Last(S \cup {n})
    BY <1>0 DEF Jobs!Last
  <2>2. \A i \in Jobs!Last(S \cup {n}) : i = n
    BY <1>0 DEF Jobs!Last
  <2> QED  BY <2>1, <2>2
<1>2. CASE S = {}
  <2>1. n <= n
    OBVIOUS
  <2>2. Jobs!First({n}) = {n}
    BY <2>1 DEF Jobs!First
  <2> QED  BY <1>1, <1>2, <2>2
<1>3. CASE S # {}
  <2>1. ASSUME NEW i \in Jobs!First(S \cup {n})
        PROVE  i \in Jobs!First(S)
    <3>1. i \in S \cup {n} /\ \A j \in S : i <= j
      BY DEF Jobs!First
    <3>2. i # n
      BY <1>0, <1>3, <3>1
    <3> QED  BY <3>1, <3>2 DEF Jobs!First
  <2>2. ASSUME NEW i \in Jobs!First(S)
        PROVE  i \in Jobs!First(S \cup {n})
    BY <1>0 DEF Jobs!First
  <2>3. Jobs!First(S \cup {n}) = Jobs!First(S)
    BY <2>1, <2>2
  <2> QED  BY <1>1, <1>3, <2>3
<1> QED  BY <1>2, <1>3

\* Nobody's answer, row or audit changes by steps that only open a key, or give it up.
LEMMA WorkStep ==
    ASSUME JobsIInv, UNCHANGED <<record, message, scheduled, outbox, answers>>, smoke' \in Seq(Jobs!SmokeStatuses),
           jobWork' \in [Workers -> JobMade \cup {Jobs!Idle}], KeysHeld'
    PROVE  JobsIInv'
<1>1. JobsTyped'
  BY DEF JobsIInv, JobsTyped
<1>2. AuditedOnce' /\ ToldTheSame'
  BY DEF JobsIInv, AuditedOnce, ToldTheSame, JobDone, Jobs!Audited
<1>3. Jobs!OutboxTells'
  <2>1. \A kind, j : Jobs!Carried(kind, j)' = Jobs!Carried(kind, j)
    BY DEF Jobs!Carried
  <2>2. \A n : Jobs!Payload(n)' = Jobs!Payload(n)
    BY DEF Jobs!Payload
  <2> QED  BY <2>1, <2>2 DEF JobsIInv, Jobs!OutboxTells
<1> QED  BY <1>1, <1>2, <1>3 DEF JobsIInv

LEMMA BeginJobStep ==
    ASSUME JobsIInv, NEW w \in Workers, NEW k \in Keys, NEW b \in Jobs!Bodies, Jobs!beginIdempotent(w, k, b)
    PROVE  JobsIInv'
<1> DEFINE made == [at |-> "new", key |-> k, body |-> b]
<1>1. /\ jobWork \in [Workers -> JobMade \cup {Jobs!Idle}] /\ KeysHeld /\ smoke \in Seq(Jobs!SmokeStatuses)
      /\ Jobs!Idle.at = "idle"
  BY JobsDiffer DEF JobsIInv, JobsTyped
<1>2. /\ record[<<k, b.kind>>] = Jobs!NoRecord /\ jobWork' = [jobWork EXCEPT ![w] = made]
      /\ \A v \in Jobs!Holding({"new", "inserted"}) : jobWork[v].key # k \/ jobWork[v].body.kind # b.kind
      /\ UNCHANGED <<record, message, scheduled, outbox, smoke, answers>>
  BY DEF Jobs!beginIdempotent, Jobs!KeyFree, Jobs!Known
<1>3. /\ made \in JobMade /\ made.at = "new" /\ made.key = k /\ made.body = b
  BY DEF JobMade
<1> HIDE DEF made
<1>4. jobWork' \in [Workers -> JobMade \cup {Jobs!Idle}] /\ jobWork'[w] = made /\ \A v \in Workers : v # w => jobWork'[v] = jobWork[v]
  BY <1>1, <1>2, <1>3
<1>5. \A v \in Workers : jobWork[v] # Jobs!Idle => jobWork[v].key # k \/ jobWork[v].body.kind # b.kind
  <2>1. \A v \in Workers : jobWork[v] # Jobs!Idle => v \in Jobs!Holding({"new", "inserted"})
    BY <1>1, JobsDiffer DEF Jobs!Holding, Jobs!Now
  <2> QED  BY <1>2, <2>1
<1>6. KeysHeld'
  <2>1. ASSUME NEW v \in Workers, jobWork'[v] # Jobs!Idle
        PROVE  /\ record'[<<jobWork'[v].key, jobWork'[v].body.kind>>] = Jobs!NoRecord
               /\ jobWork'[v].at = "inserted" /\ jobWork'[v].body.kind = "register" => jobWork'[v].body.payload \notin Unowned
    BY <1>1, <1>2, <1>3, <1>4, <2>1 DEF KeysHeld
  <2>2. ASSUME NEW u \in Workers, NEW v \in Workers, jobWork'[u] # Jobs!Idle, jobWork'[v] # Jobs!Idle,
               jobWork'[u].key = jobWork'[v].key, jobWork'[u].body.kind = jobWork'[v].body.kind
        PROVE  u = v
    BY <1>1, <1>3, <1>4, <1>5, <2>2 DEF KeysHeld
  <2> QED  BY <2>1, <2>2 DEF KeysHeld, Jobs!NoRecord, Jobs!Idle
<1> QED  BY <1>1, <1>2, <1>4, <1>6, WorkStep

LEMMA RestJobStep ==
    ASSUME JobsIInv, NEW w \in Workers, Jobs!Rest(w)
    PROVE  /\ jobWork' \in [Workers -> JobMade \cup {Jobs!Idle}] /\ jobWork'[w] = Jobs!Idle
           /\ \A v \in Workers : v # w => jobWork'[v] = jobWork[v]
BY DEF JobsIInv, JobsTyped, Jobs!Rest

LEMMA RollBackStep ==
    ASSUME JobsIInv, NEW w \in Workers, Jobs!RollsBack(w)
    PROVE  JobsIInv'
<1>1. Jobs!Rest(w) /\ UNCHANGED <<record, message, scheduled, outbox, smoke, answers>> /\ smoke \in Seq(Jobs!SmokeStatuses)
  BY DEF Jobs!RollsBack, JobsIInv, JobsTyped
<1>2. /\ jobWork' \in [Workers -> JobMade \cup {Jobs!Idle}] /\ jobWork'[w] = Jobs!Idle
      /\ \A v \in Workers : v # w => jobWork'[v] = jobWork[v]
  BY <1>1, RestJobStep
<1>3. KeysHeld'
  BY <1>1, <1>2 DEF JobsIInv, KeysHeld, Jobs!NoRecord, Jobs!Idle
<1> QED  BY <1>1, <1>2, <1>3, WorkStep

LEMMA InsertJobStep ==
    ASSUME JobsIInv, NEW w \in Workers, Jobs!InsertMessage(w) \/ Jobs!UpsertJob(w)
    PROVE  JobsIInv'
<1>1. /\ jobWork \in [Workers -> JobMade \cup {Jobs!Idle}] /\ KeysHeld /\ smoke \in Seq(Jobs!SmokeStatuses)
      /\ Jobs!Idle.at = "idle"
  BY JobsDiffer DEF JobsIInv, JobsTyped
<1>2. /\ jobWork[w].at = "new" /\ jobWork' = [jobWork EXCEPT ![w].at = "inserted"]
      /\ jobWork[w].body.kind = "register" => jobWork[w].body.payload \notin Unowned
      /\ UNCHANGED <<record, message, scheduled, outbox, smoke, answers>>
  BY DEF Jobs!InsertMessage, Jobs!UpsertJob, Jobs!Inserts, Jobs!OwnerRegistered, Jobs!Now
<1>3. PICK old \in JobMade : jobWork[w] = old
  BY <1>1, <1>2
<1> DEFINE new == [old EXCEPT !.at = "inserted"]
<1>4. new \in JobMade /\ new.at = "inserted" /\ new.key = old.key /\ new.body = old.body
  BY DEF JobMade
<1>5. jobWork' = [jobWork EXCEPT ![w] = new]
  BY <1>2, <1>3
<1> HIDE DEF new
<1>6. jobWork' \in [Workers -> JobMade \cup {Jobs!Idle}] /\ jobWork'[w] = new /\ \A v \in Workers : v # w => jobWork'[v] = jobWork[v]
  BY <1>1, <1>4, <1>5
<1>7. \A v \in Workers :
         /\ jobWork'[v] # Jobs!Idle =>
               jobWork[v] # Jobs!Idle /\ jobWork'[v].key = jobWork[v].key /\ jobWork'[v].body = jobWork[v].body
         /\ v = w \/ jobWork'[v] = jobWork[v]
  BY <1>3, <1>4, <1>6, JobsDiffer
<1>8. KeysHeld'
  BY <1>1, <1>2, <1>7 DEF KeysHeld, Jobs!NoRecord, Jobs!Idle
<1> QED  BY <1>1, <1>2, <1>6, <1>8, WorkStep

LEMMA CompletedStep ==
    ASSUME JobsIInv, NEW w \in Workers, NEW old \in JobMade, jobWork[w] = old, Jobs!Completed(w),
           NEW e, e = [key |-> old.key, body |-> old.body]
    PROVE  /\ outbox' = Append(outbox, e) /\ e \in JobEvents /\ e.key = old.key /\ e.body = old.body /\ e.key # None
           /\ record' \in [Keys \X Jobs!Kinds -> {Jobs!NoRecord} \cup [fingerprint : Jobs!Bodies, result : JobCodes]]
           /\ jobWork' \in [Workers -> JobMade \cup {Jobs!Idle}]
           /\ KeysHeld' /\ AuditedOnce' /\ ToldTheSame'
<1> DEFINE k == old.key
           b == old.body
           kept == [fingerprint |-> b, result |-> b.job]
           a == [key |-> k, body |-> b, result |-> b.job]
<1>1. /\ k \in Keys /\ b \in Jobs!Bodies /\ b.kind \in Jobs!Kinds /\ b.job \in JobCodes /\ k # None
      /\ old # Jobs!Idle /\ <<k, b.kind>> \in Keys \X Jobs!Kinds
  BY JobsDiffer
<1>2. e \in JobEvents /\ e.key = k /\ e.body = b
  BY <1>1 DEF JobEvents
<1>3. /\ record' = [record EXCEPT ![<<k, b.kind>>] = kept]
      /\ outbox' = Append(outbox, e)
      /\ answers' = answers \cup {a}
      /\ Jobs!Rest(w)
  BY DEF Jobs!Completed, Jobs!publishAudit, Jobs!enqueueOutbox
<1>4. /\ kept \in [fingerprint : Jobs!Bodies, result : JobCodes]
      /\ a.key = k /\ a.body = b /\ a.result = b.job
  BY <1>1
<1>5. kept # Jobs!NoRecord /\ kept = [fingerprint |-> b, result |-> b.job] /\ a = [key |-> a.key, body |-> a.body, result |-> a.body.job]
  BY <1>4, JobsDiffer
<1>6. record \in [Keys \X Jobs!Kinds -> {Jobs!NoRecord} \cup [fingerprint : Jobs!Bodies, result : JobCodes]] /\ KeysHeld
  BY DEF JobsIInv, JobsTyped
<1>7. record[<<k, b.kind>>] = Jobs!NoRecord
  BY <1>1, <1>6 DEF KeysHeld
<1> HIDE DEF kept, a
<1>8. /\ record' \in [Keys \X Jobs!Kinds -> {Jobs!NoRecord} \cup [fingerprint : Jobs!Bodies, result : JobCodes]]
      /\ record'[<<k, b.kind>>] = kept
      /\ \A s \in Keys \X Jobs!Kinds : s # <<k, b.kind>> => record'[s] = record[s]
  BY <1>1, <1>3, <1>4, <1>6
<1>9. /\ jobWork' \in [Workers -> JobMade \cup {Jobs!Idle}] /\ jobWork'[w] = Jobs!Idle
      /\ \A v \in Workers : v # w => jobWork'[v] = jobWork[v]
  BY <1>3, RestJobStep
<1>10. KeysHeld'
  <2>1. ASSUME NEW v \in Workers, jobWork'[v] # Jobs!Idle
        PROVE  /\ record'[<<jobWork'[v].key, jobWork'[v].body.kind>>] = Jobs!NoRecord
               /\ jobWork'[v].at = "inserted" /\ jobWork'[v].body.kind = "register" => jobWork'[v].body.payload \notin Unowned
               /\ v # w /\ jobWork'[v] = jobWork[v]
    <3>1. v # w /\ jobWork'[v] = jobWork[v]
      BY <1>9, <2>1
    <3>2. PICK other \in JobMade : jobWork[v] = other
      BY <2>1, <3>1 DEF JobsIInv, JobsTyped
    <3>3. other.key # k \/ other.body.kind # b.kind
      BY <1>1, <1>6, <2>1, <3>1, <3>2 DEF KeysHeld
    <3>4. <<other.key, other.body.kind>> \in Keys \X Jobs!Kinds
      BY JobsDiffer
    <3>5. <<other.key, other.body.kind>> # <<k, b.kind>>
      BY <3>3
    <3>6. record'[<<other.key, other.body.kind>>] = record[<<other.key, other.body.kind>>]
      BY <1>8, <3>4, <3>5
    <3> QED  BY <1>6, <2>1, <3>1, <3>2, <3>6 DEF KeysHeld
  <2>2. ASSUME NEW u \in Workers, NEW v \in Workers, jobWork'[u] # Jobs!Idle, jobWork'[v] # Jobs!Idle,
               jobWork'[u].key = jobWork'[v].key, jobWork'[u].body.kind = jobWork'[v].body.kind
        PROVE  u = v
    <3>1. jobWork'[u] = jobWork[u] /\ jobWork'[v] = jobWork[v]
      BY <2>1, <2>2
    <3> QED  BY <1>6, <2>2, <3>1 DEF KeysHeld
  <2> QED  BY <2>1, <2>2 DEF KeysHeld, Jobs!NoRecord, Jobs!Idle
<1>11. AuditedOnce'
  <2>0. PICK last : last = Len(outbox) + 1
    OBVIOUS
  <2>1. last \in Nat /\ \A q, kind : Jobs!Audited(q, kind)' =
            Jobs!Audited(q, kind) \cup (IF e.key = q /\ e.body.kind = kind THEN {last} ELSE {})
    BY <1>2, <1>3, <2>0, JobRowStep DEF JobsIInv, JobsTyped
  <2>2. ASSUME NEW q \in Keys, NEW kind \in Jobs!Kinds
        PROVE  IF record'[<<q, kind>>] = Jobs!NoRecord THEN Jobs!Audited(q, kind)' = {}
               ELSE \E n \in Nat : Jobs!Audited(q, kind)' = {n}
    <3>0. <<q, kind>> \in Keys \X Jobs!Kinds
      OBVIOUS
    <3>1. CASE q = k /\ kind = b.kind
      <4>1. Jobs!Audited(q, kind) = {}
        BY <1>7, <3>1 DEF JobsIInv, AuditedOnce
      <4>2. Jobs!Audited(q, kind)' = {last}
        BY <1>2, <2>1, <3>1, <4>1
      <4> QED  BY <1>5, <1>8, <2>1, <3>1, <4>2
    <3>2. CASE ~(q = k /\ kind = b.kind)
      <4>1. <<q, kind>> # <<k, b.kind>>
        BY <3>2
      <4>2. record'[<<q, kind>>] = record[<<q, kind>>]
        BY <1>8, <3>0, <4>1
      <4>3. Jobs!Audited(q, kind)' = Jobs!Audited(q, kind)
        BY <1>2, <2>1, <3>2
      <4> QED  BY <4>2, <4>3 DEF JobsIInv, AuditedOnce
    <3> QED  BY <3>1, <3>2
  <2> QED  BY <2>2 DEF AuditedOnce, Jobs!NoRecord
<1>12. ToldTheSame'
  <2>1. ASSUME NEW x \in answers'
        PROVE  /\ x.key \in Keys /\ x.body \in Jobs!Bodies
               /\ x = [key |-> x.key, body |-> x.body, result |-> x.body.job]
               /\ record'[<<x.key, x.body.kind>>] = [fingerprint |-> x.body, result |-> x.body.job]
    <3>1. CASE x = a
      BY <1>1, <1>4, <1>5, <1>8, <3>1
    <3>2. CASE x \in answers
      <4>1. /\ x.key \in Keys /\ x.body \in Jobs!Bodies /\ x = [key |-> x.key, body |-> x.body, result |-> x.body.job]
            /\ record[<<x.key, x.body.kind>>] = [fingerprint |-> x.body, result |-> x.body.job]
        BY <3>2 DEF JobsIInv, ToldTheSame, JobDone
      <4>2. x.body.kind \in Jobs!Kinds /\ x.body # None
        BY <4>1, JobsDiffer
      <4>3. record[<<x.key, x.body.kind>>].fingerprint = x.body
        BY <4>1
      <4>4. record[<<x.key, x.body.kind>>] # Jobs!NoRecord
        BY <4>2, <4>3 DEF Jobs!NoRecord
      <4>5. <<x.key, x.body.kind>> # <<k, b.kind>>
        BY <1>7, <4>4
      <4> QED  BY <1>8, <4>1, <4>2, <4>5
    <3> QED  BY <1>3, <3>1, <3>2
  <2>2. ASSUME NEW s \in Keys \X Jobs!Kinds, record'[s] # Jobs!NoRecord
        PROVE  record'[s] = [fingerprint |-> record'[s].fingerprint, result |-> record'[s].fingerprint.job]
    <3>1. CASE s = <<k, b.kind>>
      <4>1. kept.fingerprint = b
        BY DEF kept
      <4> QED  BY <1>5, <1>8, <3>1, <4>1
    <3>2. CASE s # <<k, b.kind>>
      BY <1>8, <2>2, <3>2 DEF JobsIInv, ToldTheSame
    <3> QED  BY <3>1, <3>2
  <2> QED  BY <2>1, <2>2 DEF ToldTheSame, JobDone, Jobs!NoRecord
<1> QED  BY <1>2, <1>3, <1>1, <1>8, <1>9, <1>10, <1>11, <1>12

LEMMA JobReplayStep ==
    ASSUME JobsIInv, NEW w \in Workers, NEW k \in Keys, NEW b \in Jobs!Bodies, Jobs!Replayed(w, k, b)
    PROVE  JobsIInv'
<1> DEFINE r == record[<<k, b.kind>>]
           a == [key |-> k, body |-> b, result |-> r.result]
<1>1. /\ r # Jobs!NoRecord /\ answers' = answers \cup (IF r.fingerprint = b THEN {a} ELSE {})
      /\ UNCHANGED <<record, message, scheduled, outbox, smoke, jobWork>>
  BY DEF Jobs!Replayed, Jobs!Known, Jobs!SameRequest
<1>2. r = [fingerprint |-> r.fingerprint, result |-> r.fingerprint.job] /\ <<k, b.kind>> \in Keys \X Jobs!Kinds
  <2>1. <<k, b.kind>> \in Keys \X Jobs!Kinds
    BY JobsDiffer
  <2> QED  BY <1>1, <2>1 DEF JobsIInv, ToldTheSame
<1>3. r.fingerprint = b => r = [fingerprint |-> b, result |-> b.job] /\ r.result = b.job
  BY <1>1, <1>2
<1>4. a.key = k /\ a.body = b /\ (r.fingerprint = b => a = [key |-> a.key, body |-> a.body, result |-> a.body.job])
  BY <1>3
<1>5. r.fingerprint = b => JobDone(k, b)
  BY <1>3 DEF JobDone
<1> HIDE DEF r, a
<1>6. ToldTheSame'
  <2>1. ASSUME NEW x \in answers'
        PROVE  /\ x.key \in Keys /\ x.body \in Jobs!Bodies
               /\ x = [key |-> x.key, body |-> x.body, result |-> x.body.job] /\ JobDone(x.key, x.body)
    <3>1. CASE x = a /\ r.fingerprint = b
      BY <1>4, <1>5, <3>1
    <3>2. CASE x \in answers
      BY <3>2 DEF JobsIInv, ToldTheSame
    <3> QED  BY <1>1, <2>1, <3>1, <3>2
  <2> QED  BY <1>1, <2>1 DEF JobsIInv, ToldTheSame, JobDone, Jobs!NoRecord
<1>7. JobsTyped'
  BY <1>1 DEF JobsIInv, JobsTyped
<1>8. KeysHeld' /\ AuditedOnce'
  BY <1>1 DEF JobsIInv, KeysHeld, AuditedOnce, Jobs!Audited, Jobs!NoRecord, Jobs!Idle
<1>9. Jobs!OutboxTells'
  <2>1. \A kind, j : Jobs!Carried(kind, j)' = Jobs!Carried(kind, j)
    BY <1>1 DEF Jobs!Carried
  <2>2. \A n : Jobs!Payload(n)' = Jobs!Payload(n)
    BY <1>1 DEF Jobs!Payload
  <2> QED  BY <1>1, <2>1, <2>2 DEF JobsIInv, Jobs!OutboxTells
<1> QED  BY <1>1, <1>6, <1>7, <1>8, <1>9 DEF JobsIInv, Jobs!NoJob

LEMMA SmokeStep ==
    ASSUME JobsIInv, NEW reachable \in BOOLEAN, Jobs!SmokeTest(reachable)
    PROVE  JobsIInv'
<1> DEFINE e == [key |-> None, body |-> Len(smoke) + 1]
           status == Jobs!RunStatus(reachable)
<1>1. /\ smoke' = Append(smoke, status) /\ outbox' = Append(outbox, e)
      /\ UNCHANGED <<record, message, scheduled, jobWork, answers>>
  BY DEF Jobs!SmokeTest, Jobs!publishAudit, Jobs!enqueueOutbox
<1>2. outbox \in Seq(JobEvents) /\ smoke \in Seq(Jobs!SmokeStatuses) /\ JobsTyped
  BY DEF JobsIInv, JobsTyped
<1>3. status \in Jobs!SmokeStatuses
  BY DEF Jobs!RunStatus, Jobs!SmokeStatuses
<1>4. smoke' \in Seq(Jobs!SmokeStatuses)
  <2> HIDE DEF status
  <2> QED  BY <1>1, <1>2, <1>3, AppendProperties
<1>5. e \in JobEvents /\ e.key = None
  <2>1. Len(smoke) + 1 \in Nat
    BY <1>2, LenProperties
  <2> QED  BY <2>1 DEF JobEvents
<1> HIDE DEF e, status
<1>6. PICK last : last = Len(outbox) + 1
  OBVIOUS
<1>12. PICK row \in JobEvents : row = e /\ row.key = None
  BY <1>5
<1>7. /\ outbox' \in Seq(JobEvents)
      /\ \A k \in Keys, kind \in Jobs!Kinds : Jobs!Audited(k, kind)' = Jobs!Audited(k, kind)
      /\ \A kind, j : Jobs!Carried(kind, j)' = Jobs!Carried(kind, j)
      /\ \A kind, j : \A n \in Jobs!Carried(kind, j) : Jobs!Payload(n)' = Jobs!Payload(n)
  <2>1. \A k \in Keys : row.key # k
    BY <1>12, JobsAssumption
  <2>2. /\ outbox' \in Seq(JobEvents)
        /\ \A k, kind : Jobs!Audited(k, kind)' =
              Jobs!Audited(k, kind) \cup (IF row.key = k /\ row.body.kind = kind THEN {last} ELSE {})
        /\ \A kind, j : Jobs!Carried(kind, j)' =
              Jobs!Carried(kind, j) \cup (IF row.key # None /\ row.body.kind = kind /\ row.body.job = j THEN {last} ELSE {})
        /\ \A kind, j : \A n \in Jobs!Carried(kind, j) : n \in Nat /\ n < last /\ Jobs!Payload(n)' = Jobs!Payload(n)
    <3>1. outbox' = Append(outbox, row)
      BY <1>1, <1>12
    <3> QED  BY <1>2, <1>6, <3>1, JobRowStep
  <2>3. \A k \in Keys, kind \in Jobs!Kinds : Jobs!Audited(k, kind)' = Jobs!Audited(k, kind)
    BY <2>1, <2>2
  <2>4. \A kind, j : Jobs!Carried(kind, j)' = Jobs!Carried(kind, j)
    BY <1>12, <2>2
  <2> QED  BY <2>2, <2>3, <2>4
<1>8. JobsTyped'
  BY <1>1, <1>2, <1>4, <1>7 DEF JobsTyped
<1>9. KeysHeld' /\ ToldTheSame'
  BY <1>1 DEF JobsIInv, KeysHeld, ToldTheSame, JobDone, Jobs!NoRecord, Jobs!Idle
<1>10. AuditedOnce'
  <2>1. ASSUME NEW k \in Keys, NEW kind \in Jobs!Kinds
        PROVE  IF record'[<<k, kind>>] = Jobs!NoRecord THEN Jobs!Audited(k, kind)' = {}
               ELSE \E n \in Nat : Jobs!Audited(k, kind)' = {n}
    BY <1>1, <1>7 DEF JobsIInv, AuditedOnce
  <2> QED  BY <2>1 DEF AuditedOnce, Jobs!NoRecord
<1>11. Jobs!OutboxTells'
  BY <1>1, <1>7 DEF JobsIInv, Jobs!OutboxTells, Jobs!First, Jobs!Last, Jobs!NoJob
<1> QED  BY <1>1, <1>8, <1>9, <1>10, <1>11 DEF JobsIInv, Jobs!NoJob

\* The job's row of this kind is in the outbox under one number more.
CarriedToo(o, i, last) == \A k, c : k = o /\ c = i => Jobs!Carried(k, c)' = Jobs!Carried(k, c) \cup {last}

\* What the tables hold after a job has been enqueued or registered under a new row.
LEMMA CarriedStep ==
    ASSUME JobsIInv, NEW w \in Workers, NEW old \in JobMade, jobWork[w] = old, Jobs!Completed(w),
           NEW e, e = [key |-> old.key, body |-> old.body], NEW last, last = Len(outbox) + 1,
           NEW kind, kind = old.body.kind, NEW j, j = old.body.job, NEW p, p = old.body.payload
    PROVE  /\ outbox' \in Seq(JobEvents)
           /\ \A o, i : ~(o = kind /\ i = j) => Jobs!Carried(o, i)' = Jobs!Carried(o, i)
           /\ CarriedToo(kind, j, last)
           /\ last \in Nat /\ \A i \in Jobs!Carried(kind, j) : i \in Nat /\ i < last
           /\ \A o, i : \A n \in Jobs!Carried(o, i) : Jobs!Payload(n)' = Jobs!Payload(n)
           /\ Jobs!Payload(last)' = p
<1>1. outbox' = Append(outbox, e) /\ e \in JobEvents /\ e.key = old.key /\ e.body = old.body /\ e.key # None
  BY CompletedStep
<1>2. /\ outbox' \in Seq(JobEvents) /\ last \in Nat
      /\ \A o, i : Jobs!Carried(o, i)' =
            Jobs!Carried(o, i) \cup (IF e.key # None /\ e.body.kind = o /\ e.body.job = i THEN {last} ELSE {})
      /\ \A o, i : \A n \in Jobs!Carried(o, i) : n \in Nat /\ n < last /\ Jobs!Payload(n)' = Jobs!Payload(n)
      /\ \A n : n = last => Jobs!Payload(n)' = e.body.payload
  BY <1>1, JobRowStep DEF JobsIInv, JobsTyped
<1>3. \A o, i : ~(o = kind /\ i = j) => Jobs!Carried(o, i)' = Jobs!Carried(o, i)
  BY <1>1, <1>2
<1>4. CarriedToo(kind, j, last)
  BY <1>1, <1>2 DEF CarriedToo
<1>5. Jobs!Payload(last)' = p
  BY <1>1, <1>2
<1> QED  BY <1>2, <1>3, <1>4, <1>5

LEMMA EnqueueStep ==
    ASSUME JobsIInv, NEW w \in Workers, Jobs!Enqueue(w)
    PROVE  JobsIInv'
<1>1. PICK old \in JobMade : jobWork[w] = old
  BY JobsDiffer DEF JobsIInv, JobsTyped, Jobs!Enqueue, Jobs!Now
<1>2. PICK e : e = [key |-> old.key, body |-> old.body]
  OBVIOUS
<1>3. PICK last : last = Len(outbox) + 1
  OBVIOUS
<1>4. PICK j \in JobCodes : j = old.body.job
  BY JobsDiffer
<1>5. PICK p \in Payloads : p = old.body.payload /\ p # None
  BY JobsDiffer, JobsAssumption
<1>6. /\ old.body.kind = "enqueue" /\ Jobs!Completed(w) /\ UNCHANGED <<scheduled, smoke>>
      /\ message' = IF message[j] = None THEN [message EXCEPT ![j] = p] ELSE message
  BY <1>1, <1>4, <1>5 DEF Jobs!Enqueue, Jobs!Enqueued
<1>7. /\ record' \in [Keys \X Jobs!Kinds -> {Jobs!NoRecord} \cup [fingerprint : Jobs!Bodies, result : JobCodes]]
      /\ jobWork' \in [Workers -> JobMade \cup {Jobs!Idle}]
      /\ KeysHeld' /\ AuditedOnce' /\ ToldTheSame'
  BY <1>1, <1>2, <1>6, CompletedStep
<1>8. /\ outbox' \in Seq(JobEvents)
      /\ \A o, i : ~(o = "enqueue" /\ i = j) => Jobs!Carried(o, i)' = Jobs!Carried(o, i)
      /\ Jobs!Carried("enqueue", j)' # {}
      /\ Jobs!First(Jobs!Carried("enqueue", j)') =
            (IF Jobs!Carried("enqueue", j) = {} THEN {last} ELSE Jobs!First(Jobs!Carried("enqueue", j)))
      /\ \A o, i : \A n \in Jobs!Carried(o, i) : Jobs!Payload(n)' = Jobs!Payload(n)
      /\ Jobs!Payload(last)' = p
  <2>1. PICK kind : kind = "enqueue"
    OBVIOUS
  <2>2. /\ kind = old.body.kind /\ j = old.body.job /\ p = old.body.payload /\ last = Len(outbox) + 1 /\ jobWork[w] = old
        /\ Jobs!Completed(w) /\ e = [key |-> old.key, body |-> old.body] /\ JobsIInv
    BY <1>1, <1>2, <1>3, <1>4, <1>5, <1>6, <2>1
  <2>3. outbox' \in Seq(JobEvents)
    BY <2>2, CarriedStep
  <2>4. \A o, i : ~(o = kind /\ i = j) => Jobs!Carried(o, i)' = Jobs!Carried(o, i)
    BY <2>2, CarriedStep
  <2>0. PICK S : S = Jobs!Carried(kind, j)
    OBVIOUS
  <2>10. Jobs!Carried(kind, j)' = S \cup {last}
    <3>1. CarriedToo(kind, j, last)
      BY <2>2, CarriedStep
    <3> QED  BY <2>0, <3>1 DEF CarriedToo
  <2>11. last \in Nat /\ S \in SUBSET Nat /\ \A i \in S : i < last
    BY <2>0, <2>2, CarriedStep
  <2>12. Jobs!First(S \cup {last}) = (IF S = {} THEN {last} ELSE Jobs!First(S)) /\ Jobs!Last(S \cup {last}) = {last}
    BY <2>11, FirstAndLast
  <2>5. Jobs!Carried(kind, j)' # {}
    BY <2>10
  <2>6. Jobs!First(Jobs!Carried(kind, j)') = (IF Jobs!Carried(kind, j) = {} THEN {last} ELSE Jobs!First(Jobs!Carried(kind, j)))
    BY <2>0, <2>10, <2>12
  <2>7. Jobs!Last(Jobs!Carried(kind, j)') = {last}
    BY <2>0, <2>10, <2>12
  <2>8. \A o, i : \A n \in Jobs!Carried(o, i) : Jobs!Payload(n)' = Jobs!Payload(n)
    BY <2>2, CarriedStep
  <2>9. Jobs!Payload(last)' = p
    BY <2>2, CarriedStep
  <2> QED  BY <2>1, <2>3, <2>4, <2>5, <2>6, <2>7, <2>8, <2>9
<1>9. message \in [JobCodes -> Payloads \cup {None}] /\ smoke \in Seq(Jobs!SmokeStatuses) /\ Jobs!OutboxTells /\ JobsTyped
  BY DEF JobsIInv, JobsTyped
<1>10. JobsTyped'
  BY <1>6, <1>7, <1>8, <1>9 DEF JobsTyped
<1>11. Jobs!OutboxTells'
  <2>1. ASSUME NEW i \in JobCodes
        PROVE  IF Jobs!Carried("enqueue", i)' = {} THEN message'[i] = None
               ELSE \E n \in Jobs!First(Jobs!Carried("enqueue", i)') : message'[i] = Jobs!Payload(n)'
    <3>1. IF Jobs!Carried("enqueue", i) = {} THEN message[i] = None
          ELSE \E n \in Jobs!First(Jobs!Carried("enqueue", i)) : message[i] = Jobs!Payload(n)
      BY <1>9 DEF Jobs!OutboxTells
    <3>2. CASE i # j
      <4>1. Jobs!Carried("enqueue", i)' = Jobs!Carried("enqueue", i) /\ message'[i] = message[i]
        BY <1>6, <1>8, <1>9, <3>2
      <4>2. \A n \in Jobs!First(Jobs!Carried("enqueue", i)) : Jobs!Payload(n)' = Jobs!Payload(n)
        BY <1>8 DEF Jobs!First
      <4> QED  BY <3>1, <4>1, <4>2
    <3>3. CASE i = j /\ Jobs!Carried("enqueue", i) = {}
      <4>1. Jobs!First(Jobs!Carried("enqueue", i)') = {last} /\ Jobs!Carried("enqueue", i)' # {}
        BY <1>8, <3>3
      <4>2. message'[i] = p
        BY <1>6, <1>9, <3>1, <3>3
      <4>3. Jobs!Payload(last)' = p
        BY <1>8
      <4> QED  BY <1>8, <4>1, <4>2
    <3>4. CASE i = j /\ Jobs!Carried("enqueue", i) # {}
      <4>1. PICK n \in Jobs!First(Jobs!Carried("enqueue", i)) : message[i] = Jobs!Payload(n)
        BY <3>1, <3>4
      <4>2. n \in Jobs!Carried("enqueue", i) /\ Jobs!Payload(n)' = Jobs!Payload(n)
        BY <1>8 DEF Jobs!First
      <4>3. Jobs!Payload(n) # None
        <5>1. n \in 1..Len(outbox) /\ outbox[n].key # None
          BY <4>2 DEF Jobs!Carried
        <5>2. outbox[n] \in JobEvents
          BY <5>1, ElementOfSeq DEF JobsIInv, JobsTyped
        <5>3. outbox[n].body \in Jobs!Bodies
          BY <5>1, <5>2 DEF JobEvents
        <5> QED  BY <5>3, JobsDiffer, JobsAssumption DEF Jobs!Payload
      <4>4. message' = message
        BY <1>6, <3>4, <4>1, <4>3
      <4> QED  BY <1>8, <3>4, <4>1, <4>2, <4>4
    <3> QED  BY <3>2, <3>3, <3>4
  <2>2. ASSUME NEW i \in JobCodes
        PROVE  IF Jobs!Carried("register", i)' = {} THEN scheduled'[i] = Jobs!NoJob
               ELSE /\ \E n \in Jobs!First(Jobs!Carried("register", i)') : scheduled'[i].owner = Jobs!Payload(n)'
                    /\ \E n \in Jobs!Last(Jobs!Carried("register", i)') : scheduled'[i].settings = Jobs!Payload(n)'
    <3>1. IF Jobs!Carried("register", i) = {} THEN scheduled[i] = Jobs!NoJob
          ELSE /\ \E n \in Jobs!First(Jobs!Carried("register", i)) : scheduled[i].owner = Jobs!Payload(n)
               /\ \E n \in Jobs!Last(Jobs!Carried("register", i)) : scheduled[i].settings = Jobs!Payload(n)
      BY <1>9 DEF Jobs!OutboxTells
    <3>2. Jobs!Carried("register", i)' = Jobs!Carried("register", i)
      BY <1>8
    <3>3. \A n \in Jobs!Carried("register", i) : Jobs!Payload(n)' = Jobs!Payload(n)
      BY <1>8
    <3>4. /\ \A n \in Jobs!First(Jobs!Carried("register", i)) : n \in Jobs!Carried("register", i)
          /\ \A n \in Jobs!Last(Jobs!Carried("register", i)) : n \in Jobs!Carried("register", i)
      BY DEF Jobs!First, Jobs!Last
    <3> QED  BY <1>6, <3>1, <3>2, <3>3, <3>4
  <2> QED  BY <2>1, <2>2 DEF Jobs!OutboxTells, Jobs!First, Jobs!Last, Jobs!NoJob
<1> QED  BY <1>6, <1>7, <1>10, <1>11 DEF JobsIInv, Jobs!NoJob

LEMMA RegisterStep ==
    ASSUME JobsIInv, NEW w \in Workers, Jobs!Register(w)
    PROVE  JobsIInv'
<1>1. PICK old \in JobMade : jobWork[w] = old
  BY JobsDiffer DEF JobsIInv, JobsTyped, Jobs!Register, Jobs!Now
<1>2. PICK e : e = [key |-> old.key, body |-> old.body]
  OBVIOUS
<1>3. PICK last : last = Len(outbox) + 1
  OBVIOUS
<1>4. PICK j \in JobCodes : j = old.body.job
  BY JobsDiffer
<1>5. PICK p \in Payloads \ Unowned : p = old.body.payload
  BY <1>1, JobsDiffer DEF JobsIInv, KeysHeld, Jobs!Register, Jobs!Now
<1> DEFINE owner == IF scheduled[j] = Jobs!NoJob THEN p ELSE scheduled[j].owner
           kept == [owner |-> owner, settings |-> p, missed_run_detection |-> p \in Critical]
<1>6. /\ old.body.kind = "register" /\ Jobs!Completed(w) /\ UNCHANGED <<message, smoke>>
      /\ scheduled' = [scheduled EXCEPT ![j] = kept]
  BY <1>1, <1>4, <1>5 DEF Jobs!Register, Jobs!Registered
<1>7. /\ record' \in [Keys \X Jobs!Kinds -> {Jobs!NoRecord} \cup [fingerprint : Jobs!Bodies, result : JobCodes]]
      /\ jobWork' \in [Workers -> JobMade \cup {Jobs!Idle}]
      /\ KeysHeld' /\ AuditedOnce' /\ ToldTheSame'
  BY <1>1, <1>2, <1>6, CompletedStep
<1>8. /\ outbox' \in Seq(JobEvents)
      /\ \A o, i : ~(o = "register" /\ i = j) => Jobs!Carried(o, i)' = Jobs!Carried(o, i)
      /\ Jobs!Carried("register", j)' # {}
      /\ Jobs!First(Jobs!Carried("register", j)') =
            (IF Jobs!Carried("register", j) = {} THEN {last} ELSE Jobs!First(Jobs!Carried("register", j)))
      /\ Jobs!Last(Jobs!Carried("register", j)') = {last}
      /\ \A o, i : \A n \in Jobs!Carried(o, i) : Jobs!Payload(n)' = Jobs!Payload(n)
      /\ Jobs!Payload(last)' = p
  <2>1. PICK kind : kind = "register"
    OBVIOUS
  <2>2. /\ kind = old.body.kind /\ j = old.body.job /\ p = old.body.payload /\ last = Len(outbox) + 1 /\ jobWork[w] = old
        /\ Jobs!Completed(w) /\ e = [key |-> old.key, body |-> old.body] /\ JobsIInv
    BY <1>1, <1>2, <1>3, <1>4, <1>5, <1>6, <2>1
  <2>3. outbox' \in Seq(JobEvents)
    BY <2>2, CarriedStep
  <2>4. \A o, i : ~(o = kind /\ i = j) => Jobs!Carried(o, i)' = Jobs!Carried(o, i)
    BY <2>2, CarriedStep
  <2>0. PICK S : S = Jobs!Carried(kind, j)
    OBVIOUS
  <2>10. Jobs!Carried(kind, j)' = S \cup {last}
    <3>1. CarriedToo(kind, j, last)
      BY <2>2, CarriedStep
    <3> QED  BY <2>0, <3>1 DEF CarriedToo
  <2>11. last \in Nat /\ S \in SUBSET Nat /\ \A i \in S : i < last
    BY <2>0, <2>2, CarriedStep
  <2>12. Jobs!First(S \cup {last}) = (IF S = {} THEN {last} ELSE Jobs!First(S)) /\ Jobs!Last(S \cup {last}) = {last}
    BY <2>11, FirstAndLast
  <2>5. Jobs!Carried(kind, j)' # {}
    BY <2>10
  <2>6. Jobs!First(Jobs!Carried(kind, j)') = (IF Jobs!Carried(kind, j) = {} THEN {last} ELSE Jobs!First(Jobs!Carried(kind, j)))
    BY <2>0, <2>10, <2>12
  <2>7. Jobs!Last(Jobs!Carried(kind, j)') = {last}
    BY <2>0, <2>10, <2>12
  <2>8. \A o, i : \A n \in Jobs!Carried(o, i) : Jobs!Payload(n)' = Jobs!Payload(n)
    BY <2>2, CarriedStep
  <2>9. Jobs!Payload(last)' = p
    BY <2>2, CarriedStep
  <2> QED  BY <2>1, <2>3, <2>4, <2>5, <2>6, <2>7, <2>8, <2>9
<1>9. /\ scheduled \in [JobCodes -> JobKept \cup {Jobs!NoJob}] /\ smoke \in Seq(Jobs!SmokeStatuses)
      /\ Jobs!OutboxTells /\ JobsTyped
  BY DEF JobsIInv, JobsTyped
<1>10. /\ kept \in JobKept /\ kept.owner = owner /\ kept.settings = p
       /\ kept.missed_run_detection <=> kept.settings \in Critical
  <2>1. owner \in Payloads \ Unowned
    BY <1>9 DEF JobKept
  <2>5. (p \in Critical) \in BOOLEAN
    <3>1. CASE p \in Critical
      <4>1. (p \in Critical) = TRUE
        BY <3>1
      <4> QED  BY <4>1
    <3>2. CASE p \notin Critical
      <4>1. (p \in Critical) = FALSE
        BY <3>2
      <4> QED  BY <4>1
    <3> QED  BY <3>1, <3>2
  <2>2. PICK watched \in BOOLEAN : watched = (p \in Critical)
    BY <2>5
  <2>3. kept = [owner |-> owner, settings |-> p, missed_run_detection |-> watched]
    BY <2>2
  <2> HIDE DEF owner, kept
  <2>4. kept \in JobKept /\ kept.owner = owner /\ kept.settings = p /\ kept.missed_run_detection = watched
    BY <2>1, <2>3 DEF JobKept
  <2> QED  BY <2>2, <2>4
<1> HIDE DEF kept
<1>11. scheduled' \in [JobCodes -> JobKept \cup {Jobs!NoJob}] /\ scheduled'[j] = kept /\ \A i \in JobCodes : i # j => scheduled'[i] = scheduled[i]
  BY <1>6, <1>9, <1>10
<1>12. JobsTyped'
  BY <1>6, <1>7, <1>8, <1>9, <1>11 DEF JobsTyped
<1>13. Jobs!OutboxTells'
  <2>1. ASSUME NEW i \in JobCodes
        PROVE  IF Jobs!Carried("register", i)' = {} THEN scheduled'[i] = Jobs!NoJob
               ELSE /\ \E n \in Jobs!First(Jobs!Carried("register", i)') : scheduled'[i].owner = Jobs!Payload(n)'
                    /\ \E n \in Jobs!Last(Jobs!Carried("register", i)') : scheduled'[i].settings = Jobs!Payload(n)'
    <3>1. IF Jobs!Carried("register", i) = {} THEN scheduled[i] = Jobs!NoJob
          ELSE /\ \E n \in Jobs!First(Jobs!Carried("register", i)) : scheduled[i].owner = Jobs!Payload(n)
               /\ \E n \in Jobs!Last(Jobs!Carried("register", i)) : scheduled[i].settings = Jobs!Payload(n)
      BY <1>9 DEF Jobs!OutboxTells
    <3>2. \A n \in Jobs!Carried("register", i) : Jobs!Payload(n)' = Jobs!Payload(n)
      BY <1>8
    <3>3. /\ \A n \in Jobs!First(Jobs!Carried("register", i)) : n \in Jobs!Carried("register", i)
          /\ \A n \in Jobs!Last(Jobs!Carried("register", i)) : n \in Jobs!Carried("register", i)
      BY DEF Jobs!First, Jobs!Last
    <3>4. CASE i # j
      <4>1. Jobs!Carried("register", i)' = Jobs!Carried("register", i) /\ scheduled'[i] = scheduled[i]
        BY <1>8, <1>11, <3>4
      <4> QED  BY <3>1, <3>2, <3>3, <4>1
    <3>5. CASE i = j
      <4>1. /\ Jobs!Carried("register", i)' # {} /\ Jobs!Last(Jobs!Carried("register", i)') = {last}
            /\ Jobs!First(Jobs!Carried("register", i)') =
                  (IF Jobs!Carried("register", i) = {} THEN {last} ELSE Jobs!First(Jobs!Carried("register", i)))
            /\ Jobs!Payload(last)' = p /\ scheduled'[i] = kept
        BY <1>8, <1>11, <3>5
      <4>2. \E n \in Jobs!Last(Jobs!Carried("register", i)') : scheduled'[i].settings = Jobs!Payload(n)'
        BY <1>8, <1>10, <4>1
      <4>3. CASE Jobs!Carried("register", i) = {}
        <5>1. scheduled'[i].owner = p
          BY <1>10, <3>1, <3>5, <4>1, <4>3
        <5> QED  BY <1>8, <4>1, <4>2, <4>3, <5>1
      <4>4. CASE Jobs!Carried("register", i) # {}
        <5>1. PICK n \in Jobs!First(Jobs!Carried("register", i)) : scheduled[i].owner = Jobs!Payload(n)
          BY <3>1, <4>4
        <5>2. n \in Jobs!Carried("register", i) /\ Jobs!Payload(n)' = Jobs!Payload(n)
          BY <3>2, <3>3
        <5>3. Jobs!Payload(n) # None
          <6>1. n \in 1..Len(outbox) /\ outbox[n].key # None
            BY <5>2 DEF Jobs!Carried
          <6>2. outbox[n] \in JobEvents
            BY <6>1, ElementOfSeq DEF JobsIInv, JobsTyped
          <6>3. outbox[n].body \in Jobs!Bodies
            BY <6>1, <6>2 DEF JobEvents
          <6> QED  BY <6>3, JobsDiffer, JobsAssumption DEF Jobs!Payload
        <5>4. scheduled[i] # Jobs!NoJob
          BY <5>1, <5>3, JobsDiffer
        <5>5. scheduled'[i].owner = scheduled[i].owner
          BY <1>10, <3>5, <4>1, <5>4
        <5> QED  BY <4>1, <4>2, <4>4, <5>1, <5>2, <5>5
      <4> QED  BY <4>3, <4>4
    <3> QED  BY <3>4, <3>5
  <2>2. ASSUME NEW i \in JobCodes
        PROVE  IF Jobs!Carried("enqueue", i)' = {} THEN message'[i] = None
               ELSE \E n \in Jobs!First(Jobs!Carried("enqueue", i)') : message'[i] = Jobs!Payload(n)'
    <3>1. IF Jobs!Carried("enqueue", i) = {} THEN message[i] = None
          ELSE \E n \in Jobs!First(Jobs!Carried("enqueue", i)) : message[i] = Jobs!Payload(n)
      BY <1>9 DEF Jobs!OutboxTells
    <3>2. Jobs!Carried("enqueue", i)' = Jobs!Carried("enqueue", i)
      BY <1>8
    <3>3. \A n \in Jobs!First(Jobs!Carried("enqueue", i)) : Jobs!Payload(n)' = Jobs!Payload(n)
      BY <1>8 DEF Jobs!First
    <3> QED  BY <1>6, <3>1, <3>2, <3>3
  <2> QED  BY <2>1, <2>2 DEF Jobs!OutboxTells, Jobs!First, Jobs!Last, Jobs!NoJob
<1>14. \A i \in JobCodes :
          scheduled'[i] # Jobs!NoJob => (scheduled'[i].missed_run_detection <=> scheduled'[i].settings \in Critical)
  BY <1>10, <1>11 DEF JobsIInv
<1> QED  BY <1>7, <1>12, <1>13, <1>14 DEF JobsIInv, Jobs!NoJob

LEMMA JobsBegin == Jobs!Init => JobsIInv
<1> SUFFICES ASSUME Jobs!Init PROVE JobsIInv
  OBVIOUS
<1>1. Len(<<>>) = 0 /\ <<>> \in Seq(JobEvents) /\ <<>> \in Seq(Jobs!SmokeStatuses)
  OBVIOUS
<1>2. JobsTyped
  BY <1>1 DEF Jobs!Init, JobsTyped
<1>3. \A kind, j : Jobs!Carried(kind, j) = {} /\ Jobs!Audited(kind, j) = {}
  BY <1>1 DEF Jobs!Init, Jobs!Carried, Jobs!Audited
<1>4. KeysHeld /\ ToldTheSame
  BY DEF Jobs!Init, KeysHeld, ToldTheSame
<1>5. AuditedOnce
  BY <1>3 DEF Jobs!Init, AuditedOnce
<1>6. Jobs!OutboxTells
  BY <1>3 DEF Jobs!Init, Jobs!OutboxTells
<1> QED  BY <1>2, <1>4, <1>5, <1>6 DEF JobsIInv, Jobs!Init

LEMMA JobsStep == JobsIInv /\ [Jobs!Next]_Jobs!vars => JobsIInv'
<1> SUFFICES ASSUME JobsIInv, [Jobs!Next]_Jobs!vars PROVE JobsIInv'
  OBVIOUS
<1>1. CASE UNCHANGED Jobs!vars
  <2>1. UNCHANGED <<record, message, scheduled, outbox, smoke, jobWork, answers>>
    BY <1>1 DEF Jobs!vars
  <2>2. KeysHeld' /\ smoke' \in Seq(Jobs!SmokeStatuses) /\ jobWork' \in [Workers -> JobMade \cup {Jobs!Idle}]
    BY <2>1 DEF JobsIInv, JobsTyped, KeysHeld, Jobs!NoRecord, Jobs!Idle
  <2> QED  BY <2>1, <2>2, WorkStep
<1>2. ASSUME NEW w \in Workers, NEW k \in Keys, NEW b \in Jobs!Bodies,
             Jobs!beginIdempotent(w, k, b) \/ Jobs!Replayed(w, k, b)
      PROVE  JobsIInv'
  BY <1>2, BeginJobStep, JobReplayStep
<1>3. ASSUME NEW w \in Workers,
             \/ Jobs!InsertMessage(w) \/ Jobs!Enqueue(w) \/ Jobs!UpsertJob(w) \/ Jobs!Register(w) \/ Jobs!RollsBack(w)
      PROVE  JobsIInv'
  BY <1>3, InsertJobStep, EnqueueStep, RegisterStep, RollBackStep
<1>4. ASSUME NEW reachable \in BOOLEAN, Jobs!SmokeTest(reachable)
      PROVE  JobsIInv'
  BY <1>4, SmokeStep
<1> QED  BY <1>1, <1>2, <1>3, <1>4 DEF Jobs!Next

LEMMA JobsSound == JobsIInv => Jobs!TypeOK /\ Jobs!DoneOnce /\ Jobs!OutboxTells /\ Jobs!CriticalWatched
<1> SUFFICES ASSUME JobsIInv
             PROVE  Jobs!TypeOK /\ Jobs!DoneOnce /\ Jobs!OutboxTells /\ Jobs!CriticalWatched
  OBVIOUS
<1>1. JobsTyped /\ Jobs!OutboxTells
  BY DEF JobsIInv
<1>2. Jobs!TypeOK
  <2>1. \A i \in DOMAIN outbox : Jobs!OutboxRow(outbox[i])
    <3>1. ASSUME NEW i \in DOMAIN outbox
          PROVE  Jobs!OutboxRow(outbox[i])
      <4>1. outbox[i] \in JobEvents
        BY <1>1 DEF JobsTyped
      <4>2. \A x \in JobEvents : Jobs!OutboxRow(x)
        BY JobsAssumption DEF JobEvents, Jobs!OutboxRow
      <4> QED  BY <4>1, <4>2
    <3> QED  BY <3>1
  <2>2. \A j \in JobCodes : message[j] \in Payloads \cup {None} /\ scheduled[j].settings \in (Payloads \ Unowned) \cup {None}
    BY <1>1, JobsDiffer DEF JobsTyped
  <2>3. \A s \in Keys \X Jobs!Kinds : record[s] # Jobs!NoRecord => record[s].fingerprint \in Jobs!Bodies
    BY <1>1, JobsDiffer DEF JobsTyped
  <2> QED  BY <1>1, <2>1, <2>2, <2>3 DEF Jobs!TypeOK, JobsTyped
<1>3. Jobs!DoneOnce
  <2>1. ASSUME NEW k \in Keys, NEW kind \in Jobs!Kinds
        PROVE  Jobs!Cardinality(Jobs!Audited(k, kind)) = IF record[<<k, kind>>] = Jobs!NoRecord THEN 0 ELSE 1
    <3>1. Jobs!Cardinality(Jobs!Audited(k, kind)) = Cardinality(Jobs!Audited(k, kind))
      BY DEF Cardinality, IsFiniteSet, Jobs!Cardinality, Jobs!IsFiniteSet
    <3>2. CASE record[<<k, kind>>] = Jobs!NoRecord
      <4>1. Jobs!Audited(k, kind) = {}
        BY <3>2 DEF JobsIInv, AuditedOnce
      <4> QED  BY <3>1, <3>2, <4>1, FS_EmptySet
    <3>3. CASE record[<<k, kind>>] # Jobs!NoRecord
      <4>1. PICK n \in Nat : Jobs!Audited(k, kind) = {n}
        BY <3>3 DEF JobsIInv, AuditedOnce
      <4> QED  BY <3>1, <3>3, <4>1, FS_Singleton
    <3> QED  BY <3>2, <3>3
  <2>2. ASSUME NEW a \in answers, NEW b \in answers, a.key = b.key, a.body.kind = b.body.kind
        PROVE  a = b
    <3>1. /\ a = [key |-> a.key, body |-> a.body, result |-> a.body.job] /\ JobDone(a.key, a.body)
          /\ b = [key |-> b.key, body |-> b.body, result |-> b.body.job] /\ JobDone(b.key, b.body)
      BY DEF JobsIInv, ToldTheSame
    <3>2. [fingerprint |-> a.body, result |-> a.body.job] = [fingerprint |-> b.body, result |-> b.body.job]
      BY <2>2, <3>1 DEF JobDone
    <3>3. a.body = b.body
      BY <3>2
    <3> QED  BY <2>2, <3>1, <3>3
  <2> QED  BY <2>1, <2>2 DEF Jobs!DoneOnce
<1>4. Jobs!CriticalWatched
  <2>1. ASSUME NEW j \in JobCodes, scheduled[j].settings \in Critical
        PROVE  scheduled[j].missed_run_detection
    <3>1. scheduled[j] # Jobs!NoJob
      BY <2>1, JobsDiffer, JobsAssumption
    <3> QED  BY <2>1, <3>1 DEF JobsIInv
  <2> QED  BY <2>1 DEF Jobs!CriticalWatched
<1> QED  BY <1>1, <1>2, <1>3, <1>4

-----------------------------------------------------------------------------
(* The calls between the services.  A token's action is applied by the one *)
(* request that has heard that the token stands; what a request was told   *)
(* by everyone it has asked so far is in its call.                         *)

Said == Calls!PermissionCheck \cup Calls!SessionValidate \cup Calls!PreTransactionScreen
        \cup {None, "authorised", "refused", "memberships", "allow", "rate_limited", "active", "active_limited",
              "suspended", "not_found", "parties", "deny", "stored"}
Unheard == {"lost", "garbled", "error"}
CallRows ==
    [at : {"idle", "asking", "answered", "through"}, svc : Calls!Services \cup {None},
     what : Calls!Questions \cup {None}, token : Tokens \cup {None}, narrow : Clients \cup {None},
     client : Clients \cup {None}, reply : Said \cup Unheard, list : SUBSET Clients,
     told : [Calls!Questions -> Said]]

Chosen(c) == c.client \in c.list /\ c.narrow \in {None, c.client} /\ (c.narrow = None => c.list = {c.client})
Agreed(c) ==
    \/ c.what = "permission" /\ c.told["permission"] \in (IF c.svc = "SEC-01" THEN {"allow"} ELSE Calls!BaselinePass)
    \/ c.what = "token" /\ c.told["token"] = "authorised"
    \/ c.what = "status" /\ c.told["status"] \in {"active", "active_limited"}
    \/ c.what = "screening" /\ c.told["screening"] = "allow"
    \/ c.what = "gate" /\ c.told["gate"] = "allow"
    \/ c.what = "outcome" /\ c.told["outcome"] = "stored"
\* What has been said so far to a request under way.
UnderWay(c) ==
    /\ c.what \in Calls!Questions /\ c.svc \in Calls!Services
    /\ c.what = "token" <=> c.token # None
    /\ c.what \in {"members", "rate", "status"} => c.told["session"] = "client"
    /\ c.what \in {"rate", "status"} => Chosen(c)
    /\ c.what = "status" => c.told["rate"] = "allow"
    /\ c.what = "screening" => c.told["roster"] = "parties"
    /\ c.at = "asking" /\ c.what = "token" => c.told["token"] # "authorised"
    /\ c.at = "answered" => c.reply \in {c.told[c.what]} \cup Unheard
    /\ c.at = "through" => Agreed(c)

CallHolds(w, t) == call[w].token = t /\ call[w].told["token"] = "authorised"
CallsTyped ==
    /\ call \in [Workers -> CallRows] /\ bound \in [Tokens -> Calls!Services]
    /\ consumed \subseteq Tokens /\ abandoned \subseteq Tokens \X Calls!Services /\ acted \in [Tokens -> Nat]
TokensHeld ==
    \A t \in Tokens :
        /\ t \notin consumed => acted[t] = 0 /\ \A w \in Workers : ~CallHolds(w, t)
        /\ acted[t] = 0 \/ (acted[t] = 1 /\ \A w \in Workers : ~CallHolds(w, t))
        /\ \A v, w \in Workers : CallHolds(v, t) /\ CallHolds(w, t) => v = w
        /\ \A w \in Workers : CallHolds(w, t) => bound[t] = call[w].svc
CallsIInv ==
    /\ CallsTyped /\ TokensHeld
    /\ \A w \in Workers : IF call[w].at = "idle" THEN call[w].token = None ELSE UnderWay(call[w])

\* The row of one call is replaced by one that no more holds a token than it did.
LEMMA CallReplaced ==
    ASSUME CallsIInv, NEW w \in Workers, NEW new \in CallRows, call' = [call EXCEPT ![w] = new],
           IF new.at = "idle" THEN new.token = None ELSE UnderWay(new),
           \A t \in Tokens : new.token = t /\ new.told["token"] = "authorised" => CallHolds(w, t) /\ new.svc = call[w].svc,
           UNCHANGED <<bound, consumed, acted>>, abandoned' \subseteq Tokens \X Calls!Services
    PROVE  CallsIInv'
<1>1. CallsTyped /\ TokensHeld
  BY DEF CallsIInv
<1>2. call' \in [Workers -> CallRows] /\ call'[w] = new /\ \A v \in Workers : v # w => call'[v] = call[v]
  BY <1>1 DEF CallsTyped
<1>3. CallsTyped'
  BY <1>1, <1>2 DEF CallsTyped
<1>4. \A v \in Workers : IF call'[v].at = "idle" THEN call'[v].token = None ELSE UnderWay(call'[v])
  BY <1>2 DEF CallsIInv
<1>5. \A t \in Tokens, v \in Workers : CallHolds(v, t)' => CallHolds(v, t) /\ call'[v].svc = call[v].svc
  BY <1>2 DEF CallHolds
<1>6. TokensHeld'
  BY <1>1, <1>5 DEF TokensHeld
<1> QED  BY <1>3, <1>4, <1>6 DEF CallsIInv

\* A call is over: nothing is held any more.
LEMMA NoCallRow ==
    /\ Calls!NoCall \in CallRows /\ Calls!NoCall.at = "idle" /\ Calls!NoCall.token = None
    /\ Calls!NoCall.told = [q \in Calls!Questions |-> None] /\ Calls!NoCall.list = {}
<1>1. [q \in Calls!Questions |-> None] \in [Calls!Questions -> Said]
  BY DEF Said
<1> QED  BY <1>1 DEF Calls!NoCall, CallRows, Said

LEMMA CallEndStep ==
    ASSUME CallsIInv, NEW w \in Workers, Calls!Refused(w) \/ Calls!Dies(w)
    PROVE  CallsIInv'
<1>1. call' = [call EXCEPT ![w] = Calls!NoCall] /\ UNCHANGED <<bound, consumed, abandoned, acted>>
  BY DEF Calls!Refused, Calls!Dies
<1>2. \A t \in Tokens : Calls!NoCall.token # t
  BY NoCallRow, CallsAssumption
<1>3. abandoned' \subseteq Tokens \X Calls!Services
  BY <1>1 DEF CallsIInv, CallsTyped
<1> QED  BY <1>1, <1>2, <1>3, NoCallRow, CallReplaced, ZenonT(60)

LEMMA AskStep ==
    ASSUME CallsIInv, NEW w \in Workers, NEW svc \in Calls!Services, NEW what \in Calls!Questions,
           NEW t \in Tokens \cup {None}, NEW narrow \in Clients \cup {None}, Calls!Ask(w, svc, what, t, narrow)
    PROVE  CallsIInv'
<1> DEFINE new == [Calls!NoCall EXCEPT !.at = "asking", !.svc = svc, !.what = what, !.token = t, !.narrow = narrow]
<1>1. /\ call' = [call EXCEPT ![w] = new] /\ UNCHANGED <<bound, consumed, abandoned, acted>>
      /\ what \in Calls!First(svc) /\ (t # None <=> what = "token")
  BY DEF Calls!Ask
<1>2. PICK none \in CallRows : none = Calls!NoCall
  BY NoCallRow
<1>3. /\ new \in CallRows /\ new.at = "asking" /\ new.svc = svc /\ new.what = what /\ new.token = t
      /\ new.told = none.told
  BY <1>2 DEF CallRows
<1> HIDE DEF new
<1>4. "token" \in Calls!Questions /\ new.told["token"] # "authorised"
  <2>1. "token" \in Calls!Questions
    BY DEF Calls!Questions
  <2> QED  BY <1>2, <1>3, <2>1, NoCallRow, CallsAssumption
<1>5. what \in {"permission", "token", "session", "roster", "gate", "outcome"}
  BY <1>1 DEF Calls!First
<1>6. UnderWay(new)
  BY <1>1, <1>3, <1>4, <1>5 DEF UnderWay
<1>7. abandoned' \subseteq Tokens \X Calls!Services
  BY <1>1 DEF CallsIInv, CallsTyped
<1> QED  BY <1>1, <1>3, <1>4, <1>6, <1>7, CallReplaced

\* A reply has come.
LEMMA HearingStep ==
    ASSUME NEW old \in CallRows, old.at = "asking", UnderWay(old), NEW a \in Said, a = "memberships" => old.what = "members",
           NEW reply \in {a} \cup Unheard, NEW list \in IF a = "memberships" THEN SUBSET Clients ELSE {old.list},
           NEW new, new = Calls!Hearing(old, a, reply, list)
    PROVE  /\ new \in CallRows /\ UnderWay(new) /\ new.at = "answered" /\ new.svc = old.svc /\ new.token = old.token
           /\ new.told["token"] = IF old.what = "token" THEN a ELSE old.told["token"]
<1> DEFINE heard == [old.told EXCEPT ![old.what] = a]
<1>1. old.what \in Calls!Questions /\ old.told \in [Calls!Questions -> Said] /\ list \in SUBSET Clients /\ reply \in Said \cup Unheard
  BY DEF CallRows, UnderWay
<1>2. heard \in [Calls!Questions -> Said] /\ heard[old.what] = a /\ \A q \in Calls!Questions : q # old.what => heard[q] = old.told[q]
  BY <1>1
<1>3. new = [old EXCEPT !.at = "answered", !.told = heard, !.reply = reply, !.list = list]
  BY DEF Calls!Hearing
<1> HIDE DEF heard
<1>4. /\ new \in CallRows /\ new.at = "answered" /\ new.told = heard /\ new.reply = reply /\ new.list = list
      /\ new.svc = old.svc /\ new.what = old.what /\ new.token = old.token /\ new.narrow = old.narrow /\ new.client = old.client
  BY <1>1, <1>2, <1>3 DEF CallRows
<1>5. {"session", "rate", "roster", "token"} \subseteq Calls!Questions
  BY DEF Calls!Questions
<1>6. new.told["token"] = IF old.what = "token" THEN a ELSE old.told["token"]
  BY <1>2, <1>4, <1>5
<1>7. UnderWay(new)
  <2>1. old.what \in {"rate", "status"} => list = old.list
    OBVIOUS
  <2>2. old.what \in {"rate", "status"} => Chosen(new)
    BY <1>4, <2>1 DEF UnderWay, Chosen
  <2> QED  BY <1>1, <1>2, <1>4, <1>5, <2>2 DEF UnderWay
<1> QED  BY <1>4, <1>6, <1>7

LEMMA RepliedFrom ==
    ASSUME CallsIInv, NEW w \in Workers, Calls!At(w, "asking"), NEW a \in Said, a = "memberships" => call[w].what = "members",
           NEW reply \in {a} \cup Unheard, Calls!Replied(w, a, reply)
    PROVE  \E new \in CallRows :
              /\ call' = [call EXCEPT ![w] = new] /\ UnderWay(new) /\ new.at = "answered"
              /\ new.svc = call[w].svc /\ new.token = call[w].token
              /\ new.told["token"] = IF call[w].what = "token" THEN a ELSE call[w].told["token"]
<1>1. call[w] \in CallRows /\ call[w].at = "asking" /\ UnderWay(call[w])
  BY DEF CallsIInv, CallsTyped, Calls!At
<1>2. PICK list \in IF a = "memberships" THEN SUBSET Clients ELSE {call[w].list} :
         call' = [call EXCEPT ![w] = Calls!Hearing(call[w], a, reply, list)]
  BY DEF Calls!Replied, Calls!ClientMemberships
<1>3. PICK new : new = Calls!Hearing(call[w], a, reply, list)
  OBVIOUS
<1>4. /\ new \in CallRows /\ UnderWay(new) /\ new.at = "answered" /\ new.svc = call[w].svc /\ new.token = call[w].token
      /\ new.told["token"] = IF call[w].what = "token" THEN a ELSE call[w].told["token"]
  BY <1>1, <1>2, <1>3, HearingStep
<1> QED  BY <1>2, <1>3, <1>4

\* A token's request holds nothing while it asks.
LEMMA AskingHoldsNot ==
    ASSUME CallsIInv, NEW w \in Workers, Calls!At(w, "asking"), NEW t \in Tokens
    PROVE  ~CallHolds(w, t) /\ (call[w].token = t => call[w].what = "token")
BY CallsAssumption DEF CallsIInv, Calls!At, UnderWay, CallHolds

LEMMA UnansweredStep ==
    ASSUME CallsIInv, NEW w \in Workers, Calls!Fails(w) \/ Calls!TimeOut(w)
    PROVE  CallsIInv'
<1>1. Calls!At(w, "asking") /\ UNCHANGED <<bound, consumed, acted>> /\ None \in Said /\ None # "memberships" /\ None # "authorised"
  BY CallsAssumption DEF Calls!Fails, Calls!TimeOut, Said
<1>2. PICK reply \in Unheard : Calls!Replied(w, None, reply)
  BY DEF Calls!Fails, Calls!TimeOut, Unheard
<1>3. PICK new \in CallRows :
         /\ call' = [call EXCEPT ![w] = new] /\ UnderWay(new) /\ new.at = "answered"
         /\ new.svc = call[w].svc /\ new.token = call[w].token
         /\ new.told["token"] = IF call[w].what = "token" THEN None ELSE call[w].told["token"]
  BY <1>1, <1>2, RepliedFrom
<1>4. \A t \in Tokens : ~(new.token = t /\ new.told["token"] = "authorised")
  BY <1>1, <1>3, AskingHoldsNot
<1>5. abandoned' \subseteq Tokens \X Calls!Services
  <2>1. abandoned \subseteq Tokens \X Calls!Services /\ UnderWay(call[w])
    BY <1>1 DEF CallsIInv, CallsTyped, Calls!At
  <2>2. call[w].what = "token" => call[w].token \in Tokens /\ call[w].svc \in Calls!Services
    BY <2>1 DEF UnderWay, CallsIInv, CallsTyped, CallRows
  <2> QED  BY <2>1, <2>2 DEF Calls!Fails, Calls!TimeOut
<1> QED  BY <1>1, <1>3, <1>4, <1>5, CallReplaced

LEMMA ServeStep ==
    ASSUME CallsIInv, NEW w \in Workers, Calls!Serve(w)
    PROVE  CallsIInv'
<1>1. PICK a \in Calls!Answers(call[w]) :
         /\ \E reply \in {a, "lost", "garbled"} : Calls!Replied(w, a, reply)
         /\ consumed' = IF a = "authorised" THEN consumed \cup {call[w].token} ELSE consumed
  BY DEF Calls!Serve
<1>2. Calls!At(w, "asking") /\ UNCHANGED <<bound, abandoned, acted>> /\ UnderWay(call[w]) /\ call[w] \in CallRows
  BY DEF Calls!Serve, CallsIInv, CallsTyped, Calls!At
<1>3. /\ a \in Said /\ (a = "memberships" => call[w].what = "members")
      /\ a = "authorised" => call[w].what = "token" /\ Calls!ExecuteVerify(call[w].token, call[w].svc)
  <2>1. call[w].what \in Calls!Questions
    BY <1>2 DEF UnderWay
  <2>2. CASE call[w].what = "token"
    <3>1. a = IF Calls!ExecuteVerify(call[w].token, call[w].svc) THEN "authorised" ELSE "refused"
      BY <1>1, <2>2 DEF Calls!Answers
    <3> QED  BY <2>2, <3>1 DEF Said
  <2>3. CASE call[w].what \in Calls!Questions \ {"token"}
    BY <1>1, <2>3 DEF Calls!Answers, Calls!Questions, Calls!PermissionCheck, Calls!BaselinePass, Calls!SessionValidate,
                      Calls!PreTransactionScreen, Said
  <2> QED  BY <2>1, <2>2, <2>3
<1>4. PICK reply \in {a} \cup Unheard : Calls!Replied(w, a, reply)
  BY <1>1 DEF Unheard
<1>5. PICK new \in CallRows :
         /\ call' = [call EXCEPT ![w] = new] /\ UnderWay(new) /\ new.at = "answered"
         /\ new.svc = call[w].svc /\ new.token = call[w].token
         /\ new.told["token"] = IF call[w].what = "token" THEN a ELSE call[w].told["token"]
  BY <1>2, <1>3, <1>4, RepliedFrom
<1>6. abandoned' \subseteq Tokens \X Calls!Services
  BY <1>2 DEF CallsIInv, CallsTyped
<1>7. CASE a # "authorised"
  <2>1. \A t \in Tokens : ~(new.token = t /\ new.told["token"] = "authorised")
    BY <1>2, <1>5, <1>7, AskingHoldsNot
  <2> QED  BY <1>1, <1>2, <1>5, <1>6, <1>7, <2>1, CallReplaced
<1>8. CASE a = "authorised"
  <2>1. CallsTyped /\ TokensHeld
    BY DEF CallsIInv
  <2>2. PICK t \in Tokens : t = call[w].token
    BY <1>2, <1>3, <1>8 DEF UnderWay, CallRows
  <2>3. t \notin consumed /\ bound[t] = new.svc /\ consumed' = consumed \cup {t} /\ new.token = t /\ new.told["token"] = "authorised"
    BY <1>1, <1>3, <1>5, <1>8, <2>2 DEF Calls!ExecuteVerify
  <2>4. acted[t] = 0 /\ \A v \in Workers : ~CallHolds(v, t)
    BY <2>1, <2>3 DEF TokensHeld
  <2>5. call' \in [Workers -> CallRows] /\ call'[w] = new /\ \A v \in Workers : v # w => call'[v] = call[v]
    BY <1>5, <2>1 DEF CallsTyped
  <2>6. CallsTyped'
    BY <1>2, <1>6, <2>1, <2>3, <2>5 DEF CallsTyped
  <2>7. \A v \in Workers : IF call'[v].at = "idle" THEN call'[v].token = None ELSE UnderWay(call'[v])
    BY <1>5, <2>5 DEF CallsIInv
  <2>8. \A u \in Tokens, v \in Workers : CallHolds(v, u)' => (v = w /\ u = t) \/ (v # w /\ u # t /\ CallHolds(v, u) /\ call'[v].svc = call[v].svc)
    BY <2>3, <2>4, <2>5 DEF CallHolds
  <2>9. TokensHeld'
    <3>1. ASSUME NEW u \in Tokens
          PROVE  /\ u \notin consumed' => acted'[u] = 0 /\ \A v \in Workers : ~CallHolds(v, u)'
                 /\ acted'[u] = 0 \/ (acted'[u] = 1 /\ \A v \in Workers : ~CallHolds(v, u)')
                 /\ \A v, x \in Workers : CallHolds(v, u)' /\ CallHolds(x, u)' => v = x
                 /\ \A v \in Workers : CallHolds(v, u)' => bound'[u] = call'[v].svc
      <4>1. CASE u = t
        BY <1>2, <2>3, <2>4, <2>5, <2>8, <4>1
      <4>2. CASE u # t
        BY <1>2, <2>1, <2>3, <2>8, <4>2 DEF TokensHeld
      <4> QED  BY <4>1, <4>2
    <3> QED  BY <3>1 DEF TokensHeld
  <2> QED  BY <2>6, <2>7, <2>9 DEF CallsIInv
<1> QED  BY <1>7, <1>8

LEMMA StragglerStep ==
    ASSUME CallsIInv, NEW t \in Tokens, NEW svc \in Calls!Services, Calls!Straggler(t, svc)
    PROVE  CallsIInv'
<1>1. /\ UNCHANGED <<call, bound, acted>> /\ abandoned' \subseteq abandoned
      /\ consumed \subseteq consumed' /\ consumed' \subseteq consumed \cup {t}
  BY DEF Calls!Straggler
<1>2. CallsTyped'
  BY <1>1 DEF CallsIInv, CallsTyped
<1>3. \A v \in Workers : IF call'[v].at = "idle" THEN call'[v].token = None ELSE UnderWay(call'[v])
  BY <1>1 DEF CallsIInv
<1>4. TokensHeld'
  <2>1. \A u \in Tokens, v \in Workers : CallHolds(v, u)' <=> CallHolds(v, u)
    BY <1>1 DEF CallHolds
  <2> QED  BY <1>1, <2>1 DEF CallsIInv, TokensHeld
<1> QED  BY <1>2, <1>3, <1>4 DEF CallsIInv

\* A question that is answered so that the request goes on has been answered by the one asked.
LEMMA AcceptedWasSaid ==
    ASSUME NEW c \in CallRows, UnderWay(c), c.at = "answered", Calls!Accepts(c)
    PROVE  /\ c.what = "permission" => c.told["permission"] \in (IF c.svc = "SEC-01" THEN {"allow"} ELSE Calls!BaselinePass)
           /\ c.what = "token" => c.told["token"] = "authorised"
           /\ c.what = "session" => c.told["session"] = "client"
           /\ c.what = "members" => Calls!ResolveClientId(c.list, c.narrow) # {}
           /\ c.what = "rate" => c.told["rate"] = "allow"
           /\ c.what = "status" => c.told["status"] \in {"active", "active_limited"}
           /\ c.what = "roster" => c.told["roster"] = "parties"
           /\ c.what = "screening" => c.told["screening"] = "allow"
           /\ c.what = "gate" => c.told["gate"] = "allow"
           /\ c.what = "outcome" => c.told["outcome"] = "stored"
<1>1. c.reply = c.told[c.what] \/ c.reply \in {"lost", "garbled", "error"}
  BY DEF UnderWay, Unheard
<1>2. CASE c.what = "permission"
  <2>1. Calls!CheckPermission(c.svc, c.reply)
    BY <1>2 DEF Calls!Accepts
  <2>2. c.reply \in (IF c.svc = "SEC-01" THEN {"allow"} ELSE Calls!BaselinePass)
    BY <2>1 DEF Calls!CheckPermission, Calls!WltCheckPermission, Calls!KycCheckPermission, Calls!AmlCheckPermission,
                Calls!CltCheckPermission, Calls!CfgCheckPermission, Calls!SecCheckPermission
  <2>3. c.reply \notin {"lost", "garbled", "error"}
    BY <2>2 DEF Calls!BaselinePass
  <2> QED  BY <1>1, <1>2, <2>2, <2>3
<1>3. CASE c.what = "token"
  <2>1. Calls!VerifyDecisionToken(c.svc, c.reply)
    BY <1>3 DEF Calls!Accepts
  <2>2. c.reply = "authorised"
    BY <2>1 DEF Calls!VerifyDecisionToken, Calls!WltVerifyDecisionToken, Calls!KycVerifyDecisionToken, Calls!AmlVerifyDecisionToken,
                Calls!CltVerifyDecisionToken, Calls!CfgVerifyDecisionToken, Calls!SecVerifyDecisionToken
  <2> QED  BY <1>1, <1>3, <2>2
<1>4. CASE c.what \in Calls!Questions \ {"permission", "token"}
  BY <1>1, <1>4
     DEF Calls!Questions, Calls!Accepts, Calls!IntrospectSession, Calls!ResolveClientMemberships, Calls!CheckRateLimit,
         Calls!CheckClientStatus, Calls!FetchActiveAuthorisedPartyRefs, Calls!ScreenPreTransaction, Calls!EvaluateOnboardingGate,
         Calls!PostToClt1
<1> QED  BY <1>2, <1>3, <1>4 DEF UnderWay

LEMMA ProceedStep ==
    ASSUME CallsIInv, NEW w \in Workers, Calls!Proceed(w)
    PROVE  CallsIInv'
<1>1. PICK old \in CallRows : old = call[w] /\ UnderWay(old) /\ old.at = "answered" /\ Calls!Accepts(old)
  BY DEF CallsIInv, CallsTyped, Calls!Proceed, Calls!At
<1>2. PICK next : next = Calls!Then(old.what)
  OBVIOUS
<1>3. PICK client \in IF old.what = "members" THEN Calls!ResolveClientId(old.list, old.narrow) ELSE {old.client} :
         call' = [call EXCEPT ![w] = [old EXCEPT !.at = IF next = None THEN "through" ELSE "asking", !.reply = None,
                                                 !.what = IF next = None THEN old.what ELSE next, !.client = client]]
  BY <1>1, <1>2 DEF Calls!Proceed
<1>4. UNCHANGED <<bound, consumed, abandoned, acted>>
  BY DEF Calls!Proceed
<1> DEFINE at == IF next = None THEN "through" ELSE "asking"
           what == IF next = None THEN old.what ELSE next
           new == [old EXCEPT !.at = at, !.reply = None, !.what = what, !.client = client]
<1>5. /\ next \in {"members", "rate", "status", "screening"} \/ next = None
      /\ next = "members" <=> old.what = "session"
      /\ next = "rate" <=> old.what = "members"
      /\ next = "status" <=> old.what = "rate"
      /\ next = "screening" <=> old.what = "roster"
      /\ None \notin Calls!Questions /\ old.what \in Calls!Questions
      /\ {"members", "rate", "status", "screening", "token", "session", "roster"} \subseteq Calls!Questions
  <2>1. /\ None \notin Calls!Questions /\ old.what \in Calls!Questions
        /\ {"members", "rate", "status", "screening", "token", "session", "roster"} \subseteq Calls!Questions
    BY <1>1, CallsAssumption DEF UnderWay, Calls!Questions
  <2>2. next \in {"members", "rate", "status", "screening"} => next # None
    BY <2>1
  <2> QED  BY <1>2, <2>1, <2>2 DEF Calls!Then
<1>6. /\ at \in {"through", "asking"} /\ at # "idle" /\ at # "answered" /\ (at = "through" <=> next = None)
      /\ what \in Calls!Questions /\ client \in Clients \cup {None}
  <2>1. client \in Clients \cup {None}
    BY <1>3 DEF Calls!ResolveClientId, CallRows
  <2> QED  BY <1>5, <2>1
<1>7. old.what = "members" => client \in old.list /\ old.narrow \in {None, client} /\ (old.narrow = None => old.list = {client})
  <2>1. old.what = "members" => client \in old.list /\ (old.narrow = client \/ (old.narrow = None /\ old.list = {client}))
    BY <1>3 DEF Calls!ResolveClientId
  <2>2. old.list \subseteq Clients /\ None \notin Clients
    BY CallsAssumption DEF CallRows
  <2> QED  BY <2>1, <2>2
<1>8. old.what # "members" => client = old.client
  BY <1>3
<1> HIDE DEF at, what
<1>9. /\ new \in CallRows /\ new.at = at /\ new.what = what /\ new.client = client /\ new.told = old.told
      /\ new.svc = old.svc /\ new.token = old.token /\ new.narrow = old.narrow /\ new.list = old.list
  <2>1. None \in Said \cup Unheard /\ at \in {"idle", "asking", "answered", "through"} /\ what \in Calls!Questions \cup {None}
    BY <1>6 DEF Said
  <2>2. new = [old EXCEPT !.at = at, !.reply = None, !.what = what, !.client = client]
    OBVIOUS
  <2> HIDE DEF new
  <2>3. /\ new.at = at /\ new.what = what /\ new.client = client /\ new.told = old.told
        /\ new.svc = old.svc /\ new.token = old.token /\ new.narrow = old.narrow /\ new.list = old.list
    BY <2>2 DEF CallRows
  <2>4. new \in CallRows
    BY <1>6, <2>1, <2>2 DEF CallRows
  <2> QED  BY <2>3, <2>4
<1>10. call' = [call EXCEPT ![w] = new]
  BY <1>3 DEF at, what
<1> HIDE DEF new
<1>11. UnderWay(new)
  <2>1. new.what \in Calls!Questions /\ new.svc \in Calls!Services /\ new.at # "answered"
    BY <1>1, <1>6, <1>9 DEF UnderWay
  <2>2. (new.what = "token" <=> new.token # None) /\ (new.at = "asking" => new.what # "token")
    BY <1>1, <1>5, <1>6, <1>9 DEF UnderWay, what
  <2>3. /\ new.what \in {"members", "rate", "status"} => new.told["session"] = "client"
        /\ new.what = "status" => new.told["rate"] = "allow"
        /\ new.what = "screening" => new.told["roster"] = "parties"
    BY <1>1, <1>5, <1>9, AcceptedWasSaid DEF UnderWay, what
  <2>4. new.what \in {"rate", "status"} => Chosen(new)
    <3>1. new.what \in {"rate", "status"} => old.what \in {"members", "rate", "status"}
      BY <1>5, <1>9 DEF what
    <3>2. old.what \in {"rate", "status"} => Chosen(old)
      BY <1>1 DEF UnderWay
    <3> QED  BY <1>7, <1>8, <1>9, <3>1, <3>2 DEF Chosen
  <2>5. new.at = "through" => Agreed(new)
    <3>1. new.at = "through" =>
             new.what = old.what /\ old.what \in Calls!Questions \ {"session", "members", "rate", "roster"}
      BY <1>5, <1>6, <1>9 DEF what
    <3> QED  BY <1>1, <1>9, <3>1, AcceptedWasSaid DEF Agreed, Calls!Questions
  <2> QED  BY <2>1, <2>2, <2>3, <2>4, <2>5 DEF UnderWay
<1>12. \A t \in Tokens : new.token = t /\ new.told["token"] = "authorised" => CallHolds(w, t) /\ new.svc = call[w].svc
  BY <1>1, <1>9 DEF CallHolds
<1>13. abandoned' \subseteq Tokens \X Calls!Services
  BY <1>4 DEF CallsIInv, CallsTyped
<1> QED  BY <1>4, <1>6, <1>9, <1>10, <1>11, <1>12, <1>13, CallReplaced

LEMMA ActStep ==
    ASSUME CallsIInv, NEW w \in Workers, Calls!Act(w)
    PROVE  CallsIInv'
<1>1. /\ call' = [call EXCEPT ![w] = Calls!NoCall] /\ UNCHANGED <<bound, consumed, abandoned>>
      /\ acted' = IF call[w].what = "token" THEN [acted EXCEPT ![call[w].token] = @ + 1] ELSE acted
      /\ UnderWay(call[w]) /\ call[w] \in CallRows /\ call[w].at = "through"
  BY DEF Calls!Act, Calls!At, CallsIInv, CallsTyped
<1>2. CASE call[w].what # "token"
  <2>1. \A t \in Tokens : Calls!NoCall.token # t
    BY NoCallRow, CallsAssumption
  <2>2. abandoned' \subseteq Tokens \X Calls!Services
    BY <1>1 DEF CallsIInv, CallsTyped
  <2> QED  BY <1>1, <1>2, <2>1, <2>2, NoCallRow, CallReplaced, ZenonT(60)
<1>3. CASE call[w].what = "token"
  <2>1. PICK t \in Tokens : t = call[w].token
    BY <1>1, <1>3 DEF UnderWay, CallRows
  <2>2. CallHolds(w, t)
    BY <1>1, <1>3, <2>1 DEF UnderWay, Agreed, CallHolds
  <2>3. CallsTyped /\ TokensHeld
    BY DEF CallsIInv
  <2>4. t \in consumed /\ acted[t] = 0 /\ \A v \in Workers : v # w => ~CallHolds(v, t)
    BY <2>2, <2>3 DEF TokensHeld
  <2>5. acted' \in [Tokens -> Nat] /\ acted'[t] = 1 /\ \A u \in Tokens : u # t => acted'[u] = acted[u]
    BY <1>1, <1>3, <2>1, <2>3, <2>4 DEF CallsTyped
  <2>6. call' \in [Workers -> CallRows] /\ call'[w] = Calls!NoCall /\ \A v \in Workers : v # w => call'[v] = call[v]
    BY <1>1, <2>3, NoCallRow DEF CallsTyped
  <2>7. CallsTyped'
    BY <1>1, <2>3, <2>5, <2>6 DEF CallsTyped
  <2>8. \A v \in Workers : IF call'[v].at = "idle" THEN call'[v].token = None ELSE UnderWay(call'[v])
    BY <2>6, NoCallRow DEF CallsIInv
  <2>9. \A u \in Tokens, v \in Workers : CallHolds(v, u)' => v # w /\ u # t /\ CallHolds(v, u) /\ call'[v].svc = call[v].svc
    BY <2>4, <2>6, NoCallRow, CallsAssumption DEF CallHolds
  <2>10. TokensHeld'
    <3>1. ASSUME NEW u \in Tokens
          PROVE  /\ u \notin consumed' => acted'[u] = 0 /\ \A v \in Workers : ~CallHolds(v, u)'
                 /\ acted'[u] = 0 \/ (acted'[u] = 1 /\ \A v \in Workers : ~CallHolds(v, u)')
                 /\ \A v, x \in Workers : CallHolds(v, u)' /\ CallHolds(x, u)' => v = x
                 /\ \A v \in Workers : CallHolds(v, u)' => bound'[u] = call'[v].svc
      <4>1. CASE u = t
        BY <1>1, <2>4, <2>5, <2>9, <4>1
      <4>2. CASE u # t
        BY <1>1, <2>3, <2>5, <2>9, <4>2 DEF TokensHeld
      <4> QED  BY <4>1, <4>2
    <3> QED  BY <3>1 DEF TokensHeld
  <2> QED  BY <2>7, <2>8, <2>10 DEF CallsIInv
<1> QED  BY <1>2, <1>3

LEMMA CallsBegin == Calls!Init => CallsIInv
<1> SUFFICES ASSUME Calls!Init PROVE CallsIInv
  OBVIOUS
<1>1. CallsTyped
  BY NoCallRow DEF Calls!Init, CallsTyped
<1>2. \A w \in Workers : call[w].at = "idle" /\ call[w].token = None
  BY NoCallRow DEF Calls!Init
<1>3. \A t \in Tokens : acted[t] = 0 /\ \A w \in Workers : ~CallHolds(w, t)
  BY <1>2, CallsAssumption DEF Calls!Init, CallHolds
<1> QED  BY <1>1, <1>2, <1>3 DEF CallsIInv, TokensHeld

LEMMA CallsStep == CallsIInv /\ [Calls!Next]_Calls!vars => CallsIInv'
<1> SUFFICES ASSUME CallsIInv, [Calls!Next]_Calls!vars PROVE CallsIInv'
  OBVIOUS
<1>1. CASE UNCHANGED Calls!vars
  <2>1. UNCHANGED <<call, bound, consumed, abandoned, acted>>
    BY <1>1 DEF Calls!vars
  <2> QED  BY <2>1 DEF CallsIInv, CallsTyped, TokensHeld, CallHolds
<1>2. ASSUME NEW w \in Workers, NEW svc \in Calls!Services, NEW what \in Calls!Questions,
             NEW t \in Tokens \cup {None}, NEW narrow \in Clients \cup {None}, Calls!Ask(w, svc, what, t, narrow)
      PROVE  CallsIInv'
  BY <1>2, AskStep
<1>3. ASSUME NEW w \in Workers,
             \/ Calls!Serve(w) \/ Calls!Fails(w) \/ Calls!TimeOut(w) \/ Calls!Refused(w)
             \/ Calls!Proceed(w) \/ Calls!Act(w) \/ Calls!Dies(w)
      PROVE  CallsIInv'
  BY <1>3, ServeStep, UnansweredStep, CallEndStep, ProceedStep, ActStep
<1>4. ASSUME NEW t \in Tokens, NEW svc \in Calls!Services, Calls!Straggler(t, svc)
      PROVE  CallsIInv'
  BY <1>4, StragglerStep
<1> QED  BY <1>1, <1>2, <1>3, <1>4 DEF Calls!Next

LEMMA CallsSound == CallsIInv => Calls!TypeOK /\ Calls!ActedOnce /\ Calls!GoesOnAsTold
<1> SUFFICES ASSUME CallsIInv PROVE Calls!TypeOK /\ Calls!ActedOnce /\ Calls!GoesOnAsTold
  OBVIOUS
<1>1. CallsTyped /\ TokensHeld
  BY DEF CallsIInv
<1>2. \A w \in Workers : call[w] \in CallRows /\ (call[w].at # "idle" => UnderWay(call[w]))
  BY <1>1 DEF CallsIInv, CallsTyped
<1>3. Calls!TypeOK
  BY <1>1, <1>2 DEF Calls!TypeOK, CallsTyped, CallRows
<1>4. \A w \in Workers : Calls!At(w, "through") => UnderWay(call[w]) /\ Agreed(call[w])
  BY <1>2 DEF Calls!At, UnderWay
<1>5. \A w \in Workers, t \in Tokens : Calls!At(w, "through") /\ call[w].token = t => CallHolds(w, t)
  BY <1>4, CallsAssumption DEF UnderWay, Agreed, CallHolds
<1>6. Calls!ActedOnce
  <2>1. ASSUME NEW t \in Tokens
        PROVE  acted[t] + Calls!Cardinality({w \in Workers : Calls!At(w, "through") /\ call[w].token = t})
                 <= (IF t \in consumed THEN 1 ELSE 0)
    <3> DEFINE S == {w \in Workers : Calls!At(w, "through") /\ call[w].token = t}
    <3>1. Calls!Cardinality(S) = Cardinality(S)
      BY DEF Cardinality, IsFiniteSet, Calls!Cardinality, Calls!IsFiniteSet
    <3>2. \A w \in S : w \in Workers /\ CallHolds(w, t)
      BY <1>5
    <3> HIDE DEF S
    <3>3. CASE S = {}
      <4>1. Cardinality(S) = 0
        BY <3>3, FS_EmptySet
      <4>2. acted[t] \in {0, 1} /\ (t \notin consumed => acted[t] = 0)
        BY <1>1 DEF TokensHeld
      <4> QED  BY <3>1, <4>1, <4>2 DEF S
    <3>4. CASE S # {}
      <4>1. PICK w \in S : TRUE
        BY <3>4
      <4>2. S = {w}
        BY <1>1, <3>2, <4>1 DEF TokensHeld
      <4>3. t \in consumed /\ acted[t] = 0
        BY <1>1, <3>2, <4>1 DEF TokensHeld
      <4>4. Cardinality(S) = 1
        BY <4>2, FS_Singleton
      <4> QED  BY <3>1, <4>3, <4>4 DEF S
    <3> QED  BY <3>3, <3>4
  <2>2. ASSUME NEW w \in Workers, Calls!At(w, "through"), call[w].token # None
        PROVE  bound[call[w].token] = call[w].svc
    <3>1. call[w].token \in Tokens
      BY <1>2, <2>2 DEF CallRows
    <3>2. CallHolds(w, call[w].token)
      BY <1>5, <2>2, <3>1
    <3> QED  BY <1>1, <3>1, <3>2 DEF TokensHeld
  <2> QED  BY <2>1, <2>2 DEF Calls!ActedOnce
<1>7. Calls!GoesOnAsTold
  <2>1. ASSUME NEW w \in Workers, Calls!At(w, "through")
        PROVE  LET c == call[w]
               IN
               CASE c.what = "permission" ->
                       c.told.permission \in (IF c.svc = "SEC-01" THEN {"allow"} ELSE Calls!BaselinePass)
                 [] c.what = "token" -> c.told.token = "authorised"
                 [] c.what = "status" ->
                       /\ c.told.session = "client" /\ c.told.rate = "allow" /\ c.client \in c.list
                       /\ c.narrow \in {None, c.client}
                       /\ c.narrow = None => c.list = {c.client}
                       /\ c.told.status \in {"active", "active_limited"}
                 [] c.what = "screening" -> c.told.roster = "parties" /\ c.told.screening = "allow"
                 [] OTHER -> c.told[c.what] \in {"allow", "stored"}
    BY <1>4, <2>1 DEF UnderWay, Agreed, Chosen
  <2> QED  BY <2>1 DEF Calls!GoesOnAsTold
<1> QED  BY <1>3, <1>6, <1>7

-----------------------------------------------------------------------------
(* The changes of features and licences.  A change is held by one worker   *)
(* from its lock on, a licence's row from its read on; a row's version is  *)
(* the last that was applied to it, above the one it began with, which is  *)
(* 0 of a feature that was not there; and a token's version is one of the  *)
(* row's, which was enabled with it.                                       *)

FeaturePoints == {"idle", "verified", "locked", "read", "written", "sealing", "sealed"}
FeatureRows == [is : {"enabled", "disabled", "locked", None}, version : Nat]
FeatureTasks == [at : FeaturePoints, change : FeatureChanges \cup {None}, version : Nat, seal : Nat]
FeatureTokens == [status : {None, "active", "revoked"}, feature : Features \cup {None}, version : Nat, licence : Nat]
FeatureSeals == [version : Nat, of : [Features -> FeatureRows] \cup [Licences -> FeatureRows]]

FeatureTyped ==
    /\ state \in [Feature!Rows -> FeatureRows]
    /\ seal \in [Feature!Scopes -> FeatureSeals]
    /\ change \in [FeatureChanges -> {None, "requested", "applied"}]
    /\ token \in [Tokens -> FeatureTokens]
    /\ featureWork \in [Workers -> FeatureTasks]
    /\ applied \in [Feature!Rows -> Seq(Nat)]

InHand(w) == Feature!Now(w) \in {"locked", "read", "written", "sealing", "sealed"}
HasRead(w) == Feature!Now(w) \in {"read", "written", "sealing", "sealed"}
HasWritten(w) == Feature!Now(w) \in {"written", "sealing", "sealed"}

\* The version a row began with, and the one it had after p changes.
Base(r) == IF applied[r] = <<>> THEN state[r].version ELSE applied[r][1] - 1
VersionAt(r, p) == IF p = 0 THEN Base(r) ELSE applied[r][p]

FeatureFit(w) ==
    /\ Feature!Now(w) # "idle" => featureWork[w].change \in FeatureChanges
    /\ InHand(w) => change[featureWork[w].change] = "requested"
    /\ HasRead(w) =>
          /\ featureWork[w].version >= Base(Feature!Row(w))
          /\ applied[Feature!Row(w)] = <<>> => featureWork[w].version = state[Feature!Row(w)].version
          /\ Feature!Row(w) \in Licences => featureWork[w].version = state[Feature!Row(w)].version
    /\ HasWritten(w) /\ featureWork[w].version = 0 => applied[Feature!Row(w)] = <<>>
ChangesApart(v, w) ==
    /\ InHand(v) /\ InHand(w) => featureWork[v].change # featureWork[w].change
    /\ HasRead(v) /\ HasRead(w) /\ Feature!Row(v) \in Licences => Feature!Row(v) # Feature!Row(w)
    /\ HasWritten(v) /\ HasWritten(w) => Feature!Row(v) # Feature!Row(w)

Versioned(r) ==
    /\ state[r].version = VersionAt(r, Len(applied[r]))
    /\ \A i \in 1..Len(applied[r]) : applied[r][i] > Base(r)
    /\ \A i \in 1..Len(applied[r]) : applied[r][i] = 1 => i = 1
    /\ applied[r] # <<>> => Feature!Exists(r)
    /\ r \in Licences => \A i \in 1..Len(applied[r]) : applied[r][i] <= state[r].version
AppliedTo(r) == {c \in FeatureChanges : Target[c] = r /\ change[c] = "applied"}
AppliedIn(scope) == {c \in FeatureChanges : change[c] = "applied" /\ Feature!Scope(Target[c]) = scope}
Issued(t) ==
    token[t] # Feature!NoToken =>
       /\ token[t].feature \in Features /\ token[t].status # None
       /\ \E p \in 0..Len(applied[token[t].feature]) :
             /\ token[t].version = VersionAt(token[t].feature, p)
             /\ p = Len(applied[token[t].feature]) => state[token[t].feature].is = "enabled"

Doubted(t) == t \in Tokens /\ token[t] # Feature!NoToken /\ Feature!Overlapped(token[t].feature)

FeatureIInv ==
    /\ FeatureTyped /\ Feature!SealMatches /\ Feature!LicenceVersionsDiffer
    /\ \A scope \in Feature!Scopes :
          seal[scope].version = Cardinality(AppliedIn(scope)) + (IF scope = "feature" THEN 0 ELSE 1)
    /\ \A c \in FeatureChanges : change[c] = "applied" => applied[Target[c]] # <<>>
    /\ \A r \in Feature!Rows : Versioned(r) /\ Len(applied[r]) <= Cardinality(AppliedTo(r))
    /\ \A w \in Workers : FeatureFit(w)
    /\ \A v, w \in Workers : v # w => ChangesApart(v, w)
    /\ \A t \in Tokens : Issued(t)
    /\ \A t \in verified : Doubted(t)

LEMMA FeatureSize == \A S : Feature!Cardinality(S) = Cardinality(S)
BY DEF Cardinality, IsFiniteSet, Feature!Cardinality, Feature!IsFiniteSet

LEMMA FeatureRowOf ==
  ASSUME FeatureIInv, NEW w \in Workers, Feature!Now(w) # "idle"
  PROVE  /\ featureWork[w].change \in FeatureChanges /\ Feature!Row(w) \in Feature!Rows
         /\ Feature!Scope(Feature!Row(w)) \in Feature!Scopes
BY FeatureAssumption DEF FeatureIInv, FeatureFit, Feature!Row, Feature!Rows, Feature!Scope, Feature!Scopes

LEMMA FeatureBegins == Feature!Init => FeatureIInv
<1> SUFFICES ASSUME Feature!Init PROVE FeatureIInv
  OBVIOUS
<1> USE FeatureAssumption DEF Feature!Init
<1>1. Feature!NewRow \in FeatureRows /\ Feature!NoRow \in FeatureRows
  BY DEF Feature!NewRow, Feature!NoRow, FeatureRows
<1>2. Feature!Idle \in FeatureTasks /\ Feature!Idle.at = "idle"
  BY DEF Feature!Idle, FeatureTasks, FeaturePoints
<1>3. Feature!NoToken \in FeatureTokens
  BY DEF Feature!NoToken, FeatureTokens
<1>4. \A r \in Feature!Rows : applied[r] = <<>>
  OBVIOUS
<1>5. state \in [Feature!Rows -> FeatureRows]
  BY <1>1
<1>6. seal \in [Feature!Scopes -> FeatureSeals]
  <2>1. ASSUME NEW scope \in Feature!Scopes
        PROVE  [version |-> IF scope = "feature" THEN 0 ELSE 1, of |-> [r \in Feature!RowsOf(scope) |-> state[r]]] \in FeatureSeals
    <3>1. [r \in Feature!RowsOf(scope) |-> state[r]] \in [Features -> FeatureRows] \cup [Licences -> FeatureRows]
      BY <1>5 DEF Feature!RowsOf, Feature!Rows
    <3> QED  BY <3>1 DEF FeatureSeals
  <2> QED  BY <2>1
<1>7. FeatureTyped
  BY <1>2, <1>3, <1>5, <1>6 DEF FeatureTyped, Feature!NoChanges
<1>8. Feature!SealMatches /\ Feature!LicenceVersionsDiffer
  BY <1>4 DEF Feature!SealMatches, Feature!LicenceVersionsDiffer, Feature!Rows
<1>9. AppliedIn("feature") = {} /\ AppliedIn("licence_profile") = {} /\ \A r \in Feature!Rows : AppliedTo(r) = {}
  BY SwitchAssumption DEF AppliedIn, AppliedTo, Feature!NoChanges
<1>10. Cardinality({}) = 0
  BY FS_EmptySet
<1>11. \A scope \in Feature!Scopes :
          seal[scope].version = Cardinality(AppliedIn(scope)) + (IF scope = "feature" THEN 0 ELSE 1)
  <2>1. ASSUME NEW scope \in Feature!Scopes PROVE Cardinality(AppliedIn(scope)) = 0
    BY <1>9, <1>10 DEF Feature!Scopes
  <2>2. ASSUME NEW scope \in Feature!Scopes PROVE seal[scope].version = IF scope = "feature" THEN 0 ELSE 1
    OBVIOUS
  <2> QED  BY <2>1, <2>2
<1>12. \A r \in Feature!Rows : Versioned(r) /\ Len(applied[r]) <= Cardinality(AppliedTo(r))
  <2>1. ASSUME NEW r \in Feature!Rows PROVE Versioned(r)
    BY <1>1, <1>4 DEF Versioned, VersionAt, Base, Feature!Exists
  <2>2. ASSUME NEW r \in Feature!Rows PROVE Len(applied[r]) <= Cardinality(AppliedTo(r))
    <3>1. Len(applied[r]) = 0 /\ Cardinality(AppliedTo(r)) = 0
      BY <1>4, <1>9, <1>10
    <3> QED  BY <3>1
  <2> QED  BY <2>1, <2>2
<1>13. /\ \A w \in Workers : FeatureFit(w)
       /\ \A v, w \in Workers : v # w => ChangesApart(v, w)
       /\ \A t \in Tokens : Issued(t)
       /\ \A c \in FeatureChanges : change[c] # "applied"
       /\ verified = {}
  BY <1>2, SwitchAssumption DEF FeatureFit, ChangesApart, InHand, HasRead, HasWritten, Feature!Now, Issued, Feature!NoChanges
<1> QED  BY <1>7, <1>8, <1>11, <1>12, <1>13 DEF FeatureIInv

\* A step of one worker that changes no row.
LEMMA FeatureTaskStep ==
  ASSUME FeatureIInv, NEW w \in Workers, NEW x \in FeatureTasks, featureWork' = [featureWork EXCEPT ![w] = x],
         UNCHANGED <<state, seal, change, token, killed, applied, verified>>, FeatureFit(w)',
         \A v \in Workers \ {w} : ChangesApart(v, w)' /\ ChangesApart(w, v)'
  PROVE  FeatureIInv'
<1>1. /\ featureWork' \in [Workers -> FeatureTasks] /\ featureWork'[w] = x
      /\ \A v \in Workers \ {w} : featureWork'[v] = featureWork[v]
  BY DEF FeatureIInv, FeatureTyped
<1>2. FeatureTyped'
  BY <1>1 DEF FeatureIInv, FeatureTyped
<1>3. \A v \in Workers : FeatureFit(v)'
  BY <1>1 DEF FeatureIInv, FeatureFit, InHand, HasRead, HasWritten, Base, Feature!Now, Feature!Row
<1>4. \A u, v \in Workers : u # v => ChangesApart(u, v)'
  BY <1>1 DEF FeatureIInv, ChangesApart, InHand, HasRead, HasWritten, Feature!Now, Feature!Row
<1>5. /\ Feature!SealMatches' /\ Feature!LicenceVersionsDiffer'
      /\ \A t \in Tokens : Issued(t)'
      /\ \A t \in verified' : Doubted(t)'
  BY DEF FeatureIInv, Doubted, Feature!SealMatches, Feature!LicenceVersionsDiffer, Issued, VersionAt, Base, Feature!Overlapped
<1>6. /\ \A scope \in Feature!Scopes :
            seal'[scope].version = Cardinality(AppliedIn(scope)') + (IF scope = "feature" THEN 0 ELSE 1)
      /\ \A r \in Feature!Rows : Versioned(r)' /\ Len(applied'[r]) <= Cardinality(AppliedTo(r)')
  BY DEF FeatureIInv, AppliedIn, AppliedTo, Versioned, VersionAt, Base, Feature!Exists
<1> QED  BY <1>2, <1>3, <1>4, <1>5, <1>6 DEF FeatureIInv

\* A worker goes on with the row it has read.
LEMMA FeatureOnward ==
  ASSUME FeatureIInv, NEW w \in Workers, HasRead(w), NEW x \in FeatureTasks, featureWork' = [featureWork EXCEPT ![w] = x],
         UNCHANGED <<state, seal, change, token, killed, applied, verified>>,
         x.at \in {"written", "sealing", "sealed"}, x.change = featureWork[w].change, x.version = featureWork[w].version,
         featureWork[w].version = 0 => applied[Feature!Row(w)] = <<>>,
         \A v \in Workers \ {w} : HasWritten(v) => Feature!Row(v) # Feature!Row(w)
  PROVE  FeatureIInv'
<1>1. featureWork'[w] = x /\ \A v \in Workers \ {w} : featureWork'[v] = featureWork[v]
  BY DEF FeatureIInv, FeatureTyped
<1>2. /\ Feature!Row(w)' = Feature!Row(w) /\ InHand(w) /\ HasRead(w)' /\ InHand(w)' /\ Feature!Now(w) # "idle"
      /\ Base(Feature!Row(w))' = Base(Feature!Row(w))
  BY <1>1 DEF Base, Feature!Row, HasRead, InHand, Feature!Now
<1>3. FeatureFit(w)'
  BY <1>1, <1>2 DEF FeatureIInv, FeatureFit, Feature!Now
<1>4. ASSUME NEW v \in Workers \ {w} PROVE ChangesApart(v, w)' /\ ChangesApart(w, v)'
  <2>1. /\ (HasRead(v)' <=> HasRead(v)) /\ (InHand(v)' <=> InHand(v)) /\ Feature!Row(v)' = Feature!Row(v)
        /\ featureWork'[v] = featureWork[v] /\ (HasWritten(v)' <=> HasWritten(v))
    BY <1>1 DEF HasRead, HasWritten, InHand, Feature!Now, Feature!Row
  <2>2. ChangesApart(v, w) /\ ChangesApart(w, v)
    BY DEF FeatureIInv
  <2> QED  BY <1>1, <1>2, <2>1, <2>2 DEF ChangesApart
<1> QED  BY <1>3, <1>4, FeatureTaskStep

LEMMA FeatureEnds ==
  ASSUME FeatureIInv, NEW w \in Workers, Feature!Rest(w),
         UNCHANGED <<state, seal, change, token, killed, applied, verified>>
  PROVE  FeatureIInv'
<1>1. Feature!Idle \in FeatureTasks /\ Feature!Idle.at = "idle"
  BY DEF Feature!Idle, FeatureTasks, FeaturePoints
<1>2. featureWork' = [featureWork EXCEPT ![w] = Feature!Idle] /\ featureWork'[w] = Feature!Idle
  BY DEF Feature!Rest, FeatureIInv, FeatureTyped
<1>3. FeatureFit(w)' /\ \A v \in Workers \ {w} : ChangesApart(v, w)' /\ ChangesApart(w, v)'
  BY <1>1, <1>2 DEF FeatureFit, ChangesApart, InHand, HasRead, HasWritten, Feature!Now
<1> QED  BY <1>1, <1>2, <1>3, FeatureTaskStep

LEMMA FeatureRequestStep ==
  ASSUME FeatureIInv, NEW c \in FeatureChanges, Feature!Request(c)
  PROVE  FeatureIInv'
<1>1. /\ change[c] = None /\ change' = [change EXCEPT ![c] = "requested"]
      /\ UNCHANGED <<state, seal, token, killed, featureWork, applied, verified>>
  BY DEF Feature!Request
<1>2. change' \in [FeatureChanges -> {None, "requested", "applied"}] /\ FeatureTyped'
  BY <1>1 DEF FeatureIInv, FeatureTyped
<1>3. \A d \in FeatureChanges : (change'[d] = "applied" <=> change[d] = "applied") /\ (change[d] = "requested" => change'[d] = "requested")
  BY <1>1, SwitchAssumption DEF FeatureIInv, FeatureTyped
<1>4. /\ \A w \in Workers : FeatureFit(w)'
      /\ \A v, w \in Workers : v # w => ChangesApart(v, w)'
  BY <1>1, <1>3 DEF FeatureIInv, FeatureFit, ChangesApart, InHand, HasRead, HasWritten, Base, Feature!Now, Feature!Row
<1>5. /\ Feature!SealMatches' /\ Feature!LicenceVersionsDiffer'
      /\ \A t \in Tokens : Issued(t)'
      /\ \A t \in verified' : Doubted(t)'
  BY <1>1 DEF FeatureIInv, Doubted, Feature!SealMatches, Feature!LicenceVersionsDiffer, Issued, VersionAt, Base, Feature!Overlapped
<1>6. (\A scope : AppliedIn(scope)' = AppliedIn(scope)) /\ \A r : AppliedTo(r)' = AppliedTo(r)
  BY <1>3 DEF AppliedIn, AppliedTo
<1>7. /\ \A scope \in Feature!Scopes :
            seal'[scope].version = Cardinality(AppliedIn(scope)') + (IF scope = "feature" THEN 0 ELSE 1)
      /\ \A r \in Feature!Rows : Versioned(r)' /\ Len(applied'[r]) <= Cardinality(AppliedTo(r)')
      /\ \A d \in FeatureChanges : change'[d] = "applied" => applied'[Target[d]] # <<>>
  BY <1>1, <1>3, <1>6 DEF FeatureIInv, Versioned, VersionAt, Base, Feature!Exists
<1> QED  BY <1>2, <1>4, <1>5, <1>7 DEF FeatureIInv

LEMMA FeatureVerifyStep ==
  ASSUME FeatureIInv, NEW w \in Workers, NEW c \in FeatureChanges, Feature!Verify(w, c)
  PROVE  FeatureIInv'
<1> DEFINE x == [Feature!Idle EXCEPT !.at = "verified", !.change = c]
<1>1. x \in FeatureTasks /\ x.at = "verified" /\ x.change = c
  BY DEF Feature!Idle, FeatureTasks, FeaturePoints
<1>2. /\ featureWork' = [featureWork EXCEPT ![w] = x]
      /\ UNCHANGED <<state, seal, change, token, killed, applied, verified>>
  BY DEF Feature!Verify
<1> HIDE DEF x
<1>3. featureWork'[w] = x
  BY <1>2 DEF FeatureIInv, FeatureTyped
<1>4. FeatureFit(w)' /\ \A v \in Workers \ {w} : ChangesApart(v, w)' /\ ChangesApart(w, v)'
  BY <1>1, <1>3 DEF FeatureFit, ChangesApart, InHand, HasRead, HasWritten, Feature!Now
<1> QED  BY <1>1, <1>2, <1>4, FeatureTaskStep

LEMMA FeatureLockStep ==
  ASSUME FeatureIInv, NEW w \in Workers, Feature!LockChange(w)
  PROVE  FeatureIInv'
<1>1. PICK c \in FeatureChanges : c = featureWork[w].change
  BY DEF Feature!LockChange, FeatureIInv, FeatureFit
<1>2. /\ UNCHANGED <<state, seal, change, token, killed, applied, verified>> /\ Feature!Now(w) = "verified"
      /\ \A v \in Feature!Others(w) : ~Feature!HoldsChange(v, c)
  BY <1>1 DEF Feature!LockChange
<1>3. CASE Feature!StillRequested(c) /\ ~Feature!Blocked(Feature!Row(w))
  <2>1. PICK x \in FeatureTasks : x = [featureWork[w] EXCEPT !.at = "locked"] /\ x.at = "locked" /\ x.change = c
    <3>1. featureWork[w] \in FeatureTasks
      BY DEF FeatureIInv, FeatureTyped
    <3>2. [featureWork[w] EXCEPT !.at = "locked"] \in FeatureTasks
      BY <3>1 DEF FeatureTasks, FeaturePoints
    <3> QED  BY <1>1, <3>1, <3>2 DEF FeatureTasks
  <2>2. featureWork' = [featureWork EXCEPT ![w] = x]
    BY <1>1, <1>3, <2>1 DEF Feature!LockChange
  <2>3. featureWork'[w] = x /\ \A v \in Workers \ {w} : featureWork'[v] = featureWork[v]
    BY <2>2 DEF FeatureIInv, FeatureTyped
  <2>4. FeatureFit(w)'
    BY <1>2, <1>3, <2>1, <2>3 DEF FeatureFit, InHand, HasRead, HasWritten, Feature!Now, Feature!StillRequested
  <2>5. ASSUME NEW v \in Workers \ {w}, InHand(v) PROVE featureWork[v].change # c
    BY <1>2, <2>5 DEF InHand, Feature!Others, Feature!HoldsChange, Feature!Now
  <2>6. \A v \in Workers \ {w} : ChangesApart(v, w)' /\ ChangesApart(w, v)'
    BY <2>1, <2>3, <2>5 DEF ChangesApart, InHand, HasRead, HasWritten, Feature!Now
  <2> QED  BY <1>2, <2>2, <2>4, <2>6, FeatureTaskStep
<1>4. CASE ~(Feature!StillRequested(c) /\ ~Feature!Blocked(Feature!Row(w)))
  BY <1>1, <1>2, <1>4, FeatureEnds DEF Feature!LockChange
<1> QED  BY <1>3, <1>4

LEMMA FeatureReadStep ==
  ASSUME FeatureIInv, NEW w \in Workers, Feature!ReadVersion(w)
  PROVE  FeatureIInv'
<1>1. /\ UNCHANGED <<state, seal, change, token, killed, applied, verified>> /\ Feature!Now(w) = "locked"
      /\ Feature!MayRead(w) /\ InHand(w)
  BY DEF Feature!ReadVersion, InHand
<1>2. PICK r \in Feature!Rows : r = Feature!Row(w)
  BY <1>1, FeatureRowOf
<1>3. PICK n \in Nat : n = state[r].version
  BY DEF FeatureIInv, FeatureTyped, FeatureRows
<1>4. PICK x \in FeatureTasks : /\ x = [featureWork[w] EXCEPT !.at = "read", !.version = n]
                                /\ x.at = "read" /\ x.change = featureWork[w].change /\ x.version = n
  <2>1. featureWork[w] \in FeatureTasks
    BY DEF FeatureIInv, FeatureTyped
  <2>2. [featureWork[w] EXCEPT !.at = "read", !.version = n] \in FeatureTasks
    BY <1>3, <2>1 DEF FeatureTasks, FeaturePoints
  <2> QED  BY <2>1, <2>2 DEF FeatureTasks
<1>5. featureWork' = [featureWork EXCEPT ![w] = x]
  BY <1>2, <1>3, <1>4 DEF Feature!ReadVersion, FeatureIInv, FeatureTyped
<1>6. featureWork'[w] = x /\ \A v \in Workers \ {w} : featureWork'[v] = featureWork[v]
  BY <1>5 DEF FeatureIInv, FeatureTyped
<1>7. Feature!Row(w)' = r /\ InHand(w)'
  BY <1>2, <1>4, <1>6 DEF Feature!Row, InHand, Feature!Now
<1>8. FeatureFit(w)'
  <2>1. n >= Base(r) /\ Base(r)' = Base(r)
    <3>1. Base(r)' = Base(r)
      BY <1>1 DEF Base
    <3>2. applied[r] \in Seq(Nat)
      BY DEF FeatureIInv, FeatureTyped
    <3>3. CASE applied[r] = <<>>
      BY <1>3, <3>1, <3>3 DEF Base
    <3>4. CASE applied[r] # <<>>
      <4>1. Len(applied[r]) \in 1..Len(applied[r]) /\ Base(r) \in Int
        BY <3>2, <3>4 DEF Base
      <4>2. n = applied[r][Len(applied[r])] /\ applied[r][Len(applied[r])] > Base(r)
        BY <1>3, <4>1 DEF FeatureIInv, Versioned, VersionAt
      <4> QED  BY <3>1, <4>1, <4>2
    <3> QED  BY <3>3, <3>4
  <2>2. featureWork'[w].version = n /\ ~HasWritten(w)'
    BY <1>4, <1>6 DEF HasWritten, Feature!Now
  <2> QED  BY <1>1, <1>3, <1>4, <1>6, <1>7, <2>1, <2>2 DEF FeatureIInv, FeatureFit, InHand, Feature!Now
<1>9. ASSUME NEW v \in Workers \ {w} PROVE ChangesApart(v, w)' /\ ChangesApart(w, v)'
  <2>1. /\ (HasRead(v)' <=> HasRead(v)) /\ (InHand(v)' <=> InHand(v)) /\ Feature!Row(v)' = Feature!Row(v)
        /\ featureWork'[v] = featureWork[v] /\ ~HasWritten(w)'
    BY <1>4, <1>6 DEF HasRead, HasWritten, InHand, Feature!Now, Feature!Row
  <2>2. InHand(v) => featureWork[v].change # featureWork[w].change
    BY <1>1 DEF FeatureIInv, ChangesApart
  <2>3. HasRead(v) /\ r \in Licences => Feature!Row(v) # r
    BY <1>1, <1>2 DEF Feature!MayRead, Feature!Others, Feature!HoldsRow, HasRead, Feature!Now
  <2> QED  BY <1>4, <1>6, <1>7, <2>1, <2>2, <2>3 DEF ChangesApart
<1> QED  BY <1>1, <1>5, <1>8, <1>9, FeatureTaskStep

LEMMA FeatureWriteStep ==
  ASSUME FeatureIInv, NEW w \in Workers, \/ Feature!Write(w) /\ Feature!CodeFree(w)
                                         \/ Feature!FindSeal(w) \/ Feature!LockSeal(w)
  PROVE  FeatureIInv'
<1>1. /\ UNCHANGED <<state, seal, change, token, killed, applied, verified>> /\ HasRead(w) /\ Feature!Now(w) # "idle"
  BY DEF Feature!Write, Feature!FindSeal, Feature!LockSeal, HasRead
<1>2. PICK scope \in Feature!Scopes : scope = Feature!Scope(Feature!Row(w))
  BY <1>1, FeatureRowOf
<1>0. /\ featureWork[w].version = 0 => applied[Feature!Row(w)] = <<>>
      /\ \A v \in Workers \ {w} : HasWritten(v) => Feature!Row(v) # Feature!Row(w)
  <2>1. CASE Feature!Write(w) /\ Feature!CodeFree(w)
    <3>1. Feature!Row(w) \in Feature!Rows
      BY <1>1, FeatureRowOf
    <3>2. featureWork[w].version = 0 => applied[Feature!Row(w)] = <<>>
      BY <2>1, <3>1 DEF Feature!CodeFree, FeatureIInv, Versioned
    <3>3. ASSUME NEW v \in Workers \ {w}, HasWritten(v) PROVE Feature!Row(v) # Feature!Row(w)
      BY <2>1, <3>3 DEF Feature!Write, Feature!Others, Feature!HoldsRow, HasWritten, Feature!Now
    <3> QED  BY <3>2, <3>3
  <2>2. CASE Feature!FindSeal(w) \/ Feature!LockSeal(w)
    <3>1. HasWritten(w)
      BY <2>2 DEF Feature!FindSeal, Feature!LockSeal, HasWritten
    <3> QED  BY <3>1 DEF FeatureIInv, FeatureFit, ChangesApart
  <2> QED  BY <2>1, <2>2
<1>3. featureWork[w] \in FeatureTasks /\ seal[scope].version \in Nat /\ featureWork[w].seal \in Nat
  BY DEF FeatureIInv, FeatureTyped, FeatureSeals, FeatureTasks
<1>4. PICK at \in {"written", "sealing", "sealed"}, n \in Nat :
         featureWork' = [featureWork EXCEPT ![w] = [featureWork[w] EXCEPT !.at = at, !.seal = n]]
  <2>1. CASE Feature!Write(w) /\ Feature!CodeFree(w)
    <3>1. [featureWork[w] EXCEPT !.at = "written", !.seal = featureWork[w].seal] = [featureWork[w] EXCEPT !.at = "written"]
      BY <1>3 DEF FeatureTasks
    <3> QED  BY <1>3, <2>1, <3>1 DEF Feature!Write
  <2>2. CASE Feature!FindSeal(w)
    <3>1. featureWork' = [featureWork EXCEPT ![w] = [featureWork[w] EXCEPT !.at = "sealing", !.seal = seal[scope].version]]
      BY <1>2, <1>3, <2>2 DEF Feature!FindSeal, FeatureIInv, FeatureTyped
    <3> QED  BY <1>3, <3>1
  <2>3. CASE Feature!LockSeal(w)
    <3>1. PICK n \in Nat : n = IF seal[scope].version = featureWork[w].seal THEN featureWork[w].seal ELSE 0
      BY <1>3
    <3>2. featureWork' = [featureWork EXCEPT ![w] = [featureWork[w] EXCEPT !.at = "sealed", !.seal = n]]
      BY <1>2, <1>3, <2>3, <3>1 DEF Feature!LockSeal, FeatureIInv, FeatureTyped
    <3> QED  BY <3>2
  <2> QED  BY <2>1, <2>2, <2>3
<1> DEFINE x == [featureWork[w] EXCEPT !.at = at, !.seal = n]
<1>5. x \in FeatureTasks /\ x.at = at /\ x.change = featureWork[w].change /\ x.version = featureWork[w].version
  BY <1>3 DEF FeatureTasks, FeaturePoints
<1>6. featureWork' = [featureWork EXCEPT ![w] = x]
  BY <1>4
<1> HIDE DEF x
<1> QED  BY <1>0, <1>1, <1>5, <1>6, FeatureOnward

\* The commit of a change.
LEMMA FeatureApplyStep ==
  ASSUME FeatureIInv, NEW w \in Workers, Feature!Apply(w)
  PROVE  FeatureIInv'
<1>1. PICK c \in FeatureChanges, r \in Feature!Rows, n \in Nat, scope \in Feature!Scopes :
         /\ c = featureWork[w].change /\ r = Feature!Row(w) /\ n = featureWork[w].version /\ scope = Feature!Scope(r)
  <2>1. Feature!Now(w) # "idle" /\ HasRead(w)
    BY DEF Feature!Apply, HasRead
  <2>2. featureWork[w].version \in Nat
    BY DEF FeatureIInv, FeatureTyped, FeatureTasks
  <2> QED  BY <2>1, <2>2, FeatureRowOf
<1>2. /\ Target[c] = r /\ change[c] = "requested" /\ HasRead(w) /\ InHand(w) /\ HasWritten(w)
      /\ n >= Base(r) /\ (applied[r] = <<>> => n = state[r].version) /\ (r \in Licences => n = state[r].version)
      /\ n = 0 => applied[r] = <<>>
  BY <1>1 DEF Feature!Apply, HasRead, HasWritten, InHand, Feature!Row, FeatureIInv, FeatureFit
<1>3. /\ seal[scope].version = featureWork[w].seal /\ Feature!Rest(w)
      /\ state' = [q \in Feature!Rows |-> Feature!Changed(w, q)]
      /\ seal' = [seal EXCEPT ![scope] = Feature!Renewed(w, scope)]
      /\ change' = [change EXCEPT ![c] = "applied"]
      /\ applied' = [applied EXCEPT ![r] = Append(applied[r], n + 1)]
      /\ UNCHANGED <<token, killed, verified>>
  BY <1>1 DEF Feature!Apply, Feature!SealFits, FeatureIInv, FeatureTyped
<1>4. /\ state'[r] = [is |-> To[c], version |-> n + 1] /\ state'[r] \in FeatureRows /\ state'[r].version = n + 1
      /\ \A q \in Feature!Rows \ {r} : state'[q] = state[q]
      /\ state' \in [Feature!Rows -> FeatureRows]
  <2>1. [is |-> To[c], version |-> n + 1] \in FeatureRows
    BY FeatureAssumption DEF FeatureRows
  <2>2. Feature!Changed(w, r) = [is |-> To[c], version |-> n + 1] /\ \A q \in Feature!Rows \ {r} : Feature!Changed(w, q) = state[q]
    BY <1>1 DEF Feature!Changed
  <2>3. \A q \in Feature!Rows : state[q] \in FeatureRows
    BY DEF FeatureIInv, FeatureTyped
  <2> QED  BY <1>3, <2>1, <2>2, <2>3
<1>5. /\ applied' \in [Feature!Rows -> Seq(Nat)]
      /\ \A q \in Feature!Rows \ {r} : applied'[q] = applied[q]
      /\ Len(applied'[r]) = Len(applied[r]) + 1 /\ Len(applied[r]) \in Nat
      /\ applied'[r][Len(applied[r]) + 1] = n + 1
      /\ \A i \in 1..Len(applied[r]) : applied'[r][i] = applied[r][i]
  <2>1. applied[r] \in Seq(Nat) /\ n + 1 \in Nat
    BY DEF FeatureIInv, FeatureTyped
  <2>2. Append(applied[r], n + 1) \in Seq(Nat)
    BY <2>1, AppendProperties
  <2>3. applied'[r] = Append(applied[r], n + 1)
    BY <1>3 DEF FeatureIInv, FeatureTyped
  <2>4. applied' \in [Feature!Rows -> Seq(Nat)] /\ \A q \in Feature!Rows \ {r} : applied'[q] = applied[q]
    BY <1>3, <2>2 DEF FeatureIInv, FeatureTyped
  <2> QED  BY <2>1, <2>3, <2>4, AppendProperties
<1>6. /\ change'[c] = "applied" /\ \A d \in FeatureChanges \ {c} : change'[d] = change[d]
      /\ change' \in [FeatureChanges -> {None, "requested", "applied"}]
  BY <1>3 DEF FeatureIInv, FeatureTyped
<1>7. /\ featureWork'[w].at = "idle" /\ featureWork' \in [Workers -> FeatureTasks]
      /\ \A v \in Workers \ {w} : featureWork'[v] = featureWork[v]
  <2>1. Feature!Idle \in FeatureTasks /\ Feature!Idle.at = "idle"
    BY DEF Feature!Idle, FeatureTasks, FeaturePoints
  <2> QED  BY <1>3, <2>1 DEF Feature!Rest, FeatureIInv, FeatureTyped
<1>8. AppliedIn(scope)' = AppliedIn(scope) \cup {c} /\ c \notin AppliedIn(scope) /\ \A s \in Feature!Scopes \ {scope} : AppliedIn(s)' = AppliedIn(s)
  BY <1>1, <1>2, <1>6 DEF AppliedIn, Feature!Scope
<1>9. AppliedTo(r)' = AppliedTo(r) \cup {c} /\ c \notin AppliedTo(r) /\ \A q \in Feature!Rows \ {r} : AppliedTo(q)' = AppliedTo(q)
  BY <1>2, <1>6 DEF AppliedTo
<1>10. /\ Cardinality(AppliedIn(scope)') = Cardinality(AppliedIn(scope)) + 1 /\ Cardinality(AppliedIn(scope)) \in Nat
       /\ Cardinality(AppliedTo(r)') = Cardinality(AppliedTo(r)) + 1 /\ Cardinality(AppliedTo(r)) \in Nat
  <2>1. IsFiniteSet(AppliedIn(scope)) /\ IsFiniteSet(AppliedTo(r))
    BY FeatureAssumption, FS_Subset DEF AppliedIn, AppliedTo
  <2> QED  BY <1>8, <1>9, <2>1, FS_AddElement, FS_CardinalityType
<1>11. seal'[scope] = Feature!Renewed(w, scope) /\ \A s \in Feature!Scopes \ {scope} : seal'[s] = seal[s]
  BY <1>3 DEF FeatureIInv, FeatureTyped
<1>12. seal'[scope].version = seal[scope].version + 1 /\ seal'[scope].of = [q \in Feature!RowsOf(scope) |-> Feature!Changed(w, q)]
  BY <1>3, <1>11 DEF Feature!Renewed
<1>13. Feature!SealMatches'
  <2>1. \A q \in Feature!RowsOf(scope) : q \in Feature!Rows /\ state'[q] = Feature!Changed(w, q)
    BY <1>3 DEF Feature!RowsOf, Feature!Rows
  <2>2. ASSUME NEW s \in Feature!Scopes \ {scope} PROVE \A q \in Feature!RowsOf(s) : q \in Feature!Rows /\ q # r
    BY <1>1, FeatureAssumption DEF Feature!Scopes, Feature!Scope, Feature!RowsOf, Feature!Rows
  <2>3. ASSUME NEW s \in Feature!Scopes \ {scope} PROVE seal'[s].of = [q \in Feature!RowsOf(s) |-> state'[q]]
    <3>1. \A q \in Feature!RowsOf(s) : state'[q] = state[q]
      BY <1>4, <2>2
    <3>2. seal'[s].of = [q \in Feature!RowsOf(s) |-> state[q]]
      BY <1>11 DEF FeatureIInv, Feature!SealMatches
    <3> QED  BY <3>1, <3>2
  <2>4. seal'[scope].of = [q \in Feature!RowsOf(scope) |-> state'[q]]
    BY <1>12, <2>1
  <2> QED  BY <2>3, <2>4 DEF Feature!SealMatches
<1>14. seal' \in [Feature!Scopes -> FeatureSeals]
  <2>1. seal'[scope].of = [q \in Feature!RowsOf(scope) |-> state'[q]]
    BY <1>13 DEF Feature!SealMatches
  <2>2. seal'[scope].of \in [Features -> FeatureRows] \cup [Licences -> FeatureRows]
    BY <1>4, <2>1 DEF Feature!RowsOf, Feature!Rows
  <2>3. Feature!Renewed(w, scope) = [version |-> seal[scope].version + 1, of |-> seal'[scope].of]
    BY <1>3, <1>12 DEF Feature!Renewed
  <2>4. seal[scope].version \in Nat
    BY DEF FeatureIInv, FeatureTyped, FeatureSeals
  <2>5. Feature!Renewed(w, scope) \in FeatureSeals
    BY <2>2, <2>3, <2>4 DEF FeatureSeals
  <2> QED  BY <1>3, <2>5 DEF FeatureIInv, FeatureTyped
<1>15. FeatureTyped'
  BY <1>3, <1>4, <1>5, <1>6, <1>7, <1>14 DEF FeatureIInv, FeatureTyped
<1>16. \A s \in Feature!Scopes : seal'[s].version = Cardinality(AppliedIn(s)') + (IF s = "feature" THEN 0 ELSE 1)
  <2>1. seal'[scope].version = Cardinality(AppliedIn(scope)') + (IF scope = "feature" THEN 0 ELSE 1)
    BY <1>10, <1>12 DEF FeatureIInv
  <2>2. ASSUME NEW s \in Feature!Scopes \ {scope} PROVE seal'[s].version = Cardinality(AppliedIn(s)') + (IF s = "feature" THEN 0 ELSE 1)
    BY <1>8, <1>11 DEF FeatureIInv
  <2> QED  BY <2>1, <2>2
<1>17. \A d \in FeatureChanges : change'[d] = "applied" => applied'[Target[d]] # <<>>
  <2>1. applied'[r] # <<>>
    BY <1>5
  <2>2. \A d \in FeatureChanges : Target[d] \in Feature!Rows
    BY FeatureAssumption DEF Feature!Rows
  <2> QED  BY <1>2, <1>5, <1>6, <2>1, <2>2 DEF FeatureIInv
<1>18. /\ state[r].version \in Nat /\ Base(r) \in Int /\ Base(r)' = Base(r)
       /\ \A i \in 1..Len(applied[r]) : applied[r][i] > Base(r) /\ (applied[r][i] = 1 => i = 1) /\ applied[r][i] \in Nat
  <2>1. applied[r] \in Seq(Nat) /\ state[r].version \in Nat
    BY DEF FeatureIInv, FeatureTyped, FeatureRows
  <2>2. Base(r) \in Int
    <3>1. applied[r] # <<>> => applied[r][1] \in Nat
      BY <2>1
    <3> QED  BY <2>1, <3>1 DEF Base
  <2>3. Base(r)' = Base(r)
    <3>1. applied'[r] # <<>>
      BY <1>5
    <3>2. CASE applied[r] = <<>>
      <4>1. applied'[r][1] = n + 1
        BY <1>5, <3>2
      <4>2. Base(r)' = applied'[r][1] - 1
        BY <3>1 DEF Base
      <4>3. Base(r) = n
        BY <1>2, <3>2 DEF Base
      <4> QED  BY <4>1, <4>2, <4>3
    <3>3. CASE applied[r] # <<>>
      <4>1. 1 \in 1..Len(applied[r])
        BY <2>1, <3>3
      <4> QED  BY <1>5, <3>1, <3>3, <4>1 DEF Base
    <3> QED  BY <3>2, <3>3
  <2> QED  BY <2>1, <2>2, <2>3 DEF FeatureIInv, Versioned
<1>19. Versioned(r)'
  <2>1. VersionAt(r, Len(applied[r]))' = n + 1
    BY <1>5 DEF VersionAt, Base
  <2>2. \A i \in 1..Len(applied'[r]) : i \in 1..Len(applied[r]) \/ i = Len(applied[r]) + 1
    BY <1>5
  <2>3. r \in Licences => \A i \in 1..Len(applied[r]) : applied[r][i] <= n
    BY <1>2 DEF FeatureIInv, Versioned
  <2>4. ASSUME NEW i \in 1..Len(applied'[r])
        PROVE  /\ applied'[r][i] > Base(r)' /\ (applied'[r][i] = 1 => i = 1)
               /\ r \in Licences => applied'[r][i] <= n + 1
    <3>1. CASE i \in 1..Len(applied[r])
      <4>1. applied'[r][i] = applied[r][i]
        BY <1>5, <3>1
      <4>2. /\ applied[r][i] > Base(r) /\ (applied[r][i] = 1 => i = 1) /\ applied[r][i] \in Nat
            /\ r \in Licences => applied[r][i] <= n
        BY <1>18, <2>3, <3>1
      <4> QED  BY <1>18, <4>1, <4>2
    <3>2. CASE i = Len(applied[r]) + 1
      <4>1. applied'[r][i] = n + 1
        BY <1>5, <3>2
      <4>2. n = 0 => Len(applied[r]) = 0
        BY <1>2
      <4> QED  BY <1>2, <1>18, <3>2, <4>1, <4>2
    <3> QED  BY <2>2, <3>1, <3>2
  <2>5. Feature!Exists(r)'
    BY <1>4 DEF Feature!Exists, Feature!NoRow
  <2>6. (state[r].version = VersionAt(r, Len(applied[r])))'
    BY <1>4, <2>1
  <2>7. r \in Licences => \A i \in 1..Len(applied'[r]) : applied'[r][i] <= state'[r].version
    BY <1>4, <2>4
  <2> QED  BY <2>4, <2>5, <2>6, <2>7 DEF Versioned
<1>20. ASSUME NEW q \in Feature!Rows \ {r} PROVE Versioned(q)'
  <2>1. state'[q] = state[q] /\ applied'[q] = applied[q]
    BY <1>4, <1>5
  <2>2. Base(q)' = Base(q) /\ Feature!Exists(q)' = Feature!Exists(q) /\ VersionAt(q, Len(applied[q]))' = VersionAt(q, Len(applied[q]))
    BY <2>1 DEF Base, VersionAt, Feature!Exists, Feature!NoRow
  <2>3. Versioned(q)
    BY DEF FeatureIInv
  <2> QED  BY <2>1, <2>2, <2>3 DEF Versioned
<1>21. \A q \in Feature!Rows : Len(applied'[q]) <= Cardinality(AppliedTo(q)')
  <2>1. Len(applied'[r]) <= Cardinality(AppliedTo(r)')
    BY <1>5, <1>10 DEF FeatureIInv
  <2>2. \A q \in Feature!Rows \ {r} : Len(applied'[q]) <= Cardinality(AppliedTo(q)')
    BY <1>5, <1>9 DEF FeatureIInv
  <2> QED  BY <2>1, <2>2
<1>22. ASSUME NEW v \in Workers PROVE FeatureFit(v)'
  <2>1. CASE v = w
    BY <1>7, <2>1 DEF FeatureFit, InHand, HasRead, HasWritten, Feature!Now
  <2>2. CASE v # w
    <3>1. /\ (HasRead(v)' <=> HasRead(v)) /\ (InHand(v)' <=> InHand(v)) /\ Feature!Row(v)' = Feature!Row(v)
          /\ featureWork'[v] = featureWork[v] /\ (HasWritten(v)' <=> HasWritten(v))
      BY <1>7, <2>2 DEF HasRead, HasWritten, InHand, Feature!Now, Feature!Row
    <3>2. FeatureFit(v) /\ ChangesApart(v, w)
      BY <2>2 DEF FeatureIInv
    <3>3. InHand(v) => featureWork[v].change \in FeatureChanges \ {c}
      BY <1>1, <1>2, <3>2 DEF ChangesApart, FeatureFit, InHand
    <3>4. HasRead(v) /\ Feature!Row(v) \in Licences => Feature!Row(v) \in Feature!Rows \ {r}
      BY <1>1, <1>2, <3>2 DEF ChangesApart, Feature!Rows
    <3>5. HasWritten(v) => Feature!Row(v) \in Feature!Rows \ {r}
      <4>1. HasWritten(v) => Feature!Now(v) # "idle"
        BY DEF HasWritten
      <4>2. HasWritten(v) => Feature!Row(v) \in Feature!Rows
        BY <4>1, FeatureRowOf
      <4> QED  BY <1>1, <1>2, <3>2, <4>2 DEF ChangesApart
    <3>6. HasRead(v) => /\ Feature!Now(v) # "idle" /\ Feature!Row(v) \in Feature!Rows
                        /\ Base(Feature!Row(v))' = Base(Feature!Row(v))
                        /\ applied'[Feature!Row(v)] = <<>> => Feature!Row(v) # r
      <4>1. HasRead(v) => Feature!Now(v) # "idle"
        BY DEF HasRead
      <4>2. HasRead(v) => Feature!Row(v) \in Feature!Rows
        BY <4>1, FeatureRowOf
      <4>3. \A q \in Feature!Rows : Base(q)' = Base(q)
        BY <1>4, <1>5, <1>18 DEF Base
      <4>4. applied'[r] # <<>>
        BY <1>5
      <4> QED  BY <3>1, <4>1, <4>2, <4>3, <4>4
    <3>7. HasRead(v)' => /\ featureWork'[v].version >= Base(Feature!Row(v))'
                         /\ applied'[Feature!Row(v)'] = <<>> => featureWork'[v].version = state'[Feature!Row(v)'].version
                         /\ Feature!Row(v)' \in Licences => featureWork'[v].version = state'[Feature!Row(v)'].version
      BY <1>4, <1>5, <3>1, <3>2, <3>4, <3>6 DEF FeatureFit
    <3>8. HasWritten(v)' /\ featureWork'[v].version = 0 => applied'[Feature!Row(v)'] = <<>>
      BY <1>5, <3>1, <3>2, <3>5 DEF FeatureFit
    <3>9. InHand(v)' => change'[featureWork'[v].change] = "requested"
      BY <1>6, <3>1, <3>2, <3>3 DEF FeatureFit
    <3>10. Feature!Now(v)' # "idle" => featureWork'[v].change \in FeatureChanges
      BY <3>1, <3>2 DEF FeatureFit, Feature!Now
    <3> QED  BY <3>7, <3>8, <3>9, <3>10 DEF FeatureFit
  <2> QED  BY <2>1, <2>2
<1>23. ASSUME NEW u \in Workers, NEW v \in Workers, u # v PROVE ChangesApart(u, v)'
  <2>1. \A z \in Workers : (HasRead(z)' => HasRead(z)) /\ (InHand(z)' => InHand(z)) /\ (HasWritten(z)' => HasWritten(z))
    BY <1>7 DEF HasRead, HasWritten, InHand, Feature!Now
  <2>2. \A z \in Workers : InHand(z)' \/ HasRead(z)' \/ HasWritten(z)' =>
           featureWork'[z] = featureWork[z] /\ Feature!Row(z)' = Feature!Row(z)
    BY <1>7 DEF HasRead, HasWritten, InHand, Feature!Now, Feature!Row
  <2>3. ChangesApart(u, v)
    BY <1>23 DEF FeatureIInv
  <2> QED  BY <2>1, <2>2, <2>3 DEF ChangesApart
<1>24. ASSUME NEW t \in Tokens PROVE Issued(t)'
  <2> SUFFICES ASSUME token'[t] # Feature!NoToken PROVE Issued(t)'
    BY DEF Issued
  <2>1. PICK f \in Features : f = token[t].feature
    BY <1>3 DEF FeatureIInv, Issued
  <2>2. f \in Feature!Rows /\ Len(applied[f]) \in Nat
    BY DEF Feature!Rows, FeatureIInv, FeatureTyped
  <2>3. PICK p \in 0..Len(applied[f]) :
           /\ token[t].version = VersionAt(f, p)
           /\ p = Len(applied[f]) => state[f].is = "enabled"
    BY <1>3, <2>1 DEF FeatureIInv, Issued
  <2>4. VersionAt(f, p)' = VersionAt(f, p) /\ p \in 0..Len(applied'[f])
    <3>1. CASE f = r
      <4>1. Len(applied'[f]) = Len(applied[f]) + 1 /\ \A i \in 1..Len(applied[f]) : applied'[f][i] = applied[f][i]
        BY <1>5, <3>1
      <4>2. p = 0 \/ p \in 1..Len(applied[f])
        BY <2>2, <2>3
      <4>3. p \in 0..Len(applied'[f])
        BY <2>2, <2>3, <4>1
      <4> QED  BY <1>18, <3>1, <4>1, <4>2, <4>3 DEF VersionAt
    <3>2. CASE f # r
      <4>1. applied'[f] = applied[f] /\ state'[f] = state[f]
        BY <1>4, <1>5, <2>2, <3>2
      <4> QED  BY <2>3, <4>1 DEF VersionAt, Base
    <3> QED  BY <3>1, <3>2
  <2>5. p = Len(applied'[f]) => state'[f].is = "enabled"
    <3>1. CASE f = r
      BY <1>5, <2>2, <2>3, <3>1
    <3>2. CASE f # r
      BY <1>4, <1>5, <2>2, <2>3, <3>2
    <3> QED  BY <3>1, <3>2
  <2>6. token'[t].status # None /\ token' = token
    BY <1>3 DEF FeatureIInv, Issued
  <2>7. \E k \in 0..Len(applied'[f]) :
           /\ token'[t].version = VersionAt(f, k)'
           /\ k = Len(applied'[f]) => state'[f].is = "enabled"
    BY <2>3, <2>4, <2>5, <2>6
  <2>8. token'[t].feature = f
    BY <2>1, <2>6
  <2> QED  BY <2>6, <2>7, <2>8 DEF Issued, VersionAt, Base
<1>25. ASSUME NEW t \in verified' PROVE Doubted(t)'
  <2>1. Doubted(t) /\ t \in Tokens /\ token' = token
    BY <1>3 DEF FeatureIInv, Doubted
  <2>2. PICK f \in Feature!Rows : f = token[t].feature
    BY <2>1 DEF FeatureIInv, Issued, Doubted, Feature!Rows
  <2>3. PICK i \in 1..Len(applied[f]), j \in 1..Len(applied[f]) : i # j /\ applied[f][i] = applied[f][j]
    BY <2>1, <2>2 DEF Doubted, Feature!Overlapped
  <2>4. i \in 1..Len(applied'[f]) /\ j \in 1..Len(applied'[f]) /\ applied'[f][i] = applied'[f][j]
    <3>1. CASE f = r
      <4>1. Len(applied'[f]) = Len(applied[f]) + 1 /\ Len(applied[f]) \in Nat
        BY <1>5, <3>1
      <4>2. applied'[f][i] = applied[f][i] /\ applied'[f][j] = applied[f][j]
        BY <1>5, <2>3, <3>1
      <4> QED  BY <2>3, <4>1, <4>2
    <3>2. CASE f # r
      <4>1. applied'[f] = applied[f]
        BY <1>5, <3>2
      <4> QED  BY <2>3, <4>1
    <3> QED  BY <3>1, <3>2
  <2> QED  BY <2>1, <2>2, <2>3, <2>4 DEF Doubted, Feature!Overlapped
<1>26. Feature!LicenceVersionsDiffer'
  <2> SUFFICES ASSUME NEW l \in Licences, NEW i \in 1..Len(applied'[l]), NEW j \in 1..Len(applied'[l]), i # j
               PROVE  applied'[l][i] # applied'[l][j]
    BY DEF Feature!LicenceVersionsDiffer
  <2>1. CASE l = r
    <3>1. \A k \in 1..Len(applied[r]) : applied[r][k] <= n /\ applied[r][k] \in Nat
      BY <1>2, <1>18, <2>1 DEF FeatureIInv, Versioned
    <3>2. \A a, b \in 1..Len(applied[r]) : a # b => applied[r][a] # applied[r][b]
      BY <2>1 DEF FeatureIInv, Feature!LicenceVersionsDiffer
    <3>3. \A k \in 1..Len(applied'[r]) : k \in 1..Len(applied[r]) \/ k = Len(applied[r]) + 1
      BY <1>5
    <3>4. CASE i \in 1..Len(applied[r]) /\ j \in 1..Len(applied[r])
      <4>1. applied'[r][i] = applied[r][i] /\ applied'[r][j] = applied[r][j]
        BY <1>5, <3>4
      <4> QED  BY <2>1, <3>2, <3>4, <4>1
    <3>5. CASE i \in 1..Len(applied[r]) /\ j = Len(applied[r]) + 1
      <4>1. applied'[r][i] = applied[r][i] /\ applied'[r][j] = n + 1
        BY <1>5, <3>5
      <4>2. applied[r][i] <= n /\ applied[r][i] \in Nat
        BY <3>1, <3>5
      <4> QED  BY <2>1, <4>1, <4>2
    <3>6. CASE j \in 1..Len(applied[r]) /\ i = Len(applied[r]) + 1
      <4>1. applied'[r][j] = applied[r][j] /\ applied'[r][i] = n + 1
        BY <1>5, <3>6
      <4>2. applied[r][j] <= n /\ applied[r][j] \in Nat
        BY <3>1, <3>6
      <4> QED  BY <2>1, <4>1, <4>2
    <3> QED  BY <2>1, <3>3, <3>4, <3>5, <3>6
  <2>2. CASE l # r
    <3>1. applied'[l] = applied[l]
      BY <1>5, <2>2 DEF Feature!Rows
    <3> QED  BY <3>1 DEF FeatureIInv, Feature!LicenceVersionsDiffer
  <2> QED  BY <2>1, <2>2
<1>27. \A q \in Feature!Rows : Versioned(q)' /\ Len(applied'[q]) <= Cardinality(AppliedTo(q)')
  BY <1>19, <1>20, <1>21
<1> QED  BY <1>13, <1>15, <1>16, <1>17, <1>22, <1>23, <1>24, <1>25, <1>26, <1>27 DEF FeatureIInv

\* A decision's token.
LEMMA FeatureEvaluateStep ==
  ASSUME FeatureIInv, NEW t \in Tokens, NEW f \in Features, Feature!Evaluate(t, f)
  PROVE  FeatureIInv'
<1>1. /\ token[t] = Feature!NoToken /\ state[f].is = "enabled"
      /\ UNCHANGED <<state, seal, change, killed, featureWork, spent, applied, verified>>
  BY DEF Feature!Evaluate
<1>2. f \in Feature!Rows /\ Len(applied[f]) \in Nat /\ state[f].version \in Nat /\ seal["licence_profile"].version \in Nat
  BY DEF Feature!Rows, Feature!Scopes, FeatureIInv, FeatureTyped, FeatureRows, FeatureSeals
<1>3. PICK x \in FeatureTokens : x = [status |-> "active", feature |-> f, version |-> state[f].version, licence |-> seal["licence_profile"].version]
  BY <1>2 DEF FeatureTokens
<1>4. token' = [token EXCEPT ![t] = x]
  BY <1>3 DEF Feature!Evaluate
<1>5. token' \in [Tokens -> FeatureTokens] /\ token'[t] = x /\ \A u \in Tokens \ {t} : token'[u] = token[u]
  BY <1>4 DEF FeatureIInv, FeatureTyped
<1>6. FeatureTyped'
  BY <1>1, <1>5 DEF FeatureIInv, FeatureTyped
<1>7. Issued(t)'
  <2>1. x.feature = f /\ x.status = "active" /\ x.version = state[f].version
    BY <1>3
  <2>2. state[f].version = VersionAt(f, Len(applied[f]))
    BY <1>2 DEF FeatureIInv, Versioned
  <2>3. VersionAt(f, Len(applied[f]))' = VersionAt(f, Len(applied[f]))
    BY <1>1 DEF VersionAt, Base
  <2> QED  BY <1>1, <1>2, <1>5, <2>1, <2>2, <2>3, FeatureAssumption DEF Issued
<1>8. ASSUME NEW u \in Tokens \ {t} PROVE Issued(u)'
  BY <1>1, <1>5 DEF FeatureIInv, Issued, VersionAt, Base
<1>9. ASSUME NEW u \in verified' PROVE Doubted(u)'
  BY <1>1, <1>5 DEF FeatureIInv, Doubted, Feature!Overlapped
<1>10. /\ Feature!SealMatches' /\ Feature!LicenceVersionsDiffer'
       /\ \A w \in Workers : FeatureFit(w)'
       /\ \A v, w \in Workers : v # w => ChangesApart(v, w)'
  BY <1>1 DEF FeatureIInv, Feature!SealMatches, Feature!LicenceVersionsDiffer, FeatureFit, ChangesApart, InHand, HasRead, HasWritten, Base, Feature!Now, Feature!Row
<1>11. /\ \A scope \in Feature!Scopes :
             seal'[scope].version = Cardinality(AppliedIn(scope)') + (IF scope = "feature" THEN 0 ELSE 1)
       /\ \A r \in Feature!Rows : Versioned(r)' /\ Len(applied'[r]) <= Cardinality(AppliedTo(r)')
       /\ \A c \in FeatureChanges : change'[c] = "applied" => applied'[Target[c]] # <<>>
  BY <1>1 DEF FeatureIInv, AppliedIn, AppliedTo, Versioned, VersionAt, Base, Feature!Exists
<1> QED  BY <1>6, <1>7, <1>8, <1>9, <1>10, <1>11 DEF FeatureIInv

\* A token whose version is the feature's, of a feature that is not enabled, was decided on
\* another change that gave the same one.
LEMMA FeatureDoubts ==
  ASSUME FeatureIInv, NEW t \in Tokens, token[t].status = "active", Feature!ConfigUnchanged(t),
         state[token[t].feature].is # "enabled"
  PROVE  Doubted(t)
<1>1. token[t] # Feature!NoToken
  BY FeatureAssumption DEF Feature!NoToken
<1>2. PICK f \in Features : f = token[t].feature
  BY <1>1 DEF FeatureIInv, Issued
<1>3. f \in Feature!Rows /\ Len(applied[f]) \in Nat
  BY DEF Feature!Rows, FeatureIInv, FeatureTyped
<1>4. PICK p \in 0..Len(applied[f]) : token[t].version = VersionAt(f, p) /\ p # Len(applied[f])
  BY <1>1, <1>2 DEF FeatureIInv, Issued
<1>5. VersionAt(f, p) = VersionAt(f, Len(applied[f]))
  BY <1>2, <1>3, <1>4 DEF Feature!ConfigUnchanged, FeatureIInv, Versioned
<1>6. p # 0
  <2> SUFFICES ASSUME p = 0 PROVE FALSE
    OBVIOUS
  <2>1. applied[f][Len(applied[f])] = Base(f) /\ Len(applied[f]) \in 1..Len(applied[f])
    BY <1>3, <1>4, <1>5 DEF VersionAt
  <2>2. applied[f][Len(applied[f])] > Base(f) /\ applied[f][Len(applied[f])] \in Nat
    BY <1>3, <2>1 DEF FeatureIInv, FeatureTyped, Versioned
  <2> QED  BY <2>1, <2>2
<1>7. /\ p \in 1..Len(applied[f]) /\ Len(applied[f]) \in 1..Len(applied[f]) /\ p # Len(applied[f])
      /\ applied[f][p] = applied[f][Len(applied[f])]
  BY <1>3, <1>4, <1>5, <1>6 DEF VersionAt, Base
<1> QED  BY <1>1, <1>2, <1>7 DEF Doubted, Feature!Overlapped

LEMMA FeatureVerifyTokenStep ==
  ASSUME FeatureIInv, NEW t \in Tokens, Feature!VerifyDecision(t)
  PROVE  FeatureIInv'
<1>1. token[t].status = "active" /\ UNCHANGED <<state, seal, change, killed, featureWork, spent, applied>>
  BY DEF Feature!VerifyDecision
<1>2. token[t] # Feature!NoToken /\ token[t] \in FeatureTokens
  BY <1>1, FeatureAssumption DEF Feature!NoToken, FeatureIInv, FeatureTyped
<1>3. /\ token' \in [Tokens -> FeatureTokens]
      /\ \A u \in Tokens : /\ token[u] # Feature!NoToken <=> token'[u] # Feature!NoToken
                           /\ token'[u].feature = token[u].feature /\ token'[u].version = token[u].version
                           /\ token'[u].status # None \/ token'[u] = token[u]
  <2>1. CASE UNCHANGED token
    BY <2>1 DEF FeatureIInv, FeatureTyped
  <2>2. CASE token' = [token EXCEPT ![t].status = "revoked"]
    <3>1. PICK x \in FeatureTokens : /\ x = [token[t] EXCEPT !.status = "revoked"] /\ x.status = "revoked"
                                     /\ x.feature = token[t].feature /\ x.version = token[t].version
      <4>1. [token[t] EXCEPT !.status = "revoked"] \in FeatureTokens
        BY <1>2 DEF FeatureTokens
      <4> QED  BY <1>2, <4>1 DEF FeatureTokens
    <3>2. token' = [token EXCEPT ![t] = x]
      BY <2>2, <3>1 DEF FeatureIInv, FeatureTyped
    <3>3. token' \in [Tokens -> FeatureTokens] /\ token'[t] = x /\ \A u \in Tokens \ {t} : token'[u] = token[u]
      BY <3>2 DEF FeatureIInv, FeatureTyped
    <3>4. x # Feature!NoToken
      BY <3>1, FeatureAssumption DEF Feature!NoToken
    <3> QED  BY <1>2, <3>1, <3>3, <3>4, FeatureAssumption
  <2> QED  BY <2>1, <2>2 DEF Feature!VerifyDecision
<1>4. FeatureTyped'
  BY <1>1, <1>3 DEF FeatureIInv, FeatureTyped
<1>5. ASSUME NEW u \in Tokens PROVE Issued(u)'
  BY <1>1, <1>3 DEF FeatureIInv, Issued, VersionAt, Base
<1>6. ASSUME NEW u \in verified' PROVE Doubted(u)'
  <2>1. Doubted(u)
    <3>1. CASE u \in verified
      BY <3>1 DEF FeatureIInv
    <3>2. CASE u \notin verified
      <4>1. u = t /\ Feature!ConfigUnchanged(t) /\ state[token[t].feature].is # "enabled"
        BY <1>6, <3>2 DEF Feature!VerifyDecision
      <4> QED  BY <1>1, <4>1, FeatureDoubts
    <3> QED  BY <3>1, <3>2
  <2> QED  BY <1>1, <1>3, <2>1 DEF Doubted, Feature!Overlapped
<1>7. /\ Feature!SealMatches' /\ Feature!LicenceVersionsDiffer'
      /\ \A w \in Workers : FeatureFit(w)'
      /\ \A v, w \in Workers : v # w => ChangesApart(v, w)'
  BY <1>1 DEF FeatureIInv, Feature!SealMatches, Feature!LicenceVersionsDiffer, FeatureFit, ChangesApart, InHand, HasRead, HasWritten, Base, Feature!Now, Feature!Row
<1>8. /\ \A scope \in Feature!Scopes :
            seal'[scope].version = Cardinality(AppliedIn(scope)') + (IF scope = "feature" THEN 0 ELSE 1)
      /\ \A r \in Feature!Rows : Versioned(r)' /\ Len(applied'[r]) <= Cardinality(AppliedTo(r)')
      /\ \A c \in FeatureChanges : change'[c] = "applied" => applied'[Target[c]] # <<>>
  BY <1>1 DEF FeatureIInv, AppliedIn, AppliedTo, Versioned, VersionAt, Base, Feature!Exists
<1> QED  BY <1>4, <1>5, <1>6, <1>7, <1>8 DEF FeatureIInv

LEMMA FeatureStays ==
  ASSUME FeatureIInv, UNCHANGED <<state, seal, change, token, featureWork, applied, verified>>
  PROVE  FeatureIInv'
<1>1. FeatureTyped' /\ \A u \in Tokens : Issued(u)'
  BY DEF FeatureIInv, FeatureTyped, Issued, VersionAt, Base
<1>2. \A u \in verified' : Doubted(u)'
  BY DEF FeatureIInv, Doubted, Feature!Overlapped
<1>3. /\ Feature!SealMatches' /\ Feature!LicenceVersionsDiffer'
      /\ \A w \in Workers : FeatureFit(w)'
      /\ \A v, w \in Workers : v # w => ChangesApart(v, w)'
  BY DEF FeatureIInv, Feature!SealMatches, Feature!LicenceVersionsDiffer, FeatureFit, ChangesApart, InHand, HasRead, HasWritten, Base, Feature!Now, Feature!Row
<1>4. /\ \A scope \in Feature!Scopes :
            seal'[scope].version = Cardinality(AppliedIn(scope)') + (IF scope = "feature" THEN 0 ELSE 1)
      /\ \A r \in Feature!Rows : Versioned(r)' /\ Len(applied'[r]) <= Cardinality(AppliedTo(r)')
      /\ \A c \in FeatureChanges : change'[c] = "applied" => applied'[Target[c]] # <<>>
  BY DEF FeatureIInv, AppliedIn, AppliedTo, Versioned, VersionAt, Base, Feature!Exists
<1> QED  BY <1>1, <1>2, <1>3, <1>4 DEF FeatureIInv

LEMMA FeatureStep == FeatureIInv /\ [Feature!Next]_Feature!vars => FeatureIInv'
<1> SUFFICES ASSUME FeatureIInv, [Feature!Next]_Feature!vars PROVE FeatureIInv'
  OBVIOUS
<1>1. CASE Feature!Next
  <2>1. ASSUME NEW w \in Workers, NEW c \in FeatureChanges, Feature!Verify(w, c) PROVE FeatureIInv'
    BY <2>1, FeatureVerifyStep
  <2>2. ASSUME NEW w \in Workers, Feature!LockChange(w) PROVE FeatureIInv'
    BY <2>2, FeatureLockStep
  <2>3. ASSUME NEW w \in Workers, Feature!ReadVersion(w) PROVE FeatureIInv'
    BY <2>3, FeatureReadStep
  <2>4. ASSUME NEW w \in Workers, Feature!Write(w) \/ Feature!FindSeal(w) \/ Feature!LockSeal(w) PROVE FeatureIInv'
    <3>1. CASE Feature!Write(w) /\ ~Feature!CodeFree(w)
      BY <3>1, FeatureEnds DEF Feature!Write
    <3> QED  BY <2>4, <3>1, FeatureWriteStep
  <2>5. ASSUME NEW w \in Workers, Feature!Apply(w) PROVE FeatureIInv'
    BY <2>5, FeatureApplyStep
  <2>6. ASSUME NEW w \in Workers, Feature!Fails(w) PROVE FeatureIInv'
    BY <2>6, FeatureEnds DEF Feature!Fails
  <2>7. ASSUME NEW t \in Tokens, NEW f \in Features, Feature!Evaluate(t, f) PROVE FeatureIInv'
    BY <2>7, FeatureEvaluateStep
  <2>8. ASSUME NEW t \in Tokens, Feature!VerifyDecision(t) PROVE FeatureIInv'
    BY <2>8, FeatureVerifyTokenStep
  <2>9. ASSUME NEW f \in Features, Feature!Kill(f) PROVE FeatureIInv'
    BY <2>9, FeatureStays DEF Feature!Kill
  <2>10. ASSUME NEW c \in FeatureChanges, Feature!Request(c) PROVE FeatureIInv'
    BY <2>10, FeatureRequestStep
  <2> QED  BY <1>1, <2>1, <2>2, <2>3, <2>4, <2>5, <2>6, <2>7, <2>8, <2>9, <2>10 DEF Feature!Next
<1>2. CASE UNCHANGED Feature!vars
  BY <1>2, FeatureStays DEF Feature!vars
<1> QED  BY <1>1, <1>2

LEMMA FeatureSound ==
  FeatureIInv => /\ Feature!TypeOK /\ Feature!SealMatches /\ Feature!SealCounts
                 /\ Feature!VerifiedOnlyIfOverlapped /\ Feature!LicenceVersionsDiffer /\ Feature!CreatedOnce
<1> SUFFICES ASSUME FeatureIInv
             PROVE  /\ Feature!TypeOK /\ Feature!SealMatches /\ Feature!SealCounts
                    /\ Feature!VerifiedOnlyIfOverlapped /\ Feature!LicenceVersionsDiffer /\ Feature!CreatedOnce
  OBVIOUS
<1>1. Feature!SealCounts
  <2>1. ASSUME NEW scope \in Feature!Scopes
        PROVE  seal[scope].version = Feature!Cardinality({c \in FeatureChanges : change[c] = "applied" /\ Feature!Scope(Target[c]) = scope})
                                        + (IF scope = "feature" THEN 0 ELSE 1)
    BY FeatureSize DEF FeatureIInv, AppliedIn
  <2> QED  BY <2>1 DEF Feature!SealCounts
<1>2. \A r \in Feature!Rows : Len(applied[r]) <= Feature!Cardinality({c \in FeatureChanges : Target[c] = r /\ change[c] = "applied"})
  BY FeatureSize DEF FeatureIInv, AppliedTo
<1>3. \A scope \in Feature!Scopes : seal[scope] \in Feature!SealRows(scope)
  <2>1. ASSUME NEW scope \in Feature!Scopes PROVE seal[scope] \in Feature!SealRows(scope)
    <3>1. seal[scope].of = [r \in Feature!RowsOf(scope) |-> state[r]]
      BY DEF FeatureIInv, Feature!SealMatches
    <3>2. \A r \in Feature!RowsOf(scope) : state[r] \in [is : {"enabled", "disabled", "locked", None}, version : Nat]
      BY DEF FeatureIInv, FeatureTyped, FeatureRows, Feature!Rows, Feature!RowsOf
    <3>3. seal[scope].of \in [Feature!RowsOf(scope) -> [is : {"enabled", "disabled", "locked", None}, version : Nat]]
      BY <3>1, <3>2
    <3>4. seal[scope] \in FeatureSeals
      BY DEF FeatureIInv, FeatureTyped
    <3> QED  BY <3>3, <3>4 DEF FeatureSeals, Feature!SealRows
  <2> QED  BY <2>1
<1>4. Feature!TypeOK
  BY <1>2, <1>3 DEF FeatureIInv, FeatureTyped, FeatureTasks, FeaturePoints, Feature!TypeOK, Feature!ChangeStatuses, Feature!Now
<1>5. Feature!VerifiedOnlyIfOverlapped
  BY DEF FeatureIInv, Doubted, Feature!VerifiedOnlyIfOverlapped
<1>6. Feature!CreatedOnce
  BY DEF FeatureIInv, Versioned, Feature!CreatedOnce, Feature!Rows
<1> QED  BY <1>1, <1>4, <1>5, <1>6 DEF FeatureIInv

-----------------------------------------------------------------------------
(* The decisions.  What a transaction has been told so far is held against *)
(* what held when it was told: a read that a later answer rests on has     *)
(* left its condition among those that held.                               *)

DecisionPoints == {"idle", "registry", "seals", "prohibited", "switch", "feature", "token", "judging", "told"}
DecisionVerdicts == Decision!Reasons \cup
    {"feature_allowed", "verified", "ready", "not_ready", "environment_mismatch", "stale_revalidate",
     "production_activation_absent", "expired", "binding_mismatch", "config_changed"}
DecisionConditions == {"integrity", "listed", "live", "known", "available", "enabled", "unrevoked", "version", "licence"}
DecisionReads == [licence : Nat, facts : BOOLEAN, registry : {"whole", "altered", "resealed"}, sealed : Nat, version : Nat,
                  available : BOOLEAN, killed : BOOLEAN]
DecisionTasks == [at : DecisionPoints, feature : Features \cup {None}, token : Tokens \cup {None}, asserted : BOOLEAN,
                  fits : BOOLEAN, read : DecisionReads, verdict : DecisionVerdicts \cup {None},
                  held : SUBSET (DecisionConditions \X BOOLEAN), overlapped : BOOLEAN]
DecisionTokens == [status : {None, "active", "revoked"}, feature : Features \cup {None}, version : Nat, licence : Nat]

DecisionTyped ==
    /\ licence \in [version : Nat, facts : BOOLEAN] /\ sealed = licence.version /\ changes \in 0..MaxChanges
    /\ registry \in {"whole", "altered", "resealed"}
    /\ feature \in [Features -> [state : {None, "enabled", "disabled"}, version : Nat, available : BOOLEAN]]
    /\ issued \in [Tokens -> DecisionTokens]
    /\ decisionWork \in [Workers -> DecisionTasks]

SawIn(held, c, p) == IF p THEN <<c, TRUE>> \in held ELSE <<c, FALSE>> \in held
Saw(w, c, p) == SawIn(decisionWork[w].held, c, p)
DecisionFresh(w) ==
    decisionWork[w].at # "idle" => Decision!Holding(decisionWork[w].feature, decisionWork[w].token) \subseteq decisionWork[w].held

\* What the answer says.
DecisionAnswer(w) == decisionWork[w].at = "told" =>
    /\ decisionWork[w].verdict \in {"feature_allowed", "verified"} => \A c \in Decision!Vouched(w) : Saw(w, c, TRUE)
    /\ decisionWork[w].verdict \in Decision!Reasons \ {"integrity_failed"} => Saw(w, Decision!Says(decisionWork[w].verdict), FALSE)
    /\ decisionWork[w].verdict = "config_changed" => Saw(w, "version", FALSE) \/ Saw(w, "licence", FALSE)
    /\ decisionWork[w].verdict \in {"integrity_failed", "not_ready"} => Saw(w, "integrity", FALSE) \/ decisionWork[w].overlapped

\* What the integrity check rests on, before it and after.
DecisionChecks(w) ==
    LET x == decisionWork[w] IN
    /\ x.at \in {"registry", "seals"} => (x.read.licence = sealed \/ x.overlapped) /\ (x.read.facts \/ Saw(w, "integrity", FALSE))
    /\ x.at = "registry" /\ x.read.facts /\ registry = "whole" => Saw(w, "integrity", TRUE)
    /\ x.at = "seals" => IF x.read.registry = "whole" THEN x.read.facts => Saw(w, "integrity", TRUE) ELSE Saw(w, "integrity", FALSE)
    /\ x.at \in {"prohibited", "switch", "feature", "token", "judging"} => x.feature \in Features /\ Saw(w, "integrity", TRUE)

\* What an evaluation has read, and what a verification has.
DecisionEvaluates(w) ==
    LET x == decisionWork[w] IN
    x.token = None => x.at \notin {"token", "judging"} /\ (x.at = "feature" => Saw(w, "live", TRUE))
DecisionVerifies(w) ==
    LET x == decisionWork[w] IN
    x.token # None =>
       /\ x.token \in Tokens /\ issued[x.token] # Decision!NoToken /\ x.feature \in Features /\ x.at # "prohibited"
       /\ x.at \in {"switch", "feature", "token", "judging"} => Saw(w, "licence", issued[x.token].licence = x.read.sealed)
       /\ x.at \in {"switch", "token", "judging"} =>
             /\ Saw(w, "version", issued[x.token].version = x.read.version)
             /\ Saw(w, "available", x.read.available) /\ (x.read.available => Saw(w, "known", TRUE))
       /\ x.at \in {"token", "judging"} => Saw(w, "live", ~x.read.killed)
       /\ x.at = "judging" => Saw(w, "unrevoked", TRUE)

DecisionSound(w) == DecisionFresh(w) /\ DecisionAnswer(w) /\ DecisionChecks(w) /\ DecisionEvaluates(w) /\ DecisionVerifies(w)
DecisionGrounds ==
    /\ \A f \in Features \cap Listed : feature[f].state = None
    /\ \A t \in Tokens : issued[t] # Decision!NoToken => issued[t].feature \in Features \ Listed /\ issued[t].status # None
DecisionIInv == DecisionTyped /\ DecisionGrounds /\ \A w \in Workers : DecisionSound(w)

LEMMA DecisionOther ==
  ASSUME NEW w \in Workers, DecisionSound(w), DecisionFresh(w)',
         decisionWork'[w].at = decisionWork[w].at, decisionWork'[w].feature = decisionWork[w].feature,
         decisionWork'[w].token = decisionWork[w].token, decisionWork'[w].read = decisionWork[w].read,
         decisionWork'[w].verdict = decisionWork[w].verdict, decisionWork[w].held \subseteq decisionWork'[w].held,
         decisionWork[w].overlapped => decisionWork'[w].overlapped,
         decisionWork[w].at \in {"registry", "seals"} => sealed' = sealed \/ decisionWork'[w].overlapped,
         registry' = "whole" => registry = "whole",
         \A t \in Tokens : issued[t] # Decision!NoToken =>
            /\ issued'[t] # Decision!NoToken
            /\ issued'[t].version = issued[t].version /\ issued'[t].licence = issued[t].licence
  PROVE  DecisionSound(w)'
<1>1. \A c, p : Saw(w, c, p) => Saw(w, c, p)'
  BY DEF Saw, SawIn
<1>2. DecisionChecks(w)'
  BY <1>1 DEF DecisionSound, DecisionChecks
<1>3. DecisionEvaluates(w)'
  BY <1>1 DEF DecisionSound, DecisionEvaluates
<1>4. DecisionVerifies(w)'
  BY <1>1, ZenonT(60) DEF DecisionSound, DecisionVerifies
<1>5. DecisionAnswer(w)'
  BY <1>1 DEF DecisionSound, DecisionAnswer, Decision!Vouched, Decision!Evaluates
<1> QED  BY <1>2, <1>3, <1>4, <1>5 DEF DecisionSound

LEMMA DecisionHeld == \A f, t : Decision!Holding(f, t) \subseteq DecisionConditions \X BOOLEAN
<1> SUFFICES ASSUME NEW f, NEW t PROVE Decision!Holding(f, t) \subseteq DecisionConditions \X BOOLEAN
  OBVIOUS
<1>1. Decision!Intact \in BOOLEAN /\ Decision!Known(f) \in BOOLEAN /\ Decision!Available(f) \in BOOLEAN /\ Decision!Enabled(f) \in BOOLEAN
  BY DEF Decision!Intact, Decision!Known, Decision!Available, Decision!Enabled
<1>2. ASSUME NEW c \in DecisionConditions, NEW p \in BOOLEAN PROVE <<c, p>> \in DecisionConditions \X BOOLEAN
  OBVIOUS
<1>3. {<<"integrity", Decision!Intact>>, <<"listed", f \notin Listed>>, <<"live", f \notin stopped>>,
       <<"known", Decision!Known(f)>>, <<"available", Decision!Available(f)>>, <<"enabled", Decision!Enabled(f)>>}
          \subseteq DecisionConditions \X BOOLEAN
  <2>1. <<"integrity", Decision!Intact>> \in DecisionConditions \X BOOLEAN
    BY <1>1, <1>2 DEF DecisionConditions
  <2>2. <<"listed", f \notin Listed>> \in DecisionConditions \X BOOLEAN
    BY <1>2 DEF DecisionConditions
  <2>3. <<"live", f \notin stopped>> \in DecisionConditions \X BOOLEAN
    BY <1>2 DEF DecisionConditions
  <2>4. <<"known", Decision!Known(f)>> \in DecisionConditions \X BOOLEAN
    BY <1>1, <1>2 DEF DecisionConditions
  <2>5. <<"available", Decision!Available(f)>> \in DecisionConditions \X BOOLEAN
    BY <1>1, <1>2 DEF DecisionConditions
  <2>6. <<"enabled", Decision!Enabled(f)>> \in DecisionConditions \X BOOLEAN
    BY <1>1, <1>2 DEF DecisionConditions
  <2> QED  BY <2>1, <2>2, <2>3, <2>4, <2>5, <2>6
<1>4. {<<"unrevoked", issued[t].status = "active">>, <<"version", issued[t].version = feature[f].version>>,
       <<"licence", issued[t].licence = sealed>>} \subseteq DecisionConditions \X BOOLEAN
  BY <1>2 DEF DecisionConditions
<1> QED  BY <1>3, <1>4 DEF Decision!Holding

\* Every transaction sees what holds after a change.
LEMMA DecisionObserved ==
  ASSUME NEW was \in [Workers -> DecisionTasks], decisionWork' = Decision!Observed(was)
  PROVE  /\ decisionWork' \in [Workers -> DecisionTasks]
         /\ \A w \in Workers :
               /\ DecisionFresh(w)'
               /\ decisionWork'[w].at = was[w].at /\ decisionWork'[w].feature = was[w].feature /\ decisionWork'[w].token = was[w].token
               /\ decisionWork'[w].read = was[w].read /\ decisionWork'[w].verdict = was[w].verdict
               /\ was[w].held \subseteq decisionWork'[w].held /\ decisionWork'[w].overlapped = was[w].overlapped
<1> SUFFICES ASSUME NEW w \in Workers
             PROVE  /\ decisionWork'[w] \in DecisionTasks /\ DecisionFresh(w)'
                    /\ decisionWork'[w].at = was[w].at /\ decisionWork'[w].feature = was[w].feature /\ decisionWork'[w].token = was[w].token
                    /\ decisionWork'[w].read = was[w].read /\ decisionWork'[w].verdict = was[w].verdict
                    /\ was[w].held \subseteq decisionWork'[w].held /\ decisionWork'[w].overlapped = was[w].overlapped
  <2>1. decisionWork' = [w \in Workers |-> decisionWork'[w]]
    BY DEF Decision!Observed
  <2> QED  BY <2>1
<1> DEFINE more == UNION {Decision!Holding(f, t)' : f \in {was[w].feature}, t \in {was[w].token}}
<1>1. decisionWork'[w] = IF was[w].at = "idle" THEN was[w] ELSE [was[w] EXCEPT !.held = was[w].held \cup more]
  BY DEF Decision!Observed
<1>2. (\A f, t : Decision!Holding(f, t) \subseteq DecisionConditions \X BOOLEAN)'
  BY DecisionHeld, PTL
<1>3. more \subseteq DecisionConditions \X BOOLEAN
  BY <1>2
<1>4. \A f, t : f = was[w].feature /\ t = was[w].token => Decision!Holding(f, t)' \subseteq more
  OBVIOUS
<1> HIDE DEF more
<1>5. was[w] \in DecisionTasks
  OBVIOUS
<1>6. CASE was[w].at = "idle"
  BY <1>1, <1>5, <1>6 DEF DecisionFresh
<1>7. CASE was[w].at # "idle"
  <2>1. decisionWork'[w] = [was[w] EXCEPT !.held = was[w].held \cup more]
    BY <1>1, <1>7
  <2>2. was[w].held \cup more \subseteq DecisionConditions \X BOOLEAN
    BY <1>3, <1>5 DEF DecisionTasks
  <2>3. /\ decisionWork'[w].at = was[w].at /\ decisionWork'[w].feature = was[w].feature /\ decisionWork'[w].token = was[w].token
        /\ decisionWork'[w].read = was[w].read /\ decisionWork'[w].verdict = was[w].verdict
        /\ decisionWork'[w].held = was[w].held \cup more /\ decisionWork'[w].overlapped = was[w].overlapped
    BY <1>5, <2>1 DEF DecisionTasks
  <2>4. decisionWork'[w] \in DecisionTasks
    BY <1>5, <2>1, <2>2 DEF DecisionTasks
  <2>5. DecisionFresh(w)'
    BY <1>4, <2>3 DEF DecisionFresh
  <2> QED  BY <2>3, <2>4, <2>5
<1> QED  BY <1>6, <1>7

LEMMA DecisionConfigured ==
  ASSUME DecisionIInv, DecisionTyped', DecisionGrounds', NEW was \in [Workers -> DecisionTasks], decisionWork' = Decision!Observed(was),
         \A w \in Workers :
            /\ was[w].at = decisionWork[w].at /\ was[w].feature = decisionWork[w].feature
            /\ was[w].token = decisionWork[w].token /\ was[w].read = decisionWork[w].read
            /\ was[w].verdict = decisionWork[w].verdict /\ decisionWork[w].held \subseteq was[w].held
            /\ decisionWork[w].overlapped => was[w].overlapped
            /\ decisionWork[w].at \in {"registry", "seals"} => sealed' = sealed \/ was[w].overlapped,
         registry' = "whole" => registry = "whole", UNCHANGED issued
  PROVE  DecisionIInv'
<1>1. ASSUME NEW w \in Workers PROVE DecisionSound(w)'
  <2>1. /\ DecisionFresh(w)'
        /\ decisionWork'[w].at = was[w].at /\ decisionWork'[w].feature = was[w].feature /\ decisionWork'[w].token = was[w].token
        /\ decisionWork'[w].read = was[w].read /\ decisionWork'[w].verdict = was[w].verdict
        /\ was[w].held \subseteq decisionWork'[w].held /\ decisionWork'[w].overlapped = was[w].overlapped
    BY DecisionObserved
  <2>2. DecisionSound(w)
    BY DEF DecisionIInv
  <2> QED  BY <2>1, <2>2, DecisionOther
<1> QED  BY <1>1 DEF DecisionIInv

LEMMA DecisionLicenceStep ==
  ASSUME DecisionIInv, NEW facts \in BOOLEAN, Decision!LicenceApplied(facts)
  PROVE  DecisionIInv'
<1> DEFINE was == [w \in Workers |-> [decisionWork[w] EXCEPT !.overlapped = decisionWork[w].overlapped
                                                             \/ Decision!At(w, "registry") \/ Decision!At(w, "seals")]]
<1>1. decisionWork' = Decision!Observed(was) /\ UNCHANGED <<registry, feature, stopped, issued>>
  BY DEF Decision!LicenceApplied, Decision!Changes
<1>2. ASSUME NEW w \in Workers
      PROVE  /\ was[w] \in DecisionTasks
             /\ was[w].at = decisionWork[w].at /\ was[w].feature = decisionWork[w].feature
             /\ was[w].token = decisionWork[w].token /\ was[w].read = decisionWork[w].read
             /\ was[w].verdict = decisionWork[w].verdict /\ decisionWork[w].held \subseteq was[w].held
             /\ decisionWork[w].overlapped => was[w].overlapped
             /\ decisionWork[w].at \in {"registry", "seals"} => was[w].overlapped
  <2>1. decisionWork[w] \in DecisionTasks
    BY DEF DecisionIInv, DecisionTyped
  <2>2. PICK p \in BOOLEAN : /\ p = (decisionWork[w].overlapped \/ Decision!At(w, "registry") \/ Decision!At(w, "seals"))
                             /\ decisionWork[w].overlapped \/ Decision!At(w, "registry") \/ Decision!At(w, "seals") => p
    BY <2>1 DEF DecisionTasks
  <2>3. was[w] = [decisionWork[w] EXCEPT !.overlapped = p]
    BY <2>2
  <2>4. [decisionWork[w] EXCEPT !.overlapped = p] \in DecisionTasks
    BY <2>1 DEF DecisionTasks
  <2> HIDE DEF was
  <2> QED  BY <2>1, <2>2, <2>3, <2>4 DEF DecisionTasks, Decision!At
<1>3. was \in [Workers -> DecisionTasks]
  BY <1>2
<1> HIDE DEF was
<1>4. decisionWork' \in [Workers -> DecisionTasks]
  BY <1>1, <1>3, DecisionObserved
<1>5. licence' \in [version : Nat, facts : BOOLEAN] /\ sealed' = licence'.version /\ changes' \in 0..MaxChanges
  BY DecisionAssumption DEF DecisionIInv, DecisionTyped, Decision!LicenceApplied, Decision!Changes
<1>6. DecisionTyped' /\ DecisionGrounds'
  BY <1>1, <1>4, <1>5 DEF DecisionIInv, DecisionTyped, DecisionGrounds
<1> QED  BY <1>1, <1>2, <1>3, <1>6, DecisionConfigured

\* Any other change of the configuration.
LEMMA DecisionChanged ==
  ASSUME DecisionIInv, decisionWork' = Decision!Observed(decisionWork), Decision!Changes, UNCHANGED <<licence, sealed>>,
         registry' \in {"whole", "altered", "resealed"}, registry' = "whole" => registry = "whole",
         feature' \in [Features -> [state : {None, "enabled", "disabled"}, version : Nat, available : BOOLEAN]],
         \A f \in Features \cap Listed : feature'[f].state = None
  PROVE  DecisionIInv'
<1>1. decisionWork \in [Workers -> DecisionTasks] /\ UNCHANGED issued
  BY DEF DecisionIInv, DecisionTyped, Decision!Changes
<1>2. changes' \in 0..MaxChanges
  BY DecisionAssumption DEF DecisionIInv, DecisionTyped, Decision!Changes
<1>3. DecisionTyped' /\ DecisionGrounds'
  BY <1>1, <1>2, DecisionObserved DEF DecisionIInv, DecisionTyped, DecisionGrounds
<1> QED  BY <1>1, <1>3, DecisionConfigured

LEMMA DecisionChangeStep ==
  ASSUME DecisionIInv,
         \/ \E f \in Features : Decision!AvailabilitySet(f) \/ Decision!Switched(f)
                                \/ \E to \in {"enabled", "disabled"} : Decision!FeatureApplied(f, to)
         \/ \E how \in {"altered", "resealed"} : Decision!Altered(how)
  PROVE  DecisionIInv'
<1> DEFINE SetRow == [state : {None, "enabled", "disabled"}, version : Nat, available : BOOLEAN]
<1>1. registry \in {"whole", "altered", "resealed"} /\ feature \in [Features -> SetRow] /\ \A f \in Features \cap Listed : feature[f].state = None
  BY DEF DecisionIInv, DecisionTyped, DecisionGrounds
<1>2. ASSUME NEW f \in Features, Decision!AvailabilitySet(f) PROVE DecisionIInv'
  <2>1. feature' = [feature EXCEPT ![f] = [feature[f] EXCEPT !.available = ~feature[f].available]]
    BY <1>1, <1>2 DEF Decision!AvailabilitySet
  <2>2. feature[f] \in SetRow
    BY <1>1
  <2>3. [feature[f] EXCEPT !.available = ~feature[f].available] \in SetRow
    BY <2>2
  <2>4. [feature[f] EXCEPT !.available = ~feature[f].available].state = feature[f].state
    BY <2>2
  <2>5. feature' \in [Features -> SetRow] /\ \A e \in Features \cap Listed : feature'[e].state = None
    BY <1>1, <2>1, <2>3, <2>4
  <2> QED  BY <1>1, <1>2, <2>5, DecisionChanged DEF Decision!AvailabilitySet
<1>3. ASSUME NEW f \in Features, Decision!Switched(f) PROVE DecisionIInv'
  BY <1>1, <1>3, DecisionChanged DEF Decision!Switched
<1>4. ASSUME NEW f \in Features, NEW to \in {"enabled", "disabled"}, Decision!FeatureApplied(f, to) PROVE DecisionIInv'
  <2>1. feature' = [feature EXCEPT ![f].state = to, ![f].version = @ + 1] /\ f \notin Listed
    BY <1>4 DEF Decision!FeatureApplied
  <2>2. feature[f] \in SetRow /\ feature[f].version + 1 \in Nat
    BY <1>1
  <2>3. [feature[f] EXCEPT !.state = to, !.version = @ + 1] \in SetRow
    BY <2>2
  <2>4. feature'[f] \in SetRow
    BY <1>1, <2>1, <2>3
  <2>5. feature' = [e \in Features |-> feature'[e]] /\ \A e \in Features \ {f} : feature'[e] = feature[e]
    BY <1>1, <2>1
  <2>6. feature' \in [Features -> SetRow] /\ \A e \in Features \cap Listed : feature'[e].state = None
    BY <1>1, <2>1, <2>4, <2>5
  <2> QED  BY <1>1, <1>4, <2>6, DecisionChanged DEF Decision!FeatureApplied
<1>5. ASSUME NEW how \in {"altered", "resealed"}, Decision!Altered(how) PROVE DecisionIInv'
  BY <1>1, <1>5, DecisionChanged DEF Decision!Altered
<1> QED  BY <1>2, <1>3, <1>4, <1>5

LEMMA DecisionSame ==
  ASSUME UNCHANGED Decision!configuration, NEW f, NEW t, t # None => issued'[t] = issued[t]
  PROVE  Decision!Holding(f, t)' = Decision!Holding(f, t)
<1>1. /\ licence' = licence /\ sealed' = sealed /\ registry' = registry /\ feature' = feature /\ stopped' = stopped
  BY DEF Decision!configuration
<1> QED  BY <1>1, SMTT(30) DEF Decision!Holding, Decision!Intact, Decision!Known, Decision!Available, Decision!Enabled

\* A step of one transaction that changes no configuration, and may issue a token.
DecisionGrants ==
    /\ UNCHANGED Decision!configuration /\ issued' \in [Tokens -> DecisionTokens]
    /\ \A t \in Tokens : /\ issued[t] # Decision!NoToken => issued'[t] = issued[t]
                         /\ issued'[t] # Decision!NoToken => issued'[t].feature \in Features \ Listed /\ issued'[t].status # None

LEMMA DecisionTaskStep ==
  ASSUME DecisionIInv, NEW w \in Workers, NEW x \in DecisionTasks, decisionWork' = [decisionWork EXCEPT ![w] = x],
         DecisionGrants, DecisionSound(w)'
  PROVE  DecisionIInv'
<1>1. /\ decisionWork' \in [Workers -> DecisionTasks] /\ \A v \in Workers \ {w} : decisionWork'[v] = decisionWork[v]
  BY DEF DecisionIInv, DecisionTyped
<1>2. /\ licence' = licence /\ sealed' = sealed /\ registry' = registry /\ feature' = feature /\ stopped' = stopped /\ changes' = changes
  BY DEF DecisionGrants, Decision!configuration
<1>3. ASSUME NEW v \in Workers \ {w} PROVE DecisionSound(v)'
  <2>1. DecisionSound(v)
    BY DEF DecisionIInv
  <2>2. decisionWork[v].token # None => issued'[decisionWork[v].token] = issued[decisionWork[v].token]
    BY <2>1 DEF DecisionSound, DecisionVerifies, DecisionGrants
  <2>3. Decision!Holding(decisionWork[v].feature, decisionWork[v].token)' = Decision!Holding(decisionWork[v].feature, decisionWork[v].token)
    <3>1. \A f, t : (t # None => issued'[t] = issued[t]) => Decision!Holding(f, t)' = Decision!Holding(f, t)
      BY DecisionSame DEF DecisionGrants
    <3>2. PICK f, t : f = decisionWork[v].feature /\ t = decisionWork[v].token
      OBVIOUS
    <3>3. Decision!Holding(f, t)' = Decision!Holding(f, t)
      BY <2>2, <3>1, <3>2
    <3> QED  BY <1>1, <3>2, <3>3
  <2>4. DecisionFresh(v)'
    BY <1>1, <2>1, <2>3 DEF DecisionSound, DecisionFresh
  <2>5. \A t \in Tokens : issued[t] # Decision!NoToken =>
           /\ issued'[t] # Decision!NoToken
           /\ issued'[t].version = issued[t].version /\ issued'[t].licence = issued[t].licence
    BY DEF DecisionGrants
  <2> QED  BY <1>1, <1>2, <2>1, <2>4, <2>5, DecisionOther
<1>4. DecisionTyped'
  BY <1>1, <1>2 DEF DecisionIInv, DecisionTyped, DecisionGrants
<1>5. DecisionGrounds'
  BY <1>2 DEF DecisionIInv, DecisionGrounds, DecisionGrants
<1> QED  BY <1>3, <1>4, <1>5 DEF DecisionIInv

LEMMA DecisionReadsOnly ==
  ASSUME DecisionIInv, UNCHANGED <<Decision!configuration, issued>>
  PROVE  DecisionGrants
BY DEF DecisionIInv, DecisionTyped, DecisionGrounds, DecisionGrants

\* A transaction goes on with what it has read.
LEMMA DecisionMoves ==
  ASSUME DecisionIInv, NEW w \in Workers, NEW x \in DecisionTasks, decisionWork' = [decisionWork EXCEPT ![w] = x],
         DecisionGrants, decisionWork[w].at # "idle",
         x.feature = decisionWork[w].feature, x.token = decisionWork[w].token, x.held = decisionWork[w].held,
         DecisionAnswer(w)', DecisionChecks(w)', DecisionEvaluates(w)', DecisionVerifies(w)'
  PROVE  DecisionIInv'
<1>1. decisionWork'[w] = x /\ DecisionSound(w)
  BY DEF DecisionIInv, DecisionTyped
<1>2. x.token # None => issued'[x.token] = issued[x.token]
  BY <1>1 DEF DecisionSound, DecisionVerifies, DecisionGrants
<1>3. Decision!Holding(x.feature, x.token) \subseteq x.held
  BY <1>1 DEF DecisionSound, DecisionFresh
<1>4. DecisionFresh(w)'
  <2>1. \A f, t : (t # None => issued'[t] = issued[t]) => Decision!Holding(f, t)' = Decision!Holding(f, t)
    BY DecisionSame DEF DecisionGrants
  <2>2. PICK f, t : f = x.feature /\ t = x.token
    OBVIOUS
  <2>3. Decision!Holding(f, t)' \subseteq x.held
    BY <1>2, <1>3, <2>1, <2>2
  <2> QED  BY <1>1, <2>2, <2>3 DEF DecisionFresh
<1>5. DecisionSound(w)'
  BY <1>4 DEF DecisionSound
<1> QED  BY <1>5, DecisionTaskStep

DecisionTrue(w, v) ==
    /\ v \in {"feature_allowed", "verified"} => \A c \in Decision!Vouched(w) : Saw(w, c, TRUE)
    /\ v \in Decision!Reasons \ {"integrity_failed"} => Saw(w, Decision!Says(v), FALSE)
    /\ v = "config_changed" => Saw(w, "version", FALSE) \/ Saw(w, "licence", FALSE)
    /\ v \in {"integrity_failed", "not_ready"} => Saw(w, "integrity", FALSE) \/ decisionWork[w].overlapped

LEMMA DecisionTold ==
  ASSUME DecisionIInv, NEW w \in Workers, NEW v \in DecisionVerdicts, Decision!Told(w, v), DecisionGrants, decisionWork[w].at # "idle",
         DecisionTrue(w, v)
  PROVE  DecisionIInv'
<1>1. decisionWork[w] \in DecisionTasks /\ DecisionSound(w)
  BY DEF DecisionIInv, DecisionTyped
<1>2. [decisionWork[w] EXCEPT !.at = "told", !.verdict = v] \in DecisionTasks
  BY <1>1 DEF DecisionTasks, DecisionPoints
<1>3. PICK x \in DecisionTasks :
         /\ x = [decisionWork[w] EXCEPT !.at = "told", !.verdict = v] /\ x.at = "told" /\ x.verdict = v
         /\ x.feature = decisionWork[w].feature /\ x.token = decisionWork[w].token /\ x.held = decisionWork[w].held
         /\ x.overlapped = decisionWork[w].overlapped
  BY <1>1, <1>2 DEF DecisionTasks
<1>4. decisionWork' = [decisionWork EXCEPT ![w] = x] /\ decisionWork'[w] = x
  BY <1>3 DEF Decision!Told, DecisionIInv, DecisionTyped
<1>5. \A c, p : Saw(w, c, p) => Saw(w, c, p)'
  BY <1>3, <1>4 DEF Saw
<1>6. Decision!Vouched(w)' = Decision!Vouched(w)
  BY <1>3, <1>4 DEF Decision!Vouched, Decision!Evaluates
<1>7. DecisionAnswer(w)'
  BY <1>3, <1>4, <1>5, <1>6 DEF DecisionAnswer, DecisionTrue
<1>8. DecisionChecks(w)' /\ DecisionEvaluates(w)'
  BY <1>3, <1>4 DEF DecisionChecks, DecisionEvaluates
<1>9. DecisionVerifies(w)'
  <2>1. x.token # None => /\ x.token \in Tokens /\ issued[x.token] # Decision!NoToken /\ x.feature \in Features
                          /\ issued'[x.token] = issued[x.token]
    BY <1>1, <1>3 DEF DecisionSound, DecisionVerifies, DecisionGrants
  <2> QED  BY <1>3, <1>4, <2>1 DEF DecisionVerifies
<1> QED  BY <1>3, <1>4, <1>7, <1>8, <1>9, DecisionMoves

\* What a transaction sees now.
DecisionView(w) ==
    LET f == decisionWork[w].feature
        t == decisionWork[w].token IN
    /\ Saw(w, "integrity", Decision!Intact)
    /\ f # None => /\ Saw(w, "listed", f \notin Listed) /\ Saw(w, "live", f \notin stopped)
                   /\ Saw(w, "known", Decision!Known(f)) /\ Saw(w, "available", Decision!Available(f))
                   /\ Saw(w, "enabled", Decision!Enabled(f))
    /\ f # None /\ t # None => /\ Saw(w, "unrevoked", issued[t].status = "active")
                               /\ Saw(w, "version", issued[t].version = feature[f].version)
                               /\ Saw(w, "licence", issued[t].licence = sealed)

LEMMA DecisionSees ==
  ASSUME DecisionIInv, NEW w \in Workers, decisionWork[w].at # "idle"
  PROVE  DecisionView(w)
<1> DEFINE f == decisionWork[w].feature
           t == decisionWork[w].token
<1>0. Decision!Holding(f, t) \subseteq decisionWork[w].held
  BY DEF DecisionIInv, DecisionSound, DecisionFresh
<1>1. ASSUME NEW c, NEW p \in BOOLEAN, <<c, p>> \in decisionWork[w].held PROVE Saw(w, c, p)
  BY <1>1 DEF Saw, SawIn
<1>2. Saw(w, "integrity", Decision!Intact)
  <2>1. <<"integrity", Decision!Intact>> \in decisionWork[w].held
    BY <1>0 DEF Decision!Holding
  <2> QED  BY <1>1, <2>1 DEF Decision!Intact
<1>3. ASSUME f # None PROVE Saw(w, "listed", f \notin Listed)
  <2>1. <<"listed", f \notin Listed>> \in decisionWork[w].held
    BY <1>0, <1>3 DEF Decision!Holding
  <2>2. (f \notin Listed) \in BOOLEAN
    OBVIOUS
  <2> QED  BY <1>1, <2>1, <2>2
<1>4. ASSUME f # None PROVE Saw(w, "live", f \notin stopped)
  <2>1. <<"live", f \notin stopped>> \in decisionWork[w].held
    BY <1>0, <1>4 DEF Decision!Holding
  <2>2. (f \notin stopped) \in BOOLEAN
    OBVIOUS
  <2> QED  BY <1>1, <2>1, <2>2
<1>5. ASSUME f # None PROVE Saw(w, "known", Decision!Known(f))
  <2>1. <<"known", Decision!Known(f)>> \in decisionWork[w].held
    BY <1>0, <1>5 DEF Decision!Holding
  <2>2. (Decision!Known(f)) \in BOOLEAN
    BY DEF Decision!Known
  <2> QED  BY <1>1, <2>1, <2>2
<1>6. ASSUME f # None PROVE Saw(w, "available", Decision!Available(f))
  <2>1. <<"available", Decision!Available(f)>> \in decisionWork[w].held
    BY <1>0, <1>6 DEF Decision!Holding
  <2>2. (Decision!Available(f)) \in BOOLEAN
    BY DEF Decision!Known, Decision!Available
  <2> QED  BY <1>1, <2>1, <2>2
<1>7. ASSUME f # None PROVE Saw(w, "enabled", Decision!Enabled(f))
  <2>1. <<"enabled", Decision!Enabled(f)>> \in decisionWork[w].held
    BY <1>0, <1>7 DEF Decision!Holding
  <2>2. (Decision!Enabled(f)) \in BOOLEAN
    BY DEF Decision!Known, Decision!Enabled
  <2> QED  BY <1>1, <2>1, <2>2
<1>8. ASSUME f # None, t # None PROVE Saw(w, "unrevoked", issued[t].status = "active")
  <2>1. <<"unrevoked", issued[t].status = "active">> \in decisionWork[w].held
    BY <1>0, <1>8 DEF Decision!Holding
  <2>2. (issued[t].status = "active") \in BOOLEAN
    OBVIOUS
  <2> QED  BY <1>1, <2>1, <2>2
<1>9. ASSUME f # None, t # None PROVE Saw(w, "version", issued[t].version = feature[f].version)
  <2>1. <<"version", issued[t].version = feature[f].version>> \in decisionWork[w].held
    BY <1>0, <1>9 DEF Decision!Holding
  <2>2. (issued[t].version = feature[f].version) \in BOOLEAN
    OBVIOUS
  <2> QED  BY <1>1, <2>1, <2>2
<1>10. ASSUME f # None, t # None PROVE Saw(w, "licence", issued[t].licence = sealed)
  <2>1. <<"licence", issued[t].licence = sealed>> \in decisionWork[w].held
    BY <1>0, <1>10 DEF Decision!Holding
  <2>2. (issued[t].licence = sealed) \in BOOLEAN
    OBVIOUS
  <2> QED  BY <1>1, <2>1, <2>2
<1> QED  BY <1>2, <1>3, <1>4, <1>5, <1>6, <1>7, <1>8, <1>9, <1>10 DEF DecisionView

LEMMA DecisionBeginStep ==
  ASSUME DecisionIInv, NEW w \in Workers, NEW f \in Features \cup {None}, NEW t \in Tokens \cup {None},
         NEW asserted \in BOOLEAN, NEW fits \in BOOLEAN, t # None => f \in Features /\ issued[t] # Decision!NoToken,
         Decision!Begin(w, f, t, asserted, fits)
  PROVE  DecisionIInv'
<1> DEFINE read == [Decision!NoRead EXCEPT !.licence = licence.version, !.facts = licence.facts]
           x == [Decision!Idle EXCEPT
                   !.at = "registry", !.feature = f, !.token = t, !.asserted = asserted, !.fits = fits,
                   !.read = read, !.held = Decision!Holding(f, t)]
<1>1. licence.version \in Nat /\ licence.facts \in BOOLEAN /\ sealed = licence.version
  BY DEF DecisionIInv, DecisionTyped
<1>2. read \in DecisionReads /\ read.licence = licence.version /\ read.facts = licence.facts
  BY <1>1 DEF DecisionReads, Decision!NoRead
<1>3. decisionWork' = [decisionWork EXCEPT ![w] = x] /\ UNCHANGED <<Decision!configuration, issued>>
  BY DEF Decision!Begin
<1> HIDE DEF read
<1>4. x \in DecisionTasks
  <2>1. Decision!Idle \in DecisionTasks
    BY DEF Decision!Idle, Decision!NoRead, DecisionTasks, DecisionPoints, DecisionReads
  <2>2. Decision!Holding(f, t) \in SUBSET (DecisionConditions \X BOOLEAN)
    BY DecisionHeld
  <2> QED  BY <1>2, <2>1, <2>2 DEF DecisionTasks, DecisionPoints
<1>5. /\ x.at = "registry" /\ x.feature = f /\ x.token = t /\ x.read = read /\ x.held = Decision!Holding(f, t)
  BY DEF Decision!Idle
<1> HIDE DEF x
<1>6. decisionWork'[w] = x
  BY <1>3 DEF DecisionIInv, DecisionTyped
<1>7. /\ licence' = licence /\ sealed' = sealed /\ registry' = registry
  BY <1>3 DEF Decision!configuration
<1>8. DecisionFresh(w)'
  <2>1. Decision!Holding(f, t)' = Decision!Holding(f, t)
    BY <1>3, DecisionSame
  <2> QED  BY <1>5, <1>6, <2>1 DEF DecisionFresh
<1>9. SawIn(x.held, "integrity", Decision!Intact)
  <2>1. <<"integrity", Decision!Intact>> \in Decision!Holding(f, t)
    BY DEF Decision!Holding
  <2>2. Decision!Intact \in BOOLEAN
    BY DEF Decision!Intact
  <2> QED  BY <1>5, <2>1, <2>2 DEF SawIn
<1>10. DecisionChecks(w)'
  BY <1>1, <1>2, <1>5, <1>6, <1>7, <1>9 DEF DecisionChecks, Saw, SawIn, Decision!Intact
<1>11. DecisionAnswer(w)' /\ DecisionEvaluates(w)'
  BY <1>5, <1>6 DEF DecisionAnswer, DecisionEvaluates
<1>12. DecisionVerifies(w)'
  BY <1>3, <1>5, <1>6 DEF DecisionVerifies
<1>13. DecisionSound(w)'
  BY <1>8, <1>10, <1>11, <1>12 DEF DecisionSound
<1> QED  BY <1>3, <1>4, <1>13, DecisionReadsOnly, DecisionTaskStep

LEMMA DecisionEndStep ==
  ASSUME DecisionIInv, NEW w \in Workers, Decision!Ends(w)
  PROVE  DecisionIInv'
<1>1. Decision!Idle \in DecisionTasks /\ Decision!Idle.at = "idle" /\ Decision!Idle.token = None
  BY DEF Decision!Idle, Decision!NoRead, DecisionTasks, DecisionPoints, DecisionReads
<1>2. decisionWork' = [decisionWork EXCEPT ![w] = Decision!Idle] /\ decisionWork'[w] = Decision!Idle /\ UNCHANGED <<Decision!configuration, issued>>
  BY DEF Decision!Ends, DecisionIInv, DecisionTyped
<1>3. DecisionSound(w)'
  BY <1>1, <1>2 DEF DecisionSound, DecisionFresh, DecisionAnswer, DecisionChecks, DecisionEvaluates, DecisionVerifies
<1> QED  BY <1>1, <1>2, <1>3, DecisionReadsOnly, DecisionTaskStep

LEMMA DecisionReadStep ==
  ASSUME DecisionIInv, NEW w \in Workers, Decision!ReadRegistry(w)
  PROVE  DecisionIInv'
<1>1. /\ decisionWork[w] \in DecisionTasks /\ decisionWork[w].read \in DecisionReads /\ decisionWork[w].at = "registry"
      /\ UNCHANGED <<Decision!configuration, issued>> /\ registry \in {"whole", "altered", "resealed"}
      /\ DecisionSound(w) /\ DecisionView(w)
  BY DecisionSees DEF DecisionIInv, DecisionTyped, DecisionTasks, Decision!ReadRegistry, Decision!At
<1> DEFINE r == [decisionWork[w].read EXCEPT !.registry = registry]
           x == [decisionWork[w] EXCEPT !.at = "seals", !.read = r]
<1>2. r \in DecisionReads /\ r.licence = decisionWork[w].read.licence /\ r.facts = decisionWork[w].read.facts /\ r.registry = registry
  BY <1>1 DEF DecisionReads
<1>3. decisionWork' = [decisionWork EXCEPT ![w] = x]
  BY <1>1 DEF Decision!ReadRegistry, DecisionTasks
<1> HIDE DEF r
<1>4. x \in DecisionTasks
  BY <1>1, <1>2 DEF DecisionTasks, DecisionPoints
<1>5. /\ x.at = "seals" /\ x.feature = decisionWork[w].feature /\ x.token = decisionWork[w].token /\ x.read = r
      /\ x.held = decisionWork[w].held /\ x.overlapped = decisionWork[w].overlapped
  BY <1>1 DEF DecisionTasks
<1> HIDE DEF x
<1>6. decisionWork'[w] = x /\ sealed' = sealed /\ registry' = registry /\ issued' = issued
  BY <1>1, <1>3 DEF DecisionIInv, DecisionTyped, Decision!configuration
<1>7. \A c, p : Saw(w, c, p) => Saw(w, c, p)'
  BY <1>5, <1>6 DEF Saw
<1>8. registry # "whole" => Saw(w, "integrity", FALSE)
  BY <1>1 DEF DecisionView, Saw, SawIn, Decision!Intact
<1>9. DecisionChecks(w)'
  BY <1>1, <1>2, <1>5, <1>6, <1>7, <1>8 DEF DecisionChecks, DecisionSound
<1>10. DecisionAnswer(w)' /\ DecisionEvaluates(w)'
  BY <1>5, <1>6 DEF DecisionAnswer, DecisionEvaluates
<1>11. DecisionVerifies(w)'
  BY <1>1, <1>5, <1>6 DEF DecisionSound, DecisionVerifies
<1> QED  BY <1>1, <1>3, <1>4, <1>5, <1>9, <1>10, <1>11, DecisionReadsOnly, DecisionMoves

\* A transaction whose configuration was found whole goes on.
DecisionMay(w, p, r) ==
    LET x == decisionWork[w] IN
    /\ x.feature \in Features /\ Saw(w, "integrity", TRUE)
    /\ x.token = None => p \notin {"token", "judging"} /\ (p = "feature" => Saw(w, "live", TRUE))
    /\ x.token # None =>
          /\ p # "prohibited" /\ Saw(w, "licence", issued[x.token].licence = r.sealed)
          /\ p \in {"switch", "token", "judging"} =>
                /\ Saw(w, "version", issued[x.token].version = r.version)
                /\ Saw(w, "available", r.available) /\ (r.available => Saw(w, "known", TRUE))
          /\ p \in {"token", "judging"} => Saw(w, "live", ~r.killed)
          /\ p = "judging" => Saw(w, "unrevoked", TRUE)

LEMMA DecisionGoesOn ==
  ASSUME DecisionIInv, NEW w \in Workers, decisionWork[w].at # "idle", UNCHANGED <<Decision!configuration, issued>>,
         NEW p \in {"prohibited", "switch", "feature", "token", "judging"}, NEW r \in DecisionReads,
         decisionWork' = [decisionWork EXCEPT ![w] = [decisionWork[w] EXCEPT !.at = p, !.read = r]], DecisionMay(w, p, r)
  PROVE  DecisionIInv'
<1> DEFINE x == [decisionWork[w] EXCEPT !.at = p, !.read = r]
<1>1. decisionWork[w] \in DecisionTasks /\ DecisionSound(w)
  BY DEF DecisionIInv, DecisionTyped
<1>2. x \in DecisionTasks
  BY <1>1 DEF DecisionTasks, DecisionPoints
<1>3. /\ x.at = p /\ x.feature = decisionWork[w].feature /\ x.token = decisionWork[w].token /\ x.read = r
      /\ x.held = decisionWork[w].held
  BY <1>1 DEF DecisionTasks
<1>4. decisionWork' = [decisionWork EXCEPT ![w] = x]
  OBVIOUS
<1> HIDE DEF x
<1>5. decisionWork'[w] = x /\ issued' = issued
  BY <1>4 DEF DecisionIInv, DecisionTyped
<1>6. \A c, b : Saw(w, c, b) => Saw(w, c, b)'
  BY <1>3, <1>5 DEF Saw
<1>7. DecisionChecks(w)' /\ DecisionAnswer(w)'
  BY <1>3, <1>5, <1>6 DEF DecisionChecks, DecisionAnswer, DecisionMay
<1>8. DecisionEvaluates(w)'
  BY <1>3, <1>5, <1>6 DEF DecisionEvaluates, DecisionMay
<1>9. DecisionVerifies(w)'
  BY <1>1, <1>3, <1>5, <1>6 DEF DecisionSound, DecisionVerifies, DecisionMay
<1> QED  BY <1>2, <1>3, <1>4, <1>7, <1>8, <1>9, DecisionReadsOnly, DecisionMoves

\* A transaction that goes on has nothing new to remember.
LEMMA DecisionSkips ==
  ASSUME DecisionIInv, NEW w \in Workers, NEW p \in DecisionPoints
  PROVE  /\ [decisionWork[w] EXCEPT !.at = p] = [decisionWork[w] EXCEPT !.at = p, !.read = decisionWork[w].read]
         /\ decisionWork[w].read \in DecisionReads
<1>1. decisionWork[w] \in DecisionTasks
  BY DEF DecisionIInv, DecisionTyped
<1> QED  BY <1>1 DEF DecisionTasks

LEMMA DecisionIntegrityStep ==
  ASSUME DecisionIInv, NEW w \in Workers, Decision!verifyDecisionTimeIntegrity(w)
  PROVE  DecisionIInv'
<1>1. /\ decisionWork[w] \in DecisionTasks /\ decisionWork[w].read \in DecisionReads /\ decisionWork[w].at = "seals"
      /\ decisionWork[w].feature \in Features /\ decisionWork[w].feature # None /\ sealed \in Nat
      /\ UNCHANGED <<Decision!configuration, issued>> /\ DecisionSound(w) /\ DecisionView(w)
  BY DecisionSees DEF DecisionIInv, DecisionTyped, DecisionTasks, Decision!verifyDecisionTimeIntegrity, Decision!At
<1>2. CASE Decision!SealFits(w) /\ Decision!FactsAgree(w)
  <2>1. PICK p \in {"prohibited", "feature"} : p = IF Decision!Evaluates(w) THEN "prohibited" ELSE "feature"
    OBVIOUS
  <2>2. PICK r \in DecisionReads : r = [decisionWork[w].read EXCEPT !.sealed = sealed] /\ r.sealed = sealed
    <3>1. [decisionWork[w].read EXCEPT !.sealed = sealed] \in DecisionReads
      BY <1>1 DEF DecisionReads
    <3> QED  BY <1>1, <3>1 DEF DecisionReads
  <2>3. decisionWork' = [decisionWork EXCEPT ![w] = [decisionWork[w] EXCEPT !.at = p, !.read = r]]
    BY <1>1, <1>2, <2>1, <2>2 DEF Decision!verifyDecisionTimeIntegrity, DecisionTasks
  <2>4. Saw(w, "integrity", TRUE)
    BY <1>1, <1>2 DEF DecisionSound, DecisionChecks, Decision!FactsAgree
  <2>5. DecisionMay(w, p, r)
    BY <1>1, <2>1, <2>2, <2>4 DEF DecisionMay, DecisionView, Decision!Evaluates
  <2> QED  BY <1>1, <2>3, <2>5, DecisionGoesOn
<1>3. CASE ~(Decision!SealFits(w) /\ Decision!FactsAgree(w))
  <2>1. Decision!Told(w, "integrity_failed")
    BY <1>3 DEF Decision!verifyDecisionTimeIntegrity
  <2>2. Saw(w, "integrity", FALSE) \/ decisionWork[w].overlapped
    BY <1>1, <1>3 DEF DecisionSound, DecisionChecks, Decision!SealFits, Decision!FactsAgree
  <2>3. DecisionTrue(w, "integrity_failed")
    BY <2>2 DEF DecisionTrue
  <2>4. DecisionGrants
    BY <1>1, DecisionReadsOnly
  <2> QED  BY <1>1, <2>1, <2>3, <2>4, DecisionTold DEF DecisionVerdicts, Decision!Reasons
<1> QED  BY <1>2, <1>3

LEMMA DecisionProbeStep ==
  ASSUME DecisionIInv, NEW w \in Workers, Decision!checkConfigIntegritySeals(w)
  PROVE  DecisionIInv'
<1>1. decisionWork[w].at = "seals" /\ DecisionGrants /\ DecisionSound(w)
  BY DecisionReadsOnly DEF DecisionIInv, Decision!checkConfigIntegritySeals, Decision!At
<1>2. CASE Decision!SealFits(w)
  <2>1. Decision!Told(w, "ready")
    BY <1>2 DEF Decision!checkConfigIntegritySeals
  <2>2. DecisionTrue(w, "ready")
    BY DEF DecisionTrue, Decision!Reasons
  <2> QED  BY <1>1, <2>1, <2>2, DecisionTold DEF DecisionVerdicts, Decision!Reasons
<1>3. CASE ~Decision!SealFits(w)
  <2>1. Decision!Told(w, "not_ready")
    BY <1>3 DEF Decision!checkConfigIntegritySeals
  <2>2. Saw(w, "integrity", FALSE) \/ decisionWork[w].overlapped
    BY <1>1, <1>3 DEF DecisionSound, DecisionChecks, Decision!SealFits
  <2>3. DecisionTrue(w, "not_ready")
    BY <2>2 DEF DecisionTrue, Decision!Reasons
  <2> QED  BY <1>1, <2>1, <2>3, DecisionTold DEF DecisionVerdicts, Decision!Reasons
<1> QED  BY <1>2, <1>3

LEMMA DecisionProhibitedStep ==
  ASSUME DecisionIInv, NEW w \in Workers, Decision!ReadProhibited(w)
  PROVE  DecisionIInv'
<1>1. /\ decisionWork[w].at = "prohibited" /\ UNCHANGED <<Decision!configuration, issued>> /\ DecisionSound(w) /\ DecisionView(w)
  BY DecisionSees DEF DecisionIInv, Decision!ReadProhibited, Decision!At
<1>6. DecisionGrants
  BY <1>1, DecisionReadsOnly
<1>2. decisionWork[w].feature \in Features /\ decisionWork[w].feature # None /\ decisionWork[w].token = None /\ Saw(w, "integrity", TRUE)
  BY <1>1, DecisionAssumption DEF DecisionSound, DecisionChecks, DecisionVerifies
<1>3. CASE Decision!Told(w, "prohibited") /\ decisionWork[w].feature \in Listed
  <2>1. Saw(w, Decision!Says("prohibited"), FALSE)
    BY <1>1, <1>2, <1>3 DEF DecisionView, Saw, SawIn, Decision!Says
  <2>2. DecisionTrue(w, "prohibited")
    BY <2>1 DEF DecisionTrue
  <2> QED  BY <1>1, <1>3, <1>6, <2>2, DecisionTold DEF DecisionVerdicts, Decision!Reasons
<1>4. CASE Decision!Told(w, "environment_mismatch")
  <2>1. DecisionTrue(w, "environment_mismatch")
    BY DEF DecisionTrue, Decision!Reasons
  <2> QED  BY <1>1, <1>4, <1>6, <2>1, DecisionTold DEF DecisionVerdicts, Decision!Reasons
<1>5. CASE decisionWork' = [decisionWork EXCEPT ![w].at = "switch"]
  <2>1. decisionWork' = [decisionWork EXCEPT ![w] = [decisionWork[w] EXCEPT !.at = "switch", !.read = decisionWork[w].read]]
    BY <1>5, DecisionSkips DEF DecisionPoints
  <2>2. DecisionMay(w, "switch", decisionWork[w].read)
    BY <1>2 DEF DecisionMay
  <2>3. decisionWork[w].read \in DecisionReads
    BY DecisionSkips DEF DecisionPoints
  <2> QED  BY <1>1, <2>1, <2>2, <2>3, DecisionGoesOn
<1> QED  BY <1>3, <1>4, <1>5 DEF Decision!ReadProhibited

LEMMA DecisionSwitchStep ==
  ASSUME DecisionIInv, NEW w \in Workers, Decision!isKillSwitchActiveForFeature(w)
  PROVE  DecisionIInv'
<1>1. /\ decisionWork[w] \in DecisionTasks /\ decisionWork[w].read \in DecisionReads /\ decisionWork[w].at = "switch"
      /\ UNCHANGED <<Decision!configuration, issued>> /\ DecisionSound(w) /\ DecisionView(w)
  BY DecisionSees DEF DecisionIInv, DecisionTyped, DecisionTasks, Decision!isKillSwitchActiveForFeature, Decision!At
<1>2. decisionWork[w].feature \in Features /\ decisionWork[w].feature # None /\ Saw(w, "integrity", TRUE) /\ DecisionGrants
  BY <1>1, DecisionAssumption, DecisionReadsOnly DEF DecisionSound, DecisionChecks
<1>3. CASE ~Decision!Evaluates(w)
  <2>1. PICK b \in BOOLEAN : b = (decisionWork[w].feature \in stopped) /\ (b <=> decisionWork[w].feature \in stopped)
    <3>1. (decisionWork[w].feature \in stopped) \in BOOLEAN
      OBVIOUS
    <3> QED  BY <3>1
  <2>2. PICK r \in DecisionReads :
           /\ r = [decisionWork[w].read EXCEPT !.killed = b] /\ r.killed = b /\ r.sealed = decisionWork[w].read.sealed
           /\ r.version = decisionWork[w].read.version /\ r.available = decisionWork[w].read.available
    <3>1. [decisionWork[w].read EXCEPT !.killed = b] \in DecisionReads
      BY <1>1 DEF DecisionReads
    <3> QED  BY <1>1, <3>1 DEF DecisionReads
  <2>3. decisionWork' = [decisionWork EXCEPT ![w] = [decisionWork[w] EXCEPT !.at = "token", !.read = r]]
    BY <1>1, <1>3, <2>1, <2>2 DEF Decision!isKillSwitchActiveForFeature, DecisionTasks
  <2>4. Saw(w, "live", ~b)
    BY <1>1, <1>2, <2>1 DEF DecisionView, Saw, SawIn
  <2>5. DecisionMay(w, "token", r)
    BY <1>1, <1>2, <1>3, <2>2, <2>4 DEF DecisionMay, DecisionSound, DecisionVerifies, Decision!Evaluates
  <2> QED  BY <1>1, <2>3, <2>5, DecisionGoesOn
<1>4. CASE Decision!Evaluates(w) /\ decisionWork[w].feature \in stopped
  <2>1. Decision!Told(w, "kill_switch_active")
    BY <1>4 DEF Decision!isKillSwitchActiveForFeature
  <2>2. Saw(w, Decision!Says("kill_switch_active"), FALSE)
    BY <1>1, <1>2, <1>4 DEF DecisionView, Saw, SawIn, Decision!Says
  <2>3. DecisionTrue(w, "kill_switch_active")
    BY <2>2 DEF DecisionTrue
  <2> QED  BY <1>1, <1>2, <2>1, <2>3, DecisionTold DEF DecisionVerdicts, Decision!Reasons
<1>5. CASE Decision!Evaluates(w) /\ decisionWork[w].feature \notin stopped
  <2>1. decisionWork' = [decisionWork EXCEPT ![w] = [decisionWork[w] EXCEPT !.at = "feature", !.read = decisionWork[w].read]]
    BY <1>5, DecisionSkips DEF DecisionPoints, Decision!isKillSwitchActiveForFeature
  <2>2. Saw(w, "live", TRUE)
    BY <1>1, <1>2, <1>5 DEF DecisionView, Saw, SawIn
  <2>3. DecisionMay(w, "feature", decisionWork[w].read)
    BY <1>2, <1>5, <2>2 DEF DecisionMay, Decision!Evaluates
  <2> QED  BY <1>1, <2>1, <2>3, DecisionGoesOn
<1> QED  BY <1>3, <1>4, <1>5

LEMMA DecisionEvaluateStep ==
  ASSUME DecisionIInv, NEW w \in Workers, Decision!Evaluate(w)
  PROVE  DecisionIInv'
<1>1. /\ decisionWork[w] \in DecisionTasks /\ decisionWork[w].read \in DecisionReads /\ decisionWork[w].at = "feature"
      /\ UNCHANGED Decision!configuration /\ DecisionSound(w) /\ DecisionView(w) /\ decisionWork[w].token = None
  BY DecisionSees DEF DecisionIInv, DecisionTyped, DecisionTasks, Decision!Evaluate, Decision!Evaluates, Decision!At
<1>2. PICK f \in Features : f = decisionWork[w].feature
  BY <1>1 DEF DecisionSound, DecisionChecks
<1>3. f # None /\ Saw(w, "integrity", TRUE) /\ Saw(w, "live", TRUE)
  BY <1>1, <1>2, DecisionAssumption DEF DecisionSound, DecisionChecks, DecisionEvaluates
<1>4. /\ ~Decision!Known(f) => Saw(w, "known", FALSE)
      /\ ~Decision!Available(f) => Saw(w, "available", FALSE)
      /\ ~Decision!Enabled(f) => Saw(w, "enabled", FALSE)
      /\ Decision!Known(f) => Saw(w, "known", TRUE)
      /\ Decision!Available(f) => Saw(w, "available", TRUE)
      /\ Decision!Enabled(f) => Saw(w, "enabled", TRUE)
      /\ f \notin Listed => Saw(w, "listed", TRUE)
  BY <1>1, <1>2, <1>3 DEF DecisionView, Saw, SawIn
<1>5. CASE Decision!Denial(w) # None
  <2>1. PICK v \in {"unknown_fail_closed", "environment_not_available", "stale_revalidate", "feature_disabled", "production_activation_absent"} :
           v = Decision!Denial(w)
    BY <1>5 DEF Decision!Denial
  <2>2. /\ v = "unknown_fail_closed" => Saw(w, "known", FALSE)
        /\ v = "environment_not_available" => Saw(w, "available", FALSE)
        /\ v = "feature_disabled" => Saw(w, "enabled", FALSE)
    BY <1>2, <1>4, <2>1, DecisionAssumption DEF Decision!Denial, Decision!Available, Decision!Enabled
  <2>3. DecisionTrue(w, v)
    BY <2>1, <2>2 DEF DecisionTrue, Decision!Reasons, Decision!Says
  <2>4. Decision!Told(w, v) /\ DecisionGrants
    BY <1>1, <1>5, <2>1, DecisionReadsOnly DEF Decision!Evaluate
  <2>5. v \in DecisionVerdicts
    BY <2>1 DEF DecisionVerdicts, Decision!Reasons
  <2> QED  BY <1>1, <2>3, <2>4, <2>5, DecisionTold
<1>6. CASE Decision!Denial(w) = None
  <2>1. Decision!Known(f) /\ Decision!Available(f) /\ Decision!Enabled(f)
    BY <1>2, <1>6, DecisionAssumption DEF Decision!Denial, Decision!Available, Decision!Enabled
  <2>2. f \notin Listed
    BY <2>1 DEF DecisionIInv, DecisionGrounds, Decision!Known
  <2>3. PICK t \in Tokens : Decision!issueDecisionToken(w, t) /\ Decision!Told(w, "feature_allowed")
    BY <1>6 DEF Decision!Evaluate
  <2>4. feature[f].version \in Nat /\ decisionWork[w].read.sealed \in Nat
    BY <1>1 DEF DecisionIInv, DecisionTyped, DecisionReads
  <2>5. PICK y \in DecisionTokens :
           /\ y = [status |-> "active", feature |-> f, version |-> feature[f].version, licence |-> decisionWork[w].read.sealed]
           /\ y.status = "active" /\ y.feature = f
    <3>1. [status |-> "active", feature |-> f, version |-> feature[f].version, licence |-> decisionWork[w].read.sealed] \in DecisionTokens
      BY <2>4 DEF DecisionTokens
    <3> QED  BY <3>1
  <2>6. issued[t] = Decision!NoToken /\ issued' = [issued EXCEPT ![t] = y]
    BY <1>2, <2>3, <2>5 DEF Decision!issueDecisionToken
  <2>7. /\ issued' \in [Tokens -> DecisionTokens] /\ issued'[t] = y /\ \A u \in Tokens \ {t} : issued'[u] = issued[u]
    BY <2>6 DEF DecisionIInv, DecisionTyped
  <2>8. DecisionGrants
    BY <1>1, <2>2, <2>5, <2>6, <2>7, FeatureAssumption DEF DecisionGrants, DecisionIInv, DecisionGrounds
  <2>9. DecisionTrue(w, "feature_allowed")
    <3>1. Decision!Vouched(w) = {"integrity", "listed", "live", "known", "available"} \cup {"enabled"}
      BY <1>1 DEF Decision!Vouched, Decision!Evaluates
    <3>2. \A c \in Decision!Vouched(w) : Saw(w, c, TRUE)
      BY <1>3, <1>4, <2>1, <2>2, <3>1
    <3> QED  BY <3>2 DEF DecisionTrue, Decision!Reasons
  <2> QED  BY <1>1, <2>3, <2>8, <2>9, DecisionTold DEF DecisionVerdicts
<1> QED  BY <1>5, <1>6

LEMMA DecisionCurrentStep ==
  ASSUME DecisionIInv, NEW w \in Workers, Decision!ReadCurrent(w)
  PROVE  DecisionIInv'
<1>1. /\ decisionWork[w] \in DecisionTasks /\ decisionWork[w].read \in DecisionReads /\ decisionWork[w].at = "feature"
      /\ UNCHANGED <<Decision!configuration, issued>> /\ DecisionSound(w) /\ DecisionView(w) /\ decisionWork[w].token # None
  BY DecisionSees DEF DecisionIInv, DecisionTyped, DecisionTasks, Decision!ReadCurrent, Decision!Evaluates, Decision!At
<1>2. PICK f \in Features : f = decisionWork[w].feature
  BY <1>1 DEF DecisionSound, DecisionChecks
<1>3. f # None /\ Saw(w, "integrity", TRUE)
  BY <1>1, <1>2, DecisionAssumption DEF DecisionSound, DecisionChecks
<1>4. PICK b \in BOOLEAN : b = Decision!Available(f) /\ (b <=> Decision!Available(f))
  BY DEF Decision!Available, Decision!Known
<1>5. PICK n \in Nat : n = feature[f].version
  BY DEF DecisionIInv, DecisionTyped
<1>6. PICK r \in DecisionReads :
         /\ r = [decisionWork[w].read EXCEPT !.version = n, !.available = b] /\ r.version = n /\ r.available = b
         /\ r.sealed = decisionWork[w].read.sealed
  <2>1. [decisionWork[w].read EXCEPT !.version = n, !.available = b] \in DecisionReads
    BY <1>1 DEF DecisionReads
  <2> QED  BY <1>1, <2>1 DEF DecisionReads
<1>7. decisionWork' = [decisionWork EXCEPT ![w] = [decisionWork[w] EXCEPT !.at = "switch", !.read = r]]
  BY <1>1, <1>2, <1>4, <1>5, <1>6 DEF Decision!ReadCurrent, DecisionTasks
<1>8. /\ Saw(w, "available", b) /\ (b => Saw(w, "known", TRUE))
      /\ Saw(w, "version", issued[decisionWork[w].token].version = n)
  BY <1>1, <1>2, <1>3, <1>4, <1>5 DEF DecisionView, Saw, SawIn, Decision!Available
<1>9. DecisionMay(w, "switch", r)
  BY <1>1, <1>2, <1>3, <1>6, <1>8 DEF DecisionMay, DecisionSound, DecisionVerifies
<1> QED  BY <1>1, <1>7, <1>9, DecisionGoesOn

LEMMA DecisionTokenStep ==
  ASSUME DecisionIInv, NEW w \in Workers, NEW expired \in BOOLEAN, Decision!ReadToken(w, expired)
  PROVE  DecisionIInv'
<1>1. /\ decisionWork[w].read \in DecisionReads /\ decisionWork[w].at = "token"
      /\ UNCHANGED <<Decision!configuration, issued>> /\ DecisionSound(w) /\ DecisionView(w)
  BY DecisionSees, DecisionSkips DEF DecisionPoints, DecisionIInv, Decision!ReadToken, Decision!At
<1>2. decisionWork[w].token # None /\ decisionWork[w].feature \in Features /\ decisionWork[w].feature # None /\ DecisionGrants
  BY <1>1, DecisionAssumption, DecisionReadsOnly DEF DecisionSound, DecisionEvaluates, DecisionChecks
<1>3. PICK t \in Tokens : t = decisionWork[w].token
  BY <1>1, <1>2 DEF DecisionSound, DecisionVerifies
<1>4. issued[t].status \in {"active", "revoked"}
  BY <1>1, <1>2, <1>3 DEF DecisionSound, DecisionVerifies, DecisionIInv, DecisionGrounds, DecisionTyped, DecisionTokens
<1>5. CASE Decision!Told(w, "revoked") /\ issued[t].status = "revoked"
  <2>1. Saw(w, "unrevoked", FALSE)
    BY <1>1, <1>2, <1>3, <1>5 DEF DecisionView, Saw, SawIn
  <2>2. DecisionTrue(w, "revoked")
    BY <2>1 DEF DecisionTrue, Decision!Says
  <2> QED  BY <1>1, <1>2, <1>5, <2>2, DecisionTold DEF DecisionVerdicts, Decision!Reasons
<1>6. CASE Decision!Told(w, "expired")
  <2>1. DecisionTrue(w, "expired")
    BY DEF DecisionTrue, Decision!Reasons
  <2> QED  BY <1>1, <1>2, <1>6, <2>1, DecisionTold DEF DecisionVerdicts
<1>7. CASE decisionWork' = [decisionWork EXCEPT ![w].at = "judging"] /\ issued[t].status = "active"
  <2>1. decisionWork' = [decisionWork EXCEPT ![w] = [decisionWork[w] EXCEPT !.at = "judging", !.read = decisionWork[w].read]]
    BY <1>7, DecisionSkips DEF DecisionPoints
  <2>2. Saw(w, "unrevoked", TRUE)
    BY <1>1, <1>2, <1>3, <1>7 DEF DecisionView, Saw, SawIn
  <2>3. DecisionMay(w, "judging", decisionWork[w].read)
    BY <1>1, <1>2, <2>2 DEF DecisionMay, DecisionSound, DecisionVerifies, DecisionChecks
  <2> QED  BY <1>1, <2>1, <2>3, DecisionGoesOn
<1> QED  BY <1>3, <1>4, <1>5, <1>6, <1>7 DEF Decision!ReadToken

LEMMA DecisionJudgeStep ==
  ASSUME DecisionIInv, NEW w \in Workers, Decision!verifyDecisionToken(w)
  PROVE  DecisionIInv'
<1>1. /\ decisionWork[w] \in DecisionTasks /\ decisionWork[w].at = "judging" /\ UNCHANGED Decision!configuration
      /\ DecisionSound(w) /\ DecisionView(w)
  BY DecisionSees DEF DecisionIInv, DecisionTyped, Decision!verifyDecisionToken, Decision!At
<1>2. /\ decisionWork[w].token # None /\ decisionWork[w].feature \in Features /\ decisionWork[w].feature # None
      /\ Saw(w, "integrity", TRUE) /\ Saw(w, "unrevoked", TRUE)
  BY <1>1, DecisionAssumption DEF DecisionSound, DecisionEvaluates, DecisionChecks, DecisionVerifies
<1>3. PICK t \in Tokens : t = decisionWork[w].token /\ issued[t] # Decision!NoToken
  BY <1>1, <1>2 DEF DecisionSound, DecisionVerifies
<1>4. /\ decisionWork[w].read.killed => Saw(w, "live", FALSE)
      /\ ~decisionWork[w].read.killed => Saw(w, "live", TRUE)
      /\ decisionWork[w].read.available => Saw(w, "available", TRUE) /\ Saw(w, "known", TRUE)
      /\ ~decisionWork[w].read.available => Saw(w, "available", FALSE)
      /\ issued[t].version = decisionWork[w].read.version => Saw(w, "version", TRUE)
      /\ issued[t].version # decisionWork[w].read.version => Saw(w, "version", FALSE)
      /\ issued[t].licence = decisionWork[w].read.sealed => Saw(w, "licence", TRUE)
      /\ issued[t].licence # decisionWork[w].read.sealed => Saw(w, "licence", FALSE)
  BY <1>1, <1>2, <1>3 DEF DecisionSound, DecisionVerifies, Saw, SawIn
<1>5. issued[t].feature = decisionWork[w].feature => Saw(w, "listed", TRUE)
  <2>1. issued[t].feature \notin Listed
    BY <1>3 DEF DecisionIInv, DecisionGrounds
  <2> QED  BY <1>1, <1>2, <2>1 DEF DecisionView, Saw, SawIn
<1>6. PICK v \in {"verified", "environment_mismatch", "binding_mismatch", "kill_switch_active", "environment_unavailable", "config_changed"} :
         v = IF Decision!RevokedReason(w) = None THEN "verified" ELSE Decision!RevokedReason(w)
  BY DEF Decision!RevokedReason
<1>7. /\ v = "verified" => /\ issued[t].feature = decisionWork[w].feature /\ ~decisionWork[w].read.killed
                           /\ decisionWork[w].read.available /\ issued[t].version = decisionWork[w].read.version
                           /\ issued[t].licence = decisionWork[w].read.sealed
      /\ v = "kill_switch_active" => decisionWork[w].read.killed
      /\ v = "environment_unavailable" => ~decisionWork[w].read.available
      /\ v = "config_changed" => issued[t].version # decisionWork[w].read.version \/ issued[t].licence # decisionWork[w].read.sealed
  BY <1>3, <1>6, DecisionAssumption DEF Decision!RevokedReason, Decision!BindingMismatch, Decision!ConfigChanged
<1>8. DecisionTrue(w, v)
  <2>1. CASE v = "verified"
    <3>1. Decision!Vouched(w) = {"integrity", "listed", "live", "known", "available"} \cup {"unrevoked", "version", "licence"}
      BY <1>2 DEF Decision!Vouched, Decision!Evaluates
    <3>2. \A c \in Decision!Vouched(w) : Saw(w, c, TRUE)
      BY <1>2, <1>4, <1>5, <1>7, <2>1, <3>1
    <3> QED  BY <2>1, <3>2 DEF DecisionTrue, Decision!Reasons
  <2>2. CASE v # "verified"
    <3>1. /\ v = "kill_switch_active" => Saw(w, "live", FALSE)
          /\ v = "environment_unavailable" => Saw(w, "available", FALSE)
          /\ v = "config_changed" => Saw(w, "version", FALSE) \/ Saw(w, "licence", FALSE)
      BY <1>4, <1>7
    <3> QED  BY <1>6, <2>2, <3>1 DEF DecisionTrue, Decision!Reasons, Decision!Says
  <2> QED  BY <2>1, <2>2
<1>9. v \in DecisionVerdicts
  BY <1>6 DEF DecisionVerdicts, Decision!Reasons
<1>10. [decisionWork[w] EXCEPT !.at = "told", !.verdict = v] \in DecisionTasks
  BY <1>1, <1>9 DEF DecisionTasks, DecisionPoints
<1>11. PICK x \in DecisionTasks :
          /\ x = [decisionWork[w] EXCEPT !.at = "told", !.verdict = v] /\ x.at = "told" /\ x.verdict = v
          /\ x.feature = decisionWork[w].feature /\ x.token = decisionWork[w].token /\ x.held = decisionWork[w].held
  BY <1>1, <1>10 DEF DecisionTasks
<1> DEFINE was == [decisionWork EXCEPT ![w] = x]
<1>12. was \in [Workers -> DecisionTasks] /\ was[w] = x /\ \A u \in Workers \ {w} : was[u] = decisionWork[u]
  BY DEF DecisionIInv, DecisionTyped
<1>13. decisionWork' = Decision!Observed(was)
  <2>1. was = [decisionWork EXCEPT ![w] = [decisionWork[w] EXCEPT !.at = "told", !.verdict = v]]
    BY <1>11
  <2>2. was = [decisionWork EXCEPT ![w].at = "told", ![w].verdict = IF Decision!RevokedReason(w) = None THEN "verified" ELSE Decision!RevokedReason(w)]
    BY <1>6, <2>1 DEF DecisionIInv, DecisionTyped
  <2> HIDE DEF was
  <2> QED  BY <2>2 DEF Decision!verifyDecisionToken
<1> HIDE DEF was
<1>14. /\ decisionWork' \in [Workers -> DecisionTasks]
       /\ \A u \in Workers :
             /\ DecisionFresh(u)'
             /\ decisionWork'[u].at = was[u].at /\ decisionWork'[u].feature = was[u].feature /\ decisionWork'[u].token = was[u].token
             /\ decisionWork'[u].read = was[u].read /\ decisionWork'[u].verdict = was[u].verdict
             /\ was[u].held \subseteq decisionWork'[u].held /\ decisionWork'[u].overlapped = was[u].overlapped
  BY <1>12, <1>13, DecisionObserved
<1>15. /\ issued' \in [Tokens -> DecisionTokens]
       /\ \A u \in Tokens : issued[u] # Decision!NoToken =>
             /\ issued'[u] # Decision!NoToken /\ issued'[u].status # None /\ issued'[u].feature = issued[u].feature
             /\ issued'[u].version = issued[u].version /\ issued'[u].licence = issued[u].licence
       /\ \A u \in Tokens : issued'[u] # Decision!NoToken => issued[u] # Decision!NoToken
  <2>1. CASE issued' = issued
    BY <2>1 DEF DecisionIInv, DecisionTyped, DecisionGrounds
  <2>2. CASE issued' = [issued EXCEPT ![t].status = "revoked"]
    <3>1. issued[t] \in DecisionTokens
      BY DEF DecisionIInv, DecisionTyped
    <3>2. [issued[t] EXCEPT !.status = "revoked"] \in DecisionTokens
      BY <3>1 DEF DecisionTokens
    <3>3. PICK y \in DecisionTokens :
             /\ y = [issued[t] EXCEPT !.status = "revoked"] /\ y.status = "revoked" /\ y.feature = issued[t].feature
             /\ y.version = issued[t].version /\ y.licence = issued[t].licence
      BY <3>1, <3>2 DEF DecisionTokens
    <3>4. issued' = [issued EXCEPT ![t] = y]
      BY <2>2, <3>3 DEF DecisionIInv, DecisionTyped
    <3>5. issued' \in [Tokens -> DecisionTokens] /\ issued'[t] = y /\ \A u \in Tokens \ {t} : issued'[u] = issued[u]
      BY <3>4 DEF DecisionIInv, DecisionTyped
    <3>6. y # Decision!NoToken /\ y.status # None
      BY <3>3, FeatureAssumption DEF Decision!NoToken
    <3> QED  BY <1>3, <3>3, <3>5, <3>6 DEF DecisionIInv, DecisionGrounds
  <2> QED  BY <1>3, <2>1, <2>2 DEF Decision!verifyDecisionToken
<1>16. /\ licence' = licence /\ sealed' = sealed /\ registry' = registry /\ feature' = feature /\ stopped' = stopped /\ changes' = changes
  BY <1>1 DEF Decision!configuration
<1>17. DecisionTyped' /\ DecisionGrounds'
  BY <1>14, <1>15, <1>16 DEF DecisionIInv, DecisionTyped, DecisionGrounds
<1>18. ASSUME NEW u \in Workers \ {w} PROVE DecisionSound(u)'
  <2>1. DecisionSound(u) /\ was[u] = decisionWork[u]
    BY <1>12 DEF DecisionIInv
  <2>2. \A k \in Tokens : issued[k] # Decision!NoToken =>
           /\ issued'[k] # Decision!NoToken
           /\ issued'[k].version = issued[k].version /\ issued'[k].licence = issued[k].licence
    BY <1>15
  <2> QED  BY <1>14, <1>16, <2>1, <2>2, DecisionOther
<1>19. DecisionSound(w)'
  <2>1. /\ decisionWork'[w].at = "told" /\ decisionWork'[w].verdict = v /\ decisionWork'[w].feature = decisionWork[w].feature
        /\ decisionWork'[w].token = t /\ decisionWork[w].held \subseteq decisionWork'[w].held
    BY <1>3, <1>11, <1>12, <1>14
  <2>2. \A c, p : Saw(w, c, p) => Saw(w, c, p)'
    BY <2>1 DEF Saw, SawIn
  <2>3. Decision!Vouched(w)' = Decision!Vouched(w)
    BY <1>3, <2>1 DEF Decision!Vouched, Decision!Evaluates
  <2>4. DecisionAnswer(w)'
    BY <1>6, <1>8, <2>1, <2>2, <2>3 DEF DecisionAnswer, DecisionTrue
  <2>5. DecisionChecks(w)' /\ DecisionEvaluates(w)'
    BY <2>1 DEF DecisionChecks, DecisionEvaluates
  <2>6. DecisionVerifies(w)'
    BY <1>2, <1>3, <1>15, <2>1 DEF DecisionVerifies
  <2>7. DecisionFresh(w)'
    BY <1>14
  <2> QED  BY <2>4, <2>5, <2>6, <2>7 DEF DecisionSound
<1> QED  BY <1>17, <1>18, <1>19 DEF DecisionIInv

LEMMA DecisionBegins == Decision!Init => DecisionIInv
<1> SUFFICES ASSUME Decision!Init PROVE DecisionIInv
  OBVIOUS
<1> USE DEF Decision!Init
<1>1. Decision!Idle \in DecisionTasks /\ Decision!Idle.at = "idle" /\ Decision!Idle.token = None
  BY DEF Decision!Idle, Decision!NoRead, DecisionTasks, DecisionPoints, DecisionReads
<1>2. Decision!NoToken \in DecisionTokens
  BY DEF Decision!NoToken, DecisionTokens
<1>3. \A f \in Features : [state |-> IF f \in Listed THEN None ELSE "enabled", version |-> 1, available |-> TRUE]
                             \in [state : {None, "enabled", "disabled"}, version : Nat, available : BOOLEAN]
  OBVIOUS
<1>4. DecisionTyped
  BY <1>1, <1>2, <1>3, DecisionAssumption DEF DecisionTyped
<1>5. DecisionGrounds
  BY DEF DecisionGrounds
<1>6. ASSUME NEW w \in Workers PROVE DecisionSound(w)
  <2>1. decisionWork[w] = Decision!Idle
    OBVIOUS
  <2> QED  BY <1>1, <2>1 DEF DecisionSound, DecisionFresh, DecisionAnswer, DecisionChecks, DecisionEvaluates, DecisionVerifies
<1> QED  BY <1>4, <1>5, <1>6 DEF DecisionIInv

LEMMA DecisionStays ==
  ASSUME DecisionIInv, UNCHANGED Decision!vars
  PROVE  DecisionIInv'
<1>1. /\ licence' = licence /\ sealed' = sealed /\ registry' = registry /\ feature' = feature /\ stopped' = stopped
      /\ changes' = changes /\ issued' = issued /\ decisionWork' = decisionWork
  BY DEF Decision!vars
<1>2. DecisionTyped' /\ DecisionGrounds'
  BY <1>1 DEF DecisionIInv, DecisionTyped, DecisionGrounds
<1>3. ASSUME NEW w \in Workers PROVE DecisionSound(w)'
  <2>1. DecisionSound(w)
    BY DEF DecisionIInv
  <2>2. \A f, t : Decision!Holding(f, t)' = Decision!Holding(f, t)
    BY <1>1, DecisionSame DEF Decision!configuration
  <2>3. DecisionFresh(w)'
    <3>1. PICK f, t : f = decisionWork[w].feature /\ t = decisionWork[w].token
      OBVIOUS
    <3>2. Decision!Holding(f, t)' = Decision!Holding(f, t)
      BY <2>2
    <3> QED  BY <1>1, <2>1, <3>1, <3>2 DEF DecisionSound, DecisionFresh
  <2> QED  BY <1>1, <2>1, <2>3, DecisionOther
<1> QED  BY <1>2, <1>3 DEF DecisionIInv

LEMMA DecisionStep == DecisionIInv /\ [Decision!Next]_Decision!vars => DecisionIInv'
<1> SUFFICES ASSUME DecisionIInv, [Decision!Next]_Decision!vars PROVE DecisionIInv'
  OBVIOUS
<1>1. CASE Decision!Next
  <2>1. ASSUME NEW facts \in BOOLEAN, Decision!LicenceApplied(facts) PROVE DecisionIInv'
    BY <2>1, DecisionLicenceStep
  <2>2. ASSUME \/ \E f \in Features : Decision!AvailabilitySet(f) \/ Decision!Switched(f)
                                      \/ \E to \in {"enabled", "disabled"} : Decision!FeatureApplied(f, to)
               \/ \E how \in {"altered", "resealed"} : Decision!Altered(how)
        PROVE DecisionIInv'
    BY <2>2, DecisionChangeStep
  <2>3. ASSUME NEW w \in Workers, NEW f \in Features, NEW asserted \in BOOLEAN, NEW fits \in BOOLEAN,
               \/ Decision!Begin(w, f, None, asserted, fits)
               \/ \E t \in Tokens : issued[t] # Decision!NoToken /\ Decision!Begin(w, f, t, asserted, fits)
        PROVE DecisionIInv'
    <3>1. PICK t \in Tokens \cup {None} : Decision!Begin(w, f, t, asserted, fits) /\ (t # None => issued[t] # Decision!NoToken)
      BY <2>3
    <3> QED  BY <3>1, DecisionBeginStep
  <2>4. ASSUME NEW w \in Workers, Decision!Probe(w) PROVE DecisionIInv'
    <3>1. Decision!Begin(w, None, None, TRUE, TRUE)
      BY <2>4 DEF Decision!Probe
    <3> QED  BY <3>1, DecisionBeginStep
  <2>5. ASSUME NEW w \in Workers, Decision!checkConfigIntegritySeals(w) \/ Decision!ReadRegistry(w) \/ Decision!verifyDecisionTimeIntegrity(w)
        PROVE DecisionIInv'
    BY <2>5, DecisionProbeStep, DecisionReadStep, DecisionIntegrityStep
  <2>6. ASSUME NEW w \in Workers, Decision!ReadProhibited(w) \/ Decision!isKillSwitchActiveForFeature(w) \/ Decision!Evaluate(w)
        PROVE DecisionIInv'
    BY <2>6, DecisionProhibitedStep, DecisionSwitchStep, DecisionEvaluateStep
  <2>7. ASSUME NEW w \in Workers, Decision!ReadCurrent(w) \/ Decision!verifyDecisionToken(w) \/ Decision!Ends(w)
        PROVE DecisionIInv'
    BY <2>7, DecisionCurrentStep, DecisionJudgeStep, DecisionEndStep
  <2>8. ASSUME NEW w \in Workers, NEW expired \in BOOLEAN, Decision!ReadToken(w, expired) PROVE DecisionIInv'
    BY <2>8, DecisionTokenStep
  <2> QED  BY <1>1, <2>1, <2>2, <2>3, <2>4, <2>5, <2>6, <2>7, <2>8 DEF Decision!Next
<1>2. CASE UNCHANGED Decision!vars
  BY <1>2, DecisionStays
<1> QED  BY <1>1, <1>2

LEMMA DecisionAnswered == DecisionIInv => Decision!TypeOK /\ Decision!DecidedOnWhatHeld /\ Decision!AlarmsTell
<1> SUFFICES ASSUME DecisionIInv PROVE Decision!TypeOK /\ Decision!DecidedOnWhatHeld /\ Decision!AlarmsTell
  OBVIOUS
<1>1. Decision!TypeOK
  BY DEF DecisionIInv, DecisionTyped, DecisionTokens, DecisionTasks, DecisionConditions, Decision!TypeOK
<1>2. Decision!DecidedOnWhatHeld /\ Decision!AlarmsTell
  BY DEF DecisionIInv, DecisionSound, DecisionAnswer, Saw, SawIn, Decision!DecidedOnWhatHeld, Decision!AlarmsTell, Decision!At
<1> QED  BY <1>1, <1>2

-----------------------------------------------------------------------------
(* Of the platform.                                                         *)

\* For any limits, jobs and calls: checks are admitted within the limits of their windows, a caller
\* who is denied is told no time too early, and each run of denials is logged; a request that is
\* sent again is carried out and audited once; a request goes on only as those it asked have said,
\* and a decision token has its action applied once at most.
THEOREM FoundationSound == PlatformSpec => []FoundationHolds
<1>1. LimitIInv /\ JobsIInv /\ CallsIInv => FoundationHolds
  BY LimitSound, JobsSound, CallsSound DEF FoundationHolds
<1>2. RateLimit!Spec => []LimitIInv
  BY LimitBegins, LimitStep, PTL DEF RateLimit!Spec
<1>3. Jobs!Spec => []JobsIInv
  BY JobsBegin, JobsStep, PTL DEF Jobs!Spec
<1>4. Calls!Spec => []CallsIInv
  BY CallsBegin, CallsStep, PTL DEF Calls!Spec
<1> QED  BY <1>1, <1>2, <1>3, <1>4, Composed, PTL

\* For any features, licences and switches: however changes overlap, each scope has the seal of its
\* rows, one active seal, no two versions of a licence are one, and one change creates a feature; a
\* token verifies over a change only when the change overlapped another; an activation of the kill
\* switch is lifted once, under a request of its own; and a decision says nothing that did not hold
\* while it was made.
THEOREM ConfigurationSound == PlatformSpec => []ConfigurationHolds
<1>1. FeatureIInv /\ LiftedUnderRequest /\ DecisionIInv => ConfigurationHolds
  BY FeatureSound, DecisionAnswered DEF ConfigurationHolds
<1>2. Feature!Spec => []FeatureIInv
  BY FeatureBegins, FeatureStep, PTL DEF Feature!Spec
<1>3. Decision!Spec => []DecisionIInv
  BY DecisionBegins, DecisionStep, PTL DEF Decision!Spec
<1> QED  BY <1>1, <1>2, <1>3, Switched, Composed, PTL
=============================================================================
