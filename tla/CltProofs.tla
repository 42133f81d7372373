------------------------------ MODULE CltProofs ------------------------------
(***************************************************************************)
(* What CLT-01 promises of an application and of the register of the       *)
(* client it becomes, for any numbers of parties, candidates, rows,        *)
(* requests, tokens and workers.  The invariants are about the handlers    *)
(* between their reads and their writes: the roster lock keeps an outcome  *)
(* that is being received, or an approval that is committing, on the       *)
(* roster it was checked against, and the class an approval was gated for  *)
(* is the application's until it commits.                                  *)
(***************************************************************************)
EXTENDS Clt, FiniteSetTheorems, TLAPS

Statuses == {None, "draft", "submitted", "under_review"} \cup Decided
Applications == [status : Statuses, class : Classes \cup {None}, gate : Classes \cup {None}, consent : BOOLEAN]
AllKinds == {"add", "update", "remove", "open", "confirm", "dismiss", "approve"}
RequestRows == [kind : AllKinds, target : Parties \cup Candidates \cup {None}, status : DecisionStatuses]
Answers == [status : {"pass", "fail"}, roster : Rosters \cup {None}]
Points == {"idle", "patching", "submitting", "receiving", "verified", "approving"}
Tasks == [at : Points, arg : Classes \cup Outcomes \cup Requests \cup {None},
          seen : Classes \cup Answers \cup {None}]

Typed ==
    /\ app \in Applications
    /\ profile = None \/ profile \in Profiles
    /\ party \in [Parties -> PartyRows]
    /\ cdd \in CddColumns
    /\ bound \in Rosters \cup {None} /\ published \in Rosters \cup {None} /\ decidedOn \in Rosters \cup {None}
    /\ handoff \subseteq HandoffTargets
    /\ candidate \in [Candidates -> CandidateStatuses] /\ late \subseteq Candidates
    /\ request \in [Requests -> RequestRows \cup {NoRequest}]
    /\ spent \in [Requests -> 0..Tokens] /\ applied \in [Requests -> 0..1]
    /\ work \in [Workers -> Tasks]

\* An application that exists has a class.
Classed == app.status # None => app.class \in Classes

\* A request about a candidate names one, and a request took effect when it is applied.
Filed(r) ==
    /\ request[r] # NoRequest /\ request[r].kind \in {"open", "confirm", "dismiss"} => request[r].target \in Candidates
    /\ applied[r] = IF request[r].status = "applied" THEN 1 ELSE 0
    /\ applied[r] <= spent[r]

\* Once under review, an application is under review or decided.
Past == {"under_review"} \cup Decided

OnlyLateBlocks == \A d \in Candidates : Blocking(d) => d \in late

Fit(w) ==
    LET arg == work[w].arg
        seen == work[w].seen
    IN
    /\ Now(w) \in {"patching", "submitting"} => arg \in Classes
    /\ Now(w) = "receiving" =>
          /\ arg \in Outcomes /\ seen \in Answers /\ Is(Past)
          /\ arg = "kyc_kyb" /\ Is({"under_review"}) => seen.roster = Roster
    /\ Now(w) \in {"verified", "approving"} =>
          /\ arg \in Requests /\ request[arg] # NoRequest /\ spent[arg] >= 1
          /\ request[arg].kind = "approve" => Is(Past) /\ seen = app.class
    /\ Now(w) = "approving" =>
          /\ request[arg].kind = "approve" /\ request[arg].status = "requested"
          /\ Is({"under_review"}) /\ bound # None /\ bound = Roster
          /\ OnlyLateBlocks

\* The roster lock is held by one transaction at most.
OneHolder == \A v, w \in Workers : Now(v) \in {"receiving", "approving"} /\ Now(w) \in {"receiving", "approving"} => v = w

IInv ==
    /\ Typed /\ Classed /\ OneHolder
    /\ bound = decidedOn
    /\ ProfileClassGated
    /\ Is({"approved"}) => decidedOn # None /\ decidedOn.party = party /\ OnlyLateBlocks
    /\ \A r \in Requests : Filed(r)
    /\ \A w \in Workers : Fit(w)

-----------------------------------------------------------------------------
(* Frames.                                                                 *)

\* An application under review keeps its class, and never comes back to review.
AppMoves ==
    /\ app' \in Applications /\ Classed'
    /\ Is(Past) => /\ app'.status \in Past /\ app'.class = app.class
                   /\ app'.status = "under_review" => app.status = "under_review"

\* Requests that are made stay what they are for, and tokens stay spent.
RequestsKept ==
    \A r \in Requests :
       /\ request[r] # NoRequest => request'[r] # NoRequest /\ request'[r].kind = request[r].kind
       /\ spent'[r] >= spent[r]

\* What an approval that is committing rests on.
CommitKept(w) ==
    Now(w) = "approving" =>
       /\ app'.status = app.status /\ bound' = bound /\ OnlyLateBlocks'
       /\ request'[work[w].arg] = request[work[w].arg]

LEMMA FitKept ==
  ASSUME IInv, NEW w \in Workers, work'[w] = work[w], AppMoves, RequestsKept, CommitKept(w),
         Now(w) \in {"receiving", "approving"} => party' = party, spent' \in [Requests -> 0..Tokens]
  PROVE  Fit(w)'
<1>1. Fit(w) /\ spent \in [Requests -> 0..Tokens]
  BY DEF IInv, Typed
<1>2. CASE Now(w) \notin {"receiving", "verified", "approving"}
  BY <1>1, <1>2 DEF Fit, Now
<1>3. CASE Now(w) = "receiving"
  <2>1. /\ work[w].arg \in Outcomes /\ work[w].seen \in Answers /\ app'.status \in Past
        /\ work[w].arg = "kyc_kyb" /\ Is({"under_review"}) => work[w].seen.roster = Roster
    BY <1>1, <1>3 DEF Fit, AppMoves, Is
  <2>2. app'.status = "under_review" => Is({"under_review"}) /\ Roster' = Roster
    BY <1>1, <1>3 DEF Fit, AppMoves, Is, Roster
  <2> QED  BY <1>3, <2>1, <2>2 DEF Fit, Now, Is
<1>4. CASE Now(w) \in {"verified", "approving"}
  <2>1. PICK r \in Requests : r = work[w].arg
    BY <1>1, <1>4 DEF Fit
  <2>2. /\ request[r] # NoRequest /\ spent[r] >= 1
        /\ request[r].kind = "approve" => Is(Past) /\ work[w].seen = app.class
    BY <1>1, <1>4, <2>1 DEF Fit
  <2>3. /\ request'[r] # NoRequest /\ spent'[r] >= 1 /\ request'[r].kind = request[r].kind
        /\ request[r].kind = "approve" => app'.status \in Past /\ work[w].seen = app'.class
    BY <1>1, <2>2, BoundAssumption DEF RequestsKept, AppMoves
  <2>4. CASE Now(w) = "approving"
    <3>1. /\ request[r].kind = "approve" /\ request[r].status = "requested"
          /\ Is({"under_review"}) /\ bound # None /\ bound = Roster
      BY <1>1, <2>1, <2>4 DEF Fit
    <3>2. app'.status = app.status /\ bound' = bound /\ OnlyLateBlocks' /\ request'[r] = request[r] /\ party' = party
      BY <2>1, <2>4 DEF CommitKept
    <3>3. Roster' = Roster
      BY <3>2 DEF Roster
    <3> QED  BY <2>1, <2>3, <2>4, <3>1, <3>2, <3>3 DEF Fit, Now, Is
  <2> QED  BY <1>4, <2>1, <2>3, <2>4 DEF Fit, Now, Is
<1> QED  BY <1>2, <1>3, <1>4

\* An approved application is as it was approved.
ApprovedKept ==
    (Is({"approved"}) => decidedOn # None /\ decidedOn.party = party /\ OnlyLateBlocks)'

\* One worker moves, and everything it does not name stays right.
LEMMA WorkerStep ==
  ASSUME IInv, Typed', NEW w \in Workers, Fit(w)', \A v \in Workers \ {w} : work'[v] = work[v],
         Now(w)' \in {"receiving", "approving"} => Now(w) \in {"receiving", "approving"} \/ RosterFree,
         AppMoves, RequestsKept, \A v \in Workers \ {w} : CommitKept(v),
         \A v \in Workers \ {w} : Now(v) \in {"receiving", "approving"} => party' = party,
         bound' = decidedOn', ProfileClassGated', ApprovedKept, \A r \in Requests : Filed(r)'
  PROVE  IInv'
<1>1. \A v \in Workers : Fit(v)'
  BY FitKept DEF Typed
<1>2. OneHolder'
  BY DEF IInv, OneHolder, Now, RosterFree
<1> QED  BY <1>1, <1>2 DEF IInv, AppMoves, ApprovedKept

\* Nobody moves.
LEMMA SystemStep ==
  ASSUME IInv, Typed', work' = work, AppMoves, RequestsKept, \A v \in Workers : CommitKept(v),
         \A v \in Workers : Now(v) \in {"receiving", "approving"} => party' = party,
         bound' = decidedOn', ProfileClassGated', ApprovedKept, \A r \in Requests : Filed(r)'
  PROVE  IInv'
<1>1. \A v \in Workers : Fit(v)'
  BY FitKept DEF Typed
<1>2. OneHolder'
  BY DEF IInv, OneHolder, Now
<1> QED  BY <1>1, <1>2 DEF IInv, AppMoves, ApprovedKept

LEMMA RestTyped ==
  ASSUME Typed, NEW w \in Workers, Rest(w)
  PROVE  /\ work' \in [Workers -> Tasks] /\ Fit(w)' /\ Now(w)' = "idle"
         /\ \A v \in Workers \ {w} : work'[v] = work[v]
<1>1. Idle \in Tasks /\ Idle.at = "idle"
  BY DEF Idle, Tasks, Points
<1>2. PICK idle \in Tasks : idle = Idle /\ idle.at = "idle"
  BY <1>1
<1>3. work' = [work EXCEPT ![w] = idle]
  BY <1>2 DEF Rest
<1>4. /\ work' \in [Workers -> Tasks] /\ work'[w].at = "idle"
      /\ \A v \in Workers \ {w} : work'[v] = work[v]
  BY <1>2, <1>3 DEF Typed
<1> QED  BY <1>4 DEF Fit, Now

LEMMA GoTyped ==
  ASSUME Typed, NEW w \in Workers, NEW point \in Points, NEW arg \in Classes \cup Outcomes \cup Requests \cup {None},
         NEW seen \in Classes \cup Answers \cup {None}, Go(w, point, arg, seen)
  PROVE  /\ work' \in [Workers -> Tasks]
         /\ work'[w].at = point /\ work'[w].arg = arg /\ work'[w].seen = seen
         /\ \A v \in Workers \ {w} : work'[v] = work[v]
<1>1. [at |-> point, arg |-> arg, seen |-> seen] \in Tasks
  BY DEF Tasks
<1>2. PICK x \in Tasks : x = [at |-> point, arg |-> arg, seen |-> seen]
  BY <1>1
<1>3. work' = [work EXCEPT ![w] = x]
  BY <1>2 DEF Go
<1> QED  BY <1>2, <1>3 DEF Typed

\* With the rows as they are, the frames hold.
LEMMA Unmoved ==
  ASSUME IInv, UNCHANGED <<app, profile, party, cdd, bound, decidedOn, handoff, candidate, late, request, spent, applied>>
  PROVE  /\ AppMoves /\ RequestsKept /\ \A v \in Workers : CommitKept(v)
         /\ bound' = decidedOn' /\ ProfileClassGated' /\ ApprovedKept /\ \A r \in Requests : Filed(r)'
<1>1. AppMoves
  BY DEF IInv, Typed, AppMoves, Classed, Is
<1>2. RequestsKept
  BY BoundAssumption DEF RequestsKept, IInv, Typed
<1>3. (OnlyLateBlocks => OnlyLateBlocks') /\ \A r \in Requests : Filed(r) => Filed(r)'
  BY DEF OnlyLateBlocks, Blocking, Filed
<1>4. \A v \in Workers : CommitKept(v)
  BY <1>3 DEF CommitKept, IInv, Fit
<1>5. bound' = decidedOn' /\ ProfileClassGated' /\ ApprovedKept
  BY <1>3 DEF IInv, ProfileClassGated, ApprovedKept, Is
<1> QED  BY <1>1, <1>2, <1>3, <1>4, <1>5 DEF IInv

\* A handler comes to rest, having changed nothing.
LEMMA RestStep ==
  ASSUME IInv, NEW w \in Workers, Rest(w),
         UNCHANGED <<app, profile, party, cdd, bound, decidedOn, handoff, candidate, late, request, spent, applied, published>>
  PROVE  IInv'
<1>1. work' \in [Workers -> Tasks] /\ Fit(w)' /\ Now(w)' = "idle" /\ \A v \in Workers \ {w} : work'[v] = work[v]
  BY RestTyped DEF IInv
<1>2. Typed'
  BY <1>1 DEF IInv, Typed
<1> QED  BY <1>1, <1>2, Unmoved, WorkerStep

\* A handler goes on with what it has read, having changed nothing.
LEMMA ReadStep ==
  ASSUME IInv, NEW w \in Workers, work' \in [Workers -> Tasks], Fit(w)',
         \A v \in Workers \ {w} : work'[v] = work[v],
         Now(w)' \in {"receiving", "approving"} => RosterFree,
         UNCHANGED <<app, profile, party, cdd, bound, decidedOn, handoff, candidate, late, request, spent, applied, published>>
  PROVE  IInv'
<1>1. Typed'
  BY DEF IInv, Typed
<1> QED  BY <1>1, Unmoved, WorkerStep

-----------------------------------------------------------------------------
(* Intake.                                                                 *)

\* The application's own row moves on, before review or out of it.
LEMMA AppStep ==
  ASSUME IInv, AppMoves, app'.status # "approved" \/ app'.status = app.status,
         UNCHANGED <<profile, party, cdd, bound, decidedOn, handoff, candidate, late, request, spent, applied, published>>
  PROVE  /\ RequestsKept /\ bound' = decidedOn' /\ ProfileClassGated' /\ ApprovedKept /\ \A r \in Requests : Filed(r)'
         /\ \A v \in Workers : (Now(v) = "approving" => app'.status = app.status) => CommitKept(v)
<1>1. RequestsKept
  BY BoundAssumption DEF RequestsKept, IInv, Typed
<1>2. (OnlyLateBlocks => OnlyLateBlocks') /\ \A r \in Requests : Filed(r) => Filed(r)'
  BY DEF OnlyLateBlocks, Blocking, Filed
<1>3. \A v \in Workers : (Now(v) = "approving" => app'.status = app.status) => CommitKept(v)
  BY <1>2 DEF CommitKept, IInv, Fit
<1>4. bound' = decidedOn' /\ ProfileClassGated' /\ ApprovedKept
  BY <1>2 DEF IInv, ProfileClassGated, ApprovedKept, Is
<1> QED  BY <1>1, <1>2, <1>3, <1>4 DEF IInv

LEMMA CreateStep ==
  ASSUME IInv, NEW c \in Classes, Create(c)
  PROVE  IInv'
<1> DEFINE x == [app EXCEPT !.status = "draft"]
           y == [x EXCEPT !.class = c]
<1>1. app \in Applications
  BY DEF IInv, Typed
<1>2. x \in Applications /\ x.status = "draft"
  BY <1>1 DEF Applications, Statuses
<1>3. app' = [[x EXCEPT !.class = c] EXCEPT !.gate = c]
  BY DEF Create
<1> HIDE DEF x
<1>4. y \in Applications /\ y.status = "draft" /\ y.class = c
  BY <1>2 DEF Applications
<1>5. app' = [y EXCEPT !.gate = c]
  BY <1>3
<1> HIDE DEF y
<1>6. app' \in Applications /\ app'.status = "draft" /\ app'.class = c
  BY <1>4, <1>5 DEF Applications
<1>7. AppMoves
  BY <1>6, NoneAssumption DEF Create, AppMoves, Classed, Is, Past, Decided
<1>8. \A v \in Workers : Now(v) # "approving"
  BY NoneAssumption DEF Create, IInv, Fit, Is
<1>9. Typed' /\ work' = work
  BY <1>6 DEF IInv, Typed, Create, review, dupes, decisions
<1> QED  BY <1>6, <1>7, <1>8, <1>9, AppStep, SystemStep DEF Create, review, dupes, decisions

LEMMA ConsentStep ==
  ASSUME IInv, Consent
  PROVE  IInv'
<1>1. app \in Applications
  BY DEF IInv, Typed
<1>2. app' \in Applications /\ app'.status = app.status /\ app'.class = app.class
  BY <1>1 DEF Consent, Applications
<1>3. AppMoves
  BY <1>2 DEF AppMoves, Classed, Is, IInv
<1>4. Typed' /\ work' = work
  BY <1>2 DEF IInv, Typed, Consent, review, dupes, decisions
<1> QED  BY <1>2, <1>3, <1>4, AppStep, SystemStep DEF Consent, review, dupes, decisions

LEMMA MoveStep ==
  ASSUME IInv, Cancel \/ Reject \/ Hold \/ StartReview
  PROVE  IInv'
<1>1. app \in Applications
  BY DEF IInv, Typed
<1>2. PICK from \in SUBSET {"draft", "submitted", "under_review"}, to \in Statuses :
         /\ Move(from, to)
         /\ to \in {"cancelled", "rejected", "held", "under_review"}
         /\ to = "under_review" => from = {"submitted"}
  BY DEF Cancel, Reject, Hold, StartReview, Statuses, Decided
<1>3. app' = [app EXCEPT !.status = to]
  BY <1>2 DEF Move
<1>4. app' \in Applications /\ app'.status = to /\ app'.class = app.class
  BY <1>1, <1>3 DEF Applications
<1>5. app.status \in {"draft", "submitted", "under_review"}
  BY <1>2 DEF Move, Is
<1>6. AppMoves
  BY <1>2, <1>4, <1>5, NoneAssumption DEF Move, AppMoves, Classed, Is, IInv, Past, Decided
<1>7. \A v \in Workers : Now(v) # "approving"
  BY <1>2 DEF Move, Approving
<1>8. Typed' /\ work' = work /\ to # "approved"
  BY <1>2, <1>4 DEF IInv, Typed, Move, review, dupes, decisions
<1> QED  BY <1>2, <1>4, <1>6, <1>7, <1>8, AppStep, SystemStep DEF Move, review, dupes, decisions

\* The reads of a change of class, and of a submission.
LEMMA IntakeRead ==
  ASSUME IInv, NEW w \in Workers, SubmitRead(w) \/ \E c \in Classes : PatchRead(w, c)
  PROVE  IInv'
<1>1. app \in Applications /\ app.class \in Classes
  BY NoneAssumption DEF IInv, Typed, Classed, SubmitRead, PatchRead, Is
<1>2. PICK point \in {"patching", "submitting"}, arg \in Classes, seen \in Classes \cup {None} : Go(w, point, arg, seen)
  BY <1>1 DEF SubmitRead, PatchRead
<1>3. /\ work' \in [Workers -> Tasks]
      /\ work'[w].at = point /\ work'[w].arg = arg
      /\ \A v \in Workers \ {w} : work'[v] = work[v]
  BY <1>2, GoTyped DEF IInv, Points
<1>4. Fit(w)' /\ Now(w)' \notin {"receiving", "approving"}
  BY <1>3 DEF Fit, Now
<1> QED  BY <1>3, <1>4, ReadStep DEF SubmitRead, PatchRead, intake, review, dupes, decisions

LEMMA IntakeWrite ==
  ASSUME IInv, NEW w \in Workers, SubmitWrite(w) \/ PatchWrite(w)
  PROVE  IInv'
<1>1. app \in Applications
  BY DEF IInv, Typed
<1>2. work[w].arg \in Classes
  BY DEF IInv, Fit, Now, SubmitWrite, PatchWrite
<1>3. CASE app' = app
  BY <1>3, RestStep DEF SubmitWrite, PatchWrite, review, dupes, decisions
<1>4. CASE app' # app
  <2>1. app.status = "draft"
    BY <1>4 DEF SubmitWrite, PatchWrite, PatchApplies, Is
  <2>2. app' \in Applications /\ app'.status \in {"draft", "submitted"} /\ app'.class \in Classes
    <3>1. CASE SubmitWrite(w)
      <4> DEFINE x == [app EXCEPT !.status = "submitted"]
      <4>1. app' = [[app EXCEPT !.status = "submitted"] EXCEPT !.gate = work[w].arg]
        BY <2>1, <3>1 DEF SubmitWrite, Is
      <4>2. x \in Applications /\ x.status = "submitted" /\ x.class = app.class
        BY <1>1 DEF Applications, Statuses
      <4> HIDE DEF x
      <4>3. app' = [x EXCEPT !.gate = work[w].arg]
        BY <4>1 DEF x
      <4>4. app.class \in Classes
        BY <2>1, NoneAssumption DEF IInv, Classed
      <4> QED  BY <1>2, <4>2, <4>3, <4>4 DEF Applications
    <3>2. CASE PatchWrite(w)
      <4> DEFINE c == work[w].arg
                 x == [app EXCEPT !.class = c]
      <4>1. app' = x \/ app' = [[app EXCEPT !.class = c] EXCEPT !.gate = c]
        BY <2>1, <3>2 DEF PatchWrite, PatchApplies, Is
      <4>2. x \in Applications /\ x.status = "draft" /\ x.class = c /\ c \in Classes
        BY <1>1, <1>2, <2>1 DEF Applications
      <4> HIDE DEF x, c
      <4>3. app' = x \/ app' = [x EXCEPT !.gate = c]
        BY <4>1 DEF x
      <4> QED  BY <4>2, <4>3 DEF Applications
    <3> QED  BY <3>1, <3>2
  <2>3. AppMoves
    BY <2>1, <2>2 DEF AppMoves, Classed, Is, Past, Decided
  <2>4. \A v \in Workers : Now(v) # "approving"
    BY <2>1 DEF IInv, Fit, Is
  <2>5. Rest(w) /\ UNCHANGED <<profile, party, cdd, bound, decidedOn, handoff, candidate, late, request, spent, applied, published>>
    BY DEF SubmitWrite, PatchWrite, review, dupes, decisions
  <2>6. work' \in [Workers -> Tasks] /\ Fit(w)' /\ Now(w)' = "idle" /\ \A v \in Workers \ {w} : work'[v] = work[v]
    BY <2>5, RestTyped DEF IInv
  <2>7. Typed'
    BY <2>2, <2>5, <2>6 DEF IInv, Typed
  <2> QED  BY <2>2, <2>3, <2>4, <2>5, <2>6, <2>7, AppStep, WorkerStep
<1> QED  BY <1>3, <1>4

-----------------------------------------------------------------------------
(* Review.                                                                 *)

\* Nobody moves but the roster KYC-01 has read, or the handoffs.
LEMMA ReviewStep ==
  ASSUME IInv, GetRoster \/ \E m \in HandoffTargets : CreateHandoff(m)
  PROVE  IInv'
<1>1. UNCHANGED <<app, profile, party, cdd, bound, decidedOn, candidate, late, request, spent, applied, work>>
  BY DEF GetRoster, CreateHandoff, intake, review, dupes, decisions
<1>2. handoff' \subseteq HandoffTargets /\ published' \in Rosters \cup {None}
  <2>1. CASE GetRoster
    <3>1. app.status \in {"draft", "submitted", "under_review"}
      BY <2>1 DEF GetRoster, Is
    <3>2. Roster \in Rosters
      BY <3>1 DEF Roster, Rosters, IInv, Typed
    <3> QED  BY <2>1, <3>2 DEF GetRoster, review, IInv, Typed
  <2>2. CASE \E m \in HandoffTargets : CreateHandoff(m)
    BY <2>2 DEF CreateHandoff, IInv, Typed
  <2> QED  BY <2>1, <2>2
<1>3. Typed'
  BY <1>1, <1>2 DEF IInv, Typed
<1>4. AppMoves /\ app'.status = app.status
  BY <1>1 DEF AppMoves, Classed, Is, IInv, Typed
<1>5. /\ RequestsKept /\ bound' = decidedOn' /\ ProfileClassGated' /\ ApprovedKept /\ \A r \in Requests : Filed(r)'
      /\ \A v \in Workers : CommitKept(v)
  <2>1. RequestsKept
    BY <1>1, BoundAssumption DEF RequestsKept, IInv, Typed
  <2>2. (OnlyLateBlocks => OnlyLateBlocks') /\ \A r \in Requests : Filed(r) => Filed(r)'
    BY <1>1 DEF OnlyLateBlocks, Blocking, Filed
  <2>3. \A v \in Workers : CommitKept(v)
    BY <1>1, <2>2 DEF CommitKept, IInv, Fit
  <2> QED  BY <1>1, <2>1, <2>2, <2>3 DEF IInv, ProfileClassGated, ApprovedKept, Is
<1> QED  BY <1>1, <1>3, <1>4, <1>5, SystemStep

\* An outcome arrives, for the roster the application has.
LEMMA ReceiveCheckStep ==
  ASSUME IInv, NEW w \in Workers, NEW o \in Outcomes, NEW s \in {"pass", "fail"}, ReceiveCheck(w, o, s)
  PROVE  IInv'
<1> DEFINE in == [status |-> s, roster |-> published]
<1>1. in \in Answers /\ in.roster = published
  BY DEF Answers, IInv, Typed
<1>2. Go(w, "receiving", o, in)
  BY DEF ReceiveCheck
<1> HIDE DEF in
<1>3. /\ work' \in [Workers -> Tasks]
      /\ work'[w].at = "receiving" /\ work'[w].arg = o /\ work'[w].seen = in
      /\ \A v \in Workers \ {w} : work'[v] = work[v]
  BY <1>1, <1>2, GoTyped DEF IInv, Points
<1>4. /\ UNCHANGED <<app, profile, party, cdd, bound, decidedOn, handoff, candidate, late, request, spent, applied, published>>
      /\ app.status = "under_review" /\ RosterFree
      /\ o = "kyc_kyb" => published = Roster
  BY DEF ReceiveCheck, RosterMatches, intake, review, dupes, decisions, Is
<1>5. Roster' = Roster /\ app'.status = "under_review"
  BY <1>4 DEF Roster
<1>6. Fit(w)'
  BY <1>1, <1>3, <1>4, <1>5 DEF Fit, Now, Is, Past
<1> QED  BY <1>3, <1>4, <1>6, ReadStep

\* The outcome is recorded with the roster it was decided on, which the application still has.
LEMMA ReceiveWriteStep ==
  ASSUME IInv, NEW w \in Workers, ReceiveWrite(w)
  PROVE  IInv'
<1>1. CASE ~RollupApplies
  BY <1>1, RestStep DEF ReceiveWrite, intake, dupes, decisions
<1>2. CASE RollupApplies
  <2>1. /\ Rest(w) /\ app.status = "under_review"
        /\ UNCHANGED <<app, profile, party, handoff, candidate, late, request, spent, applied, published>>
    BY <1>2 DEF ReceiveWrite, RollupApplies, Is, intake, dupes, decisions
  <2>2. PICK o \in Outcomes, in \in Answers :
           /\ o = work[w].arg /\ in = work[w].seen
           /\ o = "kyc_kyb" => in.roster = Roster
    BY <2>1 DEF ReceiveWrite, IInv, Fit, Is
  <2>3. /\ cdd' = [cdd EXCEPT ![o] = in.status]
        /\ bound' = IF o = "kyc_kyb" THEN Roster ELSE bound
        /\ decidedOn' = IF o = "kyc_kyb" THEN in.roster ELSE decidedOn
    BY <1>2, <2>2 DEF ReceiveWrite
  <2>4. work' \in [Workers -> Tasks] /\ Fit(w)' /\ Now(w)' = "idle" /\ \A v \in Workers \ {w} : work'[v] = work[v]
    BY <2>1, RestTyped DEF IInv
  <2>5. Roster \in Rosters
    BY <2>1 DEF Roster, Rosters, IInv, Typed
  <2>6. bound' = decidedOn' /\ bound' \in Rosters \cup {None}
    BY <2>2, <2>3, <2>5 DEF IInv, Typed
  <2>7. cdd' \in CddColumns
    BY <2>3 DEF IInv, Typed, CddColumns, CddStatuses, Answers
  <2>8. Typed'
    BY <2>1, <2>4, <2>6, <2>7 DEF IInv, Typed
  <2>9. AppMoves /\ RequestsKept
    BY <2>1, BoundAssumption DEF AppMoves, Classed, Is, IInv, Typed, RequestsKept
  <2>10. \A v \in Workers \ {w} : Now(v) # "approving"
    BY DEF IInv, OneHolder, ReceiveWrite
  <2>11. ProfileClassGated' /\ ApprovedKept /\ \A r \in Requests : Filed(r)'
    BY <2>1, NoneAssumption DEF IInv, ProfileClassGated, ApprovedKept, Is, Filed
  <2> QED  BY <2>1, <2>4, <2>6, <2>8, <2>9, <2>10, <2>11, WorkerStep DEF CommitKept
<1> QED  BY <1>1, <1>2

\* A party is screened, under the roster lock and under review only.
LEMMA ScreenStep ==
  ASSUME IInv, NEW p \in Parties, ScreenParty(p)
  PROVE  IInv'
<1>1. /\ UNCHANGED <<app, profile, cdd, bound, decidedOn, handoff, candidate, late, request, spent, applied, published, work>>
      /\ app.status = "under_review"
      /\ \A v \in Workers : Now(v) \notin {"receiving", "approving"}
  BY DEF ScreenParty, Is, RosterFree, intake, review, dupes, decisions
<1>2. party' \in [Parties -> PartyRows]
  <2>1. party \in [Parties -> PartyRows] /\ party[p].version < MaxVersion
    BY DEF IInv, Typed, ScreenParty
  <2>2. PICK v \in 0..MaxVersion : v = party[p].version + 1
    BY <2>1, BoundAssumption DEF PartyRows
  <2>3. [party[p] EXCEPT !.version = v] \in PartyRows
    BY <2>1 DEF PartyRows
  <2>4. party' = [party EXCEPT ![p] = [party[p] EXCEPT !.version = v]]
    BY <2>2 DEF ScreenParty
  <2> QED  BY <2>1, <2>3, <2>4
<1>3. Typed'
  BY <1>1, <1>2 DEF IInv, Typed
<1>4. AppMoves /\ RequestsKept
  BY <1>1, BoundAssumption DEF AppMoves, Classed, Is, IInv, Typed, RequestsKept
<1>5. ProfileClassGated' /\ ApprovedKept /\ \A r \in Requests : Filed(r)'
  BY <1>1, NoneAssumption DEF IInv, ProfileClassGated, ApprovedKept, Is, Filed
<1> QED  BY <1>1, <1>3, <1>4, <1>5, SystemStep DEF CommitKept, IInv

-----------------------------------------------------------------------------
(* Requests.                                                               *)

LEMMA FileStep ==
  ASSUME IInv, NEW r \in Requests, NEW kind, NEW x \in Parties \cup Candidates \cup {None}, File(r, kind, x)
  PROVE  IInv'
<1> DEFINE entry == [kind |-> kind, target |-> x, status |-> "requested"]
<1>1. kind \in AllKinds /\ (kind \in {"open", "confirm", "dismiss"} => x \in Candidates)
  BY DEF File, Ready, AllKinds
<1>2. entry \in RequestRows /\ entry.kind = kind /\ entry.target = x /\ entry.status = "requested"
  BY <1>1 DEF RequestRows, DecisionStatuses
<1>3. /\ request' = [request EXCEPT ![r] = entry] /\ request[r] = NoRequest
      /\ UNCHANGED <<app, profile, party, cdd, bound, decidedOn, handoff, candidate, late, spent, applied, published, work>>
  BY RequestsAssumption DEF File, Fresh, intake, review, dupes
<1> HIDE DEF entry
<1>4. Typed'
  BY <1>2, <1>3 DEF IInv, Typed
<1>5. AppMoves
  BY <1>3 DEF AppMoves, Classed, Is, IInv, Typed
<1>6. RequestsKept
  BY <1>3, BoundAssumption DEF RequestsKept, IInv, Typed
<1>7. (OnlyLateBlocks => OnlyLateBlocks')
  BY <1>3 DEF OnlyLateBlocks, Blocking
<1>8. \A v \in Workers : CommitKept(v)
  BY <1>3, <1>7, NoneAssumption DEF CommitKept, IInv, Fit, NoRequest, Typed
<1>9. \A q \in Requests : Filed(q)'
  <2> SUFFICES ASSUME NEW q \in Requests PROVE Filed(q)'
    OBVIOUS
  <2>1. Filed(q) /\ applied'[q] = applied[q] /\ spent'[q] = spent[q]
    BY <1>3 DEF IInv
  <2>2. CASE q # r
    BY <1>3, <2>1, <2>2 DEF Filed, IInv, Typed
  <2>3. CASE q = r
    BY <1>1, <1>2, <1>3, <2>1, <2>3, NoneAssumption DEF Filed, IInv, Typed, NoRequest
  <2> QED  BY <2>2, <2>3
<1>10. bound' = decidedOn' /\ ProfileClassGated' /\ ApprovedKept
  BY <1>3, <1>7 DEF IInv, ProfileClassGated, ApprovedKept, Is
<1> QED  BY <1>3, <1>4, <1>5, <1>6, <1>8, <1>9, <1>10, SystemStep

\* A token is spent; the worker that spent it goes on, unless CFG-01 refuses.
LEMMA VerifyStep ==
  ASSUME IInv, NEW w \in Workers, NEW r \in Requests, Verify(w, r)
  PROVE  IInv'
<1> DEFINE seen == IF request[r].kind = "approve" THEN app.class ELSE None
<1>1. /\ UNCHANGED <<app, profile, party, cdd, bound, decidedOn, handoff, candidate, late, request, applied, published>>
      /\ request[r].status = "requested" /\ spent[r] < Tokens /\ spent' = [spent EXCEPT ![r] = spent[r] + 1]
      /\ Go(w, "verified", r, seen) \/ UNCHANGED work
      /\ request[r].kind = "approve" => app.status = "under_review"
  BY DEF Verify, Consume, Ready, ReadyToApprove, Is, intake, review, dupes
<1>2. PICK n \in 0..Tokens : n = spent[r] + 1 /\ n >= 1
  BY <1>1, BoundAssumption DEF IInv, Typed
<1>3. /\ spent' \in [Requests -> 0..Tokens] /\ spent'[r] >= 1
      /\ \A q \in Requests : spent'[q] >= spent[q]
  BY <1>1, <1>2, BoundAssumption DEF IInv, Typed
<1>4. seen \in Classes \cup Answers \cup {None}
  BY DEF IInv, Typed, Applications
<1> HIDE DEF seen
<1>5. AppMoves /\ RequestsKept
  BY <1>1, <1>3 DEF AppMoves, Classed, Is, IInv, Typed, RequestsKept
<1>6. (OnlyLateBlocks => OnlyLateBlocks')
  BY <1>1 DEF OnlyLateBlocks, Blocking
<1>7. \A v \in Workers : CommitKept(v)
  BY <1>1, <1>6 DEF CommitKept, IInv, Fit
<1>8. \A q \in Requests : Filed(q)'
  <2> SUFFICES ASSUME NEW q \in Requests PROVE Filed(q)'
    OBVIOUS
  <2>1. Filed(q) /\ applied[q] \in 0..1 /\ spent[q] \in 0..Tokens /\ spent'[q] \in 0..Tokens /\ spent'[q] >= spent[q]
    BY <1>3 DEF IInv, Typed
  <2> QED  BY <1>1, <2>1, BoundAssumption DEF Filed
<1>9. bound' = decidedOn' /\ ProfileClassGated' /\ ApprovedKept
  BY <1>1, <1>6 DEF IInv, ProfileClassGated, ApprovedKept, Is
<1>10. CASE UNCHANGED work
  <2>1. Typed'
    BY <1>1, <1>3, <1>10 DEF IInv, Typed
  <2> QED  BY <1>1, <1>5, <1>7, <1>8, <1>9, <1>10, <2>1, SystemStep
<1>11. CASE Go(w, "verified", r, seen)
  <2>1. /\ work' \in [Workers -> Tasks]
        /\ work'[w].at = "verified" /\ work'[w].arg = r /\ work'[w].seen = seen
        /\ \A v \in Workers \ {w} : work'[v] = work[v]
    BY <1>4, <1>11, GoTyped DEF IInv, Points
  <2>2. Fit(w)'
    BY <1>1, <1>3, <2>1, NoneAssumption DEF Fit, Now, Is, Past, NoRequest, seen
  <2>3. Typed'
    BY <1>1, <1>3, <2>1 DEF IInv, Typed
  <2> QED  BY <1>1, <1>5, <1>7, <1>8, <1>9, <2>1, <2>2, <2>3, WorkerStep DEF Now
<1> QED  BY <1>1, <1>10, <1>11

-----------------------------------------------------------------------------
(* What a token's request does.                                            *)

\* The request is fulfilled: once, since it was still open.
LEMMA FulfilStep ==
  ASSUME IInv, NEW w \in Workers, NEW r \in Requests, r = work[w].arg, Now(w) \in {"verified", "approving"},
         request[r].status = "requested", Fulfil(r), UNCHANGED spent
  PROVE  /\ request' \in [Requests -> RequestRows \cup {NoRequest}] /\ applied' \in [Requests -> 0..1]
         /\ RequestsKept /\ \A q \in Requests : Filed(q)'
         /\ \A q \in Requests \ {r} : request'[q] = request[q]
<1>1. request[r] \in RequestRows /\ spent[r] >= 1 /\ applied[r] = 0
  BY DEF IInv, Typed, Fit, Filed
<1>2. PICK entry \in RequestRows : /\ entry = [request[r] EXCEPT !.status = "applied"]
                                 /\ entry.status = "applied" /\ entry.kind = request[r].kind
                                 /\ entry.target = request[r].target
  <2>1. [request[r] EXCEPT !.status = "applied"] \in RequestRows
    BY <1>1 DEF RequestRows, DecisionStatuses
  <2> QED  BY <1>1, <2>1 DEF RequestRows
<1>3. request' = [request EXCEPT ![r] = entry] /\ applied' = [applied EXCEPT ![r] = 1]
  BY <1>1, <1>2 DEF Fulfil
<1>4. request' \in [Requests -> RequestRows \cup {NoRequest}] /\ applied' \in [Requests -> 0..1]
  BY <1>3 DEF IInv, Typed
<1>5. RequestsKept
  BY <1>2, <1>3, NoneAssumption, BoundAssumption DEF RequestsKept, IInv, Typed, NoRequest
<1>6. \A q \in Requests \ {r} : request'[q] = request[q] /\ applied'[q] = applied[q]
  BY <1>3 DEF IInv, Typed
<1>7. Filed(r)'
  BY <1>1, <1>2, <1>3, NoneAssumption DEF Filed, IInv, Typed, NoRequest
<1>8. \A q \in Requests \ {r} : Filed(q)'
  BY <1>6 DEF Filed, IInv
<1> QED  BY <1>4, <1>5, <1>6, <1>7, <1>8

\* A worker about to commit an approval has a request of its own.
LEMMA OtherRequest ==
  ASSUME IInv, NEW w \in Workers, NEW r \in Requests, r = work[w].arg, Now(w) \in {"verified", "approving"},
         Now(w) = "approving" \/ RosterFree \/ request[r].kind # "approve",
         NEW v \in Workers \ {w}, Now(v) = "approving"
  PROVE  work[v].arg \in Requests \ {r}
<1>1. Fit(v) /\ work[v].arg \in Requests /\ request[work[v].arg].kind = "approve"
  BY DEF IInv, Fit
<1>2. request[r].kind # "approve"
  BY DEF IInv, OneHolder, RosterFree
<1> QED  BY <1>1, <1>2

\* The party's next version.
LEMMA PartyRowTyped ==
  ASSUME NEW kind \in {"add", "update", "remove"}, NEW entry \in PartyRows, entry.version < MaxVersion
  PROVE  PartyRow(kind, entry) \in PartyRows
<1>1. PICK n \in 0..MaxVersion : n = entry.version + 1
  BY BoundAssumption DEF PartyRows
<1>2. CASE kind = "add"
  <2>1. 1 \in 0..MaxVersion
    BY BoundAssumption DEF PartyRows
  <2> QED  BY <1>2, <2>1 DEF PartyRow, PartyRows
<1>3. CASE kind = "update"
  <2>1. PartyRow(kind, entry) = [entry EXCEPT !.version = n]
    BY <1>1, <1>3 DEF PartyRow
  <2> QED  BY <2>1 DEF PartyRows
<1>4. CASE kind = "remove"
  <2> DEFINE x == [entry EXCEPT !.version = n]
  <2>1. PartyRow(kind, entry) = [[entry EXCEPT !.version = n] EXCEPT !.status = "revoked"]
    BY <1>1, <1>4 DEF PartyRow
  <2>2. x \in PartyRows
    BY DEF PartyRows
  <2> HIDE DEF x
  <2>3. PartyRow(kind, entry) = [x EXCEPT !.status = "revoked"]
    BY <2>1 DEF x
  <2> QED  BY <2>2, <2>3 DEF PartyRows
<1> QED  BY <1>2, <1>3, <1>4

LEMMA ApplyPartyStep ==
  ASSUME IInv, NEW w \in Workers, NEW kind \in {"add", "update", "remove"}, ApplyParty(w, kind)
  PROVE  IInv'
<1>1. PICK r \in Requests : r = work[w].arg
  BY DEF ApplyParty, IInv, Fit
<1>2. CASE Overtaken(w)
  BY <1>2, RestStep DEF Overtaken, intake, review, dupes, decisions
<1>3. CASE ~Overtaken(w)
  <2>1. /\ request[r].status = "requested" /\ request[r].kind = kind /\ RosterFree
        /\ Ready(kind, request[r].target)
        /\ party[request[r].target].version < MaxVersion
        /\ party' = [party EXCEPT ![request[r].target] = PartyRow(kind, party[request[r].target])]
        /\ Fulfil(r) /\ Rest(w) /\ Now(w) = "verified"
        /\ UNCHANGED <<app, profile, cdd, bound, decidedOn, handoff, candidate, late, spent, published>>
    BY <1>1, <1>3 DEF ApplyParty, StillRequested, intake, review, dupes
  <2>2. PICK p \in Parties : p = request[r].target /\ app.status \in {"draft", "submitted", "under_review"}
    BY <2>1 DEF Ready, ReadyToAdd, ReadyToUpdate, ReadyToRemove, PartyOpen, ReadyToApprove, Is
  <2>3. PICK entry \in PartyRows : entry = PartyRow(kind, party[p])
    BY <2>1, <2>2, PartyRowTyped DEF IInv, Typed
  <2>4. party' \in [Parties -> PartyRows]
    BY <2>1, <2>2, <2>3 DEF IInv, Typed
  <2>5. work' \in [Workers -> Tasks] /\ Fit(w)' /\ Now(w)' = "idle" /\ \A v \in Workers \ {w} : work'[v] = work[v]
    BY <2>1, RestTyped DEF IInv
  <2>6. /\ request' \in [Requests -> RequestRows \cup {NoRequest}] /\ applied' \in [Requests -> 0..1]
        /\ RequestsKept /\ \A q \in Requests : Filed(q)'
    BY <1>1, <2>1, FulfilStep
  <2>7. Typed'
    BY <2>1, <2>4, <2>5, <2>6 DEF IInv, Typed
  <2>8. AppMoves
    BY <2>1 DEF AppMoves, Classed, Is, IInv, Typed
  <2>9. \A v \in Workers : Now(v) \notin {"receiving", "approving"}
    BY <2>1 DEF RosterFree
  <2>10. bound' = decidedOn' /\ ProfileClassGated' /\ ApprovedKept
    BY <2>1, <2>2, NoneAssumption DEF IInv, ProfileClassGated, ApprovedKept, Is
  <2> QED  BY <2>5, <2>6, <2>7, <2>8, <2>9, <2>10, WorkerStep DEF CommitKept
<1> QED  BY <1>2, <1>3

\* A candidate that comes up while an approval commits, or afterwards, is late.
LEMMA ApplyCandidateStep ==
  ASSUME IInv, NEW w \in Workers, ApplyCandidate(w) \/ ApplyResolution(w)
  PROVE  IInv'
<1>1. PICK r \in Requests : r = work[w].arg
  BY DEF ApplyCandidate, ApplyResolution, IInv, Fit
<1>2. CASE Overtaken(w)
  BY <1>2, RestStep DEF Overtaken, intake, review, dupes, decisions
<1>3. CASE ~Overtaken(w)
  <2>1. /\ request[r].status = "requested" /\ request[r].kind \in {"open", "confirm", "dismiss"}
        /\ Fulfil(r) /\ Rest(w) /\ Now(w) = "verified"
        /\ UNCHANGED <<app, profile, party, cdd, bound, decidedOn, handoff, spent, published>>
    BY <1>1, <1>3 DEF ApplyCandidate, ApplyResolution, StillRequested, intake, review
  <2>2. PICK d \in Candidates : d = request[r].target
    BY <2>1, NoneAssumption DEF IInv, Filed, NoRequest
  <2>3. \/ /\ candidate' = [candidate EXCEPT ![d] = "open"]
           /\ late' = IF Approving \/ Is({"approved"}) THEN late \cup {d} ELSE late
        \/ /\ candidate[d] = "open" /\ late' = late
           /\ \E s \in {"duplicate", "not_duplicate"} : candidate' = [candidate EXCEPT ![d] = s]
    BY <1>1, <1>3, <2>2 DEF ApplyCandidate, ApplyResolution, ReadyToResolve
  <2>4. candidate' \in [Candidates -> CandidateStatuses] /\ late' \subseteq Candidates
    BY <2>3 DEF IInv, Typed, CandidateStatuses
  <2>5. Approving \/ Is({"approved"}) => (OnlyLateBlocks => OnlyLateBlocks')
    BY <2>3 DEF OnlyLateBlocks, Blocking, IInv, Typed
  <2>6. work' \in [Workers -> Tasks] /\ Fit(w)' /\ Now(w)' = "idle" /\ \A v \in Workers \ {w} : work'[v] = work[v]
    BY <2>1, RestTyped DEF IInv
  <2>7. /\ request' \in [Requests -> RequestRows \cup {NoRequest}] /\ applied' \in [Requests -> 0..1]
        /\ RequestsKept /\ \A q \in Requests : Filed(q)'
        /\ \A q \in Requests \ {r} : request'[q] = request[q]
    BY <1>1, <2>1, FulfilStep
  <2>8. Typed'
    BY <2>1, <2>4, <2>6, <2>7 DEF IInv, Typed
  <2>9. AppMoves
    BY <2>1 DEF AppMoves, Classed, Is, IInv, Typed
  <2>10. \A v \in Workers \ {w} : CommitKept(v)
    <3> SUFFICES ASSUME NEW v \in Workers \ {w}, Now(v) = "approving" PROVE CommitKept(v)
      BY DEF CommitKept
    <3>1. work[v].arg \in Requests \ {r}
      BY <1>1, <2>1, OtherRequest
    <3>2. Approving /\ OnlyLateBlocks
      BY DEF Approving, IInv, Fit
    <3> QED  BY <2>1, <2>5, <2>7, <3>1, <3>2 DEF CommitKept
  <2>11. bound' = decidedOn' /\ ProfileClassGated' /\ ApprovedKept
    BY <2>1, <2>5 DEF IInv, ProfileClassGated, ApprovedKept, Is
  <2> QED  BY <2>1, <2>6, <2>7, <2>8, <2>9, <2>10, <2>11, WorkerStep
<1> QED  BY <1>2, <1>3

\* The transaction of an approval reads everything again under its locks.
LEMMA ApproveCheckStep ==
  ASSUME IInv, NEW w \in Workers, ApproveCheck(w)
  PROVE  IInv'
<1>1. PICK r \in Requests, seen \in Classes \cup Answers \cup {None} : r = work[w].arg /\ seen = work[w].seen
  BY DEF ApproveCheck, IInv, Fit, Typed, Tasks
<1>2. CASE Overtaken(w)
  BY <1>2, RestStep DEF Overtaken, intake, review, dupes, decisions
<1>3. CASE ~Overtaken(w)
  <2>1. /\ Go(w, "approving", r, seen) /\ RosterFree /\ Now(w) = "verified"
        /\ request[r].kind = "approve" /\ request[r].status = "requested" /\ app.status = "under_review"
        /\ NoneBlocking /\ bound # None /\ bound = Roster
        /\ UNCHANGED <<app, profile, party, cdd, bound, decidedOn, handoff, candidate, late, request, spent, applied, published>>
    BY <1>1, <1>3 DEF ApproveCheck, StillRequested, RosterCurrent, Is, intake, review, dupes, decisions
  <2>2. /\ work' \in [Workers -> Tasks]
        /\ work'[w].at = "approving" /\ work'[w].arg = r /\ work'[w].seen = seen
        /\ \A v \in Workers \ {w} : work'[v] = work[v]
    BY <2>1, GoTyped DEF IInv, Points
  <2>3. request[r] # NoRequest /\ spent[r] >= 1 /\ seen = app.class
    BY <1>1, <2>1 DEF IInv, Fit
  <2>4. Roster' = Roster /\ OnlyLateBlocks'
    BY <2>1 DEF Roster, OnlyLateBlocks, NoneBlocking, Blocking
  <2>5. Fit(w)'
    BY <2>1, <2>2, <2>3, <2>4 DEF Fit, Now, Is, Past
  <2> QED  BY <2>1, <2>2, <2>5, ReadStep
<1> QED  BY <1>2, <1>3

\* And nothing it rests on has changed when it commits.
LEMMA ApproveCommitStep ==
  ASSUME IInv, NEW w \in Workers, ApproveCommit(w)
  PROVE  IInv'
<1>1. PICK r \in Requests : /\ r = work[w].arg /\ work[w].seen = app.class
                            /\ request[r].status = "requested" /\ app.status = "under_review"
                            /\ bound # None /\ bound = Roster /\ OnlyLateBlocks
  BY DEF ApproveCommit, IInv, Fit, Is
<1>2. /\ Now(w) = "approving" /\ Fulfil(r) /\ Rest(w)
      /\ profile' = [class |-> app.class, gated |-> app.class]
      /\ app' = [app EXCEPT !.status = "approved"]
      /\ UNCHANGED <<party, cdd, bound, decidedOn, handoff, candidate, late, spent, published>>
  BY <1>1 DEF ApproveCommit, review, dupes
<1>3. app \in Applications /\ app.class \in Classes
  BY <1>1, NoneAssumption DEF IInv, Typed, Classed
<1>4. app' \in Applications /\ app'.status = "approved" /\ app'.class = app.class
  BY <1>2, <1>3 DEF Applications, Statuses, Decided
<1>5. profile' \in Profiles /\ ProfileClassGated'
  BY <1>2, <1>3 DEF Profiles, ProfileClassGated
<1>6. work' \in [Workers -> Tasks] /\ Fit(w)' /\ Now(w)' = "idle" /\ \A v \in Workers \ {w} : work'[v] = work[v]
  BY <1>2, RestTyped DEF IInv
<1>7. /\ request' \in [Requests -> RequestRows \cup {NoRequest}] /\ applied' \in [Requests -> 0..1]
      /\ RequestsKept /\ \A q \in Requests : Filed(q)'
  BY <1>1, <1>2, FulfilStep
<1>8. Typed'
  BY <1>2, <1>4, <1>5, <1>6, <1>7 DEF IInv, Typed
<1>9. AppMoves
  BY <1>3, <1>4 DEF AppMoves, Classed, Is, Past, Decided
<1>10. \A v \in Workers \ {w} : Now(v) # "approving"
  BY <1>2 DEF IInv, OneHolder
<1>11. bound' = decidedOn' /\ decidedOn # None /\ decidedOn.party = party
  <2>1. bound = decidedOn
    BY DEF IInv
  <2>2. Roster.party = party
    BY DEF Roster
  <2> QED  BY <1>1, <1>2, <2>1, <2>2
<1>12. OnlyLateBlocks'
  BY <1>1, <1>2 DEF OnlyLateBlocks, Blocking
<1>13. ApprovedKept
  BY <1>2, <1>11, <1>12 DEF ApprovedKept
<1> QED  BY <1>2, <1>5, <1>6, <1>7, <1>8, <1>9, <1>10, <1>11, <1>13, WorkerStep DEF CommitKept

-----------------------------------------------------------------------------
(* The theorems.                                                           *)

LEMMA Step ==
  ASSUME IInv, [Next]_vars
  PROVE  IInv'
<1>1. CASE Intake
  BY <1>1, CreateStep, ConsentStep, MoveStep, IntakeRead, IntakeWrite DEF Intake
<1>2. CASE Review
  <2>1. CASE GetRoster \/ \E m \in {"KYC", "AML"} : CreateHandoff(m)
    BY <2>1, ReviewStep DEF HandoffTargets
  <2> QED  BY <1>2, <2>1, ReceiveCheckStep, ReceiveWriteStep, ScreenStep DEF Review
<1>3. CASE Decide
  <2>1. ASSUME NEW r \in Requests, NEW x \in Parties \cup Candidates \cup {None}, NEW kind, File(r, kind, x)
        PROVE  IInv'
    BY <2>1, FileStep
  <2>2. CASE \E r \in Requests, p \in Parties :
                RequestPartyAdd(r, p) \/ RequestPartyUpdate(r, p) \/ RequestPartyRemoval(r, p)
    BY <2>1, <2>2 DEF RequestPartyAdd, RequestPartyUpdate, RequestPartyRemoval
  <2>3. CASE \E r \in Requests, d \in Candidates : RequestCandidate(r, d) \/ RequestResolution(r, d)
    BY <2>1, <2>3 DEF RequestCandidate, RequestResolution
  <2>4. CASE \E r \in Requests : RequestApproval(r)
    BY <2>1, <2>4 DEF RequestApproval
  <2>5. CASE \E w \in Workers, r \in Requests : Verify(w, r)
    BY <2>5, VerifyStep
  <2>6. ASSUME NEW w \in Workers, ApplyPartyAdd(w) \/ ApplyPartyUpdate(w) \/ ApplyPartyRemoval(w)
        PROVE  IInv'
    BY <2>6, ApplyPartyStep DEF ApplyPartyAdd, ApplyPartyUpdate, ApplyPartyRemoval
  <2> QED  BY <1>3, <2>2, <2>3, <2>4, <2>5, <2>6, ApplyCandidateStep, ApproveCheckStep, ApproveCommitStep DEF Decide
<1>4. CASE UNCHANGED vars
  <2>1. /\ UNCHANGED <<app, profile, party, cdd, bound, decidedOn, handoff, candidate, late, request, spent, applied>>
        /\ UNCHANGED <<published, work>>
    BY <1>4 DEF vars, intake, review, dupes, decisions
  <2>2. Typed'
    BY <2>1 DEF IInv, Typed
  <2> QED  BY <2>1, <2>2, Unmoved, SystemStep
<1> QED  BY <1>1, <1>2, <1>3, <1>4 DEF Next

\* The inductive invariant holds at all times.
THEOREM Inductive == Spec => []IInv
<1>1. Init => IInv
  <2> SUFFICES ASSUME Init PROVE IInv
    OBVIOUS
  <2> USE DEF Init
  <2>1. app \in Applications /\ app.status = None
    BY DEF NoApplication, Applications, Statuses
  <2>2. party \in [Parties -> PartyRows] /\ cdd \in CddColumns /\ candidate \in [Candidates -> CandidateStatuses]
    BY BoundAssumption DEF PartyRows, CddColumns, CddStatuses, CandidateStatuses
  <2>3. /\ request \in [Requests -> RequestRows \cup {NoRequest}]
        /\ spent \in [Requests -> 0..Tokens] /\ applied \in [Requests -> 0..1]
    BY BoundAssumption
  <2>4. work \in [Workers -> Tasks] /\ \A w \in Workers : Now(w) = "idle"
    BY DEF Idle, Tasks, Points, Now
  <2>5. Typed /\ Classed
    BY <2>1, <2>2, <2>3, <2>4 DEF Typed, Classed
  <2>6. OneHolder /\ \A w \in Workers : Fit(w)
    BY <2>4 DEF OneHolder, Fit
  <2>7. \A r \in Requests : Filed(r)
    BY NoneAssumption DEF Filed, NoRequest
  <2> QED  BY <2>1, <2>5, <2>6, <2>7, NoneAssumption DEF IInv, ProfileClassGated, Is
<1> QED  BY <1>1, Step, PTL DEF Spec

\* An application is approved on the roster KYC-01 decided on, over no duplicate candidate but a
\* late one, with the class CFG-01 allowed, and every approved request takes effect once.
THEOREM Sound == Spec => []ApprovedSoundly
<1>1. IInv => ApprovedSoundly
  <2> SUFFICES ASSUME IInv PROVE ApprovedSoundly
    OBVIOUS
  <2>1. TypeOK
    <3>1. [status |-> "draft", party |-> party] \in Rosters
      BY DEF IInv, Typed, Rosters
    <3>2. \A r \in Requests : request[r].status \in DecisionStatuses \cup {None}
      BY DEF IInv, Typed, RequestRows, NoRequest
    <3>3. \A w \in Workers : Now(w) \in Points
      BY DEF IInv, Typed, Tasks, Now
    <3> QED  BY <3>1, <3>2, <3>3 DEF IInv, Typed, TypeOK, Applications, Statuses, Points
  <2>2. ApprovedOnItsRoster /\ ProfileClassGated /\ ApprovedOverLateDuplicateOnly
    BY DEF IInv, ApprovedOnItsRoster, ApprovedOverLateDuplicateOnly, OnlyLateBlocks
  <2>3. TakesEffectOnce
    BY DEF IInv, Typed, TakesEffectOnce, Filed
  <2> QED  BY <2>1, <2>2, <2>3 DEF ApprovedSoundly
<1> QED  BY <1>1, Inductive, PTL

\* A decided application is closed to outcomes, whatever was in flight when it was decided.
THEOREM Frozen == Spec => DecidedIsFrozen
<1>1. ASSUME IInv, [Next]_vars, Is(Decided)
      PROVE  UNCHANGED <<app, cdd, bound>>
  <2>1. app.status \in Decided /\ app.status \notin {None, "draft", "submitted", "under_review"}
    BY <1>1, NoneAssumption DEF Is, Decided
  <2>2. CASE Intake
    BY <2>1, <2>2 DEF Intake, Create, PatchRead, PatchWrite, PatchApplies, SubmitRead, SubmitWrite, Consent,
                      StartReview, Cancel, Reject, Hold, Move, Is, review
  <2>3. CASE Review
    BY <2>1, <2>3 DEF Review, GetRoster, CreateHandoff, ReceiveCheck, ReceiveWrite, RollupApplies, ScreenParty,
                      Is, intake, review
  <2>4. ASSUME NEW w \in Workers PROVE ~ApproveCommit(w)
    BY <1>1, <2>1 DEF ApproveCommit, IInv, Fit, Is
  <2>5. CASE Decide
    BY <2>4, <2>5 DEF Decide, RequestPartyAdd, RequestPartyUpdate, RequestPartyRemoval, RequestCandidate,
                      RequestResolution, RequestApproval, File, Verify, ApplyPartyAdd, ApplyPartyUpdate,
                      ApplyPartyRemoval, ApplyParty, Overtaken, ApplyCandidate, ApplyResolution, ApproveCheck,
                      intake, review
  <2> QED  BY <1>1, <2>2, <2>3, <2>5 DEF Next, vars, intake, review
<1>2. IInv /\ [Next]_vars => [Is(Decided) => UNCHANGED <<app, cdd, bound>>]_vars
  BY <1>1
<1> QED  BY <1>2, Inductive, PTL DEF Spec, DecidedIsFrozen

-----------------------------------------------------------------------------
(* The register of the client the application became.  A place in it is    *)
(* held by one row; what ended stays ended; a party is activated only      *)
(* while its screening is clear.  A worker that inserts a row without a    *)
(* lock is held to the partial unique index when it writes.                *)

RowKinds == Register!AddKinds \cup Register!ChangeKinds
Screens == {"pending", "clear", "hit"}
Requested == [kind : RowKinds \cup Register!Lifecycles \cup {None}, target : Rows \cup {None}, status : {None, "requested", "applied"}]
RegisterTasks == [at : {"idle", "verified", "inserting", "stepping"}, req : Changes \cup {None}]

RegisterOneHolder == sort # "party" => \A x, y \in Rows : row[x].status = "active" /\ row[y].status = "active" => x = y

\* A request is for the register of this behaviour or for the client's lifecycle.
IsFiled(r) == change[r].status \in {"requested", "applied"}
RegisterFiled(r) ==
    IsFiled(r) /\ change[r].kind \notin Register!Lifecycles =>
        change[r].kind \in RowKinds /\ Register!SortOf(change[r].kind) = sort /\ change[r].target \in Rows

RegisterFit(w) == Register!Now(w) \in {"verified", "inserting"} => hand[w].req \in Changes /\ IsFiled(hand[w].req)
Inserting(w) == Register!Now(w) = "inserting" => change[hand[w].req].kind \in {"user_add", "mandate_create"}

RegisterIInv ==
    /\ Register!TypeOK /\ RegisterOneHolder
    /\ \A r \in Changes : RegisterFiled(r)
    /\ \A w \in Workers : RegisterFit(w) /\ Inserting(w)

\* What a step does to a row that ended, to a party it activates, and to a client.
Kept ==
    /\ \A x \in Rows : row[x].status \in {"revoked", "inactive"} => row'[x].status = row[x].status /\ (row'[x] = row[x] \/ sort = "party")
    /\ \A x \in Rows : sort = "party" /\ row[x].status # "active" /\ row'[x].status = "active" => Register!Cleared(x)
    /\ client = "closed" => client' = "closed"

-----------------------------------------------------------------------------
\* The register's module counts with a copy of FiniteSets of its own.
LEMMA Size == \A S : Register!Cardinality(S) = Cardinality(S)
BY DEF Cardinality, IsFiniteSet, Register!Cardinality, Register!IsFiniteSet

\* What a request of each kind makes of a row it may change.
LEMMA RowChange ==
  ASSUME Register!TypeOK, NEW x \in Rows, NEW kind \in RowKinds, Register!SortOf(kind) = sort, Register!Has(x, Register!From(kind))
  PROVE  /\ Register!To(kind, row[x].status) \in Register!RowStatuses
         /\ row[x].status \notin {"revoked", "inactive"}
         /\ Register!To(kind, row[x].status) = "active" /\ row[x].status # "active" =>
               kind \in {"user_add", "mandate_create", "edge_add", "party_activate"}
         /\ Register!To(kind, row[x].status) # "absent"
<1>1. row[x].status \in Register!RowStatuses \cup {"absent"}
  BY DEF Register!TypeOK
<1>2. CASE kind \in {"user_add", "user_remove"}
  BY <1>1, <1>2 DEF Register!Has, Register!From, Register!To, Register!SortOf, Register!RowStatuses, Register!AddKinds, Register!ChangeKinds, Register!UserKinds, Register!MandateKinds, Register!UserFrom, Register!AuthorisedUserStatuses
<1>3. CASE kind \in {"mandate_create", "mandate_update"}
  BY <1>1, <1>3 DEF Register!Has, Register!From, Register!To, Register!SortOf, Register!RowStatuses, Register!AddKinds, Register!ChangeKinds, Register!UserKinds, Register!MandateKinds, Register!MandateStatuses
<1>4. CASE kind \in {"edge_add", "edge_update", "edge_remove"}
  BY <1>1, <1>4 DEF Register!Has, Register!From, Register!To, Register!SortOf, Register!RowStatuses, Register!AddKinds, Register!ChangeKinds, Register!UserKinds, Register!MandateKinds, Register!EdgeStatuses
<1>5. CASE kind \in {"party_add", "party_update", "party_remove", "party_activate"}
  <2>1. sort = "party" /\ Register!RowStatuses = Register!PartyStatuses
    BY <1>5 DEF Register!SortOf, Register!UserKinds, Register!MandateKinds, Register!RowStatuses
  <2>2. CASE kind = "party_add"
    BY <1>1, <2>1, <2>2 DEF Register!Has, Register!From, Register!To, Register!AddKinds, Register!PartyStatuses
  <2>3. CASE kind = "party_update"
    BY <1>1, <2>1, <2>3 DEF Register!Has, Register!From, Register!To, Register!AddKinds, Register!PartyStatuses, Register!PartyUpdateFrom
  <2>4. CASE kind = "party_remove"
    BY <1>1, <2>1, <2>4 DEF Register!Has, Register!From, Register!To, Register!AddKinds, Register!PartyStatuses, Register!PartyRemoveFrom
  <2>5. CASE kind = "party_activate"
    BY <1>1, <2>1, <2>5 DEF Register!Has, Register!From, Register!To, Register!AddKinds, Register!PartyStatuses
  <2> QED  BY <1>5, <2>2, <2>3, <2>4, <2>5
<1> QED  BY <1>2, <1>3, <1>4, <1>5 DEF RowKinds, Register!AddKinds, Register!ChangeKinds

LEMMA WriteStep ==
  ASSUME RegisterIInv, MaxRowVersion \in Nat, NEW x \in Rows, NEW status \in Register!RowStatuses, Register!Write(x, status), UNCHANGED <<sort, client>>,
         status = "active" /\ row[x].status # "active" =>
            IF sort = "party" THEN Register!Cleared(x) ELSE Register!PlaceFree(x),
         row[x].status \notin {"revoked", "inactive"}
  PROVE  /\ row' \in [Rows -> [status : Register!RowStatuses \cup {"absent"}, screen : Screens, version : 0..MaxRowVersion]]
         /\ RegisterOneHolder' /\ Kept
<1> DEFINE z == [status |-> status, screen |-> row[x].screen, version |-> row[x].version + 1]
<1>1. row' = [row EXCEPT ![x] = z] /\ row[x].version < MaxRowVersion
  BY DEF Register!Write
<1>2. z \in [status : Register!RowStatuses \cup {"absent"}, screen : Screens, version : 0..MaxRowVersion] /\ z.status = status
  BY <1>1 DEF RegisterIInv, Register!TypeOK, Screens
<1> HIDE DEF z
<1>3. /\ row' \in [Rows -> [status : Register!RowStatuses \cup {"absent"}, screen : Screens, version : 0..MaxRowVersion]]
      /\ row'[x] = z /\ \A y \in Rows \ {x} : row'[y] = row[y]
  BY <1>1, <1>2 DEF RegisterIInv, Register!TypeOK, Screens
<1>4. RegisterOneHolder'
  BY <1>2, <1>3 DEF RegisterIInv, RegisterOneHolder, Register!PlaceFree
<1>5. Kept
  BY <1>2, <1>3 DEF Kept
<1> QED  BY <1>3, <1>4, <1>5

LEMMA RegisterRestTyped ==
  ASSUME Register!TypeOK, NEW w \in Workers, Register!Rest(w)
  PROVE  /\ hand' \in [Workers -> RegisterTasks] /\ hand'[w].at = "idle"
         /\ \A v \in Workers \ {w} : hand'[v] = hand[v]
<1>1. Register!Idle \in RegisterTasks /\ Register!Idle.at = "idle"
  BY DEF Register!Idle, RegisterTasks
<1> HIDE DEF Register!Idle
<1> QED  BY <1>1 DEF Register!Rest, Register!TypeOK, RegisterTasks

LEMMA FulfilTyped ==
  ASSUME Register!TypeOK, NEW r \in Changes, Register!Fulfil(r)
  PROVE  /\ change' \in [Changes -> Requested]
         /\ \A q \in Changes : /\ change'[q].kind = change[q].kind /\ change'[q].target = change[q].target
                               /\ IsFiled(q) => change'[q].status \in {"requested", "applied"}
                               /\ change'[q].status \in {"requested", "applied"} => IsFiled(q) \/ q = r
<1> DEFINE z == [change[r] EXCEPT !.status = "applied"]
<1>1. /\ z \in Requested /\ z.kind = change[r].kind /\ z.target = change[r].target /\ z.status = "applied"
  BY DEF Register!TypeOK, Requested, RowKinds
<1>2. change' = [change EXCEPT ![r] = z]
  BY DEF Register!Fulfil
<1> HIDE DEF z
<1>3. /\ change' \in [Changes -> Requested] /\ change'[r] = z
      /\ \A q \in Changes \ {r} : change'[q] = change[q]
  BY <1>1, <1>2 DEF Register!TypeOK, Requested, RowKinds
<1> QED  BY <1>1, <1>3 DEF IsFiled

\* A transaction that writes a row, applies its request and ends.
LEMMA DoneStep ==
  ASSUME RegisterIInv, NEW w \in Workers, NEW r \in Changes, IsFiled(r), Register!Fulfil(r), Register!Rest(w), RegisterOneHolder', UNCHANGED <<sort, paid>>,
         client' \in Register!ClientStatuses,
         row' \in [Rows -> [status : Register!RowStatuses \cup {"absent"}, screen : Screens, version : 0..MaxRowVersion]]
  PROVE  RegisterIInv'
<1>1. /\ change' \in [Changes -> Requested]
      /\ \A q \in Changes : /\ change'[q].kind = change[q].kind /\ change'[q].target = change[q].target
                            /\ IsFiled(q) => change'[q].status \in {"requested", "applied"}
                            /\ change'[q].status \in {"requested", "applied"} => IsFiled(q) \/ q = r
  BY FulfilTyped DEF RegisterIInv
<1>2. /\ hand' \in [Workers -> RegisterTasks] /\ hand'[w].at = "idle"
      /\ \A v \in Workers \ {w} : hand'[v] = hand[v]
  BY RegisterRestTyped DEF RegisterIInv
<1>3. Register!TypeOK'
  BY <1>1, <1>2 DEF RegisterIInv, Register!TypeOK, Requested, RegisterTasks, RowKinds, Register!RowStatuses, Screens
<1>a. \A q \in Changes : IsFiled(q)' <=> IsFiled(q)
  BY <1>1 DEF IsFiled
<1>4. \A q \in Changes : RegisterFiled(q)'
  <2>1. \A q \in Changes : RegisterFiled(q)
    BY DEF RegisterIInv
  <2> QED  BY <1>1, <1>a, <2>1 DEF RegisterFiled
<1>5. ASSUME NEW v \in Workers PROVE RegisterFit(v)' /\ Inserting(v)'
  <2>1. CASE v = w
    BY <1>2, <2>1 DEF RegisterFit, Inserting, Register!Now
  <2>2. CASE v # w
    <3>1. RegisterFit(v) /\ Inserting(v) /\ hand'[v] = hand[v]
      BY <1>2, <2>2 DEF RegisterIInv
    <3> QED  BY <1>1, <1>a, <3>1 DEF RegisterFit, Inserting, Register!Now
  <2> QED  BY <2>1, <2>2
<1> QED  BY <1>3, <1>4, <1>5 DEF RegisterIInv

\* A worker that moves on while no row changes.
LEMMA TaskStep ==
  ASSUME RegisterIInv, NEW w \in Workers, NEW t \in RegisterTasks, hand' = [hand EXCEPT ![w] = t], UNCHANGED <<sort, client, row, change>>,
         paid' \in [Changes -> 0..Cardinality(Workers)],
         t.at \in {"verified", "inserting"} => t.req \in Changes /\ IsFiled(t.req),
         t.at = "inserting" => change[t.req].kind \in {"user_add", "mandate_create"}
  PROVE  RegisterIInv' /\ Kept
<1>1. hand' \in [Workers -> RegisterTasks] /\ hand'[w] = t /\ \A v \in Workers \ {w} : hand'[v] = hand[v]
  BY DEF RegisterIInv, Register!TypeOK, RegisterTasks
<1>2. Register!TypeOK'
  BY Size, <1>1 DEF RegisterIInv, Register!TypeOK, RegisterTasks, Register!RowStatuses
<1>3. RegisterOneHolder' /\ Kept
  BY DEF RegisterIInv, RegisterOneHolder, Kept
<1>4. \A r \in Changes : RegisterFiled(r)'
  BY DEF RegisterIInv, RegisterFiled, IsFiled
<1>5. ASSUME NEW v \in Workers PROVE RegisterFit(v)' /\ Inserting(v)'
  <2>1. CASE v = w
    BY <1>1, <2>1 DEF RegisterFit, Inserting, Register!Now, IsFiled
  <2>2. CASE v # w
    BY <1>1, <2>2 DEF RegisterIInv, RegisterFit, Inserting, Register!Now, IsFiled
  <2> QED  BY <2>1, <2>2
<1> QED  BY <1>2, <1>3, <1>4, <1>5 DEF RegisterIInv

LEMMA OvertakenStep ==
  ASSUME RegisterIInv, NEW w \in Workers, Register!Overtaken(w)
  PROVE  RegisterIInv' /\ Kept
<1>1. PICK t \in RegisterTasks : t = Register!Idle /\ t.at = "idle"
  <2>1. Register!Idle \in RegisterTasks /\ Register!Idle.at = "idle"
    BY DEF Register!Idle, RegisterTasks
  <2> QED  BY <2>1
<1>2. hand' = [hand EXCEPT ![w] = t] /\ UNCHANGED <<sort, client, row, change, paid>>
  BY <1>1 DEF Register!Overtaken, Register!Rest
<1>3. paid' \in [Changes -> 0..Cardinality(Workers)]
  BY Size, <1>2 DEF RegisterIInv, Register!TypeOK
<1> QED  BY <1>1, <1>2, <1>3, TaskStep

-----------------------------------------------------------------------------
(* Changes. *)

\* A new request, for this register or for the client's lifecycle.
LEMMA RegisterFileStep ==
  ASSUME RegisterIInv, NEW r \in Changes, NEW q \in Requested, change' = [change EXCEPT ![r] = q],
         UNCHANGED <<sort, client, row, hand, paid>>, change[r] = Register!NoRequest, None \notin {"requested", "applied"},
         q.kind \notin Register!Lifecycles => q.kind \in RowKinds /\ Register!SortOf(q.kind) = sort /\ q.target \in Rows
  PROVE  RegisterIInv' /\ Kept
<1>1. /\ change' \in [Changes -> Requested] /\ change'[r] = q
      /\ \A p \in Changes \ {r} : change'[p] = change[p]
  BY DEF RegisterIInv, Register!TypeOK, Requested, RowKinds
<1>2. Register!TypeOK'
  BY <1>1 DEF RegisterIInv, Register!TypeOK, Requested, RowKinds, Register!RowStatuses
<1>3. RegisterOneHolder' /\ Kept
  BY DEF RegisterIInv, RegisterOneHolder, Kept
<1>4. \A p \in Changes : RegisterFiled(p)'
  BY <1>1 DEF RegisterIInv, RegisterFiled, IsFiled
<1>5. ~IsFiled(r)
  BY DEF IsFiled, Register!NoRequest
<1>6. ASSUME NEW v \in Workers PROVE RegisterFit(v)' /\ Inserting(v)'
  <2>1. Register!Now(v) \in {"verified", "inserting"} => hand[v].req # r
    BY <1>5 DEF RegisterIInv, RegisterFit
  <2>2. Register!Now(v) = "inserting" => Register!Now(v) \in {"verified", "inserting"}
    OBVIOUS
  <2> QED  BY <1>1, <2>1, <2>2 DEF RegisterIInv, RegisterFit, Inserting, Register!Now, IsFiled
<1> QED  BY <1>2, <1>3, <1>4, <1>6 DEF RegisterIInv

LEMMA AskStep ==
  ASSUME RegisterIInv, NEW r \in Changes, Register!Ask(r), Changes \subseteq Nat, None \notin {"requested", "applied"}
  PROVE  RegisterIInv' /\ Kept
<1>1. ASSUME NEW kind \in RowKinds, NEW x \in Rows, Register!FileRow(r, kind, x) PROVE RegisterIInv' /\ Kept
  <2>1. PICK q \in Requested : q = [kind |-> kind, target |-> x, status |-> "requested"] /\ q.kind = kind /\ q.target = x
    <3> DEFINE z == [kind |-> kind, target |-> x, status |-> "requested"]
    <3>1. z \in Requested /\ z.kind = kind /\ z.target = x
      BY DEF Requested
    <3> QED  BY <3>1
  <2>2. change' = [change EXCEPT ![r] = q] /\ UNCHANGED <<sort, client, row, hand, paid>> /\ Register!Fresh(r) /\ Register!SortOf(kind) = sort
    BY <1>1, <2>1 DEF Register!FileRow, Register!Ready
  <2>3. change[r] = Register!NoRequest
    BY <2>2, Changes \subseteq Nat DEF Register!Fresh
  <2> QED  BY <2>1, <2>2, <2>3, RegisterFileStep
<1>2. ASSUME NEW action \in Register!Lifecycles, Register!LifecycleRequest(r, action) PROVE RegisterIInv' /\ Kept
  <2>1. PICK q \in Requested : q = [kind |-> action, target |-> None, status |-> "requested"] /\ q.kind = action
    <3> DEFINE z == [kind |-> action, target |-> None, status |-> "requested"]
    <3>1. z \in Requested /\ z.kind = action
      BY DEF Requested
    <3> QED  BY <3>1
  <2>2. change' = [change EXCEPT ![r] = q] /\ UNCHANGED <<sort, client, row, hand, paid>> /\ Register!Fresh(r)
    BY <1>2, <2>1 DEF Register!LifecycleRequest
  <2>3. change[r] = Register!NoRequest
    BY <2>2, Changes \subseteq Nat DEF Register!Fresh
  <2> QED  BY <1>2, <2>1, <2>2, <2>3, RegisterFileStep
<1> QED  BY <1>1, <1>2 DEF Register!Ask, Register!UserAddRequest, Register!UserRemoveRequest, Register!MandateCreateRequest, Register!MandateUpdateRequest,
     Register!EdgeAddRequest, Register!EdgeUpdateRequest, Register!EdgeRemoveRequest, Register!PartyAddRequest, Register!PartyUpdateRequest, Register!PartyRemoveRequest,
     Register!PartyActivateRequest, RowKinds, Register!AddKinds, Register!ChangeKinds

-----------------------------------------------------------------------------
(* Applications of requests, and the changes that need none. *)

LEMMA RegisterVerifyStep ==
  ASSUME RegisterIInv, IsFiniteSet(Workers), NEW w \in Workers, NEW r \in Changes, Register!Verify(w, r)
  PROVE  RegisterIInv' /\ Kept
<1>1. PICK t \in RegisterTasks : hand' = [hand EXCEPT ![w] = t] /\ t.at = "verified" /\ t.req = r
  <2> DEFINE z == [at |-> "verified", req |-> r]
  <2>1. z \in RegisterTasks /\ z.at = "verified" /\ z.req = r
    BY DEF RegisterTasks
  <2>2. hand' = [hand EXCEPT ![w] = z]
    BY DEF Register!Verify, Register!Set
  <2> HIDE DEF z
  <2> QED  BY <2>1, <2>2
<1>2. paid' \in [Changes -> 0..Cardinality(Workers)]
  BY Size, FS_CardinalityType DEF Register!Verify, RegisterIInv, Register!TypeOK
<1>3. UNCHANGED <<sort, client, row, change>> /\ IsFiled(r)
  BY DEF Register!Verify, IsFiled
<1> QED  BY <1>1, <1>2, <1>3, TaskStep

LEMMA InsertReadStep ==
  ASSUME RegisterIInv, NEW w \in Workers, Register!InsertRead(w)
  PROVE  RegisterIInv' /\ Kept
<1>1. PICK r \in Changes : r = hand[w].req /\ IsFiled(r)
  BY DEF Register!InsertRead, RegisterIInv, RegisterFit
<1>2. CASE Register!StillRequested(r) /\ Register!Active
  <2>1. PICK t \in RegisterTasks : hand' = [hand EXCEPT ![w] = t] /\ t.at = "inserting" /\ t.req = r
    <3> DEFINE z == [at |-> "inserting", req |-> r]
    <3>1. z \in RegisterTasks /\ z.at = "inserting" /\ z.req = r
      BY DEF RegisterTasks
    <3>2. hand' = [hand EXCEPT ![w] = z]
      BY <1>1, <1>2 DEF Register!InsertRead, Register!Set
    <3> HIDE DEF z
    <3> QED  BY <3>1, <3>2
  <2>2. UNCHANGED <<sort, client, row, change, paid>> /\ change[r].kind \in {"user_add", "mandate_create"}
    BY <1>1, <1>2 DEF Register!InsertRead
  <2>3. paid' \in [Changes -> 0..Cardinality(Workers)]
    BY Size, <2>2 DEF RegisterIInv, Register!TypeOK
  <2> QED  BY <1>1, <2>1, <2>2, <2>3, TaskStep
<1>3. CASE ~(Register!StillRequested(r) /\ Register!Active)
  BY <1>1, <1>3, OvertakenStep DEF Register!InsertRead
<1> QED  BY <1>2, <1>3

LEMMA RowTarget ==
  ASSUME RegisterIInv, NEW r \in Changes, IsFiled(r), change[r].kind \in RowKinds
  PROVE  Register!SortOf(change[r].kind) = sort /\ change[r].target \in Rows
BY DEF RegisterIInv, RegisterFiled, RowKinds, Register!AddKinds, Register!ChangeKinds, Register!Lifecycles

LEMMA InsertWriteStep ==
  ASSUME RegisterIInv, MaxRowVersion \in Nat, NEW w \in Workers, Register!InsertWrite(w)
  PROVE  RegisterIInv' /\ Kept
<1>1. PICK r \in Changes : r = hand[w].req /\ IsFiled(r) /\ change[r].kind \in {"user_add", "mandate_create"}
  BY DEF Register!InsertWrite, RegisterIInv, RegisterFit, Inserting
<1>2. Register!SortOf(change[r].kind) = sort /\ change[r].target \in Rows
  BY <1>1, RowTarget DEF RowKinds, Register!AddKinds
<1>3. PICK x \in Rows : x = change[r].target
  BY <1>2
<1>4. CASE Register!Has(x, {"absent"}) /\ Register!PlaceFree(x)
  <2>1. Register!Write(x, "active") /\ Register!Fulfil(r) /\ Register!Rest(w) /\ UNCHANGED <<sort, client, paid>>
    BY <1>1, <1>3, <1>4 DEF Register!InsertWrite
  <2>2. sort \in {"user", "mandate"}
    BY <1>1, <1>2 DEF Register!SortOf, Register!UserKinds, Register!MandateKinds
  <2>3. "active" \in Register!RowStatuses
    BY <2>2 DEF Register!RowStatuses, Register!AuthorisedUserStatuses, Register!MandateStatuses
  <2>4. row[x].status \notin {"revoked", "inactive"} /\ sort # "party"
    BY <1>4, <2>2 DEF Register!Has
  <2>5. PICK status \in Register!RowStatuses : status = "active"
    BY <2>3
  <2>6. /\ row' \in [Rows -> [status : Register!RowStatuses \cup {"absent"}, screen : Screens, version : 0..MaxRowVersion]]
        /\ RegisterOneHolder' /\ Kept
    BY <1>4, <2>1, <2>4, <2>5, WriteStep
  <2>7. client' \in Register!ClientStatuses
    BY <2>1 DEF RegisterIInv, Register!TypeOK
  <2> QED  BY <1>1, <2>1, <2>6, <2>7, DoneStep
<1>5. CASE ~(Register!Has(x, {"absent"}) /\ Register!PlaceFree(x))
  BY <1>1, <1>3, <1>5, OvertakenStep DEF Register!InsertWrite
<1> QED  BY <1>4, <1>5

LEMMA ApplyRowStep ==
  ASSUME RegisterIInv, MaxRowVersion \in Nat, NEW w \in Workers, NEW kinds \in SUBSET (RowKinds \ {"user_add", "mandate_create"}), Register!ApplyRow(w, kinds)
  PROVE  RegisterIInv' /\ Kept
<1>1. PICK r \in Changes : r = hand[w].req /\ IsFiled(r) /\ change[r].kind \in kinds
  BY DEF Register!ApplyRow, RegisterIInv, RegisterFit
<1>2. PICK kind \in RowKinds \ {"user_add", "mandate_create"} : kind = change[r].kind
  BY <1>1
<1>3. Register!SortOf(kind) = sort /\ change[r].target \in Rows
  BY <1>1, <1>2, RowTarget
<1>4. PICK x \in Rows : x = change[r].target
  BY <1>3
<1> DEFINE may == /\ Register!StillRequested(r) /\ Register!StillFrom(kind, x) /\ Register!StillCleared(kind, x)
                  /\ kind = "edge_add" => Register!PlaceFree(x)
<1>5. CASE may
  <2>1. Register!Write(x, Register!To(kind, row[x].status)) /\ Register!Fulfil(r) /\ Register!Rest(w) /\ UNCHANGED <<sort, client, paid>>
    BY <1>1, <1>2, <1>4, <1>5 DEF Register!ApplyRow
  <2>2. /\ Register!To(kind, row[x].status) \in Register!RowStatuses
        /\ row[x].status \notin {"revoked", "inactive"}
        /\ Register!To(kind, row[x].status) = "active" /\ row[x].status # "active" =>
               kind \in {"user_add", "mandate_create", "edge_add", "party_activate"}
    BY <1>3, <1>5, RowChange DEF RegisterIInv, Register!StillFrom
  <2>3. PICK status \in Register!RowStatuses : status = Register!To(kind, row[x].status)
    BY <2>2
  <2>4. kind = "edge_add" => sort # "party" /\ Register!PlaceFree(x)
    BY <1>3, <1>5 DEF Register!SortOf, Register!UserKinds, Register!MandateKinds
  <2>5. kind = "party_activate" => sort = "party" /\ Register!Cleared(x)
    BY <1>3, <1>5 DEF Register!SortOf, Register!UserKinds, Register!MandateKinds, Register!StillCleared
  <2>6. status = "active" /\ row[x].status # "active" =>
            IF sort = "party" THEN Register!Cleared(x) ELSE Register!PlaceFree(x)
    BY <1>2, <2>2, <2>3, <2>4, <2>5
  <2>7. Register!Write(x, status)
    BY <2>1, <2>3
  <2>8. /\ row' \in [Rows -> [status : Register!RowStatuses \cup {"absent"}, screen : Screens, version : 0..MaxRowVersion]]
        /\ RegisterOneHolder' /\ Kept
    BY <2>1, <2>2, <2>6, <2>7, WriteStep
  <2>9. client' \in Register!ClientStatuses
    BY <2>1 DEF RegisterIInv, Register!TypeOK
  <2> QED  BY <1>1, <2>1, <2>8, <2>9, DoneStep
<1>6. CASE ~may
  BY <1>1, <1>2, <1>4, <1>6, OvertakenStep DEF Register!ApplyRow
<1> QED  BY <1>5, <1>6

LEMMA LifecycleStep ==
  ASSUME RegisterIInv, NEW w \in Workers, Register!LifecycleApply(w)
  PROVE  RegisterIInv' /\ Kept
<1>1. PICK r \in Changes : r = hand[w].req /\ IsFiled(r) /\ change[r].kind \in Register!Lifecycles
  BY DEF Register!LifecycleApply, RegisterIInv, RegisterFit
<1>2. CASE Register!StillRequested(r) /\ Register!StillMovable(change[r].kind)
  <2>1. client' = Register!Target(change[r].kind) /\ Register!Fulfil(r) /\ Register!Rest(w) /\ UNCHANGED <<sort, row, paid>>
    BY <1>1, <1>2 DEF Register!LifecycleApply
  <2>2. client' \in Register!ClientStatuses /\ client # "closed"
    BY <1>1, <1>2, <2>1 DEF Register!Target, Register!Lifecycles, Register!ClientStatuses, Register!StillMovable, Register!MayMove
  <2>3. RegisterOneHolder' /\ Kept
    BY <2>1, <2>2 DEF RegisterIInv, RegisterOneHolder, Kept
  <2>4. row' \in [Rows -> [status : Register!RowStatuses \cup {"absent"}, screen : Screens, version : 0..MaxRowVersion]]
    BY <2>1 DEF RegisterIInv, Register!TypeOK, Screens
  <2> QED  BY <1>1, <2>1, <2>2, <2>3, <2>4, DoneStep
<1>3. CASE ~(Register!StillRequested(r) /\ Register!StillMovable(change[r].kind))
  BY <1>1, <1>3, OvertakenStep DEF Register!LifecycleApply
<1> QED  BY <1>2, <1>3

\* The unlocked read of the client's status before a change without an approval.
LEMMA FetchStep ==
  ASSUME RegisterIInv, NEW w \in Workers, Register!fetchActiveClient(w)
  PROVE  RegisterIInv' /\ Kept
<1>1. PICK t \in RegisterTasks : hand' = [hand EXCEPT ![w] = t] /\ t.at = "stepping"
  <2> DEFINE z == [at |-> "stepping", req |-> None]
  <2>1. z \in RegisterTasks /\ z.at = "stepping"
    BY DEF RegisterTasks
  <2>2. hand' = [hand EXCEPT ![w] = z]
    BY DEF Register!fetchActiveClient, Register!Set
  <2> HIDE DEF z
  <2> QED  BY <2>1, <2>2
<1>2. UNCHANGED <<sort, client, row, change, paid>>
  BY DEF Register!fetchActiveClient
<1>3. paid' \in [Changes -> 0..Cardinality(Workers)]
  BY Size, <1>2 DEF RegisterIInv, Register!TypeOK
<1> QED  BY <1>1, <1>2, <1>3, TaskStep

\* Only a row changes.
LEMMA RowStep ==
  ASSUME RegisterIInv, UNCHANGED <<sort, client, change, hand, paid>>, RegisterOneHolder',
         row' \in [Rows -> [status : Register!RowStatuses \cup {"absent"}, screen : Screens, version : 0..MaxRowVersion]]
  PROVE  RegisterIInv'
<1>1. Register!TypeOK'
  BY DEF RegisterIInv, Register!TypeOK, Screens, Register!RowStatuses
<1>2. \A r \in Changes : RegisterFiled(r)'
  BY DEF RegisterIInv, RegisterFiled, IsFiled
<1>3. \A w \in Workers : RegisterFit(w)' /\ Inserting(w)'
  BY DEF RegisterIInv, RegisterFit, Inserting, Register!Now, IsFiled
<1> QED  BY <1>1, <1>2, <1>3 DEF RegisterIInv

\* A row changes and the worker that changed it ends.
LEMMA RowDoneStep ==
  ASSUME RegisterIInv, NEW w \in Workers, Register!Rest(w), UNCHANGED <<sort, client, change, paid>>, RegisterOneHolder',
         row' \in [Rows -> [status : Register!RowStatuses \cup {"absent"}, screen : Screens, version : 0..MaxRowVersion]]
  PROVE  RegisterIInv'
<1>1. /\ hand' \in [Workers -> RegisterTasks] /\ hand'[w].at = "idle"
      /\ \A v \in Workers \ {w} : hand'[v] = hand[v]
  BY RegisterRestTyped DEF RegisterIInv
<1>2. Register!TypeOK'
  BY <1>1 DEF RegisterIInv, Register!TypeOK, RegisterTasks, Screens, Register!RowStatuses
<1>3. \A r \in Changes : RegisterFiled(r)'
  BY DEF RegisterIInv, RegisterFiled, IsFiled
<1>4. ASSUME NEW v \in Workers PROVE RegisterFit(v)' /\ Inserting(v)'
  <2>1. CASE v = w
    BY <1>1, <2>1 DEF RegisterFit, Inserting, Register!Now
  <2>2. CASE v # w
    BY <1>1, <2>2 DEF RegisterIInv, RegisterFit, Inserting, Register!Now, IsFiled
  <2> QED  BY <2>1, <2>2
<1> QED  BY <1>2, <1>3, <1>4 DEF RegisterIInv

LEMMA SingleStep ==
  ASSUME RegisterIInv, MaxRowVersion \in Nat, NEW w \in Workers, NEW x \in Rows,
         Register!UserSuspend(w, x) \/ Register!UserReactivate(w, x) \/ Register!PartyStep(w, x)
  PROVE  RegisterIInv' /\ Kept
<1>1. ASSUME NEW s \in Register!Sorts, NEW from, NEW to, Register!Step(w, s, x, from, to), from \subseteq {"active", "suspended", "pending"},
             sort = s => to \in Register!RowStatuses, to = "active" => s = "user" /\ Register!PlaceFree(x)
      PROVE  RegisterIInv' /\ Kept
  <2>1. sort = s /\ row[x].status \in from /\ Register!Write(x, to) /\ Register!Rest(w) /\ UNCHANGED <<sort, client, change, paid>>
    BY <1>1 DEF Register!Step, Register!Has
  <2>2. PICK status \in Register!RowStatuses : status = to
    BY <1>1, <2>1
  <2>3. row[x].status \notin {"revoked", "inactive"}
    BY <1>1, <2>1
  <2>4. status = "active" /\ row[x].status # "active" => IF sort = "party" THEN Register!Cleared(x) ELSE Register!PlaceFree(x)
    BY <1>1, <2>1, <2>2
  <2>5. /\ row' \in [Rows -> [status : Register!RowStatuses \cup {"absent"}, screen : Screens, version : 0..MaxRowVersion]]
        /\ RegisterOneHolder' /\ Kept
    BY <2>1, <2>2, <2>3, <2>4, WriteStep
  <2> QED  BY <2>1, <2>5, RowDoneStep
<1>2. CASE Register!UserSuspend(w, x)
  BY <1>1, <1>2 DEF Register!UserSuspend, Register!Sorts, Register!RowStatuses, Register!AuthorisedUserStatuses
<1>3. CASE Register!UserReactivate(w, x)
  BY <1>1, <1>3 DEF Register!UserReactivate, Register!ReactivationFree, Register!Sorts, Register!RowStatuses, Register!AuthorisedUserStatuses
<1>4. CASE Register!PartyStep(w, x)
  BY <1>1, <1>4 DEF Register!PartyStep, Register!Sorts, Register!RowStatuses, Register!PartyStatuses
<1> QED  BY <1>2, <1>3, <1>4

LEMMA RegisterScreenStep ==
  ASSUME RegisterIInv, MaxRowVersion \in Nat, NEW w \in Workers, NEW x \in Rows, NEW s \in {"clear", "hit"}, Register!ScreenParty(w, x, s)
  PROVE  RegisterIInv' /\ Kept
<1> DEFINE z == [status |-> row[x].status, screen |-> s, version |-> row[x].version + 1]
<1>1. /\ row' = [row EXCEPT ![x] = z] /\ row[x].version < MaxRowVersion /\ sort = "party"
      /\ Register!Rest(w) /\ UNCHANGED <<sort, client, change, paid>>
  BY DEF Register!ScreenParty
<1>2. z \in [status : Register!RowStatuses \cup {"absent"}, screen : Screens, version : 0..MaxRowVersion] /\ z.status = row[x].status
  BY <1>1 DEF RegisterIInv, Register!TypeOK, Screens
<1> HIDE DEF z
<1>3. /\ row' \in [Rows -> [status : Register!RowStatuses \cup {"absent"}, screen : Screens, version : 0..MaxRowVersion]]
      /\ \A y \in Rows : row'[y].status = row[y].status /\ (y # x => row'[y] = row[y])
  BY <1>1, <1>2 DEF RegisterIInv, Register!TypeOK, Screens
<1>4. RegisterOneHolder' /\ Kept
  BY <1>1, <1>3 DEF RegisterOneHolder, Kept
<1> QED  BY <1>1, <1>3, <1>4, RowDoneStep

LEMMA RegisterStep ==
  ASSUME RegisterIInv, [Register!Next]_Register!vars, MaxRowVersion \in Nat, IsFiniteSet(Workers), Changes \subseteq Nat, None \notin {"requested", "applied"}
  PROVE  RegisterIInv' /\ Kept
<1>1. ASSUME NEW r \in Changes, Register!Ask(r) PROVE RegisterIInv' /\ Kept
  BY <1>1, AskStep
<1>2. ASSUME NEW w \in Workers, Register!Apply(w) PROVE RegisterIInv' /\ Kept
  <2>1. ASSUME NEW r \in Changes, Register!Verify(w, r) PROVE RegisterIInv' /\ Kept
    BY <2>1, RegisterVerifyStep
  <2>2. ASSUME NEW kind \in RowKinds \ {"user_add", "mandate_create"}, Register!ApplyRow(w, {kind}) PROVE RegisterIInv' /\ Kept
    <3>1. {kind} \in SUBSET (RowKinds \ {"user_add", "mandate_create"})
      OBVIOUS
    <3> QED  BY <2>2, <3>1, ApplyRowStep
  <2> QED  BY <1>2, <2>1, <2>2, InsertReadStep, InsertWriteStep, LifecycleStep
       DEF Register!Apply, Register!UserRemoveApply, Register!MandateUpdateApply, Register!EdgeAddApply, Register!EdgeUpdateApply, Register!EdgeRemoveApply, Register!PartyAddApply,
           Register!PartyUpdateApply, Register!PartyRemoveApply, Register!PartyActivateApply, RowKinds, Register!AddKinds, Register!ChangeKinds
<1>3. ASSUME NEW w \in Workers, NEW x \in Rows, Register!UserSuspend(w, x) \/ Register!UserReactivate(w, x) \/ Register!PartyStep(w, x)
      PROVE  RegisterIInv' /\ Kept
  BY <1>3, SingleStep
<1>4. ASSUME NEW w \in Workers, NEW x \in Rows, NEW s \in {"clear", "hit"}, Register!ScreenParty(w, x, s) PROVE RegisterIInv' /\ Kept
  BY <1>4, RegisterScreenStep
<1>5. ASSUME NEW w \in Workers, Register!fetchActiveClient(w) \/ Register!StepFails(w) PROVE RegisterIInv' /\ Kept
  BY <1>5, FetchStep, OvertakenStep DEF Register!StepFails
<1>6. CASE UNCHANGED Register!vars
  <2>1. UNCHANGED <<sort, client, row, change, hand, paid>>
    BY <1>6 DEF Register!vars
  <2>2. RegisterOneHolder' /\ Kept /\ row' \in [Rows -> [status : Register!RowStatuses \cup {"absent"}, screen : Screens, version : 0..MaxRowVersion]]
    BY <2>1 DEF RegisterIInv, RegisterOneHolder, Kept, Register!TypeOK, Screens
  <2> QED  BY <2>1, <2>2, RowStep
<1> QED  BY <1>1, <1>2, <1>3, <1>4, <1>5, <1>6 DEF Register!Next

LEMMA InitHolds ==
  ASSUME Register!Init, MaxRowVersion \in Nat, IsFiniteSet(Workers), None \notin {"requested", "applied"}
  PROVE  RegisterIInv
<1>1. Register!Absent \in [status : Register!RowStatuses \cup {"absent"}, screen : {"pending", "clear", "hit"}, version : 0..MaxRowVersion] /\ Register!Absent.status = "absent"
  BY DEF Register!Absent
<1>2. Register!NoRequest \in Requested /\ Register!NoRequest.status = None
  BY DEF Register!NoRequest, Requested
<1>3. Register!Idle \in RegisterTasks /\ Register!Idle.at = "idle"
  BY DEF Register!Idle, RegisterTasks
<1>4. 0 \in 0..Cardinality(Workers)
  BY FS_CardinalityType
<1>5. Register!TypeOK
  BY Size, <1>1, <1>2, <1>3, <1>4 DEF Register!Init, Register!TypeOK, Requested, RowKinds, RegisterTasks, Register!ClientStatuses
<1> QED  BY <1>1, <1>2, <1>3, <1>5 DEF Register!Init, RegisterIInv, RegisterOneHolder, RegisterFiled, IsFiled, RegisterFit, Inserting, Register!Now

\* However changes of a client's register interleave, a place in it - one active membership of a
\* user, one active mandate, one active edge of a tuple - is held by one row.
THEOREM RegisterOnePlace == Register!Spec => []OnePlaceEach
<1>1. Register!Init => RegisterIInv
  BY RegisterAssumption, NoneAssumption, InitHolds
<1>2. RegisterIInv /\ [Register!Next]_Register!vars => RegisterIInv'
  BY RegisterAssumption, NoneAssumption, RegisterStep
<1>3. RegisterIInv => OnePlaceEach
  <2> SUFFICES ASSUME RegisterIInv PROVE Register!OnePlaceEach
    BY DEF RegisterIInv, OnePlaceEach
  <2> DEFINE Held == {x \in Rows : row[x].status = "active"}
  <2>1. ASSUME NEW S, S \subseteq Held, sort # "party" PROVE Cardinality(S) <= 1
    <3>1. \A x, y \in S : x = y
      BY <2>1 DEF RegisterIInv, RegisterOneHolder
    <3>2. CASE S = {}
      BY <3>2, FS_EmptySet
    <3>3. CASE S # {}
      <4>0. PICK x \in S : TRUE
        BY <3>3
      <4>1. S = {x}
        BY <3>1, <4>0
      <4>2. Cardinality({x}) = 1
        BY FS_Singleton
      <4> QED  BY <4>1, <4>2
    <3> QED  BY <3>2, <3>3
  <2>2. sort # "party" => Cardinality(Held) <= 1
    BY <2>1
  <2>3. Register!Memberships \subseteq Held /\ (sort = "party" => Register!Memberships = {})
    BY DEF Register!Memberships
  <2>4. Cardinality(Register!Memberships) <= 1
    BY <2>1, <2>3, FS_EmptySet
  <2> QED  BY Size, <2>2, <2>4 DEF Register!OnePlaceEach
<1> QED  BY <1>1, <1>2, <1>3, PTL DEF Register!Spec

\* What ended stays ended: a revoked row, an inactive edge, a closed client.  And a party becomes
\* active only while its screening is clear.
THEOREM RegisterEnded == Register!Spec => EndedForGood
<1>1. Register!Init => RegisterIInv
  BY RegisterAssumption, NoneAssumption, InitHolds
<1>2. RegisterIInv /\ [Register!Next]_Register!vars => RegisterIInv' /\ Kept
  BY RegisterAssumption, NoneAssumption, RegisterStep
<1>3. RegisterIInv /\ [Register!Next]_Register!vars =>
        /\ [\A x \in Rows : row[x].status \in {"revoked", "inactive"} =>
              row'[x].status = row[x].status /\ (row'[x] = row[x] \/ sort = "party")]_Register!vars
        /\ [\A x \in Rows : sort = "party" /\ row[x].status # "active" /\ row'[x].status = "active" => Register!Cleared(x)]_Register!vars
        /\ [client = "closed" => client' = "closed"]_Register!vars
  BY <1>2 DEF Kept
<1> QED  BY <1>1, <1>2, <1>3, PTL DEF Register!Spec, EndedForGood, Register!EndedForGood, Register!ActivatedWhileCleared, Register!ClosedForGood

-----------------------------------------------------------------------------
\* A behaviour of CLT-01 is one of the application and one of the register: whichever is not in
\* focus stands still.
LEMMA Parts == CltSpec => Spec /\ Register!Spec
<1>1. CltInit => Init /\ Register!Init
  BY DEF CltInit
<1>2. [CltNext]_<<vars, focus, registerVars>> => [Next]_vars /\ [Register!Next]_Register!vars
  BY DEF CltNext, registerVars, Register!vars
<1> QED  BY <1>1, <1>2, PTL DEF CltSpec, Spec, Register!Spec

\* Of an application and a register together: what is approved is what was decided on, a place is
\* held by one row, a decided application is closed to outcomes, and what ended stays ended.
THEOREM Together == CltSpec => []ApprovedSoundly /\ []OnePlaceEach /\ DecidedIsFrozen /\ EndedForGood
BY Parts, Sound, Frozen, RegisterOnePlace, RegisterEnded, PTL
=============================================================================
