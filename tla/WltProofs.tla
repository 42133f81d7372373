------------------------------ MODULE WltProofs ------------------------------
(***************************************************************************)
(* The destination handlers first: a decision is spent for one execution,  *)
(* while its destination is live, and they implement DestinationAuthority. *)
(* The inductive invariant splits in two: what holds of the rows (Rows),   *)
(* and what each request may rely on where it is (Everyone); a request at  *)
(* its critical point, "consuming", relies on the rows its locks protect.  *)
(* Then registrations and proof of control, inbound sources and the        *)
(* evidence export, payout accounts and a wallet under screening, each     *)
(* with its inductive invariant, and the service that is made of the five. *)
(***************************************************************************)
EXTENDS Wlt, SequenceTheorems, FiniteSetTheorems, TLAPS

DestRow == [type : Types, status : Statuses, statusV : Nat, whitelistV : 0..1, epoch : 0..1,
            coolUntil : Nat]
Result == [version : 0..MaxEvidence, until : Nat, risk : {"clear", "high_risk", "hit", None}]
MandateRow == [dest : Dests \cup {None}, evidence : Nat, whitelistV : Nat, spent : BOOLEAN]
Policy == [client : {0} \cup DOMAIN ClientLimits, own : [Dests -> {0} \cup DOMAIN DestLimits]]
DecisionRow == [status : {"issued", "consumed"}, dest : Dests, amount : Amounts, epoch : 0..1,
                client : {0} \cup DOMAIN ClientLimits, own : {0} \cup DOMAIN DestLimits,
                expires : Nat, ref : Refs \cup {None}]
PassRow == [decision : 1..MaxDecisions, dest : Dests, whitelistV : 0..1, amount : Amounts,
            firstUse : BOOLEAN, at : Nat]
Receipt == [decision : 1..MaxDecisions, ref : Refs, replay : BOOLEAN]
Request == [dest : Dests \cup {None}, evidence : Nat, statusV : Nat, whitelistV : 0..1, epoch : 0..1,
            status : Statuses \cup {None}, at : Nat, amlUntil : Nat, amount : Amounts \cup {0},
            decision : 0..MaxDecisions, ref : Refs \cup {None}, firstUse : BOOLEAN]

Mandated ==
    /\ mandate \in [Approvals -> MandateRow]
    /\ \A a \in Approvals : mandate[a] = NoMandate \/ mandate[a].dest \in Dests
Typed ==
    /\ now \in 0..MaxTime
    /\ dest \in [Dests -> DestRow]
    /\ evidence \in [Dests -> Result]
    /\ policy \in Policy
    /\ Mandated
    /\ decision \in Seq(DecisionRow) /\ Len(decision) <= MaxDecisions
    /\ ledger \in Seq(PassRow)
    /\ receipts \subseteq Receipt

\* The revocation epoch tells a revoked destination, the whitelist version one that was activated.
Versioned ==
    \A d \in Dests : /\ dest[d].status = "revoked" <=> dest[d].epoch = 1
                     /\ dest[d].status \notin {"active", "revoked"} => dest[d].whitelistV = 0

\* What a decision was issued on is active until it is revoked.
Issued ==
    \A k \in DOMAIN decision :
        /\ Coherent(decision[k])
        /\ dest[decision[k].dest].status \in {"active", "revoked"}

\* A pass row is that of a consumed decision, and of no other row; a receipt names its execution.
Booked ==
    /\ \A i \in DOMAIN ledger : /\ ledger[i].decision \in DOMAIN decision
                                /\ decision[ledger[i].decision].status = "consumed"
    /\ \A i, j \in DOMAIN ledger : ledger[i].decision = ledger[j].decision => i = j
Told ==
    \A r \in receipts : /\ r.decision \in DOMAIN decision
                        /\ SameExecution(r.decision, r.ref)

Rows == Typed /\ Versioned /\ Issued /\ Booked /\ Told /\ FirstUseOnce

\* What a consumption relies on from its checks to its write.
Held(w) ==
    LET k == tx[w].decision
        d == tx[w].dest
    IN
    /\ decision[k].status = "issued"
    /\ dest[d].status = "active" /\ dest[d].epoch = decision[k].epoch
    /\ policy.client = decision[k].client /\ policy.own[d] = decision[k].own
    /\ tx[w].firstUse <=> FirstUse(d, tx[w].whitelistV)

Fit(w) ==
    /\ tx[w].at <= now
    /\ ~At(w, "idle") => tx[w].dest \in Dests
    /\ At(w, "approved") => \E a \in Approvals : mandate[a].spent /\ mandate[a].dest = tx[w].dest
    /\ pc[w] \in {"allowed", "queued"} => tx[w].amount \in Amounts
    /\ pc[w] \in {"presented", "consuming"} =>
          /\ tx[w].decision \in DOMAIN decision /\ tx[w].ref \in Refs
          /\ decision[tx[w].decision].dest = tx[w].dest
    /\ At(w, "consuming") => Held(w)

Everyone ==
    /\ pc \in [Workers -> Points] /\ tx \in [Workers -> Request]
    /\ \A w \in Workers : Fit(w)
    /\ \A v, w \in Consuming : v = w

IInv == Rows /\ Everyone

-----------------------------------------------------------------------------
(* What the settings are. *)

LEMMA MostAttempts == MaxAttempts \in Nat \ {0}
BY SettingsAssumption DEF Configured

LEMMA MostRecords == MaxRecords \in Nat \ {0} /\ MaxWrites \in Nat
BY SettingsAssumption, RecordsAssumption DEF Configured

LEMMA PayoutLengths ==
  Lifetimes \cup {EvidenceValidity, PayoutTtl, PayoutAmlValidity, PayoutCooling, MaxVersions, MaxIssued} \subseteq Nat
BY SettingsAssumption, PayoutAssumption DEF Configured

-----------------------------------------------------------------------------
(* The requests.                                                           *)

\* A step leaves alone what a request relies on.
Keeps(w) ==
    /\ now <= now'
    /\ \A a \in Approvals : mandate[a].spent => mandate'[a] = mandate[a]
    /\ \A k \in DOMAIN decision : k \in DOMAIN decision' /\ decision'[k].dest = decision[k].dest
    /\ At(w, "consuming") =>
          /\ decision'[tx[w].decision] = decision[tx[w].decision]
          /\ dest'[tx[w].dest] = dest[tx[w].dest]
          /\ policy' = policy /\ ledger' = ledger

LEMMA FitKept ==
  ASSUME Rows, Everyone, now' \in Nat, NEW w \in Workers, Keeps(w), pc'[w] = pc[w], tx'[w] = tx[w]
  PROVE  Fit(w)'
<1>1. Fit(w) /\ now \in Nat /\ tx[w].at \in Nat
  BY TimeAssumption DEF Everyone, Rows, Typed, Request
<1>2. tx'[w].at <= now'
  BY <1>1 DEF Fit, Keeps
<1>3. ASSUME At(w, "consuming") PROVE Held(w)'
  <2>1. Held(w) /\ decision'[tx[w].decision] = decision[tx[w].decision]
        /\ dest'[tx[w].dest] = dest[tx[w].dest] /\ policy' = policy /\ ledger' = ledger
    BY <1>1, <1>3 DEF Fit, Keeps
  <2>2. FirstUse(tx[w].dest, tx[w].whitelistV)' <=> FirstUse(tx[w].dest, tx[w].whitelistV)
    BY <2>1 DEF FirstUse
  <2> QED BY <2>1, <2>2 DEF Held
<1> QED BY <1>1, <1>2, <1>3 DEF Fit, Keeps, At

\* One request moves.
LEMMA MoveStep ==
  ASSUME Rows, Everyone, now' \in Nat, NEW w \in Workers, NEW p \in Points, NEW x \in Request,
         pc' = [pc EXCEPT ![w] = p], tx' = [tx EXCEPT ![w] = x],
         \A v \in Workers : v # w => Keeps(v),
         Fit(w)', p = "consuming" => Consuming = {}
  PROVE  Everyone'
<1>1. /\ pc' \in [Workers -> Points] /\ tx' \in [Workers -> Request]
      /\ pc'[w] = p /\ tx'[w] = x
      /\ \A v \in Workers : v # w => pc'[v] = pc[v] /\ tx'[v] = tx[v]
  BY DEF Everyone
<1>2. \A v \in Workers : Fit(v)'
  BY <1>1, FitKept
<1>3. \A u, v \in Consuming' : u = v
  BY <1>1 DEF Everyone, Consuming
<1> QED BY <1>1, <1>2, <1>3 DEF Everyone

\* One request ends.
LEMMA EndStep ==
  ASSUME Rows, Everyone, now' \in Nat, NEW w \in Workers, End(w),
         \A v \in Workers : v # w => Keeps(v)
  PROVE  Everyone'
<1>1. Idle \in Request /\ Idle.at = 0
  BY BoundAssumption DEF Idle, Request
<1>2. pc' = [pc EXCEPT ![w] = "idle"] /\ tx' = [tx EXCEPT ![w] = Idle]
  BY DEF End
<1>3. pc'[w] = "idle" /\ tx'[w] = Idle
  BY <1>2 DEF Everyone
<1>4. Fit(w)'
  BY <1>1, <1>3 DEF Fit, At
<1> QED BY <1>1, <1>2, <1>4, MoveStep DEF Points

\* No request moves.
LEMMA StillStep ==
  ASSUME Rows, Everyone, now' \in Nat, UNCHANGED <<pc, tx>>, \A v \in Workers : Keeps(v)
  PROVE  Everyone'
<1>1. \A v \in Workers : Fit(v)'
  BY FitKept
<1> QED BY <1>1 DEF Everyone, Consuming

-----------------------------------------------------------------------------
(* The rows.                                                               *)

LEMMA RowTypes ==
  ASSUME Rows
  PROVE  /\ DOMAIN decision = 1..Len(decision) /\ DOMAIN ledger = 1..Len(ledger)
         /\ Len(decision) \in 0..MaxDecisions /\ Len(ledger) \in Nat
         /\ \A k \in DOMAIN decision : decision[k] \in DecisionRow /\ decision[k].dest \in Dests
         /\ \A i \in DOMAIN ledger : ledger[i] \in PassRow
<1>1. decision \in Seq(DecisionRow) /\ ledger \in Seq(PassRow) /\ Len(decision) <= MaxDecisions
  BY DEF Rows, Typed
<1>2. /\ DOMAIN decision = 1..Len(decision) /\ DOMAIN ledger = 1..Len(ledger)
      /\ Len(decision) \in Nat /\ Len(ledger) \in Nat
  BY <1>1, LenProperties
<1>3. \A k \in DOMAIN decision : decision[k] \in DecisionRow
  BY <1>1, <1>2, ElementOfSeq
<1>4. \A i \in DOMAIN ledger : ledger[i] \in PassRow
  BY <1>1, <1>2, ElementOfSeq
<1>5. \A row \in DecisionRow : row.dest \in Dests
  BY DEF DecisionRow
<1> QED BY <1>1, <1>2, <1>3, <1>4, <1>5, BoundAssumption

\* Destinations, evidence, policies and approvals change, and no decision with them.
LEMMA RowsStep ==
  ASSUME Rows, UNCHANGED <<decision, ledger, receipts>>,
         now' \in 0..MaxTime, dest' \in [Dests -> DestRow], evidence' \in [Dests -> Result],
         policy' \in Policy, Mandated', Versioned',
         \A d \in Dests : dest[d].status \in {"active", "revoked"} =>
                             dest'[d].status \in {"active", "revoked"}
  PROVE  Rows'
<1>1. Typed'
  BY DEF Rows, Typed
<1>2. Issued'
  <2>1. \A k \in DOMAIN decision : decision[k].dest \in Dests
    BY RowTypes
  <2> QED BY <2>1 DEF Rows, Issued, Coherent
<1>3. Booked' /\ Told' /\ FirstUseOnce'
  BY DEF Rows, Booked, Told, FirstUseOnce, SameExecution
<1> QED BY <1>1, <1>2, <1>3 DEF Rows

\* A step that touches no row.
LEMMA RowsSame ==
  ASSUME Rows, UNCHANGED <<now, dest, evidence, policy, mandate, decision, ledger, receipts>>
  PROVE  Rows' /\ now' \in Nat /\ \A v \in Workers : Keeps(v)
<1>1. now \in Nat
  BY TimeAssumption DEF Rows, Typed
<1>2. Rows'
  BY RowsStep DEF Rows, Typed, Versioned, Mandated
<1> QED BY <1>1, <1>2 DEF Keeps

-----------------------------------------------------------------------------
(* What requests read, and where they go while no row changes.             *)

LEMMA SnapshotTyped ==
  ASSUME Rows, NEW d \in Dests
  PROVE  /\ Snapshot(d) \in Request /\ Snapshot(d).dest = d /\ Snapshot(d).at = 0
         /\ Snapshot(d).amount = 0
<1>1. Idle \in Request /\ Idle.at = 0 /\ Idle.amount = 0
  BY BoundAssumption DEF Idle, Request
<1>2. /\ evidence[d].version \in Nat /\ dest[d].statusV \in Nat /\ dest[d].whitelistV \in 0..1
      /\ dest[d].epoch \in 0..1 /\ dest[d].status \in Statuses
  <2>1. evidence[d] \in Result /\ dest[d] \in DestRow
    BY DEF Rows, Typed
  <2> QED BY <2>1, BoundAssumption DEF Result, DestRow
<1> DEFINE x1 == [Idle EXCEPT !.dest = d]
           x2 == [x1 EXCEPT !.evidence = evidence[d].version]
           x3 == [x2 EXCEPT !.statusV = dest[d].statusV]
           x4 == [x3 EXCEPT !.whitelistV = dest[d].whitelistV]
           x5 == [x4 EXCEPT !.epoch = dest[d].epoch]
           x6 == [x5 EXCEPT !.status = dest[d].status]
           Good(x) == x \in Request /\ x.dest = d /\ x.at = 0 /\ x.amount = 0
<1>3. Snapshot(d) = x6
  BY DEF Snapshot
<1> HIDE DEF x6
<1>4. Good(x5) => Good(x6)
  <2> HIDE DEF x5
  <2> QED BY <1>2 DEF Request, x6
<1> HIDE DEF x5
<1>5. Good(x4) => Good(x5)
  <2> HIDE DEF x4
  <2> QED BY <1>2 DEF Request, x5
<1> HIDE DEF x4
<1>6. Good(x3) => Good(x4)
  <2> HIDE DEF x3
  <2> QED BY <1>2 DEF Request, x4
<1> HIDE DEF x3
<1>7. Good(x2) => Good(x3)
  <2> HIDE DEF x2
  <2> QED BY <1>2 DEF Request, x3
<1> HIDE DEF x2
<1>8. Good(x1) => Good(x2)
  <2> HIDE DEF x1
  <2> QED BY <1>2 DEF Request, x2
<1>9. Good(x1)
  BY <1>1 DEF Request
<1> QED BY <1>3, <1>4, <1>5, <1>6, <1>7, <1>8, <1>9

LEMMA AssessStartStep ==
  ASSUME IInv, NEW w \in Workers, NEW d \in Dests, AssessStart(w, d)
  PROVE  IInv'
<1> DEFINE x == Snapshot(d)
<1>1. x \in Request /\ x.dest = d /\ x.at = 0
  BY SnapshotTyped DEF IInv
<1>2. /\ pc' = [pc EXCEPT ![w] = "assessing"] /\ tx' = [tx EXCEPT ![w] = x]
      /\ UNCHANGED <<now, dest, evidence, policy, mandate, decision, ledger, receipts>>
  BY DEF AssessStart, Begin, review, money
<1> HIDE DEF x
<1>3. Rows' /\ now' \in Nat /\ \A v \in Workers : Keeps(v)
  BY <1>2, RowsSame DEF IInv
<1>4. pc'[w] = "assessing" /\ tx'[w] = x
  BY <1>2 DEF IInv, Everyone
<1>5. Fit(w)'
  BY <1>1, <1>3, <1>4 DEF Fit, At
<1> QED BY <1>1, <1>2, <1>3, <1>5, MoveStep DEF IInv, Points

LEMMA EvaluateStep ==
  ASSUME IInv, NEW w \in Workers, NEW d \in Dests, NEW amount \in Amounts, Evaluate(w, d, amount)
  PROVE  IInv'
<1> DEFINE x == [Snapshot(d) EXCEPT !.amount = amount, !.amlUntil = now + AmlValidity]
<1>1. x \in Request /\ x.dest = d /\ x.at = 0 /\ x.amount = amount
  <2>1. now + AmlValidity \in Nat
    BY TimeAssumption DEF IInv, Rows, Typed
  <2>2. Snapshot(d) \in Request /\ Snapshot(d).dest = d /\ Snapshot(d).at = 0
    BY SnapshotTyped DEF IInv
  <2>3. \A y \in Request, n \in Nat :
           LET z == [y EXCEPT !.amount = amount, !.amlUntil = n]
           IN z \in Request /\ z.dest = y.dest /\ z.at = y.at /\ z.amount = amount
    BY DEF Request
  <2> QED BY <2>1, <2>2, <2>3
<1>2. /\ pc' = [pc EXCEPT ![w] = "allowed"] /\ tx' = [tx EXCEPT ![w] = x]
      /\ UNCHANGED <<now, dest, evidence, policy, mandate, decision, ledger, receipts>>
  BY DEF Evaluate, Begin, review, money
<1> HIDE DEF x
<1>3. Rows' /\ now' \in Nat /\ \A v \in Workers : Keeps(v)
  BY <1>2, RowsSame DEF IInv
<1>4. pc'[w] = "allowed" /\ tx'[w] = x
  BY <1>2 DEF IInv, Everyone
<1>5. Fit(w)'
  BY <1>1, <1>3, <1>4 DEF Fit, At
<1> QED BY <1>1, <1>2, <1>3, <1>5, MoveStep DEF IInv, Points

\* The issuing transaction begins: it is stamped.
LEMMA QueueStep ==
  ASSUME IInv, NEW w \in Workers, Queue(w)
  PROVE  IInv'
<1> DEFINE x == [tx[w] EXCEPT !.at = now]
<1>1. tx[w] \in Request /\ now \in Nat /\ tx[w].dest \in Dests /\ tx[w].amount \in Amounts
  BY TimeAssumption DEF IInv, Rows, Typed, Everyone, Fit, Queue, At
<1>2. x \in Request /\ x.dest = tx[w].dest /\ x.at = now /\ x.amount = tx[w].amount
  BY <1>1 DEF Request
<1>3. /\ pc' = [pc EXCEPT ![w] = "queued"] /\ tx' = [tx EXCEPT ![w] = x]
      /\ UNCHANGED <<now, dest, evidence, policy, mandate, decision, ledger, receipts>>
  BY DEF Queue, review, money
<1> HIDE DEF x
<1>4. Rows' /\ now' \in Nat /\ \A v \in Workers : Keeps(v)
  BY <1>3, RowsSame DEF IInv
<1>5. pc'[w] = "queued" /\ tx'[w] = x
  BY <1>3 DEF IInv, Everyone
<1>6. Fit(w)'
  BY <1>1, <1>2, <1>3, <1>4, <1>5 DEF Fit, At
<1> QED BY <1>2, <1>3, <1>4, <1>6, MoveStep DEF IInv, Points

\* A decision is presented.
LEMMA PresentStep ==
  ASSUME IInv, NEW w \in Workers, NEW k \in 1..MaxDecisions, NEW ref \in Refs, Present(w, k, ref)
  PROVE  IInv'
<1> DEFINE x == [Idle EXCEPT !.decision = k, !.ref = ref, !.dest = decision[k].dest, !.at = now]
<1>1. k \in DOMAIN decision /\ decision[k].dest \in Dests /\ now \in Nat
  BY RowTypes, TimeAssumption DEF IInv, Present, Rows, Typed
<1>2. x \in Request /\ x.dest = decision[k].dest /\ x.at = now /\ x.decision = k /\ x.ref = ref
  <2>1. Idle \in Request
    BY BoundAssumption DEF Idle, Request
  <2> DEFINE x1 == [Idle EXCEPT !.decision = k]
             x2 == [x1 EXCEPT !.ref = ref]
             x3 == [x2 EXCEPT !.dest = decision[k].dest]
             x4 == [x3 EXCEPT !.at = now]
  <2>2. x = x4
    OBVIOUS
  <2> HIDE DEF x, x4
  <2>3. x3 \in Request /\ x3.dest = decision[k].dest /\ x3.decision = k /\ x3.ref = ref =>
          x4 \in Request /\ x4.dest = decision[k].dest /\ x4.at = now /\ x4.decision = k
          /\ x4.ref = ref
    <3> HIDE DEF x3
    <3> QED BY <1>1 DEF Request, x4
  <2> HIDE DEF x3
  <2>4. x2 \in Request /\ x2.decision = k /\ x2.ref = ref =>
          x3 \in Request /\ x3.dest = decision[k].dest /\ x3.decision = k /\ x3.ref = ref
    <3> HIDE DEF x2
    <3> QED BY <1>1 DEF Request, x3
  <2> HIDE DEF x2
  <2>5. x1 \in Request /\ x1.decision = k => x2 \in Request /\ x2.decision = k /\ x2.ref = ref
    <3> HIDE DEF x1
    <3> QED BY DEF Request, x2
  <2>6. x1 \in Request /\ x1.decision = k
    BY <2>1, BoundAssumption DEF Request
  <2> QED BY <2>2, <2>3, <2>4, <2>5, <2>6
<1>3. /\ pc' = [pc EXCEPT ![w] = "presented"] /\ tx' = [tx EXCEPT ![w] = x]
      /\ UNCHANGED <<now, dest, evidence, policy, mandate, decision, ledger, receipts>>
  BY DEF Present, Begin, review, money
<1> HIDE DEF x
<1>4. Rows' /\ now' \in Nat /\ \A v \in Workers : Keeps(v)
  BY <1>3, RowsSame DEF IInv
<1>5. pc'[w] = "presented" /\ tx'[w] = x
  BY <1>3 DEF IInv, Everyone
<1>6. Fit(w)'
  BY <1>1, <1>2, <1>3, <1>4, <1>5 DEF Fit, At
<1> QED BY <1>2, <1>3, <1>4, <1>6, MoveStep DEF IInv, Points

\* The checks of a consumption passed: it holds its locks.
LEMMA AdmitStep ==
  ASSUME IInv, NEW w \in Workers, Admit(w)
  PROVE  IInv'
<1> DEFINE d == tx[w].dest
           k == tx[w].decision
           first == FirstUse(d, dest[d].whitelistV)
           x == [tx[w] EXCEPT !.whitelistV = dest[d].whitelistV, !.firstUse = first]
<1>1. /\ tx[w] \in Request /\ now \in Nat /\ d \in Dests /\ k \in DOMAIN decision
      /\ tx[w].at <= now /\ tx[w].ref \in Refs /\ decision[k].dest = d
  BY TimeAssumption DEF IInv, Rows, Typed, Everyone, Fit, Admit, Locks, At
<1>2. first \in BOOLEAN
  BY DEF FirstUse
<1>3. dest[d] \in DestRow /\ dest[d].whitelistV \in 0..1
  BY <1>1 DEF IInv, Rows, Typed, DestRow
<1>4. /\ decision[k].status = "issued" /\ dest[d].status = "active"
      /\ dest[d].epoch = decision[k].epoch
      /\ policy.client = decision[k].client /\ policy.own[d] = decision[k].own
  BY <1>1 DEF Admit, Admissible, Valid, PolicyUnchanged, IInv, Rows, Issued
<1>5. Consuming = {}
  BY DEF Admit, Locks, ClientFree
<1>6. /\ pc' = [pc EXCEPT ![w] = "consuming"]
      /\ tx' = [tx EXCEPT ![w].whitelistV = dest[d].whitelistV, ![w].firstUse = first]
      /\ UNCHANGED <<now, dest, evidence, policy, mandate, decision, ledger, receipts>>
  BY DEF Admit, review, money
<1>7. tx' = [tx EXCEPT ![w] = x]
  BY <1>6 DEF IInv, Everyone
<1>8. /\ x \in Request /\ x.dest = d /\ x.at = tx[w].at /\ x.decision = k /\ x.ref = tx[w].ref
      /\ x.whitelistV = dest[d].whitelistV /\ x.firstUse = first
  <2> HIDE DEF first, d, k
  <2>1. \A n \in 0..1, b \in BOOLEAN :
           LET z == [tx[w] EXCEPT !.whitelistV = n, !.firstUse = b]
           IN /\ z \in Request /\ z.dest = tx[w].dest /\ z.at = tx[w].at
              /\ z.decision = tx[w].decision /\ z.ref = tx[w].ref
              /\ z.whitelistV = n /\ z.firstUse = b
    BY <1>1 DEF Request
  <2> QED BY <1>2, <1>3, <2>1 DEF d, k
<1> HIDE DEF x
<1>9. Rows' /\ now' \in Nat /\ \A v \in Workers : Keeps(v)
  BY <1>6, RowsSame DEF IInv
<1>10. pc'[w] = "consuming" /\ tx'[w] = x
  BY <1>6, <1>7 DEF IInv, Everyone
<1>11. Held(w)'
  <2>1. FirstUse(d, dest[d].whitelistV)' <=> first
    BY <1>6, <1>8, <1>10 DEF FirstUse
  <2>2. tx'[w].firstUse <=> first
    BY <1>2, <1>8, <1>10
  <2>3. FirstUse(tx[w].dest, tx[w].whitelistV)' <=> first
    BY <1>6, <1>8, <1>10 DEF FirstUse
  <2> HIDE DEF first, d, k
  <2> QED BY <1>4, <1>6, <1>8, <1>10, <2>2, <2>3 DEF Held
<1>12. Fit(w)'
  BY <1>1, <1>6, <1>8, <1>10, <1>11 DEF Fit, At
<1> QED BY <1>5, <1>6, <1>7, <1>8, <1>9, <1>12, MoveStep DEF IInv, Points

\* A request that ends without writing.
LEMMA LeaveStep ==
  ASSUME IInv, NEW w \in Workers, AssessFail(w) \/ Refuse(w) \/ Deny(w) \/ Abort(w)
  PROVE  IInv'
<1>1. End(w) /\ UNCHANGED <<now, dest, evidence, policy, mandate, decision, ledger, receipts>>
  BY DEF AssessFail, Refuse, Deny, Abort, review, money
<1>2. Rows' /\ now' \in Nat /\ \A v \in Workers : Keeps(v)
  BY <1>1, RowsSame DEF IInv
<1> QED BY <1>1, <1>2, EndStep DEF IInv

-----------------------------------------------------------------------------
(* Steps of a destination, its evidence and its approval.                  *)

LEMMA RowMoves ==
  ASSUME NEW row \in DestRow
  PROVE  /\ \A s \in Statuses :
              LET x == [row EXCEPT !.status = s, !.statusV = @ + 1] IN
              x \in DestRow /\ x.status = s /\ x.epoch = row.epoch /\ x.whitelistV = row.whitelistV
         /\ \A s \in Statuses, n \in Nat :
              LET x == [row EXCEPT !.status = s, !.statusV = @ + 1, !.coolUntil = n] IN
              x \in DestRow /\ x.status = s /\ x.epoch = row.epoch /\ x.whitelistV = row.whitelistV
         /\ row.epoch = 0 =>
              LET x == [row EXCEPT !.status = "revoked", !.epoch = @ + 1, !.statusV = @ + 1] IN
              x \in DestRow /\ x.status = "revoked" /\ x.epoch = 1
         /\ row.whitelistV = 0 =>
              LET x == [row EXCEPT !.status = "active", !.statusV = @ + 1, !.whitelistV = @ + 1] IN
              x \in DestRow /\ x.status = "active" /\ x.epoch = row.epoch /\ x.whitelistV = 1
<1>1. row.statusV + 1 \in Nat
  BY DEF DestRow
<1>2. ASSUME NEW s \in Statuses
      PROVE  LET x == [row EXCEPT !.status = s, !.statusV = @ + 1] IN
             x \in DestRow /\ x.status = s /\ x.epoch = row.epoch /\ x.whitelistV = row.whitelistV
  BY <1>1 DEF DestRow
<1>3. ASSUME NEW s \in Statuses, NEW n \in Nat
      PROVE  LET x == [row EXCEPT !.status = s, !.statusV = @ + 1, !.coolUntil = n] IN
             x \in DestRow /\ x.status = s /\ x.epoch = row.epoch /\ x.whitelistV = row.whitelistV
  BY <1>1 DEF DestRow
<1>4. ASSUME row.epoch = 0
      PROVE  LET x == [row EXCEPT !.status = "revoked", !.epoch = @ + 1, !.statusV = @ + 1] IN
             x \in DestRow /\ x.status = "revoked" /\ x.epoch = 1
  <2> DEFINE e == row.epoch + 1
             n == row.statusV + 1
  <2>1. e = 1 /\ e \in 0..1 /\ n \in Nat /\ "revoked" \in Statuses
    BY <1>1, <1>4 DEF Statuses
  <2> HIDE DEF e, n
  <2>2. LET x == [row EXCEPT !.status = "revoked", !.epoch = e, !.statusV = n] IN
        x \in DestRow /\ x.status = "revoked" /\ x.epoch = 1
    BY <2>1 DEF DestRow
  <2> QED BY <2>2 DEF e, n
<1>5. ASSUME row.whitelistV = 0
      PROVE  LET x == [row EXCEPT !.status = "active", !.statusV = @ + 1, !.whitelistV = @ + 1] IN
             x \in DestRow /\ x.status = "active" /\ x.epoch = row.epoch /\ x.whitelistV = 1
  <2> DEFINE wv == row.whitelistV + 1
             n == row.statusV + 1
  <2>1. wv = 1 /\ wv \in 0..1 /\ n \in Nat /\ "active" \in Statuses
    BY <1>1, <1>5 DEF Statuses
  <2> HIDE DEF wv, n
  <2>2. LET x == [row EXCEPT !.status = "active", !.statusV = n, !.whitelistV = wv] IN
        x \in DestRow /\ x.status = "active" /\ x.epoch = row.epoch /\ x.whitelistV = 1
    BY <2>1 DEF DestRow
  <2> QED BY <2>2 DEF wv, n
<1> QED BY <1>2, <1>3, <1>4, <1>5

\* One destination's row changes.
LEMMA DestStep ==
  ASSUME Rows, NEW d \in Dests, NEW row \in DestRow, dest' = [dest EXCEPT ![d] = row],
         row.status = "revoked" <=> row.epoch = 1,
         row.status \notin {"active", "revoked"} => row.whitelistV = 0,
         dest[d].status \in {"active", "revoked"} => row.status \in {"active", "revoked"}
  PROVE  /\ dest' \in [Dests -> DestRow] /\ Versioned' /\ dest'[d] = row
         /\ \A e \in Dests : e # d => dest'[e] = dest[e]
         /\ \A e \in Dests : dest[e].status \in {"active", "revoked"} =>
                                dest'[e].status \in {"active", "revoked"}
<1>1. /\ dest' \in [Dests -> DestRow] /\ dest'[d] = row
      /\ \A e \in Dests : e # d => dest'[e] = dest[e]
  BY DEF Rows, Typed
<1> QED BY <1>1 DEF Rows, Versioned

LEMMA AppendedTyped ==
  ASSUME Rows, NEW d \in Dests, NEW risk \in {"clear", "high_risk", "hit"},
         evidence[d].version < MaxEvidence
  PROVE  Appended(d, risk) \in [Dests -> Result]
<1>1. evidence[d] \in Result /\ now + Validity \in Nat
  BY TimeAssumption DEF Rows, Typed
<1>2. evidence[d].version + 1 \in 0..MaxEvidence
  BY <1>1, BoundAssumption DEF Result
<1> QED BY <1>1, <1>2 DEF Appended, Result, Rows, Typed

\* A consumption relies on active destinations, and on those it has locked.
LEMMA ConsumingKeeps ==
  ASSUME IInv, NEW d \in Dests, \A e \in Dests : e # d => dest'[e] = dest[e],
         dest[d].status # "active" \/ DestFree(d) \/ dest' = dest,
         UNCHANGED <<decision, policy, ledger>>, now <= now',
         \A a \in Approvals : mandate[a].spent => mandate'[a] = mandate[a],
         NEW v \in Workers
  PROVE  Keeps(v)
<1>1. CASE ~At(v, "consuming")
  BY <1>1 DEF Keeps
<1>2. CASE At(v, "consuming")
  <2>1. tx[v].dest \in Dests /\ dest[tx[v].dest].status = "active" /\ v \in Consuming
    BY <1>2 DEF IInv, Everyone, Fit, Held, At, Consuming
  <2>2. dest'[tx[v].dest] = dest[tx[v].dest]
    BY <2>1 DEF DestFree
  <2> QED BY <2>2 DEF Keeps
<1> QED BY <1>1, <1>2

LEMMA AssessApplyStep ==
  ASSUME IInv, NEW w \in Workers, NEW risk \in {"clear", "hit"}, AssessApply(w, risk)
  PROVE  IInv'
<1> DEFINE d == tx[w].dest
           row == [dest[d] EXCEPT !.status = "pending_review", !.statusV = @ + 1]
<1>1. d \in Dests /\ dest[d] \in DestRow /\ now \in Nat
  BY TimeAssumption DEF IInv, Everyone, Fit, Rows, Typed, AssessApply, At
<1>2. End(w) /\ UNCHANGED <<now, mandate, policy, decision, ledger, receipts>>
  BY DEF AssessApply, money
<1>3. evidence' \in [Dests -> Result]
  BY <1>1, AppendedTyped DEF AssessApply, IInv
<1>4. \/ dest[d].status = "draft" /\ dest' = [dest EXCEPT ![d] = row]
      \/ dest' = dest
  <2>1. CASE Promotes(d, tx[w].status)
    BY <2>1, <1>1 DEF AssessApply, Promotes, IInv, Rows, Typed
  <2>2. CASE ~Promotes(d, tx[w].status)
    BY <2>2 DEF AssessApply
  <2> QED BY <2>1, <2>2
<1>5. /\ dest' \in [Dests -> DestRow] /\ Versioned'
      /\ \A e \in Dests : e # d => dest'[e] = dest[e]
      /\ \A e \in Dests : dest[e].status \in {"active", "revoked"} =>
                             dest'[e].status \in {"active", "revoked"}
  <2>1. CASE dest' = dest
    BY <2>1 DEF IInv, Rows, Typed, Versioned
  <2>2. CASE dest[d].status = "draft" /\ dest' = [dest EXCEPT ![d] = row]
    <3>1. row \in DestRow /\ row.status = "pending_review" /\ row.epoch = dest[d].epoch
          /\ row.whitelistV = dest[d].whitelistV
      BY <1>1, RowMoves DEF Statuses
    <3> HIDE DEF row
    <3>2. dest[d].epoch # 1 /\ dest[d].whitelistV = 0
      BY <1>1, <2>2 DEF IInv, Rows, Versioned
    <3> QED BY <1>1, <2>2, <3>1, <3>2, DestStep DEF IInv
  <2> QED BY <1>4, <2>1, <2>2
<1>6. Rows'
  BY <1>2, <1>3, <1>5, RowsStep DEF IInv, Rows, Typed, Mandated
<1>7. \A v \in Workers : Keeps(v)
  <2> HIDE DEF d
  <2> QED BY <1>1, <1>2, <1>4, <1>5, ConsumingKeeps
<1> QED BY <1>1, <1>2, <1>6, <1>7, EndStep DEF IInv

\* A destination is revoked: by an operator, an AML signal or a rescreening hit.
LEMMA RevokedRow ==
  ASSUME Rows, NEW d \in Dests, dest[d].status # "revoked", dest' = Revoked(d)
  PROVE  /\ dest' \in [Dests -> DestRow] /\ Versioned'
         /\ \A e \in Dests : e # d => dest'[e] = dest[e]
         /\ \A e \in Dests : dest[e].status \in {"active", "revoked"} =>
                                dest'[e].status \in {"active", "revoked"}
<1> DEFINE row == [dest[d] EXCEPT !.status = "revoked", !.epoch = @ + 1, !.statusV = @ + 1]
<1>1. dest[d] \in DestRow /\ dest[d].epoch = 0
  BY DEF Rows, Typed, Versioned, DestRow
<1>2. row \in DestRow /\ row.status = "revoked" /\ row.epoch = 1
  BY <1>1, RowMoves
<1>3. dest' = [dest EXCEPT ![d] = row]
  BY DEF Revoked, Rows, Typed
<1> HIDE DEF row
<1> QED BY <1>2, <1>3, DestStep

LEMMA RescreenStep ==
  ASSUME IInv, NEW d \in Dests, NEW risk \in {"clear", "high_risk", "hit"}, Rescreen(d, risk)
  PROVE  IInv'
<1>1. UNCHANGED <<now, mandate, pc, tx, policy, decision, ledger, receipts>> /\ now \in Nat
  BY TimeAssumption DEF Rescreen, money, IInv, Rows, Typed
<1>2. evidence' \in [Dests -> Result]
  BY AppendedTyped DEF Rescreen, IInv
<1>3. /\ dest' \in [Dests -> DestRow] /\ Versioned'
      /\ \A e \in Dests : e # d => dest'[e] = dest[e]
      /\ \A e \in Dests : dest[e].status \in {"active", "revoked"} =>
                             dest'[e].status \in {"active", "revoked"}
  <2>1. CASE dest' = dest
    BY <2>1 DEF IInv, Rows, Typed, Versioned
  <2>2. CASE dest' = Revoked(d)
    BY <2>2, RevokedRow DEF IInv, Rescreen
  <2> QED BY <2>1, <2>2 DEF Rescreen
<1>4. Rows'
  BY <1>1, <1>2, <1>3, RowsStep DEF IInv, Rows, Typed, Mandated
<1>5. \A v \in Workers : Keeps(v)
  BY <1>1, <1>3, ConsumingKeeps DEF Rescreen
<1> QED BY <1>1, <1>4, <1>5, StillStep DEF IInv

LEMMA RevokeStep ==
  ASSUME IInv, NEW d \in Dests, Revoke(d)
  PROVE  IInv'
<1>1. /\ UNCHANGED <<now, evidence, mandate, pc, tx, policy, decision, ledger, receipts>>
      /\ now \in Nat
  BY TimeAssumption DEF Revoke, money, review, IInv, Rows, Typed
<1>2. /\ dest' \in [Dests -> DestRow] /\ Versioned'
      /\ \A e \in Dests : e # d => dest'[e] = dest[e]
      /\ \A e \in Dests : dest[e].status \in {"active", "revoked"} =>
                             dest'[e].status \in {"active", "revoked"}
  BY RevokedRow DEF IInv, Revoke
<1>3. Rows'
  BY <1>1, <1>2, RowsStep DEF IInv, Rows, Typed, Mandated
<1>4. \A v \in Workers : Keeps(v)
  BY <1>1, <1>2, ConsumingKeeps DEF Revoke
<1> QED BY <1>1, <1>3, <1>4, StillStep DEF IInv

LEMMA MandateStep ==
  ASSUME IInv, NEW a \in Approvals, NEW d \in Dests, Mandate(a, d)
  PROVE  IInv'
<1> DEFINE bound == [dest |-> d, evidence |-> evidence[d].version, whitelistV |-> dest[d].whitelistV,
                     spent |-> FALSE]
<1>1. /\ UNCHANGED <<now, dest, evidence, pc, tx, policy, decision, ledger, receipts>>
      /\ mandate' = [mandate EXCEPT ![a] = bound] /\ mandate[a] = NoMandate /\ now \in Nat
  BY TimeAssumption DEF Mandate, money, IInv, Rows, Typed
<1>2. bound \in MandateRow /\ bound.dest = d
  <2>1. evidence[d] \in Result /\ dest[d] \in DestRow
    BY DEF IInv, Rows, Typed
  <2> QED BY <2>1, BoundAssumption DEF Result, DestRow, MandateRow
<1> HIDE DEF bound
<1>3. Mandated'
  BY <1>1, <1>2 DEF IInv, Rows, Typed, Mandated
<1>4. Rows'
  BY <1>1, <1>3, RowsStep DEF IInv, Rows, Typed, Versioned
<1>5. ~NoMandate.spent
  BY DEF NoMandate
<1>6. \A b \in Approvals : mandate[b].spent => mandate'[b] = mandate[b]
  BY <1>1, <1>5
<1>7. \A v \in Workers : Keeps(v)
  BY <1>1, <1>6 DEF Keeps
<1> QED BY <1>1, <1>4, <1>7, StillStep DEF IInv

\* Verifying the approval's token spends it.
LEMMA VerifyMandateStep ==
  ASSUME IInv, NEW w \in Workers, NEW a \in Approvals, VerifyMandate(w, a)
  PROVE  IInv'
<1> DEFINE d == mandate[a].dest
           x == Snapshot(d)
           bound == [mandate[a] EXCEPT !.spent = TRUE]
<1>1. d \in Dests /\ mandate[a] \in MandateRow /\ now \in Nat
  BY TimeAssumption DEF VerifyMandate, IInv, Rows, Typed, Mandated
<1>2. x \in Request /\ x.dest = d /\ x.at = 0
  BY <1>1, SnapshotTyped DEF IInv
<1>3. /\ UNCHANGED <<now, dest, evidence, policy, decision, ledger, receipts>>
      /\ ~mandate[a].spent /\ mandate' = [mandate EXCEPT ![a].spent = TRUE]
      /\ pc' = [pc EXCEPT ![w] = "approved"] /\ tx' = [tx EXCEPT ![w] = x]
  BY DEF VerifyMandate, Begin, money
<1>4. bound \in MandateRow /\ bound.dest = d /\ bound.spent
  BY <1>1 DEF MandateRow
<1>5. mandate' = [mandate EXCEPT ![a] = bound] /\ mandate'[a] = bound
  BY <1>3 DEF IInv, Rows, Typed, Mandated
<1> HIDE DEF bound, x
<1>6. Mandated'
  BY <1>1, <1>4, <1>5 DEF IInv, Rows, Typed, Mandated
<1>7. Rows'
  BY <1>3, <1>6, RowsStep DEF IInv, Rows, Typed, Versioned
<1>8. \A b \in Approvals : mandate[b].spent => mandate'[b] = mandate[b]
  BY <1>3, <1>5
<1>9. \A v \in Workers : Keeps(v)
  BY <1>1, <1>3, <1>8 DEF Keeps
<1>10. pc'[w] = "approved" /\ tx'[w] = x
  BY <1>3 DEF IInv, Everyone
<1>11. Fit(w)'
  BY <1>1, <1>2, <1>3, <1>4, <1>5, <1>10 DEF Fit, At
<1> QED BY <1>1, <1>2, <1>3, <1>7, <1>9, <1>11, MoveStep DEF IInv, Points

LEMMA ApplyApprovalStep ==
  ASSUME IInv, NEW w \in Workers, ApplyApproval(w)
  PROVE  IInv'
<1> DEFINE d == tx[w].dest
           row == [dest[d] EXCEPT !.status = "approved_pending_cooling", !.statusV = @ + 1,
                                  !.coolUntil = now + Cooling]
<1>1. d \in Dests /\ dest[d] \in DestRow /\ now \in Nat /\ now + Cooling \in Nat
  BY TimeAssumption DEF IInv, Everyone, Fit, Rows, Typed, ApplyApproval, At
<1>2. End(w) /\ UNCHANGED <<now, evidence, mandate, policy, decision, ledger, receipts>>
  BY DEF ApplyApproval, money, review
<1>3. \/ dest[d].status = "pending_review" /\ dest' = [dest EXCEPT ![d] = row]
      \/ dest' = dest
  <2>1. CASE ApprovalGates(d, now) /\ Unmoved(d, tx[w])
    BY <2>1, <1>1 DEF ApplyApproval, ApprovalGates, IInv, Rows, Typed
  <2>2. CASE ~(ApprovalGates(d, now) /\ Unmoved(d, tx[w]))
    BY <2>2 DEF ApplyApproval
  <2> QED BY <2>1, <2>2
<1>4. /\ dest' \in [Dests -> DestRow] /\ Versioned'
      /\ \A e \in Dests : e # d => dest'[e] = dest[e]
      /\ \A e \in Dests : dest[e].status \in {"active", "revoked"} =>
                             dest'[e].status \in {"active", "revoked"}
  <2>1. CASE dest' = dest
    BY <2>1 DEF IInv, Rows, Typed, Versioned
  <2>2. CASE dest[d].status = "pending_review" /\ dest' = [dest EXCEPT ![d] = row]
    <3>1. row \in DestRow /\ row.status = "approved_pending_cooling" /\ row.epoch = dest[d].epoch
          /\ row.whitelistV = dest[d].whitelistV
      <4>1. "approved_pending_cooling" \in Statuses
        BY DEF Statuses
      <4>2. \A n \in Nat :
               LET x == [dest[d] EXCEPT !.status = "approved_pending_cooling", !.statusV = @ + 1,
                                        !.coolUntil = n]
               IN x \in DestRow /\ x.status = "approved_pending_cooling"
                  /\ x.epoch = dest[d].epoch /\ x.whitelistV = dest[d].whitelistV
        <5> HIDE DEF d
        <5> QED BY <4>1, <1>1, RowMoves
      <4> QED BY <1>1, <4>2
    <3> HIDE DEF row
    <3>2. dest[d].epoch # 1 /\ dest[d].whitelistV = 0
      BY <1>1, <2>2 DEF IInv, Rows, Versioned
    <3> QED BY <1>1, <2>2, <3>1, <3>2, DestStep DEF IInv
  <2> QED BY <1>3, <2>1, <2>2
<1>5. Rows'
  BY <1>2, <1>4, RowsStep DEF IInv, Rows, Typed, Mandated
<1>6. \A v \in Workers : Keeps(v)
  <2> HIDE DEF d
  <2> QED BY <1>1, <1>2, <1>3, <1>4, ConsumingKeeps
<1> QED BY <1>1, <1>2, <1>5, <1>6, EndStep DEF IInv

\* The data owner changes a limit profile while nobody holds the client's lock; time passes.
LEMMA SurroundingsStep ==
  ASSUME IInv, \/ \E v \in {0} \cup DOMAIN ClientLimits : SetClientPolicy(v)
               \/ \E d \in Dests, v \in {0} \cup DOMAIN DestLimits : SetDestPolicy(d, v)
               \/ Tick
  PROVE  IInv'
<1>1. /\ UNCHANGED <<dest, evidence, mandate, decision, ledger, receipts, pc, tx>>
      /\ now' \in 0..MaxTime /\ now' \in Nat /\ now <= now'
      /\ policy' = policy \/ Consuming = {}
  BY TimeAssumption
     DEF SetClientPolicy, SetDestPolicy, Tick, ClientFree, money, review, IInv, Rows, Typed
<1>2. policy' \in Policy
  BY DEF SetClientPolicy, SetDestPolicy, Tick, money, IInv, Rows, Typed, Policy
<1>3. Rows'
  BY <1>1, <1>2, RowsStep DEF IInv, Rows, Typed, Mandated, Versioned
<1>4. \A v \in Workers : Keeps(v)
  BY <1>1 DEF Keeps, Consuming, At
<1> QED BY <1>1, <1>3, <1>4, StillStep DEF IInv

-----------------------------------------------------------------------------
(* A decision is issued, replayed and spent.                               *)

LEMMA ExpiryTyped ==
  ASSUME IInv, NEW w \in Workers, tx[w].dest \in Dests
  PROVE  Expiry(w) \in Nat
<1> DEFINE a == tx[w].at + Ttl
           b == tx[w].amlUntil
           c == evidence[tx[w].dest].until
<1>1. a \in Nat /\ b \in Nat /\ c \in Nat
  <2>1. tx[w] \in Request /\ evidence[tx[w].dest] \in Result
    BY DEF IInv, Rows, Typed, Everyone
  <2> QED BY <2>1, TimeAssumption DEF Request, Result
<1>2. Expiry(w) = Min({a, b, c})
  BY DEF Expiry
<1> HIDE DEF a, b, c
<1>3. \E x \in {a, b, c} : \A y \in {a, b, c} : x <= y
  BY <1>1
<1> QED BY <1>1, <1>2, <1>3 DEF Min

LEMMA IssueStep ==
  ASSUME IInv, NEW w \in Workers, Issue(w)
  PROVE  IInv'
<1> DEFINE d == tx[w].dest
           row == Promoted(d)
           new == [status |-> "issued", dest |-> d, amount |-> tx[w].amount,
                   epoch |-> dest[d].epoch, client |-> policy.client,
                   own |-> policy.own[d], expires |-> Expiry(w), ref |-> None]
<1>1. /\ d \in Dests /\ dest[d] \in DestRow /\ now \in Nat /\ tx[w].amount \in Amounts
      /\ Consuming = {} /\ Len(decision) < MaxDecisions
      /\ dest[d].status \in {"active", "approved_pending_cooling"}
      /\ dest' = [dest EXCEPT ![d] = row]
      /\ decision' = Append(decision, new) \/ decision' = decision
      /\ UNCHANGED <<now, evidence, mandate, policy, ledger, receipts>>
      /\ End(w)
  BY TimeAssumption DEF IInv, Everyone, Fit, Rows, Typed, Issue, PreCheck, At, ClientFree, EvaluationStands,
                        UsableGates, review
<1>2. row \in DestRow /\ row.status = "active" /\ row.epoch = dest[d].epoch
  <2>1. CASE dest[d].status = "active"
    BY <1>1, <2>1 DEF Promoted
  <2>2. CASE dest[d].status # "active"
    <3>1. dest[d].whitelistV = 0
      BY <1>1, <2>2 DEF IInv, Rows, Versioned
    <3>2. row = [dest[d] EXCEPT !.status = "active", !.statusV = @ + 1, !.whitelistV = @ + 1]
      BY <2>2 DEF Promoted
    <3>3. LET x == [dest[d] EXCEPT !.status = "active", !.statusV = @ + 1, !.whitelistV = @ + 1]
          IN x \in DestRow /\ x.status = "active" /\ x.epoch = dest[d].epoch
      <4> HIDE DEF d
      <4> QED BY <1>1, <3>1, RowMoves
    <3> QED BY <3>2, <3>3
  <2> QED BY <2>1, <2>2
<1>3. dest[d].epoch # 1
  BY <1>1 DEF IInv, Rows, Versioned
<1> HIDE DEF row
<1>4. /\ dest' \in [Dests -> DestRow] /\ Versioned' /\ dest'[d] = row
      /\ \A e \in Dests : e # d => dest'[e] = dest[e]
      /\ \A e \in Dests : dest[e].status \in {"active", "revoked"} =>
                             dest'[e].status \in {"active", "revoked"}
  BY <1>1, <1>2, <1>3, DestStep DEF IInv
<1>5. new \in DecisionRow /\ new.dest = d /\ Coherent(new)
  <2>1. Expiry(w) \in Nat
    BY <1>1, ExpiryTyped
  <2>2. policy.client \in {0} \cup DOMAIN ClientLimits /\ policy.own[d] \in {0} \cup DOMAIN DestLimits
    BY <1>1 DEF IInv, Rows, Typed, Policy
  <2>3. dest[d].epoch \in 0..1
    BY <1>1 DEF DestRow
  <2> QED BY <1>1, <2>1, <2>2, <2>3, NoneAssumption DEF DecisionRow, Coherent
<1> HIDE DEF new
<1>6. /\ decision' \in Seq(DecisionRow) /\ Len(decision') <= MaxDecisions
      /\ \A k \in DOMAIN decision : k \in DOMAIN decision' /\ decision'[k] = decision[k]
      /\ \A k \in DOMAIN decision' : k \notin DOMAIN decision => decision'[k] = new
  <2>1. CASE decision' = decision
    BY <2>1 DEF IInv, Rows, Typed
  <2>2. CASE decision' = Append(decision, new)
    <3>1. decision \in Seq(DecisionRow) /\ DOMAIN decision = 1..Len(decision)
          /\ Len(decision) \in Nat
      BY RowTypes DEF IInv, Rows, Typed
    <3>2. /\ decision' \in Seq(DecisionRow) /\ Len(decision') = Len(decision) + 1
          /\ decision'[Len(decision) + 1] = new
          /\ \A k \in 1..Len(decision) : decision'[k] = decision[k]
      BY <1>5, <2>2, <3>1, AppendProperties
    <3>3. DOMAIN decision' = 1..(Len(decision) + 1)
      BY <3>2, LenProperties
    <3>4. Len(decision) + 1 <= MaxDecisions
      BY <1>1, <3>1, BoundAssumption
    <3> QED BY <3>1, <3>2, <3>3, <3>4
  <2> QED BY <1>1, <2>1, <2>2
<1>7. Rows'
  <2>1. Typed'
    BY <1>1, <1>4, <1>6 DEF IInv, Rows, Typed, Mandated
  <2>2. Issued'
    <3>1. ASSUME NEW k \in DOMAIN decision', k \in DOMAIN decision
          PROVE  Coherent(decision'[k]) /\ dest'[decision'[k].dest].status \in {"active", "revoked"}
      <4>1. decision'[k] = decision[k] /\ decision[k].dest \in Dests
        BY <3>1, <1>6, RowTypes DEF IInv
      <4> QED BY <3>1, <4>1, <1>4 DEF IInv, Rows, Issued
    <3>2. ASSUME NEW k \in DOMAIN decision', k \notin DOMAIN decision
          PROVE  Coherent(decision'[k]) /\ dest'[decision'[k].dest].status \in {"active", "revoked"}
      BY <3>2, <1>2, <1>4, <1>5, <1>6
    <3> QED BY <3>1, <3>2 DEF Issued, Coherent
  <2>3. Booked'
    BY <1>1, <1>6 DEF IInv, Rows, Booked
  <2>4. Told'
    BY <1>1, <1>6 DEF IInv, Rows, Told, SameExecution
  <2>5. FirstUseOnce'
    BY <1>1 DEF IInv, Rows, FirstUseOnce
  <2> QED BY <1>4, <2>1, <2>2, <2>3, <2>4, <2>5 DEF Rows
<1>8. \A v \in Workers : Keeps(v)
  BY <1>1, <1>6 DEF Keeps, Consuming, At
<1> QED BY <1>1, <1>7, <1>8, EndStep DEF IInv

\* The execution that spent a decision is told so again.
LEMMA ReplayStep ==
  ASSUME IInv, NEW w \in Workers, Replay(w)
  PROVE  IInv'
<1> DEFINE r == [decision |-> tx[w].decision, ref |-> tx[w].ref, replay |-> TRUE]
<1>1. /\ UNCHANGED <<now, dest, evidence, mandate, policy, decision, ledger>>
      /\ End(w) /\ receipts' = receipts \cup {r} /\ now \in Nat
      /\ SameExecution(tx[w].decision, tx[w].ref)
      /\ tx[w].decision \in DOMAIN decision /\ tx[w].ref \in Refs
  BY TimeAssumption DEF Replay, Locks, review, IInv, Rows, Typed, Everyone, Fit, At
<1>2. r \in Receipt
  BY <1>1, RowTypes, BoundAssumption DEF Receipt, IInv
<1>3. Rows'
  <2>1. Typed'
    BY <1>1, <1>2 DEF IInv, Rows, Typed, Mandated
  <2>2. Told'
    BY <1>1 DEF IInv, Rows, Told, SameExecution
  <2>3. Versioned' /\ Issued' /\ Booked' /\ FirstUseOnce'
    BY <1>1 DEF IInv, Rows, Versioned, Issued, Booked, FirstUseOnce, Coherent
  <2> QED BY <2>1, <2>2, <2>3 DEF Rows
<1>4. \A v \in Workers : Keeps(v)
  BY <1>1 DEF Keeps
<1> QED BY <1>1, <1>3, <1>4, EndStep DEF IInv

\* The decision is spent, its pass row written and the success reported.
LEMMA ConsumeStep ==
  ASSUME IInv, NEW w \in Workers, Consume(w)
  PROVE  IInv'
<1> DEFINE k == tx[w].decision
           d == tx[w].dest
           ref == tx[w].ref
           spent == [decision[k] EXCEPT !.status = "consumed", !.ref = ref]
           pass == [decision |-> k, dest |-> d, whitelistV |-> tx[w].whitelistV,
                    amount |-> decision[k].amount, firstUse |-> tx[w].firstUse, at |-> tx[w].at]
           told == [decision |-> k, ref |-> ref, replay |-> FALSE]
<1>1. /\ tx[w] \in Request /\ now \in Nat /\ d \in Dests /\ k \in DOMAIN decision /\ ref \in Refs
      /\ decision[k].dest = d /\ decision[k].status = "issued" /\ Held(w)
      /\ \A v \in Workers : v # w => ~At(v, "consuming")
  BY TimeAssumption DEF IInv, Rows, Typed, Everyone, Fit, Consume, PassOf, At, Consuming
<1>2. /\ decision[k] \in DecisionRow /\ k \in 1..MaxDecisions
      /\ DOMAIN decision = 1..Len(decision) /\ DOMAIN ledger = 1..Len(ledger)
      /\ Len(decision) \in Nat /\ Len(ledger) \in Nat
  BY <1>1, RowTypes, BoundAssumption DEF IInv
<1>3. /\ UNCHANGED <<now, dest, evidence, mandate, policy>> /\ End(w)
      /\ decision' = [decision EXCEPT ![k].status = "consumed", ![k].ref = ref]
      /\ ledger' = Append(ledger, pass) /\ receipts' = receipts \cup {told}
  BY DEF Consume, PassOf, review
<1>4. /\ spent \in DecisionRow /\ spent.dest = d /\ spent.status = "consumed" /\ spent.ref = ref
  <2> HIDE DEF k, d, ref
  <2> QED BY <1>1, <1>2 DEF DecisionRow
<1>5. /\ pass \in PassRow /\ pass.decision = k /\ pass.dest = d
      /\ pass.whitelistV = tx[w].whitelistV /\ pass.firstUse = tx[w].firstUse
  BY <1>1, <1>2 DEF PassRow, DecisionRow, Request
<1>6. told \in Receipt /\ told.decision = k /\ told.ref = ref
  BY <1>1, <1>2 DEF Receipt
<1>7. /\ decision' = [decision EXCEPT ![k] = spent]
  BY <1>1, <1>2, <1>3
<1> HIDE DEF spent, pass, told
<1>8. /\ decision' \in Seq(DecisionRow) /\ Len(decision') = Len(decision)
      /\ DOMAIN decision' = DOMAIN decision /\ decision'[k] = spent
      /\ \A l \in DOMAIN decision : l # k => decision'[l] = decision[l]
  <2>1. decision \in Seq(DecisionRow)
    BY DEF IInv, Rows, Typed
  <2> QED BY <1>1, <1>2, <1>4, <1>7, <2>1, ExceptSeq
<1>9. /\ ledger' \in Seq(PassRow) /\ DOMAIN ledger' = 1..(Len(ledger) + 1)
      /\ ledger'[Len(ledger) + 1] = pass
      /\ \A i \in 1..Len(ledger) : ledger'[i] = ledger[i]
  <2>1. ledger \in Seq(PassRow)
    BY DEF IInv, Rows, Typed
  <2>2. /\ ledger' \in Seq(PassRow) /\ Len(ledger') = Len(ledger) + 1
        /\ ledger'[Len(ledger) + 1] = pass
        /\ \A i \in 1..Len(ledger) : ledger'[i] = ledger[i]
    BY <1>3, <1>5, <2>1, AppendProperties
  <2> QED BY <2>2, LenProperties
<1>10. Rows'
  <2>1. Typed'
    BY <1>3, <1>6, <1>8, <1>9 DEF IInv, Rows, Typed, Mandated
  <2>2. Versioned'
    BY <1>3 DEF IInv, Rows, Versioned
  <2>3. Issued'
    <3>1. ASSUME NEW l \in DOMAIN decision, l # k
          PROVE  Coherent(decision'[l]) /\ dest'[decision'[l].dest].status \in {"active", "revoked"}
      BY <3>1, <1>3, <1>8 DEF IInv, Rows, Issued
    <3>2. Coherent(decision'[k]) /\ dest'[decision'[k].dest].status \in {"active", "revoked"}
      BY <1>1, <1>3, <1>4, <1>8 DEF Coherent, Held
    <3> QED BY <3>1, <3>2, <1>8 DEF Issued, Coherent
  <2>4. Booked'
    <3>1. \A i \in 1..Len(ledger) : /\ ledger[i].decision \in DOMAIN decision
                                    /\ decision[ledger[i].decision].status = "consumed"
                                    /\ ledger[i].decision # k
      BY <1>1, <1>2 DEF IInv, Rows, Booked
    <3>2. \A i \in 1..(Len(ledger) + 1) : i # Len(ledger) + 1 => i \in 1..Len(ledger)
      BY <1>2
    <3>3. \A i \in DOMAIN ledger' : /\ ledger'[i].decision \in DOMAIN decision'
                                    /\ decision'[ledger'[i].decision].status = "consumed"
      BY <3>1, <3>2, <1>1, <1>4, <1>5, <1>8, <1>9
    <3>4. \A i, j \in DOMAIN ledger' : ledger'[i].decision = ledger'[j].decision => i = j
      BY <3>1, <3>2, <1>2, <1>5, <1>9 DEF IInv, Rows, Booked
    <3> QED BY <3>3, <3>4 DEF Booked
  <2>5. Told'
    <3>1. ASSUME NEW r \in receipts
          PROVE  /\ r.decision \in DOMAIN decision' /\ decision'[r.decision].status = "consumed"
                 /\ decision'[r.decision].ref = r.ref
      <4>1. /\ r.decision \in DOMAIN decision /\ r.decision # k
            /\ decision[r.decision].status = "consumed" /\ decision[r.decision].ref = r.ref
        BY <1>1 DEF IInv, Rows, Told, SameExecution
      <4> QED BY <4>1, <1>8
    <3>2. /\ told.decision \in DOMAIN decision' /\ decision'[told.decision].status = "consumed"
          /\ decision'[told.decision].ref = told.ref
      BY <1>1, <1>4, <1>6, <1>8
    <3>3. \A r \in receipts' : /\ r.decision \in DOMAIN decision'
                               /\ decision'[r.decision].status = "consumed"
                               /\ decision'[r.decision].ref = r.ref
      BY <3>1, <3>2, <1>3
    <3> QED BY <3>3 DEF Told, SameExecution
  <2>6. FirstUseOnce'
    <3> DEFINE Earlier(i) == {j \in 1..(i - 1) : /\ ledger[j].dest = ledger[i].dest
                                                 /\ ledger[j].whitelistV = ledger[i].whitelistV}
               EarlierNow(i) == {j \in 1..(i - 1) : /\ ledger'[j].dest = ledger'[i].dest
                                                    /\ ledger'[j].whitelistV = ledger'[i].whitelistV}
    <3>1. ASSUME NEW i \in 1..Len(ledger)
          PROVE  ledger'[i].firstUse <=> EarlierNow(i) = {}
      <4>1. \A j \in 1..(i - 1) : j \in 1..Len(ledger)
        BY <1>2
      <4>2. EarlierNow(i) = Earlier(i) /\ ledger'[i] = ledger[i]
        BY <4>1, <1>9
      <4>3. ledger[i].firstUse <=> Earlier(i) = {}
        BY <1>2 DEF IInv, Rows, FirstUseOnce
      <4> QED BY <4>2, <4>3
    <3>2. ledger'[Len(ledger) + 1].firstUse <=> EarlierNow(Len(ledger) + 1) = {}
      <4>1. EarlierNow(Len(ledger) + 1) =
              {j \in 1..Len(ledger) : ledger[j].dest = d /\ ledger[j].whitelistV = tx[w].whitelistV}
        <5>1. 1..(Len(ledger) + 1 - 1) = 1..Len(ledger)
          BY <1>2
        <5> QED BY <5>1, <1>5, <1>9
      <4>2. tx[w].firstUse <=> FirstUse(d, tx[w].whitelistV)
        BY <1>1 DEF Held
      <4>3. FirstUse(d, tx[w].whitelistV) <=> EarlierNow(Len(ledger) + 1) = {}
        <5> HIDE DEF EarlierNow
        <5> QED BY <4>1, <1>2 DEF FirstUse
      <4>4. ledger'[Len(ledger) + 1].firstUse = tx[w].firstUse
        BY <1>5, <1>9
      <4> QED BY <4>2, <4>3, <4>4
    <3>3. \A i \in 1..(Len(ledger) + 1) : i \in 1..Len(ledger) \/ i = Len(ledger) + 1
      BY <1>2
    <3>4. \A i \in DOMAIN ledger' : ledger'[i].firstUse <=> EarlierNow(i) = {}
      <4> HIDE DEF EarlierNow
      <4> QED BY <3>1, <3>2, <3>3, <1>9
    <3> QED BY <3>4 DEF FirstUseOnce
  <2> QED BY <2>1, <2>2, <2>3, <2>4, <2>5, <2>6 DEF Rows
<1>11. \A v \in Workers : v # w => Keeps(v)
  <2>1. \A l \in DOMAIN decision : l \in DOMAIN decision' /\ decision'[l].dest = decision[l].dest
    BY <1>1, <1>4, <1>8
  <2> QED BY <1>1, <1>3, <2>1 DEF Keeps
<1> QED BY <1>1, <1>3, <1>10, <1>11, EndStep DEF IInv

-----------------------------------------------------------------------------
(* The invariant.                                                          *)

LEMMA Initially == Init => IInv
<1> SUFFICES ASSUME Init PROVE IInv
  OBVIOUS
<1> USE BoundAssumption, TimeAssumption
<1>1. PICK type \in Types :
        /\ dest = [d \in Dests |-> IF d \in Whitelisted THEN Active(type) ELSE Registered(type)]
        /\ evidence = [d \in Dests |->
              IF dest[d].status = "draft" THEN [version |-> 0, risk |-> None, until |-> 0]
              ELSE [version |-> 1, risk |-> "clear", until |-> Validity]]
  BY DEF Init
<1>2. /\ Registered(type) \in DestRow /\ Registered(type).status \in {"draft", "pending_review"}
      /\ Registered(type).epoch = 0 /\ Registered(type).whitelistV = 0
  BY DEF Registered, DestRow, Statuses
<1>3. /\ Active(type) \in DestRow /\ Active(type).status = "active" /\ Active(type).epoch = 0
  <2> DEFINE r == Registered(type)
             a == [r EXCEPT !.status = "active"]
             b == [a EXCEPT !.statusV = 4]
  <2>1. a \in DestRow /\ a.status = "active" /\ a.epoch = 0
    <3> HIDE DEF r
    <3> QED BY <1>2 DEF DestRow, Statuses, r
  <2>2. Active(type) = [b EXCEPT !.whitelistV = 1]
    BY DEF Active
  <2> HIDE DEF a
  <2>3. b \in DestRow /\ b.status = "active" /\ b.epoch = 0
    BY <2>1 DEF DestRow
  <2> HIDE DEF b
  <2>4. [b EXCEPT !.whitelistV = 1] \in DestRow /\ [b EXCEPT !.whitelistV = 1].status = "active"
        /\ [b EXCEPT !.whitelistV = 1].epoch = 0
    BY <2>3 DEF DestRow
  <2> QED BY <2>2, <2>4
<1>4. /\ dest \in [Dests -> DestRow]
      /\ \A d \in Dests : dest[d].epoch = 0 /\ dest[d].status # "revoked"
                          /\ (dest[d].status # "active" => dest[d].whitelistV = 0)
  BY <1>1, <1>2, <1>3
<1>5. evidence \in [Dests -> Result]
  BY <1>1 DEF Result
<1>6. policy \in Policy
  BY DEF Init, Policy
<1>7. Mandated
  BY DEF Init, Mandated, NoMandate, MandateRow
<1>8. decision = <<>> /\ ledger = <<>> /\ receipts = {} /\ now = 0
  BY DEF Init
<1>9. /\ decision \in Seq(DecisionRow) /\ ledger \in Seq(PassRow) /\ Len(decision) = 0
      /\ DOMAIN decision = {} /\ DOMAIN ledger = {}
  BY <1>8
<1>10. Rows
  <2>1. Typed
    BY <1>4, <1>5, <1>6, <1>7, <1>8, <1>9 DEF Typed
  <2>2. Versioned
    BY <1>4 DEF Versioned
  <2>3. Issued /\ Booked /\ Told /\ FirstUseOnce
    BY <1>8, <1>9 DEF Issued, Booked, Told, FirstUseOnce
  <2> QED BY <2>1, <2>2, <2>3 DEF Rows
<1>11. Idle \in Request /\ Idle.at = 0
  BY DEF Idle, Request
<1>12. Everyone
  BY <1>8, <1>11 DEF Init, Everyone, Fit, At, Points, Consuming
<1> QED BY <1>10, <1>12 DEF IInv

LEMMA StepKeepsIInv == IInv /\ [Next]_vars => IInv'
<1> SUFFICES ASSUME IInv, [Next]_vars PROVE IInv'
  OBVIOUS
<1>1. CASE Evidence
  BY <1>1, AssessStartStep, AssessApplyStep, LeaveStep, RescreenStep DEF Evidence
<1>2. CASE Approval
  BY <1>2, MandateStep, VerifyMandateStep, ApplyApprovalStep DEF Approval
<1>3. CASE Evaluation
  BY <1>3, EvaluateStep, QueueStep, LeaveStep, IssueStep DEF Evaluation
<1>4. CASE Consumption
  BY <1>4, PresentStep, AdmitStep, ReplayStep, LeaveStep, ConsumeStep DEF Consumption
<1>5. CASE Surroundings
  BY <1>5, RevokeStep, SurroundingsStep DEF Surroundings
<1>6. CASE UNCHANGED vars
  <2>1. UNCHANGED <<now, dest, evidence, policy, mandate, decision, ledger, receipts, pc, tx>>
    BY <1>6 DEF vars
  <2>2. Rows' /\ now' \in Nat /\ \A v \in Workers : Keeps(v)
    BY <2>1, RowsSame DEF IInv
  <2> QED BY <2>1, <2>2, StillStep DEF IInv
<1> QED BY <1>1, <1>2, <1>3, <1>4, <1>5, <1>6 DEF Next

LEMMA AlwaysIInv == Spec => []IInv
<1>1. Init => IInv
  BY Initially
<1>2. IInv /\ [Next]_vars => IInv'
  BY StepKeepsIInv
<1> QED BY <1>1, <1>2, PTL DEF Spec

-----------------------------------------------------------------------------
(* The theorems.                                                           *)

\* Every variable keeps its type, and a consumed decision names its execution.
THEOREM TypeCorrect == Spec => []TypeOK
<1>1. ASSUME IInv PROVE TypeOK
  <2>1. \A a \in Approvals : mandate[a].dest \in Dests \cup {None}
    BY <1>1 DEF IInv, Rows, Typed, Mandated, MandateRow
  <2>2. \A k \in DOMAIN decision : /\ decision[k].status \in {"issued", "consumed"}
                                   /\ decision[k].dest \in Dests /\ Coherent(decision[k])
    BY <1>1, RowTypes DEF IInv, Rows, Issued, DecisionRow
  <2>3. \A w \in Workers : tx[w].dest \in Dests \cup {None} /\ tx[w].at \in 0..now
    BY <1>1, TimeAssumption DEF IInv, Rows, Typed, Everyone, Fit, Request
  <2> QED BY <1>1, <2>1, <2>2, <2>3
          DEF TypeOK, IInv, Rows, Typed, Everyone, DestRow, Result, Policy
<1> QED BY <1>1, AlwaysIInv, PTL

\* A decision has one pass row at most, and every success reported for it, replays included, was
\* reported to the execution that spent it (verify-and-consume under retries).
THEOREM SpentOnce == Spec => []OneExecution
<1>1. ASSUME IInv PROVE OneExecution
  BY <1>1 DEF IInv, Rows, Booked, Told, SameExecution, OneExecution
<1> QED BY <1>1, AlwaysIInv, PTL

\* The first pass on a whitelisting of a destination, and no other, is held to the first-use limit
\* (computeFirstUse under the locks of the consuming transaction).
THEOREM FirstUseMarked == Spec => []FirstUseOnce
<1>1. IInv => FirstUseOnce
  BY DEF IInv, Rows
<1> QED BY <1>1, AlwaysIInv, PTL

\* A decision becomes consumed only while its destination is active in the epoch it was issued in
\* and under the limit profiles it was issued under, whatever revocations and policy changes race
\* the consuming transaction.
THEOREM Live == Spec => LiveAuthority
<1> DEFINE A == \A k \in DOMAIN decision :
                   (decision[k].status = "issued" /\ decision'[k].status = "consumed") =>
                      LET d == decision[k].dest IN
                      /\ dest[d].status = "active" /\ dest[d].epoch = decision[k].epoch
                      /\ policy.client = decision[k].client /\ policy.own[d] = decision[k].own
<1>1. ASSUME IInv, [Next]_vars PROVE A
  <2>1. ASSUME NEW w \in Workers, Consume(w) PROVE A
    <3> DEFINE m == tx[w].decision
    <3>1. m \in DOMAIN decision /\ Held(w) /\ decision[m].dest = tx[w].dest
      BY <1>1, <2>1 DEF IInv, Everyone, Fit, Consume, PassOf, At
    <3>2. \A k \in DOMAIN decision : k # m => decision'[k] = decision[k]
      BY <2>1 DEF Consume, PassOf
    <3>3. ASSUME NEW k \in DOMAIN decision, decision[k].status = "issued",
                 decision'[k].status = "consumed"
          PROVE  k = m
      BY <3>2, <3>3
    <3> QED BY <3>1, <3>3 DEF Held
  <2>2. ASSUME NEW w \in Workers, Issue(w) PROVE \A k \in DOMAIN decision : decision'[k] = decision[k]
    <3>1. decision \in Seq(DecisionRow) /\ DOMAIN decision = 1..Len(decision)
      BY <1>1, RowTypes DEF IInv, Rows, Typed
    <3>2. decision' = decision \/ \E x : decision' = Append(decision, x)
      BY <2>2 DEF Issue, PreCheck
    <3> QED BY <3>1, <3>2
  <2>3. CASE decision' = decision
    BY <2>3
  <2>4. decision' = decision \/ (\E w \in Workers : Consume(w) \/ Issue(w))
    BY <1>1 DEF Next, vars, Evidence, Approval, Evaluation, Consumption, Surroundings, AssessStart,
        AssessApply, AssessFail, Rescreen, Mandate, VerifyMandate, ApplyApproval, Evaluate, Queue,
        Refuse, Present, Admit, Replay, Deny, Abort, Revoke, SetClientPolicy, SetDestPolicy, Tick,
        money
  <2> QED BY <2>1, <2>2, <2>3, <2>4
<1>2. IInv /\ [Next]_vars => [A]_vars
  BY <1>1
<1> QED BY <1>2, AlwaysIInv, PTL DEF Spec, LiveAuthority

\* A destination is whitelisted only under a spent approval of that destination, and only while its
\* latest evidence is clear and fresh, whatever is appended while the approval is applied
\* (approve/apply, phase C).
THEOREM ClearWhenWhitelisted == Spec => WhitelistedClear
<1> DEFINE Whitelisted1(d) == dest[d].status = "pending_review"
                              /\ dest'[d].status = "approved_pending_cooling"
           A == \A d \in Dests : Whitelisted1(d) =>
                    /\ Clear(evidence[d], now)
                    /\ \E a \in Approvals : mandate[a].spent /\ mandate[a].dest = d
<1>1. ASSUME IInv, [Next]_vars PROVE A
  <2>0. dest \in [Dests -> DestRow]
    BY <1>1 DEF IInv, Rows, Typed
  <2>1. ASSUME NEW w \in Workers, ApplyApproval(w) PROVE A
    <3> DEFINE e == tx[w].dest
    <3>1. e \in Dests /\ \E a \in Approvals : mandate[a].spent /\ mandate[a].dest = e
      BY <1>1, <2>1 DEF IInv, Everyone, Fit, ApplyApproval, At
    <3>2. dest' = dest \/ (ApprovalGates(e, now) /\ \A d \in Dests : d # e => dest'[d] = dest[d])
      BY <2>0, <2>1, <3>1 DEF ApplyApproval
    <3> HIDE DEF e
    <3> QED BY <3>1, <3>2 DEF ApprovalGates
  <2>2. ASSUME NEW w \in Workers, Issue(w) PROVE A
    <3> DEFINE e == tx[w].dest
    <3>1. dest' = [dest EXCEPT ![e] = Promoted(e)] /\ dest[e].status # "pending_review"
      BY <2>2 DEF Issue, PreCheck, EvaluationStands, UsableGates
    <3> HIDE DEF e
    <3> QED BY <2>0, <3>1
  <2>3. ASSUME NEW w \in Workers, NEW risk \in {"clear", "hit"}, AssessApply(w, risk) PROVE A
    <3> DEFINE e == tx[w].dest
    <3>1. dest' = dest \/ (dest[e].status = "draft" /\ \A d \in Dests : d # e => dest'[d] = dest[d])
      BY <2>0, <2>3 DEF AssessApply, Promotes
    <3> HIDE DEF e
    <3> QED BY <2>0, <3>1
  <2>4. ASSUME NEW d \in Dests, dest' = Revoked(d) PROVE A
    <3>1. dest'[d].status = "revoked" /\ \A e \in Dests : e # d => dest'[e] = dest[e]
      BY <2>0, <2>4 DEF Revoked, DestRow
    <3> QED BY <3>1
  <2>5. CASE dest' = dest
    BY <2>5
  <2>6. \/ dest' = dest
        \/ \E w \in Workers : ApplyApproval(w) \/ Issue(w)
        \/ \E w \in Workers, risk \in {"clear", "hit"} : AssessApply(w, risk)
        \/ \E d \in Dests : dest' = Revoked(d)
    BY <1>1 DEF Next, vars, Evidence, Approval, Evaluation, Consumption, Surroundings, AssessStart,
        AssessFail, Rescreen, Mandate, VerifyMandate, Evaluate, Queue, Refuse, Present, Admit,
        Replay, Deny, Consume, Abort, Revoke, SetClientPolicy, SetDestPolicy, Tick
  <2> HIDE DEF A
  <2> QED BY <2>1, <2>2, <2>3, <2>4, <2>5, <2>6
<1>2. IInv /\ [Next]_vars => [A]_vars
  BY <1>1
<1> QED BY <1>2, AlwaysIInv, PTL DEF Spec, WhitelistedClear

-----------------------------------------------------------------------------
(* The limits over days and windows: what the rows of a set add up to, the *)
(* sum of a day and of a window, and what a consumption that holds its     *)
(* locks has been let through under.                                       *)

UnitsOf(l, rows) == UNION {{i} \X (1..l[i].amount) : i \in rows}
SumOf(l, rows) == Cardinality(UnitsOf(l, rows))
InDay(l, t) == {i \in DOMAIN l : Day(l[i].at) = Day(t)}
InWindow(l, t) == {i \in DOMAIN l : l[i].at >= t /\ l[i].at < t + Window}
SinceDay(l, t) == {i \in DOMAIN l : Day(l[i].at) >= Day(t)}
SinceWindow(l, t) == {i \in DOMAIN l : l[i].at + Window > t}

WithinVelocity(l) ==
    \A t \in Nat : /\ ~Exceeds(SumOf(l, InWindow(l, t)), ClientLimits[1].rolling)
                   /\ ~Exceeds(SumOf(l, InDay(l, t)), ClientLimits[1].daily)
LeavesRoom(l, amount, t) ==
    /\ ~Exceeds(SumOf(l, SinceDay(l, t)) + amount, ClientLimits[1].daily)
    /\ ~Exceeds(SumOf(l, SinceWindow(l, t)) + amount, ClientLimits[1].rolling)

VelocityInv ==
    /\ IsFiniteSet(Units(DOMAIN ledger))
    /\ DOMAIN ClientLimits = {1} =>
          /\ WithinVelocity(ledger)
          /\ \A w \in Workers : At(w, "consuming") =>
                LeavesRoom(ledger, decision[tx[w].decision].amount, tx[w].at)

LEMMA DayTyped == \A t \in Nat : Day(t) \in Nat
BY TimeAssumption DEF Day

LEMMA ProfileTyped ==
  ClientLimits[1].daily \in Nat \cup {None} /\ ClientLimits[1].rolling \in Nat \cup {None}
<1> DEFINE mine == ClientLimits[1]
<1>1. mine \in {ClientLimits[v] : v \in DOMAIN ClientLimits}
  BY BoundAssumption
<1> HIDE DEF mine
<1>2. {mine.firstUse, mine.daily, mine.rolling} \subseteq Nat \cup {None}
  BY <1>1, LimitAssumption
<1> QED BY <1>2 DEF mine

\* Less than what is not too much is not too much.
LEMMA NotExceeded ==
  ASSUME NEW a \in Nat, NEW b \in Nat, a <= b, NEW limit \in Nat \cup {None}, ~Exceeds(b, limit)
  PROVE  ~Exceeds(a, limit)
BY DEF Exceeds

LEMMA UnitsSubset ==
  ASSUME NEW l, NEW S, NEW T, S \subseteq T, IsFiniteSet(UnitsOf(l, T))
  PROVE  /\ IsFiniteSet(UnitsOf(l, S)) /\ SumOf(l, S) \in Nat
         /\ SumOf(l, T) \in Nat /\ SumOf(l, S) <= SumOf(l, T)
<1>1. UnitsOf(l, S) \subseteq UnitsOf(l, T)
  BY DEF UnitsOf
<1>2. IsFiniteSet(UnitsOf(l, S)) /\ Cardinality(UnitsOf(l, S)) <= Cardinality(UnitsOf(l, T))
  BY <1>1, FS_Subset
<1>3. Cardinality(UnitsOf(l, S)) \in Nat /\ Cardinality(UnitsOf(l, T)) \in Nat
  BY <1>2, FS_CardinalityType
<1> QED BY <1>2, <1>3 DEF SumOf

LEMMA RowUnits ==
  ASSUME NEW n, NEW a \in Nat
  PROVE  IsFiniteSet({n} \X (1..a)) /\ Cardinality({n} \X (1..a)) = a
<1>1. IsFiniteSet({n}) /\ Cardinality({n}) = 1
  BY FS_Singleton
<1>2. IsFiniteSet(1..a) /\ Cardinality(1..a) = a
  BY FS_Interval
<1>3. /\ IsFiniteSet({n} \X (1..a))
      /\ Cardinality({n} \X (1..a)) = Cardinality({n}) * Cardinality(1..a)
  BY <1>1, <1>2, FS_Product
<1> QED BY <1>1, <1>2, <1>3

\* A row that is appended adds its amount to the sums that count it, and nothing to the others.
LEMMA UnitsGrow ==
  ASSUME NEW l \in Seq(PassRow), NEW row \in PassRow, IsFiniteSet(UnitsOf(l, DOMAIN l)), NEW S \in SUBSET (DOMAIN l)
  PROVE  LET m == Append(l, row)
             n == Len(l) + 1
         IN /\ SumOf(l, S) \in Nat /\ SumOf(m, S) = SumOf(l, S)
            /\ SumOf(m, S \cup {n}) = SumOf(l, S) + row.amount
            /\ IsFiniteSet(UnitsOf(m, DOMAIN m))
<1> DEFINE m == Append(l, row)
           n == Len(l) + 1
<1>1. /\ m \in Seq(PassRow) /\ Len(l) \in Nat /\ DOMAIN l = 1..Len(l) /\ DOMAIN m = 1..n /\ m[n] = row
      /\ \A i \in 1..Len(l) : m[i] = l[i]
  <2>1. /\ m \in Seq(PassRow) /\ Len(m) = Len(l) + 1 /\ m[Len(l) + 1] = row
        /\ \A i \in 1..Len(l) : m[i] = l[i]
    BY AppendProperties
  <2>2. Len(l) \in Nat /\ DOMAIN l = 1..Len(l) /\ DOMAIN m = 1..Len(m)
    BY <2>1, LenProperties
  <2> QED BY <2>1, <2>2
<1>2. row.amount \in Nat
  BY BoundAssumption DEF PassRow
<1> HIDE DEF m
<1>3. DOMAIN m = DOMAIN l \cup {n} /\ n \notin DOMAIN l
  BY <1>1
<1> HIDE DEF n
<1>4. ASSUME NEW T \in SUBSET (DOMAIN l)
      PROVE  /\ IsFiniteSet(UnitsOf(l, T)) /\ SumOf(l, T) \in Nat
             /\ UnitsOf(m, T) = UnitsOf(l, T)
             /\ IsFiniteSet(UnitsOf(m, T \cup {n})) /\ SumOf(m, T \cup {n}) = SumOf(l, T) + row.amount
  <2>1. IsFiniteSet(UnitsOf(l, T)) /\ SumOf(l, T) \in Nat
    BY UnitsSubset
  <2>2. \A i \in T : m[i] = l[i]
    BY <1>1
  <2>3. UnitsOf(m, T) = UnitsOf(l, T)
    BY <2>2 DEF UnitsOf
  <2>4. UnitsOf(m, T \cup {n}) = UnitsOf(l, T) \cup ({n} \X (1..row.amount))
    <3>1. UnitsOf(m, T \cup {n}) = UnitsOf(m, T) \cup ({n} \X (1..m[n].amount))
      BY DEF UnitsOf
    <3>2. m[n] = row
      BY <1>1 DEF n
    <3> QED BY <3>1, <3>2, <2>3
  <2>5. UnitsOf(l, T) \cap ({n} \X (1..row.amount)) = {}
    BY <1>3 DEF UnitsOf
  <2>6. IsFiniteSet({n} \X (1..row.amount)) /\ Cardinality({n} \X (1..row.amount)) = row.amount
    BY <1>2, RowUnits
  <2> DEFINE A == UnitsOf(l, T)
             B == {n} \X (1..row.amount)
  <2> HIDE DEF A, B
  <2>7. /\ IsFiniteSet(A \cup B)
        /\ Cardinality(A \cup B) = Cardinality(A) + Cardinality(B) - Cardinality(A \cap B)
    BY <2>1, <2>6, FS_Union DEF A, B
  <2>8. Cardinality(A \cap B) = 0 /\ Cardinality(A) \in Nat
    BY <2>1, <2>5, FS_EmptySet DEF A, B, SumOf
  <2>9. Cardinality(A \cup B) = Cardinality(A) + row.amount
    BY <2>6, <2>7, <2>8, <1>2 DEF B
  <2> QED BY <2>1, <2>3, <2>4, <2>7, <2>9 DEF A, B, SumOf
<1>5. IsFiniteSet(UnitsOf(m, DOMAIN m))
  BY <1>3, <1>4
<1>6. SumOf(m, S) = SumOf(l, S)
  BY <1>4 DEF SumOf
<1> QED BY <1>4, <1>5, <1>6 DEF m, n

\* What a consumption was let through under, by the limits' own lower bounds (the rows not before
\* its day, those less than a window before it), covers every day and window its row is counted in.
LEMMA VelocityGrows ==
  ASSUME NEW l \in Seq(PassRow), NEW row \in PassRow, IsFiniteSet(UnitsOf(l, DOMAIN l)),
         WithinVelocity(l), LeavesRoom(l, row.amount, row.at)
  PROVE  WithinVelocity(Append(l, row))
<1> DEFINE m == Append(l, row)
           n == Len(l) + 1
<1>1. /\ DOMAIN m = DOMAIN l \cup {n} /\ n \notin DOMAIN l /\ m[n] = row
      /\ \A i \in DOMAIN l : m[i] = l[i] /\ l[i].at \in Nat
  <2>1. /\ m \in Seq(PassRow) /\ Len(m) = Len(l) + 1 /\ m[Len(l) + 1] = row
        /\ \A i \in 1..Len(l) : m[i] = l[i]
    BY AppendProperties
  <2>2. Len(l) \in Nat /\ DOMAIN l = 1..Len(l) /\ DOMAIN m = 1..Len(m)
    BY <2>1, LenProperties
  <2>3. \A i \in DOMAIN l : l[i] \in PassRow
    BY <2>2, ElementOfSeq
  <2> QED BY <2>1, <2>2, <2>3 DEF PassRow
<1>2. row.amount \in Nat /\ row.at \in Nat /\ Window \in Nat
  BY BoundAssumption, TimeAssumption DEF PassRow
<1>3. \A S \in SUBSET (DOMAIN l) :
        SumOf(l, S) \in Nat /\ SumOf(m, S) = SumOf(l, S) /\ SumOf(m, S \cup {n}) = SumOf(l, S) + row.amount
  BY UnitsGrow
<1> HIDE DEF m, n
<1>4. ASSUME NEW S \in SUBSET (DOMAIN l), NEW T \in SUBSET (DOMAIN l), S \subseteq T,
             NEW limit \in Nat \cup {None}, ~Exceeds(SumOf(l, T) + row.amount, limit)
      PROVE  ~Exceeds(SumOf(m, S \cup {n}), limit)
  <2>1. SumOf(l, S) \in Nat /\ SumOf(l, T) \in Nat /\ SumOf(l, S) <= SumOf(l, T)
    <3>1. IsFiniteSet(UnitsOf(l, T))
      BY UnitsSubset
    <3> QED BY <3>1, <1>4, UnitsSubset
  <2>2. /\ SumOf(l, S) + row.amount \in Nat /\ SumOf(l, T) + row.amount \in Nat
        /\ SumOf(l, S) + row.amount <= SumOf(l, T) + row.amount
    BY <2>1, <1>2
  <2>3. ~Exceeds(SumOf(l, S) + row.amount, limit)
    BY ONLY <1>4, <2>2, NotExceeded
  <2>4. SumOf(m, S \cup {n}) = SumOf(l, S) + row.amount
    BY <1>3
  <2> QED BY <2>3, <2>4
<1>5. ASSUME NEW t \in Nat
      PROVE  ~Exceeds(SumOf(m, InWindow(m, t)), ClientLimits[1].rolling)
  <2>1. InWindow(l, t) \in SUBSET (DOMAIN l) /\ SinceWindow(l, row.at) \in SUBSET (DOMAIN l)
    BY DEF InWindow, SinceWindow
  <2>2. CASE row.at >= t /\ row.at < t + Window
    <3>1. InWindow(m, t) = InWindow(l, t) \cup {n}
      BY <2>2, <1>1 DEF InWindow
    <3>2. InWindow(l, t) \subseteq SinceWindow(l, row.at)
      BY <2>2, <1>1, <1>2 DEF InWindow, SinceWindow
    <3> QED BY <2>1, <3>1, <3>2, <1>4, ProfileTyped DEF LeavesRoom
  <2>3. CASE ~(row.at >= t /\ row.at < t + Window)
    <3>1. InWindow(m, t) = InWindow(l, t)
      BY <2>3, <1>1 DEF InWindow
    <3> QED BY <2>1, <3>1, <1>3 DEF WithinVelocity
  <2> QED BY <2>2, <2>3
<1>6. ASSUME NEW t \in Nat
      PROVE  ~Exceeds(SumOf(m, InDay(m, t)), ClientLimits[1].daily)
  <2>1. InDay(l, t) \in SUBSET (DOMAIN l) /\ SinceDay(l, row.at) \in SUBSET (DOMAIN l)
    BY DEF InDay, SinceDay
  <2>2. CASE Day(row.at) = Day(t)
    <3>1. InDay(m, t) = InDay(l, t) \cup {n}
      BY <2>2, <1>1 DEF InDay
    <3>2. InDay(l, t) \subseteq SinceDay(l, row.at)
      <4>1. Day(row.at) \in Nat
        BY <1>2, DayTyped
      <4> QED BY <2>2, <4>1 DEF InDay, SinceDay
    <3> QED BY <2>1, <3>1, <3>2, <1>4, ProfileTyped DEF LeavesRoom
  <2>3. CASE Day(row.at) # Day(t)
    <3>1. InDay(m, t) = InDay(l, t)
      BY <2>3, <1>1 DEF InDay
    <3> QED BY <2>1, <3>1, <1>3 DEF WithinVelocity
  <2> QED BY <2>2, <2>3
<1> QED BY <1>5, <1>6 DEF WithinVelocity, m

\* Only Admit and Consume bear on what consumptions have been let through under.
LEMMA OthersLeaveConsumptions ==
  ASSUME IInv, [Next]_vars, \A w \in Workers : ~Admit(w) /\ ~Consume(w)
  PROVE  /\ ledger' = ledger
         /\ \A w \in Workers : At(w, "consuming")' =>
               /\ At(w, "consuming") /\ tx'[w] = tx[w]
               /\ decision'[tx[w].decision] = decision[tx[w].decision]
<1> DEFINE Steps(p) == \E w \in Workers :
                          pc' = [pc EXCEPT ![w] = p] /\ tx' = [tx EXCEPT ![w] = tx'[w]]
           Others == /\ ledger' = ledger
                     /\ decision' = decision \/ Consuming = {}
                     /\ UNCHANGED <<pc, tx>> \/ \E p \in Points \ {"consuming"} : Steps(p)
<1>1. pc \in [Workers -> Points] /\ tx \in [Workers -> Request]
  BY DEF IInv, Everyone
<1>2. ASSUME NEW w \in Workers, NEW p \in Points \ {"consuming"}, NEW x,
             pc' = [pc EXCEPT ![w] = p], tx' = [tx EXCEPT ![w] = x]
      PROVE  \E q \in Points \ {"consuming"} : Steps(q)
  BY <1>1, <1>2
<1>3. \A w \in Workers : End(w) => \E q \in Points \ {"consuming"} : Steps(q)
  BY <1>2 DEF End, Points
<1>4. ASSUME NEW w \in Workers, NEW p \in Points \ {"consuming"}, NEW x, Begin(w, p, x)
      PROVE  \E q \in Points \ {"consuming"} : Steps(q)
  BY <1>2, <1>4 DEF Begin
<1>5. {"idle", "assessing", "approved", "allowed", "queued", "presented"} \subseteq Points \ {"consuming"}
  BY DEF Points
<1> HIDE DEF Steps
<1>6. ASSUME Evidence PROVE Others
  BY <1>6, <1>3, <1>4, <1>5 DEF Evidence, AssessStart, AssessApply, AssessFail, Rescreen, money, review
<1>7. ASSUME Approval PROVE Others
  BY <1>7, <1>3, <1>4, <1>5 DEF Approval, Mandate, VerifyMandate, ApplyApproval, money, review
<1>8. ASSUME Evaluation PROVE Others
  <2>1. ASSUME NEW w \in Workers, Queue(w) PROVE Others
    <3>1. pc' = [pc EXCEPT ![w] = "queued"] /\ tx' = [tx EXCEPT ![w] = [tx[w] EXCEPT !.at = now]]
      BY <2>1, <1>1 DEF Queue
    <3> QED BY <2>1, <3>1, <1>2, <1>5 DEF Queue, money
  <2> QED BY <1>8, <2>1, <1>3, <1>4, <1>5 DEF Evaluation, Evaluate, Refuse, Issue, ClientFree, money, review
<1>9. ASSUME Consumption PROVE Others
  BY <1>9, <1>3, <1>4, <1>5 DEF Consumption, Present, Replay, Deny, Abort, money, review
<1>10. ASSUME Surroundings PROVE Others
  BY <1>10 DEF Surroundings, Revoke, SetClientPolicy, SetDestPolicy, Tick, money, review
<1>11. ASSUME UNCHANGED vars PROVE Others
  BY <1>11 DEF vars
<1>12. Others
  BY <1>6, <1>7, <1>8, <1>9, <1>10, <1>11 DEF Next
<1>13. ASSUME NEW w \in Workers, At(w, "consuming")'
       PROVE  /\ At(w, "consuming") /\ tx'[w] = tx[w]
              /\ decision'[tx[w].decision] = decision[tx[w].decision]
  <2>1. At(w, "consuming") /\ tx'[w] = tx[w]
    BY <1>12, <1>13, <1>1 DEF At, Steps
  <2> QED BY <2>1, <1>12 DEF Consuming, At
<1> QED BY <1>12, <1>13

LEMMA StepKeepsVelocity == IInv /\ VelocityInv /\ [Next]_vars => VelocityInv'
<1> SUFFICES ASSUME IInv, VelocityInv, [Next]_vars PROVE VelocityInv'
  OBVIOUS
<1>1. /\ ledger \in Seq(PassRow) /\ policy \in Policy
      /\ pc \in [Workers -> Points] /\ tx \in [Workers -> Request]
  BY DEF IInv, Rows, Typed, Everyone
<1>2. IsFiniteSet(UnitsOf(ledger, DOMAIN ledger))
  BY DEF VelocityInv, Units, UnitsOf
<1>3. ASSUME NEW w \in Workers, Consume(w) PROVE VelocityInv'
  <2> DEFINE row == PassOf(w)
  <2>1. /\ tx[w] \in Request /\ tx[w].decision \in DOMAIN decision /\ tx[w].dest \in Dests /\ tx[w].at \in Nat
        /\ At(w, "consuming") /\ \A v \in Workers : v # w => ~At(v, "consuming")
    BY <1>1, <1>3 DEF IInv, Everyone, Fit, Consume, At, Consuming, Request
  <2>2. decision[tx[w].decision] \in DecisionRow /\ tx[w].decision \in 1..MaxDecisions
    BY <2>1, RowTypes, BoundAssumption DEF IInv
  <2>3. row \in PassRow /\ row.amount = decision[tx[w].decision].amount /\ row.at = tx[w].at
    BY <2>1, <2>2 DEF PassOf, PassRow, DecisionRow, Request
  <2>4. ledger' = Append(ledger, row) /\ End(w)
    BY <1>3 DEF Consume
  <2> HIDE DEF row
  <2>5. IsFiniteSet(UnitsOf(ledger', DOMAIN ledger'))
    BY <1>1, <1>2, <2>3, <2>4, UnitsGrow
  <2>6. DOMAIN ClientLimits = {1} => WithinVelocity(ledger')
    BY <1>1, <1>2, <2>1, <2>3, <2>4, VelocityGrows DEF VelocityInv
  <2>7. \A v \in Workers : ~At(v, "consuming")'
    BY <1>1, <2>1, <2>4 DEF End, At
  <2> QED BY <2>5, <2>6, <2>7 DEF VelocityInv, Units, UnitsOf
<1>4. ASSUME NEW w \in Workers, Admit(w) PROVE VelocityInv'
  <2> DEFINE k == tx[w].decision
  <2>1. /\ ledger' = ledger /\ decision' = decision /\ pc' = [pc EXCEPT ![w] = "consuming"]
        /\ \A v \in Workers : ~At(v, "consuming")
    BY <1>4 DEF Admit, money, Locks, ClientFree, Consuming, At
  <2>2. tx'[w].decision = k /\ tx'[w].at = tx[w].at
    BY <1>1, <1>4 DEF Admit, Request
  <2>3. DOMAIN ClientLimits = {1} => LeavesRoom(ledger, decision[k].amount, tx[w].at)
    <3>1. LimitsPass(tx[w].dest, dest[tx[w].dest].whitelistV, decision[k].amount, tx[w].at)
      BY <1>4 DEF Admit, Admissible
    <3>2. DOMAIN ClientLimits = {1} => ClientProfile = ClientLimits[1]
      BY <3>1, <1>1 DEF LimitsPass, ClientProfile, Policy
    <3> QED BY <3>1, <3>2
            DEF LimitsPass, WithinLimits, LeavesRoom, SumOf, UnitsOf, Usage, Units, SinceDay, SinceWindow
  <2>4. \A v \in Workers : At(v, "consuming")' => v = w
    BY <1>1, <2>1 DEF At
  <2> HIDE DEF k
  <2>5. IsFiniteSet(Units(DOMAIN ledger))' /\ (DOMAIN ClientLimits = {1} => WithinVelocity(ledger'))
    BY <2>1 DEF VelocityInv, Units
  <2> QED BY <2>1, <2>2, <2>3, <2>4, <2>5 DEF VelocityInv, k
<1>5. CASE \A w \in Workers : ~Admit(w) /\ ~Consume(w)
  <2>1. /\ ledger' = ledger
        /\ \A w \in Workers : At(w, "consuming")' =>
              /\ At(w, "consuming") /\ tx'[w] = tx[w]
              /\ decision'[tx[w].decision] = decision[tx[w].decision]
    BY <1>5, OthersLeaveConsumptions
  <2>2. IsFiniteSet(Units(DOMAIN ledger))' /\ (DOMAIN ClientLimits = {1} => WithinVelocity(ledger'))
    BY <2>1 DEF VelocityInv, Units
  <2> QED BY <2>1, <2>2 DEF VelocityInv
<1> QED BY <1>3, <1>4, <1>5

LEMMA VelocityBegins == Init => VelocityInv
<1> SUFFICES ASSUME Init PROVE VelocityInv
  OBVIOUS
<1>1. ledger = <<>> /\ DOMAIN ledger = {} /\ \A w \in Workers : ~At(w, "consuming")
  BY DEF Init, At
<1>2. UnitsOf(ledger, {}) = {} /\ Units(DOMAIN ledger) = {}
  BY <1>1 DEF UnitsOf, Units
<1>3. SumOf(ledger, {}) = 0 /\ IsFiniteSet(Units(DOMAIN ledger))
  BY <1>2, FS_EmptySet DEF SumOf
<1>4. \A limit \in Nat \cup {None} : ~Exceeds(0, limit)
  BY DEF Exceeds
<1>5. WithinVelocity(ledger)
  <2>1. \A t \in Nat : InWindow(ledger, t) = {} /\ InDay(ledger, t) = {}
    BY <1>1 DEF InWindow, InDay
  <2> QED BY <2>1, <1>3, <1>4, ProfileTyped DEF WithinVelocity
<1> QED BY <1>1, <1>3, <1>5 DEF VelocityInv

LEMMA AlwaysVelocity == Spec => []VelocityInv
<1>1. Init => VelocityInv
  BY VelocityBegins
<1>2. IInv /\ VelocityInv /\ [Next]_vars => VelocityInv'
  BY StepKeepsVelocity
<1> QED BY <1>1, <1>2, AlwaysIInv, PTL DEF Spec

\* Whatever the order in which consumptions are stamped, let through and committed, the passes of a
\* day and those of any window stay within the client's profile (verify-and-consume under the
\* client's advisory lock).
THEOREM LimitsKept == Spec => []VelocityRespected
<1>1. ASSUME VelocityInv PROVE VelocityRespected
  <2> SUFFICES ASSUME DOMAIN ClientLimits = {1}, NEW t \in 0..MaxTime
               PROVE  /\ ~Exceeds(Usage({i \in DOMAIN ledger : ledger[i].at >= t /\ ledger[i].at < t + Window}), ClientLimits[1].rolling)
                      /\ ~Exceeds(Usage({i \in DOMAIN ledger : Day(ledger[i].at) = Day(t)}), ClientLimits[1].daily)
    BY DEF VelocityRespected
  <2>1. t \in Nat
    BY TimeAssumption
  <2>2. WithinVelocity(ledger)
    BY <1>1 DEF VelocityInv
  <2>3. /\ ~Exceeds(SumOf(ledger, InWindow(ledger, t)), ClientLimits[1].rolling)
        /\ ~Exceeds(SumOf(ledger, InDay(ledger, t)), ClientLimits[1].daily)
    BY <2>1, <2>2 DEF WithinVelocity
  <2> QED BY <2>3 DEF Usage, Units, SumOf, UnitsOf, InWindow, InDay
<1> QED BY <1>1, AlwaysVelocity, PTL

-----------------------------------------------------------------------------
(* The refinement of DestinationAuthority.                                 *)

Standings == [d \in Dests |-> Standing(d)]
Granted == [k \in 1..MaxDecisions |->
    IF k \in DOMAIN decision THEN [dest |-> decision[k].dest, amount |-> decision[k].amount] ELSE None]
Spent == {k \in DOMAIN decision : decision[k].status = "consumed"}
Entries == [i \in DOMAIN ledger |-> [dest |-> ledger[i].dest, amount |-> ledger[i].amount]]

AuthorityStep == [Authority!Next]_(Authority!vars)

\* Nothing that the mapping sees has changed.
LEMMA Unseen ==
  ASSUME \A d \in Dests : Standing(d)' = Standing(d), UNCHANGED <<decision, ledger>>
  PROVE  AuthorityStep
<1>1. Standings' = Standings /\ Granted' = Granted /\ Spent' = Spent /\ Entries' = Entries
  BY DEF Standings, Granted, Spent, Entries
<1> QED BY <1>1 DEF AuthorityStep, Authority!vars, Standings, Granted, Spent, Entries

LEMMA RevocationSeen ==
  ASSUME IInv, NEW d \in Dests, dest[d].status # "revoked", dest' = Revoked(d),
         UNCHANGED <<decision, ledger>>
  PROVE  AuthorityStep
<1>1. dest'[d].status = "revoked" /\ \A e \in Dests : e # d => dest'[e] = dest[e]
  BY DEF Revoked, IInv, Rows, Typed, DestRow
<1>2. Standing(d) # "revoked" /\ Standing(d)' = "revoked"
      /\ \A e \in Dests : e # d => Standing(e)' = Standing(e)
  BY <1>1 DEF Standing
<1>3. Standings[d] # "revoked" /\ Standings' = [Standings EXCEPT ![d] = "revoked"]
  BY <1>2 DEF Standings
<1>4. Granted' = Granted /\ Spent' = Spent /\ Entries' = Entries
  BY DEF Granted, Spent, Entries
<1>5. Authority!Revoke(d)
  BY <1>3, <1>4 DEF Authority!Revoke, Standings, Granted, Spent, Entries
<1> QED BY <1>5 DEF AuthorityStep, Authority!Next

LEMMA ApprovalSeen ==
  ASSUME IInv, NEW w \in Workers, ApplyApproval(w)
  PROVE  AuthorityStep
<1>0. PICK d \in Dests : d = tx[w].dest
  BY DEF IInv, Everyone, Fit, ApplyApproval, At
<1>1. d \in Dests /\ dest \in [Dests -> DestRow] /\ UNCHANGED <<decision, ledger>>
  BY DEF IInv, Rows, Typed, ApplyApproval, money
<1>2. \/ dest' = dest
      \/ /\ dest[d].status = "pending_review" /\ dest'[d].status = "approved_pending_cooling"
         /\ \A e \in Dests : e # d => dest'[e] = dest[e]
  <2>1. CASE ApprovalGates(d, now) /\ Unmoved(d, tx[w])
    BY <2>1, <1>0, <1>1 DEF ApplyApproval, ApprovalGates, DestRow
  <2>2. CASE ~(ApprovalGates(d, now) /\ Unmoved(d, tx[w]))
    BY <2>2, <1>0 DEF ApplyApproval
  <2> QED BY <2>1, <2>2
<1>3. CASE dest' = dest
  BY <1>1, <1>3, Unseen DEF Standing
<1>4. CASE /\ dest[d].status = "pending_review" /\ dest'[d].status = "approved_pending_cooling"
           /\ \A e \in Dests : e # d => dest'[e] = dest[e]
  <2>1. Standing(d) = "candidate" /\ Standing(d)' = "whitelisted"
        /\ \A e \in Dests : e # d => Standing(e)' = Standing(e)
    BY <1>4 DEF Standing
  <2>2. Standings[d] = "candidate" /\ Standings' = [Standings EXCEPT ![d] = "whitelisted"]
    BY <1>1, <2>1 DEF Standings
  <2>3. Granted' = Granted /\ Spent' = Spent /\ Entries' = Entries
    BY <1>1 DEF Granted, Spent, Entries
  <2>4. Authority!Whitelist(d)
    BY <2>2, <2>3 DEF Authority!Whitelist, Standings, Granted, Spent, Entries
  <2> QED BY <1>1, <2>4 DEF AuthorityStep, Authority!Next
<1> QED BY <1>2, <1>3, <1>4

\* An assessment or a promotion moves no standing.
LEMMA AssessmentSeen ==
  ASSUME IInv, NEW w \in Workers, NEW risk \in {"clear", "hit"}, AssessApply(w, risk)
  PROVE  AuthorityStep
<1> DEFINE d == tx[w].dest
<1>1. d \in Dests /\ dest \in [Dests -> DestRow] /\ UNCHANGED <<decision, ledger>>
  BY DEF IInv, Everyone, Fit, Rows, Typed, AssessApply, At, money
<1>2. \/ dest' = dest
      \/ /\ dest[d].status = "draft" /\ dest'[d].status = "pending_review"
         /\ \A e \in Dests : e # d => dest'[e] = dest[e]
  <2>1. CASE Promotes(d, tx[w].status)
    BY <2>1, <1>1 DEF AssessApply, Promotes, DestRow
  <2>2. CASE ~Promotes(d, tx[w].status)
    BY <2>2 DEF AssessApply
  <2> QED BY <2>1, <2>2
<1> HIDE DEF d
<1>3. \A e \in Dests : Standing(e)' = Standing(e)
  BY <1>1, <1>2 DEF Standing
<1> QED BY <1>1, <1>3, Unseen

LEMMA IssueSeen ==
  ASSUME IInv, NEW w \in Workers, Issue(w)
  PROVE  AuthorityStep
<1> DEFINE d == tx[w].dest
           k == Len(decision) + 1
           amount == tx[w].amount
           new == [status |-> "issued", dest |-> d, amount |-> amount,
                   epoch |-> dest[d].epoch, client |-> policy.client,
                   own |-> policy.own[d], expires |-> Expiry(w), ref |-> None]
<1>1. /\ d \in Dests /\ dest \in [Dests -> DestRow] /\ amount \in Amounts
      /\ dest[d].status \in {"active", "approved_pending_cooling"}
      /\ dest' = [dest EXCEPT ![d] = Promoted(d)] /\ ledger' = ledger
      /\ decision' = Append(decision, new) \/ decision' = decision
      /\ Len(decision) < MaxDecisions
  BY DEF IInv, Everyone, Fit, Rows, Typed, Issue, PreCheck, At, EvaluationStands, UsableGates
<1>2. Promoted(d).status = "active"
  BY <1>1 DEF Promoted, DestRow
<1>3. /\ \A e \in Dests : Standing(e)' = Standing(e)
      /\ Standing(d) = "whitelisted"
  BY <1>1, <1>2 DEF Standing
<1>4. CASE decision' = decision
  BY <1>1, <1>3, <1>4, Unseen
<1>5. CASE decision' = Append(decision, new)
  <2>1. /\ DOMAIN decision = 1..Len(decision) /\ k \in 1..MaxDecisions /\ Len(decision) \in Nat
        /\ decision \in Seq(DecisionRow)
    BY <1>1, RowTypes, BoundAssumption DEF IInv, Rows, Typed
  <2>2. new.dest = d /\ new.amount = amount /\ new.status = "issued"
    OBVIOUS
  <2> HIDE DEF new
  <2>3. /\ DOMAIN decision' = 1..k /\ decision'[k] = new
        /\ \A l \in 1..Len(decision) : decision'[l] = decision[l]
    BY <1>5, <2>1
  <2>4. Spent' = Spent
    <3>1. \A l \in 1..k : l = k \/ l \in 1..Len(decision)
      BY <2>1
    <3> QED BY <2>1, <2>2, <2>3, <3>1 DEF Spent
  <2>5. Granted[k] = None /\ Granted' = [Granted EXCEPT ![k] = [dest |-> d, amount |-> amount]]
    <3>1. k \notin 1..Len(decision) /\ 1..Len(decision) \subseteq 1..k
      BY <2>1
    <3>2. \A l \in 1..MaxDecisions : l # k => (l \in 1..k <=> l \in 1..Len(decision))
      BY <2>1
    <3> HIDE DEF d, amount, k
    <3>3. Granted[k] = None
      BY <2>1, <3>1 DEF Granted
    <3>4. Granted'[k] = [dest |-> d, amount |-> amount]
      BY <2>1, <2>2, <2>3, <3>1 DEF Granted
    <3>5. \A l \in 1..MaxDecisions : l # k => Granted'[l] = Granted[l]
      BY <2>1, <2>3, <3>1, <3>2 DEF Granted
    <3>6. Granted' \in [1..MaxDecisions -> {Granted'[l] : l \in 1..MaxDecisions}]
          /\ DOMAIN Granted = 1..MaxDecisions
      BY DEF Granted
    <3> QED BY <2>1, <3>3, <3>4, <3>5, <3>6
  <2>6. Standings' = Standings /\ Standings[d] = "whitelisted" /\ Entries' = Entries
    BY <1>1, <1>3 DEF Standings, Entries
  <2> HIDE DEF d, amount, k
  <2>7. PICK g \in 1..MaxDecisions, e \in Dests, a \in Amounts : g = k /\ e = d /\ a = amount
    BY <1>1, <2>1
  <2>8. Authority!Allow(g, e, a)
    BY <2>4, <2>5, <2>6, <2>7 DEF Authority!Allow, Standings, Granted, Spent, Entries
  <2> QED BY <2>8 DEF AuthorityStep, Authority!Next
<1> QED BY <1>1, <1>4, <1>5

LEMMA ConsumptionSeen ==
  ASSUME IInv, NEW w \in Workers, Consume(w)
  PROVE  AuthorityStep
<1> DEFINE k == tx[w].decision
           d == tx[w].dest
           pass == [decision |-> k, dest |-> d, whitelistV |-> tx[w].whitelistV,
                    amount |-> decision[k].amount, firstUse |-> tx[w].firstUse, at |-> tx[w].at]
           entry == [dest |-> d, amount |-> decision[k].amount]
<1>1. /\ d \in Dests /\ k \in DOMAIN decision /\ decision[k].dest = d /\ Held(w)
      /\ decision[k].status = "issued"
      /\ decision' = [decision EXCEPT ![k].status = "consumed", ![k].ref = tx[w].ref]
      /\ ledger' = Append(ledger, pass) /\ dest' = dest
  BY DEF IInv, Everyone, Fit, Consume, PassOf, At
<1>2. /\ DOMAIN decision = 1..Len(decision) /\ DOMAIN ledger = 1..Len(ledger)
      /\ Len(ledger) \in Nat /\ ledger \in Seq(PassRow) /\ k \in 1..MaxDecisions
      /\ decision[k] \in DecisionRow
  BY <1>1, RowTypes, BoundAssumption DEF IInv, Rows, Typed
<1>3. /\ DOMAIN decision' = DOMAIN decision
      /\ decision'[k].status = "consumed" /\ decision'[k].dest = d
      /\ decision'[k].amount = decision[k].amount
      /\ \A l \in DOMAIN decision : l # k => decision'[l] = decision[l]
  BY <1>1, <1>2 DEF DecisionRow
<1>4. Standings' = Standings /\ Standings[d] = "whitelisted"
  BY <1>1 DEF Standings, Standing, Held
<1>5. Granted' = Granted /\ Granted[k] = entry /\ entry # None
  <2>1. entry \in [dest : Dests, amount : Amounts]
    BY <1>1, <1>2 DEF DecisionRow
  <2>2. Granted' = Granted
    BY <1>1, <1>3 DEF Granted
  <2> QED BY <1>1, <1>2, <2>1, <2>2, NoneAssumption DEF Granted
<1>6. k \notin Spent /\ Spent' = Spent \cup {k}
  BY <1>1, <1>3 DEF Spent
<1>7. Entries' = Append(Entries, entry)
  <2>1. pass.dest = d /\ pass.amount = decision[k].amount
    OBVIOUS
  <2> HIDE DEF pass
  <2>2. /\ DOMAIN ledger' = 1..(Len(ledger) + 1) /\ ledger'[Len(ledger) + 1] = pass
        /\ \A i \in 1..Len(ledger) : ledger'[i] = ledger[i]
    BY <1>1, <1>2
  <2> DEFINE S == [dest : Dests, amount : Amounts]
  <2>3. Entries \in Seq(S) /\ Len(Entries) = Len(ledger)
        /\ \A i \in 1..Len(ledger) : Entries[i] = [dest |-> ledger[i].dest, amount |-> ledger[i].amount]
    <3>1. \A i \in 1..Len(ledger) : ledger[i] \in PassRow
      BY <1>2, ElementOfSeq
    <3>2. \A i \in 1..Len(ledger) : [dest |-> ledger[i].dest, amount |-> ledger[i].amount] \in S
      BY <3>1 DEF PassRow
    <3> QED BY <1>2, <3>2 DEF Entries
  <2>4. entry \in S
    BY <1>1, <1>2 DEF DecisionRow
  <2> HIDE DEF entry, S
  <2>5. /\ Append(Entries, entry) \in Seq(S) /\ Len(Append(Entries, entry)) = Len(ledger) + 1
        /\ \A i \in 1..Len(ledger) : Append(Entries, entry)[i] = Entries[i]
        /\ Append(Entries, entry)[Len(ledger) + 1] = entry
    BY <2>3, <2>4, AppendProperties
  <2>6. DOMAIN Append(Entries, entry) = 1..(Len(ledger) + 1)
    BY <2>5, LenProperties
  <2>7. \A i \in 1..(Len(ledger) + 1) : Entries'[i] = Append(Entries, entry)[i]
    <3>1. ASSUME NEW i \in 1..Len(ledger) PROVE Entries'[i] = Append(Entries, entry)[i]
      BY <1>2, <2>2, <2>3, <2>5 DEF Entries
    <3>2. Entries'[Len(ledger) + 1] = entry
      BY <1>2, <2>1, <2>2 DEF Entries, entry
    <3>3. \A i \in 1..(Len(ledger) + 1) : i \in 1..Len(ledger) \/ i = Len(ledger) + 1
      BY <1>2
    <3> QED BY <2>5, <3>1, <3>2, <3>3
  <2>8. DOMAIN Entries' = 1..(Len(ledger) + 1)
    BY <2>2 DEF Entries
  <2>9. Entries' = [i \in DOMAIN Entries' |-> Entries'[i]]
    BY DEF Entries
  <2>10. Append(Entries, entry) \in [1..(Len(ledger) + 1) -> S]
    BY <2>5, LenProperties
  <2> QED BY <2>7, <2>8, <2>9, <2>10
<1> HIDE DEF entry, pass
<1>8. entry.dest = d
  BY DEF entry
<1>9. PICK g \in 1..MaxDecisions : g = k
  BY <1>2
<1>10. Authority!Use(g)
  BY <1>4, <1>5, <1>6, <1>7, <1>8, <1>9 DEF Authority!Use, Standings, Granted, Spent, Entries
<1> QED BY <1>10 DEF AuthorityStep, Authority!Next

\* Whatever overlaps, the destination handlers do what DestinationAuthority promises: a destination
\* is whitelisted once and revoked for good, and a grant is used once, for the amount and the
\* destination it names, while that destination is whitelisted.
THEOREM Refinement == Spec => KeepsAuthority
<1>1. ASSUME Init PROVE Authority!Init
  <2>1. \A d \in Dests : Standing(d) \in {"candidate", "whitelisted"}
    BY <1>1 DEF Init, Active, Registered, Standing
  <2>2. Standings \in [Dests -> {"candidate", "whitelisted"}]
    BY <2>1 DEF Standings
  <2>3. decision = <<>> /\ ledger = <<>>
    BY <1>1 DEF Init
  <2>4. Granted = [k \in 1..MaxDecisions |-> None] /\ Spent = {} /\ Entries = <<>>
    BY <2>3 DEF Granted, Spent, Entries
  <2> QED BY <2>2, <2>4 DEF Authority!Init, Standings, Granted, Spent, Entries
<1>2. ASSUME IInv, [Next]_vars PROVE AuthorityStep
  <2>1. \/ UNCHANGED <<dest, decision, ledger>>
        \/ \E w \in Workers : ApplyApproval(w) \/ Issue(w) \/ Consume(w)
        \/ \E w \in Workers, risk \in {"clear", "hit"} : AssessApply(w, risk)
        \/ \E d \in Dests : /\ dest[d].status # "revoked" /\ dest' = Revoked(d)
                            /\ UNCHANGED <<decision, ledger>>
    BY <1>2 DEF Next, vars, Evidence, Approval, Evaluation, Consumption, Surroundings, AssessStart,
        AssessFail, Rescreen, Mandate, VerifyMandate, Evaluate, Queue, Refuse, Present, Admit,
        Replay, Deny, Abort, Revoke, SetClientPolicy, SetDestPolicy, Tick, money
  <2>2. CASE UNCHANGED <<dest, decision, ledger>>
    BY <2>2, Unseen DEF Standing
  <2> QED BY <1>2, <2>1, <2>2, ApprovalSeen, IssueSeen, ConsumptionSeen, AssessmentSeen,
             RevocationSeen
<1>3. IInv /\ [Next]_vars => AuthorityStep
  BY <1>2
<1> QED BY <1>1, <1>3, AlwaysIInv, PTL DEF Spec, KeepsAuthority, Authority!Spec, AuthorityStep
-----------------------------------------------------------------------------
(* Registrations and proof of control.  A key's answer names the row it    *)
(* made, rows keep their account, and a challenge counts what it refused.  *)

ControlStatuses == {None, "draft", "pending_review", "approved", "revoked"}
ChallengeStatuses == {None, "issued", "expired", "superseded", "failed", "verified"}
RegisteredRows == [account : Accounts \cup {None}, status : ControlStatuses]
AnswerRows == [account : Accounts \cup {None}, result : NewDests \cup {None, 0}]
ChallengeRows == [dest : NewDests \cup {0}, status : ChallengeStatuses, attempts : Nat, late : BOOLEAN]

ControlTyped ==
    /\ registered \in [NewDests -> RegisteredRows]
    /\ keys \in [{"internal", "public"} -> [Keys -> AnswerRows]]
    /\ poc \in [Challenges -> ChallengeRows]
    /\ refused \in [Challenges -> Nat]
\* A row is named by the account it was registered for.
Rowed(d) ==
    /\ registered[d].status = None <=> registered[d] = Control!NoDest
    /\ registered[d].account = None <=> registered[d] = Control!NoDest
\* The destination a key was answered with is there, and is the answer of no other key.
AnswersName ==
    \A door \in {"internal", "public"}, k \in Keys :
        LET d == keys[door][k].result IN
        d \in NewDests =>
            /\ registered[d] # Control!NoDest /\ keys[door][k].account = registered[d].account
            /\ \A other \in {"internal", "public"}, j \in Keys :
                  keys[other][j].result = d => other = door /\ j = k
HasAnswer ==
    \A d \in NewDests : registered[d] # Control!NoDest =>
        \E door \in {"internal", "public"}, k \in Keys : keys[door][k].result = d
\* What a challenge has refused is what it counted.
Counted(c) ==
    /\ poc[c].attempts <= MaxAttempts /\ refused[c] = poc[c].attempts
    /\ poc[c].status = "failed" <=> poc[c].attempts = MaxAttempts
    /\ poc[c].status = None => poc[c].attempts = 0
OneProof ==
    \A b, c \in Challenges :
        /\ poc[b].dest = poc[c].dest
        /\ poc[b].status \in {"issued", "verified"} /\ poc[c].status \in {"issued", "verified"}
        => b = c
ProvenWhenApproved ==
    \A d \in NewDests : registered[d].status = "approved" /\ registered[d].account \in Unhosted =>
        \E c \in Challenges : poc[c].dest = d /\ poc[c].status = "verified"
ControlIInv ==
    /\ ControlTyped
    /\ \A d \in NewDests : Rowed(d)
    /\ Control!OneLive /\ AnswersName /\ HasAnswer
    /\ \A c \in Challenges : Counted(c)
    /\ OneProof /\ ProvenWhenApproved

LEMMA ControlBegins == Control!Init => ControlIInv
<1> SUFFICES ASSUME Control!Init PROVE ControlIInv
  OBVIOUS
<1> USE MostAttempts, ControlAssumption DEF Control!Init, Control!NoDest, Control!NoKey, Control!NoPoc, Control!Doors
<1>1. ControlTyped
  BY DEF ControlTyped, RegisteredRows, AnswerRows, ChallengeRows, ControlStatuses, ChallengeStatuses
<1>2. \A d \in NewDests : Rowed(d)
  BY DEF Rowed
<1>3. Control!OneLive /\ AnswersName /\ HasAnswer
  BY DEF Control!OneLive, AnswersName, HasAnswer
<1>4. \A c \in Challenges : Counted(c)
  BY DEF Counted
<1>5. OneProof /\ ProvenWhenApproved
  BY DEF OneProof, ProvenWhenApproved
<1> QED BY <1>1, <1>2, <1>3, <1>4, <1>5 DEF ControlIInv

\* A row's name is a number, and the absent answer is no row.
LEMMA DestsArePositive == \A d \in NewDests : d >= d /\ d # None
  BY ControlAssumption

\* A refusal answers the key; a registration makes a fresh row of an account that is not taken.
LEMMA ControlRegisters ==
  ASSUME ControlIInv, NEW door \in {"internal", "public"}, NEW k \in Keys, NEW a \in Accounts,
         Control!Registered(door, k, a)
  PROVE  ControlIInv'
<1> USE MostAttempts, ControlAssumption
<1>0. UNCHANGED <<poc, refused>>
  BY DEF Control!Registered
<1>1. keys[door][k] = Control!NoKey
  BY DEF Control!Registered
<1>2. CASE Control!Taken(a) /\ Control!Complete(door, k, a, Control!Refused) /\ UNCHANGED registered
  <2>1. /\ keys' \in [{"internal", "public"} -> [Keys -> AnswerRows]]
        /\ keys'[door][k] = [account |-> a, result |-> 0]
        /\ \A e \in {"internal", "public"}, j \in Keys : e # door \/ j # k => keys'[e][j] = keys[e][j]
    BY <1>2 DEF Control!Complete, ControlIInv, ControlTyped, AnswerRows, Control!Refused
  <2>2. ControlTyped'
    BY <2>1, <1>0, <1>2 DEF ControlIInv, ControlTyped
  <2>3. AnswersName'
    BY <2>1, <1>2 DEF ControlIInv, AnswersName
  <2>4. HasAnswer'
    BY <2>1, <1>1, <1>2 DEF ControlIInv, HasAnswer, Control!NoKey, AnswersName
  <2>5. /\ (\A d \in NewDests : Rowed(d))' /\ Control!OneLive'
        /\ (\A c \in Challenges : Counted(c))' /\ OneProof' /\ ProvenWhenApproved'
    BY <1>0, <1>2 DEF ControlIInv, Rowed, Control!OneLive, Counted, OneProof, ProvenWhenApproved
  <2> QED BY <2>2, <2>3, <2>4, <2>5 DEF ControlIInv
<1>3. ASSUME ~Control!Taken(a), NEW d \in NewDests, Control!FirstFree(NewDests, registered, Control!NoDest, d),
             registered' = [registered EXCEPT ![d] = [account |-> a, status |-> "draft"]],
             Control!Complete(door, k, a, d)
      PROVE  ControlIInv'
  <2>1. registered[d] = Control!NoDest
    <3>1. d >= d
      BY DestsArePositive
    <3>2. registered[d] = Control!NoDest <=> d >= d
      BY ONLY <1>3 DEF Control!FirstFree
    <3> QED BY ONLY <3>1, <3>2
  <2>2. /\ keys' \in [{"internal", "public"} -> [Keys -> AnswerRows]]
        /\ keys'[door][k] = [account |-> a, result |-> d]
        /\ \A e \in {"internal", "public"}, j \in Keys : e # door \/ j # k => keys'[e][j] = keys[e][j]
    BY <1>3 DEF Control!Complete, ControlIInv, ControlTyped, AnswerRows
  <2>3. /\ registered' \in [NewDests -> RegisteredRows]
        /\ registered'[d] = [account |-> a, status |-> "draft"]
        /\ \A e \in NewDests : e # d => registered'[e] = registered[e]
    BY <1>3 DEF ControlIInv, ControlTyped, RegisteredRows, ControlStatuses
  <2>4. registered'[d].account = a /\ registered'[d].status = "draft" /\ registered'[d] # Control!NoDest
    BY <2>3 DEF Control!NoDest
  <2>5. ControlTyped'
    BY <2>2, <2>3, <1>0 DEF ControlIInv, ControlTyped
  <2>6. \A e \in NewDests : Rowed(e)'
    BY <2>3, <2>4 DEF ControlIInv, Rowed
  <2>7. Control!OneLive'
    <3>1. \A e \in NewDests : registered[e].account = a => registered[e].status = "revoked"
      BY <1>3 DEF Control!Taken
    <3> SUFFICES ASSUME NEW e \in NewDests, NEW f \in NewDests, e # f, registered'[e].account # None,
                        registered'[e].account = registered'[f].account
                 PROVE  "revoked" \in {registered'[e].status, registered'[f].status}
      BY DEF Control!OneLive
    <3>2. CASE e = d
      <4>1. registered'[f] = registered[f] /\ registered[f].account = a
        BY <3>2, <2>3, <2>4
      <4> QED BY <4>1, <3>1
    <3>3. CASE f = d
      <4>1. registered'[e] = registered[e] /\ registered[e].account = a
        BY <3>3, <2>3, <2>4
      <4> QED BY <4>1, <3>1
    <3>4. CASE e # d /\ f # d
      <4>1. registered'[e] = registered[e] /\ registered'[f] = registered[f]
        BY <3>4, <2>3
      <4>2. Control!OneLive
        BY DEF ControlIInv
      <4> QED BY <4>1, <4>2 DEF Control!OneLive
    <3> QED BY <3>2, <3>3, <3>4
  <2>8. \A e \in {"internal", "public"}, j \in Keys : keys[e][j].result # d
    BY <2>1 DEF ControlIInv, AnswersName
  <2>9. AnswersName'
    <3> SUFFICES ASSUME NEW e \in {"internal", "public"}, NEW i \in Keys, keys'[e][i].result \in NewDests
                 PROVE  /\ registered'[keys'[e][i].result] # Control!NoDest
                        /\ keys'[e][i].account = registered'[keys'[e][i].result].account
                        /\ \A other \in {"internal", "public"}, j \in Keys :
                              keys'[other][j].result = keys'[e][i].result => other = e /\ j = i
      BY DEF AnswersName
    <3>1. CASE e = door /\ i = k
      BY <3>1, <2>2, <2>4, <2>8
    <3>2. CASE e # door \/ i # k
      <4>1. keys'[e][i] = keys[e][i] /\ keys[e][i].result # d
        BY <3>2, <2>2, <2>8
      <4>2. registered'[keys[e][i].result] = registered[keys[e][i].result]
        BY <4>1, <2>3
      <4>3. \A other \in {"internal", "public"}, j \in Keys :
              keys'[other][j].result = keys[e][i].result => other = e /\ j = i
        BY <4>1, <2>2 DEF ControlIInv, AnswersName
      <4> QED BY <4>1, <4>2, <4>3 DEF ControlIInv, AnswersName
    <3> QED BY <3>1, <3>2
  <2>10. HasAnswer'
    <3> SUFFICES ASSUME NEW e \in NewDests, registered'[e] # Control!NoDest
                 PROVE  \E other \in {"internal", "public"}, j \in Keys : keys'[other][j].result = e
      BY DEF HasAnswer
    <3>1. CASE e = d
      BY <3>1, <2>2
    <3>2. CASE e # d
      <4>1. PICK other \in {"internal", "public"}, j \in Keys : keys[other][j].result = e
        BY <3>2, <2>3 DEF ControlIInv, HasAnswer
      <4>2. keys[door][k].result = None
        BY ONLY <1>1 DEF Control!NoKey
      <4>3. e # None
        BY DestsArePositive
      <4>4. other # door \/ j # k
        BY ONLY <4>1, <4>2, <4>3
      <4> QED BY <4>1, <4>4, <2>2
    <3> QED BY <3>1, <3>2
  <2>11. (\A c \in Challenges : Counted(c))' /\ OneProof'
    BY <1>0 DEF ControlIInv, Counted, OneProof
  <2>12. ProvenWhenApproved'
    <3>1. \A e \in NewDests : registered'[e].status = "approved" => registered'[e] = registered[e]
      BY <2>3, <2>4
    <3> SUFFICES ASSUME NEW e \in NewDests, registered'[e].status = "approved", registered'[e].account \in Unhosted
                 PROVE  \E c \in Challenges : poc'[c].dest = e /\ poc'[c].status = "verified"
      BY DEF ProvenWhenApproved
    <3>2. registered[e].status = "approved" /\ registered[e].account \in Unhosted
      BY <3>1
    <3>3. poc' = poc
      BY <1>0
    <3> QED BY <3>2, <3>3 DEF ControlIInv, ProvenWhenApproved
  <2> QED BY <2>5, <2>6, <2>7, <2>9, <2>10, <2>11, <2>12 DEF ControlIInv
<1> QED BY <1>2, <1>3 DEF Control!Registered

\* A step of the challenges leaves the rows, the answers and what each count means.
LEMMA ChallengeFrame ==
  ASSUME ControlIInv, UNCHANGED <<registered, keys>>,
         poc' \in [Challenges -> ChallengeRows], refused' \in [Challenges -> Nat],
         \A c \in Challenges : Counted(c)', OneProof',
         \A c \in Challenges : poc[c].status = "verified" => poc'[c] = poc[c]
  PROVE  ControlIInv'
<1>1. ControlTyped'
  BY DEF ControlIInv, ControlTyped
<1>2. (\A d \in NewDests : Rowed(d))' /\ Control!OneLive' /\ AnswersName' /\ HasAnswer'
  BY DEF ControlIInv, Rowed, Control!OneLive, AnswersName, HasAnswer
<1>3. ProvenWhenApproved'
  BY DEF ControlIInv, ProvenWhenApproved
<1> QED BY <1>1, <1>2, <1>3 DEF ControlIInv

LEMMA ControlIssues ==
  ASSUME ControlIInv, NEW d \in NewDests, NEW c \in Challenges, Control!Issue(d, c)
  PROVE  ControlIInv'
<1> USE MostAttempts, ControlAssumption
<1>1. /\ UNCHANGED <<registered, keys, refused>> /\ poc[c] = Control!NoPoc
      /\ poc' = [Control!EndsOpen(d) EXCEPT ![c] = Control!Issued(d)]
      /\ \A b \in Challenges : ~(poc[b].dest = d /\ poc[b].status = "verified")
  <2>1. /\ UNCHANGED <<registered, keys, refused>>
        /\ poc' = [Control!EndsOpen(d) EXCEPT ![c] = Control!Issued(d)]
    BY DEF Control!Issue
  <2>2. poc[c] = Control!NoPoc
    <3>1. poc[c] = Control!NoPoc <=> c >= c
      BY DEF Control!Issue, Control!FirstFree
    <3>2. c >= c
      BY ControlAssumption
    <3> QED BY <3>1, <3>2
  <2>3. \A b \in Challenges : ~(poc[b].dest = d /\ poc[b].status = "verified")
    BY DEF Control!Issue, Control!Unproven, Control!Of
  <2> QED BY <2>1, <2>2, <2>3
<1> DEFINE ended(b) == [poc[b] EXCEPT !.status = IF poc[b].late THEN "expired" ELSE "superseded"]
<1>2. \A b \in Challenges : ended(b) \in ChallengeRows
  BY DEF ControlIInv, ControlTyped, ChallengeRows, ChallengeStatuses
<1>3. \A b \in Challenges :
        /\ ended(b).dest = poc[b].dest /\ ended(b).attempts = poc[b].attempts
        /\ ended(b).status \in {"expired", "superseded"}
  BY DEF ControlIInv, ControlTyped, ChallengeRows
<1>4. Control!EndsOpen(d) = [b \in Challenges |-> IF poc[b].dest = d /\ poc[b].status = "issued" THEN ended(b) ELSE poc[b]]
  BY DEF Control!EndsOpen, Control!Of
<1>5. /\ Control!Issued(d) \in ChallengeRows
      /\ Control!Issued(d).dest = d /\ Control!Issued(d).status = "issued" /\ Control!Issued(d).attempts = 0
  BY DEF Control!Issued, Control!NoPoc, ChallengeRows, ChallengeStatuses
<1> HIDE DEF ended
<1>6. /\ poc' \in [Challenges -> ChallengeRows] /\ poc'[c] = Control!Issued(d)
      /\ \A b \in Challenges : b # c =>
            poc'[b] = IF poc[b].dest = d /\ poc[b].status = "issued" THEN ended(b) ELSE poc[b]
  BY <1>1, <1>2, <1>4, <1>5 DEF ControlIInv, ControlTyped
<1>7. \A b \in Challenges : b # c =>
        /\ poc'[b].dest = poc[b].dest /\ poc'[b].attempts = poc[b].attempts
        /\ \/ poc'[b] = poc[b]
           \/ poc[b].status = "issued" /\ poc'[b].status \in {"expired", "superseded"}
        /\ poc'[b].status \in {"issued", "verified"} => poc'[b] = poc[b] /\ poc[b].dest # d
  BY <1>1, <1>3, <1>6
<1>8. refused[c] = 0
  BY <1>1 DEF ControlIInv, Counted, Control!NoPoc
<1>9. \A b \in Challenges : Counted(b)'
  BY <1>1, <1>5, <1>6, <1>7, <1>8 DEF ControlIInv, Counted
<1>10. OneProof'
  BY <1>5, <1>6, <1>7 DEF ControlIInv, OneProof
<1>11. \A b \in Challenges : poc[b].status = "verified" => poc'[b] = poc[b]
  BY <1>1, <1>7 DEF Control!NoPoc
<1>12. refused' \in [Challenges -> Nat]
  BY <1>1 DEF ControlIInv, ControlTyped
<1> QED BY <1>1, <1>6, <1>9, <1>10, <1>11, <1>12, ChallengeFrame

LEMMA ControlVerifies ==
  ASSUME ControlIInv, NEW d \in NewDests, NEW c \in Challenges, NEW good \in BOOLEAN,
         Control!Verify(d, c, good)
  PROVE  ControlIInv'
<1> USE MostAttempts, ControlAssumption
<1>1. UNCHANGED <<registered, keys>> /\ poc[c].dest = d /\ poc[c].status = "issued" /\ poc[c] \in ChallengeRows
  BY DEF Control!Verify, Control!Answerable, ControlIInv, ControlTyped
<1>2. /\ poc[c].attempts < MaxAttempts /\ refused[c] = poc[c].attempts /\ poc[c].attempts \in Nat
  BY <1>1 DEF ControlIInv, Counted, ChallengeRows
<1>3. CASE poc' = [poc EXCEPT ![c].status = "expired"] /\ UNCHANGED refused
  <2>1. /\ poc' \in [Challenges -> ChallengeRows] /\ poc'[c].status = "expired"
        /\ poc'[c].dest = d /\ poc'[c].attempts = poc[c].attempts
        /\ \A b \in Challenges : b # c => poc'[b] = poc[b]
    BY <1>3, <1>1 DEF ControlIInv, ControlTyped, ChallengeRows, ChallengeStatuses
  <2>2. \A b \in Challenges : Counted(b)'
    BY <2>1, <1>2, <1>3 DEF ControlIInv, Counted
  <2>3. OneProof'
    BY <2>1, <1>1 DEF ControlIInv, OneProof
  <2>4. \A b \in Challenges : poc[b].status = "verified" => poc'[b] = poc[b]
    BY <2>1, <1>1
  <2>5. refused' \in [Challenges -> Nat]
    BY <1>3 DEF ControlIInv, ControlTyped
  <2> QED BY <1>1, <2>1, <2>2, <2>3, <2>4, <2>5, ChallengeFrame
<1>4. CASE Control!Wrong(c)
  <2>1. /\ poc' \in [Challenges -> ChallengeRows]
        /\ poc'[c].status = IF poc[c].attempts + 1 >= MaxAttempts THEN "failed" ELSE "issued"
        /\ poc'[c].dest = d /\ poc'[c].attempts = poc[c].attempts + 1
        /\ \A b \in Challenges : b # c => poc'[b] = poc[b]
    <3> DEFINE more == [poc[c] EXCEPT !.attempts = @ + 1,
                                      !.status = IF poc[c].attempts + 1 >= MaxAttempts THEN "failed" ELSE @]
    <3>1. poc' = [poc EXCEPT ![c] = more]
      BY <1>4 DEF Control!Wrong, Control!Attempt
    <3>2. /\ more.status = IF poc[c].attempts + 1 >= MaxAttempts THEN "failed" ELSE "issued"
          /\ more.dest = d /\ more.attempts = poc[c].attempts + 1
      BY <1>1, <1>2 DEF ChallengeRows
    <3>3. more \in ChallengeRows
      <4> DEFINE s == IF poc[c].attempts + 1 >= MaxAttempts THEN "failed" ELSE poc[c].status
                 n == poc[c].attempts + 1
      <4>1. s \in ChallengeStatuses /\ n \in Nat
        BY <1>1, <1>2 DEF ChallengeStatuses
      <4>2. more = [poc[c] EXCEPT !.attempts = n, !.status = s]
        OBVIOUS
      <4> HIDE DEF s, n, more
      <4> QED BY <4>1, <4>2, <1>1 DEF ChallengeRows
    <3> HIDE DEF more
    <3> QED BY <3>1, <3>2, <3>3 DEF ControlIInv, ControlTyped
  <2>2. /\ refused' \in [Challenges -> Nat] /\ refused'[c] = refused[c] + 1
        /\ \A b \in Challenges : b # c => refused'[b] = refused[b]
    BY <1>4, <1>2 DEF ControlIInv, ControlTyped, Control!Wrong
  <2>3. Counted(c)'
    BY <2>1, <2>2, <1>2 DEF Counted
  <2>4. \A b \in Challenges : Counted(b)'
    BY <2>1, <2>2, <2>3 DEF ControlIInv, Counted
  <2>5. OneProof'
    BY <2>1, <1>1 DEF ControlIInv, OneProof
  <2>6. \A b \in Challenges : poc[b].status = "verified" => poc'[b] = poc[b]
    BY <2>1, <1>1
  <2> QED BY <1>1, <2>1, <2>2, <2>4, <2>5, <2>6, ChallengeFrame
<1>5. CASE Control!Proven(d, c)
  <2>1. /\ poc' \in [Challenges -> ChallengeRows] /\ poc'[c].status = "verified"
        /\ poc'[c].dest = d /\ poc'[c].attempts = poc[c].attempts
        /\ \A b \in Challenges : b # c => poc'[b] = poc[b]
    BY <1>5, <1>1 DEF ControlIInv, ControlTyped, ChallengeRows, ChallengeStatuses, Control!Proven
  <2>2. \A b \in Challenges : Counted(b)'
    BY <2>1, <1>2, <1>5 DEF ControlIInv, Counted, Control!Proven
  <2>3. OneProof'
    BY <2>1, <1>1 DEF ControlIInv, OneProof
  <2>4. \A b \in Challenges : poc[b].status = "verified" => poc'[b] = poc[b]
    BY <2>1, <1>1
  <2>5. refused' \in [Challenges -> Nat]
    BY <1>5 DEF ControlIInv, ControlTyped, Control!Proven
  <2> QED BY <1>1, <2>1, <2>2, <2>3, <2>4, <2>5, ChallengeFrame
<1> QED BY <1>3, <1>4, <1>5 DEF Control!Verify

\* A step of a row's status: from what, to what, and the proof it needs.
LEMMA ControlMoves ==
  ASSUME ControlIInv, UNCHANGED <<keys, poc, refused>>, NEW d \in NewDests, NEW s \in ControlStatuses \ {None},
         registered' = [registered EXCEPT ![d].status = s],
         registered[d].status \notin {None, "revoked"},
         s = "approved" /\ registered[d].account \in Unhosted =>
             \E c \in Challenges : poc[c].dest = d /\ poc[c].status = "verified"
  PROVE  ControlIInv'
<1>1. /\ registered' \in [NewDests -> RegisteredRows]
      /\ registered'[d].status = s /\ registered'[d].account = registered[d].account
      /\ \A e \in NewDests : e # d => registered'[e] = registered[e]
  BY DEF ControlIInv, ControlTyped, RegisteredRows
<1>2. registered[d] # Control!NoDest /\ registered[d].account # None
  BY DEF ControlIInv, Rowed, Control!NoDest
<1>3. registered'[d] # Control!NoDest
  BY <1>1, <1>2 DEF Control!NoDest
<1>4. ControlTyped'
  BY <1>1 DEF ControlIInv, ControlTyped
<1>5. \A e \in NewDests : Rowed(e)'
  BY <1>1, <1>2, <1>3 DEF ControlIInv, Rowed
<1>6. Control!OneLive'
  BY <1>1 DEF ControlIInv, Control!OneLive
<1>7. AnswersName' /\ HasAnswer'
  BY <1>1, <1>2, <1>3 DEF ControlIInv, AnswersName, HasAnswer
<1>8. (\A c \in Challenges : Counted(c))' /\ OneProof'
  BY DEF ControlIInv, Counted, OneProof
<1>9. ProvenWhenApproved'
  BY <1>1 DEF ControlIInv, ProvenWhenApproved
<1> QED BY <1>4, <1>5, <1>6, <1>7, <1>8, <1>9 DEF ControlIInv

LEMMA ControlElapses ==
  ASSUME ControlIInv, NEW c \in Challenges, Control!Elapse(c)
  PROVE  ControlIInv'
<1>1. UNCHANGED <<registered, keys, refused>> /\ poc[c].status = "issued"
  BY DEF Control!Elapse
<1>2. /\ poc' \in [Challenges -> ChallengeRows] /\ poc'[c].status = poc[c].status
      /\ poc'[c].dest = poc[c].dest /\ poc'[c].attempts = poc[c].attempts
      /\ \A b \in Challenges : b # c => poc'[b] = poc[b]
  BY DEF Control!Elapse, ControlIInv, ControlTyped, ChallengeRows
<1>3. \A b \in Challenges : Counted(b)'
  BY <1>1, <1>2 DEF ControlIInv, Counted
<1>4. OneProof'
  BY <1>2 DEF ControlIInv, OneProof
<1>5. \A b \in Challenges : poc[b].status = "verified" => poc'[b] = poc[b]
  BY <1>1, <1>2
<1>6. refused' \in [Challenges -> Nat]
  BY <1>1 DEF ControlIInv, ControlTyped
<1> QED BY <1>1, <1>2, <1>3, <1>4, <1>5, <1>6, ChallengeFrame

LEMMA ControlStep == ControlIInv /\ [Control!Next]_controlVars => ControlIInv'
<1> SUFFICES ASSUME ControlIInv, [Control!Next]_controlVars PROVE ControlIInv'
  OBVIOUS
<1> USE MostAttempts, ControlAssumption
<1>1. ASSUME NEW k \in Keys, NEW a \in Accounts,
             \/ Control!RegisterWallet(k, a) \/ Control!RegisterPayout(k, a)
             \/ Control!PublicRegisterWallet(k, a) \/ Control!PublicRegisterPayout(k, a)
      PROVE  ControlIInv'
  <2>1. PICK door \in {"internal", "public"} : Control!Registered(door, k, a)
    BY <1>1 DEF Control!RegisterWallet, Control!RegisterPayout, Control!PublicRegisterWallet, Control!PublicRegisterPayout
  <2> QED BY <2>1, ControlRegisters
<1>2. ASSUME NEW d \in NewDests, NEW c \in Challenges, Control!Issue(d, c) \/ Control!PublicIssue(d, c)
      PROVE  ControlIInv'
  BY <1>2, ControlIssues DEF Control!PublicIssue
<1>3. ASSUME NEW d \in NewDests, NEW c \in Challenges, NEW good \in BOOLEAN,
             Control!Verify(d, c, good) \/ Control!PublicVerify(d, c, good)
      PROVE  ControlIInv'
  BY <1>3, ControlVerifies DEF Control!PublicVerify
<1>4. ASSUME NEW d \in NewDests, UNCHANGED <<keys, poc, refused>>, Control!Screened(d)
      PROVE  ControlIInv'
  <2>1. "pending_review" \in ControlStatuses \ {None}
    BY DEF ControlStatuses
  <2> QED BY <2>1, <1>4, ControlMoves DEF Control!Screened
<1>5. ASSUME NEW d \in NewDests, UNCHANGED <<keys, poc, refused>>, Control!Approve(d)
      PROVE  ControlIInv'
  <2>1. "approved" \in ControlStatuses \ {None}
    BY DEF ControlStatuses
  <2>2. registered[d].account \in Unhosted => \E c \in Challenges : poc[c].dest = d /\ poc[c].status = "verified"
    BY <1>5 DEF Control!Approve, Control!Gate, Control!Of
  <2> QED BY <2>1, <2>2, <1>5, ControlMoves DEF Control!Approve, Control!Gate, Control!UnderReview
<1>6. ASSUME NEW d \in NewDests, UNCHANGED <<keys, poc, refused>>, Control!Revoke(d)
      PROVE  ControlIInv'
  <2>1. "revoked" \in ControlStatuses \ {None}
    BY DEF ControlStatuses
  <2> QED BY <2>1, <1>6, ControlMoves DEF Control!Revoke
<1>7. ASSUME NEW c \in Challenges, Control!Elapse(c)
      PROVE  ControlIInv'
  BY <1>7, ControlElapses
<1>8. CASE UNCHANGED controlVars
  <2>1. UNCHANGED registered /\ UNCHANGED keys /\ UNCHANGED poc /\ UNCHANGED refused
    BY <1>8 DEF controlVars
  <2>2. ControlTyped' /\ \A d \in NewDests : Rowed(d)'
    BY <2>1 DEF ControlIInv, ControlTyped, Rowed
  <2>3. Control!OneLive' /\ AnswersName' /\ HasAnswer'
    BY <2>1 DEF ControlIInv, Control!OneLive, AnswersName, HasAnswer
  <2>4. (\A c \in Challenges : Counted(c)') /\ OneProof' /\ ProvenWhenApproved'
    BY <2>1 DEF ControlIInv, Counted, OneProof, ProvenWhenApproved
  <2> QED BY <2>2, <2>3, <2>4 DEF ControlIInv
<1> QED BY <1>1, <1>2, <1>3, <1>4, <1>5, <1>6, <1>7, <1>8 DEF Control!Next

\* What the inductive invariant says, in the words of the component.
LEMMA ControlMeans ==
  ASSUME ControlIInv
  PROVE  /\ Control!TypeOK /\ Control!OneLive /\ Control!MadeByOneKey
         /\ Control!GuessesBounded /\ Control!OneOpen /\ Control!ApprovedIsProven
<1> USE MostAttempts, ControlAssumption
<1>1. Control!TypeOK
  BY DEF ControlIInv, ControlTyped, RegisteredRows, AnswerRows, ChallengeRows, ControlStatuses, ChallengeStatuses,
     Counted, Control!TypeOK, Control!Doors, Control!Refused
<1>2. Control!MadeByOneKey
  <2> SUFFICES ASSUME NEW d \in NewDests, registered[d] # Control!NoDest
               PROVE  \E door \in {"internal", "public"}, k \in Keys :
                        /\ keys[door][k] = [account |-> registered[d].account, result |-> d]
                        /\ \A other \in {"internal", "public"}, j \in Keys :
                              keys[other][j].result = d => other = door /\ j = k
    BY DEF Control!MadeByOneKey, Control!Doors
  <2>1. PICK door \in {"internal", "public"}, k \in Keys : keys[door][k].result = d
    BY DEF ControlIInv, HasAnswer
  <2>2. keys[door][k] \in AnswerRows
    BY DEF ControlIInv, ControlTyped
  <2>3. keys[door][k] = [account |-> registered[d].account, result |-> d]
    BY <2>1, <2>2 DEF ControlIInv, AnswersName, AnswerRows
  <2> QED BY <2>1, <2>3 DEF ControlIInv, AnswersName
<1>3. Control!GuessesBounded
  BY DEF ControlIInv, Counted, Control!GuessesBounded
<1>4. Control!OneOpen
  BY DEF ControlIInv, OneProof, Control!OneOpen, Control!Of
<1>5. Control!ApprovedIsProven
  <2> SUFFICES ASSUME NEW d \in NewDests, registered[d].status = "approved", registered[d].account \in Unhosted
               PROVE  \E c \in Control!Of(d, "verified") : refused[c] < MaxAttempts
    BY DEF Control!ApprovedIsProven
  <2>1. PICK c \in Challenges : poc[c].dest = d /\ poc[c].status = "verified"
    BY DEF ControlIInv, ProvenWhenApproved
  <2>2. refused[c] < MaxAttempts
    BY <2>1 DEF ControlIInv, ControlTyped, ChallengeRows, Counted
  <2> QED BY <2>1, <2>2 DEF Control!Of
<1> QED BY <1>1, <1>2, <1>3, <1>4, <1>5 DEF ControlIInv
-----------------------------------------------------------------------------
(* Sources and exports.  A row is written once, a key names its request    *)
(* for good, and a collection is of the snapshot it began with.            *)

KeyRows == [status : {None, "processing", "completed"}, transfer : Transfers \cup {None},
            source : Sources \cup {None}, result : Transfers \cup {None}]
SourceRows == [source : Sources \cup {None}, risk : SourceRisks \cup {None}]
ExportRows == [first : Nat, second : Nat]
RecordPoints == {"idle", "calling", "screened", "verifying", "collecting", "first", "second", "sending"}
RecordTasks == [at : RecordPoints, key : Keys \cup {None}, risk : SourceRisks \cup {None},
                approval : Exports \cup {None}, snapshot : Nat, first : Nat]

RecordsTyped ==
    /\ key \in [Keys -> KeyRows]
    /\ sourceRow \in [Transfers -> SourceRows]
    /\ written \in Nat
    /\ exported \in [Exports -> ExportRows]
    /\ work \in [Workers -> RecordTasks]
    /\ answered \in [Keys -> SUBSET (Sources \X SourceRisks)]
\* A source that has been recorded is one of the inputs, with a risk the provider gave.
SourceRecorded(t) ==
    sourceRow[t] # Records!NoRow => sourceRow[t].source \in Sources /\ sourceRow[t].risk \in SourceRisks
\* A key in use names its transfer and source, and its result once it is completed.
KeyNames(k) ==
    /\ key[k] # Records!NoKey => key[k].transfer \in Transfers /\ key[k].source \in Sources
    /\ key[k].status = "completed" =>
          /\ key[k] # Records!NoKey /\ key[k].result = key[k].transfer
          /\ sourceRow[key[k].transfer] # Records!NoRow /\ sourceRow[key[k].transfer].source = key[k].source
\* Only a completed key has been answered, with what its row says.
AnsweredSo(k) ==
    answered[k] # {} =>
        /\ key[k].status = "completed"
        /\ answered[k] = {<<key[k].source, sourceRow[key[k].transfer].risk>>}
\* What a request relies on where it is.
RecordTask(w) ==
    /\ work[w].at \in {"calling", "screened"} => work[w].key \in Keys /\ key[work[w].key] # Records!NoKey
    /\ work[w].at = "screened" => work[w].risk \in SourceRisks
    /\ work[w].at \in {"verifying", "collecting", "first", "second", "sending"} => work[w].approval \in Exports
    /\ work[w].at = "second" => work[w].first = work[w].snapshot /\ work[w].first <= MaxRecords
    /\ work[w].at = "sending" => work[w].approval \in logged
ExportSound(a) == exported[a].first = exported[a].second /\ exported[a].first + exported[a].second <= MaxRecords
RecordsIInv ==
    /\ RecordsTyped
    /\ \A t \in Transfers : SourceRecorded(t)
    /\ \A k \in Keys : KeyNames(k)
    /\ \A k \in Keys : AnsweredSo(k)
    /\ \A w \in Workers : RecordTask(w)
    /\ \A a \in Exports : ExportSound(a)
    /\ sent \subseteq logged

LEMMA RecordsIdle ==
  /\ Records!Idle \in RecordTasks /\ Records!Idle.at = "idle" /\ Records!Idle.first = 0 /\ Records!Idle.snapshot = 0
  /\ Records!Idle.key = None /\ Records!Idle.approval = None /\ Records!Idle.risk = None
BY DEF Records!Idle, RecordTasks, RecordPoints

LEMMA RecordsBegin == Records!Init => RecordsIInv
<1> SUFFICES ASSUME Records!Init PROVE RecordsIInv
  OBVIOUS
<1> USE MostRecords, RecordsAssumption DEF Records!Init
<1>1. RecordsTyped
  BY RecordsIdle DEF RecordsTyped, KeyRows, SourceRows, ExportRows, Records!NoKey, Records!NoRow, Records!NoExport
<1>2. \A t \in Transfers : SourceRecorded(t)
  BY DEF SourceRecorded
<1>3. \A k \in Keys : KeyNames(k) /\ AnsweredSo(k)
  BY DEF KeyNames, AnsweredSo, Records!NoKey
<1>4. \A w \in Workers : RecordTask(w)
  BY RecordsIdle DEF RecordTask
<1>5. \A a \in Exports : ExportSound(a)
  BY DEF ExportSound, Records!NoExport
<1> QED BY <1>1, <1>2, <1>3, <1>4, <1>5 DEF RecordsIInv

\* A step of one request that leaves the keys and the rows of sources as they are.
LEMMA RecordsWork ==
  ASSUME RecordsIInv, UNCHANGED <<key, sourceRow, answered>>, written' \in Nat,
         exported' \in [Exports -> ExportRows], work' \in [Workers -> RecordTasks],
         \A w \in Workers : RecordTask(w)', \A a \in Exports : ExportSound(a)', sent' \subseteq logged'
  PROVE  RecordsIInv'
<1>1. RecordsTyped'
  BY DEF RecordsIInv, RecordsTyped
<1>2. key' = key /\ sourceRow' = sourceRow /\ answered' = answered
  OBVIOUS
<1>3. /\ \A t \in Transfers : SourceRecorded(t)'
      /\ \A k \in Keys : KeyNames(k)'
      /\ \A k \in Keys : AnsweredSo(k)'
  BY <1>2 DEF RecordsIInv, SourceRecorded, KeyNames, AnsweredSo
<1> QED BY <1>1, <1>3 DEF RecordsIInv

\* One request moves to where what it relies on holds; the others see the same rows.
LEMMA RecordsMove ==
  ASSUME RecordsIInv, NEW w \in Workers, NEW task \in RecordTasks, work' = [work EXCEPT ![w] = task],
         UNCHANGED <<key, sourceRow, answered, exported>>, written' \in Nat, logged \subseteq logged',
         sent' \subseteq logged', RecordTask(w)'
  PROVE  RecordsIInv'
<1>1. work' \in [Workers -> RecordTasks] /\ \A v \in Workers : v # w => work'[v] = work[v]
  BY DEF RecordsIInv, RecordsTyped
<1>2. \A v \in Workers : RecordTask(v)'
  BY <1>1 DEF RecordsIInv, RecordTask
<1>3. exported' \in [Exports -> ExportRows] /\ \A a \in Exports : ExportSound(a)'
  BY DEF RecordsIInv, RecordsTyped, ExportSound
<1> QED BY <1>1, <1>2, <1>3, RecordsWork

LEMMA RecordsRest ==
  ASSUME RecordsIInv, NEW w \in Workers, Records!Rest(w),
         UNCHANGED <<key, sourceRow, answered, exported, written>>, logged \subseteq logged', sent' \subseteq logged'
  PROVE  RecordsIInv'
<1>1. work' = [work EXCEPT ![w] = Records!Idle] /\ work'[w] = Records!Idle
  BY DEF Records!Rest, RecordsIInv, RecordsTyped
<1>2. RecordTask(w)'
  BY <1>1, RecordsIdle DEF RecordTask
<1>3. written' \in Nat
  BY DEF RecordsIInv, RecordsTyped
<1> QED BY <1>1, <1>2, <1>3, RecordsIdle, RecordsMove

\* What a key is told is what its row says.
LEMMA RecordsScreen ==
  ASSUME RecordsIInv, NEW w \in Workers, NEW k \in Keys, NEW t \in Transfers, NEW s \in Sources,
         Records!ScreenSource(w, k, t, s)
  PROVE  RecordsIInv'
<1> USE MostRecords, RecordsAssumption
<1>0. UNCHANGED <<sourceRow, written, exported, logged, sent>> /\ work[w].at = "idle"
  BY DEF Records!ScreenSource, Records!Now
<1>1. CASE Records!Replay(k, t, s)
  <2>1. /\ UNCHANGED <<key, work>> /\ key[k].status = "completed"
        /\ answered' = [answered EXCEPT ![k] = @ \cup {<<sourceRow[key[k].result].source, sourceRow[key[k].result].risk>>}]
    BY <1>1 DEF Records!Replay, Records!Told
  <2>2. /\ key[k].result = key[k].transfer /\ key[k].transfer \in Transfers
        /\ sourceRow[key[k].transfer].source = key[k].source
        /\ sourceRow[key[k].transfer].source \in Sources /\ sourceRow[key[k].transfer].risk \in SourceRisks
    BY <2>1 DEF RecordsIInv, KeyNames, SourceRecorded
  <2>3. /\ answered' \in [Keys -> SUBSET (Sources \X SourceRisks)]
        /\ answered'[k] = answered[k] \cup {<<key[k].source, sourceRow[key[k].transfer].risk>>}
        /\ \A j \in Keys : j # k => answered'[j] = answered[j]
    BY <2>1, <2>2 DEF RecordsIInv, RecordsTyped
  <2>4. RecordsTyped'
    BY <1>0, <2>1, <2>3 DEF RecordsIInv, RecordsTyped
  <2>5. answered'[k] = {<<key[k].source, sourceRow[key[k].transfer].risk>>}
    BY <2>3 DEF RecordsIInv, AnsweredSo
  <2>6. \A j \in Keys : AnsweredSo(j)'
    BY <1>0, <2>1, <2>3, <2>5 DEF RecordsIInv, AnsweredSo
  <2>7. /\ \A j \in Transfers : SourceRecorded(j)'
        /\ \A j \in Keys : KeyNames(j)'
        /\ \A v \in Workers : RecordTask(v)'
        /\ \A a \in Exports : ExportSound(a)'
        /\ sent' \subseteq logged'
    BY <1>0, <2>1 DEF RecordsIInv, SourceRecorded, KeyNames, RecordTask, ExportSound
  <2> QED BY <2>4, <2>6, <2>7 DEF RecordsIInv
<1>2. CASE Records!Known(k, t, s)
  <2> DEFINE named == [status |-> "completed", transfer |-> t, source |-> s, result |-> t]
  <2>1. /\ key' = [key EXCEPT ![k] = named] /\ UNCHANGED work /\ key[k] = Records!NoKey
        /\ sourceRow[t] # Records!NoRow /\ sourceRow[t].source = s
        /\ answered' = [answered EXCEPT ![k] = @ \cup {<<sourceRow[t].source, sourceRow[t].risk>>}]
    BY <1>2 DEF Records!Known, Records!Told, Records!SameSource
  <2>2. /\ named \in KeyRows /\ named # Records!NoKey /\ named.status = "completed"
        /\ named.transfer = t /\ named.source = s /\ named.result = t
    BY DEF KeyRows, Records!NoKey
  <2>3. answered[k] = {}
    BY <2>1 DEF RecordsIInv, AnsweredSo, Records!NoKey
  <2>4. sourceRow[t].risk \in SourceRisks
    BY <2>1 DEF RecordsIInv, SourceRecorded
  <2> HIDE DEF named
  <2>5. /\ key' \in [Keys -> KeyRows] /\ key'[k] = named /\ \A j \in Keys : j # k => key'[j] = key[j]
        /\ answered' \in [Keys -> SUBSET (Sources \X SourceRisks)]
        /\ answered'[k] = {<<s, sourceRow[t].risk>>}
        /\ \A j \in Keys : j # k => answered'[j] = answered[j]
    BY <2>1, <2>2, <2>3, <2>4 DEF RecordsIInv, RecordsTyped
  <2>6. RecordsTyped'
    BY <1>0, <2>1, <2>5 DEF RecordsIInv, RecordsTyped
  <2>7. (\A j \in Keys : AnsweredSo(j)') /\ (\A j \in Keys : KeyNames(j)')
    BY <1>0, <2>1, <2>2, <2>5 DEF RecordsIInv, AnsweredSo, KeyNames
  <2>8. \A v \in Workers : RecordTask(v)'
    BY <1>0, <2>1, <2>2, <2>5 DEF RecordsIInv, RecordTask
  <2>9. (\A j \in Transfers : SourceRecorded(j)') /\ (\A a \in Exports : ExportSound(a)') /\ sent' \subseteq logged'
    BY <1>0 DEF RecordsIInv, SourceRecorded, ExportSound
  <2> QED BY <2>6, <2>7, <2>8, <2>9 DEF RecordsIInv
<1>3. CASE Records!Unknown(w, k, t, s)
  <2> DEFINE named == [status |-> "processing", transfer |-> t, source |-> s, result |-> None]
             task == [Records!Idle EXCEPT !.at = "calling", !.key = k]
  <2>1. /\ key' = [key EXCEPT ![k] = named] /\ key[k] = Records!NoKey
        /\ work' = [work EXCEPT ![w] = task] /\ UNCHANGED answered
    BY <1>3 DEF Records!Unknown
  <2>2. /\ named \in KeyRows /\ named # Records!NoKey /\ named.status = "processing"
        /\ named.transfer = t /\ named.source = s
    BY DEF KeyRows, Records!NoKey
  <2>3. task \in RecordTasks /\ task.at = "calling" /\ task.key = k
    BY RecordsIdle DEF RecordTasks, RecordPoints
  <2>4. answered[k] = {}
    BY <2>1 DEF RecordsIInv, AnsweredSo, Records!NoKey
  <2> HIDE DEF named, task
  <2>5. /\ key' \in [Keys -> KeyRows] /\ key'[k] = named /\ \A j \in Keys : j # k => key'[j] = key[j]
        /\ work' \in [Workers -> RecordTasks] /\ work'[w] = task
        /\ \A v \in Workers : v # w => work'[v] = work[v]
    BY <2>1, <2>2, <2>3 DEF RecordsIInv, RecordsTyped
  <2>6. RecordsTyped'
    BY <1>0, <2>1, <2>5 DEF RecordsIInv, RecordsTyped
  <2>7. (\A j \in Keys : AnsweredSo(j)') /\ (\A j \in Keys : KeyNames(j)')
    BY <1>0, <2>1, <2>2, <2>4, <2>5 DEF RecordsIInv, AnsweredSo, KeyNames
  <2>8. RecordTask(w)'
    BY <2>2, <2>3, <2>5 DEF RecordTask
  <2>9. \A v \in Workers : RecordTask(v)'
    BY <1>0, <2>2, <2>5, <2>8 DEF RecordsIInv, RecordTask
  <2>10. (\A j \in Transfers : SourceRecorded(j)') /\ (\A a \in Exports : ExportSound(a)') /\ sent' \subseteq logged'
    BY <1>0 DEF RecordsIInv, SourceRecorded, ExportSound
  <2> QED BY <2>6, <2>7, <2>9, <2>10 DEF RecordsIInv
<1> QED BY <1>1, <1>2, <1>3 DEF Records!ScreenSource

LEMMA RecordsProvider ==
  ASSUME RecordsIInv, NEW w \in Workers, NEW r \in SourceRisks, Records!Provider(w, r)
  PROVE  RecordsIInv'
<1> DEFINE task == [work[w] EXCEPT !.at = "screened", !.risk = r]
<1>1. /\ work[w] \in RecordTasks /\ work[w].at = "calling" /\ work' = [work EXCEPT ![w] = task]
      /\ UNCHANGED <<key, sourceRow, answered, exported, written, logged, sent>>
  BY DEF Records!Provider, Records!Now, RecordsIInv, RecordsTyped
<1>2. task \in RecordTasks /\ task.at = "screened" /\ task.risk = r /\ task.key = work[w].key
  BY <1>1 DEF RecordTasks, RecordPoints
<1> HIDE DEF task
<1>3. work'[w] = task
  BY <1>1 DEF RecordsIInv, RecordsTyped
<1>4. RecordTask(w)'
  BY <1>1, <1>2, <1>3 DEF RecordsIInv, RecordTask
<1>5. written' \in Nat /\ sent' \subseteq logged'
  BY <1>1 DEF RecordsIInv, RecordsTyped
<1> QED BY <1>1, <1>2, <1>4, <1>5, RecordsMove

\* The second transaction completes the key with the row, its own or the one that was first.
LEMMA RecordsFinish ==
  ASSUME RecordsIInv, NEW w \in Workers, Records!Finish(w)
  PROVE  RecordsIInv'
<1> USE MostRecords, RecordsAssumption
<1> DEFINE k == work[w].key
           t == key[k].transfer
           done == [key[k] EXCEPT !.status = "completed", !.result = t]
<1>1. /\ work[w].at = "screened" /\ work[w] \in RecordTasks
      /\ UNCHANGED <<written, exported, logged, sent>>
      /\ Records!Rest(w) /\ (Records!Record(w, k, t) \/ Records!Adopt(w, k, t))
  BY DEF Records!Finish, Records!Now, RecordsIInv, RecordsTyped
<1>2. /\ k \in Keys /\ key[k] # Records!NoKey /\ work[w].risk \in SourceRisks
      /\ key[k] \in KeyRows /\ t \in Transfers /\ key[k].source \in Sources
  BY <1>1 DEF RecordsIInv, RecordsTyped, RecordTask, KeyNames
<1>3. /\ work' \in [Workers -> RecordTasks] /\ work'[w].at = "idle"
      /\ \A v \in Workers : v # w => work'[v] = work[v]
  BY <1>1, RecordsIdle DEF Records!Rest, RecordsIInv, RecordsTyped
<1>4. /\ done \in KeyRows /\ done.status = "completed" /\ done.transfer = t /\ done.result = t
      /\ done.source = key[k].source /\ done # Records!NoKey
  BY <1>2 DEF KeyRows, Records!NoKey
<1>5. Records!Completed(k, t) => key' = [key EXCEPT ![k] = done]
  BY DEF Records!Completed
<1> HIDE DEF done, k, t
<1>6. CASE Records!Record(w, k, t)
  <2> DEFINE made == [source |-> key[k].source, risk |-> work[w].risk]
  <2>1. /\ sourceRow[t] = Records!NoRow /\ sourceRow' = [sourceRow EXCEPT ![t] = made]
        /\ key' = [key EXCEPT ![k] = done]
        /\ answered' = [answered EXCEPT ![k] = @ \cup {<<key[k].source, work[w].risk>>}]
    BY <1>5, <1>6 DEF Records!Record, Records!Told
  <2>2. /\ made \in SourceRows /\ made # Records!NoRow /\ made.source = key[k].source /\ made.risk = work[w].risk
    BY <1>2 DEF SourceRows, Records!NoRow
  <2>3. /\ answered[k] = {} /\ key[k].status # "completed"
    BY <1>2, <2>1 DEF RecordsIInv, AnsweredSo, KeyNames, t
  <2> HIDE DEF made
  <2>4. /\ sourceRow' \in [Transfers -> SourceRows] /\ sourceRow'[t] = made
        /\ \A j \in Transfers : j # t => sourceRow'[j] = sourceRow[j]
        /\ key' \in [Keys -> KeyRows] /\ key'[k] = done /\ \A j \in Keys : j # k => key'[j] = key[j]
    BY <2>1, <2>2, <1>2, <1>4 DEF RecordsIInv, RecordsTyped
  <2>5. /\ answered' \in [Keys -> SUBSET (Sources \X SourceRisks)]
        /\ answered'[k] = {<<key[k].source, work[w].risk>>}
        /\ \A j \in Keys : j # k => answered'[j] = answered[j]
    BY <2>1, <2>3, <1>2 DEF RecordsIInv, RecordsTyped
  <2>6. RecordsTyped'
    BY <1>1, <1>3, <2>4, <2>5 DEF RecordsIInv, RecordsTyped
  <2>7. \A j \in Transfers : SourceRecorded(j)'
    BY <2>2, <2>4, <1>2 DEF RecordsIInv, SourceRecorded
  <2>8. \A j \in Keys : key[j].status = "completed" => key[j].transfer # t /\ key[j].transfer \in Transfers
    BY <2>1 DEF RecordsIInv, KeyNames
  <2>9. \A j \in Keys : KeyNames(j)'
    <3>1. ASSUME NEW j \in Keys, j = k PROVE KeyNames(j)'
      BY <3>1, <2>2, <2>4, <1>2, <1>4 DEF KeyNames
    <3>2. ASSUME NEW j \in Keys, j # k PROVE KeyNames(j)'
      BY <3>2, <2>4, <2>8 DEF RecordsIInv, KeyNames
    <3> QED BY <3>1, <3>2
  <2>10. \A j \in Keys : AnsweredSo(j)'
    <3>1. ASSUME NEW j \in Keys, j = k PROVE AnsweredSo(j)'
      BY <3>1, <2>2, <2>4, <2>5, <1>4 DEF AnsweredSo
    <3>2. ASSUME NEW j \in Keys, j # k PROVE AnsweredSo(j)'
      BY <3>2, <2>4, <2>5, <2>8 DEF RecordsIInv, AnsweredSo
    <3> QED BY <3>1, <3>2
  <2>11. \A v \in Workers : RecordTask(v)'
    BY <1>1, <1>3, <1>4, <2>4 DEF RecordsIInv, RecordTask
  <2>12. (\A a \in Exports : ExportSound(a)') /\ sent' \subseteq logged'
    BY <1>1 DEF RecordsIInv, ExportSound
  <2> QED BY <2>6, <2>7, <2>9, <2>10, <2>11, <2>12 DEF RecordsIInv
<1>7. CASE /\ sourceRow[t] # Records!NoRow /\ UNCHANGED sourceRow
           /\ sourceRow[t].source = key[k].source /\ sourceRow[t].risk = work[w].risk
           /\ Records!Completed(k, t) /\ Records!Told(k, sourceRow[t].source, sourceRow[t].risk)
  <2>1. /\ key' = [key EXCEPT ![k] = done]
        /\ answered' = [answered EXCEPT ![k] = @ \cup {<<key[k].source, sourceRow[t].risk>>}]
    BY <1>5, <1>7 DEF Records!Told
  <2>2. key' \in [Keys -> KeyRows] /\ key'[k] = done /\ \A j \in Keys : j # k => key'[j] = key[j]
    BY <2>1, <1>2, <1>4 DEF RecordsIInv, RecordsTyped
  <2>3. /\ answered' \in [Keys -> SUBSET (Sources \X SourceRisks)]
        /\ answered'[k] = answered[k] \cup {<<key[k].source, sourceRow[t].risk>>}
        /\ \A j \in Keys : j # k => answered'[j] = answered[j]
    BY <2>1, <1>2, <1>7 DEF RecordsIInv, RecordsTyped
  <2>4. answered'[k] = {<<key[k].source, sourceRow[t].risk>>}
    BY <2>3, <1>2 DEF RecordsIInv, AnsweredSo, t
  <2>5. RecordsTyped'
    BY <1>1, <1>3, <1>7, <2>2, <2>3 DEF RecordsIInv, RecordsTyped
  <2>6. \A j \in Transfers : SourceRecorded(j)'
    BY <1>7 DEF RecordsIInv, SourceRecorded
  <2>7. \A j \in Keys : KeyNames(j)'
    BY <1>2, <1>4, <1>7, <2>2 DEF RecordsIInv, KeyNames
  <2>8. \A j \in Keys : AnsweredSo(j)'
    BY <1>4, <1>7, <2>2, <2>3, <2>4 DEF RecordsIInv, AnsweredSo
  <2>9. \A v \in Workers : RecordTask(v)'
    BY <1>1, <1>3, <1>4, <2>2 DEF RecordsIInv, RecordTask
  <2>10. (\A a \in Exports : ExportSound(a)') /\ sent' \subseteq logged'
    BY <1>1 DEF RecordsIInv, ExportSound
  <2> QED BY <2>5, <2>6, <2>7, <2>8, <2>9, <2>10 DEF RecordsIInv
<1>8. CASE UNCHANGED <<key, sourceRow, answered>>
  BY <1>1, <1>8, RecordsRest DEF RecordsIInv
<1> QED BY <1>1, <1>6, <1>7, <1>8 DEF Records!Adopt, Records!SameSource

LEMMA RecordsExport ==
  ASSUME RecordsIInv, NEW w \in Workers, NEW k \in Keys, NEW a \in Exports, Records!Export(w, k, a)
  PROVE  RecordsIInv'
<1> DEFINE task == [Records!Idle EXCEPT !.at = "verifying", !.key = k, !.approval = a]
<1>1. /\ work' = [work EXCEPT ![w] = task]
      /\ UNCHANGED <<key, sourceRow, answered, exported, written, logged, sent>>
  BY DEF Records!Export
<1>2. task \in RecordTasks /\ task.at = "verifying" /\ task.approval = a
  BY RecordsIdle DEF RecordTasks, RecordPoints
<1> HIDE DEF task
<1>3. work'[w] = task
  BY <1>1 DEF RecordsIInv, RecordsTyped
<1>4. RecordTask(w)'
  BY <1>2, <1>3 DEF RecordTask
<1>5. written' \in Nat /\ sent' \subseteq logged'
  BY <1>1 DEF RecordsIInv, RecordsTyped
<1> QED BY <1>1, <1>2, <1>4, <1>5, RecordsMove

LEMMA RecordsSpend ==
  ASSUME RecordsIInv, NEW w \in Workers, Records!SpendToken(w)
  PROVE  RecordsIInv'
<1> DEFINE task == [work[w] EXCEPT !.at = "collecting"]
<1>1. /\ work[w] \in RecordTasks /\ work[w].at = "verifying"
      /\ UNCHANGED <<key, sourceRow, answered, exported, written, logged, sent>>
      /\ work' = [work EXCEPT ![w] = task] \/ Records!Rest(w)
  BY DEF Records!SpendToken, Records!Now, RecordsIInv, RecordsTyped
<1>2. task \in RecordTasks /\ task.at = "collecting" /\ task.approval = work[w].approval
  BY <1>1 DEF RecordTasks, RecordPoints
<1> HIDE DEF task
<1>3. written' \in Nat /\ sent' \subseteq logged'
  BY <1>1 DEF RecordsIInv, RecordsTyped
<1>4. CASE work' = [work EXCEPT ![w] = task]
  <2>1. work'[w] = task
    BY <1>4 DEF RecordsIInv, RecordsTyped
  <2>2. RecordTask(w)'
    BY <1>1, <1>2, <2>1 DEF RecordsIInv, RecordTask
  <2> QED BY <1>1, <1>2, <1>3, <1>4, <2>2, RecordsMove
<1> QED BY <1>1, <1>3, <1>4, RecordsRest

LEMMA RecordsCollect ==
  ASSUME RecordsIInv, NEW w \in Workers, Records!OpenSnapshot(w) \/ Records!CollectFirst(w)
  PROVE  RecordsIInv'
<1> USE MostRecords, RecordsAssumption
<1>1. /\ work[w] \in RecordTasks
      /\ UNCHANGED <<key, sourceRow, answered, exported, written, logged, sent>>
      /\ written \in Nat
  BY DEF Records!OpenSnapshot, Records!CollectFirst, RecordsIInv, RecordsTyped
<1>2. written' \in Nat /\ sent' \subseteq logged'
  BY <1>1 DEF RecordsIInv
<1>3. CASE Records!OpenSnapshot(w)
  <2> DEFINE task == [work[w] EXCEPT !.at = "first", !.snapshot = written]
  <2>1. work[w].at = "collecting" /\ work' = [work EXCEPT ![w] = task]
    BY <1>3 DEF Records!OpenSnapshot, Records!Now
  <2>2. task \in RecordTasks /\ task.at = "first" /\ task.approval = work[w].approval
    BY <1>1 DEF RecordTasks, RecordPoints
  <2> HIDE DEF task
  <2>3. work'[w] = task
    BY <2>1 DEF RecordsIInv, RecordsTyped
  <2>4. RecordTask(w)'
    BY <2>1, <2>2, <2>3 DEF RecordsIInv, RecordTask
  <2> QED BY <1>1, <1>2, <2>1, <2>2, <2>4, RecordsMove
<1>4. CASE Records!CollectFirst(w) /\ ~Records!Rest(w)
  <2> DEFINE task == [work[w] EXCEPT !.at = "second", !.first = work[w].snapshot]
  <2>1. /\ work[w].at = "first" /\ work' = [work EXCEPT ![w] = task]
        /\ work[w].snapshot <= MaxRecords - 0
    BY <1>4 DEF Records!CollectFirst, Records!Now, Records!View, Records!Fits
  <2>2. /\ task \in RecordTasks /\ task.at = "second" /\ task.approval = work[w].approval
        /\ task.first = work[w].snapshot /\ task.snapshot = work[w].snapshot
    BY <1>1 DEF RecordTasks, RecordPoints
  <2> HIDE DEF task
  <2>3. work'[w] = task /\ work[w].snapshot \in Nat /\ MaxRecords \in Nat
    BY <1>1, <2>1 DEF RecordsIInv, RecordsTyped, RecordTasks
  <2>4. RecordTask(w)'
    BY <2>1, <2>2, <2>3 DEF RecordsIInv, RecordTask
  <2> QED BY <1>1, <1>2, <2>1, <2>2, <2>4, RecordsMove
<1> QED BY <1>1, <1>2, <1>3, <1>4, RecordsRest

\* What is stored is the snapshot, twice, and within what the first collection left of the limit.
LEMMA RecordsStore ==
  ASSUME RecordsIInv, NEW w \in Workers, Records!CollectSecond(w)
  PROVE  RecordsIInv'
<1> USE MostRecords, RecordsAssumption
<1> DEFINE a == work[w].approval
           whole == [first |-> work[w].first, second |-> work[w].snapshot]
<1>1. /\ work[w] \in RecordTasks /\ work[w].at = "second" /\ a \in Exports
      /\ work[w].first = work[w].snapshot /\ work[w].first \in Nat /\ MaxRecords \in Nat
      /\ UNCHANGED <<key, sourceRow, answered, written, logged, sent>> /\ Records!Rest(w)
  BY DEF Records!CollectSecond, Records!Now, RecordsIInv, RecordsTyped, RecordTask, RecordTasks
<1>2. \/ UNCHANGED exported
      \/ /\ exported' = [exported EXCEPT ![a] = whole]
         /\ work[w].snapshot <= MaxRecords - work[w].first
  BY DEF Records!CollectSecond, Records!Collected, Records!LaterRows, Records!View, Records!Fits
<1>3. CASE UNCHANGED exported
  BY <1>1, <1>3, RecordsRest DEF RecordsIInv
<1>4. CASE exported' = [exported EXCEPT ![a] = whole] /\ work[w].snapshot <= MaxRecords - work[w].first
  <2>1. /\ whole \in ExportRows /\ whole.first = whole.second /\ whole.first + whole.second <= MaxRecords
    BY <1>1, <1>4 DEF ExportRows
  <2> HIDE DEF whole
  <2>2. /\ exported' \in [Exports -> ExportRows] /\ exported'[a] = whole
        /\ \A b \in Exports : b # a => exported'[b] = exported[b]
    BY <1>1, <1>4, <2>1 DEF RecordsIInv, RecordsTyped
  <2>3. \A b \in Exports : ExportSound(b)'
    BY <2>1, <2>2 DEF RecordsIInv, ExportSound
  <2>4. /\ work' \in [Workers -> RecordTasks] /\ work'[w].at = "idle"
        /\ \A v \in Workers : v # w => work'[v] = work[v]
    BY <1>1, RecordsIdle DEF Records!Rest, RecordsIInv, RecordsTyped
  <2>5. \A v \in Workers : RecordTask(v)'
    BY <1>1, <2>4 DEF RecordsIInv, RecordTask
  <2>6. written' \in Nat /\ sent' \subseteq logged' /\ UNCHANGED <<key, sourceRow, answered>>
    BY <1>1 DEF RecordsIInv, RecordsTyped
  <2> QED BY <2>2, <2>3, <2>4, <2>5, <2>6, RecordsWork
<1> QED BY <1>2, <1>3, <1>4

\* The disclosure is recorded first, and nothing else is sent.
LEMMA RecordsDisclose ==
  ASSUME RecordsIInv, NEW w \in Workers,
         Records!Send(w) \/ \E a \in Exports : Records!Download(w, a)
  PROVE  RecordsIInv'
<1>1. CASE Records!Send(w)
  <2>1. /\ UNCHANGED <<key, sourceRow, answered, exported, written, logged>> /\ Records!Rest(w)
        /\ work[w].at = "sending" /\ sent' = sent \cup {work[w].approval}
    BY <1>1 DEF Records!Send, Records!Now
  <2>2. sent' \subseteq logged' /\ logged \subseteq logged'
    BY <2>1 DEF RecordsIInv, RecordTask
  <2> QED BY <2>1, <2>2, RecordsRest
<1>2. ASSUME NEW a \in Exports, Records!Download(w, a) PROVE RecordsIInv'
  <2> DEFINE task == [Records!Idle EXCEPT !.at = "sending", !.approval = a]
  <2>1. /\ UNCHANGED <<key, sourceRow, answered, exported, written, sent>>
        /\ logged' = logged \cup {a} /\ work' = [work EXCEPT ![w] = task]
    BY <1>2 DEF Records!Download, Records!LogFirst
  <2>2. task \in RecordTasks /\ task.at = "sending" /\ task.approval = a
    BY RecordsIdle DEF RecordTasks, RecordPoints
  <2> HIDE DEF task
  <2>3. work'[w] = task
    BY <2>1 DEF RecordsIInv, RecordsTyped
  <2>4. RecordTask(w)'
    BY <2>1, <2>2, <2>3 DEF RecordTask
  <2>5. written' \in Nat /\ sent' \subseteq logged' /\ logged \subseteq logged'
    BY <2>1 DEF RecordsIInv, RecordsTyped
  <2> QED BY <2>1, <2>2, <2>4, <2>5, RecordsMove
<1> QED BY <1>1, <1>2

LEMMA RecordsStep == RecordsIInv /\ [Records!Next]_evidenceVars => RecordsIInv'
<1> SUFFICES ASSUME RecordsIInv, [Records!Next]_evidenceVars PROVE RecordsIInv'
  OBVIOUS
<1>1. CASE Records!Write
  <2>1. /\ written \in Nat /\ written' = written + 1
        /\ UNCHANGED <<key, sourceRow, answered, exported, work, logged, sent>>
    BY <1>1 DEF Records!Write, RecordsIInv, RecordsTyped
  <2>2. /\ written' \in Nat /\ exported' \in [Exports -> ExportRows] /\ work' \in [Workers -> RecordTasks]
        /\ \A w \in Workers : RecordTask(w)'
        /\ \A a \in Exports : ExportSound(a)'
        /\ sent' \subseteq logged'
    BY <2>1 DEF RecordsIInv, RecordsTyped, RecordTask, ExportSound
  <2> QED BY <2>1, <2>2, RecordsWork
<1>2. CASE UNCHANGED evidenceVars
  <2>1. /\ UNCHANGED key /\ UNCHANGED sourceRow /\ UNCHANGED written /\ UNCHANGED exported
        /\ UNCHANGED work /\ UNCHANGED answered /\ UNCHANGED logged /\ UNCHANGED sent
    BY <1>2 DEF evidenceVars
  <2>2. /\ written' \in Nat /\ exported' \in [Exports -> ExportRows] /\ work' \in [Workers -> RecordTasks]
        /\ \A w \in Workers : RecordTask(w)'
        /\ \A a \in Exports : ExportSound(a)'
        /\ sent' \subseteq logged'
    BY <2>1 DEF RecordsIInv, RecordsTyped, RecordTask, ExportSound
  <2> QED BY <2>1, <2>2, RecordsWork
<1>3. ASSUME NEW w \in Workers, Records!Dies(w) PROVE RecordsIInv'
  BY <1>3, RecordsRest DEF Records!Dies, RecordsIInv
<1>4. ASSUME NEW w \in Workers, NEW k \in Keys, NEW a \in Exports, Records!Export(w, k, a) PROVE RecordsIInv'
  BY <1>4, RecordsExport
<1>5. ASSUME NEW w \in Workers, NEW k \in Keys, NEW t \in Transfers, NEW s \in Sources,
             Records!ScreenSource(w, k, t, s)
      PROVE  RecordsIInv'
  BY <1>5, RecordsScreen
<1> QED
  BY <1>1, <1>2, <1>3, <1>4, <1>5, RecordsProvider, RecordsFinish, RecordsSpend, RecordsCollect, RecordsStore,
     RecordsDisclose DEF Records!Next

LEMMA RecordsMean ==
  ASSUME RecordsIInv
  PROVE  /\ Records!TypeOK /\ Records!AnswersAgree
         /\ Records!ExportWhole /\ Records!ExportBounded /\ Records!DisclosureLogged
<1> USE MostRecords, RecordsAssumption
<1>1. Records!TypeOK
  BY DEF RecordsIInv, RecordsTyped, KeyRows, RecordTasks, RecordPoints, KeyNames, Records!TypeOK, Records!Now
<1>2. Records!AnswersAgree
  BY DEF RecordsIInv, AnsweredSo, KeyNames, Records!AnswersAgree
<1>3. Records!ExportWhole /\ Records!ExportBounded /\ Records!DisclosureLogged
  BY DEF RecordsIInv, ExportSound, Records!ExportWhole, Records!ExportBounded, Records!DisclosureLogged
<1> QED BY <1>1, <1>2, <1>3
-----------------------------------------------------------------------------
(* A payout account.  Its row moves forward only, both tables of evidence  *)
(* only grow, and a decision is issued on their last rows.                 *)

VerificationRows == [result : Payout!Verifications, until : Nat, after : Nat]
ScreeningRows == [result : Payout!Risks, until : Nat, after : Nat]
AccountRow == [status : Payout!Statuses, statusV : Nat, whitelistV : Nat, epoch : Nat,
               coolUntil : Nat \cup {None}, verification : Payout!Verifications \cup {"pending"}]
IssuedRows == [screening : Nat, verification : Nat, evaluated : Nat, rail : BOOLEAN, epoch : Nat,
               at : Nat, expires : Nat]
PayoutTasks == [key : Keys \cup {None}, at : Nat, status : Payout!Statuses, verify : BOOLEAN, screen : BOOLEAN,
                fresh : BOOLEAN, statusV : Nat, whitelistV : Nat, epoch : Nat, verification : Nat,
                screening : Nat, amlUntil : Nat]

PayoutTyped ==
    /\ clock \in 0..MaxTime
    /\ account \in AccountRow
    /\ covered \in BOOLEAN
    /\ verifications \in Seq(VerificationRows)
    /\ screenings \in Seq(ScreeningRows)
    /\ assessKey \in [Keys -> {"new", "processing", "completed"}]
    /\ issued \in Seq(IssuedRows)
    /\ point \in [Workers -> Payout!Points]
    /\ request \in [Workers -> PayoutTasks]
    /\ asked \in [Keys -> Nat]
AskedOnce(k) == asked[k] <= 1 /\ (assessKey[k] = "new" => asked[k] = 0)
\* A request at its providers read a status no later than the row's.
PayoutTask(w) ==
    /\ request[w].at <= clock
    /\ point[w] \in {"onboarding", "assessing"} =>
          account.status # None /\ (account.status = "draft" => request[w].status = "draft")
\* A decision, the k-th, rests on two rows that were the last ones when it was issued.
DecisionSound(k) ==
    LET v == issued[k].verification
        s == issued[k].screening
    IN
    /\ v \in 1..Len(verifications) /\ s \in 1..Len(screenings)
    /\ verifications[v].result = "verified" /\ screenings[s].result = "clear"
    /\ issued[k].at < issued[k].expires
    /\ issued[k].expires <= verifications[v].until /\ issued[k].expires <= screenings[s].until
    /\ issued[k].evaluated = v /\ issued[k].rail
    /\ \A i \in 1..Len(verifications) : i > v => verifications[i].after >= k
    /\ \A i \in 1..Len(screenings) : i > s => screenings[i].after >= k
    /\ issued[k].epoch <= account.epoch
PayoutIInv ==
    /\ PayoutTyped
    /\ \A k \in Keys : AskedOnce(k)
    /\ \A w \in Workers : PayoutTask(w)
    /\ Payout!RowsAgree /\ Payout!NeverBack
    /\ \A k \in 1..Len(issued) : DecisionSound(k)

LEMMA LeastOfTwo ==
  ASSUME NEW a \in Nat, NEW b \in Nat
  PROVE  Payout!Min({a, b}) \in Nat
<1>1. \E x \in {a, b} : \A y \in {a, b} : x <= y
  OBVIOUS
<1> QED BY <1>1 DEF Payout!Min

LEMMA LeastOfFour ==
  ASSUME NEW a \in Nat, NEW b \in Nat, NEW c \in Nat, NEW d \in Nat
  PROVE  /\ Payout!Min({a, b, c, d}) \in Nat
         /\ Payout!Min({a, b, c, d}) <= c /\ Payout!Min({a, b, c, d}) <= d
<1>1. \E x \in {a, b, c, d} : \A y \in {a, b, c, d} : x <= y
  OBVIOUS
<1> QED BY <1>1 DEF Payout!Min

LEMMA PayoutIdle ==
  Payout!Idle \in PayoutTasks /\ Payout!Idle.at = 0
BY DEF Payout!Idle, PayoutTasks, Payout!Statuses

\* What a row of the account is after its status, its counters or its dates are set.
LEMMA AccountSet ==
  ASSUME account \in AccountRow, NEW x \in Payout!Statuses, NEW n \in Nat, NEW m \in Nat, NEW e \in Nat,
         NEW c \in Nat \cup {None}
  PROVE  /\ [account EXCEPT !.status = x] \in AccountRow
         /\ [account EXCEPT !.status = x, !.statusV = n] \in AccountRow
         /\ [account EXCEPT !.status = x, !.statusV = n, !.coolUntil = c] \in AccountRow
         /\ [account EXCEPT !.status = x, !.statusV = n, !.whitelistV = m] \in AccountRow
         /\ [account EXCEPT !.status = x, !.epoch = e, !.statusV = n] \in AccountRow
BY DEF AccountRow

LEMMA AccountTyped ==
  ASSUME PayoutIInv
  PROVE  /\ account \in AccountRow /\ account.status \in Payout!Statuses
         /\ account.statusV \in Nat /\ account.whitelistV \in Nat /\ account.epoch \in Nat
         /\ account.statusV + 1 \in Nat /\ account.whitelistV + 1 \in Nat /\ account.epoch + 1 \in Nat
         /\ account.verification \in Payout!Verifications \cup {"pending"}
         /\ clock \in Nat
<1>1. account \in AccountRow /\ clock \in Nat
  BY TimeAssumption DEF PayoutIInv, PayoutTyped
<1>2. /\ account.status \in Payout!Statuses
      /\ account.statusV \in Nat /\ account.whitelistV \in Nat /\ account.epoch \in Nat
      /\ account.verification \in Payout!Verifications \cup {"pending"}
  BY <1>1 DEF AccountRow
<1> QED BY <1>1, <1>2

LEMMA PayoutBegins == Payout!Init => PayoutIInv
<1> SUFFICES ASSUME Payout!Init PROVE PayoutIInv
  OBVIOUS
<1> USE PayoutLengths, PayoutAssumption, TimeAssumption DEF Payout!Init
<1>1. PayoutTyped
  BY PayoutIdle DEF PayoutTyped, AccountRow, Payout!Unregistered, Payout!Statuses, Payout!Points
<1>2. (\A k \in Keys : AskedOnce(k)) /\ (\A w \in Workers : PayoutTask(w))
  BY PayoutIdle DEF AskedOnce, PayoutTask
<1>3. Payout!RowsAgree /\ Payout!NeverBack
  BY DEF Payout!RowsAgree, Payout!NeverBack, Payout!Unregistered
<1>4. \A k \in 1..Len(issued) : DecisionSound(k)
  OBVIOUS
<1> QED BY <1>1, <1>2, <1>3, <1>4 DEF PayoutIInv

\* What the requests keep: their types, and what a step leaves of the row they read.
LEMMA PayoutMoves ==
  ASSUME PayoutIInv, NEW w \in Workers, NEW p \in Payout!Points, NEW task \in PayoutTasks,
         point' = [point EXCEPT ![w] = p], request' = [request EXCEPT ![w] = task],
         clock' = clock, task.at <= clock,
         account.status # None => account'.status # None,
         account'.status = "draft" => account.status \in {"draft", None},
         account.status = None => account'.status \in {None, "draft"},
         p \in {"onboarding", "assessing"} =>
            account'.status # None /\ (account'.status = "draft" => task.status = "draft")
  PROVE  /\ point' \in [Workers -> Payout!Points] /\ request' \in [Workers -> PayoutTasks]
         /\ \A v \in Workers : PayoutTask(v)'
<1>1. /\ point' \in [Workers -> Payout!Points] /\ request' \in [Workers -> PayoutTasks]
      /\ point'[w] = p /\ request'[w] = task
      /\ \A v \in Workers : v # w => point'[v] = point[v] /\ request'[v] = request[v]
  BY DEF PayoutIInv, PayoutTyped
<1>2. ASSUME NEW v \in Workers PROVE PayoutTask(v)'
  BY <1>1 DEF PayoutIInv, PayoutTask
<1> QED BY <1>1, <1>2

LEMMA PayoutEnds ==
  ASSUME PayoutIInv, NEW w \in Workers, Payout!End(w), clock' = clock,
         account.status # None => account'.status # None,
         account'.status = "draft" => account.status \in {"draft", None},
         account.status = None => account'.status \in {None, "draft"}
  PROVE  /\ point' \in [Workers -> Payout!Points] /\ request' \in [Workers -> PayoutTasks]
         /\ \A v \in Workers : PayoutTask(v)'
<1>1. "idle" \in Payout!Points /\ point' = [point EXCEPT ![w] = "idle"] /\ request' = [request EXCEPT ![w] = Payout!Idle]
  BY DEF Payout!Points, Payout!End
<1>2. Payout!Idle.at <= clock
  BY PayoutIdle, TimeAssumption DEF PayoutIInv, PayoutTyped
<1> QED BY <1>1, <1>2, PayoutIdle, PayoutMoves

\* A step that leaves the evidence and the decisions, and the row's epoch.
LEMMA PayoutRowStep ==
  ASSUME PayoutIInv, UNCHANGED <<verifications, screenings, issued>>,
         account' \in AccountRow, account'.epoch = account.epoch, account'.verification = account.verification,
         \/ account'.status = account.status
         \/ account.status = None /\ account'.status = "draft"
         \/ account.status = "pending_review" /\ account'.status = "approved_pending_cooling"
         \/ account.status = "approved_pending_cooling" /\ account'.status = "active"
  PROVE  /\ Payout!RowsAgree' /\ Payout!NeverBack'
         /\ \A k \in 1..Len(issued') : DecisionSound(k)'
<1> USE PayoutLengths, PayoutAssumption
<1>1. Payout!RowsAgree'
  BY DEF PayoutIInv, Payout!RowsAgree
<1>2. Payout!NeverBack'
  BY DEF PayoutIInv, Payout!NeverBack
<1>3. \A k \in 1..Len(issued') : DecisionSound(k)'
  BY DEF PayoutIInv, DecisionSound
<1> QED BY <1>1, <1>2, <1>3

\* A step that leaves the row, the evidence, the decisions and the keys: one request moves on.
LEMMA PayoutAside ==
  ASSUME PayoutIInv, UNCHANGED <<clock, account, covered, verifications, screenings, assessKey, issued, asked>>,
         point' \in [Workers -> Payout!Points], request' \in [Workers -> PayoutTasks],
         \A v \in Workers : PayoutTask(v)'
  PROVE  PayoutIInv'
<1>1. PayoutTyped'
  BY DEF PayoutIInv, PayoutTyped
<1>2. \A k \in Keys : AskedOnce(k)'
  BY DEF PayoutIInv, AskedOnce
<1>3. Payout!RowsAgree' /\ Payout!NeverBack' /\ \A k \in 1..Len(issued') : DecisionSound(k)'
  BY PayoutRowStep DEF PayoutIInv, PayoutTyped
<1> QED BY <1>1, <1>2, <1>3 DEF PayoutIInv

LEMMA PayoutSnapshot ==
  ASSUME PayoutIInv
  PROVE  /\ Payout!Snapshot \in PayoutTasks /\ Payout!Snapshot.at = clock
         /\ Payout!Snapshot.status = account.status
<1>1. /\ account.statusV \in Nat /\ account.whitelistV \in Nat /\ account.epoch \in Nat
      /\ account.status \in Payout!Statuses
      /\ clock \in Nat /\ Len(verifications) \in Nat /\ Len(screenings) \in Nat
  BY TimeAssumption DEF PayoutIInv, PayoutTyped, AccountRow
<1> QED BY <1>1, PayoutIdle DEF Payout!Snapshot, PayoutTasks

LEMMA PayoutRegisters ==
  ASSUME PayoutIInv, NEW w \in Workers, Payout!Register(w)
  PROVE  PayoutIInv'
<1> USE PayoutLengths, PayoutAssumption, TimeAssumption
<1> DEFINE task == [Payout!Idle EXCEPT !.at = clock, !.status = "draft", !.verify = TRUE, !.screen = TRUE]
<1>1. /\ account.status = None /\ account' = [account EXCEPT !.status = "draft"]
      /\ point' = [point EXCEPT ![w] = "onboarding"] /\ request' = [request EXCEPT ![w] = task]
      /\ UNCHANGED <<clock, covered, verifications, screenings, assessKey, issued, asked>>
  BY DEF Payout!Register, Payout!Begin, Payout!evidence
<1>2. /\ account \in AccountRow /\ clock \in Nat
      /\ account' \in AccountRow /\ account'.status = "draft"
      /\ account'.epoch = account.epoch /\ account'.verification = account.verification
  <2>1. "draft" \in Payout!Statuses
    BY DEF Payout!Statuses
  <2>2. account \in AccountRow /\ account.status \in Payout!Statuses /\ account.statusV \in Nat
        /\ None \in Nat \cup {None}
    BY AccountTyped
  <2>3. [account EXCEPT !.status = "draft"] \in AccountRow
    BY <2>1, <2>2 DEF AccountRow
  <2>4. account' = [account EXCEPT !.status = "draft"]
    BY <1>1
  <2>5. account' \in AccountRow
    BY <2>3, <2>4
  <2> QED BY <2>2, <2>4, <2>5, AccountTyped DEF AccountRow
<1>3. task \in PayoutTasks /\ task.at = clock /\ task.status = "draft"
  BY <1>2, PayoutIdle DEF PayoutTasks, Payout!Statuses
<1>4. "onboarding" \in Payout!Points /\ clock <= clock
  BY <1>2 DEF Payout!Points
<1> HIDE DEF task
<1>5. /\ point' \in [Workers -> Payout!Points] /\ request' \in [Workers -> PayoutTasks]
      /\ \A v \in Workers : PayoutTask(v)'
  BY <1>1, <1>2, <1>3, <1>4, PayoutMoves
<1>6. PayoutTyped'
  BY <1>1, <1>2, <1>5 DEF PayoutIInv, PayoutTyped
<1>7. \A k \in Keys : AskedOnce(k)'
  BY <1>1 DEF PayoutIInv, AskedOnce
<1>8. Payout!RowsAgree' /\ Payout!NeverBack' /\ \A k \in 1..Len(issued') : DecisionSound(k)'
  BY <1>1, <1>2, PayoutRowStep
<1> QED BY <1>5, <1>6, <1>7, <1>8 DEF PayoutIInv

\* A row of evidence is written after the decisions there are; the earlier rows stay.
LEMMA EvidenceGrows ==
  ASSUME NEW Kind, NEW rows \in Seq(Kind), NEW result, NEW at, NEW life,
         result # None => Payout!NewRow(result, at, life) \in Kind,
         NEW grown, grown = Payout!Versioned(rows, result, at, life)
  PROVE  /\ grown \in Seq(Kind) /\ Len(grown) \in Nat
         /\ \A i \in 1..Len(rows) : i \in 1..Len(grown) /\ grown[i] = rows[i]
         /\ \A i \in 1..Len(grown) : i \in 1..Len(rows) \/ grown[i].after = Len(issued)
         /\ result = None => grown = rows
         /\ result # None => grown # <<>> /\ Len(grown) = Len(rows) + 1 /\ grown[Len(grown)].result = result
<1>1. CASE result = None
  BY <1>1 DEF Payout!Versioned
<1>2. CASE result # None
  <2> DEFINE new == Payout!NewRow(result, at, life)
             more == Append(rows, new)
  <2>1. new.result = result /\ new.after = Len(issued) /\ new \in Kind
    BY <1>2 DEF Payout!NewRow
  <2>2. grown = more
    BY <1>2 DEF Payout!Versioned
  <2> HIDE DEF new
  <2>3. /\ more \in Seq(Kind) /\ more # <<>> /\ Len(more) = Len(rows) + 1 /\ Len(rows) \in Nat
        /\ \A i \in 1..Len(rows) : more[i] = rows[i]
        /\ more[Len(rows) + 1] = new
    BY <2>1, AppendProperties
  <2> HIDE DEF more
  <2> QED BY <2>1, <2>2, <2>3, <1>2
<1> QED BY <1>1, <1>2

\* The application transaction of a request that asked the providers.
LEMMA PayoutPersists ==
  ASSUME PayoutIInv, NEW w \in Workers, point[w] \in {"onboarding", "assessing"},
         NEW v \in {None} \cup VerificationResults, NEW s \in {None} \cup RiskStatuses, NEW life \in Lifetimes,
         Payout!Persist(w, v, s, life), UNCHANGED issued
  PROVE  /\ account' \in AccountRow
         /\ verifications' \in Seq(VerificationRows) /\ screenings' \in Seq(ScreeningRows)
         /\ account.status # None => account'.status # None
         /\ account'.status = "draft" => account.status \in {"draft", None}
         /\ account.status = None => account'.status \in {None, "draft"}
         /\ Payout!RowsAgree' /\ Payout!NeverBack'
         /\ \A k \in 1..Len(issued') : DecisionSound(k)'
<1> USE PayoutLengths, PayoutAssumption
<1>1. /\ account.status # None /\ (account.status = "draft" => request[w].status = "draft")
      /\ request[w].at \in Nat /\ account \in AccountRow
      /\ verifications \in Seq(VerificationRows) /\ screenings \in Seq(ScreeningRows) /\ issued \in Seq(IssuedRows)
  BY DEF PayoutIInv, PayoutTask, PayoutTyped, PayoutTasks
<1>2. /\ verifications' = Payout!Versioned(verifications, v, request[w].at, life)
      /\ screenings' = Payout!Versioned(screenings, s, request[w].at, life)
      /\ account' = Payout!Assessed(w, v, s)
  BY DEF Payout!Persist
<1>3. Payout!EffectiveUntil(request[w].at, life) \in Nat /\ Len(issued) \in Nat
  <2>1. life \in Nat /\ EvidenceValidity \in Nat
    OBVIOUS
  <2>2. Payout!Min({life, EvidenceValidity}) \in Nat
    BY <2>1, LeastOfTwo
  <2> QED BY <1>1, <2>2 DEF Payout!EffectiveUntil
<1>4. /\ v # None => Payout!NewRow(v, request[w].at, life) \in VerificationRows
      /\ s # None => Payout!NewRow(s, request[w].at, life) \in ScreeningRows
  BY <1>3 DEF Payout!NewRow, VerificationRows, ScreeningRows
<1>5. /\ verifications' \in Seq(VerificationRows) /\ Len(verifications') \in Nat
      /\ \A i \in 1..Len(verifications) : i \in 1..Len(verifications') /\ verifications'[i] = verifications[i]
      /\ \A i \in 1..Len(verifications') : i \in 1..Len(verifications) \/ verifications'[i].after = Len(issued)
      /\ v = None => verifications' = verifications
      /\ v # None => verifications' # <<>> /\ verifications'[Len(verifications')].result = v
  BY <1>1, <1>2, <1>4, EvidenceGrows, SMTT(30)
<1>6. /\ screenings' \in Seq(ScreeningRows) /\ Len(screenings') \in Nat
      /\ \A i \in 1..Len(screenings) : i \in 1..Len(screenings') /\ screenings'[i] = screenings[i]
      /\ \A i \in 1..Len(screenings') : i \in 1..Len(screenings) \/ screenings'[i].after = Len(issued)
      /\ s = None => screenings' = screenings
      /\ s # None => screenings' # <<>>
  BY <1>1, <1>2, <1>4, EvidenceGrows, SMTT(30)
<1>7. /\ Payout!Promoted \in AccountRow
      /\ Payout!Promoted.epoch = account.epoch
      /\ Payout!Promoted.status = IF account.status = "draft" THEN "pending_review" ELSE account.status
  <2>1. "pending_review" \in Payout!Statuses
    BY DEF Payout!Statuses
  <2> DEFINE reviewed == [account EXCEPT !.status = "pending_review", !.statusV = account.statusV + 1]
  <2>2. reviewed \in AccountRow
    BY <2>1, AccountTyped, AccountSet
  <2>3. reviewed.status = "pending_review" /\ reviewed.epoch = account.epoch
    BY <1>1 DEF AccountRow
  <2>4. Payout!Promoted = IF account.status = "draft" THEN reviewed ELSE account
    BY DEF Payout!Promoted
  <2> HIDE DEF reviewed
  <2> QED BY <2>2, <2>3, <2>4, <1>1
<1> DEFINE promote == request[w].status = "draft" /\ (v # None \/ s # None)
           base == IF promote THEN Payout!Promoted ELSE account
           shown == Payout!ShowsVerification(v)
<1>8. shown \in Payout!Verifications \cup {"pending"} /\ shown = IF v = None THEN account.verification ELSE v
  BY <1>1 DEF Payout!ShowsVerification, AccountRow
<1>9. /\ account' = [base EXCEPT !.verification = shown]
      /\ base \in AccountRow /\ base.epoch = account.epoch
      /\ base.status = IF promote /\ account.status = "draft" THEN "pending_review" ELSE account.status
  BY <1>1, <1>2, <1>7 DEF Payout!Assessed
<1> HIDE DEF base, shown
<1>10. /\ account' \in AccountRow /\ account'.epoch = account.epoch /\ account'.verification = shown
       /\ account'.status = IF promote /\ account.status = "draft" THEN "pending_review" ELSE account.status
  BY <1>8, <1>9 DEF AccountRow
<1>11. account'.status = IF (v # None \/ s # None) /\ account.status = "draft" THEN "pending_review" ELSE account.status
  BY <1>1, <1>10
<1>12. Payout!RowsAgree'
  <2>1. account'.status \in {None, "draft"} => verifications' = <<>> /\ screenings' = <<>>
    BY <1>1, <1>5, <1>6, <1>11 DEF PayoutIInv, Payout!RowsAgree
  <2>2. account'.status = "pending_review" => verifications' # <<>> \/ screenings' # <<>>
    <3>1. CASE v = None /\ s = None
      BY <3>1, <1>5, <1>6, <1>11 DEF PayoutIInv, Payout!RowsAgree
    <3> QED BY <3>1, <1>5, <1>6
  <2>3. account'.verification = IF verifications' = <<>> THEN "pending"
                                ELSE verifications'[Len(verifications')].result
    <3>1. CASE v = None
      BY <3>1, <1>5, <1>8, <1>10 DEF PayoutIInv, Payout!RowsAgree
    <3>2. CASE v # None
      BY <3>2, <1>5, <1>8, <1>10
    <3> QED BY <3>1, <3>2
  <2> QED BY <2>1, <2>2, <2>3 DEF Payout!RowsAgree
<1>13. Payout!NeverBack'
  BY <1>10, <1>11 DEF PayoutIInv, Payout!NeverBack
<1>14. ASSUME NEW k \in 1..Len(issued') PROVE DecisionSound(k)'
  <2>1. DecisionSound(k) /\ issued' = issued /\ k <= Len(issued) /\ Len(issued) \in Nat /\ k \in Nat
    BY <1>3 DEF PayoutIInv
  <2>2. /\ issued[k].verification \in 1..Len(verifications) /\ issued[k].screening \in 1..Len(screenings)
        /\ verifications'[issued[k].verification] = verifications[issued[k].verification]
        /\ screenings'[issued[k].screening] = screenings[issued[k].screening]
    BY <2>1, <1>5, <1>6 DEF DecisionSound
  <2>3. \A i \in 1..Len(verifications') : i > issued[k].verification => verifications'[i].after >= k
    BY <2>1, <1>5 DEF DecisionSound
  <2>4. \A i \in 1..Len(screenings') : i > issued[k].screening => screenings'[i].after >= k
    BY <2>1, <1>6 DEF DecisionSound
  <2>5. issued[k].verification \in 1..Len(verifications') /\ issued[k].screening \in 1..Len(screenings')
    BY <2>2, <1>5, <1>6
  <2> QED BY <2>1, <2>2, <2>3, <2>4, <2>5, <1>10 DEF DecisionSound
<1> QED BY <1>1, <1>5, <1>6, <1>10, <1>11, <1>12, <1>13, <1>14

LEMMA PayoutAnswers ==
  ASSUME PayoutIInv, NEW w \in Workers, NEW v \in {None} \cup VerificationResults,
         NEW s \in {None} \cup RiskStatuses, NEW life \in Lifetimes,
         \/ Payout!Onboarded(w, v, s, life) \/ Payout!PublicOnboarded(w, v, s, life)
         \/ Payout!AssessEnd(w, v, s, life)
  PROVE  PayoutIInv'
<1>1. /\ point[w] \in {"onboarding", "assessing"} /\ Payout!Persist(w, v, s, life) /\ Payout!End(w)
      /\ UNCHANGED <<clock, covered, issued, asked>>
      /\ assessKey' \in {assessKey, [assessKey EXCEPT ![request[w].key] = "completed"]}
  BY DEF Payout!Onboarded, Payout!PublicOnboarded, Payout!AssessEnd, Payout!At
<1>2. /\ account' \in AccountRow
      /\ verifications' \in Seq(VerificationRows) /\ screenings' \in Seq(ScreeningRows)
      /\ account.status # None => account'.status # None
      /\ account'.status = "draft" => account.status \in {"draft", None}
      /\ account.status = None => account'.status \in {None, "draft"}
      /\ Payout!RowsAgree' /\ Payout!NeverBack'
      /\ \A k \in 1..Len(issued') : DecisionSound(k)'
  BY <1>1, PayoutPersists
<1>3. /\ point' \in [Workers -> Payout!Points] /\ request' \in [Workers -> PayoutTasks]
      /\ \A u \in Workers : PayoutTask(u)'
  BY <1>1, <1>2, PayoutEnds
<1>4. /\ assessKey' \in [Keys -> {"new", "processing", "completed"}]
      /\ \A k \in Keys : assessKey'[k] = "new" => assessKey[k] = "new"
  BY <1>1 DEF PayoutIInv, PayoutTyped
<1>5. PayoutTyped'
  BY <1>1, <1>2, <1>3, <1>4 DEF PayoutIInv, PayoutTyped
<1>6. \A k \in Keys : AskedOnce(k)'
  BY <1>1, <1>4 DEF PayoutIInv, AskedOnce
<1> QED BY <1>2, <1>3, <1>5, <1>6 DEF PayoutIInv

\* A key goes to the providers once: it is taken before they are asked.
LEMMA PayoutAssesses ==
  ASSUME PayoutIInv, NEW w \in Workers, NEW k \in Keys, NEW given \in BOOLEAN, Payout!AssessStart(w, k, given)
  PROVE  PayoutIInv'
<1> USE PayoutLengths, PayoutAssumption, TimeAssumption
<1>1. PICK verify \in BOOLEAN, fetch \in BOOLEAN, fresh \in BOOLEAN :
        /\ request' = [request EXCEPT ![w] = [Payout!Snapshot EXCEPT !.key = k, !.verify = verify, !.screen = fetch,
                                                                     !.fresh = fresh]]
        /\ asked' = [asked EXCEPT ![k] = IF verify \/ fetch THEN @ + 1 ELSE @]
  <2>1. /\ (given /\ ~Payout!Fresh(verifications, clock)) \in BOOLEAN
        /\ (~Payout!Fresh(screenings, clock)) \in BOOLEAN
        /\ (Payout!Fresh(verifications, clock) \/ Payout!Fresh(screenings, clock)) \in BOOLEAN
    OBVIOUS
  <2> QED BY <2>1, ZenonT(30) DEF Payout!AssessStart, Payout!Begin
<1> DEFINE task == [Payout!Snapshot EXCEPT !.key = k, !.verify = verify, !.screen = fetch, !.fresh = fresh]
<1>2. /\ account.status # None /\ assessKey[k] = "new"
      /\ assessKey' = [assessKey EXCEPT ![k] = "processing"]
      /\ point' = [point EXCEPT ![w] = "assessing"]
      /\ UNCHANGED <<clock, account, covered, verifications, screenings, issued>>
  BY DEF Payout!AssessStart, Payout!Begin, Payout!KeyFree, Payout!evidence
<1>3. task \in PayoutTasks /\ task.at = clock /\ task.status = account.status
  BY PayoutSnapshot DEF PayoutTasks
<1>4. clock \in Nat /\ clock <= clock /\ "assessing" \in Payout!Points
  BY DEF PayoutIInv, PayoutTyped, Payout!Points
<1>5. request' = [request EXCEPT ![w] = task]
  BY <1>1
<1> HIDE DEF task
<1>6. /\ point' \in [Workers -> Payout!Points] /\ request' \in [Workers -> PayoutTasks]
      /\ \A u \in Workers : PayoutTask(u)'
  BY <1>2, <1>3, <1>4, <1>5, PayoutMoves
<1>7. /\ asked[k] = 0 /\ asked' \in [Keys -> Nat] /\ asked'[k] <= 1
      /\ \A j \in Keys : j # k => asked'[j] = asked[j]
  <2>1. asked[k] = 0
    BY <1>2 DEF PayoutIInv, AskedOnce
  <2>2. asked' = [asked EXCEPT ![k] = 1] \/ asked' = asked
    <3>1. CASE verify \/ fetch
      <4>1. asked' = [asked EXCEPT ![k] = asked[k] + 1]
        BY <1>1, <3>1
      <4> QED BY <4>1, <2>1
    <3>2. CASE ~(verify \/ fetch)
      <4>1. asked' = [asked EXCEPT ![k] = asked[k]]
        BY <1>1, <3>2
      <4> QED BY <4>1 DEF PayoutIInv, PayoutTyped
    <3> QED BY <3>1, <3>2
  <2>3. asked \in [Keys -> Nat] /\ 1 \in Nat /\ 0 <= 1
    BY DEF PayoutIInv, PayoutTyped
  <2>4. CASE asked' = [asked EXCEPT ![k] = 1]
    BY <2>1, <2>3, <2>4
  <2>5. CASE asked' = asked
    BY <2>1, <2>3, <2>5
  <2> QED BY <2>2, <2>4, <2>5
<1>8. /\ assessKey' \in [Keys -> {"new", "processing", "completed"}] /\ assessKey'[k] = "processing"
      /\ \A j \in Keys : j # k => assessKey'[j] = assessKey[j]
  BY <1>2 DEF PayoutIInv, PayoutTyped
<1>9. PayoutTyped'
  BY <1>2, <1>6, <1>7, <1>8 DEF PayoutIInv, PayoutTyped
<1>10. \A j \in Keys : AskedOnce(j)'
  BY <1>7, <1>8 DEF PayoutIInv, AskedOnce
<1>11. Payout!RowsAgree' /\ Payout!NeverBack' /\ \A j \in 1..Len(issued') : DecisionSound(j)'
  BY <1>2, PayoutRowStep DEF PayoutIInv, PayoutTyped
<1> QED BY <1>6, <1>9, <1>10, <1>11 DEF PayoutIInv

LEMMA PayoutWaits ==
  ASSUME PayoutIInv, NEW w \in Workers,
         \/ Payout!AssessUnavailable(w) \/ Payout!ApproveStart(w) \/ Payout!Evaluate(w) \/ Payout!Queue(w)
         \/ Payout!Refuse(w) \/ Payout!Abort(w)
  PROVE  PayoutIInv'
<1> USE PayoutLengths, PayoutAssumption, TimeAssumption
<1>0. clock \in Nat /\ clock <= clock
  BY DEF PayoutIInv, PayoutTyped
<1>1. CASE Payout!AssessUnavailable(w) \/ Payout!Refuse(w) \/ Payout!Abort(w)
  <2>1. /\ UNCHANGED <<clock, account, covered, verifications, screenings, assessKey, issued, asked>>
        /\ Payout!End(w)
    BY <1>1 DEF Payout!AssessUnavailable, Payout!Refuse, Payout!Abort, Payout!evidence
  <2> QED BY <2>1, PayoutEnds, PayoutAside
<1>2. CASE Payout!ApproveStart(w)
  <2>1. /\ UNCHANGED <<clock, account, covered, verifications, screenings, assessKey, issued, asked>>
        /\ point' = [point EXCEPT ![w] = "approving"] /\ request' = [request EXCEPT ![w] = Payout!Snapshot]
    BY <1>2 DEF Payout!ApproveStart, Payout!Begin, Payout!evidence
  <2>2. "approving" \in Payout!Points
    BY DEF Payout!Points
  <2>3. /\ point' \in [Workers -> Payout!Points] /\ request' \in [Workers -> PayoutTasks]
        /\ \A u \in Workers : PayoutTask(u)'
    BY <1>0, <2>1, <2>2, PayoutSnapshot, PayoutMoves
  <2> QED BY <2>1, <2>3, PayoutAside
<1>3. CASE Payout!Evaluate(w)
  <2> DEFINE task == [Payout!Snapshot EXCEPT !.amlUntil = clock + PayoutAmlValidity]
  <2>1. /\ UNCHANGED <<clock, account, covered, verifications, screenings, assessKey, issued, asked>>
        /\ point' = [point EXCEPT ![w] = "allowed"] /\ request' = [request EXCEPT ![w] = task]
    BY <1>3 DEF Payout!Evaluate, Payout!Begin, Payout!evidence
  <2>2. "allowed" \in Payout!Points /\ task \in PayoutTasks /\ task.at = clock
    BY <1>0, PayoutSnapshot DEF Payout!Points, PayoutTasks
  <2> HIDE DEF task
  <2>3. /\ point' \in [Workers -> Payout!Points] /\ request' \in [Workers -> PayoutTasks]
        /\ \A u \in Workers : PayoutTask(u)'
    BY <1>0, <2>1, <2>2, PayoutMoves
  <2> QED BY <2>1, <2>3, PayoutAside
<1>4. CASE Payout!Queue(w)
  <2> DEFINE task == [request[w] EXCEPT !.at = clock]
  <2>1. /\ UNCHANGED <<clock, account, covered, verifications, screenings, assessKey, issued, asked>>
        /\ point' = [point EXCEPT ![w] = "issuing"] /\ request' = [request EXCEPT ![w] = task]
    BY <1>4 DEF Payout!Queue, Payout!evidence
  <2>2. "issuing" \in Payout!Points /\ task \in PayoutTasks /\ task.at = clock
    BY <1>0, ZenonT(60) DEF Payout!Points, PayoutTasks, PayoutIInv, PayoutTyped
  <2> HIDE DEF task
  <2>3. /\ point' \in [Workers -> Payout!Points] /\ request' \in [Workers -> PayoutTasks]
        /\ \A u \in Workers : PayoutTask(u)'
    BY <1>0, <2>1, <2>2, PayoutMoves
  <2> QED BY <2>1, <2>3, PayoutAside
<1> QED BY <1>1, <1>2, <1>3, <1>4

LEMMA PayoutApproves ==
  ASSUME PayoutIInv, NEW w \in Workers, Payout!ApproveApply(w)
  PROVE  PayoutIInv'
<1> USE PayoutLengths, PayoutAssumption, TimeAssumption
<1> DEFINE approved == [account EXCEPT !.status = "approved_pending_cooling", !.statusV = @ + 1,
                                       !.coolUntil = clock + PayoutCooling]
<1>1. /\ UNCHANGED <<clock, covered, verifications, screenings, assessKey, issued, asked>> /\ Payout!End(w)
      /\ account' = account \/ (account.status = "pending_review" /\ account' = approved)
  BY DEF Payout!ApproveApply, Payout!ApprovalGates, Payout!evidence
<1>2. account \in AccountRow /\ clock \in Nat
  BY DEF PayoutIInv, PayoutTyped
<1>3. /\ approved \in AccountRow /\ approved.status = "approved_pending_cooling"
      /\ approved.epoch = account.epoch /\ approved.verification = account.verification
  <2>1. "approved_pending_cooling" \in Payout!Statuses /\ clock + PayoutCooling \in Nat \cup {None}
    BY <1>2 DEF Payout!Statuses
  <2>2. approved \in AccountRow
    BY <2>1, AccountTyped, AccountSet
  <2> QED BY <1>2, <2>2 DEF AccountRow
<1> HIDE DEF approved
<1>4. /\ account' \in AccountRow
      /\ account'.epoch = account.epoch /\ account'.verification = account.verification
      /\ \/ account'.status = account.status
         \/ account.status = "pending_review" /\ account'.status = "approved_pending_cooling"
  BY <1>1, <1>2, <1>3
<1>5. /\ point' \in [Workers -> Payout!Points] /\ request' \in [Workers -> PayoutTasks]
      /\ \A v \in Workers : PayoutTask(v)'
  BY <1>1, <1>4, PayoutEnds
<1>6. PayoutTyped'
  BY <1>1, <1>4, <1>5 DEF PayoutIInv, PayoutTyped
<1>7. \A k \in Keys : AskedOnce(k)'
  BY <1>1 DEF PayoutIInv, AskedOnce
<1>8. Payout!RowsAgree' /\ Payout!NeverBack' /\ \A k \in 1..Len(issued') : DecisionSound(k)'
  BY <1>1, <1>4, PayoutRowStep
<1> QED BY <1>5, <1>6, <1>7, <1>8 DEF PayoutIInv

\* The first use activates the account, and a decision names the last rows of both tables.
LEMMA PayoutIssues ==
  ASSUME PayoutIInv, NEW w \in Workers, NEW admitted \in BOOLEAN, Payout!Issue(w, admitted)
  PROVE  PayoutIInv'
<1> USE PayoutLengths, PayoutAssumption, TimeAssumption
<1> DEFINE v == Len(verifications)
           s == Len(screenings)
           new == [screening |-> s, verification |-> v, evaluated |-> request[w].verification, rail |-> covered,
                   epoch |-> account.epoch, at |-> request[w].at, expires |-> Payout!Expiry(w)]
<1>1. /\ account' = Payout!Activated /\ Payout!Stands(w) /\ Payout!End(w)
      /\ issued' = issued \/ issued' = Append(issued, new)
      /\ UNCHANGED <<clock, covered, verifications, screenings, assessKey, asked>>
  BY DEF Payout!Issue, Payout!evidence
<1>2. /\ account \in AccountRow /\ request[w] \in PayoutTasks /\ covered \in BOOLEAN /\ issued \in Seq(IssuedRows)
      /\ verifications \in Seq(VerificationRows) /\ screenings \in Seq(ScreeningRows)
  BY DEF PayoutIInv, PayoutTyped
<1>3. /\ covered /\ account.status \in {"active", "approved_pending_cooling"}
      /\ verifications # <<>> /\ screenings # <<>>
      /\ verifications[v].result = "verified" /\ screenings[s].result = "clear"
      /\ request[w].verification = v /\ Payout!Expiry(w) > request[w].at
  BY <1>1 DEF Payout!Stands, Payout!GatesHold, Payout!FiatGates, Payout!Clear, Payout!Verified, Payout!Fresh,
     Payout!SameEvidence
<1>4. /\ v \in 1..Len(verifications) /\ s \in 1..Len(screenings)
      /\ verifications[v] \in VerificationRows /\ screenings[s] \in ScreeningRows
  BY <1>2, <1>3
<1>5. /\ Payout!Expiry(w) \in Nat
      /\ Payout!Expiry(w) <= verifications[v].until /\ Payout!Expiry(w) <= screenings[s].until
  <2>1. /\ request[w].at + PayoutTtl \in Nat /\ request[w].amlUntil \in Nat
        /\ screenings[s].until \in Nat /\ verifications[v].until \in Nat
    <3>1. request[w].at \in Nat /\ request[w].amlUntil \in Nat /\ PayoutTtl \in Nat
      BY <1>2 DEF PayoutTasks
    <3>2. screenings[s].until \in Nat /\ verifications[v].until \in Nat
      BY <1>4 DEF VerificationRows, ScreeningRows
    <3>3. request[w].at + PayoutTtl \in Nat
      BY ONLY <3>1
    <3> QED BY ONLY <3>1, <3>2, <3>3
  <2>2. ASSUME NEW a \in Nat, NEW b \in Nat, NEW c \in Nat, NEW d \in Nat,
               Payout!Expiry(w) = Payout!Min({a, b, c, d})
        PROVE  Payout!Expiry(w) \in Nat /\ Payout!Expiry(w) <= c /\ Payout!Expiry(w) <= d
    <3>1. /\ Payout!Min({a, b, c, d}) \in Nat
          /\ Payout!Min({a, b, c, d}) <= c /\ Payout!Min({a, b, c, d}) <= d
      BY LeastOfFour
    <3> QED BY <2>2, <3>1
  <2>3. Payout!Expiry(w) = Payout!Min({request[w].at + PayoutTtl, request[w].amlUntil,
                                       screenings[s].until, verifications[v].until})
    BY DEF Payout!Expiry
  <2> HIDE DEF v, s
  <2> QED BY <2>1, <2>2, <2>3
<1>6. /\ Payout!Activated \in AccountRow /\ Payout!Activated.status = "active"
      /\ Payout!Activated.epoch = account.epoch /\ Payout!Activated.verification = account.verification
  <2> DEFINE first == [account EXCEPT !.status = "active", !.statusV = account.statusV + 1,
                                      !.whitelistV = account.whitelistV + 1]
  <2>1. "active" \in Payout!Statuses
    BY DEF Payout!Statuses
  <2>2. first \in AccountRow
    BY <2>1, AccountTyped, AccountSet
  <2>3. first.status = "active" /\ first.epoch = account.epoch /\ first.verification = account.verification
    BY <1>2 DEF AccountRow
  <2>4. Payout!Activated = IF account.status = "active" THEN account ELSE first
    BY DEF Payout!Activated
  <2> HIDE DEF first
  <2> QED BY <2>2, <2>3, <2>4, <1>2
<1>7. /\ account' \in AccountRow /\ account'.status = "active" /\ account'.epoch = account.epoch
      /\ account'.verification = account.verification
  BY <1>1, <1>6
<1>8. /\ point' \in [Workers -> Payout!Points] /\ request' \in [Workers -> PayoutTasks]
      /\ \A u \in Workers : PayoutTask(u)'
  BY <1>1, <1>3, <1>7, PayoutEnds
<1>9. /\ new.screening = s /\ new.verification = v /\ new.evaluated = v /\ new.at = request[w].at
      /\ new.expires = Payout!Expiry(w) /\ new.epoch = account.epoch /\ new.rail
  BY <1>3
<1>10. new \in IssuedRows
  <2>1. request[w].verification \in Nat /\ request[w].at \in Nat /\ account.epoch \in Nat
    BY <1>2, AccountTyped DEF PayoutTasks
  <2>2. v \in Nat /\ s \in Nat
    BY <1>2
  <2> HIDE DEF v, s
  <2> QED BY <1>2, <1>5, <2>1, <2>2 DEF IssuedRows
<1> HIDE DEF new
<1>11. /\ issued' \in Seq(IssuedRows) /\ Len(issued) \in Nat /\ Len(issued') \in Nat
       /\ \A k \in 1..Len(issued') :
             \/ k \in 1..Len(issued) /\ issued'[k] = issued[k]
             \/ issued'[k] = new /\ k = Len(issued) + 1
  <2>1. CASE issued' = issued
    BY <2>1, <1>2
  <2>2. CASE issued' = Append(issued, new)
    <3>1. /\ issued' \in Seq(IssuedRows) /\ Len(issued') = Len(issued) + 1 /\ Len(issued) \in Nat
          /\ \A i \in 1..Len(issued) : issued'[i] = issued[i]
          /\ issued'[Len(issued) + 1] = new
      BY <2>2, <1>2, <1>10, AppendProperties
    <3> QED BY <3>1
  <2> QED BY <1>1, <2>1, <2>2
<1>12. PayoutTyped'
  BY <1>1, <1>7, <1>8, <1>11 DEF PayoutIInv, PayoutTyped
<1>13. \A k \in Keys : AskedOnce(k)'
  BY <1>1 DEF PayoutIInv, AskedOnce
<1>14. Payout!RowsAgree'
  BY <1>1, <1>7 DEF PayoutIInv, Payout!RowsAgree
<1>15. Payout!NeverBack'
  BY <1>3, <1>7 DEF PayoutIInv, Payout!NeverBack
<1>16. ASSUME NEW k \in 1..Len(issued') PROVE DecisionSound(k)'
  <2>1. verifications' = verifications /\ screenings' = screenings
    BY <1>1
  <2>2. CASE k \in 1..Len(issued) /\ issued'[k] = issued[k]
    <3>1. DecisionSound(k)
      BY <2>2 DEF PayoutIInv
    <3> QED BY <2>1, <2>2, <3>1, <1>7 DEF DecisionSound
  <2>3. CASE issued'[k] = new /\ k = Len(issued) + 1
    <3>1. /\ new.at < new.expires /\ new.expires <= verifications[v].until /\ new.expires <= screenings[s].until
          /\ new.epoch <= account'.epoch
      BY <1>2, <1>3, <1>5, <1>7, <1>9 DEF AccountRow, PayoutTasks
    <3>2. /\ \A i \in 1..Len(verifications) : ~(i > v)
          /\ \A i \in 1..Len(screenings) : ~(i > s)
      BY <1>4
    <3> QED BY <2>1, <2>3, <3>1, <3>2, <1>3, <1>4, <1>9 DEF DecisionSound
  <2> QED BY <2>2, <2>3, <1>11
<1> QED BY <1>8, <1>12, <1>13, <1>14, <1>15, <1>16 DEF PayoutIInv

LEMMA PayoutSurroundings ==
  ASSUME PayoutIInv, Payout!Revoke \/ Payout!SetCoverage \/ Payout!Tick \/ UNCHANGED payoutVars
  PROVE  PayoutIInv'
<1> USE PayoutLengths, PayoutAssumption, TimeAssumption
<1>1. CASE Payout!Revoke
  <2> DEFINE revoked == [account EXCEPT !.status = "revoked", !.epoch = @ + 1, !.statusV = @ + 1]
  <2>1. /\ account.status \notin {None, "revoked"} /\ account' = revoked /\ account \in AccountRow
        /\ UNCHANGED <<clock, covered, verifications, screenings, assessKey, issued, point, request, asked>>
    BY <1>1 DEF Payout!Revoke, Payout!evidence, PayoutIInv, PayoutTyped
  <2>2. /\ revoked \in AccountRow /\ revoked.status = "revoked" /\ revoked.epoch = account.epoch + 1
        /\ revoked.verification = account.verification /\ account.epoch \in Nat
    <3>1. "revoked" \in Payout!Statuses
      BY DEF Payout!Statuses
    <3>2. revoked \in AccountRow
      BY <3>1, AccountTyped, AccountSet
    <3> QED BY <2>1, <3>2, AccountTyped DEF AccountRow
  <2> HIDE DEF revoked
  <2>3. PayoutTyped'
    BY <2>1, <2>2 DEF PayoutIInv, PayoutTyped
  <2>4. (\A k \in Keys : AskedOnce(k)') /\ (\A w \in Workers : PayoutTask(w)')
    BY <2>1, <2>2 DEF PayoutIInv, AskedOnce, PayoutTask
  <2>5. Payout!RowsAgree' /\ Payout!NeverBack'
    BY <2>1, <2>2 DEF PayoutIInv, Payout!RowsAgree, Payout!NeverBack
  <2>6. ASSUME NEW k \in 1..Len(issued') PROVE DecisionSound(k)'
    <3>1. /\ DecisionSound(k) /\ issued' = issued /\ verifications' = verifications /\ screenings' = screenings
          /\ issued[k].epoch \in Nat /\ account'.epoch = account.epoch + 1
      <4>1. issued' = issued /\ issued \in Seq(IssuedRows)
        BY <2>1 DEF PayoutIInv, PayoutTyped
      <4>2. issued[k] \in IssuedRows /\ DecisionSound(k)
        BY <4>1 DEF PayoutIInv
      <4> QED BY <4>1, <4>2, <2>1, <2>2 DEF IssuedRows
    <3> QED BY <2>2, <3>1, SMTT(30) DEF DecisionSound
  <2> QED BY <2>3, <2>4, <2>5, <2>6 DEF PayoutIInv
<1>2. CASE Payout!SetCoverage \/ Payout!Tick \/ UNCHANGED payoutVars
  <2>1. /\ UNCHANGED <<account, verifications, screenings, assessKey, issued, point, request, asked>>
        /\ clock' \in 0..MaxTime /\ clock <= clock' /\ covered' \in BOOLEAN
    <3>1. CASE Payout!SetCoverage
      BY <3>1 DEF Payout!SetCoverage, Payout!evidence, PayoutIInv, PayoutTyped
    <3>2. CASE Payout!Tick
      BY <3>2 DEF Payout!Tick, Payout!evidence, PayoutIInv, PayoutTyped
    <3>3. CASE UNCHANGED payoutVars
      BY <3>3 DEF payoutVars, PayoutIInv, PayoutTyped
    <3> QED BY <1>2, <3>1, <3>2, <3>3
  <2>2. PayoutTyped'
    BY <2>1 DEF PayoutIInv, PayoutTyped
  <2>3. \A k \in Keys : AskedOnce(k)'
    BY <2>1 DEF PayoutIInv, AskedOnce
  <2>4. \A w \in Workers : PayoutTask(w)'
    BY <2>1, SMTT(30) DEF PayoutIInv, PayoutTask, PayoutTyped, PayoutTasks
  <2>5. Payout!RowsAgree' /\ Payout!NeverBack' /\ \A k \in 1..Len(issued') : DecisionSound(k)'
    BY <2>1, PayoutRowStep DEF PayoutIInv, PayoutTyped
  <2> QED BY <2>2, <2>3, <2>4, <2>5 DEF PayoutIInv
<1> QED BY <1>1, <1>2

LEMMA PayoutStep == PayoutIInv /\ [Payout!Next]_payoutVars => PayoutIInv'
<1> SUFFICES ASSUME PayoutIInv, [Payout!Next]_payoutVars PROVE PayoutIInv'
  OBVIOUS
<1>1. ASSUME NEW w \in Workers, Payout!Answers(w) PROVE PayoutIInv'
  BY <1>1, PayoutAnswers DEF Payout!Answers
<1>2. ASSUME NEW w \in Workers, NEW k \in Keys, NEW given \in BOOLEAN, Payout!AssessStart(w, k, given)
      PROVE  PayoutIInv'
  BY <1>2, PayoutAssesses
<1>3. ASSUME NEW w \in Workers, NEW admitted \in BOOLEAN, Payout!Issue(w, admitted) PROVE PayoutIInv'
  BY <1>3, PayoutIssues
<1> QED
  BY <1>1, <1>2, <1>3, PayoutRegisters, PayoutWaits, PayoutApproves, PayoutSurroundings DEF Payout!Next

LEMMA PayoutMeans ==
  ASSUME PayoutIInv
  PROVE  /\ Payout!TypeOK /\ Payout!OnePhase /\ Payout!RowsAgree /\ Payout!NeverBack /\ Payout!IssuedOnLatest
<1> USE PayoutLengths, PayoutAssumption, TimeAssumption
<1>1. /\ DOMAIN verifications = 1..Len(verifications) /\ DOMAIN screenings = 1..Len(screenings)
      /\ DOMAIN issued = 1..Len(issued)
  BY DEF PayoutIInv, PayoutTyped
<1>2. Payout!TypeOK
  <2>1. account.status \in Payout!Statuses /\ account.verification \in Payout!Verifications \cup {"pending"}
    BY DEF PayoutIInv, PayoutTyped, AccountRow
  <2>2. /\ \A i \in DOMAIN verifications : verifications[i].result \in Payout!Verifications
        /\ \A i \in DOMAIN screenings : screenings[i].result \in Payout!Risks
    <3>1. /\ \A i \in DOMAIN verifications : verifications[i] \in VerificationRows
          /\ \A i \in DOMAIN screenings : screenings[i] \in ScreeningRows
      BY DEF PayoutIInv, PayoutTyped
    <3> QED BY <3>1 DEF VerificationRows, ScreeningRows
  <2>3. \A k \in DOMAIN issued : issued[k].epoch \in 0..account.epoch
    <3>1. ASSUME NEW k \in DOMAIN issued PROVE issued[k].epoch \in Nat /\ account.epoch \in Nat
      <4>1. issued[k] \in IssuedRows
        BY DEF PayoutIInv, PayoutTyped
      <4> QED BY <4>1, AccountTyped DEF IssuedRows
    <3> QED BY <1>1, <3>1 DEF PayoutIInv, DecisionSound
  <2>4. \A w \in Workers : request[w].at \in 0..clock
    BY DEF PayoutIInv, PayoutTyped, PayoutTasks, PayoutTask
  <2> QED BY <2>1, <2>2, <2>3, <2>4 DEF PayoutIInv, PayoutTyped, Payout!TypeOK
<1>3. Payout!OnePhase
  BY DEF PayoutIInv, AskedOnce, Payout!OnePhase
<1>4. Payout!IssuedOnLatest
  BY <1>1 DEF PayoutIInv, DecisionSound, Payout!IssuedOnLatest
<1> QED BY <1>2, <1>3, <1>4 DEF PayoutIInv

-----------------------------------------------------------------------------
(* A wallet under screening: a result that stands is final, and so is the  *)
(* lapse of a screening that no answer can be applied to any more          *)
(* (ScreeningClosed); the invariant ties every delivery under way, and     *)
(* every row of the inbox, to one of the two.                              *)

ScreeningPoints == {"idle", "calling", "received", "applying", "lost", "accepting", "resolving",
           "rejecting stale", "rejecting invalid"}
Evidences == {<<>>, <<0, None>>} \cup (Receipts \X Bodies)
ScreeningResults == [risk : {None, "pending", "failed", "screened"}, by : Evidences, age : 0..2]
InboxRows == [body : Bodies \cup {None}, status : {None, "received", "processed", "rejected"},
         reason : {None, "unknown", "stale", "invalid"}]
ScreeningTasks == [at : ScreeningPoints, id : Screens \cup Receipts \cup {0}, body : Bodies \cup {None}]

ScreeningTyped ==
    /\ status \in {"draft", "pending_screening", "pending_review", "revoked"}
    /\ screen \in [Screens -> ScreeningResults]
    /\ inbox \in [Receipts -> InboxRows]
    /\ screenWork \in [Workers -> ScreeningTasks]

ScreeningOver(n) == screen[n].risk \in {"failed", "screened"}

\* No answer can be applied to the screening any more.
ScreeningClosed(n) == ScreeningOver(n) \/ (status = "revoked" /\ Screening!Pending(n))

\* Only a result has provenance, and only a screening asked for is in any state.
Provenance ==
    \A n \in Screens :
        /\ screen[n].by # <<>> => screen[n].risk = "screened"
        /\ screen[n].risk = None => screen[n] = Screening!NoScreen

\* A row of the inbox.
InboxRow(r) ==
    /\ inbox[r].body = None => inbox[r] = Screening!NoReceipt
    /\ inbox[r].body # None => inbox[r].status # None
    /\ inbox[r].status = "rejected" <=> inbox[r].reason # None
    /\ inbox[r].body # None => (r \in Foreign <=> inbox[r].reason = "unknown")
    /\ inbox[r].body # None /\ r \notin Foreign => screen[Target[r]] # Screening!NoScreen
    /\ inbox[r].reason = "stale" => ScreeningClosed(Target[r]) /\ ~Screening!Evidence(r, inbox[r].body)
    /\ inbox[r].status = "processed" => Screening!Evidence(r, inbox[r].body)
    /\ \A b \in Bodies : Screening!Evidence(r, b) =>
          /\ inbox[r].body = b
          /\ r \notin Foreign

\* A delivery under way.
Delivering(w) ==
    LET r == screenWork[w].id
        b == screenWork[w].body
    IN  /\ Screening!Now(w) = "calling" => r \in Screens
        /\ Screening!Now(w) \notin {"idle", "calling"} =>
              r \in Receipts /\ r \notin Foreign /\ b \in Bodies /\ inbox[r].body = b
        /\ Screening!Now(w) \in {"accepting", "resolving"} => Screening!Evidence(r, b)
        /\ Screening!Now(w) = "lost" => ScreeningClosed(Target[r])
        /\ Screening!Now(w) = "rejecting stale" => ScreeningClosed(Target[r]) /\ ~Screening!Evidence(r, b)

ScreeningIInv ==
    /\ ScreeningTyped /\ Screening!OnePending /\ Provenance
    /\ \A r \in Receipts : InboxRow(r)
    /\ \A w \in Workers : Delivering(w)

-----------------------------------------------------------------------------
(* The screenings.                                                         *)

\* What a step may do to screenings: results and lapses are for good.
Onward ==
    \A n \in Screens :
        /\ ScreeningOver(n) => screen'[n] = screen[n]
        /\ ScreeningClosed(n) => ScreeningClosed(n)' /\ screen'[n].by = screen[n].by
        /\ screen[n] # Screening!NoScreen => screen'[n] # Screening!NoScreen

NoNewEvidence == \A r \in Receipts, b \in Bodies : Screening!Evidence(r, b)' => Screening!Evidence(r, b)

Screenings == ScreeningTyped /\ Screening!OnePending /\ Provenance

\* Asking for a screening, for the first time or again, leaves one pending.
LEMMA AskStep ==
  ASSUME Screenings, NEW w \in Workers, NEW n \in Screens, Screening!Screen(w, n)
  PROVE  Screenings' /\ Onward /\ NoNewEvidence
<1> USE ScreeningAssumption
<1>1. ScreeningTyped'
  <2>1. Screening!Young \in ScreeningResults
    BY DEF Screening!Young, Screening!NoScreen, ScreeningResults, Evidences
  <2>2. screen' \in [Screens -> ScreeningResults]
    BY <2>1 DEF Screenings, ScreeningTyped, Screening!Screen
  <2>3. screenWork' \in [Workers -> ScreeningTasks]
    BY DEF Screenings, ScreeningTyped, Screening!Screen, Screening!Start, ScreeningTasks, ScreeningPoints
  <2> QED  BY <2>2, <2>3 DEF Screenings, ScreeningTyped, Screening!Screen, Screening!First, Screening!Retry
<1>2. screen' = [screen EXCEPT ![n] = Screening!Young] /\ screen \in [Screens -> ScreeningResults]
  BY DEF Screenings, ScreeningTyped, Screening!Screen
<1>3. screen[n].risk \in {None, "pending"} /\ (screen[n].risk = None => screen[n] = Screening!NoScreen)
  BY DEF Screenings, Screening!Screen, Screening!First, Screening!Retry, Screening!Next1, Screening!Pending,
         Screening!NoScreen, Provenance
<1>4. screen[n].by = <<>>
  BY <1>3 DEF Screenings, Provenance
<1>5. /\ status' = "pending_screening"
      /\ status \in {"draft", "pending_screening"}
      /\ \A k \in Screens : k > n => screen[k] = Screening!NoScreen
  <2>1. CASE Screening!First(n)
    BY <2>1 DEF Screening!First, Screening!Next1
  <2>2. CASE Screening!Retry(n)
    BY <2>2 DEF Screening!Retry, Screenings, Screening!OnePending
  <2> QED  BY <2>1, <2>2 DEF Screening!Screen
<1>6. \A k \in Screens \ {n} : ~Screening!Pending(k)
  <2>1. CASE Screening!First(n)
    BY <2>1 DEF Screening!First, Screenings, Screening!OnePending
  <2>2. CASE Screening!Retry(n)
    BY <2>2 DEF Screening!Retry, Screenings, Screening!OnePending, Screening!Pending, Screening!NoScreen
  <2> QED  BY <2>1, <2>2 DEF Screening!Screen
<1>7. Screening!OnePending'
  BY <1>2, <1>5, <1>6 DEF Screening!OnePending, Screening!Pending, Screening!Applicable, Screening!Young,
       Screening!NoScreen
<1>8. Provenance'
  BY <1>2 DEF Provenance, Screening!Young, Screening!NoScreen, Screenings
<1>9. Onward
  BY <1>2, <1>3, <1>4, <1>5 DEF Onward, ScreeningOver, ScreeningClosed, Screening!Pending, Screening!Young,
       Screening!NoScreen
<1>10. NoNewEvidence
  BY <1>2, <1>4 DEF NoNewEvidence, Screening!Evidence, Screening!Young, Screening!NoScreen
<1> QED  BY <1>1, <1>7, <1>8, <1>9, <1>10 DEF Screenings

\* Applying an answer ends the pending screening, the newest, and that one only.
LEMMA ApplyStep ==
  ASSUME Screenings, NEW n \in Screens, NEW e \in Evidences, e # <<>>, Screening!Apply(n, e),
         screenWork' \in [Workers -> ScreeningTasks], UNCHANGED inbox
  PROVE  /\ Screenings' /\ Onward
         /\ screen'[n].by = e
         /\ \A k \in Screens \ {n} : screen'[k].by = screen[k].by
<1> USE ScreeningAssumption
<1> DEFINE row == [risk |-> "screened", by |-> e, age |-> 0]
<1>1. /\ screen \in [Screens -> ScreeningResults] /\ row \in ScreeningResults
      /\ screen' = [screen EXCEPT ![n] = row] /\ status' = "pending_review"
      /\ status = "pending_screening" /\ Screening!Pending(n)
      /\ \A k \in Screens : k > n => screen[k] = Screening!NoScreen
  BY DEF Screening!Apply, Screening!Applicable, Screenings, ScreeningTyped, ScreeningResults
<1>2. ScreeningTyped'
  BY <1>1 DEF Screenings, ScreeningTyped
<1>3. \A k \in Screens \ {n} : ~Screening!Pending(k)
  BY <1>1 DEF Screenings, Screening!OnePending, Screening!Pending, Screening!NoScreen
<1>4. Screening!OnePending'
  BY <1>1, <1>3 DEF Screening!OnePending, Screening!Pending
<1>5. Provenance'
  BY <1>1 DEF Screenings, Provenance, Screening!NoScreen
<1>6. Onward
  BY <1>1, <1>3 DEF Onward, ScreeningOver, ScreeningClosed, Screening!Pending, Screening!NoScreen
<1> QED  BY <1>1, <1>2, <1>4, <1>5, <1>6 DEF Screenings

\* Recovery gives a screening up and returns its wallet to draft.
LEMMA RecoverStep ==
  ASSUME Screenings, NEW n \in Screens, Screening!Recover(n)
  PROVE  Screenings' /\ Onward /\ NoNewEvidence
<1> USE ScreeningAssumption
<1>1. /\ screen \in [Screens -> ScreeningResults] /\ Screening!Recovered \in ScreeningResults
      /\ screen' = [screen EXCEPT ![n] = Screening!Recovered] /\ status' = "draft"
      /\ status = "pending_screening" /\ Screening!Pending(n)
  BY DEF Screening!Recover, Screening!Recoverable, Screenings, ScreeningTyped, ScreeningResults,
         Screening!Recovered, Screening!NoScreen, Evidences
<1>2. ScreeningTyped'
  BY <1>1 DEF Screenings, ScreeningTyped, Screening!Recover
<1>3. \A k \in Screens \ {n} : ~Screening!Pending(k)
  BY <1>1 DEF Screenings, Screening!OnePending, Screening!Pending, Screening!NoScreen
<1>4. screen[n].by = <<>>
  BY <1>1 DEF Screenings, Provenance, Screening!Pending
<1>5. Screening!OnePending'
  BY <1>1, <1>3 DEF Screening!OnePending, Screening!Pending, Screening!Recovered, Screening!NoScreen
<1>6. Provenance'
  BY <1>1 DEF Screenings, Provenance, Screening!Recovered, Screening!NoScreen
<1>7. Onward
  BY <1>1, <1>3, <1>4 DEF Onward, ScreeningOver, ScreeningClosed, Screening!Pending, Screening!Recovered,
       Screening!NoScreen
<1>8. NoNewEvidence
  BY <1>1, <1>4 DEF NoNewEvidence, Screening!Evidence, Screening!Recovered, Screening!NoScreen
<1> QED  BY <1>2, <1>5, <1>6, <1>7, <1>8 DEF Screenings

\* Time passes for a pending screening.
LEMMA AgeStep ==
  ASSUME Screenings, NEW n \in Screens, Screening!Age(n)
  PROVE  Screenings' /\ Onward /\ NoNewEvidence
<1> USE ScreeningAssumption
<1> DEFINE row == [screen[n] EXCEPT !.age = screen[n].age + 1]
<1>1. /\ screen \in [Screens -> ScreeningResults] /\ Screening!Pending(n) /\ screen[n].age \in 0..1
      /\ screen' = [screen EXCEPT ![n] = row] /\ status' = status
      /\ UNCHANGED <<inbox, screenWork>>
  BY DEF Screening!Age, Screenings, ScreeningTyped, ScreeningResults
<1>2. row \in ScreeningResults /\ row.risk = screen[n].risk /\ row.by = screen[n].by
  BY <1>1 DEF ScreeningResults
<1> HIDE DEF row
<1>3. \A k \in Screens : screen'[k].risk = screen[k].risk /\ screen'[k].by = screen[k].by
  BY <1>1, <1>2
<1>4. \A k \in Screens : screen'[k] = Screening!NoScreen <=> screen[k] = Screening!NoScreen
  BY <1>1, <1>2, <1>3 DEF Screening!NoScreen, Screening!Pending
<1>5. ScreeningTyped'
  BY <1>1, <1>2 DEF Screenings, ScreeningTyped
<1>6. Screening!OnePending'
  BY <1>1, <1>3, <1>4 DEF Screenings, Screening!OnePending, Screening!Pending, Screening!Applicable
<1>7. Provenance'
  BY <1>3, <1>4 DEF Screenings, Provenance
<1>8. Onward
  BY <1>1, <1>3, <1>4 DEF Onward, ScreeningOver, ScreeningClosed, Screening!Pending
<1>9. NoNewEvidence
  BY <1>3 DEF NoNewEvidence, Screening!Evidence
<1> QED  BY <1>5, <1>6, <1>7, <1>8, <1>9 DEF Screenings

\* A revoked wallet keeps what its screenings say.
LEMMA ScreeningRevokeStep ==
  ASSUME Screenings, Screening!Revoke
  PROVE  Screenings' /\ Onward /\ NoNewEvidence
BY DEF Screenings, Screening!Revoke, ScreeningTyped, Screening!OnePending, Screening!Applicable,
       Screening!Pending, Provenance, Screening!NoScreen, Onward, ScreeningOver, ScreeningClosed,
       NoNewEvidence, Screening!Evidence

\* A step of a worker that leaves the wallet and its screenings alone.
LEMMA ScreeningStillStep ==
  ASSUME Screenings, UNCHANGED <<status, screen>>,
         inbox' \in [Receipts -> InboxRows], screenWork' \in [Workers -> ScreeningTasks]
  PROVE  Screenings' /\ Onward /\ NoNewEvidence
BY DEF Screenings, ScreeningTyped, Screening!OnePending, Screening!Applicable, Screening!Pending, Provenance,
       Screening!NoScreen, Onward, ScreeningOver, ScreeningClosed,
       NoNewEvidence, Screening!Evidence

-----------------------------------------------------------------------------
(* Receipts and deliveries.                                                *)

Receiving == Screenings /\ (\A r \in Receipts : InboxRow(r)) /\ (\A w \in Workers : Delivering(w))

\* A screening that a receipt stands in has its result.
LEMMA EvidenceEnds ==
  ASSUME Screenings, NEW r \in Receipts, NEW b \in Bodies, Screening!Evidence(r, b)
  PROVE  ScreeningOver(Target[r])
<1>1. Target[r] \in Screens /\ screen[Target[r]].by = <<r, b>>
  BY ScreeningAssumption DEF Screening!Evidence
<1>2. <<r, b>> # <<>>
  OBVIOUS
<1>3. screen[Target[r]].by # <<>> => screen[Target[r]].risk = "screened"
  BY <1>1 DEF Screenings, Provenance
<1> QED  BY <1>1, <1>2, <1>3 DEF ScreeningOver

\* A row nobody writes stays right while screenings move on.
LEMMA RowKept ==
  ASSUME Receiving, Screenings', Onward, NEW r \in Receipts, inbox'[r] = inbox[r],
         \A b \in Bodies : Screening!Evidence(r, b)' => Screening!Evidence(r, b)
  PROVE  InboxRow(r)'
<1> USE ScreeningAssumption
<1>1. InboxRow(r) /\ inbox[r] \in InboxRows /\ Target[r] \in Screens
  BY DEF Receiving, Screenings, ScreeningTyped
<1>2. \A b \in Bodies : Screening!Evidence(r, b) => ScreeningOver(Target[r])
  BY <1>1, EvidenceEnds DEF Receiving
<1>3. \A b \in Bodies : Screening!Evidence(r, b) <=> Screening!Evidence(r, b)'
  BY <1>1, <1>2 DEF Onward, Screening!Evidence
<1>4. inbox[r].body = None => inbox[r] = Screening!NoReceipt
  BY <1>1 DEF InboxRow
<1>5. inbox[r].body # None => inbox[r].body \in Bodies
  BY <1>1 DEF InboxRows
<1>6. inbox[r].reason = "stale" \/ inbox[r].status = "processed" => inbox[r].body \in Bodies
  BY <1>4, <1>5 DEF Screening!NoReceipt
<1>7. inbox[r].reason = "stale" => ScreeningClosed(Target[r])' /\ ~Screening!Evidence(r, inbox[r].body)'
  BY <1>1, <1>3, <1>6 DEF InboxRow, Onward
<1>8. inbox[r].status = "processed" => Screening!Evidence(r, inbox[r].body)'
  BY <1>1, <1>3, <1>6 DEF InboxRow
<1>9. screen[Target[r]] # Screening!NoScreen => screen'[Target[r]] # Screening!NoScreen
  BY <1>1 DEF Onward
<1>10. \A b \in Bodies : Screening!Evidence(r, b)' => inbox[r].body = b /\ r \notin Foreign
  BY <1>1, <1>3 DEF InboxRow
<1> QED  BY <1>1, <1>7, <1>8, <1>9, <1>10 DEF InboxRow

\* So does a delivery whose worker does not act, while its row keeps its body.
LEMMA DeliveringKept ==
  ASSUME Receiving, Onward, NEW w \in Workers, screenWork'[w] = screenWork[w],
         \A r \in Receipts : inbox[r].body # None => inbox'[r].body = inbox[r].body
  PROVE  Delivering(w)'
<1> USE ScreeningAssumption
<1> DEFINE r == screenWork[w].id
           b == screenWork[w].body
<1>1. Delivering(w) /\ Screening!Now(w)' = Screening!Now(w)
  BY DEF Receiving, Screening!Now
<1>2. CASE Screening!Now(w) \in {"idle", "calling"}
  BY <1>1, <1>2 DEF Delivering, Screening!Now
<1>3. CASE Screening!Now(w) \notin {"idle", "calling"}
  <2>1. r \in Receipts /\ r \notin Foreign /\ b \in Bodies /\ inbox[r].body = b /\ Target[r] \in Screens
    BY <1>1, <1>3 DEF Delivering
  <2>2. inbox'[r].body = b
    BY <2>1
  <2>3. Screening!Evidence(r, b) => ScreeningOver(Target[r])
    BY <2>1, EvidenceEnds DEF Receiving
  <2>4. Screening!Now(w) \in {"accepting", "resolving"} => (screen'[Target[r]].by = <<r, b>>)
    BY <1>1, <2>1, <2>3 DEF Delivering, Screening!Evidence, Onward
  <2>5. Screening!Now(w) \in {"lost", "rejecting stale"} => ScreeningClosed(Target[r])'
    BY <1>1, <2>1 DEF Delivering, Onward
  <2>6. Screening!Now(w) = "rejecting stale" => (screen'[Target[r]].by # <<r, b>>)
    BY <1>1, <2>1 DEF Delivering, Onward, Screening!Evidence
  <2> QED  BY <1>1, <1>3, <2>1, <2>2, <2>4, <2>5, <2>6 DEF Delivering, Screening!Evidence, Screening!Now
<1> QED  BY <1>2, <1>3

\* A step that only moves a worker on leaves the inbox and the others as they are.
LEMMA DeliveryStep ==
  ASSUME Receiving, Screenings', Onward, NEW w \in Workers,
         \A v \in Workers \ {w} : screenWork'[v] = screenWork[v], inbox' = inbox, NoNewEvidence, Delivering(w)'
  PROVE  Receiving'
<1>1. \A r \in Receipts : InboxRow(r)'
  BY RowKept DEF NoNewEvidence
<1>2. \A v \in Workers : Delivering(v)'
  BY DeliveringKept
<1> QED  BY <1>1, <1>2 DEF Receiving

\* A worker that is done is idle.
LEMMA RestDelivering ==
  ASSUME ScreeningTyped, NEW w \in Workers, Screening!Rest(w)
  PROVE  /\ screenWork' \in [Workers -> ScreeningTasks] /\ Delivering(w)'
         /\ \A v \in Workers \ {w} : screenWork'[v] = screenWork[v]
BY DEF ScreeningTyped, Screening!Rest, Screening!Idle, ScreeningTasks, ScreeningPoints, Delivering,
       Screening!Now

\* A worker that goes on keeps the receipt it works on.
LEMMA GoTyped ==
  ASSUME ScreeningTyped, NEW w \in Workers, NEW at \in ScreeningPoints, Screening!Go(w, at)
  PROVE  /\ screenWork' \in [Workers -> ScreeningTasks]
         /\ screenWork'[w].at = at /\ screenWork'[w].id = screenWork[w].id /\ screenWork'[w].body = screenWork[w].body
         /\ \A v \in Workers \ {w} : screenWork'[v] = screenWork[v]
BY DEF ScreeningTyped, Screening!Go, ScreeningTasks

\* So does one that begins.
LEMMA StartTyped ==
  ASSUME ScreeningTyped, NEW w \in Workers, NEW at \in ScreeningPoints,
       NEW id \in Screens \cup Receipts \cup {0},
         NEW body \in Bodies \cup {None}, Screening!Start(w, at, id, body)
  PROVE  /\ screenWork' \in [Workers -> ScreeningTasks]
         /\ screenWork'[w].at = at /\ screenWork'[w].id = id /\ screenWork'[w].body = body
         /\ \A v \in Workers \ {w} : screenWork'[v] = screenWork[v]
BY DEF ScreeningTyped, Screening!Start, ScreeningTasks

\* The row a delivery moves on stays right: its evidence does not change in this step.
LEMMA MovedRight ==
  ASSUME Receiving, NEW w \in Workers, Screening!Transition(w)
  PROVE  /\ inbox' \in [Receipts -> InboxRows]
         /\ \A r \in Receipts : inbox'[r].body = inbox[r].body
         /\ \A r \in Receipts : r # screenWork[w].id => inbox'[r] = inbox[r]
         /\ \A r \in Receipts : r = screenWork[w].id => InboxRow(r)'
<1> USE ScreeningAssumption
<1>0. PICK r \in Receipts : r = screenWork[w].id
  BY DEF Screening!Transition, Receiving, Delivering
<1> DEFINE row == inbox[r]
           new == Screening!Moved(w, row)
<1>1. /\ r \notin Foreign /\ row.body = screenWork[w].body /\ row.body \in Bodies
      /\ row \in InboxRows /\ InboxRow(r) /\ Delivering(w)
      /\ Screening!Now(w) \in {"accepting", "resolving", "rejecting stale", "rejecting invalid"}
  BY <1>0 DEF Screening!Transition, Receiving, Delivering, Screenings, ScreeningTyped
<1>2. inbox' = [inbox EXCEPT ![r] = new] /\ inbox \in [Receipts -> InboxRows]
  BY <1>0 DEF Screening!Transition, Receiving, Screenings, ScreeningTyped
<1>3. /\ new \in InboxRows /\ new.body = row.body
      /\ \/ new = row
         \/ new.status = "processed" /\ new.reason = None /\ Screening!Now(w) \in {"accepting", "resolving"}
         \/ new.status = "rejected" /\ new.reason = "stale" /\ Screening!Now(w) = "rejecting stale"
         \/ new.status = "rejected" /\ new.reason = "invalid"
  BY <1>1 DEF Screening!Moved, Screening!Heals, InboxRows, InboxRow
<1> HIDE DEF new
<1>4. /\ inbox'[r] = new /\ screen' = screen /\ status' = status
      /\ \A q \in Receipts : q # r => inbox'[q] = inbox[q]
  BY <1>1, <1>2 DEF Screening!Transition
<1>5. ScreeningClosed(Target[r])' <=> ScreeningClosed(Target[r])
  BY <1>1, <1>4 DEF ScreeningClosed, ScreeningOver, Screening!Pending
<1>6. InboxRow(r)'
  BY <1>0, <1>1, <1>3, <1>4, <1>5 DEF InboxRow, Screening!Evidence, Delivering, InboxRows
<1> QED  BY <1>0, <1>1, <1>2, <1>3, <1>4, <1>6

-----------------------------------------------------------------------------
(* The steps.                                                              *)

\* The answer to a call is no receipt's evidence.
LEMMA AnswerStep ==
  ASSUME Receiving, NEW w \in Workers, Screening!Answer(w)
  PROVE  Receiving'
<1>1. /\ screenWork' \in [Workers -> ScreeningTasks] /\ Delivering(w)' /\ inbox' = inbox
      /\ \A v \in Workers \ {w} : screenWork'[v] = screenWork[v]
  BY RestDelivering DEF Screening!Answer, Receiving, Screenings
<1>2. CASE UNCHANGED <<status, screen>>
  BY <1>1, <1>2, ScreeningStillStep, DeliveryStep DEF Receiving, Screenings, ScreeningTyped
<1>3. CASE Screening!Apply(screenWork[w].id, <<0, None>>)
  <2>1. PICK n \in Screens : n = screenWork[w].id
    BY DEF Screening!Answer, Receiving, Delivering
  <2>2. <<0, None>> \in Evidences /\ <<0, None>> # <<>>
    BY DEF Evidences
  <2>3. /\ Screenings' /\ Onward /\ screen'[n].by = <<0, None>>
        /\ \A k \in Screens \ {n} : screen'[k].by = screen[k].by
    BY <1>1, <1>3, <2>1, <2>2, ApplyStep DEF Receiving
  <2>4. NoNewEvidence
    BY <2>3, ScreeningAssumption DEF NoNewEvidence, Screening!Evidence
  <2> QED  BY <1>1, <2>3, <2>4, DeliveryStep
<1> QED  BY <1>2, <1>3 DEF Screening!Answer

\* A receipt the service applied stands in its screening and in no other's.
LEMMA ApplyReceiptStep ==
  ASSUME Receiving, NEW w \in Workers, Screening!ApplyReceipt(w)
  PROVE  Receiving'
<1> USE ScreeningAssumption
<1>1. PICK r \in Receipts, b \in Bodies : r = screenWork[w].id /\ b = screenWork[w].body
  BY DEF Screening!ApplyReceipt, Receiving, Delivering
<1>2. r \notin Foreign /\ inbox[r].body = b /\ inbox' = inbox /\ Target[r] \in Screens /\ InboxRow(r)
  BY <1>1 DEF Screening!ApplyReceipt, Receiving, Delivering
<1>3. CASE Screening!Apply(Target[r], <<r, b>>) /\ Screening!Go(w, "accepting")
  <2>1. /\ screenWork' \in [Workers -> ScreeningTasks]
        /\ screenWork'[w].at = "accepting" /\ screenWork'[w].id = r /\ screenWork'[w].body = b
        /\ \A v \in Workers \ {w} : screenWork'[v] = screenWork[v]
    BY <1>1, <1>3, GoTyped DEF ScreeningPoints, Receiving, Screenings
  <2>2. <<r, b>> \in Evidences /\ <<r, b>> # <<>>
    BY DEF Evidences
  <2>3. /\ Screenings' /\ Onward /\ screen'[Target[r]].by = <<r, b>>
        /\ \A k \in Screens \ {Target[r]} : screen'[k].by = screen[k].by
    BY <1>2, <1>3, <2>1, <2>2, ApplyStep DEF Receiving
  <2>4. Delivering(w)'
    BY <1>2, <2>1, <2>3 DEF Delivering, Screening!Now, Screening!Evidence
  <2>5. \A v \in Workers : Delivering(v)'
    BY <1>2, <2>1, <2>3, <2>4, DeliveringKept
  <2>6. ASSUME NEW q \in Receipts, q # r PROVE InboxRow(q)'
    <3>1. \A c \in Bodies : Screening!Evidence(q, c)' => Screening!Evidence(q, c)
      BY <2>3, <2>6 DEF Screening!Evidence
    <3> QED  BY <1>2, <2>3, <3>1, RowKept
  <2>7. InboxRow(r)'
    <3>1. \A c \in Bodies : Screening!Evidence(r, c)' <=> c = b
      BY <2>3 DEF Screening!Evidence
    <3>2. Screening!Pending(Target[r]) /\ status # "revoked"
      BY <1>3 DEF Screening!Apply, Screening!Applicable
    <3>3. inbox[r].reason # "stale"
      BY <1>2, <3>2 DEF InboxRow, ScreeningClosed, ScreeningOver, Screening!Pending
    <3>4. screen'[Target[r]] # Screening!NoScreen
      BY <2>3 DEF Screening!NoScreen
    <3> QED  BY <1>2, <3>1, <3>3, <3>4 DEF InboxRow
  <2> QED  BY <2>3, <2>5, <2>6, <2>7 DEF Receiving
<1>4. CASE ~Screening!Applicable(Target[r]) /\ Screening!Go(w, "lost") /\ UNCHANGED <<status, screen>>
  <2>1. /\ screenWork' \in [Workers -> ScreeningTasks]
        /\ screenWork'[w].at = "lost" /\ screenWork'[w].id = r /\ screenWork'[w].body = b
        /\ \A v \in Workers \ {w} : screenWork'[v] = screenWork[v]
    BY <1>1, <1>4, GoTyped DEF ScreeningPoints, Receiving, Screenings
  <2>2. Screenings' /\ Onward /\ NoNewEvidence
    BY <1>2, <1>4, <2>1, ScreeningStillStep DEF Receiving, Screenings, ScreeningTyped
  <2>3. screen[Target[r]] # Screening!NoScreen
    BY <1>2 DEF InboxRow, InboxRows
  <2>4. screen[Target[r]] \in ScreeningResults /\ screen[Target[r]].risk # None
    BY <1>2, <2>3 DEF Receiving, Screenings, ScreeningTyped, Provenance
  <2>5. ScreeningClosed(Target[r])
    BY <1>2, <1>4, <2>4 DEF ScreeningClosed, ScreeningOver, Screening!Pending, Screening!Applicable,
         Receiving, Screenings, Screening!OnePending, ScreeningResults
  <2>6. Delivering(w)'
    BY <1>2, <1>4, <2>1, <2>5 DEF Delivering, Screening!Now, ScreeningClosed, ScreeningOver, Screening!Pending
  <2> QED  BY <1>2, <2>1, <2>2, <2>6, DeliveryStep
<1> QED  BY <1>1, <1>3, <1>4 DEF Screening!ApplyReceipt

\* What a delivery reads of its screening is for good, if it is the end of it.
LEMMA ReadStep ==
  ASSUME Receiving, NEW w \in Workers, Screening!Reconcile(w) \/ Screening!Reread(w)
  PROVE  Receiving'
<1> USE ScreeningAssumption
<1>1. PICK r \in Receipts, b \in Bodies : r = screenWork[w].id /\ b = screenWork[w].body
  BY DEF Screening!Reconcile, Screening!Reread, Receiving, Delivering
<1>2. /\ r \notin Foreign /\ inbox[r].body = b /\ Target[r] \in Screens /\ InboxRow(r) /\ Delivering(w)
      /\ UNCHANGED <<status, screen, inbox>>
  BY <1>1 DEF Screening!Reconcile, Screening!Reread, Receiving, Delivering
<1>3. screen[Target[r]] \in ScreeningResults /\ screen[Target[r]].risk # None
  BY <1>2 DEF InboxRow, InboxRows, Receiving, Screenings, ScreeningTyped, Provenance
<1>4. ASSUME Screening!Stale(r) PROVE ScreeningClosed(Target[r])
  BY <1>2, <1>3, <1>4 DEF Screening!Stale, ScreeningClosed, ScreeningOver, Screening!Pending, Receiving,
       Screenings, Screening!OnePending, ScreeningResults
<1>5. ASSUME NEW at \in ScreeningPoints, Screening!Go(w, at), at \notin {"idle", "calling"},
             at \in {"accepting", "resolving"} => Screening!Evidence(r, b),
             at = "lost" => ScreeningClosed(Target[r]),
             at = "rejecting stale" => ScreeningClosed(Target[r]) /\ ~Screening!Evidence(r, b)
      PROVE  Receiving'
  <2>1. /\ screenWork' \in [Workers -> ScreeningTasks]
        /\ screenWork'[w].at = at /\ screenWork'[w].id = r /\ screenWork'[w].body = b
        /\ \A v \in Workers \ {w} : screenWork'[v] = screenWork[v]
    BY <1>1, <1>5, GoTyped DEF ScreeningPoints, Receiving, Screenings
  <2>2. Screenings' /\ Onward /\ NoNewEvidence
    BY <1>2, <2>1, ScreeningStillStep DEF Receiving, Screenings, ScreeningTyped
  <2>3. Delivering(w)'
    BY <1>2, <1>5, <2>1 DEF Delivering, Screening!Now, ScreeningClosed, ScreeningOver, Screening!Pending,
         Screening!Evidence
  <2> QED  BY <1>2, <2>1, <2>2, <2>3, DeliveryStep
<1>6. CASE Screening!Reconcile(w)
  BY <1>1, <1>4, <1>5, <1>6 DEF Screening!Reconcile, Screening!Normalises, ScreeningPoints
<1>7. CASE Screening!Reread(w)
  BY <1>1, <1>2, <1>5, <1>7 DEF Screening!Reread, ScreeningPoints, Screening!AfterLoss, Delivering,
       Screening!Now
<1> QED  BY <1>6, <1>7

\* The row moves on as what the delivery read says.
LEMMA TransitionStep ==
  ASSUME Receiving, NEW w \in Workers, Screening!Transition(w)
  PROVE  Receiving'
<1>1. /\ inbox' \in [Receipts -> InboxRows]
      /\ \A r \in Receipts : inbox'[r].body = inbox[r].body
      /\ \A r \in Receipts : r # screenWork[w].id => inbox'[r] = inbox[r]
      /\ \A r \in Receipts : r = screenWork[w].id => InboxRow(r)'
  BY MovedRight
<1>2. /\ screenWork' \in [Workers -> ScreeningTasks] /\ Delivering(w)'
      /\ \A v \in Workers \ {w} : screenWork'[v] = screenWork[v]
  BY RestDelivering DEF Screening!Transition, Receiving, Screenings
<1>3. Screenings' /\ Onward /\ NoNewEvidence
  BY <1>1, <1>2, ScreeningStillStep DEF Screening!Transition, Receiving
<1>4. \A v \in Workers : Delivering(v)'
  BY <1>1, <1>2, <1>3, DeliveringKept
<1>5. \A r \in Receipts : InboxRow(r)'
  BY <1>1, <1>3, RowKept DEF NoNewEvidence
<1> QED  BY <1>3, <1>4, <1>5 DEF Receiving

\* A first delivery is recorded as its screening stands; a later one begins work on its row.
LEMMA DeliverStep ==
  ASSUME Receiving, NEW w \in Workers, NEW r \in Receipts, NEW b \in Bodies, Screening!Deliver(w, r, b)
  PROVE  Receiving'
<1> USE ScreeningAssumption
<1>1. /\ InboxRow(r) /\ inbox[r] \in InboxRows /\ Target[r] \in Screens /\ UNCHANGED <<status, screen>>
      /\ inbox \in [Receipts -> InboxRows] /\ screenWork \in [Workers -> ScreeningTasks]
      /\ r \notin Foreign => screen[Target[r]] # Screening!NoScreen
  BY DEF Receiving, Screenings, ScreeningTyped, Screening!Deliver
<1>2. ASSUME NEW at \in {"received", "resolving"}, Screening!Start(w, at, r, b), r \notin Foreign,
             inbox'[r].body = b, at = "resolving" => Screening!Evidence(r, b)
      PROVE  /\ screenWork' \in [Workers -> ScreeningTasks] /\ Delivering(w)'
             /\ \A v \in Workers \ {w} : screenWork'[v] = screenWork[v]
  <2>1. /\ screenWork' \in [Workers -> ScreeningTasks]
        /\ screenWork'[w].at = at /\ screenWork'[w].id = r /\ screenWork'[w].body = b
        /\ \A v \in Workers \ {w} : screenWork'[v] = screenWork[v]
    <3>1. at \in ScreeningPoints /\ r \in Screens \cup Receipts \cup {0} /\ b \in Bodies \cup {None} /\ ScreeningTyped
      BY <1>2 DEF ScreeningPoints, Receiving, Screenings
    <3>2. Screening!Start(w, at, r, b)
      BY <1>2
    <3> QED  BY <3>1, <3>2, StartTyped
  <2> QED  BY <1>1, <1>2, <2>1 DEF Delivering, Screening!Now, Screening!Evidence
<1>3. CASE Screening!Record(w, r, b)
  <2>0. PICK reason \in Screening!Classified(r) :
           /\ inbox' = [inbox EXCEPT ![r] = [body |-> b, reason |-> reason,
                                             status |-> IF reason = None THEN "received" ELSE "rejected"]]
           /\ IF reason = None THEN Screening!Start(w, "received", r, b) ELSE UNCHANGED screenWork
    BY <1>3 DEF Screening!Record
  <2> DEFINE row == [body |-> b, reason |-> reason, status |-> IF reason = None THEN "received" ELSE "rejected"]
  <2>1. row \in InboxRows /\ inbox[r] = Screening!NoReceipt /\ inbox' = [inbox EXCEPT ![r] = row]
    BY <1>3, <2>0 DEF Screening!Record, Screening!Classified, InboxRows
  <2>2. inbox' \in [Receipts -> InboxRows] /\ inbox'[r] = row /\ \A q \in Receipts \ {r} : inbox'[q] = inbox[q]
    BY <1>1, <2>1
  <2>3. /\ screenWork' \in [Workers -> ScreeningTasks] /\ Delivering(w)'
        /\ \A v \in Workers \ {w} : screenWork'[v] = screenWork[v]
    <3>1. CASE reason = None
      BY <1>2, <2>0, <2>2, <3>1 DEF Screening!Classified
    <3>2. CASE reason # None
      BY <1>1, <2>0, <3>2 DEF Screening!Deliver, Delivering, Screening!Now
    <3> QED  BY <3>1, <3>2
  <2>4. Screenings' /\ Onward /\ NoNewEvidence
    BY <1>1, <2>2, <2>3, ScreeningStillStep DEF Receiving
  <2>5. \A v \in Workers : Delivering(v)'
    BY <2>1, <2>2, <2>3, <2>4, DeliveringKept DEF Screening!NoReceipt
  <2>6. ASSUME Screening!Stale(r), r \notin Foreign PROVE ScreeningClosed(Target[r])
    <3>1. screen[Target[r]] \in ScreeningResults /\ screen[Target[r]].risk # None
      BY <1>1, <2>6 DEF Receiving, Screenings, ScreeningTyped, Provenance
    <3> QED  BY <1>1, <2>6, <3>1 DEF Screening!Stale, ScreeningClosed, ScreeningOver, Screening!Pending,
         Receiving, Screenings, Screening!OnePending, ScreeningResults
  <2>7. \A c \in Bodies : ~Screening!Evidence(r, c)'
    <3>1. \A c \in Bodies : Screening!Evidence(r, c) => inbox[r].body = c
      BY <1>1 DEF InboxRow
    <3> QED  BY <1>1, <2>1, <3>1 DEF Screening!Evidence, Screening!NoReceipt
  <2>8. InboxRow(r)'
    BY <1>1, <2>0, <2>2, <2>6, <2>7 DEF InboxRow, Screening!Classified, ScreeningClosed, ScreeningOver,
         Screening!Pending
  <2>9. \A q \in Receipts : InboxRow(q)'
    BY <2>2, <2>4, <2>8, RowKept DEF NoNewEvidence
  <2> QED  BY <2>4, <2>5, <2>9 DEF Receiving
<1>4. CASE Screening!Again(w, r, b)
  <2>1. inbox' = inbox /\ inbox[r].body = b /\ r \notin Foreign
    BY <1>1, <1>4 DEF Screening!Again, Screening!SameBody, InboxRow
  <2>2. /\ screenWork' \in [Workers -> ScreeningTasks] /\ Delivering(w)'
        /\ \A v \in Workers \ {w} : screenWork'[v] = screenWork[v]
    BY <1>2, <1>4, <2>1 DEF Screening!Again
  <2> QED  BY <1>1, <2>1, <2>2, ScreeningStillStep, DeliveryStep DEF Receiving
<1> QED  BY <1>3, <1>4 DEF Screening!Deliver

\* A request begins, and its worker waits for an answer.
LEMMA RequestStep ==
  ASSUME Receiving, NEW w \in Workers, NEW n \in Screens, Screening!Screen(w, n)
  PROVE  Receiving'
<1>1. Screenings' /\ Onward /\ NoNewEvidence
  BY AskStep DEF Receiving
<1>2. /\ screenWork' \in [Workers -> ScreeningTasks]
      /\ screenWork'[w].at = "calling" /\ screenWork'[w].id = n
      /\ \A v \in Workers \ {w} : screenWork'[v] = screenWork[v]
  BY StartTyped DEF Screening!Screen, ScreeningPoints, Receiving, Screenings
<1>3. Delivering(w)'
  BY <1>2 DEF Delivering, Screening!Now
<1> QED  BY <1>1, <1>2, <1>3, DeliveryStep DEF Screening!Screen

\* A step of nobody's delivery leaves all of them right.
LEMMA AsideStep ==
  ASSUME Receiving, Screenings', Onward, NoNewEvidence, UNCHANGED <<inbox, screenWork>>
  PROVE  Receiving'
<1>1. \A r \in Receipts : InboxRow(r)'
  BY RowKept DEF NoNewEvidence
<1>2. \A v \in Workers : Delivering(v)'
  BY DeliveringKept
<1> QED  BY <1>1, <1>2 DEF Receiving

-----------------------------------------------------------------------------
(* Every step of a wallet under screening keeps the invariant.             *)

\* IInv is what the steps preserve.
LEMMA Receives == ScreeningIInv <=> Receiving
BY DEF ScreeningIInv, Receiving, Screenings

\* A step of a worker.
LEMMA ProceedStep ==
  ASSUME Receiving, NEW w \in Workers, Screening!Proceed(w)
  PROVE  Receiving'
BY AnswerStep, ReadStep, ApplyReceiptStep, TransitionStep DEF Screening!Proceed

\* Only a pending screening, or one that was never asked for, changes.
LEMMA OverStands ==
  ASSUME ScreeningTyped, Screening!Next, NEW n \in Screens, ScreeningOver(n)
  PROVE  screen'[n] = screen[n]
<1> USE ScreeningAssumption
<1>1. ~Screening!Pending(n) /\ screen[n] # Screening!NoScreen
  BY DEF ScreeningOver, Screening!Pending, Screening!NoScreen
<1>2. ASSUME NEW k \in Screens, NEW row, screen' = [screen EXCEPT ![k] = row],
             Screening!Pending(k) \/ screen[k] = Screening!NoScreen
      PROVE  screen'[n] = screen[n]
  BY <1>1, <1>2 DEF ScreeningTyped
<1>3. ASSUME NEW k, NEW e, Screening!Apply(k, e) PROVE screen'[n] = screen[n]
  BY <1>1, <1>3 DEF Screening!Apply, Screening!Applicable, ScreeningTyped
<1>4. ASSUME NEW k \in Screens, NEW w \in Workers, Screening!Screen(w, k) PROVE screen'[n] = screen[n]
  <2>1. screen' = [screen EXCEPT ![k] = Screening!Young] /\ (Screening!Pending(k) \/ screen[k] = Screening!NoScreen)
    BY <1>4, ScreeningAssumption DEF Screening!Screen, Screening!First, Screening!Retry, Screening!Next1
  <2> QED  BY <2>1, <1>2
<1>5. ASSUME NEW k \in Screens, Screening!Recover(k) \/ Screening!Age(k) PROVE screen'[n] = screen[n]
  BY <1>1, <1>5 DEF Screening!Recover, Screening!Recoverable, Screening!Age, ScreeningTyped
<1>6. ASSUME NEW w \in Workers, Screening!Proceed(w) PROVE screen'[n] = screen[n]
  BY <1>3, <1>6 DEF Screening!Proceed, Screening!Answer, Screening!Reconcile, Screening!ApplyReceipt,
       Screening!Reread, Screening!Transition
<1> QED  BY <1>4, <1>5, <1>6 DEF Screening!Next, Screening!Lapse, Screening!Delivered, Screening!Deliver,
     Screening!Dies, Screening!Revoke

\* A wallet without a screening is as the invariant says.
LEMMA ScreeningBegins == Screening!Init => ScreeningIInv
<1> SUFFICES ASSUME Screening!Init PROVE ScreeningIInv
  OBVIOUS
<1> USE ScreeningAssumption DEF Screening!Init
<1>1. ScreeningTyped
  BY DEF ScreeningTyped, ScreeningResults, Evidences, Screening!NoScreen, InboxRows, Screening!NoReceipt,
         ScreeningTasks, Screening!Idle, ScreeningPoints
<1>2. Screening!OnePending /\ Provenance
  BY DEF Screening!OnePending, Provenance, Screening!NoScreen, Screening!Pending
<1>3. \A r \in Receipts : InboxRow(r)
  BY DEF InboxRow, Screening!NoReceipt, Screening!Evidence, Screening!NoScreen
<1>4. \A w \in Workers : Delivering(w)
  BY DEF Delivering, Screening!Now, Screening!Idle
<1> QED  BY <1>1, <1>2, <1>3, <1>4 DEF ScreeningIInv

\* Every step keeps it, for any numbers of screenings, receipts, deliveries and workers.
LEMMA ScreeningStep == ScreeningIInv /\ [Screening!Next]_screeningVars => ScreeningIInv'
<1> SUFFICES ASSUME Receiving, [Screening!Next]_screeningVars PROVE Receiving'
  BY Receives DEF ScreeningIInv, Receiving, Screenings
<1>1. ASSUME NEW n \in Screens, Screening!Recover(n) \/ Screening!Age(n) PROVE Receiving'
  <2>1. Screenings' /\ Onward /\ NoNewEvidence /\ UNCHANGED <<inbox, screenWork>>
    BY <1>1, RecoverStep, AgeStep DEF Receiving, Screening!Recover, Screening!Age
  <2> QED  BY <2>1, AsideStep
<1>2. ASSUME NEW n \in Screens, NEW w \in Workers, Screening!Screen(w, n) PROVE Receiving'
  BY <1>2, RequestStep
<1>3. ASSUME NEW r \in Receipts, NEW b \in Bodies, Screening!Delivered(r, b) PROVE Receiving'
  BY <1>3, DeliverStep DEF Screening!Delivered
<1>4. ASSUME NEW w \in Workers, Screening!Proceed(w) PROVE Receiving'
  BY <1>4, ProceedStep
<1>5. ASSUME NEW w \in Workers, Screening!Dies(w) PROVE Receiving'
  <2>1. /\ screenWork' \in [Workers -> ScreeningTasks] /\ Delivering(w)'
        /\ \A v \in Workers \ {w} : screenWork'[v] = screenWork[v]
    BY <1>5, RestDelivering DEF Screening!Dies, Receiving, Screenings
  <2>2. Screenings' /\ Onward /\ NoNewEvidence
    BY <1>5, <2>1, ScreeningStillStep DEF Screening!Dies, Receiving, Screenings, ScreeningTyped
  <2> QED  BY <1>5, <2>1, <2>2, DeliveryStep DEF Screening!Dies
<1>6. CASE Screening!Revoke
  <2>1. Screenings' /\ Onward /\ NoNewEvidence
    BY <1>6, ScreeningRevokeStep DEF Receiving
  <2> QED  BY <1>6, <2>1, AsideStep DEF Screening!Revoke
<1>7. CASE UNCHANGED <<status, screen, inbox, screenWork>>
  <2>1. Screenings' /\ Onward /\ NoNewEvidence
    BY <1>7, ScreeningStillStep DEF Receiving, Screenings, ScreeningTyped
  <2> QED  BY <1>7, <2>1, AsideStep
<1> QED  BY <1>1, <1>2, <1>3, <1>4, <1>5, <1>6, <1>7 DEF Screening!Next, screeningVars, Screening!Lapse

\* A wallet under screening has one pending screening; a receipt is marked processed only if it
\* stands in its screening, and turned away as stale only if it does not, for good.
LEMMA ScreeningMeans == ScreeningIInv => Screening!ReceiptsTell
<1> SUFFICES ASSUME ScreeningIInv PROVE Screening!ReceiptsTell
  OBVIOUS
<1> USE ScreeningAssumption
<1>1. ASSUME NEW r \in Receipts
      PROVE  InboxRow(r) /\ inbox[r] \in InboxRows
  BY DEF ScreeningIInv, ScreeningTyped
<1>2. Screening!TypeOK
  <2>1. \A n \in Screens : screen[n] \in ScreeningResults
    BY DEF ScreeningIInv, ScreeningTyped
  <2> QED  BY <1>1, <2>1 DEF ScreeningIInv, ScreeningTyped, Screening!TypeOK, ScreeningResults, Evidences,
       InboxRow, InboxRows
<1>3. Screening!AppliedNotStale
  <2> SUFFICES ASSUME NEW r \in Receipts, NEW b \in Bodies, Screening!Evidence(r, b)
               PROVE  /\ inbox[r].body = b
                      /\ inbox[r].status \in {"received", "processed"} \/ inbox[r].reason = "invalid"
    BY DEF Screening!AppliedNotStale
  <2>1. inbox[r].body = b /\ r \notin Foreign
    BY <1>1 DEF InboxRow
  <2>2. inbox[r].status # None /\ inbox[r].reason \notin {"unknown", "stale"}
    BY <1>1, <2>1 DEF InboxRow
  <2> QED  BY <1>1, <2>1, <2>2 DEF InboxRow, InboxRows
<1>4. Screening!ProcessedStands
  BY <1>1 DEF Screening!ProcessedStands, InboxRow
<1> QED  BY <1>2, <1>3, <1>4 DEF Screening!ReceiptsTell, ScreeningIInv

-----------------------------------------------------------------------------
(* The parts together: a step of one leaves the others as they are.        *)

PartsIInv == ControlIInv /\ RecordsIInv /\ PayoutIInv /\ ScreeningIInv
PartsStep ==
    /\ [Next]_vars
    /\ [Control!Next]_controlVars
    /\ [Records!Next]_evidenceVars
    /\ [Payout!Next]_payoutVars
    /\ [Screening!Next]_screeningVars

LEMMA StepOfEach ==
  [WltNext]_<<focus, vars, controlVars, evidenceVars, payoutVars, screeningVars>> => PartsStep
BY DEF WltNext, PartsStep

LEMMA PartsHold == WltSpec => []PartsIInv
<1>1. WltInit => PartsIInv
  BY ControlBegins, RecordsBegin, PayoutBegins, ScreeningBegins DEF WltInit, PartsIInv
<1>2. PartsIInv /\ [WltNext]_<<focus, vars, controlVars, evidenceVars, payoutVars, screeningVars>> => PartsIInv'
  BY StepOfEach, ControlStep, RecordsStep, PayoutStep, ScreeningStep DEF PartsStep, PartsIInv
<1> QED BY <1>1, <1>2, PTL DEF WltSpec

\* A behaviour of the service is, for each of its five parts, a behaviour of that part: what is
\* proved of the destination handlers alone holds of them beside the others.
THEOREM PartsCompose == WltSpec => Spec /\ Control!Spec /\ Records!Spec /\ Payout!Spec /\ Screening!Spec
<1>1. WltInit => Init /\ Control!Init /\ Records!Init /\ Payout!Init /\ Screening!Init
  BY DEF WltInit
<1>2. /\ controlVars = Control!vars /\ evidenceVars = Records!vars /\ payoutVars = Payout!vars
      /\ screeningVars = Screening!vars
  BY DEF controlVars, evidenceVars, payoutVars, screeningVars, Control!vars, Records!vars, Payout!vars, Screening!vars
<1>3. [WltNext]_<<focus, vars, controlVars, evidenceVars, payoutVars, screeningVars>> =>
          /\ [Next]_vars /\ [Control!Next]_Control!vars
          /\ [Records!Next]_Records!vars /\ [Payout!Next]_Payout!vars /\ [Screening!Next]_Screening!vars
  BY StepOfEach DEF PartsStep, controlVars, evidenceVars, payoutVars, screeningVars,
                    Control!vars, Records!vars, Payout!vars, Screening!vars
<1> QED BY <1>1, <1>3, PTL DEF WltSpec, Spec, Control!Spec, Records!Spec, Payout!Spec, Screening!Spec

\* However consumptions on the client's destinations are stamped, queued and committed, no day and
\* no rolling window exceeds the client's limits, and a whitelisting has one first use.
THEOREM LimitsHold == WltSpec => []LimitsRespected
<1>1. TypeOK /\ VelocityRespected /\ FirstUseOnce => LimitsRespected
  BY DEF LimitsRespected
<1> QED BY <1>1, PartsCompose, TypeCorrect, LimitsKept, FirstUseMarked, PTL

\* Whatever registrations overlap, through the public door, the member's or a retry of either, an
\* account has one live destination, and a key's destination is the one its stored answer names.
THEOREM LiveOnce == WltSpec => []OneLive
<1>1. PartsIInv => OneLive
  BY ControlMeans DEF PartsIInv, OneLive
<1> QED BY <1>1, PartsHold, PTL

\* No unhosted wallet is approved without a verified proof of control, no challenge is answered
\* more often than it allows, and no payout decision rests on evidence that had been replaced,
\* for any number of destinations, challenges, workers and providers' answers.
THEOREM ApprovalProven == WltSpec => []ApprovedIsProven
<1>1. PartsIInv => ApprovedIsProven
  BY ControlMeans, PayoutMeans DEF PartsIInv, ApprovedIsProven
<1> QED BY <1>1, PartsHold, PTL

\* However requests about the source of one transfer overlap, and whichever keys they use, the
\* answers they are given are the same.
THEOREM OneAnswer == WltSpec => []AnswersAgree
<1>1. PartsIInv => AnswersAgree
  BY RecordsMean DEF PartsIInv, AnswersAgree
<1> QED BY <1>1, PartsHold, PTL

\* An export's tables are those of one moment though other requests write between its reads, it
\* is within its bound, and nothing is sent that the disclosure log does not name.
THEOREM ExportSoundly == WltSpec => []ExportWhole
<1>1. PartsIInv => ExportWhole
  BY RecordsMean DEF PartsIInv, ExportWhole
<1> QED BY <1>1, PartsHold, PTL

\* A wallet under screening has one pending screening; a receipt is marked processed only if it
\* stands in its screening, and turned away as stale only if it does not, for good.
THEOREM Tells == WltSpec => []ReceiptsTell
<1>1. PartsIInv => ReceiptsTell
  BY ScreeningMeans DEF PartsIInv, ReceiptsTell
<1> QED BY <1>1, PartsHold, PTL

\* A result, and a recovery, stands whatever answers and deliveries come after it.
THEOREM Stands == WltSpec => ResultStands
<1>1. PartsIInv /\ [WltNext]_<<focus, vars, controlVars, evidenceVars, payoutVars, screeningVars>> =>
          [\A n \in Screens : screen[n].risk \in {"failed", "screened"} => screen'[n] = screen[n]]_Screening!vars
  BY StepOfEach, OverStands
     DEF PartsStep, PartsIInv, ScreeningIInv, ScreeningOver, screeningVars, Screening!vars
<1> QED BY <1>1, PartsHold, PTL DEF WltSpec, ResultStands, Screening!ResultStands
=============================================================================
