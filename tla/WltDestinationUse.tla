------------------------- MODULE WltDestinationUse -------------------------
(***************************************************************************)
(* WLT-01 destinations of one client from review to use: the dual-control  *)
(* approval that whitelists a destination, the evidence it rests on,       *)
(* evaluate-use, which issues a bound, expiring, single-use decision,      *)
(* verify-and-consume, which spends it under the client's limits, and      *)
(* revocation.  The destinations are of one limit dimension: one type, one *)
(* asset and one network or rail.                                          *)
(*                                                                         *)
(* PostgreSQL's now() is the time a transaction began, so a transaction is *)
(* stamped when it starts and may wait for its locks while the clock runs. *)
(* A lock is held exactly while its transaction sits at "consuming"; every *)
(* other locking transaction reads and writes within one step.             *)
(***************************************************************************)
EXTENDS Naturals, Sequences, FiniteSets, FiniteSetsExt

CONSTANTS
    Dests,          \* the client's destinations
    Types,          \* what they may all be: "wallet" or "fiat_payout"
    Whitelisted,    \* those already active when the model starts
    Approvals,      \* IAM-02 approvals of approve_apply
    Workers,        \* the requests that may be in progress at once
    Refs,           \* execution references of the consuming module
    Amounts,
    ClientLimits,   \* the client-default limit profiles, by version
    DestLimits,     \* a destination's own limit profiles, by version
    DayLength, Window,                  \* the UTC day, rolling_window_hours
    Ttl, AmlValidity, Validity, Cooling,\* lifetimes of tokens, AML answers, evidence; cooling-off
    Revocable,      \* bound: the destinations that somebody may revoke
    PolicyChanges,  \* bound: whether the data owner changes limit policies
    MaxDecisions,   \* bound: decisions ever issued
    MaxEvidence,    \* bound: screening results of a destination
    MaxTime,        \* bound: the clock
    None

ASSUME LimitAssumption ==
    \A limits \in {ClientLimits[v] : v \in DOMAIN ClientLimits}
              \cup {DestLimits[v] : v \in DOMAIN DestLimits} :
        /\ DOMAIN limits = {"perTxn", "firstUse", "daily", "rolling"}
        /\ limits.perTxn \in Nat
        /\ {limits.firstUse, limits.daily, limits.rolling} \subseteq Nat \cup {None}
ASSUME TimeAssumption ==
    /\ {DayLength, Window} \subseteq Nat \ {0}
    /\ {Ttl, AmlValidity, Validity, Cooling, MaxTime} \subseteq Nat
ASSUME BoundAssumption ==
    /\ {MaxDecisions, MaxEvidence} \subseteq Nat /\ MaxEvidence > 0
    /\ Amounts \subseteq Nat
    /\ 1 \in DOMAIN ClientLimits
ASSUME NoneAssumption == None \notin Dests \cup Refs /\ None \notin [dest : Dests, amount : Amounts]

VARIABLES
    now,        \* the clock
    dest,       \* wlt1.destination
    evidence,   \* each destination's latest screening result
    policy,     \* the active version of each limit profile, 0 when there is none
    mandate,    \* what each IAM-02 approval binds, and whether its token is spent
    decision,   \* wlt1.destination_decision, in the order of issue
    ledger,     \* the 'pass' rows of wlt1.limit_evaluation, in the order of commit
    pc, tx,     \* each request: where it is, what it has read
    receipts    \* history: the successes verify-and-consume reported

vars == <<now, dest, evidence, policy, mandate, decision, ledger, pc, tx, receipts>>
money == <<policy, decision, ledger, receipts>>
review == <<evidence, mandate>>

NoMandate == [dest |-> None, evidence |-> 0, whitelistV |-> 0, spent |-> FALSE]
Idle == [dest |-> None, evidence |-> 0, statusV |-> 0, whitelistV |-> 0, epoch |-> 0,
         status |-> None, at |-> 0, amlUntil |-> 0, amount |-> 0, decision |-> 0, ref |-> None,
         firstUse |-> FALSE]

At(w, point) == pc[w] = point
Begin(w, point, what) ==
    /\ pc[w] = "idle"
    /\ pc' = [pc EXCEPT ![w] = point]
    /\ tx' = [tx EXCEPT ![w] = what]
End(w) ==
    /\ pc' = [pc EXCEPT ![w] = "idle"]
    /\ tx' = [tx EXCEPT ![w] = Idle]
\* What a request remembers of a destination it read without a lock.
Snapshot(d) == [Idle EXCEPT !.dest = d, !.evidence = evidence[d].version,
                            !.statusV = dest[d].statusV, !.whitelistV = dest[d].whitelistV,
                            !.epoch = dest[d].epoch, !.status = dest[d].status]

\* The locks of open consumptions: wlt1.limit:<client>, the decision and the destination row.
Consuming == {w \in Workers : pc[w] = "consuming"}
ClientFree_NoAdvisoryLock == TRUE
ClientFree == Consuming = {}
DecisionFree(k) == \A w \in Consuming : tx[w].decision # k
DestFree_ReadUnlocked(d) == TRUE
DestFree(d) == \A w \in Consuming : tx[w].dest # d

\* A screening result that opens a gate at time t.
Clear(e, t) == e.version > 0 /\ e.risk = "clear" /\ t < e.until

\* The latest screening result becomes one more; versions are MAX + 1 under the advisory lock.
Appended(d, risk) ==
    [evidence EXCEPT ![d] = [version |-> @.version + 1, risk |-> risk, until |-> now + Validity]]

Revoked(d) == [dest EXCEPT ![d].status = "revoked", ![d].epoch = @ + 1, ![d].statusV = @ + 1]

-----------------------------------------------------------------------------
(* Evidence.                                                               *)

\* assess, first part: the destination and its evidence are read, and stale or missing
\* evidence sends the provider a request.
AssessStart(w, d) ==
    /\ dest[d].type = "fiat_payout"
    /\ evidence[d].version = 0 \/ now >= evidence[d].until
    /\ Begin(w, "assessing", Snapshot(d))
    /\ UNCHANGED <<now, dest, review, money>>

\* The status read before the provider was called decides whether to promote, the row
\* whether the promotion takes place.
Promotes_StaleStatus(d, read) == read = "draft"
Promotes(d, read) == read = "draft" /\ dest[d].status = "draft"

AssessApply(w, risk) ==
    LET d == tx[w].dest IN
    /\ At(w, "assessing") /\ evidence[d].version < MaxEvidence
    /\ evidence' = Appended(d, risk)
    /\ dest' = IF Promotes(d, tx[w].status)
               THEN [dest EXCEPT ![d].status = "pending_review", ![d].statusV = @ + 1]
               ELSE dest
    /\ End(w)
    /\ UNCHANGED <<now, mandate, money>>

\* The provider failed: nothing is written.
AssessFail(w) ==
    /\ At(w, "assessing")
    /\ End(w)
    /\ UNCHANGED <<now, dest, review, money>>

\* One candidate of a rescreening run, after its provider answered: a hit revokes.
Rescreen(d, risk) ==
    /\ dest[d].type = "wallet" /\ evidence[d].version < MaxEvidence /\ DestFree(d)
    /\ dest[d].status \in {"active", "approved_pending_cooling"}
    /\ evidence' = Appended(d, risk)
    /\ dest' = IF risk = "hit" THEN Revoked(d) ELSE dest
    /\ UNCHANGED <<now, mandate, pc, tx, money>>

-----------------------------------------------------------------------------
(* Approval: the request fixes a payload, IAM-02 decides on it, apply      *)
(* presents the token, and a locked transaction whitelists.                *)

ApprovalGates_StatusOnly(d, t) == dest[d].status = "pending_review"
ApprovalGates(d, t) == dest[d].status = "pending_review" /\ Clear(evidence[d], t)

\* approve/request and its approval by IAM-02 of the payload that was current then.
Mandate(a, d) ==
    /\ mandate[a] = NoMandate /\ ApprovalGates(d, now)
    /\ mandate' = [mandate EXCEPT ![a] =
          [dest |-> d, evidence |-> evidence[d].version, whitelistV |-> dest[d].whitelistV,
           spent |-> FALSE]]
    /\ UNCHANGED <<now, dest, evidence, pc, tx, money>>

\* Phases A and B of approve/apply: the payload as it is now must be the one the token is
\* bound to, and verifying the token spends it.
VerifyMandate(w, a) ==
    LET d == mandate[a].dest IN
    /\ mandate[a] # NoMandate /\ ~mandate[a].spent
    /\ ApprovalGates(d, now)
    /\ evidence[d].version = mandate[a].evidence /\ dest[d].whitelistV = mandate[a].whitelistV
    /\ mandate' = [mandate EXCEPT ![a].spent = TRUE]
    /\ Begin(w, "approved", Snapshot(d))
    /\ UNCHANGED <<now, dest, evidence, money>>

\* hasVersionDrift: no difference in either version since phase A.
Unmoved(d, read) == dest[d].statusV = read.statusV /\ dest[d].whitelistV = read.whitelistV

\* Phase C.
ApplyApproval(w) ==
    LET d == tx[w].dest IN
    /\ At(w, "approved") /\ DestFree(d)
    /\ dest' = IF ApprovalGates(d, now) /\ Unmoved(d, tx[w])
               THEN [dest EXCEPT ![d].status = "approved_pending_cooling",
                                   ![d].statusV = @ + 1, ![d].coolUntil = now + Cooling]
               ELSE dest
    /\ End(w)
    /\ UNCHANGED <<now, review, money>>

-----------------------------------------------------------------------------
(* evaluate-use.                                                           *)

UsableGates(d, t) ==
    /\ Clear(evidence[d], t)
    /\ \/ dest[d].status = "active"
       \/ dest[d].status = "approved_pending_cooling" /\ t >= dest[d].coolUntil

\* The unlocked evaluation: local gates, then AML-01 allows, for a while.
Evaluate(w, d, amount) ==
    /\ UsableGates(d, now)
    /\ Begin(w, "allowed", [Snapshot(d) EXCEPT !.amount = amount, !.amlUntil = now + AmlValidity])
    /\ UNCHANGED <<now, dest, review, money>>

\* The issuing transaction begins.
Queue(w) ==
    /\ At(w, "allowed")
    /\ pc' = [pc EXCEPT ![w] = "queued"]
    /\ tx' = [tx EXCEPT ![w].at = now]
    /\ UNCHANGED <<now, dest, review, money>>

Expiry(w) == Min({tx[w].at + Ttl, tx[w].amlUntil, evidence[tx[w].dest].until})

\* No drift since the evaluation, the gates hold again, on the same evidence.
EvaluationStands(w) ==
    LET d == tx[w].dest IN
    /\ dest[d].epoch = tx[w].epoch /\ Unmoved(d, tx[w])
    /\ UsableGates(d, tx[w].at)
    /\ evidence[d].version = tx[w].evidence
    /\ Expiry(w) > tx[w].at

Refuse(w) ==
    /\ At(w, "queued") /\ ClientFree /\ DestFree(tx[w].dest)
    /\ ~EvaluationStands(w)
    /\ End(w)
    /\ UNCHANGED <<now, dest, review, money>>

\* Lazy promotion once cooling-off is over.
Promoted_EveryUse(d) ==
    [dest[d] EXCEPT !.status = "active", !.statusV = @ + 1, !.whitelistV = @ + 1]
Promoted(d) ==
    IF dest[d].status = "active" THEN dest[d]
    ELSE [dest[d] EXCEPT !.status = "active", !.statusV = @ + 1, !.whitelistV = @ + 1]

Day(t) == t \div DayLength
\* The sum of the rows' amounts, counted unit by unit.
Units(rows) == UNION {{i} \X (1..ledger[i].amount) : i \in rows}
Usage(rows) == Cardinality(Units(rows))
Exceeds(amount, limit) == limit # None /\ amount > limit

\* The breach checks against one profile; mine are the pass rows of its scope.
WithinLimits(limits, mine, amount, first, t) ==
    /\ ~Exceeds(amount, limits.perTxn)
    /\ first => ~Exceeds(amount, limits.firstUse)
    /\ ~Exceeds(Usage({i \in mine : Day(ledger[i].at) >= Day(t)}) + amount, limits.daily)
    /\ ~Exceeds(Usage({i \in mine : ledger[i].at + Window > t}) + amount, limits.rolling)

FirstUse_NothingIssued(d, v) ==
    \A k \in DOMAIN decision : decision[k].dest # d
FirstUse(d, v) == \A i \in DOMAIN ledger : ledger[i].dest # d \/ ledger[i].whitelistV # v

\* The active profiles: the client's, which it must have, and the destination's own.
ClientProfile == ClientLimits[policy.client]
OwnProfile(d) == DestLimits[policy.own[d]]

LimitsPass(d, v, amount, t) ==
    /\ policy.client # 0
    /\ WithinLimits(ClientProfile, DOMAIN ledger, amount, FirstUse(d, v), t)
    /\ policy.own[d] # 0 =>
          WithinLimits(OwnProfile(d), {i \in DOMAIN ledger : ledger[i].dest = d}, amount, FirstUse(d, v), t)

\* The pre-check of evaluate-use; the denial it records is left out.
PreCheck(w) == LimitsPass(tx[w].dest, Promoted(tx[w].dest).whitelistV, tx[w].amount, tx[w].at)

\* The promotion commits whether or not the limits let a decision be issued.
Issue(w) ==
    LET d == tx[w].dest IN
    /\ At(w, "queued") /\ ClientFree /\ DestFree(d)
    /\ EvaluationStands(w) /\ Len(decision) < MaxDecisions
    /\ dest' = [dest EXCEPT ![d] = Promoted(d)]
    /\ decision' = IF PreCheck(w)
                   THEN Append(decision,
                       [status |-> "issued", dest |-> d, amount |-> tx[w].amount,
                        epoch |-> dest[d].epoch, client |-> policy.client,
                        own |-> policy.own[d], expires |-> Expiry(w), ref |-> None])
                   ELSE decision
    /\ End(w)
    /\ UNCHANGED <<now, review, policy, ledger, receipts>>

-----------------------------------------------------------------------------
(* verify-and-consume.                                                     *)

Present(w, k, ref) ==
    /\ k \in DOMAIN decision
    /\ Begin(w, "presented",
             [Idle EXCEPT !.decision = k, !.ref = ref, !.dest = decision[k].dest, !.at = now])
    /\ UNCHANGED <<now, dest, review, money>>

\* The transaction obtains its locks: the client's, the decision's, the destination's.
Locks(w) ==
    /\ At(w, "presented")
    /\ ClientFree /\ DecisionFree(tx[w].decision) /\ DestFree(tx[w].dest)

SameExecution_AnyRef(k, ref) == decision[k].status = "consumed"
SameExecution(k, ref) == decision[k].status = "consumed" /\ decision[k].ref = ref

\* Only expiry and the revocation epoch withdraw a decision, and a change of limit policy.
Valid_RevocationUnread(k, t) == t < decision[k].expires
Valid(k, t) ==
    LET d == decision[k].dest IN
    /\ t < decision[k].expires
    /\ dest[d].status # "revoked" /\ dest[d].epoch = decision[k].epoch
PolicyUnchanged(k) ==
    /\ policy.client = decision[k].client
    /\ policy.own[decision[k].dest] = decision[k].own

Admissible(w) ==
    LET k == tx[w].decision
        d == tx[w].dest
    IN
    /\ decision[k].status = "issued"
    /\ Valid(k, tx[w].at) /\ PolicyUnchanged(k)
    /\ LimitsPass(d, dest[d].whitelistV, decision[k].amount, tx[w].at)

Admit(w) ==
    LET d == tx[w].dest IN
    /\ Locks(w) /\ Admissible(w)
    /\ pc' = [pc EXCEPT ![w] = "consuming"]
    /\ tx' = [tx EXCEPT ![w].whitelistV = dest[d].whitelistV,
                        ![w].firstUse = FirstUse(d, dest[d].whitelistV)]
    /\ UNCHANGED <<now, dest, review, money>>

\* The receipt of a completed consumption, for the execution that made it.
Replay(w) ==
    /\ Locks(w) /\ SameExecution(tx[w].decision, tx[w].ref)
    /\ receipts' = receipts \cup
          {[decision |-> tx[w].decision, ref |-> tx[w].ref, replay |-> TRUE]}
    /\ End(w)
    /\ UNCHANGED <<now, dest, review, policy, decision, ledger>>

Deny(w) ==
    /\ Locks(w) /\ ~Admissible(w) /\ ~SameExecution(tx[w].decision, tx[w].ref)
    /\ End(w)
    /\ UNCHANGED <<now, dest, review, money>>

PassOf(w) == [decision |-> tx[w].decision, dest |-> tx[w].dest, whitelistV |-> tx[w].whitelistV,
              amount |-> decision[tx[w].decision].amount, firstUse |-> tx[w].firstUse, at |-> tx[w].at]

\* The conditional update, the pass row and the audit commit together.
Consume(w) ==
    LET k == tx[w].decision IN
    /\ At(w, "consuming") /\ decision[k].status = "issued"
    /\ decision' = [decision EXCEPT ![k].status = "consumed", ![k].ref = tx[w].ref]
    /\ ledger' = Append(ledger, PassOf(w))
    /\ receipts' = receipts \cup {[decision |-> k, ref |-> tx[w].ref, replay |-> FALSE]}
    /\ End(w)
    /\ UNCHANGED <<now, dest, review, policy>>

\* The audit fails or the connection is lost: everything rolls back.
Abort(w) ==
    /\ At(w, "consuming")
    /\ End(w)
    /\ UNCHANGED <<now, dest, review, money>>

-----------------------------------------------------------------------------
(* Revocation, limit policies and the clock.                               *)

\* By an operator or by an AML signal; a rescreening hit revokes in Rescreen.
Revoke(d) ==
    /\ d \in Revocable /\ DestFree(d) /\ dest[d].status # "revoked"
    /\ dest' = Revoked(d)
    /\ UNCHANGED <<now, review, money, pc, tx>>

\* The data owner activates a profile version, or deactivates the profile, under the
\* client's lock.
SetClientPolicy(v) ==
    /\ PolicyChanges /\ ClientFree /\ policy.client # v
    /\ policy' = [policy EXCEPT !.client = v]
    /\ UNCHANGED <<now, dest, review, decision, ledger, receipts, pc, tx>>
SetDestPolicy(d, v) ==
    /\ PolicyChanges /\ ClientFree /\ policy.own[d] # v
    /\ policy' = [policy EXCEPT !.own[d] = v]
    /\ UNCHANGED <<now, dest, review, decision, ledger, receipts, pc, tx>>

Tick ==
    /\ now < MaxTime
    /\ now' = now + 1
    /\ UNCHANGED <<dest, review, money, pc, tx>>

-----------------------------------------------------------------------------
\* A registered fiat destination is a draft without evidence, a wallet is under review with
\* the result of its onboarding screening.
Registered(type) == [type |-> type, status |-> IF type = "wallet" THEN "pending_review" ELSE "draft",
                     statusV |-> 1, whitelistV |-> 0, epoch |-> 0, coolUntil |-> 0]
Active(type) == [Registered(type) EXCEPT !.status = "active", !.statusV = 4, !.whitelistV = 1]

Init ==
    /\ now = 0
    /\ \E type \in Types :
          /\ dest = [d \in Dests |-> IF d \in Whitelisted THEN Active(type) ELSE Registered(type)]
          /\ evidence = [d \in Dests |->
                IF dest[d].status = "draft" THEN [version |-> 0, risk |-> None, until |-> 0]
                ELSE [version |-> 1, risk |-> "clear", until |-> Validity]]
    /\ policy = [client |-> 1, own |-> [d \in Dests |-> 0]]
    /\ mandate = [a \in Approvals |-> NoMandate]
    /\ decision = <<>> /\ ledger = <<>>
    /\ pc = [w \in Workers |-> "idle"] /\ tx = [w \in Workers |-> Idle]
    /\ receipts = {}

Evidence == \/ \E w \in Workers, d \in Dests : AssessStart(w, d)
            \/ \E w \in Workers, risk \in {"clear", "hit"} : AssessApply(w, risk)
            \/ \E w \in Workers : AssessFail(w)
            \/ \E d \in Dests, risk \in {"clear", "high_risk", "hit"} : Rescreen(d, risk)
Approval == \/ \E a \in Approvals, d \in Dests : Mandate(a, d)
            \/ \E w \in Workers, a \in Approvals : VerifyMandate(w, a)
            \/ \E w \in Workers : ApplyApproval(w)
Evaluation == \/ \E w \in Workers, d \in Dests, amount \in Amounts : Evaluate(w, d, amount)
              \/ \E w \in Workers : Queue(w) \/ Refuse(w) \/ Issue(w)
Consumption == \/ \E w \in Workers, k \in 1..MaxDecisions, ref \in Refs : Present(w, k, ref)
               \/ \E w \in Workers : Admit(w) \/ Replay(w) \/ Deny(w) \/ Consume(w) \/ Abort(w)
Surroundings == \/ \E d \in Dests : Revoke(d)
                \/ \E v \in {0} \cup DOMAIN ClientLimits : SetClientPolicy(v)
                \/ \E d \in Dests, v \in {0} \cup DOMAIN DestLimits : SetDestPolicy(d, v)
                \/ Tick

Next == Evidence \/ Approval \/ Evaluation \/ Consumption \/ Surroundings

Spec == Init /\ [][Next]_vars

-----------------------------------------------------------------------------
Statuses == {"draft", "pending_review", "approved_pending_cooling", "active", "revoked"}
Points == {"idle", "assessing", "approved", "allowed", "queued", "presented", "consuming"}

\* Every variable has its type; a consumed decision names the execution that consumed it,
\* and only such a decision does (migration 058).
\* chk_wlt1_destination_decision_coherence
Coherent(issued) == issued.status = "consumed" <=> issued.ref \in Refs

TypeOK ==
    /\ now \in 0..MaxTime
    /\ dest \in [Dests -> [type : Types, status : Statuses, statusV : Nat, whitelistV : 0..1,
                           epoch : 0..1, coolUntil : Nat]]
    /\ evidence \in [Dests -> [version : 0..MaxEvidence, until : Nat,
                               risk : {"clear", "high_risk", "hit", None}]]
    /\ policy \in [client : {0} \cup DOMAIN ClientLimits,
                   own : [Dests -> {0} \cup DOMAIN DestLimits]]
    /\ \A a \in Approvals : mandate[a].dest \in Dests \cup {None}
    /\ Len(decision) <= MaxDecisions
    /\ \A k \in DOMAIN decision :
          /\ decision[k].status \in {"issued", "consumed"} /\ decision[k].dest \in Dests
          /\ Coherent(decision[k])
    /\ pc \in [Workers -> Points]
    /\ \A w \in Workers : tx[w].dest \in Dests \cup {None} /\ tx[w].at \in 0..now

\* Under a client profile with one version, the passes of any one day and of any window of the
\* rolling length, wherever it starts, stay within the profile, whatever the order in which
\* the transactions were stamped and committed.
VelocityRespected ==
    LET limits == ClientLimits[1] IN
    DOMAIN ClientLimits = {1} =>
        \A t \in 0..MaxTime :
            /\ ~Exceeds(Usage({i \in DOMAIN ledger : ledger[i].at >= t /\ ledger[i].at < t + Window}), limits.rolling)
            /\ ~Exceeds(Usage({i \in DOMAIN ledger : Day(ledger[i].at) = Day(t)}), limits.daily)

\* The first pass on a whitelisting of a destination is the one that is marked and held to the
\* first-use limit, and no other is.
FirstUseOnce ==
    \A i \in DOMAIN ledger :
        LET earlier == {j \in 1..(i - 1) : /\ ledger[j].dest = ledger[i].dest
                                           /\ ledger[j].whitelistV = ledger[i].whitelistV}
        IN ledger[i].firstUse <=> earlier = {}

\* A decision is spent for one execution: it has one pass row at most, and every success ever
\* reported for it, replays included, was reported to the same execution.
OneExecution ==
    /\ \A i, j \in DOMAIN ledger : ledger[i].decision = ledger[j].decision => i = j
    /\ \A r, s \in receipts : r.decision = s.decision => r.ref = s.ref

\* A decision becomes consumed only while its destination is active in the epoch it was issued
\* in, under the limit profiles it was issued under.
LiveAuthority ==
    [][\A k \in DOMAIN decision :
          (decision[k].status = "issued" /\ decision'[k].status = "consumed") =>
              LET d == decision[k].dest IN
              /\ dest[d].status = "active" /\ dest[d].epoch = decision[k].epoch
              /\ policy.client = decision[k].client /\ policy.own[d] = decision[k].own]_vars

\* A revoked destination stays revoked: no assessment, approval or promotion that was under
\* way brings it back.
RevokedAbsorbing ==
    [][\A d \in Dests : dest[d].status = "revoked" => dest'[d] = dest[d]]_vars

\* A destination is whitelisted only under a spent approval of that destination, and only
\* while its latest evidence is clear and fresh.
WhitelistedClear ==
    [][\A d \in Dests :
          (dest[d].status = "pending_review" /\ dest'[d].status = "approved_pending_cooling") =>
              /\ Clear(evidence[d], now)
              /\ \E a \in Approvals : mandate[a].spent /\ mandate[a].dest = d]_vars

\* What the header of destination-approval.ts says: the token is bound to the current payload,
\* so a destination is whitelisted on the very evidence its approval named.
ApprovedEvidence ==
    [][\A d \in Dests :
          (dest[d].status = "pending_review" /\ dest'[d].status = "approved_pending_cooling") =>
              \E a \in Approvals :
                  /\ mandate[a].spent /\ mandate[a].dest = d
                  /\ mandate[a].evidence = evidence[d].version]_vars

\* The whole keeps the promise of DestinationAuthority.
Standing(d) == CASE dest[d].status = "revoked" -> "revoked"
                 [] dest[d].status \in {"active", "approved_pending_cooling"} -> "whitelisted"
                 [] OTHER -> "candidate"
Authority == INSTANCE DestinationAuthority WITH
    Grants <- 1..MaxDecisions, NoGrant <- None,
    standing <- [d \in Dests |-> Standing(d)],
    grant <- [k \in 1..MaxDecisions |->
        IF k \in DOMAIN decision THEN [dest |-> decision[k].dest, amount |-> decision[k].amount]
        ELSE None],
    used <- {k \in DOMAIN decision : decision[k].status = "consumed"},
    book <- [i \in DOMAIN ledger |-> [dest |-> ledger[i].dest, amount |-> ledger[i].amount]]
KeepsAuthority == Authority!Spec
=============================================================================
