---------------------------- MODULE Iam2Approval ----------------------------
(***************************************************************************)
(* IAM-02 maker-checker: approval requests, their decision by a checker,   *)
(* the decision token an approval mints, and the single redemption of that *)
(* token (platform/services/iam2).                                         *)
(*                                                                         *)
(* Every HTTP handler runs one READ COMMITTED transaction on a worker.  A  *)
(* handler is split where another transaction can commit between two of    *)
(* its reads: the writes of a transaction appear in its last step, the     *)
(* FOR UPDATE row locks it takes are held from the locking step to the     *)
(* last.  A denial that leaves no row behind is the step back to "idle".   *)
(*                                                                         *)
(* An operator named X_Y is a mutant: X with the slip Y.  No definition    *)
(* uses it; it is what the properties must be able to tell from X.         *)
(***************************************************************************)
EXTENDS Naturals

CONSTANTS
    Users,          \* user identities
    Approvals,      \* identities of iam2.approval_request rows
    Tokens,         \* identities of iam2.permission_decision_token rows
    Ops,            \* an underlying operation: its entity, client and payload
    Policies,       \* identities of iam2.approval_policy rows
    Roles,          \* iam2.role rows
    RolePerms,      \* Roles -> SUBSET Perms: iam2.role_permission
    PolicyRoles,    \* Policies -> SUBSET Roles: required_approver_roles
    PolicyCount,    \* Policies -> Nat: required_approval_count
    SodRules,       \* pairs of permissions in active conflict (iam2.sod_rule)
    InitRoles,      \* Users -> SUBSET Roles: the roles held at the start
    InitPolicies,   \* the policies that may be the active one at the start
    InitGated,      \* whether the underlying permission may be gated at the start
    Workers,        \* concurrent request transactions
    None,           \* SQL NULL / no value
    Deniable,       \* bound: the permissions that a deny or a lock may hit
    MaxChanges      \* bound: administrative and clock changes in a behaviour

\* "act" stands for the permission of the underlying action, "sod_manage" for one that
\* an active SoD rule sets against it.
Perms == {"create", "approve", "reject", "act", "sod_manage"}

ASSUME RolesAssumption ==
    /\ RolePerms \in [Roles -> SUBSET Perms]
    /\ PolicyRoles \in [Policies -> SUBSET Roles]
    /\ PolicyCount \in [Policies -> Nat]
    /\ SodRules \subseteq Perms \X Perms
    /\ InitRoles \in [Users -> SUBSET Roles]
    /\ InitPolicies \subseteq Policies /\ InitGated \subseteq BOOLEAN
    /\ Deniable \subseteq Perms
    /\ MaxChanges \in Nat

ASSUME NoneAssumption ==
    None \notin Users \cup Approvals \cup Tokens \cup Ops \cup Policies

VARIABLES
    roles,          \* iam2.user_role: the active roles of each user
    denied,         \* active deny overrides and licence locks, as user-permission pairs
    cacheVersion,   \* iam2.permission_cache_version of each subject
    gated,          \* the underlying permission requires approval or step-up
    policyStatus,   \* iam2.approval_policy.status ("absent": not yet configured)
    assertions,     \* fresh step-up assertions of IAM-01: <<user, approval it is bound to>>
    suspended,      \* users whose IAM-01 identity is not an active human
    approval,       \* iam2.approval_request rows
    lapsed,         \* approvals past expires_at_utc
    decisions,      \* iam2.approval_decision rows
    token,          \* iam2.permission_decision_token rows
    lapsedTokens,   \* tokens past expires_at_utc
    pc,             \* the point each worker's transaction has reached
    req,            \* what each worker's request carries and has read
    authorised,     \* history: executions authorised per token, and what stood against them
    changes         \* changes counted against MaxChanges

admin == <<roles, denied, cacheVersion, gated, policyStatus>>
identity == <<assertions, suspended>>
clock == <<lapsed, lapsedTokens>>
rows == <<approval, decisions, token, authorised>>
vars == <<roles, denied, cacheVersion, gated, policyStatus, assertions, suspended,
          approval, lapsed, decisions, token, lapsedTokens, pc, req, authorised, changes>>

-----------------------------------------------------------------------------
(* Rows and requests.                                                      *)

Statuses == {"none", "pending", "approved", "rejected", "expired", "blocked"}
Final == {"approved", "rejected", "expired", "blocked"}

NoApproval == [status |-> "none", maker |-> None, op |-> None, hashed |-> FALSE,
               policy |-> None, count |-> 0]
ApprovalRows ==
    [status : Statuses, maker : Users \cup {None}, op : Ops \cup {None},
     hashed : BOOLEAN, policy : Policies \cup {None}, count : Nat]

NoToken == [status |-> "none", actor |-> None, op |-> None, approval |-> None, version |-> 0]
TokenStatuses == {"none", "active", "consumed", "revoked"}
TokenRows ==
    [status : TokenStatuses, actor : Users \cup {None},
     op : Ops \cup {None}, approval : Approvals \cup {None}, version : Nat]

Decisions == [approval : Approvals, approver : Users, kind : {"approve", "reject"}]

\* began: what already stood against the execution when its transaction began.
Hindrances == {"policy_revoked", "gated", "denied"}
NoRequest == [user |-> None, approval |-> None, op |-> None, hashed |-> FALSE,
              policy |-> None, token |-> None, began |-> {}]
Requests ==
    [user : Users \cup {None}, approval : Approvals \cup {None}, op : Ops \cup {None},
     hashed : BOOLEAN, policy : Policies \cup {None}, token : Tokens \cup {None},
     began : SUBSET Hindrances]

\* The points at which a transaction holds the row lock of its approval or its token.
HoldsApproval_NoRowLock == {}
HoldsApproval == {"approve_locked", "approve_policy", "approve_checker", "approve_people", "reject_locked"}
HoldsToken == {"exec_checked", "exec_entitled", "exec_proven"}
Points == {"idle", "create_read", "approve_step_up", "approve_guarded", "reject_guarded"}
              \cup HoldsApproval \cup HoldsToken

ApprovalLocked(a) == \E w \in Workers : pc[w] \in HoldsApproval /\ req[w].approval = a
TokenLocked(t) == \E w \in Workers : pc[w] \in HoldsToken /\ req[w].token = t

GoTo(w, point) == pc' = [pc EXCEPT ![w] = point]
\* The end of a request: COMMIT (or a denial), the locks of the worker released.
Finish(w) == pc' = [pc EXCEPT ![w] = "idle"] /\ req' = [req EXCEPT ![w] = NoRequest]

-----------------------------------------------------------------------------
(* The permission guard and the SoD cross-check.                           *)

HeldPerms(u) == UNION {RolePerms[r] : r \in roles[u]}

\* The guard's chain below its step-up and approval steps: an explicit deny or a
\* lock wins over any role grant; no grant is a denial.
Entitled(u, p) == <<u, p>> \notin denied /\ p \in HeldPerms(u)

\* A conflicting pair split between the two users, in either direction.
SodConflict(u, v) ==
    \E rule \in SodRules :
        \/ rule[1] \in HeldPerms(u) /\ rule[2] \in HeldPerms(v)
        \/ rule[2] \in HeldPerms(u) /\ rule[1] \in HeldPerms(v)

ActivePolicies == {p \in Policies : policyStatus[p] = "active"}

FreshToken(t) == token[t].status = "none"

IssueToken(t, actor, op, a) ==
    token' = [token EXCEPT ![t] = [status |-> "active", actor |-> actor, op |-> op,
                                   approval |-> a, version |-> cacheVersion[actor]]]

-----------------------------------------------------------------------------
(* POST /iam2/approvals/request.                                           *)

\* The guards and the exactly-one-active single-approver policy.
BeginCreate(w, u, op, hashed) ==
    /\ pc[w] = "idle"
    /\ Entitled(u, "create") /\ Entitled(u, "act")
    /\ \E p \in Policies :
        /\ ActivePolicies = {p} /\ PolicyCount[p] = 1
        /\ GoTo(w, "create_read")
        /\ req' = [req EXCEPT ![w] = [NoRequest EXCEPT !.user = u, !.op = op,
                                          !.hashed = hashed, !.policy = p]]
    /\ UNCHANGED <<admin, identity, clock, rows, changes>>

InsertRequest(w) ==
    /\ pc[w] = "create_read"
    /\ \E a \in Approvals :
        /\ approval[a].status = "none"
        /\ approval' = [approval EXCEPT ![a] =
                           [status |-> "pending", maker |-> req[w].user, op |-> req[w].op,
                            hashed |-> req[w].hashed, policy |-> req[w].policy, count |-> 0]]
    /\ Finish(w)
    /\ UNCHANGED <<admin, identity, clock, decisions, token, authorised, changes>>

-----------------------------------------------------------------------------
(* POST /iam2/approvals/:id/approve.                                       *)

\* The assertion is verified with IAM-01 before the transaction opens: it must be
\* fresh, bound to this approval, owned by this approver, an active human.
VerifyStepUp(w, u, a) ==
    /\ pc[w] = "idle"
    /\ approval[a].status # "none"
    /\ <<u, a>> \in assertions /\ u \notin suspended
    /\ GoTo(w, "approve_step_up")
    /\ req' = [req EXCEPT ![w] = [NoRequest EXCEPT !.user = u, !.approval = a]]
    /\ UNCHANGED <<admin, identity, clock, rows, changes>>

\* In the transaction: iam2.approval.approve, the evidence still fresh.
GuardApprove(w) ==
    /\ pc[w] = "approve_step_up"
    /\ IF Entitled(req[w].user, "approve") /\ <<req[w].user, req[w].approval>> \in assertions
       THEN GoTo(w, "approve_guarded") /\ UNCHANGED req
       ELSE Finish(w)
    /\ UNCHANGED <<admin, identity, clock, rows, changes>>

\* A locked request that is no longer pending, or is pending past its deadline,
\* ends the transaction; the latter is marked expired on the way.
Undecidable_DeadlineOnly(a) == a \in lapsed
Undecidable(a) == approval[a].status # "pending" \/ a \in lapsed

ExpireIfPending_AnyStatus(a) == approval' = [approval EXCEPT ![a].status = "expired"]
ExpireIfPending_UnknownStatus(a) == approval' = [approval EXCEPT ![a].status = "lapsed"]
ExpireIfPending(a) ==
    approval' = IF approval[a].status = "pending"
                THEN [approval EXCEPT ![a].status = "expired"] ELSE approval

SelfApproval_Unchecked(u, a) == FALSE
SelfApproval(u, a) == u = approval[a].maker

\* SELECT ... FOR UPDATE, then expiry, already-decided and self-approval.
LockApprove(w) ==
    LET a == req[w].approval IN
    /\ pc[w] = "approve_guarded"
    /\ ~ApprovalLocked(a)
    /\ \/ Undecidable(a) /\ ExpireIfPending(a) /\ Finish(w)
       \/ /\ ~Undecidable(a)
          /\ UNCHANGED approval
          /\ IF SelfApproval(req[w].user, a) THEN Finish(w)
                                             ELSE GoTo(w, "approve_locked") /\ UNCHANGED req
    /\ UNCHANGED <<admin, identity, clock, decisions, token, authorised, changes>>

\* The pinned policy must not be revoked; a retired one does not block.
CheckPolicy(w) ==
    /\ pc[w] = "approve_locked"
    /\ IF policyStatus[approval[req[w].approval].policy] = "revoked"
       THEN Finish(w)
       ELSE GoTo(w, "approve_policy") /\ UNCHANGED req
    /\ UNCHANGED <<admin, identity, clock, rows, changes>>

IsChecker(u, a) ==
    LET required == PolicyRoles[approval[a].policy]
    IN  required = {} \/ required \cap roles[u] # {}

\* The roles the approver holds are read, and one of the snapshot is among them.
CheckRoles(w) ==
    /\ pc[w] = "approve_policy"
    /\ IF IsChecker(req[w].user, req[w].approval)
       THEN GoTo(w, "approve_checker") /\ UNCHANGED req
       ELSE Finish(w)
    /\ UNCHANGED <<admin, identity, clock, rows, changes>>

\* The maker is still entitled to the action.
CheckMaker(w) ==
    /\ pc[w] = "approve_checker"
    /\ IF Entitled(approval[req[w].approval].maker, "act")
       THEN GoTo(w, "approve_people") /\ UNCHANGED req
       ELSE Finish(w)
    /\ UNCHANGED <<admin, identity, clock, rows, changes>>

Decided(u, a) == \E d \in decisions : d.approval = a /\ d.approver = u

\* The SoD cross-check of maker and approver; then the decision row, the count,
\* the status and, for a request with a payload, its decision token.
Approve(w) ==
    LET a == req[w].approval
        u == req[w].user
        row == approval[a]
    IN
    /\ pc[w] = "approve_people"
    /\ IF SodConflict(row.maker, u)
       THEN /\ approval' = [approval EXCEPT ![a].status = "blocked"]
            /\ UNCHANGED <<decisions, token>>
       ELSE IF Decided(u, a)
       THEN UNCHANGED <<approval, decisions, token>>
       ELSE /\ decisions' = decisions \cup {[approval |-> a, approver |-> u, kind |-> "approve"]}
            /\ approval' = [approval EXCEPT ![a] = [row EXCEPT !.status = "approved",
                                                              !.count = row.count + 1]]
            /\ IF row.hashed
               THEN \E t \in Tokens : FreshToken(t) /\ IssueToken(t, row.maker, row.op, a)
               ELSE UNCHANGED token
    /\ Finish(w)
    /\ UNCHANGED <<admin, identity, clock, authorised, changes>>

-----------------------------------------------------------------------------
(* POST /iam2/approvals/:id/reject.                                        *)

GuardReject(w, u, a) ==
    /\ pc[w] = "idle"
    /\ approval[a].status # "none"
    /\ Entitled(u, "reject")
    /\ GoTo(w, "reject_guarded")
    /\ req' = [req EXCEPT ![w] = [NoRequest EXCEPT !.user = u, !.approval = a]]
    /\ UNCHANGED <<admin, identity, clock, rows, changes>>

LockReject(w) ==
    LET a == req[w].approval IN
    /\ pc[w] = "reject_guarded"
    /\ ~ApprovalLocked(a)
    /\ IF Undecidable(a)
       THEN ExpireIfPending(a) /\ Finish(w)
       ELSE GoTo(w, "reject_locked") /\ UNCHANGED <<approval, req>>
    /\ UNCHANGED <<admin, identity, clock, decisions, token, authorised, changes>>

\* The maker may withdraw; anyone else needs a checker role of the snapshot.
Reject(w) ==
    LET a == req[w].approval
        u == req[w].user
    IN
    /\ pc[w] = "reject_locked"
    /\ IF (u = approval[a].maker \/ IsChecker(u, a)) /\ ~Decided(u, a)
       THEN /\ decisions' = decisions \cup {[approval |-> a, approver |-> u, kind |-> "reject"]}
            /\ approval' = [approval EXCEPT ![a].status = "rejected"]
       ELSE UNCHANGED <<decisions, approval>>
    /\ Finish(w)
    /\ UNCHANGED <<admin, identity, clock, token, authorised, changes>>

-----------------------------------------------------------------------------
(* POST /internal/iam2/permission/check: a granted, ungated action with a  *)
(* payload gets a token that carries no approval.                          *)

PermissionCheck(u, op) ==
    /\ Entitled(u, "act") /\ ~gated
    /\ \E t \in Tokens : FreshToken(t) /\ IssueToken(t, u, op, None)
    /\ UNCHANGED <<admin, identity, clock, approval, decisions, authorised, pc, req, changes>>

-----------------------------------------------------------------------------
(* POST /internal/iam2/permission/execute-verify (also redeemed in process *)
(* by the role-assignment route).                                          *)

\* Ghost: what already stands against an execution of t as its transaction begins.
StandsAgainst(t) ==
    {h \in Hindrances :
        \/ /\ h = "policy_revoked"
           /\ token[t].approval # None
           /\ policyStatus[approval[token[t].approval].policy] = "revoked"
        \/ h = "gated" /\ token[t].approval = None /\ gated
        \/ h = "denied" /\ <<token[t].actor, "act">> \in denied}

\* What the request presents matches what the token is bound to.
Bound(t, u, op, a) ==
    /\ token[t].actor = u /\ token[t].op = op
    /\ a # None => token[t].approval = a

\* SELECT ... FOR UPDATE on the token: status and expiry, the bindings and the
\* payload hash (a mismatch revokes the token), the actor's cache version.
CheckToken(w, t, u, op, a) ==
    /\ pc[w] = "idle"
    /\ token[t].status # "none"
    /\ ~TokenLocked(t)
    /\ token[t].status = "active" /\ t \notin lapsedTokens
    /\ IF ~Bound(t, u, op, a)
       THEN token' = [token EXCEPT ![t].status = "revoked"] /\ UNCHANGED <<pc, req>>
       ELSE /\ token[t].version = cacheVersion[u]
            /\ GoTo(w, "exec_checked")
            /\ req' = [req EXCEPT ![w] = [NoRequest EXCEPT !.user = u, !.token = t,
                                              !.began = StandsAgainst(t)]]
            /\ UNCHANGED token
    /\ UNCHANGED <<admin, identity, clock, approval, decisions, authorised, changes>>

\* The actor's entitlement to the action, read live.
CheckEntitlement(w) ==
    /\ pc[w] = "exec_checked"
    /\ IF Entitled(token[req[w].token].actor, "act")
       THEN GoTo(w, "exec_entitled") /\ UNCHANGED req
       ELSE Finish(w)
    /\ UNCHANGED <<admin, identity, clock, rows, changes>>

\* The approval behind a token: approved in full, for the same binding, under a
\* policy that is not revoked.
Proven_PolicyUnread(t) ==
    LET row == approval[token[t].approval] IN
    /\ row.status = "approved" /\ row.count >= 1
    /\ row.maker = token[t].actor /\ row.op = token[t].op /\ row.hashed
Proven(t) ==
    LET row == approval[token[t].approval] IN
    /\ row.status = "approved" /\ row.count >= 1
    /\ row.maker = token[t].actor /\ row.op = token[t].op /\ row.hashed
    /\ policyStatus[row.policy] # "revoked"

CheckProvenance(w) ==
    LET t == req[w].token IN
    /\ pc[w] = "exec_entitled"
    /\ IF IF token[t].approval = None THEN ~gated ELSE Proven(t)
       THEN GoTo(w, "exec_proven") /\ UNCHANGED req
       ELSE Finish(w)
    /\ UNCHANGED <<admin, identity, clock, rows, changes>>

\* UPDATE ... SET status = 'consumed' WHERE status = 'active', then COMMIT.
Consume_WithoutUpdate(w) ==
    LET t == req[w].token IN
    /\ pc[w] = "exec_proven"
    /\ authorised' = [authorised EXCEPT ![t].count = @ + 1, ![t].began = @ \cup req[w].began]
    /\ Finish(w)
    /\ UNCHANGED <<admin, identity, clock, approval, decisions, token, changes>>

Consume(w) ==
    LET t == req[w].token IN
    /\ pc[w] = "exec_proven"
    /\ IF token[t].status = "active"
       THEN /\ token' = [token EXCEPT ![t].status = "consumed"]
            /\ authorised' = [authorised EXCEPT ![t].count = @ + 1,
                                             ![t].began = @ \cup req[w].began]
       ELSE UNCHANGED <<token, authorised>>
    /\ Finish(w)
    /\ UNCHANGED <<admin, identity, clock, approval, decisions, changes>>

-----------------------------------------------------------------------------
(* Everything that changes around the requests: role assignment (the other *)
(* IAM-02 route, which bumps the cache version of its target), the         *)
(* administration of the catalogue (no route: rows maintained by the data  *)
(* owner), IAM-01, and the clock.  MaxChanges bounds them together.        *)

Change == changes < MaxChanges /\ changes' = changes + 1

AssignRole(u, r) ==
    /\ Change
    /\ r \notin roles[u]
    /\ roles' = [roles EXCEPT ![u] = @ \cup {r}]
    /\ cacheVersion' = [cacheVersion EXCEPT ![u] = @ + 1]
    /\ UNCHANGED <<denied, gated, policyStatus, identity, clock, rows, pc, req>>

RevokeRole(u, r) ==
    /\ Change
    /\ r \in roles[u]
    /\ roles' = [roles EXCEPT ![u] = @ \ {r}]
    /\ UNCHANGED <<denied, cacheVersion, gated, policyStatus, identity, clock, rows, pc, req>>

\* A deny override of one user, or a licence lock: a denial of everyone.
Deny(us, p) ==
    /\ Change
    /\ denied' = denied \cup (us \X {p})
    /\ UNCHANGED <<roles, cacheVersion, gated, policyStatus, identity, clock, rows, pc, req>>

GatePermission ==
    /\ Change
    /\ ~gated /\ gated' = TRUE
    /\ UNCHANGED <<roles, denied, cacheVersion, policyStatus, identity, clock, rows, pc, req>>

\* At most one policy of an action is active; "revoked" is terminal.
SetPolicyStatus(p, status) ==
    /\ Change
    /\ policyStatus[p] \notin {status, "revoked"}
    /\ status = "active" => ActivePolicies = {}
    /\ policyStatus' = [policyStatus EXCEPT ![p] = status]
    /\ UNCHANGED <<roles, denied, cacheVersion, gated, identity, clock, rows, pc, req>>

\* A step-up completed at IAM-01 with the purpose of one approval; its end.
CompleteStepUp(u, a) ==
    /\ <<u, a>> \notin assertions /\ u \notin suspended /\ approval[a].status # "none"
    /\ assertions' = assertions \cup {<<u, a>>}
    /\ UNCHANGED <<admin, suspended, clock, rows, pc, req, changes>>

AssertionLapses(u, a) ==
    /\ Change
    /\ <<u, a>> \in assertions
    /\ assertions' = assertions \ {<<u, a>>}
    /\ UNCHANGED <<admin, suspended, clock, rows, pc, req>>

Suspend(u) ==
    /\ Change
    /\ u \notin suspended
    /\ suspended' = suspended \cup {u}
    /\ UNCHANGED <<admin, assertions, clock, rows, pc, req>>

ApprovalLapses(a) ==
    /\ Change
    /\ approval[a].status = "pending" /\ a \notin lapsed
    /\ lapsed' = lapsed \cup {a}
    /\ UNCHANGED <<admin, identity, lapsedTokens, rows, pc, req>>

TokenLapses(t) ==
    /\ Change
    /\ token[t].status = "active" /\ t \notin lapsedTokens
    /\ lapsedTokens' = lapsedTokens \cup {t}
    /\ UNCHANGED <<admin, identity, lapsed, rows, pc, req>>

-----------------------------------------------------------------------------
Init ==
    /\ roles = InitRoles
    /\ denied = {}
    /\ cacheVersion = [u \in Users |-> 0]
    /\ gated \in InitGated
    /\ \E q \in InitPolicies :
        policyStatus = [p \in Policies |-> IF p = q THEN "active" ELSE "absent"]
    /\ assertions = {} /\ suspended = {}
    /\ approval = [a \in Approvals |-> NoApproval]
    /\ lapsed = {} /\ lapsedTokens = {}
    /\ decisions = {}
    /\ token = [t \in Tokens |-> NoToken]
    /\ pc = [w \in Workers |-> "idle"]
    /\ req = [w \in Workers |-> NoRequest]
    /\ authorised = [t \in Tokens |-> [count |-> 0, began |-> {}]]
    /\ changes = 0

\* The steps of a request in progress.
Continue(w) ==
    \/ InsertRequest(w)
    \/ GuardApprove(w) \/ LockApprove(w) \/ CheckPolicy(w) \/ CheckRoles(w) \/ CheckMaker(w) \/ Approve(w)
    \/ LockReject(w) \/ Reject(w)
    \/ CheckEntitlement(w) \/ CheckProvenance(w) \/ Consume(w)

\* A new request arrives at an idle worker.
Arrive(w) ==
    \E u \in Users :
        \/ \E op \in Ops, hashed \in BOOLEAN : BeginCreate(w, u, op, hashed)
        \/ \E a \in Approvals : VerifyStepUp(w, u, a) \/ GuardReject(w, u, a)
        \/ \E t \in Tokens, op \in Ops, a \in Approvals \cup {None} : CheckToken(w, t, u, op, a)

Surroundings ==
    \/ \E u \in Users, op \in Ops : PermissionCheck(u, op)
    \/ \E u \in Users, r \in Roles : AssignRole(u, r) \/ RevokeRole(u, r)
    \/ \E u \in Users, p \in Deniable : Deny({u}, p)
    \/ \E p \in Deniable : Deny(Users, p)
    \/ GatePermission
    \/ \E p \in Policies, s \in {"active", "inactive", "revoked"} : SetPolicyStatus(p, s)
    \/ \E u \in Users, a \in Approvals : CompleteStepUp(u, a) \/ AssertionLapses(u, a)
    \/ \E u \in Users : Suspend(u)
    \/ \E a \in Approvals : ApprovalLapses(a)
    \/ \E t \in Tokens : TokenLapses(t)

Next == (\E w \in Workers : Arrive(w) \/ Continue(w)) \/ Surroundings

Spec == Init /\ [][Next]_vars

-----------------------------------------------------------------------------
TypeOK ==
    /\ roles \in [Users -> SUBSET Roles]
    /\ denied \subseteq Users \X Perms
    /\ cacheVersion \in [Users -> Nat]
    /\ gated \in BOOLEAN
    /\ policyStatus \in [Policies -> {"absent", "active", "inactive", "revoked"}]
    /\ assertions \subseteq Users \X Approvals
    /\ suspended \subseteq Users
    /\ approval \in [Approvals -> ApprovalRows]
    /\ lapsed \subseteq Approvals /\ lapsedTokens \subseteq Tokens
    /\ decisions \subseteq Decisions
    /\ token \in [Tokens -> TokenRows]
    /\ pc \in [Workers -> Points]
    /\ req \in [Workers -> Requests]
    /\ authorised \in [Tokens -> [count : Nat, began : SUBSET Hindrances]]
    /\ changes \in 0..MaxChanges

\* Rows that exist and requests under way have their fields filled.
Filled ==
    /\ \A a \in Approvals : approval[a].status # "none" =>
        approval[a].maker \in Users /\ approval[a].op \in Ops /\ approval[a].policy \in Policies
    /\ \A t \in Tokens : token[t].status # "none" => token[t].actor \in Users /\ token[t].op \in Ops
    /\ \A w \in Workers :
        /\ pc[w] \notin {"idle"} \cup HoldsToken => req[w].user \in Users
        /\ pc[w] = "create_read" => req[w].op \in Ops /\ req[w].policy \in Policies
        /\ pc[w] \notin {"idle", "create_read"} \cup HoldsToken => req[w].approval \in Approvals
        /\ pc[w] \in HoldsToken => req[w].token \in Tokens

Executed(t) == authorised[t].count > 0

\* An execution that rests on an approval was approved, for exactly that
\* operation, by a user other than the one who asked for it and executes it.
MakerChecker ==
    \A t \in Tokens : Executed(t) /\ token[t].approval # None =>
        /\ approval[token[t].approval].op = token[t].op
        /\ \E d \in decisions : /\ d.approval = token[t].approval /\ d.kind = "approve"
                                 /\ d.approver # token[t].actor

\* One approval lets its operation be executed at most once, however many
\* redemptions race for its token.
ExecutedOnce ==
    /\ \A t \in Tokens : authorised[t].count <= 1
    /\ \A t1, t2 \in Tokens :
        Executed(t1) /\ Executed(t2) /\ token[t1].approval = token[t2].approval
            /\ token[t1].approval # None => t1 = t2

\* Of the checkers racing to approve and to reject a request exactly one decides,
\* and the status is the one that decision asks for.
DecidedOnce ==
    \A a \in Approvals :
        /\ \A d1, d2 \in decisions : d1.approval = a /\ d2.approval = a => d1 = d2
        /\ \A d \in decisions : d.approval = a =>
                approval[a].status = IF d.kind = "approve" THEN "approved" ELSE "rejected"
        /\ approval[a].status \in {"approved", "rejected"} =>
                \E d \in decisions : d.approval = a

\* An emergency revocation of the policy, a deny or lock on the actor, or a new
\* approval requirement that stands when an execution's transaction begins
\* stops it, however long ago the token was minted.
NoStaleExecution == \A t \in Tokens : authorised[t].began = {}

\* A decided, blocked or expired request and a spent token never come back, and
\* what a request or token is bound to never changes.
FinalRows ==
    [][/\ \A a \in Approvals :
            /\ approval[a].status \in Final => approval'[a] = approval[a]
            /\ approval[a].status = "pending" =>
                 /\ approval'[a].status # "none"
                 /\ <<approval'[a].maker, approval'[a].op, approval'[a].policy>>
                        = <<approval[a].maker, approval[a].op, approval[a].policy>>
       /\ \A t \in Tokens :
            /\ token[t].status \in {"consumed", "revoked"} => token'[t] = token[t]
            /\ token[t].status # "none" =>
                 /\ token'[t].status # "none"
                 /\ [token'[t] EXCEPT !.status = "none"] = [token[t] EXCEPT !.status = "none"]
      ]_vars

-----------------------------------------------------------------------------
(* The refinement of DualControl.                                          *)

AbstractState(a) ==
    CASE approval[a].status = "none" -> "none"
      [] approval[a].status = "pending" -> "pending"
      [] approval[a].status = "approved" -> "approved"
      [] OTHER -> "refused"

\* The user whose approve decision is recorded, or None.
CheckerOf(a) ==
    IF \E d \in decisions : d.approval = a /\ d.kind = "approve"
    THEN (CHOOSE d \in decisions : d.approval = a /\ d.kind = "approve").approver
    ELSE None

Dual == INSTANCE DualControl WITH
            Requests <- Approvals,
            state <- [a \in Approvals |-> AbstractState(a)],
            maker <- [a \in Approvals |-> approval[a].maker],
            checker <- [a \in Approvals |-> CheckerOf(a)],
            done <- {a \in Approvals : \E t \in Tokens : token[t].approval = a /\ Executed(t)}

\* Requests, decisions and redemptions together behave as DualControl says: every
\* transaction is one of its steps or changes nothing it can see.
DualControlled == Dual!Spec

-----------------------------------------------------------------------------
(* The inductive invariant behind the theorems of Iam2ApprovalProofs.      *)

\* A row lock is held by one transaction, and what that transaction has checked
\* under the lock stays true while it is held.
Locking ==
    /\ \A w1, w2 \in Workers :
        /\ pc[w1] \in HoldsApproval /\ pc[w2] \in HoldsApproval
               /\ req[w1].approval = req[w2].approval => w1 = w2
        /\ pc[w1] \in HoldsToken /\ pc[w2] \in HoldsToken /\ req[w1].token = req[w2].token => w1 = w2
    /\ \A w \in Workers :
        /\ pc[w] \in HoldsApproval => approval[req[w].approval].status = "pending"
        /\ pc[w] \in HoldsApproval \ {"reject_locked"} => req[w].user # approval[req[w].approval].maker
        /\ pc[w] \in HoldsToken => token[req[w].token].status = "active"

\* Every approval was decided by somebody else, every token of an approval stems
\* from its one decision, and only a consumed token was ever executed.
Provenance ==
    /\ \A d \in decisions : d.kind = "approve" => d.approver # approval[d.approval].maker
    /\ \A t \in Tokens : token[t].approval # None =>
        /\ approval[token[t].approval].status = "approved"
        /\ approval[token[t].approval].op = token[t].op
        /\ approval[token[t].approval].maker = token[t].actor
    /\ \A t1, t2 \in Tokens : token[t1].approval = token[t2].approval /\ token[t1].approval # None => t1 = t2
    /\ \A t \in Tokens :
        /\ token[t].status = "none" => token[t].approval = None
        /\ authorised[t].count = IF token[t].status = "consumed" THEN 1 ELSE 0

IInv == TypeOK /\ Filled /\ Locking /\ DecidedOnce /\ Provenance
=============================================================================
