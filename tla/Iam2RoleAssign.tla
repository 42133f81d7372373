--------------------------- MODULE Iam2RoleAssign ---------------------------
(***************************************************************************)
(* IAM-02 role assignment: the redemption of an approved assignment's      *)
(* decision token, the segregation-of-duties check against the roles the   *)
(* target already holds, the new iam2.user_role row; and the one bootstrap *)
(* assignment that precedes every approval.  What precedes the token       *)
(* (Iam2Approval) is the set of minted tokens here.                        *)
(*                                                                         *)
(* The check reads the target's rows without locking anything of the       *)
(* target, so it is a step apart from the insert that relies on it.        *)
(***************************************************************************)
EXTENDS Naturals, FiniteSets

CONSTANTS
    Users,
    Roles,
    AdminRoles,     \* security_admin and tech_admin: the bootstrap may assign these
    RolePerms,      \* Roles -> permissions: iam2.role_permission
    SodRoleRules,   \* pairs of conflicting roles (conflict_type role_role)
    SodPermRules,   \* pairs of conflicting permissions (permission_permission)
    AssignUser,     \* the permission iam2.role.assign_user
    SealedAdmin,    \* IAM2_BOOTSTRAP_ADMIN_USER_ID
    Grants,         \* the approved assignments that have a token: records actor, user, role
    Workers,
    None

VARIABLES
    held,           \* active iam2.user_role rows: records user, role, basis
    token,          \* status of the decision token of each grant
    retired,        \* roles whose iam2.role row is no longer active
    version,        \* iam2.permission_cache_version of each user
    pc,             \* the point each worker's transaction has reached
    req,            \* the assignment each worker is making: user, role, token
    heldBefore,     \* history: what the target held when the worker's transaction began
    made            \* history: each assignment made, with its heldBefore

vars == <<held, token, retired, version, pc, req, heldBefore, made>>

NoAssignment == [user |-> None, role |-> None, grant |-> None]
Basis == Grants \cup {None}     \* None: the bootstrap transition

RolesOf(u) == {h.role : h \in {x \in held : x.user = u}}
PermsOf(rs) == UNION {RolePerms[r] : r \in rs}

\* The acting admin's own entitlement, read live when the token is redeemed.
EntitledToAssign(a) == AssignUser \in PermsOf(RolesOf(a) \ retired)

Crosses(rules, left, right) ==
    \E rule \in rules : \/ rule[1] \in left /\ rule[2] \in right
                        \/ rule[2] \in left /\ rule[1] \in right

\* The role being assigned against the roles already held, by code and by permission.
SodConflict_RolesOnly(r, existing) == Crosses(SodRoleRules, {r}, existing)
SodConflict(r, existing) ==
    \/ Crosses(SodRoleRules, {r}, existing)
    \/ Crosses(SodPermRules, RolePerms[r], PermsOf(existing))

GoTo(w, point) == pc' = [pc EXCEPT ![w] = point]
Finish(w) ==
    /\ pc' = [pc EXCEPT ![w] = "idle"]
    /\ req' = [req EXCEPT ![w] = NoAssignment]
    /\ heldBefore' = [heldBefore EXCEPT ![w] = {}]

\* The wrapper consumes the token it verified, whatever the SoD check then says.
Spend_Reopened(g) == token' = [token EXCEPT ![g] = "expired"]
Spend(g) == token' = [token EXCEPT ![g] = "consumed"]

TokenLocked(g) == \E w \in Workers : pc[w] \in {"verified", "checked"} /\ req[w].grant = g

\* The payload hash is derived from the role and target about to be assigned.
PayloadBound_CallerHash(g, u, r) == g.user = u
PayloadBound(g, u, r) == g.user = u /\ g.role = r

\* The token row is locked; a token of another assignment is revoked, and one whose
\* actor may not assign roles now is left as it is.
VerifyToken(w, g, u, r) ==
    /\ pc[w] = "idle" /\ r \notin retired
    /\ ~TokenLocked(g) /\ token[g] = "active"
    /\ IF PayloadBound(g, u, r)
       THEN /\ EntitledToAssign(g.actor)
            /\ GoTo(w, "verified")
            /\ req' = [req EXCEPT ![w] = [user |-> u, role |-> r, grant |-> g]]
            /\ heldBefore' = [heldBefore EXCEPT ![w] = RolesOf(u)]
            /\ UNCHANGED token
       ELSE token' = [token EXCEPT ![g] = "revoked"] /\ UNCHANGED <<pc, req, heldBefore>>
    /\ UNCHANGED <<held, retired, version, made>>

\* Reads the target's effective grants; a conflict commits the consumed token and a
\* blocked check, and assigns nothing.
CheckSod(w) ==
    LET u == req[w].user
        existing == RolesOf(u) \ retired
    IN
    /\ pc[w] = "verified"
    /\ IF SodConflict(req[w].role, existing)
       THEN Spend(req[w].grant) /\ Finish(w)
       ELSE GoTo(w, "checked") /\ UNCHANGED <<token, req, heldBefore>>
    /\ UNCHANGED <<held, retired, version, made>>

\* INSERT user_role, the consumed token and the target's new cache version commit together.
Assign(w) ==
    LET u == req[w].user
        row == [user |-> u, role |-> req[w].role, basis |-> req[w].grant]
    IN
    /\ pc[w] = "checked"
    /\ held' = held \cup {row}
    /\ made' = made \cup {<<row, heldBefore[w]>>}
    /\ Spend(req[w].grant)
    /\ version' = [version EXCEPT ![u] = @ + 1]
    /\ Finish(w)
    /\ UNCHANGED retired

-----------------------------------------------------------------------------
(* POST /internal/iam2/bootstrap/first-assignment: SERIALIZABLE, only while *)
(* nobody holds an admin role.                                              *)

AdminHeld == \E h \in held : h.role \in AdminRoles

BeginBootstrap(w, r) ==
    /\ pc[w] = "idle" /\ r \in AdminRoles \ retired
    /\ ~AdminHeld
    /\ GoTo(w, "bootstrap")
    /\ req' = [req EXCEPT ![w] = [user |-> SealedAdmin, role |-> r, grant |-> None]]
    /\ UNCHANGED <<held, token, retired, version, heldBefore, made>>

\* A bootstrap that another one overtook is aborted by the serialization check.
Overtaken_ReadCommitted(w) == FALSE
Overtaken(w) == \E h \in held : h.basis = None

CommitBootstrap(w) ==
    LET u == req[w].user IN
    /\ pc[w] = "bootstrap"
    /\ IF Overtaken(w)
       THEN UNCHANGED <<held, version>>
       ELSE /\ held' = held \cup {[user |-> u, role |-> req[w].role, basis |-> None]}
            /\ version' = [version EXCEPT ![u] = @ + 1]
    /\ Finish(w)
    /\ UNCHANGED <<token, retired, made>>

\* The data owner retires a role.
RetireRole(r) ==
    /\ r \notin retired
    /\ retired' = retired \cup {r}
    /\ UNCHANGED <<held, token, version, pc, req, heldBefore, made>>

-----------------------------------------------------------------------------
Init ==
    /\ held = {}
    /\ token = [g \in Grants |-> "active"]
    /\ retired = {}
    /\ version = [u \in Users |-> 0]
    /\ pc = [w \in Workers |-> "idle"]
    /\ req = [w \in Workers |-> NoAssignment]
    /\ heldBefore = [w \in Workers |-> {}]
    /\ made = {}

Request(w) ==
    \/ \E g \in Grants, u \in Users, r \in Roles : VerifyToken(w, g, u, r)
    \/ CheckSod(w) \/ Assign(w)
    \/ \E r \in AdminRoles : BeginBootstrap(w, r)
    \/ CommitBootstrap(w)

Next == (\E w \in Workers : Request(w)) \/ (\E r \in Roles : RetireRole(r))

Spec == Init /\ [][Next]_vars

-----------------------------------------------------------------------------
Assignments == [user : Users, role : Roles, basis : Basis]

TypeOK ==
    /\ held \subseteq Assignments
    /\ token \in [Grants -> {"active", "consumed", "revoked"}]
    /\ retired \subseteq Roles
    /\ version \in [Users -> Nat]
    /\ pc \in [Workers -> {"idle", "verified", "checked", "bootstrap"}]
    /\ req \in [Workers -> [user : Users \cup {None}, role : Roles \cup {None}, grant : Basis]]
    /\ heldBefore \in [Workers -> SUBSET Roles]
    /\ made \subseteq held \X SUBSET Roles

RefsConflict(rules, a, b) == <<a, b>> \in rules \/ <<b, a>> \in rules
Conflicting(r1, r2) ==
    \/ RefsConflict(SodRoleRules, r1, r2)
    \/ \E p \in RolePerms[r1], q \in RolePerms[r2] : RefsConflict(SodPermRules, p, q)

\* Two conflicting roles come to be held by one user only when the transactions that
\* assigned them overlapped: whatever was committed before an assignment began, and is
\* still in force, does not conflict with the role it assigned.
ConflictsOnlyFromOverlap ==
    \A m \in made : \A r \in m[2] \ retired : ~Conflicting(m[1].role, r)

\* No user ever holds two roles that an active SoD rule sets against each other.
NoConflictingRoles ==
    \A u \in Users : \A r1, r2 \in RolesOf(u) : ~Conflicting(r1, r2)

\* Every role held was approved, for exactly that user and role, with a token that
\* paid for it alone; the one exception is the sealed bootstrap administrator.
EveryRoleApproved ==
    \A h \in held :
        \/ /\ h.basis \in Grants /\ token[h.basis] = "consumed"
           /\ h.basis.user = h.user /\ h.basis.role = h.role
        \/ h.basis = None /\ h.user = SealedAdmin /\ h.role \in AdminRoles

\* Bootstrap attempts that race still assign one role between them.
OneBootstrap == Cardinality({h \in held : h.basis = None}) <= 1
=============================================================================
