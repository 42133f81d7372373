--------------------------------- MODULE Iam ---------------------------------
(***************************************************************************)
(* IAM-01 and IAM-02 beside the approvals: one user's sessions and         *)
(* password reset; role assignments and the bootstrap; the MFA challenges, *)
(* step-ups and enrolment of a user; and the permission checks of one      *)
(* actor.  They share no row, so what any of them promises depends on its  *)
(* own steps alone, and a behaviour is about the one in focus.             *)
(***************************************************************************)
EXTENDS IamSession, TLC

CONSTANTS
    Users, Roles, AdminRoles, RolePerms, SodRoleRules, SodPermRules, AssignUser, SealedAdmin,
    Grants,                     \* of roles: approved, with a decision token
    Challenges, Factors, MaxAttempts,
    MaxWrong, MaxGrants,        \* bounds: wrong codes and sessions of a challenge
    Granting,                   \* roles that grant the permission that is checked
    DirectTokens,               \* its decision tokens, without an approval
    MaxChanges                  \* bound: what changes around the checks

VARIABLES
    focus,
    held, roleToken, retired, version, rolePc, req, heldBefore, made,
    challenge, lockout, factor, enrolment, work, granted, wrong, guesses, raced,
    against, granting, outdated, permissionVersion, directToken, fresh, changes, guardWork, answer
roleVars == <<held, roleToken, retired, version, rolePc, req, heldBefore, made>>
mfaVars == <<challenge, lockout, factor, enrolment, work, granted, wrong, guesses, raced>>
guardVars == <<against, granting, outdated, permissionVersion, directToken, fresh, changes, guardWork, answer>>

Role == INSTANCE Iam2RoleAssign WITH token <- roleToken, pc <- rolePc
Mfa == INSTANCE IamChallenge
Guard == INSTANCE Iam2Permission WITH
    Roles <- Granting, Tokens <- DirectTokens,
    expired <- outdated, version <- permissionVersion, token <- directToken, work <- guardWork

ASSUME RoleAssumption ==
    /\ AdminRoles \subseteq Roles /\ SealedAdmin \in Users
    /\ Grants \subseteq [actor : Users, user : Users, role : Roles]
    /\ None \notin Grants /\ None \notin Users /\ None \notin Roles
ASSUME MfaAssumption ==
    /\ MaxAttempts \in Nat \ {0}
    /\ Mfa!Enrolment \notin Challenges /\ None \notin Factors
    /\ None \notin {"pending", "expired", "failed", "passed", "active", "used", "revoked"}
ASSUME GuardAssumption ==
    /\ None \notin Granting /\ None \notin DirectTokens
    /\ None \notin Guard!Kinds \cup {"step_up_required", "approval_required"}

-----------------------------------------------------------------------------
(* Bounds of what is explored: a refresh token lapses where no reset is    *)
(* asked for; factors in the order of their numbers, a second one only     *)
(* where no challenge is; and two permission checks overlap where both     *)
(* redeem a token.                                                         *)
SessionBound == lapsed \cap Tokens = {} \/ \A r \in Resets : reset[r] = "none"
MfaBound ==
    /\ \A f, g \in Factors : f < g /\ factor[g] # None => factor[f] # None
    /\ \/ \A c \in Challenges : challenge[c] = Mfa!NoChallenge
       \/ \A f, g \in Factors : factor[f] # None /\ factor[g] # None => f = g
GuardBound ==
    (\A w \in Workers : guardWork[w] # Guard!Idle) => \A w \in Workers : guardWork[w].kind = "execute"

IamInit ==
    /\ focus \in {"sessions", "roles", "challenges", "permission"}
    /\ Init /\ Role!Init /\ Mfa!Init /\ Guard!Init
    /\ MfaBound
    /\ focus # "challenges" => \A f \in Factors : factor[f] = None
    /\ focus # "permission" => granting = {}
IamNext ==
    \/ focus = "sessions" /\ Next /\ SessionBound' /\ UNCHANGED <<focus, roleVars, mfaVars, guardVars>>
    \/ focus = "roles" /\ Role!Next /\ UNCHANGED <<focus, vars, mfaVars, guardVars>>
    \/ focus = "challenges" /\ Mfa!Next /\ MfaBound' /\ UNCHANGED <<focus, vars, roleVars, guardVars>>
    \/ focus = "permission" /\ Guard!Next /\ GuardBound' /\ UNCHANGED <<focus, vars, roleVars, mfaVars>>
IamSpec == IamInit /\ [][IamNext]_<<focus, vars, roleVars, mfaVars, guardVars>>

-----------------------------------------------------------------------------
(* The instance that is checked: user 1 is the sealed bootstrap admin, and *)
(* user 2 is to become an admin who assigns in turn; the meta rule of      *)
(* migration 007 sets managing SoD rules against assigning roles.          *)
SmallRolePerms ==
    [r \in Roles |-> CASE r = "security_admin" -> {"assign_user"}
                       [] r = "sod_manager" -> {"sod_manage"}
                       [] OTHER -> {}]
SmallPermRules == {<<"sod_manage", "assign_user">>}
SmallRoleRules == {<<"dealer", "settler">>}
Grant(a, u, r) == [actor |-> a, user |-> u, role |-> r]
SmallGrants ==
    {Grant(1, 2, "security_admin"), Grant(1, 2, "sod_manager"), Grant(1, 2, "dealer"), Grant(2, 2, "settler")}
Alike == Permutations(Workers) \cup Permutations(Challenges)

-----------------------------------------------------------------------------
\* A user holds roles that separation of duties forbids together only through assignments that
\* overlapped, every role but the bootstrap's was approved, and the bootstrap happens once.
\* Whatever changes between its reads, the guard allows nothing that was hindered all along, and
\* a token whose grants were read before a later assignment of a role is not redeemed.
ConflictsOnlyFromOverlap ==
    /\ focus = "roles" => Role!TypeOK /\ Role!ConflictsOnlyFromOverlap /\ Role!EveryRoleApproved /\ Role!OneBootstrap
    /\ focus = "permission" => Guard!TypeOK /\ Guard!AnsweredAsOf /\ Guard!NoAssignmentCrossed

\* Guesses at a challenge beyond its maximum, and a challenge passed twice, come only of requests
\* that overlap, and then within the lockout; an enrolment makes one factor.
GuessesBounded ==
    focus = "challenges" => Mfa!TypeOK /\ Mfa!GuessesBounded /\ Mfa!ExactUnlessRaced /\ Mfa!EnrolsOnce
=============================================================================
