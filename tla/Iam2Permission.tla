---------------------------- MODULE Iam2Permission ----------------------------
(***************************************************************************)
(* IAM-02: the permission guard, read by read.  evaluateChain reads the    *)
(* actor's cache version, the permission, the actor's deny override and    *)
(* the roles that grant it, each in a statement of its own that sees what  *)
(* is committed by then; only the times of grants are compared with the    *)
(* beginning of the transaction.  A granted check with a payload leaves a  *)
(* decision token, and its redemption goes through the chain again, without *)
(* the steps of step-up and approval.  One actor and one permission.       *)
(***************************************************************************)
EXTENDS Naturals, FiniteSets

CONSTANTS
    Roles, Tokens, Workers,
    MaxChanges,     \* bound on what is changed around the checks
    None

VARIABLES
    against,    \* what stands against the actor: flags of iam2.permission, or a deny override
    granting,   \* roles held by the actor that grant the permission
    expired,    \* of these, the ones whose time has run out
    version,    \* iam2.permission_cache_version of the actor
    token,      \* iam2.permission_decision_token, and (history) the version when its grants were read
    fresh,      \* the evidence of a step-up is still fresh
    changes,
    work,
    answer      \* history: the last row of iam2.permission_decision_log and what it answered to

vars == <<against, granting, expired, version, token, fresh, changes, work, answer>>

Locks == {"locked", "prohibited"}
Gates == {"step_up", "approval"}
Flags == {"unknown"} \cup Locks \cup Gates
Hindrances == Flags \cup {"denied"}

\* Kinds of evaluation: evaluatePermission, ...WithStepUp, evaluateEntitlement, and the
\* entitlement that verifyAndConsumeForExecution evaluates.
Kinds == {"check", "step_up", "entitlement", "execute"}
SkipsGates == {"entitlement", "execute"}

NoToken == [status |-> "none", version |-> 0, granted |-> 0]
Idle == [at |-> "idle", kind |-> None, token |-> None, evidence |-> FALSE, payload |-> FALSE,
         version |-> 0, flags |-> {}, found |-> {}, granted |-> 0, expired |-> {}, stood |-> {}, held |-> {}]
At(w, point) == work[w].at = point
Rest(w) == work' = [work EXCEPT ![w] = Idle]
TokenLocked(t) == \E w \in Workers : work[w].token = t

-----------------------------------------------------------------------------
(* Answers *)

\* The decision row and, in the same transaction, whatever the answer brings.
recordDecision(w, decision) ==
    answer' = [decision |-> decision, kind |-> work[w].kind, stood |-> work[w].stood, held |-> work[w].held]

Refuse(w, decision) ==
    /\ recordDecision(w, decision) /\ Rest(w)
    /\ UNCHANGED token

-----------------------------------------------------------------------------
(* evaluateChain *)

Begun(kind, t, evidence, payload, read) ==
    [at |-> "version", kind |-> kind, token |-> t, evidence |-> evidence, payload |-> payload,
     version |-> 0, flags |-> {}, found |-> {}, granted |-> read, expired |-> expired, stood |-> against, held |-> granting \ expired]

Begin(w, kind, evidence, payload) ==
    /\ At(w, "idle") /\ kind # "execute"
    /\ evidence => kind = "step_up"
    /\ payload => kind = "check"
    /\ work' = [work EXCEPT ![w] = Begun(kind, None, evidence, payload, 0)]
    /\ UNCHANGED <<against, granting, expired, version, token, fresh, changes, answer>>

lookupCacheVersion(w) ==
    /\ At(w, "version")
    /\ work' = [work EXCEPT ![w].at = "permission", ![w].version = version]
    /\ UNCHANGED <<against, granting, expired, version, token, fresh, changes, answer>>

\* No active row, a licence lock or a prohibition ends the chain.
lookupPermission(w) ==
    LET flags == against \cap Flags IN
    /\ At(w, "permission")
    /\ IF "unknown" \in flags THEN Refuse(w, "unknown")
       ELSE IF flags \cap Locks # {} THEN Refuse(w, "licence_locked")
       ELSE /\ work' = [work EXCEPT ![w].at = "override", ![w].flags = flags]
            /\ UNCHANGED <<token, answer>>
    /\ UNCHANGED <<against, granting, expired, version, fresh, changes>>

\* Evidence of this actor for this purpose, fresh by the clock of the service.
stepUpSatisfies(w) == work[w].evidence /\ fresh

Gate(w) ==
    IF work[w].kind \in SkipsGates THEN None
    ELSE IF "step_up" \in work[w].flags /\ ~stepUpSatisfies(w) THEN "step_up_required"
    ELSE IF "approval" \in work[w].flags THEN "approval_required"
    ELSE None

\* A deny override wins over every grant; the gates come before the grants.
lookupActiveDenyOverride_Granted(w) == "denied" \in against /\ granting = {}
lookupActiveDenyOverride(w) == "denied" \in against

DenyOrGate(w) ==
    /\ At(w, "override")
    /\ IF lookupActiveDenyOverride(w) THEN Refuse(w, "deny_override")
       ELSE IF Gate(w) # None THEN Refuse(w, Gate(w))
       ELSE work' = [work EXCEPT ![w].at = "grants"] /\ UNCHANGED <<token, answer>>
    /\ UNCHANGED <<against, granting, expired, version, fresh, changes>>

\* now() is the beginning of the transaction.
lookupActiveRoleGrants(w) ==
    /\ At(w, "grants")
    /\ work' = [work EXCEPT ![w].at = "deciding", ![w].found = granting \ work[w].expired, ![w].granted = version]
    /\ UNCHANGED <<against, granting, expired, version, token, fresh, changes, answer>>

\* The token is bound to the version that was read before everything else.
BoundVersion_AtIssue(w) == version
BoundVersion(w) == work[w].version

issueDecisionToken(w) ==
    IF work[w].payload
    THEN \E t \in Tokens :
            /\ token[t] = NoToken
            /\ token' = [token EXCEPT ![t] = [status |-> "active", version |-> BoundVersion(w), granted |-> work[w].granted]]
    ELSE UNCHANGED token

Decide(w) ==
    /\ At(w, "deciding") /\ work[w].kind # "execute"
    /\ IF work[w].found = {} THEN Refuse(w, "no_assignment")
       ELSE recordDecision(w, "allow") /\ Rest(w) /\ issueDecisionToken(w)
    /\ UNCHANGED <<against, granting, expired, version, fresh, changes>>

-----------------------------------------------------------------------------
(* verifyAndConsumeForExecution, of a token that no approval is behind *)

\* Under the row lock: an active token that was presented with another binding is revoked, one
\* whose actor's version moved is left as it is.
checkDecisionToken(w, t, fits) ==
    /\ At(w, "idle") /\ ~TokenLocked(t) /\ token[t].status = "active"
    /\ IF ~fits
       THEN token' = [token EXCEPT ![t].status = "revoked"] /\ UNCHANGED work
       ELSE /\ token[t].version = version
            /\ work' = [work EXCEPT ![w] = Begun("execute", t, FALSE, FALSE, version)]
            /\ UNCHANGED token
    /\ UNCHANGED <<against, granting, expired, version, fresh, changes, answer>>

\* A permission that has come to need an approval or a step-up is not executed on this token.
checkApprovalProvenance_Skipped(w) == TRUE
checkApprovalProvenance(w) == work[w].flags \cap Gates = {}

consumeCheckedToken(w) ==
    /\ At(w, "deciding") /\ work[w].kind = "execute"
    /\ IF work[w].found = {} THEN Refuse(w, "no_assignment")
       ELSE IF ~checkApprovalProvenance(w) THEN Refuse(w, "provenance")
       ELSE /\ recordDecision(w, "authorised") /\ Rest(w)
            /\ token' = [token EXCEPT ![work[w].token].status = "consumed"]
    /\ UNCHANGED <<against, granting, expired, version, fresh, changes>>

\* The transaction is rolled back, and its row lock with it.
Dies(w) ==
    /\ ~At(w, "idle") /\ Rest(w)
    /\ UNCHANGED <<against, granting, expired, version, token, fresh, changes, answer>>

-----------------------------------------------------------------------------
(* What changes around the checks: the assignments of this service bump    *)
(* the version, what the data owner changes does not.                      *)

Change == changes < MaxChanges /\ changes' = changes + 1
bumpCacheVersion == version' = version + 1

AssignRole(r) ==
    /\ Change /\ r \notin granting
    /\ granting' = granting \cup {r} /\ expired' = expired \ {r}
    /\ bumpCacheVersion
    /\ UNCHANGED <<against, token, fresh, work, answer>>

RevokeRole(r) ==
    /\ Change /\ r \in granting
    /\ granting' = granting \ {r} /\ expired' = expired \ {r}
    /\ work' = [w \in Workers |-> [work[w] EXCEPT !.held = @ \ {r}]]
    /\ UNCHANGED <<against, version, token, fresh, answer>>

Expire(r) ==
    /\ Change /\ r \in granting \ expired /\ expired' = expired \cup {r}
    /\ UNCHANGED <<against, granting, version, token, fresh, work, answer>>

Impose(h) ==
    /\ Change /\ h \notin against /\ against' = against \cup {h}
    /\ UNCHANGED <<granting, expired, version, token, fresh, work, answer>>

Lift(h) ==
    /\ Change /\ h \in against /\ against' = against \ {h}
    /\ work' = [w \in Workers |-> [work[w] EXCEPT !.stood = @ \ {h}]]
    /\ UNCHANGED <<granting, expired, version, token, fresh, answer>>

EvidenceLapses ==
    /\ fresh /\ fresh' = FALSE
    /\ UNCHANGED <<against, granting, expired, version, token, changes, work, answer>>

Init ==
    /\ against = {} /\ granting \in SUBSET Roles /\ expired = {} /\ version = 0
    /\ token = [t \in Tokens |-> NoToken] /\ fresh = TRUE /\ changes = 0
    /\ work = [w \in Workers |-> Idle]
    /\ answer = [decision |-> None, kind |-> None, stood |-> {}, held |-> {}]

Evaluate(w) ==
    \/ \E kind \in Kinds, evidence, payload \in BOOLEAN : Begin(w, kind, evidence, payload)
    \/ \E t \in Tokens, fits \in BOOLEAN : checkDecisionToken(w, t, fits)
    \/ lookupCacheVersion(w) \/ lookupPermission(w) \/ DenyOrGate(w) \/ lookupActiveRoleGrants(w)
    \/ Decide(w) \/ consumeCheckedToken(w) \/ Dies(w)

Administer ==
    \/ \E r \in Roles : AssignRole(r) \/ RevokeRole(r) \/ Expire(r)
    \/ \E h \in Hindrances : Impose(h) \/ Lift(h)
    \/ EvidenceLapses

Next == (\E w \in Workers : Evaluate(w)) \/ Administer

Spec == Init /\ [][Next]_vars

-----------------------------------------------------------------------------
TypeOK ==
    /\ against \subseteq Hindrances /\ expired \subseteq granting /\ granting \subseteq Roles
    /\ \A t \in Tokens : token[t].status \in {"none", "active", "revoked", "consumed"} /\ token[t].version \in 0..version
    /\ \A w \in Workers : work[w].version \in 0..version /\ work[w].stood \subseteq Hindrances

\* However the rows change between the reads, an evaluation allows nothing that was hindered
\* from its beginning to its answer, and misses no grant that was held throughout.
Ending == {"unknown", "denied"} \cup Locks
AnsweredAsOf ==
    /\ answer.decision \in {"allow", "authorised"} => answer.stood \cap Ending = {}
    /\ answer.decision = "allow" /\ answer.kind = "check" => answer.stood \cap Gates = {}
    /\ answer.decision = "authorised" => answer.stood \cap Gates = {}
    /\ answer.decision = "no_assignment" => answer.held = {}

\* A token is redeemed only where no role was assigned to its actor from the moment its grants
\* were read until its redemption began.
NoAssignmentCrossed ==
    \A w \in Workers : work[w].kind = "execute" /\ At(w, "version") => token[work[w].token].granted = work[w].granted
=============================================================================
