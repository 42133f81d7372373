------------------------ MODULE Iam2ApprovalProofs ------------------------
(***************************************************************************)
(* Proofs about Iam2Approval, for any number of users, requests, tokens,   *)
(* policies and concurrent transactions.                                   *)
(***************************************************************************)
EXTENDS Iam2Approval, TLAPS

-----------------------------------------------------------------------------
(* Rows and points.                                                        *)

LEMMA NoRequestTyped == NoRequest \in Requests
  BY NoneAssumption DEF NoRequest, Requests

LEMMA PointsOf ==
  /\ "idle" \in Points
  /\ "create_read" \in Points /\ "approve_step_up" \in Points /\ "approve_guarded" \in Points
  /\ "reject_guarded" \in Points /\ "approve_locked" \in Points /\ "approve_policy" \in Points
  /\ "approve_checker" \in Points /\ "approve_people" \in Points /\ "reject_locked" \in Points
  /\ "exec_checked" \in Points
  /\ "exec_entitled" \in Points /\ "exec_proven" \in Points
  BY DEF Points, HoldsApproval, HoldsToken

LEMMA FinishTyped ==
  ASSUME TypeOK, NEW w \in Workers, Finish(w)
  PROVE  pc' \in [Workers -> Points] /\ req' \in [Workers -> Requests]
  BY NoRequestTyped, PointsOf DEF TypeOK, Finish

LEMMA GoToTyped ==
  ASSUME TypeOK, NEW w \in Workers, NEW point \in Points, GoTo(w, point)
  PROVE  pc' \in [Workers -> Points]
  BY DEF TypeOK, GoTo

LEMMA RowTyped ==
  ASSUME NEW row \in ApprovalRows, NEW s \in Statuses
  PROVE  [row EXCEPT !.status = s] \in ApprovalRows
  BY DEF ApprovalRows

LEMMA StatusTyped ==
  ASSUME TypeOK, NEW a \in Approvals, NEW s \in Statuses
  PROVE  [approval EXCEPT ![a].status = s] \in [Approvals -> ApprovalRows]
  <1>1. [approval[a] EXCEPT !.status = s] \in ApprovalRows
    BY RowTyped DEF TypeOK
  <1> QED BY <1>1 DEF TypeOK

LEMMA CountTyped ==
  ASSUME TypeOK, NEW a \in Approvals, NEW s \in Statuses
  PROVE  [approval EXCEPT ![a] = [approval[a] EXCEPT !.status = s, !.count = approval[a].count + 1]]
            \in [Approvals -> ApprovalRows]
  <1>1. [approval[a] EXCEPT !.status = s] \in ApprovalRows
    BY RowTyped DEF TypeOK
  <1>2. approval[a].count + 1 \in Nat
    BY DEF TypeOK, ApprovalRows
  <1>3. ASSUME NEW row \in ApprovalRows, NEW n \in Nat
        PROVE  [row EXCEPT !.count = n] \in ApprovalRows
    BY DEF ApprovalRows
  <1>4. [approval[a] EXCEPT !.status = s, !.count = approval[a].count + 1] \in ApprovalRows
    BY <1>1, <1>2, <1>3
  <1> QED BY <1>4 DEF TypeOK

LEMMA ExpireTyped ==
  ASSUME TypeOK, NEW a \in Approvals, ExpireIfPending(a)
  PROVE  approval' \in [Approvals -> ApprovalRows]
  BY StatusTyped DEF TypeOK, ExpireIfPending, Statuses

LEMMA IssueTyped ==
  ASSUME TypeOK, NEW t \in Tokens, NEW u \in Users, NEW op \in Ops,
         NEW a \in Approvals \cup {None}, IssueToken(t, u, op, a)
  PROVE  token' \in [Tokens -> TokenRows]
  BY DEF TypeOK, IssueToken, TokenRows, TokenStatuses

LEMMA TokenStatusTyped ==
  ASSUME TypeOK, NEW t \in Tokens, NEW s \in TokenStatuses
  PROVE  [token EXCEPT ![t].status = s] \in [Tokens -> TokenRows]
  <1>1. [token[t] EXCEPT !.status = s] \in TokenRows
    BY DEF TypeOK, TokenRows
  <1> QED BY <1>1 DEF TypeOK

-----------------------------------------------------------------------------
(* The type invariant.                                                     *)

LEMMA TypeInit == Init => TypeOK
  <1> SUFFICES ASSUME Init PROVE TypeOK
    OBVIOUS
  <1> USE DEF Init
  <1>1. approval \in [Approvals -> ApprovalRows]
    BY NoneAssumption DEF NoApproval, ApprovalRows, Statuses
  <1>2. token \in [Tokens -> TokenRows]
    BY NoneAssumption DEF NoToken, TokenRows, TokenStatuses
  <1>3. pc \in [Workers -> Points] /\ req \in [Workers -> Requests]
    BY NoRequestTyped, PointsOf
  <1>4. authorised \in [Tokens -> [count : Nat, began : SUBSET Hindrances]]
    OBVIOUS
  <1>5. policyStatus \in [Policies -> {"absent", "active", "inactive", "revoked"}]
    OBVIOUS
  <1> QED BY <1>1, <1>2, <1>3, <1>4, <1>5, RolesAssumption DEF TypeOK

\* A step of a request under way.
LEMMA TypeContinue ==
  ASSUME TypeOK, Filled, Locking, NEW w \in Workers, Continue(w)
  PROVE  TypeOK'
<1> USE DEF admin, identity, clock, rows
<1> approval \in [Approvals -> ApprovalRows] /\ token \in [Tokens -> TokenRows]
      /\ req \in [Workers -> Requests] /\ pc \in [Workers -> Points]
  BY DEF TypeOK
<1>1. CASE InsertRequest(w)
  <2>1. req[w].user \in Users /\ req[w].op \in Ops /\ req[w].policy \in Policies /\ req[w].hashed \in BOOLEAN
    BY <1>1 DEF InsertRequest, Filled, HoldsToken, Requests
  <2>2. approval' \in [Approvals -> ApprovalRows]
    BY <1>1, <2>1 DEF InsertRequest, ApprovalRows, Statuses
  <2> QED BY <1>1, <2>2, FinishTyped DEF InsertRequest, TypeOK
<1>2. CASE GuardApprove(w)
  BY <1>2, FinishTyped, GoToTyped, PointsOf DEF GuardApprove, TypeOK
<1>3. CASE LockApprove(w)
  <2>1. req[w].approval \in Approvals
    BY <1>3 DEF LockApprove, Filled, HoldsToken
  <2>2. approval' \in [Approvals -> ApprovalRows]
    BY <1>3, <2>1, ExpireTyped DEF LockApprove
  <2> QED BY <1>3, <2>2, FinishTyped, GoToTyped, PointsOf DEF LockApprove, TypeOK
<1>4. CASE CheckPolicy(w)
  BY <1>4, FinishTyped, GoToTyped, PointsOf DEF CheckPolicy, TypeOK
<1>5. CASE CheckRoles(w) \/ CheckMaker(w)
  BY <1>5, FinishTyped, GoToTyped, PointsOf DEF CheckRoles, CheckMaker, TypeOK
<1>6. CASE Approve(w)
  <2> DEFINE a == req[w].approval
             u == req[w].user
  <2>1. a \in Approvals /\ u \in Users
    BY <1>6 DEF Approve, Filled, HoldsToken
  <2>2. approval' \in [Approvals -> ApprovalRows]
    <3>1. [approval EXCEPT ![a].status = "blocked"] \in [Approvals -> ApprovalRows]
      BY <2>1, StatusTyped DEF Statuses
    <3>2. [approval EXCEPT ![a] = [approval[a] EXCEPT !.status = "approved",
                                                      !.count = approval[a].count + 1]]
             \in [Approvals -> ApprovalRows]
      BY <2>1, CountTyped DEF Statuses
    <3> QED BY <1>6, <3>1, <3>2 DEF Approve
  <2>3. decisions' \subseteq Decisions
    BY <1>6, <2>1 DEF Approve, Decisions, TypeOK
  <2>4. token' \in [Tokens -> TokenRows]
    <3>1. CASE UNCHANGED token
      BY <3>1
    <3>2. CASE ~UNCHANGED token
      <4>1. PICK t \in Tokens : IssueToken(t, approval[a].maker, approval[a].op, a)
        BY <1>6, <3>2 DEF Approve
      <4>2. approval[a].maker \in Users /\ approval[a].op \in Ops
        BY <1>6, <2>1 DEF Approve, Locking, HoldsApproval, Filled
      <4> QED BY <4>1, <4>2, <2>1, IssueTyped
    <3> QED BY <3>1, <3>2
  <2> QED BY <1>6, <2>2, <2>3, <2>4, FinishTyped DEF Approve, TypeOK
<1>7. CASE LockReject(w)
  <2>1. req[w].approval \in Approvals
    BY <1>7 DEF LockReject, Filled, HoldsToken
  <2>2. approval' \in [Approvals -> ApprovalRows]
    BY <1>7, <2>1, ExpireTyped DEF LockReject
  <2> QED BY <1>7, <2>2, FinishTyped, GoToTyped, PointsOf DEF LockReject, TypeOK
<1>8. CASE Reject(w)
  <2>1. req[w].approval \in Approvals /\ req[w].user \in Users
    BY <1>8 DEF Reject, Filled, HoldsToken
  <2>2. approval' \in [Approvals -> ApprovalRows]
    BY <1>8, <2>1, StatusTyped DEF Reject, Statuses
  <2>3. decisions' \subseteq Decisions
    BY <1>8, <2>1 DEF Reject, Decisions, TypeOK
  <2> QED BY <1>8, <2>2, <2>3, FinishTyped DEF Reject, TypeOK
<1>9. CASE CheckEntitlement(w)
  BY <1>9, FinishTyped, GoToTyped, PointsOf DEF CheckEntitlement, TypeOK
<1>10. CASE CheckProvenance(w)
  BY <1>10, FinishTyped, GoToTyped, PointsOf DEF CheckProvenance, TypeOK
<1>11. CASE Consume(w)
  <2>1. req[w].token \in Tokens /\ req[w].began \subseteq Hindrances
    BY <1>11 DEF Consume, Filled, HoldsToken, Requests
  <2>2. token' \in [Tokens -> TokenRows]
    BY <1>11, <2>1, TokenStatusTyped DEF Consume, TokenStatuses
  <2>3. authorised' \in [Tokens -> [count : Nat, began : SUBSET Hindrances]]
    BY <1>11, <2>1 DEF Consume, TypeOK
  <2> QED BY <1>11, <2>2, <2>3, FinishTyped DEF Consume, TypeOK
<1> QED BY <1>1, <1>2, <1>3, <1>4, <1>5, <1>6, <1>7, <1>8, <1>9, <1>10, <1>11 DEF Continue

\* The arrival of a request.
LEMMA TypeArrive ==
  ASSUME TypeOK, NEW w \in Workers, Arrive(w)
  PROVE  TypeOK'
<1> USE DEF admin, identity, clock, rows
<1> PICK u \in Users :
      \/ \E op \in Ops, hashed \in BOOLEAN : BeginCreate(w, u, op, hashed)
      \/ \E a \in Approvals : VerifyStepUp(w, u, a) \/ GuardReject(w, u, a)
      \/ \E t \in Tokens, op \in Ops, a \in Approvals \cup {None} : CheckToken(w, t, u, op, a)
  BY DEF Arrive
<1>0. ASSUME NEW r \in Requests, req' = [req EXCEPT ![w] = r] PROVE req' \in [Workers -> Requests]
  BY <1>0 DEF TypeOK
<1>1. ASSUME NEW op \in Ops, NEW h \in BOOLEAN, BeginCreate(w, u, op, h) PROVE TypeOK'
  <2>1. PICK p \in Policies :
          /\ GoTo(w, "create_read")
          /\ req' = [req EXCEPT ![w] = [NoRequest EXCEPT !.user = u, !.op = op,
                                           !.hashed = h, !.policy = p]]
    BY <1>1 DEF BeginCreate
  <2>2. [NoRequest EXCEPT !.user = u, !.op = op, !.hashed = h, !.policy = p] \in Requests
    BY DEF NoRequest, Requests
  <2> QED BY <1>1, <2>1, <2>2, <1>0, GoToTyped, PointsOf DEF BeginCreate, TypeOK
<1>2. ASSUME NEW a \in Approvals, VerifyStepUp(w, u, a) \/ GuardReject(w, u, a) PROVE TypeOK'
  <2>1. [NoRequest EXCEPT !.user = u, !.approval = a] \in Requests
    BY DEF NoRequest, Requests
  <2> QED BY <1>2, <2>1, <1>0, GoToTyped, PointsOf DEF VerifyStepUp, GuardReject, TypeOK
<1>3. ASSUME NEW t \in Tokens, NEW op \in Ops, NEW a \in Approvals \cup {None},
             CheckToken(w, t, u, op, a)
      PROVE  TypeOK'
  <2>1. [NoRequest EXCEPT !.user = u, !.token = t, !.began = StandsAgainst(t)] \in Requests
    BY DEF NoRequest, Requests, StandsAgainst
  <2>2. [token EXCEPT ![t].status = "revoked"] \in [Tokens -> TokenRows]
    BY TokenStatusTyped DEF TokenStatuses
  <2>3. CASE ~Bound(t, u, op, a)
    BY <1>3, <2>2, <2>3 DEF CheckToken, TypeOK
  <2>4. CASE Bound(t, u, op, a)
    BY <1>3, <2>1, <2>4, <1>0, GoToTyped, PointsOf DEF CheckToken, TypeOK
  <2> QED BY <2>3, <2>4
<1> QED BY <1>1, <1>2, <1>3

\* What happens around the requests leaves the rows and the workers alone, but for
\* the token a permission check issues.
LEMMA SurroundingsApart ==
  ASSUME Surroundings
  PROVE  /\ UNCHANGED <<approval, decisions, authorised, pc, req>>
         /\ \/ UNCHANGED token
            \/ \E u \in Users, op \in Ops, t \in Tokens : FreshToken(t) /\ IssueToken(t, u, op, None)
  BY DEF Surroundings, PermissionCheck, AssignRole, RevokeRole, Deny, GatePermission,
         SetPolicyStatus, CompleteStepUp, AssertionLapses, Suspend, ApprovalLapses, TokenLapses,
         identity, clock, rows, admin

LEMMA TypeSurroundings ==
  ASSUME TypeOK, Surroundings
  PROVE  TypeOK'
<1> USE DEF TypeOK, Change, admin, identity, clock, rows
<1>0. MaxChanges \in Nat
  BY RolesAssumption
<1>1. ASSUME NEW u \in Users, NEW op \in Ops, PermissionCheck(u, op) PROVE TypeOK'
  BY <1>1, IssueTyped DEF PermissionCheck
<1>2. ASSUME NEW u \in Users, NEW r \in Roles, AssignRole(u, r) \/ RevokeRole(u, r) PROVE TypeOK'
  BY <1>0, <1>2 DEF AssignRole, RevokeRole
<1>3. ASSUME NEW us \in SUBSET Users, NEW p \in Deniable, Deny(us, p) PROVE TypeOK'
  BY <1>0, <1>3, RolesAssumption DEF Deny
<1>4. CASE GatePermission
  BY <1>0, <1>4 DEF GatePermission
<1>5. ASSUME NEW p \in Policies, NEW s \in {"active", "inactive", "revoked"}, SetPolicyStatus(p, s)
      PROVE TypeOK'
  BY <1>0, <1>5 DEF SetPolicyStatus
<1>6. ASSUME NEW u \in Users, NEW a \in Approvals, CompleteStepUp(u, a) \/ AssertionLapses(u, a)
      PROVE TypeOK'
  BY <1>0, <1>6 DEF CompleteStepUp, AssertionLapses
<1>7. ASSUME NEW u \in Users, Suspend(u) PROVE TypeOK'
  BY <1>0, <1>7 DEF Suspend
<1>8. ASSUME NEW a \in Approvals, ApprovalLapses(a) PROVE TypeOK'
  BY <1>0, <1>8 DEF ApprovalLapses
<1>9. ASSUME NEW t \in Tokens, TokenLapses(t) PROVE TypeOK'
  BY <1>0, <1>9 DEF TokenLapses
<1> QED BY <1>1, <1>2, <1>3, <1>4, <1>5, <1>6, <1>7, <1>8, <1>9 DEF Surroundings

LEMMA TypeStep == IInv /\ [Next]_vars => TypeOK'
  <1>1. ASSUME TypeOK, UNCHANGED vars PROVE TypeOK'
    BY <1>1 DEF vars, TypeOK
  <1> QED BY <1>1, TypeArrive, TypeContinue, TypeSurroundings DEF IInv, Next

-----------------------------------------------------------------------------
(* The rest of the inductive invariant.                                    *)

LEMMA InductiveInit == Init => IInv
  <1> SUFFICES ASSUME Init PROVE IInv
    OBVIOUS
  <1>1. TypeOK
    BY TypeInit
  <1>2. Filled /\ Locking /\ DecidedOnce /\ Provenance
    BY DEF Init, Filled, Locking, DecidedOnce, Provenance, NoApproval, NoToken, HoldsApproval, HoldsToken
  <1> QED BY <1>1, <1>2 DEF IInv

Others == Filled /\ Locking /\ DecidedOnce /\ Provenance

\* A step that writes no row and moves one worker on within what it holds.
LEMMA QuietStep ==
  ASSUME IInv, NEW w \in Workers, UNCHANGED rows,
         \/ Finish(w)
         \/ /\ UNCHANGED req
            /\ \/ pc[w] = "approve_step_up" /\ GoTo(w, "approve_guarded")
               \/ pc[w] = "approve_locked" /\ GoTo(w, "approve_policy")
               \/ pc[w] = "approve_policy" /\ GoTo(w, "approve_checker")
               \/ pc[w] = "approve_checker" /\ GoTo(w, "approve_people")
               \/ pc[w] = "exec_checked" /\ GoTo(w, "exec_entitled")
               \/ pc[w] = "exec_entitled" /\ GoTo(w, "exec_proven")
  PROVE  Others'
<1> USE DEF IInv, rows, HoldsApproval, HoldsToken
<1> pc \in [Workers -> Points] /\ req \in [Workers -> Requests]
  BY DEF TypeOK
<1>1. Filled'
  BY DEF Filled, Finish, GoTo
<1>2. Locking'
  BY DEF Locking, Finish, GoTo
<1>3. DecidedOnce' /\ Provenance'
  BY DEF DecidedOnce, Provenance
<1> QED BY <1>1, <1>2, <1>3 DEF Others

\* A request arrives: a transaction starts, or a mismatched token is revoked.
LEMMA ArriveStep ==
  ASSUME IInv, NEW w \in Workers, Arrive(w)
  PROVE  Others'
<1> USE DEF IInv, rows, HoldsApproval, HoldsToken, GoTo, NoRequest
<1> /\ pc \in [Workers -> Points] /\ req \in [Workers -> Requests]
    /\ token \in [Tokens -> TokenRows]
  BY DEF TypeOK
<1> PICK u \in Users :
      \/ \E op \in Ops, hashed \in BOOLEAN : BeginCreate(w, u, op, hashed)
      \/ \E a \in Approvals : VerifyStepUp(w, u, a) \/ GuardReject(w, u, a)
      \/ \E t \in Tokens, op \in Ops, a \in Approvals \cup {None} : CheckToken(w, t, u, op, a)
  BY DEF Arrive
<1>1. ASSUME NEW op \in Ops, NEW h \in BOOLEAN, BeginCreate(w, u, op, h) PROVE Others'
  <2>1. PICK p \in Policies :
          req' = [req EXCEPT ![w] = [NoRequest EXCEPT !.user = u, !.op = op,
                                         !.hashed = h, !.policy = p]]
    BY <1>1 DEF BeginCreate
  <2>2. /\ pc[w] = "idle" /\ pc' = [pc EXCEPT ![w] = "create_read"]
        /\ UNCHANGED <<approval, decisions, token, authorised>>
    BY <1>1 DEF BeginCreate
  <2>3. /\ req'[w].user = u /\ req'[w].op = op /\ req'[w].policy = p
        /\ pc'[w] = "create_read"
        /\ \A v \in Workers \ {w} : req'[v] = req[v] /\ pc'[v] = pc[v]
    BY <2>1, <2>2
  <2>4. Filled'
    BY <2>2, <2>3 DEF Filled
  <2>5. Locking'
    BY <2>2, <2>3 DEF Locking
  <2>6. DecidedOnce' /\ Provenance'
    BY <2>2 DEF DecidedOnce, Provenance
  <2> QED BY <2>4, <2>5, <2>6 DEF Others
<1>2. ASSUME NEW a \in Approvals, VerifyStepUp(w, u, a) \/ GuardReject(w, u, a) PROVE Others'
  <2>1. /\ pc[w] = "idle"
        /\ \/ pc' = [pc EXCEPT ![w] = "approve_step_up"]
           \/ pc' = [pc EXCEPT ![w] = "reject_guarded"]
        /\ req' = [req EXCEPT ![w] = [NoRequest EXCEPT !.user = u, !.approval = a]]
        /\ UNCHANGED <<approval, decisions, token, authorised>>
    BY <1>2 DEF VerifyStepUp, GuardReject
  <2>2. /\ req'[w].user = u /\ req'[w].approval = a
        /\ pc'[w] \in {"approve_step_up", "reject_guarded"}
        /\ \A v \in Workers \ {w} : req'[v] = req[v] /\ pc'[v] = pc[v]
    BY <2>1
  <2>3. Filled'
    BY <2>1, <2>2 DEF Filled
  <2>4. Locking'
    BY <2>1, <2>2 DEF Locking
  <2>5. DecidedOnce' /\ Provenance'
    BY <2>1 DEF DecidedOnce, Provenance
  <2> QED BY <2>3, <2>4, <2>5 DEF Others
<1>3. ASSUME NEW t \in Tokens, NEW op \in Ops, NEW a \in Approvals \cup {None},
             CheckToken(w, t, u, op, a)
      PROVE  Others'
  <2>1. CASE ~Bound(t, u, op, a)
    <3>1. /\ token' = [token EXCEPT ![t].status = "revoked"]
          /\ token[t].status = "active" /\ ~TokenLocked(t)
          /\ UNCHANGED <<approval, decisions, authorised, pc, req>>
      BY <1>3, <2>1 DEF CheckToken
    <3>2. \A q \in Tokens : /\ token'[q].actor = token[q].actor /\ token'[q].op = token[q].op
                            /\ token'[q].approval = token[q].approval
                            /\ token'[q].status = IF q = t THEN "revoked" ELSE token[q].status
      BY <3>1 DEF TokenRows
    <3>3. Filled'
      BY <3>1, <3>2 DEF Filled
    <3>4. Locking'
      BY <3>1, <3>2 DEF Locking, TokenLocked, Filled
    <3>5. DecidedOnce' /\ Provenance'
      BY <3>1, <3>2 DEF DecidedOnce, Provenance
    <3> QED BY <3>3, <3>4, <3>5 DEF Others
  <2>2. CASE Bound(t, u, op, a)
    <3>1. /\ token[t].status = "active" /\ ~TokenLocked(t) /\ pc[w] = "idle"
          /\ pc' = [pc EXCEPT ![w] = "exec_checked"]
          /\ req' = [req EXCEPT ![w] = [NoRequest EXCEPT !.user = u, !.token = t,
                                            !.began = StandsAgainst(t)]]
          /\ UNCHANGED <<approval, decisions, token, authorised>>
      BY <1>3, <2>2 DEF CheckToken
    <3>2. req'[w].token = t /\ \A v \in Workers \ {w} : req'[v] = req[v] /\ pc'[v] = pc[v]
      BY <3>1
    <3>3. pc'[w] = "exec_checked"
      BY <3>1
    <3>4. Filled'
      BY <3>1, <3>2, <3>3 DEF Filled
    <3>5. Locking'
      BY <3>1, <3>2, <3>3 DEF Locking, TokenLocked
    <3>6. DecidedOnce' /\ Provenance'
      BY <3>1 DEF DecidedOnce, Provenance
    <3> QED BY <3>4, <3>5, <3>6 DEF Others
  <2> QED BY <2>1, <2>2
<1> QED BY <1>1, <1>2, <1>3

\* A new request row: it was undecided and no token or decision refers to it.
LEMMA InsertStep ==
  ASSUME IInv, NEW w \in Workers, InsertRequest(w)
  PROVE  Others'
<1> USE DEF IInv, rows, HoldsApproval, HoldsToken, Finish, NoRequest
<1> /\ pc \in [Workers -> Points] /\ req \in [Workers -> Requests]
    /\ approval \in [Approvals -> ApprovalRows] /\ decisions \subseteq Decisions
    /\ token \in [Tokens -> TokenRows]
  BY DEF TypeOK
<1>1. PICK a \in Approvals :
        /\ approval[a].status = "none"
        /\ approval' = [approval EXCEPT ![a] =
                           [status |-> "pending", maker |-> req[w].user, op |-> req[w].op,
                            hashed |-> req[w].hashed, policy |-> req[w].policy, count |-> 0]]
  BY DEF InsertRequest
<1>2. pc[w] = "create_read" /\ UNCHANGED <<decisions, token, authorised>> /\ Finish(w)
  BY DEF InsertRequest
<1>3. req[w].user \in Users /\ req[w].op \in Ops /\ req[w].policy \in Policies
  BY <1>2 DEF Filled
<1>4. \A d \in decisions : d.approval # a
  BY <1>1 DEF DecidedOnce
<1>5. \A t \in Tokens : token[t].approval # a
  BY <1>1, NoneAssumption DEF Provenance
<1>6. /\ approval'[a].status = "pending" /\ approval'[a].maker = req[w].user
      /\ approval'[a].op = req[w].op /\ approval'[a].policy = req[w].policy
      /\ \A b \in Approvals \ {a} : approval'[b] = approval[b]
  BY <1>1
<1>7. Filled'
  BY <1>2, <1>3, <1>6 DEF Filled
<1>8. Locking'
  BY <1>1, <1>2, <1>6 DEF Locking, Filled
<1>9. DecidedOnce'
  BY <1>2, <1>4, <1>6 DEF DecidedOnce, Decisions
<1>10. Provenance'
  BY <1>2, <1>4, <1>5, <1>6, NoneAssumption DEF Provenance, Decisions, TokenRows
<1> QED BY <1>7, <1>8, <1>9, <1>10 DEF Others

\* The row lock of a request is taken, or the request found undecidable.
LEMMA LockStep ==
  ASSUME IInv, NEW w \in Workers, LockApprove(w) \/ LockReject(w)
  PROVE  Others'
<1> USE DEF IInv, rows, HoldsApproval, HoldsToken, Finish, GoTo, NoRequest
<1> /\ pc \in [Workers -> Points] /\ req \in [Workers -> Requests]
    /\ approval \in [Approvals -> ApprovalRows] /\ decisions \subseteq Decisions
    /\ token \in [Tokens -> TokenRows]
  BY DEF TypeOK
<1> DEFINE a == req[w].approval
<1>1. /\ pc[w] \in {"approve_guarded", "reject_guarded"} /\ ~ApprovalLocked(a)
      /\ UNCHANGED <<decisions, token, authorised>>
  BY DEF LockApprove, LockReject
<1>2. a \in Approvals /\ req[w].user \in Users
  BY <1>1 DEF Filled
<1>3. CASE /\ UNCHANGED <<approval, req>> /\ approval[a].status = "pending"
           /\ \/ pc' = [pc EXCEPT ![w] = "approve_locked"] /\ req[w].user # approval[a].maker
              \/ pc' = [pc EXCEPT ![w] = "reject_locked"]
  <2>1. Filled'
    BY <1>1, <1>2, <1>3 DEF Filled
  <2>2. Locking'
    BY <1>1, <1>2, <1>3 DEF Locking, ApprovalLocked
  <2>3. DecidedOnce' /\ Provenance'
    BY <1>1, <1>3 DEF DecidedOnce, Provenance
  <2> QED BY <2>1, <2>2, <2>3 DEF Others
<1>4. CASE Finish(w) /\ UNCHANGED approval
  BY <1>1, <1>4, QuietStep
<1>5. CASE Finish(w) /\ ExpireIfPending(a) /\ approval[a].status = "pending"
  <2>1. /\ approval'[a].status = "expired"
        /\ \A b \in Approvals : /\ approval'[b].maker = approval[b].maker
                                /\ approval'[b].op = approval[b].op
                                /\ approval'[b].policy = approval[b].policy
                                /\ b # a => approval'[b] = approval[b]
    BY <1>2, <1>5 DEF ExpireIfPending, ApprovalRows
  <2>2. Filled'
    BY <1>1, <1>5, <2>1 DEF Filled
  <2>3. Locking'
    BY <1>1, <1>5, <2>1 DEF Locking, ApprovalLocked, Filled
  <2>4. DecidedOnce'
    BY <1>1, <1>5, <2>1 DEF DecidedOnce, Decisions
  <2>5. Provenance'
    BY <1>1, <1>5, <2>1 DEF Provenance, Decisions, TokenRows
  <2> QED BY <2>2, <2>3, <2>4, <2>5 DEF Others
<1>6. CASE Finish(w) /\ ExpireIfPending(a) /\ approval[a].status # "pending"
  BY <1>4, <1>6 DEF ExpireIfPending
<1> QED BY <1>3, <1>4, <1>5, <1>6 DEF LockApprove, LockReject, Undecidable, SelfApproval

\* The status, and with an approve or reject decision the row, of a locked request.
LEMMA DecideStep ==
  ASSUME IInv, NEW w \in Workers, Approve(w) \/ Reject(w)
  PROVE  Others'
<1> USE DEF IInv, rows, HoldsApproval, HoldsToken, Finish, NoRequest
<1> /\ pc \in [Workers -> Points] /\ req \in [Workers -> Requests]
    /\ approval \in [Approvals -> ApprovalRows] /\ decisions \subseteq Decisions
    /\ token \in [Tokens -> TokenRows]
  BY DEF TypeOK
<1> DEFINE a == req[w].approval
           u == req[w].user
           Decision(kind) == [approval |-> a, approver |-> u, kind |-> kind]
           Unminted == UNCHANGED token
           Minted == \E t \in Tokens : FreshToken(t) /\ IssueToken(t, approval[a].maker, approval[a].op, a)
           Row(s) == /\ approval'[a].status = s
                     /\ \A b \in Approvals : /\ approval'[b].maker = approval[b].maker
                                             /\ approval'[b].op = approval[b].op
                                             /\ approval'[b].policy = approval[b].policy
                                             /\ b # a => approval'[b] = approval[b]
<1>1. /\ pc[w] \in {"approve_people", "reject_locked"} /\ UNCHANGED authorised /\ Finish(w)
  BY DEF Approve, Reject
<1>2. /\ a \in Approvals /\ u \in Users /\ approval[a].status = "pending"
      /\ pc[w] = "approve_people" => u # approval[a].maker
  BY <1>1 DEF Filled, Locking
<1>3. /\ \A d \in decisions : d.approval # a
      /\ \A t \in Tokens : token[t].approval # a
      /\ approval[a].maker \in Users /\ approval[a].op \in Ops
  BY <1>2, NoneAssumption DEF DecidedOnce, Provenance, Filled
<1>4. \/ UNCHANGED <<approval, decisions, token>>
      \/ Row("blocked") /\ UNCHANGED decisions /\ Unminted
      \/ Row("rejected") /\ decisions' = decisions \cup {Decision("reject")} /\ Unminted
      \/ /\ Row("approved") /\ decisions' = decisions \cup {Decision("approve")}
         /\ u # approval[a].maker /\ (Unminted \/ Minted)
  <2>1. CASE Approve(w)
    <3>1. ASSUME approval' = [approval EXCEPT ![a].status = "blocked"] PROVE Row("blocked")
      BY <1>2, <3>1 DEF ApprovalRows
    <3>2. ASSUME approval' = [approval EXCEPT ![a] = [approval[a] EXCEPT !.status = "approved",
                                                          !.count = approval[a].count + 1]]
          PROVE  Row("approved")
      BY <1>2, <3>2 DEF ApprovalRows
    <3> QED BY <1>2, <2>1, <3>1, <3>2 DEF Approve
  <2>2. CASE Reject(w)
    <3>1. ASSUME approval' = [approval EXCEPT ![a].status = "rejected"] PROVE Row("rejected")
      BY <1>2, <3>1 DEF ApprovalRows
    <3> QED BY <2>2, <3>1 DEF Reject
  <2> QED BY <2>1, <2>2
<1>5. ASSUME Minted
      PROVE  \E t \in Tokens :
                /\ token[t].status = "none" /\ token'[t].status = "active"
                /\ token'[t].actor = approval[a].maker /\ token'[t].op = approval[a].op
                /\ token'[t].approval = a
                /\ \A q \in Tokens \ {t} : token'[q] = token[q]
  BY <1>5 DEF IssueToken, FreshToken
<1>6. Filled'
  BY <1>1, <1>2, <1>3, <1>4, <1>5 DEF Filled
<1>7. Locking'
  BY <1>1, <1>2, <1>3, <1>4, <1>5 DEF Locking, Filled
<1>8. DecidedOnce'
  <2>1. \A d \in decisions : d.approval \in Approvals \ {a}
    BY <1>3 DEF Decisions
  <2>2. CASE UNCHANGED <<approval, decisions>>
    BY <2>2 DEF DecidedOnce
  <2>4. CASE Row("blocked") /\ UNCHANGED decisions
    BY <2>1, <2>4 DEF DecidedOnce
  <2>5. ASSUME NEW kind \in {"approve", "reject"}, decisions' = decisions \cup {Decision(kind)},
               Row(IF kind = "approve" THEN "approved" ELSE "rejected")
        PROVE  DecidedOnce'
    <3> SUFFICES ASSUME NEW b \in Approvals
                 PROVE  /\ \A d1, d2 \in decisions' : d1.approval = b /\ d2.approval = b => d1 = d2
                        /\ \A d \in decisions' : d.approval = b =>
                              approval'[b].status = IF d.kind = "approve" THEN "approved" ELSE "rejected"
                        /\ approval'[b].status \in {"approved", "rejected"} =>
                              \E d \in decisions' : d.approval = b
      BY DEF DecidedOnce
    <3>1. CASE b = a
      <4>1. \A d \in decisions' : d.approval = a => d = Decision(kind)
        BY <1>3, <2>5
      <4>2. Decision(kind) \in decisions' /\ Decision(kind).approval = a
                /\ Decision(kind).kind = kind
        BY <2>5
      <4>3. approval'[a].status = IF kind = "approve" THEN "approved" ELSE "rejected"
        BY <2>5
      <4> QED BY <3>1, <4>1, <4>2, <4>3
    <3>2. CASE b # a
      <4>1. \A d \in decisions' : d.approval = b => d \in decisions
        BY <2>5, <3>2
      <4>2. approval'[b] = approval[b] /\ decisions \subseteq decisions'
        BY <2>5, <3>2
      <4> QED BY <4>1, <4>2 DEF DecidedOnce
    <3> QED BY <3>1, <3>2
  <2> QED BY <1>4, <2>2, <2>4, <2>5
<1>9. Provenance'
  <2>1. \A d \in decisions' : d.kind = "approve" => d.approver # approval'[d.approval].maker
    BY <1>2, <1>4 DEF Provenance, Decisions
  <2>2. CASE UNCHANGED token
    <3>1. \A t \in Tokens : token[t].approval # None => token[t].approval \in Approvals
      BY DEF TokenRows
    <3>2. \A t \in Tokens : token[t].approval # None =>
             approval'[token[t].approval] = approval[token[t].approval]
      BY <1>3, <1>4, <3>1
    <3> QED BY <1>1, <2>1, <2>2, <3>2 DEF Provenance
  <2>3. CASE Row("approved") /\ Minted
    <3>1. PICK t \in Tokens :
            /\ token[t].status = "none" /\ token'[t].status = "active"
            /\ token'[t].actor = approval[a].maker /\ token'[t].op = approval[a].op
            /\ token'[t].approval = a
            /\ \A q \in Tokens \ {t} : token'[q] = token[q]
      BY <1>5, <2>3
    <3>2. \A q \in Tokens \ {t} : token[q].approval # None => token[q].approval \in Approvals \ {a}
      BY <1>3 DEF TokenRows
    <3> QED BY <1>1, <1>2, <1>3, <2>1, <2>3, <3>1, <3>2 DEF Provenance
  <2> QED BY <1>4, <2>2, <2>3
<1> QED BY <1>6, <1>7, <1>8, <1>9 DEF Others

\* The token is still active under its lock, so this is its one execution.
LEMMA ConsumeStep ==
  ASSUME IInv, NEW w \in Workers, Consume(w)
  PROVE  Others'
<1> USE DEF IInv, HoldsApproval, HoldsToken, Finish, NoRequest
<1> /\ pc \in [Workers -> Points] /\ req \in [Workers -> Requests]
    /\ token \in [Tokens -> TokenRows]
    /\ authorised \in [Tokens -> [count : Nat, began : SUBSET Hindrances]]
  BY DEF TypeOK
<1> DEFINE t == req[w].token
<1>1. /\ pc[w] = "exec_proven" /\ t \in Tokens /\ token[t].status = "active"
      /\ UNCHANGED <<approval, decisions>> /\ Finish(w)
  BY DEF Consume, Filled, Locking
<1>2. /\ token' = [token EXCEPT ![t].status = "consumed"]
      /\ authorised' = [authorised EXCEPT ![t].count = @ + 1, ![t].began = @ \cup req[w].began]
  BY <1>1 DEF Consume
<1>3. \A q \in Tokens : /\ token'[q].actor = token[q].actor /\ token'[q].op = token[q].op
                        /\ token'[q].approval = token[q].approval
                        /\ token'[q].status = IF q = t THEN "consumed" ELSE token[q].status
  BY <1>1, <1>2 DEF TokenRows
<1>4. \A q \in Tokens : authorised'[q].count = IF q = t THEN authorised[q].count + 1
                                                        ELSE authorised[q].count
  BY <1>1, <1>2
<1>5. Filled'
  BY <1>1, <1>3 DEF Filled
<1>6. Locking'
  BY <1>1, <1>3 DEF Locking, Filled
<1>7. DecidedOnce'
  BY <1>1 DEF DecidedOnce
<1>8. Provenance'
  BY <1>1, <1>3, <1>4 DEF Provenance
<1> QED BY <1>5, <1>6, <1>7, <1>8 DEF Others

LEMMA SurroundingsStep ==
  ASSUME IInv, Surroundings
  PROVE  Others'
<1> USE DEF IInv
<1>1. UNCHANGED <<approval, decisions, authorised, pc, req>>
  BY SurroundingsApart
<1>2. CASE UNCHANGED token
  BY <1>1, <1>2 DEF Others, Filled, Locking, DecidedOnce, Provenance, HoldsApproval, HoldsToken
<1>3. CASE \E u \in Users, op \in Ops, t \in Tokens : FreshToken(t) /\ IssueToken(t, u, op, None)
  <2>1. PICK u \in Users, op \in Ops, t \in Tokens : FreshToken(t) /\ IssueToken(t, u, op, None)
    BY <1>3
  <2>2. /\ token[t].status = "none"
        /\ token'[t].status = "active" /\ token'[t].approval = None
        /\ token'[t].actor = u /\ token'[t].op = op
        /\ \A q \in Tokens \ {t} : token'[q] = token[q]
    BY <2>1 DEF FreshToken, IssueToken, TypeOK
  <2>3. Filled'
    BY <1>1, <2>2 DEF Filled, HoldsToken
  <2>4. Locking'
    BY <1>1, <2>2 DEF Locking, HoldsApproval, HoldsToken, Filled
  <2>5. DecidedOnce' /\ Provenance'
    BY <1>1, <2>2 DEF DecidedOnce, Provenance
  <2> QED BY <2>3, <2>4, <2>5 DEF Others
<1> QED BY <1>2, <1>3, SurroundingsApart

LEMMA InductiveStep == IInv /\ [Next]_vars => IInv'
<1> SUFFICES ASSUME IInv, [Next]_vars PROVE IInv'
  OBVIOUS
<1>1. Others'
  <2>1. CASE UNCHANGED vars
    BY <2>1 DEF vars, IInv, Others, Filled, Locking, DecidedOnce, Provenance
  <2>2. ASSUME NEW w \in Workers, Continue(w) PROVE Others'
    <3>1. CASE GuardApprove(w) \/ CheckPolicy(w) \/ CheckRoles(w) \/ CheckMaker(w)
                 \/ CheckEntitlement(w) \/ CheckProvenance(w)
      BY <3>1, QuietStep DEF GuardApprove, CheckPolicy, CheckRoles, CheckMaker, CheckEntitlement, CheckProvenance
    <3>2. CASE InsertRequest(w)
      BY <3>2, InsertStep
    <3>3. CASE LockApprove(w) \/ LockReject(w)
      BY <3>3, LockStep
    <3>4. CASE Approve(w) \/ Reject(w)
      BY <3>4, DecideStep
    <3>5. CASE Consume(w)
      BY <3>5, ConsumeStep
    <3> QED BY <2>2, <3>1, <3>2, <3>3, <3>4, <3>5 DEF Continue
  <2> QED BY <2>1, <2>2, ArriveStep, SurroundingsStep DEF Next
<1> QED BY <1>1, TypeStep DEF Others, IInv

\* The inductive invariant holds in every behaviour.
THEOREM Inductive == Spec => []IInv
  BY InductiveInit, InductiveStep, PTL DEF Spec

-----------------------------------------------------------------------------
(* What it is for.                                                         *)

\* Every variable keeps its type in every behaviour of the approval lifecycle.
THEOREM TypeCorrect == Spec => []TypeOK
  BY Inductive, PTL DEF IInv

\* Whatever checkers race for a request, one decision stands and it is the status.
THEOREM OneDecision == Spec => []DecidedOnce
  BY Inductive, PTL DEF IInv

\* An executed operation that rests on an approval was approved, as it stands, by a
\* user other than the one it was authorised for.
THEOREM FourEyes == Spec => []MakerChecker
<1>1. IInv => MakerChecker
  <2> SUFFICES ASSUME IInv, NEW t \in Tokens, Executed(t), token[t].approval # None
               PROVE  /\ approval[token[t].approval].op = token[t].op
                      /\ \E d \in decisions : /\ d.approval = token[t].approval /\ d.kind = "approve"
                                              /\ d.approver # token[t].actor
    BY DEF MakerChecker
  <2> DEFINE a == token[t].approval
  <2>1. /\ a \in Approvals /\ approval[a].status = "approved"
        /\ approval[a].op = token[t].op /\ approval[a].maker = token[t].actor
    BY DEF IInv, TypeOK, TokenRows, Provenance
  <2>2. PICK d \in decisions : d.approval = a
    BY <2>1 DEF IInv, DecidedOnce
  <2>3. d.kind = "approve"
    BY <2>1, <2>2 DEF IInv, DecidedOnce
  <2>4. d.approver # token[t].actor
    BY <2>1, <2>2, <2>3 DEF IInv, Provenance
  <2> QED BY <2>1, <2>2, <2>3, <2>4
<1> QED BY <1>1, Inductive, PTL

\* One approval lets its operation be executed once.
THEOREM SingleUse == Spec => []ExecutedOnce
<1>1. IInv => ExecutedOnce
  BY DEF IInv, TypeOK, Provenance, ExecutedOnce, Executed
<1> QED BY <1>1, Inductive, PTL

-----------------------------------------------------------------------------
(* Refinement: every step of a handler, and of what changes around the     *)
(* handlers, is a step of DualControl or leaves what DualControl sees as   *)
(* it is.                                                                  *)

State == [a \in Approvals |-> AbstractState(a)]
Maker == [a \in Approvals |-> approval[a].maker]
Checker == [a \in Approvals |-> CheckerOf(a)]
Done == {a \in Approvals : \E t \in Tokens : token[t].approval = a /\ Executed(t)}

-----------------------------------------------------------------------------
(* What the mapping sees.                                                  *)

\* The checker recorded for a request is that of its one approve decision.
LEMMA CheckerChosen ==
  ASSUME NEW a, NEW D, NEW d \in D, d.approval = a, d.kind = "approve",
         \A e \in D : e.approval = a => e = d
  PROVE  (CHOOSE e \in D : e.approval = a /\ e.kind = "approve") = d
<1> DEFINE c == CHOOSE e \in D : e.approval = a /\ e.kind = "approve"
<1>1. c \in D /\ c.approval = a /\ c.kind = "approve"
  OBVIOUS
<1> QED BY <1>1

LEMMA CheckerKept ==
  ASSUME IInv, IInv', NEW a \in Approvals,
         \A d \in Decisions : d.approval = a => (d \in decisions <=> d \in decisions')
  PROVE  CheckerOf(a)' = CheckerOf(a)
<1>1. decisions \subseteq Decisions /\ decisions' \subseteq Decisions
  BY DEF IInv, TypeOK
<1>2. CASE \E d \in decisions : d.approval = a /\ d.kind = "approve"
  <2>1. PICK d \in decisions : d.approval = a /\ d.kind = "approve"
    BY <1>2
  <2>2. d \in decisions'
    BY <1>1, <2>1
  <2>3. (\A e \in decisions : e.approval = a => e = d) /\ (\A e \in decisions' : e.approval = a => e = d)
    BY <2>1, <2>2 DEF IInv, DecidedOnce
  <2>4. CheckerOf(a) = d.approver
    BY <2>1, <2>3, CheckerChosen DEF CheckerOf
  <2>5. CheckerOf(a)' = d.approver
    BY <2>1, <2>2, <2>3, CheckerChosen DEF CheckerOf
  <2> QED BY <2>4, <2>5
<1>3. CASE ~ \E d \in decisions : d.approval = a /\ d.kind = "approve"
  BY <1>1, <1>3 DEF CheckerOf
<1> QED BY <1>2, <1>3

\* What was carried out stays the same when no token with an execution changes its approval.
LEMMA DoneKept ==
  ASSUME UNCHANGED authorised,
         \A t \in Tokens : token'[t].approval = token[t].approval \/ authorised[t].count = 0
  PROVE  Done' = Done
  BY DEF Done, Executed

-----------------------------------------------------------------------------
(* What the steps are.                                                     *)

Still ==
  /\ UNCHANGED <<approval, decisions, authorised>>
  /\ \A t \in Tokens : token'[t].approval = token[t].approval \/ authorised[t].count = 0

Writing(w) == InsertRequest(w) \/ LockApprove(w) \/ LockReject(w) \/ Approve(w) \/ Reject(w) \/ Consume(w)

LEMMA Steps ==
  ASSUME IInv, [Next]_vars
  PROVE  Still \/ \E w \in Workers : Writing(w)
<1> USE DEF rows
<1>0. token \in [Tokens -> TokenRows]
  BY DEF IInv, TypeOK
<1>1. CASE UNCHANGED vars
  BY <1>1 DEF vars, Still
<1>2. ASSUME NEW w \in Workers, Continue(w) PROVE Still \/ Writing(w)
  BY <1>2 DEF Continue, Writing, Still, GuardApprove, CheckPolicy, CheckRoles, CheckMaker,
              CheckEntitlement, CheckProvenance
<1>3. ASSUME NEW w \in Workers, Arrive(w) PROVE Still
  <2>1. /\ UNCHANGED <<approval, decisions, authorised>>
        /\ UNCHANGED token \/ \E t \in Tokens : token' = [token EXCEPT ![t].status = "revoked"]
    BY <1>3 DEF Arrive, BeginCreate, VerifyStepUp, GuardReject, CheckToken
  <2>2. \A t \in Tokens : token'[t].approval = token[t].approval
    BY <1>0, <2>1 DEF TokenRows
  <2> QED BY <2>1, <2>2 DEF Still
<1>4. CASE Surroundings
  <2>1. CASE UNCHANGED token
    BY <1>4, <2>1, SurroundingsApart DEF Still
  <2>2. CASE \E u \in Users, op \in Ops, t \in Tokens : FreshToken(t) /\ IssueToken(t, u, op, None)
    <3>1. PICK u \in Users, op \in Ops, t \in Tokens : FreshToken(t) /\ IssueToken(t, u, op, None)
      BY <2>2
    <3>2. authorised[t].count = 0
      BY <3>1 DEF FreshToken, IInv, Provenance
    <3>3. \A q \in Tokens \ {t} : token'[q] = token[q]
      BY <1>0, <3>1 DEF IssueToken
    <3> QED BY <1>4, <3>2, <3>3, SurroundingsApart DEF Still
  <2> QED BY <1>4, <2>1, <2>2, SurroundingsApart
<1> QED BY <1>1, <1>2, <1>3, <1>4 DEF Next

-----------------------------------------------------------------------------
(* Each is a step of DualControl.                                          *)

DualStep == [Dual!Next]_(Dual!vars)

\* A step that leaves the rows of all requests but one alone.
LEMMA OnlyOne ==
  ASSUME IInv, IInv', NEW a \in Approvals,
         \A b \in Approvals \ {a} : approval'[b] = approval[b],
         \A d \in Decisions : d.approval # a => (d \in decisions <=> d \in decisions')
  PROVE  \A b \in Approvals \ {a} : /\ AbstractState(b)' = AbstractState(b)
                                    /\ CheckerOf(b)' = CheckerOf(b)
  BY CheckerKept DEF AbstractState

LEMMA StillStep ==
  ASSUME IInv, IInv', Still
  PROVE  DualStep
<1>1. Done' = Done
  BY DoneKept DEF Still
<1>2. \A a \in Approvals : CheckerOf(a)' = CheckerOf(a)
  BY CheckerKept DEF Still
<1>3. State' = State /\ Maker' = Maker /\ Checker' = Checker
  BY <1>2 DEF Still, State, Maker, Checker, AbstractState
<1> QED BY <1>1, <1>3 DEF DualStep, Dual!vars, State, Maker, Checker, Done

LEMMA SubmitStep ==
  ASSUME IInv, IInv', NEW w \in Workers, InsertRequest(w)
  PROVE  DualStep
<1> USE DEF rows
<1>0. approval \in [Approvals -> ApprovalRows] /\ decisions \subseteq Decisions
  BY DEF IInv, TypeOK
<1>1. PICK a \in Approvals :
        /\ approval[a].status = "none"
        /\ approval' = [approval EXCEPT ![a] =
                           [status |-> "pending", maker |-> req[w].user, op |-> req[w].op,
                            hashed |-> req[w].hashed, policy |-> req[w].policy, count |-> 0]]
  BY DEF InsertRequest
<1>2. UNCHANGED <<decisions, token, authorised>> /\ req[w].user \in Users
  BY DEF InsertRequest, IInv, Filled, HoldsToken
<1>3. /\ approval'[a].status = "pending" /\ approval'[a].maker = req[w].user
      /\ \A b \in Approvals \ {a} : approval'[b] = approval[b]
  BY <1>0, <1>1
<1>4. /\ AbstractState(a) = "none" /\ AbstractState(a)' = "pending"
      /\ \A b \in Approvals \ {a} : AbstractState(b)' = AbstractState(b)
  BY <1>1, <1>3 DEF AbstractState
<1>5. \A b \in Approvals : CheckerOf(b)' = CheckerOf(b)
  BY <1>2, CheckerKept
<1>6. State[a] = "none" /\ State' = [State EXCEPT ![a] = "pending"]
  BY <1>4 DEF State
<1>7. Maker' = [Maker EXCEPT ![a] = req[w].user]
  BY <1>3 DEF Maker
<1>8. Checker' = Checker /\ Done' = Done
  BY <1>2, <1>5, DoneKept DEF Checker
<1>9. Dual!Submit(a)
  BY <1>2, <1>6, <1>7, <1>8 DEF Dual!Submit, State, Maker, Checker, Done
<1> QED BY <1>9 DEF DualStep, Dual!Next

\* Rejected, withdrawn, expired or blocked.
LEMMA RefuseStep ==
  ASSUME IInv, IInv', NEW a \in Approvals, approval[a].status = "pending",
         approval'[a].status \in {"rejected", "expired", "blocked"},
         approval'[a].maker = approval[a].maker,
         \A b \in Approvals \ {a} : approval'[b] = approval[b],
         \A d \in Decisions : d.approval # a => (d \in decisions <=> d \in decisions'),
         \A d \in decisions' : d.approval = a => d.kind = "reject",
         UNCHANGED <<token, authorised>>
  PROVE  DualStep
<1>1. \A b \in Approvals \ {a} : AbstractState(b)' = AbstractState(b) /\ CheckerOf(b)' = CheckerOf(b)
  BY OnlyOne
<1>2. AbstractState(a) = "pending" /\ AbstractState(a)' = "refused"
  BY DEF AbstractState
<1>3. CheckerOf(a) = None /\ CheckerOf(a)' = None
  BY DEF CheckerOf, IInv, DecidedOnce
<1>4. State[a] = "pending" /\ State' = [State EXCEPT ![a] = "refused"]
  BY <1>1, <1>2 DEF State
<1>5. Maker' = Maker /\ Checker' = Checker /\ Done' = Done
  BY <1>1, <1>3, DoneKept DEF Maker, Checker
<1>6. Dual!Refuse(a)
  BY <1>4, <1>5 DEF Dual!Refuse, State, Maker, Checker, Done
<1> QED BY <1>6 DEF DualStep, Dual!Next

LEMMA ApproveStep ==
  ASSUME IInv, IInv', NEW a \in Approvals, NEW u \in Users, approval[a].status = "pending",
         approval'[a].status = "approved", approval'[a].maker = approval[a].maker,
         u # approval[a].maker,
         \A b \in Approvals \ {a} : approval'[b] = approval[b],
         decisions' = decisions \cup {[approval |-> a, approver |-> u, kind |-> "approve"]},
         UNCHANGED authorised,
         UNCHANGED token \/ \E t \in Tokens : FreshToken(t) /\ \A q \in Tokens \ {t} : token'[q] = token[q]
  PROVE  DualStep
<1> DEFINE d == [approval |-> a, approver |-> u, kind |-> "approve"]
<1>1. \A b \in Approvals \ {a} : AbstractState(b)' = AbstractState(b) /\ CheckerOf(b)' = CheckerOf(b)
  BY OnlyOne
<1>2. AbstractState(a) = "pending" /\ AbstractState(a)' = "approved"
  BY DEF AbstractState
<1>3. CheckerOf(a)' = u
  <2>1. \A e \in decisions' : e.approval = a => e = d
    BY DEF IInv, DecidedOnce
  <2>2. d \in decisions' /\ d.approval = a /\ d.kind = "approve" /\ d.approver = u
    OBVIOUS
  <2>3. (CHOOSE e \in decisions' : e.approval = a /\ e.kind = "approve") = d
    BY <2>1, <2>2, CheckerChosen
  <2> QED BY <2>2, <2>3 DEF CheckerOf
<1>4. \A t \in Tokens : token'[t].approval = token[t].approval \/ authorised[t].count = 0
  BY DEF FreshToken, IInv, Provenance
<1>5. State[a] = "pending" /\ State' = [State EXCEPT ![a] = "approved"]
  BY <1>1, <1>2 DEF State
<1>6. Maker' = Maker /\ Done' = Done /\ Maker[a] = approval[a].maker
  BY <1>4, DoneKept DEF Maker
<1>7. Checker' = [Checker EXCEPT ![a] = u]
  BY <1>1, <1>3 DEF Checker
<1>8. Dual!Approve(a)
  BY <1>5, <1>6, <1>7 DEF Dual!Approve, State, Maker, Checker, Done
<1> QED BY <1>8 DEF DualStep, Dual!Next

\* An execution of a token without an approval is none of DualControl's business.
LEMMA CarryOutStep ==
  ASSUME IInv, IInv', NEW w \in Workers, Consume(w)
  PROVE  DualStep
<1> DEFINE t == req[w].token
           a == token[t].approval
<1>1. /\ t \in Tokens /\ token[t].status = "active" /\ UNCHANGED <<approval, decisions>>
      /\ token' = [token EXCEPT ![t].status = "consumed"]
      /\ authorised' = [authorised EXCEPT ![t].count = @ + 1, ![t].began = @ \cup req[w].began]
  BY DEF Consume, IInv, Filled, Locking, HoldsToken
<1>2. /\ token \in [Tokens -> TokenRows] /\ token' \in [Tokens -> TokenRows]
      /\ authorised \in [Tokens -> [count : Nat, began : SUBSET Hindrances]]
  BY DEF IInv, TypeOK
<1>3. /\ \A q \in Tokens : token'[q].approval = token[q].approval
      /\ authorised[t].count = 0 /\ authorised'[t].count = 1
      /\ \A q \in Tokens \ {t} : authorised'[q] = authorised[q]
  <2>1. \A q \in Tokens : token'[q].approval = token[q].approval
    BY <1>1, <1>2 DEF TokenRows
  <2>2. authorised[t].count = 0
    BY <1>1 DEF IInv, Provenance
  <2>3. authorised'[t].count = authorised[t].count + 1 /\ \A q \in Tokens \ {t} : authorised'[q] = authorised[q]
    BY <1>1, <1>2
  <2> QED BY <2>1, <2>2, <2>3
<1>4. State' = State /\ Maker' = Maker /\ Checker' = Checker
  <2>1. \A b \in Approvals : CheckerOf(b)' = CheckerOf(b)
    BY <1>1, CheckerKept
  <2> QED BY <1>1, <2>1 DEF State, Maker, Checker, AbstractState
<1>5. CASE a = None
  <2>1. Done' = Done
    BY <1>3, <1>5, NoneAssumption DEF Done, Executed
  <2> QED BY <1>4, <2>1 DEF DualStep, Dual!vars, State, Maker, Checker, Done
<1>6. CASE a # None
  <2>1. PICK b \in Approvals : b = a
    BY <1>1, <1>2, <1>6 DEF TokenRows
  <2>2. State[b] = "approved"
    BY <1>1, <1>6, <2>1 DEF State, AbstractState, IInv, Provenance
  <2>3. b \notin Done
    <3>1. \A q \in Tokens : token[q].approval = b => q = t
      BY <1>1, <1>6, <2>1 DEF IInv, Provenance
    <3> QED BY <1>3, <3>1 DEF Done, Executed
  <2>4. Done' = Done \cup {b}
    <3>1. \A q \in Tokens : Executed(q)' <=> q = t \/ Executed(q)
      BY <1>3 DEF Executed
    <3>2. Done' = {c \in Approvals : \E q \in Tokens : token[q].approval = c /\ Executed(q)'}
      BY <1>3 DEF Done
    <3>3. ASSUME NEW c \in Approvals PROVE c \in Done' <=> c \in Done \cup {b}
      BY <1>1, <2>1, <3>1, <3>2 DEF Done
    <3>4. Done' \subseteq Approvals /\ Done \cup {b} \subseteq Approvals
      BY <3>2 DEF Done
    <3> QED BY <3>3, <3>4
  <2>5. Dual!CarryOut(b)
    BY <1>4, <2>2, <2>3, <2>4 DEF Dual!CarryOut, State, Maker, Checker, Done
  <2> QED BY <2>5 DEF DualStep, Dual!Next
<1> QED BY <1>5, <1>6

-----------------------------------------------------------------------------
(* The steps of the two decisions, and the whole.                          *)

LEMMA LockIsDual ==
  ASSUME IInv, IInv', NEW w \in Workers, LockApprove(w) \/ LockReject(w)
  PROVE  DualStep
<1> DEFINE a == req[w].approval
<1>1. /\ a \in Approvals /\ UNCHANGED <<decisions, token, authorised>>
      /\ UNCHANGED approval \/ ExpireIfPending(a)
  BY DEF LockApprove, LockReject, IInv, Filled, HoldsToken
<1>2. CASE UNCHANGED approval
  BY <1>1, <1>2, StillStep DEF Still
<1>3. CASE approval[a].status = "pending" /\ approval' = [approval EXCEPT ![a].status = "expired"]
  <2>1. /\ approval'[a].status = "expired" /\ approval'[a].maker = approval[a].maker
        /\ \A b \in Approvals \ {a} : approval'[b] = approval[b]
    BY <1>1, <1>3 DEF IInv, TypeOK, ApprovalRows
  <2>2. \A d \in decisions' : d.approval = a => d.kind = "reject"
    BY <1>1, <1>3 DEF IInv, DecidedOnce
  <2> QED BY <1>1, <1>3, <2>1, <2>2, RefuseStep
<1> QED BY <1>1, <1>2, <1>3 DEF ExpireIfPending

LEMMA DecisionIsDual ==
  ASSUME IInv, IInv', NEW w \in Workers, Approve(w) \/ Reject(w)
  PROVE  DualStep
<1> DEFINE a == req[w].approval
           u == req[w].user
           Row(s) == /\ approval'[a].status = s /\ approval'[a].maker = approval[a].maker
                     /\ \A b \in Approvals \ {a} : approval'[b] = approval[b]
<1>0. pc[w] \in {"approve_people", "reject_locked"} /\ UNCHANGED authorised
  BY DEF Approve, Reject
<1>1. /\ a \in Approvals /\ u \in Users /\ approval[a].status = "pending"
      /\ approval \in [Approvals -> ApprovalRows] /\ token \in [Tokens -> TokenRows]
      /\ \A d \in decisions : d.approval # a
      /\ UNCHANGED authorised
  <2>1. a \in Approvals /\ u \in Users /\ approval[a].status = "pending"
    BY <1>0 DEF IInv, Filled, Locking, HoldsApproval, HoldsToken
  <2>2. \A d \in decisions : d.approval # a
    BY <2>1 DEF IInv, DecidedOnce
  <2> QED BY <1>0, <2>1, <2>2 DEF IInv, TypeOK
<1>2. CASE UNCHANGED <<approval, decisions, token>>
  BY <1>1, <1>2, StillStep DEF Still
<1>3. CASE Approve(w) /\ approval' = [approval EXCEPT ![a].status = "blocked"]
                      /\ UNCHANGED <<decisions, token>>
  <2>1. Row("blocked")
    BY <1>1, <1>3 DEF ApprovalRows
  <2> QED BY <1>1, <1>3, <2>1, RefuseStep
<1>4. CASE /\ Reject(w) /\ approval' = [approval EXCEPT ![a].status = "rejected"] /\ UNCHANGED token
           /\ decisions' = decisions \cup {[approval |-> a, approver |-> u, kind |-> "reject"]}
  <2>1. Row("rejected")
    BY <1>1, <1>4 DEF ApprovalRows
  <2>2. /\ \A d \in decisions' : d.approval = a => d.kind = "reject"
        /\ \A d \in Decisions : d.approval # a => (d \in decisions <=> d \in decisions')
    BY <1>1, <1>4
  <2> QED BY <1>1, <1>4, <2>1, <2>2, RefuseStep
<1>5. CASE /\ Approve(w)
           /\ approval' = [approval EXCEPT ![a] = [approval[a] EXCEPT !.status = "approved",
                                                      !.count = approval[a].count + 1]]
           /\ decisions' = decisions \cup {[approval |-> a, approver |-> u, kind |-> "approve"]}
           /\ \/ UNCHANGED token
              \/ \E t \in Tokens : FreshToken(t) /\ IssueToken(t, approval[a].maker, approval[a].op, a)
  <2>1. Row("approved")
    BY <1>1, <1>5 DEF ApprovalRows
  <2>2. u # approval[a].maker
    BY <1>5 DEF Approve, IInv, Locking, HoldsApproval
  <2>3. UNCHANGED token \/ \E t \in Tokens : FreshToken(t) /\ \A q \in Tokens \ {t} : token'[q] = token[q]
    BY <1>1, <1>5 DEF IssueToken
  <2> QED BY <1>1, <1>5, <2>1, <2>2, <2>3, ApproveStep
<1> QED BY <1>2, <1>3, <1>4, <1>5 DEF Approve, Reject

\* Whatever runs concurrently, requests, decisions and redemptions are those of DualControl.
THEOREM Refinement == Spec => DualControlled
<1>1. Init => Dual!Init
  BY NoneAssumption DEF Init, Dual!Init, AbstractState, CheckerOf, NoApproval, Executed
<1>2. IInv /\ IInv' /\ [Next]_vars => DualStep
  <2> SUFFICES ASSUME IInv, IInv', [Next]_vars PROVE DualStep
    OBVIOUS
  <2>1. ASSUME NEW w \in Workers, Writing(w) PROVE DualStep
    BY <2>1, SubmitStep, LockIsDual, DecisionIsDual, CarryOutStep DEF Writing
  <2> QED BY <2>1, Steps, StillStep
<1> QED BY <1>1, <1>2, Inductive, PTL DEF Spec, DualControlled, Dual!Spec, DualStep

-----------------------------------------------------------------------------
(* Authority: what is decided or spent stays so, and no execution begins   *)
(* on withdrawn authority.  The second rests on the first: what stood      *)
(* against an execution when it began still stands when the checks behind  *)
(* it are made.                                                            *)

RowsFinal ==
  \A a \in Approvals :
     /\ approval[a].status \in Final => approval'[a] = approval[a]
     /\ approval[a].status = "pending" =>
          /\ approval'[a].status # "none"
          /\ <<approval'[a].maker, approval'[a].op, approval'[a].policy>>
                 = <<approval[a].maker, approval[a].op, approval[a].policy>>
TokensFinal ==
  \A t \in Tokens :
     /\ token[t].status \in {"consumed", "revoked"} => token'[t] = token[t]
     /\ token[t].status # "none" =>
          /\ token'[t].status # "none"
          /\ [token'[t] EXCEPT !.status = "none"] = [token[t] EXCEPT !.status = "none"]

-----------------------------------------------------------------------------
(* Decided requests and spent tokens.                                      *)

\* A request that is not yet final moves on, and keeps what it is bound to.
LEMMA RowMoves ==
  ASSUME IInv, NEW a \in Approvals, approval[a].status = "pending",
         NEW s \in Statuses \ {"none"}, NEW n,
         approval' = [approval EXCEPT ![a] = [approval[a] EXCEPT !.status = s, !.count = n]]
             \/ approval' = [approval EXCEPT ![a].status = s]
  PROVE  RowsFinal
<1>1. approval \in [Approvals -> ApprovalRows]
  BY DEF IInv, TypeOK
<1>2. /\ approval'[a].status = s /\ approval'[a].maker = approval[a].maker
      /\ approval'[a].op = approval[a].op /\ approval'[a].policy = approval[a].policy
      /\ \A b \in Approvals \ {a} : approval'[b] = approval[b]
  BY <1>1 DEF ApprovalRows
<1> QED BY <1>2 DEF RowsFinal, Final

\* An active token is spent, and keeps what it is bound to.
LEMMA TokenMoves ==
  ASSUME IInv, NEW t \in Tokens, token[t].status = "active",
         NEW s \in {"consumed", "revoked"}, token' = [token EXCEPT ![t].status = s]
  PROVE  TokensFinal
<1>1. token \in [Tokens -> TokenRows]
  BY DEF IInv, TypeOK
<1>2. /\ token'[t].status = s /\ token'[t] = [token[t] EXCEPT !.status = s]
      /\ \A q \in Tokens \ {t} : token'[q] = token[q]
  BY <1>1 DEF TokenRows
<1>3. [token'[t] EXCEPT !.status = "none"] = [token[t] EXCEPT !.status = "none"]
  BY <1>1, <1>2 DEF TokenRows
<1> QED BY <1>2, <1>3 DEF TokensFinal

LEMMA TokenMinted ==
  ASSUME IInv, NEW t \in Tokens, NEW u, NEW op, NEW a, FreshToken(t), IssueToken(t, u, op, a)
  PROVE  TokensFinal
<1>1. token[t].status = "none" /\ \A q \in Tokens \ {t} : token'[q] = token[q]
  BY DEF FreshToken, IssueToken, IInv, TypeOK
<1> QED BY <1>1 DEF TokensFinal

LEMMA RowsKept == UNCHANGED approval => RowsFinal
  BY DEF RowsFinal, Final

LEMMA TokensKept == UNCHANGED token => TokensFinal
  BY DEF TokensFinal

LEMMA FinalStep ==
  ASSUME IInv, [Next]_vars
  PROVE  RowsFinal /\ TokensFinal
<1> USE RowsKept, TokensKept DEF rows
<1>1. CASE UNCHANGED vars
  BY <1>1 DEF vars
<1>2. ASSUME NEW w \in Workers, Continue(w) PROVE RowsFinal /\ TokensFinal
  <2> DEFINE a == req[w].approval
             t == req[w].token
  <2>1. CASE GuardApprove(w) \/ CheckPolicy(w) \/ CheckRoles(w) \/ CheckMaker(w)
             \/ CheckEntitlement(w) \/ CheckProvenance(w)
    BY <2>1 DEF GuardApprove, CheckPolicy, CheckRoles, CheckMaker, CheckEntitlement, CheckProvenance
  <2>2. CASE InsertRequest(w)
    <3>1. PICK b \in Approvals : /\ approval[b].status = "none"
                                 /\ \A c \in Approvals \ {b} : approval'[c] = approval[c]
      BY <2>2 DEF InsertRequest, IInv, TypeOK
    <3> QED BY <2>2, <3>1 DEF InsertRequest, RowsFinal, Final
  <2>3. CASE LockApprove(w) \/ LockReject(w)
    <3>1. a \in Approvals /\ UNCHANGED token /\ (UNCHANGED approval \/ ExpireIfPending(a))
      BY <2>3 DEF LockApprove, LockReject, IInv, Filled, HoldsToken
    <3>2. CASE approval[a].status = "pending" /\ approval' = [approval EXCEPT ![a].status = "expired"]
      BY <3>1, <3>2, RowMoves DEF Statuses
    <3> QED BY <3>1, <3>2 DEF ExpireIfPending
  <2>4. CASE Approve(w) \/ Reject(w)
    <3>1. pc[w] \in {"approve_people", "reject_locked"}
      BY <2>4 DEF Approve, Reject
    <3>2. a \in Approvals /\ approval[a].status = "pending" /\ approval[a].count \in Nat
      BY <3>1 DEF IInv, TypeOK, ApprovalRows, Filled, Locking, HoldsApproval, HoldsToken
    <3>3. \/ UNCHANGED approval
          \/ \E s \in Statuses \ {"none"} : approval' = [approval EXCEPT ![a].status = s]
          \/ approval' = [approval EXCEPT ![a] = [approval[a] EXCEPT !.status = "approved",
                                                                   !.count = approval[a].count + 1]]
      <4>1. CASE Approve(w)
        BY <4>1 DEF Approve, Statuses
      <4>2. CASE Reject(w)
        BY <4>2 DEF Reject, Statuses
      <4> QED BY <2>4, <4>1, <4>2
    <3>4. RowsFinal
      <4>1. CASE \E s \in Statuses \ {"none"} : approval' = [approval EXCEPT ![a].status = s]
        BY <3>2, <4>1, RowMoves
      <4>2. CASE approval' = [approval EXCEPT ![a] = [approval[a] EXCEPT !.status = "approved",
                                                                       !.count = approval[a].count + 1]]
        <5>1. "approved" \in Statuses \ {"none"}
          BY DEF Statuses
        <5> QED BY <3>2, <4>2, <5>1, RowMoves
      <4> QED BY <3>3, <4>1, <4>2
    <3>5. \/ UNCHANGED token
          \/ \E q \in Tokens : FreshToken(q) /\ IssueToken(q, approval[a].maker, approval[a].op, a)
      BY <2>4 DEF Approve, Reject
    <3>6. TokensFinal
      BY <3>5, TokenMinted
    <3> QED BY <3>4, <3>6
  <2>5. CASE Consume(w)
    <3>1. t \in Tokens /\ token[t].status = "active"
      BY <2>5 DEF Consume, IInv, Filled, Locking, HoldsToken
    <3>2. UNCHANGED approval /\ token' = [token EXCEPT ![t].status = "consumed"]
      BY <2>5, <3>1 DEF Consume
    <3> QED BY <3>1, <3>2, TokenMoves
  <2> QED BY <1>2, <2>1, <2>2, <2>3, <2>4, <2>5 DEF Continue
<1>3. ASSUME NEW w \in Workers, Arrive(w) PROVE RowsFinal /\ TokensFinal
  <2>1. /\ UNCHANGED approval
        /\ \/ UNCHANGED token
           \/ \E t \in Tokens : token[t].status = "active" /\ token' = [token EXCEPT ![t].status = "revoked"]
    BY <1>3 DEF Arrive, BeginCreate, VerifyStepUp, GuardReject, CheckToken
  <2> QED BY <2>1, TokenMoves
<1>4. CASE Surroundings
  BY <1>4, SurroundingsApart, TokenMinted
<1> QED BY <1>1, <1>2, <1>3, <1>4 DEF Next

\* A decided, blocked or expired request and a spent token never come back, and nothing is
\* bound to anything else than at first.
THEOREM DecidedForGood == Spec => FinalRows
<1>1. IInv /\ [Next]_vars => [RowsFinal /\ TokensFinal]_vars
  BY FinalStep
<1> QED BY <1>1, Inductive, PTL DEF Spec, FinalRows, RowsFinal, TokensFinal

-----------------------------------------------------------------------------
(* Withdrawn authority.                                                    *)

\* What stood against a request when it began still does, unless the checks it has passed
\* rule it out.
Unhindered ==
  /\ \A w \in Workers, t \in Tokens : pc[w] \in HoldsToken /\ req[w].token = t =>
        /\ req[w].began \subseteq StandsAgainst(t)
        /\ pc[w] \in {"exec_entitled", "exec_proven"} => "denied" \notin req[w].began
        /\ pc[w] = "exec_proven" => req[w].began = {}
  /\ \A t \in Tokens : authorised[t].began = {}

\* A revocation, a deny and an approval requirement are not taken back.
LEMMA WithdrawalStands ==
  ASSUME IInv, [Next]_vars
  PROVE  /\ \A p \in Policies : policyStatus[p] = "revoked" => policyStatus'[p] = "revoked"
         /\ gated => gated'
         /\ denied \subseteq denied'
<1>1. policyStatus \in [Policies -> {"absent", "active", "inactive", "revoked"}]
  BY DEF IInv, TypeOK
<1>2. CASE UNCHANGED vars
  BY <1>2 DEF vars
<1>3. ASSUME NEW w \in Workers, Arrive(w) PROVE UNCHANGED admin
  BY <1>3 DEF Arrive, BeginCreate, VerifyStepUp, GuardReject, CheckToken
<1>4. ASSUME NEW w \in Workers, Continue(w) PROVE UNCHANGED admin
  BY <1>4 DEF Continue, InsertRequest, GuardApprove, LockApprove, CheckPolicy, CheckRoles, CheckMaker, Approve,
              LockReject, Reject, CheckEntitlement, CheckProvenance, Consume
<1>5. CASE Surroundings
  <2>1. ASSUME NEW p \in Policies, NEW s, SetPolicyStatus(p, s)
        PROVE  /\ \A q \in Policies : policyStatus[q] = "revoked" => policyStatus'[q] = "revoked"
               /\ UNCHANGED <<gated, denied>>
    BY <1>1, <2>1 DEF SetPolicyStatus
  <2>2. ASSUME NEW us, NEW p, Deny(us, p)
        PROVE  denied \subseteq denied' /\ UNCHANGED <<gated, policyStatus>>
    BY <2>2 DEF Deny
  <2>3. CASE GatePermission
    BY <2>3 DEF GatePermission
  <2>4. CASE UNCHANGED <<policyStatus, gated, denied>>
    BY <2>4
  <2>5. ASSUME NEW u \in Users, NEW op, PermissionCheck(u, op) PROVE UNCHANGED admin
    BY <2>5 DEF PermissionCheck
  <2> QED BY <1>5, <2>1, <2>2, <2>3, <2>4, <2>5
          DEF Surroundings, AssignRole, RevokeRole, CompleteStepUp, AssertionLapses, Suspend,
              ApprovalLapses, TokenLapses, admin
<1> QED BY <1>2, <1>3, <1>4, <1>5 DEF Next, admin

LEMMA HindranceStands ==
  ASSUME IInv, [Next]_vars, NEW t \in Tokens, token[t].status = "active"
  PROVE  StandsAgainst(t) \subseteq StandsAgainst(t)'
<1>1. token \in [Tokens -> TokenRows] /\ token' \in [Tokens -> TokenRows]
  BY InductiveStep DEF IInv, TypeOK
<1>2. [token'[t] EXCEPT !.status = "none"] = [token[t] EXCEPT !.status = "none"]
  BY FinalStep DEF TokensFinal
<1>3. token'[t].actor = token[t].actor /\ token'[t].approval = token[t].approval
  BY <1>1, <1>2 DEF TokenRows
<1>4. ASSUME token[t].approval # None
      PROVE  /\ approval'[token[t].approval] = approval[token[t].approval]
             /\ approval[token[t].approval].policy \in Policies
  BY <1>1, <1>4, FinalStep DEF RowsFinal, Final, TokenRows, IInv, Provenance, Filled
<1>5. ASSUME NEW h \in StandsAgainst(t) PROVE h \in StandsAgainst(t)'
  <2>1. h \in Hindrances
    BY DEF StandsAgainst
  <2>2. CASE h = "policy_revoked"
    BY <1>3, <1>4, <2>1, <2>2, WithdrawalStands DEF StandsAgainst
  <2>3. CASE h = "gated"
    BY <1>3, <2>1, <2>3, WithdrawalStands DEF StandsAgainst
  <2>4. CASE h = "denied"
    BY <1>3, <2>1, <2>4, WithdrawalStands DEF StandsAgainst
  <2> QED BY <2>1, <2>2, <2>3, <2>4 DEF Hindrances
<1> QED BY <1>5

\* How a worker comes to hold, and goes on holding, the lock of a token.
LEMMA HoldingSteps ==
  ASSUME IInv, [Next]_vars, NEW w \in Workers, NEW t \in Tokens,
         pc'[w] \in HoldsToken, req'[w].token = t
  PROVE  \/ pc'[w] = pc[w] /\ req'[w] = req[w]
         \/ pc'[w] = "exec_checked" /\ token[t].status = "active" /\ req'[w].began = StandsAgainst(t)
         \/ pc'[w] = "exec_entitled" /\ req'[w] = req[w] /\ CheckEntitlement(w)
         \/ pc'[w] = "exec_proven" /\ req'[w] = req[w] /\ CheckProvenance(w)
<1>0. pc \in [Workers -> Points] /\ req \in [Workers -> Requests]
  BY DEF IInv, TypeOK
<1> USE DEF HoldsToken
<1>1. CASE UNCHANGED vars
  BY <1>1 DEF vars
<1>2. CASE Surroundings
  BY <1>2, SurroundingsApart
<1>3. ASSUME Continue(w)
      PROVE  \/ pc'[w] = "exec_entitled" /\ req'[w] = req[w] /\ CheckEntitlement(w)
             \/ pc'[w] = "exec_proven" /\ req'[w] = req[w] /\ CheckProvenance(w)
  <2>1. CASE CheckEntitlement(w)
    BY <1>0, <2>1 DEF CheckEntitlement, Finish, GoTo
  <2>2. CASE CheckProvenance(w)
    BY <1>0, <2>2 DEF CheckProvenance, Finish, GoTo
  <2>3. CASE InsertRequest(w) \/ Approve(w) \/ Reject(w) \/ Consume(w)
    BY <1>0, <2>3 DEF InsertRequest, Approve, Reject, Consume, Finish
  <2>4. CASE GuardApprove(w) \/ LockApprove(w) \/ CheckPolicy(w) \/ CheckRoles(w) \/ CheckMaker(w) \/ LockReject(w)
    BY <1>0, <2>4 DEF GuardApprove, LockApprove, CheckPolicy, CheckRoles, CheckMaker, LockReject, Finish, GoTo
  <2> QED BY <1>3, <2>1, <2>2, <2>3, <2>4 DEF Continue
<1>4. ASSUME NEW v \in Workers, Continue(v), v # w PROVE pc'[w] = pc[w] /\ req'[w] = req[w]
  <2>1. Finish(v) \/ \E point \in Points : GoTo(v, point) /\ UNCHANGED req
    BY <1>4, PointsOf DEF Continue, InsertRequest, GuardApprove, LockApprove, CheckPolicy, CheckRoles, CheckMaker,
            Approve, LockReject, Reject, CheckEntitlement, CheckProvenance, Consume
  <2> QED BY <1>0, <1>4, <2>1 DEF Finish, GoTo
<1>5. ASSUME NEW v \in Workers, Arrive(v), v # w PROVE pc'[w] = pc[w] /\ req'[w] = req[w]
  <2>1. (\E point : GoTo(v, point)) \/ UNCHANGED pc
    BY <1>5 DEF Arrive, BeginCreate, VerifyStepUp, GuardReject, CheckToken
  <2>2. (\E r : req' = [req EXCEPT ![v] = r]) \/ UNCHANGED req
    BY <1>5 DEF Arrive, BeginCreate, VerifyStepUp, GuardReject, CheckToken
  <2> QED BY <1>0, <1>5, <2>1, <2>2 DEF GoTo
<1>6. ASSUME Arrive(w)
      PROVE  \/ pc'[w] = pc[w] /\ req'[w] = req[w]
             \/ pc'[w] = "exec_checked" /\ token[t].status = "active" /\ req'[w].began = StandsAgainst(t)
  <2>1. ASSUME NEW u \in Users, NEW q \in Tokens, NEW op, NEW a, CheckToken(w, q, u, op, a)
        PROVE  \/ pc'[w] = pc[w] /\ req'[w] = req[w]
               \/ pc'[w] = "exec_checked" /\ token[t].status = "active" /\ req'[w].began = StandsAgainst(t)
    <3>1. CASE UNCHANGED <<pc, req>>
      BY <3>1
    <3>2. CASE /\ pc' = [pc EXCEPT ![w] = "exec_checked"]
               /\ req' = [req EXCEPT ![w] = [NoRequest EXCEPT !.user = u, !.token = q,
                                                 !.began = StandsAgainst(q)]]
      <4>1. req'[w] = [NoRequest EXCEPT !.user = u, !.token = q, !.began = StandsAgainst(q)]
        BY <1>0, <3>2
      <4>2. ASSUME NEW s PROVE /\ [NoRequest EXCEPT !.user = u, !.token = q, !.began = s].token = q
                               /\ [NoRequest EXCEPT !.user = u, !.token = q, !.began = s].began = s
        BY DEF NoRequest
      <4>3. q = t /\ req'[w].began = StandsAgainst(q)
        BY <4>1, <4>2
      <4> QED BY <1>0, <2>1, <3>2, <4>3 DEF CheckToken
    <3> QED BY <2>1, <3>1, <3>2 DEF CheckToken, GoTo
  <2>2. ASSUME NEW u \in Users, NEW op, NEW h, BeginCreate(w, u, op, h) PROVE pc'[w] = "create_read"
    BY <1>0, <2>2 DEF BeginCreate, GoTo
  <2>3. ASSUME NEW u \in Users, NEW a, VerifyStepUp(w, u, a) \/ GuardReject(w, u, a)
        PROVE  pc'[w] \in {"approve_step_up", "reject_guarded"}
    BY <1>0, <2>3 DEF VerifyStepUp, GuardReject, GoTo
  <2> QED BY <1>6, <2>1, <2>2, <2>3 DEF Arrive
<1>7. CASE Next
  <2>1. ASSUME NEW v \in Workers, Arrive(v) \/ Continue(v), v # w PROVE pc'[w] = pc[w] /\ req'[w] = req[w]
    BY <1>4, <1>5, <2>1
  <2> QED BY <1>2, <1>3, <1>6, <1>7, <2>1 DEF Next
<1> QED BY <1>1, <1>7

\* What stood when the redemption began has been looked for since, while it still stood.
LEMMA HolderStep ==
  ASSUME IInv, Unhindered, [Next]_vars, NEW w \in Workers, NEW t \in Tokens,
         pc'[w] \in HoldsToken, req'[w].token = t
  PROVE  /\ req'[w].began \subseteq StandsAgainst(t)'
         /\ pc'[w] \in {"exec_entitled", "exec_proven"} => "denied" \notin req'[w].began
         /\ pc'[w] = "exec_proven" => req'[w].began = {}
<1>0. req \in [Workers -> Requests]
  BY DEF IInv, TypeOK
<1>1. ASSUME pc[w] \in HoldsToken, req'[w] = req[w]
      PROVE  /\ req[w].began \subseteq StandsAgainst(t)
             /\ req'[w].began \subseteq StandsAgainst(t)'
  <2>1. req[w].token = t
    BY <1>1
  <2>2. token[t].status = "active"
    BY <1>1, <2>1 DEF IInv, Locking
  <2>3. StandsAgainst(t) \subseteq StandsAgainst(t)'
    BY <2>2, HindranceStands
  <2>4. req[w].began \subseteq StandsAgainst(t)
    BY <1>1, <2>1 DEF Unhindered
  <2> QED BY <1>1, <2>3, <2>4
<1>2. CASE pc'[w] = pc[w] /\ req'[w] = req[w]
  <2>1. pc[w] \in HoldsToken /\ req[w].token = t
    BY <1>2
  <2>2. /\ pc[w] \in {"exec_entitled", "exec_proven"} => "denied" \notin req[w].began
        /\ pc[w] = "exec_proven" => req[w].began = {}
    BY <2>1 DEF Unhindered
  <2>3. req'[w].began \subseteq StandsAgainst(t)'
    BY <1>1, <1>2, <2>1
  <2> QED BY <1>2, <2>2, <2>3
<1>3. CASE pc'[w] = "exec_checked" /\ token[t].status = "active" /\ req'[w].began = StandsAgainst(t)
  <2>1. StandsAgainst(t) \subseteq StandsAgainst(t)'
    BY <1>3, HindranceStands
  <2> QED BY <1>3, <2>1
<1>4. CASE pc'[w] = "exec_entitled" /\ req'[w] = req[w] /\ CheckEntitlement(w)
  <2>1. pc[w] = "exec_checked" /\ <<token[t].actor, "act">> \notin denied
    BY <1>4 DEF CheckEntitlement, Entitled, Finish, HoldsToken, GoTo, IInv, TypeOK
  <2>2. "denied" \notin StandsAgainst(t)
    BY <2>1 DEF StandsAgainst
  <2>3. req[w].began \subseteq StandsAgainst(t) /\ req'[w].began \subseteq StandsAgainst(t)'
    BY <1>1, <1>4, <2>1 DEF HoldsToken
  <2> QED BY <1>4, <2>2, <2>3
<1>5. CASE pc'[w] = "exec_proven" /\ req'[w] = req[w] /\ CheckProvenance(w)
  <2>1. pc[w] = "exec_entitled" /\ pc[w] \in HoldsToken
    BY <1>5 DEF CheckProvenance, HoldsToken
  <2>2. IF token[t].approval = None THEN ~gated
                                    ELSE policyStatus[approval[token[t].approval].policy] # "revoked"
    BY <1>5 DEF CheckProvenance, Proven, Finish, IInv, TypeOK
  <2>3. "gated" \notin StandsAgainst(t) /\ "policy_revoked" \notin StandsAgainst(t)
    BY <2>2 DEF StandsAgainst
  <2>4. "denied" \notin req[w].began
    BY <1>5, <2>1 DEF Unhindered
  <2>5. req[w].began \subseteq StandsAgainst(t) /\ req'[w].began \subseteq StandsAgainst(t)'
    BY <1>1, <1>5, <2>1
  <2>6. req[w].began \subseteq Hindrances
    BY <1>0 DEF Requests
  <2> QED BY <1>5, <2>3, <2>4, <2>5, <2>6 DEF Hindrances
<1> QED BY <1>2, <1>3, <1>4, <1>5, HoldingSteps

LEMMA UnhinderedStep ==
  ASSUME IInv, Unhindered, [Next]_vars
  PROVE  Unhindered'
<1>1. ASSUME NEW w \in Workers, NEW t \in Tokens, pc'[w] \in HoldsToken, req'[w].token = t
      PROVE  /\ req'[w].began \subseteq StandsAgainst(t)'
             /\ pc'[w] \in {"exec_entitled", "exec_proven"} => "denied" \notin req'[w].began
             /\ pc'[w] = "exec_proven" => req'[w].began = {}
  BY <1>1, HolderStep
<1>2. ASSUME NEW t \in Tokens PROVE authorised'[t].began = {}
  <2>0. authorised \in [Tokens -> [count : Nat, began : SUBSET Hindrances]] /\ authorised[t].began = {}
    BY DEF IInv, TypeOK, Unhindered
  <2>1. CASE UNCHANGED authorised
    BY <2>0, <2>1
  <2>2. ASSUME NEW w \in Workers, Consume(w) PROVE authorised'[t].began = {}
    <3>1. req[w].token \in Tokens /\ pc[w] = "exec_proven" /\ pc[w] \in HoldsToken
      BY <2>2 DEF Consume, IInv, Filled, HoldsToken
    <3>2. req[w].began = {}
      BY <3>1 DEF Unhindered
    <3>3. UNCHANGED authorised \/ authorised' =
             [authorised EXCEPT ![req[w].token].count = @ + 1, ![req[w].token].began = @ \cup req[w].began]
      BY <2>2 DEF Consume
    <3> QED BY <2>0, <3>1, <3>2, <3>3
  <2>3. CASE Surroundings
    BY <2>1, <2>3, SurroundingsApart
  <2>4. ASSUME NEW w \in Workers, Arrive(w) PROVE UNCHANGED authorised
    BY <2>4 DEF Arrive, BeginCreate, VerifyStepUp, GuardReject, CheckToken, rows
  <2>5. ASSUME NEW w \in Workers, Continue(w), ~Consume(w) PROVE UNCHANGED authorised
    BY <2>5 DEF Continue, InsertRequest, GuardApprove, LockApprove, CheckPolicy, CheckRoles, CheckMaker, Approve,
                LockReject, Reject, CheckEntitlement, CheckProvenance, rows
  <2>6. CASE UNCHANGED vars
    BY <2>1, <2>6 DEF vars
  <2> QED BY <2>1, <2>2, <2>3, <2>4, <2>5, <2>6 DEF Next
<1> QED BY <1>1, <1>2 DEF Unhindered

\* An emergency revocation of the policy, a deny or lock on the actor, or a new approval
\* requirement that stands when an execution begins stops it.
THEOREM NoneStale == Spec => []NoStaleExecution
<1>1. Init => Unhindered
  BY DEF Init, Unhindered, HoldsToken
<1>2. IInv /\ Unhindered /\ [Next]_vars => Unhindered'
  BY UnhinderedStep
<1>3. Unhindered => NoStaleExecution
  BY DEF Unhindered, NoStaleExecution
<1> QED BY <1>1, <1>2, <1>3, Inductive, PTL DEF Spec
=============================================================================
