-------------------------- MODULE MCIam2Approval --------------------------
(***************************************************************************)
(* Iam2Approval on small instances.  A lead may do everything a maker and  *)
(* a checker may (so that self-approval is attempted), a checker decides,  *)
(* an officer manages SoD rules, which conflicts with acting.  Policy p1   *)
(* takes any checker, p2 asks for the checker role.                        *)
(***************************************************************************)
EXTENDS Iam2Approval, TLC

CONSTANTS lead, checker, officer, p1, p2, u1, u2

MCRoles == {lead, checker, officer}
MCRolePerms == (lead :> {"create", "approve", "reject", "act"})
               @@ (checker :> {"approve", "reject"})
               @@ (officer :> {"sod_manage"})
MCPolicies == {p1, p2}
MCPolicyRoles == (p1 :> {}) @@ (p2 :> {checker})
MCPolicyCount == (p1 :> 1) @@ (p2 :> 1)
MCSodRules == {<<"act", "sod_manage">>}
MCUsers == {u1, u2}
MCInitRoles == (u1 :> {lead}) @@ (u2 :> {checker})

\* One policy, for the runs about tokens.
OnePolicy == {p1}
OnePolicyRoles == p1 :> {}
OnePolicyCount == p1 :> 1

Symmetry == Permutations(Approvals) \cup Permutations(Tokens)
                \cup Permutations(Ops) \cup Permutations(Workers)
=============================================================================
