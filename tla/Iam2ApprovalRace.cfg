CONSTANTS
    lead = lead
    checker = checker
    officer = officer
    p1 = p1
    p2 = p2
    u1 = u1
    u2 = u2
    None = None
    Users <- MCUsers
    Approvals = {a1}
    Tokens = {t1}
    Ops = {o1}
    Policies <- MCPolicies
    Roles <- MCRoles
    RolePerms <- MCRolePerms
    PolicyRoles <- MCPolicyRoles
    PolicyCount <- MCPolicyCount
    SodRules <- MCSodRules
    InitPolicies = {p1, p2}
    InitGated = {TRUE}
    InitRoles <- MCInitRoles
    Workers = {w1, w2}
    Deniable = {"create", "approve", "reject", "act"}
    MaxChanges = 2
SPECIFICATION Spec
SYMMETRY Symmetry
INVARIANT DecidedOnce
PROPERTIES
    FinalRows
    DualControlled
CHECK_DEADLOCK FALSE
