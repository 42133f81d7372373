CONSTANTS
    lead = lead
    checker = checker
    officer = officer
    p1 = p1
    p2 = p2
    u1 = u1
    u2 = u2
    None = None
    Users <- MCUsers
    Approvals = {a1}
    Tokens = {t1, t2}
    Ops = {o1, o2}
    Policies <- OnePolicy
    Roles <- MCRoles
    RolePerms <- MCRolePerms
    PolicyRoles <- OnePolicyRoles
    PolicyCount <- OnePolicyCount
    SodRules <- MCSodRules
    InitPolicies = {p1}
    InitGated = {FALSE}
    InitRoles <- MCInitRoles
    Workers = {w1, w2}
    Deniable = {"act"}
    MaxChanges = 1
SPECIFICATION Spec
SYMMETRY Symmetry
INVARIANTS
    MakerChecker
    ExecutedOnce
    IInv
    NoStaleExecution
CHECK_DEADLOCK FALSE
