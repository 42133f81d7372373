SPECIFICATION IamSpec
CONSTANTS
    MaxSessions = 3
    MaxTokens = 3
    MaxConcurrent = 1
    Resets = {r1}
    Expiring = {1, r1}
    Workers = {w1, w2}
    None = None
    Users = {1, 2}
    Roles = {"security_admin", "tech_admin", "sod_manager", "dealer", "settler"}
    AdminRoles = {"security_admin", "tech_admin"}
    RolePerms <- SmallRolePerms
    SodPermRules <- SmallPermRules
    SodRoleRules <- SmallRoleRules
    AssignUser = "assign_user"
    SealedAdmin = 1
    Grants <- SmallGrants
    Challenges = {c1, c2}
    Factors = {1, 2}
    MaxAttempts = 2
    MaxWrong = 2
    MaxGrants = 2
    Granting = {"dealer"}
    DirectTokens = {t1}
    MaxChanges = 2
SYMMETRY Alike
INVARIANTS
    SessionsEnd
    ConflictsOnlyFromOverlap
    GuessesBounded
PROPERTY RevivesNothing
CHECK_DEADLOCK FALSE
