SPECIFICATION MCSpec
CONSTANTS
    Subjects <- MCSubjects
    Requests = {1, 2, 3}
    Runs = {1, 2}
    Workers <- MCWorkers
    PoolSize = 3
    BatchSize = 2
    None = None
    w1 = w1
    w2 = w2
    s1 = s1
    s2 = s2
    m1 = m1
    m2 = m2
    d1 = d1
    d2 = d2
    r1 = r1
    r2 = r2
    r3 = r3
    a = a
    b = b
    f = f
    g = g
    h = h
    l = l
    c1 = c1
    t1 = t1
    Screenings = {1, 2}
    Matches <- MCMatches
    MatchType <- Sanctions
    Decisions = {d1, d2}
    Deliveries = {1, 2}
    Events = {1, 2}
    Contents = {c1}
    Streams = {s1, s2}
    Forgery = "forged"
    MaxSeals = 1
    MaxRuns = 1
    Actors = {a, b}
    Deactivations = {r1, r2, r3}
    MaxEvents = 6
    Watched = {1, 2, 3}
    RuleScopes = {a, b}
    RuleScope <- MCScope
    Threshold = 2
    MaxRetries = 2
    Verifications = {r1}
    Seal = l
    Closures = {c1}
    MaxAlerts = 2
    ReadRows = {1, 2, 3}
    Sensitive = {2}
    PageLimit = 1
    MaxReadTime = 1
    MaxRequests = 3
    MaxMoves = 1
    Readers = {a}
    Features = {f, g, h}
    Licences = {l}
    FeatureChanges = {1, 2, 3, 4, 5, 6, 7}
    Target <- MCTarget
    To <- MCTo
    MaxApprovals = 2
    Listed = {h}
    Production = FALSE
    MaxChanges = 2
    BurstLimit = 1
    BurstWindow = 2
    SustainedLimit = 2
    SustainedWindow = 3
    Ceiling = 4
    MaxTime = 4
    MaxChecks = 5
    Keys = {a, b}
    JobCodes = {1}
    Payloads = {"critical", "low", "unowned"}
    Critical = {"critical"}
    Unowned = {"unowned"}
    MaxAudits = 3
    Tokens = {t1}
    Clients = {a, b}
SYMMETRY Alike
INVARIANTS
    RunsAccount
    FollowsReview
    ChainWhole
    MonitoringHolds
    ConfigurationHolds
    FoundationHolds
PROPERTY EndedStands
CHECK_DEADLOCK FALSE
