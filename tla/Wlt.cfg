CONSTANTS
    Dests = {d1, d2}
    Types = {"wallet"}
    Whitelisted = {d1, d2}
    Approvals = {}
    Workers = {w1, w2}
    Refs = {x1}
    Amounts = {1, 2}
    ClientLimits <- SmallLimits
    DestLimits <- NoLimits
    DayLength = 1
    Window = 2
    Ttl = 3
    AmlValidity = 3
    Validity = 4
    Cooling = 1
    Revocable = {}
    PolicyChanges = FALSE
    MaxDecisions = 3
    MaxEvidence = 1
    MaxTime = 1
    None = None
    NewDests = {1, 2}
    Challenges = {1, 2}
    Accounts = {a1, a2}
    Unhosted = {a1}
    Hosted = {}
    Keys = {k1, k2}
    MaxAttempts = 2
    Transfers = {t1}
    Sources = {s1, s2}
    SourceRisks = {r1, r2}
    Exports = {e1}
    MaxRecords = 2
    MaxWrites = 2
    VerificationResults = {"verified", "name_mismatch"}
    RiskStatuses = {"clear", "hit"}
    Lifetimes = {1, 2}
    EvidenceValidity = 2
    PayoutTtl = 1
    PayoutAmlValidity = 1
    PayoutCooling = 1
    MaxVersions = 2
    MaxIssued = 1
    Screens = {1, 2}
    Receipts = {1, 2}
    Target <- ReceiptTargets
    Foreign = {2}
    Bodies = {b1, b2}
    MaxDeaths = 1
SPECIFICATION WltSpec
SYMMETRY Alike
INVARIANTS
    LimitsRespected
    OneLive
    ApprovedIsProven
    AnswersAgree
    ExportWhole
    ReceiptsTell
PROPERTY ResultStands
CHECK_DEADLOCK FALSE
