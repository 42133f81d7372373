CONSTANTS
    Dests = {d1}
    Types = {"wallet", "fiat_payout"}
    Whitelisted = {}
    Approvals = {a1}
    Workers = {w1, w2}
    Refs = {x1, x2}
    Amounts = {1}
    ClientLimits <- OneTransfer
    DestLimits <- OneTransfer
    DayLength = 2
    Window = 3
    Ttl = 2
    AmlValidity = 2
    Validity = 2
    Cooling = 1
    Revocable = {d1}
    PolicyChanges = TRUE
    MaxDecisions = 1
    MaxEvidence = 2
    MaxTime = 3
    None = None
SPECIFICATION Spec
SYMMETRY MCSymmetry
INVARIANT OneExecution
PROPERTIES
    LiveAuthority
    WhitelistedClear
    KeepsAuthority
CHECK_DEADLOCK FALSE
