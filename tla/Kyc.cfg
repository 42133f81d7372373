SPECIFICATION KycSpec
CONSTANTS
    CaseTypes = {"individual"}
    Parties = {p1}
    Results = {"pass", "remediation_required"}
    Pubs = {1, 2}
    Workers = {w1, w2}
    MaxCases = 2
    MaxOutcomes = 2
    MaxStragglers = 1
    MaxRevision = 1
    None = None
    Documents = {"passport"}
    Users = {u1}
    Overrides = {1, 2}
    MaxDecided = 3
SYMMETRY Alike
INVARIANT AcceptedSoundly
PROPERTIES AcceptedAsOfSending OverrideStands
CHECK_DEADLOCK FALSE
