CONSTANTS
    d1 = d1
    d2 = d2
    Dests = {d1, d2}
    Unscreenable = {d1}
    BatchSize = 2
    w1 = w1
    w2 = w2
    Workers = {w1, w2}
    Verdicts = {"clear", "hit"}
    Targets = {d2}
    Revocable = {d2}
    MaxRuns = 2
    MaxCrashes = 1
    Forget = TRUE
    None = None
SPECIFICATION FairSpec
INVARIANT RunsAccount
PROPERTIES
    RevokedFrozen
    NeverShut
CHECK_DEADLOCK FALSE
