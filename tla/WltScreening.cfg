SPECIFICATION FairSpec
CONSTANTS
    Screens = {1, 2}
    Receipts = {1, 2}
    Target <- MCTarget
    Foreign = {2}
    Bodies = {b1, b2}
    Workers = {w1, w2}
    MaxDeaths = 1
    None = None
PROPERTY AppliedIsProcessed
CHECK_DEADLOCK FALSE
