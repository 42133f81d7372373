SPECIFICATION CltSpec
CONSTANTS
    Classes = {c1, c2}
    Outcomes = {"kyc_kyb"}
    Parties = {p1}
    Candidates = {d1}
    Requests = {1, 2}
    Kinds = {"add", "update", "remove", "open", "confirm", "dismiss", "approve"}
    Workers = {w1, w2}
    MaxVersion = 2
    Tokens = 2
    None = None
    Rows = {x1, x2}
    Changes = {1, 2, 3}
    MaxRowVersion = 3
SYMMETRY Alike
PROPERTY NoneAddedToInactive
CHECK_DEADLOCK FALSE
