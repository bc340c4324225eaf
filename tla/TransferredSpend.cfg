SPECIFICATION Spec
CONSTANTS
    Orgs = {o1, o2}
    Debates = {d1, d2}
    Clients = {r1, r2}
    Staff = {}
    RoundCap = 1
    DailyCap = 1
    CountsReadable = TRUE
    Budgets = {0, 1}
    Unlimited = Unlimited
    MaxSpend = 4
    MaxMoves = 2
INVARIANTS ChargedWhereChecked
SYMMETRY Symmetry
