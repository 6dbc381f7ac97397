CONSTANTS
    u1 = u1
    a1 = a1
    a2 = a2
    m1 = m1
    m2 = m2
    m3 = m3
    c1 = c1
    c2 = c2
    Uploads = {u1}
    Appends = {a1, a2}
    Lengths = {2}
    MaxTotal = 2
    Chunks = {1, 2}
    Msgs = {m1, m2, m3}
    IdOf <- MCIdOf
    Calls = {c1, c2}
    MsgsOf <- MCMsgsOf
    Scheduled = {c2}
    SendQueue = 1
    Budgets <- MCBudgets
SPECIFICATION Spec
CHECK_DEADLOCK FALSE
INVARIANTS HandedIsWhole RowTellsOutcome UploadsKept
PROPERTIES SendsResolve UploadsGo
