CONSTANTS
    u1 = u1
    u2 = u2
    b1 = b1
    c1 = c1
    c2 = c2
    d1 = d1
    d2 = d2
    phone = phone
    None = None
    Users = {u1, u2}
    Bots = {b1}
    PhoneOf <- SamePhone
    Callers = {c1, c2}
    Deleters = {d1, d2}
    Budgets <- MCBudgets
SPECIFICATION Spec
CHECK_DEADLOCK FALSE
INVARIANTS EveryCodeAskedFor VerdictReachesSubmitter AuthorizedHasClient RowMirrorsStatus AbortedIsGone
PROPERTIES AbortUnwinds
