CONSTANTS
    None = None
    s1 = s1
    t1 = t1
    r1 = r1
    r2 = r2
    r3 = r3
    r4 = r4
    c1 = c1
    c2 = c2
    GroupOf <- MCGroupOf
    Bulk = {"forwardMessages"}
    Length <- MCLength
    Offset <- MCOffset
    Session = s1
    Kinds = {"user", "bot"}
    Callers = {c1, c2}
    Inputs <- MCInputs
    Limits <- MCLimits
    FirstLimits <- MCFirst
    Waits = {1, 2}
    SpamWait = 2
    PaceInterval = 2
    MaxPaceWait = 1
    RuleRefresh = 1
    CounterAge = 3
    MaxTime = 3
    Budgets <- MCBudgets
SYMMETRY Symmetry
SPECIFICATION Spec
INVARIANTS QuotaKept CountsWhatGoesOut PacedApart CooldownRecorded FlagRecorded
PROPERTIES ChargesInForce
