CONSTANTS
    t1 = t1
    a1 = a1
    s1 = s1
    p1 = p1
    p2 = p2
    r1 = r1
    r2 = r2
    Master = Master
    Apps = {a1}
    Sessions = {s1}
    AppOf <- MCAppOf
    Tokens = {t1}
    CreateInputs <- MCCreates
    Patches = {p1, p2}
    PatchInputs <- MCPatches
    Requests = {r1, r2}
    RequestInputs <- MCRequests
SPECIFICATION Spec
CHECK_DEADLOCK FALSE
INVARIANTS AdmittedHadAccess SubscriptionsRooted PatchRevokes LockedListsReplace
PROPERTIES RemovalsEntitled
