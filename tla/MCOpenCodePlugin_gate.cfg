\* One session whose initializations queue up behind each other and before
\* a request, with a memory that changes meanwhile.
\* Once every session is deleted and no hook runs, nothing is left to do.
CHECK_DEADLOCK FALSE
SPECIFICATION Spec
CONSTANTS
    s1 = s1
    s2 = s2
    t1 = t1
    t2 = t2
    r1 = r1
    pa = pa
    pb = pb
    out = out
    app = app
    lib = lib
    Sessions = {s1}
    Calls = {t1}
    Requests = {r1}
    Paths = {pa, pb}
    Outside = out
    PathLists <- OnePath
    ScopesOf <- MCScopesOf
    Nobody = Nobody
    MaxSessionAdmissions = 1
    MaxScopeActivations = 2
    MaxInits = 3
    MaxVersion = 2
PROPERTIES
    RulesAreFresh
    HooksReturn
