\* Two sessions and room for one, two tool calls at a time.
\* Once every session is deleted and no hook runs, nothing is left to do.
CHECK_DEADLOCK FALSE
SPECIFICATION Spec
CONSTANTS
    s1 = s1
    s2 = s2
    t1 = t1
    t2 = t2
    r1 = r1
    pa = pa
    pb = pb
    out = out
    app = app
    lib = lib
    Sessions = {s1, s2}
    Calls = {t1, t2}
    Requests = {}
    Paths = {pa, pb}
    Outside = out
    PathLists <- MCPathLists
    ScopesOf <- MCScopesOf
    Nobody = Nobody
    MaxSessionAdmissions = 1
    MaxScopeActivations = 2
    MaxInits = 1
    MaxVersion = 1
INVARIANTS
    TypeOK
    NoOrphanState
    OneLookup
    WaitsInOwnSession
PROPERTIES
    RulesSpec
