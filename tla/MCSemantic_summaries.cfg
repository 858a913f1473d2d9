SPECIFICATION Spec
CONSTANTS
    s1 = s1
    s2 = s2
    Scopes = {s1, s2}
    Hashes = {0, 1, 2}
    MaxHash <- MCMaxHash
    Nothing = Nothing
    NoSummary = NoSummary
    NoCall = NoCall
    Budget = 1
    Fallback = TRUE
INVARIANTS
    TypeOK
    FreshIsTrue
    OneLinePerScope
PROPERTIES
    LastGoodSummaryKept
    RunSettles
    RunEnds
    EveryScopeReached
