\* A scope-bound constraint and a decision against a scope the run itself may extend.
SPECIFICATION Spec
CONSTANTS
    f1 = f1
    f2 = f2
    s1 = s1
    h1 = h1
    h2 = h2
    d1 = d1
    c1 = c1
    textA = textA
    alice = alice
    Files = {f1, f2}
    Symbols = {}
    Scopes = {s1}
    Records = {d1, c1}
    Texts = {textA}
    Hashes = {h1}
    Humans = {alice}
    Absent = Absent
    Nobody = Nobody
    Owner <- MCOwner
    DefinedIn <- MCDefinedIn
    MaxTime = 0
    Approvals <- ScopeApprovals
    Severity <- MCSeverity
    Critical <- MCCritical
    Edits <- ScopeEdits
    Imports <- MCImports
    Locked = {}
    MaxRevision = 2
INVARIANTS
    TypeOK
    GapsAreExplained
    ShownIsInForce
PROPERTIES
    LogSpec
    CompletedUpdateAgrees
