\* Constraints of every reacting mode against a file, a scope and the clock.
SPECIFICATION Spec
CONSTANTS
    f1 = f1
    f2 = f2
    s1 = s1
    sym1 = sym1
    h1 = h1
    h2 = h2
    d1 = d1
    c1 = c1
    textA = textA
    textB = textB
    p1 = p1
    p2 = p2
    alice = alice
    bob = bob
    Files = {f1}
    Symbols = {sym1}
    Scopes = {s1}
    Records = {c1}
    Texts = {textA}
    Hashes = {h1, h2}
    Humans = {alice}
    Absent = Absent
    Nobody = Nobody
    Owner <- MCOwner
    DefinedIn <- MCDefinedIn
    MaxTime = 1
    Proposals = {p1}
    Payloads <- TransitionPayloads
    Severity <- MCSeverity
    Critical <- MCCritical
    Imports <- MCImports
    Locked = {}
    MaxRevision = 3
INVARIANTS
    TypeOK
    CheckForetellsUpdate
PROPERTIES
    OnlyHumansRevive
    UpdateConverges
    UpdateLeavesTrustworthy
