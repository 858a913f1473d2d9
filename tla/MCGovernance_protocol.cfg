\* The approval protocol: two proposals for one decision, two humans, crashes.
SPECIFICATION Spec
CONSTANTS
    f1 = f1
    f2 = f2
    s1 = s1
    sym1 = sym1
    h1 = h1
    h2 = h2
    d1 = d1
    c1 = c1
    textA = textA
    textB = textB
    p1 = p1
    p2 = p2
    alice = alice
    bob = bob
    Files = {}
    Symbols = {}
    Scopes = {}
    Records = {d1}
    Texts = {textA, textB}
    Hashes = {h1}
    Humans = {alice, bob}
    Absent = Absent
    Nobody = Nobody
    Owner <- MCOwner
    DefinedIn <- MCDefinedIn
    MaxTime = 0
    Proposals = {p1, p2}
    Payloads <- ProtocolPayloads
    Severity <- MCSeverity
    Critical <- MCCritical
    Imports <- MCImports
    Locked = {}
    MaxRevision = 3
SYMMETRY ProtocolSymmetry
INVARIANTS
    ApprovedIsWritten
    NoEchoRevision
PROPERTIES
    LogSpec
    ApprovalSpec
