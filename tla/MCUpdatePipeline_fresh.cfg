\* The run is killed between its commit and project.json, and the edit is undone.
SPECIFICATION Spec
CONSTANTS
    f1 = f1
    f2 = f2
    s1 = s1
    h1 = h1
    h2 = h2
    d1 = d1
    c1 = c1
    textA = textA
    alice = alice
    Files = {f1}
    Symbols = {}
    Scopes = {}
    Records = {d1, c1}
    Texts = {textA}
    Hashes = {h1, h2}
    Humans = {alice}
    Absent = Absent
    Nobody = Nobody
    Owner <- MCOwner
    DefinedIn <- MCDefinedIn
    MaxTime = 0
    Approvals <- SourceApprovals
    Severity <- MCSeverity
    Critical <- MCCritical
    Edits = {}
    Imports <- MCImports
    Locked = {}
    MaxRevision = 2
INVARIANTS
    FreshMeansIndexed
