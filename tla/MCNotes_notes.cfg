\* One note, bound to a file or to a symbol and a scope, against a file that changes, goes and comes back.
SPECIFICATION Spec
CONSTANTS
    f1 = f1
    s1 = s1
    sym1 = sym1
    h1 = h1
    h2 = h2
    n1 = n1
    Files = {f1}
    Symbols = {sym1}
    Scopes = {s1}
    Records = {}
    Texts = {}
    Hashes = {h1, h2}
    Humans = {}
    Absent = Absent
    Nobody = Nobody
    Owner <- MCOwner
    DefinedIn <- MCDefinedIn
    MaxTime = 1
    NoteIds = {n1}
    Bindings <- MCBindings
    Lifetimes = {1, Forever}
    Forever = Forever
    Deadlines = {2}
    Statuses = {"active", "archived"}
    Unset = Unset
    Authors = {"agent"}
    MaxRevision = 3
INVARIANTS
    TypeOK
PROPERTIES
    LogSpec
    UpdateSettlesNotes
    FirstReasonWins
