\* An importer of two files, its import falling back from one to the other.
SPECIFICATION Spec
CONSTANTS
    lib = lib
    base = base
    app = app
    broken = broken
    foo = foo
    Files = {1, 2, 3}
    Contents = {lib, base, app, broken}
    Names = {foo}
    CanHold <- MCCanHold
    Flaky = {2}
    Declares <- MCDeclares
    Statements <- MCStatements
    Refers <- MCRefers
    Malformed = {}
    Unparsable = {broken}
    Absent = Absent
INVARIANTS
    TypeOK
    FactsOfHash
    EdgesClosed
PROPERTIES
    QuietUpdateIsCurrent
    QuietUpdateIsExact
    OnlyDeletedLeave
