\* An imported file is added after its importer was indexed.
SPECIFICATION Spec
CONSTANTS
    lib = lib
    base = base
    app = app
    broken = broken
    foo = foo
    Files = {1, 2, 3}
    Contents = {lib, base, app, broken}
    Names = {foo}
    CanHold <- MCCanHold
    Flaky = {}
    Declares <- MCDeclares
    Statements <- MCStatements
    Refers <- MCRefers
    Malformed = {}
    Unparsable = {broken}
    Absent = Absent
PROPERTIES
    ImportsAsRebuilt
