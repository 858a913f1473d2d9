\* A file that did not change and was in no scope.
SPECIFICATION HistorySpec
CONSTANTS
    f1 = f1
    f2 = f2
    f3 = f3
    sym1 = sym1
    s1 = s1
    s2 = s2
    app = app
    Files = {f1, f2}
    Symbols = {}
    Scopes = {s1}
    Owner <- MCOwner
    Directory <- MCDirectory
    Imports <- MCImports
    ChurnThreshold = 1
    Absent = Absent
PROPERTIES
    UntouchedFrozen
