\* Two scopes, a file one of them may hold, and two more that import it in a chain
\* with a short cut, so that assigning one changes the evidence for the other.
SPECIFICATION FairSpec
CONSTANTS
    f1 = f1
    f2 = f2
    f3 = f3
    sym1 = sym1
    s1 = s1
    s2 = s2
    app = app
    Files = {f1, f2, f3}
    Symbols = {}
    Scopes = {s1, s2}
    Owner <- MCOwner
    Directory <- MCDirectory
    Imports <- MCImports
    ChurnThreshold = 1
    Absent = Absent
PROPERTIES
    UnattendedOnlyAdds
    NoneLeftBehind
