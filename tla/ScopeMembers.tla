--------------------------- MODULE ScopeMembers ----------------------------
(***************************************************************************)
(* Membership of the scopes of scopes.json and the one rule by which       *)
(* `rune update` changes it without asking: a file new to the index joins  *)
(* a scope when its imports point into exactly one unlocked scope          *)
(* (core/scopes/model.py).  Pure definitions.  A membership is             *)
(* [Scopes -> SUBSET Files] with Absent for a scope that does not exist;   *)
(* members.symbols is folded into the files that own the symbols.          *)
(***************************************************************************)
EXTENDS Naturals

CONSTANTS
    Files,
    Scopes,
    Imports,    \* SUBSET (Files \X Files): <<importer, imported>>
    Absent

Existing(membership) == {s \in Scopes : membership[s] # Absent}

\* The unlocked scopes holding a file that `f` imports.  An import whose
\* target is not in the tree resolved to nothing and is no evidence.
ImportCandidates(f, membership, locked, tree) ==
    {s \in Existing(membership) \ locked :
        \E g \in membership[s] : <<f, g>> \in Imports /\ tree[g] # Absent}

\* The candidates of every added file are computed against the membership
\* before the run, and only a single candidate is evidence enough.
AssignNewFilesFromImports(membership, locked, added, tree) ==
    [s \in Scopes |->
        IF membership[s] = Absent THEN Absent
        ELSE membership[s] \cup
             {f \in added : ImportCandidates(f, membership, locked, tree) = {s}}]
=============================================================================
