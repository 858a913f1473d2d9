--------------------------- MODULE MCScopeUpkeep ---------------------------
(* Instances of ScopeUpkeep for TLC.                                       *)
EXTENDS ScopeUpkeep

CONSTANTS f1, f2, f3, sym1, s1, s2, app

MCOwner == [y \in Symbols |-> f1]
MCDirectory == [f \in Files |-> IF f = f1 THEN Absent ELSE app]

\* A chain with a short cut: f3 has evidence twice once f2 is assigned.
MCImports == {<<f2, f1>>, <<f3, f2>>, <<f3, f1>>} \cap (Files \X Files)
=============================================================================
