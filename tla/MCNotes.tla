------------------------------ MODULE MCNotes -------------------------------
(* Instances of Notes for TLC.                                             *)
EXTENDS Notes, TLC

CONSTANTS f1, s1, sym1, h1, h2, n1

MCOwner == [s \in Symbols |-> f1]
\* The second content of the file no longer declares the symbol.
MCDefinedIn == [s \in Symbols |-> {h1}]

\* A note of a file, and one of a symbol and a scope.
MCBindings == {[files |-> {f1}, symbols |-> {}, scopes |-> {}],
               [files |-> {}, symbols |-> {sym1}, scopes |-> {s1}]}
=============================================================================
