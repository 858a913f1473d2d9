---------------------------- MODULE MCCodeIndex ----------------------------
(* Instances of CodeIndex for TLC.                                         *)
EXTENDS CodeIndex, TLC

CONSTANTS lib, base, app, broken, foo

Nothing == [n \in {} |-> "function"]

\* Two files that may declare foo, as a function or as a class; broken parses
\* with errors or not at all; app imports 1, or else 2, calls and extends foo.
MCDeclares == (lib :> (foo :> "function")) @@ (base :> (foo :> "class"))
              @@ (app :> Nothing) @@ (broken :> (foo :> "class"))
MCStatements == (lib :> {}) @@ (base :> {}) @@ (broken :> {<<1>>})
                @@ (app :> {<<1, 2>>, <<2>>, <<>>})
MCRefers == (lib :> {}) @@ (base :> {}) @@ (broken :> {})
            @@ (app :> {[name |-> foo, edge_type |-> t] : t \in {"calls", "extends"}})
MCCanHold == (1 :> {lib, Absent}) @@ (2 :> {base, broken, Absent}) @@ (3 :> {app})
=============================================================================
