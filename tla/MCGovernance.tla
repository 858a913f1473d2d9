---------------------------- MODULE MCGovernance ---------------------------
(* Instances of Governance for TLC.                                        *)
EXTENDS GovernanceReaders, TLC

CONSTANTS f1, f2, s1, sym1, h1, h2, d1, c1, textA, textB, p1, p2, alice, bob

MCOwner == [s \in Symbols |-> f1]
\* The second content of a file no longer declares the symbol.
MCDefinedIn == [s \in Symbols |-> {h1}]
MCImports == {<<f, g>> \in Files \X Files : f # f1 /\ g = f1}

MCSeverity == [t \in Texts |-> "SHOULD"]
MCCritical == [t \in Texts |-> FALSE]

Decision(record, text, files, scopes) ==
    [type |-> "decision", record |-> record, text |-> text, files |-> files,
     symbols |-> {}, scopes |-> scopes, mode |-> "none", expires |-> Never]

Constraint(record, mode, files, symbols, scopes, expires) ==
    [type |-> "constraint", record |-> record, text |-> textA, files |-> files,
     symbols |-> symbols, scopes |-> scopes, mode |-> mode, expires |-> expires]

\* Two texts for one record, and a payload approve() must refuse.
ProtocolPayloads ==
    {Decision(d1, textA, {}, {}), Decision(d1, textB, {}, {}),
     [Decision(d1, textA, {}, {}) EXCEPT !.expires = 0]}

\* What reacts to the contents of a file, and what reacts to the removal of a
\* symbol or of a scope and to the clock.
TransitionPayloads ==
    {Constraint(c1, "source_bound", {f1}, {}, {}, Never),
     Constraint(c1, "temporary", {}, {sym1}, {s1}, 1)}

\* Neither which proposal nor which human it is matters to any property.
ProtocolSymmetry == Permutations(Proposals) \cup Permutations(Humans)
=============================================================================
