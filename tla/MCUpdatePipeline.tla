-------------------------- MODULE MCUpdatePipeline --------------------------
(* Instances of UpdatePipeline for TLC.                                    *)
EXTENDS PipelineReaders, TLC

CONSTANTS f1, f2, s1, h1, h2, d1, c1, textA, alice

MCOwner == [s \in Symbols |-> f1]
MCDefinedIn == [s \in Symbols |-> Hashes]
MCImports == {<<f, g>> \in Files \X Files : f # f1 /\ g = f1}

\* With f1, whose import brings f2 along, or without.
ScopeEdits == {Absent, {f1}}

MCSeverity == [t \in Texts |-> "MUST"]
MCCritical == [t \in Texts |-> TRUE]

Draft(type, record, mode, files, scopes, author) ==
    [type |-> type, record |-> record, text |-> textA, files |-> files,
     symbols |-> {}, scopes |-> scopes, mode |-> mode, expires |-> Never,
     revision |-> 1, status |-> "active", source_hashes |-> NoSourceHashes,
     scope_hashes |-> NoScopeHashes, created_by |-> author, approved_by |-> Nobody]

\* A scope the run itself may extend, a rule that never reacts, and a file
\* that can disappear.
ScopeApprovals ==
    {Draft("constraint", c1, "scope_bound", {}, {s1}, "agent"),
     Draft("constraint", c1, "persistent", {f2}, {}, "human"),
     Draft("decision", d1, "none", {f2}, {}, "agent")}

\* One change of a file moves a decision and a constraint.
SourceApprovals ==
    {Draft("constraint", c1, "source_bound", {f1}, {}, "agent"),
     Draft("decision", d1, "none", {f1}, {}, "human")}
=============================================================================
