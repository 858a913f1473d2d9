-------------------------- MODULE PipelineReaders --------------------------
(***************************************************************************)
(* The read-only commands beside an update that may die anywhere: readers  *)
(* see memory.db between any two steps of module UpdatePipeline.           *)
(***************************************************************************)
EXTENDS UpdatePipeline, Retrieval

\* Everything the commands show without being asked for history.
Answers ==
    HardBootstrap(view) \cup SoftBootstrap(view)
    \cup RelatedContext(view, members, Files, Texts)
    \cup Search(view, Texts, FALSE)
    \cup (UNION {ScopeFor(view, members, f) : f \in Files})
    \cup Check(view, index, members, tree, {})

\* What binds everywhere and always, by a set of canonical lines.
Mandatory(lines) ==
    {m \in CurrentRevisions(lines) :
        /\ m.type = "constraint" /\ m.mode = "persistent"
        /\ Global(m) /\ Visible(m) /\ Severity[m.text] = "MUST"}

\* Readers may run ahead of the canonical files (an update commits the cache
\* first and may die) and behind them (so may a command between its append and
\* its refresh), even both at once and about one record.  The first never has
\* them say that something is in force: whatever a command shows as active is,
\* by a named human, the current one of the canonical revisions, those whose
\* refresh is still missing aside.  By these revisions the bootstrap shows every
\* mandatory rule in its current form and no other.  So readers are wrong about
\* what is in force only where a human's command on that record was cut short.
ShownIsInForce ==
    cache = "ok" =>
        /\ \A m \in Answers : m.status = "active" =>
              m \in CurrentRevisions(Served) /\ m.approved_by \in Humans
        /\ {m \in HardBootstrap(view) : m.type = "constraint"} = Mandatory(Served)
=============================================================================
