--------------------------- MODULE UpdatePipeline ---------------------------
(***************************************************************************)
(* One run of `rune update` taken apart (core/update.py): it reads the     *)
(* tree, the cache and the canonical files and plans everything in memory, *)
(* commits the plan to memory.db in one transaction, then writes the       *)
(* canonical files one atomic replacement at a time, project.json last.    *)
(* The commit and every write can fail and the process can be killed       *)
(* anywhere; the next run starts from what was left.                       *)
(*                                                                         *)
(* Between runs a human approves or deactivates content, which appends a   *)
(* line and then owes the cache a refresh, two steps the process can die   *)
(* between; scopes are edited, and the cache is lost.  The tree may change *)
(* at any time.  The clock stands still.  Left out: the proposals, whose   *)
(* resolution approve() appends before the refresh (module Governance),    *)
(* and semantic.jsonl and notes.jsonl; that their writes can fail too is   *)
(* part of WriteFails.                                                     *)
(***************************************************************************)
EXTENDS Lifecycle

CONSTANTS
    Approvals,      \* the content a human can approve, as revisions
    Edits,          \* bound: the memberships a human gives a scope
    Imports,        \* which file imports which
    Locked,         \* the scopes a human has locked
    MaxRevision     \* bound: revisions of one record

ASSUME UpdatePipelineAssumption ==
    /\ Approvals \subseteq Authored
    /\ Edits \subseteq {Absent} \cup SUBSET Files
    /\ Locked \subseteq Scopes
    /\ MaxRevision \in Nat

VARIABLES
    tree,           \* the working tree
    membership,     \* scopes.json
    memory,         \* the lines of decisions.jsonl and constraints.jsonl
    project,        \* project.json: {} or the tree last_indexed_tree_hash is of
    cache,          \* memory.db: "missing", "unusable" or "ok"
    index,          \* its files table
    members,        \* its scope_files table
    view,           \* its decision and constraint revisions
    run,            \* the running command: the plan of an update, or a refresh owed
    missed          \* history: the lines of commands that ended without their
                    \* refresh, since memory.db was last written; no action reads it

vars == <<tree, membership, memory, project, cache, index, members, view, run, missed>>

canonical == <<membership, memory, project>>
database == <<cache, index, members, view>>

Scope == INSTANCE ScopeMembers

-----------------------------------------------------------------------------

Idle == [step |-> "idle"]

Step == {"commit", "scopes", "decisions", "constraints", "project"}

Plan == [step : Step, index : Index, members : Membership,
         new : SUBSET MemoryRevision]

\* Between a command's append and its refresh: what it has appended.
Owing(lines) == [step |-> "refresh", new |-> lines]

Debt == [step : {"refresh"}, new : SUBSET MemoryRevision]

TypeOK ==
    /\ tree \in Index
    /\ membership \in Membership
    /\ memory \subseteq MemoryRevision
    /\ project \subseteq Index
    /\ cache \in {"missing", "unusable", "ok"}
    /\ index \in Index
    /\ members \in Membership
    /\ view \subseteq MemoryRevision
    /\ run \in {Idle} \cup Plan \cup Debt
    /\ missed \subseteq MemoryRevision

\* A member that is not indexed has no row in scope_files.
IndexedMembers(scopes, files) ==
    [s \in Scopes |-> IF scopes[s] = Absent THEN Absent
                      ELSE scopes[s] \cap KnownFiles(files)]

-----------------------------------------------------------------------------
(* The run                                                                 *)

\* The new code index: a path that could not be read this time keeps its
\* last entry.
Scanned(unreadable) ==
    [f \in Files |-> IF f \in unreadable THEN index[f] ELSE tree[f]]

Added(unreadable) ==
    {f \in Files \ unreadable : tree[f] # Absent /\ index[f] = Absent}

\* Mutant: the plan is made from what the cache shows.
BeginFromCache(full, unreadable) ==
    /\ run = Idle
    /\ LET files == Scanned(unreadable)
           scopes == IF full THEN membership
                     ELSE Scope!AssignNewFilesFromImports(
                              membership, Locked, Added(unreadable), tree)
           new == Transitions(view, files, scopes, 0)
       IN  /\ \A m \in new : m.revision <= MaxRevision
           /\ run' = [step |-> "commit", index |-> files, members |-> scopes, new |-> new]
    /\ UNCHANGED <<tree, canonical, database, missed>>

\* Everything up to the commit only reads.  A full run (`rune rebuild-cache`)
\* leaves membership alone.
Begin(full, unreadable) ==
    /\ run = Idle
    /\ LET files == Scanned(unreadable)
           scopes == IF full THEN membership
                     ELSE Scope!AssignNewFilesFromImports(
                              membership, Locked, Added(unreadable), tree)
           new == Transitions(memory, files, scopes, 0)
       IN  /\ \A m \in new : m.revision <= MaxRevision
           /\ run' = [step |-> "commit", index |-> files, members |-> scopes, new |-> new]
    /\ UNCHANGED <<tree, canonical, database, missed>>

\* rebuild_cache() with the plan in the place of what is still to be written.
Commit ==
    /\ run.step = "commit"
    /\ cache' = "ok"
    /\ index' = run.index
    /\ members' = IndexedMembers(run.members, run.index)
    /\ view' = memory \cup run.new
    /\ run' = [run EXCEPT !.step = "scopes"]
    /\ missed' = {}
    /\ UNCHANGED <<tree, canonical>>

\* The transaction raises or dies with the process and is rolled back.  A
\* database it had just created stays behind without a schema version.
CommitFails ==
    /\ run.step = "commit"
    /\ cache' = IF cache = "missing" THEN "unusable" ELSE cache
    /\ run' = Idle
    /\ UNCHANGED <<tree, canonical, index, members, view, missed>>

WriteScopes ==
    /\ run.step = "scopes"
    /\ membership' = run.members
    /\ run' = [run EXCEPT !.step = "decisions"]
    /\ UNCHANGED <<tree, memory, project, database, missed>>

Append(type) == memory' = memory \cup {m \in run.new : m.type = type}

WriteDecisions ==
    /\ run.step = "decisions"
    /\ Append("decision")
    /\ run' = [run EXCEPT !.step = "constraints"]
    /\ UNCHANGED <<tree, membership, project, database, missed>>

WriteConstraints ==
    /\ run.step = "constraints"
    /\ Append("constraint")
    /\ run' = [run EXCEPT !.step = "project"]
    /\ UNCHANGED <<tree, membership, project, database, missed>>

\* The last write: the run has succeeded.
WriteProject ==
    /\ run.step = "project"
    /\ project' = {run.index}
    /\ run' = Idle
    /\ UNCHANGED <<tree, membership, memory, database, missed>>

\* The cache file is removed, or its removal fails as well, which is
\* suppressed in favour of the first error.
DiscardCache ==
    \/ /\ cache' = "missing"
       /\ index' = NoSourceHashes
       /\ members' = NoScopeHashes
       /\ view' = {}
    \/ UNCHANGED database

\* A deferred write raises: what is written stays written.
WriteFails ==
    /\ run.step \in Step \ {"commit"}
    /\ DiscardCache
    /\ run' = Idle
    /\ UNCHANGED <<tree, canonical, missed>>

\* What the running command has appended and not yet shown.
Unshown == IF run.step = "refresh" THEN run.new ELSE {}

\* Killed: nothing is cleaned up.  A refresh that raises comes to the same: its
\* transaction is rolled back and the line before it stays.
Die ==
    /\ run # Idle
    /\ run' = Idle
    /\ missed' = missed \cup Unshown
    /\ UNCHANGED <<tree, canonical, database>>

-----------------------------------------------------------------------------
(* Between runs                                                            *)

\* refresh_cache(), the last step of every command that writes a decision, a
\* constraint or a note: nothing without a file; otherwise every canonical file
\* is materialized anew, and the code index is what can be read of the old one.
RefreshCache ==
    /\ run.step = "refresh"
    /\ IF cache = "missing" THEN UNCHANGED <<database, missed>>
       ELSE /\ cache' = "ok"
            /\ view' = memory
            /\ members' = IndexedMembers(membership, index)
            /\ missed' = {}
            /\ UNCHANGED index
    /\ run' = Idle
    /\ UNCHANGED <<tree, canonical>>

\* Mutant: numbering from the number of the current revision.
NextRevisionFromZero(type, record) ==
    LET current == Current(Revisions(memory, type, record))
    IN  IF current = {} THEN 0 ELSE (CHOOSE m \in current : TRUE).revision + 1

\* Mutant: only the approved revisions are counted.
NextRevisionOfApproved(type, record) ==
    LET approved == {m \in Revisions(memory, type, record) : m \in Authored}
    IN  IF approved = {} THEN 1
        ELSE 1 + (CHOOSE m \in approved : \A k \in approved : k.revision <= m.revision).revision

NextRevision(type, record) ==
    LET current == Current(Revisions(memory, type, record))
    IN  IF current = {} THEN 1 ELSE (CHOOSE m \in current : TRUE).revision + 1

\* The revision approving content `a` appends, with the snapshots of now.
InForce(a, human) ==
    [a EXCEPT
       !.revision = NextRevision(a.type, a.record),
       !.status = "active",
       !.source_hashes = IF a.mode = "source_bound" THEN SourceHashes(a, index)
                                                    ELSE NoSourceHashes,
       !.scope_hashes = IF a.mode = "scope_bound" THEN ScopeHashes(a, membership)
                                                  ELSE NoScopeHashes,
       !.approved_by = human]

Repeats(m) ==
    \E k \in Current(Revisions(memory, m.type, m.record)) :
        m = [k EXCEPT !.revision = m.revision, !.approved_by = m.approved_by]

\* approve() up to its refresh: what the current revision already says is not
\* appended again.
Approve(a, human) ==
    /\ run = Idle
    /\ a.mode = "source_bound" => ~ LostReference(a, index)
    /\ a.mode = "scope_bound" => ~ LostScope(a, membership)
    /\ LET m == InForce(a, human)
           lines == IF Repeats(m) THEN {} ELSE {m}
       IN  /\ m.revision <= MaxRevision
           /\ memory' = memory \cup lines
           /\ run' = Owing(lines)
    /\ UNCHANGED <<tree, membership, project, database, missed>>

\* The revision deactivating the record of current revision `m` appends.
Off(m, human) ==
    [m EXCEPT !.revision = @ + 1, !.status = "inactive",
              !.created_by = "human", !.approved_by = human]

\* Mutant: deactivate() leaves the refresh to the next command.
DeactivateOnly(m, human) ==
    /\ run = Idle
    /\ m.status # "inactive"
    /\ m.revision < MaxRevision
    /\ memory' = memory \cup {Off(m, human)}
    /\ UNCHANGED <<tree, membership, project, database, run, missed>>

\* deactivate() up to its refresh.  Of an inactive record it returns early, with
\* no refresh either.
Deactivate(m, human) ==
    /\ run = Idle
    /\ m.status # "inactive"
    /\ m.revision < MaxRevision
    /\ memory' = memory \cup {Off(m, human)}
    /\ run' = Owing({Off(m, human)})
    /\ UNCHANGED <<tree, membership, project, database, missed>>

\* `rune note add` and the like, seen from here: no line, but a refresh.
TouchNote ==
    /\ run = Idle
    /\ run' = Owing({})
    /\ UNCHANGED <<tree, canonical, database, missed>>

EditTree(f, c) ==
    /\ tree[f] # c
    /\ tree' = [tree EXCEPT ![f] = c]
    /\ UNCHANGED <<canonical, database, run, missed>>

EditScope(s, files) ==
    /\ run = Idle
    /\ membership[s] # files
    /\ membership' = [membership EXCEPT ![s] = files]
    /\ UNCHANGED <<tree, memory, project, database, run, missed>>

\* memory.db is deleted or truncated.
LoseCache(left) ==
    /\ run = Idle
    /\ cache # left
    /\ left = "unusable" => cache = "ok"
    /\ cache' = left
    /\ index' = NoSourceHashes
    /\ members' = NoScopeHashes
    /\ view' = {}
    /\ missed' = {}
    /\ UNCHANGED <<tree, canonical, run>>

-----------------------------------------------------------------------------

\* What init_project() leaves, before the first full run.
Init ==
    /\ tree \in [Files -> Hashes \cup {Absent}]
    /\ membership = NoScopeHashes
    /\ memory = {}
    /\ project = {}
    /\ cache = "missing"
    /\ index = NoSourceHashes
    /\ members = NoScopeHashes
    /\ view = {}
    /\ run = Idle
    /\ missed = {}

Next ==
    \/ \E full \in BOOLEAN, unreadable \in SUBSET KnownFiles(tree) :
          Begin(full, unreadable)
    \/ Commit
    \/ CommitFails
    \/ WriteScopes
    \/ WriteDecisions
    \/ WriteConstraints
    \/ WriteProject
    \/ WriteFails
    \/ Die
    \/ \E a \in Approvals, human \in Humans : Approve(a, human)
    \/ \E m \in CurrentRevisions(memory), human \in Humans : Deactivate(m, human)
    \/ TouchNote
    \/ RefreshCache
    \/ \E f \in Files, c \in Hashes \cup {Absent} : EditTree(f, c)
    \/ \E s \in Scopes, files \in Edits : EditScope(s, files)
    \/ \E left \in {"missing", "unusable"} : LoseCache(left)

Spec == Init /\ [][Next]_vars

-----------------------------------------------------------------------------
(* Properties                                                              *)

\* An update that reaches its last write leaves every store in agreement,
\* whatever earlier runs left half done: readers are shown what the
\* canonical files say, project.json names the tree that is indexed, and no
\* transition of that tree is still to be recorded.
Agreement ==
    /\ cache = "ok"
    /\ view = memory
    /\ members = IndexedMembers(membership, index)
    /\ project = {index}
    /\ Transitions(memory, index, membership, 0) = {}

CompletedUpdateAgrees == [][WriteProject => Agreement']_vars

\* The revisions of a record are 1, 2, ... with no number twice, although a
\* run may append decisions and die before constraints, and the next run
\* plans again while the cache already shows the first plan.
RevisionsContiguous ==
    \A m, k \in memory : (m.type = k.type /\ m.record = k.record) =>
        /\ m.revision = k.revision => m = k
        /\ m.revision > 1 => \E j \in Revisions(memory, m.type, m.record) :
                                 j.revision = m.revision - 1

\* The canonical files but for the lines a human's command appended and did not
\* live to show.
Served == memory \ (missed \cup Unshown)

\* The cache and the canonical files differ for two reasons only.  Readers miss
\* exactly the lines whose command died, or still is, between append and
\* refresh: never one an update wrote, since it commits the cache first, and
\* none once any later command has written the cache.  What readers see too
\* early is one transition of the revision that was current when the cache was
\* written: never content in force that the canonical files do not hold.
GapsAreExplained ==
    cache = "ok" =>
        /\ memory \ view = missed \cup Unshown
        /\ \A m \in view \ memory :
              /\ m.status # "active" /\ m \notin Authored
              /\ \E k \in Current(Revisions(Served, m.type, m.record)) :
                    m.revision = k.revision + 1

\* What `rune status` and `rune doctor` call fresh.
Fresh == cache = "ok" /\ project = {tree}

\* What ARCHITECTURE.md, section 10, has them decide by comparing tree hashes:
\* whether the memory they show is that of the current tree.  Asked between
\* commands, when nothing is being written.
FreshMeansIndexed == (run = Idle /\ Fresh) => index = tree

\* decisions.jsonl and constraints.jsonl are revision logs although an update
\* plans from one reading of them, shows the plan to readers and writes it
\* later, file by file, and may stop after any of them.
Log == INSTANCE RevisionLog WITH
    Line <- MemoryRevision, Final <- Terminal, ByHand <- Authored,
    Id <- RecordId, log <- memory

LogSpec == Log!Spec
=============================================================================
