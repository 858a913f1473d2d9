----------------------------- MODULE ScopeUpkeep -----------------------------
(***************************************************************************)
(* Everything that writes scopes.json: the commands of a human (`rune      *)
(* scope create`, `edit`, `lock`, `unlock`, `delete`, and `suggest`, which *)
(* asks before it writes), and the two that write without asking, `rune    *)
(* update` for the files new to its index and `rune scope reconcile` for   *)
(* the indexed files no scope holds (core/scopes/*.py, cli/main.py).       *)
(*                                                                         *)
(* `rune update` commits its index first and writes scopes.json after it,  *)
(* and can die in between; what the write of a run consists of otherwise   *)
(* is the business of module UpdatePipeline, and so are the tables that    *)
(* the cache refresh at the end of a reconciliation rewrites.  A file has  *)
(* no contents here, so its imports do not change.                         *)
(***************************************************************************)
EXTENDS Naturals, FiniteSets

CONSTANTS
    Files,
    Symbols,
    Scopes,             \* scope ids
    Owner,              \* the file that declares a symbol
    Directory,          \* the top-level directory of a file, Absent at the root
    Imports,            \* SUBSET (Files \X Files): <<importer, imported>>
    ChurnThreshold,     \* config.scopes.reconcile_large_churn_threshold
    Absent

ASSUME ScopeUpkeepAssumption ==
    /\ IsFiniteSet(Scopes)
    /\ Owner \in [Symbols -> Files]
    /\ Files \cap Symbols = {}
    /\ Imports \subseteq Files \X Files
    /\ ChurnThreshold \in Nat
    /\ Absent \notin Files
    /\ \A M \in SUBSET Files : M # Absent
    /\ Absent \notin [files : SUBSET Files, symbols : SUBSET Symbols,
                      locked : BOOLEAN, source : {"human", "model"}]

VARIABLES
    tree,       \* the files there are
    scopes,     \* scopes.json
    cache,      \* memory.db: "missing", "unusable" or "ok"
    index,      \* the files it lists
    plan        \* {} or the scopes.json a running update has yet to write

vars == <<tree, scopes, cache, index, plan>>

Members == INSTANCE ScopeMembers

Scope == [files : SUBSET Files, symbols : SUBSET Symbols,
          locked : BOOLEAN, source : {"human", "model"}]

ScopesFile == [Scopes -> Scope \cup {Absent}]

TypeOK ==
    /\ tree \in SUBSET Files
    /\ scopes \in ScopesFile
    /\ cache \in {"missing", "unusable", "ok"}
    /\ index \in SUBSET Files
    /\ plan \in SUBSET ScopesFile

-----------------------------------------------------------------------------
(* Evidence                                                                *)

Existing(file) == {s \in Scopes : file[s] # Absent}

\* Mutant: locked scopes are candidates like any other.
LockedNone(file) == {}

Locked(file) == {s \in Existing(file) : file[s].locked}

\* members.files and the files that declare the indexed members.symbols.
Held(scope, known) ==
    scope.files \cup {Owner[y] : y \in {z \in scope.symbols : Owner[z] \in known}}

\* The scopes an indexed file has high-confidence imports into.
Candidates(f, file, known) ==
    Members!ImportCandidates(f,
        [s \in Scopes |-> IF file[s] = Absent THEN Absent ELSE Held(file[s], known)],
        Locked(file),
        [g \in Files |-> IF g \in known THEN g ELSE Absent])

\* Each of the files joins the one scope its imports point into, all of them
\* judged by the memberships before the run.
Assign(files, file, known) ==
    [s \in Scopes |->
        IF file[s] = Absent THEN Absent
        ELSE [file[s] EXCEPT !.files =
                 @ \cup {f \in files : Candidates(f, file, known) = {s}}]]

-----------------------------------------------------------------------------
(* `rune update`                                                           *)

\* The run reads, plans and commits its index.  A full one leaves scopes
\* alone.
Update(full) ==
    /\ plan = {}
    /\ plan' = {IF full THEN scopes ELSE Assign(tree \ index, scopes, tree)}
    /\ cache' = "ok"
    /\ index' = tree
    /\ UNCHANGED <<tree, scopes>>

WriteScopes ==
    /\ scopes' \in plan
    /\ plan' = {}
    /\ UNCHANGED <<tree, cache, index>>

\* The write fails, and the cache is discarded if that can be done; or the
\* process is killed and the cache stays.
Stop ==
    /\ plan # {}
    /\ plan' = {}
    /\ \/ cache' = "missing" /\ index' = {}
       \/ UNCHANGED <<cache, index>>
    /\ UNCHANGED <<tree, scopes>>

-----------------------------------------------------------------------------
(* `rune scope reconcile`                                                  *)

Protected(scope) == scope.locked \/ scope.source = "human"

\* Members, files and symbols, that the index does not know: of a protected
\* scope they are broken, of another they are up for review.  Reported only.
Missing(scope, known) ==
    (scope.files \ known) \cup {y \in scope.symbols : Owner[y] \notin known}

Broken(file, known) ==
    UNION {{s} \X Missing(file[s], known) : s \in {t \in Existing(file) : Protected(file[t])}}

Orphaned(file, known) ==
    UNION {{s} \X Missing(file[s], known) : s \in {t \in Existing(file) : ~ Protected(file[t])}}

\* A file is assigned by being a member or by declaring one.
Unassigned(file, known) == known \ UNION {Held(file[s], known) : s \in Existing(file)}

AutoAssigned(file, known) ==
    {f \in Unassigned(file, known) : Cardinality(Candidates(f, file, known)) = 1}

\* Up for review: files with no evidence or too much of it.
Undecided(file, known) == Unassigned(file, known) \ AutoAssigned(file, known)

\* Mutant: as many as the threshold are already too many.
ChurnAtThreshold(file, known) == Cardinality(AutoAssigned(file, known)) >= ChurnThreshold

SuspiciousChurn(file, known) == Cardinality(AutoAssigned(file, known)) > ChurnThreshold

\* It refuses a cache it cannot read, `--full` only reports, and too many
\* assignments at once are left to a human.  What is saved is followed by a
\* refresh of the cache, which keeps the index.
Reconcile(full) ==
    /\ plan = {}
    /\ cache = "ok"
    /\ scopes' = IF full \/ SuspiciousChurn(scopes, index) THEN scopes
                 ELSE Assign(AutoAssigned(scopes, index), scopes, index)
    /\ UNCHANGED <<tree, cache, index, plan>>

-----------------------------------------------------------------------------
(* The commands of a human                                                 *)

Save(s, scope) ==
    /\ plan = {}
    /\ scopes' = [scopes EXCEPT ![s] = scope]
    /\ UNCHANGED <<tree, cache, index, plan>>

Create(s, files, symbols) ==
    /\ scopes[s] = Absent
    /\ Save(s, [files |-> files, symbols |-> symbols, locked |-> TRUE, source |-> "human"])

Edit(s, files, symbols) ==
    /\ scopes[s] # Absent
    /\ Save(s, [scopes[s] EXCEPT !.files = files, !.symbols = symbols])

SetLocked(s, locked) ==
    /\ scopes[s] # Absent
    /\ Save(s, [scopes[s] EXCEPT !.locked = locked])

Delete(s) ==
    /\ scopes[s] # Absent
    /\ Save(s, Absent)

\* What suggest never offers: the files locked scopes hold.
LockedFiles == UNION {Held(scopes[s], index) : s \in Locked(scopes)}

\* The files of one top-level directory.
PathGroups(files) ==
    {{f \in files : Directory[f] = d} : d \in {Directory[f] : f \in files} \ {Absent}}

\* Sets of files no import or reference leads out of.
Closed(part, files) ==
    \A e \in Imports : ({e[1], e[2]} \subseteq files /\ {e[1], e[2]} \cap part # {})
                          => {e[1], e[2]} \subseteq part

Components(files) ==
    {part \in SUBSET files :
        /\ part # {}
        /\ Closed(part, files)
        /\ \A smaller \in SUBSET part : smaller \in {{}, part} \/ ~ Closed(smaller, files)}

\* Two files or more, offered for a scope of their own.
Suggestions ==
    {c \in PathGroups(index \ LockedFiles) \cup Components(index \ LockedFiles) :
        Cardinality(c) >= 2}

\* A suggestion is accepted, under an id not in use.
Suggest(s) ==
    /\ cache = "ok"
    /\ scopes[s] = Absent
    /\ \E files \in Suggestions :
          Save(s, [files |-> files, symbols |-> {}, locked |-> FALSE, source |-> "model"])

-----------------------------------------------------------------------------
(* What happens around the program.  What remains of an update reads the   *)
(* tree no more, so it changes between commands.                           *)

EditTree(f) ==
    /\ plan = {}
    /\ tree' = (tree \ {f}) \cup ({f} \ tree)
    /\ UNCHANGED <<scopes, cache, index, plan>>

LoseCache(left) ==
    /\ plan = {}
    /\ cache = "ok"
    /\ cache' = left
    /\ index' = {}
    /\ UNCHANGED <<tree, scopes, plan>>

\* A memory command refreshes a cache it could not read, with no index.
Heal ==
    /\ plan = {}
    /\ cache = "unusable"
    /\ cache' = "ok"
    /\ UNCHANGED <<tree, scopes, index, plan>>

-----------------------------------------------------------------------------

\* After `rune init`, before the first run.
Init ==
    /\ tree \in SUBSET Files
    /\ scopes = [s \in Scopes |-> Absent]
    /\ cache = "missing"
    /\ index = {}
    /\ plan = {}

Unattended ==
    \/ WriteScopes
    \/ \E full \in BOOLEAN : Reconcile(full)

Next ==
    \/ \E full \in BOOLEAN : Update(full)
    \/ Stop
    \/ Unattended
    \/ \E s \in Scopes, files \in SUBSET Files, symbols \in SUBSET Symbols :
          \/ Create(s, files, symbols)
          \/ Edit(s, files, symbols)
    \/ \E s \in Scopes, locked \in BOOLEAN : SetLocked(s, locked)
    \/ \E s \in Scopes : Delete(s) \/ Suggest(s)
    \/ \E f \in Files : EditTree(f)
    \/ \E left \in {"missing", "unusable"} : LoseCache(left)
    \/ Heal

Spec == Init /\ [][Next]_vars

\* A run ends, one way or another.  Reconciliation is a command: that it is
\* run again and again is what the workflow of ARCHITECTURE.md, section 4.4,
\* asks of whoever merges.
FairSpec ==
    /\ Spec
    /\ WF_vars(WriteScopes \/ Stop)
    /\ SF_vars(Reconcile(FALSE))

-----------------------------------------------------------------------------
(* Properties                                                              *)

\* What a reconciliation leaves outside every scope is what it listed for
\* review: the list and the assignments, made from the same evidence by
\* different code, miss no file between them.
ReviewListIsComplete ==
    [][(Reconcile(FALSE) /\ ~ SuspiciousChurn(scopes, index)) =>
         Unassigned(scopes', index') = Undecided(scopes, index)]_vars

\* Nobody reviews what update and reconcile write, so all they may do is to
\* add to a scope that is not locked an indexed file whose imports point into
\* that scope and into no other unlocked one: they never take a member away,
\* never create, delete or reorder scopes, never change a lock, and what is
\* reported broken or orphaned stays so until a human has dealt with it.  The
\* plan of an update is a whole scopes.json made some steps before it is written.
EvidenceFor(f, s) ==
    /\ ~ scopes[s].locked
    /\ \E g \in Held(scopes[s], index) : g \in index /\ <<f, g>> \in Imports

UnattendedOnlyAdds ==
    [][Unattended =>
        /\ \A s \in Scopes : scopes'[s] # scopes[s] =>
              /\ scopes[s] # Absent
              /\ \E more \in SUBSET (index \ scopes[s].files) :
                    /\ scopes'[s] = [scopes[s] EXCEPT !.files = @ \cup more]
                    /\ \A f \in more :
                          {t \in Existing(scopes) : EvidenceFor(f, t)} = {s}
        /\ Broken(scopes', index) = Broken(scopes, index)
        /\ Orphaned(scopes', index) = Orphaned(scopes, index)]_vars

\* A file an update was killed before assigning is not new to the next one,
\* yet it does not stay outside for good: reconciling again and again assigns
\* every file with evidence for one scope, unless there are more of them than
\* a human agreed to leave unreviewed.
Pending(f) ==
    /\ f \in AutoAssigned(scopes, index)
    /\ Cardinality(AutoAssigned(scopes, index)) <= ChurnThreshold

NoneLeftBehind == \A f \in Files : []<> ~ Pending(f)
=============================================================================
