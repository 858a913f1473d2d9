----------------------------- MODULE Lifecycle -----------------------------
(***************************************************************************)
(* Decision and Constraint revisions: what "current" and "visible" mean,   *)
(* the snapshots an approval takes, and the transitions `rune update`      *)
(* makes when the code base moves away from what was approved              *)
(* (core/memory/revisions.py, hashes.py, staleness.py and the two models   *)
(* of core/storage/models.py).  Pure definitions, no variables.            *)
(*                                                                         *)
(* Data kept: which files, symbols and scopes a record refers to, its      *)
(* persistence mode, its snapshots.  Data abstracted: every other field    *)
(* that approve() compares is folded into `text`; a hash is the value it   *)
(* is a hash of, so equal hashes mean equal contents.                      *)
(***************************************************************************)
EXTENDS Naturals

CONSTANTS
    Files,      \* source paths
    Symbols,    \* symbol ids of the code index
    Scopes,     \* scope ids
    Records,    \* record ids of decisions and constraints
    Texts,      \* what a human or an agent wrote
    Hashes,     \* contents a source file can have
    Humans,     \* values of `--by`
    Absent,     \* a path not indexed, a scope not in scopes.json, a key not in a snapshot
    Nobody,     \* approved_by = None
    Owner,      \* [Symbols -> Files]: the file that can declare the symbol
    DefinedIn,  \* [Symbols -> SUBSET Hashes]: the contents that do declare it
    MaxTime     \* the last tick of the clock

ASSUME LifecycleAssumption ==
    /\ Absent \notin Hashes
    /\ \A M \in SUBSET Files : M # Absent
    /\ Nobody \notin Humans
    /\ Owner \in [Symbols -> Files]
    /\ DefinedIn \in [Symbols -> SUBSET Hashes]
    /\ MaxTime \in Nat

\* expires_at = None: an instant the clock never reaches.
Never == MaxTime + 1

RecordType == {"decision", "constraint"}
RecordStatus == {"active", "review_required", "stale", "inactive", "orphaned"}
\* "none" is a payload with neither severity nor persistence_mode.
PersistenceMode == {"none", "persistent", "source_bound", "scope_bound", "temporary"}
Actor == {"agent", "human"}
RevisionAuthor == Actor \cup {"system_staleness", "system_lifecycle"}

Index == [Files -> Hashes \cup {Absent}]
Membership == [Scopes -> {Absent} \cup SUBSET Files]

Payload == [type : RecordType, record : Records, text : Texts,
            files : SUBSET Files, symbols : SUBSET Symbols, scopes : SUBSET Scopes,
            mode : PersistenceMode, expires : 0 .. MaxTime + 1]

MemoryRevision ==
    [type : RecordType, record : Records, text : Texts,
     files : SUBSET Files, symbols : SUBSET Symbols, scopes : SUBSET Scopes,
     mode : PersistenceMode, expires : 0 .. MaxTime + 1,
     revision : Nat \ {0}, status : RecordStatus,
     source_hashes : Index, scope_hashes : Membership,
     created_by : RevisionAuthor, approved_by : Humans \cup {Nobody}]

\* Whose revision it is, who wrote it, what a transition copies and what it
\* may change.
RecordId == [m \in MemoryRevision |-> <<m.type, m.record>>]
Authored == {m \in MemoryRevision : m.created_by \in Actor}
Content == [m \in MemoryRevision |->
    <<m.text, m.files, m.symbols, m.scopes, m.mode, m.expires>>]
Condition == [m \in MemoryRevision |-> <<m.status, m.source_hashes, m.scope_hashes>>]

-----------------------------------------------------------------------------
(* Current and visible                                                     *)

Revisions(memory, type, record) ==
    {m \in memory : m.type = type /\ m.record = record}

\* The empty set (no revision yet) or the singleton of the current revision:
\* the one with the greatest number, whatever its status.
Current(revs) == {m \in revs : \A k \in revs : k.revision <= m.revision}

CurrentRevisions(memory) ==
    UNION {Current(Revisions(memory, t, r)) : t \in RecordType, r \in Records}

Visible(m) == m.status \in {"active", "review_required", "stale"}

-----------------------------------------------------------------------------
(* Snapshots                                                               *)

KnownFiles(index) == {f \in Files : index[f] # Absent}

KnownSymbols(index) == {s \in Symbols : index[Owner[s]] \in DefinedIn[s]}

\* The hash of every referenced file and of the file owning each referenced
\* symbol; what does not resolve is left out.
SourceHashes(m, index) ==
    LET paths == m.files \cup {Owner[s] : s \in m.symbols \cap KnownSymbols(index)}
    IN  [f \in Files |-> IF f \in paths THEN index[f] ELSE Absent]

\* The membership fingerprint of every scope of the record that still exists.
ScopeHashes(m, membership) ==
    [s \in Scopes |-> IF s \in m.scopes THEN membership[s] ELSE Absent]

NoSourceHashes == [f \in Files |-> Absent]
NoScopeHashes == [s \in Scopes |-> Absent]

-----------------------------------------------------------------------------
(* System transitions                                                      *)

\* Only a human moves a record out of these.
Terminal == {"orphaned", "review_required", "inactive"}

\* A full copy of the current revision with only lifecycle fields changed.
SystemRevision(m, status, author) ==
    [m EXCEPT !.revision = @ + 1, !.status = status,
              !.created_by = author, !.approved_by = Nobody]

LostScope(m, membership) == \E s \in m.scopes : membership[s] = Absent

LostReference(m, index) ==
    \/ ~ (m.files \subseteq KnownFiles(index))
    \/ ~ (m.symbols \subseteq KnownSymbols(index))

\* A scope that is gone outranks a file or a symbol that is gone.
ExistenceReaction(m, index, membership) ==
    IF LostScope(m, membership) THEN {SystemRevision(m, "orphaned", "system_staleness")}
    ELSE IF LostReference(m, index)
         THEN {SystemRevision(m, "review_required", "system_staleness")}
         ELSE {}

\* Mutant: a drifted source reported without moving the snapshot along.
SourceDriftOnly(m, index) ==
    IF SourceHashes(m, index) = m.source_hashes THEN {}
    ELSE {SystemRevision(m, "stale", "system_staleness")}

\* The snapshot moves along with the status, so that one change is one revision.
SourceDrift(m, index) ==
    IF SourceHashes(m, index) = m.source_hashes THEN {}
    ELSE {[SystemRevision(m, "stale", "system_staleness")
             EXCEPT !.source_hashes = SourceHashes(m, index)]}

ScopeDrift(m, membership) ==
    IF ScopeHashes(m, membership) = m.scope_hashes THEN {}
    ELSE {[SystemRevision(m, "review_required", "system_staleness")
             EXCEPT !.scope_hashes = ScopeHashes(m, membership)]}

\* Mutant: after expires_at and not at it.
ExpiryAfter(m, now) ==
    IF m.status # "stale" /\ now > m.expires
    THEN {SystemRevision(m, "stale", "system_lifecycle")} ELSE {}

Expiry(m, now) ==
    IF m.status # "stale" /\ now >= m.expires
    THEN {SystemRevision(m, "stale", "system_lifecycle")} ELSE {}

ModeReaction(m, index, membership, now) ==
    IF m.mode = "source_bound" THEN SourceDrift(m, index)
    ELSE IF m.mode = "scope_bound" THEN ScopeDrift(m, membership)
    ELSE IF m.mode = "temporary" THEN Expiry(m, now)
    ELSE {}

\* A Decision reacts to what disappears, never to what changes.
DecisionReaction(m, index, membership) ==
    IF m.status \in Terminal THEN {} ELSE ExistenceReaction(m, index, membership)

\* Mutant: a human's deactivation does not stop later transitions.
ConstraintReactionToAll(m, index, membership, now) ==
    IF m.mode = "persistent" THEN {}
    ELSE LET gone == ExistenceReaction(m, index, membership)
         IN  IF gone # {} THEN gone ELSE ModeReaction(m, index, membership, now)

\* Mutant: a rule that is to hold for good reacts to what disappears.
ConstraintReactionOfEveryMode(m, index, membership, now) ==
    IF m.status \in Terminal THEN {}
    ELSE LET gone == ExistenceReaction(m, index, membership)
         IN  IF gone # {} THEN gone ELSE ModeReaction(m, index, membership, now)

\* A persistent Constraint never reacts; any other reacts first to what
\* disappears, and only then as its mode says.
ConstraintReaction(m, index, membership, now) ==
    IF m.status \in Terminal \/ m.mode = "persistent" THEN {}
    ELSE LET gone == ExistenceReaction(m, index, membership)
         IN  IF gone # {} THEN gone ELSE ModeReaction(m, index, membership, now)

Reaction(m, index, membership, now) ==
    IF m.type = "decision" THEN DecisionReaction(m, index, membership)
                           ELSE ConstraintReaction(m, index, membership, now)

\* Every revision one run of `rune update` appends to decisions.jsonl and
\* constraints.jsonl.
Transitions(memory, index, membership, now) ==
    UNION {Reaction(m, index, membership, now) : m \in CurrentRevisions(memory)}
=============================================================================
