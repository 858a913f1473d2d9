------------------------------- MODULE Notes --------------------------------
(***************************************************************************)
(* Notes: what agents and humans write down without an approval            *)
(* (core/memory/notes.py), what `rune update` makes of them when the code, *)
(* the scopes or the time move on (core/memory/staleness.py), and what     *)
(* memory.db shows of them.  notes.jsonl only grows; a note is updated by  *)
(* appending its next revision.                                            *)
(*                                                                         *)
(* A command appends and then refreshes the cache; an update commits the   *)
(* cache and then appends.  The process can die, or the second step fail,  *)
(* between the two.  One process runs at a time; the tree and the clock    *)
(* move whenever they like.  A note is its bindings, expiry, snapshot and  *)
(* status; its texts and ratings are left out, and its category is kept    *)
(* for its default lifetime only.                                          *)
(***************************************************************************)
EXTENDS Lifecycle

CONSTANTS
    NoteIds,
    Bindings,       \* bound: what a caller may bind a note to
    Lifetimes,      \* the default lifetimes of the categories, Forever for most
    Forever,
    Deadlines,      \* bound: the expiry a caller names, Never to have none
    Statuses,       \* bound: the statuses a caller sets
    Unset,          \* an argument that is not given
    Authors,        \* bound: the actors that write notes
    MaxRevision     \* bound: revisions of one note

NoteStatus == {"active", "stale", "expired", "orphaned", "archived"}

Binding == [files : SUBSET Files, symbols : SUBSET Symbols, scopes : SUBSET Scopes]

ASSUME NotesAssumption ==
    /\ Bindings \subseteq Binding
    /\ Lifetimes \subseteq Nat \cup {Forever}
    /\ Forever \notin Nat
    /\ Deadlines \subseteq 0 .. Never
    /\ Statuses \subseteq NoteStatus
    /\ Unset \notin Binding
    /\ Unset \notin Nat
    /\ Unset \notin NoteStatus
    /\ Authors \subseteq Actor
    /\ MaxRevision \in Nat

VARIABLES
    tree,       \* the working tree
    known,      \* the ids in scopes.json
    clock,
    notes,      \* the lines of notes.jsonl
    cached,     \* whether memory.db exists
    index,      \* its files table
    view,       \* its note revisions
    run         \* the running command

vars == <<tree, known, clock, notes, cached, index, view, run>>

world == <<tree, known, clock>>
database == <<cached, index, view>>

-----------------------------------------------------------------------------

Note == [id : NoteIds, files : SUBSET Files, symbols : SUBSET Symbols,
         scopes : SUBSET Scopes, expires : Nat, revision : Nat \ {0},
         status : NoteStatus, source_hashes : Index, source : RevisionAuthor]

Idle == [step |-> "idle"]
Refreshing == [step |-> "refresh"]

Update == [step : {"commit", "append"}, index : Index, now : 0 .. MaxTime,
           new : SUBSET Note]

TypeOK ==
    /\ tree \in Index
    /\ known \subseteq Scopes
    /\ clock \in 0 .. MaxTime
    /\ notes \subseteq Note
    /\ cached \in BOOLEAN
    /\ index \in Index
    /\ view \subseteq Note
    /\ run \in {Idle, Refreshing} \cup Update

NoteRevisions(lines, id) == {n \in lines : n.id = id}

CurrentNotes(lines) == UNION {Current(NoteRevisions(lines, id)) : id \in NoteIds}

IsNoteVisible(n) == n.status \in {"active", "stale"}

-----------------------------------------------------------------------------
(* What the system makes of a note                                         *)

NoteTerminal == {"expired", "orphaned", "archived"}

NoteSystemRevision(n, status, author) ==
    [n EXCEPT !.revision = @ + 1, !.status = status, !.source = author]

\* Mutant: the status a record of another kind would get.
NoteDriftForReview(n, files) ==
    IF n.source_hashes = NoSourceHashes \/ SourceHashes(n, files) = n.source_hashes THEN {}
    ELSE {NoteSystemRevision(n, "review_required", "system_staleness")}

\* Only a snapshot that is not empty is compared; it moves along.
NoteDrift(n, files) ==
    IF n.source_hashes = NoSourceHashes \/ SourceHashes(n, files) = n.source_hashes THEN {}
    ELSE {[NoteSystemRevision(n, "stale", "system_staleness")
             EXCEPT !.source_hashes = SourceHashes(n, files)]}

\* Mutant: a note out of time is expired again and again.
NoteReactionToAll(n, files, scopes, now) ==
    IF ~ (n.scopes \subseteq scopes) THEN {NoteSystemRevision(n, "orphaned", "system_staleness")}
    ELSE IF now >= n.expires THEN {NoteSystemRevision(n, "expired", "system_lifecycle")}
    ELSE NoteDrift(n, files)

\* Mutant: a drifted source is reported before the lifetime is looked at.
NoteReactionDriftFirst(n, files, scopes, now) ==
    IF n.status \in NoteTerminal THEN {}
    ELSE IF ~ (n.scopes \subseteq scopes)
         THEN {NoteSystemRevision(n, "orphaned", "system_staleness")}
    ELSE IF NoteDrift(n, files) # {} THEN NoteDrift(n, files)
    ELSE IF now >= n.expires THEN {NoteSystemRevision(n, "expired", "system_lifecycle")}
    ELSE {}

\* A scope that is gone outranks the lifetime, the lifetime a changed source.
NoteReaction(n, files, scopes, now) ==
    IF n.status \in NoteTerminal THEN {}
    ELSE IF ~ (n.scopes \subseteq scopes)
         THEN {NoteSystemRevision(n, "orphaned", "system_staleness")}
    ELSE IF now >= n.expires THEN {NoteSystemRevision(n, "expired", "system_lifecycle")}
    ELSE NoteDrift(n, files)

\* detect_note_transitions()
NoteTransitions(lines, files, scopes, now) ==
    UNION {NoteReaction(n, files, scopes, now) : n \in CurrentNotes(lines)}

-----------------------------------------------------------------------------
(* What callers write                                                      *)

\* Every file and symbol must be in the index of the cache, every scope in
\* scopes.json.
ValidReferences(b) == ~ LostReference(b, index) /\ b.scopes \subseteq known

\* Mutant: numbering follows what the cache shows.
NextNoteRevisionShown(n) ==
    LET shown == Current(NoteRevisions(view, n.id))
    IN  IF shown = {} THEN 1 ELSE 1 + (CHOOSE m \in shown : TRUE).revision

NextNoteRevision(n) == n.revision + 1

Write(n) ==
    /\ run = Idle
    /\ n.revision <= MaxRevision
    /\ notes' = notes \cup {n}
    /\ run' = Refreshing
    /\ UNCHANGED <<world, database>>

\* The lifetime counts from now unless the caller names an instant.
Expires(lifetime, expires_at) ==
    IF expires_at # Unset THEN expires_at
    ELSE IF lifetime = Forever THEN Never ELSE clock + lifetime

NoteAdd(id, b, lifetime, expires_at, source) ==
    /\ NoteRevisions(notes, id) = {}
    /\ ValidReferences(b)
    /\ Write([id |-> id, files |-> b.files, symbols |-> b.symbols, scopes |-> b.scopes,
              expires |-> Expires(lifetime, expires_at), revision |-> 1,
              status |-> "active", source_hashes |-> SourceHashes(b, index),
              source |-> source])

\* New bindings are checked and take a new snapshot, which the caller can
\* also ask for by itself; otherwise the snapshot stays as it is, whatever
\* the new status.
NoteUpdate(n, status, b, recompute, expires_at, source) ==
    LET bound == IF b = Unset THEN n ELSE b
        again == b # Unset \/ recompute
    IN  /\ run = Idle
        /\ again => ValidReferences(bound)
        /\ Write([n EXCEPT
                    !.revision = NextNoteRevision(n),
                    !.files = bound.files, !.symbols = bound.symbols,
                    !.scopes = bound.scopes,
                    !.source_hashes = IF again THEN SourceHashes(bound, index) ELSE @,
                    !.status = IF status = Unset THEN @ ELSE status,
                    !.expires = IF expires_at = Unset THEN @ ELSE expires_at,
                    !.source = source])

\* refresh_cache() leaves a missing database missing.
Refresh ==
    /\ run = Refreshing
    /\ view' = IF cached THEN notes ELSE view
    /\ run' = Idle
    /\ UNCHANGED <<world, notes, cached, index>>

-----------------------------------------------------------------------------
(* `rune update`                                                           *)

\* Mutant: the notes are compared with what was indexed before.
BeginAgainstOldIndex ==
    /\ run = Idle
    /\ LET new == NoteTransitions(notes, index, known, clock)
       IN  /\ \A n \in new : n.revision <= MaxRevision
           /\ run' = [step |-> "commit", index |-> tree, now |-> clock, new |-> new]
    /\ UNCHANGED <<world, notes, database>>

\* The plan of the run, made from the new index and the notes as written.
Begin ==
    /\ run = Idle
    /\ LET new == NoteTransitions(notes, tree, known, clock)
       IN  /\ \A n \in new : n.revision <= MaxRevision
           /\ run' = [step |-> "commit", index |-> tree, now |-> clock, new |-> new]
    /\ UNCHANGED <<world, notes, database>>

Commit ==
    /\ run.step = "commit"
    /\ cached' = TRUE
    /\ index' = run.index
    /\ view' = notes \cup run.new
    /\ run' = [run EXCEPT !.step = "append"]
    /\ UNCHANGED <<world, notes>>

AppendNotes ==
    /\ run.step = "append"
    /\ notes' = notes \cup run.new
    /\ run' = Idle
    /\ UNCHANGED <<world, database>>

\* The append raises and the cache is discarded, or the cache is lost.
LoseCache ==
    /\ run = Idle \/ run.step = "append"
    /\ cached
    /\ cached' = FALSE
    /\ index' = NoSourceHashes
    /\ view' = {}
    /\ run' = Idle
    /\ UNCHANGED <<world, notes>>

\* Killed, or the commit is rolled back, or the refresh fails.
Die ==
    /\ run # Idle
    /\ run' = Idle
    /\ UNCHANGED <<world, notes, database>>

-----------------------------------------------------------------------------

EditTree(f, c) ==
    /\ tree[f] # c
    /\ tree' = [tree EXCEPT ![f] = c]
    /\ UNCHANGED <<known, clock, notes, database, run>>

\* `rune scope create` and `rune scope delete`.
EditScopes(ids) ==
    /\ run = Idle
    /\ ids # known
    /\ known' = ids
    /\ UNCHANGED <<tree, clock, notes, database, run>>

Tick ==
    /\ clock < MaxTime
    /\ clock' = clock + 1
    /\ UNCHANGED <<tree, known, notes, database, run>>

Init ==
    /\ tree \in [Files -> Hashes \cup {Absent}]
    /\ known \in SUBSET Scopes
    /\ clock = 0
    /\ notes = {}
    /\ cached = FALSE
    /\ index = NoSourceHashes
    /\ view = {}
    /\ run = Idle

Next ==
    \/ \E id \in NoteIds, b \in Bindings, t \in Lifetimes, e \in Deadlines \cup {Unset}, a \in Authors :
          NoteAdd(id, b, t, e, a)
    \/ \E n \in CurrentNotes(notes), s \in Statuses \cup {Unset},
          b \in Bindings \cup {Unset}, again \in BOOLEAN, e \in Deadlines \cup {Unset}, a \in Authors :
          NoteUpdate(n, s, b, again, e, a)
    \/ Refresh
    \/ Begin
    \/ Commit
    \/ AppendNotes
    \/ LoseCache
    \/ Die
    \/ \E f \in Files, c \in Hashes \cup {Absent} : EditTree(f, c)
    \/ \E ids \in SUBSET Scopes : EditScopes(ids)
    \/ Tick

Spec == Init /\ [][Next]_vars

-----------------------------------------------------------------------------
(* Properties                                                              *)

\* The revisions of a note are 1, 2, ... with no number twice, although the
\* cache may show a revision that was never appended, or miss one that was.
NoteRevisionsContiguous ==
    \A n, k \in notes : n.id = k.id =>
        /\ n.revision = k.revision => n = k
        /\ n.revision > 1 => \E j \in notes : j.id = n.id /\ j.revision = n.revision - 1

\* What the system appends is worth a line: a full copy of the revision before
\* with another status or another snapshot.  Nothing final is touched, and what
\* it says is expired or orphaned is final (core/memory/staleness.py:212).
SystemRevisionsSaySomething ==
    \A n, k \in notes :
        (n.id = k.id /\ n.revision = k.revision + 1 /\ n.source \notin Actor) =>
            /\ k.status \notin NoteTerminal
            /\ n.status # k.status \/ n.source_hashes # k.source_hashes
            /\ [n EXCEPT !.revision = k.revision, !.status = k.status, !.source = k.source,
                         !.source_hashes = k.source_hashes] = k

\* After an update the notes readers are shown can be relied on: their scopes
\* exist, their time had not come when it began, a snapshot they have is of
\* what is indexed, and another update would append nothing.
NotesSettled(now) ==
    /\ view = notes
    /\ NoteTransitions(notes, index, known, now) = {}
    /\ \A n \in CurrentNotes(view) : IsNoteVisible(n) =>
          /\ n.scopes \subseteq known
          /\ now < n.expires
          /\ n.source_hashes \in {NoSourceHashes, SourceHashes(n, index)}

UpdateSettlesNotes ==
    [][\A now \in 0 .. MaxTime : (AppendNotes /\ run.now = now) => NotesSettled(now)']_vars

\* Of several reasons to give a note up at once the one recorded is the first
\* that DATA_MODEL.md, section 6, lists: it is final and never looked at again.
FirstReasonWins ==
    [][AppendNotes => \A n \in run.new :
          /\ n.status = "orphaned" <=> ~ (n.scopes \subseteq known)
          /\ n.status = "expired" => run.now >= n.expires
          /\ n.status = "stale" => run.now < n.expires]_vars

-----------------------------------------------------------------------------
(* The abstract specification this one implements                          *)

\* notes.jsonl is a revision log although the cache may show a revision that
\* was never appended or miss one that was, and although callers set any
\* status at any time: what is final is only ever written again by a caller.
Log == INSTANCE RevisionLog WITH
    Line <- Note, Final <- NoteTerminal,
    ByHand <- {n \in Note : n.source \in Actor},
    Id <- [n \in Note |-> n.id],
    Content <- [n \in Note |-> <<n.files, n.symbols, n.scopes, n.expires>>],
    Condition <- [n \in Note |-> <<n.status, n.source_hashes>>],
    log <- notes

LogSpec == Log!Spec
=============================================================================
