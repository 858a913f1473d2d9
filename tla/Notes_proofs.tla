---------------------------- MODULE Notes_proofs ----------------------------
(***************************************************************************)
(* Proofs about module Notes, for any notes, bindings, lifetimes and code, *)
(* and any bound on revisions and on time.                                 *)
(***************************************************************************)
EXTENDS Notes, TLAPS

-----------------------------------------------------------------------------
(* What one update makes of one note                                       *)

\* n says of the note of revision k that it is given up, or that its source
\* has changed, and otherwise says the same.
SystemCopy(k, n) ==
    /\ n \in Note /\ n.id = k.id /\ n.revision = k.revision + 1
    /\ n.files = k.files /\ n.symbols = k.symbols /\ n.scopes = k.scopes
    /\ n.expires = k.expires
    /\ n.source \notin Actor
    /\ k.status \notin NoteTerminal
    /\ n.status # k.status \/ n.source_hashes # k.source_hashes

\* Why n is what it is.
Reasons(n, files, scopes, now) ==
    \/ n.status = "orphaned" /\ ~ (n.scopes \subseteq scopes)
    \/ n.status = "expired" /\ n.scopes \subseteq scopes /\ now >= n.expires
    \/ /\ n.status = "stale" /\ n.scopes \subseteq scopes /\ ~ (now >= n.expires)
       /\ n.source_hashes = SourceHashes(n, files)

LEMMA SnapshotType ==
    ASSUME NEW n, NEW files \in Index
    PROVE  SourceHashes(n, files) \in Index
BY DEF SourceHashes, Index

LEMMA SystemRevisionIsCopy ==
    ASSUME NEW k \in Note, NEW status \in NoteStatus, status # k.status,
           k.status \notin NoteTerminal,
           NEW author \in {"system_staleness", "system_lifecycle"}
    PROVE  /\ SystemCopy(k, NoteSystemRevision(k, status, author))
           /\ NoteSystemRevision(k, status, author).status = status
<1> DEFINE n == NoteSystemRevision(k, status, author)
<1>1. author \in RevisionAuthor /\ author \notin Actor
  BY DEF RevisionAuthor, Actor
<1>2. k.revision + 1 \in Nat \ {0}
  BY DEF Note
<1>3. n \in Note
  BY <1>1, <1>2, Zenon DEF NoteSystemRevision, Note
<1>4. /\ n.id = k.id /\ n.revision = k.revision + 1 /\ n.files = k.files
      /\ n.symbols = k.symbols /\ n.scopes = k.scopes /\ n.expires = k.expires
      /\ n.status = status /\ n.source = author
  BY DEF NoteSystemRevision, Note
<1> HIDE DEF n
<1>5. QED
  BY <1>1, <1>3, <1>4 DEF SystemCopy, n

LEMMA DriftIsCopy ==
    ASSUME NEW k \in Note, NEW files \in Index, NEW n \in NoteDrift(k, files),
           k.status \notin NoteTerminal
    PROVE  /\ SystemCopy(k, n)
           /\ n.status = "stale" /\ n.source_hashes = SourceHashes(n, files)
<1> DEFINE hashes == SourceHashes(k, files)
           r == NoteSystemRevision(k, "stale", "system_staleness")
<1>1. n = [r EXCEPT !.source_hashes = hashes] /\ hashes # k.source_hashes
  BY DEF NoteDrift
<1>2. hashes \in Index
  BY SnapshotType
<1>3. /\ "stale" \in NoteStatus /\ "system_staleness" \in RevisionAuthor
      /\ "system_staleness" \notin Actor
  BY DEF NoteStatus, RevisionAuthor, Actor
<1>4. k.revision + 1 \in Nat \ {0}
  BY DEF Note
<1>5. r \in Note
  BY <1>3, <1>4, Zenon DEF NoteSystemRevision, Note
<1>6. /\ r.id = k.id /\ r.revision = k.revision + 1 /\ r.files = k.files
      /\ r.symbols = k.symbols /\ r.scopes = k.scopes /\ r.expires = k.expires
      /\ r.status = "stale" /\ r.source = "system_staleness"
  BY DEF NoteSystemRevision, Note
<1> HIDE DEF hashes, r
<1>7. n \in Note
  BY <1>1, <1>2, <1>5, Zenon DEF Note
<1>8. /\ n.id = r.id /\ n.revision = r.revision /\ n.files = r.files
      /\ n.symbols = r.symbols /\ n.scopes = r.scopes /\ n.expires = r.expires
      /\ n.status = r.status /\ n.source = r.source /\ n.source_hashes = hashes
  BY <1>1, <1>5 DEF Note
<1>9. SourceHashes(n, files) = hashes
  BY <1>6, <1>8 DEF SourceHashes, hashes
<1>10. QED
  BY <1>1, <1>3, <1>6, <1>7, <1>8, <1>9 DEF SystemCopy

LEMMA ReactionSound ==
    ASSUME NEW k \in Note, NEW files \in Index, NEW scopes, NEW now \in Nat,
           NEW n \in NoteReaction(k, files, scopes, now)
    PROVE  SystemCopy(k, n) /\ Reasons(n, files, scopes, now)
<1>1. k.status \notin NoteTerminal
  BY DEF NoteReaction
<1>2. CASE ~ (k.scopes \subseteq scopes)
  <2>1. n = NoteSystemRevision(k, "orphaned", "system_staleness")
    BY <1>1, <1>2 DEF NoteReaction
  <2>2. "orphaned" \in NoteStatus /\ "orphaned" # k.status
    BY <1>1 DEF NoteStatus, NoteTerminal
  <2>3. SystemCopy(k, n) /\ n.status = "orphaned"
    BY <1>1, <2>1, <2>2, SystemRevisionIsCopy
  <2>4. QED
    BY <1>2, <2>3 DEF SystemCopy, Reasons
<1>3. CASE k.scopes \subseteq scopes /\ now >= k.expires
  <2>1. n = NoteSystemRevision(k, "expired", "system_lifecycle")
    BY <1>1, <1>3 DEF NoteReaction
  <2>2. "expired" \in NoteStatus /\ "expired" # k.status
    BY <1>1 DEF NoteStatus, NoteTerminal
  <2>3. SystemCopy(k, n) /\ n.status = "expired"
    BY <1>1, <2>1, <2>2, SystemRevisionIsCopy
  <2>4. QED
    BY <1>3, <2>3 DEF SystemCopy, Reasons
<1>4. CASE k.scopes \subseteq scopes /\ ~ (now >= k.expires)
  <2>1. n \in NoteDrift(k, files)
    BY <1>1, <1>4 DEF NoteReaction
  <2>2. SystemCopy(k, n) /\ n.status = "stale" /\ n.source_hashes = SourceHashes(n, files)
    BY <1>1, <2>1, DriftIsCopy
  <2>3. QED
    BY <1>4, <2>2 DEF SystemCopy, Reasons
<1>5. QED
  BY <1>2, <1>3, <1>4

\* At most one revision, and none that would call for another at once.
LEMMA ReactionQuiescent ==
    ASSUME NEW k \in Note, NEW files \in Index, NEW scopes, NEW now \in Nat,
           NEW n \in NoteReaction(k, files, scopes, now)
    PROVE  /\ NoteReaction(k, files, scopes, now) = {n}
           /\ NoteReaction(n, files, scopes, now) = {}
<1>1. NoteReaction(k, files, scopes, now) = {n}
  BY DEF NoteReaction, NoteDrift
<1>2. Reasons(n, files, scopes, now)
  BY ReactionSound
<1>3. NoteReaction(n, files, scopes, now) = {}
  BY <1>2 DEF Reasons, NoteReaction, NoteTerminal, NoteDrift
<1>4. QED
  BY <1>1, <1>3

-----------------------------------------------------------------------------
(* Numbering                                                               *)

Contiguous(L) ==
    \A n, k \in L : n.id = k.id =>
        /\ n.revision = k.revision => n = k
        /\ n.revision > 1 => \E j \in L : j.id = n.id /\ j.revision = n.revision - 1

SaySomething(L) ==
    \A n, k \in L :
        (n.id = k.id /\ n.revision = k.revision + 1 /\ n.source \notin Actor)
            => SystemCopy(k, n)

Numbered(L) == L \subseteq Note /\ Contiguous(L) /\ SaySomething(L)

\* What may be appended to lines L: the first revision of a note, or one that
\* follows the current one, and a system's only for a reason.
Follows(L, n) ==
    \/ NoteRevisions(L, n.id) = {} /\ n.revision = 1 /\ n.source \in Actor
    \/ \E k \in Current(NoteRevisions(L, n.id)) :
          n.revision = k.revision + 1 /\ (n.source \in Actor \/ SystemCopy(k, n))

LEMMA CurrentIsUnique ==
    ASSUME NEW L, Numbered(L), NEW id, NEW n \in Current(NoteRevisions(L, id))
    PROVE  /\ Current(NoteRevisions(L, id)) = {n}
           /\ n \in L /\ n \in Note /\ n.id = id
<1>1. \A k \in Current(NoteRevisions(L, id)) :
          /\ k \in L /\ k.id = id /\ k \in Note
          /\ k.revision <= n.revision /\ n.revision <= k.revision
  BY DEF Current, NoteRevisions, Numbered
<1>2. ASSUME NEW k \in Current(NoteRevisions(L, id))
      PROVE  k = n
  <2>1. k.revision \in Nat /\ n.revision \in Nat
    BY <1>1, <1>2 DEF Note
  <2>2. k.revision = n.revision
    BY <1>1, <1>2, <2>1
  <2>3. QED
    BY <1>1, <1>2, <2>2 DEF Numbered, Contiguous
<1>3. QED
  BY <1>1, <1>2

LEMMA CurrentNotesAreCurrent ==
    ASSUME NEW L, Numbered(L), NEW n \in CurrentNotes(L)
    PROVE  /\ n \in L /\ n \in Note
           /\ n \in Current(NoteRevisions(L, n.id)) /\ n.id \in NoteIds
<1>1. PICK id \in NoteIds : n \in Current(NoteRevisions(L, id))
  BY DEF CurrentNotes
<1>2. QED
  BY <1>1, CurrentIsUnique

LEMMA FollowsIsFresh ==
    ASSUME NEW L, Numbered(L), NEW n \in Note, Follows(L, n)
    PROVE  /\ \A k \in L : k.id = n.id => k.revision < n.revision
           /\ n.revision > 1 => \E j \in L : j.id = n.id /\ j.revision = n.revision - 1
<1>1. \A k \in L : k.revision \in Nat
  BY DEF Numbered, Note
<1>2. CASE NoteRevisions(L, n.id) = {} /\ n.revision = 1
  BY <1>2 DEF NoteRevisions
<1>3. CASE \E k \in Current(NoteRevisions(L, n.id)) : n.revision = k.revision + 1
  <2>1. PICK k \in Current(NoteRevisions(L, n.id)) : n.revision = k.revision + 1
    BY <1>3
  <2>2. /\ k \in L /\ k.id = n.id
        /\ \A j \in L : j.id = n.id => j.revision <= k.revision
    BY DEF Current, NoteRevisions
  <2>3. QED
    BY <1>1, <2>1, <2>2
<1>4. QED
  BY <1>2, <1>3 DEF Follows

\* Appending to each note at most one revision keeps the numbering and adds
\* no line that says nothing.
LEMMA AppendKeeps ==
    ASSUME NEW L, Numbered(L), NEW N \in SUBSET Note,
           \A n \in N : Follows(L, n),
           \A n, k \in N : n.id = k.id => n = k
    PROVE  Numbered(L \cup N)
<1>1. \A n \in N : \A k \in L : k.id = n.id => k.revision < n.revision
  BY FollowsIsFresh
<1>2. \A n \in L \cup N : n \in Note /\ n.revision \in Nat \ {0}
  BY DEF Note, Numbered
<1>3. Contiguous(L \cup N)
  <2> SUFFICES ASSUME NEW n \in L \cup N, NEW k \in L \cup N, n.id = k.id
               PROVE  /\ n.revision = k.revision => n = k
                      /\ n.revision > 1 =>
                            \E j \in L \cup N : j.id = n.id /\ j.revision = n.revision - 1
    BY DEF Contiguous
  <2>1. n.revision = k.revision => n = k
    <3>1. CASE n \in L /\ k \in L
      BY <3>1 DEF Numbered, Contiguous
    <3>2. CASE n \in N /\ k \in N
      BY <3>2
    <3>3. CASE \/ n \in N /\ k \in L
               \/ n \in L /\ k \in N
      BY <1>1, <1>2, <3>3
    <3>4. QED
      BY <3>1, <3>2, <3>3
  <2>2. ASSUME n.revision > 1
        PROVE  \E j \in L \cup N : j.id = n.id /\ j.revision = n.revision - 1
    <3>1. CASE n \in L
      BY <2>2, <3>1 DEF Numbered, Contiguous
    <3>2. CASE n \in N
      BY <2>2, <3>2, FollowsIsFresh
    <3>3. QED
      BY <3>1, <3>2
  <2>3. QED
    BY <2>1, <2>2
<1>4. SaySomething(L \cup N)
  <2> SUFFICES ASSUME NEW n \in L \cup N, NEW k \in L \cup N, n.id = k.id,
                      n.revision = k.revision + 1, n.source \notin Actor
               PROVE  SystemCopy(k, n)
    BY DEF SaySomething
  <2>1. CASE n \in L /\ k \in L
    BY <2>1 DEF Numbered, SaySomething
  <2>2. CASE n \in N /\ k \in L
    <3>1. PICK j \in Current(NoteRevisions(L, n.id)) :
             n.revision = j.revision + 1 /\ SystemCopy(j, n)
      BY <2>2 DEF Follows
    <3>2. j \in L /\ j.id = k.id /\ j.revision = k.revision
      BY <1>2, <2>2, <3>1 DEF Current, NoteRevisions
    <3>3. j = k
      BY <2>2, <3>2 DEF Numbered, Contiguous
    <3>4. QED
      BY <3>1, <3>3
  <2>3. CASE n \in N /\ k \in N
    BY <1>2, <2>3
  <2>4. CASE n \in L /\ k \in N
    BY <1>1, <1>2, <2>4
  <2>5. QED
    BY <2>1, <2>2, <2>3, <2>4
<1>5. QED
  BY <1>3, <1>4 DEF Numbered

\* What a run plans may be appended, and settles what it planned for.
LEMMA TransitionsFollow ==
    ASSUME NEW L, Numbered(L), NEW files \in Index, NEW scopes, NEW now \in Nat
    PROVE  LET N == NoteTransitions(L, files, scopes, now)
           IN  /\ N \in SUBSET Note
               /\ \A n \in N : Follows(L, n) /\ Reasons(n, files, scopes, now)
               /\ \A n, k \in N : n.id = k.id => n = k
<1> DEFINE N == NoteTransitions(L, files, scopes, now)
<1>1. ASSUME NEW n \in N
      PROVE  \E k \in Current(NoteRevisions(L, n.id)) :
                /\ k \in Note /\ SystemCopy(k, n) /\ Reasons(n, files, scopes, now)
                /\ NoteReaction(k, files, scopes, now) = {n}
  <2>1. PICK k \in CurrentNotes(L) : n \in NoteReaction(k, files, scopes, now)
    BY DEF NoteTransitions
  <2>2. k \in Note /\ k \in Current(NoteRevisions(L, k.id))
    BY CurrentNotesAreCurrent
  <2>3. /\ SystemCopy(k, n) /\ Reasons(n, files, scopes, now)
        /\ NoteReaction(k, files, scopes, now) = {n}
    BY <2>1, <2>2, ReactionSound, ReactionQuiescent
  <2>4. n.id = k.id
    BY <2>3 DEF SystemCopy
  <2>5. QED
    BY <2>2, <2>3, <2>4
<1> HIDE DEF N
<1>2. N \in SUBSET Note
  BY <1>1 DEF SystemCopy
<1>3. \A n \in N : Follows(L, n) /\ Reasons(n, files, scopes, now)
  BY <1>1 DEF Follows, SystemCopy
<1>4. ASSUME NEW n \in N, NEW m \in N, n.id = m.id
      PROVE  n = m
  <2>1. PICK k \in Current(NoteRevisions(L, n.id)) :
           NoteReaction(k, files, scopes, now) = {n}
    BY <1>1
  <2>2. PICK j \in Current(NoteRevisions(L, m.id)) :
           NoteReaction(j, files, scopes, now) = {m}
    BY <1>1
  <2>3. j = k
    BY <1>4, CurrentIsUnique
  <2>4. QED
    BY <2>1, <2>2, <2>3
<1>5. QED
  BY <1>2, <1>3, <1>4 DEF N

LEMMA TransitionsSettle ==
    ASSUME NEW L, Numbered(L), NEW files \in Index, NEW scopes, NEW now \in Nat
    PROVE  LET N == NoteTransitions(L, files, scopes, now)
           IN  NoteTransitions(L \cup N, files, scopes, now) = {}
<1> DEFINE N == NoteTransitions(L, files, scopes, now)
<1>1. N \in SUBSET Note /\ Numbered(L \cup N)
  BY TransitionsFollow, AppendKeeps
<1>2. ASSUME NEW m \in CurrentNotes(L \cup N)
      PROVE  NoteReaction(m, files, scopes, now) = {}
  <2>1. /\ m \in L \cup N /\ m \in Note
        /\ m \in Current(NoteRevisions(L \cup N, m.id)) /\ m.id \in NoteIds
    BY <1>1, <1>2, CurrentNotesAreCurrent
  <2>2. CASE m \in N
    <3>1. PICK k \in CurrentNotes(L) : m \in NoteReaction(k, files, scopes, now)
      BY <2>2 DEF NoteTransitions
    <3>2. k \in Note
      BY CurrentNotesAreCurrent
    <3>3. QED
      BY <3>1, <3>2, ReactionQuiescent
  <2>3. CASE m \in L
    <3>1. SUFFICES ASSUME NEW n \in NoteReaction(m, files, scopes, now)
                   PROVE  FALSE
      OBVIOUS
    <3>2. m \in CurrentNotes(L)
      BY <2>1, <2>3 DEF CurrentNotes, Current, NoteRevisions
    <3>3. n \in N
      BY <3>1, <3>2 DEF NoteTransitions
    <3>4. SystemCopy(m, n)
      BY <2>1, <3>1, ReactionSound
    <3>5. n.revision <= m.revision
      BY <2>1, <3>3, <3>4 DEF Current, NoteRevisions, SystemCopy
    <3>6. QED
      BY <2>1, <3>4, <3>5 DEF SystemCopy, Note
  <2>4. QED
    BY <2>1, <2>2, <2>3
<1>3. QED
  BY <1>2 DEF NoteTransitions

-----------------------------------------------------------------------------
(* The inductive invariant                                                 *)

\* What a running update is about to append is still what it should: nothing
\* else writes notes or scopes meanwhile.  What readers see is ahead by it.
PlanFollows ==
    /\ run.step \in {"commit", "append"} =>
          run.new = NoteTransitions(notes, run.index, known, run.now)
    /\ run.step = "append" =>
          index = run.index /\ view = notes \cup run.new

IInv == TypeOK /\ Numbered(notes) /\ PlanFollows

LEMMA UpdateIsNoOther ==
    /\ Idle.step = "idle" /\ Refreshing.step = "refresh"
    /\ \A r \in {Idle, Refreshing} \cup Update :
          r.step \in {"commit", "append"} => r \in Update
    /\ \A r \in Update :
          /\ r.index \in Index /\ r.now \in 0 .. MaxTime /\ r.new \in SUBSET Note
          /\ [r EXCEPT !.step = "append"] \in Update
          /\ [r EXCEPT !.step = "append"].step = "append"
          /\ [r EXCEPT !.step = "append"].index = r.index
          /\ [r EXCEPT !.step = "append"].new = r.new
          /\ [r EXCEPT !.step = "append"].now = r.now
BY DEF Idle, Refreshing, Update

LEMMA InitInv == Init => IInv
<1> SUFFICES ASSUME Init PROVE IInv
  OBVIOUS
<1>1. NoSourceHashes \in Index /\ 0 \in 0 .. MaxTime
  BY LifecycleAssumption DEF NoSourceHashes, Index
<1>2. TypeOK
  BY <1>1 DEF Init, TypeOK, Index
<1>3. Numbered(notes)
  BY DEF Init, Numbered, Contiguous, SaySomething
<1>4. PlanFollows
  BY UpdateIsNoOther DEF Init, PlanFollows
<1>5. QED
  BY <1>2, <1>3, <1>4 DEF IInv

\* A caller appends one revision.
LEMMA WriteKeeps ==
    ASSUME IInv, NEW n \in Note, Follows(notes, n), Write(n)
    PROVE  IInv'
<1>1. /\ notes' = notes \cup {n} /\ run' = Refreshing
      /\ UNCHANGED <<world, database>>
  BY DEF Write
<1>2. TypeOK'
  BY <1>1 DEF IInv, TypeOK, world, database
<1>3. Numbered(notes \cup {n})
  BY AppendKeeps DEF IInv
<1>4. PlanFollows'
  BY <1>1, UpdateIsNoOther DEF PlanFollows
<1>5. QED
  BY <1>1, <1>2, <1>3, <1>4 DEF IInv

\* What the two commands append is a note that follows, in its author's name.
CallerWrites(n) ==
    n \in Note /\ n.source \in Actor /\ Follows(notes, n) /\ Write(n)

LEMMA NoteAddWrites ==
    ASSUME NotesAssumption, IInv, NEW id \in NoteIds, NEW b \in Bindings,
           NEW t \in Lifetimes, NEW e \in Deadlines \cup {Unset}, NEW a \in Authors,
           NoteAdd(id, b, t, e, a)
    PROVE  \E n : CallerWrites(n)
<1> DEFINE hashes == SourceHashes(b, index)
           expires == Expires(t, e)
           n == [id |-> id, files |-> b.files, symbols |-> b.symbols, scopes |-> b.scopes,
                 expires |-> expires, revision |-> 1, status |-> "active",
                 source_hashes |-> hashes, source |-> a]
<1>1. hashes \in Index
  BY SnapshotType DEF IInv, TypeOK
<1>2. expires \in Nat
  BY LifecycleAssumption DEF IInv, TypeOK, Expires, NotesAssumption, Never
<1>3. /\ b.files \in SUBSET Files /\ b.symbols \in SUBSET Symbols
      /\ b.scopes \in SUBSET Scopes
  BY DEF NotesAssumption, Binding
<1>4. a \in Actor /\ a \in RevisionAuthor /\ "active" \in NoteStatus /\ 1 \in Nat \ {0}
  BY DEF NotesAssumption, RevisionAuthor, NoteStatus
<1>5. NoteRevisions(notes, id) = {} /\ Write(n)
  BY DEF NoteAdd
<1> HIDE DEF hashes, expires
<1>6. n \in Note
  BY <1>1, <1>2, <1>3, <1>4 DEF Note
<1>7. Follows(notes, n) /\ n.source = a
  BY <1>4, <1>5 DEF Follows
<1> HIDE DEF n
<1>8. QED
  BY <1>4, <1>5, <1>6, <1>7 DEF CallerWrites

LEMMA NoteUpdateWrites ==
    ASSUME NotesAssumption, IInv, NEW n \in CurrentNotes(notes),
           NEW s \in Statuses \cup {Unset}, NEW b \in Bindings \cup {Unset},
           NEW again \in BOOLEAN, NEW e \in Deadlines \cup {Unset}, NEW a \in Authors,
           NoteUpdate(n, s, b, again, e, a)
    PROVE  \E m : CallerWrites(m)
<1> DEFINE bound == IF b = Unset THEN n ELSE b
           hashes == IF b # Unset \/ again THEN SourceHashes(bound, index)
                                           ELSE n.source_hashes
           status == IF s = Unset THEN n.status ELSE s
           expires == IF e = Unset THEN n.expires ELSE e
           m == [n EXCEPT !.revision = NextNoteRevision(n), !.files = bound.files,
                          !.symbols = bound.symbols, !.scopes = bound.scopes,
                          !.source_hashes = hashes, !.status = status,
                          !.expires = expires, !.source = a]
<1>1. n \in Note /\ n \in Current(NoteRevisions(notes, n.id))
  BY CurrentNotesAreCurrent DEF IInv
<1>2. hashes \in Index
  BY <1>1, SnapshotType DEF IInv, TypeOK, Note
<1>3. expires \in Nat /\ status \in NoteStatus
  <2>1. Deadlines \subseteq Nat
    BY LifecycleAssumption DEF NotesAssumption, Never
  <2>2. QED
    BY <1>1, <2>1 DEF Note, NotesAssumption
<1>4. /\ bound.files \in SUBSET Files /\ bound.symbols \in SUBSET Symbols
      /\ bound.scopes \in SUBSET Scopes
  BY <1>1 DEF NotesAssumption, Binding, Note
<1>5. a \in Actor /\ a \in RevisionAuthor
  BY DEF NotesAssumption, RevisionAuthor
<1>6. NextNoteRevision(n) = n.revision + 1 /\ NextNoteRevision(n) \in Nat \ {0}
  BY <1>1 DEF NextNoteRevision, Note
<1>7. Write(m)
  BY DEF NoteUpdate
<1> HIDE DEF bound, hashes, status, expires
<1>8. m \in Note
  BY <1>1, <1>2, <1>3, <1>4, <1>5, <1>6, Zenon DEF Note
<1>9. m.id = n.id /\ m.revision = n.revision + 1 /\ m.source = a
  BY <1>1, <1>6 DEF Note
<1>10. Follows(notes, m)
  BY <1>1, <1>5, <1>9 DEF Follows
<1> HIDE DEF m
<1>11. QED
  BY <1>5, <1>7, <1>8, <1>9, <1>10 DEF CallerWrites

LEMMA CallerKeeps ==
    ASSUME IInv, NEW n, CallerWrites(n)
    PROVE  IInv'
BY WriteKeeps DEF CallerWrites

LEMMA BeginKeeps ==
    ASSUME IInv, Begin
    PROVE  IInv'
<1> DEFINE new == NoteTransitions(notes, tree, known, clock)
<1>1. /\ run' = [step |-> "commit", index |-> tree, now |-> clock, new |-> new]
      /\ UNCHANGED <<world, notes, database>>
  BY DEF Begin
<1>2. tree \in Index /\ clock \in 0 .. MaxTime /\ clock \in Nat
  BY LifecycleAssumption DEF IInv, TypeOK
<1>3. new \in SUBSET Note
  BY <1>2, TransitionsFollow DEF IInv
<1>4. run'.step = "commit" /\ run'.new = new /\ run'.index = tree /\ run'.now = clock
  BY <1>1
<1> HIDE DEF new
<1>5. run' \in Update
  BY <1>1, <1>2, <1>3 DEF Update
<1>6. TypeOK'
  BY <1>1, <1>5 DEF IInv, TypeOK, world, database
<1>7. PlanFollows'
  BY <1>1, <1>4 DEF PlanFollows, new, world
<1>8. QED
  BY <1>1, <1>6, <1>7 DEF IInv

\* An append of what was planned, and what it leaves.
LEMMA AppendIsPlanned ==
    ASSUME IInv, AppendNotes
    PROVE  /\ run \in Update /\ run.index \in Index /\ run.now \in Nat
           /\ run.new = NoteTransitions(notes, run.index, known, run.now)
           /\ notes' = notes \cup run.new
           /\ view' = notes' /\ index' = run.index
           /\ UNCHANGED <<world, database>>
<1>1. run \in Update
  BY UpdateIsNoOther DEF AppendNotes, IInv, TypeOK
<1>2. run.index \in Index /\ run.now \in Nat
  <2>1. run.index \in Index /\ run.now \in 0 .. MaxTime
    BY <1>1, UpdateIsNoOther
  <2>2. QED
    BY <2>1, LifecycleAssumption
<1>3. QED
  BY <1>1, <1>2 DEF AppendNotes, IInv, PlanFollows, database

LEMMA AppendNotesKeeps ==
    ASSUME IInv, AppendNotes
    PROVE  IInv'
<1>1. /\ run.index \in Index /\ run.now \in Nat
      /\ run.new = NoteTransitions(notes, run.index, known, run.now)
      /\ notes' = notes \cup run.new
      /\ UNCHANGED <<world, database>>
  BY AppendIsPlanned
<1>2. Numbered(notes)
  BY DEF IInv
<1>3. Numbered(notes')
  BY <1>1, <1>2, TransitionsFollow, AppendKeeps
<1>4. run' = Idle
  BY DEF AppendNotes
<1>5. TypeOK'
  BY <1>1, <1>3, <1>4 DEF IInv, TypeOK, Numbered, world, database
<1>6. PlanFollows'
  BY <1>4, UpdateIsNoOther DEF PlanFollows
<1>7. QED
  BY <1>3, <1>5, <1>6 DEF IInv

LEMMA CommitKeeps ==
    ASSUME IInv, Commit
    PROVE  IInv'
<1>1. run \in Update
  BY UpdateIsNoOther DEF Commit, IInv, TypeOK
<1>2. /\ run.new = NoteTransitions(notes, run.index, known, run.now)
      /\ run.index \in Index /\ run.new \in SUBSET Note
  BY <1>1, UpdateIsNoOther DEF Commit, IInv, PlanFollows
<1>3. /\ cached' = TRUE /\ index' = run.index /\ view' = notes \cup run.new
      /\ run' = [run EXCEPT !.step = "append"] /\ UNCHANGED <<world, notes>>
  BY DEF Commit
<1>4. /\ run' \in Update /\ run'.index = run.index /\ run'.new = run.new
      /\ run'.now = run.now /\ run'.step = "append"
  BY <1>1, <1>3, UpdateIsNoOther
<1>5. TypeOK'
  BY <1>2, <1>3, <1>4 DEF IInv, TypeOK, world
<1>6. PlanFollows'
  BY <1>2, <1>3, <1>4 DEF PlanFollows, world
<1>7. QED
  BY <1>3, <1>5, <1>6 DEF IInv

\* What leaves the notes alone.
LEMMA OthersKeep ==
    ASSUME IInv,
           \/ Refresh \/ LoseCache \/ Die
           \/ \E f \in Files, c \in Hashes \cup {Absent} : EditTree(f, c)
           \/ \E ids \in SUBSET Scopes : EditScopes(ids)
           \/ Tick
           \/ UNCHANGED vars
    PROVE  IInv'
<1>1. CASE Refresh \/ LoseCache \/ Die
  <2>1. NoSourceHashes \in Index
    BY DEF NoSourceHashes, Index
  <2>2. /\ run' = Idle /\ UNCHANGED <<world, notes>>
        /\ cached' \in BOOLEAN /\ index' \in Index /\ view' \in SUBSET Note
    BY <1>1, <2>1 DEF Refresh, LoseCache, Die, database, IInv, TypeOK
  <2>3. QED
    BY <2>2, UpdateIsNoOther DEF IInv, TypeOK, PlanFollows, world
<1>2. CASE \E f \in Files, c \in Hashes \cup {Absent} : EditTree(f, c)
  <2>1. tree' \in Index /\ UNCHANGED <<known, clock, notes, database, run>>
    BY <1>2 DEF EditTree, IInv, TypeOK, Index
  <2>2. QED
    BY <2>1 DEF IInv, TypeOK, PlanFollows, database
<1>3. CASE \E ids \in SUBSET Scopes : EditScopes(ids)
  <2>1. run = Idle /\ known' \subseteq Scopes /\ UNCHANGED <<tree, clock, notes, database, run>>
    BY <1>3 DEF EditScopes
  <2>2. QED
    BY <2>1, UpdateIsNoOther DEF IInv, TypeOK, PlanFollows, database
<1>4. CASE Tick
  <2>1. clock' \in 0 .. MaxTime /\ UNCHANGED <<tree, known, notes, database, run>>
    BY <1>4, LifecycleAssumption DEF Tick, IInv, TypeOK
  <2>2. QED
    BY <2>1 DEF IInv, TypeOK, PlanFollows, database
<1>5. CASE UNCHANGED vars
  BY <1>5 DEF vars, IInv, TypeOK, PlanFollows
<1>6. QED
  BY <1>1, <1>2, <1>3, <1>4, <1>5

LEMMA NextKeeps == NotesAssumption /\ IInv /\ [Next]_vars => IInv'
<1> SUFFICES ASSUME NotesAssumption, IInv, [Next]_vars PROVE IInv'
  OBVIOUS
<1>1. (\E n : CallerWrites(n)) => IInv'
  BY CallerKeeps
<1>2. QED
  BY <1>1, NoteAddWrites, NoteUpdateWrites, BeginKeeps, CommitKeeps, AppendNotesKeeps,
     OthersKeep
     DEF Next

-----------------------------------------------------------------------------
(* Theorems                                                                *)

THEOREM Invariance == Spec => []IInv
<1>1. IInv /\ [Next]_vars => IInv'
  BY NextKeeps, NotesAssumption
<1>2. QED
  BY <1>1, InitInv, PTL DEF Spec

\* Every variable keeps its type.
THEOREM TypeCorrect == Spec => []TypeOK
<1>1. IInv => TypeOK
  BY DEF IInv
<1>2. QED
  BY <1>1, Invariance, PTL

\* No number is used twice in a note and none is left out, wherever a
\* command or an update died and whatever the cache showed.
THEOREM NoNoteConflict == Spec => []NoteRevisionsContiguous
<1>1. IInv => NoteRevisionsContiguous
  BY DEF IInv, Numbered, Contiguous, NoteRevisionsContiguous
<1>2. QED
  BY <1>1, Invariance, PTL

\* The system touches nothing final and repeats nothing.
THEOREM SystemHasReason == Spec => []SystemRevisionsSaySomething
<1>1. IInv => SystemRevisionsSaySomething
  <2> SUFFICES ASSUME IInv, NEW n \in notes, NEW k \in notes,
                      n.id = k.id, n.revision = k.revision + 1, n.source \notin Actor
               PROVE  /\ k.status \notin NoteTerminal
                      /\ n.status # k.status \/ n.source_hashes # k.source_hashes
                      /\ [n EXCEPT !.revision = k.revision, !.status = k.status,
                                   !.source = k.source,
                                   !.source_hashes = k.source_hashes] = k
    BY DEF SystemRevisionsSaySomething
  <2>1. SystemCopy(k, n) /\ n \in Note /\ k \in Note
    BY DEF IInv, Numbered, SaySomething
  <2> DEFINE m == [n EXCEPT !.revision = k.revision, !.status = k.status,
                            !.source = k.source, !.source_hashes = k.source_hashes]
  <2>2. m \in Note
    BY <2>1, Zenon DEF Note
  <2>3. /\ m.id = k.id /\ m.files = k.files /\ m.symbols = k.symbols /\ m.scopes = k.scopes
        /\ m.expires = k.expires /\ m.revision = k.revision /\ m.status = k.status
        /\ m.source_hashes = k.source_hashes /\ m.source = k.source
    BY <2>1 DEF SystemCopy, Note
  <2> HIDE DEF m
  <2>4. m = k
    BY <2>1, <2>2, <2>3 DEF Note
  <2>5. QED
    BY <2>1, <2>4 DEF SystemCopy, m
<1>2. QED
  BY <1>1, Invariance, PTL

\* After an update readers can rely on every note they are shown.
THEOREM UpdateIsTheLastWord == Spec => UpdateSettlesNotes
<1> DEFINE Settles ==
        \A now \in 0 .. MaxTime : (AppendNotes /\ run.now = now) => NotesSettled(now)'
<1>1. NotesAssumption /\ IInv /\ [Next]_vars => [Settles]_vars
  <2> SUFFICES ASSUME NotesAssumption, IInv, AppendNotes,
                      NEW now \in 0 .. MaxTime, run.now = now
               PROVE  NotesSettled(now)'
    OBVIOUS
  <2>1. /\ run.index \in Index /\ now \in Nat
        /\ run.new = NoteTransitions(notes, run.index, known, now)
        /\ notes' = notes \cup run.new
        /\ view' = notes' /\ index' = run.index /\ known' = known
    BY AppendIsPlanned DEF world
  <2>2. Numbered(notes) /\ Numbered(notes')
    BY AppendNotesKeeps DEF IInv
  <2>3. NoteTransitions(notes', index', known', now) = {}
    BY <2>1, <2>2, TransitionsSettle
  <2>4. ASSUME NEW n \in CurrentNotes(view'), IsNoteVisible(n)
        PROVE  /\ n.scopes \subseteq known'
               /\ now < n.expires
               /\ n.source_hashes \in {NoSourceHashes, SourceHashes(n, index')}
    <3>1. n \in Note
      BY <2>1, <2>2, CurrentNotesAreCurrent
    <3>2. NoteReaction(n, index', known', now) = {}
      <4>1. n \in CurrentNotes(notes')
        BY <2>1
      <4> DEFINE L == notes'
                 ix == index'
                 sc == known'
      <4>2. UNION {NoteReaction(k, ix, sc, now) : k \in CurrentNotes(L)} = {}
        BY <2>3 DEF NoteTransitions
      <4> HIDE DEF L, ix, sc
      <4>3. \A k \in CurrentNotes(L) : NoteReaction(k, ix, sc, now) = {}
        BY <4>2
      <4>4. QED
        BY <4>1, <4>3 DEF L, ix, sc
    <3>3. n.status \notin NoteTerminal
      BY <2>4 DEF IsNoteVisible, NoteTerminal
    <3>4. n.scopes \subseteq known' /\ ~ (now >= n.expires) /\ NoteDrift(n, index') = {}
      BY <3>2, <3>3 DEF NoteReaction
    <3>5. n.expires \in Nat
      BY <3>1 DEF Note
    <3>6. now < n.expires
      BY <2>1, <3>4, <3>5
    <3>7. n.source_hashes = NoSourceHashes \/ SourceHashes(n, index') = n.source_hashes
      BY <3>4 DEF NoteDrift
    <3>8. QED
      BY <3>4, <3>6, <3>7
  <2>5. QED
    BY <2>1, <2>3, <2>4 DEF NotesSettled
<1> HIDE DEF Settles
<1>2. Spec => [][Settles]_vars
  BY <1>1, NotesAssumption, Invariance, PTL DEF Spec
<1>3. QED
  BY <1>2 DEF UpdateSettlesNotes, Settles

\* The reason recorded is the first there is.
THEOREM ReasonIsFirst == Spec => FirstReasonWins
<1> DEFINE Reasoned ==
        \A n \in run.new :
          /\ n.status = "orphaned" <=> ~ (n.scopes \subseteq known)
          /\ n.status = "expired" => run.now >= n.expires
          /\ n.status = "stale" => run.now < n.expires
<1>1. IInv /\ [Next]_vars => [AppendNotes => Reasoned]_vars
  <2> SUFFICES ASSUME IInv, AppendNotes, NEW n \in run.new
               PROVE  /\ n.status = "orphaned" <=> ~ (n.scopes \subseteq known)
                      /\ n.status = "expired" => run.now >= n.expires
                      /\ n.status = "stale" => run.now < n.expires
    OBVIOUS
  <2>1. /\ run.index \in Index /\ run.now \in Nat /\ Numbered(notes)
        /\ run.new = NoteTransitions(notes, run.index, known, run.now)
    BY AppendIsPlanned DEF IInv
  <2>2. Reasons(n, run.index, known, run.now) /\ n \in Note
    BY <2>1, TransitionsFollow
  <2>3. n.expires \in Nat
    BY <2>2 DEF Note
  <2>4. QED
    BY <2>1, <2>2, <2>3 DEF Reasons
<1> HIDE DEF Reasoned
<1>2. Spec => [][AppendNotes => Reasoned]_vars
  BY <1>1, Invariance, PTL DEF Spec
<1>3. QED
  BY <1>2 DEF FirstReasonWins, Reasoned
-----------------------------------------------------------------------------
(* Refinement: Notes implements RevisionLog                                *)

\* The log's lines of an id are the note's revisions, its latest line the
\* current one.
LEMMA LogOfNote ==
    ASSUME notes \subseteq Note, NEW id
    PROVE  /\ Log!Of(id) = NoteRevisions(notes, id)
           /\ Log!Latest(id) = Current(NoteRevisions(notes, id))
<1>1. Log!Of(id) = NoteRevisions(notes, id)
  BY DEF Log!Of, NoteRevisions
<1>2. QED
  BY <1>1 DEF Log!Latest, Current

\* Appending to each note at most one revision that follows is a step of the
\* log.
LEMMA AppendRefines ==
    ASSUME Numbered(notes), NEW N \in SUBSET Note,
           \A n \in N : Follows(notes, n),
           \A n, k \in N : n.id = k.id => n = k,
           notes' = notes \cup N
    PROVE  Log!Next
<1> DEFINE new == notes' \ notes
           byHand == {n \in Note : n.source \in Actor}
           id == [n \in Note |-> n.id]
           content == [n \in Note |-> <<n.files, n.symbols, n.scopes, n.expires>>]
           condition == [n \in Note |-> <<n.status, n.source_hashes>>]
<1>1. new \subseteq N /\ new \subseteq Note /\ notes' = notes \cup new
  OBVIOUS
<1>2. \A n, k \in new : id[n] = id[k] => n = k
  BY <1>1
<1>3. ASSUME NEW n \in new
      PROVE  /\ Log!Follows(n)
             /\ n \notin byHand => Log!FullCopy(n)
  <2>1. n \in Note /\ id[n] = n.id /\ Follows(notes, n)
    BY <1>1, <1>3
  <2>2. /\ Log!Of(id[n]) = NoteRevisions(notes, n.id)
        /\ Log!Latest(id[n]) = Current(NoteRevisions(notes, n.id))
    BY <2>1, LogOfNote DEF Numbered
  <2>3. Log!Follows(n)
    BY <2>1, <2>2 DEF Log!Follows, Follows, Current
  <2>4. ASSUME n \notin byHand
        PROVE  Log!FullCopy(n)
    <3>1. PICK k \in Current(NoteRevisions(notes, n.id)) : SystemCopy(k, n)
      BY <2>1, <2>4 DEF Follows
    <3>2. k \in Note
      BY <3>1 DEF Current, NoteRevisions, Numbered
    <3>3. content[n] = content[k]
      BY <2>1, <3>1, <3>2 DEF SystemCopy
    <3>4. condition[n] # condition[k]
      BY <2>1, <3>1, <3>2 DEF SystemCopy
    <3>5. QED
      BY <2>2, <3>1, <3>3, <3>4 DEF Log!FullCopy, SystemCopy
  <2>5. QED
    BY <2>3, <2>4
<1> HIDE DEF new
<1>4. Log!Append(new)
  BY <1>1, <1>2, <1>3 DEF Log!Append
<1>5. QED
  BY <1>4 DEF Log!Next, new

LEMMA NextRefines ==
    ASSUME NotesAssumption, IInv, [Next]_vars
    PROVE  [Log!Next]_notes
<1>1. ASSUME NEW n, CallerWrites(n)
      PROVE  Log!Next
  <2> DEFINE N == {n}
  <2>1. /\ N \in SUBSET Note /\ notes' = notes \cup N
        /\ \A k \in N : Follows(notes, k)
        /\ \A k, j \in N : k.id = j.id => k = j
    BY <1>1 DEF CallerWrites, Write
  <2> HIDE DEF N
  <2>2. QED
    BY <2>1, AppendRefines DEF IInv
<1>2. CASE AppendNotes
  <2>1. /\ run.index \in Index /\ run.now \in Nat /\ Numbered(notes)
        /\ run.new = NoteTransitions(notes, run.index, known, run.now)
        /\ notes' = notes \cup run.new
    BY <1>2, AppendIsPlanned DEF IInv
  <2>2. /\ run.new \in SUBSET Note
        /\ \A n \in run.new : Follows(notes, n)
        /\ \A n, k \in run.new : n.id = k.id => n = k
    BY <2>1, TransitionsFollow
  <2>3. QED
    BY <2>1, <2>2, AppendRefines
<1>3. CASE UNCHANGED notes
  BY <1>3
<1>4. QED
  BY <1>1, <1>2, <1>3, NoteAddWrites, NoteUpdateWrites
     DEF Next, Refresh, Begin, Commit, LoseCache, Die, EditTree, EditScopes, Tick, vars

\* notes.jsonl is a revision log, wherever a command or an update died and
\* whatever the cache showed.
THEOREM LogImplemented == Spec => LogSpec
<1>1. Init => Log!Init
  BY DEF Init, Log!Init
<1>2. IInv /\ [Next]_vars => [Log!Next]_notes
  BY NextRefines, NotesAssumption
<1>3. QED
  BY <1>1, <1>2, Invariance, PTL DEF Spec, LogSpec, Log!Spec
=============================================================================
