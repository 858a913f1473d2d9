--------------------------- MODULE Lifecycle_proofs ------------------------
(***************************************************************************)
(* What the operators of module Lifecycle return, for every set of files,  *)
(* scopes, records and contents.                                           *)
(***************************************************************************)
EXTENDS Lifecycle, TLAPS

\* The snapshots approve() takes are snapshots.
LEMMA SnapshotTypes ==
    ASSUME NEW m \in MemoryRevision, NEW index \in Index, NEW membership \in Membership
    PROVE  /\ SourceHashes(m, index) \in Index
           /\ ScopeHashes(m, membership) \in Membership
<1>1. SourceHashes(m, index) \in Index
  BY DEF SourceHashes, Index
<1>2. ScopeHashes(m, membership) \in Membership
  BY DEF ScopeHashes, Membership
<1>3. QED
  BY <1>1, <1>2

\* A system revision is a revision.
LEMMA SystemRevisionType ==
    ASSUME NEW m \in MemoryRevision, NEW status \in RecordStatus,
           NEW author \in RevisionAuthor
    PROVE  SystemRevision(m, status, author) \in MemoryRevision
<1>1. m.revision + 1 \in Nat \ {0}
  BY DEF MemoryRevision
<1>2. Nobody \in Humans \cup {Nobody}
  OBVIOUS
<1>3. QED
  BY <1>1, <1>2, Zenon DEF SystemRevision, MemoryRevision

-----------------------------------------------------------------------------
(* What `rune update` appends                                              *)

\* What one transition changes of the revision it copies: the number, the
\* status, who did it, and the snapshot that drifted.
Transition(m, n) ==
    /\ n \in MemoryRevision
    /\ n.revision = m.revision + 1
    /\ n.type = m.type /\ n.record = m.record
    /\ n.text = m.text
    /\ n.files = m.files /\ n.symbols = m.symbols /\ n.scopes = m.scopes
    /\ n.mode = m.mode /\ n.expires = m.expires
    /\ n.status \in {"stale", "review_required", "orphaned"}
    /\ n.created_by \notin Actor
    /\ n.approved_by = Nobody

LEMMA SystemRevisionIsTransition ==
    ASSUME NEW m \in MemoryRevision,
           NEW status \in {"stale", "review_required", "orphaned"},
           NEW author \in RevisionAuthor \ Actor
    PROVE  LET n == SystemRevision(m, status, author)
           IN  Transition(m, n) /\ n.status = status
<1>1. status \in RecordStatus
  BY DEF RecordStatus
<1>2. SystemRevision(m, status, author) \in MemoryRevision
  BY <1>1, SystemRevisionType
<1>3. QED
  BY <1>2 DEF Transition, SystemRevision, MemoryRevision

LEMMA SystemAuthors ==
    {"system_staleness", "system_lifecycle"} \subseteq RevisionAuthor \ Actor
BY DEF RevisionAuthor, Actor

LEMMA ExistenceReactionSound ==
    ASSUME NEW m \in MemoryRevision, NEW index \in Index, NEW membership \in Membership,
           NEW n \in ExistenceReaction(m, index, membership)
    PROVE  /\ Transition(m, n)
           /\ n.status \in Terminal
           /\ ExistenceReaction(m, index, membership) = {n}
<1>1. CASE LostScope(m, membership)
  BY <1>1, SystemRevisionIsTransition, SystemAuthors DEF ExistenceReaction, Terminal
<1>2. CASE ~ LostScope(m, membership)
  BY <1>2, SystemRevisionIsTransition, SystemAuthors DEF ExistenceReaction, Terminal
<1>3. QED
  BY <1>1, <1>2

\* Source drift is the one transition that moves the source snapshot.
LEMMA SourceDriftSound ==
    ASSUME NEW m \in MemoryRevision, NEW index \in Index, NEW n \in SourceDrift(m, index)
    PROVE  /\ Transition(m, n)
           /\ n.source_hashes = SourceHashes(m, index)
           /\ SourceDrift(m, index) = {n}
<1> DEFINE k == SystemRevision(m, "stale", "system_staleness")
<1>1. Transition(m, k)
  BY SystemRevisionIsTransition, SystemAuthors
<1>2. n = [k EXCEPT !.source_hashes = SourceHashes(m, index)]
  BY DEF SourceDrift
<1>3. SourceHashes(m, index) \in Index
  BY DEF SourceHashes, Index
<1> HIDE DEF k
<1>4. n \in MemoryRevision /\ n.source_hashes = SourceHashes(m, index)
  BY <1>1, <1>2, <1>3 DEF Transition, MemoryRevision
<1>5. Transition(m, n)
  BY <1>1, <1>2, <1>4 DEF Transition, MemoryRevision
<1>6. QED
  BY <1>4, <1>5 DEF SourceDrift

\* Scope drift is the one transition that moves the scope snapshot, and it
\* waits for a human.
LEMMA ScopeDriftSound ==
    ASSUME NEW m \in MemoryRevision, NEW membership \in Membership,
           NEW n \in ScopeDrift(m, membership)
    PROVE  /\ Transition(m, n)
           /\ n.status \in Terminal
           /\ ScopeDrift(m, membership) = {n}
<1> DEFINE k == SystemRevision(m, "review_required", "system_staleness")
<1>1. Transition(m, k) /\ k.status = "review_required"
  BY SystemRevisionIsTransition, SystemAuthors
<1>2. n = [k EXCEPT !.scope_hashes = ScopeHashes(m, membership)]
  BY DEF ScopeDrift
<1>3. ScopeHashes(m, membership) \in Membership
  BY DEF ScopeHashes, Membership
<1> HIDE DEF k
<1>4. n \in MemoryRevision
  BY <1>1, <1>2, <1>3 DEF Transition, MemoryRevision
<1>5. Transition(m, n) /\ n.status \in Terminal
  BY <1>1, <1>2, <1>4 DEF Transition, MemoryRevision, Terminal
<1>6. QED
  BY <1>5 DEF ScopeDrift

LEMMA ExpirySound ==
    ASSUME NEW m \in MemoryRevision, NEW now \in Nat, NEW n \in Expiry(m, now)
    PROVE  Transition(m, n) /\ n.status = "stale" /\ Expiry(m, now) = {n}
BY SystemRevisionIsTransition, SystemAuthors DEF Expiry

LEMMA ModeReactionSound ==
    ASSUME NEW m \in MemoryRevision, NEW index \in Index, NEW membership \in Membership,
           NEW now \in Nat, NEW n \in ModeReaction(m, index, membership, now)
    PROVE  Transition(m, n) /\ ModeReaction(m, index, membership, now) = {n}
<1>1. CASE m.mode = "source_bound"
  BY <1>1, SourceDriftSound DEF ModeReaction
<1>2. CASE m.mode = "scope_bound"
  BY <1>2, ScopeDriftSound DEF ModeReaction
<1>3. CASE m.mode = "temporary"
  BY <1>3, ExpirySound DEF ModeReaction
<1>4. CASE m.mode \notin {"source_bound", "scope_bound", "temporary"}
  BY <1>4 DEF ModeReaction
<1>5. QED
  BY <1>1, <1>2, <1>3, <1>4

\* One run of update appends at most one revision per record: a transition
\* of its current revision, which is in no status only a human ends.
THEOREM ReactionSound ==
    ASSUME NEW m \in MemoryRevision, NEW index \in Index, NEW membership \in Membership,
           NEW now \in Nat, NEW n \in Reaction(m, index, membership, now)
    PROVE  /\ Transition(m, n)
           /\ m.status \notin Terminal
           /\ Reaction(m, index, membership, now) = {n}
<1> DEFINE gone == ExistenceReaction(m, index, membership)
<1>1. CASE m.type = "decision"
  BY <1>1, ExistenceReactionSound DEF Reaction, DecisionReaction
<1>2. CASE m.type # "decision" /\ gone # {}
  BY <1>2, ExistenceReactionSound DEF Reaction, ConstraintReaction
<1>3. CASE m.type # "decision" /\ gone = {}
  BY <1>3, ModeReactionSound DEF Reaction, ConstraintReaction
<1>4. QED
  BY <1>1, <1>2, <1>3

\* The references of a record survive its transitions, so what it lost is
\* still lost, and what its snapshot should be is still that.
LEMMA TransitionKeepsReferences ==
    ASSUME NEW m \in MemoryRevision, NEW n, Transition(m, n),
           NEW index \in Index, NEW membership \in Membership
    PROVE  /\ LostScope(n, membership) <=> LostScope(m, membership)
           /\ LostReference(n, index) <=> LostReference(m, index)
           /\ SourceHashes(n, index) = SourceHashes(m, index)
BY DEF Transition, LostScope, LostReference, SourceHashes

\* Each change of the code base is reported once: what a transition leads
\* to has no transition of its own under the same index, scopes and time.
THEOREM ReactionQuiescent ==
    ASSUME NEW m \in MemoryRevision, NEW index \in Index, NEW membership \in Membership,
           NEW now \in Nat, NEW n \in Reaction(m, index, membership, now)
    PROVE  Reaction(n, index, membership, now) = {}
<1> DEFINE gone == ExistenceReaction(m, index, membership)
<1>0. Transition(m, n)
  BY ReactionSound
<1>1. n.type = m.type /\ n.mode = m.mode /\ n \in MemoryRevision
  BY <1>0 DEF Transition
<1>2. CASE n.status \in Terminal
  BY <1>2 DEF Reaction, DecisionReaction, ConstraintReaction
<1>3. CASE n.status \notin Terminal
  <2>1. m.type # "decision" /\ gone = {}
    BY <1>3, ExistenceReactionSound DEF Reaction, DecisionReaction, ConstraintReaction
  <2>2. n \in ModeReaction(m, index, membership, now)
    BY <2>1 DEF Reaction, ConstraintReaction
  <2>3. m.mode \in {"source_bound", "temporary"}
    BY <1>3, <2>2, ScopeDriftSound DEF ModeReaction
  <2>4. ExistenceReaction(n, index, membership) = {}
    BY <1>0, <2>1, TransitionKeepsReferences DEF ExistenceReaction
  <2>5. CASE m.mode = "source_bound"
    <3>1. n.source_hashes = SourceHashes(m, index)
      BY <2>2, <2>5, SourceDriftSound DEF ModeReaction
    <3>2. SourceDrift(n, index) = {}
      BY <3>1, <1>0, TransitionKeepsReferences DEF SourceDrift
    <3>3. QED
      BY <1>1, <2>1, <2>4, <2>5, <3>2 DEF Reaction, ConstraintReaction, ModeReaction
  <2>6. CASE m.mode = "temporary"
    <3>1. n.status = "stale"
      BY <2>2, <2>6, ExpirySound DEF ModeReaction
    <3>2. Expiry(n, now) = {}
      BY <3>1 DEF Expiry
    <3>3. QED
      BY <1>1, <2>1, <2>4, <2>6, <3>2 DEF Reaction, ConstraintReaction, ModeReaction
  <2>7. QED
    BY <2>3, <2>5, <2>6
<1>4. QED
  BY <1>2, <1>3

\* No transition repeats the revision it copies: the status or the source
\* snapshot differs.
THEOREM ReactionChanges ==
    ASSUME NEW m \in MemoryRevision, NEW index \in Index, NEW membership \in Membership,
           NEW now \in Nat, NEW n \in Reaction(m, index, membership, now)
    PROVE  n.status # m.status \/ n.source_hashes # m.source_hashes
<1>1. m.status \notin Terminal
  BY ReactionSound
<1>2. CASE n \in ExistenceReaction(m, index, membership)
  BY <1>1, <1>2, ExistenceReactionSound
<1>3. CASE n \in ModeReaction(m, index, membership, now)
  <2>1. CASE m.mode = "source_bound"
    BY <1>3, <2>1, SourceDriftSound DEF ModeReaction, SourceDrift
  <2>2. CASE m.mode = "scope_bound"
    BY <1>1, <1>3, <2>2, ScopeDriftSound DEF ModeReaction
  <2>3. CASE m.mode = "temporary"
    BY <1>3, <2>3, ExpirySound DEF ModeReaction, Expiry
  <2>4. QED
    BY <1>3, <2>1, <2>2, <2>3 DEF ModeReaction
<1>4. QED
  BY <1>2, <1>3 DEF Reaction, DecisionReaction, ConstraintReaction
\* n is the next line after k, a full copy of it in another condition, and k
\* is in no status only a human ends.
Copy(k, n) ==
    /\ n.revision = k.revision + 1
    /\ k.status \notin Terminal
    /\ Content[n] = Content[k]
    /\ Condition[n] # Condition[k]

LEMMA ReactionCopies ==
    ASSUME NEW m \in MemoryRevision, NEW index \in Index, NEW membership \in Membership,
           NEW now \in Nat, NEW n \in Reaction(m, index, membership, now)
    PROVE  Copy(m, n) /\ n \notin Authored
<1>1. Transition(m, n) /\ n \in MemoryRevision /\ m.status \notin Terminal
  BY ReactionSound DEF Transition
<1>2. Content[n] = Content[m]
  BY <1>1 DEF Transition, Content
<1>3. Condition[n] # Condition[m]
  <2>1. n.status # m.status \/ n.source_hashes # m.source_hashes
    BY ReactionChanges
  <2>2. QED
    BY <1>1, <2>1 DEF Condition
<1>4. n \notin Authored
  BY <1>1 DEF Transition, Authored
<1>5. QED
  BY <1>1, <1>2, <1>3, <1>4 DEF Transition, Copy
=============================================================================
