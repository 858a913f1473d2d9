-------------------------- MODULE Governance_proofs ------------------------
(***************************************************************************)
(* Proofs about modules Governance and GovernanceReaders, for any number   *)
(* of proposals, humans, records, files and scopes, and any bound on       *)
(* revisions.                                                              *)
(***************************************************************************)
EXTENDS GovernanceReaders, Lifecycle_proofs

-----------------------------------------------------------------------------
(* The inductive invariant                                                 *)

\* Nothing comes into force but by a named human: what lets a retried
\* approval adopt a revision an earlier attempt wrote.
ActiveByHuman == \A m \in memory : m.status = "active" => m.approved_by \in Humans

\* A record that has revisions has a current one.  It is what keeps a writer
\* that finds no current revision from starting over at 1.
HasCurrent ==
    \A t \in RecordType, r \in Records :
        Revisions(memory, t, r) # {} => CurrentRecord(t, r) # {}

\* Between its two appends an approval has written what it will resolve to.
ResolvingIsWritten ==
    op.step = "resolve" =>
        /\ op.proposal.payload \in memory
        /\ op.proposal.payload.status = "active"
        /\ op.proposal.payload.approved_by \in Humans

Written == ActiveByHuman /\ ResolvingIsWritten /\ ApprovedIsWritten

Numbered == RevisionsContiguous /\ HasCurrent

\* A proposal is one pending line and, once resolved, one more.
ProposalLines ==
    \A q \in proposals :
        /\ q.revision \in {1, 2}
        /\ q.revision = 1 <=> q.status = "pending"
        /\ \E k \in proposals : k.id = q.id /\ k.revision = 1
        /\ \A k \in proposals : (k.id = q.id /\ k.revision = q.revision) => k = q

\* What an approval is about to resolve is still unresolved: one command
\* runs at a time.
ResolvingIsPending ==
    op.step = "resolve" =>
        /\ op.proposal.revision = 2
        /\ op.proposal.status \in {"approved", "edited"}
        /\ \E k \in proposals : k.id = op.proposal.id
        /\ \A k \in proposals : k.id = op.proposal.id => k.revision = 1

Resolutions == ProposalLines /\ ResolvingIsPending

IInv == TypeOK /\ Numbered /\ Written /\ Resolutions

-----------------------------------------------------------------------------
(* Numbering                                                               *)

LEMMA CurrentIsUnique ==
    ASSUME memory \subseteq MemoryRevision, RevisionsContiguous,
           NEW t \in RecordType, NEW r \in Records,
           NEW m \in CurrentRecord(t, r)
    PROVE  /\ CurrentRecord(t, r) = {m}
           /\ NextRevision(t, r) = m.revision + 1
           /\ m \in memory /\ m.type = t /\ m.record = r
<1>1. \A k \in CurrentRecord(t, r) : k \in memory /\ k.type = t /\ k.record = r
  BY DEF CurrentRecord, Current, Revisions
<1>2. ASSUME NEW k \in CurrentRecord(t, r)
      PROVE  k = m
  <2>1. k.revision <= m.revision /\ m.revision <= k.revision
    BY <1>2 DEF CurrentRecord, Current
  <2>2. k.revision \in Nat /\ m.revision \in Nat
    BY <1>1, <1>2 DEF MemoryRevision
  <2>3. k.revision = m.revision
    BY <2>1, <2>2
  <2>4. QED
    BY <1>1, <1>2, <2>3 DEF RevisionsContiguous
<1>3. CurrentRecord(t, r) = {m}
  BY <1>2
<1>4. NextRevision(t, r) = m.revision + 1
  BY <1>3 DEF NextRevision
<1>5. QED
  BY <1>1, <1>3, <1>4

\* The number a writer computes is greater than any there is.
LEMMA NextRevisionIsFresh ==
    ASSUME memory \subseteq MemoryRevision, Numbered,
           NEW t \in RecordType, NEW r \in Records
    PROVE  /\ NextRevision(t, r) \in Nat \ {0}
           /\ \A m \in Revisions(memory, t, r) : m.revision < NextRevision(t, r)
           /\ NextRevision(t, r) > 1 =>
                 \E j \in Revisions(memory, t, r) : j.revision = NextRevision(t, r) - 1
<1>1. CASE CurrentRecord(t, r) = {}
  BY <1>1 DEF NextRevision, Numbered, HasCurrent
<1>2. CASE CurrentRecord(t, r) # {}
  <2>1. PICK c \in CurrentRecord(t, r) : TRUE
    BY <1>2
  <2>2. NextRevision(t, r) = c.revision + 1
    BY <2>1, CurrentIsUnique DEF Numbered
  <2>3. c \in Revisions(memory, t, r)
        /\ \A m \in Revisions(memory, t, r) : m.revision <= c.revision
    BY <2>1 DEF CurrentRecord, Current
  <2>4. \A m \in Revisions(memory, t, r) : m.revision \in Nat
    BY DEF Revisions, MemoryRevision
  <2>5. QED
    BY <2>2, <2>3, <2>4
<1>3. QED
  BY <1>1, <1>2

\* Appending to each record at most one revision, with the next number,
\* keeps the numbering.
LEMMA AppendKeepsNumbering ==
    ASSUME memory \subseteq MemoryRevision, Numbered,
           NEW N \in SUBSET MemoryRevision,
           \A n \in N : n.revision = NextRevision(n.type, n.record),
           \A n, k \in N : (n.type = k.type /\ n.record = k.record) => n = k,
           memory' = memory \cup N
    PROVE  Numbered'
<1>1. \A n \in N : \A m \in memory :
          (m.type = n.type /\ m.record = n.record) => m.revision < n.revision
  <2>1. TAKE n \in N
  <2>2. n.type \in RecordType /\ n.record \in Records
    BY DEF MemoryRevision
  <2>3. QED
    BY <2>2, NextRevisionIsFresh DEF Revisions
<1>2. \A m \in memory \cup N : m.revision \in Nat \ {0}
  BY DEF MemoryRevision
<1>3. RevisionsContiguous'
  <2>1. SUFFICES ASSUME NEW m \in memory', NEW k \in memory',
                        m.type = k.type, m.record = k.record
                 PROVE  /\ m.revision = k.revision => m = k
                        /\ m.revision > 1 =>
                              \E j \in Revisions(memory', m.type, m.record) :
                                 j.revision = m.revision - 1
    BY DEF RevisionsContiguous
  <2>2. m.revision = k.revision => m = k
    <3>1. CASE m \in memory /\ k \in memory
      BY <2>1, <3>1 DEF Numbered, RevisionsContiguous
    <3>2. CASE m \in N /\ k \in N
      BY <2>1, <3>2
    <3>3. CASE m \in N /\ k \in memory
      <4>1. k.revision < m.revision
        BY <1>1, <2>1, <3>3
      <4>2. k.revision \in Nat /\ m.revision \in Nat
        BY <1>2
      <4>3. QED
        BY <4>1, <4>2
    <3>4. CASE m \in memory /\ k \in N
      <4>1. m.revision < k.revision
        BY <1>1, <2>1, <3>4
      <4>2. k.revision \in Nat /\ m.revision \in Nat
        BY <1>2
      <4>3. QED
        BY <4>1, <4>2
    <3>5. QED
      BY <3>1, <3>2, <3>3, <3>4
  <2>3. ASSUME m.revision > 1
        PROVE  \E j \in Revisions(memory', m.type, m.record) : j.revision = m.revision - 1
    <3>1. CASE m \in memory
      BY <2>3, <3>1 DEF Numbered, RevisionsContiguous, Revisions
    <3>2. CASE m \in N
      <4>1. m.type \in RecordType /\ m.record \in Records
        BY <3>2 DEF MemoryRevision
      <4>2. PICK j \in Revisions(memory, m.type, m.record) : j.revision = m.revision - 1
        BY <2>3, <3>2, <4>1, NextRevisionIsFresh
      <4>3. QED
        BY <4>2 DEF Revisions
    <3>3. QED
      BY <3>1, <3>2
  <2>4. QED
    BY <2>2, <2>3
<1>4. HasCurrent'
  <2>1. SUFFICES ASSUME NEW t \in RecordType, NEW r \in Records,
                        NEW m \in Revisions(memory', t, r)
                 PROVE  CurrentRecord(t, r)' # {}
    BY DEF HasCurrent
  <2>2. CASE \E n \in N : n.type = t /\ n.record = r
    <3>1. PICK n \in N : n.type = t /\ n.record = r
      BY <2>2
    <3>2. \A k \in Revisions(memory', t, r) : k.revision <= n.revision
      <4>1. TAKE k \in Revisions(memory', t, r)
      <4>2. k \in memory \cup N /\ k.type = n.type /\ k.record = n.record
        BY <3>1 DEF Revisions
      <4>3. k.revision \in Nat /\ n.revision \in Nat
        BY <1>2, <3>1, <4>2
      <4>4. CASE k \in memory
        BY <1>1, <3>1, <4>2, <4>3, <4>4
      <4>5. CASE k \in N
        BY <3>1, <4>2, <4>3, <4>5
      <4>6. QED
        BY <4>2, <4>4, <4>5
    <3>3. n \in Revisions(memory', t, r)
      BY <3>1 DEF Revisions
    <3>4. n \in CurrentRecord(t, r)'
      BY <3>2, <3>3 DEF CurrentRecord, Current
    <3>5. QED
      BY <3>4
  <2>3. CASE ~ \E n \in N : n.type = t /\ n.record = r
    <3>1. Revisions(memory', t, r) = Revisions(memory, t, r)
      BY <2>3 DEF Revisions
    <3>2. CurrentRecord(t, r)' = CurrentRecord(t, r)
      BY <3>1 DEF CurrentRecord
    <3>3. QED
      BY <2>1, <3>1, <3>2 DEF Numbered, HasCurrent
  <2>4. QED
    BY <2>2, <2>3
<1>5. QED
  BY <1>3, <1>4 DEF Numbered

-----------------------------------------------------------------------------
(* What each writer appends                                                *)

\* The files `rune update` adds to scopes are files.
LEMMA AssignedIsMembership ==
    ASSUME NEW members \in Membership, NEW added \in SUBSET Files, NEW ix \in Index
    PROVE  Scope!AssignNewFilesFromImports(members, Locked, added, ix) \in Membership
<1> DEFINE A == Scope!AssignNewFilesFromImports(members, Locked, added, ix)
<1>1. \A s \in Scopes : A[s] \in {Absent} \cup SUBSET Files
  BY DEF Scope!AssignNewFilesFromImports, Membership
<1>2. A = [s \in Scopes |-> A[s]]
  BY DEF Scope!AssignNewFilesFromImports
<1>3. QED
  BY <1>1, <1>2 DEF Membership

\* `rune update` appends at most one revision to each record, numbered like
\* every other writer's, and never an active one.
LEMMA TransitionsAppend ==
    ASSUME memory \subseteq MemoryRevision, Numbered,
           NEW ix \in Index, NEW members \in Membership, NEW now \in Nat
    PROVE  LET N == Transitions(memory, ix, members, now)
           IN  /\ N \subseteq MemoryRevision
               /\ \A n \in N : n.revision = NextRevision(n.type, n.record)
               /\ \A n, k \in N : (n.type = k.type /\ n.record = k.record) => n = k
               /\ \A n \in N : n.status # "active"
               /\ \A n \in N : CurrentRecord(n.type, n.record) # {}
               /\ \A n \in N : \A m \in CurrentRecord(n.type, n.record) :
                     n \in Reaction(m, ix, members, now)
<1> DEFINE N == Transitions(memory, ix, members, now)
<1>1. ASSUME NEW n \in N
      PROVE  \E m \in memory :
                /\ n \in Reaction(m, ix, members, now)
                /\ Reaction(m, ix, members, now) = {n}
                /\ CurrentRecord(n.type, n.record) = {m}
                /\ Transition(m, n)
                /\ n.revision = NextRevision(n.type, n.record)
  <2>0. PICK t \in RecordType, r \in Records :
               \E m \in CurrentRecord(t, r) : n \in Reaction(m, ix, members, now)
    BY DEF Transitions, CurrentRevisions, CurrentRecord
  <2>1. PICK m \in CurrentRecord(t, r) : n \in Reaction(m, ix, members, now)
    BY <2>0
  <2>2. /\ m \in memory /\ m.type = t /\ m.record = r
        /\ CurrentRecord(t, r) = {m}
        /\ NextRevision(t, r) = m.revision + 1
    BY <2>1, CurrentIsUnique DEF Numbered
  <2>3. Transition(m, n) /\ Reaction(m, ix, members, now) = {n}
    BY <2>1, <2>2, ReactionSound
  <2>4. n.type = t /\ n.record = r /\ n.revision = m.revision + 1
    BY <2>2, <2>3 DEF Transition
  <2>5. QED
    BY <2>1, <2>2, <2>3, <2>4
<1>2. N \subseteq MemoryRevision /\ \A n \in N : n.status # "active"
  BY <1>1 DEF Transition
<1>3. \A n \in N : n.revision = NextRevision(n.type, n.record)
  BY <1>1
<1>4. \A n, k \in N : (n.type = k.type /\ n.record = k.record) => n = k
  BY <1>1
<1>5. \A n \in N : \A m \in CurrentRecord(n.type, n.record) :
          n \in Reaction(m, ix, members, now)
  BY <1>1
<1>6. \A n \in N : CurrentRecord(n.type, n.record) # {}
  BY <1>1
<1>7. QED
  BY <1>2, <1>3, <1>4, <1>5, <1>6

\* What approve() would append has the type, the author and the number the
\* schema wants.
LEMMA ApprovedType ==
    ASSUME TypeOK, Numbered, NEW pl,
           pl.type \in RecordType, pl.record \in Records, pl.text \in Texts,
           pl.files \in SUBSET Files, pl.symbols \in SUBSET Symbols,
           pl.scopes \in SUBSET Scopes, pl.mode \in PersistenceMode,
           pl.expires \in 0 .. MaxTime + 1,
           NEW author \in Actor, NEW human \in Humans
    PROVE  LET m == Approved(pl, author, human)
           IN  /\ m \in MemoryRevision
               /\ m.revision = NextRevision(m.type, m.record)
               /\ m.status = "active"
               /\ m.approved_by = human
               /\ m.created_by = author
               /\ m.type = pl.type /\ m.record = pl.record
<1> DEFINE sources == IF pl.mode = "source_bound" THEN SourceHashes(pl, index) ELSE NoSourceHashes
           members == IF pl.mode = "scope_bound" THEN ScopeHashes(pl, membership) ELSE NoScopeHashes
           m == Approved(pl, author, human)
<1>1. sources \in Index
  BY DEF TypeOK, SourceHashes, NoSourceHashes, Index
<1>2. members \in Membership
  BY DEF TypeOK, ScopeHashes, NoScopeHashes, Membership
<1>3. NextRevision(pl.type, pl.record) \in Nat \ {0}
  BY NextRevisionIsFresh DEF TypeOK
<1>4. author \in RevisionAuthor /\ human \in Humans \cup {Nobody} /\ "active" \in RecordStatus
  BY DEF RevisionAuthor, RecordStatus
<1>5. m = AsRevision(pl, NextRevision(pl.type, pl.record), sources, members, author, human)
  BY DEF Approved
<1> HIDE DEF sources, members
<1>6. m \in MemoryRevision
  BY <1>1, <1>2, <1>3, <1>4, <1>5 DEF AsRevision, MemoryRevision
<1>7. QED
  BY <1>5, <1>6 DEF AsRevision

\* An approval puts in force one revision of its record: the next one, or
\* the current one an earlier attempt wrote.  Either way it is active, in
\* the file, and carries a human's name.
LEMMA ApproveContentAppends ==
    ASSUME TypeOK, Numbered, ActiveByHuman, GovernanceAssumption,
           NEW q \in proposals, NEW edited \in SUBSET Payloads, NEW human \in Humans,
           ApproveContent(q, edited, human)
    PROVE  \E m \in MemoryRevision, r \in Proposal :
              /\ memory' = memory \cup {m}
              /\ m \in memory \/ m.revision = NextRevision(m.type, m.record)
              /\ m.status = "active" /\ m.approved_by \in Humans
              /\ m \in memory \/ m.created_by \in Actor
              /\ m.type = q.payload.type /\ m.record = q.payload.record
              /\ op' = Resolving(r)
              /\ r.id = q.id /\ r.revision = q.revision + 1 /\ r.payload = m
              /\ r.status \in {"approved", "edited"}
<1>1. PICK pl \in (IF edited = {} THEN {q.payload} ELSE edited) :
         /\ pl.type = q.payload.type /\ pl.record = q.payload.record
         /\ LET new == Approved(pl, IF edited = {} THEN q.created_by ELSE "human", human)
                written == {m \in CurrentRecord(pl.type, pl.record) : SameContent(m, new)}
            IN  \E m \in (IF written = {} THEN {new} ELSE written) :
                  /\ memory' = memory \cup {m}
                  /\ op' = Resolving([q EXCEPT
                             !.revision = @ + 1,
                             !.status = IF edited = {} THEN "approved" ELSE "edited",
                             !.payload = m])
  BY DEF ApproveContent
<1> DEFINE author == IF edited = {} THEN q.created_by ELSE "human"
           new == Approved(pl, author, human)
           written == {m \in CurrentRecord(pl.type, pl.record) : SameContent(m, new)}
<1>2. q \in Proposal
  BY DEF TypeOK
<1>3. author \in Actor
  BY <1>2 DEF Proposal, Actor
<1>4. pl \in MemoryRevision \/ pl \in Payload
  BY <1>1, <1>2 DEF Proposal, GovernanceAssumption
<1>5. /\ pl.type \in RecordType /\ pl.record \in Records /\ pl.text \in Texts
      /\ pl.files \in SUBSET Files /\ pl.symbols \in SUBSET Symbols
      /\ pl.scopes \in SUBSET Scopes /\ pl.mode \in PersistenceMode
      /\ pl.expires \in 0 .. MaxTime + 1
  <2>1. CASE pl \in MemoryRevision
    BY <2>1, Zenon DEF MemoryRevision
  <2>2. CASE pl \in Payload
    BY <2>2, Zenon DEF Payload
  <2>3. QED
    BY <1>4, <2>1, <2>2
<1>6. /\ new \in MemoryRevision
      /\ new.revision = NextRevision(new.type, new.record)
      /\ new.status = "active" /\ new.approved_by = human
      /\ new.created_by \in Actor
      /\ new.type = pl.type /\ new.record = pl.record
  BY <1>3, <1>5, ApprovedType
<1>7. PICK m \in (IF written = {} THEN {new} ELSE written) :
         /\ memory' = memory \cup {m}
         /\ op' = Resolving([q EXCEPT
                    !.revision = @ + 1,
                    !.status = IF edited = {} THEN "approved" ELSE "edited",
                    !.payload = m])
  BY <1>1
<1> HIDE DEF new, author
<1>8. ASSUME NEW k \in written
      PROVE  /\ k \in memory /\ k \in MemoryRevision
             /\ k.status = "active" /\ k.approved_by \in Humans
             /\ k.type = pl.type /\ k.record = pl.record
  <2>1. k \in memory /\ k \in MemoryRevision /\ k.type = pl.type /\ k.record = pl.record
    BY <1>8 DEF CurrentRecord, Current, Revisions, TypeOK
  <2>2. new = [k EXCEPT !.revision = new.revision, !.approved_by = new.approved_by]
    BY <1>8 DEF SameContent
  <2>3. k.status = "active"
    BY <1>6, <2>1, <2>2 DEF MemoryRevision
  <2>4. QED
    BY <2>1, <2>3 DEF ActiveByHuman
<1>9. /\ m \in MemoryRevision
      /\ m \in memory \/ m.revision = NextRevision(m.type, m.record)
      /\ m.status = "active" /\ m.approved_by \in Humans
      /\ m \in memory \/ m.created_by \in Actor
      /\ m.type = q.payload.type /\ m.record = q.payload.record
  BY <1>1, <1>6, <1>7, <1>8
<1> DEFINE how == IF edited = {} THEN "approved" ELSE "edited"
           r == [q EXCEPT !.revision = @ + 1, !.status = how, !.payload = m]
<1>10. how \in {"approved", "edited"}
  OBVIOUS
<1> HIDE DEF how
<1>11. /\ r \in Proposal /\ r.id = q.id /\ r.revision = q.revision + 1
       /\ r.payload = m /\ r.status = how
  <2>1. q.revision + 1 \in Nat \ {0}
    BY <1>2 DEF Proposal
  <2>2. how \in ProposalStatus
    BY <1>10 DEF ProposalStatus
  <2>3. r \in Proposal
    BY <1>2, <1>9, <2>1, <2>2, Zenon DEF Proposal
  <2>4. /\ r.id = q.id /\ r.revision = q.revision + 1
        /\ r.payload = m /\ r.status = how
    BY <1>2, Zenon DEF Proposal
  <2>5. QED
    BY <2>3, <2>4
<1>12. op' = Resolving(r)
  BY <1>7 DEF how
<1>13. QED
  BY <1>7, <1>9, <1>10, <1>11, <1>12

-----------------------------------------------------------------------------
(* Proposals                                                               *)

\* A proposal found pending has that one line.
LEMMA PendingIsOnlyLine ==
    ASSUME proposals \subseteq Proposal, ProposalLines,
           NEW p \in Proposals, NEW q \in CurrentProposal(p), q.status = "pending"
    PROVE  /\ q \in proposals /\ q.id = p /\ q.revision = 1
           /\ Lines(p) = {q}
<1>1. q \in proposals /\ q.id = p /\ \A k \in Lines(p) : k.revision <= q.revision
  BY DEF CurrentProposal, Current, Lines
<1>2. q.revision = 1
  BY <1>1 DEF ProposalLines
<1>3. \A k \in Lines(p) : k \in proposals /\ k.id = q.id /\ k.revision \in {1, 2}
  BY <1>1 DEF Lines, ProposalLines
<1>4. \A k \in Lines(p) : k.revision = q.revision
  BY <1>1, <1>2, <1>3
<1>5. \A k \in Lines(p) : k = q
  BY <1>1, <1>3, <1>4 DEF ProposalLines
<1>6. q \in Lines(p)
  BY <1>1 DEF Lines
<1>7. QED
  BY <1>1, <1>2, <1>5, <1>6

\* Resolving a pending proposal with one more line keeps the lines in order.
LEMMA ResolutionKeepsLines ==
    ASSUME proposals \subseteq Proposal, ProposalLines,
           NEW r \in Proposal, r.revision = 2, r.status # "pending",
           \E k \in proposals : k.id = r.id,
           \A k \in proposals : k.id = r.id => k.revision = 1,
           proposals' = proposals \cup {r}
    PROVE  ProposalLines'
BY DEF ProposalLines

-----------------------------------------------------------------------------
(* The invariant holds initially                                           *)

LEMMA InitInv ==
    ASSUME LifecycleAssumption, Init
    PROVE  IInv
<1>1. TypeOK
  <2>1. tree \in Index /\ index \in Index
    BY DEF Init, Index, NoSourceHashes
  <2>2. membership \in Membership
    BY DEF Init, Membership
  <2>3. clock \in 0 .. MaxTime
    BY DEF Init, LifecycleAssumption
  <2>4. QED
    BY <2>1, <2>2, <2>3 DEF Init, TypeOK
<1>2. Numbered
  BY DEF Init, Numbered, RevisionsContiguous, HasCurrent, Revisions
<1>3. Written
  BY DEF Init, Written, ActiveByHuman, ResolvingIsWritten, ApprovedIsWritten, Idle
<1>4. Resolutions
  BY DEF Init, Resolutions, ProposalLines, ResolvingIsPending, Idle
<1>5. QED
  BY <1>1, <1>2, <1>3, <1>4 DEF IInv

-----------------------------------------------------------------------------
(* ... and every step keeps it                                             *)

\* What a step that writes no line and starts no command keeps.
LEMMA FrameKeeps ==
    ASSUME IInv, UNCHANGED <<memory, proposals>>, op' \in {op, Idle, Refreshing}
    PROVE  /\ Numbered' /\ Written' /\ Resolutions'
           /\ (memory \subseteq MemoryRevision)' /\ (proposals \subseteq Proposal)'
           /\ (op \in {Idle, Refreshing} \cup [step : {"resolve"}, proposal : Proposal])'
<1>1. Numbered'
  BY DEF IInv, Numbered, RevisionsContiguous, HasCurrent, CurrentRecord
<1>2. op' = op \/ op'.step # "resolve"
  BY DEF Idle, Refreshing
<1>3. Written'
  BY <1>2 DEF IInv, Written, ActiveByHuman, ResolvingIsWritten, ApprovedIsWritten
<1>4. Resolutions'
  BY <1>2 DEF IInv, Resolutions, ProposalLines, ResolvingIsPending
<1>5. QED
  BY <1>1, <1>3, <1>4 DEF IInv, TypeOK

\* What a step keeps that appends revisions, as every writer does, to the
\* records, and leaves the proposals alone.
LEMMA AppendKeeps ==
    ASSUME IInv, NEW N \in SUBSET MemoryRevision,
           \A n \in N : n.revision = NextRevision(n.type, n.record),
           \A n, k \in N : (n.type = k.type /\ n.record = k.record) => n = k,
           \A n \in N : n.status = "active" => n.approved_by \in Humans,
           memory' = memory \cup N, UNCHANGED proposals
    PROVE  /\ Numbered' /\ ActiveByHuman' /\ ApprovedIsWritten' /\ ProposalLines'
           /\ (memory \subseteq MemoryRevision)' /\ (proposals \subseteq Proposal)'
<1>1. memory \subseteq MemoryRevision
  BY DEF IInv, TypeOK
<1>2. Numbered'
  BY <1>1, AppendKeepsNumbering DEF IInv
<1>3. ActiveByHuman' /\ ApprovedIsWritten'
  BY DEF IInv, Written, ActiveByHuman, ApprovedIsWritten
<1>4. ProposalLines'
  BY DEF IInv, Resolutions, ProposalLines
<1>5. QED
  BY <1>1, <1>2, <1>3, <1>4 DEF IInv, TypeOK

LEMMA ProposeKeeps ==
    ASSUME IInv, GovernanceAssumption,
           NEW p \in Proposals, NEW pl \in Payloads, NEW actor \in Actor,
           Propose(p, pl, actor)
    PROVE  IInv'
<1> DEFINE q == [id |-> p, revision |-> 1, status |-> "pending",
                 payload |-> Draft(pl, actor), created_by |-> actor]
<1>1. Draft(pl, actor) \in MemoryRevision
  <2>1. pl \in Payload
    BY DEF GovernanceAssumption
  <2>2. /\ NoSourceHashes \in Index /\ NoScopeHashes \in Membership
        /\ actor \in RevisionAuthor /\ Nobody \in Humans \cup {Nobody}
        /\ "active" \in RecordStatus /\ 1 \in Nat \ {0}
    BY DEF NoSourceHashes, NoScopeHashes, Index, Membership, RevisionAuthor, RecordStatus
  <2>3. QED
    BY <2>1, <2>2, Zenon DEF Draft, AsRevision, Payload, MemoryRevision
<1>2. q \in Proposal
  BY <1>1 DEF Proposal, ProposalStatus
<1>3. proposals' = proposals \cup {q} /\ Lines(p) = {}
  BY DEF Propose
<1> HIDE DEF q
<1>4. q.id = p /\ q.revision = 1 /\ q.status = "pending"
  BY DEF q
<1>5. \A k \in proposals : k.id # p
  BY <1>3 DEF Lines
<1>6. TypeOK'
  BY <1>2, <1>3 DEF IInv, TypeOK, Propose, environment, database
<1>7. Numbered'
  BY DEF IInv, Numbered, RevisionsContiguous, HasCurrent, CurrentRecord, Propose
<1>8. Written'
  BY <1>3, <1>4 DEF IInv, Written, ActiveByHuman, ResolvingIsWritten, ApprovedIsWritten, Propose
<1>9. ProposalLines'
  BY <1>3, <1>4, <1>5 DEF IInv, Resolutions, ProposalLines
<1>10. ResolvingIsPending'
  BY DEF Propose, ResolvingIsPending, Idle
<1>11. QED
  BY <1>6, <1>7, <1>8, <1>9, <1>10 DEF IInv, Resolutions

LEMMA ApproveContentKeeps ==
    ASSUME IInv, GovernanceAssumption,
           NEW p \in Proposals, NEW q \in CurrentProposal(p),
           NEW edited \in SUBSET Payloads, NEW human \in Humans,
           ApproveContent(q, edited, human)
    PROVE  IInv'
<1>1. q \in proposals /\ q.id = p /\ q.revision = 1 /\ Lines(p) = {q}
  BY PendingIsOnlyLine DEF ApproveContent, IInv, TypeOK, Resolutions
<1>2. PICK m \in MemoryRevision, r \in Proposal :
              /\ memory' = memory \cup {m}
              /\ m \in memory \/ m.revision = NextRevision(m.type, m.record)
              /\ m.status = "active" /\ m.approved_by \in Humans
              /\ m \in memory \/ m.created_by \in Actor
              /\ m.type = q.payload.type /\ m.record = q.payload.record
              /\ op' = Resolving(r)
              /\ r.id = q.id /\ r.revision = q.revision + 1 /\ r.payload = m
              /\ r.status \in {"approved", "edited"}
  BY <1>1, ApproveContentAppends DEF IInv, Written
<1>3. /\ Numbered' /\ ActiveByHuman' /\ ApprovedIsWritten' /\ ProposalLines'
      /\ (memory \subseteq MemoryRevision)' /\ (proposals \subseteq Proposal)'
  <2>1. UNCHANGED proposals
    BY DEF ApproveContent
  <2>2. CASE m \in memory
    <3>1. memory' = memory
      BY <1>2, <2>2
    <3>2. Numbered'
      BY <3>1 DEF IInv, Numbered, RevisionsContiguous, HasCurrent, CurrentRecord
    <3>3. ActiveByHuman' /\ ApprovedIsWritten' /\ ProposalLines'
      BY <2>1, <3>1 DEF IInv, Written, ActiveByHuman, ApprovedIsWritten, Resolutions, ProposalLines
    <3>4. QED
      BY <2>1, <3>1, <3>2, <3>3 DEF IInv, TypeOK
  <2>3. CASE m \notin memory
    <3>1. m.revision = NextRevision(m.type, m.record)
      BY <1>2, <2>3
    <3> DEFINE N == {m}
    <3>2. /\ N \in SUBSET MemoryRevision
          /\ \A n \in N : n.revision = NextRevision(n.type, n.record)
          /\ \A n, k \in N : (n.type = k.type /\ n.record = k.record) => n = k
          /\ \A n \in N : n.status = "active" => n.approved_by \in Humans
          /\ memory' = memory \cup N
      BY <1>2, <3>1
    <3> HIDE DEF N
    <3>3. QED
      BY <2>1, <3>2, AppendKeeps
  <2>4. QED
    BY <2>2, <2>3
<1>4. TypeOK'
  <2>1. op' \in [step : {"resolve"}, proposal : Proposal]
    BY <1>2 DEF Resolving
  <2>2. QED
    BY <1>3, <2>1 DEF IInv, TypeOK, ApproveContent, environment, database
<1>5. op'.proposal = r /\ op'.step = "resolve"
  BY <1>2 DEF Resolving
<1>6. ResolvingIsWritten'
  BY <1>2, <1>5 DEF ResolvingIsWritten
<1>7. ResolvingIsPending'
  <2>1. \A k \in proposals' : k.id = p => k = q
    BY <1>1 DEF ApproveContent, Lines
  <2>2. r.revision = 2 /\ q \in proposals'
    BY <1>1, <1>2 DEF ApproveContent
  <2>3. QED
    BY <1>1, <1>2, <1>5, <2>1, <2>2 DEF ResolvingIsPending
<1>8. QED
  BY <1>3, <1>4, <1>6, <1>7 DEF IInv, Written, Resolutions

LEMMA ApproveResolveKeeps ==
    ASSUME IInv, ApproveResolve
    PROVE  IInv'
<1> DEFINE r == op.proposal
<1>1. r \in Proposal /\ op.step = "resolve"
  BY DEF IInv, TypeOK, ApproveResolve, Idle, Refreshing
<1>2. proposals' = proposals \cup {r} /\ op' = Refreshing /\ op'.step # "resolve"
  BY DEF ApproveResolve, Refreshing
<1>3. TypeOK'
  BY <1>1, <1>2 DEF IInv, TypeOK, ApproveResolve, environment, database
<1>4. Numbered'
  BY DEF IInv, Numbered, RevisionsContiguous, HasCurrent, CurrentRecord, ApproveResolve
<1>5. Written'
  BY <1>1, <1>2
     DEF IInv, Written, ActiveByHuman, ResolvingIsWritten, ApprovedIsWritten, ApproveResolve
<1>6. ProposalLines'
  <2>1. /\ r.revision = 2 /\ r.status # "pending"
        /\ \E k \in proposals : k.id = r.id
        /\ \A k \in proposals : k.id = r.id => k.revision = 1
    BY <1>1 DEF IInv, Resolutions, ResolvingIsPending
  <2>2. proposals \subseteq Proposal /\ ProposalLines
    BY DEF IInv, TypeOK, Resolutions
  <2> HIDE DEF r
  <2>3. QED
    BY <1>1, <1>2, <2>1, <2>2, ResolutionKeepsLines
<1>7. ResolvingIsPending'
  BY <1>2 DEF ResolvingIsPending
<1>8. QED
  BY <1>3, <1>4, <1>5, <1>6, <1>7 DEF IInv, Resolutions

LEMMA RejectKeeps ==
    ASSUME IInv, NEW p \in Proposals, NEW q \in CurrentProposal(p), Reject(q)
    PROVE  IInv'
<1> DEFINE r == [q EXCEPT !.revision = @ + 1, !.status = "rejected"]
<1>1. q \in proposals /\ q.id = p /\ q.revision = 1 /\ Lines(p) = {q}
  BY PendingIsOnlyLine DEF Reject, IInv, TypeOK, Resolutions
<1>2. q \in Proposal
  BY <1>1 DEF IInv, TypeOK
<1>3. r \in Proposal /\ r.id = p /\ r.revision = 2 /\ r.status = "rejected"
  <2>1. q.revision + 1 \in Nat \ {0} /\ "rejected" \in ProposalStatus
    BY <1>2 DEF Proposal, ProposalStatus
  <2>2. r \in Proposal
    BY <1>2, <2>1, Zenon DEF Proposal
  <2>3. r.id = p /\ r.revision = q.revision + 1 /\ r.status = "rejected"
    BY <1>1, <1>2, Zenon DEF Proposal
  <2>4. QED
    BY <1>1, <2>2, <2>3
<1>4. proposals' = proposals \cup {r}
  BY DEF Reject
<1> HIDE DEF r
<1>5. TypeOK'
  BY <1>3, <1>4 DEF IInv, TypeOK, Reject, environment, database
<1>6. Numbered'
  BY DEF IInv, Numbered, RevisionsContiguous, HasCurrent, CurrentRecord, Reject
<1>7. Written'
  BY <1>3, <1>4
     DEF IInv, Written, ActiveByHuman, ResolvingIsWritten, ApprovedIsWritten, Reject
<1>8. ProposalLines'
  <2>1. \A k \in proposals : k.id = r.id => k = q
    BY <1>1, <1>3 DEF Lines
  <2>2. proposals \subseteq Proposal /\ ProposalLines
    BY DEF IInv, TypeOK, Resolutions
  <2>3. QED
    BY <1>1, <1>3, <1>4, <2>1, <2>2, ResolutionKeepsLines
<1>9. ResolvingIsPending'
  BY DEF Reject, ResolvingIsPending, Idle
<1>10. QED
  BY <1>5, <1>6, <1>7, <1>8, <1>9 DEF IInv, Resolutions

LEMMA CurrentRevisionsAreCurrent ==
    ASSUME memory \subseteq MemoryRevision, NEW m \in CurrentRevisions(memory)
    PROVE  /\ m \in MemoryRevision
           /\ m.type \in RecordType /\ m.record \in Records
           /\ m \in CurrentRecord(m.type, m.record)
<1>1. PICK t \in RecordType, r \in Records : m \in CurrentRecord(t, r)
  BY DEF CurrentRevisions, CurrentRecord
<1>2. m \in memory /\ m.type = t /\ m.record = r
  BY <1>1 DEF CurrentRecord, Current, Revisions
<1>3. QED
  BY <1>1, <1>2

LEMMA DeactivateKeeps ==
    ASSUME IInv, NEW m \in CurrentRevisions(memory), NEW human \in Humans,
           Deactivate(m, human)
    PROVE  IInv'
<1> DEFINE n == [m EXCEPT !.revision = @ + 1, !.status = "inactive",
                          !.created_by = "human", !.approved_by = human]
           N == {n}
<1>1. m \in MemoryRevision /\ m.type \in RecordType /\ m.record \in Records
      /\ m \in CurrentRecord(m.type, m.record)
  BY CurrentRevisionsAreCurrent DEF IInv, TypeOK
<1>2. NextRevision(m.type, m.record) = m.revision + 1
  BY <1>1, CurrentIsUnique DEF IInv, TypeOK, Numbered
<1>3. n \in MemoryRevision
  <2>1. m.revision + 1 \in Nat \ {0}
    BY <1>1 DEF MemoryRevision
  <2>2. "inactive" \in RecordStatus /\ "human" \in RevisionAuthor
        /\ human \in Humans \cup {Nobody}
    BY DEF RecordStatus, RevisionAuthor, Actor
  <2>3. QED
    BY <1>1, <2>1, <2>2, Zenon DEF MemoryRevision
<1>4. n.revision = m.revision + 1 /\ n.type = m.type /\ n.record = m.record
      /\ n.status = "inactive"
  BY <1>1, Zenon DEF MemoryRevision
<1>5. memory' = memory \cup N /\ op' = Refreshing /\ op'.step # "resolve"
  BY DEF Deactivate, Refreshing
<1> HIDE DEF n
<1>6. /\ N \in SUBSET MemoryRevision
      /\ \A k \in N : k.revision = NextRevision(k.type, k.record)
      /\ \A k, j \in N : (k.type = j.type /\ k.record = j.record) => k = j
      /\ \A k \in N : k.status = "active" => k.approved_by \in Humans
  BY <1>2, <1>3, <1>4
<1> HIDE DEF N
<1>7. UNCHANGED proposals
  BY DEF Deactivate
<1>8. /\ Numbered' /\ ActiveByHuman' /\ ApprovedIsWritten' /\ ProposalLines'
      /\ (memory \subseteq MemoryRevision)' /\ (proposals \subseteq Proposal)'
  BY <1>5, <1>6, <1>7, AppendKeeps
<1>9. TypeOK'
  BY <1>5, <1>8 DEF IInv, TypeOK, Deactivate, environment, database
<1>10. ResolvingIsWritten' /\ ResolvingIsPending'
  BY <1>5 DEF ResolvingIsWritten, ResolvingIsPending
<1>11. QED
  BY <1>8, <1>9, <1>10 DEF IInv, Written, Resolutions

LEMMA UpdateKeeps ==
    ASSUME IInv, LifecycleAssumption, NEW full \in BOOLEAN, Update(full)
    PROVE  IInv'
<1> DEFINE added == {f \in Files : tree[f] # Absent /\ index[f] = Absent}
           members == IF full THEN membership
                      ELSE Scope!AssignNewFilesFromImports(membership, Locked, added, tree)
           N == Transitions(memory, tree, members, clock)
<1>1. tree \in Index /\ membership \in Membership /\ clock \in Nat
      /\ memory \subseteq MemoryRevision
  BY DEF IInv, TypeOK, LifecycleAssumption
<1>2. membership' = members /\ memory' = memory \cup N /\ index' = tree
      /\ cache' = "ok" /\ view' = memory' /\ queue' = PendingIds
  BY DEF Update
<1>3. UNCHANGED <<tree, clock, proposals, op>>
  BY DEF Update
<1>4. members \in Membership
  BY <1>1, AssignedIsMembership
<1> HIDE DEF members
<1>5. /\ N \in SUBSET MemoryRevision
      /\ \A n \in N : n.revision = NextRevision(n.type, n.record)
      /\ \A n, k \in N : (n.type = k.type /\ n.record = k.record) => n = k
      /\ \A n \in N : n.status = "active" => n.approved_by \in Humans
  BY <1>1, <1>4, TransitionsAppend DEF IInv
<1> HIDE DEF N
<1>6. /\ Numbered' /\ ActiveByHuman' /\ ApprovedIsWritten' /\ ProposalLines'
      /\ (memory \subseteq MemoryRevision)' /\ (proposals \subseteq Proposal)'
  BY <1>2, <1>3, <1>5, AppendKeeps
<1>7. TypeOK'
  <2>1. view' \subseteq MemoryRevision
    BY <1>2, <1>6
  <2>2. queue' \subseteq Proposals
    BY <1>2 DEF PendingIds
  <2>3. QED
    BY <1>1, <1>2, <1>3, <1>4, <1>6, <2>1, <2>2 DEF IInv, TypeOK
<1>8. op = Idle /\ op' = Idle
  BY DEF Update
<1>9. ResolvingIsWritten' /\ ResolvingIsPending'
  BY <1>8 DEF ResolvingIsWritten, ResolvingIsPending, Idle
<1>10. QED
  BY <1>6, <1>7, <1>9 DEF IInv, Written, Resolutions

\* A refresh, a crash and what happens around the program.
LEMMA OthersKeep ==
    ASSUME IInv, LifecycleAssumption,
           \/ RefreshCache
           \/ Crash
           \/ \E f \in Files, c \in Hashes \cup {Absent} : EditSource(f, c)
           \/ \E s \in Scopes, members \in {Absent} \cup SUBSET Files : EditScope(s, members)
           \/ Tick
           \/ \E left \in {"missing", "corrupt"} : LoseCache(left)
           \/ UNCHANGED vars
    PROVE  IInv'
<1>1. UNCHANGED <<memory, proposals>> /\ op' \in {op, Idle, Refreshing}
  BY DEF RefreshCache, Crash, EditSource, EditScope, Tick, LoseCache, vars
<1>2. /\ Numbered' /\ Written' /\ Resolutions'
      /\ (memory \subseteq MemoryRevision)' /\ (proposals \subseteq Proposal)'
      /\ (op \in {Idle, Refreshing} \cup [step : {"resolve"}, proposal : Proposal])'
  BY <1>1, FrameKeeps
<1>3. tree' \in Index
  <2>1. tree \in Index
    BY DEF IInv, TypeOK
  <2>2. CASE \E f \in Files, c \in Hashes \cup {Absent} : EditSource(f, c)
    BY <2>1, <2>2 DEF EditSource, Index
  <2>3. CASE UNCHANGED tree
    BY <2>1, <2>3
  <2>4. QED
    BY <2>2, <2>3 DEF RefreshCache, Crash, EditScope, Tick, LoseCache, environment, vars
<1>4. membership' \in Membership
  <2>1. membership \in Membership
    BY DEF IInv, TypeOK
  <2>2. CASE \E s \in Scopes, members \in {Absent} \cup SUBSET Files : EditScope(s, members)
    BY <2>1, <2>2 DEF EditScope, Membership
  <2>3. CASE UNCHANGED membership
    BY <2>1, <2>3
  <2>4. QED
    BY <2>2, <2>3 DEF RefreshCache, Crash, EditSource, Tick, LoseCache, environment, vars
<1>5. clock' \in 0 .. MaxTime
  <2>1. clock \in 0 .. MaxTime /\ MaxTime \in Nat
    BY DEF IInv, TypeOK, LifecycleAssumption
  <2>2. CASE Tick
    BY <2>1, <2>2 DEF Tick
  <2>3. CASE UNCHANGED clock
    BY <2>1, <2>3
  <2>4. QED
    BY <2>2, <2>3 DEF RefreshCache, Crash, EditSource, EditScope, LoseCache, environment, vars
<1>6. /\ cache' \in {"missing", "corrupt", "ok"} /\ index' \in Index
      /\ view' \subseteq MemoryRevision /\ queue' \subseteq Proposals
  <2>1. /\ cache \in {"missing", "corrupt", "ok"} /\ index \in Index
        /\ view \subseteq MemoryRevision /\ queue \subseteq Proposals
        /\ memory \subseteq MemoryRevision
    BY DEF IInv, TypeOK
  <2>2. CASE RefreshCache
    BY <2>1, <2>2 DEF RefreshCache, database, PendingIds
  <2>3. CASE \E left \in {"missing", "corrupt"} : LoseCache(left)
    <3>1. NoSourceHashes \in Index
      BY DEF NoSourceHashes, Index
    <3>2. QED
      BY <2>3, <3>1 DEF LoseCache
  <2>4. CASE UNCHANGED database
    BY <2>1, <2>4 DEF database
  <2>5. QED
    BY <2>2, <2>3, <2>4 DEF Crash, EditSource, EditScope, Tick, vars, database
<1>7. TypeOK'
  BY <1>2, <1>3, <1>4, <1>5, <1>6 DEF TypeOK
<1>8. QED
  BY <1>2, <1>7 DEF IInv

LEMMA NextKeeps ==
    ASSUME IInv, LifecycleAssumption, GovernanceAssumption, [Next]_vars
    PROVE  IInv'
<1>1. CASE \E p \in Proposals, pl \in Payloads, actor \in Actor : Propose(p, pl, actor)
  BY <1>1, ProposeKeeps
<1>2. CASE \E p \in Proposals, human \in Humans : \E q \in CurrentProposal(p) :
               \/ ApproveContent(q, {}, human)
               \/ \E pl \in Payloads : ApproveContent(q, {pl}, human)
  BY <1>2, ApproveContentKeeps
<1>3. CASE ApproveResolve
  BY <1>3, ApproveResolveKeeps
<1>4. CASE \E p \in Proposals : \E q \in CurrentProposal(p) : Reject(q)
  BY <1>4, RejectKeeps
<1>5. CASE \E m \in CurrentRevisions(memory), human \in Humans : Deactivate(m, human)
  BY <1>5, DeactivateKeeps
<1>6. CASE \E full \in BOOLEAN : Update(full)
  BY <1>6, UpdateKeeps
<1>7. CASE \/ RefreshCache
           \/ Crash
           \/ \E f \in Files, c \in Hashes \cup {Absent} : EditSource(f, c)
           \/ \E s \in Scopes, members \in {Absent} \cup SUBSET Files : EditScope(s, members)
           \/ Tick
           \/ \E left \in {"missing", "corrupt"} : LoseCache(left)
           \/ UNCHANGED vars
  BY <1>7, OthersKeep
<1>8. QED
  BY <1>1, <1>2, <1>3, <1>4, <1>5, <1>6, <1>7 DEF Next

-----------------------------------------------------------------------------
(* Theorems                                                                *)

THEOREM Invariance == Spec => []IInv
<1>1. Init => IInv
  BY InitInv, LifecycleAssumption
<1>2. IInv /\ [Next]_vars => IInv'
  BY NextKeeps, LifecycleAssumption, GovernanceAssumption
<1>3. QED
  BY <1>1, <1>2, PTL DEF Spec

\* Every variable keeps its type.
THEOREM TypeCorrect == Spec => []TypeOK
<1>1. IInv => TypeOK
  BY DEF IInv
<1>2. QED
  BY <1>1, Invariance, PTL

\* Approval order: no proposal says approved while what it approved was not
\* written, wherever approve() died and whoever ran it again.
THEOREM ApprovalOrder == Spec => []ApprovedIsWritten
<1>1. IInv => ApprovedIsWritten
  BY DEF IInv, Written
<1>2. QED
  BY <1>1, Invariance, PTL

\* No canonical conflict: the revisions of a record are numbered 1, 2, ...
\* with no number twice, so no later read of the file can fail on one.
THEOREM NoCanonicalConflict == Spec => []RevisionsContiguous
<1>1. IInv => RevisionsContiguous
  BY DEF IInv, Numbered
<1>2. QED
  BY <1>1, Invariance, PTL

-----------------------------------------------------------------------------
(* Action properties                                                       *)

LEMMA RevivalStep ==
    ASSUME IInv, LifecycleAssumption, GovernanceAssumption, Next,
           NEW m \in memory' \ memory
    PROVE  /\ (\/ m.status = "active"
               \/ \E old \in CurrentRecord(m.type, m.record) :
                     old.status \in {"inactive", "orphaned", "review_required"})
                 => m.approved_by \in Humans
           /\ m.status = "active" =>
                 \E p \in PendingIds : \E q \in CurrentProposal(p) :
                    q.payload.type = m.type /\ q.payload.record = m.record
<1>1. CASE \E p \in Proposals, human \in Humans : \E q \in CurrentProposal(p) :
               \/ ApproveContent(q, {}, human)
               \/ \E pl \in Payloads : ApproveContent(q, {pl}, human)
  <2>1. PICK p \in Proposals, human \in Humans, edited \in SUBSET Payloads :
               \E q \in CurrentProposal(p) : ApproveContent(q, edited, human)
    BY <1>1
  <2>2. PICK q \in CurrentProposal(p) : ApproveContent(q, edited, human)
    BY <2>1
  <2>3. q \in proposals /\ q.status = "pending"
    BY <2>2 DEF ApproveContent, CurrentProposal, Current, Lines
  <2>4. /\ m.approved_by \in Humans
        /\ m.type = q.payload.type /\ m.record = q.payload.record
    BY <2>2, <2>3, ApproveContentAppends DEF IInv, Written
  <2>5. p \in PendingIds
    BY <2>3 DEF PendingIds
  <2>6. QED
    BY <2>4, <2>5
<1>2. CASE \E k \in CurrentRevisions(memory), human \in Humans : Deactivate(k, human)
  <2>1. PICK k \in CurrentRevisions(memory), human \in Humans : Deactivate(k, human)
    BY <1>2
  <2>2. k \in MemoryRevision
    BY CurrentRevisionsAreCurrent DEF IInv, TypeOK
  <2>3. m = [k EXCEPT !.revision = @ + 1, !.status = "inactive",
                      !.created_by = "human", !.approved_by = human]
    BY <2>1 DEF Deactivate
  <2>4. m.approved_by = human /\ m.status = "inactive"
    BY <2>2, <2>3, Zenon DEF MemoryRevision
  <2>5. QED
    BY <2>4
<1>3. CASE \E full \in BOOLEAN : Update(full)
  <2>1. PICK full \in BOOLEAN : Update(full)
    BY <1>3
  <2> DEFINE added == {f \in Files : tree[f] # Absent /\ index[f] = Absent}
             members == IF full THEN membership
                        ELSE Scope!AssignNewFilesFromImports(membership, Locked, added, tree)
             N == Transitions(memory, tree, members, clock)
  <2>2. m \in N
    BY <2>1 DEF Update
  <2>3. tree \in Index /\ membership \in Membership /\ clock \in Nat
        /\ memory \subseteq MemoryRevision
    BY DEF IInv, TypeOK, LifecycleAssumption
  <2>4. members \in Membership
    BY <2>3, AssignedIsMembership
  <2> HIDE DEF members
  <2>5. /\ m.status # "active" /\ m \in MemoryRevision
        /\ \A old \in CurrentRecord(m.type, m.record) :
              m \in Reaction(old, tree, members, clock)
    BY <2>2, <2>3, <2>4, TransitionsAppend DEF IInv
  <2>6. ASSUME NEW old \in CurrentRecord(m.type, m.record)
        PROVE  old.status \notin {"inactive", "orphaned", "review_required"}
    <3>1. old \in MemoryRevision
      BY <2>3 DEF CurrentRecord, Current, Revisions
    <3>2. old.status \notin Terminal
      BY <2>3, <2>4, <2>5, <3>1, ReactionSound
    <3>3. QED
      BY <3>2 DEF Terminal
  <2>7. QED
    BY <2>5, <2>6
<1>4. CASE UNCHANGED memory
  BY <1>4
<1>5. QED
  BY <1>1, <1>2, <1>3, <1>4
     DEF Next, Propose, ApproveResolve, Reject, RefreshCache, Crash, EditSource, EditScope,
         Tick, LoseCache, environment

\* Only a human's approval, of a proposal that is pending for the record,
\* puts guidance in force, and only a named human changes a record the
\* system or a human has retired.
THEOREM OnlyHumansDecide == Spec => OnlyHumansRevive
<1>1. IInv /\ [Next]_vars =>
        [\A m \in memory' \ memory :
          /\ (\/ m.status = "active"
              \/ \E old \in CurrentRecord(m.type, m.record) :
                    old.status \in {"inactive", "orphaned", "review_required"})
                => m.approved_by \in Humans
          /\ m.status = "active" =>
                \E p \in PendingIds : \E q \in CurrentProposal(p) :
                   q.payload.type = m.type /\ q.payload.record = m.record]_vars
  BY RevivalStep, LifecycleAssumption, GovernanceAssumption
<1>2. QED
  BY <1>1, Invariance, PTL DEF Spec, OnlyHumansRevive

\* After update no current revision has a transition: those that had one
\* are no longer current, and what they led to has none.
LEMMA UpdateQuiescent ==
    ASSUME IInv, LifecycleAssumption, NEW full \in BOOLEAN, Update(full)
    PROVE  Transitions(memory, tree, membership, clock)' = {}
<1> DEFINE added == {f \in Files : tree[f] # Absent /\ index[f] = Absent}
           members == IF full THEN membership
                      ELSE Scope!AssignNewFilesFromImports(membership, Locked, added, tree)
           N == Transitions(memory, tree, members, clock)
<1>1. tree \in Index /\ membership \in Membership /\ clock \in Nat
      /\ memory \subseteq MemoryRevision /\ Numbered
  BY DEF IInv, TypeOK, LifecycleAssumption
<1>2. membership' = members /\ memory' = memory \cup N
      /\ UNCHANGED <<tree, clock>>
  BY DEF Update
<1>3. members \in Membership
  BY <1>1, AssignedIsMembership
<1> HIDE DEF members
<1>4. /\ N \subseteq MemoryRevision
      /\ \A n \in N : n.revision = NextRevision(n.type, n.record)
  BY <1>1, <1>3, TransitionsAppend
<1>5. ASSUME NEW t \in RecordType, NEW r \in Records,
             NEW x \in Current(Revisions(memory', t, r)),
             NEW y \in Reaction(x, tree, members, clock)
      PROVE  FALSE
  <2>1. x \in memory \cup N /\ x.type = t /\ x.record = r /\ x \in MemoryRevision
    BY <1>1, <1>2, <1>4 DEF Current, Revisions
  <2>2. CASE x \in N
    <3>1. PICK m \in CurrentRevisions(memory) : x \in Reaction(m, tree, members, clock)
      BY <2>2 DEF Transitions
    <3>2. m \in MemoryRevision
      BY <1>1, CurrentRevisionsAreCurrent
    <3>3. QED
      BY <1>1, <1>3, <1>5, <3>1, <3>2, ReactionQuiescent
  <2>3. CASE x \in memory
    <3>1. x \in CurrentRecord(t, r)
      BY <1>2, <2>1, <2>3 DEF CurrentRecord, Current, Revisions
    <3>2. y \in N
      BY <1>5, <3>1 DEF Transitions, CurrentRevisions, CurrentRecord
    <3>3. y.type = t /\ y.record = r
      BY <1>1, <1>3, <1>5, <2>1, ReactionSound DEF Transition
    <3>4. x.revision < y.revision
      BY <1>1, <1>4, <2>1, <2>3, <3>2, <3>3, NextRevisionIsFresh DEF Revisions
    <3>5. y \in Revisions(memory', t, r)
      BY <1>2, <3>2, <3>3 DEF Revisions
    <3>6. y.revision <= x.revision
      BY <3>5 DEF Current
    <3>7. x.revision \in Nat /\ y.revision \in Nat
      BY <1>4, <2>1, <3>2 DEF MemoryRevision
    <3>8. QED
      BY <3>4, <3>6, <3>7
  <2>4. QED
    BY <2>1, <2>2, <2>3
<1>6. \A x \in CurrentRevisions(memory') : Reaction(x, tree, members, clock) = {}
  BY <1>5 DEF CurrentRevisions
<1>7. Transitions(memory', tree, members, clock) = {}
  <2>1. SUFFICES ASSUME NEW z \in Transitions(memory', tree, members, clock)
                 PROVE  FALSE
    OBVIOUS
  <2>2. PICK x \in CurrentRevisions(memory') : z \in Reaction(x, tree, members, clock)
    BY DEF Transitions
  <2>3. QED
    BY <1>6, <2>2
<1>8. Transitions(memory, tree, membership, clock)' = Transitions(memory', tree, members, clock)
  BY <1>2
<1>9. QED
  BY <1>7, <1>8

\* Each change of the code base is reported once.
THEOREM UpdateReportsOnce == Spec => UpdateConverges
<1>1. IInv /\ [Next]_vars =>
        [(\E full \in BOOLEAN : Update(full)) =>
            (Transitions(memory, tree, membership, clock) = {})']_vars
  BY UpdateQuiescent, LifecycleAssumption
<1>2. QED
  BY <1>1, Invariance, PTL DEF Spec, UpdateConverges

\* A decision has no persistence mode, and a constraint an expiry exactly
\* when it is temporary: approve() checks it, and no transition changes it.
ShapesValid == \A m \in memory : ValidShape(m)

LEMMA ShapesStep ==
    ASSUME IInv, LifecycleAssumption, GovernanceAssumption, ShapesValid, [Next]_vars
    PROVE  ShapesValid'
<1>1. ASSUME NEW q, NEW edited \in SUBSET Payloads, NEW human \in Humans,
             ApproveContent(q, edited, human)
      PROVE  ShapesValid'
  <2>1. PICK pl \in (IF edited = {} THEN {q.payload} ELSE edited) :
           /\ ValidShape(pl)
           /\ LET new == Approved(pl, IF edited = {} THEN q.created_by ELSE "human", human)
                  written == {m \in CurrentRecord(pl.type, pl.record) : SameContent(m, new)}
              IN  \E m \in (IF written = {} THEN {new} ELSE written) : memory' = memory \cup {m}
    BY <1>1 DEF ApproveContent
  <2> DEFINE author == IF edited = {} THEN q.created_by ELSE "human"
             new == Approved(pl, author, human)
             written == {m \in CurrentRecord(pl.type, pl.record) : SameContent(m, new)}
  <2>2. PICK m \in (IF written = {} THEN {new} ELSE written) : memory' = memory \cup {m}
    BY <2>1
  <2>3. new.type = pl.type /\ new.mode = pl.mode /\ new.expires = pl.expires
    BY DEF Approved, AsRevision
  <2> HIDE DEF new
  <2>4. m \in memory \/ m = new
    BY <2>2 DEF CurrentRecord, Current, Revisions
  <2>5. ValidShape(new)
    BY <2>1, <2>3 DEF ValidShape
  <2>6. QED
    BY <2>2, <2>4, <2>5 DEF ShapesValid
<1>2. ASSUME NEW k \in CurrentRevisions(memory), NEW human \in Humans, Deactivate(k, human)
      PROVE  ShapesValid'
  <2> DEFINE n == [k EXCEPT !.revision = @ + 1, !.status = "inactive",
                            !.created_by = "human", !.approved_by = human]
  <2>1. k \in MemoryRevision /\ k \in memory
    BY CurrentRevisionsAreCurrent DEF IInv, TypeOK, CurrentRecord, Current, Revisions
  <2>2. memory' = memory \cup {n}
    BY <1>2 DEF Deactivate
  <2>3. n.type = k.type /\ n.mode = k.mode /\ n.expires = k.expires
    BY <2>1, Zenon DEF MemoryRevision
  <2> HIDE DEF n
  <2>4. QED
    BY <2>1, <2>2, <2>3 DEF ShapesValid, ValidShape
<1>3. ASSUME NEW full \in BOOLEAN, Update(full)
      PROVE  ShapesValid'
  <2> DEFINE added == {f \in Files : tree[f] # Absent /\ index[f] = Absent}
             members == IF full THEN membership
                        ELSE Scope!AssignNewFilesFromImports(membership, Locked, added, tree)
             N == Transitions(memory, tree, members, clock)
  <2>1. memory' = memory \cup N
    BY <1>3 DEF Update
  <2>2. tree \in Index /\ membership \in Membership /\ clock \in Nat
        /\ memory \subseteq MemoryRevision
    BY DEF IInv, TypeOK, LifecycleAssumption
  <2>3. members \in Membership
    BY <2>2, AssignedIsMembership
  <2> HIDE DEF members
  <2>4. ASSUME NEW n \in N
        PROVE  ValidShape(n)
    <3>1. PICK m \in CurrentRevisions(memory) : n \in Reaction(m, tree, members, clock)
      BY <2>4 DEF Transitions
    <3>2. m \in memory /\ m \in MemoryRevision
      BY <2>2, CurrentRevisionsAreCurrent DEF CurrentRecord, Current, Revisions
    <3>3. Transition(m, n)
      BY <2>2, <2>3, <3>1, <3>2, ReactionSound
    <3>4. QED
      BY <3>2, <3>3 DEF Transition, ShapesValid, ValidShape
  <2>5. QED
    BY <2>1, <2>4 DEF ShapesValid
<1>4. CASE UNCHANGED memory
  BY <1>4 DEF ShapesValid
<1>5. CASE \E p \in Proposals, human \in Humans : \E q \in CurrentProposal(p) :
               \/ ApproveContent(q, {}, human)
               \/ \E pl \in Payloads : ApproveContent(q, {pl}, human)
  BY <1>1, <1>5
<1>6. QED
  BY <1>2, <1>3, <1>4, <1>5
     DEF Next, Propose, ApproveResolve, Reject, RefreshCache, Crash, EditSource, EditScope,
         Tick, LoseCache, environment, vars

\* A revision that is active and has no transition can be relied upon.
LEMMA QuietIsTrustworthy ==
    ASSUME IInv, LifecycleAssumption, ShapesValid,
           Transitions(memory, tree, membership, clock) = {}
    PROVE  \A m \in CurrentRevisions(memory) : Trustworthy(m)
<1>1. SUFFICES ASSUME NEW m \in CurrentRevisions(memory), m.status = "active",
                      m.mode # "persistent"
               PROVE  Trustworthy(m)
  BY DEF Trustworthy
<1>2. m \in MemoryRevision /\ m \in memory /\ tree \in Index /\ membership \in Membership
      /\ clock \in 0 .. MaxTime /\ MaxTime \in Nat
  BY CurrentRevisionsAreCurrent
     DEF IInv, TypeOK, CurrentRecord, Current, Revisions, LifecycleAssumption
<1>3. Reaction(m, tree, membership, clock) = {}
  BY <1>1 DEF Transitions
<1>4. m.status \notin Terminal
  BY <1>1 DEF Terminal
<1>5. ~ LostScope(m, membership) /\ ~ LostReference(m, tree)
  BY <1>1, <1>3, <1>4 DEF Reaction, DecisionReaction, ConstraintReaction, ExistenceReaction
<1>6. /\ \A s \in m.scopes : membership[s] # Absent
      /\ \A f \in m.files : tree[f] # Absent
      /\ \A s \in m.symbols : tree[Owner[s]] \in DefinedIn[s]
  BY <1>5 DEF LostScope, LostReference, KnownFiles, KnownSymbols
<1>7. m.type = "decision" => m.mode = "none" /\ m.expires = MaxTime + 1
  BY <1>2 DEF ShapesValid, ValidShape, Never
<1>8. m.mode # "temporary" => m.expires = MaxTime + 1
  BY <1>2, <1>7 DEF ShapesValid, ValidShape, Never
<1>9. m.type # "decision" => ModeReaction(m, tree, membership, clock) = {}
  BY <1>1, <1>3, <1>4 DEF Reaction, ConstraintReaction
<1>10. ASSUME m.mode = "source_bound",
              NEW f \in m.files \cup {Owner[s] : s \in m.symbols}
       PROVE  m.source_hashes[f] = tree[f]
  <2>1. SourceHashes(m, tree) = m.source_hashes
    BY <1>7, <1>9, <1>10 DEF ModeReaction, SourceDrift
  <2>2. m.symbols \cap KnownSymbols(tree) = m.symbols
    BY <1>5 DEF LostReference
  <2>3. f \in Files
    BY <1>2, LifecycleAssumption DEF MemoryRevision, LifecycleAssumption
  <2>4. QED
    BY <1>10, <2>1, <2>2, <2>3 DEF SourceHashes
<1>11. ASSUME m.mode = "scope_bound", NEW s \in m.scopes
       PROVE  m.scope_hashes[s] = membership[s]
  <2>1. ScopeHashes(m, membership) = m.scope_hashes
    BY <1>7, <1>9, <1>11 DEF ModeReaction, ScopeDrift
  <2>2. s \in Scopes
    BY <1>2, <1>11 DEF MemoryRevision
  <2>3. QED
    BY <1>11, <2>1, <2>2 DEF ScopeHashes
<1>12. clock < m.expires
  <2>1. m.expires \in 0 .. MaxTime + 1
    BY <1>2 DEF MemoryRevision
  <2>2. CASE m.mode = "temporary"
    <3>1. Expiry(m, clock) = {}
      BY <1>7, <1>9, <2>2 DEF ModeReaction
    <3>2. ~ (clock >= m.expires)
      BY <1>1, <3>1 DEF Expiry
    <3>3. QED
      BY <1>2, <2>1, <3>2
  <2>3. CASE m.mode # "temporary"
    BY <1>2, <1>8, <2>3
  <2>4. QED
    BY <2>2, <2>3
<1>13. QED
  BY <1>6, <1>10, <1>11, <1>12 DEF Trustworthy

\* What `rune update` leaves active can be relied upon.
THEOREM UpdateIsTrustworthy == Spec => UpdateLeavesTrustworthy
<1> DEFINE Quiet == Transitions(memory, tree, membership, clock) = {}
           AllTrustworthy == \A m \in CurrentRevisions(memory) : Trustworthy(m)
           Updated == \E full \in BOOLEAN : Update(full)
<1>1. Init => ShapesValid
  BY DEF Init, ShapesValid
<1>2. IInv /\ ShapesValid /\ [Next]_vars => ShapesValid'
  BY ShapesStep, LifecycleAssumption, GovernanceAssumption
<1>3. IInv /\ ShapesValid /\ Quiet => AllTrustworthy
  BY QuietIsTrustworthy, LifecycleAssumption
<1>4. IInv /\ [Next]_vars => [Updated => Quiet']_vars
  BY UpdateQuiescent, LifecycleAssumption
<1>5. IInv /\ [Next]_vars => IInv'
  BY NextKeeps, LifecycleAssumption, GovernanceAssumption
<1> HIDE DEF Quiet, AllTrustworthy, Updated
<1>6. Spec => [][Updated => AllTrustworthy']_vars
  BY <1>1, <1>2, <1>3, <1>4, <1>5, Invariance, PTL DEF Spec
<1>7. QED
  BY <1>6 DEF UpdateLeavesTrustworthy, Updated, AllTrustworthy

-----------------------------------------------------------------------------
(* What `rune check` foretells                                             *)

\* What an update would retire for what it reads anew has lost a file or a
\* symbol, or is bound to a file, that has changed since it was indexed.
LEMMA ReactsToAChangedFile ==
    ASSUME TypeOK, NEW m \in MemoryRevision, m.type = "constraint",
           NEW unreadable \in SUBSET KnownFiles(tree), NEW now, NEW ms,
           Reaction(m, index, ms, now) = {},
           Reaction(m, Readable(unreadable), ms, now) # {}
    PROVE  /\ Visible(m)
           /\ \E f \in ChangedFiles(index, tree, unreadable) :
                 \/ f \in m.files
                 \/ \E s \in m.symbols \cap KnownSymbols(index) : Owner[s] = f
<1> DEFINE now2 == Readable(unreadable)
           Changed == ChangedFiles(index, tree, unreadable)
<1>1. \A f \in Files : now2[f] # index[f] => f \in Changed
  BY DEF Readable, ChangedFiles
<1>2. m.status \notin Terminal /\ m.mode # "persistent" /\ Visible(m)
  BY DEF Reaction, ConstraintReaction, MemoryRevision, RecordStatus, Terminal, Visible
<1>3. ExistenceReaction(m, index, ms) = {} /\ ModeReaction(m, index, ms, now) = {}
  BY <1>2 DEF Reaction, ConstraintReaction
<1>4. ~ LostScope(m, ms) /\ ~ LostReference(m, index)
  BY <1>3 DEF ExistenceReaction
<1>5. m.files \subseteq KnownFiles(index) /\ m.symbols \subseteq KnownSymbols(index)
  BY <1>4 DEF LostReference
<1>6. /\ m.files \subseteq Files /\ m.symbols \subseteq Symbols
      /\ \A s \in Symbols : Owner[s] \in Files
  BY LifecycleAssumption DEF MemoryRevision
<1>7. \/ ExistenceReaction(m, now2, ms) # {}
      \/ ModeReaction(m, now2, ms, now) # {}
  BY <1>2 DEF Reaction, ConstraintReaction
<1> HIDE DEF now2, Changed
<1>8. CASE LostReference(m, now2)
  <2>1. CASE ~ (m.files \subseteq KnownFiles(now2))
    BY <2>1, <1>1, <1>2, <1>5, <1>6 DEF KnownFiles, Changed
  <2>2. CASE ~ (m.symbols \subseteq KnownSymbols(now2))
    BY <2>2, <1>1, <1>2, <1>5, <1>6 DEF KnownSymbols, Changed
  <2>3. QED
    BY <1>8, <2>1, <2>2 DEF LostReference
<1>9. CASE ~ LostReference(m, now2)
  <2>1. ModeReaction(m, now2, ms, now) # {} /\ m.mode = "source_bound"
    BY <1>3, <1>4, <1>7, <1>9 DEF ExistenceReaction, ModeReaction
  <2>2. SourceHashes(m, now2) # SourceHashes(m, index)
    BY <1>3, <2>1 DEF ModeReaction, SourceDrift
  <2>3. m.symbols \subseteq KnownSymbols(now2)
    BY <1>9 DEF LostReference
  <2>4. m.symbols \cap KnownSymbols(now2) = m.symbols
        /\ m.symbols \cap KnownSymbols(index) = m.symbols
    BY <1>5, <2>3
  <2> DEFINE paths == m.files \cup {Owner[s] : s \in m.symbols}
  <2>5. /\ SourceHashes(m, now2) = [f \in Files |-> IF f \in paths THEN now2[f] ELSE Absent]
        /\ SourceHashes(m, index) = [f \in Files |-> IF f \in paths THEN index[f] ELSE Absent]
    BY <2>4 DEF SourceHashes
  <2>6. PICK f \in Files : f \in paths /\ now2[f] # index[f]
    BY <2>2, <2>5
  <2>7. f \in Changed
    BY <1>1, <2>6
  <2>8. f \in m.files \/ \E s \in m.symbols : Owner[s] = f
    BY <2>6
  <2>9. QED
    BY <1>2, <1>5, <2>7, <2>8 DEF Changed
<1>10. QED
  BY <1>8, <1>9

\* Each constraint that an update would retire because the tree has changed,
\* `rune check` lists, whatever the scope tables hold and whatever cannot be
\* read.  Decisions `check` does not list.
THEOREM CheckAnnounces == Spec => []CheckForetellsUpdate
<1>1. TypeOK => CheckForetellsUpdate
  <2> SUFFICES ASSUME TypeOK, view = memory,
                      NEW m \in CurrentRevisions(memory),
                      NEW unreadable \in SUBSET KnownFiles(tree),
                      NEW ms \in Membership,
                      m.type = "constraint",
                      Reaction(m, index, membership, clock) = {},
                      Reaction(m, Readable(unreadable), membership, clock) # {}
               PROVE  m \in Check(view, index, ms, tree, unreadable)
    BY DEF CheckForetellsUpdate
  <2>1. m \in MemoryRevision
    BY CurrentRevisionsAreCurrent DEF TypeOK
  <2>2. /\ Visible(m)
        /\ \E f \in ChangedFiles(index, tree, unreadable) :
              \/ f \in m.files
              \/ \E s \in m.symbols \cap KnownSymbols(index) : Owner[s] = f
    BY <2>1, ReactsToAChangedFile
  <2>3. m \in ShownConstraints(view)
    BY <2>2 DEF ShownConstraints
  <2>4. QED
    BY <2>2, <2>3 DEF Check
<1>2. QED
  BY <1>1, TypeCorrect, PTL

-----------------------------------------------------------------------------
(* No echo                                                                 *)

\* k says again what m says.
Echoes(m, k) == k = [m EXCEPT !.revision = k.revision, !.approved_by = k.approved_by]

LEMMA NoEchoInSteps ==
    ASSUME \A m, k \in memory' :
              (m.type = k.type /\ m.record = k.record /\ k.revision = m.revision + 1)
                 => ~ Echoes(m, k)
    PROVE  NoEchoRevision'
BY Zenon DEF NoEchoRevision, Echoes

\* The one new pair of neighbours is the current revision and what is
\* appended to it.
LEMMA AppendKeepsNoEcho ==
    ASSUME memory \subseteq MemoryRevision, Numbered, NoEchoRevision,
           NEW N \in SUBSET MemoryRevision,
           \A n \in N : n.revision = NextRevision(n.type, n.record),
           \A n, k \in N : (n.type = k.type /\ n.record = k.record) => n = k,
           \A n \in N : \A m \in CurrentRecord(n.type, n.record) : ~ Echoes(m, n),
           memory' = memory \cup N
    PROVE  NoEchoRevision'
<1>1. SUFFICES ASSUME NEW m \in memory \cup N, NEW k \in memory \cup N,
                      m.type = k.type, m.record = k.record, k.revision = m.revision + 1
               PROVE  ~ Echoes(m, k)
  BY NoEchoInSteps
<1>2. /\ m.revision \in Nat /\ k.revision \in Nat
      /\ k.type \in RecordType /\ k.record \in Records
  BY DEF MemoryRevision
<1>3. CASE m \in memory /\ k \in memory
  BY <1>1, <1>3 DEF NoEchoRevision, Echoes
<1>4. CASE m \in N /\ k \in N
  BY <1>1, <1>2, <1>4
<1>5. CASE m \in N /\ k \in memory
  <2>1. k.revision < m.revision
    BY <1>1, <1>2, <1>5, NextRevisionIsFresh DEF Revisions
  <2>2. QED
    BY <1>1, <1>2, <2>1
<1>6. CASE m \in memory /\ k \in N
  <2>1. \A j \in Revisions(memory, k.type, k.record) : j.revision <= m.revision
    <3>1. \A j \in Revisions(memory, k.type, k.record) :
             j.revision \in Nat /\ j.revision < k.revision
      BY <1>2, <1>6, NextRevisionIsFresh DEF Revisions, MemoryRevision
    <3>2. QED
      BY <1>1, <1>2, <3>1
  <2>2. m \in CurrentRecord(k.type, k.record)
    BY <1>1, <1>6, <2>1 DEF CurrentRecord, Current, Revisions
  <2>3. QED
    BY <1>6, <2>2
<1>7. QED
  BY <1>3, <1>4, <1>5, <1>6

LEMMA NoEchoStep ==
    ASSUME IInv, LifecycleAssumption, GovernanceAssumption, NoEchoRevision, [Next]_vars
    PROVE  NoEchoRevision'
<1>0. memory \subseteq MemoryRevision /\ Numbered
  BY DEF IInv, TypeOK
<1>1. ASSUME NEW q \in proposals, NEW edited \in SUBSET Payloads, NEW human \in Humans,
             ApproveContent(q, edited, human)
      PROVE  NoEchoRevision'
  <2>1. PICK pl \in (IF edited = {} THEN {q.payload} ELSE edited) :
           LET new == Approved(pl, IF edited = {} THEN q.created_by ELSE "human", human)
               written == {m \in CurrentRecord(pl.type, pl.record) : SameContent(m, new)}
           IN  \E m \in (IF written = {} THEN {new} ELSE written) : memory' = memory \cup {m}
    BY <1>1 DEF ApproveContent
  <2> DEFINE author == IF edited = {} THEN q.created_by ELSE "human"
             new == Approved(pl, author, human)
             written == {m \in CurrentRecord(pl.type, pl.record) : SameContent(m, new)}
  <2>2. PICK m \in (IF written = {} THEN {new} ELSE written) : memory' = memory \cup {m}
    BY <2>1
  <2>3. CASE written # {}
    <3>1. m \in memory
      BY <2>2, <2>3 DEF CurrentRecord, Current, Revisions
    <3>2. memory' = memory
      BY <2>2, <3>1
    <3>3. QED
      BY <3>2 DEF NoEchoRevision
  <2>4. CASE written = {}
    <3> DEFINE N == {new}
    <3>1. PICK k \in MemoryRevision :
             /\ memory' = memory \cup {k}
             /\ k \in memory \/ k.revision = NextRevision(k.type, k.record)
      BY <1>1, ApproveContentAppends DEF IInv, Written
    <3>2. memory' = memory \cup N
      BY <2>2, <2>4
    <3>3. CASE new \in memory
      <4>1. memory' = memory
        BY <3>2, <3>3
      <4>2. QED
        BY <4>1 DEF NoEchoRevision
    <3>4. CASE new \notin memory
      <4>1. k = new
        BY <3>1, <3>2, <3>4
      <4>2. new.type = pl.type /\ new.record = pl.record
        BY DEF Approved, AsRevision
      <4>3. \A j \in CurrentRecord(new.type, new.record) : ~ Echoes(j, new)
        BY <2>4, <4>2 DEF SameContent, Echoes
      <4> HIDE DEF new
      <4>4. /\ N \in SUBSET MemoryRevision
            /\ \A n \in N : n.revision = NextRevision(n.type, n.record)
            /\ \A n, j \in N : (n.type = j.type /\ n.record = j.record) => n = j
            /\ \A n \in N : \A j \in CurrentRecord(n.type, n.record) : ~ Echoes(j, n)
        BY <3>1, <3>4, <4>1, <4>3
      <4> HIDE DEF N
      <4>5. QED
        BY <1>0, <3>2, <4>4, AppendKeepsNoEcho
    <3>5. QED
      BY <3>3, <3>4
  <2>5. QED
    BY <2>3, <2>4
<1>2. ASSUME NEW m \in CurrentRevisions(memory), NEW human \in Humans, Deactivate(m, human)
      PROVE  NoEchoRevision'
  <2> DEFINE n == [m EXCEPT !.revision = @ + 1, !.status = "inactive",
                            !.created_by = "human", !.approved_by = human]
             N == {n}
  <2>1. m \in MemoryRevision /\ m.type \in RecordType /\ m.record \in Records
        /\ m \in CurrentRecord(m.type, m.record)
    BY <1>0, CurrentRevisionsAreCurrent
  <2>2. CurrentRecord(m.type, m.record) = {m} /\ NextRevision(m.type, m.record) = m.revision + 1
    BY <1>0, <2>1, CurrentIsUnique DEF Numbered
  <2>3. n \in MemoryRevision
    <3>1. m.revision + 1 \in Nat \ {0}
      BY <2>1 DEF MemoryRevision
    <3>2. "inactive" \in RecordStatus /\ "human" \in RevisionAuthor
          /\ human \in Humans \cup {Nobody}
      BY DEF RecordStatus, RevisionAuthor, Actor
    <3>3. QED
      BY <2>1, <3>1, <3>2, Zenon DEF MemoryRevision
  <2>4. n.revision = m.revision + 1 /\ n.type = m.type /\ n.record = m.record
        /\ n.status = "inactive"
    BY <2>1, Zenon DEF MemoryRevision
  <2>5. memory' = memory \cup N /\ m.status # "inactive"
    BY <1>2 DEF Deactivate
  <2> HIDE DEF n
  <2>6. ~ Echoes(m, n)
    BY <2>1, <2>3, <2>4, <2>5 DEF Echoes, MemoryRevision
  <2>7. /\ N \in SUBSET MemoryRevision
        /\ \A k \in N : k.revision = NextRevision(k.type, k.record)
        /\ \A k, j \in N : (k.type = j.type /\ k.record = j.record) => k = j
        /\ \A k \in N : \A j \in CurrentRecord(k.type, k.record) : ~ Echoes(j, k)
    BY <2>2, <2>3, <2>4, <2>6
  <2> HIDE DEF N
  <2>8. QED
    BY <1>0, <2>5, <2>7, AppendKeepsNoEcho
<1>3. ASSUME NEW full \in BOOLEAN, Update(full)
      PROVE  NoEchoRevision'
  <2> DEFINE added == {f \in Files : tree[f] # Absent /\ index[f] = Absent}
             members == IF full THEN membership
                        ELSE Scope!AssignNewFilesFromImports(membership, Locked, added, tree)
             N == Transitions(memory, tree, members, clock)
  <2>1. memory' = memory \cup N
    BY <1>3 DEF Update
  <2>2. tree \in Index /\ membership \in Membership /\ clock \in Nat
    BY DEF IInv, TypeOK, LifecycleAssumption
  <2>3. members \in Membership
    BY <2>2, AssignedIsMembership
  <2> HIDE DEF members
  <2>4. /\ N \in SUBSET MemoryRevision
        /\ \A n \in N : n.revision = NextRevision(n.type, n.record)
        /\ \A n, k \in N : (n.type = k.type /\ n.record = k.record) => n = k
        /\ \A n \in N : \A m \in CurrentRecord(n.type, n.record) :
              n \in Reaction(m, tree, members, clock)
    BY <1>0, <2>2, <2>3, TransitionsAppend
  <2> HIDE DEF N
  <2>5. ASSUME NEW n \in N, NEW m \in CurrentRecord(n.type, n.record)
        PROVE  ~ Echoes(m, n)
    <3>1. m \in MemoryRevision /\ n \in MemoryRevision
      BY <1>0, <2>4 DEF CurrentRecord, Current, Revisions
    <3>2. n.status # m.status \/ n.source_hashes # m.source_hashes
      BY <2>2, <2>3, <2>4, <2>5, <3>1, ReactionChanges
    <3>3. QED
      BY <3>1, <3>2 DEF Echoes, MemoryRevision
  <2>6. QED
    BY <1>0, <2>1, <2>4, <2>5, AppendKeepsNoEcho
<1>4. CASE UNCHANGED memory
  BY <1>4 DEF NoEchoRevision
<1>5. CASE \E p \in Proposals, human \in Humans : \E q \in CurrentProposal(p) :
               \/ ApproveContent(q, {}, human)
               \/ \E pl \in Payloads : ApproveContent(q, {pl}, human)
  <2>1. \A p \in Proposals : CurrentProposal(p) \subseteq proposals
    BY DEF CurrentProposal, Current, Lines
  <2>2. QED
    BY <1>1, <1>5, <2>1
<1>6. QED
  BY <1>2, <1>3, <1>4, <1>5
     DEF Next, Propose, ApproveResolve, Reject, RefreshCache, Crash, EditSource, EditScope,
         Tick, LoseCache, environment, vars

\* No revision repeats the one before it, whatever is retried and by whom.
THEOREM NoRepetition == Spec => []NoEchoRevision
<1>1. Init => NoEchoRevision
  BY DEF Init, NoEchoRevision
<1>2. IInv /\ NoEchoRevision /\ [Next]_vars => NoEchoRevision'
  BY NoEchoStep, LifecycleAssumption, GovernanceAssumption
<1>3. QED
  BY <1>1, <1>2, Invariance, PTL DEF Spec

-----------------------------------------------------------------------------
(* Refinement: Governance implements Approval                              *)

LEMMA OutcomeOfOneLine ==
    ASSUME proposals \subseteq Proposal, NEW p \in Proposals, NEW q, Lines(p) = {q}
    PROVE  CurrentProposal(p) = {q} /\ OutcomeOf(p) = q.status
<1>1. q \in Proposal
  BY DEF Lines
<1>2. q.revision <= q.revision
  BY <1>1 DEF Proposal
<1>3. CurrentProposal(p) = {q}
  BY <1>2 DEF CurrentProposal, Current
<1>4. QED
  BY <1>3 DEF OutcomeOf

\* A step that adds a line to one proposal alone changes its outcome alone.
LEMMA OtherOutcomes ==
    ASSUME NEW r \in Proposal, proposals' = proposals \cup {r},
           NEW p \in Proposals, p # r.id
    PROVE  OutcomeOf(p)' = OutcomeOf(p) /\ GrantedOf(p)' = GrantedOf(p)
<1>1. Lines(p)' = Lines(p)
  BY DEF Lines
<1>2. QED
  BY <1>1 DEF OutcomeOf, GrantedOf, CurrentProposal

LEMMA SameOutcomes ==
    ASSUME UNCHANGED proposals, NEW p \in Proposals
    PROVE  OutcomeOf(p)' = OutcomeOf(p) /\ GrantedOf(p)' = GrantedOf(p)
BY DEF OutcomeOf, GrantedOf, CurrentProposal, Lines

LEMMA InitRefines ==
    ASSUME Init
    PROVE  Gate!Init
BY DEF Init, Gate!Init, OutcomeOf, GrantedOf, Lines

\* Submitting.
LEMMA ProposeRefines ==
    ASSUME IInv, IInv', NEW p \in Proposals, NEW pl \in Payloads, NEW actor \in Actor,
           Propose(p, pl, actor)
    PROVE  Gate!Submit(p)
<1> DEFINE q == [id |-> p, revision |-> 1, status |-> "pending",
                 payload |-> Draft(pl, actor), created_by |-> actor]
<1>1. proposals' = proposals \cup {q} /\ Lines(p) = {} /\ q.id = p /\ q.status = "pending"
  BY DEF Propose
<1>2. proposals' \subseteq Proposal /\ q \in Proposal
  BY <1>1 DEF IInv, TypeOK
<1> HIDE DEF q
<1>3. OutcomeOf(p) = "none" /\ GrantedOf(p) = {}
  BY <1>1 DEF OutcomeOf, GrantedOf
<1>4. Lines(p)' = {q}
  BY <1>1 DEF Lines
<1>5. OutcomeOf(p)' = "pending" /\ GrantedOf(p)' = {}
  <2>1. CurrentProposal(p)' = {q}
    <3>1. q.revision <= q.revision
      BY <1>2 DEF Proposal
    <3>2. QED
      BY <1>4, <3>1 DEF CurrentProposal, Current
  <2>2. OutcomeOf(p)' = q.status
    BY <1>4, <2>1 DEF OutcomeOf
  <2>3. {l \in Lines(p)' : l.status \in {"approved", "edited"}} = {}
    BY <1>1, <1>4
  <2>4. QED
    BY <1>1, <2>2, <2>3 DEF GrantedOf
<1>6. \A o \in Proposals \ {p} : OutcomeOf(o)' = OutcomeOf(o) /\ GrantedOf(o)' = GrantedOf(o)
  BY <1>1, <1>2, OtherOutcomes
<1>7. UNCHANGED memory
  BY DEF Propose
<1>8. QED
  BY <1>3, <1>5, <1>6, <1>7 DEF Gate!Submit

\* Resolving: what both the end of an approval and a rejection do.
LEMMA ResolutionRefines ==
    ASSUME proposals \subseteq Proposal, proposals' \subseteq Proposal,
           NEW p \in Proposals, NEW q, NEW r \in Proposal,
           Lines(p) = {q}, q.revision = 1, q.status = "pending",
           r.id = p, r.revision = 2, proposals' = proposals \cup {r}
    PROVE  LET outcome == [o \in Proposals |-> OutcomeOf(o)]
               granted == [o \in Proposals |-> GrantedOf(o)]
           IN  /\ outcome[p] = "pending"
               /\ outcome' = [outcome EXCEPT ![p] = r.status]
               /\ granted' = IF r.status \in {"approved", "edited"}
                             THEN [granted EXCEPT ![p] = {r.payload}] ELSE granted
<1>1. OutcomeOf(p) = "pending"
  BY OutcomeOfOneLine
<1>2. GrantedOf(p) = {}
  <2>1. {l \in Lines(p) : l.status \in {"approved", "edited"}} = {}
    OBVIOUS
  <2>2. QED
    BY <2>1 DEF GrantedOf
<1>3. Lines(p)' = {q, r}
  BY DEF Lines
<1>4. CurrentProposal(p)' = {r}
  BY <1>3 DEF CurrentProposal, Current
<1>5. OutcomeOf(p)' = r.status
  BY <1>3, <1>4 DEF OutcomeOf
<1>6. GrantedOf(p)' = IF r.status \in {"approved", "edited"} THEN {r.payload} ELSE {}
  <2>1. CASE r.status \in {"approved", "edited"}
    <3>1. {l \in Lines(p)' : l.status \in {"approved", "edited"}} = {r}
      BY <1>3, <2>1
    <3>2. QED
      BY <2>1, <3>1 DEF GrantedOf
  <2>2. CASE r.status \notin {"approved", "edited"}
    <3>1. {l \in Lines(p)' : l.status \in {"approved", "edited"}} = {}
      BY <1>3, <2>2
    <3>2. QED
      BY <2>2, <3>1 DEF GrantedOf
  <2>3. QED
    BY <2>1, <2>2
<1>7. \A o \in Proposals \ {p} : OutcomeOf(o)' = OutcomeOf(o) /\ GrantedOf(o)' = GrantedOf(o)
  BY OtherOutcomes
<1>8. QED
  BY <1>1, <1>2, <1>5, <1>6, <1>7

LEMMA ApproveResolveRefines ==
    ASSUME IInv, IInv', ApproveResolve
    PROVE  \E p \in Proposals : Gate!Grant(p)
<1> DEFINE r == op.proposal
           p == r.id
<1>1. op.step = "resolve" /\ r \in Proposal
  BY DEF IInv, TypeOK, ApproveResolve, Idle, Refreshing
<1>2. /\ r.revision = 2 /\ r.status \in {"approved", "edited"}
      /\ r.payload \in memory
  BY <1>1 DEF IInv, Written, ResolvingIsWritten, Resolutions, ResolvingIsPending
<1>3. PICK q \in proposals : q.id = p /\ \A k \in proposals : k.id = p => k = q
  <2>1. PICK q \in proposals : q.id = p
    BY <1>1 DEF IInv, Resolutions, ResolvingIsPending
  <2>2. \A k \in proposals : k.id = p => k.revision = 1
    BY <1>1 DEF IInv, Resolutions, ResolvingIsPending
  <2>3. ASSUME NEW k \in proposals, k.id = p
        PROVE  k = q
    <3>1. k.revision = q.revision /\ k.id = q.id
      BY <2>1, <2>2, <2>3
    <3>2. QED
      BY <3>1 DEF IInv, Resolutions, ProposalLines
  <2>4. QED
    BY <2>1, <2>3
<1>4. q.revision = 1 /\ q.status = "pending"
  BY <1>1, <1>3 DEF IInv, Resolutions, ResolvingIsPending, ProposalLines
<1>5. Lines(p) = {q}
  BY <1>3 DEF Lines
<1>6. proposals' = proposals \cup {r} /\ UNCHANGED memory /\ p \in Proposals
  BY <1>1 DEF ApproveResolve, Proposal
<1>7. proposals \subseteq Proposal /\ proposals' \subseteq Proposal
  BY DEF IInv, TypeOK
<1> DEFINE outcome == [o \in Proposals |-> OutcomeOf(o)]
           granted == [o \in Proposals |-> GrantedOf(o)]
<1> HIDE DEF r
<1>8. /\ outcome[p] = "pending"
      /\ outcome' = [outcome EXCEPT ![p] = r.status]
      /\ granted' = [granted EXCEPT ![p] = {r.payload}]
  BY <1>1, <1>2, <1>4, <1>5, <1>6, <1>7, ResolutionRefines
<1>9. Gate!Grant(p)
  BY <1>2, <1>6, <1>8 DEF Gate!Grant
<1>10. QED
  BY <1>6, <1>9

LEMMA RejectRefines ==
    ASSUME IInv, IInv', NEW p \in Proposals, NEW q \in CurrentProposal(p), Reject(q)
    PROVE  Gate!Refuse(p)
<1> DEFINE r == [q EXCEPT !.revision = @ + 1, !.status = "rejected"]
<1>1. q \in proposals /\ q.id = p /\ q.revision = 1 /\ q.status = "pending" /\ Lines(p) = {q}
  BY PendingIsOnlyLine DEF Reject, IInv, TypeOK, Resolutions
<1>2. proposals' = proposals \cup {r} /\ UNCHANGED memory
  BY DEF Reject
<1>3. proposals \subseteq Proposal /\ proposals' \subseteq Proposal /\ r \in Proposal
  BY <1>2 DEF IInv, TypeOK
<1>4. r.id = p /\ r.revision = 2 /\ r.status = "rejected"
  <2>1. q \in Proposal
    BY <1>1, <1>3
  <2>2. r.id = q.id /\ r.revision = q.revision + 1 /\ r.status = "rejected"
    BY <2>1, Zenon DEF Proposal
  <2>3. QED
    BY <1>1, <2>2
<1> DEFINE outcome == [o \in Proposals |-> OutcomeOf(o)]
           granted == [o \in Proposals |-> GrantedOf(o)]
<1> HIDE DEF r
<1>5. /\ outcome[p] = "pending"
      /\ outcome' = [outcome EXCEPT ![p] = r.status]
      /\ granted' = IF r.status \in {"approved", "edited"}
                    THEN [granted EXCEPT ![p] = {r.payload}] ELSE granted
  BY <1>1, <1>2, <1>3, <1>4, ResolutionRefines
<1>6. QED
  BY <1>2, <1>4, <1>5 DEF Gate!Refuse

\* Every step that leaves the proposals alone appends to the records or
\* leaves them alone too.
LEMMA RecordRefines ==
    ASSUME IInv, IInv', UNCHANGED proposals, memory \subseteq memory'
    PROVE  Gate!Record
<1>1. memory' \subseteq MemoryRevision
  BY DEF IInv, TypeOK
<1>2. \A p \in Proposals : OutcomeOf(p)' = OutcomeOf(p) /\ GrantedOf(p)' = GrantedOf(p)
  BY SameOutcomes
<1>3. QED
  BY <1>1, <1>2 DEF Gate!Record

LEMMA NextRefines ==
    ASSUME IInv, IInv', [Next]_vars
    PROVE  Gate!Next
<1>1. CASE \E p \in Proposals, pl \in Payloads, actor \in Actor : Propose(p, pl, actor)
  BY <1>1, ProposeRefines DEF Gate!Next
<1>2. CASE ApproveResolve
  BY <1>2, ApproveResolveRefines DEF Gate!Next
<1>3. CASE \E p \in Proposals : \E q \in CurrentProposal(p) : Reject(q)
  BY <1>3, RejectRefines DEF Gate!Next
<1>4. ASSUME NEW q, NEW edited, NEW human, ApproveContent(q, edited, human)
      PROVE  UNCHANGED proposals /\ memory \subseteq memory'
  BY <1>4 DEF ApproveContent
<1>5. CASE UNCHANGED proposals /\ memory \subseteq memory'
  BY <1>5, RecordRefines DEF Gate!Next
<1>6. QED
  BY <1>1, <1>2, <1>3, <1>4, <1>5
     DEF Next, Deactivate, RefreshCache, Crash, Update, EditSource, EditScope, Tick,
         LoseCache, environment, vars

\* The three-step approval implements the gate: a proposal is resolved at
\* most once, granted only by naming a revision already in the history, and
\* history only grows.
THEOREM GateImplemented == Spec => ApprovalSpec
<1>1. Init => Gate!Init
  BY InitRefines
<1>2. IInv /\ IInv' /\ [Next]_vars => Gate!Next
  BY NextRefines
<1>3. QED
  BY <1>1, <1>2, Invariance, PTL DEF Spec, ApprovalSpec, Gate!Spec
-----------------------------------------------------------------------------
(* Refinement: Governance implements RevisionLog                           *)

\* The log's lines of an id are the record's revisions, its latest line the
\* current one.
LEMMA LogOfRecord ==
    ASSUME memory \subseteq MemoryRevision, NEW t, NEW r
    PROVE  /\ Log!Of(<<t, r>>) = Revisions(memory, t, r)
           /\ Log!Latest(<<t, r>>) = CurrentRecord(t, r)
<1>1. \A m \in memory : RecordId[m] = <<m.type, m.record>>
  BY DEF RecordId
<1>2. Log!Of(<<t, r>>) = Revisions(memory, t, r)
  BY <1>1 DEF Log!Of, Revisions
<1>3. QED
  BY <1>2 DEF Log!Latest, CurrentRecord, Current

\* Appending to each record at most one revision, with the next number, is a
\* step of the log when what nobody wrote is a copy in another condition.
LEMMA AppendRefines ==
    ASSUME memory \subseteq MemoryRevision, Numbered,
           NEW N \in SUBSET MemoryRevision,
           \A n \in N : n.revision = NextRevision(n.type, n.record),
           \A n, k \in N : (n.type = k.type /\ n.record = k.record) => n = k,
           \A n \in N \ Authored : \E m \in CurrentRecord(n.type, n.record) : Copy(m, n),
           memory' = memory \cup N
    PROVE  Log!Next
<1> DEFINE new == memory' \ memory
<1>1. new \subseteq N /\ new \subseteq MemoryRevision /\ memory' = memory \cup new
  OBVIOUS
<1>2. \A n \in MemoryRevision :
         /\ RecordId[n] = <<n.type, n.record>>
         /\ n.type \in RecordType /\ n.record \in Records
  BY DEF RecordId, MemoryRevision
<1>3. \A n, k \in new : RecordId[n] = RecordId[k] => n = k
  BY <1>1, <1>2
<1>4. ASSUME NEW n \in new
      PROVE  /\ Log!Follows(n)
             /\ n \notin Authored => Log!FullCopy(n)
  <2>1. /\ n \in N /\ RecordId[n] = <<n.type, n.record>>
        /\ n.type \in RecordType /\ n.record \in Records
    BY <1>1, <1>2, <1>4
  <2>2. /\ Log!Of(RecordId[n]) = Revisions(memory, n.type, n.record)
        /\ Log!Latest(RecordId[n]) = CurrentRecord(n.type, n.record)
    BY <2>1, LogOfRecord
  <2>3. CASE Revisions(memory, n.type, n.record) = {}
    <3>1. CurrentRecord(n.type, n.record) = {} /\ n.revision = 1
      BY <2>1, <2>3 DEF CurrentRecord, Current, NextRevision
    <3>2. QED
      BY <2>1, <2>2, <2>3, <3>1 DEF Log!Follows, Log!FullCopy
  <2>4. CASE Revisions(memory, n.type, n.record) # {}
    <3>1. PICK m \in CurrentRecord(n.type, n.record) : TRUE
      BY <2>1, <2>4 DEF Numbered, HasCurrent
    <3>2. n.revision = m.revision + 1
      BY <2>1, <3>1, CurrentIsUnique DEF Numbered
    <3>3. QED
      BY <2>1, <2>2, <2>4, <3>1, <3>2 DEF Log!Follows, Log!FullCopy, Copy
  <2>5. QED
    BY <2>3, <2>4
<1> HIDE DEF new
<1>5. Log!Append(new)
  BY <1>1, <1>3, <1>4 DEF Log!Append
<1>6. QED
  BY <1>5 DEF Log!Next, new

LEMMA ApproveContentRefinesLog ==
    ASSUME IInv, GovernanceAssumption, NEW q \in proposals,
           NEW edited \in SUBSET Payloads, NEW human \in Humans,
           ApproveContent(q, edited, human)
    PROVE  Log!Next \/ UNCHANGED memory
<1>1. PICK m \in MemoryRevision :
         /\ memory' = memory \cup {m}
         /\ m \in memory \/ m.revision = NextRevision(m.type, m.record)
         /\ m \in memory \/ m.created_by \in Actor
  BY ApproveContentAppends DEF IInv, Written
<1>2. CASE m \in memory
  BY <1>1, <1>2
<1>3. CASE m \notin memory
  <2> DEFINE N == {m}
  <2>1. /\ N \in SUBSET MemoryRevision /\ N \ Authored = {}
        /\ \A n \in N : n.revision = NextRevision(n.type, n.record)
        /\ \A n, k \in N : (n.type = k.type /\ n.record = k.record) => n = k
        /\ memory' = memory \cup N
    BY <1>1, <1>3 DEF Authored
  <2> HIDE DEF N
  <2>2. QED
    BY <2>1, AppendRefines DEF IInv, TypeOK
<1>4. QED
  BY <1>2, <1>3

LEMMA DeactivateRefinesLog ==
    ASSUME IInv, NEW m \in CurrentRevisions(memory), NEW human \in Humans,
           Deactivate(m, human)
    PROVE  Log!Next
<1> DEFINE n == [m EXCEPT !.revision = @ + 1, !.status = "inactive",
                          !.created_by = "human", !.approved_by = human]
           N == {n}
<1>1. m \in MemoryRevision /\ m.type \in RecordType /\ m.record \in Records
      /\ m \in CurrentRecord(m.type, m.record)
  BY CurrentRevisionsAreCurrent DEF IInv, TypeOK
<1>2. NextRevision(m.type, m.record) = m.revision + 1
  BY <1>1, CurrentIsUnique DEF IInv, TypeOK, Numbered
<1>3. n \in MemoryRevision
  <2>1. m.revision + 1 \in Nat \ {0}
    BY <1>1 DEF MemoryRevision
  <2>2. "inactive" \in RecordStatus /\ "human" \in RevisionAuthor
        /\ human \in Humans \cup {Nobody}
    BY DEF RecordStatus, RevisionAuthor, Actor
  <2>3. QED
    BY <1>1, <2>1, <2>2, Zenon DEF MemoryRevision
<1>4. n.revision = m.revision + 1 /\ n.type = m.type /\ n.record = m.record
      /\ n.created_by = "human"
  BY <1>1, Zenon DEF MemoryRevision
<1>5. memory' = memory \cup N
  BY DEF Deactivate
<1> HIDE DEF n
<1>6. /\ N \in SUBSET MemoryRevision /\ N \ Authored = {}
      /\ \A k \in N : k.revision = NextRevision(k.type, k.record)
      /\ \A k, j \in N : (k.type = j.type /\ k.record = j.record) => k = j
  BY <1>2, <1>3, <1>4 DEF Authored, Actor
<1> HIDE DEF N
<1>7. QED
  BY <1>5, <1>6, AppendRefines DEF IInv, TypeOK

LEMMA UpdateRefinesLog ==
    ASSUME IInv, LifecycleAssumption, NEW full \in BOOLEAN, Update(full)
    PROVE  Log!Next
<1> DEFINE added == {f \in Files : tree[f] # Absent /\ index[f] = Absent}
           members == IF full THEN membership
                      ELSE Scope!AssignNewFilesFromImports(membership, Locked, added, tree)
           N == Transitions(memory, tree, members, clock)
<1>1. tree \in Index /\ membership \in Membership /\ clock \in Nat
      /\ memory \subseteq MemoryRevision /\ Numbered
  BY DEF IInv, TypeOK, LifecycleAssumption
<1>2. memory' = memory \cup N
  BY DEF Update
<1>3. members \in Membership
  BY <1>1, AssignedIsMembership
<1> HIDE DEF members
<1>4. /\ N \in SUBSET MemoryRevision
      /\ \A n \in N : n.revision = NextRevision(n.type, n.record)
      /\ \A n, k \in N : (n.type = k.type /\ n.record = k.record) => n = k
      /\ \A n \in N : CurrentRecord(n.type, n.record) # {}
      /\ \A n \in N : \A m \in CurrentRecord(n.type, n.record) :
            n \in Reaction(m, tree, members, clock)
  BY <1>1, <1>3, TransitionsAppend
<1> HIDE DEF N
<1>5. ASSUME NEW n \in N
      PROVE  \E m \in CurrentRecord(n.type, n.record) : Copy(m, n)
  <2>1. PICK m \in CurrentRecord(n.type, n.record) : n \in Reaction(m, tree, members, clock)
    BY <1>4
  <2>2. m \in MemoryRevision
    BY <1>1 DEF CurrentRecord, Current, Revisions
  <2>3. QED
    BY <1>1, <1>3, <2>1, <2>2, ReactionCopies
<1>6. QED
  BY <1>1, <1>2, <1>4, <1>5, AppendRefines

LEMMA NextRefinesLog ==
    ASSUME IInv, LifecycleAssumption, GovernanceAssumption, [Next]_vars
    PROVE  [Log!Next]_memory
<1>1. CASE \E p \in Proposals, human \in Humans : \E q \in CurrentProposal(p) :
               \/ ApproveContent(q, {}, human)
               \/ \E pl \in Payloads : ApproveContent(q, {pl}, human)
  <2>1. \A p \in Proposals : CurrentProposal(p) \subseteq proposals
    BY DEF CurrentProposal, Current, Lines
  <2>2. {} \in SUBSET Payloads /\ \A pl \in Payloads : {pl} \in SUBSET Payloads
    OBVIOUS
  <2>3. QED
    BY <1>1, <2>1, <2>2, ApproveContentRefinesLog
<1>2. CASE \E m \in CurrentRevisions(memory), human \in Humans : Deactivate(m, human)
  BY <1>2, DeactivateRefinesLog
<1>3. CASE \E full \in BOOLEAN : Update(full)
  BY <1>3, UpdateRefinesLog
<1>4. CASE UNCHANGED memory
  BY <1>4
<1>5. QED
  BY <1>1, <1>2, <1>3, <1>4
     DEF Next, Propose, ApproveResolve, Reject, RefreshCache, Crash, EditSource, EditScope,
         Tick, LoseCache, environment, vars

\* decisions.jsonl and constraints.jsonl are revision logs: they only grow, a
\* record's revisions are 1, 2, ... in the order of writing, and the system's
\* own are full copies that say something new and overrule no human.
THEOREM LogImplemented == Spec => LogSpec
<1>1. Init => Log!Init
  BY DEF Init, Log!Init
<1>2. IInv /\ [Next]_vars => [Log!Next]_memory
  BY NextRefinesLog, LifecycleAssumption, GovernanceAssumption
<1>3. QED
  BY <1>1, <1>2, Invariance, PTL DEF Spec, LogSpec, Log!Spec
=============================================================================
