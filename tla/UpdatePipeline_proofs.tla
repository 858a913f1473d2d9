------------------------ MODULE UpdatePipeline_proofs -----------------------
(***************************************************************************)
(* Proofs about module UpdatePipeline, for any set of files, scopes and    *)
(* records, any content approved, and a failure or a kill at any step.     *)
(***************************************************************************)
EXTENDS PipelineReaders, Lifecycle_proofs

-----------------------------------------------------------------------------
(* Numbering, of any set of revisions                                      *)

Contiguous(M) ==
    \A m, k \in M : (m.type = k.type /\ m.record = k.record) =>
        /\ m.revision = k.revision => m = k
        /\ m.revision > 1 => \E j \in Revisions(M, m.type, m.record) :
                                 j.revision = m.revision - 1

CurrentExists(M) ==
    \A t \in RecordType, r \in Records :
        Revisions(M, t, r) # {} => Current(Revisions(M, t, r)) # {}

Numbered(M) == M \subseteq MemoryRevision /\ Contiguous(M) /\ CurrentExists(M)

\* The number of `n` is the one a writer reading M gives to the next revision.
Follows(M, n) ==
    \/ Revisions(M, n.type, n.record) = {} /\ n.revision = 1
    \/ \E k \in Current(Revisions(M, n.type, n.record)) : n.revision = k.revision + 1

LEMMA CurrentIsUnique ==
    ASSUME NEW M, Numbered(M), NEW t \in RecordType, NEW r \in Records,
           NEW m \in Current(Revisions(M, t, r))
    PROVE  /\ Current(Revisions(M, t, r)) = {m}
           /\ m \in M /\ m \in MemoryRevision /\ m.type = t /\ m.record = r
<1>1. \A k \in Current(Revisions(M, t, r)) :
          k \in M /\ k \in MemoryRevision /\ k.type = t /\ k.record = r
  BY DEF Current, Revisions, Numbered
<1>2. ASSUME NEW k \in Current(Revisions(M, t, r))
      PROVE  k = m
  <2>1. k.revision <= m.revision /\ m.revision <= k.revision
    BY <1>2 DEF Current
  <2>2. k.revision \in Nat /\ m.revision \in Nat
    BY <1>1, <1>2 DEF MemoryRevision
  <2>3. k.revision = m.revision
    BY <2>1, <2>2
  <2>4. QED
    BY <1>1, <1>2, <2>3 DEF Numbered, Contiguous
<1>3. QED
  BY <1>1, <1>2

\* The number that follows is greater than any there is.
LEMMA FollowsIsFresh ==
    ASSUME NEW M, Numbered(M), NEW n \in MemoryRevision, Follows(M, n)
    PROVE  /\ \A m \in Revisions(M, n.type, n.record) : m.revision < n.revision
           /\ n.revision > 1 =>
                 \E j \in Revisions(M, n.type, n.record) : j.revision = n.revision - 1
<1> DEFINE R == Revisions(M, n.type, n.record)
<1>1. \A m \in R : m.revision \in Nat
  BY DEF Revisions, MemoryRevision, Numbered
<1>2. CASE R = {} /\ n.revision = 1
  BY <1>2
<1>3. CASE \E k \in Current(R) : n.revision = k.revision + 1
  <2>1. PICK k \in Current(R) : n.revision = k.revision + 1
    BY <1>3
  <2>2. k \in R /\ \A m \in R : m.revision <= k.revision
    BY DEF Current
  <2>3. QED
    BY <1>1, <2>1, <2>2
<1>4. QED
  BY <1>2, <1>3 DEF Follows

\* Appending to each record at most one revision, the one that follows,
\* keeps the numbering.
LEMMA AppendKeepsNumbering ==
    ASSUME NEW M, Numbered(M), NEW N \in SUBSET MemoryRevision,
           \A n \in N : Follows(M, n),
           \A n, k \in N : (n.type = k.type /\ n.record = k.record) => n = k
    PROVE  Numbered(M \cup N)
<1>1. \A n \in N : \A m \in M :
          (m.type = n.type /\ m.record = n.record) => m.revision < n.revision
  BY FollowsIsFresh DEF Revisions
<1>2. \A m \in M \cup N : m \in MemoryRevision /\ m.revision \in Nat \ {0}
  BY DEF MemoryRevision, Numbered
<1>3. Contiguous(M \cup N)
  <2>1. SUFFICES ASSUME NEW m \in M \cup N, NEW k \in M \cup N,
                        m.type = k.type, m.record = k.record
                 PROVE  /\ m.revision = k.revision => m = k
                        /\ m.revision > 1 =>
                              \E j \in Revisions(M \cup N, m.type, m.record) :
                                 j.revision = m.revision - 1
    BY DEF Contiguous
  <2>2. m.revision = k.revision => m = k
    <3>1. CASE m \in M /\ k \in M
      BY <2>1, <3>1 DEF Numbered, Contiguous
    <3>2. CASE m \in N /\ k \in N
      BY <2>1, <3>2
    <3>3. CASE m \in N /\ k \in M
      <4>1. k.revision < m.revision /\ k.revision \in Nat /\ m.revision \in Nat
        BY <1>1, <1>2, <2>1, <3>3
      <4>2. QED
        BY <4>1
    <3>4. CASE m \in M /\ k \in N
      <4>1. m.revision < k.revision /\ k.revision \in Nat /\ m.revision \in Nat
        BY <1>1, <1>2, <2>1, <3>4
      <4>2. QED
        BY <4>1
    <3>5. QED
      BY <3>1, <3>2, <3>3, <3>4
  <2>3. ASSUME m.revision > 1
        PROVE  \E j \in Revisions(M \cup N, m.type, m.record) : j.revision = m.revision - 1
    <3>1. CASE m \in M
      BY <2>3, <3>1 DEF Numbered, Contiguous, Revisions
    <3>2. CASE m \in N
      <4>1. PICK j \in Revisions(M, m.type, m.record) : j.revision = m.revision - 1
        BY <2>3, <3>2, FollowsIsFresh
      <4>2. QED
        BY <4>1 DEF Revisions
    <3>3. QED
      BY <3>1, <3>2
  <2>4. QED
    BY <2>2, <2>3
<1>4. CurrentExists(M \cup N)
  <2>1. SUFFICES ASSUME NEW t \in RecordType, NEW r \in Records,
                        NEW m \in Revisions(M \cup N, t, r)
                 PROVE  Current(Revisions(M \cup N, t, r)) # {}
    BY DEF CurrentExists
  <2>2. CASE \E n \in N : n.type = t /\ n.record = r
    <3>1. PICK n \in N : n.type = t /\ n.record = r
      BY <2>2
    <3>2. ASSUME NEW k \in Revisions(M \cup N, t, r)
          PROVE  k.revision <= n.revision
      <4>1. k \in M \cup N /\ k.type = n.type /\ k.record = n.record
        BY <3>1, <3>2 DEF Revisions
      <4>2. k.revision \in Nat /\ n.revision \in Nat
        BY <1>2, <3>1, <4>1
      <4>3. CASE k \in M
        BY <1>1, <3>1, <4>1, <4>2, <4>3
      <4>4. CASE k \in N
        BY <3>1, <4>1, <4>2, <4>4
      <4>5. QED
        BY <4>1, <4>3, <4>4
    <3>3. n \in Revisions(M \cup N, t, r)
      BY <3>1 DEF Revisions
    <3>4. QED
      BY <3>2, <3>3 DEF Current
  <2>3. CASE ~ \E n \in N : n.type = t /\ n.record = r
    <3>1. Revisions(M \cup N, t, r) = Revisions(M, t, r)
      BY <2>3 DEF Revisions
    <3>2. QED
      BY <2>1, <3>1 DEF Numbered, CurrentExists
  <2>4. QED
    BY <2>2, <2>3
<1>5. QED
  BY <1>2, <1>3, <1>4 DEF Numbered

-----------------------------------------------------------------------------
(* What a run plans to append                                              *)

LEMMA CurrentRevisionsAreCurrent ==
    ASSUME NEW M, Numbered(M), NEW m \in CurrentRevisions(M)
    PROVE  /\ m \in M /\ m \in MemoryRevision
           /\ m.type \in RecordType /\ m.record \in Records
           /\ m \in Current(Revisions(M, m.type, m.record))
<1>1. PICK t \in RecordType, r \in Records : m \in Current(Revisions(M, t, r))
  BY DEF CurrentRevisions
<1>2. QED
  BY <1>1, CurrentIsUnique

\* At most one revision for each record, the one that follows its current
\* one, and never one in force.
LEMMA TransitionsFollow ==
    ASSUME NEW M, Numbered(M), NEW ix \in Index, NEW ms \in Membership, NEW now \in Nat
    PROVE  LET N == Transitions(M, ix, ms, now)
           IN  /\ N \subseteq MemoryRevision
               /\ \A n \in N : \E k \in Current(Revisions(M, n.type, n.record)) : Copy(k, n)
               /\ \A n, k \in N : (n.type = k.type /\ n.record = k.record) => n = k
               /\ \A n \in N : n.status # "active" /\ n \notin Authored
<1> DEFINE N == Transitions(M, ix, ms, now)
<1>1. ASSUME NEW n \in N
      PROVE  \E m \in MemoryRevision :
                /\ Reaction(m, ix, ms, now) = {n}
                /\ Current(Revisions(M, n.type, n.record)) = {m}
                /\ Transition(m, n) /\ Copy(m, n) /\ n \notin Authored
  <2>1. PICK m \in CurrentRevisions(M) : n \in Reaction(m, ix, ms, now)
    BY DEF Transitions
  <2>2. /\ m \in MemoryRevision /\ m.type \in RecordType /\ m.record \in Records
        /\ m \in Current(Revisions(M, m.type, m.record))
    BY CurrentRevisionsAreCurrent
  <2>3. Current(Revisions(M, m.type, m.record)) = {m}
    BY <2>2, CurrentIsUnique
  <2>4. /\ Transition(m, n) /\ Reaction(m, ix, ms, now) = {n}
        /\ Copy(m, n) /\ n \notin Authored
    BY <2>1, <2>2, ReactionSound, ReactionCopies
  <2>5. n.type = m.type /\ n.record = m.record
    BY <2>4 DEF Transition
  <2>6. QED
    BY <2>2, <2>3, <2>4, <2>5
<1>2. N \subseteq MemoryRevision /\ \A n \in N : n.status # "active" /\ n \notin Authored
  BY <1>1 DEF Transition
<1>3. \A n \in N : \E k \in Current(Revisions(M, n.type, n.record)) : Copy(k, n)
  BY <1>1
<1>4. \A n, k \in N : (n.type = k.type /\ n.record = k.record) => n = k
  BY <1>1
<1>5. QED
  BY <1>2, <1>3, <1>4

\* Once they are appended, nothing is left to append.
LEMMA TransitionsQuiescent ==
    ASSUME NEW M, Numbered(M), NEW ix \in Index, NEW ms \in Membership, NEW now \in Nat
    PROVE  Transitions(M \cup Transitions(M, ix, ms, now), ix, ms, now) = {}
<1> DEFINE N == Transitions(M, ix, ms, now)
<1>1. /\ N \subseteq MemoryRevision
      /\ \A n \in N : Follows(M, n)
      /\ \A n, k \in N : (n.type = k.type /\ n.record = k.record) => n = k
  BY TransitionsFollow DEF Follows, Copy
<1>2. \A n \in N : \E m \in MemoryRevision : n \in Reaction(m, ix, ms, now)
  BY CurrentRevisionsAreCurrent DEF Transitions
<1>3. \A m \in CurrentRevisions(M) : Reaction(m, ix, ms, now) \subseteq N
  BY DEF Transitions
<1> HIDE DEF N
<1>4. Numbered(M \cup N)
  BY <1>1, AppendKeepsNumbering
<1>5. ASSUME NEW x \in CurrentRevisions(M \cup N), NEW y \in Reaction(x, ix, ms, now)
      PROVE  FALSE
  <2>1. /\ x \in M \cup N /\ x \in MemoryRevision
        /\ x.type \in RecordType /\ x.record \in Records
        /\ x \in Current(Revisions(M \cup N, x.type, x.record))
    BY <1>4, CurrentRevisionsAreCurrent
  <2>2. CASE x \in N
    BY <1>2, <1>5, <2>2, ReactionQuiescent
  <2>3. CASE x \in M
    <3>1. x \in Current(Revisions(M, x.type, x.record))
      BY <2>1, <2>3 DEF Current, Revisions
    <3>2. y \in N
      BY <1>3, <1>5, <2>1, <3>1 DEF CurrentRevisions
    <3>3. y.type = x.type /\ y.record = x.record /\ y \in MemoryRevision
      BY <1>5, <2>1, ReactionSound DEF Transition
    <3>4. x.revision < y.revision
      BY <1>1, <2>3, <3>2, <3>3, FollowsIsFresh DEF Revisions
    <3>5. y.revision <= x.revision
      BY <2>1, <3>2, <3>3 DEF Current, Revisions
    <3>6. x.revision \in Nat /\ y.revision \in Nat
      BY <2>1, <3>3 DEF MemoryRevision
    <3>7. QED
      BY <3>4, <3>5, <3>6
  <2>4. QED
    BY <2>1, <2>2, <2>3
<1>6. SUFFICES ASSUME NEW z \in Transitions(M \cup N, ix, ms, now)
               PROVE  FALSE
  BY DEF N
<1>7. PICK x \in CurrentRevisions(M \cup N) : z \in Reaction(x, ix, ms, now)
  BY <1>6 DEF Transitions
<1>8. QED
  BY <1>5, <1>7

-----------------------------------------------------------------------------
(* The inductive invariant                                                 *)

\* What a run has still to append follows what is there, and copies it.
PlanFollows ==
    run.step \in Step =>
        /\ \A n \in run.new \ memory :
              \E k \in Current(Revisions(memory, n.type, n.record)) : Copy(k, n)
        /\ \A n, k \in run.new : (n.type = k.type /\ n.record = k.record) => n = k
        /\ \A n \in run.new : n.status # "active" /\ n \notin Authored

\* When it has appended everything, nothing is left to report.
PlanQuiescent ==
    run.step \in Step => Transitions(memory \cup run.new, run.index, run.members, 0) = {}

\* The canonical files are written in this order.
PlanWritten ==
    /\ run.step \in {"constraints", "project"} =>
          \A n \in run.new : n.type = "decision" => n \in memory
    /\ run.step = "project" => run.new \subseteq memory
    /\ run.step \in {"decisions", "constraints", "project"} => membership = run.members

\* From the commit on, readers see the plan.
PlanShown ==
    run.step \in Step \ {"commit"} =>
        /\ cache = "ok"
        /\ index = run.index
        /\ members = IndexedMembers(run.members, run.index)
        /\ view = memory \cup run.new
        /\ missed = {}

IInv ==
    /\ TypeOK
    /\ Numbered(memory)
    /\ PlanFollows
    /\ PlanQuiescent
    /\ PlanWritten
    /\ PlanShown
    /\ GapsAreExplained

LEMMA IdleIsNoStep == Idle.step = "idle" /\ Idle \notin Plan /\ "idle" \notin Step
BY DEF Idle, Plan, Step

LEMMA OwingIsNoStep ==
    ASSUME NEW lines
    PROVE  /\ Owing(lines).step = "refresh" /\ Owing(lines).new = lines
           /\ "refresh" \notin Step /\ Owing(lines) # Idle
BY DEF Owing, Idle, Step

\* The step tells which command is under way.
LEMMA StepTells ==
    ASSUME TypeOK
    PROVE  /\ run.step \in Step => run \in Plan /\ run # Idle /\ Unshown = {}
           /\ run.step = "refresh" =>
                 run \in Debt /\ run # Idle /\ Unshown = run.new /\ run.step \notin Step
           /\ run = Idle => run.step \notin Step /\ Unshown = {}
           /\ run = Idle \/ run.step = "refresh" \/ run.step \in Step
<1>1. run = Idle \/ run \in Plan \/ run \in Debt
  BY DEF TypeOK
<1>2. run \in Plan => run.step \in Step
  BY DEF Plan
<1>3. run \in Debt => run.step = "refresh"
  BY DEF Debt
<1>4. "refresh" \notin Step /\ Idle.step = "idle" /\ "idle" \notin Step
  BY IdleIsNoStep, OwingIsNoStep
<1>5. QED
  BY <1>1, <1>2, <1>3, <1>4 DEF Unshown

LEMMA InitInv == LifecycleAssumption /\ Init => IInv
<1> SUFFICES ASSUME LifecycleAssumption, Init PROVE IInv
  OBVIOUS
<1>1. TypeOK
  <2>1. NoSourceHashes \in Index /\ NoScopeHashes \in Membership
    BY DEF NoSourceHashes, NoScopeHashes, Index, Membership
  <2>2. QED
    BY <2>1 DEF Init, TypeOK, Index
<1>2. Numbered(memory)
  BY DEF Init, Numbered, Contiguous, CurrentExists, Revisions
<1>3. QED
  BY <1>1, <1>2, IdleIsNoStep
     DEF Init, IInv, PlanFollows, PlanQuiescent, PlanWritten, PlanShown,
         GapsAreExplained, Step

-----------------------------------------------------------------------------
(* The steps of a run                                                      *)

LEMMA AssignedIsMembership ==
    ASSUME NEW ms \in Membership, NEW added \in SUBSET Files, NEW tr \in Index
    PROVE  Scope!AssignNewFilesFromImports(ms, Locked, added, tr) \in Membership
<1> DEFINE A == Scope!AssignNewFilesFromImports(ms, Locked, added, tr)
<1>1. \A s \in Scopes : A[s] \in {Absent} \cup SUBSET Files
  BY DEF Scope!AssignNewFilesFromImports, Membership
<1>2. A = [s \in Scopes |-> A[s]]
  BY DEF Scope!AssignNewFilesFromImports
<1>3. QED
  BY <1>1, <1>2 DEF Membership

LEMMA IndexedIsMembership ==
    ASSUME NEW ms \in Membership, NEW ix \in Index
    PROVE  IndexedMembers(ms, ix) \in Membership
BY DEF IndexedMembers, Membership

\* What moves none of the lines, nor what is missed of them.
LEMMA GapsStay ==
    ASSUME GapsAreExplained, UNCHANGED <<memory, view>>, cache' = "ok" => cache = "ok",
           missed' \cup Unshown' = missed \cup Unshown
    PROVE  GapsAreExplained'
<1>1. Served' = Served
  BY DEF Served
<1>2. QED
  BY <1>1 DEF GapsAreExplained

LEMMA BeginKeeps ==
    ASSUME IInv, NEW full \in BOOLEAN, NEW unreadable \in SUBSET Files,
           Begin(full, unreadable)
    PROVE  IInv'
<1> DEFINE files == Scanned(unreadable)
           scopes == IF full THEN membership
                     ELSE Scope!AssignNewFilesFromImports(
                              membership, Locked, Added(unreadable), tree)
           new == Transitions(memory, files, scopes, 0)
<1>1. /\ tree \in Index /\ index \in Index /\ membership \in Membership
      /\ Numbered(memory)
  BY DEF IInv, TypeOK
<1>2. files \in Index
  BY <1>1 DEF Scanned, Index
<1>3. scopes \in Membership
  BY <1>1, AssignedIsMembership DEF Added
<1>4. /\ run' = [step |-> "commit", index |-> files, members |-> scopes, new |-> new]
      /\ UNCHANGED <<tree, membership, memory, project, cache, index, members, view, missed>>
      /\ run = Idle
  BY DEF Begin, canonical, database
<1> HIDE DEF files, scopes
<1>5. /\ new \subseteq MemoryRevision
      /\ \A n \in new : \E k \in Current(Revisions(memory, n.type, n.record)) : Copy(k, n)
      /\ \A n, k \in new : (n.type = k.type /\ n.record = k.record) => n = k
      /\ \A n \in new : n.status # "active" /\ n \notin Authored
  BY <1>1, <1>2, <1>3, TransitionsFollow
<1>6. Transitions(memory \cup new, files, scopes, 0) = {}
  BY <1>1, <1>2, <1>3, TransitionsQuiescent
<1> HIDE DEF new
<1>7. run' \in Plan
  BY <1>2, <1>3, <1>4, <1>5 DEF Plan, Step
<1>8. /\ run'.step = "commit" /\ run'.index = files /\ run'.members = scopes
      /\ run'.new = new
  BY <1>4
<1>9. TypeOK'
  BY <1>4, <1>7 DEF IInv, TypeOK
<1>10. PlanFollows' /\ PlanQuiescent'
  BY <1>4, <1>5, <1>6, <1>8 DEF PlanFollows, PlanQuiescent
<1>11. PlanWritten' /\ PlanShown'
  BY <1>8 DEF PlanWritten, PlanShown
<1>12. Numbered(memory)'
  BY <1>4 DEF IInv, Numbered
<1>13. GapsAreExplained'
  <2>1. Unshown = {} /\ Unshown' = {}
    BY <1>4, <1>8, StepTells DEF IInv, Unshown
  <2>2. QED
    BY <1>4, <2>1, GapsStay DEF IInv
<1>14. QED
  BY <1>9, <1>10, <1>11, <1>12, <1>13 DEF IInv

LEMMA CommitKeeps ==
    ASSUME IInv, Commit
    PROVE  IInv'
<1>1. run \in Plan /\ run.step \in Step /\ run.step = "commit"
  BY StepTells DEF IInv, Commit, Step
<1>2. /\ run' = [run EXCEPT !.step = "scopes"]
      /\ cache' = "ok" /\ index' = run.index
      /\ members' = IndexedMembers(run.members, run.index)
      /\ view' = memory \cup run.new /\ missed' = {}
      /\ UNCHANGED <<tree, membership, memory, project>>
  BY DEF Commit, canonical
<1>3. /\ run' \in Plan /\ run'.step = "scopes" /\ run'.index = run.index
      /\ run'.members = run.members /\ run'.new = run.new
  BY <1>1, <1>2 DEF Plan, Step
<1>4. /\ run.index \in Index /\ run.members \in Membership
      /\ run.new \subseteq MemoryRevision
  BY <1>1 DEF Plan
<1>5. TypeOK'
  BY <1>2, <1>3, <1>4, IndexedIsMembership DEF IInv, TypeOK
<1>6. PlanFollows' /\ PlanQuiescent' /\ PlanWritten' /\ PlanShown'
  BY <1>1, <1>2, <1>3 DEF IInv, PlanFollows, PlanQuiescent, PlanWritten, PlanShown
<1>7. GapsAreExplained'
  <2>1. Unshown' = {} /\ Served' = memory
    BY <1>2, <1>3 DEF Unshown, Served
  <2>2. view' \ memory' \subseteq run.new \ memory /\ memory' \ view' = {}
    BY <1>2
  <2>3. \A n \in run.new \ memory :
           /\ n.status # "active" /\ n \notin Authored
           /\ \E k \in Current(Revisions(memory, n.type, n.record)) :
                 n.revision = k.revision + 1
    BY <1>1 DEF IInv, PlanFollows, Copy
  <2>4. QED
    BY <1>2, <2>1, <2>2, <2>3 DEF GapsAreExplained
<1>8. QED
  BY <1>2, <1>5, <1>6, <1>7 DEF IInv, Numbered

\* A run that ends, in success or not, without touching the record files.
LEMMA EndKeeps ==
    ASSUME IInv, run' = Idle, UNCHANGED <<tree, membership, memory>>,
           project' \in SUBSET Index, missed' = missed \cup Unshown,
           \/ UNCHANGED <<index, members, view>> /\ (cache' = cache \/ cache' = "unusable")
           \/ /\ cache' = "missing" /\ index' = NoSourceHashes
              /\ members' = NoScopeHashes /\ view' = {}
    PROVE  IInv'
<1>1. NoSourceHashes \in Index /\ NoScopeHashes \in Membership
  BY DEF NoSourceHashes, NoScopeHashes, Index, Membership
<1>2. TypeOK'
  <2>1. Unshown \subseteq MemoryRevision
    BY StepTells DEF IInv, Debt
  <2>2. QED
    BY <1>1, <2>1 DEF IInv, TypeOK
<1>3. PlanFollows' /\ PlanQuiescent' /\ PlanWritten' /\ PlanShown'
  BY IdleIsNoStep DEF PlanFollows, PlanQuiescent, PlanWritten, PlanShown, Step
<1>4. GapsAreExplained'
  <2>1. Unshown' = {}
    BY IdleIsNoStep DEF Unshown
  <2>2. CASE UNCHANGED <<index, members, view>> /\ (cache' = cache \/ cache' = "unusable")
    BY <2>1, <2>2, GapsStay DEF IInv
  <2>3. CASE cache' = "missing"
    BY <2>3 DEF GapsAreExplained
  <2>4. QED
    BY <2>2, <2>3
<1>5. QED
  BY <1>2, <1>3, <1>4 DEF IInv, Numbered

LEMMA RunEnds ==
    ASSUME IInv, WriteProject \/ CommitFails \/ WriteFails \/ Die
    PROVE  IInv'
<1>0. run.step \in Step => missed = missed \cup Unshown
  BY StepTells DEF IInv
<1>1. CASE WriteProject
  <2>1. run \in Plan /\ run.step \in Step
    BY <1>1, StepTells DEF IInv, WriteProject, Step
  <2>2. project' \in SUBSET Index
    BY <1>1, <2>1 DEF WriteProject, Plan
  <2>3. QED
    BY <1>0, <1>1, <2>1, <2>2, EndKeeps DEF WriteProject, database
<1>2. project \in SUBSET Index
  BY DEF IInv, TypeOK
<1>3. CASE CommitFails
  BY <1>0, <1>2, <1>3, EndKeeps DEF CommitFails, canonical, Step
<1>4. CASE WriteFails
  BY <1>0, <1>2, <1>4, EndKeeps DEF WriteFails, DiscardCache, canonical, database, Step
<1>5. CASE Die
  BY <1>2, <1>5, EndKeeps DEF Die, canonical, database
<1>6. QED
  BY <1>1, <1>3, <1>4, <1>5

LEMMA WriteScopesKeeps ==
    ASSUME IInv, WriteScopes
    PROVE  IInv'
<1>1. run \in Plan /\ run.step \in Step /\ run.step = "scopes"
  BY StepTells DEF IInv, WriteScopes, Step
<1>2. /\ run' = [run EXCEPT !.step = "decisions"]
      /\ membership' = run.members
      /\ UNCHANGED <<tree, memory, project, cache, index, members, view, missed>>
  BY DEF WriteScopes, database
<1>3. /\ run' \in Plan /\ run'.step = "decisions" /\ run'.index = run.index
      /\ run'.members = run.members /\ run'.new = run.new
  BY <1>1, <1>2 DEF Plan, Step
<1>4. TypeOK'
  BY <1>1, <1>2, <1>3 DEF IInv, TypeOK, Plan
<1>5. PlanFollows' /\ PlanQuiescent' /\ PlanWritten' /\ PlanShown'
  BY <1>1, <1>2, <1>3 DEF IInv, PlanFollows, PlanQuiescent, PlanWritten, PlanShown, Step
<1>6. GapsAreExplained'
  <2>1. Unshown = {} /\ Unshown' = {}
    BY <1>1, <1>3 DEF Unshown
  <2>2. QED
    BY <1>2, <2>1, GapsStay DEF IInv
<1>7. QED
  BY <1>2, <1>4, <1>5, <1>6 DEF IInv, Numbered

\* Appending the planned revisions of one type leaves the current revisions
\* of the other as they are.
LEMMA AppendKeeps ==
    ASSUME IInv, run.step \in Step \ {"commit"}, NEW type \in RecordType,
           Append(type), UNCHANGED <<cache, view, missed>>, run'.step \in Step
    PROVE  /\ Numbered(memory)'
           /\ memory' \cup run.new = memory \cup run.new
           /\ \A n \in run.new : n.type = type => n \in memory'
           /\ \A n \in run.new \ memory' :
                 \E k \in Current(Revisions(memory', n.type, n.record)) : Copy(k, n)
           /\ GapsAreExplained'
<1> DEFINE N == {n \in run.new : n.type = type} \ memory
<1>1. run \in Plan /\ run.new \subseteq MemoryRevision /\ Numbered(memory)
  BY StepTells DEF IInv, Plan
<1>2. memory' = memory \cup N /\ memory' \subseteq memory \cup run.new
  BY DEF Append
<1>3. /\ N \in SUBSET MemoryRevision
      /\ \A n \in N : Follows(memory, n)
      /\ \A n, k \in N : (n.type = k.type /\ n.record = k.record) => n = k
  BY <1>1 DEF IInv, PlanFollows, Follows, Copy
<1>4. \A n \in N : n.type = type
  OBVIOUS
<1>5. \A n \in run.new : n.type = type => n \in memory'
  BY DEF Append
<1> HIDE DEF N
<1>6. Numbered(memory)'
  BY <1>1, <1>2, <1>3, AppendKeepsNumbering
<1>7. ASSUME NEW n \in run.new \ memory'
      PROVE  \E k \in Current(Revisions(memory', n.type, n.record)) : Copy(k, n)
  <2>1. n.type # type /\ n \in run.new \ memory
    BY <1>2, <1>5
  <2>2. Revisions(memory', n.type, n.record) = Revisions(memory, n.type, n.record)
    BY <1>2, <1>4, <2>1 DEF Revisions
  <2>3. QED
    BY <2>1, <2>2 DEF IInv, PlanFollows
<1>8. GapsAreExplained'
  <2>1. view = memory \cup run.new /\ missed = {}
    BY DEF IInv, PlanShown
  <2>2. memory' \ view' = {} /\ view' \ memory' \subseteq run.new \ memory'
    BY <1>2, <2>1
  <2>3. Unshown' = {} /\ missed' = {} /\ Served' = memory'
    BY <2>1, OwingIsNoStep DEF Unshown, Served
  <2>4. \A n \in run.new : n.status # "active" /\ n \notin Authored
    BY DEF IInv, PlanFollows
  <2>5. QED
    BY <1>7, <2>2, <2>3, <2>4 DEF GapsAreExplained, Copy
<1>9. memory' \cup run.new = memory \cup run.new
  BY DEF Append
<1>10. QED
  BY <1>5, <1>6, <1>7, <1>8, <1>9

LEMMA WriteRecordsKeep ==
    ASSUME IInv, WriteDecisions \/ WriteConstraints
    PROVE  IInv'
<1> DEFINE type == IF run.step = "decisions" THEN "decision" ELSE "constraint"
           next == IF run.step = "decisions" THEN "constraints" ELSE "project"
<1>1. run \in Plan /\ run.step \in Step /\ run.step \in {"decisions", "constraints"}
  BY StepTells DEF IInv, WriteDecisions, WriteConstraints, Step
<1>2. /\ Append(type)
      /\ run' = [run EXCEPT !.step = next]
      /\ UNCHANGED <<tree, membership, project, cache, index, members, view, missed>>
  BY DEF WriteDecisions, WriteConstraints, database
<1>3. type \in RecordType /\ next \in {"constraints", "project"}
  BY DEF RecordType
<1>4. next = "constraints" => type = "decision"
  OBVIOUS
<1>5. next = "project" => type = "constraint" /\ run.step = "constraints"
  BY <1>1
<1> HIDE DEF type, next
<1>6. /\ run' \in Plan /\ run'.step = next /\ run'.index = run.index
      /\ run'.members = run.members /\ run'.new = run.new
  BY <1>1, <1>2, <1>3 DEF Plan, Step
<1>7. /\ Numbered(memory)'
      /\ memory' \cup run.new = memory \cup run.new
      /\ \A n \in run.new : n.type = type => n \in memory'
      /\ \A n \in run.new \ memory' :
            \E k \in Current(Revisions(memory', n.type, n.record)) : Copy(k, n)
      /\ GapsAreExplained'
  BY <1>1, <1>2, <1>3, <1>6, AppendKeeps DEF Step
<1>8. TypeOK'
  BY <1>2, <1>6, <1>7 DEF IInv, TypeOK, Numbered
<1>9. PlanFollows'
  BY <1>1, <1>6, <1>7 DEF IInv, PlanFollows
<1>10. PlanQuiescent'
  BY <1>1, <1>6, <1>7 DEF IInv, PlanQuiescent
<1>11. PlanWritten'
  <2>1. \A n \in run.new : n.type = "decision" => n \in memory'
    BY <1>1, <1>3, <1>4, <1>5, <1>7, <1>2 DEF IInv, PlanWritten, Append
  <2>2. next = "project" => run.new \subseteq memory'
    <3>1. \A n \in run.new : n.type \in RecordType
      BY <1>1 DEF Plan, MemoryRevision
    <3>2. QED
      BY <1>5, <1>7, <2>1, <3>1 DEF RecordType
  <2>3. membership' = run'.members
    BY <1>1, <1>2, <1>6 DEF IInv, PlanWritten
  <2>4. QED
    BY <1>3, <1>6, <2>1, <2>2, <2>3 DEF PlanWritten
<1>12. PlanShown'
  BY <1>1, <1>2, <1>3, <1>6, <1>7 DEF IInv, PlanShown, Step
<1>13. QED
  BY <1>7, <1>8, <1>9, <1>10, <1>11, <1>12 DEF IInv

-----------------------------------------------------------------------------
(* Between runs                                                            *)

LEMMA NextRevisionFollows ==
    ASSUME Numbered(memory), NEW t \in RecordType, NEW r \in Records
    PROVE  /\ NextRevision(t, r) \in Nat \ {0}
           /\ \/ Revisions(memory, t, r) = {} /\ NextRevision(t, r) = 1
              \/ \E k \in Current(Revisions(memory, t, r)) :
                    NextRevision(t, r) = k.revision + 1
<1>1. CASE Current(Revisions(memory, t, r)) = {}
  BY <1>1 DEF NextRevision, Numbered, CurrentExists
<1>2. CASE Current(Revisions(memory, t, r)) # {}
  <2>1. PICK k \in Current(Revisions(memory, t, r)) : TRUE
    BY <1>2
  <2>2. Current(Revisions(memory, t, r)) = {k} /\ k \in MemoryRevision
    BY <2>1, CurrentIsUnique
  <2>3. NextRevision(t, r) = k.revision + 1
    BY <2>2 DEF NextRevision
  <2>4. k.revision \in Nat
    BY <2>2 DEF MemoryRevision
  <2>5. QED
    BY <2>1, <2>3, <2>4
<1>3. QED
  BY <1>1, <1>2

LEMMA InForceType ==
    ASSUME TypeOK, Numbered(memory), NEW a \in MemoryRevision, NEW human \in Humans
    PROVE  /\ InForce(a, human) \in MemoryRevision
           /\ Follows(memory, InForce(a, human))
<1> DEFINE sources == IF a.mode = "source_bound" THEN SourceHashes(a, index) ELSE NoSourceHashes
           scopes == IF a.mode = "scope_bound" THEN ScopeHashes(a, membership) ELSE NoScopeHashes
           number == NextRevision(a.type, a.record)
           m == InForce(a, human)
<1>1. sources \in Index
  BY DEF TypeOK, SourceHashes, NoSourceHashes, Index
<1>2. scopes \in Membership
  BY DEF TypeOK, ScopeHashes, NoScopeHashes, Membership
<1>3. a.type \in RecordType /\ a.record \in Records
  BY DEF MemoryRevision
<1>4. number \in Nat \ {0}
  BY <1>3, NextRevisionFollows
<1>5. human \in Humans \cup {Nobody} /\ "active" \in RecordStatus
  BY DEF RecordStatus
<1>6. m = [a EXCEPT !.revision = number, !.status = "active", !.source_hashes = sources,
                    !.scope_hashes = scopes, !.approved_by = human]
  BY DEF InForce
<1>7. \/ Revisions(memory, a.type, a.record) = {} /\ number = 1
      \/ \E k \in Current(Revisions(memory, a.type, a.record)) : number = k.revision + 1
  BY <1>3, NextRevisionFollows
<1> HIDE DEF sources, scopes, number, m
<1>8. m \in MemoryRevision
  BY <1>1, <1>2, <1>4, <1>5, <1>6, Zenon DEF MemoryRevision
<1>9. m.revision = number /\ m.type = a.type /\ m.record = a.record
  BY <1>6, Zenon DEF MemoryRevision
<1>10. QED
  BY <1>7, <1>8, <1>9 DEF Follows, m

LEMMA OffType ==
    ASSUME TypeOK, Numbered(memory), NEW m \in CurrentRevisions(memory), NEW human \in Humans
    PROVE  /\ Off(m, human) \in MemoryRevision
           /\ Off(m, human) \in Authored
           /\ Off(m, human).status = "inactive"
           /\ Follows(memory, Off(m, human))
<1> DEFINE o == Off(m, human)
<1>1. /\ m \in MemoryRevision /\ m \in Current(Revisions(memory, m.type, m.record))
  BY CurrentRevisionsAreCurrent
<1>2. m.revision \in Nat /\ m.revision + 1 \in Nat \ {0}
  BY <1>1 DEF MemoryRevision
<1>3. "human" \in RevisionAuthor /\ human \in Humans \cup {Nobody} /\ "inactive" \in RecordStatus
  BY DEF RevisionAuthor, Actor, RecordStatus
<1>4. o = [m EXCEPT !.revision = m.revision + 1, !.status = "inactive",
                    !.created_by = "human", !.approved_by = human]
  BY DEF Off
<1>5. o \in MemoryRevision
  BY <1>1, <1>2, <1>3, <1>4, Zenon DEF MemoryRevision
<1>6. /\ o.revision = m.revision + 1 /\ o.type = m.type /\ o.record = m.record
      /\ o.status = "inactive" /\ o.created_by = "human"
  BY <1>1, <1>4, Zenon DEF MemoryRevision
<1>7. QED
  BY <1>1, <1>5, <1>6 DEF Follows, Authored, Actor

\* A command appends at most one line, a person's and the next of its record,
\* which nothing had shown, and owes the refresh.
LEMMA CommandKeeps ==
    ASSUME IInv, NEW lines \in SUBSET Authored,
           \A n \in lines : Follows(memory, n),
           \A n, k \in lines : (n.type = k.type /\ n.record = k.record) => n = k,
           run = Idle, run' = Owing(lines), memory' = memory \cup lines,
           UNCHANGED <<tree, membership, project, cache, index, members, view, missed>>
    PROVE  IInv' /\ Served' = Served
<1>1. /\ lines \in SUBSET MemoryRevision /\ Numbered(memory)
      /\ Unshown = {} /\ Unshown' = lines /\ run'.step \notin Step
  BY StepTells, OwingIsNoStep DEF IInv, Authored, Unshown
<1>2. Numbered(memory)'
  BY <1>1, AppendKeepsNumbering
<1>3. lines \cap memory = {}
  <2>1. SUFFICES ASSUME NEW n \in lines, n \in memory PROVE FALSE
    OBVIOUS
  <2>2. n \in MemoryRevision /\ n.revision < n.revision
    BY <1>1, <2>1, FollowsIsFresh DEF Revisions
  <2>3. QED
    BY <2>2 DEF MemoryRevision
<1>4. Served' = Served
  BY <1>1, <1>3 DEF Served
<1>5. GapsAreExplained'
  <2>1. SUFFICES ASSUME cache = "ok" PROVE GapsAreExplained'
    BY DEF GapsAreExplained
  <2>2. /\ memory \ view = missed
        /\ \A m \in view \ memory : m \notin Authored
    BY <1>1, <2>1 DEF IInv, GapsAreExplained
  <2>3. lines \cap view = {}
    BY <1>3, <2>2
  <2>4. memory' \ view' = missed' \cup Unshown'
    BY <1>1, <2>2, <2>3
  <2>5. view' \ memory' \subseteq view \ memory
    OBVIOUS
  <2>6. QED
    BY <1>4, <2>1, <2>4, <2>5 DEF IInv, GapsAreExplained
<1>6. TypeOK'
  <2>1. run' \in Debt
    BY <1>1 DEF Owing, Debt
  <2>2. QED
    BY <1>2, <2>1 DEF IInv, TypeOK, Numbered
<1>7. IInv'
  BY <1>1, <1>2, <1>5, <1>6
     DEF IInv, PlanFollows, PlanQuiescent, PlanWritten, PlanShown, Step
<1>8. QED
  BY <1>4, <1>7

\* What each of the commands appends.
LEMMA CommandAppends ==
    ASSUME IInv, UpdatePipelineAssumption,
           \/ \E a \in Approvals, human \in Humans : Approve(a, human)
           \/ \E m \in CurrentRevisions(memory), human \in Humans : Deactivate(m, human)
           \/ TouchNote
    PROVE  \E lines \in SUBSET Authored :
              /\ \A n \in lines : Follows(memory, n)
              /\ \A n, k \in lines : (n.type = k.type /\ n.record = k.record) => n = k
              /\ \A n \in lines : n.status = "active" => n.approved_by \in Humans
              /\ run = Idle /\ run' = Owing(lines) /\ memory' = memory \cup lines
              /\ UNCHANGED <<tree, membership, project, cache, index, members, view, missed>>
<1>1. CASE \E a \in Approvals, human \in Humans : Approve(a, human)
  <2>1. PICK a \in Approvals, human \in Humans : Approve(a, human)
    BY <1>1
  <2> DEFINE m == InForce(a, human)
             lines == IF Repeats(m) THEN {} ELSE {m}
  <2>2. a \in MemoryRevision /\ a.created_by \in Actor
    BY DEF UpdatePipelineAssumption, Authored
  <2>3. m \in MemoryRevision /\ Follows(memory, m)
    BY <2>2, InForceType DEF IInv
  <2>4. m.created_by = a.created_by /\ m.approved_by = human
    BY <2>2, Zenon DEF InForce, MemoryRevision
  <2>5. /\ run = Idle /\ run' = Owing(lines) /\ memory' = memory \cup lines
        /\ UNCHANGED <<tree, membership, project, cache, index, members, view, missed>>
    BY <2>1 DEF Approve, database
  <2> HIDE DEF m
  <2>6. lines \in SUBSET Authored
    BY <2>2, <2>3, <2>4 DEF Authored
  <2>7. QED
    BY <2>3, <2>4, <2>5, <2>6
<1>2. CASE \E m \in CurrentRevisions(memory), human \in Humans : Deactivate(m, human)
  <2>1. PICK m \in CurrentRevisions(memory), human \in Humans : Deactivate(m, human)
    BY <1>2
  <2>2. /\ Off(m, human) \in Authored /\ Off(m, human).status = "inactive"
        /\ Follows(memory, Off(m, human))
    BY OffType DEF IInv
  <2>3. /\ run = Idle /\ run' = Owing({Off(m, human)})
        /\ memory' = memory \cup {Off(m, human)}
        /\ UNCHANGED <<tree, membership, project, cache, index, members, view, missed>>
    BY <2>1 DEF Deactivate, database
  <2>4. QED
    BY <2>2, <2>3
<1>3. CASE TouchNote
  <2>1. /\ run = Idle /\ run' = Owing({}) /\ memory' = memory \cup {}
        /\ UNCHANGED <<tree, membership, project, cache, index, members, view, missed>>
    BY <1>3 DEF TouchNote, canonical, database
  <2>2. QED
    BY <2>1
<1>4. QED
  BY <1>1, <1>2, <1>3

\* A refresh puts readers where the canonical files are.
LEMMA RefreshKeeps ==
    ASSUME IInv, RefreshCache
    PROVE  IInv'
<1>1. /\ run' = Idle /\ UNCHANGED <<tree, membership, memory, project, index>>
      /\ Unshown' = {} /\ run'.step \notin Step
  BY IdleIsNoStep DEF RefreshCache, canonical, database, Unshown
<1>2. Numbered(memory)' /\ memory \subseteq MemoryRevision
  BY <1>1 DEF IInv, Numbered
<1>3. CASE cache = "missing"
  <2>1. UNCHANGED <<cache, members, view, missed>>
    BY <1>3 DEF RefreshCache, database
  <2>2. TypeOK'
    BY <1>1, <2>1 DEF IInv, TypeOK
  <2>3. GapsAreExplained'
    BY <1>3, <2>1 DEF GapsAreExplained
  <2>4. QED
    BY <1>1, <1>2, <2>2, <2>3
       DEF IInv, PlanFollows, PlanQuiescent, PlanWritten, PlanShown, Step
<1>4. CASE cache # "missing"
  <2>1. /\ cache' = "ok" /\ view' = memory /\ missed' = {}
        /\ members' = IndexedMembers(membership, index)
    BY <1>4 DEF RefreshCache
  <2>2. TypeOK'
    BY <1>1, <1>2, <2>1, IndexedIsMembership DEF IInv, TypeOK
  <2>3. GapsAreExplained'
    BY <1>1, <2>1 DEF GapsAreExplained
  <2>4. QED
    BY <1>1, <1>2, <2>2, <2>3
       DEF IInv, PlanFollows, PlanQuiescent, PlanWritten, PlanShown, Step
<1>5. QED
  BY <1>3, <1>4

\* What leaves the record files alone.
LEMMA OthersKeep ==
    ASSUME IInv, UpdatePipelineAssumption,
           \/ \E f \in Files, c \in Hashes \cup {Absent} : EditTree(f, c)
           \/ \E s \in Scopes, files \in Edits : EditScope(s, files)
           \/ \E left \in {"missing", "unusable"} : LoseCache(left)
           \/ UNCHANGED vars
    PROVE  IInv'
<1>1. CASE \/ \E f \in Files, c \in Hashes \cup {Absent} : EditTree(f, c)
           \/ UNCHANGED vars
  <2>1. /\ tree' \in Index
        /\ UNCHANGED <<membership, memory, project, cache, index, members, view, run, missed>>
    BY <1>1 DEF IInv, TypeOK, EditTree, Index, canonical, database, vars
  <2>2. GapsAreExplained'
    BY <2>1, GapsStay DEF IInv, Unshown
  <2>3. QED
    BY <2>1, <2>2
       DEF IInv, TypeOK, Numbered, PlanFollows, PlanQuiescent, PlanWritten, PlanShown
<1>2. CASE \E s \in Scopes, files \in Edits : EditScope(s, files)
  <2>1. /\ membership' \in Membership /\ run = Idle
        /\ UNCHANGED <<tree, memory, project, cache, index, members, view, run, missed>>
    BY <1>2 DEF IInv, TypeOK, EditScope, Membership, UpdatePipelineAssumption, database
  <2>2. TypeOK' /\ Numbered(memory)'
    BY <2>1 DEF IInv, TypeOK, Numbered
  <2>3. GapsAreExplained'
    BY <2>1, GapsStay DEF IInv, Unshown
  <2>4. QED
    BY <2>1, <2>2, <2>3, IdleIsNoStep
       DEF IInv, PlanFollows, PlanQuiescent, PlanWritten, PlanShown, Step
<1>3. CASE \E left \in {"missing", "unusable"} : LoseCache(left)
  <2>1. /\ cache' \in {"missing", "unusable"} /\ index' = NoSourceHashes
        /\ members' = NoScopeHashes /\ view' = {} /\ missed' = {}
        /\ UNCHANGED <<tree, membership, memory, project>> /\ run' = Idle
    BY <1>3 DEF LoseCache, canonical
  <2>2. NoSourceHashes \in Index /\ NoScopeHashes \in Membership
    BY DEF NoSourceHashes, NoScopeHashes, Index, Membership
  <2>3. TypeOK' /\ GapsAreExplained' /\ Numbered(memory)'
    BY <2>1, <2>2 DEF IInv, TypeOK, GapsAreExplained, Numbered
  <2>4. QED
    BY <2>1, <2>3, IdleIsNoStep
       DEF IInv, PlanFollows, PlanQuiescent, PlanWritten, PlanShown, Step
<1>4. QED
  BY <1>1, <1>2, <1>3

-----------------------------------------------------------------------------
(* The theorems                                                            *)

LEMMA NextKeeps ==
    UpdatePipelineAssumption /\ IInv /\ [Next]_vars => IInv'
<1> SUFFICES ASSUME UpdatePipelineAssumption, IInv, [Next]_vars
             PROVE  IInv'
  OBVIOUS
<1>1. CASE \E full \in BOOLEAN, unreadable \in SUBSET KnownFiles(tree) :
              Begin(full, unreadable)
  BY <1>1, BeginKeeps DEF KnownFiles
<1>2. CASE Commit
  BY <1>2, CommitKeeps
<1>3. CASE WriteProject \/ CommitFails \/ WriteFails \/ Die
  BY <1>3, RunEnds
<1>4. CASE WriteScopes
  BY <1>4, WriteScopesKeeps
<1>5. CASE WriteDecisions \/ WriteConstraints
  BY <1>5, WriteRecordsKeep
<1>6. CASE \/ \E a \in Approvals, human \in Humans : Approve(a, human)
           \/ \E m \in CurrentRevisions(memory), human \in Humans : Deactivate(m, human)
           \/ TouchNote
  BY <1>6, CommandAppends, CommandKeeps
<1>7. CASE RefreshCache
  BY <1>7, RefreshKeeps
<1>8. CASE \/ \E f \in Files, c \in Hashes \cup {Absent} : EditTree(f, c)
           \/ \E s \in Scopes, files \in Edits : EditScope(s, files)
           \/ \E left \in {"missing", "unusable"} : LoseCache(left)
           \/ UNCHANGED vars
  BY <1>8, OthersKeep
<1>9. QED
  BY <1>1, <1>2, <1>3, <1>4, <1>5, <1>6, <1>7, <1>8 DEF Next

\* The invariant the properties rest on holds wherever an update or any other
\* command fails or dies.
THEOREM Invariance == Spec => []IInv
<1>1. Init => IInv
  BY InitInv, LifecycleAssumption
<1>2. IInv /\ [Next]_vars => IInv'
  BY NextKeeps, UpdatePipelineAssumption
<1>3. QED
  BY <1>1, <1>2, PTL DEF Spec

\* The stores and the plan stay in their types.
THEOREM TypeCorrect == Spec => []TypeOK
<1>1. IInv => TypeOK
  BY DEF IInv
<1>2. QED
  BY <1>1, Invariance, PTL

\* However often update dies between two files and is run again, no revision
\* number is used twice or skipped.
THEOREM NoCanonicalConflict == Spec => []RevisionsContiguous
<1>1. IInv => RevisionsContiguous
  BY DEF IInv, Numbered, Contiguous, RevisionsContiguous
<1>2. QED
  BY <1>1, Invariance, PTL

\* Readers miss the lines of commands cut short before their refresh and no
\* others, and what they see too early is one transition and never content in
\* force.
THEOREM CacheFollows == Spec => []GapsAreExplained
<1>1. IInv => GapsAreExplained
  BY DEF IInv
<1>2. QED
  BY <1>1, Invariance, PTL

LEMMA LastWriteAgrees ==
    ASSUME IInv, WriteProject
    PROVE  Agreement'
<1>1. run.step = "project" /\ run.step \in Step
  BY DEF WriteProject, Step
<1>2. run.new \subseteq memory /\ membership = run.members
  BY <1>1 DEF IInv, PlanWritten
<1>3. /\ cache = "ok" /\ index = run.index
      /\ members = IndexedMembers(run.members, run.index)
      /\ view = memory \cup run.new
  BY <1>1 DEF IInv, PlanShown
<1>4. memory \cup run.new = memory
  BY <1>2
<1>5. Transitions(memory, index, membership, 0) = {}
  BY <1>1, <1>2, <1>3, <1>4 DEF IInv, PlanQuiescent
<1>6. project' = {run.index}
      /\ UNCHANGED <<membership, memory, cache, index, members, view>>
  BY DEF WriteProject, database
<1>7. QED
  BY <1>2, <1>3, <1>4, <1>5, <1>6 DEF Agreement

\* An update that reaches its last write leaves every store in agreement,
\* whatever earlier runs left half done.
THEOREM UpdateHeals == Spec => CompletedUpdateAgrees
<1>1. IInv /\ [Next]_vars => [WriteProject => Agreement']_vars
  BY LastWriteAgrees
<1>2. QED
  BY <1>1, Invariance, PTL DEF Spec, CompletedUpdateAgrees

-----------------------------------------------------------------------------
(* What readers are shown                                                  *)

\* A constraint that is to hold for good is superseded by nothing the system
\* writes: a revision readers may see too early is no such constraint, and
\* neither is the one it supersedes.
Unbound(m) == m.type = "constraint" => m.mode # "persistent"

Passing(M, n) ==
    /\ Unbound(n)
    /\ \A k \in Current(Revisions(M, n.type, n.record)) : Unbound(k)

\* What readers are shown is in force: the strengthening of the invariant.
ReadersInv ==
    /\ \A m \in memory : m.status = "active" => m.approved_by \in Humans
    /\ run.step \in Step => \A n \in run.new \ memory : Passing(memory, n)
    /\ cache = "ok" => \A n \in view \ memory : Passing(Served, n)

LEMMA TransitionsPass ==
    ASSUME NEW M, Numbered(M), NEW ix \in Index, NEW ms \in Membership, NEW now \in Nat,
           NEW n \in Transitions(M, ix, ms, now)
    PROVE  Passing(M, n)
<1>1. PICK m \in CurrentRevisions(M) : n \in Reaction(m, ix, ms, now)
  BY DEF Transitions
<1>2. /\ m \in MemoryRevision /\ m.type \in RecordType /\ m.record \in Records
      /\ m \in Current(Revisions(M, m.type, m.record))
  BY CurrentRevisionsAreCurrent
<1>3. n.type = m.type /\ n.record = m.record /\ n.mode = m.mode
  BY <1>1, <1>2, ReactionSound DEF Transition
<1>4. Current(Revisions(M, n.type, n.record)) = {m}
  BY <1>2, <1>3, CurrentIsUnique
<1>5. Unbound(m)
  BY <1>1 DEF Reaction, ConstraintReaction, Unbound
<1>6. QED
  BY <1>3, <1>4, <1>5 DEF Passing, Unbound

\* Appending revisions that pass changes nothing for those of other records.
LEMMA AppendPasses ==
    ASSUME NEW M, NEW N, \A n \in N : Passing(M, n),
           NEW x, Passing(M, x)
    PROVE  Passing(M \cup N, x)
<1>1. ASSUME NEW k \in Current(Revisions(M \cup N, x.type, x.record))
      PROVE  Unbound(k)
  <2>1. CASE k \in N
    BY <2>1 DEF Passing
  <2>2. CASE k \in M
    <3>1. k \in Current(Revisions(M, x.type, x.record))
      BY <1>1, <2>2 DEF Current, Revisions
    <3>2. QED
      BY <3>1 DEF Passing
  <2>3. QED
    BY <1>1, <2>1, <2>2 DEF Current, Revisions
<1>2. QED
  BY <1>1 DEF Passing

LEMMA ReadersInvInit == LifecycleAssumption /\ Init => ReadersInv
BY IdleIsNoStep DEF Init, ReadersInv

LEMMA ReadersInvBegin ==
    ASSUME IInv, ReadersInv, NEW full \in BOOLEAN, NEW unreadable \in SUBSET Files,
           Begin(full, unreadable)
    PROVE  ReadersInv'
<1> DEFINE files == Scanned(unreadable)
           scopes == IF full THEN membership
                     ELSE Scope!AssignNewFilesFromImports(
                              membership, Locked, Added(unreadable), tree)
           new == Transitions(memory, files, scopes, 0)
<1>1. /\ tree \in Index /\ index \in Index /\ membership \in Membership
      /\ Numbered(memory)
  BY DEF IInv, TypeOK
<1>2. files \in Index
  BY <1>1 DEF Scanned, Index
<1>3. scopes \in Membership
  BY <1>1, AssignedIsMembership DEF Added
<1>4. /\ run'.new = new /\ run'.step = "commit" /\ run = Idle
      /\ UNCHANGED <<memory, cache, view, missed>>
  BY DEF Begin, canonical, database
<1> HIDE DEF files, scopes
<1>5. \A n \in new : Passing(memory, n)
  BY <1>1, <1>2, <1>3, TransitionsPass
<1> HIDE DEF new
<1>6. Served' = Served
  BY <1>4, StepTells DEF IInv, Served, Unshown
<1>7. QED
  BY <1>4, <1>5, <1>6 DEF ReadersInv

LEMMA ReadersInvWrite ==
    ASSUME IInv, ReadersInv, WriteDecisions \/ WriteConstraints
    PROVE  ReadersInv'
<1> DEFINE type == IF run.step = "decisions" THEN "decision" ELSE "constraint"
           N == {n \in run.new : n.type = type} \ memory
<1>1. /\ run \in Plan /\ run.step \in Step \ {"commit"}
      /\ run.step \in {"decisions", "constraints"}
  BY StepTells DEF IInv, WriteDecisions, WriteConstraints, Step
<1>2. /\ memory' = memory \cup N
      /\ run'.new = run.new /\ run'.step \in {"constraints", "project"}
      /\ UNCHANGED <<cache, view, missed>>
  BY <1>1 DEF WriteDecisions, WriteConstraints, Append, database, Plan
<1>3. \A n \in N : Passing(memory, n)
  BY <1>1 DEF ReadersInv
<1>4. \A n \in N : n.status # "active"
  BY <1>1 DEF IInv, PlanFollows
<1>5. view = memory \cup run.new /\ missed = {}
  BY <1>1 DEF IInv, PlanShown
<1> HIDE DEF N
<1>6. \A x : Passing(memory, x) => Passing(memory', x)
  BY <1>2, <1>3, AppendPasses
<1>7. Served' = memory'
  BY <1>2, <1>5 DEF Served, Unshown
<1>8. \A n \in run.new \ memory' : Passing(memory', n)
  BY <1>1, <1>2, <1>6 DEF ReadersInv
<1>9. \A m \in memory' : m.status = "active" => m.approved_by \in Humans
  BY <1>2, <1>4 DEF ReadersInv
<1>10. QED
  BY <1>2, <1>5, <1>7, <1>8, <1>9 DEF ReadersInv

\* An update that ends: the lines stay, and so do the cache or nothing of it.
LEMMA ReadersInvEnd ==
    ASSUME ReadersInv, run' = Idle, UNCHANGED memory,
           missed' \cup Unshown' = missed \cup Unshown,
           cache' # "ok" \/ UNCHANGED <<cache, view>>
    PROVE  ReadersInv'
<1>1. Served' = Served
  BY DEF Served
<1>2. run'.step \notin Step
  BY IdleIsNoStep
<1>3. QED
  BY <1>1, <1>2 DEF ReadersInv

LEMMA ReadersInvNext ==
    UpdatePipelineAssumption /\ IInv /\ ReadersInv /\ [Next]_vars => ReadersInv'
<1> SUFFICES ASSUME UpdatePipelineAssumption, IInv, ReadersInv, [Next]_vars
             PROVE  ReadersInv'
  OBVIOUS
<1>1. CASE \E full \in BOOLEAN, unreadable \in SUBSET KnownFiles(tree) :
              Begin(full, unreadable)
  BY <1>1, ReadersInvBegin DEF KnownFiles
<1>2. CASE Commit
  <2>1. run \in Plan /\ run.step \in Step
    BY <1>2, StepTells DEF IInv, Commit, Step
  <2>2. /\ run'.new = run.new /\ run'.step = "scopes" /\ memory' = memory
        /\ view' = memory \cup run.new /\ missed' = {}
    BY <1>2, <2>1 DEF Commit, canonical, Plan
  <2>3. Served' = memory
    BY <2>2 DEF Served, Unshown
  <2>4. QED
    BY <2>1, <2>2, <2>3 DEF ReadersInv
<1>3. CASE WriteProject \/ CommitFails \/ WriteFails \/ Die
  <2>1. run' = Idle /\ UNCHANGED memory /\ (cache' # "ok" \/ UNCHANGED <<cache, view>>)
    BY <1>3
       DEF WriteProject, CommitFails, WriteFails, DiscardCache, Die, canonical, database
  <2>2. Unshown' = {}
    BY <2>1, IdleIsNoStep DEF Unshown
  <2>3. missed' = missed \cup Unshown
    <3>1. CASE Die
      BY <3>1 DEF Die
    <3>2. CASE WriteProject \/ CommitFails \/ WriteFails
      <4>1. run.step \in Step /\ missed' = missed
        BY <3>2 DEF WriteProject, CommitFails, WriteFails, Step
      <4>2. QED
        BY <4>1, StepTells DEF IInv
    <3>3. QED
      BY <1>3, <3>1, <3>2
  <2>4. QED
    BY <2>1, <2>2, <2>3, ReadersInvEnd
<1>4. CASE WriteScopes
  <2>1. run \in Plan /\ run.step \in Step
    BY <1>4, StepTells DEF IInv, WriteScopes, Step
  <2>2. /\ run'.new = run.new /\ run'.step = "decisions" /\ run.step = "scopes"
        /\ UNCHANGED <<memory, cache, view, missed>>
    BY <1>4, <2>1 DEF WriteScopes, database, Plan
  <2>3. Served' = Served
    BY <2>2 DEF Served, Unshown
  <2>4. QED
    BY <2>1, <2>2, <2>3 DEF ReadersInv
<1>5. CASE WriteDecisions \/ WriteConstraints
  BY <1>5, ReadersInvWrite
<1>6. CASE \/ \E a \in Approvals, human \in Humans : Approve(a, human)
           \/ \E m \in CurrentRevisions(memory), human \in Humans : Deactivate(m, human)
           \/ TouchNote
  <2>1. PICK lines \in SUBSET Authored :
              /\ \A n \in lines : Follows(memory, n)
              /\ \A n, k \in lines : (n.type = k.type /\ n.record = k.record) => n = k
              /\ \A n \in lines : n.status = "active" => n.approved_by \in Humans
              /\ run = Idle /\ run' = Owing(lines) /\ memory' = memory \cup lines
              /\ UNCHANGED <<tree, membership, project, cache, index, members, view, missed>>
    BY <1>6, CommandAppends
  <2>2. Served' = Served
    BY <2>1, CommandKeeps
  <2>3. run'.step \notin Step
    BY <2>1, OwingIsNoStep
  <2>4. QED
    BY <2>1, <2>2, <2>3 DEF ReadersInv
<1>7. CASE RefreshCache
  <2>1. run' = Idle /\ UNCHANGED memory
    BY <1>7 DEF RefreshCache, canonical
  <2>2. run'.step \notin Step
    BY <2>1, IdleIsNoStep
  <2>3. CASE cache = "missing"
    BY <1>7, <2>1, <2>2, <2>3 DEF RefreshCache, ReadersInv, database
  <2>4. CASE cache # "missing"
    BY <1>7, <2>1, <2>2, <2>4 DEF RefreshCache, ReadersInv
  <2>5. QED
    BY <2>3, <2>4
<1>8. CASE \E left \in {"missing", "unusable"} : LoseCache(left)
  <2>1. run' = Idle /\ UNCHANGED memory /\ cache' # "ok"
    BY <1>8 DEF LoseCache, canonical
  <2>2. QED
    BY <2>1, IdleIsNoStep DEF ReadersInv
<1>9. CASE \/ \E f \in Files, c \in Hashes \cup {Absent} : EditTree(f, c)
           \/ \E s \in Scopes, files \in Edits : EditScope(s, files)
           \/ UNCHANGED vars
  <2>1. UNCHANGED <<memory, cache, view, run, missed>>
    BY <1>9 DEF EditTree, EditScope, canonical, database, vars
  <2>2. QED
    BY <2>1 DEF ReadersInv, Served, Unshown
<1>10. QED
  BY <1>1, <1>2, <1>3, <1>4, <1>5, <1>6, <1>7, <1>8, <1>9 DEF Next

\* No command shows by default what is superseded.
LEMMA AnswersAreCurrent == Answers \subseteq CurrentRevisions(view)
<1>1. ShownDecisions(view) \cup ShownConstraints(view) \subseteq CurrentRevisions(view)
  BY DEF ShownDecisions, ShownConstraints
<1>2. HardBootstrap(view) \cup SoftBootstrap(view) \subseteq CurrentRevisions(view)
  BY <1>1 DEF HardBootstrap, SoftBootstrap
<1>3. Search(view, Texts, FALSE) \subseteq CurrentRevisions(view)
  BY <1>1 DEF Search, Rank
<1>4. ASSUME NEW S PROVE ScopeRead(view, S) \subseteq CurrentRevisions(view)
  BY <1>1 DEF ScopeRead
<1>5. RelatedContext(view, members, Files, Texts) \subseteq CurrentRevisions(view)
  BY <1>3, <1>4 DEF RelatedContext
<1>6. ASSUME NEW f PROVE ScopeFor(view, members, f) \subseteq CurrentRevisions(view)
  BY <1>4 DEF ScopeFor
<1>7. Check(view, index, members, tree, {}) \subseteq CurrentRevisions(view)
  BY <1>1 DEF Check
<1>8. ASSUME NEW m \in Answers PROVE m \in CurrentRevisions(view)
  <2>1. CASE \E f \in Files : m \in ScopeFor(view, members, f)
    BY <1>6, <2>1
  <2>2. CASE ~ \E f \in Files : m \in ScopeFor(view, members, f)
    BY <1>2, <1>3, <1>5, <1>7, <2>2 DEF Answers
  <2>3. QED
    BY <2>1, <2>2
<1>9. QED
  BY <1>8

\* What readers see is what is served and, beyond it, what is not yet written.
LEMMA ViewIsServed ==
    ASSUME GapsAreExplained, cache = "ok"
    PROVE  Served \subseteq view /\ view \ Served = view \ memory
BY DEF GapsAreExplained, Served

\* A current revision readers see that is served is the current one served; a
\* current one that is served and not superseded for them is current for them.
LEMMA CurrentInBoth ==
    ASSUME GapsAreExplained, cache = "ok",
           NEW t \in RecordType, NEW r \in Records, NEW m \in Served
    PROVE  /\ m \in Current(Revisions(view, t, r)) => m \in Current(Revisions(Served, t, r))
           /\ (/\ m \in Current(Revisions(Served, t, r))
               /\ \A n \in view \ memory : n.type = t /\ n.record = r => FALSE)
                 => m \in Current(Revisions(view, t, r))
BY ViewIsServed DEF Current, Revisions

\* Whatever a command shows as active is the current revision of what is served,
\* by a named human, and the bootstrap shows every mandatory rule of it as it is.
LEMMA ShownInForce ==
    ASSUME IInv, ReadersInv
    PROVE  ShownIsInForce
<1> SUFFICES ASSUME cache = "ok" PROVE ShownIsInForce
  BY DEF ShownIsInForce
<1>0. /\ GapsAreExplained /\ Served \subseteq view /\ Served \subseteq memory
      /\ \A n \in view : n \notin Served => n \in view \ memory
  BY ViewIsServed DEF IInv, Served
<1>1. ASSUME NEW m \in Served, m \in CurrentRevisions(view)
      PROVE  m \in CurrentRevisions(Served)
  BY <1>0, <1>1, CurrentInBoth DEF CurrentRevisions
<1>2. CurrentRevisions(view) \subseteq view
  BY DEF CurrentRevisions, Current, Revisions
<1>3. ASSUME NEW m \in Answers, m.status = "active"
      PROVE  m \in CurrentRevisions(Served) /\ m.approved_by \in Humans
  <2>1. m \in CurrentRevisions(view) /\ m \in view
    BY <1>2, AnswersAreCurrent
  <2>2. m \in Served
    BY <1>0, <1>3, <2>1 DEF GapsAreExplained
  <2>3. QED
    BY <1>0, <1>1, <1>3, <2>1, <2>2 DEF ReadersInv
<1>4. ASSUME NEW m \in HardBootstrap(view), m.type = "constraint"
      PROVE  m \in Mandatory(Served)
  <2>1. /\ m \in CurrentRevisions(view) /\ m \in view /\ Visible(m)
        /\ Severity[m.text] = "MUST" /\ m.mode = "persistent" /\ Global(m)
    BY <1>2, <1>4 DEF HardBootstrap, ShownConstraints, ShownDecisions
  <2>2. m \in Served
    BY <1>0, <1>4, <2>1 DEF ReadersInv, Passing, Unbound
  <2>3. QED
    BY <1>1, <1>4, <2>1, <2>2 DEF Mandatory
<1>5. ASSUME NEW m \in Mandatory(Served)
      PROVE  m \in HardBootstrap(view) /\ m.type = "constraint"
  <2>1. /\ m \in CurrentRevisions(Served) /\ m.type = "constraint" /\ Visible(m)
        /\ Severity[m.text] = "MUST" /\ m.mode = "persistent" /\ Global(m)
    BY DEF Mandatory
  <2>2. PICK t \in RecordType, r \in Records : m \in Current(Revisions(Served, t, r))
    BY <2>1 DEF CurrentRevisions
  <2>3. m \in Served /\ m.type = t /\ m.record = r
    BY <2>2 DEF Current, Revisions
  <2>4. \A n \in view \ memory : n.type = t /\ n.record = r => FALSE
    BY <2>1, <2>2, <2>3 DEF ReadersInv, Passing, Unbound
  <2>5. m \in CurrentRevisions(view)
    BY <1>0, <2>2, <2>3, <2>4, CurrentInBoth DEF CurrentRevisions
  <2>6. QED
    BY <2>1, <2>5 DEF HardBootstrap, ShownConstraints
<1>6. QED
  BY <1>3, <1>4, <1>5 DEF ShownIsInForce

\* Whatever update or command was cut short before, readers are wrong about what
\* is in force only where a human's command was cut short on that record: of the
\* rest they are shown as active only what is, and every mandatory rule.
THEOREM ReadersAreNotMisled == Spec => []ShownIsInForce
<1>1. Init => ReadersInv
  BY ReadersInvInit, LifecycleAssumption
<1>2. IInv /\ ReadersInv /\ [Next]_vars => ReadersInv'
  BY ReadersInvNext, UpdatePipelineAssumption
<1>3. IInv /\ ReadersInv => ShownIsInForce
  BY ShownInForce
<1>4. QED
  BY <1>1, <1>2, <1>3, Invariance, PTL DEF Spec
-----------------------------------------------------------------------------
(* Refinement: UpdatePipeline implements RevisionLog                       *)

\* The log's lines of an id are the record's revisions, its latest line the
\* current one.
LEMMA LogOfRecord ==
    ASSUME memory \subseteq MemoryRevision, NEW t, NEW r
    PROVE  /\ Log!Of(<<t, r>>) = Revisions(memory, t, r)
           /\ Log!Latest(<<t, r>>) = Current(Revisions(memory, t, r))
<1>1. \A m \in memory : RecordId[m] = <<m.type, m.record>>
  BY DEF RecordId
<1>2. Log!Of(<<t, r>>) = Revisions(memory, t, r)
  BY <1>1 DEF Log!Of, Revisions
<1>3. QED
  BY <1>2 DEF Log!Latest, Current

\* Appending to each record at most one revision that follows is a step of
\* the log when what nobody wrote is a copy.
LEMMA AppendRefines ==
    ASSUME Numbered(memory), NEW N \in SUBSET MemoryRevision,
           \A n \in N : Follows(memory, n),
           \A n, k \in N : (n.type = k.type /\ n.record = k.record) => n = k,
           \A n \in N \ Authored :
              \E k \in Current(Revisions(memory, n.type, n.record)) : Copy(k, n),
           memory' = memory \cup N
    PROVE  Log!Next
<1> DEFINE new == memory' \ memory
<1>1. new \subseteq N /\ new \subseteq MemoryRevision /\ memory' = memory \cup new
  OBVIOUS
<1>2. \A n \in new : RecordId[n] = <<n.type, n.record>>
  BY <1>1 DEF RecordId
<1>3. \A n, k \in new : RecordId[n] = RecordId[k] => n = k
  BY <1>1, <1>2
<1>4. ASSUME NEW n \in new
      PROVE  /\ Log!Follows(n)
             /\ n \notin Authored => Log!FullCopy(n)
  <2>1. n \in N /\ RecordId[n] = <<n.type, n.record>> /\ Follows(memory, n)
    BY <1>1, <1>2, <1>4
  <2>2. /\ Log!Of(RecordId[n]) = Revisions(memory, n.type, n.record)
        /\ Log!Latest(RecordId[n]) = Current(Revisions(memory, n.type, n.record))
    BY <2>1, LogOfRecord DEF Numbered
  <2>3. Log!Follows(n)
    BY <2>1, <2>2 DEF Log!Follows, Follows, Current
  <2>4. QED
    BY <2>1, <2>2, <2>3 DEF Log!FullCopy, Copy
<1> HIDE DEF new
<1>5. Log!Append(new)
  BY <1>1, <1>3, <1>4 DEF Log!Append
<1>6. QED
  BY <1>5 DEF Log!Next, new

\* One of the two files of one run.
LEMMA WriteRefinesLog ==
    ASSUME IInv, run.step \in Step, NEW type, Append(type)
    PROVE  Log!Next
<1> DEFINE N == {n \in run.new : n.type = type} \ memory
<1>1. run.new \subseteq MemoryRevision /\ Numbered(memory)
  BY StepTells DEF IInv, Plan
<1>2. memory' = memory \cup N
  BY DEF Append
<1>3. \A n \in N : \E k \in Current(Revisions(memory, n.type, n.record)) : Copy(k, n)
  BY DEF IInv, PlanFollows
<1>4. \A n, k \in N : (n.type = k.type /\ n.record = k.record) => n = k
  BY DEF IInv, PlanFollows
<1>5. N \in SUBSET MemoryRevision
  BY <1>1
<1> HIDE DEF N
<1>6. \A n \in N : Follows(memory, n)
  BY <1>3 DEF Follows, Copy
<1>7. QED
  BY <1>1, <1>2, <1>3, <1>4, <1>5, <1>6, AppendRefines

LEMMA NextRefinesLog ==
    ASSUME UpdatePipelineAssumption, IInv, [Next]_vars
    PROVE  [Log!Next]_memory
<1>1. CASE WriteDecisions \/ WriteConstraints
  <2>1. run.step \in Step
    BY <1>1 DEF WriteDecisions, WriteConstraints, Step
  <2>2. QED
    BY <1>1, <2>1, WriteRefinesLog DEF WriteDecisions, WriteConstraints
<1>2. CASE \/ \E a \in Approvals, human \in Humans : Approve(a, human)
           \/ \E m \in CurrentRevisions(memory), human \in Humans : Deactivate(m, human)
           \/ TouchNote
  <2>1. PICK lines \in SUBSET Authored :
              /\ \A n \in lines : Follows(memory, n)
              /\ \A n, k \in lines : (n.type = k.type /\ n.record = k.record) => n = k
              /\ memory' = memory \cup lines
    BY <1>2, CommandAppends
  <2>2. lines \in SUBSET MemoryRevision /\ lines \ Authored = {} /\ Numbered(memory)
    BY <2>1 DEF IInv, Authored
  <2>3. QED
    BY <2>1, <2>2, AppendRefines
<1>3. CASE UNCHANGED memory
  BY <1>3
<1>4. QED
  BY <1>1, <1>2, <1>3
     DEF Next, Begin, Commit, CommitFails, WriteScopes, WriteProject, WriteFails, Die,
         RefreshCache, EditTree, EditScope, LoseCache, canonical, vars

\* decisions.jsonl and constraints.jsonl stay revision logs wherever a run of
\* update fails or dies between planning, showing and writing.
THEOREM LogImplemented == Spec => LogSpec
<1>1. Init => Log!Init
  BY DEF Init, Log!Init
<1>2. IInv /\ [Next]_vars => [Log!Next]_memory
  BY NextRefinesLog, UpdatePipelineAssumption
<1>3. QED
  BY <1>1, <1>2, Invariance, PTL DEF Spec, LogSpec, Log!Spec
=============================================================================
