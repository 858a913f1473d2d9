------------------------- MODULE ScopeUpkeep_proofs -------------------------
(***************************************************************************)
(* Proofs about module ScopeUpkeep, for any files, symbols, scopes, import *)
(* graph and threshold.                                                    *)
(***************************************************************************)
EXTENDS ScopeUpkeep, FiniteSetTheorems, TLAPS

-----------------------------------------------------------------------------
(* The evidence and what is made of it                                     *)

LEMMA AbsentIsNoScope == Absent \notin Scope
BY ScopeUpkeepAssumption DEF Scope

LEMMA HeldType ==
    ASSUME NEW scope \in Scope, NEW known
    PROVE  Held(scope, known) \in SUBSET Files
BY ScopeUpkeepAssumption DEF Held, Scope

\* What the code calculates as candidates is the evidence there is.
LEMMA CandidatesAreEvidence ==
    ASSUME scopes \in ScopesFile, index \subseteq Files, NEW f
    PROVE  Candidates(f, scopes, index) = {t \in Existing(scopes) : EvidenceFor(f, t)}
<1> DEFINE members == [s \in Scopes |-> IF scopes[s] = Absent THEN Absent
                                        ELSE Held(scopes[s], index)]
           present == [g \in Files |-> IF g \in index THEN g ELSE Absent]
<1>1. ASSUME NEW t \in Scopes
      PROVE  t \in Members!Existing(members) <=> scopes[t] # Absent
  BY HeldType, ScopeUpkeepAssumption DEF Members!Existing, ScopesFile
<1>2. ASSUME NEW t \in Scopes, scopes[t] # Absent, NEW g \in Held(scopes[t], index)
      PROVE  present[g] # Absent <=> g \in index
  BY <1>2, HeldType, ScopeUpkeepAssumption DEF ScopesFile
<1>3. \A t \in Scopes : scopes[t] # Absent => members[t] = Held(scopes[t], index)
  OBVIOUS
<1> HIDE DEF members, present
<1>4. Members!ImportCandidates(f, members, Locked(scopes), present)
        = {t \in Existing(scopes) : EvidenceFor(f, t)}
  BY <1>1, <1>2, <1>3
     DEF Members!ImportCandidates, Members!Existing, Locked, Existing, EvidenceFor
<1>5. QED
  BY <1>4 DEF Candidates, members, present

\* The files that join a scope when `files` are judged.
Joining(files, file, known, s) == {f \in files : Candidates(f, file, known) = {s}}

\* Assign grows scopes that exist, and nothing else of them.
LEMMA AssignGrows ==
    ASSUME NEW file \in ScopesFile, NEW files \in SUBSET Files, NEW known, NEW s \in Scopes
    PROVE  /\ file[s] = Absent => Assign(files, file, known)[s] = Absent
           /\ file[s] # Absent =>
                 /\ file[s] \in Scope
                 /\ Assign(files, file, known)[s] \in Scope
                 /\ Assign(files, file, known)[s] =
                       [file[s] EXCEPT !.files = @ \cup Joining(files, file, known, s)]
<1>1. file[s] = Absent => Assign(files, file, known)[s] = Absent
  BY DEF Assign
<1>2. ASSUME file[s] # Absent
      PROVE  /\ file[s] \in Scope
             /\ Assign(files, file, known)[s] =
                   [file[s] EXCEPT !.files = @ \cup Joining(files, file, known, s)]
  BY <1>2 DEF Assign, ScopesFile, Joining
<1>3. Joining(files, file, known, s) \in SUBSET Files
  BY DEF Joining
<1>4. ASSUME file[s] # Absent
      PROVE  [file[s] EXCEPT !.files = @ \cup Joining(files, file, known, s)] \in Scope
  BY <1>2, <1>3, <1>4 DEF Scope
<1>5. QED
  BY <1>1, <1>2, <1>4

LEMMA AssignType ==
    ASSUME NEW file \in ScopesFile, NEW files \in SUBSET Files, NEW known
    PROVE  Assign(files, file, known) \in ScopesFile
<1>1. \A s \in Scopes : Assign(files, file, known)[s] \in Scope \cup {Absent}
  BY AssignGrows
<1>2. QED
  BY <1>1 DEF Assign, ScopesFile

\* What is missing of a scope stays missing when indexed files join it.
LEMMA AssignKeepsMissing ==
    ASSUME NEW file \in ScopesFile, NEW known \in SUBSET Files, NEW files \in SUBSET known
    PROVE  LET new == Assign(files, file, known)
           IN  /\ Existing(new) = Existing(file)
               /\ \A s \in Existing(file) :
                     /\ Protected(new[s]) <=> Protected(file[s])
                     /\ Missing(new[s], known) = Missing(file[s], known)
<1> DEFINE new == Assign(files, file, known)
<1>0. files \in SUBSET Files
  OBVIOUS
<1>1. ASSUME NEW s \in Scopes
      PROVE  /\ file[s] = Absent => new[s] = Absent
             /\ file[s] # Absent =>
                   /\ file[s] \in Scope
                   /\ new[s] \in Scope
                   /\ new[s] = [file[s] EXCEPT !.files = @ \cup Joining(files, file, known, s)]
  BY <1>0, AssignGrows
<1> HIDE DEF new
<1>2. ASSUME NEW s \in Scopes, file[s] # Absent
      PROVE  /\ Protected(new[s]) <=> Protected(file[s])
             /\ Missing(new[s], known) = Missing(file[s], known)
  <2>1. PICK more \in SUBSET known :
           /\ file[s] \in Scope
           /\ new[s] = [file[s] EXCEPT !.files = @ \cup more]
    BY <1>1, <1>2 DEF Joining
  <2>2. /\ new[s].files = file[s].files \cup more
        /\ new[s].symbols = file[s].symbols
        /\ new[s].locked = file[s].locked
        /\ new[s].source = file[s].source
    BY <2>1 DEF Scope
  <2>3. QED
    BY <2>2 DEF Protected, Missing
<1>3. \A s \in Scopes : new[s] = Absent <=> file[s] = Absent
  BY <1>1, AbsentIsNoScope
<1>4. QED
  BY <1>2, <1>3 DEF Existing, new

-----------------------------------------------------------------------------
(* The inductive invariant                                                 *)

\* From the commit of a run to its write of scopes.json, nothing moves that
\* its plan was made from.
PlanFollows ==
    \A file \in plan :
        file = scopes \/ \E files \in SUBSET index : file = Assign(files, scopes, index)

IInv == TypeOK /\ PlanFollows

LEMMA InitInv == Init => IInv
BY DEF Init, IInv, TypeOK, PlanFollows, ScopesFile

LEMMA UpdateKeeps ==
    ASSUME IInv, NEW full \in BOOLEAN, Update(full)
    PROVE  IInv'
<1> DEFINE file == IF full THEN scopes ELSE Assign(tree \ index, scopes, tree)
<1>1. /\ tree \in SUBSET Files /\ scopes \in ScopesFile
      /\ plan' = {file} /\ index' = tree /\ cache' = "ok"
      /\ UNCHANGED <<tree, scopes>>
  BY DEF Update, IInv, TypeOK
<1>2. file \in ScopesFile
  BY <1>1, AssignType
<1>3. file = scopes \/ file = Assign(tree \ index, scopes, tree)
  OBVIOUS
<1> HIDE DEF file
<1>4. TypeOK'
  BY <1>1, <1>2 DEF TypeOK
<1>5. PlanFollows'
  BY <1>1, <1>3 DEF PlanFollows
<1>6. QED
  BY <1>4, <1>5 DEF IInv

LEMMA ReconcileWrites ==
    ASSUME TypeOK, NEW full \in BOOLEAN, Reconcile(full)
    PROVE  scopes' = scopes \/ \E files \in SUBSET index : scopes' = Assign(files, scopes, index)
BY DEF Reconcile, AutoAssigned, Unassigned

\* A command of a human writes a scope or removes one.
LEMMA SaveKeeps ==
    ASSUME IInv, NEW s \in Scopes, NEW scope \in Scope \cup {Absent}, Save(s, scope)
    PROVE  IInv'
BY DEF Save, IInv, TypeOK, PlanFollows, ScopesFile

LEMMA SuggestedAreFiles ==
    ASSUME TypeOK, NEW files \in Suggestions
    PROVE  files \in SUBSET Files
<1>1. index \ LockedFiles \subseteq Files
  BY DEF TypeOK
<1>2. files \in PathGroups(index \ LockedFiles) \/ files \in Components(index \ LockedFiles)
  BY DEF Suggestions
<1>3. files \subseteq index \ LockedFiles
  BY <1>2 DEF PathGroups, Components
<1>4. QED
  BY <1>1, <1>3

LEMMA NextKeeps == IInv /\ [Next]_vars => IInv'
<1> SUFFICES ASSUME IInv, [Next]_vars
             PROVE  IInv'
  OBVIOUS
<1>1. CASE \E full \in BOOLEAN : Update(full)
  BY <1>1, UpdateKeeps
<1>2. CASE Stop
  BY <1>2 DEF Stop, IInv, TypeOK, PlanFollows
<1>3. CASE WriteScopes
  BY <1>3 DEF WriteScopes, IInv, TypeOK, PlanFollows
<1>4. CASE \E full \in BOOLEAN : Reconcile(full)
  <2>1. PICK full \in BOOLEAN : Reconcile(full)
    BY <1>4
  <2>2. index \in SUBSET Files /\ scopes \in ScopesFile
    BY DEF IInv, TypeOK
  <2>3. scopes' \in ScopesFile
    BY <2>1, <2>2, ReconcileWrites, AssignType DEF IInv
  <2>4. plan' = {} /\ UNCHANGED <<tree, cache, index>>
    BY <2>1 DEF Reconcile
  <2>5. QED
    BY <2>3, <2>4 DEF IInv, TypeOK, PlanFollows
<1>5. ASSUME NEW s \in Scopes, NEW files \in SUBSET Files, NEW symbols \in SUBSET Symbols,
             Create(s, files, symbols) \/ Edit(s, files, symbols)
      PROVE  IInv'
  <2>1. CASE Create(s, files, symbols)
    <3>1. [files |-> files, symbols |-> symbols, locked |-> TRUE, source |-> "human"] \in Scope
      BY DEF Scope
    <3>2. QED
      BY <2>1, <3>1, SaveKeeps DEF Create
  <2>2. CASE Edit(s, files, symbols)
    <3>1. scopes[s] \in Scope
      BY <2>2 DEF Edit, IInv, TypeOK, ScopesFile
    <3>2. [scopes[s] EXCEPT !.files = files, !.symbols = symbols] \in Scope
      BY <3>1 DEF Scope
    <3>3. QED
      BY <2>2, <3>2, SaveKeeps DEF Edit
  <2>3. QED
    BY <1>5, <2>1, <2>2
<1>6. ASSUME NEW s \in Scopes, NEW locked \in BOOLEAN, SetLocked(s, locked)
      PROVE  IInv'
  <2>1. scopes[s] \in Scope
    BY <1>6 DEF SetLocked, IInv, TypeOK, ScopesFile
  <2>2. [scopes[s] EXCEPT !.locked = locked] \in Scope
    BY <2>1 DEF Scope
  <2>3. QED
    BY <1>6, <2>2, SaveKeeps DEF SetLocked
<1>7. ASSUME NEW s \in Scopes, Delete(s)
      PROVE  IInv'
  BY <1>7, SaveKeeps DEF Delete
<1>8. ASSUME NEW s \in Scopes, Suggest(s)
      PROVE  IInv'
  <2>1. PICK files \in Suggestions :
           Save(s, [files |-> files, symbols |-> {}, locked |-> FALSE, source |-> "model"])
    BY <1>8 DEF Suggest
  <2>2. [files |-> files, symbols |-> {}, locked |-> FALSE, source |-> "model"] \in Scope
    BY SuggestedAreFiles DEF IInv, Scope
  <2>3. QED
    BY <2>1, <2>2, SaveKeeps
<1>9. CASE \/ \E f \in Files : EditTree(f)
           \/ \E left \in {"missing", "unusable"} : LoseCache(left)
           \/ Heal
  BY <1>9 DEF EditTree, LoseCache, Heal, IInv, TypeOK, PlanFollows
<1>10. CASE UNCHANGED vars
  BY <1>10 DEF vars, IInv, TypeOK, PlanFollows
<1>11. QED
  BY <1>1, <1>2, <1>3, <1>4, <1>5, <1>6, <1>7, <1>8, <1>9, <1>10 DEF Next, Unattended

-----------------------------------------------------------------------------
(* What nobody reviews                                                     *)

\* Joining on evidence is all that Assign does to scopes.json.
LEMMA AssignOnlyAdds ==
    ASSUME TypeOK, NEW files \in SUBSET index, scopes' = Assign(files, scopes, index)
    PROVE  /\ \A s \in Scopes : scopes'[s] # scopes[s] =>
                 /\ scopes[s] # Absent
                 /\ \E more \in SUBSET (index \ scopes[s].files) :
                       /\ scopes'[s] = [scopes[s] EXCEPT !.files = @ \cup more]
                       /\ \A f \in more : {t \in Existing(scopes) : EvidenceFor(f, t)} = {s}
           /\ Broken(scopes', index) = Broken(scopes, index)
           /\ Orphaned(scopes', index) = Orphaned(scopes, index)
<1>1. scopes \in ScopesFile /\ index \in SUBSET Files
  BY DEF TypeOK
<1>2. ASSUME NEW s \in Scopes, scopes'[s] # scopes[s]
      PROVE  /\ scopes[s] # Absent
             /\ \E more \in SUBSET (index \ scopes[s].files) :
                   /\ scopes'[s] = [scopes[s] EXCEPT !.files = @ \cup more]
                   /\ \A f \in more : {t \in Existing(scopes) : EvidenceFor(f, t)} = {s}
  <2> DEFINE joined == Joining(files, scopes, index, s)
             more == joined \ scopes[s].files
  <2>1. /\ scopes[s] # Absent /\ scopes[s] \in Scope
        /\ scopes'[s] = [scopes[s] EXCEPT !.files = @ \cup joined]
    BY <1>1, <1>2, AssignGrows
  <2>2. scopes[s].files \cup joined = scopes[s].files \cup more
    OBVIOUS
  <2>3. scopes'[s] = [scopes[s] EXCEPT !.files = @ \cup more]
    BY <2>1, <2>2 DEF Scope
  <2>4. \A f \in more : {t \in Existing(scopes) : EvidenceFor(f, t)} = {s}
    BY <1>1, CandidatesAreEvidence DEF Joining
  <2>5. more \in SUBSET (index \ scopes[s].files)
    BY DEF Joining
  <2> HIDE DEF more
  <2>6. QED
    BY <2>1, <2>3, <2>4, <2>5
<1>3. /\ Existing(scopes') = Existing(scopes)
      /\ \A s \in Existing(scopes) :
            /\ Protected(scopes'[s]) <=> Protected(scopes[s])
            /\ Missing(scopes'[s], index) = Missing(scopes[s], index)
  BY <1>1, AssignKeepsMissing
<1>4. /\ Broken(scopes', index) = Broken(scopes, index)
      /\ Orphaned(scopes', index) = Orphaned(scopes, index)
  BY <1>3 DEF Broken, Orphaned
<1>5. QED
  BY <1>2, <1>4

\* What update and reconcile write without asking only adds indexed files,
\* to the one unlocked scope they have evidence for.
THEOREM NothingElseUnattended == Spec => UnattendedOnlyAdds
<1> DEFINE OnlyAdds ==
        /\ \A s \in Scopes : scopes'[s] # scopes[s] =>
              /\ scopes[s] # Absent
              /\ \E more \in SUBSET (index \ scopes[s].files) :
                    /\ scopes'[s] = [scopes[s] EXCEPT !.files = @ \cup more]
                    /\ \A f \in more :
                          {t \in Existing(scopes) : EvidenceFor(f, t)} = {s}
        /\ Broken(scopes', index) = Broken(scopes, index)
        /\ Orphaned(scopes', index) = Orphaned(scopes, index)
<1>1. IInv /\ [Next]_vars => [Unattended => OnlyAdds]_vars
  <2> SUFFICES ASSUME IInv, Unattended
               PROVE  OnlyAdds
    OBVIOUS
  <2>1. scopes' = scopes \/ \E files \in SUBSET index : scopes' = Assign(files, scopes, index)
    BY ReconcileWrites DEF Unattended, WriteScopes, IInv, PlanFollows
  <2>2. CASE scopes' = scopes
    BY <2>2
  <2>3. CASE \E files \in SUBSET index : scopes' = Assign(files, scopes, index)
    BY <2>3, AssignOnlyAdds DEF IInv
  <2>4. QED
    BY <2>1, <2>2, <2>3
<1>2. Init => IInv
  BY InitInv
<1>3. IInv /\ [Next]_vars => IInv'
  BY NextKeeps
<1> HIDE DEF OnlyAdds
<1>4. Spec => [][Unattended => OnlyAdds]_vars
  BY <1>1, <1>2, <1>3, PTL DEF Spec
<1>5. QED
  BY <1>4 DEF UnattendedOnlyAdds, OnlyAdds

\* An indexed file joins a scope where there is evidence for that scope only.
LEMMA OneCandidateIsAScope ==
    ASSUME TypeOK, NEW f \in AutoAssigned(scopes, index)
    PROVE  \E s \in Existing(scopes) : Candidates(f, scopes, index) = {s}
<1>1. Candidates(f, scopes, index) \in SUBSET Existing(scopes)
  BY CandidatesAreEvidence DEF TypeOK
<1>2. Existing(scopes) \in SUBSET Scopes
  BY DEF Existing
<1>3. IsFiniteSet(Candidates(f, scopes, index))
  BY <1>1, <1>2, FS_Subset, ScopeUpkeepAssumption
<1>4. Cardinality(Candidates(f, scopes, index)) = 1
  BY DEF AutoAssigned
<1>5. QED
  BY <1>1, <1>3, <1>4, FS_Singleton

\* What a reconciliation leaves outside is what it listed for review.
THEOREM NoFileIsForgotten == Spec => ReviewListIsComplete
<1> DEFINE Assigns == Reconcile(FALSE) /\ ~ SuspiciousChurn(scopes, index)
           Listed == Unassigned(scopes', index') = Undecided(scopes, index)
<1>1. IInv /\ [Next]_vars => [Assigns => Listed]_vars
  <2> SUFFICES ASSUME IInv, Assigns
               PROVE  Listed
    OBVIOUS
  <2> DEFINE auto == AutoAssigned(scopes, index)
             joined(s) == Joining(auto, scopes, index, s)
  <2>1. /\ TypeOK /\ scopes \in ScopesFile /\ index \in SUBSET Files
        /\ scopes' = Assign(auto, scopes, index) /\ index' = index
    BY DEF IInv, TypeOK, Reconcile
  <2>2. auto \in SUBSET Files /\ auto \subseteq index
    BY <2>1 DEF AutoAssigned, Unassigned
  <2>3. \A s \in Scopes :
           /\ scopes[s] = Absent => scopes'[s] = Absent
           /\ scopes[s] # Absent =>
                /\ scopes[s] \in Scope /\ scopes'[s] \in Scope
                /\ scopes'[s] = [scopes[s] EXCEPT !.files = @ \cup joined(s)]
    BY <2>1, <2>2, AssignGrows
  <2>4. \A s \in Scopes : scopes'[s] = Absent <=> scopes[s] = Absent
    BY <2>3, AbsentIsNoScope
  <2>5. Existing(scopes') = Existing(scopes)
    BY <2>4 DEF Existing
  <2>6. \A s \in Existing(scopes) :
           Held(scopes'[s], index) = Held(scopes[s], index) \cup joined(s)
    <3>1. ASSUME NEW s \in Existing(scopes)
          PROVE  /\ scopes'[s].files = scopes[s].files \cup joined(s)
                 /\ scopes'[s].symbols = scopes[s].symbols
      BY <2>3 DEF Existing, Scope
    <3>2. QED
      BY <3>1 DEF Held
  <2>7. \A f \in auto : \E s \in Existing(scopes) : f \in joined(s)
    BY <2>1, OneCandidateIsAScope DEF Joining
  <2> HIDE DEF auto
  <2>8. Unassigned(scopes', index) = Unassigned(scopes, index) \ auto
    BY <2>5, <2>6, <2>7 DEF Unassigned, Joining
  <2>9. QED
    BY <2>1, <2>8 DEF Undecided, auto
<1>2. Init => IInv
  BY InitInv
<1>3. IInv /\ [Next]_vars => IInv'
  BY NextKeeps
<1> HIDE DEF Assigns, Listed
<1>4. Spec => [][Assigns => Listed]_vars
  BY <1>1, <1>2, <1>3, PTL DEF Spec
<1>5. QED
  BY <1>4 DEF ReviewListIsComplete, Assigns, Listed

\* Every variable keeps its type.
THEOREM TypeCorrect == Spec => []TypeOK
<1>1. Init => IInv
  BY InitInv
<1>2. IInv /\ [Next]_vars => IInv'
  BY NextKeeps
<1>3. IInv => TypeOK
  BY DEF IInv
<1>4. QED
  BY <1>1, <1>2, <1>3, PTL DEF Spec
=============================================================================
