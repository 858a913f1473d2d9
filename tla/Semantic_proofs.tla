--------------------------- MODULE Semantic_proofs --------------------------
(***************************************************************************)
(* Proofs about module Semantic, for any set of scopes, any versions of    *)
(* their sources, any budget, and whatever the provider answers.           *)
(***************************************************************************)
EXTENDS Semantic, TLAPS

-----------------------------------------------------------------------------
(* The inductive invariant                                                 *)

BeingCalled(s) == run.call # NoCall /\ run.call.scope = s

HasLine(s) == \E l \in run.new : l.scope = s

\* A scope is waiting, being asked about, or has its line.
LinesApart ==
    Running =>
        /\ \A s \in run.left : ~BeingCalled(s) /\ ~HasLine(s)
        /\ \A s \in Scopes : BeingCalled(s) => ~HasLine(s)
        /\ \A l, m \in run.new : l.scope = m.scope => l = m

\* Of a scope whose sources never went back, the scan is no newer than the
\* prompt, and what was made from it is no newer than the sources are.
ScanBeforePrompt(s) ==
    Running =>
        /\ run.scan[s] <= source[s]
        /\ BeingCalled(s) => run.scan[s] <= run.call.prompt /\ run.call.prompt <= source[s]

MadeAfterScan(summary, s) ==
    summary.status = "fresh" =>
        /\ summary.content \in Hashes
        /\ summary.source_hash <= summary.content
        /\ summary.content <= source[s]

InOrder ==
    \A s \in Scopes \ reverted :
        /\ ScanBeforePrompt(s)
        /\ current[s] # NoSummary => MadeAfterScan(current[s], s)
        /\ Running => \A l \in run.new : l.scope = s => MadeAfterScan(l.summary, s)

\* A line that is not a new summary carries the old content on.
LinesKeep ==
    Running => \A l \in run.new :
        (current[l.scope] # NoSummary /\ l.summary.status # "fresh")
            => l.summary.content = current[l.scope].content

\* What a run has still to do, or has done, covers every scope.
Matches(summary, hash) == summary.status = "fresh" => summary.source_hash = hash

Covered ==
    Running =>
        /\ \A s \in Scopes \ scopes :
              HasLine(s) \/ (current[s] # NoSummary => current[s].status = "orphaned")
        /\ \A s \in scopes :
              \/ run.mode = "rebuild"
              \/ s \in run.left \/ s \in run.skipped \/ BeingCalled(s) \/ HasLine(s)
              \/ current[s] # NoSummary => Matches(current[s], run.scan[s])
        /\ run.left \subseteq scopes
        /\ \A s \in Scopes : BeingCalled(s) => s \in scopes
        /\ \A l \in run.new :
              /\ Matches(l.summary, run.scan[l.scope])
              /\ l.scope \notin scopes => l.summary.status = "orphaned"

IInv == TypeOK /\ LinesApart /\ InOrder /\ LinesKeep /\ Covered

-----------------------------------------------------------------------------
(* Types                                                                   *)

THEOREM InitTyped == Init => TypeOK
BY SemanticAssumption DEF Init, TypeOK, ScopeSummary

LEMMA RunTyped ==
    ASSUME TypeOK, Running
    PROVE  run \in Run
BY DEF TypeOK, Running, Idle

LEMMA LinesTyped ==
    ASSUME TypeOK
    PROVE  Orphaned \subseteq Line /\ Marked \subseteq Line
<1>1. \A s \in Summarised : current[s] \in ScopeSummary
  BY DEF TypeOK, Summarised
<1>2. \A s \in Summarised : [current[s] EXCEPT !.status = "orphaned"] \in ScopeSummary
  BY <1>1 DEF ScopeSummary, SemanticStatus
<1>3. \A s \in Summarised :
          [current[s] EXCEPT !.status = "possibly_stale", !.source_hash = source[s]]
              \in ScopeSummary
  BY <1>1 DEF ScopeSummary, SemanticStatus, TypeOK, Summarised
<1>4. Summarised \subseteq Scopes
  BY DEF Summarised
<1>5. ASSUME NEW l \in Orphaned
      PROVE  l \in Line
  <2>1. PICK s \in Summarised :
            l = [scope |-> s, summary |-> [current[s] EXCEPT !.status = "orphaned"]]
    BY <1>5 DEF Orphaned
  <2>2. QED
    BY <1>2, <1>4, <2>1 DEF Line
<1>6. ASSUME NEW l \in Marked
      PROVE  l \in Line
  <2>1. PICK s \in Summarised :
            l = [scope |-> s, summary |-> [current[s] EXCEPT !.status = "possibly_stale",
                                                             !.source_hash = source[s]]]
    BY <1>6 DEF Marked
  <2>2. QED
    BY <1>3, <1>4, <2>1 DEF Line
<1>7. QED
  BY <1>5, <1>6

LEMMA BeginTyped ==
    ASSUME TypeOK, NEW mode \in {"rebuild", "refresh", "mark"}, Begin(mode)
    PROVE  TypeOK' /\ run' \in Run
<1>1. run' \in Run
  BY LinesTyped, SemanticAssumption DEF Begin, Run, TypeOK
<1>2. QED
  BY <1>1 DEF Begin, TypeOK

LEMMA SpentTyped ==
    ASSUME NEW tokens \in 0 .. 1, TypeOK, Running
    PROVE  Spent(tokens) \in 0 .. Budget
BY RunTyped, SemanticAssumption DEF Spent, Run

\* What the failure of every attempt on scope s leaves.
Failure(s) ==
    IF current[s] = NoSummary
    THEN [status |-> "unavailable", source_hash |-> run.scan[s], content |-> Nothing]
    ELSE [current[s] EXCEPT !.status = "stale", !.source_hash = run.scan[s]]

\* What an answer about scope s leaves.
Success(s) ==
    [status |-> "fresh", source_hash |-> run.scan[s], content |-> run.call.prompt]

LEMMA SummariesTyped ==
    ASSUME TypeOK, Calling
    PROVE  /\ run.call \in Call
           /\ Success(run.call.scope) \in ScopeSummary
           /\ Failure(run.call.scope) \in ScopeSummary
<1>1. run \in Run /\ run.call \in Call
  BY RunTyped DEF Calling, Run
<1>2. run.call.scope \in Scopes /\ run.call.prompt \in Hashes
  BY <1>1 DEF Call
<1>3. run.scan[run.call.scope] \in Hashes
  BY <1>1, <1>2 DEF Run
<1>4. Success(run.call.scope) \in ScopeSummary
  BY <1>2, <1>3 DEF Success, ScopeSummary, SemanticStatus
<1>5. CASE current[run.call.scope] = NoSummary
  BY <1>1, <1>3, <1>4, <1>5 DEF Failure, ScopeSummary, SemanticStatus
<1>6. CASE current[run.call.scope] # NoSummary
  <2>1. current[run.call.scope] \in ScopeSummary
    BY <1>2, <1>6 DEF TypeOK
  <2>2. QED
    BY <1>1, <1>3, <1>4, <1>6, <2>1 DEF Failure, ScopeSummary, SemanticStatus
<1>7. QED
  BY <1>5, <1>6

\* The two ends of a call, as one fact about `new`.
LEMMA CallEnds ==
    ASSUME TypeOK, NEW tokens \in 0 .. 1, Answer(tokens) \/ GiveUp(tokens)
    PROVE  \E sum \in {Success(run.call.scope), Failure(run.call.scope)} :
               /\ sum \in ScopeSummary
               /\ run' \in Run
               /\ run' = [run EXCEPT !.used = Spent(tokens), !.call = NoCall,
                                     !.new = @ \cup {[scope |-> run.call.scope, summary |-> sum]}]
<1>1. Calling
  BY DEF Answer, GiveUp
<1>2. PICK sum \in {Success(run.call.scope), Failure(run.call.scope)} : Return(sum, tokens)
  <2>1. CASE Answer(tokens)
    BY <2>1 DEF Answer, Success
  <2>2. CASE GiveUp(tokens)
    BY <2>2 DEF GiveUp, Failure
  <2>3. QED
    BY <2>1, <2>2
<1>3. sum \in ScopeSummary /\ run.call \in Call /\ run \in Run
  BY <1>1, SummariesTyped, RunTyped DEF Calling
<1>4. [scope |-> run.call.scope, summary |-> sum] \in Line
  BY <1>3 DEF Line, Call
<1>5. run' = [run EXCEPT !.used = Spent(tokens), !.call = NoCall,
                         !.new = @ \cup {[scope |-> run.call.scope, summary |-> sum]}]
  BY <1>2 DEF Return
<1>6. Spent(tokens) \in 0 .. Budget
  BY <1>1, SpentTyped DEF Calling
<1>7. run' \in Run
  BY <1>3, <1>4, <1>5, <1>6 DEF Run
<1>8. QED
  BY <1>3, <1>5, <1>7

LEMMA WriteTyped ==
    ASSUME TypeOK, Write
    PROVE  TypeOK' /\ run' = Idle
<1>1. \A s \in Scopes : HasLine(s) =>
          (CHOOSE l \in run.new : l.scope = s).summary \in ScopeSummary
  BY RunTyped DEF HasLine, Run, Line, Write
<1>2. current' \in [Scopes -> ScopeSummary \cup {NoSummary}]
  BY <1>1 DEF Write, TypeOK, HasLine
<1>3. QED
  BY <1>2 DEF Write, TypeOK

LEMMA StepTyped ==
    ASSUME TypeOK, [Next]_vars
    PROVE  TypeOK'
<1>1. ASSUME NEW mode \in {"rebuild", "refresh", "mark"}, Begin(mode)
      PROVE  TypeOK'
  BY <1>1, BeginTyped
<1>2. ASSUME NEW s \in Scopes, Start(s)
      PROVE  TypeOK'
  <2>1. run \in Run /\ source[s] \in Hashes
    BY <1>2, RunTyped DEF Start, Refreshing, TypeOK
  <2>2. [scope |-> s, prompt |-> source[s], failed |-> 0] \in Call
    BY <2>1 DEF Call
  <2>3. run' \in Run
    BY <1>2, <2>1, <2>2 DEF Start, Run
  <2>4. QED
    BY <1>2, <2>3 DEF Start, TypeOK
<1>3. ASSUME Defer
      PROVE  TypeOK'
  BY <1>3, RunTyped DEF Defer, Refreshing, Run, TypeOK
<1>4. ASSUME NEW tokens \in 0 .. 1, Answer(tokens) \/ GiveUp(tokens)
      PROVE  TypeOK'
  <2>1. run' \in Run
    BY <1>4, CallEnds
  <2>2. QED
    BY <1>4, <2>1 DEF Answer, GiveUp, Return, TypeOK
<1>5. ASSUME NEW tokens \in 0 .. 1, Retry(tokens)
      PROVE  TypeOK'
  <2>1. run \in Run /\ run.call \in Call /\ Spent(tokens) \in 0 .. Budget
    BY <1>5, RunTyped, SummariesTyped, SpentTyped DEF Retry, Calling
  <2>2. [run.call EXCEPT !.failed = @ + 1] \in Call
    BY <1>5, <2>1 DEF Retry, Attempts, Call
  <2>3. run' \in Run
    BY <1>5, <2>1, <2>2 DEF Retry, Run
  <2>4. QED
    BY <1>5, <2>3 DEF Retry, TypeOK
<1>6. ASSUME Write
      PROVE  TypeOK'
  BY <1>6, WriteTyped
<1>7. ASSUME Die
      PROVE  TypeOK'
  BY <1>7 DEF Die, TypeOK
<1>8. ASSUME NEW s \in Scopes, NEW hash \in Hashes, EditSource(s, hash)
      PROVE  TypeOK'
  BY <1>8 DEF EditSource, TypeOK
<1>9. ASSUME NEW s \in Scopes, EditScope(s)
      PROVE  TypeOK'
  BY <1>9 DEF EditScope, TypeOK
<1>10. ASSUME UNCHANGED vars
       PROVE  TypeOK'
  BY <1>10 DEF vars, TypeOK
<1>11. QED
  BY <1>1, <1>2, <1>3, <1>4, <1>5, <1>6, <1>7, <1>8, <1>9, <1>10 DEF Next, Refresh

\* Every state is well typed.
THEOREM TypeCorrect == Spec => []TypeOK
<1>1. TypeOK /\ [Next]_vars => TypeOK'
  BY StepTyped
<1>2. QED
  BY InitTyped, <1>1, PTL DEF Spec

-----------------------------------------------------------------------------
(* What a run does to its lines                                            *)

\* The lines a run begins with are copies; those of Orphaned are of scopes
\* that are gone, those of Marked of scopes that are there.
LEMMA FirstLines ==
    ASSUME TypeOK
    PROVE  /\ \A l \in Orphaned \cup Marked :
                  /\ current[l.scope] # NoSummary
                  /\ l.summary.status # "fresh"
                  /\ l.summary.content = current[l.scope].content
           /\ \A l \in Orphaned : l.scope \notin scopes /\ l.summary.status = "orphaned"
           /\ \A l \in Marked : l.scope \in scopes
           /\ \A l, m \in Orphaned \cup Marked : l.scope = m.scope => l = m
<1>1. \A s \in Summarised : current[s] \in ScopeSummary /\ current[s] # NoSummary
  BY DEF TypeOK, Summarised
<1>2. ASSUME NEW l \in Orphaned
      PROVE  /\ current[l.scope] # NoSummary
             /\ l.scope \notin scopes
             /\ l.summary = [current[l.scope] EXCEPT !.status = "orphaned"]
             /\ l = [scope |-> l.scope, summary |-> l.summary]
             /\ l.summary.status = "orphaned"
             /\ l.summary.content = current[l.scope].content
  <2>1. PICK s \in Summarised \ scopes :
            l = [scope |-> s, summary |-> [current[s] EXCEPT !.status = "orphaned"]]
    BY <1>2 DEF Orphaned
  <2>2. l.scope = s /\ l.summary = [current[s] EXCEPT !.status = "orphaned"]
    BY <2>1
  <2>3. l.summary.status = "orphaned" /\ l.summary.content = current[s].content
    BY <1>1, <2>2 DEF ScopeSummary
  <2>4. QED
    BY <1>1, <2>1, <2>2, <2>3
<1>3. ASSUME NEW l \in Marked
      PROVE  /\ current[l.scope] # NoSummary
             /\ l.scope \in scopes
             /\ l.summary = [current[l.scope] EXCEPT !.status = "possibly_stale",
                                                     !.source_hash = source[l.scope]]
             /\ l = [scope |-> l.scope, summary |-> l.summary]
             /\ l.summary.status = "possibly_stale"
             /\ l.summary.content = current[l.scope].content
  <2>1. PICK s \in Summarised \cap scopes :
            l = [scope |-> s, summary |-> [current[s] EXCEPT !.status = "possibly_stale",
                                                             !.source_hash = source[s]]]
    BY <1>3 DEF Marked
  <2>2. l.scope = s /\ l.summary = [current[s] EXCEPT !.status = "possibly_stale",
                                                     !.source_hash = source[s]]
    BY <2>1
  <2>3. l.summary.status = "possibly_stale" /\ l.summary.content = current[s].content
    BY <1>1, <2>2 DEF ScopeSummary
  <2>4. QED
    BY <1>1, <2>1, <2>2, <2>3
<1>4. ASSUME NEW l \in Orphaned \cup Marked, NEW m \in Orphaned \cup Marked,
             l.scope = m.scope
      PROVE  l.summary = m.summary
  <2>1. CASE l \in Orphaned /\ m \in Orphaned
    BY <1>2, <1>4, <2>1
  <2>2. CASE l \in Marked /\ m \in Marked
    BY <1>3, <1>4, <2>2
  <2>3. QED
    BY <1>2, <1>3, <1>4, <2>1, <2>2
<1>5. \A l \in Orphaned \cup Marked : l = [scope |-> l.scope, summary |-> l.summary]
  BY <1>2, <1>3
<1>6. \A l, m \in Orphaned \cup Marked : l.scope = m.scope => l = m
  BY <1>4, <1>5
<1>7. QED
  BY <1>2, <1>3, <1>6

\* Beginning, as a fact about the run.
LEMMA Begun ==
    ASSUME TypeOK, NEW mode \in {"rebuild", "refresh", "mark"}, Begin(mode)
    PROVE  /\ run'.mode = mode
           /\ run'.scan = source /\ run'.call = NoCall
           /\ run'.left = {s \in scopes : mode = "refresh" /\ NeedsRefresh(current[s], source[s])}
           /\ run'.new = Orphaned \cup (IF mode = "mark" THEN Marked ELSE {})
           /\ \A s : ~BeingCalled(s)'
BY DEF Begin, BeingCalled

LEMMA InitHolds == Init => IInv
<1> SUFFICES ASSUME Init
             PROVE  IInv
  OBVIOUS
<1>1. ~Running
  BY DEF Init, Idle, Running
<1>2. \A s \in Scopes : current[s] = NoSummary
  BY DEF Init
<1>3. QED
  BY <1>1, <1>2, InitTyped
     DEF IInv, LinesApart, InOrder, ScanBeforePrompt, LinesKeep, Covered

LEMMA KeepsLinesApart ==
    ASSUME TypeOK, LinesApart, Next
    PROVE  LinesApart'
<1>1. ASSUME NEW mode \in {"rebuild", "refresh", "mark"}, Begin(mode)
      PROVE  LinesApart'
  <2>1. \A l, m \in run'.new : l.scope = m.scope => l = m
    BY <1>1, Begun, FirstLines
  <2>2. \A s \in run'.left : ~HasLine(s)'
    <3>1. CASE mode = "refresh"
      <4>1. run'.left \subseteq scopes /\ run'.new = Orphaned
        BY <1>1, <3>1, Begun
      <4>2. QED
        BY <4>1, FirstLines DEF HasLine
    <3>2. CASE mode # "refresh"
      BY <1>1, <3>2, Begun
    <3>3. QED
      BY <3>1, <3>2
  <2>3. QED
    BY <1>1, <2>1, <2>2, Begun DEF LinesApart
<1>2. ASSUME NEW s \in Scopes, Start(s)
      PROVE  LinesApart'
  <2>1. run \in Run /\ Running
    BY <1>2, RunTyped DEF Start, Refreshing
  <2>2. /\ run'.left = run.left \ {s} /\ run'.new = run.new
        /\ run'.call.scope = s
    BY <1>2, <2>1 DEF Start, Run
  <2>3. QED
    BY <1>2, <2>1, <2>2 DEF Start, LinesApart, BeingCalled, HasLine
<1>3. ASSUME Defer
      PROVE  LinesApart'
  <2>1. run \in Run /\ Running
    BY <1>3, RunTyped DEF Defer, Refreshing
  <2>2. run'.left = {} /\ run'.new = run.new /\ run'.call = run.call
    BY <1>3, <2>1 DEF Defer, Run
  <2>3. QED
    BY <2>1, <2>2 DEF LinesApart, BeingCalled, HasLine
<1>4. ASSUME NEW tokens \in 0 .. 1, Answer(tokens) \/ GiveUp(tokens)
      PROVE  LinesApart'
  <2>1. run \in Run /\ Running /\ BeingCalled(run.call.scope) /\ run.call.scope \in Scopes
    BY <1>4, RunTyped, SummariesTyped DEF Answer, GiveUp, Calling, BeingCalled, Call
  <2>2. PICK sum :
            run' = [run EXCEPT !.used = Spent(tokens), !.call = NoCall,
                               !.new = @ \cup {[scope |-> run.call.scope, summary |-> sum]}]
    BY <1>4, CallEnds
  <2>3. /\ run'.left = run.left /\ run'.call = NoCall
        /\ run'.new = run.new \cup {[scope |-> run.call.scope, summary |-> sum]}
    BY <2>1, <2>2 DEF Run
  <2>4. ~HasLine(run.call.scope)
    BY <2>1 DEF LinesApart
  <2>5. QED
    BY <2>1, <2>3, <2>4 DEF LinesApart, BeingCalled, HasLine
<1>5. ASSUME NEW tokens \in 0 .. 1, Retry(tokens)
      PROVE  LinesApart'
  <2>1. run \in Run /\ Running /\ run.call \in Call
    BY <1>5, RunTyped, SummariesTyped DEF Retry, Calling
  <2>2. /\ run'.left = run.left /\ run'.new = run.new
        /\ run'.call.scope = run.call.scope
    BY <1>5, <2>1 DEF Retry, Run, Call
  <2>3. QED
    BY <1>5, <2>1, <2>2 DEF LinesApart, BeingCalled, HasLine, Retry, Calling
<1>6. ASSUME Write \/ Die
      PROVE  LinesApart'
  BY <1>6 DEF Write, Die, Idle, LinesApart, Running
<1>7. ASSUME UNCHANGED run
      PROVE  LinesApart'
  BY <1>7 DEF LinesApart, Running, BeingCalled, HasLine
<1>8. QED
  BY <1>1, <1>2, <1>3, <1>4, <1>5, <1>6, <1>7 DEF Next, Refresh, EditSource, EditScope

LEMMA KeepsInOrder ==
    ASSUME TypeOK, InOrder, Next
    PROVE  InOrder'
<1> USE SemanticAssumption
<1>1. ASSUME NEW mode \in {"rebuild", "refresh", "mark"}, Begin(mode)
      PROVE  InOrder'
  <2>1. \A s \in Scopes : source[s] \in Nat /\ run'.scan[s] = source[s] /\ ~BeingCalled(s)'
    BY <1>1, Begun DEF TypeOK
  <2>2. \A l \in run'.new : l.summary.status # "fresh"
    BY <1>1, Begun, FirstLines
  <2>3. UNCHANGED <<source, current, reverted>>
    BY <1>1 DEF Begin
  <2>4. QED
    BY <2>1, <2>2, <2>3 DEF InOrder, ScanBeforePrompt, MadeAfterScan
<1>2. ASSUME NEW s \in Scopes, Start(s)
      PROVE  InOrder'
  <2>1. run \in Run /\ Running
    BY <1>2, RunTyped DEF Start, Refreshing
  <2>2. /\ run'.scan = run.scan /\ run'.new = run.new
        /\ run'.call.scope = s /\ run'.call.prompt = source[s]
    BY <1>2, <2>1 DEF Start, Run
  <2>3. source[s] \in Nat
    BY DEF TypeOK
  <2>4. UNCHANGED <<source, current, reverted>>
    BY <1>2 DEF Start
  <2>5. QED
    BY <2>1, <2>2, <2>3, <2>4 DEF InOrder, ScanBeforePrompt, MadeAfterScan, BeingCalled
<1>3. ASSUME Defer
      PROVE  InOrder'
  <2>1. run \in Run /\ Running
    BY <1>3, RunTyped DEF Defer, Refreshing
  <2>2. run'.scan = run.scan /\ run'.new = run.new /\ run'.call = run.call
    BY <1>3, <2>1 DEF Defer, Run
  <2>3. UNCHANGED <<source, current, reverted>>
    BY <1>3 DEF Defer
  <2>4. QED
    BY <2>1, <2>2, <2>3 DEF InOrder, ScanBeforePrompt, MadeAfterScan, BeingCalled
<1>4. ASSUME NEW tokens \in 0 .. 1, Answer(tokens) \/ GiveUp(tokens)
      PROVE  InOrder'
  <2> DEFINE t == run.call.scope
  <2>1. run \in Run /\ Running /\ BeingCalled(t) /\ t \in Scopes /\ run.call.prompt \in Hashes
    BY <1>4, RunTyped, SummariesTyped DEF Answer, GiveUp, Calling, BeingCalled, Call
  <2>2. PICK sum \in {Success(t), Failure(t)} :
            run' = [run EXCEPT !.used = Spent(tokens), !.call = NoCall,
                               !.new = @ \cup {[scope |-> t, summary |-> sum]}]
    BY <1>4, CallEnds
  <2>3. /\ run'.scan = run.scan /\ run'.call = NoCall
        /\ run'.new = run.new \cup {[scope |-> t, summary |-> sum]}
    BY <2>1, <2>2 DEF Run
  <2>4. t \notin reverted => MadeAfterScan(Success(t), t)
    BY <2>1 DEF InOrder, ScanBeforePrompt, MadeAfterScan, Success
  <2>5. Failure(t).status # "fresh"
    <3>1. CASE current[t] = NoSummary
      BY <3>1 DEF Failure
    <3>2. CASE current[t] # NoSummary
      <4>1. current[t] \in ScopeSummary
        BY <2>1, <3>2 DEF TypeOK
      <4>2. QED
        BY <3>2, <4>1 DEF Failure, ScopeSummary
    <3>3. QED
      BY <3>1, <3>2
  <2>6. t \notin reverted => MadeAfterScan(sum, t)
    BY <2>4, <2>5 DEF MadeAfterScan
  <2>7. UNCHANGED <<source, current, reverted>>
    BY <1>4 DEF Answer, GiveUp, Return
  <2>8. \A s \in Scopes \ reverted :
            /\ current[s] # NoSummary => MadeAfterScan(current[s], s)
            /\ \A l \in run'.new : l.scope = s => MadeAfterScan(l.summary, s)
    BY <2>1, <2>3, <2>6 DEF InOrder
  <2>9. \A s \in Scopes \ reverted : run'.scan[s] <= source[s]
    BY <2>1, <2>3 DEF InOrder, ScanBeforePrompt
  <2>10. QED
    BY <2>3, <2>7, <2>8, <2>9 DEF InOrder, ScanBeforePrompt, MadeAfterScan, BeingCalled
<1>5. ASSUME NEW tokens \in 0 .. 1, Retry(tokens)
      PROVE  InOrder'
  <2>1. run \in Run /\ Running /\ run.call \in Call
    BY <1>5, RunTyped, SummariesTyped DEF Retry, Calling
  <2>2. /\ run'.scan = run.scan /\ run'.new = run.new
        /\ run'.call.scope = run.call.scope /\ run'.call.prompt = run.call.prompt
    BY <1>5, <2>1 DEF Retry, Run, Call
  <2>3. UNCHANGED <<source, current, reverted>>
    BY <1>5 DEF Retry
  <2>4. QED
    BY <1>5, <2>1, <2>2, <2>3
       DEF InOrder, ScanBeforePrompt, MadeAfterScan, BeingCalled, Retry, Calling
<1>6. ASSUME Write
      PROVE  InOrder'
  <2>1. \A s \in Scopes : current'[s] = current[s]
                        \/ \E l \in run.new : l.scope = s /\ current'[s] = l.summary
    BY <1>6 DEF Write
  <2>2. Running /\ ~Running' /\ UNCHANGED <<source, reverted>>
    BY <1>6 DEF Write, Idle, Running
  <2>3. QED
    BY <2>1, <2>2 DEF InOrder, ScanBeforePrompt, MadeAfterScan
<1>7. ASSUME Die
      PROVE  InOrder'
  BY <1>7 DEF Die, Idle, Running, InOrder, ScanBeforePrompt, MadeAfterScan
<1>8. ASSUME NEW s \in Scopes, NEW hash \in Hashes, EditSource(s, hash)
      PROVE  InOrder'
  <2>1. \A z \in Scopes : source[z] \in Nat /\ source'[z] \in Nat
    BY <1>8, StepTyped DEF Next, TypeOK
  <2>2. reverted \subseteq reverted' /\ UNCHANGED <<run, current>>
    BY <1>8 DEF EditSource
  <2>3. \A z \in Scopes \ reverted' : source[z] <= source'[z]
    <3>1. \A z \in Scopes \ {s} : source'[z] = source[z]
      BY <1>8 DEF EditSource, TypeOK
    <3>2. source'[s] = hash
      BY <1>8 DEF EditSource, TypeOK
    <3>3. s \notin reverted' => ~(hash < source[s])
      BY <1>8 DEF EditSource
    <3>4. QED
      BY <2>1, <3>1, <3>2, <3>3
  <2>4. ASSUME NEW z \in Scopes \ reverted'
        PROVE  ScanBeforePrompt(z)'
    <3>1. ScanBeforePrompt(z) /\ source[z] <= source'[z]
      BY <2>2, <2>3 DEF InOrder
    <3>2. Running => /\ run.scan[z] \in Nat
                     /\ BeingCalled(z) => run.call.prompt \in Nat
      BY RunTyped DEF Run, BeingCalled, Call
    <3>3. QED
      BY <2>1, <2>2, <3>1, <3>2 DEF ScanBeforePrompt, BeingCalled, Running
  <2>5. ASSUME NEW z \in Scopes \ reverted', NEW sum \in ScopeSummary, MadeAfterScan(sum, z)
        PROVE  MadeAfterScan(sum, z)'
    <3>1. source[z] <= source'[z] /\ source[z] \in Nat /\ source'[z] \in Nat
      BY <2>1, <2>3
    <3>2. sum.status = "fresh" =>
              sum.content \in Nat /\ sum.source_hash <= sum.content /\ sum.content <= source[z]
      BY <2>5 DEF MadeAfterScan
    <3>3. sum.status = "fresh" => sum.content <= source'[z]
      <4>1. \A a, b, c \in Nat : a <= b /\ b <= c => a <= c
        OBVIOUS
      <4>2. QED
        BY <3>1, <3>2, <4>1
    <3>4. QED
      BY <2>5, <3>2, <3>3 DEF MadeAfterScan
  <2>6. \A z \in Scopes : current[z] # NoSummary => current[z] \in ScopeSummary
    BY DEF TypeOK
  <2>7. Running => \A l \in run.new : l.summary \in ScopeSummary
    BY RunTyped DEF Run, Line
  <2>8. QED
    BY <2>2, <2>4, <2>5, <2>6, <2>7 DEF InOrder, Running
<1>9. ASSUME NEW s \in Scopes, EditScope(s)
      PROVE  InOrder'
  BY <1>9 DEF EditScope, Running, BeingCalled, InOrder, ScanBeforePrompt, MadeAfterScan
<1>10. QED
  BY <1>1, <1>2, <1>3, <1>4, <1>5, <1>6, <1>7, <1>8, <1>9 DEF Next, Refresh

LEMMA KeepsLinesKeep ==
    ASSUME TypeOK, LinesKeep, Next
    PROVE  LinesKeep'
<1>1. ASSUME NEW mode \in {"rebuild", "refresh", "mark"}, Begin(mode)
      PROVE  LinesKeep'
  <2>1. run'.new \subseteq Orphaned \cup Marked /\ UNCHANGED current
    BY <1>1, Begun DEF Begin
  <2>2. QED
    BY <2>1, FirstLines DEF LinesKeep
<1>2. ASSUME NEW tokens \in 0 .. 1, Answer(tokens) \/ GiveUp(tokens)
      PROVE  LinesKeep'
  <2> DEFINE t == run.call.scope
  <2>1. run \in Run /\ Running /\ t \in Scopes
    BY <1>2, RunTyped, SummariesTyped DEF Answer, GiveUp, Calling, Call
  <2>2. PICK sum \in {Success(t), Failure(t)} :
            run' = [run EXCEPT !.used = Spent(tokens), !.call = NoCall,
                               !.new = @ \cup {[scope |-> t, summary |-> sum]}]
    BY <1>2, CallEnds
  <2>3. run'.new = run.new \cup {[scope |-> t, summary |-> sum]}
    BY <2>1, <2>2 DEF Run
  <2>4. (current[t] # NoSummary /\ sum.status # "fresh") => sum.content = current[t].content
    <3>1. Success(t).status = "fresh"
      BY DEF Success
    <3>2. current[t] # NoSummary => Failure(t).content = current[t].content
      <4>1. current[t] # NoSummary => current[t] \in ScopeSummary
        BY <2>1 DEF TypeOK
      <4>2. QED
        BY <4>1 DEF Failure, ScopeSummary
    <3>3. QED
      BY <3>1, <3>2
  <2>5. UNCHANGED current
    BY <1>2 DEF Answer, GiveUp, Return
  <2>6. QED
    BY <2>1, <2>3, <2>4, <2>5 DEF LinesKeep
<1>3. ASSUME Defer \/ (\E s \in Scopes : Start(s)) \/ (\E tokens \in 0 .. 1 : Retry(tokens))
      PROVE  LinesKeep'
  <2>1. run \in Run /\ Running
    BY <1>3, RunTyped DEF Defer, Start, Refreshing, Retry, Calling
  <2>2. run'.new = run.new /\ UNCHANGED current
    BY <1>3, <2>1 DEF Defer, Start, Retry, Run
  <2>3. QED
    BY <2>1, <2>2 DEF LinesKeep
<1>4. ASSUME Write \/ Die
      PROVE  LinesKeep'
  BY <1>4 DEF Write, Die, Idle, Running, LinesKeep
<1>5. ASSUME UNCHANGED <<run, current>>
      PROVE  LinesKeep'
  BY <1>5 DEF LinesKeep, Running
<1>6. QED
  BY <1>1, <1>2, <1>3, <1>4, <1>5 DEF Next, Refresh, EditSource, EditScope

LEMMA KeepsCovered ==
    ASSUME TypeOK, Covered, Next
    PROVE  Covered'
<1>1. ASSUME NEW mode \in {"rebuild", "refresh", "mark"}, Begin(mode)
      PROVE  Covered'
  <2>1. UNCHANGED <<scopes, current>> /\ \A s : ~BeingCalled(s)'
    BY <1>1, Begun DEF Begin
  <2>2. ASSUME NEW s \in Scopes \ scopes, current[s] # NoSummary,
               current[s].status # "orphaned"
        PROVE  HasLine(s)'
    <3>1. [scope |-> s, summary |-> [current[s] EXCEPT !.status = "orphaned"]] \in Orphaned
      BY <2>2 DEF Orphaned, Summarised
    <3>2. QED
      BY <1>1, <3>1, Begun DEF HasLine
  <2>3. ASSUME NEW s \in scopes, mode # "rebuild", current[s] # NoSummary,
               s \notin run'.left, ~Matches(current[s], source[s])
        PROVE  HasLine(s)'
    <3>1. current[s].status = "fresh" /\ current[s].source_hash # source[s]
      BY <1>1, <2>1, <2>3, Begun DEF Matches
    <3>2. mode = "mark"
      BY <1>1, <2>3, <3>1, Begun DEF NeedsRefresh
    <3>3. [scope |-> s, summary |-> [current[s] EXCEPT !.status = "possibly_stale",
                                                       !.source_hash = source[s]]] \in Marked
      BY <2>3, <3>1 DEF Marked, Summarised, TypeOK
    <3>4. QED
      BY <1>1, <3>2, <3>3, Begun DEF HasLine
  <2>4. \A l \in run'.new : l.summary.status # "fresh"
    BY <1>1, Begun, FirstLines
  <2>5. \A l \in run'.new : l.scope \notin scopes => l.summary.status = "orphaned"
    BY <1>1, Begun, FirstLines
  <2>6. run'.left \subseteq scopes /\ run'.mode = mode /\ run'.scan = source
    BY <1>1, Begun
  <2>7. QED
    BY <2>1, <2>2, <2>3, <2>4, <2>5, <2>6 DEF Covered, Matches
<1>2. ASSUME NEW t \in Scopes, Start(t)
      PROVE  Covered'
  <2>1. run \in Run /\ Running /\ ~(\E s \in Scopes : BeingCalled(s)) /\ t \in run.left
    BY <1>2, RunTyped DEF Start, Refreshing, BeingCalled
  <2>2. /\ run'.mode = run.mode /\ run'.scan = run.scan /\ run'.new = run.new
        /\ run'.skipped = run.skipped /\ run'.left = run.left \ {t}
        /\ run'.call = [scope |-> t, prompt |-> source[t], failed |-> 0]
    BY <1>2, <2>1 DEF Start, Run
  <2>3. \A s : BeingCalled(s)' <=> s = t
    <3>1. run'.call \in Call
      BY <2>2 DEF Call, TypeOK
    <3>2. QED
      BY <2>2, <3>1, SemanticAssumption DEF BeingCalled
  <2>4. UNCHANGED <<scopes, current>>
    BY <1>2 DEF Start
  <2>5. \A s : HasLine(s)' <=> HasLine(s)
    BY <2>2 DEF HasLine
  <2>6. scopes \subseteq Scopes /\ t \in scopes
    BY <2>1 DEF Covered, TypeOK
  <2>7. \A s \in scopes :
            \/ run'.mode = "rebuild"
            \/ s \in run'.left \/ s \in run'.skipped \/ BeingCalled(s)' \/ HasLine(s)'
            \/ current[s] # NoSummary => Matches(current[s], run.scan[s])
    <3>1. \A s \in scopes : ~BeingCalled(s)
      BY <2>1, <2>6
    <3>2. QED
      BY <2>1, <2>2, <2>3, <2>5, <3>1 DEF Covered
  <2>8. QED
    BY <2>1, <2>2, <2>3, <2>4, <2>5, <2>6, <2>7 DEF Covered, Matches
<1>3. ASSUME Defer
      PROVE  Covered'
  <2>1. run \in Run /\ Running
    BY <1>3, RunTyped DEF Defer, Refreshing
  <2>2. /\ run'.mode = run.mode /\ run'.scan = run.scan /\ run'.new = run.new
        /\ run'.skipped = run.skipped \cup run.left /\ run'.left = {} /\ run'.call = run.call
    BY <1>3, <2>1 DEF Defer, Run
  <2>3. UNCHANGED <<scopes, current>>
    BY <1>3 DEF Defer
  <2>4. QED
    BY <2>1, <2>2, <2>3 DEF Covered, Matches, BeingCalled, HasLine
<1>4. ASSUME NEW tokens \in 0 .. 1, Answer(tokens) \/ GiveUp(tokens)
      PROVE  Covered'
  <2> DEFINE t == run.call.scope
  <2>1. /\ run \in Run /\ Running /\ run.call # NoCall /\ t \in Scopes
        /\ \A s : BeingCalled(s) <=> s = t
    BY <1>4, RunTyped, SummariesTyped DEF Answer, GiveUp, Calling, BeingCalled, Call
  <2>2. PICK sum \in {Success(t), Failure(t)} :
            run' = [run EXCEPT !.used = Spent(tokens), !.call = NoCall,
                               !.new = @ \cup {[scope |-> t, summary |-> sum]}]
    BY <1>4, CallEnds
  <2>3. /\ run'.mode = run.mode /\ run'.scan = run.scan /\ run'.skipped = run.skipped
        /\ run'.left = run.left /\ run'.call = NoCall
        /\ run'.new = run.new \cup {[scope |-> t, summary |-> sum]}
    BY <2>1, <2>2 DEF Run
  <2>4. Matches(sum, run.scan[t])
    <3>1. Matches(Success(t), run.scan[t])
      BY DEF Success, Matches
    <3>2. CASE current[t] = NoSummary
      BY <3>1, <3>2 DEF Failure, Matches
    <3>3. CASE current[t] # NoSummary
      <4>1. current[t] \in ScopeSummary
        BY <2>1, <3>3 DEF TypeOK
      <4>2. Failure(t).status = "stale"
        BY <3>3, <4>1 DEF Failure, ScopeSummary
      <4>3. QED
        BY <3>1, <4>2 DEF Matches
    <3>4. QED
      BY <3>2, <3>3
  <2>5. UNCHANGED <<scopes, current>>
    BY <1>4 DEF Answer, GiveUp, Return
  <2>6. t \in scopes
    BY <2>1 DEF Covered
  <2>7. \A s : HasLine(s)' <=> (HasLine(s) \/ s = t)
    <3> DEFINE line == [scope |-> t, summary |-> sum]
    <3>1. line.scope = t
      OBVIOUS
    <3>2. run'.new = run.new \cup {line}
      BY <2>3
    <3> HIDE DEF line, t
    <3>3. QED
      BY <3>1, <3>2 DEF HasLine
  <2>8. \A s : ~BeingCalled(s)'
    BY <2>3 DEF BeingCalled
  <2>9. \A l \in run'.new : l \in run.new \/ (l.scope = t /\ l.summary = sum)
    BY <2>3
  <2>10. \A l \in run'.new : /\ Matches(l.summary, run.scan[l.scope])
                             /\ l.scope \notin scopes => l.summary.status = "orphaned"
    BY <2>1, <2>4, <2>6, <2>9 DEF Covered
  <2>11. \A s \in scopes :
             \/ run'.mode = "rebuild"
             \/ s \in run'.left \/ s \in run'.skipped \/ BeingCalled(s)' \/ HasLine(s)'
             \/ current[s] # NoSummary => Matches(current[s], run.scan[s])
    BY <2>1, <2>3, <2>7 DEF Covered
  <2>12. \A s \in Scopes \ scopes :
             HasLine(s)' \/ (current[s] # NoSummary => current[s].status = "orphaned")
    BY <2>1, <2>7 DEF Covered
  <2>13. run'.left \subseteq scopes
    BY <2>1, <2>3 DEF Covered
  <2>14. scopes \subseteq Scopes /\ run'.scan = run.scan
    BY <2>3 DEF TypeOK
  <2>15. QED
    BY <2>5, <2>8, <2>10, <2>11, <2>12, <2>13, <2>14 DEF Covered, Matches
<1>5. ASSUME NEW tokens \in 0 .. 1, Retry(tokens)
      PROVE  Covered'
  <2>1. run \in Run /\ Running /\ run.call \in Call /\ run.call # NoCall
    BY <1>5, RunTyped, SummariesTyped DEF Retry, Calling
  <2>2. /\ run'.mode = run.mode /\ run'.scan = run.scan /\ run'.new = run.new
        /\ run'.skipped = run.skipped /\ run'.left = run.left
        /\ run'.call = [run.call EXCEPT !.failed = @ + 1]
    BY <1>5, <2>1 DEF Retry, Run
  <2>3. \A s : BeingCalled(s)' <=> BeingCalled(s)
    <3>1. run'.call \in Call /\ run'.call.scope = run.call.scope
      BY <1>5, <2>1, <2>2 DEF Retry, Attempts, Call
    <3>2. QED
      BY <2>1, <3>1, SemanticAssumption DEF BeingCalled
  <2>4. UNCHANGED <<scopes, current>>
    BY <1>5 DEF Retry
  <2>5. QED
    BY <2>1, <2>2, <2>3, <2>4 DEF Covered, Matches, HasLine
<1>6. ASSUME Write \/ Die
      PROVE  Covered'
  BY <1>6 DEF Write, Die, Idle, Running, Covered
<1>7. ASSUME UNCHANGED <<run, scopes, current>>
      PROVE  Covered'
  BY <1>7 DEF Covered, Running, BeingCalled, HasLine, Matches
<1>8. ASSUME NEW s \in Scopes, EditScope(s)
      PROVE  Covered'
  BY <1>8 DEF EditScope, Covered, Running
<1>9. QED
  BY <1>1, <1>2, <1>3, <1>4, <1>5, <1>6, <1>7, <1>8 DEF Next, Refresh, EditSource

-----------------------------------------------------------------------------
(* The theorems                                                            *)

LEMMA StepKeeps ==
    ASSUME IInv, [Next]_vars
    PROVE  IInv'
<1>1. CASE Next
  BY <1>1, StepTyped, KeepsLinesApart, KeepsInOrder, KeepsLinesKeep, KeepsCovered DEF IInv
<1>2. CASE UNCHANGED vars
  BY <1>2 DEF vars, IInv, TypeOK, LinesApart, InOrder, ScanBeforePrompt, MadeAfterScan,
              LinesKeep, Covered, Matches, Running, BeingCalled, HasLine
<1>3. QED
  BY <1>1, <1>2

\* The invariant the other theorems rest on.
THEOREM InductiveInvariant == Spec => []IInv
<1>1. IInv /\ [Next]_vars => IInv'
  BY StepKeeps
<1>2. QED
  BY InitHolds, <1>1, PTL DEF Spec

\* A summary that is called fresh and whose hash is that of the sources was
\* made from them, unless the sources ever went back to an older version.
THEOREM SummariesAreTrue == Spec => []FreshIsTrue
<1>1. IInv => FreshIsTrue
  <2> SUFFICES ASSUME IInv, NEW s \in scopes \ reverted, current[s] # NoSummary,
                      current[s].status = "fresh", current[s].source_hash = source[s]
               PROVE  current[s].content = source[s]
    BY DEF FreshIsTrue
  <2>1. MadeAfterScan(current[s], s)
    BY DEF IInv, InOrder, TypeOK
  <2>2. current[s].content \in Nat /\ source[s] \in Nat
    BY <2>1, SemanticAssumption DEF MadeAfterScan, IInv, TypeOK
  <2>3. QED
    BY <2>1, <2>2 DEF MadeAfterScan
<1>2. QED
  BY InductiveInvariant, <1>1, PTL

\* No run ever makes two lines of one scope.
THEOREM NoRevisionConflict == Spec => []OneLinePerScope
<1>1. IInv => OneLinePerScope
  BY DEF IInv, LinesApart, OneLinePerScope
<1>2. QED
  BY InductiveInvariant, <1>1, PTL

\* What Write does to one scope.
LEMMA Written ==
    ASSUME Write, NEW s \in Scopes
    PROVE  \/ ~HasLine(s) /\ current'[s] = current[s]
           \/ \E l \in run.new : l.scope = s /\ current'[s] = l.summary
BY DEF Write, HasLine

\* No failure, deletion or missing provider loses a summary.
THEOREM FailureKeepsContent == Spec => LastGoodSummaryKept
<1> DEFINE Kept == \A s \in Scopes :
                       current[s] # NoSummary =>
                           /\ current'[s] # NoSummary
                           /\ current'[s].status # "fresh" => current'[s].content = current[s].content
<1>1. IInv /\ [Next]_vars => [Kept]_vars
  <2> SUFFICES ASSUME IInv, Next
               PROVE  Kept
    OBVIOUS
  <2>1. CASE Write
    <3> SUFFICES ASSUME NEW s \in Scopes, current[s] # NoSummary
                 PROVE  /\ current'[s] # NoSummary
                        /\ current'[s].status # "fresh" => current'[s].content = current[s].content
      OBVIOUS
    <3>1. CASE current'[s] = current[s]
      BY <3>1
    <3>2. ASSUME NEW l \in run.new, l.scope = s, current'[s] = l.summary
          PROVE  /\ current'[s] # NoSummary
                 /\ current'[s].status # "fresh" => current'[s].content = current[s].content
      <4>1. l.summary \in ScopeSummary
        BY <2>1, RunTyped DEF IInv, Write, Run, Line
      <4>2. QED
        BY <2>1, <3>2, <4>1, SemanticAssumption DEF IInv, LinesKeep, Write
    <3>3. QED
      BY <2>1, <3>1, <3>2, Written
  <2>2. CASE ~Write
    <3>1. UNCHANGED current
      BY <2>2 DEF Next, Refresh, Begin, Start, Defer, Answer, Retry, GiveUp, Return, Die,
                  EditSource, EditScope
    <3>2. QED
      BY <3>1
  <2>3. QED
    BY <2>1, <2>2
<1>2. QED
  BY InductiveInvariant, <1>1, PTL DEF Spec, LastGoodSummaryKept

\* A completed run leaves no scope it did not defer with a summary that is
\* called fresh and is of other sources, and none of a deleted scope unmarked.
THEOREM CompletedRunSettles == Spec => RunSettles
<1> DEFINE Settled == Write =>
               \A s \in Scopes : current'[s] # NoSummary =>
                   IF s \in scopes
                   THEN (run.mode # "rebuild" /\ current'[s].status = "fresh"
                            /\ current'[s].source_hash # run.scan[s]) => s \in run.skipped
                   ELSE current'[s].status = "orphaned"
<1>1. IInv => Settled
  <2> SUFFICES ASSUME IInv, Write, NEW s \in Scopes, current'[s] # NoSummary
               PROVE  IF s \in scopes
                      THEN (run.mode # "rebuild" /\ current'[s].status = "fresh"
                               /\ current'[s].source_hash # run.scan[s]) => s \in run.skipped
                      ELSE current'[s].status = "orphaned"
    OBVIOUS
  <2>1. Running /\ run.left = {} /\ ~BeingCalled(s)
    BY DEF Write, BeingCalled
  <2>2. CASE ~HasLine(s) /\ current'[s] = current[s]
    BY <2>1, <2>2 DEF IInv, Covered, Matches
  <2>3. ASSUME NEW l \in run.new, l.scope = s, current'[s] = l.summary
        PROVE  IF s \in scopes
               THEN (run.mode # "rebuild" /\ current'[s].status = "fresh"
                        /\ current'[s].source_hash # run.scan[s]) => s \in run.skipped
               ELSE current'[s].status = "orphaned"
    BY <2>1, <2>3 DEF IInv, Covered, Matches
  <2>4. QED
    BY <2>2, <2>3, Written
<1>2. QED
  BY InductiveInvariant, <1>1, PTL DEF Spec, RunSettles
=============================================================================
