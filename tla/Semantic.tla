------------------------------ MODULE Semantic ------------------------------
(***************************************************************************)
(* The summaries of scopes (core/semantic/worker.py, the semantic stage of *)
(* core/update.py).  A run scans the tree, reports summaries of deleted    *)
(* scopes as orphaned and then, with a provider that answers its probe,    *)
(* asks it for a new summary of every scope that needs one, until the      *)
(* budget of input tokens is spent.  Without one it marks the summaries    *)
(* that no longer match.  A rebuild (`full`) never calls a provider.  What *)
(* the run made is written at its end.                                     *)
(*                                                                         *)
(* A scope's sources are one value, which also stands for their            *)
(* fingerprint; the larger value is the newer.  The content of a summary   *)
(* is the sources its prompt showed.  Of semantic.jsonl the current line   *)
(* of each scope is kept: a new line always carries the next revision, so  *)
(* lines are unique as long as a run writes one per scope (OneLinePerScope).*)
(* Every file is readable here.                                            *)
(***************************************************************************)
EXTENDS Naturals

CONSTANTS
    Scopes,
    Hashes,         \* versions of the sources
    MaxHash,        \* bound: the last version of each scope's sources
    Nothing,        \* the content of a placeholder
    NoSummary,      \* no line for this scope
    NoCall,         \* no call is running
    Budget,         \* max_input_tokens_per_run
    Fallback        \* is a fallback model configured?

VARIABLES
    source,         \* the sources of each scope
    scopes,         \* the scopes of scopes.json
    current,        \* the current summary of each scope
    run,            \* the running update
    reverted        \* ghost: scopes whose sources have gone back to an old version

vars == <<source, scopes, current, run, reverted>>

-----------------------------------------------------------------------------

SemanticStatus == {"fresh", "possibly_stale", "stale", "unavailable", "orphaned"}

ScopeSummary == [status : SemanticStatus, source_hash : Hashes,
                 content : Hashes \cup {Nothing}]

Line == [scope : Scopes, summary : ScopeSummary]

\* A call in progress: what its prompt shows and how many attempts failed.
Call == [scope : Scopes, prompt : Hashes, failed : 0 .. 2]

ASSUME SemanticAssumption ==
    /\ Hashes \subseteq Nat /\ 0 \in Hashes
    /\ MaxHash \in [Scopes -> Hashes]
    /\ Budget \in Nat \ {0}
    /\ Fallback \in BOOLEAN
    /\ Nothing \notin Hashes
    /\ NoSummary \notin ScopeSummary
    /\ NoCall \notin Call

Run == [mode : {"rebuild", "refresh", "mark"}, scan : [Scopes -> Hashes],
        left : SUBSET Scopes, skipped : SUBSET Scopes, used : 0 .. Budget,
        call : Call \cup {NoCall}, new : SUBSET Line]

Idle == [mode |-> "idle"]

Running == run.mode # "idle"

\* The sources, the scopes, the summaries and the run are what the code's
\* models say they are.
TypeOK ==
    /\ source \in [Scopes -> Hashes]
    /\ scopes \subseteq Scopes
    /\ current \in [Scopes -> ScopeSummary \cup {NoSummary}]
    /\ run \in Run \cup {Idle}
    /\ reverted \subseteq Scopes

Init ==
    /\ source = [s \in Scopes |-> 0]
    /\ scopes = {}
    /\ current = [s \in Scopes |-> NoSummary]
    /\ run = Idle
    /\ reverted = {}

-----------------------------------------------------------------------------
(* What a run finds                                                        *)

\* Mutant: a summary that was made once is left alone.
NeedsFirstSummary(summary, hash) ==
    IF summary = NoSummary THEN TRUE
    ELSE summary.status \in {"unavailable", "orphaned"}

NeedsRefresh(summary, hash) ==
    IF summary = NoSummary THEN TRUE
    ELSE \/ summary.status \in {"unavailable", "orphaned"}
         \/ summary.source_hash # hash

Summarised == {s \in Scopes : current[s] # NoSummary}

\* detect_orphaned_scopes(): whatever the mode.
Orphaned ==
    {[scope |-> s, summary |-> [current[s] EXCEPT !.status = "orphaned"]] :
        s \in {t \in Summarised \ scopes : current[t].status # "orphaned"}}

\* Mutant: every summary that no longer matches is marked, of whatever scope.
MarkedEverywhere ==
    {[scope |-> s, summary |-> [current[s] EXCEPT !.status = "possibly_stale",
                                                  !.source_hash = source[s]]] :
        s \in {t \in Summarised :
                  current[t].status # "unavailable" /\ current[t].source_hash # source[t]}}

\* mark_possibly_stale(): the old content under the new hash.
Marked ==
    {[scope |-> s, summary |-> [current[s] EXCEPT !.status = "possibly_stale",
                                                  !.source_hash = source[s]]] :
        s \in {t \in Summarised \cap scopes :
                  current[t].status # "unavailable" /\ current[t].source_hash # source[t]}}

\* Neither the summaries nor the scan change before the end, so what needs
\* a refresh is known at once; the scopes are visited in any order.
Begin(mode) ==
    /\ ~Running
    /\ run' = [mode |-> mode, scan |-> source,
               left |-> {s \in scopes : mode = "refresh" /\ NeedsRefresh(current[s], source[s])},
               skipped |-> {}, used |-> 0, call |-> NoCall,
               new |-> Orphaned \cup (IF mode = "mark" THEN Marked ELSE {})]
    /\ UNCHANGED <<source, scopes, current, reverted>>

-----------------------------------------------------------------------------
(* The refresh of one scope after the other                                *)

Refreshing == Running /\ run.call = NoCall

\* The prompt is read from the tree now; the hash is the scan's.
Start(s) ==
    /\ Refreshing
    /\ s \in run.left
    /\ run.used < Budget
    /\ run' = [run EXCEPT !.left = @ \ {s},
                          !.call = [scope |-> s, prompt |-> source[s], failed |-> 0]]
    /\ UNCHANGED <<source, scopes, current, reverted>>

\* The budget is looked at between scopes, never within one; once it is spent
\* all that are left are deferred.
Defer ==
    /\ Refreshing
    /\ run.left # {}
    /\ run.used >= Budget
    /\ run' = [run EXCEPT !.left = {}, !.skipped = @ \cup run.left]
    /\ UNCHANGED <<source, scopes, current, reverted>>

\* A call costs no input tokens or enough to notice.
Spent(tokens) == IF run.used + tokens >= Budget THEN Budget ELSE run.used + tokens

\* The call ends the refresh of its scope with this summary.
Return(summary, tokens) ==
    /\ run' = [run EXCEPT !.used = Spent(tokens), !.call = NoCall,
                          !.new = @ \cup {[scope |-> run.call.scope, summary |-> summary]}]
    /\ UNCHANGED <<source, scopes, current, reverted>>

Calling == Running /\ run.call # NoCall

\* Mutant: the sources are hashed again when the answer is there.
AnswerRehashed(tokens) ==
    /\ Calling
    /\ Return([status |-> "fresh", source_hash |-> source[run.call.scope],
               content |-> run.call.prompt], tokens)

\* An answer that passes validation.
Answer(tokens) ==
    /\ Calling
    /\ Return([status |-> "fresh", source_hash |-> run.scan[run.call.scope],
               content |-> run.call.prompt], tokens)

\* Mutant: a further attempt is queued after the fallback model too.
AttemptsAndOne == IF Fallback THEN 4 ELSE 3

\* The primary model, the primary model again, the fallback model.
Attempts == IF Fallback THEN 3 ELSE 2

\* Mutant: a failed repair of an answer is repaired in its turn.
RetryForever(tokens) ==
    /\ Calling
    /\ run.call.failed < 2
    /\ run' = [run EXCEPT !.used = Spent(tokens), !.call = [run.call EXCEPT !.failed = 1 - @]]
    /\ UNCHANGED <<source, scopes, current, reverted>>

\* A provider error (no tokens) or an answer that is rejected.
Retry(tokens) ==
    /\ Calling
    /\ run.call.failed + 1 < Attempts
    /\ run' = [run EXCEPT !.used = Spent(tokens), !.call = [run.call EXCEPT !.failed = @ + 1]]
    /\ UNCHANGED <<source, scopes, current, reverted>>

\* Mutant: a failure leaves no line, as in the design before revisions.
GiveUpSilently(tokens) ==
    /\ Calling
    /\ run.call.failed + 1 = Attempts
    /\ run' = [run EXCEPT !.used = Spent(tokens), !.call = NoCall]
    /\ UNCHANGED <<source, scopes, current, reverted>>

\* Mutant: a failure writes a placeholder over what there was.
GiveUpBlank(tokens) ==
    /\ Calling
    /\ run.call.failed + 1 = Attempts
    /\ Return([status |-> "unavailable", source_hash |-> run.scan[run.call.scope],
               content |-> Nothing], tokens)

\* The last attempt failed: the old content under the new hash.
GiveUp(tokens) ==
    /\ Calling
    /\ run.call.failed + 1 = Attempts
    /\ LET s == run.call.scope
       IN  Return(IF current[s] = NoSummary
                  THEN [status |-> "unavailable", source_hash |-> run.scan[s],
                        content |-> Nothing]
                  ELSE [current[s] EXCEPT !.status = "stale",
                                          !.source_hash = run.scan[s]], tokens)

-----------------------------------------------------------------------------

\* The run commits and appends its lines.
Write ==
    /\ Running
    /\ run.left = {} /\ run.call = NoCall
    /\ current' = [s \in Scopes |->
                      IF \E l \in run.new : l.scope = s
                      THEN (CHOOSE l \in run.new : l.scope = s).summary
                      ELSE current[s]]
    /\ run' = Idle
    /\ UNCHANGED <<source, scopes, reverted>>

\* The commit fails or the process dies before the lines are appended.
Die ==
    /\ Running
    /\ run' = Idle
    /\ UNCHANGED <<source, scopes, current, reverted>>

\* Somebody edits the tree, during a run too, or puts an old version back.
EditSource(s, hash) ==
    /\ s \in scopes /\ hash <= MaxHash[s]
    /\ source' = [source EXCEPT ![s] = hash]
    /\ reverted' = IF hash < source[s] THEN reverted \cup {s} ELSE reverted
    /\ UNCHANGED <<scopes, current, run>>

\* A human creates or deletes a scope; no two commands run at once.
EditScope(s) ==
    /\ ~Running
    /\ scopes' = IF s \in scopes THEN scopes \ {s} ELSE scopes \cup {s}
    /\ UNCHANGED <<source, current, run, reverted>>

Refresh ==
    \/ \E s \in Scopes : Start(s)
    \/ Defer
    \/ \E tokens \in 0 .. 1 : Answer(tokens) \/ Retry(tokens) \/ GiveUp(tokens)

Next ==
    \/ \E mode \in {"rebuild", "refresh", "mark"} : Begin(mode)
    \/ Refresh
    \/ Write
    \/ Die
    \/ \E s \in Scopes, hash \in Hashes : EditSource(s, hash)
    \/ \E s \in Scopes : EditScope(s)

\* Every call ends, if only by httpx's timeout, and the loops are finite.
Spec == Init /\ [][Next]_vars /\ WF_vars(Refresh \/ Write)

-----------------------------------------------------------------------------
(* Properties                                                              *)

\* A summary called fresh whose hash is that of the sources was made from
\* them.  The files may change between the scan (update.py:253) and the
\* prompt (worker.py:223): because the hash is the older of the two the next
\* run notices.  It does not when the old version comes back before it, so
\* such scopes are left out.
FreshIsTrue ==
    \A s \in scopes \ reverted :
        current[s] # NoSummary =>
            (current[s].status = "fresh" /\ current[s].source_hash = source[s]
                => current[s].content = source[s])

\* A run makes at most one line of a scope (update.py:408-473): two would
\* have the same revision, and no cache could be built from the file again.
OneLinePerScope ==
    Running => \A l, m \in run.new : l.scope = m.scope => l = m

\* Whatever fails, a summary that was good once is kept until a good one
\* replaces it (worker.py:514-538).
LastGoodSummaryKept ==
    [][\A s \in Scopes :
          current[s] # NoSummary =>
              /\ current'[s] # NoSummary
              /\ current'[s].status # "fresh" => current'[s].content = current[s].content]_vars

\* After a run that is no rebuild only a scope deferred for lack of budget
\* can have a summary that is called fresh and is of other sources than the
\* scan saw, and the summary of a deleted scope is orphaned.
RunSettles ==
    [][Write =>
          \A s \in Scopes : current'[s] # NoSummary =>
              IF s \in scopes
              THEN (run.mode # "rebuild" /\ current'[s].status = "fresh"
                       /\ current'[s].source_hash # run.scan[s]) => s \in run.skipped
              ELSE current'[s].status = "orphaned"]_vars

\* A run comes to its end, whatever the provider does.
RunEnds == Running ~> ~Running

\* If the tree and the scopes are left alone and updates with a provider are
\* completed again and again, then every scope is reached by one: neither
\* the budget nor scopes that keep failing starve another.
EveryScopeReached ==
    /\ []<><<Write /\ run.mode = "refresh">>_vars
    /\ <>[][source' = source /\ scopes' = scopes]_vars
    => <>[](\A s \in scopes : current[s] # NoSummary /\ current[s].source_hash = source[s])
=============================================================================
