----------------------------- MODULE Retrieval -----------------------------
(***************************************************************************)
(* What the read-only commands answer (core/retrieval, and core/status.py  *)
(* for the diff they share): `rune check`, `bootstrap`, `scope-for`,       *)
(* `scope-read`, `related-context`, `search` and `changes`, as functions   *)
(* of the tables of memory.db and of the working tree.  Pure definitions;  *)
(* modules PipelineReaders and GovernanceReaders put them beside the       *)
(* writers.                                                                *)
(*                                                                         *)
(* An answer is the set of revisions shown.  Severity and the critical     *)
(* flag are fields approve() compares, so they come with the text.  Left   *)
(* out: ordering, token counts (nothing is cut for want of budget), the    *)
(* limit of a search, and the notes and summaries of a scope, whose        *)
(* visibility modules Notes and Semantic have.                             *)
(***************************************************************************)
EXTENDS Lifecycle

CONSTANTS
    Severity,   \* the severity of a constraint with that text
    Critical    \* whether a decision with that text is critical

ASSUME RetrievalAssumption ==
    /\ Severity \in [Texts -> {"MUST", "SHOULD", "INFO"}]
    /\ Critical \in [Texts -> BOOLEAN]

-----------------------------------------------------------------------------
(* Tables                                                                  *)

\* The rows joined on current_revision that a command may show.
ShownDecisions(view) ==
    {m \in CurrentRevisions(view) :
        m.type = "decision" /\ m.status \in {"active", "review_required"}}

ShownConstraints(view) ==
    {m \in CurrentRevisions(view) : m.type = "constraint" /\ Visible(m)}

\* "Global" is having no scope, whatever files or symbols there are.
Global(m) == m.scopes = {}

\* The scopes with one of `files` among their rows of scope_files.
ScopesOf(members, files) ==
    {s \in Scopes : members[s] # Absent /\ members[s] \cap files # {}}

-----------------------------------------------------------------------------
(* Bootstrap                                                               *)

\* Every such rule: the budget only sets the overflow flag.
HardBootstrap(view) ==
    {m \in ShownConstraints(view) :
        Severity[m.text] = "MUST" /\ m.mode = "persistent" /\ Global(m)}
    \cup {m \in ShownDecisions(view) : Critical[m.text] /\ Global(m)}

SoftBootstrap(view) ==
    {m \in ShownDecisions(view) : ~ Critical[m.text] /\ Global(m)}

-----------------------------------------------------------------------------
(* Scopes                                                                  *)

\* INFO is found by searching and never injected.
Injected(m) == m.type = "constraint" => Severity[m.text] \in {"MUST", "SHOULD"}

\* By `rune scope-read` for one scope, joined over several by the rest.
ScopeRead(view, scopes) ==
    {m \in ShownDecisions(view) \cup ShownConstraints(view) :
        m.scopes \cap scopes # {} /\ Injected(m)}

ScopeFor(view, members, f) ==
    {m \in ScopeRead(view, ScopesOf(members, {f})) : m.type = "constraint"}

-----------------------------------------------------------------------------
(* Search                                                                  *)

\* 1 to 4 as ARCHITECTURE.md, section 4.8, numbers them, and 8 for history.
Rank(m, shown) ==
    IF m \notin shown THEN 8
    ELSE IF m.type = "decision" THEN 3
    ELSE IF Severity[m.text] # "MUST" THEN 4
    ELSE IF Global(m) THEN 1 ELSE 2

\* The full-text tables hold every revision; only history shows those that
\* are superseded or no longer visible.
Search(view, texts, history) ==
    LET shown == ShownDecisions(view) \cup ShownConstraints(view)
    IN  {m \in view : m.text \in texts /\ (Rank(m, shown) = 8 => history)}

\* By a path, or by a query; what a query finds is not looked up by scope.
RelatedContext(view, members, files, texts) ==
    ScopeRead(view, ScopesOf(members, files))
    \cup {m \in Search(view, texts, FALSE) : Injected(m)}

-----------------------------------------------------------------------------
(* Check                                                                   *)

\* Against the indexed hashes; a file that cannot be read is not deleted.
ChangedFiles(index, tree, unreadable) ==
    {f \in Files \ unreadable : tree[f] # index[f]}

AffectedScopes(index, members, tree, unreadable) ==
    ScopesOf(members, ChangedFiles(index, tree, unreadable))

\* Mutant: constraints found through the scopes of what changed alone.
CheckByScope(view, index, members, tree, unreadable) ==
    {m \in ShownConstraints(view) :
        m.scopes \cap AffectedScopes(index, members, tree, unreadable) # {}}

\* A constraint is relevant through its scopes, its files, the files of its
\* symbols as they are indexed, or as a global MUST rule.
Check(view, index, members, tree, unreadable) ==
    LET changed == ChangedFiles(index, tree, unreadable)
    IN  {m \in ShownConstraints(view) :
           /\ changed # {}
           /\ \/ m.scopes \cap ScopesOf(members, changed) # {}
              \/ m.files \cap changed # {}
              \/ \E s \in m.symbols \cap KnownSymbols(index) : Owner[s] \in changed
              \/ Severity[m.text] = "MUST" /\ Global(m)}
=============================================================================
