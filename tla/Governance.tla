----------------------------- MODULE Governance ----------------------------
(***************************************************************************)
(* The governance of Decisions and Constraints: an agent or a human        *)
(* proposes, a human approves, edits or rejects, `rune update` retires     *)
(* what the code base has moved away from (core/memory/proposals.py,       *)
(* records.py, staleness.py as run by core/update.py).                     *)
(*                                                                         *)
(* An approval writes two canonical files and then the cache, one atomic   *)
(* file replacement each, so it is three steps here and the process can    *)
(* die between any two.  Every other command writes one canonical file.    *)
(* A canonical JSONL file is the set of its lines: every reader groups     *)
(* them by id and takes the greatest revision, whatever their order.       *)
(* One command runs at a time (the single-writer assumption of             *)
(* core/storage/canonical.py).  A run of `rune update` is one step that    *)
(* succeeds; module UpdatePipeline takes it apart.                         *)
(***************************************************************************)
EXTENDS Lifecycle

CONSTANTS
    Proposals,      \* proposal ids, uuid4
    Payloads,       \* what `propose` and `edit` are called with
    Imports,        \* which file imports which
    Locked,         \* the scopes a human has locked
    MaxRevision     \* bound: revisions of one record

ASSUME GovernanceAssumption ==
    /\ Payloads \subseteq Payload
    /\ Locked \subseteq Scopes
    /\ MaxRevision \in Nat

VARIABLES
    tree,           \* the working tree: contents of each source file
    membership,     \* scopes.json
    clock,          \* now, in days
    memory,         \* the lines of decisions.jsonl and constraints.jsonl
    proposals,      \* the lines of proposals.jsonl
    cache,          \* memory.db: "missing", "corrupt" or "ok"
    index,          \* its files table
    view,           \* its decision and constraint revisions
    queue,          \* its pending_proposals rows that are still pending
    op              \* what the running command still has to write

vars == <<tree, membership, clock, memory, proposals, cache, index, view, queue, op>>

environment == <<tree, membership, clock>>
database == <<cache, index, view, queue>>

Scope == INSTANCE ScopeMembers

-----------------------------------------------------------------------------
(* Types                                                                   *)

ProposalStatus == {"pending", "approved", "rejected", "edited"}

Proposal == [id : Proposals, revision : Nat \ {0}, status : ProposalStatus,
             payload : MemoryRevision, created_by : Actor]

Idle == [step |-> "idle"]
Refreshing == [step |-> "refresh"]
Resolving(p) == [step |-> "resolve", proposal |-> p]

TypeOK ==
    /\ tree \in Index
    /\ membership \in Membership
    /\ clock \in 0 .. MaxTime
    /\ memory \subseteq MemoryRevision
    /\ proposals \subseteq Proposal
    /\ cache \in {"missing", "corrupt", "ok"}
    /\ index \in Index
    /\ view \subseteq MemoryRevision
    /\ queue \subseteq Proposals
    /\ op \in {Idle, Refreshing} \cup [step : {"resolve"}, proposal : Proposal]

-----------------------------------------------------------------------------
(* Readers of the canonical files                                          *)

Lines(p) == {q \in proposals : q.id = p}

CurrentProposal(p) == Current(Lines(p))

PendingIds == {p \in Proposals : \E q \in CurrentProposal(p) : q.status = "pending"}

\* Mutant: a writer that numbers from what search shows and not from the file.
CurrentVisibleRecord(type, record) ==
    {m \in Current(Revisions(memory, type, record)) : Visible(m)}

CurrentRecord(type, record) == Current(Revisions(memory, type, record))

\* Mutant: numbering from the number of the current revision.
NextRevisionFromZero(type, record) ==
    IF CurrentRecord(type, record) = {} THEN 0
    ELSE (CHOOSE m \in CurrentRecord(type, record) : TRUE).revision + 1

NextRevision(type, record) ==
    IF CurrentRecord(type, record) = {} THEN 1
    ELSE (CHOOSE m \in CurrentRecord(type, record) : TRUE).revision + 1

-----------------------------------------------------------------------------
(* Validation                                                              *)

ValidShape(pl) ==
    IF pl.type = "decision" THEN pl.mode = "none" /\ pl.expires = Never
    ELSE pl.mode # "none" /\ (pl.mode = "temporary" <=> pl.expires # Never)

\* A snapshot must cover every reference the human approved.
Bindable(pl) ==
    /\ pl.mode = "source_bound" =>
          /\ pl.files # {} \/ pl.symbols # {}
          /\ ~ LostReference(pl, index)
    /\ pl.mode = "scope_bound" => pl.scopes # {} /\ ~ LostScope(pl, membership)

\* The full revision record a payload is stored in; in a pending proposal
\* its revision, status and snapshots are placeholders.
AsRevision(pl, n, sources, members, author, approver) ==
    [type |-> pl.type, record |-> pl.record, text |-> pl.text, files |-> pl.files,
     symbols |-> pl.symbols, scopes |-> pl.scopes, mode |-> pl.mode,
     expires |-> pl.expires, revision |-> n, status |-> "active",
     source_hashes |-> sources, scope_hashes |-> members,
     created_by |-> author, approved_by |-> approver]

Draft(pl, actor) == AsRevision(pl, 1, NoSourceHashes, NoScopeHashes, actor, Nobody)

\* The revision approving payload pl would append.
Approved(pl, author, human) ==
    AsRevision(pl, NextRevision(pl.type, pl.record),
               IF pl.mode = "source_bound" THEN SourceHashes(pl, index) ELSE NoSourceHashes,
               IF pl.mode = "scope_bound" THEN ScopeHashes(pl, membership) ELSE NoScopeHashes,
               author, human)

\* Mutant: a retry recognized only when the same human retries.
SameContentAndHuman(m, n) == n = [m EXCEPT !.revision = n.revision]

\* Mutant: a retry recognized whatever became of the record since.
SameText(m, n) ==
    n = [m EXCEPT !.revision = n.revision, !.approved_by = n.approved_by,
                  !.status = n.status, !.created_by = n.created_by]

\* Equal in every approval-derived field: revision and approved_by are what
\* two attempts at one approval may differ in.
SameContent(m, n) ==
    n = [m EXCEPT !.revision = n.revision, !.approved_by = n.approved_by]

-----------------------------------------------------------------------------
(* Commands                                                                *)

Propose(p, pl, actor) ==
    /\ op = Idle
    /\ Lines(p) = {}
    /\ ValidShape(pl)
    /\ proposals' = proposals \cup
         {[id |-> p, revision |-> 1, status |-> "pending",
           payload |-> Draft(pl, actor), created_by |-> actor]}
    /\ UNCHANGED <<environment, memory, database, op>>

\* approve() up to the append of the content.  `edited` is {} or the payload
\* the human put in the proposal's place.  When the current revision already
\* holds the content, an earlier attempt wrote it and nothing is appended.
ApproveContent(q, edited, human) ==
    /\ op = Idle
    /\ q.status = "pending"
    /\ \E pl \in (IF edited = {} THEN {q.payload} ELSE edited) :
         /\ pl.type = q.payload.type /\ pl.record = q.payload.record
         /\ ValidShape(pl)
         /\ Bindable(pl)
         /\ LET new == Approved(pl, IF edited = {} THEN q.created_by ELSE "human", human)
                written == {m \in CurrentRecord(pl.type, pl.record) : SameContent(m, new)}
            IN  \E m \in (IF written = {} THEN {new} ELSE written) :
                  /\ m.revision <= MaxRevision
                  /\ memory' = memory \cup {m}
                  /\ op' = Resolving([q EXCEPT
                             !.revision = @ + 1,
                             !.status = IF edited = {} THEN "approved" ELSE "edited",
                             !.payload = m])
    /\ UNCHANGED <<environment, proposals, database>>

\* ... and the append of the proposal's resolution.
ApproveResolve ==
    /\ op.step = "resolve"
    /\ proposals' = proposals \cup {op.proposal}
    /\ op' = Refreshing
    /\ UNCHANGED <<environment, memory, database>>

\* Mutant: reject() without the check that the proposal is still pending.
RejectAny(q) ==
    /\ op = Idle
    /\ proposals' = proposals \cup {[q EXCEPT !.revision = @ + 1, !.status = "rejected"]}
    /\ UNCHANGED <<environment, memory, database, op>>

\* reject() appends one line and leaves the cache alone.
Reject(q) ==
    /\ op = Idle
    /\ q.status = "pending"
    /\ proposals' = proposals \cup {[q EXCEPT !.revision = @ + 1, !.status = "rejected"]}
    /\ UNCHANGED <<environment, memory, database, op>>

Deactivate(m, human) ==
    /\ op = Idle
    /\ m.status # "inactive"
    /\ m.revision < MaxRevision
    /\ memory' = memory \cup
         {[m EXCEPT !.revision = @ + 1, !.status = "inactive",
                    !.created_by = "human", !.approved_by = human]}
    /\ op' = Refreshing
    /\ UNCHANGED <<environment, proposals, database>>

\* refresh_cache(): nothing without a file; otherwise every canonical file is
\* materialized anew and the code index is what could be read of the old one.
RefreshCache ==
    /\ op = Refreshing
    /\ IF cache = "missing" THEN UNCHANGED database
       ELSE /\ cache' = "ok"
            /\ view' = memory
            /\ queue' = PendingIds
            /\ UNCHANGED index
    /\ op' = Idle
    /\ UNCHANGED <<environment, memory, proposals>>

\* The process dies, or an append or the refresh raises, between two writes.
Crash ==
    /\ op # Idle
    /\ op' = Idle
    /\ UNCHANGED <<environment, memory, proposals, database>>

\* `rune update`, or with `full` `rune rebuild-cache`: index the tree, let
\* new files join scopes, append every lifecycle transition, materialize.
Update(full) ==
    /\ op = Idle
    /\ LET added == {f \in Files : tree[f] # Absent /\ index[f] = Absent}
           members == IF full THEN membership
                      ELSE Scope!AssignNewFilesFromImports(membership, Locked, added, tree)
           new == Transitions(memory, tree, members, clock)
       IN  /\ \A m \in new : m.revision <= MaxRevision
           /\ membership' = members
           /\ memory' = memory \cup new
    /\ cache' = "ok"
    /\ index' = tree
    /\ view' = memory'
    /\ queue' = PendingIds
    /\ UNCHANGED <<tree, clock, proposals, op>>

-----------------------------------------------------------------------------
(* What happens around the program.  What remains of a running command     *)
(* reads neither the tree nor the clock, so both move between commands.    *)

EditSource(f, c) ==
    /\ op = Idle
    /\ tree[f] # c
    /\ tree' = [tree EXCEPT ![f] = c]
    /\ UNCHANGED <<membership, clock, memory, proposals, database, op>>

\* `rune scope create`, `edit` and `delete`: they write scopes.json alone.
EditScope(s, members) ==
    /\ op = Idle
    /\ membership[s] # members
    /\ membership' = [membership EXCEPT ![s] = members]
    /\ UNCHANGED <<tree, clock, memory, proposals, database, op>>

Tick ==
    /\ op = Idle
    /\ clock < MaxTime
    /\ clock' = clock + 1
    /\ UNCHANGED <<tree, membership, memory, proposals, database, op>>

\* memory.db is deleted (a fresh clone has none either) or truncated: what
\* it held cannot be read back.
LoseCache(left) ==
    /\ cache # left
    /\ left = "corrupt" => cache = "ok"
    /\ cache' = left
    /\ index' = NoSourceHashes
    /\ view' = {}
    /\ queue' = {}
    /\ UNCHANGED <<environment, memory, proposals, op>>

-----------------------------------------------------------------------------

\* A project after `rune init` and one scope command, or a fresh clone of it.
Init ==
    /\ tree \in [Files -> Hashes]
    /\ membership \in [Scopes -> {{}, Absent}]
    /\ clock = 0
    /\ memory = {}
    /\ proposals = {}
    /\ \/ cache = "ok" /\ index = tree
       \/ cache = "missing" /\ index = NoSourceHashes
    /\ view = {}
    /\ queue = {}
    /\ op = Idle

Next ==
    \/ \E p \in Proposals, pl \in Payloads, actor \in Actor : Propose(p, pl, actor)
    \/ \E p \in Proposals, human \in Humans : \E q \in CurrentProposal(p) :
          \/ ApproveContent(q, {}, human)
          \/ \E pl \in Payloads : ApproveContent(q, {pl}, human)
    \/ ApproveResolve
    \/ \E p \in Proposals : \E q \in CurrentProposal(p) : Reject(q)
    \/ \E m \in CurrentRevisions(memory), human \in Humans : Deactivate(m, human)
    \/ RefreshCache
    \/ Crash
    \/ \E full \in BOOLEAN : Update(full)
    \/ \E f \in Files, c \in Hashes \cup {Absent} : EditSource(f, c)
    \/ \E s \in Scopes, members \in {Absent} \cup SUBSET Files : EditScope(s, members)
    \/ Tick
    \/ \E left \in {"missing", "corrupt"} : LoseCache(left)

Spec == Init /\ [][Next]_vars

-----------------------------------------------------------------------------
(* Properties                                                              *)

\* approve() writes content first and resolution second, so that a proposal
\* never says approved while what it approved was not written: the revision
\* it names is in the record's file, was active when written, and carries a
\* human's name.  It takes a crash, a retry and a deactivation to get wrong.
ApprovedIsWritten ==
    \A q \in proposals : q.status \in {"approved", "edited"} =>
        /\ q.payload \in memory
        /\ q.payload.status = "active"
        /\ q.payload.approved_by \in Humans

\* Every writer numbers its revision from the greatest one there is,
\* whatever its status, so the revisions of a record are 1, 2, ... with no
\* number twice.  A number used twice makes every later read of the file
\* fail with CanonicalConflictError.
RevisionsContiguous ==
    \A m, k \in memory : (m.type = k.type /\ m.record = k.record) =>
        /\ m.revision = k.revision => m = k
        /\ m.revision > 1 => \E j \in Revisions(memory, m.type, m.record) :
                                 j.revision = m.revision - 1

\* Approving again after a crash, by anyone, and running update again never
\* repeat what the record already says: no revision equals the one before it
\* in everything but its number and who approved it.
NoEchoRevision ==
    \A m, k \in memory :
        (m.type = k.type /\ m.record = k.record /\ k.revision = m.revision + 1)
            => k # [m EXCEPT !.revision = k.revision, !.approved_by = k.approved_by]

\* Guidance comes into force, and a record a human or the system has retired
\* changes again, only by a named human's doing, and content comes into force
\* only for a record with a pending proposal.
OnlyHumansRevive ==
    [][\A m \in memory' \ memory :
        /\ (\/ m.status = "active"
            \/ \E old \in CurrentRecord(m.type, m.record) :
                   old.status \in {"inactive", "orphaned", "review_required"})
              => m.approved_by \in Humans
        /\ m.status = "active" =>
              \E p \in PendingIds : \E q \in CurrentProposal(p) :
                  q.payload.type = m.type /\ q.payload.record = m.record]_vars

\* An active record can be relied upon: everything it refers to exists, what
\* it is bound to is what was approved, and its time has not run out.
Trustworthy(m) ==
    (m.status = "active" /\ m.mode # "persistent") =>
        /\ \A s \in m.scopes : membership[s] # Absent
        /\ \A f \in m.files : tree[f] # Absent
        /\ \A s \in m.symbols : tree[Owner[s]] \in DefinedIn[s]
        /\ m.mode = "source_bound" =>
              \A f \in m.files \cup {Owner[s] : s \in m.symbols} :
                  m.source_hashes[f] = tree[f]
        /\ m.mode = "scope_bound" =>
              \A s \in m.scopes : m.scope_hashes[s] = membership[s]
        /\ clock < m.expires

\* After `rune update` every active record can be relied upon, although
\* update itself may just have changed the membership of a scope some
\* constraint is bound to.
UpdateLeavesTrustworthy ==
    [][(\E full \in BOOLEAN : Update(full)) =>
        (\A m \in CurrentRevisions(memory) : Trustworthy(m))']_vars

\* Each change of the code base is reported once: a second update of an
\* unchanged tree appends nothing to a record.
UpdateConverges ==
    [][(\E full \in BOOLEAN : Update(full)) =>
        (Transitions(memory, tree, membership, clock) = {})']_vars

-----------------------------------------------------------------------------
(* The abstract specification this one implements                          *)

OutcomeOf(p) ==
    IF Lines(p) = {} THEN "none" ELSE (CHOOSE q \in CurrentProposal(p) : TRUE).status

GrantedOf(p) == {q.payload : q \in {l \in Lines(p) : l.status \in {"approved", "edited"}}}

Gate == INSTANCE Approval WITH
    Revision <- MemoryRevision,
    outcome <- [p \in Proposals |-> OutcomeOf(p)],
    history <- memory,
    granted <- [p \in Proposals |-> GrantedOf(p)]

\* The three-step approval, with its crashes and retries, keeps the promise
\* of module Approval.
ApprovalSpec == Gate!Spec

\* decisions.jsonl and constraints.jsonl are revision logs, across crashed and
\* repeated approvals and any loss of the cache: every writer numbers on from
\* the current revision, whatever its status, and what `rune update` appends
\* is a full copy of it that says something new, made only while no human has
\* to look at the record first.
Log == INSTANCE RevisionLog WITH
    Line <- MemoryRevision, Final <- Terminal, ByHand <- Authored,
    Id <- RecordId, log <- memory

LogSpec == Log!Spec
=============================================================================
