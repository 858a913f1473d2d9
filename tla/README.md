# RepoRune in TLA+

RepoRune (`rune`) keeps a repository's memory: decisions and constraints a
human approved, notes an agent took, scopes that group files, and summaries a
language model wrote. The memory lives in JSON and JSONL files under `.rune/`
(the *canonical* files), is served from an SQLite cache that can be rebuilt
from them at any time, and is kept in step with the code by `rune update`. An
adapter injects it into the prompts of a coding agent (OpenCode).

This directory holds TLA+ modules of the parts of that program where order,
failure and repetition matter, TLC instances that check them, and TLAPS proofs
about them. Every definition is translated from the source; `PROJECT.json`
(`map`) names the lines each definition stands for, and its `hazards` list what
the properties are aimed at.

## 1. The system

### Components

| component | state it keeps | operations that change it | what makes it correct |
|---|---|---|---|
| Governance memory (`core/memory/proposals.py`, `records.py`, `revisions.py`) | append-only lines of `proposals.jsonl`, `decisions.jsonl`, `constraints.jsonl` | `propose`, `approve` (with or without an edit), `reject`, `deactivate`, then `refresh_cache` | approval order across a crash; revision numbers never reused; retries do not repeat; only a named human puts content in force |
| Lifecycle (`core/memory/staleness.py`, `hashes.py`) | none: a function of records, index, scopes and clock | the transitions an update appends | each change reported once; nothing a human retired is moved; what stays active can be relied upon; `check` foretells what happens to constraints |
| Update (`core/update.py`) | none of its own; writes all stores | plan, commit to SQLite, deferred canonical writes, `project.json` last | a run that completes leaves every store in agreement whatever earlier runs left; readers are ahead of the canonical files by one transition at most, and behind them only by commands cut short before their refresh |
| Scopes (`core/scopes/model.py`) | `scopes.json` | create, update, delete, lock; automatic assignment of new files | drift is computed against the membership the run writes; nothing unattended touches what a human decided |
| Canonical storage (`core/storage/canonical.py`, `models.py`) | the files | atomic replacement; append as read-and-replace | one writer at a time (documented assumption) |
| Cache (`core/storage/sqlite/materialize.py`) | `memory.db` | `rebuild_cache`, `read_current_code_index`, `discard_cache` | a damaged or half-created database is recognised and replaced |
| Status and doctor (`core/status.py`, `doctor.py`) | none | none | fresh means that the index served is the tree's |
| Notes (`core/memory/notes.py`) | `notes.jsonl` | add, update (bindings, expiry, status, verification); transitions by update | numbering; no line without a reason; notes shown are sound after an update; the first reason that applies is final |
| Semantic worker (`core/semantic/*.py`) | `semantic.jsonl` | primary call, retry, fallback; token budget | a failure keeps the last good summary; what is left over is refreshed later |
| Reconciliation and suggestion (`core/scopes/reconcile.py`, `clustering.py`, `heuristics.py`) | none of its own; writes `scopes.json` | classify and assign, below a threshold unattended; suggest, with a human's choice | only adds, on evidence for one scope; forgets no file |
| Code index (`core/index/*.py`) | the tables files, symbols, edges | scan, diff, parse or reuse, resolve, materialize | facts belong to the hash beside them; no edge dangles; a quiet update indexes the tree; an unreadable file keeps its entry |
| Retrieval (`core/retrieval/*.py`) | none | none | shows nothing as in force that is not, and every mandatory rule |
| CLI and MCP server (`cli/main.py`, `mcp/server.py`) | none | one core call per command or tool | as the calls |
| OpenCode adapter (`adapters/opencode/src`) | session contexts, looked-up paths, pending lookups, pending initializations | host events, tool hooks, the system prompt hook | see `OpenCodePlugin` |

### How they interact

A command is one process. It reads canonical files, appends or replaces some,
and rematerializes the cache from what is then on disk. `rune update` differs:
it plans in memory, commits the plan to SQLite *first* and writes the
canonical files after it, so between the two the cache is ahead. Version 1
assumes a single writer (`canonical.py:3-6`), so commands do not interleave
with each other, but each can die between any two of its writes and the
next one, perhaps another command, starts from what was left. A memory command
that dies between its append and its refresh, or whose refresh fails, leaves the
cache behind (`records.py:143-148`). The working
tree belongs to no one and changes whenever it likes. The adapter is a
long-lived single-threaded process that runs the CLI once per question; its
hooks interleave at every `await`.

### Hard behaviours

* a crash between the content of an approval and its resolution, and whatever
  the next command then is;
* a deferred write of an update failing or never happening, with the cache
  already ahead, and the cleanup failing too;
* an update that changes the membership some constraint is bound to;
* a lost or damaged cache healed by a command that has no index to heal it with;
* a session deleted, or deleted and admitted again, while lookups and
  bootstraps for it are in flight; bootstraps answered out of order;
* a session table that is full;
* files edited between the scan that hashes them and the parser, or the prompt,
  that reads them again; files that cannot be read at all;
* an index reused from run to run, whose edges lead to what has gone since;
* scopes that humans, updates and reconciliation write in turn;
  a provider that fails, answers badly or is missing; a budget that ends a run
  of refreshes part-way.

## 2. The modules

| module | models | abstract counterpart |
|---|---|---|
| `Lifecycle` | what current and visible mean, snapshots, every transition of decisions and constraints; pure operators | |
| `ScopeMembers` | automatic assignment of new files; pure operators | |
| `Retrieval` (extends `Lifecycle`) | what the read-only commands answer; pure operators | |
| `Approval` | what the approval gate promises | it is an abstract one |
| `RevisionLog` | what every canonical file of revisions promises | it is an abstract one |
| `SessionRules` | what the adapter promises of the rules of a session | it is an abstract one |
| `Governance` (extends `Lifecycle`, instantiates `ScopeMembers`) | all commands on decisions and constraints, an update as one step, the environment | implements `Approval`, `RevisionLog` |
| `GovernanceReaders` (extends `Governance`, `Retrieval`) | `rune check` beside `rune update` | |
| `UpdatePipeline` (extends `Lifecycle`, instantiates `ScopeMembers`) | one update write by write, with failure and death at each | implements `RevisionLog` |
| `PipelineReaders` (extends `UpdatePipeline`, `Retrieval`) | the readers between any two steps of an update | |
| `CodeIndex` | scan, parse, reuse, resolve and materialize, file by file, with edits and failed reads in between | the index defined from the tree alone (`Rebuilt`) |
| `Notes` (extends `Lifecycle`) | the commands on notes and the note stage of an update | implements `RevisionLog` |
| `ScopeUpkeep` (instantiates `ScopeMembers`) | everything that writes `scopes.json` | |
| `Semantic` | the semantic stage of an update, one provider call at a time | |
| `OpenCodePlugin` | the adapter's hooks | implements `SessionRules` |
| `MC...` | payloads, import relations and symmetry for TLC; `MCScopeHistory` adds a history variable | |
| `..._proofs` | theorems | |

The stages of `rune update` are split over five modules, each of which has
everything the stage reads and the writes that surround it: a module of all of
them would be a product no instance of which could be explored. What they share
is the order of the run (commit of `memory.db`, then the canonical files) and the
ways it ends, which every one of them has.

### Lifecycle, ScopeMembers

A revision is a record with the fields that transitions and numbering look at.
Everything else an approval compares is folded into `text`. A content hash is
the content, so equal hashes mean equal contents; `DefinedIn` says which
contents of `Owner[s]` declare symbol `s`, which is what tree-sitter
would find. `Current` is the greatest revision whatever its status
(`revisions.py:36`), as a set so that "no revision yet" needs no special value.
`ConstraintReaction` keeps the order of the code: terminal, then what has
disappeared (a scope before a reference), then what the persistence mode says.
`RecordId`, `Authored`, `Content` and `Condition` say how a revision is read as a
line of a `RevisionLog`: whose it is, whether a human wrote it, the fields
`model_copy(update=...)` leaves alone, and the ones it sets.

### RevisionLog, SessionRules

`RevisionLog` is the promise of DATA_MODEL.md, sections 2.5, 2.6 and 3, and has one
action, `Append`: a file only grows, one command adds at most one line of each id,
numbered after the latest, and a line no person asked for is a full copy of the
latest with another condition, of a record that is not in a final status. It knows
nothing of caches, plans, crashes or retries. `Governance` and `UpdatePipeline` read
`memory` as its log (a human's line is one `created_by` a human), `Notes` reads
`notes` so (a caller's line has another `source` than the system).

`SessionRules` has one step for each thing that can happen to what a session is
prompted with: admission, a looked-up path, a bootstrap, deletion. There are no
contexts, promises or pending lookups in it; `RulesOf` in `OpenCodePlugin` gathers the
rules of a session from the three tables they are spread over.

### Governance

`memory` and `proposals` are the lines of the JSONL files, as sets: readers
group by id and take the greatest revision. `approve()` is three actions,
`ApproveContent`, `ApproveResolve`, `RefreshCache`, because it makes three
atomic replacements; `op` holds what is still to be written, and `Crash`
forgets it. The duplicate check of `approve()` is `SameContent`. `deactivate`
is two actions, every other command one. `Update` is a run that succeeds;
`full` is `rune rebuild-cache`, which leaves membership alone. `LoseCache`
covers a deleted and a truncated database; the index it held reads as empty.
The outer environment (`EditSource`, `EditScope`, `Tick`) moves between
commands: what remains of a running command reads neither tree nor clock, so
nothing is lost by that.

Not in this module: wording and redaction, the field-level checks other than
the shape rules, and the lock of a scope (a constant).

### UpdatePipeline

`run` is the plan a run holds in memory and the write it is about to make.
`Begin` does all the reading, `Commit` is `rebuild_cache` in its transaction,
then `scopes`, `decisions`, `constraints`, `project`. `WriteFails` is the
handler at `update.py:546`: the cache is discarded, or that fails too and is
suppressed. `Die` cleans nothing up. `CommitFails` leaves a database without a
schema version when there was none. A scan may fail to read any subset of the
paths.

Between runs, `EditScope`, `LoseCache`, and the commands on memory, in two steps:
`Approve`, `Deactivate` and `TouchNote` (a note command, which appends nothing that is
modelled here) append and leave `run` owing a refresh, `RefreshCache` pays it. `Die` in
between also stands for a refresh that raises: its transaction is rolled back and the
appended line stays. `missed` is a history variable no action reads: the lines of
commands that ended so, until the cache is next written. The resolution of the proposal,
which `approve()` appends between content and refresh, is in `Governance`.

The clock stands still here; notes and summaries have modules of their own.
That their writes may fail is part of `WriteFails`.

### Retrieval, GovernanceReaders, PipelineReaders

An answer is the set of revisions a command shows, as a function of the tables
and the tree. `Check` has the four ways `check.py` comes to a constraint (by
scope, by file, by symbol, global MUST), `Search` the history switch and the
two ranks that decide what is shown at all, `RelatedContext` its two halves.
Severity and criticality are functions of the text. `CheckForetellsUpdate` sets
`check` beside `Reaction`, which update uses: different code over different tables.
`ShownIsInForce` evaluates every answer in every state of `UpdatePipeline`, so
also on the cache an update committed before it died, and on one that lacks what a
command appended before it did. It measures them by `Served`, the canonical lines without
those still to be shown: as there is no other exception, readers are wrong about
what is in force for the records of such commands only.

Left out: ordering, token budgets and limits, symbol search and the rows of notes
and summaries in the answers.

### CodeIndex

`Begin` is the scan, `Process` one file (parsed, or kept if its hash is the
indexed one), `Commit` the resolution of references and the transaction. Files
are numbers because references prefer the first imported file in the order of
paths. What a content declares, imports and refers to are constants: they stand
for tree-sitter. An import statement is the sequence of candidate paths that
`imports.py` tries. The tree can change between any two steps; a read can fail in
the scan (`Unreadable`) and in the parser, which differ: one keeps the old entry
with `scan_error`, the other leaves an empty entry with `parse_error`. `torn` and
`quiet` are histories no action reads, but for `same`, which records at the
second read whether it saw what was hashed.

### Notes

A note is its bindings, expiry, snapshot and status; texts and ratings are left
out, categories kept as the lifetimes they give. `NoteUpdate` makes the decisions
of `note_update` in its order: which bindings, which expiry, whether this is a
verification (a new snapshot, status active again) or keeps the snapshot. A command
appends and then refreshes the cache (`Refresh`), an update commits the cache and
then appends (`AppendNotes`); `Die` is between the two.

### ScopeUpkeep

`plan` holds the `scopes.json` an update has computed but not written. A file has
no contents, so imports are constant; what the drift of memberships does to
constraints is in `Governance` and `UpdatePipeline`. `Reconcile` is
classification, threshold and write in one step, as the command is one process.
`Suggest` covers both sources of suggestions, and the human's choice. Report
entries that only inform (scopes partly covered, split or merged, `--since`) are
left out.

### Semantic

`source[s]` is one value for the contents of all files of scope `s`, and also
for their fingerprint; versions are numbers, so that a tree that only moves
forward can be told from one in which an old version came back (`reverted`, a
history variable no action reads). The content of a summary is the version its
prompt showed. `current` is what `current_scope_summaries` finds: the revision
number is not in the state, because a new line always carries the next one and a
run makes one line per scope (`OneLinePerScope`).

`run` is a run of update. `Begin(mode)` is everything up to the first call:
`mode` is what `full` and the health check decide (`rebuild`: no refresh;
`refresh`: a provider answers its probe; `mark`: none does). `Start` builds the
prompt from the tree of that moment, `Answer`, `Retry` and `GiveUp` are the ends
of one provider call: a summary that passes validation, a failure with attempts
left (one more on the primary model, then the fallback model), and the last failure.
`Defer` is the budget, looked at between scopes only. `Write` is the commit with
the deferred append, `Die` a failure or death before the append. `update.py`
decides which scopes need a refresh one by one; neither summaries nor hashes
change in between, so the model decides at once. The code visits scopes in the
order of `scopes.json`, the model in any order, which asks more of
`EveryScopeReached`.

Left out: metrics and the log, redaction, the stripping of unknown references,
unreadable files, and what retrieval makes of the statuses.

### OpenCodePlugin

Closures keep hold of objects, so objects have an identity: a session context,
together with the map of lookups pending for it, is an index of `contexts`; an
initialization promise is an index of `inits`; an activation is the tool call
that runs it. An action is what runs between two awaits. `BeginCall` stands
for `tool.execute.before` and, with git status in flight, for
`tool.execute.after`. `TryPath` is `activateScopesForPath` up to its await:
already looked up, joined, or a lookup of its own. `LookupReturns` is the
continuation with its identity check, its `finally`, and the resumption of all
that joined. `InitFails` and `LookupFails` are a CLI call that fails. Of a hard
bootstrap the model keeps the state of the memory it was read from, which lies
between the moment the fetch began and the moment it returned.

Not modelled: the three proposal tools (they call the CLI and keep nothing),
diagnostics and warnings, path extraction, the text of the block.

## 3. What is checked

Only the properties under Fairness below need any. `CHECK_DEADLOCK FALSE` is set for the adapter
alone, where the host may have nothing left to do.

| run | instance | shows |
|---|---|---|
| `protocol` | two proposals for one decision, two texts and a payload that must be refused, two humans, 3 revisions, symmetric in proposals and humans | `ApprovedIsWritten`, `NoEchoRevision`, and that `Governance` implements `Approval` (`ApprovalSpec`) and `RevisionLog` (`LogSpec`) through crashes, retries and second approvals |
| `transitions` | one file with two contents (one declares the symbol), a scope, a source-bound and a temporary constraint, a clock of one tick; 283 thousand states | `TypeOK`, `CheckForetellsUpdate`, `OnlyHumansRevive`, `UpdateConverges`, `UpdateLeavesTrustworthy` |
| `pipeline` | two files of which one imports the other, a scope the run itself may extend, a scope-bound and a persistent constraint and a decision, failure and death at every write, of an update and of a command; 1.2 million states | `TypeOK`, `LogSpec`, `GapsAreExplained`, `ShownIsInForce`, `CompletedUpdateAgrees` |
| `index` | three files: one imports the first of the others that is there, calls and extends what they declare; one of the others may turn unparsable, both may go; reads that fail; 148 thousand states | `TypeOK`, `FactsOfHash`, `EdgesClosed`, `QuietUpdateIsCurrent`, `QuietUpdateIsExact`, `OnlyDeletedLeave` |
| `notes` | one note, bound to a file, or to a symbol and a scope, lifetimes from the category or the caller, 3 revisions; 312 thousand states | `TypeOK`, `LogSpec`, `UpdateSettlesNotes`, `FirstReasonWins` |
| `scopes` | three files that import each other in a chain with a short cut, two scopes, a threshold of one; 97 thousand states | `UnattendedOnlyAdds`, `NoneLeftBehind` |
| `summaries` | two scopes, three versions of one's sources, a fallback model, a budget one call can spend | `TypeOK`, `FreshIsTrue`, `OneLinePerScope`, `LastGoodSummaryKept`, `RunSettles`, `RunEnds`, `EveryScopeReached` |
| `gate` | one session, three bootstraps, a changing memory, one tool call, one request; 239 thousand states | `RulesAreFresh`, `HooksReturn` |
| `activation` | two sessions and one slot, two tool calls over overlapping path lists, one of which starts outside the repository; 1.0 million states | `TypeOK`, `NoOrphanState`, `OneLookup`, `WaitsInOwnSession`, and that `OpenCodePlugin` implements `SessionRules` (`RulesSpec`) |

and three that TLC must find violated (Findings): `fresh`, `imports`, `frozen`.

System copies are checked against `LogSpec` in `pipeline` and `notes`: `protocol` has
no files, so there every line is a human's. `RevisionsContiguous`,
`NoteRevisionsContiguous`, `SystemRevisionsSaySomething` and `ActivatedMeansActive` are
weaker than `LogSpec` and `RulesSpec`, which took their place in the runs; they remain
as theorems, since they are the readable form. `activation` has a single bootstrap, so
that a bootstrap never gives way to an older one rests on the proof of `RulesSpec` and,
for what is rendered, on `RulesAreFresh` in `gate`.

These bounds make the instances finite. `MaxRevision` (2 or 3)
limits the length of a record's history: an approval, what retires it, and a
second approval are three revisions, and nothing in the code looks further back
than the current one. `MaxTime` is one tick, before and after expiry.
`MaxInits` limits the events of a session (three bootstraps are the least for
which one is queued behind a queued one) and `MaxVersion` the changes of the
memory. The cap on sessions is 1 instead of 1024 and that on paths 2 instead
of 100, so that both are met. In `summaries` three versions are the least for
which scan, prompt and the tree at the end of a run all differ, the second scope
is there to compete for the budget and be deleted, and a call costs nothing or
the whole budget: whether the budget is spent is all the code looks at.

`transitions` has one file, so a run never extends a scope there: that drift is
computed against the extended membership is what `CompletedUpdateAgrees` shows in
`pipeline`, and the theorem `UpdateIsTrustworthy` has it for every instance.
`Edits` bounds, in `pipeline`, the memberships a human gives the scope: none, and
the one whose import brings the second file along. In `index`,
`CanHold` says what each file can be and `Flaky` which reads can fail: the
importer never changes, since it is the unchanged file whose edges are reused. In
`notes`, `Bindings`, `Lifetimes`, `Deadlines`, `Statuses` and `Authors` bound what
callers pass; one note is enough, since notes do not look at each other. `scopes` has no
symbols, for size; its theorems do. Where a theorem exists (section 4) the bounds do not
matter at all.

Each property has a mutant: a change of one definition that the run must
catch, such as numbering from the visible revisions, planning from the
cache, or applying a lookup's answer without the identity check. The mutated
forms stand in the modules, each just before the definition it mutates, under a
comment that starts with "Mutant:", and no specification uses them.

### Fairness

`HooksReturn` rests on `OpenCodePlugin!Fairness`, weak fairness of each
initialization, each tool hook and each prompt hook separately: the event loop
runs every continuation that is ready, and every CLI call ends, with an answer
or a failure. The first is what Node guarantees. The second is an assumption
about the CLI: `rune-cli.ts:90` starts it without a timeout, so a call that
hangs blocks the requests of its session (listed as a hazard; `WaitsInOwnSession`
says that it blocks no other session). Nothing is
assumed of the host: it may never deliver another event.

`RunEnds` and `EveryScopeReached` rest on weak fairness of `Refresh \/ Write`: a
run that can go on does. Within a run this is a sequential loop, and its only
wait is an HTTP request with a timeout of 60 seconds (`provider.py:111`) that
ends in an answer or a `ProviderError`. Nothing is assumed of the provider's
answers, nor that the process survives. That users come back is not fairness but
a hypothesis of `EveryScopeReached`: runs with a provider are completed again and
again, and tree and scopes are eventually left alone.

`NoneLeftBehind` rests on `ScopeUpkeep!FairSpec`: weak fairness of
`WriteScopes \/ Stop` (a run ends, one way or another) and strong fairness of
`Reconcile(FALSE)`. The latter is a statement about people: ARCHITECTURE.md,
section 4.4, has whoever merges run it as part of the workflow. It must be strong,
since a lost cache disables the command from time to time.

The other commands terminate or are killed and promise nothing that must
eventually happen, so `Governance`, `UpdatePipeline`, `CodeIndex` and `Notes` have
safety properties only.

### Findings

Each is a run that TLC must find violated.

* `fresh`: a note command run on a damaged `memory.db` rebuilds it with an
  empty index, while `project.json` still names the current tree: status then
  calls an empty index fresh.
* `imports`: `update.py:292-297` keeps the import edges of an unchanged file because
  they depend "solely on this file's own (unchanged) import statements". They
  depend on which files exist: a file written before the module it imports keeps
  an unresolved edge, and loses the references that need it, until it changes or
  the index is rebuilt. The theorem `SameFilesKeepImports` says how far the comment
  carries: from an undisturbed rebuild on, incremental updates leave exactly what
  another rebuild would, until a file appears or disappears.
* `frozen`: the head of `reconcile.py` says that a file that did not change and was
  in no scope is never visited. Every indexed file in no scope is, so one that a
  human took out of an unlocked scope is put back.

### Known limits without a run

What reading and modelling brought up beyond these, each confirmed by the lines
given:

* `proposals.py:448-453` says that a retry after a crash does not duplicate content;
  when the record was deactivated or retired in between, lines 433-437 find a
  current revision with another status and append the content again.
* When a deferred canonical write of an update fails (`update.py:546`), what earlier
  ones stored stays; the next completed update repairs it (`CompletedUpdateAgrees`).
* `plugin.ts:165`: a session deleted while one of its tool calls still has paths to
  look up is admitted again, and nothing ever releases its slot.
* `worker.py:514`: the second failure of a scope that never had a summary makes
  an empty placeholder `stale`, which is not retried until its sources change.
  `EveryScopeReached` holds because of it: `unavailable` would be retried in
  every run and could use up the budget.
* `staleness.py:242`: a bound note verified while its file is not indexed gets an
  empty snapshot and is never compared again.
* `update.py:119-164`: a read that fails in the parser, or a file edited between scan
  and parser, leaves an entry (`parse_error`, or another content's symbols) beside a
  hash that matches the tree later, so it stays until the file changes or the index
  is rebuilt. `FactsOfHash` excludes exactly these (`torn`).
* After a kill between commit and append and then any refresh, `check` compares
  with an index that is ahead and finds nothing changed, until the next update.
  This is why `CheckForetellsUpdate` leaves out what an update would retire on an
  unchanged tree.
* A memory command that dies, or whose refresh fails, after its append leaves readers
  without that line until something refreshes the cache (`records.py:143-148` accepts it).
  Repeating `approve` refreshes while the proposal is still pending; repeating
  `deactivate` does not, because `proposals.py:498-499` returns first, so a constraint a
  human turned off may be shown until the next update or memory command. `GapsAreExplained` says that readers miss nothing else, and
  `ShownIsInForce` is about the other lines (`Served`).
* System copies move the snapshots, which DATA_MODEL.md, sections 2.5 and 2.6, has copied
  "unless the transition explicitly requires otherwise"; `staleness.py:63-70` explains
  why. `RevisionLog` counts them to the condition of a line, as the code does.
* Scope commands write `scopes.json` only; the table of scope members follows with the
  next command that rebuilds the cache.

## 4. What is proved

Proofs assume the named assumptions of the modules (`LifecycleAssumption`,
`RetrievalAssumption`, `GovernanceAssumption`, `UpdatePipelineAssumption`,
`SemanticAssumption`, `CodeIndexAssumption`, `NotesAssumption`,
`ScopeUpkeepAssumption`, `OpenCodePluginAssumption`): typing of the constants, and that the special values
are none of the ordinary ones. TLC evaluates all of them in every run. The
sets of files, scopes, records, proposals and humans, the import relation, the
locks and every bound are otherwise arbitrary.

**`Lifecycle_proofs`.** `ReactionSound`: what an update appends to a record is one
well-formed revision with the next number, never active, with no human's name.
`ReactionQuiescent`: it draws no further reaction from the same index, scopes
and clock; this is where moving the snapshot along with the status matters.
`ReactionChanges`: it differs from the revision before it in more than its number.

**`Governance_proofs`.** The invariant is
`IInv == TypeOK /\ Numbered /\ Written /\ Resolutions`.
`RevisionsContiguous` alone is not inductive: a writer numbers from the current
revision, which must therefore exist for every record that has a line
(`HasCurrent`; together `Numbered`). `ApprovedIsWritten` needs that what a
running approval is about to resolve is written already, and that whatever is active
carries a human's name (`Written`), because a retry may resolve a proposal
with a revision some earlier approval wrote. The refinement needs that a proposal is one
pending line and at most one more, and that the one being resolved is still
pending (`Resolutions`). From it: `TypeCorrect`, `ApprovalOrder`,
`NoCanonicalConflict`, `NoRepetition`, `OnlyHumansDecide`, `UpdateReportsOnce`,
`UpdateIsTrustworthy` (with `ShapesValid`, preserved alongside) and
`GateImplemented`, the refinement of `Approval`: `ApproveContent`, `Deactivate` and
`Update` are `Record` steps, `ApproveResolve` is a `Grant`, the rest stutter.
`LogImplemented` is the refinement of `RevisionLog`: `Numbered` has every writer number
on from the current revision, and `ReactionSound` and `ReactionCopies` make what
`Update` appends a full copy that differs in its condition.
`CheckAnnounces` shows `CheckForetellsUpdate`. Its core, `ReactsToAChangedFile`,
is about the operators alone: if a constraint draws no reaction from one index and one
from another, a file it is bound to, or the file of a symbol it is bound to,
differs between them, and that is what `Check` looks for.

**`UpdatePipeline_proofs`.** The invariant adds to typing and numbering what
the running plan promises at each of its steps: what is not yet written
follows the current revisions (`PlanFollows`), once it is written nothing is
left to report (`PlanQuiescent`), what the steps already made have stored
(`PlanWritten`), what readers see (`PlanShown`), and `GapsAreExplained` itself,
which outlives whatever died: the lines readers lack are exactly those of commands that
did not live to refresh (`missed`) or have yet to (`Unshown`). From it: `TypeCorrect`,
`NoCanonicalConflict`, `CacheFollows`, `UpdateHeals`, `LogImplemented`
(`PlanFollows` also says that what is not yet written copies the latest line of a record
that is not final: the append comes steps after the reading) and
`ReadersAreNotMisled`. A command's append changes `memory` but not `Served`
(`CommandKeeps`), and what readers have in advance of `memory` follows a line of `Served`;
so `ShownIsInForce` needs no more than that what is in advance is never active
(`ReactionSound`) and never of a rule that holds for good (`ReadersInv`).

**`Semantic_proofs`.** `IInv` adds four parts to `TypeOK`. `LinesApart`: a scope is
waiting, being asked about, or has its line, and no two of these (this gives
`OneLinePerScope`, which is not inductive: a line is only unique because the scope
had none when it was asked about). `InOrder`: for scopes that never went back,
hash, prompt and tree are in the order in which they were read, in the running
call, in the lines to be written and in the current summaries; equal ends then
force an equal middle, which is `FreshIsTrue`. `LinesKeep`: a line that is no new
summary carries the old content. `Covered`: what a run has still to do, has
deferred or has done covers every scope, which at `Write` is `RunSettles`.
From it: `TypeCorrect`, `SummariesAreTrue`, `NoRevisionConflict`,
`FailureKeepsContent`, `CompletedRunSettles`.

**`CodeIndex_proofs`.** `RunShape` says that what a run has parsed and what it has
left make up what it could read; with `TypeOK` it is inductive and gives
`OnlyTheScanDrops`. `FactsInv` extends `FactsOfHash` to the entries in the hands of
the run (`FactsFollowTheHash`). `NoEdgeDangles` needs no more than types: it is
`Materialize` that closes the edges, whatever it is given (`LiveEdgeIsClosed`).
`QuietInv` says that a run nothing interfered with has scanned the tree and made
of each file what the tree says: the same references and only import edges, and in a full
run the entry of a rebuild. `ResolutionsSurvive` then shows that closing edges
does not disturb what was resolved (a file that is dropped declares nothing, so
leaving it out of the imported files changes no choice, `OnlyIndexedMatter`),
which gives `QuietUpdatesAreCurrent`; and that a rebuild's edges are all closed
already gives `UpdateIsExact`. Its incremental half needs that every entry that is kept
is the entry a rebuild would make: `ReuseIsSound`, with `FactsOfHash` for the symbols,
is enough (`KeepsWhatIsFresh`), and `SameFilesKeepImports` shows what ends it: an import
resolves by the set of files and by no content (`ImportsOfTheSameFiles`). The least element that a resolution picks exists by
well-foundedness (`LeastExists`).

**`Notes_proofs`.** `IInv` adds to types that the lines are numbered (`Numbered`)
and that what a running update has yet to append is a reaction to the lines there
are (`PlanFollows`). From it: `TypeCorrect`, `NoNoteConflict`, `SystemHasReason`,
`UpdateIsTheLastWord`, `ReasonIsFirst`, `LogImplemented`.

**`ScopeUpkeep_proofs`.** A plan is the assignment of indexed files to the scopes there
are (`PlanFollows`); hence `NothingElseUnattended` for the write of an
update and of a reconciliation alike. `NoFileIsForgotten` proves
`ReviewListIsComplete`, which no run checks: assignment and list for review, made by
different code, leave out no file.

**`OpenCodePlugin_proofs`.** `Inv == TypeOK /\ LookupInv` is about lookups. A context
belongs to one session (`Apart`), the map registered for a session is that of its
present context (`Registered`), every lookup is entered in the map of its context, which
stays registered while the session has that context, and its path is not recorded as
looked up (`Lookups`), and nothing else is entered (`PendingOK`). None of
`NoOrphanState`, `ActivatedMeansActive` and `OneLookup` is inductive without these.
`FreshInv` is about bootstraps. As long as a session is not deleted it keeps the
context its initializations began with (`Owned`), they run one after another in
their order (`Chained`), the one registered is the last that is not done (`LastHeld`), a
request waits for whatever was not done when it began or for one behind it (`Gates`), and
the context holds a bootstrap at least as recent as each that succeeded (`Fetched`). From
the two: `TypeCorrect`, `DeletionIsFinal`, `ScopesFollowPaths`, `LookupsAreShared` and
`RendersAreFresh`, which is an action property: what a step renders follows from
`Gates` and `Fetched` before it.
`RulesImplemented` is the refinement of `SessionRules`. A bootstrap is only replaced by
a later one because of a third invariant, `FetchInv`: no bootstrap is newer than the
memory, and until its session is deleted a fetch in flight returns nothing older than what
its context holds. It is preserved because such a context has one fetch in flight at a
time, by `Chained` and `Apart`. Each step is then one of six kinds (`StepRules`), and each
kind a step of `SessionRules` or a stutter; after a deletion fetches may return in any
order, and the abstract specification says no more of them than that.
`NoCircularWait` is the part of progress that needs no fairness: `WaitInv` says that an
initialization is queued behind one of its own session, a request waits for one of its
own, and a call has joined a lookup of its own path and session. The first
initialization of a session that is not done then waits for nothing (`FirstMoves`, by
well-foundedness), so no wait is circular, and a CLI call that never ends holds up its
own session only.

**Model-checked only.** `HooksReturn`, `RunEnds`, `EveryScopeReached` and
`NoneLeftBehind` are liveness
under fairness, which is out of the prover's reach, as is ENABLED. The prover
cannot instantiate induction theorems either, so no module that is proved about
uses recursion. The findings are counterexamples and need no proof.

## 5. Not modelled, and why

* `treesitter.py`: what a text declares, imports and refers to is a function of the
  text by way of external grammars; it enters `CodeIndex` as constants.
* Redaction, the text of summaries and of the rendered block, validation of
  fields, canonical serialization: functions of text that no property here is
  about. Their outcomes (accepted, rejected) are choices of the models.
* The HTTP providers are I/O; their outcomes are choices of `Semantic`.
* The CLI's other handlers and the MCP server parse arguments, make one core call
  that is modelled, and print.
* Doctor reads only, and repeats verdicts of other components.
* Retrieval: ordering, limits and budgets, symbol search, and the notes and summaries in
  its answers.
* Reconciliation: the report entries that lead to no change.
* Two commands at once: excluded by the single-writer assumption; what would
  happen is listed as a hazard.

## 6. Plan

Done: every module of section 2, and the proofs of section 4. What is left,
in this order:

1. Retrieval: notes and summaries in its answers, from `Notes` and `Semantic`; then the order
   of an answer and its budgets (a limit that cuts must say that it cut).
2. The consequences of an edit between scan and parse as a run of its own: how long a
   `parse_error` beside a matching hash stays (`CodeIndex!torn` marks them already).
3. Reconciliation: the report entries that lead to no change, and the range of
   `--since`.
4. `UpdatePipeline` as a refinement of `Governance!Update`: a run that ends is one `Update`
   step there, a run that dies before its append is a stutter. Today both are checked
   against the same operators of `Lifecycle`, but no run states the mapping.
5. Doctor: its verdicts against the invariants of the modules they repeat.
6. Two commands at once, should the single-writer assumption ever be dropped.
