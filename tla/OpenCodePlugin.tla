--------------------------- MODULE OpenCodePlugin ---------------------------
(***************************************************************************)
(* The hooks of the OpenCode adapter (adapters/opencode/src/plugin.ts) and *)
(* the session state they share (rune-context.ts).  The host delivers      *)
(* session events, announces tool calls and asks for the system prompt of  *)
(* a request; the hooks run on one thread and interleave at every await,   *)
(* which is wherever a call of the `rune` CLI is in flight.  An action is  *)
(* what runs between two awaits.                                           *)
(*                                                                         *)
(* Objects that closures keep hold of have an identity here: a session     *)
(* context, with the map of lookups pending for it, is an index of         *)
(* `contexts`; the promise of an initialization is an index of `inits`;    *)
(* the promise of an activation is the tool call that runs it.  Text is    *)
(* abstracted: of a hard bootstrap the state of the memory it was read     *)
(* from is kept, of a soft one that it is queued, of a scope its name.     *)
(***************************************************************************)
EXTENDS Naturals, Sequences, FiniteSets

CONSTANTS
    Sessions,               \* session ids, never reused by the host
    Calls,                  \* tool calls that can run at once
    Requests,               \* LLM requests that can be prepared at once
    Paths,                  \* paths inside the repository
    Outside,                \* a path outside
    PathLists,              \* the path lists tool calls are about
    ScopesOf,               \* [Paths -> sets of scopes]: what scope-for answers
    Nobody,                 \* no activation pending for a path
    MaxSessionAdmissions,   \* MAX_SESSION_ADMISSIONS
    MaxScopeActivations,    \* MAX_SCOPE_ACTIVATIONS
    MaxInits,               \* bound: session.created and session.compacted events
    MaxVersion              \* bound: changes of the memory

ASSUME OpenCodePluginAssumption ==
    /\ Outside \notin Paths
    /\ PathLists \subseteq Seq(Paths \cup {Outside}) \ {<<>>}
    /\ DOMAIN ScopesOf = Paths
    /\ Nobody \notin Calls
    /\ MaxSessionAdmissions \in Nat \ {0}
    /\ MaxScopeActivations \in Nat \ {0}
    /\ MaxInits \in Nat
    /\ MaxVersion \in Nat \ {0}

VARIABLES
    host,               \* where the host is in the life of each session
    version,            \* the state of the memory the CLI reads
    sessions,           \* the context of each admitted session, 0 if none
    contexts,           \* every RuneSessionContext there ever was
    activatedPaths,     \* the paths each session has looked up
    activatingPaths,    \* the context whose map of pending lookups is registered, 0 if none
    initializing,       \* the last initialization registered, 0 if none
    inits,              \* every initialization there ever was
    calls,              \* the running tool hooks
    requests            \* the running system.transform hooks

vars == <<host, version, sessions, contexts, activatedPaths, activatingPaths,
          initializing, inits, calls, requests>>

-----------------------------------------------------------------------------

Scopes == UNION {ScopesOf[p] : p \in Paths}

\* A session created before the plugin was loaded is "old".
HostState == {"old", "unborn", "live", "deleted"}

SessionContext == [hard : 0 .. MaxVersion, scopes : SUBSET Scopes, events : Nat,
                   pending : [Paths -> Calls \cup {Nobody}]]

Kind == {"created", "compacted"}

\* `since` is what the memory was when the fetch began and `context` the
\* session's context when the event arrived.
Initialization ==
    [session : Sessions, kind : Kind, context : Nat, after : Nat,
     step : {"queued", "hard", "soft", "done"}, since : 0 .. MaxVersion,
     failed : BOOLEAN]

Idle == [step |-> "idle"]

Call ==
    [step : {"next"}, session : Sessions, paths : Seq(Paths \cup {Outside})]
        \cup
    [step : {"lookup"}, session : Sessions, paths : Seq(Paths \cup {Outside}),
     context : Nat, map : Nat]
        \cup
    [step : {"join"}, session : Sessions, paths : Seq(Paths \cup {Outside}), on : Calls]

Request == [step : {"gate"}, session : Sessions, context : Nat, gate : Nat, asked : Nat]

\* What is referred to exists: an initialization waits for an earlier one,
\* and a call that joined an activation joined one still running.
References ==
    /\ \A i \in DOMAIN inits : inits[i].after < i /\ inits[i].context \in DOMAIN contexts
    /\ \A t \in Calls :
          /\ calls[t].step = "lookup" => {calls[t].context, calls[t].map} \subseteq DOMAIN contexts
          /\ calls[t].step = "join" => calls[calls[t].on].step = "lookup"
    /\ \A r \in Requests : requests[r].step = "gate" =>
          requests[r].context \in DOMAIN contexts /\ requests[r].gate \in 0 .. Len(inits)

TypeOK ==
    /\ host \in [Sessions -> HostState]
    /\ version \in 1 .. MaxVersion
    /\ contexts \in Seq(SessionContext)
    /\ sessions \in [Sessions -> 0 .. Len(contexts)]
    /\ activatedPaths \in [Sessions -> SUBSET Paths]
    /\ activatingPaths \in [Sessions -> 0 .. Len(contexts)]
    /\ inits \in Seq(Initialization)
    /\ initializing \in [Sessions -> 0 .. Len(inits)]
    /\ calls \in [Calls -> {Idle} \cup Call]
    /\ requests \in [Requests -> {Idle} \cup Request]
    /\ References

-----------------------------------------------------------------------------
(* Admission                                                               *)

NewContext == [hard |-> 0, scopes |-> {}, events |-> 0,
               pending |-> [p \in Paths |-> Nobody]]

Admitted == {s \in Sessions : sessions[s] # 0}

\* admitSession() would return null: no session is ever evicted.
Refused(s) == sessions[s] = 0 /\ Cardinality(Admitted) >= MaxSessionAdmissions

\* What admitSession() leaves in `contexts` and returns.
ContextsWith(s) == IF sessions[s] = 0 THEN Append(contexts, NewContext) ELSE contexts
ContextOf(s) == IF sessions[s] = 0 THEN Len(contexts) + 1 ELSE sessions[s]

-----------------------------------------------------------------------------
(* Session events                                                          *)

\* Mutant: the promise is registered before the previous one is read.
EnqueueBehindItself(s, kind) ==
    /\ Len(inits) < MaxInits
    /\ inits' = Append(inits,
         [session |-> s, kind |-> kind, context |-> ContextOf(s),
          after |-> Len(inits) + 1, step |-> "queued", since |-> 0, failed |-> FALSE])
    /\ initializing' = [initializing EXCEPT ![s] = Len(inits) + 1]

\* Mutant: the new initialization does not wait for the one before.
EnqueueUnchained(s, kind) ==
    /\ Len(inits) < MaxInits
    /\ inits' = Append(inits,
         [session |-> s, kind |-> kind, context |-> ContextOf(s),
          after |-> 0, step |-> "queued", since |-> 0, failed |-> FALSE])
    /\ initializing' = [initializing EXCEPT ![s] = Len(inits) + 1]

\* enqueueInitialization(): behind the one registered, and registered itself
\* before anything is awaited.
Enqueue(s, kind) ==
    /\ Len(inits) < MaxInits
    /\ inits' = Append(inits,
         [session |-> s, kind |-> kind, context |-> ContextOf(s),
          after |-> initializing[s], step |-> "queued", since |-> 0, failed |-> FALSE])
    /\ initializing' = [initializing EXCEPT ![s] = Len(inits) + 1]

Created(s) ==
    /\ host[s] = "unborn"
    /\ host' = [host EXCEPT ![s] = "live"]
    /\ IF Refused(s) THEN UNCHANGED <<sessions, contexts, initializing, inits>>
       ELSE /\ contexts' = ContextsWith(s)
            /\ sessions' = [sessions EXCEPT ![s] = ContextOf(s)]
            /\ Enqueue(s, "created")
    /\ UNCHANGED <<version, activatedPaths, activatingPaths, calls, requests>>

Compacted(s) ==
    /\ host[s] \in {"old", "live"}
    /\ sessions[s] # 0
    /\ Enqueue(s, "compacted")
    /\ UNCHANGED <<host, version, sessions, contexts, activatedPaths, activatingPaths,
                   calls, requests>>

\* Mutant: the set of paths looked up outlives its session.
DeletedKeepingPaths(s) ==
    /\ host[s] \in {"old", "live"}
    /\ host' = [host EXCEPT ![s] = "deleted"]
    /\ sessions' = [sessions EXCEPT ![s] = 0]
    /\ activatingPaths' = [activatingPaths EXCEPT ![s] = 0]
    /\ initializing' = [initializing EXCEPT ![s] = 0]
    /\ UNCHANGED <<version, contexts, activatedPaths, inits, calls, requests>>

\* Deletion waits for nothing: what is in flight goes on.
Deleted(s) ==
    /\ host[s] \in {"old", "live"}
    /\ host' = [host EXCEPT ![s] = "deleted"]
    /\ sessions' = [sessions EXCEPT ![s] = 0]
    /\ activatedPaths' = [activatedPaths EXCEPT ![s] = {}]
    /\ activatingPaths' = [activatingPaths EXCEPT ![s] = 0]
    /\ initializing' = [initializing EXCEPT ![s] = 0]
    /\ UNCHANGED <<version, contexts, inits, calls, requests>>

-----------------------------------------------------------------------------
(* An initialization                                                       *)

\* The initialization goes on to `next`.  One that is done clears its
\* registration, unless a later one has taken its place.
Advance(i, next, failed) ==
    /\ inits' = [inits EXCEPT ![i].step = next, ![i].failed = @ \/ failed]
    /\ initializing' =
         IF next = "done" /\ initializing[inits[i].session] = i
         THEN [initializing EXCEPT ![inits[i].session] = 0] ELSE initializing

AfterHard(i) == IF inits[i].kind = "created" THEN "soft" ELSE "done"

\* The one before is done.  Nothing is fetched for a session that is gone.
BeginInit(i) ==
    /\ inits[i].step = "queued"
    /\ inits[i].after # 0 => inits[inits[i].after].step = "done"
    /\ IF sessions[inits[i].session] = 0 THEN Advance(i, AfterHard(i), FALSE)
       ELSE /\ inits' = [inits EXCEPT ![i].step = "hard", ![i].since = version]
            /\ UNCHANGED initializing
    /\ UNCHANGED <<host, version, sessions, contexts, activatedPaths, activatingPaths,
                   calls, requests>>

\* The hard bootstrap, read at some moment since the fetch began, goes to
\* whatever context the session has by now.
HardReturns(i) ==
    /\ inits[i].step = "hard"
    /\ LET c == sessions[inits[i].session]
       IN  \E v \in inits[i].since .. version :
             contexts' = IF c = 0 THEN contexts ELSE [contexts EXCEPT ![c].hard = v]
    /\ Advance(i, AfterHard(i), FALSE)
    /\ UNCHANGED <<host, version, sessions, activatedPaths, activatingPaths, calls, requests>>

SoftReturns(i) ==
    /\ inits[i].step = "soft"
    /\ LET c == sessions[inits[i].session]
       IN  contexts' = IF c = 0 THEN contexts ELSE [contexts EXCEPT ![c].events = @ + 1]
    /\ Advance(i, "done", FALSE)
    /\ UNCHANGED <<host, version, sessions, activatedPaths, activatingPaths, calls, requests>>

\* A CLI call fails: the hook fails open and goes on without its answer.
InitFails(i) ==
    /\ inits[i].step \in {"hard", "soft"}
    /\ Advance(i, IF inits[i].step = "hard" THEN AfterHard(i) ELSE "done", TRUE)
    /\ UNCHANGED <<host, version, sessions, contexts, activatedPaths, activatingPaths,
                   calls, requests>>

-----------------------------------------------------------------------------
(* A tool call activates the scopes of its paths, one path after another   *)

\* Before a tool runs, or after bash has, with what git status lists.
BeginCall(t, s, paths) ==
    /\ calls[t] = Idle
    /\ host[s] \in {"old", "live"}
    /\ calls' = [calls EXCEPT ![t] =
         [step |-> "next", session |-> s,
          paths |-> IF Len(paths) > MaxScopeActivations
                    THEN SubSeq(paths, 1, MaxScopeActivations) ELSE paths]]
    /\ UNCHANGED <<host, version, sessions, contexts, activatedPaths, activatingPaths,
                   initializing, inits, requests>>

\* The hook has finished with its first path.
Rest(call) ==
    IF Len(call.paths) = 1 THEN Idle
    ELSE [step |-> "next", session |-> call.session, paths |-> Tail(call.paths)]

\* Outside the repository, or the session table is full.
SkipPath(t) ==
    /\ calls[t].step = "next"
    /\ Head(calls[t].paths) = Outside \/ Refused(calls[t].session)
    /\ calls' = [calls EXCEPT ![t] = Rest(calls[t])]
    /\ UNCHANGED <<host, version, sessions, contexts, activatedPaths, activatingPaths,
                   initializing, inits, requests>>

\* A path looked up before needs nothing; one being looked up is waited for;
\* any other is looked up.  A tool call admits its session by itself.
TryPath(t) ==
    /\ calls[t].step = "next"
    /\ Head(calls[t].paths) # Outside
    /\ ~ Refused(calls[t].session)
    /\ LET s == calls[t].session
           p == Head(calls[t].paths)
           c == ContextOf(s)
           map == IF activatingPaths[s] = 0 THEN c ELSE activatingPaths[s]
           pending == IF activatingPaths[s] = 0 THEN Nobody ELSE contexts[map].pending[p]
       IN  /\ sessions' = [sessions EXCEPT ![s] = c]
           /\ IF p \in activatedPaths[s] \/ pending # Nobody
              THEN /\ contexts' = ContextsWith(s)
                   /\ calls' = [calls EXCEPT ![t] =
                        IF p \in activatedPaths[s] THEN Rest(calls[t])
                        ELSE [step |-> "join", session |-> s, paths |-> calls[t].paths,
                              on |-> pending]]
                   /\ UNCHANGED activatingPaths
              ELSE /\ contexts' = [ContextsWith(s) EXCEPT ![map].pending[p] = t]
                   /\ calls' = [calls EXCEPT ![t] =
                        [step |-> "lookup", session |-> s, paths |-> calls[t].paths,
                         context |-> c, map |-> map]]
                   /\ activatingPaths' = [activatingPaths EXCEPT ![s] = map]
    /\ UNCHANGED <<host, version, activatedPaths, initializing, inits, requests>>

\* Mutant: the map is unregistered while other lookups are pending in it.
ReleaseEagerly(t, active) ==
    LET call == calls[t]
        p == Head(call.paths)
    IN  /\ contexts' = IF active[call.map].pending[p] = t
                       THEN [active EXCEPT ![call.map].pending[p] = Nobody] ELSE active
        /\ activatingPaths' =
             IF activatingPaths[call.session] = call.map
             THEN [activatingPaths EXCEPT ![call.session] = 0] ELSE activatingPaths

\* The `finally` of an activation: its entry goes, and with the last entry
\* the registration of the map, if it is still this map that is registered.
Release(t, active) ==
    LET call == calls[t]
        p == Head(call.paths)
    IN  /\ contexts' = IF active[call.map].pending[p] = t
                       THEN [active EXCEPT ![call.map].pending[p] = Nobody] ELSE active
        /\ activatingPaths' =
             IF /\ \A q \in Paths : contexts'[call.map].pending[q] = Nobody
                /\ activatingPaths[call.session] = call.map
             THEN [activatingPaths EXCEPT ![call.session] = 0] ELSE activatingPaths

\* The hook that runs the activation, and those that joined it.
Waiting(t) == {t} \cup {u \in Calls : calls[u].step = "join" /\ calls[u].on = t}

\* Mutant: the answer is applied without asking whose context it was for.
LookupReturnsAnyway(t) ==
    /\ calls[t].step = "lookup"
    /\ LET call == calls[t]
           p == Head(call.paths)
       IN  /\ activatedPaths' = [activatedPaths EXCEPT ![call.session] = @ \cup {p}]
           /\ Release(t, [contexts EXCEPT ![call.context].scopes = @ \cup ScopesOf[p]])
    /\ calls' = [u \in Calls |-> IF u \in Waiting(t) THEN Rest(calls[u]) ELSE calls[u]]
    /\ UNCHANGED <<host, version, sessions, initializing, inits, requests>>

\* scope-for answers.  The answer is for the context that asked: if the
\* session is gone or has another by now, it is dropped.
LookupReturns(t) ==
    /\ calls[t].step = "lookup"
    /\ LET call == calls[t]
           p == Head(call.paths)
       IN  IF sessions[call.session] = call.context
           THEN /\ activatedPaths' = [activatedPaths EXCEPT ![call.session] = @ \cup {p}]
                /\ Release(t, [contexts EXCEPT ![call.context].scopes = @ \cup ScopesOf[p]])
           ELSE /\ UNCHANGED activatedPaths
                /\ Release(t, contexts)
    /\ calls' = [u \in Calls |-> IF u \in Waiting(t) THEN Rest(calls[u]) ELSE calls[u]]
    /\ UNCHANGED <<host, version, sessions, initializing, inits, requests>>

\* Mutant: the failure reaches the hook that looked up, and no other.
LookupFailsAlone(t) ==
    /\ calls[t].step = "lookup"
    /\ Release(t, contexts)
    /\ calls' = [calls EXCEPT ![t] = Idle]
    /\ UNCHANGED <<host, version, sessions, activatedPaths, initializing, inits, requests>>

\* It fails: every hook that waits fails open, leaving its other paths.
LookupFails(t) ==
    /\ calls[t].step = "lookup"
    /\ Release(t, contexts)
    /\ calls' = [u \in Calls |-> IF u \in Waiting(t) THEN Idle ELSE calls[u]]
    /\ UNCHANGED <<host, version, sessions, activatedPaths, initializing, inits, requests>>

-----------------------------------------------------------------------------
(* An LLM request waits for the initialization registered when it began    *)

BeginRequest(r, s) ==
    /\ requests[r] = Idle
    /\ sessions[s] # 0
    /\ requests' = [requests EXCEPT ![r] =
         [step |-> "gate", session |-> s, context |-> sessions[s],
          gate |-> initializing[s], asked |-> Len(inits)]]
    /\ UNCHANGED <<host, version, sessions, contexts, activatedPaths, activatingPaths,
                   initializing, inits, calls>>

Open(r) ==
    /\ requests[r].step = "gate"
    /\ requests[r].gate # 0 => inits[requests[r].gate].step = "done"

\* The context is rendered, which drains its queue of one-shot events.
Render(r) ==
    /\ Open(r)
    /\ contexts' = [contexts EXCEPT ![requests[r].context].events = 0]
    /\ requests' = [requests EXCEPT ![r] = Idle]
    /\ UNCHANGED <<host, version, sessions, activatedPaths, activatingPaths,
                   initializing, inits, calls>>

\* Title generation, or a prompt that is not an array: nothing is rendered.
PassThrough(r) ==
    /\ Open(r)
    /\ requests' = [requests EXCEPT ![r] = Idle]
    /\ UNCHANGED <<host, version, sessions, contexts, activatedPaths, activatingPaths,
                   initializing, inits, calls>>

-----------------------------------------------------------------------------

\* Another process approves, updates or retires something.
MemoryChanges ==
    /\ version < MaxVersion
    /\ version' = version + 1
    /\ UNCHANGED <<host, sessions, contexts, activatedPaths, activatingPaths,
                   initializing, inits, calls, requests>>

Init ==
    /\ host \in [Sessions -> {"old", "unborn"}]
    /\ version = 1
    /\ sessions = [s \in Sessions |-> 0]
    /\ contexts = <<>>
    /\ activatedPaths = [s \in Sessions |-> {}]
    /\ activatingPaths = [s \in Sessions |-> 0]
    /\ initializing = [s \in Sessions |-> 0]
    /\ inits = <<>>
    /\ calls = [t \in Calls |-> Idle]
    /\ requests = [r \in Requests |-> Idle]

\* What the event loop runs next once it can.
Hooks ==
    \/ \E i \in DOMAIN inits : BeginInit(i) \/ HardReturns(i) \/ SoftReturns(i) \/ InitFails(i)
    \/ \E t \in Calls : SkipPath(t) \/ TryPath(t) \/ LookupReturns(t) \/ LookupFails(t)
    \/ \E r \in Requests : Render(r) \/ PassThrough(r)

Next ==
    \/ \E s \in Sessions : Created(s) \/ Compacted(s) \/ Deleted(s)
    \/ \E t \in Calls, s \in Sessions, paths \in PathLists : BeginCall(t, s, paths)
    \/ \E r \in Requests, s \in Sessions : BeginRequest(r, s)
    \/ MemoryChanges
    \/ Hooks

\* Every CLI call ends and the event loop runs every continuation.
Fairness ==
    /\ \A i \in 1 .. MaxInits :
          WF_vars(i \in DOMAIN inits /\ (BeginInit(i) \/ HardReturns(i)
                                           \/ SoftReturns(i) \/ InitFails(i)))
    /\ \A t \in Calls :
          WF_vars(SkipPath(t) \/ TryPath(t) \/ LookupReturns(t) \/ LookupFails(t))
    /\ \A r \in Requests : WF_vars(Render(r) \/ PassThrough(r))

Spec == Init /\ [][Next]_vars /\ Fairness

-----------------------------------------------------------------------------
(* Properties                                                              *)

\* session.deleted releases everything kept for a session, and nothing that
\* was in flight at the time puts any of it back: a session that is not
\* admitted has no paths, no map of lookups and no promise registered.
NoOrphanState ==
    \A s \in Sessions : sessions[s] = 0 =>
        activatedPaths[s] = {} /\ activatingPaths[s] = 0 /\ initializing[s] = 0

\* A path is never looked up again once it is in activatedPaths, so that it
\* is there says that its scopes are in the session's present context, and
\* that context holds no scope of another session's paths or of the
\* context the session had before it was deleted.
ActivatedMeansActive ==
    \A s \in Sessions : sessions[s] # 0 =>
        contexts[sessions[s]].scopes = UNION {ScopesOf[p] : p \in activatedPaths[s]}

\* Concurrent tool calls share one lookup of a path: no two are in flight
\* for one admitted context, and none for a path already looked up.
OneLookup ==
    \A t, u \in Calls :
        (/\ calls[t].step = "lookup" /\ calls[u].step = "lookup"
         /\ calls[t].session = calls[u].session
         /\ calls[t].context = sessions[calls[t].session]
         /\ calls[u].context = sessions[calls[u].session])
        => /\ t # u => Head(calls[t].paths) # Head(calls[u].paths)
           /\ Head(calls[t].paths) \notin activatedPaths[calls[t].session]

\* Initialization `i` waits for no other: the CLI works for it, or the event
\* loop can go on with it.
Moves(i) ==
    \/ inits[i].step \in {"hard", "soft"}
    \/ inits[i].step = "queued" /\ (inits[i].after # 0 => inits[inits[i].after].step = "done")

\* Nothing ever waits for itself or in a circle, and what is waited for is of
\* the same session: an initialization for one that moves, a request likewise,
\* a tool call for a lookup of its own path that is in flight.  So a CLI call
\* that hangs (rune-cli.ts:90 starts it without a timeout) holds up the
\* session it was made for, across deletion and readmission, and no other.
WaitsInOwnSession ==
    /\ \A i \in DOMAIN inits : inits[i].step # "done" =>
          \E j \in 1 .. i : inits[j].session = inits[i].session /\ Moves(j)
    /\ \A r \in Requests : (requests[r].step = "gate" /\ ~ Open(r)) =>
          \E j \in 1 .. requests[r].gate :
              inits[j].session = requests[r].session /\ Moves(j)
    /\ \A t \in Calls : calls[t].step = "join" =>
          LET u == calls[t].on
          IN  /\ calls[u].step = "lookup" /\ calls[u].session = calls[t].session
              /\ Head(calls[u].paths) = Head(calls[t].paths)

\* A request that begins after session.created or session.compacted is
\* rendered with what that event's bootstrap fetched, or with something
\* newer, unless that bootstrap failed: ARCHITECTURE.md, section 7.3, never
\* lets a model work on rules from before a compaction.
RulesAreFresh ==
    [][\A r \in Requests : Render(r) =>
         \A i \in 1 .. requests[r].asked :
            (/\ inits[i].session = requests[r].session
             /\ inits[i].context = requests[r].context
             /\ sessions[inits[i].session] = inits[i].context)
            => /\ inits[i].step = "done"
               /\ inits[i].failed \/ contexts[inits[i].context].hard >= inits[i].since]_vars

\* Every hook returns to the host, whatever fails, is deleted or is queued
\* behind it, if every CLI call ends.
HooksReturn ==
    /\ \A r \in Requests : requests[r] # Idle ~> requests[r] = Idle
    /\ \A t \in Calls : calls[t] # Idle ~> calls[t] = Idle

-----------------------------------------------------------------------------
(* The abstract specification this one implements                          *)

\* What a session is prompted with, and the paths it does not look up again.
RulesOf(s) ==
    IF sessions[s] = 0 THEN [paths |-> activatedPaths[s], scopes |-> {}, hard |-> 0]
    ELSE [paths |-> activatedPaths[s], scopes |-> contexts[sessions[s]].scopes,
          hard |-> contexts[sessions[s]].hard]

Rules == INSTANCE SessionRules WITH
    memory <- version,
    admitted <- Admitted,
    rules <- [s \in Sessions |-> RulesOf(s)],
    ended <- {s \in Sessions : host[s] = "deleted"}

\* Hooks, events and answers interleave, contexts are shared by closures that
\* outlive the session, and still each session has the rules of its own
\* lookups, since its last admission, and a bootstrap only replaced by a
\* later one (RuneSessionContext and enqueueInitialization()).
RulesSpec == Rules!Spec
=============================================================================
