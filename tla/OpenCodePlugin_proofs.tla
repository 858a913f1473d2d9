------------------------ MODULE OpenCodePlugin_proofs ------------------------
(***************************************************************************)
(* Proofs about module OpenCodePlugin, for any sessions, tool calls,       *)
(* requests and paths, and any order in which they interleave.             *)
(***************************************************************************)
EXTENDS OpenCodePlugin, SequenceTheorems, WellFoundedInduction, TLAPS

-----------------------------------------------------------------------------
(* Records and sequences                                                   *)

LEMMA CallFacts ==
    ASSUME NEW x \in {Idle} \cup Call
    PROVE  /\ x.step \in {"idle", "next", "lookup", "join"}
           /\ x = Idle <=> x.step = "idle"
           /\ x # Idle => x.session \in Sessions /\ x.paths \in Seq(Paths \cup {Outside})
           /\ x.step = "lookup" => x.context \in Nat /\ x.map \in Nat
           /\ x.step = "join" => x.on \in Calls
BY DEF Idle, Call

LEMMA RestType ==
    ASSUME NEW call, call.session \in Sessions,
           call.paths \in Seq(Paths \cup {Outside}), call.paths # <<>>
    PROVE  /\ Rest(call) \in {Idle} \cup Call
           /\ Rest(call).step \in {"idle", "next"}
           /\ Rest(call) # Idle => Rest(call).paths # <<>>
<1>1. CASE Len(call.paths) = 1
  BY <1>1 DEF Rest, Idle
<1>2. CASE Len(call.paths) # 1
  <2>1. Tail(call.paths) \in Seq(Paths \cup {Outside}) /\ Tail(call.paths) # <<>>
    <3>1. /\ Tail(call.paths) \in Seq(Paths \cup {Outside})
          /\ Len(Tail(call.paths)) = Len(call.paths) - 1
      BY HeadTailProperties
    <3>2. Len(call.paths) \in Nat /\ Len(call.paths) # 0
      BY EmptySeq, LenProperties
    <3>3. Len(Tail(call.paths)) # 0
      BY <1>2, <3>1, <3>2
    <3>4. Len(<<>>) = 0
      OBVIOUS
    <3>5. QED
      BY <3>1, <3>3, <3>4, Zenon
  <2>2. QED
    BY <1>2, <2>1 DEF Rest, Call, Idle
<1>3. QED
  BY <1>1, <1>2

\* What replacing one context leaves.
LEMMA ReplaceContext ==
    ASSUME NEW cs \in Seq(SessionContext), NEW c \in 1 .. Len(cs), NEW x \in SessionContext
    PROVE  LET new == [cs EXCEPT ![c] = x]
           IN  /\ new \in Seq(SessionContext) /\ Len(new) = Len(cs)
               /\ new[c] = x
               /\ \A k \in 1 .. Len(cs) : k # c => new[k] = cs[k]
OBVIOUS

\* What a map holds for a path: a lookup, or none.
Entry == Calls \cup {Nobody}

\* `t` is entered in a map.
Enter(cs, c, p, t) == [cs EXCEPT ![c].pending[p] = t]

\* That changes this entry and nothing else.
EntersOnly(new, cs, c, p, t) ==
    /\ new \in Seq(SessionContext) /\ Len(new) = Len(cs)
    /\ \A k \in 1 .. Len(cs) :
          /\ new[k].scopes = cs[k].scopes /\ new[k].hard = cs[k].hard
          /\ \A q \in Paths : new[k].pending[q] =
                IF k = c /\ q = p THEN t ELSE cs[k].pending[q]

LEMMA SetPending ==
    ASSUME NEW cs \in Seq(SessionContext), NEW c \in 1 .. Len(cs), NEW p \in Paths,
           NEW t \in Entry
    PROVE  EntersOnly(Enter(cs, c, p, t), cs, c, p, t)
<1> DEFINE x == [cs[c] EXCEPT !.pending = [@ EXCEPT ![p] = t]]
           new == Enter(cs, c, p, t)
<1>1. cs[c] \in SessionContext
  OBVIOUS
<1>2. [cs[c].pending EXCEPT ![p] = t] \in [Paths -> Calls \cup {Nobody}]
  BY <1>1 DEF SessionContext, Entry
<1>3. /\ x \in SessionContext /\ x.scopes = cs[c].scopes /\ x.hard = cs[c].hard
      /\ x.pending = [cs[c].pending EXCEPT ![p] = t]
  BY <1>1, <1>2 DEF SessionContext
<1>4. \A q \in Paths : x.pending[q] = IF q = p THEN t ELSE cs[c].pending[q]
  BY <1>1, <1>3 DEF SessionContext
<1>5. new = [cs EXCEPT ![c] = x]
  BY DEF Enter
<1> HIDE DEF x
<1>6. /\ new \in Seq(SessionContext) /\ Len(new) = Len(cs) /\ new[c] = x
      /\ \A k \in 1 .. Len(cs) : k # c => new[k] = cs[k]
  BY <1>3, <1>5, ReplaceContext
<1> HIDE DEF new
<1>7. ASSUME NEW k \in 1 .. Len(cs)
      PROVE  /\ new[k].scopes = cs[k].scopes /\ new[k].hard = cs[k].hard
             /\ \A q \in Paths : new[k].pending[q] =
                   IF k = c /\ q = p THEN t ELSE cs[k].pending[q]
  BY <1>3, <1>4, <1>6
<1>8. EntersOnly(new, cs, c, p, t)
  BY <1>6, <1>7 DEF EntersOnly
<1>9. QED
  BY <1>8 DEF new

LEMMA SetHard ==
    ASSUME NEW cs \in Seq(SessionContext), NEW c \in 1 .. Len(cs), NEW v \in 0 .. MaxVersion
    PROVE  LET new == [cs EXCEPT ![c].hard = v]
           IN  /\ new \in Seq(SessionContext) /\ Len(new) = Len(cs)
               /\ \A k \in 1 .. Len(cs) :
                     /\ new[k].pending = cs[k].pending /\ new[k].scopes = cs[k].scopes
                     /\ new[k].hard = IF k = c THEN v ELSE cs[k].hard
<1> DEFINE x == [cs[c] EXCEPT !.hard = v]
           new == [cs EXCEPT ![c].hard = v]
<1>1. cs[c] \in SessionContext
  OBVIOUS
<1>2. /\ x \in SessionContext /\ x.hard = v
      /\ x.scopes = cs[c].scopes /\ x.pending = cs[c].pending
  BY <1>1 DEF SessionContext
<1>3. new = [cs EXCEPT ![c] = x]
  OBVIOUS
<1> HIDE DEF x, new
<1>4. /\ new \in Seq(SessionContext) /\ Len(new) = Len(cs) /\ new[c] = x
      /\ \A k \in 1 .. Len(cs) : k # c => new[k] = cs[k]
  BY <1>2, <1>3, ReplaceContext
<1>5. ASSUME NEW k \in 1 .. Len(cs)
      PROVE  /\ new[k].pending = cs[k].pending /\ new[k].scopes = cs[k].scopes
             /\ new[k].hard = IF k = c THEN v ELSE cs[k].hard
  BY <1>2, <1>4
<1>6. QED
  BY <1>4, <1>5 DEF new

LEMMA SetEvents ==
    ASSUME NEW cs \in Seq(SessionContext), NEW c \in 1 .. Len(cs), NEW n \in Nat
    PROVE  LET new == [cs EXCEPT ![c].events = n]
           IN  /\ new \in Seq(SessionContext) /\ Len(new) = Len(cs)
               /\ \A k \in 1 .. Len(cs) :
                     /\ new[k].pending = cs[k].pending /\ new[k].scopes = cs[k].scopes
                     /\ new[k].hard = cs[k].hard
<1> DEFINE x == [cs[c] EXCEPT !.events = n]
           new == [cs EXCEPT ![c].events = n]
<1>1. cs[c] \in SessionContext
  OBVIOUS
<1>2. /\ x \in SessionContext /\ x.hard = cs[c].hard
      /\ x.scopes = cs[c].scopes /\ x.pending = cs[c].pending
  BY <1>1 DEF SessionContext
<1>3. new = [cs EXCEPT ![c] = x]
  OBVIOUS
<1> HIDE DEF x, new
<1>4. /\ new \in Seq(SessionContext) /\ Len(new) = Len(cs) /\ new[c] = x
      /\ \A k \in 1 .. Len(cs) : k # c => new[k] = cs[k]
  BY <1>2, <1>3, ReplaceContext
<1>5. ASSUME NEW k \in 1 .. Len(cs)
      PROVE  /\ new[k].pending = cs[k].pending /\ new[k].scopes = cs[k].scopes
             /\ new[k].hard = cs[k].hard
  BY <1>2, <1>4
<1>6. QED
  BY <1>4, <1>5 DEF new

-----------------------------------------------------------------------------
(* The lookups                                                             *)

\* A running hook has a path to see to.
PathsLeft == \A t \in Calls : calls[t] # Idle => calls[t].paths # <<>>

\* A context is of one session.
Apart == \A s, u \in Sessions : (sessions[s] = sessions[u] /\ sessions[s] # 0) => s = u

\* The map registered for a session is that of its present context.
Registered == \A s \in Sessions : activatingPaths[s] \in {0, sessions[s]}

\* A lookup is entered in the map of its context, which is registered as long
\* as the session has that context, and no other session ever has it.
LookupOK(t) ==
    LET c == calls[t].context
        s == calls[t].session
        p == Head(calls[t].paths)
    IN  /\ calls[t].map = c
        /\ p \in Paths
        /\ contexts[c].pending[p] = t
        /\ \A u \in Sessions : sessions[u] = c => u = s
        /\ sessions[s] = c => activatingPaths[s] = c /\ p \notin activatedPaths[s]

Lookups == \A t \in Calls : calls[t].step = "lookup" => LookupOK(t)

\* What is entered in a map is being looked up.
PendingOK ==
    \A c \in DOMAIN contexts, p \in Paths :
        contexts[c].pending[p] # Nobody =>
            LET t == contexts[c].pending[p]
            IN  calls[t].step = "lookup" /\ calls[t].context = c /\ Head(calls[t].paths) = p

LookupInv ==
    /\ PathsLeft /\ Apart /\ Registered /\ Lookups /\ PendingOK
    /\ NoOrphanState /\ ActivatedMeansActive

Inv == TypeOK /\ LookupInv

LEMMA ContextsWithFacts ==
    ASSUME TypeOK, NEW s \in Sessions
    PROVE  /\ ContextsWith(s) \in Seq(SessionContext)
           /\ ContextOf(s) \in 1 .. Len(ContextsWith(s))
           /\ Len(contexts) \in Nat /\ Len(ContextsWith(s)) \in Nat
           /\ Len(contexts) <= Len(ContextsWith(s))
           /\ \A k \in 1 .. Len(contexts) : ContextsWith(s)[k] = contexts[k]
           /\ sessions[s] # 0 => /\ ContextsWith(s) = contexts
                                 /\ ContextOf(s) = sessions[s]
           /\ sessions[s] = 0 => /\ ContextOf(s) = Len(contexts) + 1
                                 /\ Len(ContextsWith(s)) = Len(contexts) + 1
                                 /\ ContextsWith(s)[Len(contexts) + 1] = NewContext
<1>1. NewContext \in SessionContext
  BY OpenCodePluginAssumption DEF NewContext, SessionContext
<1>2. contexts \in Seq(SessionContext) /\ sessions[s] \in 0 .. Len(contexts)
  BY DEF TypeOK
<1>3. CASE sessions[s] # 0
  BY <1>2, <1>3 DEF ContextsWith, ContextOf
<1>4. CASE sessions[s] = 0
  BY <1>1, <1>2, <1>4 DEF ContextsWith, ContextOf
<1>5. QED
  BY <1>3, <1>4

LEMMA InitFacts ==
    ASSUME Init
    PROVE  Inv
<1>1. contexts \in Seq(SessionContext) /\ inits \in Seq(Initialization)
      /\ Len(contexts) = 0 /\ Len(inits) = 0
  BY DEF Init
<1>2. Idle.step = "idle"
  BY DEF Idle
<1>3. TypeOK
  BY <1>1, <1>2, OpenCodePluginAssumption DEF Init, TypeOK, References, HostState
<1>4. LookupInv
  BY <1>1, <1>2 DEF Init, LookupInv, PathsLeft, Apart, Registered, Lookups, PendingOK,
     NoOrphanState, ActivatedMeansActive
<1>5. QED
  BY <1>3, <1>4 DEF Inv

-----------------------------------------------------------------------------
(* Steps that leave lookups alone                                          *)

\* No lookup begins or ends; a session may get a context of its own.
Aside ==
    /\ UNCHANGED <<activatedPaths, activatingPaths>>
    /\ Len(contexts) <= Len(contexts')
    /\ \A k \in 1 .. Len(contexts) :
          /\ contexts'[k].pending = contexts[k].pending
          /\ contexts'[k].scopes = contexts[k].scopes
    /\ \A k \in 1 .. Len(contexts') : k > Len(contexts) =>
          /\ \A p \in Paths : contexts'[k].pending[p] = Nobody
          /\ contexts'[k].scopes = {}
    /\ Apart'
    /\ \A s \in Sessions :
          \/ sessions'[s] = sessions[s]
          \/ sessions[s] = 0 /\ sessions'[s] > Len(contexts)
    /\ \A s \in Sessions : sessions'[s] = 0 => initializing'[s] = 0
    /\ PathsLeft'
    /\ \A t \in Calls : (calls[t].step = "lookup" \/ calls'[t].step = "lookup")
                           => calls'[t] = calls[t]

LEMMA AsideKeeps ==
    ASSUME TypeOK, TypeOK', LookupInv, Aside
    PROVE  LookupInv'
<1>1. /\ contexts \in Seq(SessionContext) /\ contexts' \in Seq(SessionContext)
      /\ DOMAIN contexts = 1 .. Len(contexts) /\ DOMAIN contexts' = 1 .. Len(contexts')
      /\ Len(contexts) \in Nat /\ Len(contexts') \in Nat
      /\ Len(contexts) <= Len(contexts')
  BY DEF TypeOK, Aside
<1>2. /\ \A s \in Sessions : sessions[s] \in Nat /\ sessions'[s] \in Nat
      /\ \A s \in Sessions : sessions[s] <= Len(contexts) /\ sessions'[s] <= Len(contexts')
  BY <1>1 DEF TypeOK
<1>3. Registered'
  <2>1. \A s \in Sessions : sessions[s] = 0 => activatingPaths[s] = 0
    BY DEF LookupInv, NoOrphanState
  <2>2. QED
    BY <2>1 DEF Aside, LookupInv, Registered
<1>4. Lookups'
  <2> SUFFICES ASSUME NEW t \in Calls, calls'[t].step = "lookup"
               PROVE  LookupOK(t)'
    BY DEF Lookups
  <2>1. calls'[t] = calls[t] /\ calls[t].step = "lookup" /\ LookupOK(t)
    BY DEF Aside, LookupInv, Lookups
  <2>2. calls[t].context \in 1 .. Len(contexts)
    BY <1>1, <2>1 DEF TypeOK, References
  <2>3. calls[t] # Idle
    BY <2>1 DEF Idle
  <2>4. calls[t].session \in Sessions
    BY <2>3, CallFacts DEF TypeOK
  <2>5. \A u \in Sessions : sessions'[u] = calls[t].context => sessions[u] = calls[t].context
    BY <1>1, <1>2, <2>2 DEF Aside
  <2>6. contexts'[calls[t].context].pending = contexts[calls[t].context].pending
    BY <2>2 DEF Aside
  <2>7. activatedPaths' = activatedPaths /\ activatingPaths' = activatingPaths
    BY DEF Aside
  <2>8. QED
    BY <2>1, <2>4, <2>5, <2>6, <2>7 DEF LookupOK
<1>5. PendingOK'
  <2> SUFFICES ASSUME NEW c \in 1 .. Len(contexts'), NEW p \in Paths,
                      contexts'[c].pending[p] # Nobody
               PROVE  LET t == contexts'[c].pending[p]
                      IN  /\ calls'[t].step = "lookup" /\ calls'[t].context = c
                          /\ Head(calls'[t].paths) = p
    BY <1>1 DEF PendingOK
  <2>1. c \in 1 .. Len(contexts)
    BY <1>1 DEF Aside
  <2>2. contexts'[c].pending = contexts[c].pending
    BY <2>1 DEF Aside
  <2> DEFINE t == contexts[c].pending[p]
  <2>3. t \in Calls
    <3>1. contexts[c] \in SessionContext
      BY <1>1, <2>1
    <3>2. QED
      BY <2>2, <3>1 DEF SessionContext
  <2>4. calls[t].step = "lookup" /\ calls[t].context = c /\ Head(calls[t].paths) = p
    BY <1>1, <2>1, <2>2 DEF LookupInv, PendingOK
  <2>5. calls'[t] = calls[t]
    BY <2>3, <2>4 DEF Aside
  <2>6. QED
    BY <2>2, <2>4, <2>5
<1>6. NoOrphanState'
  <2>1. \A s \in Sessions : sessions'[s] = 0 => sessions[s] = 0
    BY <1>1, <1>2 DEF Aside
  <2>2. QED
    BY <2>1 DEF Aside, LookupInv, NoOrphanState
<1>7. ActivatedMeansActive'
  <2> SUFFICES ASSUME NEW s \in Sessions, sessions'[s] # 0
               PROVE  contexts'[sessions'[s]].scopes
                        = UNION {ScopesOf[p] : p \in activatedPaths'[s]}
    BY DEF ActivatedMeansActive
  <2>1. activatedPaths' = activatedPaths
    BY DEF Aside
  <2>2. CASE sessions'[s] = sessions[s]
    <3>1. sessions[s] \in 1 .. Len(contexts)
      BY <1>1, <1>2, <2>2
    <3>2. contexts'[sessions[s]].scopes = contexts[sessions[s]].scopes
      BY <3>1 DEF Aside
    <3>3. contexts[sessions[s]].scopes = UNION {ScopesOf[p] : p \in activatedPaths[s]}
      BY <2>2 DEF LookupInv, ActivatedMeansActive
    <3>4. QED
      BY <2>1, <2>2, <3>2, <3>3
  <2>3. CASE sessions[s] = 0 /\ sessions'[s] > Len(contexts)
    <3>1. sessions'[s] \in 1 .. Len(contexts')
      BY <1>1, <1>2
    <3>2. contexts'[sessions'[s]].scopes = {}
      BY <2>3, <3>1 DEF Aside
    <3>3. activatedPaths[s] = {}
      BY <2>3 DEF LookupInv, NoOrphanState
    <3>4. QED
      BY <2>1, <3>2, <3>3
  <2>4. QED
    BY <2>2, <2>3 DEF Aside
<1>8. QED
  BY <1>3, <1>4, <1>5, <1>6, <1>7 DEF LookupInv, Aside

\* An admission gives the session a context no other has.
LEMMA AdmitApart ==
    ASSUME TypeOK, Apart, NEW s \in Sessions, sessions' = [sessions EXCEPT ![s] = ContextOf(s)]
    PROVE  /\ Apart'
           /\ sessions' \in [Sessions -> 0 .. Len(ContextsWith(s))]
           /\ sessions'[s] = ContextOf(s) /\ sessions'[s] # 0
           /\ \A u \in Sessions : u # s => sessions'[u] = sessions[u]
           /\ \A u \in Sessions : \/ sessions'[u] = sessions[u]
                                  \/ sessions[u] = 0 /\ sessions'[u] > Len(contexts)
<1>1. sessions \in [Sessions -> 0 .. Len(contexts)] /\ Len(contexts) \in Nat
  BY ContextsWithFacts DEF TypeOK
<1>2. CASE sessions[s] # 0
  BY <1>1, <1>2, ContextsWithFacts DEF Apart
<1>3. CASE sessions[s] = 0
  BY <1>1, <1>3, ContextsWithFacts DEF Apart
<1>4. QED
  BY <1>2, <1>3

-----------------------------------------------------------------------------
(* Steps of an initialization                                              *)

LEMMA EnqueueFacts ==
    ASSUME TypeOK, NEW s \in Sessions, NEW kind \in Kind, Enqueue(s, kind)
    PROVE  LET n == Len(inits) + 1
           IN  /\ Len(inits) \in Nat
               /\ inits' \in Seq(Initialization) /\ Len(inits') = n
               /\ \A k \in 1 .. Len(inits) : inits'[k] = inits[k]
               /\ inits'[n].session = s /\ inits'[n].context = ContextOf(s)
               /\ inits'[n].after = initializing[s] /\ inits'[n].step = "queued"
               /\ initializing' \in [Sessions -> 0 .. n]
               /\ initializing'[s] = n
               /\ \A u \in Sessions : u # s => initializing'[u] = initializing[u]
<1> DEFINE new == [session |-> s, kind |-> kind, context |-> ContextOf(s),
                   after |-> initializing[s], step |-> "queued", since |-> 0,
                   failed |-> FALSE]
<1>1. ContextOf(s) \in Nat
  BY ContextsWithFacts
<1>2. new \in Initialization
  BY <1>1, OpenCodePluginAssumption DEF TypeOK, Initialization
<1>3. inits' = Append(inits, new) /\ initializing' = [initializing EXCEPT ![s] = Len(inits) + 1]
  BY DEF Enqueue
<1>4. inits \in Seq(Initialization) /\ initializing \in [Sessions -> 0 .. Len(inits)]
  BY DEF TypeOK
<1>5. /\ new.session = s /\ new.context = ContextOf(s)
      /\ new.after = initializing[s] /\ new.step = "queued"
  OBVIOUS
<1> HIDE DEF new
<1>6. QED
  BY <1>2, <1>3, <1>4, <1>5

\* What replacing one initialization leaves.
LEMMA ReplaceInit ==
    ASSUME NEW is \in Seq(Initialization), NEW i \in 1 .. Len(is), NEW x \in Initialization
    PROVE  LET new == [is EXCEPT ![i] = x]
           IN  /\ new \in Seq(Initialization) /\ Len(new) = Len(is)
               /\ new[i] = x
               /\ \A k \in 1 .. Len(is) : k # i => new[k] = is[k]
OBVIOUS

LEMMA AdvanceFacts ==
    ASSUME TypeOK, NEW i \in DOMAIN inits, NEW next \in {"soft", "done"},
           NEW failed \in BOOLEAN, Advance(i, next, failed)
    PROVE  /\ inits' \in Seq(Initialization) /\ Len(inits') = Len(inits)
           /\ \A k \in 1 .. Len(inits) : k # i => inits'[k] = inits[k]
           /\ inits'[i].session = inits[i].session /\ inits'[i].context = inits[i].context
           /\ inits'[i].after = inits[i].after /\ inits'[i].since = inits[i].since
           /\ inits'[i].step = next
           /\ inits'[i].failed = (inits[i].failed \/ failed)
           /\ initializing' \in [Sessions -> 0 .. Len(inits)]
           /\ \A u \in Sessions :
                 \/ initializing'[u] = initializing[u]
                 \/ /\ initializing'[u] = 0 /\ initializing[u] = i
                    /\ next = "done" /\ inits[i].session = u
<1> DEFINE x == [inits[i] EXCEPT !.step = next, !.failed = @ \/ failed]
<1>1. inits \in Seq(Initialization) /\ i \in 1 .. Len(inits) /\ inits[i] \in Initialization
  BY DEF TypeOK
<1>2. inits' = [inits EXCEPT ![i] = x]
  BY DEF Advance
<1>3. /\ x \in Initialization
      /\ x.session = inits[i].session /\ x.context = inits[i].context
      /\ x.after = inits[i].after /\ x.since = inits[i].since /\ x.step = next
  BY <1>1 DEF Initialization
<1>4. x.failed = (inits[i].failed \/ failed)
  BY <1>1, Zenon DEF Initialization
<1> HIDE DEF x
<1>5. /\ inits' \in Seq(Initialization) /\ Len(inits') = Len(inits) /\ inits'[i] = x
      /\ \A k \in 1 .. Len(inits) : k # i => inits'[k] = inits[k]
  BY <1>1, <1>2, <1>3, ReplaceInit
<1>6. /\ initializing' \in [Sessions -> 0 .. Len(inits)]
      /\ \A u \in Sessions :
            \/ initializing'[u] = initializing[u]
            \/ /\ initializing'[u] = 0 /\ initializing[u] = i
               /\ next = "done" /\ inits[i].session = u
  <2>1. inits[i].session \in Sessions /\ initializing \in [Sessions -> 0 .. Len(inits)]
    BY <1>1 DEF TypeOK, Initialization
  <2>2. CASE next = "done" /\ initializing[inits[i].session] = i
    <3>1. initializing' = [initializing EXCEPT ![inits[i].session] = 0]
      BY <2>2 DEF Advance
    <3>2. QED
      BY <2>1, <2>2, <3>1
  <2>3. CASE ~ (next = "done" /\ initializing[inits[i].session] = i)
    <3>1. initializing' = initializing
      BY <2>3 DEF Advance
    <3>2. QED
      BY <2>1, <3>1
  <2>4. QED
    BY <2>2, <2>3
<1>7. QED
  BY <1>3, <1>4, <1>5, <1>6

-----------------------------------------------------------------------------
(* Steps of a tool call                                                    *)

\* The paths looked up when `t` ends its lookup and what the session's context
\* then shows.
LEMMA ReleaseFacts ==
    ASSUME TypeOK, Registered, NEW t \in Calls, calls[t].step = "lookup", LookupOK(t),
           NEW active \in Seq(SessionContext), Len(active) = Len(contexts),
           \A k \in 1 .. Len(contexts) : active[k].pending = contexts[k].pending,
           Release(t, active)
    PROVE  LET c == calls[t].context
               p == Head(calls[t].paths)
               s == calls[t].session
           IN  /\ c \in 1 .. Len(contexts) /\ s \in Sessions /\ p \in Paths
               /\ contexts' \in Seq(SessionContext) /\ Len(contexts') = Len(contexts)
               /\ \A k \in 1 .. Len(contexts) :
                     /\ contexts'[k].scopes = active[k].scopes
                     /\ contexts'[k].hard = active[k].hard
                     /\ \A q \in Paths : contexts'[k].pending[q] =
                           IF k = c /\ q = p THEN Nobody ELSE contexts[k].pending[q]
               /\ activatingPaths' \in [Sessions -> 0 .. Len(contexts)]
               /\ \A u \in Sessions :
                     \/ activatingPaths'[u] = activatingPaths[u]
                     \/ /\ u = s /\ activatingPaths[u] = c /\ activatingPaths'[u] = 0
                        /\ \A q \in Paths : contexts'[c].pending[q] = Nobody
<1> DEFINE c == calls[t].context
           p == Head(calls[t].paths)
           s == calls[t].session
<1>1. c \in 1 .. Len(contexts) /\ calls[t].map = c /\ p \in Paths /\ s \in Sessions
  <2>1. c \in DOMAIN contexts
    BY DEF TypeOK, References
  <2>2. calls[t] \in {Idle} \cup Call /\ calls[t] # Idle
    BY DEF TypeOK, Idle
  <2>3. s \in Sessions
    BY <2>2, CallFacts
  <2>4. QED
    BY <2>1, <2>3 DEF TypeOK, LookupOK
<1>2. active[c].pending[p] = t
  BY <1>1 DEF LookupOK
<1>3. contexts' = [active EXCEPT ![c].pending[p] = Nobody]
  BY <1>1, <1>2 DEF Release
<1>4. /\ contexts' \in Seq(SessionContext) /\ Len(contexts') = Len(contexts)
      /\ \A k \in 1 .. Len(contexts) :
            /\ contexts'[k].scopes = active[k].scopes /\ contexts'[k].hard = active[k].hard
            /\ \A q \in Paths : contexts'[k].pending[q] =
                  IF k = c /\ q = p THEN Nobody ELSE active[k].pending[q]
  <2> DEFINE new == Enter(active, c, p, Nobody)
  <2>1. c \in 1 .. Len(active) /\ Nobody \in Entry
    BY <1>1 DEF Entry
  <2> HIDE DEF c, p
  <2>2. EntersOnly(new, active, c, p, Nobody)
    BY <1>1, <2>1, SetPending, Zenon
  <2>3. contexts' = new
    BY <1>3 DEF Enter
  <2> HIDE DEF new
  <2>4. QED
    BY <2>2, <2>3 DEF EntersOnly
<1>5. activatingPaths \in [Sessions -> 0 .. Len(contexts)]
  BY DEF TypeOK
<1>6. CASE /\ \A q \in Paths : contexts'[c].pending[q] = Nobody
           /\ activatingPaths[s] = c
  <2>1. activatingPaths' = [activatingPaths EXCEPT ![s] = 0]
    BY <1>1, <1>6, Zenon DEF Release
  <2>2. /\ activatingPaths' \in [Sessions -> 0 .. Len(contexts)]
        /\ activatingPaths[s] = c /\ activatingPaths'[s] = 0
        /\ \A u \in Sessions : u # s => activatingPaths'[u] = activatingPaths[u]
    <3> HIDE DEF s, c
    <3>1. activatingPaths[s] = c
      BY <1>6
    <3>2. QED
      BY <1>1, <1>5, <2>1, <3>1
  <2>3. QED
    BY <1>1, <1>4, <1>6, <2>2
<1>7. CASE ~ (/\ \A q \in Paths : contexts'[c].pending[q] = Nobody
              /\ activatingPaths[s] = c)
  <2>1. activatingPaths' = activatingPaths
    BY <1>1, <1>7, Zenon DEF Release
  <2>2. QED
    BY <1>1, <1>4, <1>5, <2>1
<1>8. QED
  BY <1>6, <1>7

\* Those that waited go on, or give up; nobody is left waiting for `t`.
LEMMA ResumeFacts ==
    ASSUME TypeOK, PathsLeft, NEW t \in Calls, calls[t].step = "lookup",
           NEW goOn \in BOOLEAN,
           calls' = [u \in Calls |-> IF u \in Waiting(t)
                                     THEN IF goOn THEN Rest(calls[u]) ELSE Idle
                                     ELSE calls[u]]
    PROVE  /\ calls' \in [Calls -> {Idle} \cup Call] /\ PathsLeft'
           /\ t \in Waiting(t)
           /\ \A u \in Calls : \/ u \notin Waiting(t) /\ calls'[u] = calls[u]
                               \/ /\ calls'[u].step \in {"idle", "next"}
                                  /\ calls[u].step \in {"lookup", "join"}
           /\ \A u \in Calls : calls'[u].step = "join" =>
                 /\ calls'[u] = calls[u] /\ calls[u].on # t
                 /\ calls'[calls[u].on] = calls[calls[u].on]
           /\ \A u \in Calls : calls'[u].step = "lookup" => u # t /\ calls'[u] = calls[u]
<1>1. /\ \A u \in Calls : calls[u] \in {Idle} \cup Call
      /\ \A u \in Waiting(t) : u \in Calls /\ calls[u].step \in {"lookup", "join"}
      /\ t \in Waiting(t)
      /\ \A u \in Waiting(t) : u # t => calls[u].step = "join" /\ calls[u].on = t
  BY DEF TypeOK, Waiting
<1>2. ASSUME NEW u \in Waiting(t)
      PROVE  /\ calls'[u] \in {Idle} \cup Call /\ calls'[u].step \in {"idle", "next"}
             /\ calls'[u] # Idle => calls'[u].paths # <<>>
  <2>1. calls[u] # Idle
    BY <1>1 DEF Idle
  <2>2. /\ calls[u].session \in Sessions /\ calls[u].paths \in Seq(Paths \cup {Outside})
        /\ calls[u].paths # <<>>
    BY <1>1, <2>1, CallFacts DEF PathsLeft
  <2>3. /\ Rest(calls[u]) \in {Idle} \cup Call /\ Rest(calls[u]).step \in {"idle", "next"}
        /\ Rest(calls[u]) # Idle => Rest(calls[u]).paths # <<>>
    BY <2>2, RestType
  <2>4. calls'[u] = IF goOn THEN Rest(calls[u]) ELSE Idle
    BY <1>1
  <2>5. Idle.step = "idle"
    BY DEF Idle
  <2>6. QED
    BY <2>3, <2>4, <2>5
<1>3. \A u \in Calls : u \notin Waiting(t) => calls'[u] = calls[u]
  OBVIOUS
<1>4. calls' \in [Calls -> {Idle} \cup Call]
  <2>1. \A u \in Calls : calls'[u] \in {Idle} \cup Call
    BY <1>1, <1>2, <1>3
  <2>2. calls' = [u \in Calls |-> calls'[u]]
    OBVIOUS
  <2>3. QED
    BY <2>1, <2>2
<1>5. PathsLeft'
  BY <1>2, <1>3 DEF PathsLeft
<1>6. ASSUME NEW u \in Calls, calls'[u].step = "join"
      PROVE  /\ calls'[u] = calls[u] /\ calls[u].on # t
             /\ calls'[calls[u].on] = calls[calls[u].on]
  <2>1. u \notin Waiting(t) /\ calls'[u] = calls[u]
    BY <1>2, <1>3, <1>6
  <2>2. calls[u].on # t
    BY <1>6, <2>1 DEF Waiting
  <2>3. calls[u].on \in Calls /\ calls[calls[u].on].step = "lookup"
    BY <1>1, <1>6, <2>1, CallFacts DEF TypeOK, References
  <2>4. calls[u].on \notin Waiting(t)
    BY <1>1, <2>2, <2>3
  <2>5. QED
    BY <1>3, <2>1, <2>2, <2>3, <2>4
<1>7. \A u \in Calls : calls'[u].step = "lookup" => u # t /\ calls'[u] = calls[u]
  BY <1>1, <1>2, <1>3
<1>8. QED
  BY <1>1, <1>2, <1>3, <1>4, <1>5, <1>6, <1>7

-----------------------------------------------------------------------------
(* Every step keeps the invariant                                          *)

\* A step of an initialization, or one that leaves every table alone.
LEMMA QuietStep ==
    ASSUME TypeOK, LookupInv,
           UNCHANGED <<sessions, activatedPaths, activatingPaths, calls>>,
           Len(contexts') = Len(contexts),
           \A k \in 1 .. Len(contexts) : /\ contexts'[k].pending = contexts[k].pending
                                         /\ contexts'[k].scopes = contexts[k].scopes,
           \A s \in Sessions : sessions[s] = 0 => initializing'[s] = 0
    PROVE  Aside
<1>1. Len(contexts) \in Nat
  BY DEF TypeOK
<1>2. QED
  BY <1>1 DEF Aside, LookupInv, Apart, PathsLeft

\* What TypeOK asks of a step that only moves initializations and requests on.
LEMMA QuietTypes ==
    ASSUME TypeOK,
           host' \in [Sessions -> HostState], version' \in 1 .. MaxVersion,
           UNCHANGED <<sessions, activatedPaths, activatingPaths, calls>>,
           contexts' \in Seq(SessionContext), Len(contexts') = Len(contexts),
           inits' \in Seq(Initialization), Len(inits') = Len(inits),
           \A k \in 1 .. Len(inits) : /\ inits'[k].after = inits[k].after
                                      /\ inits'[k].context = inits[k].context,
           initializing' \in [Sessions -> 0 .. Len(inits)],
           requests' \in [Requests -> {Idle} \cup Request],
           \A r \in Requests : requests'[r].step = "gate" =>
              /\ requests'[r].context \in DOMAIN contexts
              /\ requests'[r].gate \in 0 .. Len(inits)
    PROVE  TypeOK'
<1>1. /\ DOMAIN contexts' = DOMAIN contexts /\ DOMAIN contexts = 1 .. Len(contexts)
      /\ DOMAIN inits' = DOMAIN inits /\ DOMAIN inits = 1 .. Len(inits)
  BY DEF TypeOK
<1>2. References'
  <2>1. \A i \in DOMAIN inits' : inits'[i].after < i /\ inits'[i].context \in DOMAIN contexts'
    BY <1>1 DEF TypeOK, References
  <2>2. \A t \in Calls :
           /\ calls'[t].step = "lookup" =>
                 {calls'[t].context, calls'[t].map} \subseteq DOMAIN contexts'
           /\ calls'[t].step = "join" => calls'[calls'[t].on].step = "lookup"
    BY <1>1 DEF TypeOK, References
  <2>3. QED
    BY <1>1, <2>1, <2>2 DEF References
<1>3. QED
  BY <1>2 DEF TypeOK

LEMMA RequestsSame ==
    ASSUME TypeOK
    PROVE  /\ requests \in [Requests -> {Idle} \cup Request]
           /\ \A r \in Requests : requests[r].step = "gate" =>
                 /\ requests[r].context \in DOMAIN contexts
                 /\ requests[r].gate \in 0 .. Len(inits)
BY DEF TypeOK, References

\* Initializations --------------------------------------------------------

LEMMA NextStepFacts ==
    ASSUME TypeOK, NEW i \in DOMAIN inits
    PROVE  /\ AfterHard(i) \in {"soft", "done"}
           /\ inits[i].session \in Sessions
           /\ sessions[inits[i].session] \in 0 .. Len(contexts)
           /\ inits[i].since \in 0 .. MaxVersion
           /\ inits[i].since .. version \subseteq 0 .. MaxVersion
<1>1. inits[i] \in Initialization
  BY DEF TypeOK
<1>2. inits[i].session \in Sessions /\ inits[i].since \in 0 .. MaxVersion
  BY <1>1 DEF Initialization
<1>3. /\ version \in 1 .. MaxVersion /\ MaxVersion \in Nat
      /\ sessions[inits[i].session] \in 0 .. Len(contexts)
  BY <1>2, OpenCodePluginAssumption DEF TypeOK
<1>4. \A v \in inits[i].since .. version : v \in 0 .. MaxVersion
  BY <1>2, <1>3
<1>5. AfterHard(i) \in {"soft", "done"}
  BY DEF AfterHard
<1>6. QED
  BY <1>2, <1>3, <1>4, <1>5

\* An initialization that goes on keeps the invariant, whatever it has done to
\* its session's context.
LEMMA AdvanceKeeps ==
    ASSUME Inv, NEW i \in DOMAIN inits, NEW next \in {"soft", "done"}, NEW failed \in BOOLEAN,
           Advance(i, next, failed),
           contexts' \in Seq(SessionContext), Len(contexts') = Len(contexts),
           \A k \in 1 .. Len(contexts) : /\ contexts'[k].pending = contexts[k].pending
                                         /\ contexts'[k].scopes = contexts[k].scopes,
           UNCHANGED <<host, version, sessions, activatedPaths, activatingPaths, calls, requests>>
    PROVE  Inv'
<1>1. TypeOK /\ LookupInv
  BY DEF Inv
<1>2. /\ inits' \in Seq(Initialization) /\ Len(inits') = Len(inits)
      /\ \A k \in 1 .. Len(inits) : k # i => inits'[k] = inits[k]
      /\ inits'[i].context = inits[i].context /\ inits'[i].after = inits[i].after
      /\ initializing' \in [Sessions -> 0 .. Len(inits)]
      /\ \A u \in Sessions : initializing'[u] = initializing[u] \/ initializing'[u] = 0
  BY <1>1, AdvanceFacts
<1>3. TypeOK'
  BY <1>1, <1>2, QuietTypes, RequestsSame DEF TypeOK
<1>4. Aside
  BY <1>1, <1>2, QuietStep DEF LookupInv, NoOrphanState
<1>5. QED
  BY <1>1, <1>3, <1>4, AsideKeeps DEF Inv

LEMMA BeginInitKeeps ==
    ASSUME Inv, NEW i \in DOMAIN inits, BeginInit(i)
    PROVE  Inv'
<1>1. TypeOK /\ LookupInv
  BY DEF Inv
<1>2. contexts \in Seq(SessionContext)
  BY <1>1 DEF TypeOK
<1>3. CASE sessions[inits[i].session] = 0
  <2>1. /\ Advance(i, AfterHard(i), FALSE)
        /\ UNCHANGED <<host, version, sessions, contexts, activatedPaths, activatingPaths,
                       calls, requests>>
    BY <1>3 DEF BeginInit
  <2>2. QED
    BY <1>1, <1>2, <2>1, AdvanceKeeps, NextStepFacts
<1>4. CASE sessions[inits[i].session] # 0
  <2> DEFINE x == [inits[i] EXCEPT !.step = "hard", !.since = version]
  <2>1. /\ inits' = [inits EXCEPT ![i] = x] /\ initializing' = initializing
        /\ UNCHANGED <<host, version, sessions, contexts, activatedPaths, activatingPaths,
                       calls, requests>>
    BY <1>4 DEF BeginInit
  <2>2. inits \in Seq(Initialization) /\ i \in 1 .. Len(inits) /\ inits[i] \in Initialization
        /\ version \in 0 .. MaxVersion
    BY <1>1, OpenCodePluginAssumption DEF TypeOK
  <2>3. x \in Initialization /\ x.context = inits[i].context /\ x.after = inits[i].after
    BY <2>2 DEF Initialization
  <2> HIDE DEF x
  <2>4. /\ inits' \in Seq(Initialization) /\ Len(inits') = Len(inits) /\ inits'[i] = x
        /\ \A k \in 1 .. Len(inits) : k # i => inits'[k] = inits[k]
    BY <2>1, <2>2, <2>3, ReplaceInit
  <2>5. TypeOK'
    BY <1>1, <1>2, <2>1, <2>3, <2>4, QuietTypes, RequestsSame DEF TypeOK
  <2>6. Aside
    BY <1>1, <2>1, QuietStep DEF LookupInv, NoOrphanState
  <2>7. QED
    BY <1>1, <2>5, <2>6, AsideKeeps DEF Inv
<1>5. QED
  BY <1>3, <1>4

LEMMA HardReturnsKeeps ==
    ASSUME Inv, NEW i \in DOMAIN inits, HardReturns(i)
    PROVE  Inv'
<1> DEFINE c == sessions[inits[i].session]
<1>1. TypeOK /\ contexts \in Seq(SessionContext)
  BY DEF Inv, TypeOK
<1>2. PICK v \in inits[i].since .. version :
        contexts' = IF c = 0 THEN contexts ELSE [contexts EXCEPT ![c].hard = v]
  BY DEF HardReturns
<1>3. v \in 0 .. MaxVersion /\ c \in 0 .. Len(contexts)
  BY <1>1, NextStepFacts
<1> HIDE DEF c
<1>4. /\ contexts' \in Seq(SessionContext) /\ Len(contexts') = Len(contexts)
      /\ \A k \in 1 .. Len(contexts) : /\ contexts'[k].pending = contexts[k].pending
                                       /\ contexts'[k].scopes = contexts[k].scopes
  <2>1. CASE c = 0
    BY <1>1, <1>2, <2>1
  <2>2. CASE c # 0
    <3>1. c \in 1 .. Len(contexts)
      BY <1>1, <1>3, <2>2
    <3>2. QED
      BY <1>1, <1>2, <1>3, <2>2, <3>1, SetHard
  <2>3. QED
    BY <2>1, <2>2
<1>5. /\ Advance(i, AfterHard(i), FALSE)
      /\ UNCHANGED <<host, version, sessions, activatedPaths, activatingPaths, calls, requests>>
  BY DEF HardReturns
<1>6. QED
  BY <1>1, <1>4, <1>5, AdvanceKeeps, NextStepFacts

LEMMA SoftReturnsKeeps ==
    ASSUME Inv, NEW i \in DOMAIN inits, SoftReturns(i)
    PROVE  Inv'
<1> DEFINE c == sessions[inits[i].session]
<1>1. TypeOK /\ contexts \in Seq(SessionContext)
  BY DEF Inv, TypeOK
<1>2. contexts' = IF c = 0 THEN contexts
                  ELSE [contexts EXCEPT ![c].events = contexts[c].events + 1]
  BY DEF SoftReturns
<1>3. c \in 0 .. Len(contexts)
  BY <1>1, NextStepFacts
<1> HIDE DEF c
<1>4. /\ contexts' \in Seq(SessionContext) /\ Len(contexts') = Len(contexts)
      /\ \A k \in 1 .. Len(contexts) : /\ contexts'[k].pending = contexts[k].pending
                                       /\ contexts'[k].scopes = contexts[k].scopes
  <2>1. CASE c = 0
    BY <1>1, <1>2, <2>1
  <2>2. CASE c # 0
    <3> DEFINE n == contexts[c].events + 1
    <3>1. c \in 1 .. Len(contexts)
      BY <1>1, <1>3, <2>2
    <3>2. n \in Nat
      <4>1. contexts[c] \in SessionContext
        BY <1>1, <3>1
      <4>2. QED
        BY <4>1 DEF SessionContext
    <3>3. contexts' = [contexts EXCEPT ![c].events = n]
      BY <1>2, <2>2
    <3> HIDE DEF n
    <3>4. QED
      BY <1>1, <3>1, <3>2, <3>3, SetEvents
  <2>3. QED
    BY <2>1, <2>2
<1>5. /\ Advance(i, "done", FALSE)
      /\ UNCHANGED <<host, version, sessions, activatedPaths, activatingPaths, calls, requests>>
  BY DEF SoftReturns
<1>6. QED
  BY <1>1, <1>4, <1>5, AdvanceKeeps

LEMMA InitFailsKeeps ==
    ASSUME Inv, NEW i \in DOMAIN inits, InitFails(i)
    PROVE  Inv'
<1> DEFINE next == IF inits[i].step = "hard" THEN AfterHard(i) ELSE "done"
<1>1. TypeOK /\ contexts \in Seq(SessionContext)
  BY DEF Inv, TypeOK
<1>2. next \in {"soft", "done"}
  BY <1>1, NextStepFacts
<1>3. /\ Advance(i, next, TRUE)
      /\ UNCHANGED <<host, version, sessions, contexts, activatedPaths, activatingPaths,
                     calls, requests>>
  BY DEF InitFails
<1> HIDE DEF next
<1>4. QED
  BY <1>1, <1>2, <1>3, AdvanceKeeps

\* Requests and the memory -------------------------------------------------

LEMMA RequestFacts ==
    ASSUME TypeOK, NEW r \in Requests, Open(r)
    PROVE  /\ requests[r].context \in 1 .. Len(contexts)
           /\ [requests EXCEPT ![r] = Idle] \in [Requests -> {Idle} \cup Request]
           /\ \A u \in Requests : [requests EXCEPT ![r] = Idle][u].step = "gate" =>
                 /\ u # r /\ [requests EXCEPT ![r] = Idle][u] = requests[u]
BY DEF TypeOK, References, Open, Idle

LEMMA BeginRequestKeeps ==
    ASSUME Inv, NEW r \in Requests, NEW s \in Sessions, BeginRequest(r, s)
    PROVE  Inv'
<1> DEFINE x == [step |-> "gate", session |-> s, context |-> sessions[s],
                 gate |-> initializing[s], asked |-> Len(inits)]
<1>1. TypeOK /\ LookupInv /\ contexts \in Seq(SessionContext) /\ inits \in Seq(Initialization)
  BY DEF Inv, TypeOK
<1>2. /\ requests' = [requests EXCEPT ![r] = x] /\ sessions[s] # 0
      /\ UNCHANGED <<host, version, sessions, contexts, activatedPaths, activatingPaths,
                     initializing, inits, calls>>
  BY DEF BeginRequest
<1>3. sessions[s] \in 0 .. Len(contexts) /\ initializing[s] \in 0 .. Len(inits)
  BY <1>1 DEF TypeOK
<1>4. Len(contexts) \in Nat /\ Len(inits) \in Nat /\ DOMAIN contexts = 1 .. Len(contexts)
  BY <1>1
<1>5. x \in Request /\ x.context \in DOMAIN contexts /\ x.gate \in 0 .. Len(inits)
  BY <1>2, <1>3, <1>4 DEF Request
<1> HIDE DEF x
<1>6. /\ requests' \in [Requests -> {Idle} \cup Request] /\ requests'[r] = x
      /\ \A u \in Requests : u # r => requests'[u] = requests[u]
  BY <1>1, <1>2, <1>5 DEF TypeOK
<1>7. \A u \in Requests : requests'[u].step = "gate" =>
         requests'[u].context \in DOMAIN contexts /\ requests'[u].gate \in 0 .. Len(inits)
  BY <1>1, <1>5, <1>6, RequestsSame
<1>8. TypeOK'
  BY <1>1, <1>2, <1>6, <1>7, QuietTypes DEF TypeOK
<1>9. Aside
  BY <1>1, <1>2, QuietStep DEF LookupInv, NoOrphanState
<1>10. QED
  BY <1>1, <1>8, <1>9, AsideKeeps DEF Inv

LEMMA RenderKeeps ==
    ASSUME Inv, NEW r \in Requests, Render(r) \/ PassThrough(r)
    PROVE  Inv'
<1>1. TypeOK /\ LookupInv /\ contexts \in Seq(SessionContext) /\ inits \in Seq(Initialization)
  BY DEF Inv, TypeOK
<1>2. /\ Open(r) /\ requests' = [requests EXCEPT ![r] = Idle]
      /\ contexts' = contexts \/ contexts' = [contexts EXCEPT ![requests[r].context].events = 0]
      /\ UNCHANGED <<host, version, sessions, activatedPaths, activatingPaths,
                     initializing, inits, calls>>
  BY DEF Render, PassThrough
<1>3. /\ contexts' \in Seq(SessionContext) /\ Len(contexts') = Len(contexts)
      /\ \A k \in 1 .. Len(contexts) : /\ contexts'[k].pending = contexts[k].pending
                                       /\ contexts'[k].scopes = contexts[k].scopes
  <2>1. CASE contexts' = contexts
    BY <1>1, <2>1
  <2>2. CASE contexts' = [contexts EXCEPT ![requests[r].context].events = 0]
    <3> DEFINE c == requests[r].context
    <3>1. c \in 1 .. Len(contexts)
      BY <1>1, <1>2, RequestFacts
    <3> DEFINE n == 0
    <3>2. contexts' = [contexts EXCEPT ![c].events = n] /\ n \in Nat
      BY <2>2
    <3> HIDE DEF c, n
    <3>3. QED
      BY <1>1, <3>1, <3>2, SetEvents
  <2>3. QED
    BY <1>2, <2>1, <2>2
<1>4. /\ requests' \in [Requests -> {Idle} \cup Request]
      /\ \A u \in Requests : requests'[u].step = "gate" =>
            requests'[u].context \in DOMAIN contexts /\ requests'[u].gate \in 0 .. Len(inits)
  BY <1>1, <1>2, RequestFacts, RequestsSame
<1>5. TypeOK'
  BY <1>1, <1>2, <1>3, <1>4, QuietTypes DEF TypeOK
<1>6. Aside
  BY <1>1, <1>2, <1>3, QuietStep DEF LookupInv, NoOrphanState
<1>7. QED
  BY <1>1, <1>5, <1>6, AsideKeeps DEF Inv

LEMMA QuietKeeps ==
    ASSUME Inv,
           version' \in 1 .. MaxVersion,
           UNCHANGED <<host, sessions, contexts, activatedPaths, activatingPaths,
                       initializing, inits, calls, requests>>
    PROVE  Inv'
<1>1. TypeOK /\ LookupInv
  BY DEF Inv
<1>2. TypeOK'
  BY <1>1, QuietTypes, RequestsSame DEF TypeOK
<1>3. Aside
  BY <1>1, QuietStep DEF LookupInv, NoOrphanState
<1>4. QED
  BY <1>1, <1>2, <1>3, AsideKeeps DEF Inv

LEMMA CompactedKeeps ==
    ASSUME Inv, NEW s \in Sessions, Compacted(s)
    PROVE  Inv'
<1>1. TypeOK /\ LookupInv /\ contexts \in Seq(SessionContext) /\ Len(inits) \in Nat
  BY DEF Inv, TypeOK
<1>2. /\ sessions[s] # 0 /\ Enqueue(s, "compacted")
      /\ UNCHANGED <<host, version, sessions, contexts, activatedPaths, activatingPaths,
                     calls, requests>>
  BY DEF Compacted
<1>3. /\ inits' \in Seq(Initialization) /\ Len(inits') = Len(inits) + 1
      /\ \A k \in 1 .. Len(inits) : inits'[k] = inits[k]
      /\ inits'[Len(inits) + 1].context = ContextOf(s)
      /\ inits'[Len(inits) + 1].after = initializing[s]
      /\ initializing' \in [Sessions -> 0 .. Len(inits) + 1]
      /\ \A u \in Sessions : u # s => initializing'[u] = initializing[u]
  BY <1>1, <1>2, EnqueueFacts DEF Kind
<1>4. ContextOf(s) \in 1 .. Len(contexts) /\ initializing[s] \in 0 .. Len(inits)
  BY <1>1, <1>2, ContextsWithFacts DEF TypeOK
<1>5. TypeOK'
  <2>1. ASSUME NEW k \in DOMAIN inits'
        PROVE  inits'[k].after < k /\ inits'[k].context \in DOMAIN contexts'
    <3>1. CASE k \in DOMAIN inits
      <4>1. inits[k].after < k /\ inits[k].context \in DOMAIN contexts
        BY <1>1, <3>1 DEF TypeOK, References
      <4>2. inits'[k] = inits[k]
        BY <1>1, <1>3, <3>1 DEF TypeOK
      <4>3. QED
        BY <1>2, <4>1, <4>2
    <3>2. CASE k \notin DOMAIN inits
      <4>1. k = Len(inits) + 1
        BY <1>1, <1>3, <3>2 DEF TypeOK
      <4>2. QED
        BY <1>1, <1>2, <1>3, <1>4, <4>1
    <3>3. QED
      BY <3>1, <3>2
  <2>2. \A t \in Calls :
           /\ calls'[t].step = "lookup" =>
                 {calls'[t].context, calls'[t].map} \subseteq DOMAIN contexts'
           /\ calls'[t].step = "join" => calls'[calls'[t].on].step = "lookup"
    BY <1>1, <1>2 DEF TypeOK, References
  <2>3. \A r \in Requests : requests'[r].step = "gate" =>
           requests'[r].context \in DOMAIN contexts' /\ requests'[r].gate \in 0 .. Len(inits')
    BY <1>1, <1>2, <1>3, RequestsSame
  <2>4. References'
    BY <2>1, <2>2, <2>3 DEF References
  <2>5. QED
    BY <1>1, <1>2, <1>3, <2>4 DEF TypeOK
<1>6. Aside
  BY <1>1, <1>2, <1>3, QuietStep DEF LookupInv, NoOrphanState
<1>7. QED
  BY <1>1, <1>5, <1>6, AsideKeeps DEF Inv

LEMMA CreatedKeeps ==
    ASSUME Inv, NEW s \in Sessions, Created(s)
    PROVE  Inv'
<1>1. TypeOK /\ LookupInv /\ contexts \in Seq(SessionContext) /\ Len(inits) \in Nat
      /\ Len(contexts) \in Nat
  BY DEF Inv, TypeOK
<1>2. /\ host' \in [Sessions -> HostState]
      /\ UNCHANGED <<version, activatedPaths, activatingPaths, calls, requests>>
  BY <1>1 DEF Created, TypeOK, HostState
<1>3. CASE Refused(s)
  <2>1. UNCHANGED <<sessions, contexts, initializing, inits>>
    BY <1>3 DEF Created
  <2>2. TypeOK'
    BY <1>1, <1>2, <2>1, QuietTypes, RequestsSame DEF TypeOK
  <2>3. Aside
    BY <1>1, <1>2, <2>1, QuietStep DEF LookupInv, NoOrphanState
  <2>4. QED
    BY <1>1, <2>2, <2>3, AsideKeeps DEF Inv
<1>4. CASE ~ Refused(s)
  <2>1. /\ contexts' = ContextsWith(s) /\ sessions' = [sessions EXCEPT ![s] = ContextOf(s)]
        /\ Enqueue(s, "created")
    BY <1>4 DEF Created
  <2>2. /\ inits' \in Seq(Initialization) /\ Len(inits') = Len(inits) + 1
        /\ \A k \in 1 .. Len(inits) : inits'[k] = inits[k]
        /\ inits'[Len(inits) + 1].context = ContextOf(s)
        /\ inits'[Len(inits) + 1].after = initializing[s]
        /\ initializing' \in [Sessions -> 0 .. Len(inits) + 1]
        /\ \A u \in Sessions : u # s => initializing'[u] = initializing[u]
    BY <1>1, <2>1, EnqueueFacts DEF Kind
  <2>3. /\ contexts' \in Seq(SessionContext) /\ Len(contexts') \in Nat
        /\ ContextOf(s) \in 1 .. Len(contexts')
        /\ Len(contexts) <= Len(contexts')
        /\ \A k \in 1 .. Len(contexts) : contexts'[k] = contexts[k]
        /\ \A k \in 1 .. Len(contexts') : k > Len(contexts) => contexts'[k] = NewContext
    BY <1>1, <2>1, ContextsWithFacts
  <2>4. /\ Apart' /\ sessions' \in [Sessions -> 0 .. Len(contexts')] /\ sessions'[s] # 0
        /\ \A u \in Sessions : u # s => sessions'[u] = sessions[u]
        /\ \A u \in Sessions : \/ sessions'[u] = sessions[u]
                               \/ sessions[u] = 0 /\ sessions'[u] > Len(contexts)
    BY <1>1, <2>1, AdmitApart DEF LookupInv
  <2>5. TypeOK'
    <3>1. initializing[s] \in 0 .. Len(inits)
      BY <1>1 DEF TypeOK
    <3>2. ASSUME NEW k \in DOMAIN inits'
          PROVE  inits'[k].after < k /\ inits'[k].context \in DOMAIN contexts'
      <4>1. CASE k \in DOMAIN inits
        <5>1. inits[k].after < k /\ inits[k].context \in DOMAIN contexts
          BY <1>1, <4>1 DEF TypeOK, References
        <5>2. inits'[k] = inits[k]
          <6>1. k \in 1 .. Len(inits)
            BY <4>1 DEF Inv, TypeOK
          <6>2. QED
            BY <2>2, <6>1
        <5>3. DOMAIN contexts \subseteq DOMAIN contexts'
          BY <1>1, <2>3
        <5>4. QED
          BY <5>1, <5>2, <5>3
      <4>2. CASE k \notin DOMAIN inits
        <5>1. k = Len(inits) + 1
          BY <1>1, <2>2, <4>2 DEF TypeOK
        <5>2. DOMAIN contexts' = 1 .. Len(contexts')
          BY <2>3
        <5>3. QED
          BY <1>1, <2>2, <2>3, <3>1, <5>1, <5>2
      <4>3. QED
        BY <4>1, <4>2
    <3>3. \A t \in Calls :
             /\ calls'[t].step = "lookup" =>
                   {calls'[t].context, calls'[t].map} \subseteq DOMAIN contexts'
             /\ calls'[t].step = "join" => calls'[calls'[t].on].step = "lookup"
      BY <1>1, <1>2, <2>3 DEF TypeOK, References
    <3>4. \A r \in Requests : requests'[r].step = "gate" =>
             requests'[r].context \in DOMAIN contexts' /\ requests'[r].gate \in 0 .. Len(inits')
      BY <1>1, <1>2, <2>2, <2>3, RequestsSame
    <3>5. References'
      BY <3>2, <3>3, <3>4 DEF References
    <3>6. activatingPaths' \in [Sessions -> 0 .. Len(contexts')]
      BY <1>1, <1>2, <2>3 DEF TypeOK
    <3>7. QED
      BY <1>1, <1>2, <2>2, <2>3, <2>4, <3>5, <3>6 DEF TypeOK
  <2>6. Aside
    <3>1. \A u \in Sessions : sessions'[u] = 0 => initializing'[u] = 0
      BY <1>1, <2>2, <2>4 DEF LookupInv, NoOrphanState
    <3>2. PathsLeft' /\ calls' = calls
      BY <1>1, <1>2 DEF LookupInv, PathsLeft
    <3>3. NewContext.scopes = {} /\ \A p \in Paths : NewContext.pending[p] = Nobody
      BY DEF NewContext
    <3>4. QED
      BY <1>2, <2>3, <2>4, <3>1, <3>2, <3>3 DEF Aside
  <2>7. QED
    BY <1>1, <2>5, <2>6, AsideKeeps DEF Inv
<1>5. QED
  BY <1>3, <1>4

LEMMA DeletedKeeps ==
    ASSUME Inv, NEW s \in Sessions, Deleted(s)
    PROVE  Inv'
<1>1. TypeOK /\ LookupInv /\ contexts \in Seq(SessionContext)
  BY DEF Inv, TypeOK
<1>2. /\ host' = [host EXCEPT ![s] = "deleted"]
      /\ sessions' = [sessions EXCEPT ![s] = 0]
      /\ activatedPaths' = [activatedPaths EXCEPT ![s] = {}]
      /\ activatingPaths' = [activatingPaths EXCEPT ![s] = 0]
      /\ initializing' = [initializing EXCEPT ![s] = 0]
      /\ UNCHANGED <<version, contexts, inits, calls, requests>>
  BY DEF Deleted
<1>3. TypeOK'
  <2>1. References'
    BY <1>1, <1>2 DEF TypeOK, References
  <2>2. host' \in [Sessions -> HostState] /\ activatedPaths' \in [Sessions -> SUBSET Paths]
    BY <1>1, <1>2 DEF TypeOK, HostState
  <2>3. /\ sessions' \in [Sessions -> 0 .. Len(contexts)]
        /\ activatingPaths' \in [Sessions -> 0 .. Len(contexts)]
        /\ initializing' \in [Sessions -> 0 .. Len(inits)]
    BY <1>1, <1>2 DEF TypeOK
  <2>4. QED
    BY <1>1, <1>2, <2>1, <2>2, <2>3 DEF TypeOK
<1>4. /\ sessions'[s] = 0 /\ activatedPaths'[s] = {}
      /\ activatingPaths'[s] = 0 /\ initializing'[s] = 0
      /\ \A u \in Sessions : u # s => /\ sessions'[u] = sessions[u]
                                      /\ activatedPaths'[u] = activatedPaths[u]
                                      /\ activatingPaths'[u] = activatingPaths[u]
                                      /\ initializing'[u] = initializing[u]
  BY <1>1, <1>2 DEF TypeOK
<1>5. PathsLeft' /\ PendingOK'
  BY <1>1, <1>2 DEF LookupInv, PathsLeft, PendingOK
<1>6. Apart' /\ Registered' /\ NoOrphanState'
  BY <1>1, <1>4 DEF LookupInv, Apart, Registered, NoOrphanState
<1>7. ActivatedMeansActive'
  BY <1>1, <1>2, <1>4, Zenon DEF LookupInv, ActivatedMeansActive
<1>8. Lookups'
  <2> SUFFICES ASSUME NEW t \in Calls, calls'[t].step = "lookup"
               PROVE  LookupOK(t)'
    BY DEF Lookups
  <2>1. LookupOK(t) /\ calls' = calls /\ contexts' = contexts
    BY <1>1, <1>2 DEF LookupInv, Lookups
  <2>2. calls[t].context # 0 /\ calls[t].session \in Sessions
    <3>1. calls[t].context \in DOMAIN contexts
      BY <1>2 DEF Inv, TypeOK, References
    <3>2. calls[t] \in {Idle} \cup Call /\ calls[t] # Idle
      BY <1>1, <1>2 DEF TypeOK, Idle
    <3>3. QED
      BY <1>1, <3>1, <3>2, CallFacts
  <2>3. QED
    BY <1>4, <2>1, <2>2 DEF LookupOK
<1>9. QED
  BY <1>3, <1>5, <1>6, <1>7, <1>8 DEF Inv, LookupInv

\* Tool calls --------------------------------------------------------------

LEMMA JoinsSame ==
    ASSUME TypeOK, NEW t \in Calls, calls[t].step # "lookup",
           calls' \in [Calls -> {Idle} \cup Call],
           \A u \in Calls : u # t => calls'[u] = calls[u],
           calls'[t].step = "lookup" =>
              {calls'[t].context, calls'[t].map} \subseteq 1 .. Len(contexts'),
           calls'[t].step = "join" => calls[calls'[t].on].step = "lookup",
           contexts' \in Seq(SessionContext), Len(contexts) <= Len(contexts'),
           UNCHANGED <<inits, requests>>
    PROVE  References'
<1>1. /\ DOMAIN contexts = 1 .. Len(contexts) /\ DOMAIN contexts' = 1 .. Len(contexts')
      /\ DOMAIN contexts \subseteq DOMAIN contexts'
  BY DEF TypeOK
<1>2. \A u \in Calls : /\ calls[u] \in {Idle} \cup Call
                       /\ calls'[u] \in {Idle} \cup Call
  BY DEF TypeOK
<1>3. ASSUME NEW u \in Calls, calls'[u].step = "join"
      PROVE  calls'[calls'[u].on].step = "lookup"
  <2>1. calls'[u].on \in Calls
    BY <1>2, <1>3, CallFacts
  <2>2. calls[calls'[u].on].step = "lookup"
    BY <1>3 DEF TypeOK, References
  <2>3. QED
    BY <2>1, <2>2
<1>4. ASSUME NEW u \in Calls, calls'[u].step = "lookup"
      PROVE  {calls'[u].context, calls'[u].map} \subseteq DOMAIN contexts'
  BY <1>1, <1>4 DEF TypeOK, References
<1>5. QED
  BY <1>1, <1>3, <1>4 DEF TypeOK, References

\* A step of one call that neither begins nor ends a lookup.
LEMMA CallStepKeeps ==
    ASSUME Inv, NEW t \in Calls, calls[t].step # "lookup",
           NEW x \in {Idle} \cup Call, x.step # "lookup", x # Idle => x.paths # <<>>,
           x.step = "join" => calls[x.on].step = "lookup",
           calls' = [calls EXCEPT ![t] = x],
           contexts' \in Seq(SessionContext), Len(contexts) <= Len(contexts'),
           \A k \in 1 .. Len(contexts) : contexts'[k] = contexts[k],
           \A k \in 1 .. Len(contexts') : k > Len(contexts) => contexts'[k] = NewContext,
           sessions' \in [Sessions -> 0 .. Len(contexts')], Apart',
           \A u \in Sessions : \/ sessions'[u] = sessions[u]
                               \/ sessions[u] = 0 /\ sessions'[u] > Len(contexts),
           UNCHANGED <<host, version, activatedPaths, activatingPaths, initializing,
                       inits, requests>>
    PROVE  Inv'
<1>1. TypeOK /\ LookupInv /\ contexts \in Seq(SessionContext) /\ Len(contexts) \in Nat
  BY DEF Inv, TypeOK
<1>2. /\ calls' \in [Calls -> {Idle} \cup Call] /\ calls'[t] = x
      /\ \A u \in Calls : u # t => calls'[u] = calls[u]
  BY <1>1 DEF TypeOK
<1>3. References'
  BY <1>1, <1>2, JoinsSame
<1>4. TypeOK'
  BY <1>1, <1>2, <1>3 DEF TypeOK
<1>5. Aside
  <2>1. PathsLeft'
    BY <1>1, <1>2 DEF LookupInv, PathsLeft
  <2>2. \A u \in Sessions : sessions'[u] = 0 => initializing'[u] = 0
    BY <1>1 DEF LookupInv, NoOrphanState
  <2>3. NewContext.scopes = {} /\ \A p \in Paths : NewContext.pending[p] = Nobody
    BY DEF NewContext
  <2>4. QED
    BY <1>2, <2>1, <2>2, <2>3 DEF Aside
<1>6. QED
  BY <1>1, <1>4, <1>5, AsideKeeps DEF Inv

LEMMA BeginCallKeeps ==
    ASSUME Inv, NEW t \in Calls, NEW s \in Sessions, NEW paths \in PathLists,
           BeginCall(t, s, paths)
    PROVE  Inv'
<1> DEFINE cut == IF Len(paths) > MaxScopeActivations
                  THEN SubSeq(paths, 1, MaxScopeActivations) ELSE paths
           x == [step |-> "next", session |-> s, paths |-> cut]
<1>1. TypeOK /\ LookupInv /\ contexts \in Seq(SessionContext) /\ Len(contexts) \in Nat
  BY DEF Inv, TypeOK
<1>2. /\ calls[t] = Idle /\ calls' = [calls EXCEPT ![t] = x]
      /\ UNCHANGED <<host, version, sessions, contexts, activatedPaths, activatingPaths,
                     initializing, inits, requests>>
  BY DEF BeginCall
<1>3. paths \in Seq(Paths \cup {Outside}) /\ paths # <<>> /\ MaxScopeActivations \in Nat \ {0}
  BY OpenCodePluginAssumption
<1>4. cut \in Seq(Paths \cup {Outside}) /\ cut # <<>>
  <2>1. CASE Len(paths) > MaxScopeActivations
    <3>1. /\ SubSeq(paths, 1, MaxScopeActivations) \in Seq(Paths \cup {Outside})
          /\ Len(SubSeq(paths, 1, MaxScopeActivations)) = MaxScopeActivations
      BY <1>3, <2>1, SubSeqProperties
    <3>2. Len(<<>>) = 0
      OBVIOUS
    <3>3. Len(SubSeq(paths, 1, MaxScopeActivations)) # Len(<<>>)
      BY <1>3, <3>1, <3>2
    <3>4. SubSeq(paths, 1, MaxScopeActivations) # <<>>
      BY <3>3, Zenon
    <3>5. QED
      BY <2>1, <3>1, <3>4
  <2>2. CASE ~ (Len(paths) > MaxScopeActivations)
    BY <1>3, <2>2
  <2>3. QED
    BY <2>1, <2>2
<1> HIDE DEF cut
<1>5. x \in Call /\ x.step = "next" /\ x.paths = cut
  BY <1>4 DEF Call
<1>6. Idle.step = "idle"
  BY DEF Idle
<1> HIDE DEF x
<1>7. Apart' /\ sessions' \in [Sessions -> 0 .. Len(contexts')]
  BY <1>1, <1>2 DEF LookupInv, Apart, TypeOK
<1>8. /\ contexts' \in Seq(SessionContext) /\ Len(contexts) <= Len(contexts')
      /\ \A k \in 1 .. Len(contexts) : contexts'[k] = contexts[k]
      /\ \A k \in 1 .. Len(contexts') : k > Len(contexts) => contexts'[k] = NewContext
      /\ \A u \in Sessions : \/ sessions'[u] = sessions[u]
                             \/ sessions[u] = 0 /\ sessions'[u] > Len(contexts)
  BY <1>1, <1>2
<1>9. x \in {Idle} \cup Call /\ x.step # "lookup" /\ x.step # "join" /\ x.paths # <<>>
  BY <1>4, <1>5
<1>10. QED
  BY <1>2, <1>6, <1>7, <1>8, <1>9, CallStepKeeps

\* What a hook that has a path to see to is.
LEMMA NextFacts ==
    ASSUME Inv, NEW t \in Calls, calls[t].step \in {"next", "lookup"}
    PROVE  /\ calls[t].session \in Sessions
           /\ calls[t].paths \in Seq(Paths \cup {Outside}) /\ calls[t].paths # <<>>
           /\ Head(calls[t].paths) \in Paths \cup {Outside}
           /\ Rest(calls[t]) \in {Idle} \cup Call /\ Rest(calls[t]).step \in {"idle", "next"}
           /\ Rest(calls[t]) # Idle => Rest(calls[t]).paths # <<>>
<1>1. calls[t] \in {Idle} \cup Call /\ calls[t] # Idle
  BY DEF Inv, TypeOK, Idle
<1>2. /\ calls[t].session \in Sessions
      /\ calls[t].paths \in Seq(Paths \cup {Outside}) /\ calls[t].paths # <<>>
  BY <1>1, CallFacts DEF Inv, LookupInv, PathsLeft
<1>3. Head(calls[t].paths) \in Paths \cup {Outside}
  BY <1>2, HeadTailProperties
<1>4. QED
  BY <1>2, <1>3, RestType

LEMMA SkipPathKeeps ==
    ASSUME Inv, NEW t \in Calls, SkipPath(t)
    PROVE  Inv'
<1>1. TypeOK /\ LookupInv /\ contexts \in Seq(SessionContext) /\ Len(contexts) \in Nat
  BY DEF Inv, TypeOK
<1>2. /\ calls[t].step = "next" /\ calls' = [calls EXCEPT ![t] = Rest(calls[t])]
      /\ UNCHANGED <<host, version, sessions, contexts, activatedPaths, activatingPaths,
                     initializing, inits, requests>>
  BY DEF SkipPath
<1> DEFINE x == Rest(calls[t])
<1>3. x \in {Idle} \cup Call /\ x.step \in {"idle", "next"} /\ (x # Idle => x.paths # <<>>)
  BY <1>2, NextFacts
<1>4. calls' = [calls EXCEPT ![t] = x]
  BY <1>2
<1> HIDE DEF x
<1>5. Apart' /\ sessions' \in [Sessions -> 0 .. Len(contexts')]
  BY <1>1, <1>2 DEF LookupInv, Apart, TypeOK
<1>6. /\ contexts' \in Seq(SessionContext) /\ Len(contexts) <= Len(contexts')
      /\ \A k \in 1 .. Len(contexts) : contexts'[k] = contexts[k]
      /\ \A k \in 1 .. Len(contexts') : k > Len(contexts) => contexts'[k] = NewContext
      /\ \A u \in Sessions : \/ sessions'[u] = sessions[u]
                             \/ sessions[u] = 0 /\ sessions'[u] > Len(contexts)
  BY <1>1, <1>2
<1>7. calls[t].step # "lookup" /\ x.step # "lookup" /\ x.step # "join"
  BY <1>2, <1>3
<1>8. QED
  BY <1>2, <1>3, <1>4, <1>5, <1>6, <1>7, CallStepKeeps

\* The cases of TryPath, with the map a lookup is entered in.
LEMMA TryPathCases ==
    ASSUME Inv, NEW t \in Calls, TryPath(t)
    PROVE  LET s == calls[t].session
               p == Head(calls[t].paths)
               c == ContextOf(s)
           IN  /\ s \in Sessions /\ p \in Paths /\ calls[t].step = "next"
               /\ sessions' = [sessions EXCEPT ![s] = c]
               /\ UNCHANGED <<host, version, activatedPaths, initializing, inits, requests>>
               /\ \/ /\ contexts' = ContextsWith(s) /\ activatingPaths' = activatingPaths
                     /\ calls' = [calls EXCEPT ![t] = Rest(calls[t])]
                  \/ /\ contexts' = ContextsWith(s) /\ activatingPaths' = activatingPaths
                     /\ \E u \in Calls :
                           /\ calls[u].step = "lookup" /\ calls[u].session = s
                           /\ Head(calls[u].paths) = p
                           /\ calls' = [calls EXCEPT ![t] =
                                [step |-> "join", session |-> s, paths |-> calls[t].paths,
                                 on |-> u]]
                  \/ /\ p \notin activatedPaths[s]
                     /\ sessions[s] # 0 /\ activatingPaths[s] # 0 =>
                           contexts[c].pending[p] = Nobody
                     /\ contexts' = Enter(ContextsWith(s), c, p, t)
                     /\ calls' = [calls EXCEPT ![t] =
                          [step |-> "lookup", session |-> s, paths |-> calls[t].paths,
                           context |-> c, map |-> c]]
                     /\ activatingPaths' = [activatingPaths EXCEPT ![s] = c]
<1> DEFINE s == calls[t].session
           p == Head(calls[t].paths)
           c == ContextOf(s)
           map == IF activatingPaths[s] = 0 THEN c ELSE activatingPaths[s]
           pending == IF activatingPaths[s] = 0 THEN Nobody ELSE contexts[map].pending[p]
<1>1. TypeOK /\ LookupInv /\ calls[t].step = "next"
  BY Zenon DEF Inv, TryPath
<1>2. s \in Sessions /\ p \in Paths
  BY <1>1, NextFacts, Zenon DEF TryPath
<1>3. map = c /\ (activatingPaths[s] # 0 => sessions[s] = activatingPaths[s])
  BY <1>1, <1>2, ContextsWithFacts DEF LookupInv, Registered
<1>4. /\ sessions' = [sessions EXCEPT ![s] = c]
      /\ UNCHANGED <<host, version, activatedPaths, initializing, inits, requests>>
  BY Zenon DEF TryPath
<1>5. CASE p \in activatedPaths[s]
  <2>1. /\ contexts' = ContextsWith(s) /\ activatingPaths' = activatingPaths
        /\ calls' = [calls EXCEPT ![t] = Rest(calls[t])]
    BY <1>5 DEF TryPath
  <2>2. QED
    BY <1>1, <1>2, <1>4, <2>1
<1>6. CASE p \notin activatedPaths[s] /\ pending # Nobody
  <2>1. /\ contexts' = ContextsWith(s) /\ activatingPaths' = activatingPaths
        /\ calls' = [calls EXCEPT ![t] =
             [step |-> "join", session |-> s, paths |-> calls[t].paths, on |-> pending]]
    BY <1>6, Zenon DEF TryPath
  <2>2. activatingPaths[s] # 0 /\ pending = contexts[c].pending[p] /\ sessions[s] = c
    BY <1>1, <1>2, <1>3, <1>6, ContextsWithFacts
  <2>3. c \in 1 .. Len(contexts) /\ contexts \in Seq(SessionContext)
    BY <1>1, <1>2, <1>3, <2>2 DEF TypeOK
  <2>4. pending \in Calls
    <3>1. contexts[c] \in SessionContext
      BY <2>3
    <3>2. contexts[c].pending[p] \in Calls \cup {Nobody}
      BY <1>2, <3>1 DEF SessionContext
    <3>3. QED
      BY <1>6, <2>2, <3>2
  <2>5. /\ calls[pending].step = "lookup" /\ calls[pending].session = s
        /\ Head(calls[pending].paths) = p
    <3>1. PendingOK /\ c \in DOMAIN contexts /\ p \in Paths /\ contexts[c].pending[p] # Nobody
      BY <1>1, <1>2, <1>6, <2>2, <2>3 DEF LookupInv
    <3>2. LET u == contexts[c].pending[p]
          IN  calls[u].step = "lookup" /\ calls[u].context = c /\ Head(calls[u].paths) = p
      BY <3>1, Zenon DEF PendingOK
    <3> HIDE DEF pending
    <3>3. /\ calls[pending].step = "lookup" /\ calls[pending].context = c
          /\ Head(calls[pending].paths) = p
      BY <2>2, <3>2, Zenon
    <3>4. \A u \in Sessions : sessions[u] = c => u = calls[pending].session
      BY <1>1, <2>4, <3>3 DEF LookupInv, Lookups, LookupOK
    <3>5. QED
      BY <1>2, <2>2, <3>3, <3>4
  <2>6. QED
    BY <1>1, <1>2, <1>4, <2>1, <2>4, <2>5, Zenon
<1>7. CASE p \notin activatedPaths[s] /\ pending = Nobody
  <2>1. /\ contexts' = [ContextsWith(s) EXCEPT ![map].pending[p] = t]
        /\ calls' = [calls EXCEPT ![t] =
             [step |-> "lookup", session |-> s, paths |-> calls[t].paths,
              context |-> c, map |-> map]]
        /\ activatingPaths' = [activatingPaths EXCEPT ![s] = map]
    BY <1>7, Zenon DEF TryPath
  <2>2. activatingPaths[s] # 0 => contexts[c].pending[p] = Nobody
    BY <1>3, <1>7
  <2>3. contexts' = Enter(ContextsWith(s), c, p, t)
    BY <1>3, <2>1, Zenon DEF Enter
  <2>4. QED
    BY <1>1, <1>2, <1>3, <1>4, <1>7, <2>1, <2>2, <2>3, Zenon
<1>8. QED
  BY <1>5, <1>6, <1>7, Zenon

LEMMA AdmitFacts ==
    ASSUME Inv, NEW s \in Sessions, sessions' = [sessions EXCEPT ![s] = ContextOf(s)],
           contexts' = ContextsWith(s)
    PROVE  /\ contexts' \in Seq(SessionContext) /\ Len(contexts) <= Len(contexts')
           /\ \A k \in 1 .. Len(contexts) : contexts'[k] = contexts[k]
           /\ \A k \in 1 .. Len(contexts') : k > Len(contexts) => contexts'[k] = NewContext
           /\ sessions' \in [Sessions -> 0 .. Len(contexts')] /\ Apart'
           /\ \A u \in Sessions : \/ sessions'[u] = sessions[u]
                                  \/ sessions[u] = 0 /\ sessions'[u] > Len(contexts)
<1>1. TypeOK /\ Apart
  BY DEF Inv, LookupInv
<1>2. /\ Apart' /\ sessions' \in [Sessions -> 0 .. Len(contexts')]
      /\ \A u \in Sessions : \/ sessions'[u] = sessions[u]
                             \/ sessions[u] = 0 /\ sessions'[u] > Len(contexts)
  BY <1>1, AdmitApart
<1>3. QED
  BY <1>1, <1>2, ContextsWithFacts

\* `t` begins to look its first path up.
Begins(t) ==
    LET s == calls[t].session
        p == Head(calls[t].paths)
        c == ContextOf(s)
    IN  /\ p \notin activatedPaths[s]
        /\ sessions[s] # 0 /\ activatingPaths[s] # 0 => contexts[c].pending[p] = Nobody
        /\ contexts' = Enter(ContextsWith(s), c, p, t)
        /\ calls' = [calls EXCEPT ![t] =
             [step |-> "lookup", session |-> s, paths |-> calls[t].paths,
              context |-> c, map |-> c]]
        /\ activatingPaths' = [activatingPaths EXCEPT ![s] = c]
        /\ sessions' = [sessions EXCEPT ![s] = c]

\* A lookup that begins is the only one of its path for its context.
LEMMA BeginLookup ==
    ASSUME Inv, NEW t \in Calls, calls[t].step = "next",
           calls[t].session \in Sessions, Head(calls[t].paths) \in Paths, Begins(t),
           UNCHANGED <<host, version, activatedPaths, initializing, inits, requests>>
    PROVE  Inv'
<1> DEFINE s == calls[t].session
           p == Head(calls[t].paths)
           c == ContextOf(s)
           old == ContextsWith(s)
           x == [step |-> "lookup", session |-> s, paths |-> calls[t].paths,
                 context |-> c, map |-> c]
<1>1. /\ TypeOK /\ LookupInv /\ contexts \in Seq(SessionContext) /\ Len(contexts) \in Nat
      /\ DOMAIN contexts = 1 .. Len(contexts)
  BY DEF Inv, TypeOK
<1>2. s \in Sessions /\ p \in Paths /\ t \in Calls \cup {Nobody} /\ t # Nobody
  BY OpenCodePluginAssumption
<1>3. /\ old \in Seq(SessionContext) /\ c \in 1 .. Len(old)
      /\ Len(old) \in Nat /\ Len(contexts) <= Len(old)
      /\ \A k \in 1 .. Len(contexts) : old[k] = contexts[k]
      /\ \A k \in 1 .. Len(old) : k > Len(contexts) => old[k] = NewContext
      /\ sessions[s] # 0 => c = sessions[s]
      /\ sessions[s] = 0 => c = Len(contexts) + 1
  BY <1>1, ContextsWithFacts
<1>b. sessions' = [sessions EXCEPT ![s] = ContextOf(s)]
  BY DEF Begins
<1>4. /\ Apart' /\ sessions' \in [Sessions -> 0 .. Len(old)]
      /\ sessions'[s] = c /\ c # 0
      /\ \A u \in Sessions : u # s => sessions'[u] = sessions[u]
      /\ \A u \in Sessions : \/ sessions'[u] = sessions[u]
                             \/ sessions[u] = 0 /\ sessions'[u] > Len(contexts)
  BY <1>1, <1>b, AdmitApart DEF LookupInv
<1>5. /\ calls[t].paths \in Seq(Paths \cup {Outside}) /\ calls[t].paths # <<>>
  BY NextFacts
<1>6. /\ x \in Call /\ x # Idle /\ x.step = "lookup" /\ x.session = s
      /\ x.paths = calls[t].paths /\ x.context = c /\ x.map = c
  BY <1>2, <1>3, <1>5 DEF Call, Idle
<1>7. /\ calls' = [calls EXCEPT ![t] = x]
      /\ contexts' = Enter(old, c, p, t)
      /\ activatingPaths' = [activatingPaths EXCEPT ![s] = c]
      /\ p \notin activatedPaths[s]
      /\ sessions[s] # 0 /\ activatingPaths[s] # 0 => contexts[c].pending[p] = Nobody
  BY DEF Begins
<1>a. p = Head(calls[t].paths)
  OBVIOUS
<1> HIDE DEF x, old, c, p
<1>8. /\ contexts' \in Seq(SessionContext) /\ Len(contexts') = Len(old)
      /\ \A k \in 1 .. Len(old) :
            /\ contexts'[k].scopes = old[k].scopes
            /\ \A q \in Paths : contexts'[k].pending[q] =
                  IF k = c /\ q = p THEN t ELSE old[k].pending[q]
  <2> DEFINE new == Enter(old, c, p, t)
  <2>1. old \in Seq(SessionContext) /\ c \in 1 .. Len(old) /\ p \in Paths
        /\ t \in Entry
    BY <1>2, <1>3 DEF Entry
  <2>2. EntersOnly(new, old, c, p, t)
    BY <2>1, SetPending, Zenon
  <2> HIDE DEF new
  <2>3. contexts' = new
    BY <1>7 DEF new
  <2>4. QED
    BY <2>2, <2>3 DEF EntersOnly
<1>9. /\ calls' \in [Calls -> {Idle} \cup Call] /\ calls'[t] = x
      /\ \A u \in Calls : u # t => calls'[u] = calls[u]
  BY <1>1, <1>6, <1>7 DEF TypeOK
<1>10. /\ activatingPaths' \in [Sessions -> 0 .. Len(contexts')] /\ activatingPaths'[s] = c
       /\ \A u \in Sessions : u # s => activatingPaths'[u] = activatingPaths[u]
  <2>1. activatingPaths \in [Sessions -> 0 .. Len(contexts)]
    BY <1>1 DEF TypeOK
  <2>2. c \in 0 .. Len(contexts') /\ 0 .. Len(contexts) \subseteq 0 .. Len(contexts')
    BY <1>1, <1>3, <1>8
  <2>3. QED
    BY <1>2, <1>7, <2>1, <2>2
<1>11. TypeOK'
  <2>1. References'
    <3>1. /\ calls[t].step # "lookup" /\ Len(contexts) <= Len(contexts')
          /\ {calls'[t].context, calls'[t].map} \subseteq 1 .. Len(contexts')
          /\ calls'[t].step # "join"
      BY <1>3, <1>6, <1>8, <1>9
    <3>2. QED
      BY <1>1, <1>8, <1>9, <3>1, JoinsSame
  <2>2. QED
    BY <1>1, <1>4, <1>8, <1>9, <1>10, <2>1 DEF TypeOK
<1>12. \A u \in Calls : calls[u].step = "lookup" =>
          /\ u # t /\ LookupOK(u) /\ calls[u].context \in 1 .. Len(contexts)
          /\ calls[u].session \in Sessions /\ calls'[u] = calls[u]
  <2> SUFFICES ASSUME NEW u \in Calls, calls[u].step = "lookup"
               PROVE  /\ u # t /\ LookupOK(u) /\ calls[u].context \in 1 .. Len(contexts)
                      /\ calls[u].session \in Sessions /\ calls'[u] = calls[u]
    OBVIOUS
  <2>1. calls[u].context \in 1 .. Len(contexts) /\ u # t /\ LookupOK(u)
    BY <1>1 DEF TypeOK, References, LookupInv, Lookups
  <2>2. calls[u].session \in Sessions
    BY NextFacts
  <2>3. QED
    BY <1>9, <2>1, <2>2
\* Nobody was looking `p` up for this context.
<1>13. \A u \in Calls : calls[u].step = "lookup" /\ calls[u].context = c =>
          Head(calls[u].paths) # p
  <2> SUFFICES ASSUME NEW u \in Calls, calls[u].step = "lookup", calls[u].context = c,
                      Head(calls[u].paths) = p
               PROVE  FALSE
    OBVIOUS
  <2>1. LookupOK(u) /\ c \in 1 .. Len(contexts)
    BY <1>12
  <2>2. sessions[s] = c /\ sessions[s] # 0
    BY <1>1, <1>3, <2>1
  <2>3. calls[u].session = s /\ activatingPaths[s] = c
    BY <1>2, <2>1, <2>2 DEF LookupOK
  <2>4. contexts[c].pending[p] = u
    BY <2>1 DEF LookupOK
  <2>5. QED
    BY <1>7, <2>2, <2>3, <2>4, OpenCodePluginAssumption
<1>14. PathsLeft'
  BY <1>1, <1>5, <1>6, <1>9 DEF LookupInv, PathsLeft
<1>15. Registered'
  BY <1>1, <1>4, <1>10 DEF LookupInv, Registered
<1>16. Lookups'
  <2> SUFFICES ASSUME NEW u \in Calls, calls'[u].step = "lookup"
               PROVE  LookupOK(u)'
    BY DEF Lookups
  <2>1. CASE u = t
    <3>1. contexts'[c].pending[p] = t
      BY <1>2, <1>3, <1>8
    <3>2. \A v \in Sessions : sessions'[v] = c => v = s
      BY <1>2, <1>4 DEF Apart
    <3>3. activatedPaths' = activatedPaths /\ Head(x.paths) = p
      BY <1>6, <1>a
    <3>4. QED
      BY <1>2, <1>6, <1>7, <1>9, <1>10, <2>1, <3>1, <3>2, <3>3 DEF LookupOK
  <2>2. CASE u # t
    <3>1. /\ calls[u].step = "lookup" /\ calls'[u] = calls[u] /\ LookupOK(u)
          /\ calls[u].context \in 1 .. Len(contexts) /\ calls[u].session \in Sessions
      BY <1>9, <1>12, <2>2
    <3> DEFINE cu == calls[u].context
               pu == Head(calls[u].paths)
               su == calls[u].session
    <3>2. /\ calls[u].map = cu /\ pu \in Paths /\ contexts[cu].pending[pu] = u
          /\ \A v \in Sessions : sessions[v] = cu => v = su
          /\ sessions[su] = cu => activatingPaths[su] = cu /\ pu \notin activatedPaths[su]
      BY <3>1 DEF LookupOK
    <3>3. contexts'[cu].pending[pu] = u
      <4>1. cu \in 1 .. Len(old) /\ old[cu] = contexts[cu]
        BY <1>1, <1>3, <3>1
      <4>2. ~ (cu = c /\ pu = p)
        BY <1>13, <3>1
      <4>3. QED
        BY <1>8, <3>2, <4>1, <4>2
    <3>4. \A v \in Sessions : sessions'[v] = cu => sessions[v] = cu
      BY <1>1, <1>4, <3>1
    <3>5. sessions'[su] = cu => activatingPaths'[su] = cu
      BY <1>4, <1>10, <3>1, <3>2, <3>4
    <3>6. activatedPaths' = activatedPaths
      OBVIOUS
    <3>7. QED
      BY <3>1, <3>2, <3>3, <3>4, <3>5, <3>6 DEF LookupOK
  <2>3. QED
    BY <2>1, <2>2
<1>17. PendingOK'
  <2> SUFFICES ASSUME NEW k \in 1 .. Len(old), NEW q \in Paths,
                      contexts'[k].pending[q] # Nobody
               PROVE  LET u == contexts'[k].pending[q]
                      IN  /\ calls'[u].step = "lookup" /\ calls'[u].context = k
                          /\ Head(calls'[u].paths) = q
    <3>1. DOMAIN contexts' = 1 .. Len(old)
      <4>1. contexts' \in Seq(SessionContext) /\ Len(contexts') = Len(old)
        BY <1>8
      <4>2. DOMAIN contexts' = 1 .. Len(contexts')
        BY <4>1, LenProperties
      <4>3. QED
        BY <4>1, <4>2
    <3>2. QED
      BY <3>1 DEF PendingOK
  <2>1. CASE k = c /\ q = p
    <3>1. contexts'[k].pending[q] = t
      BY <1>8, <2>1
    <3>2. QED
      BY <1>6, <1>9, <1>a, <2>1, <3>1
  <2>2. CASE ~ (k = c /\ q = p)
    <3>1. contexts'[k].pending[q] = old[k].pending[q]
      BY <1>8, <2>2
    <3>2. CASE k > Len(contexts)
      <4>1. old[k].pending[q] = Nobody
        BY <1>3, <3>2 DEF NewContext
      <4>2. QED
        BY <3>1, <4>1
    <3>3. CASE ~ (k > Len(contexts))
      <4> DEFINE u == contexts[k].pending[q]
      <4>1. k \in 1 .. Len(contexts) /\ old[k] = contexts[k]
        BY <1>1, <1>3, <3>3
      <4>2. contexts'[k].pending[q] = u /\ u # Nobody
        BY <3>1, <4>1
      <4>3. u \in Calls
        <5>1. contexts[k] \in SessionContext
          BY <1>1, <4>1
        <5>2. QED
          BY <4>2, <5>1 DEF SessionContext
      <4>4. calls[u].step = "lookup" /\ calls[u].context = k /\ Head(calls[u].paths) = q
        BY <1>1, <4>1, <4>2 DEF LookupInv, PendingOK
      <4>5. calls'[u] = calls[u]
        BY <1>12, <4>3, <4>4
      <4>6. QED
        BY <4>2, <4>4, <4>5
    <3>4. QED
      BY <3>2, <3>3
  <2>3. QED
    BY <2>1, <2>2
<1>18. NoOrphanState'
  BY <1>1, <1>4, <1>10 DEF LookupInv, NoOrphanState
<1>19. ActivatedMeansActive'
  <2> SUFFICES ASSUME NEW u \in Sessions, sessions'[u] # 0
               PROVE  contexts'[sessions'[u]].scopes
                        = UNION {ScopesOf[q] : q \in activatedPaths[u]}
    BY DEF ActivatedMeansActive
  <2>1. sessions'[u] \in 1 .. Len(old)
    BY <1>3, <1>4
  <2>2. contexts'[sessions'[u]].scopes = old[sessions'[u]].scopes
    BY <1>8, <2>1
  <2>3. CASE sessions'[u] = sessions[u]
    <3>1. sessions[u] \in 1 .. Len(contexts)
      BY <1>1, <2>3 DEF TypeOK
    <3>2. contexts[sessions[u]].scopes = UNION {ScopesOf[q] : q \in activatedPaths[u]}
      BY <1>1, <2>3 DEF LookupInv, ActivatedMeansActive
    <3>3. QED
      BY <1>3, <2>2, <2>3, <3>1, <3>2
  <2>4. CASE sessions[u] = 0 /\ sessions'[u] > Len(contexts)
    <3>1. activatedPaths[u] = {}
      BY <1>1, <2>4 DEF LookupInv, NoOrphanState
    <3>2. old[sessions'[u]].scopes = {}
      BY <1>3, <2>1, <2>4 DEF NewContext
    <3>3. QED
      BY <2>2, <3>1, <3>2
  <2>5. QED
    BY <1>4, <2>3, <2>4
<1>20. QED
  BY <1>4, <1>11, <1>14, <1>15, <1>16, <1>17, <1>18, <1>19 DEF Inv, LookupInv

LEMMA TryPathKeeps ==
    ASSUME Inv, NEW t \in Calls, TryPath(t)
    PROVE  Inv'
<1> DEFINE s == calls[t].session
           p == Head(calls[t].paths)
           c == ContextOf(s)
<1>1. /\ s \in Sessions /\ p \in Paths /\ calls[t].step = "next"
      /\ sessions' = [sessions EXCEPT ![s] = c]
      /\ UNCHANGED <<host, version, activatedPaths, initializing, inits, requests>>
  BY TryPathCases
<1>2. CASE /\ contexts' = ContextsWith(s) /\ activatingPaths' = activatingPaths
           /\ calls' = [calls EXCEPT ![t] = Rest(calls[t])]
  <2> DEFINE x == Rest(calls[t])
  <2>1. x \in {Idle} \cup Call /\ x.step \in {"idle", "next"} /\ (x # Idle => x.paths # <<>>)
    BY <1>1, NextFacts
  <2>2. calls' = [calls EXCEPT ![t] = x] /\ calls[t].step # "lookup"
        /\ x.step # "lookup" /\ x.step # "join"
    BY <1>1, <1>2, <2>1
  <2> HIDE DEF x
  <2>3. QED
    BY <1>1, <1>2, <2>1, <2>2, AdmitFacts, CallStepKeeps
<1>3. CASE /\ contexts' = ContextsWith(s) /\ activatingPaths' = activatingPaths
           /\ \E u \in Calls :
                 /\ calls[u].step = "lookup"
                 /\ calls' = [calls EXCEPT ![t] =
                      [step |-> "join", session |-> s, paths |-> calls[t].paths, on |-> u]]
  <2>1. PICK u \in Calls :
           /\ calls[u].step = "lookup"
           /\ calls' = [calls EXCEPT ![t] =
                [step |-> "join", session |-> s, paths |-> calls[t].paths, on |-> u]]
    BY <1>3
  <2> DEFINE x == [step |-> "join", session |-> s, paths |-> calls[t].paths, on |-> u]
  <2>2. calls[t].paths \in Seq(Paths \cup {Outside}) /\ calls[t].paths # <<>>
    BY <1>1, NextFacts
  <2>3. x \in {Idle} \cup Call /\ x.step = "join" /\ x.on = u /\ x.paths # <<>>
    BY <1>1, <2>2 DEF Call
  <2>4. calls' = [calls EXCEPT ![t] = x] /\ calls[t].step # "lookup"
    BY <1>1, <2>1
  <2> HIDE DEF x
  <2>5. QED
    BY <1>1, <1>3, <2>1, <2>3, <2>4, AdmitFacts, CallStepKeeps
<1>4. CASE /\ p \notin activatedPaths[s]
           /\ sessions[s] # 0 /\ activatingPaths[s] # 0 => contexts[c].pending[p] = Nobody
           /\ contexts' = Enter(ContextsWith(s), c, p, t)
           /\ calls' = [calls EXCEPT ![t] =
                [step |-> "lookup", session |-> s, paths |-> calls[t].paths,
                 context |-> c, map |-> c]]
           /\ activatingPaths' = [activatingPaths EXCEPT ![s] = c]
  <2>1. Begins(t)
    BY <1>1, <1>4 DEF Begins
  <2>2. QED
    BY <1>1, <2>1, BeginLookup
<1>5. QED
  BY <1>2, <1>3, <1>4, TryPathCases

LEMMA UnionMore ==
    ASSUME NEW F, NEW S, NEW p
    PROVE  UNION {F[q] : q \in S \cup {p}} = (UNION {F[q] : q \in S}) \cup F[p]
<1>1. ASSUME NEW x PROVE x \in UNION {F[q] : q \in S \cup {p}}
                            <=> \E q \in S \cup {p} : x \in F[q]
  OBVIOUS
<1>2. ASSUME NEW x PROVE x \in UNION {F[q] : q \in S} <=> \E q \in S : x \in F[q]
  OBVIOUS
<1> DEFINE A == UNION {F[q] : q \in S \cup {p}}
           B == UNION {F[q] : q \in S}
<1>3. ASSUME NEW x PROVE x \in A <=> x \in B \cup F[p]
  BY <1>1, <1>2
<1> HIDE DEF A, B
<1>4. A = B \cup F[p]
  BY <1>3
<1>5. QED
  BY <1>4 DEF A, B

\* A lookup that ends, with the scopes of its path added to the context that
\* asked for them if it is still the session's.
LEMMA EndLookup ==
    ASSUME Inv, NEW t \in Calls, calls[t].step = "lookup",
           NEW active \in Seq(SessionContext), Len(active) = Len(contexts),
           \A k \in 1 .. Len(contexts) : active[k].pending = contexts[k].pending,
           NEW kept \in BOOLEAN,
           \A k \in 1 .. Len(contexts) : active[k].scopes =
              IF kept /\ k = calls[t].context
              THEN contexts[k].scopes \cup ScopesOf[Head(calls[t].paths)]
              ELSE contexts[k].scopes,
           kept => sessions[calls[t].session] = calls[t].context,
           activatedPaths' = IF kept
              THEN [activatedPaths EXCEPT ![calls[t].session] = @ \cup {Head(calls[t].paths)}]
              ELSE activatedPaths,
           Release(t, active),
           NEW goOn \in BOOLEAN,
           calls' = [u \in Calls |-> IF u \in Waiting(t)
                                     THEN IF goOn THEN Rest(calls[u]) ELSE Idle
                                     ELSE calls[u]],
           UNCHANGED <<host, version, sessions, initializing, inits, requests>>
    PROVE  Inv'
<1> DEFINE c == calls[t].context
           p == Head(calls[t].paths)
           s == calls[t].session
<1>1. /\ TypeOK /\ LookupInv /\ contexts \in Seq(SessionContext) /\ Len(contexts) \in Nat
      /\ DOMAIN contexts = 1 .. Len(contexts)
  BY DEF Inv, TypeOK
<1>2. LookupOK(t) /\ Registered /\ PathsLeft
  BY <1>1 DEF LookupInv, Lookups
<1>3. /\ c \in 1 .. Len(contexts) /\ s \in Sessions /\ p \in Paths
      /\ contexts' \in Seq(SessionContext) /\ Len(contexts') = Len(contexts)
      /\ \A k \in 1 .. Len(contexts) :
            /\ contexts'[k].scopes = active[k].scopes
            /\ \A q \in Paths : contexts'[k].pending[q] =
                  IF k = c /\ q = p THEN Nobody ELSE contexts[k].pending[q]
      /\ activatingPaths' \in [Sessions -> 0 .. Len(contexts)]
      /\ \A u \in Sessions :
            \/ activatingPaths'[u] = activatingPaths[u]
            \/ /\ u = s /\ activatingPaths[u] = c /\ activatingPaths'[u] = 0
               /\ \A q \in Paths : contexts'[c].pending[q] = Nobody
  BY <1>1, <1>2, ReleaseFacts
<1>4. /\ calls' \in [Calls -> {Idle} \cup Call] /\ PathsLeft'
      /\ \A u \in Calls : \/ calls'[u] = calls[u]
                          \/ u = t \/ calls[u].step = "join"
      /\ \A u \in Calls : calls'[u].step = "join" =>
            /\ calls'[u] = calls[u] /\ calls[u].on # t
            /\ calls'[calls[u].on] = calls[calls[u].on]
      /\ \A u \in Calls : calls'[u].step = "lookup" => u # t /\ calls'[u] = calls[u]
  <2>1. /\ calls' \in [Calls -> {Idle} \cup Call] /\ PathsLeft'
        /\ \A u \in Calls : calls'[u].step = "join" =>
              /\ calls'[u] = calls[u] /\ calls[u].on # t
              /\ calls'[calls[u].on] = calls[calls[u].on]
        /\ \A u \in Calls : calls'[u].step = "lookup" => u # t /\ calls'[u] = calls[u]
    BY <1>1, <1>2, ResumeFacts
  <2>2. \A u \in Calls : \/ calls'[u] = calls[u]
                         \/ u = t \/ calls[u].step = "join"
    BY DEF Waiting
  <2>3. QED
    BY <2>1, <2>2
<1>5. DOMAIN contexts' = 1 .. Len(contexts)
  <2>1. DOMAIN contexts' = 1 .. Len(contexts')
    BY <1>3, LenProperties
  <2>2. QED
    BY <1>3, <2>1
<1>6. /\ activatedPaths' \in [Sessions -> SUBSET Paths]
      /\ activatedPaths'[s] = IF kept THEN activatedPaths[s] \cup {p} ELSE activatedPaths[s]
      /\ \A u \in Sessions : u # s => activatedPaths'[u] = activatedPaths[u]
  <2>1. activatedPaths \in [Sessions -> SUBSET Paths]
    BY <1>1 DEF TypeOK
  <2>2. QED
    BY <1>3, <2>1
<1>a. /\ \A k \in 1 .. Len(contexts) : contexts'[k].scopes =
            IF kept /\ k = c THEN contexts[k].scopes \cup ScopesOf[p] ELSE contexts[k].scopes
      /\ kept => sessions[s] = c
      /\ sessions' = sessions /\ initializing' = initializing /\ inits' = inits
      /\ requests' = requests /\ host' = host /\ version' = version
      /\ p = Head(calls[t].paths) /\ c = calls[t].context /\ s = calls[t].session
  BY <1>3
<1> HIDE DEF c, p, s
<1>7. References'
  <2>1. \A u \in Calls : calls'[u].step = "lookup" =>
           {calls'[u].context, calls'[u].map} \subseteq DOMAIN contexts'
    BY <1>1, <1>4, <1>5 DEF TypeOK, References
  <2>2. ASSUME NEW u \in Calls, calls'[u].step = "join"
        PROVE  calls'[calls'[u].on].step = "lookup"
    <3>1. calls'[u] = calls[u] /\ calls'[calls[u].on] = calls[calls[u].on]
      BY <1>4, <2>2
    <3>2. calls[calls[u].on].step = "lookup"
      BY <1>1, <2>2, <3>1 DEF TypeOK, References
    <3>3. QED
      BY <3>1, <3>2
  <2>3. QED
    BY <1>1, <1>5, <1>a, <2>1, <2>2 DEF TypeOK, References
<1>8. TypeOK'
  BY <1>1, <1>3, <1>4, <1>6, <1>7, <1>a DEF TypeOK
<1>9. Apart' /\ Registered' /\ NoOrphanState'
  <2>1. Apart'
    BY <1>1, <1>a DEF LookupInv, Apart
  <2>2. Registered'
    BY <1>1, <1>3, <1>a DEF LookupInv, Registered
  <2>3. NoOrphanState'
    <3> SUFFICES ASSUME NEW u \in Sessions, sessions[u] = 0
                 PROVE  activatedPaths'[u] = {} /\ activatingPaths'[u] = 0
                        /\ initializing'[u] = 0
      BY <1>a DEF NoOrphanState
    <3>1. activatedPaths[u] = {} /\ activatingPaths[u] = 0 /\ initializing[u] = 0
      BY <1>1 DEF LookupInv, NoOrphanState
    <3>2. activatedPaths'[u] = {}
      BY <1>3, <1>6, <1>a, <3>1
    <3>3. QED
      BY <1>3, <1>a, <3>1, <3>2
  <2>4. QED
    BY <2>1, <2>2, <2>3
<1>10. Lookups'
  <2> SUFFICES ASSUME NEW u \in Calls, calls'[u].step = "lookup"
               PROVE  LookupOK(u)'
    BY DEF Lookups
  <2> DEFINE cu == calls[u].context
             pu == Head(calls[u].paths)
             su == calls[u].session
  <2>1. u # t /\ calls'[u] = calls[u] /\ calls[u].step = "lookup" /\ LookupOK(u)
    BY <1>1, <1>4 DEF LookupInv, Lookups
  <2>2. /\ calls[u].map = cu /\ pu \in Paths /\ contexts[cu].pending[pu] = u
        /\ \A v \in Sessions : sessions[v] = cu => v = su
        /\ sessions[su] = cu => activatingPaths[su] = cu /\ pu \notin activatedPaths[su]
    BY <2>1 DEF LookupOK
  <2>3. cu \in 1 .. Len(contexts) /\ su \in Sessions
    <3>1. cu \in 1 .. Len(contexts)
      BY <1>1, <2>1 DEF TypeOK, References
    <3>2. su \in Sessions
      BY <2>1, NextFacts
    <3>3. QED
      BY <3>1, <3>2
  <2>4. ~ (cu = c /\ pu = p)
    <3>1. contexts[c].pending[p] = t
      BY <1>2, <1>a DEF LookupOK
    <3>2. QED
      BY <2>1, <2>2, <3>1
  <2>5. contexts'[cu].pending[pu] = u
    BY <1>3, <2>2, <2>3, <2>4
  <2>6. sessions[su] = cu => activatingPaths'[su] = cu
    <3> SUFFICES ASSUME sessions[su] = cu, activatingPaths'[su] # activatingPaths[su]
                 PROVE  FALSE
      BY <2>2
    <3>1. activatingPaths[su] = c /\ contexts'[c].pending[pu] = Nobody
      BY <1>3, <2>2, <2>3
    <3>2. cu = c
      BY <2>2, <3>1
    <3>3. QED
      BY <2>5, <3>1, <3>2, OpenCodePluginAssumption
  <2>7. sessions[su] = cu => pu \notin activatedPaths'[su]
    <3> SUFFICES ASSUME sessions[su] = cu, pu \in activatedPaths'[su]
                 PROVE  FALSE
      OBVIOUS
    <3>1. pu \notin activatedPaths[su]
      BY <2>2
    <3>2. su = s /\ kept /\ pu = p
      <4>1. su = s
        BY <1>6, <2>3, <3>1
      <4>2. pu \in IF kept THEN activatedPaths[s] \cup {p} ELSE activatedPaths[s]
        BY <1>6, <4>1
      <4>3. pu \notin activatedPaths[s]
        BY <3>1, <4>1
      <4>4. QED
        BY <4>1, <4>2, <4>3
    <3>3. cu = c
      BY <1>a, <3>2
    <3>4. QED
      BY <2>4, <3>2, <3>3
  <2>8. QED
    BY <1>a, <2>1, <2>2, <2>5, <2>6, <2>7, Zenon DEF LookupOK
<1>11. PendingOK'
  <2> SUFFICES ASSUME NEW k \in 1 .. Len(contexts), NEW q \in Paths,
                      contexts'[k].pending[q] # Nobody
               PROVE  LET u == contexts'[k].pending[q]
                      IN  /\ calls'[u].step = "lookup" /\ calls'[u].context = k
                          /\ Head(calls'[u].paths) = q
    BY <1>5, Zenon DEF PendingOK
  <2> DEFINE u == contexts[k].pending[q]
  <2>1. ~ (k = c /\ q = p) /\ contexts'[k].pending[q] = u /\ u # Nobody
    BY <1>3
  <2>2. u \in Calls
    <3>1. contexts[k] \in SessionContext
      BY <1>1
    <3>2. QED
      BY <2>1, <3>1 DEF SessionContext
  <2>3. calls[u].step = "lookup" /\ calls[u].context = k /\ Head(calls[u].paths) = q
    BY <1>1, <2>1 DEF LookupInv, PendingOK
  <2>4. u # t
    BY <1>a, <2>1, <2>3
  <2>5. calls'[u] = calls[u]
    BY <1>4, <2>2, <2>3, <2>4
  <2>6. QED
    BY <2>1, <2>3, <2>5, Zenon
<1>12. ActivatedMeansActive'
  <2> SUFFICES ASSUME NEW u \in Sessions, sessions[u] # 0
               PROVE  contexts'[sessions[u]].scopes
                        = UNION {ScopesOf[q] : q \in activatedPaths'[u]}
    BY <1>a DEF ActivatedMeansActive
  <2>1. sessions[u] \in 1 .. Len(contexts)
    BY <1>1 DEF TypeOK
  <2>2. contexts[sessions[u]].scopes = UNION {ScopesOf[q] : q \in activatedPaths[u]}
    BY <1>1 DEF LookupInv, ActivatedMeansActive
  <2>3. CASE kept /\ u = s
    <3>1. contexts'[sessions[u]].scopes = contexts[sessions[u]].scopes \cup ScopesOf[p]
      BY <1>a, <2>1, <2>3
    <3>2. activatedPaths'[u] = activatedPaths[u] \cup {p}
      BY <1>6, <2>3
    <3>3. UNION {ScopesOf[q] : q \in activatedPaths[u] \cup {p}}
            = (UNION {ScopesOf[q] : q \in activatedPaths[u]}) \cup ScopesOf[p]
      BY UnionMore
    <3>4. QED
      BY <2>2, <3>1, <3>2, <3>3
  <2>4. CASE ~ (kept /\ u = s)
    <3>1. kept => sessions[u] # c
      BY <1>2, <1>a, <2>4 DEF LookupOK
    <3>2. contexts'[sessions[u]].scopes = contexts[sessions[u]].scopes
      BY <1>a, <2>1, <3>1
    <3>3. activatedPaths'[u] = activatedPaths[u]
      BY <1>6, <2>4
    <3>4. QED
      BY <2>2, <3>2, <3>3
  <2>5. QED
    BY <2>3, <2>4
<1>13. QED
  BY <1>4, <1>8, <1>9, <1>10, <1>11, <1>12 DEF Inv, LookupInv

LEMMA LookupReturnsKeeps ==
    ASSUME Inv, NEW t \in Calls, LookupReturns(t)
    PROVE  Inv'
<1> DEFINE c == calls[t].context
           p == Head(calls[t].paths)
           s == calls[t].session
           goOn == TRUE
<1>1. /\ TypeOK /\ LookupInv /\ contexts \in Seq(SessionContext)
      /\ calls[t].step = "lookup"
  BY DEF Inv, TypeOK, LookupReturns
<1>2. LookupOK(t) /\ c \in 1 .. Len(contexts)
  BY <1>1 DEF LookupInv, Lookups, TypeOK, References
<1>3. p \in Paths
  BY <1>2 DEF LookupOK
<1>4. /\ calls' = [u \in Calls |-> IF u \in Waiting(t)
                                   THEN IF goOn THEN Rest(calls[u]) ELSE Idle
                                   ELSE calls[u]]
      /\ goOn \in BOOLEAN
      /\ UNCHANGED <<host, version, sessions, initializing, inits, requests>>
  BY DEF LookupReturns
<1> HIDE DEF goOn
<1>5. CASE sessions[s] = c
  <2> DEFINE x == [contexts[c] EXCEPT !.scopes = @ \cup ScopesOf[p]]
             active == [contexts EXCEPT ![c].scopes = @ \cup ScopesOf[p]]
             kept == TRUE
  <2>1. /\ activatedPaths' = [activatedPaths EXCEPT ![s] = @ \cup {p}]
        /\ Release(t, active)
    BY <1>5 DEF LookupReturns
  <2>2. contexts[c] \in SessionContext /\ ScopesOf[p] \subseteq Scopes
    BY <1>1, <1>2, <1>3 DEF Scopes
  <2>a. /\ x \in SessionContext /\ x.pending = contexts[c].pending
        /\ x.scopes = contexts[c].scopes \cup ScopesOf[p]
    BY <2>2 DEF SessionContext
  <2>b. active = [contexts EXCEPT ![c] = x]
    OBVIOUS
  <2> HIDE DEF x, active
  <2>3. /\ active \in Seq(SessionContext) /\ Len(active) = Len(contexts)
        /\ \A k \in 1 .. Len(contexts) :
              /\ active[k].pending = contexts[k].pending
              /\ active[k].scopes = IF k = c THEN contexts[k].scopes \cup ScopesOf[p]
                                    ELSE contexts[k].scopes
    <3> HIDE DEF c, p
    <3>1. /\ active \in Seq(SessionContext) /\ Len(active) = Len(contexts)
          /\ active[c] = x /\ \A k \in 1 .. Len(contexts) : k # c => active[k] = contexts[k]
      BY <1>1, <1>2, <2>a, <2>b, ReplaceContext
    <3>2. QED
      BY <2>a, <3>1
  <2>4. \A k \in 1 .. Len(contexts) : active[k].scopes =
           IF kept /\ k = c THEN contexts[k].scopes \cup ScopesOf[p] ELSE contexts[k].scopes
    BY <2>3
  <2>5. activatedPaths' = IF kept THEN [activatedPaths EXCEPT ![s] = @ \cup {p}]
                          ELSE activatedPaths
    BY <2>1
  <2>6. kept \in BOOLEAN /\ (kept => sessions[s] = c)
    BY <1>5
  <2> HIDE DEF kept
  <2>7. QED
    BY <1>1, <1>4, <2>1, <2>3, <2>4, <2>5, <2>6, EndLookup
<1>6. CASE sessions[s] # c
  <2> DEFINE kept == FALSE
  <2>1. activatedPaths' = activatedPaths /\ Release(t, contexts)
    BY <1>6 DEF LookupReturns
  <2>2. \A k \in 1 .. Len(contexts) : contexts[k].scopes =
           IF kept /\ k = c THEN contexts[k].scopes \cup ScopesOf[p] ELSE contexts[k].scopes
    OBVIOUS
  <2>3. /\ kept \in BOOLEAN /\ (kept => sessions[s] = c)
        /\ activatedPaths' = IF kept THEN [activatedPaths EXCEPT ![s] = @ \cup {p}]
                             ELSE activatedPaths
    BY <2>1
  <2> HIDE DEF kept
  <2>4. QED
    BY <1>1, <1>4, <2>1, <2>2, <2>3, EndLookup
<1>7. QED
  BY <1>5, <1>6

LEMMA LookupFailsKeeps ==
    ASSUME Inv, NEW t \in Calls, LookupFails(t)
    PROVE  Inv'
<1> DEFINE c == calls[t].context
           p == Head(calls[t].paths)
           s == calls[t].session
           goOn == FALSE
           kept == FALSE
<1>1. /\ contexts \in Seq(SessionContext) /\ calls[t].step = "lookup"
      /\ Release(t, contexts)
  BY DEF Inv, TypeOK, LookupFails
<1>2. /\ calls' = [u \in Calls |-> IF u \in Waiting(t)
                                   THEN IF goOn THEN Rest(calls[u]) ELSE Idle
                                   ELSE calls[u]]
      /\ goOn \in BOOLEAN
      /\ UNCHANGED <<host, version, sessions, initializing, inits, requests>>
  BY DEF LookupFails
<1>3. /\ kept \in BOOLEAN /\ (kept => sessions[s] = c)
      /\ activatedPaths' = IF kept THEN [activatedPaths EXCEPT ![s] = @ \cup {p}]
                           ELSE activatedPaths
      /\ \A k \in 1 .. Len(contexts) : contexts[k].scopes =
           IF kept /\ k = c THEN contexts[k].scopes \cup ScopesOf[p] ELSE contexts[k].scopes
  BY DEF LookupFails
<1> HIDE DEF goOn, kept
<1>4. QED
  BY <1>1, <1>2, <1>3, EndLookup

LEMMA StepKeeps ==
    ASSUME Inv, [Next]_vars
    PROVE  Inv'
<1>1. TypeOK
  BY DEF Inv
<1>2. ASSUME NEW s \in Sessions, Created(s) \/ Compacted(s) \/ Deleted(s)
      PROVE  Inv'
  BY <1>2, CreatedKeeps, CompactedKeeps, DeletedKeeps
<1>3. ASSUME NEW t \in Calls, NEW s \in Sessions, NEW paths \in PathLists,
             BeginCall(t, s, paths)
      PROVE  Inv'
  BY <1>3, BeginCallKeeps
<1>4. ASSUME NEW r \in Requests, NEW s \in Sessions, BeginRequest(r, s)
      PROVE  Inv'
  BY <1>4, BeginRequestKeeps
<1>5. CASE MemoryChanges
  <2>1. version' \in 1 .. MaxVersion
    BY <1>1, <1>5, OpenCodePluginAssumption DEF MemoryChanges, TypeOK
  <2>2. QED
    BY <1>5, <2>1, QuietKeeps DEF MemoryChanges
<1>6. ASSUME NEW i \in DOMAIN inits,
             BeginInit(i) \/ HardReturns(i) \/ SoftReturns(i) \/ InitFails(i)
      PROVE  Inv'
  BY <1>6, BeginInitKeeps, HardReturnsKeeps, SoftReturnsKeeps, InitFailsKeeps
<1>7. ASSUME NEW t \in Calls,
             SkipPath(t) \/ TryPath(t) \/ LookupReturns(t) \/ LookupFails(t)
      PROVE  Inv'
  BY <1>7, SkipPathKeeps, TryPathKeeps, LookupReturnsKeeps, LookupFailsKeeps
<1>8. ASSUME NEW r \in Requests, Render(r) \/ PassThrough(r)
      PROVE  Inv'
  BY <1>8, RenderKeeps
<1>9. CASE UNCHANGED vars
  <2>1. version' \in 1 .. MaxVersion
    BY <1>1, <1>9 DEF vars, TypeOK
  <2>2. QED
    BY <1>9, <2>1, QuietKeeps DEF vars
<1>10. QED
  BY <1>2, <1>3, <1>4, <1>5, <1>6, <1>7, <1>8, <1>9 DEF Next, Hooks

LEMMA Invariance == Spec => []Inv
<1>1. Init => Inv
  BY InitFacts
<1>2. Inv /\ [Next]_vars => Inv'
  BY StepKeeps
<1>3. QED
  BY <1>1, <1>2, PTL DEF Spec

-----------------------------------------------------------------------------
(* Bootstraps and the requests that wait for them                          *)

\* As long as a session is not deleted it keeps the context its
\* initializations began with; afterwards it never has that one again.
Owned == \A i \in DOMAIN inits :
    host[inits[i].session] # "deleted" <=> inits[i].context = sessions[inits[i].session]

Held == \A s \in Sessions : initializing[s] # 0 => inits[initializing[s]].session = s

\* The initializations of a session run one after another, in their order.
Chained == \A j \in DOMAIN inits : \A i \in 1 .. (j - 1) :
    (inits[i].session = inits[j].session /\ host[inits[j].session] # "deleted") =>
       /\ \/ inits[i].step = "done"
          \/ inits[j].after >= i /\ inits[inits[j].after].session = inits[j].session
       /\ inits[j].step # "queued" => inits[i].step = "done"

\* The one registered is the last that is not done.
LastHeld == \A i \in DOMAIN inits : host[inits[i].session] # "deleted" =>
    inits[i].step = "done" \/ initializing[inits[i].session] >= i

\* A request waits for whatever was not done when it began, or for one behind it.
Gates == \A r \in Requests : requests[r].step = "gate" =>
    /\ requests[r].asked <= Len(inits)
    /\ \A i \in 1 .. requests[r].asked :
          (inits[i].session = requests[r].session /\ host[inits[i].session] # "deleted") =>
             \/ inits[i].step = "done"
             \/ requests[r].gate >= i /\ inits[requests[r].gate].session = inits[i].session

\* The context holds a bootstrap at least as recent as each that succeeded.
Fetched == \A i \in DOMAIN inits : host[inits[i].session] # "deleted" =>
    /\ inits[i].since <= version
    /\ inits[i].step \in {"soft", "done"} =>
          inits[i].failed \/ contexts[sessions[inits[i].session]].hard >= inits[i].since
    /\ \A j \in 1 .. (i - 1) :
          (inits[j].session = inits[i].session /\ inits[i].step # "queued") =>
             inits[j].since <= inits[i].since

FreshInv == Owned /\ Held /\ Chained /\ LastHeld /\ Gates /\ Fetched

\* The ranges the parts of FreshInv rely on.
LEMMA InitRanges ==
    ASSUME TypeOK
    PROVE  /\ inits \in Seq(Initialization) /\ DOMAIN inits = 1 .. Len(inits)
           /\ Len(inits) \in Nat /\ Len(contexts) \in Nat /\ version \in Nat
           /\ \A i \in 1 .. Len(inits) :
                 /\ inits[i].session \in Sessions /\ inits[i].since \in Nat
                 /\ inits[i].context \in 1 .. Len(contexts)
                 /\ inits[i].after \in 0 .. (i - 1)
                 /\ inits[i].failed \in BOOLEAN
                 /\ initializing[inits[i].session] \in 0 .. Len(inits)
                 /\ sessions[inits[i].session] \in 0 .. Len(contexts)
           /\ \A c \in 1 .. Len(contexts) : contexts[c].hard \in Nat
<1>1. /\ inits \in Seq(Initialization) /\ contexts \in Seq(SessionContext)
      /\ version \in 1 .. MaxVersion /\ MaxVersion \in Nat
      /\ sessions \in [Sessions -> 0 .. Len(contexts)]
      /\ initializing \in [Sessions -> 0 .. Len(inits)]
  BY OpenCodePluginAssumption DEF TypeOK
<1>2. /\ DOMAIN inits = 1 .. Len(inits) /\ DOMAIN contexts = 1 .. Len(contexts)
      /\ Len(inits) \in Nat /\ Len(contexts) \in Nat /\ version \in Nat
  BY <1>1
<1>3. ASSUME NEW i \in 1 .. Len(inits)
      PROVE  /\ inits[i].session \in Sessions /\ inits[i].since \in Nat
             /\ inits[i].context \in 1 .. Len(contexts)
             /\ inits[i].after \in 0 .. (i - 1)
             /\ inits[i].failed \in BOOLEAN
             /\ initializing[inits[i].session] \in 0 .. Len(inits)
             /\ sessions[inits[i].session] \in 0 .. Len(contexts)
  <2>1. inits[i] \in Initialization
    BY <1>1
  <2>2. inits[i].after < i /\ inits[i].context \in DOMAIN contexts
    BY <1>2 DEF TypeOK, References
  <2>3. /\ inits[i].session \in Sessions /\ inits[i].since \in Nat
        /\ inits[i].after \in Nat /\ inits[i].failed \in BOOLEAN
    <3>1. /\ inits[i].session \in Sessions /\ inits[i].since \in 0 .. MaxVersion
          /\ inits[i].after \in Nat
      BY <2>1 DEF Initialization
    <3>2. inits[i].failed \in BOOLEAN
      BY <2>1, Zenon DEF Initialization
    <3>3. QED
      BY <1>1, <3>1, <3>2
  <2>4. QED
    BY <1>1, <1>2, <2>2, <2>3
<1>4. ASSUME NEW c \in 1 .. Len(contexts)
      PROVE  contexts[c].hard \in Nat
  <2>1. contexts[c] \in SessionContext
    BY <1>1
  <2>2. QED
    BY <1>1, <2>1 DEF SessionContext
<1>5. QED
  BY <1>1, <1>2, <1>3, <1>4

\* A step that moves no initialization, deletes no session and lets no request in.
LEMMA FreshAside ==
    ASSUME TypeOK, FreshInv,
           UNCHANGED <<inits, initializing>>,
           \A s \in Sessions : host'[s] # "deleted" <=> host[s] # "deleted",
           version' \in Nat, version <= version',
           Len(contexts') \in Nat, Len(contexts) <= Len(contexts'),
           \A k \in 1 .. Len(contexts) : contexts'[k].hard = contexts[k].hard,
           \A s \in Sessions : \/ sessions'[s] = sessions[s]
                               \/ sessions[s] = 0 /\ sessions'[s] > Len(contexts),
           \A r \in Requests : requests'[r].step = "gate" => requests'[r] = requests[r],
           \A s \in Sessions : sessions'[s] \in Nat
    PROVE  FreshInv'
<1>1. /\ inits' = inits /\ initializing' = initializing
      /\ DOMAIN inits = 1 .. Len(inits) /\ Len(inits) \in Nat
      /\ \A i \in 1 .. Len(inits) :
            /\ inits[i].session \in Sessions /\ inits[i].since \in Nat
            /\ inits[i].context \in 1 .. Len(contexts)
            /\ sessions[inits[i].session] \in 0 .. Len(contexts)
            /\ host'[inits[i].session] # "deleted" <=> host[inits[i].session] # "deleted"
  BY InitRanges
<1>2. ASSUME NEW i \in 1 .. Len(inits)
      PROVE  /\ host[inits[i].session] # "deleted" <=>
                   inits[i].context = sessions'[inits[i].session]
             /\ host[inits[i].session] # "deleted" =>
                   /\ sessions'[inits[i].session] = sessions[inits[i].session]
                   /\ sessions[inits[i].session] \in 1 .. Len(contexts)
  <2>1. host[inits[i].session] # "deleted" <=> inits[i].context = sessions[inits[i].session]
    BY <1>1 DEF FreshInv, Owned
  <2>2. \/ sessions'[inits[i].session] = sessions[inits[i].session]
        \/ /\ sessions[inits[i].session] = 0
           /\ sessions'[inits[i].session] > Len(contexts)
    BY <1>1
  <2>3. Len(contexts) \in Nat /\ sessions'[inits[i].session] \in Nat
    BY <1>1, InitRanges
  <2>4. QED
    BY <1>1, <2>1, <2>2, <2>3
<1>3. Owned'
  <2> SUFFICES ASSUME NEW i \in 1 .. Len(inits)
               PROVE  host'[inits[i].session] # "deleted" <=>
                         inits[i].context = sessions'[inits[i].session]
    BY <1>1 DEF Owned
  <2>1. QED
    BY <1>1, <1>2
<1>4. Held' /\ Chained' /\ LastHeld'
  <2>1. Held'
    BY <1>1 DEF FreshInv, Held
  <2>2. Chained'
    <3> SUFFICES ASSUME NEW j \in 1 .. Len(inits), NEW i \in 1 .. (j - 1),
                        inits[i].session = inits[j].session, host[inits[j].session] # "deleted"
                 PROVE  /\ \/ inits[i].step = "done"
                           \/ inits[j].after >= i
                              /\ inits[inits[j].after].session = inits[j].session
                        /\ inits[j].step # "queued" => inits[i].step = "done"
      BY <1>1 DEF Chained
    <3>1. j \in DOMAIN inits /\ i \in 1 .. (j - 1)
      BY <1>1
    <3>2. QED
      BY <3>1, Zenon DEF FreshInv, Chained
  <2>3. LastHeld'
    BY <1>1 DEF FreshInv, LastHeld
  <2>4. QED
    BY <2>1, <2>2, <2>3
<1>5. Gates'
  <2> SUFFICES ASSUME NEW r \in Requests, requests'[r].step = "gate"
               PROVE  /\ requests[r].asked <= Len(inits)
                      /\ \A i \in 1 .. requests[r].asked :
                            (inits[i].session = requests[r].session
                             /\ host'[inits[i].session] # "deleted") =>
                               \/ inits[i].step = "done"
                               \/ requests[r].gate >= i
                                  /\ inits[requests[r].gate].session = inits[i].session
    BY <1>1 DEF Gates
  <2>1. requests[r].step = "gate" /\ requests[r].asked <= Len(inits)
    BY DEF FreshInv, Gates
  <2>2. requests[r].asked \in Nat
    BY <2>1 DEF TypeOK, Request, Idle
  <2>3. ASSUME NEW i \in 1 .. requests[r].asked
        PROVE  host'[inits[i].session] # "deleted" => host[inits[i].session] # "deleted"
    BY <1>1, <2>1, <2>2
  <2>4. QED
    BY <2>1, <2>3 DEF FreshInv, Gates
<1>6. Fetched'
  <2> SUFFICES ASSUME NEW i \in 1 .. Len(inits), host[inits[i].session] # "deleted"
               PROVE  /\ inits[i].since <= version'
                      /\ inits[i].step \in {"soft", "done"} =>
                            inits[i].failed
                            \/ contexts'[sessions'[inits[i].session]].hard >= inits[i].since
                      /\ \A j \in 1 .. (i - 1) :
                            (inits[j].session = inits[i].session
                             /\ inits[i].step # "queued") =>
                               inits[j].since <= inits[i].since
    BY <1>1, Zenon DEF Fetched
  <2>1. contexts'[sessions'[inits[i].session]].hard = contexts[sessions[inits[i].session]].hard
    BY <1>2
  <2>2. /\ inits[i].since <= version
        /\ inits[i].step \in {"soft", "done"} =>
              inits[i].failed
              \/ contexts[sessions[inits[i].session]].hard >= inits[i].since
        /\ \A j \in 1 .. (i - 1) :
              (inits[j].session = inits[i].session /\ inits[i].step # "queued") =>
                 inits[j].since <= inits[i].since
    BY <1>1 DEF FreshInv, Fetched
  <2>3. inits[i].since \in Nat /\ version \in Nat
    BY <1>1, InitRanges
  <2>4. inits[i].since <= version'
    BY <2>2, <2>3
  <2>5. QED
    BY <2>1, <2>2, <2>4
<1>7. QED
  BY <1>3, <1>4, <1>5, <1>6 DEF FreshInv

LEMMA DeletedFresh ==
    ASSUME TypeOK, FreshInv, NEW s \in Sessions, Deleted(s)
    PROVE  FreshInv'
<1>1. /\ UNCHANGED <<version, contexts, inits, requests>>
      /\ sessions'[s] = 0 /\ initializing'[s] = 0 /\ host'[s] = "deleted"
      /\ \A u \in Sessions : u # s => /\ sessions'[u] = sessions[u]
                                      /\ initializing'[u] = initializing[u]
                                      /\ host'[u] # "deleted" <=> host[u] # "deleted"
  BY DEF Deleted, TypeOK
<1>2. /\ DOMAIN inits = 1 .. Len(inits) /\ Len(inits) \in Nat
      /\ \A i \in 1 .. Len(inits) : /\ inits[i].session \in Sessions
                                    /\ inits[i].context \in 1 .. Len(contexts)
      /\ Len(contexts) \in Nat
  BY InitRanges
<1>3. \A u \in Sessions : host'[u] # "deleted" => u # s /\ host[u] # "deleted"
  BY <1>1
<1>4. Owned'
  BY <1>1, <1>2 DEF FreshInv, Owned
<1>5. Held'
  BY <1>1 DEF FreshInv, Held
<1>6. Chained'
  <2> SUFFICES ASSUME NEW j \in 1 .. Len(inits), NEW i \in 1 .. (j - 1),
                      inits[i].session = inits[j].session, host'[inits[j].session] # "deleted"
               PROVE  /\ \/ inits[i].step = "done"
                         \/ inits[j].after >= i
                            /\ inits[inits[j].after].session = inits[j].session
                      /\ inits[j].step # "queued" => inits[i].step = "done"
    BY <1>1, <1>2 DEF Chained
  <2>1. host[inits[j].session] # "deleted"
    BY <1>2, <1>3
  <2>2. QED
    BY <1>2, <2>1 DEF FreshInv, Chained
<1>7. LastHeld'
  BY <1>1, <1>2, <1>3 DEF FreshInv, LastHeld
<1>8. Gates'
  <2> SUFFICES ASSUME NEW r \in Requests, requests[r].step = "gate"
               PROVE  /\ requests[r].asked <= Len(inits)
                      /\ \A i \in 1 .. requests[r].asked :
                            (inits[i].session = requests[r].session
                             /\ host'[inits[i].session] # "deleted") =>
                               \/ inits[i].step = "done"
                               \/ requests[r].gate >= i
                                  /\ inits[requests[r].gate].session = inits[i].session
    BY <1>1 DEF Gates
  <2>1. requests[r].asked <= Len(inits) /\ requests[r].asked \in Nat
    BY DEF FreshInv, Gates, TypeOK, Request, Idle
  <2>2. ASSUME NEW i \in 1 .. requests[r].asked
        PROVE  host'[inits[i].session] # "deleted" => host[inits[i].session] # "deleted"
    BY <1>2, <1>3, <2>1
  <2>3. QED
    BY <2>1, <2>2 DEF FreshInv, Gates
<1>9. Fetched'
  <2> SUFFICES ASSUME NEW i \in 1 .. Len(inits), host'[inits[i].session] # "deleted"
               PROVE  /\ inits[i].since <= version
                      /\ inits[i].step \in {"soft", "done"} =>
                            inits[i].failed
                            \/ contexts[sessions'[inits[i].session]].hard >= inits[i].since
                      /\ \A j \in 1 .. (i - 1) :
                            (inits[j].session = inits[i].session
                             /\ inits[i].step # "queued") =>
                               inits[j].since <= inits[i].since
    BY <1>1, <1>2 DEF Fetched
  <2>1. host[inits[i].session] # "deleted" /\ sessions'[inits[i].session] = sessions[inits[i].session]
    BY <1>1, <1>2, <1>3
  <2>2. QED
    BY <1>2, <2>1 DEF FreshInv, Fetched
<1>10. QED
  BY <1>4, <1>5, <1>6, <1>7, <1>8, <1>9 DEF FreshInv

LEMMA BeginRequestFresh ==
    ASSUME TypeOK, FreshInv, NEW r \in Requests, NEW s \in Sessions, BeginRequest(r, s)
    PROVE  FreshInv'
<1> DEFINE x == [step |-> "gate", session |-> s, context |-> sessions[s],
                 gate |-> initializing[s], asked |-> Len(inits)]
<1>1. /\ requests' = [requests EXCEPT ![r] = x]
      /\ UNCHANGED <<host, version, sessions, contexts, initializing, inits>>
  BY DEF BeginRequest
<1>2. /\ x.step = "gate" /\ x.session = s
      /\ x.gate = initializing[s] /\ x.asked = Len(inits)
  OBVIOUS
<1> HIDE DEF x
<1>3. /\ requests'[r] = x
      /\ \A u \in Requests : u # r => requests'[u] = requests[u]
  BY <1>1 DEF TypeOK
<1>4. /\ DOMAIN inits = 1 .. Len(inits) /\ Len(inits) \in Nat
      /\ \A i \in 1 .. Len(inits) :
            /\ inits[i].session \in Sessions
            /\ initializing[inits[i].session] \in 0 .. Len(inits)
  BY InitRanges
<1>5. Gates'
  <2> SUFFICES ASSUME NEW u \in Requests, requests'[u].step = "gate"
               PROVE  /\ requests'[u].asked <= Len(inits)
                      /\ \A i \in 1 .. requests'[u].asked :
                            (inits[i].session = requests'[u].session
                             /\ host[inits[i].session] # "deleted") =>
                               \/ inits[i].step = "done"
                               \/ requests'[u].gate >= i
                                  /\ inits[requests'[u].gate].session = inits[i].session
    BY <1>1 DEF Gates
  <2>1. CASE u = r
    <3> SUFFICES ASSUME NEW i \in 1 .. Len(inits), inits[i].session = s, host[s] # "deleted",
                        inits[i].step # "done"
                 PROVE  initializing[s] >= i /\ inits[initializing[s]].session = s
      BY <1>2, <1>3, <1>4, <2>1
    <3>1. initializing[s] >= i
      BY <1>4 DEF FreshInv, LastHeld
    <3>2. initializing[s] # 0
      BY <1>4, <3>1
    <3>3. QED
      BY <3>1, <3>2 DEF FreshInv, Held
  <2>2. CASE u # r
    <3>1. requests'[u] = requests[u]
      BY <1>3, <2>2
    <3>2. QED
      BY <3>1 DEF FreshInv, Gates
  <2>3. QED
    BY <2>1, <2>2
<1>6. Owned' /\ Held' /\ Chained' /\ LastHeld' /\ Fetched'
  BY <1>1 DEF FreshInv, Owned, Held, Chained, LastHeld, Fetched
<1>7. QED
  BY <1>5, <1>6 DEF FreshInv

\* A new initialization waits for the last that is not done.
LEMMA EnqueueFresh ==
    ASSUME TypeOK, FreshInv, NEW s \in Sessions, NEW kind \in Kind, Enqueue(s, kind),
           host[s] # "deleted", \A u \in Sessions : host'[u] # "deleted" <=> host[u] # "deleted",
           contexts' = ContextsWith(s), sessions' = [sessions EXCEPT ![s] = ContextOf(s)],
           UNCHANGED <<version, requests>>
    PROVE  FreshInv'
<1> DEFINE n == Len(inits) + 1
<1>1. /\ DOMAIN inits = 1 .. Len(inits) /\ Len(inits) \in Nat /\ Len(contexts) \in Nat
      /\ \A i \in 1 .. Len(inits) :
            /\ inits[i].session \in Sessions /\ inits[i].since \in Nat
            /\ inits[i].context \in 1 .. Len(contexts)
            /\ inits[i].after \in 0 .. (i - 1)
            /\ initializing[inits[i].session] \in 0 .. Len(inits)
            /\ sessions[inits[i].session] \in 0 .. Len(contexts)
      /\ initializing[s] \in 0 .. Len(inits) /\ version \in Nat
  BY InitRanges DEF TypeOK
<1>2. /\ inits' \in Seq(Initialization) /\ Len(inits') = n
      /\ \A k \in 1 .. Len(inits) : inits'[k] = inits[k]
      /\ inits'[n].session = s /\ inits'[n].context = ContextOf(s)
      /\ inits'[n].after = initializing[s] /\ inits'[n].step = "queued"
      /\ initializing'[s] = n
      /\ \A u \in Sessions : u # s => initializing'[u] = initializing[u]
  BY EnqueueFacts
<1>3. inits'[n].since = 0
  BY DEF Enqueue, TypeOK
<1>4. /\ DOMAIN inits' = 1 .. n /\ n \in Nat
      /\ \A k \in 1 .. n : k \in 1 .. Len(inits) \/ k = n
  BY <1>1, <1>2
<1>5. /\ sessions'[s] = ContextOf(s)
      /\ \A u \in Sessions : u # s => sessions'[u] = sessions[u]
      /\ sessions[s] # 0 => ContextOf(s) = sessions[s]
      /\ \A k \in 1 .. Len(contexts) : contexts'[k] = contexts[k]
  BY ContextsWithFacts DEF TypeOK
<1> HIDE DEF n
<1>6. ASSUME NEW i \in 1 .. Len(inits), host[inits[i].session] # "deleted"
      PROVE  /\ sessions'[inits[i].session] = sessions[inits[i].session]
             /\ sessions[inits[i].session] \in 1 .. Len(contexts)
  <2>1. inits[i].context = sessions[inits[i].session] /\ inits[i].context # 0
    BY <1>1, <1>6 DEF FreshInv, Owned
  <2>2. QED
    BY <1>1, <1>5, <2>1
<1>7. Owned'
  <2> SUFFICES ASSUME NEW i \in 1 .. n
               PROVE  host'[inits'[i].session] # "deleted" <=>
                         inits'[i].context = sessions'[inits'[i].session]
    BY <1>4 DEF Owned
  <2>1. CASE i = n
    BY <1>2, <1>5, <2>1
  <2>2. CASE i \in 1 .. Len(inits)
    <3>1. host[inits[i].session] # "deleted" <=> inits[i].context = sessions[inits[i].session]
      BY <1>1, <2>2 DEF FreshInv, Owned
    <3>2. host[inits[i].session] # "deleted" =>
             sessions'[inits[i].session] = sessions[inits[i].session]
      BY <1>6, <2>2
    <3>3. host[inits[i].session] = "deleted" =>
             sessions'[inits[i].session] = sessions[inits[i].session]
      BY <1>1, <1>5, <2>2
    <3>4. QED
      BY <1>1, <1>2, <2>2, <3>1, <3>2, <3>3
  <2>3. QED
    BY <1>4, <2>1, <2>2
<1>8. Held'
  <2> SUFFICES ASSUME NEW u \in Sessions, initializing'[u] # 0
               PROVE  inits'[initializing'[u]].session = u
    BY DEF Held
  <2>1. CASE u = s
    BY <1>2, <2>1
  <2>2. CASE u # s
    <3>1. initializing'[u] = initializing[u] /\ initializing[u] \in 1 .. Len(inits)
      BY <1>1, <1>2, <2>2 DEF TypeOK
    <3>2. inits[initializing[u]].session = u
      BY <3>1 DEF FreshInv, Held
    <3>3. QED
      BY <1>2, <3>1, <3>2
  <2>3. QED
    BY <2>1, <2>2
<1>9. Chained'
  <2> SUFFICES ASSUME NEW j \in 1 .. n, NEW i \in 1 .. (j - 1),
                      inits'[i].session = inits'[j].session, host'[inits'[j].session] # "deleted"
               PROVE  /\ \/ inits'[i].step = "done"
                         \/ inits'[j].after >= i
                            /\ inits'[inits'[j].after].session = inits'[j].session
                      /\ inits'[j].step # "queued" => inits'[i].step = "done"
    BY <1>4 DEF Chained
  <2>1. i \in 1 .. Len(inits) /\ inits'[i] = inits[i]
    BY <1>1, <1>2, <1>4
  <2>2. CASE j = n
    <3>1. inits[i].session = s
      BY <1>2, <2>1, <2>2
    <3>2. inits[i].step = "done" \/ initializing[s] >= i
      BY <1>1, <2>1, <3>1 DEF FreshInv, LastHeld
    <3>3. initializing[s] >= i =>
             initializing[s] \in 1 .. Len(inits) /\ inits[initializing[s]].session = s
      BY <1>1, <2>1 DEF FreshInv, Held
    <3>4. QED
      BY <1>2, <2>1, <2>2, <3>2, <3>3
  <2>3. CASE j \in 1 .. Len(inits)
    <3>1. inits'[j] = inits[j] /\ inits[j].session \in Sessions
      BY <1>1, <1>2, <2>3
    <3>2. inits[i].session = inits[j].session /\ host[inits[j].session] # "deleted"
      BY <2>1, <3>1
    <3>3. /\ \/ inits[i].step = "done"
             \/ inits[j].after >= i /\ inits[inits[j].after].session = inits[j].session
          /\ inits[j].step # "queued" => inits[i].step = "done"
      BY <1>1, <2>3, <3>2 DEF FreshInv, Chained
    <3>4. inits[j].after >= i => inits[j].after \in 1 .. Len(inits)
      BY <1>1, <2>1, <2>3
    <3>5. QED
      BY <1>2, <2>1, <3>1, <3>3, <3>4
  <2>4. QED
    BY <1>4, <2>2, <2>3
<1>10. LastHeld'
  <2> SUFFICES ASSUME NEW i \in 1 .. n, host'[inits'[i].session] # "deleted"
               PROVE  inits'[i].step = "done" \/ initializing'[inits'[i].session] >= i
    BY <1>4 DEF LastHeld
  <2>1. CASE inits'[i].session = s
    BY <1>2, <1>4, <2>1
  <2>2. CASE inits'[i].session # s
    <3>1. i \in 1 .. Len(inits) /\ inits'[i] = inits[i]
      BY <1>2, <1>4, <2>2
    <3>2. host[inits[i].session] # "deleted" /\ initializing'[inits[i].session]
                                        = initializing[inits[i].session]
      BY <1>1, <1>2, <2>2, <3>1
    <3>3. QED
      BY <1>1, <3>1, <3>2 DEF FreshInv, LastHeld
  <2>3. QED
    BY <2>1, <2>2
<1>11. Gates'
  <2> SUFFICES ASSUME NEW r \in Requests, requests[r].step = "gate"
               PROVE  /\ requests[r].asked <= n
                      /\ \A i \in 1 .. requests[r].asked :
                            (inits'[i].session = requests[r].session
                             /\ host'[inits'[i].session] # "deleted") =>
                               \/ inits'[i].step = "done"
                               \/ requests[r].gate >= i
                                  /\ inits'[requests[r].gate].session = inits'[i].session
    BY <1>2 DEF Gates
  <2>1. /\ requests[r].asked <= Len(inits) /\ requests[r].asked \in Nat
        /\ requests[r].gate \in 0 .. Len(inits)
    BY DEF FreshInv, Gates, TypeOK, Request, Idle, References
  <2>2. requests[r].asked <= n
    BY <1>1, <2>1 DEF n
  <2>3. ASSUME NEW i \in 1 .. requests[r].asked, inits'[i].session = requests[r].session,
               host'[inits'[i].session] # "deleted", inits'[i].step # "done"
        PROVE  requests[r].gate >= i
               /\ inits'[requests[r].gate].session = inits'[i].session
    <3>1. i \in 1 .. Len(inits) /\ inits'[i] = inits[i]
      BY <1>1, <1>2, <2>1
    <3>2. host[inits[i].session] # "deleted"
      BY <1>1, <2>3, <3>1
    <3>3. requests[r].gate >= i /\ inits[requests[r].gate].session = inits[i].session
      BY <2>3, <3>1, <3>2 DEF FreshInv, Gates
    <3>4. requests[r].gate \in 1 .. Len(inits)
      BY <2>1, <3>1, <3>3
    <3>5. QED
      BY <1>2, <3>1, <3>3, <3>4
  <2>4. QED
    BY <2>2, <2>3
<1>12. Fetched'
  <2> SUFFICES ASSUME NEW i \in 1 .. n, host'[inits'[i].session] # "deleted"
               PROVE  /\ inits'[i].since <= version
                      /\ inits'[i].step \in {"soft", "done"} =>
                            inits'[i].failed
                            \/ contexts'[sessions'[inits'[i].session]].hard >= inits'[i].since
                      /\ \A j \in 1 .. (i - 1) :
                            (inits'[j].session = inits'[i].session
                             /\ inits'[i].step # "queued") =>
                               inits'[j].since <= inits'[i].since
    BY <1>4 DEF Fetched
  <2>1. CASE i = n
    BY <1>1, <1>2, <1>3, <2>1
  <2>2. CASE i \in 1 .. Len(inits)
    <3>1. inits'[i] = inits[i] /\ host[inits[i].session] # "deleted"
      BY <1>1, <1>2, <2>2
    <3>2. \A j \in 1 .. (i - 1) : inits'[j] = inits[j]
      BY <1>1, <1>2, <2>2
    <3>3. contexts'[sessions'[inits[i].session]].hard = contexts[sessions[inits[i].session]].hard
      BY <1>5, <1>6, <2>2, <3>1
    <3>4. QED
      BY <1>1, <2>2, <3>1, <3>2, <3>3 DEF FreshInv, Fetched
  <2>3. QED
    BY <1>4, <2>1, <2>2
<1>13. QED
  BY <1>7, <1>8, <1>9, <1>10, <1>11, <1>12 DEF FreshInv

\* An initialization that goes on.  If it brings a bootstrap, nothing newer
\* was in the context.
LEMMA AdvanceFresh ==
    ASSUME TypeOK, Apart, FreshInv, NEW i \in 1 .. Len(inits), NEW next \in {"soft", "done"},
           NEW failed \in BOOLEAN, Advance(i, next, failed),
           inits[i].step # "done",
           host[inits[i].session] # "deleted" => inits[i].step \in {"hard", "soft"},
           (inits[i].step = "hard" /\ host[inits[i].session] # "deleted") =>
              failed \/ contexts'[sessions[inits[i].session]].hard >= inits[i].since,
           \A k \in 1 .. Len(contexts) :
              /\ contexts'[k].hard \in Nat
              /\ \/ contexts'[k].hard = contexts[k].hard
                 \/ /\ k = sessions[inits[i].session] /\ inits[i].step = "hard"
                    /\ contexts'[k].hard >= inits[i].since,
           UNCHANGED <<host, version, sessions, requests>>
    PROVE  FreshInv'
<1>1. /\ DOMAIN inits = 1 .. Len(inits) /\ Len(inits) \in Nat /\ Len(contexts) \in Nat
      /\ \A k \in 1 .. Len(inits) :
            /\ inits[k].session \in Sessions /\ inits[k].since \in Nat
            /\ inits[k].context \in 1 .. Len(contexts)
            /\ inits[k].after \in 0 .. (k - 1)
            /\ initializing[inits[k].session] \in 0 .. Len(inits)
            /\ sessions[inits[k].session] \in 0 .. Len(contexts)
      /\ version \in Nat
  BY InitRanges
<1>2. /\ inits' \in Seq(Initialization) /\ Len(inits') = Len(inits)
      /\ \A k \in 1 .. Len(inits) : k # i => inits'[k] = inits[k]
      /\ inits'[i].session = inits[i].session /\ inits'[i].context = inits[i].context
      /\ inits'[i].after = inits[i].after /\ inits'[i].since = inits[i].since
      /\ inits'[i].step = next
      /\ inits'[i].failed = (inits[i].failed \/ failed)
      /\ \A u \in Sessions :
            \/ initializing'[u] = initializing[u]
            \/ /\ initializing'[u] = 0 /\ initializing[u] = i
               /\ next = "done" /\ inits[i].session = u
  BY <1>1, AdvanceFacts
<1>3. /\ DOMAIN inits' = 1 .. Len(inits)
      /\ host' = host /\ version' = version /\ sessions' = sessions /\ requests' = requests
  <2>1. DOMAIN inits' = 1 .. Len(inits')
    BY <1>2, LenProperties
  <2>2. QED
    BY <1>2, <2>1
<1>4. \A k \in 1 .. Len(inits) :
         /\ inits'[k].session = inits[k].session /\ inits'[k].context = inits[k].context
         /\ inits'[k].after = inits[k].after /\ inits'[k].since = inits[k].since
         /\ inits[k].step = "done" => inits'[k].step = "done"
  BY <1>2
<1>5. ASSUME NEW k \in 1 .. Len(inits), NEW j \in 1 .. (k - 1),
             inits[j].session = inits[k].session, host[inits[k].session] # "deleted"
      PROVE  /\ \/ inits[j].step = "done"
                \/ inits[k].after >= j /\ inits[inits[k].after].session = inits[k].session
             /\ inits[k].step # "queued" => inits[j].step = "done"
  BY <1>1, <1>5, Zenon DEF FreshInv, Chained
<1>6. Owned'
  <2> SUFFICES ASSUME NEW k \in 1 .. Len(inits)
               PROVE  host'[inits'[k].session] # "deleted" <=>
                         inits'[k].context = sessions'[inits'[k].session]
    BY <1>3 DEF Owned
  <2>1. host[inits[k].session] # "deleted" <=> inits[k].context = sessions[inits[k].session]
    BY <1>1 DEF FreshInv, Owned
  <2>2. QED
    BY <1>3, <1>4, <2>1
<1>7. Held'
  <2> SUFFICES ASSUME NEW u \in Sessions, initializing'[u] # 0
               PROVE  inits'[initializing'[u]].session = u
    BY DEF Held
  <2>1. initializing'[u] = initializing[u] /\ initializing[u] \in 1 .. Len(inits)
    BY <1>1, <1>2 DEF TypeOK
  <2>2. QED
    BY <1>4, <2>1 DEF FreshInv, Held
<1>8. Chained'
  <2> SUFFICES ASSUME NEW k \in 1 .. Len(inits), NEW j \in 1 .. (k - 1),
                      inits'[j].session = inits'[k].session,
                      host[inits'[k].session] # "deleted"
               PROVE  /\ \/ inits'[j].step = "done"
                         \/ inits'[k].after >= j
                            /\ inits'[inits'[k].after].session = inits'[k].session
                      /\ inits'[k].step # "queued" => inits'[j].step = "done"
    BY <1>3 DEF Chained
  <2>1. j \in 1 .. Len(inits)
    BY <1>1
  <2>2. inits[j].session = inits[k].session /\ host[inits[k].session] # "deleted"
    BY <1>4, <2>1
  <2>3. /\ \/ inits[j].step = "done"
           \/ inits[k].after >= j /\ inits[inits[k].after].session = inits[k].session
        /\ inits[k].step # "queued" => inits[j].step = "done"
    BY <1>5, <2>2
  <2>4. inits[k].after >= j => inits[k].after \in 1 .. Len(inits)
    BY <1>1, <2>1
  <2>5. inits'[k].step # "queued" => inits[k].step # "queued"
    BY <1>2, <2>2
  <2>6. QED
    BY <1>4, <2>1, <2>3, <2>4, <2>5
<1>9. LastHeld'
  <2> SUFFICES ASSUME NEW k \in 1 .. Len(inits), host[inits[k].session] # "deleted",
                      inits'[k].step # "done"
               PROVE  initializing'[inits[k].session] >= k
    BY <1>3, <1>4 DEF LastHeld
  <2>1. initializing[inits[k].session] >= k
    BY <1>1, <1>4 DEF FreshInv, LastHeld
  <2>2. SUFFICES ASSUME initializing'[inits[k].session] # initializing[inits[k].session]
                 PROVE  FALSE
    BY <2>1
  <2>3. /\ initializing[inits[k].session] = i /\ next = "done"
        /\ inits[i].session = inits[k].session
    BY <1>1, <1>2, <2>2
  <2>4. k \in 1 .. (i - 1)
    BY <1>1, <1>2, <2>1, <2>3
  <2>5. inits[k].step = "done"
    BY <1>5, <2>3, <2>4
  <2>6. QED
    BY <1>4, <2>5
<1>10. Gates'
  <2> SUFFICES ASSUME NEW r \in Requests, requests[r].step = "gate"
               PROVE  /\ requests[r].asked <= Len(inits)
                      /\ \A k \in 1 .. requests[r].asked :
                            (inits'[k].session = requests[r].session
                             /\ host[inits'[k].session] # "deleted") =>
                               \/ inits'[k].step = "done"
                               \/ requests[r].gate >= k
                                  /\ inits'[requests[r].gate].session = inits'[k].session
    BY <1>2, <1>3 DEF Gates
  <2>1. /\ requests[r].asked <= Len(inits) /\ requests[r].asked \in Nat
        /\ requests[r].gate \in 0 .. Len(inits)
    BY DEF FreshInv, Gates, TypeOK, Request, Idle, References
  <2>2. ASSUME NEW k \in 1 .. requests[r].asked, inits'[k].session = requests[r].session,
               host[inits'[k].session] # "deleted", inits'[k].step # "done"
        PROVE  requests[r].gate >= k
               /\ inits'[requests[r].gate].session = inits'[k].session
    <3>1. k \in 1 .. Len(inits)
      BY <1>1, <2>1
    <3>2. requests[r].gate >= k /\ inits[requests[r].gate].session = inits[k].session
      BY <1>4, <2>2, <3>1 DEF FreshInv, Gates
    <3>3. requests[r].gate \in 1 .. Len(inits)
      BY <2>1, <3>1, <3>2
    <3>4. QED
      BY <1>4, <3>1, <3>2, <3>3
  <2>3. QED
    BY <2>1, <2>2
<1>11. Fetched'
  <2> SUFFICES ASSUME NEW k \in 1 .. Len(inits), host[inits[k].session] # "deleted"
               PROVE  /\ inits[k].since <= version
                      /\ inits'[k].step \in {"soft", "done"} =>
                            inits'[k].failed
                            \/ contexts'[sessions[inits[k].session]].hard >= inits[k].since
                      /\ \A j \in 1 .. (k - 1) :
                            (inits'[j].session = inits'[k].session
                             /\ inits'[k].step # "queued") =>
                               inits'[j].since <= inits'[k].since
    BY <1>3, <1>4 DEF Fetched
  <2>1. /\ inits[k].since <= version
        /\ inits[k].step \in {"soft", "done"} =>
              inits[k].failed \/ contexts[sessions[inits[k].session]].hard >= inits[k].since
        /\ \A j \in 1 .. (k - 1) :
              (inits[j].session = inits[k].session /\ inits[k].step # "queued") =>
                 inits[j].since <= inits[k].since
    BY <1>1 DEF FreshInv, Fetched
  <2>2. ASSUME NEW j \in 1 .. (k - 1), inits'[j].session = inits'[k].session,
               inits'[k].step # "queued"
        PROVE  inits'[j].since <= inits'[k].since
    <3>1. j \in 1 .. Len(inits)
      BY <1>1
    <3>2. inits[k].step # "queued"
      BY <1>2, <2>2
    <3>3. QED
      BY <1>4, <2>1, <2>2, <3>1, <3>2
  <2> DEFINE c == sessions[inits[k].session]
  <2>3. c \in 1 .. Len(contexts) /\ c = inits[k].context
    BY <1>1 DEF FreshInv, Owned
  <2>4. ASSUME inits'[k].step \in {"soft", "done"}
        PROVE  inits'[k].failed \/ contexts'[c].hard >= inits[k].since
    <3>1. CASE k = i
      <4>1. CASE inits[i].step = "hard"
        BY <1>2, <3>1, <4>1
      <4>2. CASE inits[i].step = "soft"
        <5>1. contexts'[c].hard = contexts[c].hard
          BY <2>3, <4>2
        <5>2. QED
          BY <1>2, <2>1, <3>1, <4>2, <5>1
      <4>3. QED
        BY <3>1, <4>1, <4>2
    <3>2. CASE k # i
      <4>1. inits'[k] = inits[k] /\ inits[k].step \in {"soft", "done"}
        BY <1>2, <2>4, <3>2
      <4>2. CASE contexts'[c].hard = contexts[c].hard
        BY <2>1, <4>1, <4>2
      <4>3. CASE /\ c = sessions[inits[i].session] /\ inits[i].step = "hard"
                 /\ contexts'[c].hard >= inits[i].since
        <5>1. inits[k].session = inits[i].session
          <6>1. /\ inits[k].session \in Sessions /\ inits[i].session \in Sessions
                /\ sessions[inits[k].session] = sessions[inits[i].session]
                /\ sessions[inits[k].session] # 0
            BY <1>1, <2>3, <4>3
          <6>2. QED
            BY <6>1 DEF Apart
        <5>2. k < i
          <6>1. ~ (i \in 1 .. (k - 1))
            BY <1>5, <4>1, <4>3, <5>1
          <6>2. QED
            BY <1>1, <3>2, <6>1
        <5>3. inits[k].since <= inits[i].since
          <6>1. k \in 1 .. (i - 1) /\ inits[i].step # "queued"
            BY <1>1, <4>3, <5>2
          <6>2. QED
            BY <1>1, <5>1, <6>1 DEF FreshInv, Fetched
        <5>4. QED
          <6>1. contexts'[c].hard \in Nat /\ inits[k].since \in Nat /\ inits[i].since \in Nat
            BY <1>1, <2>3
          <6>2. QED
            BY <4>3, <5>3, <6>1
      <4>4. QED
        BY <2>3, <4>2, <4>3
    <3>3. QED
      BY <3>1, <3>2
  <2>5. QED
    BY <2>1, <2>2, <2>4
<1>12. QED
  BY <1>6, <1>7, <1>8, <1>9, <1>10, <1>11 DEF FreshInv

\* What BeginInit makes of an initialization whose fetch begins.
WithFetch(i) == [inits EXCEPT ![i].step = "hard", ![i].since = version]

\* A fetch begins when nothing of its session is left to be done before it.
LEMMA FetchFresh ==
    ASSUME TypeOK, FreshInv, NEW i \in 1 .. Len(inits), inits[i].step = "queued",
           inits[i].after # 0 => inits[inits[i].after].step = "done",
           inits' = WithFetch(i),
           UNCHANGED <<host, version, sessions, contexts, initializing, requests>>
    PROVE  FreshInv'
<1> DEFINE x == [inits[i] EXCEPT !.step = "hard", !.since = version]
<1>1. /\ DOMAIN inits = 1 .. Len(inits) /\ Len(inits) \in Nat /\ Len(contexts) \in Nat
      /\ \A k \in 1 .. Len(inits) :
            /\ inits[k].session \in Sessions /\ inits[k].since \in Nat
            /\ inits[k].context \in 1 .. Len(contexts)
            /\ inits[k].after \in 0 .. (k - 1)
            /\ initializing[inits[k].session] \in 0 .. Len(inits)
      /\ version \in Nat /\ inits \in Seq(Initialization)
  BY InitRanges
<1>2. inits[i] \in Initialization /\ version \in 0 .. MaxVersion
  BY <1>1, OpenCodePluginAssumption DEF TypeOK
<1>3. /\ x \in Initialization
      /\ x.session = inits[i].session /\ x.context = inits[i].context
      /\ x.after = inits[i].after /\ x.step = "hard" /\ x.since = version
  BY <1>2 DEF Initialization
<1>4. inits' = [inits EXCEPT ![i] = x]
  BY DEF WithFetch
<1> HIDE DEF x
<1>5. /\ DOMAIN inits' = 1 .. Len(inits) /\ Len(inits') = Len(inits) /\ inits'[i] = x
      /\ \A k \in 1 .. Len(inits) : k # i => inits'[k] = inits[k]
      /\ host' = host /\ version' = version /\ sessions' = sessions /\ requests' = requests
  <2>1. /\ inits' \in Seq(Initialization) /\ Len(inits') = Len(inits) /\ inits'[i] = x
        /\ \A k \in 1 .. Len(inits) : k # i => inits'[k] = inits[k]
    BY <1>1, <1>3, <1>4, ReplaceInit
  <2>2. DOMAIN inits' = 1 .. Len(inits')
    BY <2>1, LenProperties
  <2>3. QED
    BY <2>1, <2>2
<1>6. \A k \in 1 .. Len(inits) :
         /\ inits'[k].session = inits[k].session /\ inits'[k].context = inits[k].context
         /\ inits'[k].after = inits[k].after
         /\ inits'[k].step = "done" <=> inits[k].step = "done"
  BY <1>3, <1>5
<1>7. ASSUME NEW k \in 1 .. Len(inits), NEW j \in 1 .. (k - 1),
             inits[j].session = inits[k].session, host[inits[k].session] # "deleted"
      PROVE  /\ \/ inits[j].step = "done"
                \/ inits[k].after >= j /\ inits[inits[k].after].session = inits[k].session
             /\ inits[k].step # "queued" => inits[j].step = "done"
  BY <1>1, <1>7, Zenon DEF FreshInv, Chained
\* All that is before it is done, through the one it waited for.
<1>8. ASSUME NEW j \in 1 .. (i - 1), inits[j].session = inits[i].session,
             host[inits[i].session] # "deleted"
      PROVE  inits[j].step = "done"
  <2> DEFINE a == inits[i].after
  <2>1. \/ inits[j].step = "done"
        \/ a >= j /\ inits[a].session = inits[i].session
    BY <1>7, <1>8
  <2>2. SUFFICES ASSUME a >= j, inits[a].session = inits[i].session
                 PROVE  inits[j].step = "done"
    BY <2>1
  <2>3. a \in 1 .. Len(inits) /\ a # 0 /\ (a = j \/ j \in 1 .. (a - 1))
    BY <1>1, <2>2
  <2>4. inits[a].step = "done"
    BY <2>3
  <2>5. CASE a = j
    BY <2>4, <2>5
  <2>6. CASE j \in 1 .. (a - 1)
    BY <1>7, <1>8, <2>2, <2>3, <2>4, <2>6
  <2>7. QED
    BY <2>3, <2>5, <2>6
<1>9. Owned' /\ Held'
  <2>1. Owned'
    BY <1>1, <1>5, <1>6 DEF FreshInv, Owned
  <2>2. Held'
    <3> SUFFICES ASSUME NEW u \in Sessions, initializing[u] # 0
                 PROVE  inits'[initializing[u]].session = u
      BY DEF Held
    <3>1. initializing[u] \in 1 .. Len(inits)
      BY <1>1 DEF TypeOK
    <3>2. QED
      BY <1>6, <3>1 DEF FreshInv, Held
  <2>3. QED
    BY <2>1, <2>2
<1>10. Chained'
  <2> SUFFICES ASSUME NEW k \in 1 .. Len(inits), NEW j \in 1 .. (k - 1),
                      inits'[j].session = inits'[k].session,
                      host[inits'[k].session] # "deleted"
               PROVE  /\ \/ inits'[j].step = "done"
                         \/ inits'[k].after >= j
                            /\ inits'[inits'[k].after].session = inits'[k].session
                      /\ inits'[k].step # "queued" => inits'[j].step = "done"
    BY <1>5 DEF Chained
  <2>1. j \in 1 .. Len(inits)
    BY <1>1
  <2>2. inits[j].session = inits[k].session /\ host[inits[k].session] # "deleted"
    BY <1>6, <2>1
  <2>3. /\ \/ inits[j].step = "done"
           \/ inits[k].after >= j /\ inits[inits[k].after].session = inits[k].session
        /\ inits[k].step # "queued" => inits[j].step = "done"
    BY <1>7, <2>2
  <2>4. inits[k].after >= j => inits[k].after \in 1 .. Len(inits)
    BY <1>1, <2>1
  <2>5. inits'[k].step # "queued" => inits[j].step = "done"
    <3>1. CASE k = i
      BY <1>8, <2>2, <3>1
    <3>2. CASE k # i
      BY <1>5, <2>3, <3>2
    <3>3. QED
      BY <3>1, <3>2
  <2>6. QED
    BY <1>6, <2>1, <2>3, <2>4, <2>5
<1>11. LastHeld'
  BY <1>5, <1>6, <1>1, Zenon DEF FreshInv, LastHeld
<1>12. Gates'
  <2> SUFFICES ASSUME NEW r \in Requests, requests[r].step = "gate"
               PROVE  /\ requests[r].asked <= Len(inits)
                      /\ \A k \in 1 .. requests[r].asked :
                            (inits'[k].session = requests[r].session
                             /\ host[inits'[k].session] # "deleted") =>
                               \/ inits'[k].step = "done"
                               \/ requests[r].gate >= k
                                  /\ inits'[requests[r].gate].session = inits'[k].session
    BY <1>5 DEF Gates
  <2>1. /\ requests[r].asked <= Len(inits) /\ requests[r].asked \in Nat
        /\ requests[r].gate \in 0 .. Len(inits)
    BY DEF FreshInv, Gates, TypeOK, Request, Idle, References
  <2>2. ASSUME NEW k \in 1 .. requests[r].asked, inits'[k].session = requests[r].session,
               host[inits'[k].session] # "deleted", inits'[k].step # "done"
        PROVE  requests[r].gate >= k
               /\ inits'[requests[r].gate].session = inits'[k].session
    <3>1. k \in 1 .. Len(inits)
      BY <1>1, <2>1
    <3>2. requests[r].gate >= k /\ inits[requests[r].gate].session = inits[k].session
      BY <1>6, <2>2, <3>1 DEF FreshInv, Gates
    <3>3. requests[r].gate \in 1 .. Len(inits)
      BY <2>1, <3>1, <3>2
    <3>4. QED
      BY <1>6, <3>1, <3>2, <3>3
  <2>3. QED
    BY <2>1, <2>2
<1>13. Fetched'
  <2> SUFFICES ASSUME NEW k \in 1 .. Len(inits), host[inits[k].session] # "deleted"
               PROVE  /\ inits'[k].since <= version
                      /\ inits'[k].step \in {"soft", "done"} =>
                            inits'[k].failed
                            \/ contexts[sessions[inits'[k].session]].hard >= inits'[k].since
                      /\ \A j \in 1 .. (k - 1) :
                            (inits'[j].session = inits'[k].session
                             /\ inits'[k].step # "queued") =>
                               inits'[j].since <= inits'[k].since
    BY <1>5, <1>6 DEF Fetched
  <2>1. ASSUME NEW j \in 1 .. Len(inits), host[inits[j].session] # "deleted"
        PROVE  /\ inits[j].since <= version
               /\ inits[j].step \in {"soft", "done"} =>
                     inits[j].failed
                     \/ contexts[sessions[inits[j].session]].hard >= inits[j].since
               /\ \A l \in 1 .. (j - 1) :
                     (inits[l].session = inits[j].session /\ inits[j].step # "queued") =>
                        inits[l].since <= inits[j].since
    BY <1>1, <2>1 DEF FreshInv, Fetched
  <2>2. CASE k = i
    <3>1. inits'[k].since = version /\ inits'[k].step = "hard"
      BY <1>3, <1>5, <2>2
    <3>2. ASSUME NEW j \in 1 .. (k - 1), inits'[j].session = inits'[k].session
          PROVE  inits'[j].since <= version
      <4>1. j \in 1 .. Len(inits) /\ j # i
        BY <1>1, <2>2
      <4>2. inits'[j] = inits[j] /\ host[inits[j].session] # "deleted"
        BY <1>5, <1>6, <3>2, <4>1
      <4>3. QED
        BY <2>1, <4>1, <4>2
    <3>3. QED
      BY <1>1, <3>1, <3>2
  <2>3. CASE k # i
    <3>1. inits'[k] = inits[k]
      BY <1>5, <2>3
    <3>2. ASSUME NEW j \in 1 .. (k - 1), inits'[j].session = inits'[k].session,
                 inits'[k].step # "queued"
          PROVE  inits'[j].since <= inits'[k].since
      <4>1. j \in 1 .. Len(inits) /\ inits[j].session = inits[k].session
        BY <1>1, <1>6, <3>2
      <4>2. inits[j].step = "done"
        BY <1>7, <3>1, <3>2, <4>1
      <4>3. inits'[j] = inits[j]
        BY <1>5, <4>1, <4>2
      <4>4. QED
        BY <2>1, <3>1, <3>2, <4>1, <4>3
    <3>3. QED
      BY <2>1, <3>1, <3>2
  <2>4. QED
    BY <2>2, <2>3
<1>14. QED
  BY <1>9, <1>10, <1>11, <1>12, <1>13 DEF FreshInv

\* The same for a step that gives no session a context.
LEMMA FreshQuiet ==
    ASSUME TypeOK, FreshInv, UNCHANGED <<inits, initializing, sessions>>,
           \A s \in Sessions : host'[s] # "deleted" <=> host[s] # "deleted",
           version' \in Nat, version <= version', Len(contexts') = Len(contexts),
           \A k \in 1 .. Len(contexts) : contexts'[k].hard = contexts[k].hard,
           \A r \in Requests : requests'[r].step = "gate" => requests'[r] = requests[r]
    PROVE  FreshInv'
<1>1. Len(contexts) \in Nat
  BY InitRanges
<1>2. \A s \in Sessions : sessions'[s] = sessions[s] /\ sessions'[s] \in Nat
  BY <1>1 DEF TypeOK
<1>3. Len(contexts') \in Nat /\ Len(contexts) <= Len(contexts')
  BY <1>1
<1>4. QED
  BY <1>2, <1>3, FreshAside

LEMMA CreatedFresh ==
    ASSUME TypeOK, FreshInv, NEW s \in Sessions, Created(s)
    PROVE  FreshInv'
<1>1. /\ \A u \in Sessions : host'[u] # "deleted" <=> host[u] # "deleted"
      /\ host[s] # "deleted" /\ UNCHANGED <<version, requests>>
      /\ version' \in Nat /\ version <= version'
  BY InitRanges DEF Created, TypeOK
<1>2. CASE Refused(s)
  <2>1. UNCHANGED <<sessions, contexts, initializing, inits>>
    BY <1>2 DEF Created
  <2>2. QED
    BY <1>1, <2>1, FreshQuiet
<1>3. CASE ~ Refused(s)
  <2>1. /\ contexts' = ContextsWith(s) /\ sessions' = [sessions EXCEPT ![s] = ContextOf(s)]
        /\ Enqueue(s, "created")
    BY <1>3 DEF Created
  <2>2. "created" \in Kind
    BY DEF Kind
  <2>3. QED
    BY <1>1, <2>1, <2>2, EnqueueFresh
<1>4. QED
  BY <1>2, <1>3

LEMMA CompactedFresh ==
    ASSUME TypeOK, FreshInv, NEW s \in Sessions, Compacted(s)
    PROVE  FreshInv'
<1>1. /\ host[s] # "deleted" /\ sessions[s] # 0 /\ Enqueue(s, "compacted")
      /\ host' = host /\ sessions' = sessions /\ contexts' = contexts
      /\ UNCHANGED <<version, requests>>
  BY DEF Compacted
<1>2. contexts' = ContextsWith(s) /\ sessions' = [sessions EXCEPT ![s] = ContextOf(s)]
  <2>1. sessions = [sessions EXCEPT ![s] = sessions[s]]
    BY DEF TypeOK
  <2>2. QED
    BY <1>1, <2>1 DEF ContextsWith, ContextOf
<1>3. "compacted" \in Kind
  BY DEF Kind
<1>4. QED
  BY <1>1, <1>2, <1>3, EnqueueFresh

\* Initializations.

LEMMA InitStepFresh ==
    ASSUME Inv, FreshInv, NEW i \in DOMAIN inits,
           BeginInit(i) \/ HardReturns(i) \/ SoftReturns(i) \/ InitFails(i)
    PROVE  FreshInv'
<1> DEFINE s == inits[i].session
           c == sessions[s]
<1>1. /\ TypeOK /\ Apart /\ contexts \in Seq(SessionContext)
      /\ i \in 1 .. Len(inits) /\ s \in Sessions /\ c \in 0 .. Len(contexts)
      /\ \A k \in 1 .. Len(contexts) : contexts[k].hard \in Nat
      /\ Len(contexts) \in Nat /\ inits[i].since \in Nat /\ version \in Nat
      /\ AfterHard(i) \in {"soft", "done"}
  <2>1. TypeOK /\ Apart /\ contexts \in Seq(SessionContext) /\ i \in 1 .. Len(inits)
    BY DEF Inv, TypeOK, LookupInv
  <2>2. QED
    BY <2>1, InitRanges, NextStepFacts
<1>2. host[s] # "deleted" => c \in 1 .. Len(contexts)
  BY <1>1, InitRanges DEF FreshInv, Owned
<1>3. CASE BeginInit(i)
  <2>1. CASE c = 0
    <3>1. /\ Advance(i, AfterHard(i), FALSE) /\ inits[i].step = "queued"
          /\ UNCHANGED <<host, version, sessions, contexts, requests>>
      BY <1>3, <2>1 DEF BeginInit
    <3>2. ~ (host[s] # "deleted")
      BY <1>1, <1>2, <2>1
    <3>3. QED
      BY <1>1, <3>1, <3>2, AdvanceFresh
  <2>2. CASE c # 0
    <3>1. /\ inits' = WithFetch(i) /\ inits[i].step = "queued"
          /\ inits[i].after # 0 => inits[inits[i].after].step = "done"
          /\ UNCHANGED <<host, version, sessions, contexts, initializing, requests>>
      BY <1>3, <2>2 DEF BeginInit, WithFetch
    <3>2. QED
      BY <1>1, <3>1, FetchFresh
  <2>3. QED
    BY <2>1, <2>2
<1>4. CASE HardReturns(i)
  <2>1. /\ Advance(i, AfterHard(i), FALSE) /\ inits[i].step = "hard"
        /\ UNCHANGED <<host, version, sessions, requests>>
    BY <1>4 DEF HardReturns
  <2>2. PICK v \in inits[i].since .. version :
          contexts' = IF c = 0 THEN contexts ELSE [contexts EXCEPT ![c].hard = v]
    BY <1>4 DEF HardReturns
  <2>3. v \in 0 .. MaxVersion /\ v \in Nat /\ v >= inits[i].since
    BY <1>1, NextStepFacts
  <2> HIDE DEF c
  <2>4. /\ \A k \in 1 .. Len(contexts) :
              contexts'[k].hard = IF k = c THEN v ELSE contexts[k].hard
    <3>1. CASE c = 0
      BY <1>1, <2>2, <3>1
    <3>2. CASE c # 0
      <4>1. c \in 1 .. Len(contexts) /\ contexts' = [contexts EXCEPT ![c].hard = v]
        BY <1>1, <2>2, <3>2
      <4>2. QED
        BY <1>1, <2>3, <4>1, SetHard
    <3>3. QED
      BY <3>1, <3>2
  <2>5. \A k \in 1 .. Len(contexts) :
           /\ contexts'[k].hard \in Nat
           /\ \/ contexts'[k].hard = contexts[k].hard
              \/ k = c /\ inits[i].step = "hard" /\ contexts'[k].hard >= inits[i].since
    BY <1>1, <2>1, <2>3, <2>4
  <2>6. host[s] # "deleted" => contexts'[c].hard >= inits[i].since
    BY <1>2, <2>3, <2>4
  <2>7. QED
    BY <1>1, <2>1, <2>5, <2>6, AdvanceFresh DEF c
<1>5. CASE SoftReturns(i)
  <2>1. /\ Advance(i, "done", FALSE) /\ inits[i].step = "soft"
        /\ UNCHANGED <<host, version, sessions, requests>>
        /\ contexts' = IF c = 0 THEN contexts
                       ELSE [contexts EXCEPT ![c].events = contexts[c].events + 1]
    BY <1>5 DEF SoftReturns
  <2>2. \A k \in 1 .. Len(contexts) : contexts'[k].hard = contexts[k].hard
    <3> HIDE DEF c
    <3>1. CASE c = 0
      BY <2>1, <3>1
    <3>2. CASE c # 0
      <4> DEFINE n == contexts[c].events + 1
      <4>1. c \in 1 .. Len(contexts) /\ contexts' = [contexts EXCEPT ![c].events = n]
        BY <1>1, <2>1, <3>2
      <4>2. contexts[c] \in SessionContext
        BY <1>1, <4>1
      <4>3. n \in Nat
        BY <4>2 DEF SessionContext
      <4> HIDE DEF n
      <4>4. QED
        BY <1>1, <4>1, <4>3, SetEvents
    <3>3. QED
      BY <3>1, <3>2
  <2>3. QED
    BY <1>1, <2>1, <2>2, AdvanceFresh
<1>6. CASE InitFails(i)
  <2> DEFINE next == IF inits[i].step = "hard" THEN AfterHard(i) ELSE "done"
  <2>1. /\ Advance(i, next, TRUE) /\ inits[i].step \in {"hard", "soft"}
        /\ UNCHANGED <<host, version, sessions, contexts, requests>>
    BY <1>6 DEF InitFails
  <2>2. next \in {"soft", "done"}
    BY <1>1
  <2> HIDE DEF next
  <2>3. QED
    BY <1>1, <2>1, <2>2, AdvanceFresh
<1>7. QED
  BY <1>3, <1>4, <1>5, <1>6

\* Tool calls change no bootstrap.

LEMMA TryPathFresh ==
    ASSUME Inv, FreshInv, NEW t \in Calls, TryPath(t)
    PROVE  FreshInv'
<1> DEFINE s == calls[t].session
           p == Head(calls[t].paths)
           c == ContextOf(s)
<1>1. /\ TypeOK /\ Apart /\ s \in Sessions /\ p \in Paths
      /\ sessions' = [sessions EXCEPT ![s] = c]
      /\ UNCHANGED <<host, version, initializing, inits, requests>>
      /\ contexts' = ContextsWith(s) \/ contexts' = Enter(ContextsWith(s), c, p, t)
  BY TryPathCases DEF Inv, LookupInv
<1>2. /\ ContextsWith(s) \in Seq(SessionContext) /\ c \in 1 .. Len(ContextsWith(s))
      /\ Len(contexts) \in Nat /\ Len(ContextsWith(s)) \in Nat
      /\ Len(contexts) <= Len(ContextsWith(s))
      /\ \A k \in 1 .. Len(contexts) : ContextsWith(s)[k] = contexts[k]
  BY <1>1, ContextsWithFacts
<1>3. /\ sessions' \in [Sessions -> 0 .. Len(ContextsWith(s))]
      /\ \A u \in Sessions : \/ sessions'[u] = sessions[u]
                             \/ sessions[u] = 0 /\ sessions'[u] > Len(contexts)
  BY <1>1, AdmitApart
<1>4. \A u \in Sessions : sessions'[u] \in Nat
  BY <1>2, <1>3
<1>5. /\ Len(contexts') = Len(ContextsWith(s))
      /\ \A k \in 1 .. Len(contexts) : contexts'[k].hard = contexts[k].hard
  <2>1. CASE contexts' = ContextsWith(s)
    BY <1>2, <2>1
  <2>2. CASE contexts' = Enter(ContextsWith(s), c, p, t)
    <3> DEFINE old == ContextsWith(s)
    <3>1. t \in Entry /\ contexts' = Enter(old, c, p, t)
      BY <2>2 DEF Entry
    <3>2. \A k \in 1 .. Len(contexts) : k \in 1 .. Len(old) /\ old[k] = contexts[k]
      BY <1>2
    <3>3. old \in Seq(SessionContext) /\ c \in 1 .. Len(old)
      BY <1>2
    <3> HIDE DEF old, c, p
    <3>4. /\ Len(contexts') = Len(old)
          /\ \A k \in 1 .. Len(old) : contexts'[k].hard = old[k].hard
      <4> DEFINE new == Enter(old, c, p, t)
      <4>1. EntersOnly(new, old, c, p, t)
        BY <1>1, <3>1, <3>3, SetPending, Zenon
      <4>2. contexts' = new
        BY <3>1
      <4> HIDE DEF new
      <4>3. QED
        BY <4>1, <4>2 DEF EntersOnly
    <3>5. QED
      BY <3>2, <3>4 DEF old
  <2>3. QED
    BY <1>1, <2>1, <2>2
<1>6. version' \in Nat /\ version <= version'
  BY <1>1, InitRanges
<1>7. QED
  BY <1>1, <1>2, <1>3, <1>4, <1>5, <1>6, FreshAside

LEMMA EndFresh ==
    ASSUME Inv, FreshInv, NEW t \in Calls, calls[t].step = "lookup",
           NEW active \in Seq(SessionContext), Len(active) = Len(contexts),
           \A k \in 1 .. Len(contexts) : active[k].pending = contexts[k].pending
                                         /\ active[k].hard = contexts[k].hard,
           Release(t, active),
           UNCHANGED <<host, version, sessions, initializing, inits, requests>>
    PROVE  FreshInv'
<1>1. TypeOK /\ Registered /\ LookupOK(t)
  BY DEF Inv, LookupInv, Lookups
<1>2. /\ Len(contexts') = Len(contexts)
      /\ \A k \in 1 .. Len(contexts) : contexts'[k].hard = active[k].hard
  BY <1>1, ReleaseFacts
<1>3. version' \in Nat /\ version <= version'
  BY <1>1, InitRanges
<1>4. QED
  BY <1>1, <1>2, <1>3, FreshQuiet

LEMMA LookupFresh ==
    ASSUME Inv, FreshInv, NEW t \in Calls, LookupReturns(t) \/ LookupFails(t)
    PROVE  FreshInv'
<1> DEFINE c == calls[t].context
           p == Head(calls[t].paths)
<1>1. /\ TypeOK /\ contexts \in Seq(SessionContext) /\ calls[t].step = "lookup"
      /\ UNCHANGED <<host, version, sessions, initializing, inits, requests>>
  BY DEF Inv, TypeOK, LookupReturns, LookupFails
<1>2. CASE Release(t, contexts)
  BY <1>1, <1>2, EndFresh
<1>3. CASE Release(t, [contexts EXCEPT ![c].scopes = @ \cup ScopesOf[p]])
  <2> DEFINE x == [contexts[c] EXCEPT !.scopes = @ \cup ScopesOf[p]]
             active == [contexts EXCEPT ![c].scopes = @ \cup ScopesOf[p]]
  <2>1. LookupOK(t) /\ c \in 1 .. Len(contexts)
    BY <1>1 DEF Inv, LookupInv, Lookups, TypeOK, References
  <2>2. contexts[c] \in SessionContext /\ ScopesOf[p] \subseteq Scopes
    BY <1>1, <2>1 DEF LookupOK, Scopes
  <2>3. x \in SessionContext /\ x.pending = contexts[c].pending /\ x.hard = contexts[c].hard
    BY <2>2 DEF SessionContext
  <2>4. active = [contexts EXCEPT ![c] = x] /\ Release(t, active)
    BY <1>3
  <2> HIDE DEF x, active, c, p
  <2>5. /\ active \in Seq(SessionContext) /\ Len(active) = Len(contexts)
        /\ active[c] = x /\ \A k \in 1 .. Len(contexts) : k # c => active[k] = contexts[k]
    BY <1>1, <2>1, <2>3, <2>4, ReplaceContext
  <2>6. \A k \in 1 .. Len(contexts) : active[k].pending = contexts[k].pending
                                      /\ active[k].hard = contexts[k].hard
    BY <2>3, <2>5
  <2>7. QED
    BY <1>1, <2>4, <2>5, <2>6, EndFresh
<1>4. QED
  BY <1>2, <1>3 DEF LookupReturns, LookupFails

LEMMA RenderFresh ==
    ASSUME TypeOK, FreshInv, NEW r \in Requests, Render(r) \/ PassThrough(r)
    PROVE  FreshInv'
<1> DEFINE c == requests[r].context
           n == 0
<1>1. /\ Open(r) /\ requests' = [requests EXCEPT ![r] = Idle]
      /\ contexts' = contexts \/ contexts' = [contexts EXCEPT ![c].events = n]
      /\ UNCHANGED <<host, version, sessions, initializing, inits>>
  BY DEF Render, PassThrough
<1>2. contexts \in Seq(SessionContext) /\ c \in 1 .. Len(contexts) /\ n \in Nat
  BY <1>1, RequestFacts DEF TypeOK
<1> HIDE DEF c, n
<1>3. /\ Len(contexts') = Len(contexts)
      /\ \A k \in 1 .. Len(contexts) : contexts'[k].hard = contexts[k].hard
  <2>1. CASE contexts' = contexts
    BY <2>1
  <2>2. CASE contexts' = [contexts EXCEPT ![c].events = n]
    BY <1>2, <2>2, SetEvents
  <2>3. QED
    BY <1>1, <2>1, <2>2
<1>4. \A u \in Requests : requests'[u].step = "gate" => requests'[u] = requests[u]
  BY <1>1, RequestFacts
<1>5. version' \in Nat /\ version <= version'
  BY <1>1, InitRanges
<1>6. QED
  BY <1>1, <1>3, <1>4, <1>5, FreshQuiet

LEMMA StepFresh ==
    ASSUME Inv, FreshInv, [Next]_vars
    PROVE  FreshInv'
<1>1. TypeOK /\ version \in Nat
  BY InitRanges DEF Inv
<1>2. ASSUME NEW s \in Sessions, Created(s) \/ Compacted(s) \/ Deleted(s)
      PROVE  FreshInv'
  BY <1>1, <1>2, CreatedFresh, CompactedFresh, DeletedFresh
<1>3. ASSUME NEW t \in Calls, NEW s \in Sessions, NEW paths \in PathLists,
             BeginCall(t, s, paths)
      PROVE  FreshInv'
  <2>1. UNCHANGED <<host, version, sessions, contexts, initializing, inits, requests>>
    BY <1>3 DEF BeginCall
  <2>2. QED
    BY <1>1, <2>1, FreshQuiet
<1>4. ASSUME NEW r \in Requests, NEW s \in Sessions, BeginRequest(r, s)
      PROVE  FreshInv'
  BY <1>1, <1>4, BeginRequestFresh
<1>5. CASE MemoryChanges
  <2>1. version' \in Nat /\ version <= version'
    BY <1>1, <1>5 DEF MemoryChanges
  <2>2. UNCHANGED <<host, sessions, contexts, initializing, inits, requests>>
    BY <1>5 DEF MemoryChanges
  <2>3. QED
    BY <1>1, <2>1, <2>2, FreshQuiet
<1>6. ASSUME NEW i \in DOMAIN inits,
             BeginInit(i) \/ HardReturns(i) \/ SoftReturns(i) \/ InitFails(i)
      PROVE  FreshInv'
  BY <1>6, InitStepFresh
<1>7. ASSUME NEW t \in Calls,
             SkipPath(t) \/ TryPath(t) \/ LookupReturns(t) \/ LookupFails(t)
      PROVE  FreshInv'
  <2>1. CASE SkipPath(t)
    <3>1. UNCHANGED <<host, version, sessions, contexts, initializing, inits, requests>>
      BY <2>1 DEF SkipPath
    <3>2. QED
      BY <1>1, <3>1, FreshQuiet
  <2>2. QED
    BY <1>7, <2>1, TryPathFresh, LookupFresh
<1>8. ASSUME NEW r \in Requests, Render(r) \/ PassThrough(r)
      PROVE  FreshInv'
  BY <1>1, <1>8, RenderFresh
<1>9. CASE UNCHANGED vars
  <2>1. UNCHANGED <<host, version, sessions, contexts, initializing, inits, requests>>
    BY <1>9 DEF vars
  <2>2. QED
    BY <1>1, <2>1, FreshQuiet
<1>10. QED
  BY <1>2, <1>3, <1>4, <1>5, <1>6, <1>7, <1>8, <1>9 DEF Next, Hooks

LEMMA FreshInvariance == Spec => [](Inv /\ FreshInv)
<1>1. Init => Inv /\ FreshInv
  <2>1. ASSUME Init PROVE FreshInv
    <3>1. Idle.step = "idle"
      BY DEF Idle
    <3>2. DOMAIN inits = {} /\ Len(inits) = 0
      BY <2>1 DEF Init
    <3>3. QED
      BY <2>1, <3>1, <3>2 DEF Init, FreshInv, Owned, Held, Chained, LastHeld, Gates, Fetched
  <2>2. QED
    BY <2>1, InitFacts
<1>2. (Inv /\ FreshInv) /\ [Next]_vars => (Inv /\ FreshInv)'
  BY StepKeeps, StepFresh
<1>3. QED
  BY <1>1, <1>2, PTL DEF Spec

\* What was asked for before a request began is done when it is rendered.
LEMMA RenderedFresh ==
    ASSUME TypeOK, FreshInv, NEW r \in Requests, Open(r),
           NEW i \in 1 .. requests[r].asked,
           inits[i].session = requests[r].session,
           sessions[inits[i].session] = inits[i].context
    PROVE  /\ inits[i].step = "done"
           /\ inits[i].failed \/ contexts[inits[i].context].hard >= inits[i].since
<1>1. /\ requests[r].step = "gate" /\ requests[r].asked <= Len(inits)
      /\ requests[r].asked \in Nat /\ requests[r].gate \in 0 .. Len(inits)
  BY DEF Open, FreshInv, Gates, TypeOK, Request, Idle, References
<1>2. /\ i \in 1 .. Len(inits) /\ DOMAIN inits = 1 .. Len(inits) /\ Len(inits) \in Nat
      /\ inits[i].session \in Sessions
  BY <1>1, InitRanges
<1>3. host[inits[i].session] # "deleted"
  BY <1>2 DEF FreshInv, Owned
<1>4. inits[i].step = "done"
  <2> DEFINE g == requests[r].gate
  <2>1. \/ inits[i].step = "done"
        \/ g >= i /\ inits[g].session = inits[i].session
    BY <1>1, <1>3 DEF FreshInv, Gates
  <2>2. SUFFICES ASSUME g >= i, inits[g].session = inits[i].session
                 PROVE  inits[i].step = "done"
    BY <2>1
  <2>3. g \in 1 .. Len(inits) /\ g # 0 /\ (g = i \/ i \in 1 .. (g - 1))
    BY <1>1, <1>2, <2>2
  <2>4. inits[g].step = "done"
    BY <2>3 DEF Open
  <2>5. CASE i \in 1 .. (g - 1)
    BY <1>2, <1>3, <2>2, <2>3, <2>4, <2>5 DEF FreshInv, Chained
  <2>6. QED
    BY <2>3, <2>4, <2>5
<1>5. inits[i].failed \/ contexts[sessions[inits[i].session]].hard >= inits[i].since
  BY <1>2, <1>3, <1>4 DEF FreshInv, Fetched
<1>6. QED
  BY <1>4, <1>5

-----------------------------------------------------------------------------
(* The rules of a session                                                  *)

\* No bootstrap is from the future, and as long as its session is not deleted
\* a fetch returns nothing older than what the session's context holds.
FetchInv ==
    /\ \A c \in DOMAIN contexts : contexts[c].hard <= version
    /\ \A i \in DOMAIN inits : inits[i].step = "hard" =>
          /\ 1 <= inits[i].since /\ inits[i].since <= version
          /\ host[inits[i].session] # "deleted" =>
                contexts[sessions[inits[i].session]].hard <= inits[i].since

\* A fetch that is in flight was in flight before.
NoFetchBegins ==
    \A i \in 1 .. Len(inits') : inits'[i].step = "hard" =>
        /\ i \in 1 .. Len(inits) /\ inits[i].step = "hard"
        /\ inits'[i].session = inits[i].session /\ inits'[i].since = inits[i].since

\* No session is deleted.
NoneDeleted == \A s \in Sessions : host'[s] = "deleted" <=> host[s] = "deleted"

\* Nothing changes of what sessions are prompted with.
RulesKept ==
    /\ UNCHANGED <<version, sessions, activatedPaths>> /\ NoneDeleted
    /\ Len(contexts') = Len(contexts)
    /\ \A c \in 1 .. Len(contexts) : /\ contexts'[c].scopes = contexts[c].scopes
                                     /\ contexts'[c].hard = contexts[c].hard

\* A session gets a context of its own.
Admits(s) ==
    /\ sessions[s] = 0 /\ ~ Refused(s)
    /\ sessions' = [sessions EXCEPT ![s] = Len(contexts) + 1]
    /\ UNCHANGED <<version, activatedPaths>> /\ NoneDeleted
    /\ Len(contexts') = Len(contexts) + 1
    /\ \A c \in 1 .. Len(contexts) : /\ contexts'[c].scopes = contexts[c].scopes
                                     /\ contexts'[c].hard = contexts[c].hard
    /\ contexts'[Len(contexts) + 1].scopes = {} /\ contexts'[Len(contexts) + 1].hard = 0

\* A session has looked a path up.
LooksUp(s, p) ==
    /\ sessions[s] # 0 /\ p \notin activatedPaths[s]
    /\ activatedPaths' = [activatedPaths EXCEPT ![s] = activatedPaths[s] \cup {p}]
    /\ UNCHANGED <<version, sessions>> /\ NoneDeleted
    /\ Len(contexts') = Len(contexts)
    /\ \A c \in 1 .. Len(contexts) :
          /\ contexts'[c].scopes = IF c = sessions[s] THEN contexts[c].scopes \cup ScopesOf[p]
                                   ELSE contexts[c].scopes
          /\ contexts'[c].hard = contexts[c].hard

\* A bootstrap goes to the context its session has by now.
Bootstraps(i, v) ==
    /\ inits[i].step = "hard" /\ sessions[inits[i].session] # 0
    /\ v \in inits[i].since .. version
    /\ UNCHANGED <<version, sessions, activatedPaths, host>>
    /\ Len(contexts') = Len(contexts)
    /\ \A c \in 1 .. Len(contexts) :
          /\ contexts'[c].scopes = contexts[c].scopes
          /\ contexts'[c].hard = IF c = sessions[inits[i].session] THEN v ELSE contexts[c].hard
    /\ inits'[i].step # "hard"

\* A fetch begins.
Fetches(i) ==
    /\ inits[i].step = "queued" /\ sessions[inits[i].session] # 0
    /\ inits' = WithFetch(i)

LEMMA FetchKept ==
    ASSUME TypeOK, DOMAIN contexts' = 1 .. Len(contexts'), DOMAIN inits' = 1 .. Len(inits'),
           Owned, FetchInv, NoFetchBegins,
           version' \in Nat, version <= version',
           Len(contexts') \in Nat, Len(contexts) <= Len(contexts'),
           \A c \in 1 .. Len(contexts) : contexts'[c].hard = contexts[c].hard,
           \A c \in 1 .. Len(contexts') : c > Len(contexts) => contexts'[c].hard = 0,
           \A s \in Sessions : host'[s] # "deleted" =>
              /\ host[s] # "deleted"
              /\ sessions[s] # 0 => sessions'[s] = sessions[s]
    PROVE  FetchInv'
<1>1. /\ DOMAIN inits = 1 .. Len(inits) /\ DOMAIN contexts = 1 .. Len(contexts)
      /\ Len(contexts) \in Nat /\ version \in Nat
      /\ \A i \in 1 .. Len(inits) : /\ inits[i].session \in Sessions
                                    /\ inits[i].since \in Nat
                                    /\ inits[i].context \in 1 .. Len(contexts)
      /\ \A c \in 1 .. Len(contexts) : contexts[c].hard \in Nat
  BY InitRanges DEF TypeOK
<1>2. ASSUME NEW c \in 1 .. Len(contexts')
      PROVE  contexts'[c].hard <= version'
  <2>1. CASE c > Len(contexts)
    BY <2>1
  <2>2. CASE c <= Len(contexts)
    <3>1. c \in 1 .. Len(contexts)
      BY <1>1, <2>2
    <3>2. contexts[c].hard <= version /\ contexts'[c].hard = contexts[c].hard
      BY <1>1, <3>1 DEF FetchInv
    <3>3. QED
      BY <1>1, <3>1, <3>2
  <2>3. QED
    BY <1>1, <2>1, <2>2
<1>3. ASSUME NEW i \in DOMAIN inits', inits'[i].step = "hard"
      PROVE  /\ 1 <= inits'[i].since /\ inits'[i].since <= version'
             /\ host'[inits'[i].session] # "deleted" =>
                   contexts'[sessions'[inits'[i].session]].hard <= inits'[i].since
  <2>1. /\ i \in 1 .. Len(inits) /\ inits[i].step = "hard"
        /\ inits'[i].session = inits[i].session /\ inits'[i].since = inits[i].since
    BY <1>3 DEF NoFetchBegins
  <2>2. /\ 1 <= inits[i].since /\ inits[i].since <= version
        /\ host[inits[i].session] # "deleted" =>
              contexts[sessions[inits[i].session]].hard <= inits[i].since
    BY <1>1, <2>1 DEF FetchInv
  <2>3. ASSUME host'[inits[i].session] # "deleted"
        PROVE  contexts'[sessions'[inits[i].session]].hard <= inits[i].since
    <3>1. host[inits[i].session] # "deleted"
      BY <1>1, <2>1, <2>3
    <3>2. sessions[inits[i].session] \in 1 .. Len(contexts)
      BY <1>1, <2>1, <3>1 DEF Owned
    <3>3. sessions'[inits[i].session] = sessions[inits[i].session]
      BY <1>1, <2>1, <2>3, <3>2
    <3>4. QED
      BY <2>2, <3>1, <3>2, <3>3
  <2>4. inits[i].since <= version'
    BY <1>1, <2>1, <2>2
  <2>5. QED
    BY <2>1, <2>2, <2>3, <2>4
<1>4. QED
  BY <1>2, <1>3 DEF FetchInv

\* A fetch begins with the memory as it is; a bootstrap that arrives is that of
\* the only fetch in flight for its context.
LEMMA FetchesKeeps ==
    ASSUME TypeOK, FetchInv, NEW i \in 1 .. Len(inits), Fetches(i),
           UNCHANGED <<host, version, sessions, contexts>>
    PROVE  FetchInv'
<1> DEFINE x == [inits[i] EXCEPT !.step = "hard", !.since = version]
<1>1. /\ inits \in Seq(Initialization) /\ inits[i] \in Initialization
      /\ version \in 0 .. MaxVersion /\ 1 <= version /\ version <= version
      /\ DOMAIN contexts = 1 .. Len(contexts)
      /\ sessions[inits[i].session] \in 1 .. Len(contexts)
  BY InitRanges, OpenCodePluginAssumption DEF TypeOK, Fetches
<1>2. x \in Initialization /\ x.session = inits[i].session /\ x.since = version
  BY <1>1 DEF Initialization
<1>3. inits' = [inits EXCEPT ![i] = x]
  BY DEF Fetches, WithFetch
<1> HIDE DEF x
<1>4. /\ DOMAIN inits = 1 .. Len(inits) /\ DOMAIN inits' = 1 .. Len(inits) /\ inits'[i] = x
      /\ \A k \in 1 .. Len(inits) : k # i => inits'[k] = inits[k]
  BY <1>1, <1>2, <1>3, ReplaceInit
<1>5. contexts[sessions[inits[i].session]].hard <= version
  BY <1>1 DEF FetchInv
<1>6. QED
  BY <1>1, <1>2, <1>4, <1>5 DEF FetchInv

LEMMA BootstrapsKeeps ==
    ASSUME TypeOK, Apart, Owned, Chained, FetchInv,
           NEW i \in 1 .. Len(inits), NEW v, Bootstraps(i, v), NoFetchBegins,
           DOMAIN contexts' = 1 .. Len(contexts'), DOMAIN inits' = 1 .. Len(inits')
    PROVE  FetchInv'
<1> DEFINE s == inits[i].session
           c == sessions[s]
<1>1. /\ DOMAIN inits = 1 .. Len(inits) /\ DOMAIN contexts = 1 .. Len(contexts)
      /\ Len(contexts) \in Nat /\ version \in Nat /\ Len(inits) \in Nat
      /\ \A k \in 1 .. Len(inits) : /\ inits[k].session \in Sessions
                                    /\ inits[k].since \in Nat
                                    /\ inits[k].context \in 1 .. Len(contexts)
      /\ \A k \in 1 .. Len(contexts) : contexts[k].hard \in Nat
  BY InitRanges DEF TypeOK
<1>2. /\ c # 0 /\ inits[i].step = "hard" /\ v \in Nat /\ v <= version
      /\ UNCHANGED <<version, sessions, host>> /\ Len(contexts') = Len(contexts)
      /\ \A k \in 1 .. Len(contexts) :
            contexts'[k].hard = IF k = c THEN v ELSE contexts[k].hard
      /\ inits'[i].step # "hard"
  BY <1>1 DEF Bootstraps
<1>3. \A k \in DOMAIN contexts' : contexts'[k].hard <= version'
  BY <1>1, <1>2 DEF FetchInv
<1>4. ASSUME NEW k \in DOMAIN inits', inits'[k].step = "hard"
      PROVE  /\ 1 <= inits'[k].since /\ inits'[k].since <= version'
             /\ host'[inits'[k].session] # "deleted" =>
                   contexts'[sessions'[inits'[k].session]].hard <= inits'[k].since
  <2> DEFINE u == inits[k].session
  <2>1. /\ k \in 1 .. Len(inits) /\ inits[k].step = "hard" /\ k # i
        /\ inits'[k].session = u /\ inits'[k].since = inits[k].since
    BY <1>2, <1>4 DEF NoFetchBegins
  <2>2. /\ 1 <= inits[k].since /\ inits[k].since <= version
        /\ host[u] # "deleted" => contexts[sessions[u]].hard <= inits[k].since
    BY <1>1, <2>1 DEF FetchInv
  <2>3. ASSUME host[u] # "deleted"
        PROVE  sessions[u] \in 1 .. Len(contexts) /\ sessions[u] # c
    <3>1. sessions[u] \in 1 .. Len(contexts)
      BY <1>1, <2>1, <2>3 DEF Owned
    <3>2. u # s
      <4>1. CASE i < k
        <5>1. i \in 1 .. (k - 1)
          BY <1>1, <2>1, <4>1
        <5>2. QED
          BY <1>1, <1>2, <2>1, <2>3, <5>1 DEF Chained
      <4>2. CASE k < i
        <5>1. k \in 1 .. (i - 1)
          BY <1>1, <2>1, <4>2
        <5>2. QED
          BY <1>1, <1>2, <2>1, <2>3, <5>1 DEF Chained
      <4>3. QED
        BY <2>1, <4>1, <4>2
    <3>3. u \in Sessions /\ s \in Sessions
      BY <1>1, <2>1
    <3>4. QED
      BY <1>2, <3>1, <3>2, <3>3 DEF Apart
  <2>4. host[u] # "deleted" => contexts'[sessions[u]].hard <= inits[k].since
    BY <1>2, <2>2, <2>3
  <2>5. QED
    BY <1>2, <2>1, <2>2, <2>4
<1>5. QED
  BY <1>3, <1>4 DEF FetchInv

\* How each step is one of these ------------------------------------------

LEMMA SameInits ==
    ASSUME TypeOK, inits' = inits
    PROVE  NoFetchBegins
BY DEF NoFetchBegins

LEMMA SameSessions ==
    ASSUME host' = host
    PROVE  NoneDeleted
BY DEF NoneDeleted

LEMMA AdvanceRules ==
    ASSUME TypeOK, NEW i \in DOMAIN inits, NEW next \in {"soft", "done"},
           NEW failed \in BOOLEAN, Advance(i, next, failed)
    PROVE  NoFetchBegins /\ inits'[i].step # "hard"
<1>1. /\ Len(inits') = Len(inits) /\ inits'[i].step = next
      /\ \A k \in 1 .. Len(inits) : k # i => inits'[k] = inits[k]
  BY AdvanceFacts
<1>2. inits'[i].step # "hard"
  BY <1>1
<1>3. QED
  BY <1>1, <1>2 DEF NoFetchBegins

LEMMA EnqueueRules ==
    ASSUME TypeOK, NEW s \in Sessions, NEW kind \in Kind, Enqueue(s, kind)
    PROVE  NoFetchBegins
<1>1. /\ Len(inits') = Len(inits) + 1 /\ Len(inits) \in Nat
      /\ \A k \in 1 .. Len(inits) : inits'[k] = inits[k]
      /\ inits'[Len(inits) + 1].step = "queued"
  BY EnqueueFacts
<1>2. ASSUME NEW i \in 1 .. Len(inits'), inits'[i].step = "hard"
      PROVE  i \in 1 .. Len(inits)
  BY <1>1, <1>2
<1>3. QED
  BY <1>1, <1>2 DEF NoFetchBegins

LEMMA AdmissionRules ==
    ASSUME TypeOK, NEW s \in Sessions, ~ Refused(s),
           sessions' = [sessions EXCEPT ![s] = ContextOf(s)],
           NoneDeleted, UNCHANGED <<version, activatedPaths>>,
           NEW cs, cs = ContextsWith(s), Len(contexts') = Len(cs),
           \A c \in 1 .. Len(cs) : /\ contexts'[c].scopes = cs[c].scopes
                                   /\ contexts'[c].hard = cs[c].hard
    PROVE  RulesKept \/ Admits(s)
<1>1. /\ Len(contexts) \in Nat /\ sessions \in [Sessions -> 0 .. Len(contexts)]
      /\ NewContext.scopes = {} /\ NewContext.hard = 0
  BY InitRanges DEF TypeOK, NewContext
<1>2. CASE sessions[s] = 0
  <2>1. /\ ContextOf(s) = Len(contexts) + 1 /\ Len(cs) = Len(contexts) + 1
        /\ cs[Len(contexts) + 1] = NewContext
        /\ \A c \in 1 .. Len(contexts) : cs[c] = contexts[c]
    BY <1>2, ContextsWithFacts
  <2>2. Admits(s)
    BY <1>1, <1>2, <2>1 DEF Admits
  <2>3. QED
    BY <2>2
<1>3. CASE sessions[s] # 0
  <2>1. ContextOf(s) = sessions[s] /\ cs = contexts
    BY <1>3, ContextsWithFacts
  <2>2. sessions' = sessions
    BY <1>1, <2>1
  <2>3. RulesKept
    BY <2>1, <2>2 DEF RulesKept
  <2>4. QED
    BY <2>3
<1>4. QED
  BY <1>2, <1>3

LEMMA CreatedRules ==
    ASSUME TypeOK, NEW s \in Sessions, Created(s)
    PROVE  NoFetchBegins /\ (RulesKept \/ Admits(s))
<1>1. NoneDeleted /\ UNCHANGED <<version, activatedPaths>>
  BY DEF Created, NoneDeleted, TypeOK
<1>2. CASE Refused(s)
  <2>1. UNCHANGED <<sessions, contexts, inits>>
    BY <1>2 DEF Created
  <2>2. QED
    BY <1>1, <2>1, SameInits DEF RulesKept
<1>3. CASE ~ Refused(s)
  <2> DEFINE cs == ContextsWith(s)
  <2>1. /\ contexts' = cs /\ sessions' = [sessions EXCEPT ![s] = ContextOf(s)]
        /\ Enqueue(s, "created") /\ "created" \in Kind
    BY <1>3 DEF Created, Kind
  <2>2. NoFetchBegins
    BY <2>1, EnqueueRules, Zenon
  <2>3. cs = ContextsWith(s)
    OBVIOUS
  <2> HIDE DEF cs
  <2>4. RulesKept \/ Admits(s)
    BY <1>1, <1>3, <2>1, <2>3, AdmissionRules
  <2>5. QED
    BY <2>2, <2>4
<1>4. QED
  BY <1>2, <1>3

LEMMA TryPathRules ==
    ASSUME Inv, NEW t \in Calls, TryPath(t)
    PROVE  NoFetchBegins /\ \E s \in Sessions : RulesKept \/ Admits(s)
<1> DEFINE s == calls[t].session
           p == Head(calls[t].paths)
           c == ContextOf(s)
           cs == ContextsWith(s)
<1>1. /\ TypeOK /\ s \in Sessions /\ p \in Paths
      /\ sessions' = [sessions EXCEPT ![s] = ContextOf(s)]
      /\ UNCHANGED <<host, version, activatedPaths, inits>>
      /\ contexts' = cs \/ contexts' = Enter(cs, c, p, t)
  BY TryPathCases DEF Inv
<1>2. ~ Refused(s)
  BY Zenon DEF TryPath
<1>3. /\ cs \in Seq(SessionContext) /\ c \in 1 .. Len(cs) /\ t \in Entry
      /\ cs = ContextsWith(s)
  BY <1>1, ContextsWithFacts DEF Entry
<1> HIDE DEF s, p, c, cs
<1>4. /\ Len(contexts') = Len(cs)
      /\ \A k \in 1 .. Len(cs) : /\ contexts'[k].scopes = cs[k].scopes
                                 /\ contexts'[k].hard = cs[k].hard
  <2>1. CASE contexts' = cs
    BY <2>1
  <2>2. CASE contexts' = Enter(cs, c, p, t)
    <3> DEFINE new == Enter(cs, c, p, t)
    <3>1. EntersOnly(new, cs, c, p, t)
      BY <1>1, <1>3, SetPending, Zenon
    <3>2. contexts' = new
      BY <2>2
    <3> HIDE DEF new
    <3>3. QED
      BY <3>1, <3>2 DEF EntersOnly
  <2>3. QED
    BY <1>1, <2>1, <2>2
<1>5. NoFetchBegins /\ NoneDeleted
  BY <1>1, SameInits, SameSessions
<1>6. QED
  BY <1>1, <1>2, <1>3, <1>4, <1>5, AdmissionRules

LEMMA ReleaseRules ==
    ASSUME Inv, NEW t \in Calls, calls[t].step = "lookup",
           NEW active \in Seq(SessionContext), Len(active) = Len(contexts),
           \A k \in 1 .. Len(contexts) : active[k].pending = contexts[k].pending,
           Release(t, active)
    PROVE  /\ Len(contexts') = Len(contexts)
           /\ \A k \in 1 .. Len(contexts) : /\ contexts'[k].scopes = active[k].scopes
                                            /\ contexts'[k].hard = active[k].hard
<1>1. TypeOK /\ Registered /\ LookupOK(t)
  BY DEF Inv, LookupInv, Lookups
<1>2. QED
  BY <1>1, ReleaseFacts

LEMMA LookupRules ==
    ASSUME Inv, NEW t \in Calls, LookupReturns(t) \/ LookupFails(t)
    PROVE  NoFetchBegins /\ (RulesKept \/ \E s \in Sessions, p \in Paths : LooksUp(s, p))
<1> DEFINE c == calls[t].context
           p == Head(calls[t].paths)
           s == calls[t].session
<1>1. /\ TypeOK /\ contexts \in Seq(SessionContext) /\ calls[t].step = "lookup"
      /\ Registered /\ LookupOK(t)
      /\ UNCHANGED <<host, version, sessions, inits>>
  BY DEF Inv, LookupInv, Lookups, TypeOK, LookupReturns, LookupFails
<1>2. NoFetchBegins /\ NoneDeleted
  BY <1>1, SameInits, SameSessions
<1>3. CASE Release(t, contexts) /\ activatedPaths' = activatedPaths
  <2>1. /\ Len(contexts') = Len(contexts)
        /\ \A k \in 1 .. Len(contexts) : /\ contexts'[k].scopes = contexts[k].scopes
                                         /\ contexts'[k].hard = contexts[k].hard
    BY <1>1, <1>3, ReleaseRules
  <2>2. QED
    BY <1>1, <1>2, <1>3, <2>1 DEF RulesKept
<1>4. CASE /\ sessions[s] = c
           /\ activatedPaths' = [activatedPaths EXCEPT ![s] = @ \cup {p}]
           /\ Release(t, [contexts EXCEPT ![c].scopes = @ \cup ScopesOf[p]])
  <2> DEFINE x == [contexts[c] EXCEPT !.scopes = @ \cup ScopesOf[p]]
             active == [contexts EXCEPT ![c].scopes = @ \cup ScopesOf[p]]
  <2>1. /\ c \in 1 .. Len(contexts) /\ p \in Paths /\ p \notin activatedPaths[s]
        /\ Len(contexts) \in Nat
    BY <1>1, <1>4 DEF LookupOK, TypeOK, References
  <2>2. calls[t] \in {Idle} \cup Call /\ calls[t] # Idle
    BY <1>1 DEF TypeOK, Idle
  <2>3. s \in Sessions
    BY <2>2, CallFacts
  <2>4. contexts[c] \in SessionContext /\ ScopesOf[p] \subseteq Scopes
    BY <1>1, <2>1 DEF Scopes
  <2>5. /\ x \in SessionContext /\ x.pending = contexts[c].pending
        /\ x.hard = contexts[c].hard /\ x.scopes = contexts[c].scopes \cup ScopesOf[p]
    BY <2>4 DEF SessionContext
  <2>6. active = [contexts EXCEPT ![c] = x] /\ Release(t, active)
    BY <1>4
  <2> HIDE DEF x, active, c, p, s
  <2>7. /\ active \in Seq(SessionContext) /\ Len(active) = Len(contexts)
        /\ active[c] = x /\ \A k \in 1 .. Len(contexts) : k # c => active[k] = contexts[k]
    BY <1>1, <2>1, <2>5, <2>6, ReplaceContext
  <2>8. \A k \in 1 .. Len(contexts) :
           /\ active[k].pending = contexts[k].pending /\ active[k].hard = contexts[k].hard
           /\ active[k].scopes = IF k = c THEN contexts[k].scopes \cup ScopesOf[p]
                                 ELSE contexts[k].scopes
    BY <2>5, <2>7
  <2>9. /\ Len(contexts') = Len(contexts)
        /\ \A k \in 1 .. Len(contexts) : /\ contexts'[k].scopes = active[k].scopes
                                         /\ contexts'[k].hard = active[k].hard
    <3>1. \A k \in 1 .. Len(contexts) : active[k].pending = contexts[k].pending
      BY <2>8
    <3>2. QED
      BY <1>1, <2>6, <2>7, <3>1, ReleaseRules
  <2>10. LooksUp(s, p)
    <3>1. /\ sessions[s] = c /\ c # 0
          /\ activatedPaths' = [activatedPaths EXCEPT ![s] = activatedPaths[s] \cup {p}]
      BY <1>4, <2>1
    <3>2. QED
      BY <1>1, <1>2, <2>1, <2>8, <2>9, <3>1 DEF LooksUp
  <2>11. QED
    BY <1>2, <2>1, <2>3, <2>10
<1>5. QED
  BY <1>3, <1>4 DEF LookupReturns, LookupFails

LEMMA InitStepRules ==
    ASSUME Inv, NEW i \in DOMAIN inits,
           BeginInit(i) \/ HardReturns(i) \/ SoftReturns(i) \/ InitFails(i)
    PROVE  \/ NoFetchBegins /\ RulesKept
           \/ Fetches(i) /\ RulesKept /\ UNCHANGED <<host, contexts>>
           \/ NoFetchBegins /\ \E v \in inits[i].since .. version : Bootstraps(i, v)
<1> DEFINE s == inits[i].session
           c == sessions[s]
<1>1. /\ TypeOK /\ contexts \in Seq(SessionContext)
      /\ i \in 1 .. Len(inits) /\ c \in 0 .. Len(contexts) /\ Len(contexts) \in Nat
      /\ AfterHard(i) \in {"soft", "done"}
  <2>1. TypeOK /\ contexts \in Seq(SessionContext) /\ i \in 1 .. Len(inits)
    BY DEF Inv, TypeOK
  <2>2. QED
    BY <2>1, NextStepFacts, InitRanges
<1>2. /\ UNCHANGED <<host, version, sessions, activatedPaths>> /\ NoneDeleted
  <2>1. UNCHANGED <<host, version, sessions, activatedPaths>>
    BY DEF BeginInit, HardReturns, SoftReturns, InitFails
  <2>2. QED
    BY <2>1, SameSessions
<1>3. ASSUME contexts' = contexts
      PROVE  RulesKept
  BY <1>2, <1>3 DEF RulesKept
<1>4. CASE BeginInit(i)
  <2>1. contexts' = contexts /\ inits[i].step = "queued"
    BY <1>4 DEF BeginInit
  <2>2. CASE c = 0
    <3>1. Advance(i, AfterHard(i), FALSE)
      BY <1>4, <2>2 DEF BeginInit
    <3>2. NoFetchBegins
      BY <1>1, <3>1, AdvanceRules
    <3>3. QED
      BY <1>3, <2>1, <3>2
  <2>3. CASE c # 0
    <3>1. Fetches(i)
      BY <1>4, <2>1, <2>3 DEF BeginInit, WithFetch, Fetches
    <3>2. QED
      BY <1>2, <1>3, <2>1, <3>1
  <2>4. QED
    BY <2>2, <2>3
<1>5. CASE HardReturns(i)
  <2>1. Advance(i, AfterHard(i), FALSE) /\ inits[i].step = "hard"
    BY <1>5 DEF HardReturns
  <2>2. NoFetchBegins /\ inits'[i].step # "hard"
    BY <1>1, <2>1, AdvanceRules
  <2>3. PICK v \in inits[i].since .. version :
          contexts' = IF c = 0 THEN contexts ELSE [contexts EXCEPT ![c].hard = v]
    BY <1>5 DEF HardReturns
  <2>4. CASE c = 0
    BY <1>3, <2>2, <2>3, <2>4
  <2>5. CASE c # 0
    <3>1. /\ v \in 0 .. MaxVersion /\ c \in 1 .. Len(contexts)
          /\ contexts' = [contexts EXCEPT ![c].hard = v]
      BY <1>1, <2>3, <2>5, NextStepFacts
    <3> HIDE DEF c
    <3>2. /\ Len(contexts') = Len(contexts)
          /\ \A k \in 1 .. Len(contexts) :
                /\ contexts'[k].scopes = contexts[k].scopes
                /\ contexts'[k].hard = IF k = c THEN v ELSE contexts[k].hard
      BY <1>1, <3>1, SetHard
    <3>3. Bootstraps(i, v)
      BY <1>2, <2>1, <2>2, <2>3, <2>5, <3>2 DEF Bootstraps, c
    <3>4. QED
      BY <2>2, <3>3
  <2>6. QED
    BY <2>4, <2>5
<1>6. CASE SoftReturns(i)
  <2>1. /\ Advance(i, "done", FALSE)
        /\ contexts' = IF c = 0 THEN contexts
                       ELSE [contexts EXCEPT ![c].events = contexts[c].events + 1]
    BY <1>6 DEF SoftReturns
  <2>2. NoFetchBegins
    BY <1>1, <2>1, AdvanceRules
  <2>3. CASE c = 0
    BY <1>3, <2>1, <2>2, <2>3
  <2>4. CASE c # 0
    <3> DEFINE n == contexts[c].events + 1
    <3>1. c \in 1 .. Len(contexts) /\ contexts' = [contexts EXCEPT ![c].events = n]
      BY <1>1, <2>1, <2>4
    <3>2. contexts[c] \in SessionContext
      BY <1>1, <3>1
    <3>3. n \in Nat
      BY <3>2 DEF SessionContext
    <3> HIDE DEF n, c
    <3>4. /\ Len(contexts') = Len(contexts)
          /\ \A k \in 1 .. Len(contexts) : /\ contexts'[k].scopes = contexts[k].scopes
                                           /\ contexts'[k].hard = contexts[k].hard
      BY <1>1, <3>1, <3>3, SetEvents
    <3>5. QED
      BY <1>2, <2>2, <3>4 DEF RulesKept
  <2>5. QED
    BY <2>3, <2>4
<1>7. CASE InitFails(i)
  <2> DEFINE next == IF inits[i].step = "hard" THEN AfterHard(i) ELSE "done"
  <2>1. Advance(i, next, TRUE) /\ contexts' = contexts
    BY <1>7 DEF InitFails
  <2>2. next \in {"soft", "done"}
    BY <1>1
  <2> HIDE DEF next
  <2>3. NoFetchBegins
    BY <1>1, <2>1, <2>2, AdvanceRules
  <2>4. QED
    BY <1>3, <2>1, <2>3
<1>8. QED
  BY <1>4, <1>5, <1>6, <1>7

LEMMA RenderRules ==
    ASSUME TypeOK, NEW r \in Requests, Render(r) \/ PassThrough(r)
    PROVE  NoFetchBegins /\ RulesKept
<1> DEFINE c == requests[r].context
           n == 0
<1>1. /\ Open(r)
      /\ contexts' = contexts \/ contexts' = [contexts EXCEPT ![c].events = n]
      /\ UNCHANGED <<host, version, sessions, activatedPaths, inits>>
  BY DEF Render, PassThrough
<1>2. contexts \in Seq(SessionContext) /\ c \in 1 .. Len(contexts) /\ n \in Nat
  BY <1>1, RequestFacts DEF TypeOK
<1> HIDE DEF c, n
<1>3. /\ Len(contexts') = Len(contexts)
      /\ \A k \in 1 .. Len(contexts) : /\ contexts'[k].scopes = contexts[k].scopes
                                       /\ contexts'[k].hard = contexts[k].hard
  <2>1. CASE contexts' = contexts
    BY <2>1
  <2>2. CASE contexts' = [contexts EXCEPT ![c].events = n]
    BY <1>2, <2>2, SetEvents
  <2>3. QED
    BY <1>1, <2>1, <2>2
<1>4. QED
  BY <1>1, <1>3, SameInits, SameSessions DEF RulesKept

LEMMA StepRules ==
    ASSUME Inv, [Next]_vars
    PROVE  \/ NoFetchBegins /\ RulesKept
           \/ NoFetchBegins /\ \E s \in Sessions : Admits(s) \/ Deleted(s)
           \/ NoFetchBegins /\ \E s \in Sessions, p \in Paths : LooksUp(s, p)
           \/ NoFetchBegins /\ MemoryChanges
           \/ NoFetchBegins /\ \E i \in DOMAIN inits : \E v \in inits[i].since .. version :
                 Bootstraps(i, v)
           \/ \E i \in DOMAIN inits : Fetches(i) /\ RulesKept /\ UNCHANGED <<host, contexts>>
<1>1. TypeOK
  BY DEF Inv
<1>2. ASSUME UNCHANGED <<host, version, sessions, contexts, activatedPaths, inits>>
      PROVE  NoFetchBegins /\ RulesKept
  BY <1>1, <1>2, SameInits, SameSessions DEF RulesKept
<1>3. ASSUME NEW s \in Sessions, Created(s)
      PROVE  NoFetchBegins /\ (RulesKept \/ Admits(s))
  BY <1>1, <1>3, CreatedRules
<1>4. ASSUME NEW s \in Sessions, Compacted(s)
      PROVE  NoFetchBegins /\ RulesKept
  <2>1. NoFetchBegins
    BY <1>1, <1>4, EnqueueRules DEF Compacted, Kind
  <2>2. UNCHANGED <<host, version, sessions, contexts, activatedPaths>>
    BY <1>4 DEF Compacted
  <2>3. QED
    BY <2>1, <2>2, SameSessions DEF RulesKept
<1>5. ASSUME NEW s \in Sessions, Deleted(s)
      PROVE  NoFetchBegins
  BY <1>1, <1>5, SameInits DEF Deleted
<1>6. MemoryChanges => NoFetchBegins
  BY <1>1, SameInits DEF MemoryChanges
<1>7. CASE Hooks
  <2>1. CASE \E i \in DOMAIN inits :
                BeginInit(i) \/ HardReturns(i) \/ SoftReturns(i) \/ InitFails(i)
    BY <2>1, InitStepRules
  <2>2. CASE \E t \in Calls : SkipPath(t)
    BY <1>2, <2>2 DEF SkipPath
  <2>3. CASE \E t \in Calls : TryPath(t)
    BY <2>3, TryPathRules
  <2>4. CASE \E t \in Calls : LookupReturns(t) \/ LookupFails(t)
    BY <2>4, LookupRules
  <2>5. CASE \E r \in Requests : Render(r) \/ PassThrough(r)
    BY <1>1, <2>5, RenderRules
  <2>6. QED
    BY <1>7, <2>1, <2>2, <2>3, <2>4, <2>5 DEF Hooks
<1>8. CASE \E t \in Calls, s \in Sessions, paths \in PathLists : BeginCall(t, s, paths)
  BY <1>2, <1>8 DEF BeginCall
<1>9. CASE \E r \in Requests, s \in Sessions : BeginRequest(r, s)
  BY <1>2, <1>9 DEF BeginRequest
<1>10. CASE UNCHANGED vars
  BY <1>2, <1>10 DEF vars
<1>11. QED
  BY <1>3, <1>4, <1>5, <1>6, <1>7, <1>8, <1>9, <1>10 DEF Next

\* What each of these does to a session's rules ----------------------------

LEMMA FetchStep ==
    ASSUME Inv, Inv', FreshInv, FetchInv, [Next]_vars
    PROVE  FetchInv'
<1>1. /\ TypeOK /\ Apart /\ Owned /\ Chained
      /\ DOMAIN contexts' = 1 .. Len(contexts') /\ DOMAIN inits' = 1 .. Len(inits')
      /\ DOMAIN inits = 1 .. Len(inits)
      /\ Len(contexts) \in Nat /\ Len(contexts') \in Nat
      /\ version \in Nat /\ version' \in Nat
      /\ \A s \in Sessions : sessions[s] \in Nat
  BY OpenCodePluginAssumption DEF Inv, LookupInv, FreshInv, TypeOK
<1>2. ASSUME NoFetchBegins, RulesKept
      PROVE  FetchInv'
  BY <1>1, <1>2, FetchKept DEF RulesKept, NoneDeleted
<1>3. ASSUME NEW s \in Sessions, NoFetchBegins, Admits(s)
      PROVE  FetchInv'
  <2>1. \A u \in Sessions : sessions[u] # 0 => sessions'[u] = sessions[u]
    BY <1>1, <1>3 DEF Admits, TypeOK
  <2>2. \A c \in 1 .. Len(contexts') : c > Len(contexts) => contexts'[c].hard = 0
    BY <1>1, <1>3 DEF Admits
  <2>3. QED
    BY <1>1, <1>3, <2>1, <2>2, FetchKept DEF Admits, NoneDeleted
<1>4. ASSUME NEW s \in Sessions, NoFetchBegins, Deleted(s)
      PROVE  FetchInv'
  <2>1. \A u \in Sessions : host'[u] # "deleted" =>
           host[u] # "deleted" /\ sessions'[u] = sessions[u]
    BY <1>4 DEF Deleted, Inv, TypeOK
  <2>2. version' = version /\ contexts' = contexts
    BY <1>4 DEF Deleted
  <2>3. QED
    BY <1>1, <1>4, <2>1, <2>2, FetchKept
<1>5. ASSUME NEW s \in Sessions, NEW p \in Paths, NoFetchBegins, LooksUp(s, p)
      PROVE  FetchInv'
  <2>1. /\ UNCHANGED <<version, sessions>> /\ Len(contexts') = Len(contexts)
        /\ \A c \in 1 .. Len(contexts) : contexts'[c].hard = contexts[c].hard
        /\ \A u \in Sessions : host'[u] # "deleted" => host[u] # "deleted"
    BY <1>5 DEF LooksUp, NoneDeleted
  <2>2. QED
    BY <1>1, <1>5, <2>1, FetchKept
<1>6. CASE NoFetchBegins /\ MemoryChanges
  <2>1. version <= version' /\ UNCHANGED <<host, sessions, contexts>>
    BY <1>1, <1>6 DEF MemoryChanges
  <2>2. QED
    BY <1>1, <1>6, <2>1, FetchKept
<1>7. ASSUME NEW i \in DOMAIN inits, NEW v, NoFetchBegins, Bootstraps(i, v)
      PROVE  FetchInv'
  BY <1>1, <1>7, BootstrapsKeeps
<1>8. ASSUME NEW i \in DOMAIN inits, Fetches(i), RulesKept, UNCHANGED <<host, contexts>>
      PROVE  FetchInv'
  BY <1>1, <1>8, FetchesKeeps DEF RulesKept
<1>9. QED
  BY <1>2, <1>3, <1>4, <1>5, <1>6, <1>7, <1>8, StepRules

LEMMA RulesInvariance == Spec => [](Inv /\ FreshInv /\ FetchInv)
<1>1. Init => FetchInv
  <2>1. ASSUME Init PROVE DOMAIN contexts = {} /\ DOMAIN inits = {}
    BY <2>1 DEF Init
  <2>2. QED
    BY <2>1 DEF FetchInv
<1>2. (Inv /\ Inv' /\ FreshInv /\ FetchInv) /\ [Next]_vars => FetchInv'
  BY FetchStep
<1>3. QED
  BY <1>1, <1>2, FreshInvariance, PTL DEF Spec

\* The mapped state, a session at a time.
LEMMA RulesSame ==
    ASSUME TypeOK, NEW s \in Sessions,
           sessions'[s] = sessions[s], activatedPaths'[s] = activatedPaths[s],
           sessions[s] # 0 =>
              /\ contexts'[sessions[s]].scopes = contexts[sessions[s]].scopes
              /\ contexts'[sessions[s]].hard = contexts[sessions[s]].hard
    PROVE  RulesOf(s)' = RulesOf(s)
BY DEF RulesOf

LEMMA EndedSame ==
    ASSUME NoneDeleted
    PROVE  {s \in Sessions : host'[s] = "deleted"} = {s \in Sessions : host[s] = "deleted"}
BY DEF NoneDeleted

LEMMA KeptRefines ==
    ASSUME TypeOK, RulesKept
    PROVE  UNCHANGED Rules!vars
<1>1. \A s \in Sessions : RulesOf(s)' = RulesOf(s)
  <2> SUFFICES ASSUME NEW s \in Sessions PROVE RulesOf(s)' = RulesOf(s)
    OBVIOUS
  <2>1. sessions[s] \in 0 .. Len(contexts) /\ Len(contexts) \in Nat
    BY InitRanges DEF TypeOK
  <2>2. sessions[s] # 0 => sessions[s] \in 1 .. Len(contexts)
    BY <2>1
  <2>3. QED
    BY <2>2, RulesSame DEF RulesKept
<1>2. [s \in Sessions |-> RulesOf(s)]' = [s \in Sessions |-> RulesOf(s)]
  BY <1>1
<1>3. {s \in Sessions : host'[s] = "deleted"} = {s \in Sessions : host[s] = "deleted"}
  BY EndedSame DEF RulesKept
<1>4. Admitted' = Admitted
  BY DEF Admitted, RulesKept
<1>5. QED
  BY <1>2, <1>3, <1>4 DEF Rules!vars, RulesKept

\* A session's rules with a later bootstrap.
LEMMA LaterRules ==
    ASSUME NEW P, NEW S, NEW h, NEW r, r = [paths |-> P, scopes |-> S, hard |-> h], NEW v
    PROVE  [r EXCEPT !.hard = v] = [paths |-> P, scopes |-> S, hard |-> v]
OBVIOUS

\* What a step makes of the mapped state when it changes one session's rules.
LEMMA OneSession ==
    ASSUME NEW s \in Sessions, NEW x, RulesOf(s)' = x,
           \A u \in Sessions : u # s => RulesOf(u)' = RulesOf(u)
    PROVE  [u \in Sessions |-> RulesOf(u)]' = [[u \in Sessions |-> RulesOf(u)] EXCEPT ![s] = x]
OBVIOUS

LEMMA AdmitRefines ==
    ASSUME TypeOK, NoOrphanState, NEW s \in Sessions, Admits(s)
    PROVE  Rules!Admit(s)
<1>1. /\ sessions \in [Sessions -> 0 .. Len(contexts)] /\ Len(contexts) \in Nat
      /\ sessions[s] = 0 /\ activatedPaths[s] = {}
      /\ activatedPaths' = activatedPaths
      /\ sessions' = [sessions EXCEPT ![s] = Len(contexts) + 1]
  BY InitRanges DEF TypeOK, NoOrphanState, Admits
<1>2. RulesOf(s)' = Rules!NoRules
  <2>1. sessions'[s] = Len(contexts) + 1 /\ sessions'[s] # 0 /\ activatedPaths'[s] = {}
    BY <1>1
  <2>2. contexts'[sessions'[s]].scopes = {} /\ contexts'[sessions'[s]].hard = 0
    BY <2>1 DEF Admits
  <2>3. QED
    BY <2>1, <2>2 DEF RulesOf, Rules!NoRules
<1>3. ASSUME NEW u \in Sessions, u # s
      PROVE  RulesOf(u)' = RulesOf(u)
  <2>1. sessions'[u] = sessions[u] /\ (sessions[u] # 0 => sessions[u] \in 1 .. Len(contexts))
    BY <1>1, <1>3
  <2>2. sessions[u] # 0 =>
           /\ contexts'[sessions[u]].scopes = contexts[sessions[u]].scopes
           /\ contexts'[sessions[u]].hard = contexts[sessions[u]].hard
    BY <2>1 DEF Admits
  <2>3. QED
    BY <1>1, <2>1, <2>2, RulesSame
<1>4. [u \in Sessions |-> RulesOf(u)]'
        = [[u \in Sessions |-> RulesOf(u)] EXCEPT ![s] = Rules!NoRules]
  BY <1>2, <1>3, OneSession
<1>5. ~ Rules!Full
  BY <1>1, Zenon DEF Admits, Refused, Rules!Full, Cardinality, Rules!Cardinality
<1>6. s \notin Admitted /\ Admitted' = Admitted \cup {s}
  BY <1>1 DEF Admitted
<1>7. /\ version' = version
      /\ {u \in Sessions : host'[u] = "deleted"} = {u \in Sessions : host[u] = "deleted"}
  BY EndedSame DEF Admits
<1>8. QED
  BY <1>4, <1>5, <1>6, <1>7 DEF Rules!Admit

LEMMA LookUpRefines ==
    ASSUME TypeOK, Apart, NEW s \in Sessions, NEW p \in Paths, LooksUp(s, p)
    PROVE  Rules!LookUp(s, p)
<1> DEFINE x == [paths |-> activatedPaths[s] \cup {p},
                 scopes |-> contexts[sessions[s]].scopes \cup ScopesOf[p],
                 hard |-> contexts[sessions[s]].hard]
<1>1. /\ sessions \in [Sessions -> 0 .. Len(contexts)] /\ Len(contexts) \in Nat
      /\ activatedPaths \in [Sessions -> SUBSET Paths]
      /\ sessions[s] # 0 /\ sessions' = sessions /\ p \notin activatedPaths[s]
      /\ activatedPaths' = [activatedPaths EXCEPT ![s] = activatedPaths[s] \cup {p}]
  BY InitRanges DEF TypeOK, LooksUp
<1>2. sessions[s] \in 1 .. Len(contexts)
  BY <1>1
<1>3. RulesOf(s)' = x
  <2>1. /\ contexts'[sessions[s]].scopes = contexts[sessions[s]].scopes \cup ScopesOf[p]
        /\ contexts'[sessions[s]].hard = contexts[sessions[s]].hard
    BY <1>2 DEF LooksUp
  <2>2. activatedPaths'[s] = activatedPaths[s] \cup {p}
    BY <1>1
  <2>3. QED
    BY <1>1, <2>1, <2>2 DEF RulesOf
<1>4. RulesOf(s) = [paths |-> activatedPaths[s], scopes |-> contexts[sessions[s]].scopes,
                    hard |-> contexts[sessions[s]].hard]
  BY <1>1 DEF RulesOf
<1>5. x = Rules!WithPath(RulesOf(s), p)
  BY <1>4 DEF Rules!WithPath
<1> HIDE DEF x
<1>6. ASSUME NEW u \in Sessions, u # s
      PROVE  RulesOf(u)' = RulesOf(u)
  <2>1. /\ sessions[u] # 0 => sessions[u] \in 1 .. Len(contexts) /\ sessions[u] # sessions[s]
        /\ activatedPaths'[u] = activatedPaths[u] /\ sessions'[u] = sessions[u]
    BY <1>1, <1>6 DEF Apart
  <2>2. sessions[u] # 0 =>
           /\ contexts'[sessions[u]].scopes = contexts[sessions[u]].scopes
           /\ contexts'[sessions[u]].hard = contexts[sessions[u]].hard
    BY <2>1 DEF LooksUp
  <2>3. QED
    BY <2>1, <2>2, RulesSame
<1>7. [u \in Sessions |-> RulesOf(u)]' = [[u \in Sessions |-> RulesOf(u)] EXCEPT ![s] = x]
  BY <1>3, <1>6, OneSession
<1>8. [u \in Sessions |-> RulesOf(u)][s] = RulesOf(s)
  OBVIOUS
<1>9. [u \in Sessions |-> RulesOf(u)]' =
         [[u \in Sessions |-> RulesOf(u)] EXCEPT ![s] = Rules!WithPath(@, p)]
  BY <1>5, <1>7, <1>8, Zenon
<1>10. /\ p \notin RulesOf(s).paths
       /\ s \in Admitted /\ Admitted' = Admitted
  BY <1>1, <1>4 DEF Admitted
<1>11. /\ version' = version
       /\ {u \in Sessions : host'[u] = "deleted"} = {u \in Sessions : host[u] = "deleted"}
  BY EndedSame DEF LooksUp
<1>12. QED
  BY <1>8, <1>9, <1>10, <1>11 DEF Rules!LookUp

LEMMA BootstrapRefines ==
    ASSUME TypeOK, Apart, FetchInv, NEW i \in DOMAIN inits,
           NEW v \in inits[i].since .. version, Bootstraps(i, v)
    PROVE  \E s \in Sessions : \E w \in 1 .. version : Rules!Bootstrap(s, w)
<1>0. PICK s \in Sessions : s = inits[i].session
  BY InitRanges DEF TypeOK
<1> DEFINE x == [paths |-> activatedPaths[s], scopes |-> contexts[sessions[s]].scopes,
                 hard |-> v]
<1>1. /\ sessions \in [Sessions -> 0 .. Len(contexts)] /\ Len(contexts) \in Nat
      /\ version \in Nat /\ inits[i].since \in Nat
      /\ \A c \in 1 .. Len(contexts) : contexts[c].hard \in Nat
  BY InitRanges DEF TypeOK
<1>2. /\ sessions[s] # 0 /\ sessions' = sessions /\ activatedPaths' = activatedPaths
      /\ inits[i].step = "hard" /\ host' = host /\ version' = version
  BY <1>0 DEF Bootstraps
<1>3. sessions[s] \in 1 .. Len(contexts)
  BY <1>1, <1>2
<1>4. v \in 1 .. version /\ (host[s] # "deleted" => contexts[sessions[s]].hard <= v)
  <2>1. 1 <= inits[i].since /\ (host[s] # "deleted" => contexts[sessions[s]].hard <= inits[i].since)
    BY <1>0, <1>2 DEF FetchInv
  <2>2. QED
    BY <1>1, <1>3, <2>1
<1>5. RulesOf(s)' = x
  <2>1. /\ contexts'[sessions[s]].scopes = contexts[sessions[s]].scopes
        /\ contexts'[sessions[s]].hard = v
    BY <1>0, <1>3 DEF Bootstraps
  <2>2. QED
    BY <1>2, <2>1 DEF RulesOf
<1>6. RulesOf(s) = [paths |-> activatedPaths[s], scopes |-> contexts[sessions[s]].scopes,
                    hard |-> contexts[sessions[s]].hard]
  BY <1>2 DEF RulesOf
<1>7. x = [RulesOf(s) EXCEPT !.hard = v]
  BY <1>6, LaterRules
<1>8. /\ RulesOf(s).hard = contexts[sessions[s]].hard
      /\ s \in Admitted /\ Admitted' = Admitted
  BY <1>1, <1>2, <1>6 DEF Admitted
<1> HIDE DEF x
<1>9. ASSUME NEW u \in Sessions, u # s
      PROVE  RulesOf(u)' = RulesOf(u)
  <2>1. /\ sessions[u] # 0 => sessions[u] \in 1 .. Len(contexts) /\ sessions[u] # sessions[s]
        /\ activatedPaths'[u] = activatedPaths[u] /\ sessions'[u] = sessions[u]
    BY <1>1, <1>2, <1>9 DEF Apart
  <2>2. sessions[u] # 0 =>
           /\ contexts'[sessions[u]].scopes = contexts[sessions[u]].scopes
           /\ contexts'[sessions[u]].hard = contexts[sessions[u]].hard
    BY <1>0, <2>1 DEF Bootstraps
  <2>3. QED
    BY <2>1, <2>2, RulesSame
<1>10. [u \in Sessions |-> RulesOf(u)]' = [[u \in Sessions |-> RulesOf(u)] EXCEPT ![s] = x]
  BY <1>1, <1>5, <1>9, OneSession, Zenon
<1>11. [u \in Sessions |-> RulesOf(u)][s] = RulesOf(s)
  BY <1>1
<1>12. [u \in Sessions |-> RulesOf(u)]'
         = [[u \in Sessions |-> RulesOf(u)] EXCEPT ![s].hard = v]
  BY <1>1, <1>7, <1>10
<1>13. s \notin {u \in Sessions : host[u] = "deleted"} =>
          [u \in Sessions |-> RulesOf(u)][s].hard <= v
  BY <1>1, <1>4, <1>8, <1>11
<1>14. Rules!Bootstrap(s, v)
  BY <1>2, <1>8, <1>11, <1>12, <1>13 DEF Rules!Bootstrap
<1>15. QED
  BY <1>1, <1>4, <1>14

LEMMA DeletedRefines ==
    ASSUME TypeOK, NEW s \in Sessions, Deleted(s)
    PROVE  Rules!Delete(s)
<1>1. /\ host \in [Sessions -> HostState] /\ sessions \in [Sessions -> 0 .. Len(contexts)]
      /\ activatedPaths \in [Sessions -> SUBSET Paths]
      /\ host[s] # "deleted" /\ host' = [host EXCEPT ![s] = "deleted"]
      /\ sessions' = [sessions EXCEPT ![s] = 0]
      /\ activatedPaths' = [activatedPaths EXCEPT ![s] = {}]
      /\ UNCHANGED <<version, contexts>>
  BY DEF TypeOK, Deleted
<1>2. RulesOf(s)' = Rules!NoRules
  BY <1>1 DEF RulesOf, Rules!NoRules
<1>3. ASSUME NEW u \in Sessions, u # s
      PROVE  RulesOf(u)' = RulesOf(u)
  BY <1>1, <1>3, RulesSame
<1>4. [u \in Sessions |-> RulesOf(u)]'
        = [[u \in Sessions |-> RulesOf(u)] EXCEPT ![s] = Rules!NoRules]
  BY <1>2, <1>3, OneSession
<1>5. /\ s \notin {u \in Sessions : host[u] = "deleted"}
      /\ {u \in Sessions : host'[u] = "deleted"} = {u \in Sessions : host[u] = "deleted"} \cup {s}
  BY <1>1
<1>6. Admitted' = Admitted \ {s}
  BY <1>1 DEF Admitted
<1>7. QED
  BY <1>1, <1>4, <1>5, <1>6 DEF Rules!Delete

LEMMA MemoryRefines ==
    ASSUME MemoryChanges
    PROVE  Rules!MemoryChanges
<1>1. UNCHANGED <<host, sessions, contexts, activatedPaths>> /\ version' = version + 1
  BY DEF MemoryChanges
<1>2. \A s \in Sessions : RulesOf(s)' = RulesOf(s)
  BY <1>1 DEF RulesOf
<1>3. Admitted' = Admitted
  BY <1>1 DEF Admitted
<1>4. QED
  BY <1>1, <1>2, <1>3 DEF Rules!MemoryChanges

LEMMA NextRefinesRules ==
    ASSUME Inv, FetchInv, [Next]_vars
    PROVE  [Rules!Next]_(Rules!vars)
<1>1. TypeOK /\ Apart /\ NoOrphanState
  BY DEF Inv, LookupInv
<1>2. CASE RulesKept
  BY <1>1, <1>2, KeptRefines
<1>3. ASSUME NEW s \in Sessions, Admits(s) \/ Deleted(s)
      PROVE  Rules!Next
  BY <1>1, <1>3, AdmitRefines, DeletedRefines DEF Rules!Next
<1>4. ASSUME NEW s \in Sessions, NEW p \in Paths, LooksUp(s, p)
      PROVE  Rules!Next
  BY <1>1, <1>4, LookUpRefines DEF Rules!Next
<1>5. ASSUME NEW i \in DOMAIN inits, NEW v \in inits[i].since .. version, Bootstraps(i, v)
      PROVE  Rules!Next
  BY <1>1, <1>5, BootstrapRefines DEF Rules!Next
<1>6. CASE MemoryChanges
  BY <1>6, MemoryRefines DEF Rules!Next
<1>7. QED
  BY <1>2, <1>3, <1>4, <1>5, <1>6, StepRules

-----------------------------------------------------------------------------
(* What a hook waits for                                                   *)

\* An initialization is queued behind one of its own session,
OwnAfter == \A i \in DOMAIN inits :
    inits[i].after # 0 => inits[inits[i].after].session = inits[i].session

\* a request waits for one of its own session,
OwnGate == \A r \in Requests :
    (requests[r].step = "gate" /\ requests[r].gate # 0) =>
        inits[requests[r].gate].session = requests[r].session

\* and a call for a lookup of its own path in its own session.
SameLookup(x, y) == y.session = x.session /\ Head(y.paths) = Head(x.paths)

OwnLookup == \A t \in Calls :
    calls[t].step = "join" => SameLookup(calls[t], calls[calls[t].on])

WaitInv == OwnAfter /\ OwnGate /\ OwnLookup

\* Initializations never change their place, and what is new has one behind
\* another of its session.
InitsGrow ==
    /\ Len(inits) <= Len(inits')
    /\ \A k \in 1 .. Len(inits) : /\ inits'[k].session = inits[k].session
                                   /\ inits'[k].after = inits[k].after
    /\ \A k \in 1 .. Len(inits') : (k > Len(inits) /\ inits'[k].after # 0) =>
          /\ inits'[k].after \in 1 .. Len(inits)
          /\ inits[inits'[k].after].session = inits'[k].session

LEMMA SameInitsGrow ==
    ASSUME TypeOK, inits' = inits
    PROVE  InitsGrow
BY InitRanges DEF InitsGrow

LEMMA EnqueueGrows ==
    ASSUME TypeOK, Held, NEW s \in Sessions, NEW kind \in Kind, Enqueue(s, kind)
    PROVE  InitsGrow
<1> DEFINE n == Len(inits) + 1
<1>1. /\ Len(inits) \in Nat /\ Len(inits') = n
      /\ \A k \in 1 .. Len(inits) : inits'[k] = inits[k]
      /\ inits'[n].session = s /\ inits'[n].after = initializing[s]
  BY EnqueueFacts
<1>2. initializing[s] \in 0 .. Len(inits)
  BY DEF TypeOK
<1>3. initializing[s] # 0 => inits[initializing[s]].session = s
  BY DEF Held
<1>4. \A k \in 1 .. Len(inits') : k > Len(inits) => k = n
  BY <1>1
<1> HIDE DEF n
<1>5. QED
  BY <1>1, <1>2, <1>3, <1>4 DEF InitsGrow, n

LEMMA AdvanceGrows ==
    ASSUME TypeOK, NEW i \in DOMAIN inits, NEW next \in {"soft", "done"},
           NEW failed \in BOOLEAN, Advance(i, next, failed)
    PROVE  InitsGrow
<1>1. /\ Len(inits') = Len(inits)
      /\ \A k \in 1 .. Len(inits) : k # i => inits'[k] = inits[k]
      /\ inits'[i].session = inits[i].session /\ inits'[i].after = inits[i].after
  BY AdvanceFacts
<1>2. Len(inits) \in Nat
  BY InitRanges
<1>3. QED
  BY <1>1, <1>2 DEF InitsGrow

LEMMA FetchGrows ==
    ASSUME TypeOK, NEW i \in DOMAIN inits, inits' = WithFetch(i)
    PROVE  InitsGrow
<1> DEFINE x == [inits[i] EXCEPT !.step = "hard", !.since = version]
<1>1. inits \in Seq(Initialization) /\ i \in 1 .. Len(inits) /\ inits[i] \in Initialization
  BY DEF TypeOK
<1>2. version \in 0 .. MaxVersion
  BY OpenCodePluginAssumption DEF TypeOK
<1>3. /\ x \in Initialization
      /\ x.session = inits[i].session /\ x.after = inits[i].after
  BY <1>1, <1>2 DEF Initialization
<1>4. inits' = [inits EXCEPT ![i] = x]
  BY DEF WithFetch
<1> HIDE DEF x
<1>5. /\ Len(inits') = Len(inits) /\ inits'[i] = x
      /\ \A k \in 1 .. Len(inits) : k # i => inits'[k] = inits[k]
  BY <1>1, <1>3, <1>4, ReplaceInit
<1>6. Len(inits) \in Nat
  BY InitRanges
<1>7. QED
  BY <1>3, <1>5, <1>6 DEF InitsGrow

LEMMA StepGrows ==
    ASSUME TypeOK, Held, [Next]_vars
    PROVE  InitsGrow
<1>1. ASSUME NEW s \in Sessions, Created(s) \/ Compacted(s) \/ Deleted(s)
      PROVE  InitsGrow
  <2>1. \/ inits' = inits
        \/ \E kind \in Kind : Enqueue(s, kind)
    BY <1>1 DEF Created, Compacted, Deleted, Kind
  <2>2. QED
    BY <2>1, SameInitsGrow, EnqueueGrows
<1>2. ASSUME NEW i \in DOMAIN inits,
             BeginInit(i) \/ HardReturns(i) \/ SoftReturns(i) \/ InitFails(i)
      PROVE  InitsGrow
  <2>1. AfterHard(i) \in {"soft", "done"}
    BY NextStepFacts
  <2>2. \/ inits' = WithFetch(i)
        \/ \E next \in {"soft", "done"}, failed \in BOOLEAN : Advance(i, next, failed)
    BY <1>2, <2>1 DEF BeginInit, HardReturns, SoftReturns, InitFails, WithFetch
  <2>3. QED
    BY <2>2, AdvanceGrows, FetchGrows
<1>3. CASE inits' = inits
  BY <1>3, SameInitsGrow
<1>4. QED
  BY <1>1, <1>2, <1>3
     DEF Next, Hooks, BeginCall, BeginRequest, MemoryChanges, SkipPath, TryPath,
         LookupReturns, LookupFails, Render, PassThrough, vars

LEMMA AfterStep ==
    ASSUME TypeOK, TypeOK', OwnAfter, InitsGrow
    PROVE  OwnAfter'
<1>1. /\ DOMAIN inits = 1 .. Len(inits) /\ Len(inits) \in Nat
      /\ \A k \in 1 .. Len(inits) : inits[k].after \in 0 .. (k - 1)
  BY InitRanges
<1>2. DOMAIN inits' = 1 .. Len(inits') /\ Len(inits') \in Nat
  BY DEF TypeOK
<1>3. ASSUME NEW k \in 1 .. Len(inits'), inits'[k].after # 0
      PROVE  inits'[inits'[k].after].session = inits'[k].session
  <2>1. CASE k \in 1 .. Len(inits)
    <3>1. inits[k].after \in 1 .. Len(inits) /\ inits'[k].after = inits[k].after
      BY <1>1, <1>3, <2>1 DEF InitsGrow
    <3>2. QED
      BY <1>1, <1>3, <2>1, <3>1 DEF InitsGrow, OwnAfter
  <2>2. CASE k > Len(inits)
    BY <1>3, <2>2 DEF InitsGrow
  <2>3. QED
    BY <1>1, <1>2, <2>1, <2>2
<1>4. QED
  BY <1>2, <1>3 DEF OwnAfter

LEMMA GateStep ==
    ASSUME TypeOK, Held, OwnGate, InitsGrow, [Next]_vars
    PROVE  OwnGate'
<1>1. ASSUME NEW r \in Requests, requests'[r].step = "gate", requests'[r].gate # 0
      PROVE  /\ requests'[r].gate \in 1 .. Len(inits)
             /\ inits[requests'[r].gate].session = requests'[r].session
  <2>1. CASE requests'[r] = requests[r]
    BY <1>1, <2>1, RequestsSame DEF OwnGate
  <2>2. ASSUME NEW q \in Requests, NEW s \in Sessions, BeginRequest(q, s)
        PROVE  /\ requests'[r].gate \in 1 .. Len(inits)
               /\ inits[requests'[r].gate].session = requests'[r].session
    <3> DEFINE x == [step |-> "gate", session |-> s, context |-> sessions[s],
                     gate |-> initializing[s], asked |-> Len(inits)]
    <3>1. requests' = [requests EXCEPT ![q] = x]
      BY <2>2 DEF BeginRequest
    <3>2. requests'[r] = IF r = q THEN x ELSE requests[r]
      BY <3>1 DEF TypeOK
    <3>3. CASE r = q
      <4>1. requests'[r].gate = initializing[s] /\ requests'[r].session = s
        BY <3>2, <3>3
      <4>2. initializing[s] \in 0 .. Len(inits)
        BY DEF TypeOK
      <4>3. QED
        BY <1>1, <4>1, <4>2 DEF Held
    <3>4. QED
      BY <2>1, <3>2, <3>3
  <2>3. ASSUME NEW q \in Requests, Render(q) \/ PassThrough(q)
        PROVE  requests'[r] = requests[r]
    <3>1. /\ requests' = [requests EXCEPT ![q] = Idle]
      BY <2>3 DEF Render, PassThrough
    <3>2. Idle.step = "idle"
      BY DEF Idle
    <3>3. QED
      BY <1>1, <3>1, <3>2 DEF TypeOK
  <2>4. QED
    BY <2>1, <2>2, <2>3
       DEF Next, Hooks, Created, Compacted, Deleted, BeginCall, MemoryChanges, BeginInit,
           HardReturns, SoftReturns, InitFails, SkipPath, TryPath, LookupReturns,
           LookupFails, vars
<1>2. QED
  BY <1>1 DEF OwnGate, InitsGrow

\* One call goes on that nobody waits for.
LEMMA OneCallMoves ==
    ASSUME TypeOK, OwnLookup, NEW t \in Calls, calls[t].step # "lookup",
           \A u \in Calls : u # t => calls'[u] = calls[u],
           calls'[t].step = "join" =>
              /\ calls'[t].on \in Calls /\ calls[calls'[t].on].step = "lookup"
              /\ SameLookup(calls'[t], calls[calls'[t].on])
    PROVE  OwnLookup'
<1>1. \A u \in Calls : calls[u].step = "join" =>
         /\ calls[u].on \in Calls /\ calls[calls[u].on].step = "lookup"
         /\ SameLookup(calls[u], calls[calls[u].on])
  BY CallFacts DEF TypeOK, References, OwnLookup
<1>2. \A u \in Calls : calls[u].step = "lookup" => calls'[u] = calls[u]
  OBVIOUS
<1>3. \A u \in Calls : calls'[u].step = "join" =>
         /\ calls'[u].on \in Calls /\ calls[calls'[u].on].step = "lookup"
         /\ SameLookup(calls'[u], calls[calls'[u].on])
  BY <1>1
<1>4. \A u \in Calls : calls'[u].step = "join" => SameLookup(calls'[u], calls'[calls'[u].on])
  BY <1>2, <1>3
<1>5. QED
  BY <1>4 DEF OwnLookup, SameLookup

LEMMA TryPathOwn ==
    ASSUME Inv, OwnLookup, NEW t \in Calls, TryPath(t)
    PROVE  OwnLookup'
<1> DEFINE s == calls[t].session
           p == Head(calls[t].paths)
<1>1. TypeOK /\ calls[t].step = "next" /\ t \in DOMAIN calls
  BY TryPathCases DEF Inv, TypeOK
<1>2. Rest(calls[t]).step \in {"idle", "next"}
  BY <1>1, NextFacts
<1>3. CASE calls' = [calls EXCEPT ![t] = Rest(calls[t])]
  BY <1>1, <1>2, <1>3, OneCallMoves
<1>4. ASSUME NEW u \in Calls, calls[u].step = "lookup", calls[u].session = s,
             Head(calls[u].paths) = p,
             calls' = [calls EXCEPT ![t] =
               [step |-> "join", session |-> s, paths |-> calls[t].paths, on |-> u]]
      PROVE  OwnLookup'
  <2>1. calls'[t] = [step |-> "join", session |-> s, paths |-> calls[t].paths, on |-> u]
    BY <1>1, <1>4
  <2>2. SameLookup(calls'[t], calls[u]) /\ calls'[t].on = u
    BY <1>4, <2>1 DEF SameLookup
  <2>3. \A v \in Calls : v # t => calls'[v] = calls[v]
    BY <1>1, <1>4
  <2>4. QED
    BY <1>1, <1>4, <2>2, <2>3, OneCallMoves
<1>5. ASSUME NEW c, calls' = [calls EXCEPT ![t] =
               [step |-> "lookup", session |-> s, paths |-> calls[t].paths,
                context |-> c, map |-> c]]
      PROVE  OwnLookup'
  <2>1. calls'[t].step = "lookup" /\ \A v \in Calls : v # t => calls'[v] = calls[v]
    BY <1>1, <1>5
  <2>2. QED
    BY <1>1, <2>1, OneCallMoves
<1>6. QED
  BY <1>3, <1>4, <1>5, TryPathCases

LEMMA LookupEndsOwn ==
    ASSUME Inv, OwnLookup, NEW t \in Calls, LookupReturns(t) \/ LookupFails(t)
    PROVE  OwnLookup'
<1>1. TypeOK /\ PathsLeft /\ calls[t].step = "lookup"
  BY DEF Inv, LookupInv, LookupReturns, LookupFails
<1>2. PICK goOn \in BOOLEAN :
         calls' = [u \in Calls |-> IF u \in Waiting(t)
                                   THEN IF goOn THEN Rest(calls[u]) ELSE Idle
                                   ELSE calls[u]]
  <2>1. CASE LookupReturns(t)
    BY <2>1 DEF LookupReturns
  <2>2. CASE LookupFails(t)
    BY <2>2 DEF LookupFails
  <2>3. QED
    BY <2>1, <2>2
<1>3. \A u \in Calls : calls'[u].step = "join" =>
         calls'[u] = calls[u] /\ calls'[calls[u].on] = calls[calls[u].on]
  BY <1>1, <1>2, ResumeFacts
<1>4. \A u \in Calls : calls'[u].step = "join" => SameLookup(calls'[u], calls'[calls'[u].on])
  BY <1>3 DEF OwnLookup
<1>5. QED
  BY <1>4 DEF OwnLookup, SameLookup

LEMMA LookupStep ==
    ASSUME Inv, OwnLookup, [Next]_vars
    PROVE  OwnLookup'
<1>1. TypeOK
  BY DEF Inv
<1>2. CASE calls' = calls
  BY <1>2 DEF OwnLookup, SameLookup
<1>3. ASSUME NEW t \in Calls, NEW s \in Sessions, NEW paths \in PathLists,
             BeginCall(t, s, paths)
      PROVE  OwnLookup'
  <2>1. PICK cut : /\ calls[t] = Idle
                   /\ calls' = [calls EXCEPT ![t] =
                        [step |-> "next", session |-> s, paths |-> cut]]
    BY <1>3 DEF BeginCall
  <2>2. calls[t].step = "idle" /\ calls'[t].step = "next"
    BY <1>1, <2>1 DEF Idle, TypeOK
  <2>3. QED
    BY <1>1, <2>1, <2>2, OneCallMoves
<1>4. ASSUME NEW t \in Calls, SkipPath(t)
      PROVE  OwnLookup'
  <2>1. calls[t].step = "next" /\ calls' = [calls EXCEPT ![t] = Rest(calls[t])]
    BY <1>4 DEF SkipPath
  <2>2. calls'[t].step \in {"idle", "next"}
    BY <1>1, <2>1, NextFacts DEF TypeOK
  <2>3. QED
    BY <1>1, <2>1, <2>2, OneCallMoves
<1>5. ASSUME NEW t \in Calls, TryPath(t) \/ LookupReturns(t) \/ LookupFails(t)
      PROVE  OwnLookup'
  BY <1>5, TryPathOwn, LookupEndsOwn
<1>6. QED
  BY <1>2, <1>3, <1>4, <1>5
     DEF Next, Hooks, Created, Compacted, Deleted, BeginRequest, MemoryChanges, BeginInit,
         HardReturns, SoftReturns, InitFails, Render, PassThrough, vars

LEMMA WaitInvariance == Spec => [](Inv /\ FreshInv /\ WaitInv)
<1>1. Init => WaitInv
  <2> SUFFICES ASSUME Init PROVE WaitInv
    OBVIOUS
  <2>1. Idle.step = "idle" /\ DOMAIN inits = {}
    BY DEF Init, Idle
  <2>2. QED
    BY <2>1 DEF Init, WaitInv, OwnAfter, OwnGate, OwnLookup
<1>2. (Inv /\ FreshInv /\ WaitInv) /\ [Next]_vars => WaitInv'
  <2> SUFFICES ASSUME Inv, FreshInv, WaitInv, [Next]_vars
               PROVE  WaitInv'
    OBVIOUS
  <2>1. TypeOK /\ TypeOK' /\ Held
    BY StepKeeps DEF Inv, FreshInv
  <2>2. InitsGrow
    BY <2>1, StepGrows
  <2>3. QED
    BY <2>1, <2>2, AfterStep, GateStep, LookupStep DEF WaitInv
<1>3. QED
  BY <1>1, <1>2, FreshInvariance, PTL DEF Spec

\* The first initialization of a session that is not done waits for none.
LEMMA FirstMoves ==
    ASSUME TypeOK, OwnAfter, NEW i \in DOMAIN inits, inits[i].step # "done"
    PROVE  \E j \in 1 .. i : inits[j].session = inits[i].session /\ Moves(j)
<1> DEFINE T == {k \in 1 .. i : inits[k].session = inits[i].session /\ inits[k].step # "done"}
<1>1. /\ inits \in Seq(Initialization) /\ i \in 1 .. Len(inits) /\ Len(inits) \in Nat
      /\ \A k \in 1 .. Len(inits) : inits[k].after \in 0 .. (k - 1)
  BY InitRanges
<1>2. i \in T /\ T \in SUBSET Nat
  BY <1>1
<1>3. PICK j \in T : \A k \in T : ~ (<<k, j>> \in OpToRel(<, Nat))
  BY <1>2, NatLessThanWellFounded, WFMin
<1>4. j \in 1 .. i /\ inits[j].session = inits[i].session /\ inits[j].step # "done"
  BY <1>3
<1>5. \A k \in T : ~ (k < j)
  BY <1>2, <1>3 DEF OpToRel
<1>6. inits[j].step \in {"queued", "hard", "soft"}
  <2>1. inits[j] \in Initialization
    BY <1>1, <1>4
  <2>2. QED
    BY <1>4, <2>1 DEF Initialization
<1>7. inits[j].after # 0 => inits[inits[j].after].step = "done"
  <2> SUFFICES ASSUME inits[j].after # 0, inits[inits[j].after].step # "done"
               PROVE  FALSE
    OBVIOUS
  <2> DEFINE a == inits[j].after
  <2>1. a \in 1 .. (j - 1)
    BY <1>1, <1>4
  <2>2. inits[a].session = inits[i].session
    BY <1>1, <1>4 DEF OwnAfter
  <2>3. a \in T /\ a < j
    BY <1>1, <1>4, <2>1, <2>2
  <2>4. QED
    BY <1>5, <2>3
<1>8. QED
  BY <1>4, <1>6, <1>7 DEF Moves

LEMMA WaitsAreOwn ==
    ASSUME Inv, WaitInv
    PROVE  WaitsInOwnSession
<1>1. TypeOK /\ OwnAfter /\ OwnGate /\ OwnLookup
  BY DEF Inv, WaitInv
<1>2. ASSUME NEW r \in Requests, requests[r].step = "gate", ~ Open(r)
      PROVE  \E j \in 1 .. requests[r].gate :
                inits[j].session = requests[r].session /\ Moves(j)
  <2> DEFINE g == requests[r].gate
  <2>1. g # 0 /\ inits[g].step # "done"
    BY <1>2 DEF Open
  <2>2. g \in DOMAIN inits
    BY <1>1, <1>2, <2>1, RequestsSame, InitRanges
  <2>3. inits[g].session = requests[r].session
    BY <1>1, <1>2, <2>1 DEF OwnGate
  <2>4. QED
    BY <1>1, <2>1, <2>2, <2>3, FirstMoves
<1>3. ASSUME NEW t \in Calls, calls[t].step = "join"
      PROVE  LET u == calls[t].on
             IN  /\ calls[u].step = "lookup" /\ calls[u].session = calls[t].session
                 /\ Head(calls[u].paths) = Head(calls[t].paths)
  BY <1>1, <1>3 DEF TypeOK, References, OwnLookup, SameLookup
<1>4. QED
  BY <1>1, <1>2, <1>3, FirstMoves DEF WaitsInOwnSession

-----------------------------------------------------------------------------
(* Theorems                                                                *)

\* Whatever interleaves, what a hook refers to over an await still exists:
\* plugin.ts holds no promise, map or context that nobody completes.
THEOREM TypeCorrect == Spec => []TypeOK
<1>1. Inv => TypeOK
  BY DEF Inv
<1>2. QED
  BY <1>1, Invariance, PTL

\* Deleting a session releases all that is kept for it, for good: no answer
\* in flight at the time registers anything for a session that is gone.
THEOREM DeletionIsFinal == Spec => []NoOrphanState
<1>1. Inv => NoOrphanState
  BY DEF Inv, LookupInv
<1>2. QED
  BY <1>1, Invariance, PTL

\* The scopes in a session's context are those of the paths recorded as looked
\* up: none is lost when a session is deleted and admitted again, and none
\* crosses from one session to another.
THEOREM ScopesFollowPaths == Spec => []ActivatedMeansActive
<1>1. Inv => ActivatedMeansActive
  BY DEF Inv, LookupInv
<1>2. QED
  BY <1>1, Invariance, PTL

\* However many tool calls run, a path is looked up once at a time for a
\* context, and not again after its scopes are in.
THEOREM LookupsAreShared == Spec => []OneLookup
<1>1. Inv => OneLookup
  BY DEF Inv, LookupInv, Lookups, LookupOK, OneLookup
<1>2. QED
  BY <1>1, Invariance, PTL

\* A request is rendered with what each session.created and session.compacted
\* before it has fetched, or with something newer, unless that fetch failed.
THEOREM RendersAreFresh == Spec => RulesAreFresh
<1>1. ASSUME TypeOK, FreshInv, NEW r \in Requests, Render(r),
             NEW i \in 1 .. requests[r].asked,
             inits[i].session = requests[r].session,
             sessions[inits[i].session] = inits[i].context
      PROVE  /\ inits[i].step = "done"
             /\ inits[i].failed \/ contexts[inits[i].context].hard >= inits[i].since
  BY <1>1, RenderedFresh DEF Render
<1>2. Inv /\ FreshInv =>
         \A r \in Requests : Render(r) =>
            \A i \in 1 .. requests[r].asked :
               (/\ inits[i].session = requests[r].session
                /\ inits[i].context = requests[r].context
                /\ sessions[inits[i].session] = inits[i].context)
               => /\ inits[i].step = "done"
                  /\ inits[i].failed \/ contexts[inits[i].context].hard >= inits[i].since
  BY <1>1 DEF Inv
<1>3. QED
  BY <1>2, FreshInvariance, PTL DEF RulesAreFresh

\* No hook waits for itself, in a circle or for another session: each waits for
\* an initialization that moves, or a lookup that is in flight, of its own
\* session (plugin.ts chains promises per session and joins lookups per context).
THEOREM NoCircularWait == Spec => []WaitsInOwnSession
<1>1. Inv /\ WaitInv => WaitsInOwnSession
  BY WaitsAreOwn
<1>2. QED
  BY <1>1, WaitInvariance, PTL

\* Whatever interleaves and is shared over an await, each session has exactly
\* the rules of its own lookups since it was last admitted, and until it is
\* deleted its bootstrap is only ever replaced by a later one.
THEOREM RulesImplemented == Spec => RulesSpec
<1>1. Init => Rules!Init
  <2> SUFFICES ASSUME Init PROVE Rules!Init
    OBVIOUS
  <2>1. \A s \in Sessions : RulesOf(s) = Rules!NoRules
    BY DEF Init, RulesOf, Rules!NoRules
  <2>2. Admitted = {} /\ {s \in Sessions : host[s] = "deleted"} = {}
    BY DEF Init, Admitted
  <2>3. QED
    BY <2>1, <2>2 DEF Init, Rules!Init
<1>2. (Inv /\ FetchInv) /\ [Next]_vars => [Rules!Next]_(Rules!vars)
  BY NextRefinesRules
<1>3. Spec => Rules!Spec
  BY <1>1, <1>2, RulesInvariance, PTL DEF Spec, Rules!Spec
<1>4. QED
  BY <1>3 DEF RulesSpec
=============================================================================
