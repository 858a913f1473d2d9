----------------------------- MODULE SessionRules ---------------------------
(***************************************************************************)
(* What the OpenCode adapter promises of the rules a session is prompted   *)
(* with, however its hooks, the host's events and the answers of the CLI   *)
(* interleave (ARCHITECTURE.md, section 7.3): a session has rules from its *)
(* admission to its deletion; the scopes among them are those of the paths *)
(* it has looked up, each of them once; and as long as the session is not  *)
(* deleted its bootstrap is only replaced by a later one.                  *)
(***************************************************************************)
EXTENDS Naturals, FiniteSets

CONSTANTS Sessions, Paths, ScopesOf, MaxSessionAdmissions

VARIABLES
    memory,     \* the state of the memory, counted
    admitted,   \* the sessions that have rules
    rules,      \* what each session is prompted with, and the paths it looked up
    ended       \* the sessions that were deleted

vars == <<memory, admitted, rules, ended>>

NoRules == [paths |-> {}, scopes |-> {}, hard |-> 0]

Init ==
    /\ memory = 1
    /\ admitted = {}
    /\ rules = [s \in Sessions |-> NoRules]
    /\ ended = {}

Full == Cardinality(admitted) >= MaxSessionAdmissions

\* No session is ever evicted to make room for another.  A tool call that
\* outlives its session admits it again.
Admit(s) ==
    /\ s \notin admitted
    /\ ~ Full
    /\ admitted' = admitted \cup {s}
    /\ rules' = [rules EXCEPT ![s] = NoRules]
    /\ UNCHANGED <<memory, ended>>

WithPath(r, p) ==
    [paths |-> r.paths \cup {p}, scopes |-> r.scopes \cup ScopesOf[p], hard |-> r.hard]

LookUp(s, p) ==
    /\ s \in admitted
    /\ p \notin rules[s].paths
    /\ rules' = [rules EXCEPT ![s] = WithPath(@, p)]
    /\ UNCHANGED <<memory, admitted, ended>>

Bootstrap(s, v) ==
    /\ s \in admitted
    /\ s \notin ended => rules[s].hard <= v
    /\ rules' = [rules EXCEPT ![s].hard = v]
    /\ UNCHANGED <<memory, admitted, ended>>

Delete(s) ==
    /\ s \notin ended
    /\ admitted' = admitted \ {s}
    /\ rules' = [rules EXCEPT ![s] = NoRules]
    /\ ended' = ended \cup {s}
    /\ UNCHANGED memory

MemoryChanges ==
    /\ memory' = memory + 1
    /\ UNCHANGED <<admitted, rules, ended>>

Next ==
    \/ \E s \in Sessions :
          \/ Admit(s)
          \/ \E p \in Paths : LookUp(s, p)
          \/ \E v \in 1 .. memory : Bootstrap(s, v)
          \/ Delete(s)
    \/ MemoryChanges

Spec == Init /\ [][Next]_vars
=============================================================================
