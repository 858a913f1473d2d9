-------------------------- MODULE GovernanceReaders ------------------------
(***************************************************************************)
(* `rune check` beside `rune update`: what the one announces and what the  *)
(* other then does are computed by different code from different tables.   *)
(***************************************************************************)
EXTENDS Governance, Retrieval

\* The hashes an update that cannot read some files would index.
Readable(unreadable) ==
    [f \in Files |-> IF f \in unreadable THEN index[f] ELSE tree[f]]

\* A constraint that an update would now retire because of a file that was
\* changed, deleted or replaced since the last one is among those `rune check`
\* lists, whatever the scope tables hold.  Excepted are constraints an update
\* would retire on an unchanged tree too: those have nothing to do with what
\* changed since.  `check` once looked constraints up by scope alone
\* (IMPLEMENTATION_PLAN.md, round 116).
CheckForetellsUpdate ==
    (cache = "ok" /\ view = memory) =>
        \A m \in CurrentRevisions(memory), unreadable \in SUBSET KnownFiles(tree),
           members \in Membership :
            (/\ m.type = "constraint"
             /\ Reaction(m, index, membership, clock) = {}
             /\ Reaction(m, Readable(unreadable), membership, clock) # {})
                => m \in Check(view, index, members, tree, unreadable)
=============================================================================
