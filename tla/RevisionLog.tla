----------------------------- MODULE RevisionLog ----------------------------
(***************************************************************************)
(* What every canonical file of revisions promises, whoever writes it and  *)
(* wherever the writer dies (DATA_MODEL.md, sections 2.5, 2.6 and 3): it   *)
(* only grows; the lines of one id are numbered 1, 2, ... in the order in  *)
(* which they were written; and what the system writes by itself is a full *)
(* copy of the current line, of a record no human has to look at first, in *)
(* which the status or a snapshot is another.                              *)
(***************************************************************************)
EXTENDS Naturals

CONSTANTS
    Line,       \* what a line can be: records with a `revision` and a `status`
    Final,      \* the statuses only a person takes a record out of
    ByHand,     \* the lines written for a person or an agent
    Id,         \* [Line -> ids]: whose revision a line is
    Content,    \* [Line -> ...]: what a copy must keep
    Condition   \* [Line -> ...]: the status and the snapshots

VARIABLE log    \* the lines

Of(id) == {l \in log : Id[l] = id}

\* The current line is the one with the greatest number, whatever its status.
Latest(id) == {l \in Of(id) : \A k \in Of(id) : k.revision <= l.revision}

Follows(l) ==
    IF Of(Id[l]) = {} THEN l.revision = 1
    ELSE \E k \in Latest(Id[l]) : l.revision = k.revision + 1

FullCopy(l) ==
    \E k \in Latest(Id[l]) :
        /\ k.status \notin Final
        /\ Content[l] = Content[k]
        /\ Condition[l] # Condition[k]

\* One command, or one file of one update: at most one line of each id.
Append(new) ==
    /\ new \subseteq Line
    /\ log' = log \cup new
    /\ \A l, m \in new : Id[l] = Id[m] => l = m
    /\ \A l \in new : Follows(l) /\ (l \notin ByHand => FullCopy(l))

Init == log = {}

Next == Append(log' \ log)

Spec == Init /\ [][Next]_log
=============================================================================
