------------------------------ MODULE Approval -----------------------------
(***************************************************************************)
(* What the approval gate promises, whatever files it is kept in and       *)
(* wherever the process dies: a proposal is submitted once and resolved at *)
(* most once; it is granted only by naming a revision that is already part *)
(* of the record history; and history only grows (DATA_MODEL.md, sections  *)
(* 2.5 and 2.5a, and the write-order comment of approve()).                *)
(***************************************************************************)
CONSTANTS Proposals, Revision

VARIABLES
    outcome,    \* [Proposals -> Outcome]
    history,    \* the revisions of every record
    granted     \* the revision each granted proposal put in force

Outcome == {"none", "pending", "approved", "edited", "rejected"}

TypeOK ==
    /\ outcome \in [Proposals -> Outcome]
    /\ history \subseteq Revision
    /\ granted \in [Proposals -> SUBSET Revision]

Init ==
    /\ outcome = [p \in Proposals |-> "none"]
    /\ history = {}
    /\ granted = [p \in Proposals |-> {}]

Submit(p) ==
    /\ outcome[p] = "none"
    /\ outcome' = [outcome EXCEPT ![p] = "pending"]
    /\ UNCHANGED <<history, granted>>

\* Content being approved, a deactivation, or transitions of the lifecycle.
Record ==
    /\ history' \subseteq Revision
    /\ history \subseteq history'
    /\ UNCHANGED <<outcome, granted>>

Grant(p) ==
    /\ outcome[p] = "pending"
    /\ \E m \in history, how \in {"approved", "edited"} :
         /\ outcome' = [outcome EXCEPT ![p] = how]
         /\ granted' = [granted EXCEPT ![p] = {m}]
    /\ UNCHANGED history

Refuse(p) ==
    /\ outcome[p] = "pending"
    /\ outcome' = [outcome EXCEPT ![p] = "rejected"]
    /\ UNCHANGED <<history, granted>>

Next ==
    \/ Record
    \/ \E p \in Proposals : Submit(p) \/ Grant(p) \/ Refuse(p)

Spec == Init /\ [][Next]_<<outcome, history, granted>>
=============================================================================
