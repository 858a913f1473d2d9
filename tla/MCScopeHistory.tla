--------------------------- MODULE MCScopeHistory --------------------------
(* ScopeUpkeep with a history: the files created or removed since a        *)
(* reconciliation last settled where every file belongs.                   *)
EXTENDS MCScopeUpkeep

VARIABLE touched

Settles == Reconcile(FALSE) /\ ~ SuspiciousChurn(scopes, index)

HistorySpec ==
    /\ Init /\ touched = tree
    /\ [][ /\ Next
           /\ touched' = IF Settles THEN {}
                         ELSE touched \cup (tree \ tree') \cup (tree' \ tree)
         ]_<<vars, touched>>

\* What the head of reconcile.py says of a file that did not change and was
\* in no scope: it is never visited.  No file joins a scope unasked unless
\* something happened to it since the last reconciliation.
UntouchedFrozen ==
    [][Unattended =>
        \A s \in Scopes : scopes[s] # Absent =>
            scopes'[s].files \ scopes[s].files \subseteq touched]_vars
=============================================================================
