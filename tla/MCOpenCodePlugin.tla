-------------------------- MODULE MCOpenCodePlugin --------------------------
(* Instances of OpenCodePlugin for TLC.                                    *)
EXTENDS OpenCodePlugin

CONSTANTS s1, s2, t1, t2, r1, pa, pb, out, app, lib

\* Two paths of one scope and one of them of a second as well.
MCScopesOf == [p \in Paths |-> IF p = pa THEN {app} ELSE {app, lib}]

\* One path, two with the second shared, and one outside the repository.
MCPathLists == {<<pa>>, <<pb, pa>>, <<out, pb>>}

OnePath == {<<pa>>}
=============================================================================
