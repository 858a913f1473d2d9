----------------------------- MODULE MCSemantic -----------------------------
(* Instances of Semantic for TLC.                                          *)
EXTENDS Semantic

CONSTANTS s1, s2

\* The sources of one scope change, those of the other do not.
MCMaxHash == [s \in Scopes |-> IF s = s1 THEN 2 ELSE 0]
=============================================================================
