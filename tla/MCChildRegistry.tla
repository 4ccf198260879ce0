--------------------------- MODULE MCChildRegistry ---------------------------
(* Two children and two concurrent skips: s1 names either child, s2 always c1, *)
(* so the two meet on c1 and c2 is the bystander.                              *)
EXTENDS ChildRegistry

CONSTANTS c1, c2, s1, s2

MCTargets  == [s \in {s1, s2} |-> IF s = s1 THEN {c1, c2} ELSE {c1}]
OneTargets == [s \in {s1} |-> {c1, c2}]
=============================================================================
