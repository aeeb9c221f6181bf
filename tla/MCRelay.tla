------------------------------ MODULE MCRelay -------------------------------
(* Instances of Relay for TLC: a sends b one letter, or two whose questions *)
(* have the same numbers, as after a restart with the clock set back.       *)
EXTENDS Relay

CONSTANTS a, b, l1, l2, x, y

Two == {a, b}
One == {l1}
Both == {l1, l2}
Alike == Permutations(Both)
FromA == [l \in Letters |-> a]
ToB == [l \in Letters |-> b]
Same == [l \in Letters |-> [t \in Tries |-> t]]
OnlyB == [c \in Two |-> IF c = b THEN 2 ELSE 0]
TwoOfB == [c \in Two |-> IF c = b THEN 2 ELSE 1]
=============================================================================
