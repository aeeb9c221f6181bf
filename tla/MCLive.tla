------------------------------- MODULE MCLive -------------------------------
(* Instances of Live for TLC: two sessions, one of them shown, or both.      *)
EXTENDS Live

CONSTANTS s1, s2

Two == {s1, s2}
JustOne == {<<s1>>}
OneOrBoth == {<<s1>>, <<s2, s1>>}
=============================================================================
