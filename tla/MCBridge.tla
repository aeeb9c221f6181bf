------------------------------ MODULE MCBridge -------------------------------
(* An instance of Bridge for TLC: two phones, two sessions.                 *)
EXTENDS Bridge, TLC

CONSTANTS old, new, s1, s2

Text(from, kind, to) == [from |-> from, kind |-> kind, to |-> to]
Some ==
    {Text(old, "reply", 1), Text(new, "plain", 0)}
Owners == {None, old}
Alike == Permutations(Sessions)
=============================================================================
