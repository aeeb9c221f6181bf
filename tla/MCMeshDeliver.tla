--------------------------- MODULE MCMeshDeliver ----------------------------
(* Instances of MeshDeliver for TLC: messages of another computer and one   *)
(* of this computer.  In To, the address of the latter is a name that two   *)
(* sessions share; in ToEach, each session is sent something.               *)
EXTENDS MeshDeliver

CONSTANTS other, a1, a2, own

Computers == {Me, other}
Two == {a1, own}
Three == {a1, a2, own}
SenderOf == [m \in Three |-> IF m = own THEN Me ELSE other]
From == [m \in Two |-> SenderOf[m]]
FromAll == SenderOf
To == [m \in Two |-> IF m = own THEN {1, 2} ELSE {1}]
ToOne == [m \in Three |-> {1}]
ToEach == [m \in Three |-> IF m = a2 THEN {2} ELSE {1}]
=============================================================================
