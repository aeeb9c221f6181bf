--------------------------- MODULE RosterPromise ----------------------------
(***************************************************************************)
(* What the computers of a group promise about their rosters, whoever      *)
(* signs, sends, joins or renames when.                                    *)
(***************************************************************************)
EXTENDS Integers

CONSTANT Computers

VARIABLES
    roster,     \* the roster each computer goes by
    signed      \* the rosters anybody has signed

Alone(c) == roster[c].members = {c}

First(c, g) == [group |-> g, version |-> 1, members |-> {c}, signer |-> c]

Init ==
    /\ roster = [c \in Computers |-> First(c, c)]
    /\ signed = {First(c, c) : c \in Computers}

(* c, by itself, starts the numbering of its group again.                   *)
Begins(c, r) == Alone(c) /\ r = First(c, roster[c].group)

(* c signs the next version, with one computer more or less and itself.     *)
Signs(c, r) ==
    LET old == roster[c].members IN
    /\ r.group = roster[c].group /\ r.version = roster[c].version + 1
    /\ r.signer = c /\ c \in r.members
    /\ \E m \in Computers \ {c} : r.members \in {old \cup {m}, old \ {m}}
    /\ r.members # old

(* c learns of a newer one, from somebody on the one it had.                *)
Learns(c, r) ==
    /\ r.group = roster[c].group /\ r.version > roster[c].version
    /\ r.signer \in roster[c].members \cap r.members
    /\ c \in r.members

(* c, by itself, goes over to a group that has taken it in.                 *)
Enters(c, r) ==
    /\ Alone(c)
    /\ c \in r.members /\ r.signer \in r.members \ {c}

Writes(c, r) == Begins(c, r) \/ Signs(c, r)
Follows(c, r) == r \in signed /\ (Learns(c, r) \/ Enters(c, r))

Next ==
    \E c \in Computers, r \in signed' :
        /\ \/ Writes(c, r) /\ signed' = signed \cup {r}
           \/ Follows(c, r) /\ signed' = signed
        /\ roster' = [roster EXCEPT ![c] = r]

Spec == Init /\ [][Next]_<<roster, signed>>
=============================================================================
