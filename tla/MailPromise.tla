---------------------------- MODULE MailPromise -----------------------------
(***************************************************************************)
(* What a computer promises about the messages other computers leave for   *)
(* its sessions (src/src/mesh/deliver.rs): a mailbox per session, emptied  *)
(* from the front by typing one message at a time into the session.  A     *)
(* message gets into one mailbox once.  Messages may be thrown away, but   *)
(* never overtake one another and are never typed twice.                   *)
(***************************************************************************)
EXTENDS Mailbox

CONSTANTS Sessions, Messages

VARIABLES
    box,     \* messages accepted for each session, in order of arrival
    typed,   \* messages typed into each session, in order
    ever     \* messages that have been in a mailbox

mailVars == <<box, typed, ever>>

Init ==
    /\ box = [s \in Sessions |-> <<>>]
    /\ typed = [s \in Sessions |-> <<>>]
    /\ ever = {}

Accept(s, m) ==
    /\ m \notin ever
    /\ ever' = ever \cup {m}
    /\ box' = [box EXCEPT ![s] = Append(@, m)]
    /\ UNCHANGED typed

Type(s) ==
    /\ box[s] # <<>>
    /\ box' = [box EXCEPT ![s] = Tail(@)]
    /\ typed' = [typed EXCEPT ![s] = Append(@, Head(box[s]))]
    /\ UNCHANGED ever

ThrowAway(lost) ==
    /\ box' = [s \in Sessions |-> Without(box[s], lost)]
    /\ UNCHANGED <<typed, ever>>

Next ==
    \/ \E s \in Sessions, m \in Messages : Accept(s, m)
    \/ \E s \in Sessions : Type(s)
    \/ \E lost \in SUBSET Messages : ThrowAway(lost)

Spec == Init /\ [][Next]_mailVars
=============================================================================
