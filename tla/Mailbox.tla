------------------------------ MODULE Mailbox -------------------------------
(***************************************************************************)
(* Queues of messages that wait for a session: what is in one, and what is *)
(* left of it when some messages are thrown away (purge_non_members in     *)
(* src/src/mesh/deliver.rs keeps the others in their order).               *)
(***************************************************************************)
EXTENDS Integers, Sequences

Items(q) == {q[k] : k \in DOMAIN q}

Without(q, lost) ==
    LET left[n \in 0..Len(q)] ==
            IF n = 0 THEN <<>>
            ELSE IF q[n] \in lost THEN left[n - 1]
            ELSE Append(left[n - 1], q[n])
    IN  left[Len(q)]
=============================================================================
