----------------------------- MODULE MCSessions -----------------------------
(* Instances of Sessions for TLC: two connections, three numbers, and lists *)
(* with no record, one, or two of them, resumable or not.                   *)
EXTENDS Sessions

CONSTANTS c1, c2

OneClient == {c1}
TwoClients == {c1, c2}

Rec(i, c) == [id |-> i, conv |-> c]
NoList == {<<>>}
OneRecord == {<<Rec(1, TRUE)>>}

(* No action and no property of the runs under this view reads the journal. *)
ButTheJournal ==
    <<table, nextId, procVars, state, byRequest, submitted, hasConv, listVars,
      threadVars>>
=============================================================================
