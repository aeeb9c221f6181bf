---------------------------- MODULE LetterPromise ----------------------------
(* What `dct send` promises about a letter to another computer, whatever    *)
(* happens to the relay and to the connections: the sender is told at most  *)
(* once, a receipt only after the addressee has handled the letter, and     *)
(* that it is turned down or that the addressee is away only if it has not  *)
(* been handled and never will be.  A letter is handled at most once, which *)
(* is why nothing is tried again after "no answer".                         *)
EXTENDS Naturals

CONSTANT Letters

VARIABLES handled,  \* how often the addressee's computer has acted on each
          told      \* what each sender has been told, "" before

letterVars == <<handled, told>>

Away == {"offline", "refused"}
Words == Away \cup {"receipt", "noanswer"}

TypeOK ==
    /\ handled \in [Letters -> 0..1]
    /\ told \in [Letters -> Words \cup {""}]

Init ==
    /\ handled = [l \in Letters |-> 0]
    /\ told = [l \in Letters |-> ""]

(* The addressee acts on a letter, in time or long after its sender has     *)
(* stopped waiting.                                                         *)
Handle(l) ==
    /\ handled[l] = 0
    /\ told[l] \in {"", "noanswer"}
    /\ handled' = [handled EXCEPT ![l] = 1]
    /\ UNCHANGED told

Tell(l, word) ==
    /\ told[l] = ""
    /\ word \in Away => handled[l] = 0
    /\ word = "receipt" => handled[l] = 1
    /\ told' = [told EXCEPT ![l] = word]
    /\ UNCHANGED handled

(* All the connections break at once when the relay stops.                  *)
TellNobody ==
    /\ told' \in [Letters -> Words \cup {""}]
    /\ \A l \in Letters :
           told'[l] = told[l] \/ (told[l] = "" /\ told'[l] = "noanswer")
    /\ UNCHANGED handled

Next ==
    \/ \E l \in Letters : Handle(l)
    \/ \E l \in Letters, word \in Words : Tell(l, word)
    \/ TellNobody

Spec == Init /\ [][Next]_letterVars
=============================================================================
