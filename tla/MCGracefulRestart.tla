------------------------- MODULE MCGracefulRestart --------------------------
(* Instances of GracefulRestart for TLC: two sessions side by side, in one  *)
(* directory and of one profile, which resumes by id and by --continue.     *)
EXTENDS GracefulRestart, TLC

CONSTANTS left, right

Both == {left, right}
One == {left}
OnePlace == [i \in Members |-> 0]

Alike == Permutations(Both)

(* What no later step and no property reads is left out of the view: the    *)
(* actions of the last round have been handed to the thread, a run in its   *)
(* last step has handed over its marks too, `over` shows in `finishing`, a  *)
(* thread that is gone does not come back, `done` is for the CLI, the       *)
(* lease is looked at only where nobody asked for the drain and before the  *)
(* last step.  Of a session that is gone nothing is asked, unless it was in *)
(* the list when that was written for the last time: it comes back.         *)
LeaseMatters == lapsed /\ initiator = {} /\ ~finishing

ListIsFinal ==
    daemon # "serving" \/ \E g \in Generations : driver[g] \in {"swap", "linger"}

Here == IF ListIsFinal THEN recorded ELSE Members \ gone

Of(marks, s) == <<marks.interrupted \cap s, marks.handoffs \cap s,
                  marks.initiator \cap s>>

ActsThatMatter ==
    [g \in Generations |-> <<acts[g].asks, acts[g].nudges, acts[g].finish,
                             Of(acts[g].marks, Members \ gone)>>]

WithoutLastRound ==
    <<daemon, running, generation, finishing, LeaseMatters, driver,
      ActsThatMatter, gone,
      IF ListIsFinal THEN <<Of(file, recorded), recorded, conversations>>
      ELSE <<>>,
      {n \in notes : n.id \notin gone}, told \ gone, halted \cap Here,
      warned \cap Here, named \ gone, spoken \ gone,
      (passedOver \cap halted) \ gone, (carriedOn \cap halted) \ gone,
      IF finishing THEN <<>>
      ELSE <<initiator, resumable, open, interrupted, handoffs>>,
      {g \in cancelled : driver[g] # "gone"}>>
=============================================================================
