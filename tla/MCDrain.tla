------------------------------ MODULE MCDrain -------------------------------
(* Instances of Drain for TLC: one session of each kind, resumable, to be   *)
(* asked for a handoff, and without patterns.                               *)
EXTENDS Drain

CONSTANTS resumes, writes, plain

All == {resumes, writes, plain}
Judged == {resumes, writes}
One == {resumes}

(* What no later step and no property reads is left out of the view: of     *)
(* what the sessions showed only who is gone counts at the next step, the   *)
(* history of a session matters while it is waited for, when it could last  *)
(* take key strokes only if it is to be asked for a handoff, the actions of *)
(* the last step have been handed to the thread, and a drain that is over   *)
(* takes no step.                                                           *)
WithoutPast ==
    IF finished THEN <<finished>>
    ELSE <<now, initiator, slotVars, nudgedAt, nudgeDue, interrupted, handoffs,
           {m \in Members : seen[m] = "gone"},
           [m \in open |-> lastBusy[m]],
           [m \in {w \in open : phase[w] = "waiting" /\ NeedsHandoff(w)} |-> lastFit[m]]>>
=============================================================================
