---------------------------- MODULE DrainPromise ----------------------------
(***************************************************************************)
(* What the draining of the sessions before a graceful restart promises to *)
(* the thread that carries it out (DrainCtl::drive in src/src/daemon.rs)   *)
(* and to the next daemon, whatever the sessions do and however long it    *)
(* takes: whom it may talk to, and whom it owes a word after the restart.  *)
(***************************************************************************)
EXTENDS Integers

CONSTANTS
    Members,    \* the sessions of the board when the drain begins
    Agents      \* those that run an agent, not a plain shell

VARIABLES
    initiator,    \* the session that asked for the restart, as a set
    resumable,    \* sessions that need not write a handoff
    open,         \* sessions that are still waited for
    interrupted,  \* sessions the next daemon must tell to carry on
    handoffs,     \* sessions that have been asked to write a handoff
    asking,       \* sessions the last step wants asked for a handoff
    nudging,      \* sessions the last step wants told to stop
    over          \* the drain is over, the restart may happen

promiseVars ==
    <<initiator, resumable, open, interrupted, handoffs, asking, nudging, over>>

(* Drain::new: the session that asked is never waited for, and always told  *)
(* afterwards.  Who need not write a handoff is settled once and for all.   *)
Begins(i) ==
    /\ initiator = i
    /\ resumable \in SUBSET Members
    /\ open = Agents \ i
    /\ interrupted = i
    /\ handoffs = {} /\ asking = {} /\ nudging = {}
    /\ over = FALSE

Init == \E i \in {{}} \cup {{m} : m \in Members} : Begins(i)

(* One round: some sessions are done, some are asked for a handoff, which   *)
(* happens once and only to those that need one, and some are told to stop, *)
(* which nobody is who writes a handoff; whoever is told to stop is owed a  *)
(* word, and so is whoever is still waited for at the end.                  *)
Round ==
    /\ ~over
    /\ initiator' = initiator /\ resumable' = resumable
    /\ open' \subseteq open
    /\ asking' \subseteq open \ (handoffs \cup resumable)
    /\ handoffs' = handoffs \cup asking'
    /\ interrupted \subseteq interrupted'
    /\ interrupted' \subseteq interrupted \cup open
    /\ nudging' \subseteq (open \cap interrupted') \ handoffs'
    /\ over' \in BOOLEAN
    /\ over' => open' \subseteq interrupted'
    /\ open' = {} => over'

Spec == Init /\ [][Round]_promiseVars
=============================================================================
