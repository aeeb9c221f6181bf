------------------------------- MODULE Drain --------------------------------
(***************************************************************************)
(* The state machine of the drain (src/src/drain.rs): before a graceful    *)
(* restart every agent is waited for until it has come to rest; the ones   *)
(* whose conversation cannot be resumed are asked to write a handoff, and  *)
(* when time runs out the ones still at work are told to stop.             *)
(*                                                                         *)
(* Time is counted in ticks of the drain thread, from the moment the drain *)
(* began; a late thread skips some.  What the step is given of the         *)
(* sessions (their states, who can take key strokes, which handoffs are on *)
(* disk) is chosen anew at every step.                                     *)
(***************************************************************************)
EXTENDS Integers

CONSTANTS
    Members, Agents,
    Resumable,     \* resumed by the id of their conversation
    Patterned,     \* their screens tell busy from idle
    Now,           \* dct restart --now
    Wait,          \* DrainConfig.wait
    NudgeWait,     \* DrainConfig.nudge_wait
    Settle,        \* IDLE_SETTLE
    UnreadyCap,    \* UNREADY_CAP
    MaxDelay       \* the drain thread looks at least this often

ASSUME MemberAssumption ==
    /\ Agents \subseteq Members
    /\ Resumable \subseteq Members
    /\ Patterned \subseteq Members
    /\ Now \in BOOLEAN

ASSUME TimeAssumption ==
    /\ Wait \in Nat /\ NudgeWait \in Nat /\ Settle \in Nat
    /\ UnreadyCap \in Nat /\ MaxDelay \in Nat \ {0}

VARIABLES
    now,           \* the moment of the last step
    initiator,     \* the session that asked for the restart, as a set
    phase,         \* Slot: waiting, asked for a handoff, or done
    seenBusy, idleSince, unreadySince,     \* the fields of a Slot
    nudgedAt,      \* when the time to wait ran out
    nudgeDue,      \* to be told to stop, once they can take key strokes
    interrupted,   \* to be told to carry on after the restart
    handoffs,      \* asked to write a handoff
    asking,        \* actions of the last step: AskHandoff
    nudging,       \* actions of the last step: Nudge
    finished,
    seen,          \* history: what the last step was told of each session
    lastBusy,      \* history: when each session was last seen at work
    lastFit        \* history: when it was last at work or could take key strokes

slotVars == <<phase, seenBusy, idleSince, unreadySince>>
history == <<seen, lastBusy, lastFit>>
vars == <<now, initiator, slotVars, nudgedAt, nudgeDue, interrupted, handoffs,
          asking, nudging, finished, history>>

Never == -1
Time == Nat \cup {Never}

(* "gone" stands for not on the board and stopped, "busy" for working and   *)
(* asking.                                                                  *)
Seen == {"gone", "failed", "unknown", "idle", "busy"}
Phases == {"waiting", "asked", "done"}

TypeOK ==
    /\ now \in Nat
    /\ initiator \subseteq Members
    /\ phase \in [Members -> Phases]
    /\ seenBusy \in [Members -> BOOLEAN]
    /\ idleSince \in [Members -> Time]
    /\ unreadySince \in [Members -> Time]
    /\ nudgedAt \in Time
    /\ nudgeDue \subseteq Members
    /\ interrupted \subseteq Members
    /\ handoffs \subseteq Members
    /\ asking \subseteq Members
    /\ nudging \subseteq Members
    /\ finished \in BOOLEAN
    /\ seen \in [Members -> Seen]
    /\ lastBusy \in [Members -> Time]
    /\ lastFit \in [Members -> Nat]

open == {m \in Members : phase[m] # "done"}

Init ==
    /\ now = 0
    /\ initiator \in {{}} \cup {{m} : m \in Members}
    /\ phase = [m \in Members |->
                   IF m \in initiator \/ m \notin Agents THEN "done"
                   ELSE "waiting"]
    /\ seenBusy = [m \in Members |-> FALSE]
    /\ idleSince = [m \in Members |-> Never]
    /\ unreadySince = [m \in Members |-> Never]
    /\ nudgedAt = Never
    /\ nudgeDue = {}
    /\ interrupted = initiator
    /\ handoffs = {}
    /\ asking = {}
    /\ nudging = {}
    /\ finished = FALSE
    /\ seen = [m \in Members |-> "unknown"]
    /\ lastBusy = [m \in Members |-> Never]
    /\ lastFit = [m \in Members |-> 0]

-----------------------------------------------------------------------------
(* What a step at time t makes of session m, given the states st, the set   *)
(* ready of sessions that can take key strokes, and the set written of      *)
(* sessions whose handoff is on disk.                                       *)

Stopped(st, m) == st[m] \in {"gone", "failed", "idle"}

Gone(st, m) == st[m] \in {"gone", "failed"}

Since(when, t) == IF when = Never THEN t ELSE when

(* One that was at work must be idle for a while: agents look idle for a    *)
(* second or two in the middle of a round.                                  *)
AtRest(m, st, t) ==
    /\ st[m] = "idle"
    /\ seenBusy[m] => t - Since(idleSince[m], t) >= Settle

NeedsHandoff(m) == m \notin Resumable /\ ~Now

(* Mutated form of Stuck: nobody waits for a session to become ready.       *)
StuckAtOnce(m, st, t, ready) ==
    /\ phase[m] = "waiting"
    /\ AtRest(m, st, t) /\ NeedsHandoff(m) /\ m \notin ready

(* It looks idle but cannot take key strokes: it is not waited for for ever. *)
Stuck(m, st, t, ready) ==
    /\ phase[m] = "waiting"
    /\ AtRest(m, st, t) /\ NeedsHandoff(m) /\ m \notin ready
    /\ t - Since(unreadySince[m], t) >= UnreadyCap

(* Nobody can tell when it stops.                                           *)
Unclear(m, st) == phase[m] = "waiting" /\ st[m] = "unknown"

GivesUp(m, st, t, ready) == Unclear(m, st) \/ Stuck(m, st, t, ready)

Asks(m, st, t, ready) ==
    /\ phase[m] = "waiting"
    /\ AtRest(m, st, t) /\ NeedsHandoff(m) /\ m \in ready

(* Idle is not enough: some agents look idle before they have written.      *)
HasWritten(m, st, t, written) ==
    /\ phase[m] = "asked"
    /\ st[m] = "idle" /\ m \in written
    /\ t - Since(idleSince[m], t) >= Settle

HasStopped(m, st, t, written) ==
    \/ Gone(st, m)
    \/ phase[m] = "waiting" /\ AtRest(m, st, t) /\ ~NeedsHandoff(m)
    \/ HasWritten(m, st, t, written)

PhaseAfter(m, st, t, ready, written) ==
    IF phase[m] = "done" \/ HasStopped(m, st, t, written)
                         \/ GivesUp(m, st, t, ready) THEN "done"
    ELSE IF Asks(m, st, t, ready) THEN "asked"
    ELSE phase[m]

(* Mutated form of IdleAfter: work in between does not end a quiet spell.   *)
IdleKept(m, st, t) == Since(idleSince[m], t)

IdleAfter(m, st, t) ==
    IF st[m] = "idle" THEN Since(idleSince[m], t) ELSE Never

UnreadyAfter(m, st, t) ==
    IF st[m] = "busy" THEN Never
    ELSE IF AtRest(m, st, t) THEN Since(unreadySince[m], t)
    ELSE unreadySince[m]

(* Mutated form of TimeIsUp: time is given anew at every step.              *)
TimeIsUpAgain(t, left) == t >= Wait /\ left # {}

TimeIsUp(t, left) == nudgedAt = Never /\ t >= Wait /\ left # {}

(* Mutated form of CutShort: writing a handoff does not count.              *)
CutShortWriters(m, st, after) == after[m] # "done" /\ ~Stopped(st, m)

(* When time is up, only who is at work is told to stop: not who writes a   *)
(* handoff, and not who is idle.                                            *)
CutShort(m, st, after) == after[m] = "waiting" /\ ~Stopped(st, m)

-----------------------------------------------------------------------------
(* Drain::step.                                                             *)
Step(t, st, ready, written) ==
    LET after == [m \in Members |-> PhaseAfter(m, st, t, ready, written)]
        left == {m \in Members : after[m] # "done"}
        cutShort == {m \in Members : TimeIsUp(t, left) /\ CutShort(m, st, after)}
        due == nudgeDue \cup (IF Now THEN {} ELSE cutShort)
        givenUp == {m \in Members : GivesUp(m, st, t, ready)}
        over == left = {} \/ (nudgedAt' # Never /\ t >= nudgedAt' + NudgeWait)
    IN
    /\ phase' = after
    /\ seenBusy' = [m \in Members |->
                       seenBusy[m] \/ (phase[m] = "waiting" /\ st[m] = "busy")]
    /\ idleSince' = [m \in Members |->
                       IF after[m] = "done" \/ after[m] # phase[m] THEN Never
                       ELSE IdleAfter(m, st, t)]
    /\ unreadySince' = [m \in Members |->
                       IF after[m] # "waiting" THEN Never
                       ELSE UnreadyAfter(m, st, t)]
    /\ asking' = {m \in Members : after[m] = "asked" /\ phase[m] = "waiting"}
    /\ handoffs' = handoffs \cup asking'
    /\ nudgedAt' = IF TimeIsUp(t, left) THEN t ELSE nudgedAt
    /\ nudging' = {m \in due : ~Stopped(st, m) /\ m \in ready}
    /\ nudgeDue' = {m \in due : ~Stopped(st, m) /\ m \notin ready}
    /\ finished' = over
    /\ interrupted' = interrupted \cup givenUp \cup cutShort
                                  \cup (IF over THEN left ELSE {})

(* A session whose profile has no pattern shows "unknown" as long as it     *)
(* runs, and no other ever does.  One that is gone never comes back.        *)
States == {st \in [Members -> Seen] : \A m \in Members :
              IF m \in Patterned THEN st[m] # "unknown"
              ELSE st[m] \in {"gone", "unknown"}}

Next ==
    /\ ~finished
    /\ \E st \in States, d \in 1..MaxDelay, ready \in SUBSET open,
          written \in SUBSET (handoffs \cap open) :
          /\ \A m \in Members : seen[m] = "gone" => st[m] = "gone"
          /\ now' = now + d
          /\ Step(now + d, st, ready, written)
          /\ seen' = st
          /\ lastBusy' = [m \in Members |->
                             IF st[m] = "busy" THEN now + d ELSE lastBusy[m]]
          /\ lastFit' = [m \in Members |->
                             IF st[m] = "busy" \/ m \in ready THEN now + d
                             ELSE lastFit[m]]
    /\ UNCHANGED initiator

Finished == finished /\ UNCHANGED vars

Spec == Init /\ [][Next \/ Finished]_vars

-----------------------------------------------------------------------------
(* The drain keeps what the thread that carries it out relies on.           *)
Promise == INSTANCE DrainPromise WITH
               over <- finished, resumable <- Resumable
KeepsPromise == Promise!Spec

(* No session holds the restart up past the time to wait and the time after *)
(* the nudge, whatever it does: a step at or after that time is the last.   *)
EndsInTime ==
    ~finished /\ now > 0 =>
        IF nudgedAt = Never THEN now < Wait
        ELSE /\ now < nudgedAt + NudgeWait
             /\ nudgedAt < Wait + MaxDelay \/ nudgedAt <= MaxDelay

(* A session is taken to have stopped only if it is gone, was never at work *)
(* in this drain, or has been seen idle, and nothing else, for IDLE_SETTLE; *)
(* otherwise it is marked as interrupted.                                   *)
RestIsReal ==
    [][\A m \in open \ open' : m \notin interrupted' =>
          \/ seen'[m] \in {"gone", "failed"}
          \/ lastBusy'[m] = Never
          \/ seen'[m] = "idle" /\ now' - lastBusy'[m] >= Settle]_vars

(* Nobody is marked, and so told to carry on after the restart, who came to *)
(* rest.  Of the sessions whose screens can be read a step marks: who is at *)
(* work the moment the time to wait runs out, and never earlier; who is     *)
(* still waited for when the time after the nudge has run out too; and who  *)
(* is idle but has to be asked for a handoff, and was neither at work nor   *)
(* able to take the question at any step for all of UNREADY_CAP.            *)
MarkedForAReason ==
    [][\A m \in (interrupted' \ interrupted) \cap Patterned :
          \/ /\ seen'[m] = "busy"
             /\ nudgedAt' = now' /\ now' >= Wait
          \/ /\ finished' /\ m \in open'
             /\ nudgedAt' # Never /\ now' >= nudgedAt' + NudgeWait
          \/ /\ seen'[m] = "idle" /\ NeedsHandoff(m)
             /\ now' - lastFit'[m] >= UnreadyCap]_vars

=============================================================================
