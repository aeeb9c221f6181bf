---------------------------- MODULE DrainProofs -----------------------------
(***************************************************************************)
(* Theorems about Drain, for any sessions of any kinds, any waits, and a   *)
(* drain thread that is late by any bounded time: the drain ends in time,  *)
(* takes nobody for done who is not, marks nobody without a reason, and    *)
(* keeps the promise the rest of the daemon relies on.                     *)
(***************************************************************************)
EXTENDS Drain, TLAPS

(* One turn of the drain thread, with what it was given.                    *)
Turn(st, d, ready, written) ==
    /\ ~finished
    /\ \A m \in Members : seen[m] = "gone" => st[m] = "gone"
    /\ now' = now + d
    /\ Step(now + d, st, ready, written)
    /\ seen' = st
    /\ lastBusy' = [m \in Members |->
                       IF st[m] = "busy" THEN now + d ELSE lastBusy[m]]
    /\ lastFit' = [m \in Members |->
                      IF st[m] = "busy" \/ m \in ready THEN now + d
                      ELSE lastFit[m]]
    /\ UNCHANGED initiator

LEMMA NextIsATurn ==
    ASSUME Next
    PROVE  \E st \in States, d \in 1..MaxDelay, ready \in SUBSET open,
              written \in SUBSET (handoffs \cap open) :
                  Turn(st, d, ready, written)
  BY DEF Next, Turn

-----------------------------------------------------------------------------
(* Types.                                                                   *)

LEMMA TypeInit == Init => TypeOK
  <1> SUFFICES ASSUME Init PROVE TypeOK
    OBVIOUS
  <1>1. initiator \subseteq Members
    BY DEF Init
  <1>2. /\ phase \in [Members -> Phases] /\ seenBusy \in [Members -> BOOLEAN]
        /\ seen \in [Members -> Seen]
    BY DEF Init, Phases, Seen
  <1>3. /\ idleSince \in [Members -> Time] /\ unreadySince \in [Members -> Time]
        /\ lastBusy \in [Members -> Time] /\ nudgedAt \in Time
        /\ lastFit \in [Members -> Nat]
    BY DEF Init, Time
  <1> QED
    BY <1>1, <1>2, <1>3 DEF Init, TypeOK

LEMMA TurnType ==
    ASSUME TypeOK, NEW st \in States, NEW d \in 1..MaxDelay,
           NEW ready \in SUBSET open, NEW written \in SUBSET (handoffs \cap open),
           Turn(st, d, ready, written)
    PROVE  TypeOK'
  <1> DEFINE t == now + d
             after == [m \in Members |-> PhaseAfter(m, st, t, ready, written)]
  <1>1. d \in Nat /\ t \in Nat
    BY TimeAssumption DEF TypeOK
  <1>2. st \in [Members -> Seen]
    BY DEF States
  <1>3. after \in [Members -> Phases]
    BY DEF PhaseAfter, Phases, TypeOK
  <1>4. \A m \in Members : Since(idleSince[m], t) \in Time
                           /\ Since(unreadySince[m], t) \in Time
    BY <1>1 DEF Since, Time, TypeOK
  <1>5. phase' \in [Members -> Phases] /\ seenBusy' \in [Members -> BOOLEAN]
    <2>1. phase' = after
      BY DEF Turn, Step
    <2>2. seenBusy' \in [Members -> BOOLEAN]
      BY DEF Turn, Step, TypeOK
    <2> QED
      BY <1>3, <2>1, <2>2
  <1>6. idleSince' \in [Members -> Time]
    BY <1>4 DEF Turn, Step, IdleAfter, Time, Never
  <1>7. unreadySince' \in [Members -> Time]
    BY <1>4 DEF Turn, Step, UnreadyAfter, Time, Never, TypeOK
  <1>8. nudgedAt' \in Time
    BY <1>1 DEF Turn, Step, Time, TypeOK
  <1>9. asking' \subseteq Members /\ handoffs' \subseteq Members
    BY DEF Turn, Step, TypeOK
  <1>10. interrupted' \subseteq Members
    BY DEF Turn, Step, TypeOK
  <1>11. nudging' \subseteq Members /\ nudgeDue' \subseteq Members
    BY DEF Turn, Step, TypeOK
  <1>12. finished' \in BOOLEAN
    BY DEF Turn, Step
  <1>13. lastBusy' \in [Members -> Time] /\ lastFit' \in [Members -> Nat]
    BY <1>1 DEF Turn, TypeOK, Time
  <1>14. now' \in Nat /\ seen' \in [Members -> Seen] /\ initiator' \subseteq Members
    BY <1>1, <1>2 DEF Turn, TypeOK
  <1> QED
    BY <1>5, <1>6, <1>7, <1>8, <1>9, <1>10, <1>11, <1>12, <1>13, <1>14 DEF TypeOK

(* Whatever is given to Drain::step, the drain's fields keep their types.   *)
THEOREM TypeCorrect == Spec => []TypeOK
  <1>1. TypeOK /\ [Next \/ Finished]_vars => TypeOK'
    <2> SUFFICES ASSUME TypeOK, Next \/ Finished \/ UNCHANGED vars PROVE TypeOK'
      OBVIOUS
    <2>1. CASE Next
      BY <2>1, NextIsATurn, TurnType
    <2>2. CASE Finished \/ UNCHANGED vars
      BY <2>2 DEF Finished, vars, slotVars, history, TypeOK
    <2> QED
      BY <2>1, <2>2
  <1> QED
    BY <1>1, TypeInit, PTL DEF Spec
-----------------------------------------------------------------------------
(* The time to wait.                                                        *)

(* EndsInTime says nothing of the moment the drain begins, at which the time *)
(* to wait has not run out.                                                 *)
EndInv == TypeOK /\ EndsInTime /\ (nudgedAt # Never => now > 0)

LEMMA TurnEnds ==
    ASSUME EndInv, NEW st \in States, NEW d \in 1..MaxDelay,
           NEW ready \in SUBSET open, NEW written \in SUBSET (handoffs \cap open),
           Turn(st, d, ready, written)
    PROVE  EndsInTime' /\ now' > 0
  <1> DEFINE t == now + d
             after == [m \in Members |-> PhaseAfter(m, st, t, ready, written)]
             left == {m \in Members : after[m] # "done"}
             up == TimeIsUp(t, left)
  <1>1. d \in Nat /\ now \in Nat /\ t \in Nat /\ d <= MaxDelay /\ nudgedAt \in Time
          /\ now' = t /\ t > 0
    BY TimeAssumption DEF TypeOK, EndInv, Turn
  <1>2. SUFFICES ASSUME ~finished'
                 PROVE  IF nudgedAt' = Never THEN t < Wait
                        ELSE /\ t < nudgedAt' + NudgeWait
                             /\ nudgedAt' < Wait + MaxDelay \/ nudgedAt' <= MaxDelay
    BY <1>1 DEF EndsInTime
  <1>3. /\ left # {}
        /\ nudgedAt' = (IF up THEN t ELSE nudgedAt)
        /\ nudgedAt' # Never => ~(t >= nudgedAt' + NudgeWait)
    BY <1>2 DEF Turn, Step
  <1>4. up <=> nudgedAt = Never /\ t >= Wait
    BY <1>3 DEF TimeIsUp
  <1>5. ~finished
    BY DEF Turn
  <1> HIDE DEF left, after, up
  <1>6. CASE up
    <2>1. nudgedAt = Never /\ nudgedAt' = t /\ t # Never
      BY <1>1, <1>3, <1>4, <1>6 DEF Never
    <2>2. t < t + NudgeWait
      BY <1>1, <1>3, <2>1, TimeAssumption
    <2>3. now = 0 => t <= MaxDelay
      BY <1>1
    <2>4. now > 0 => t < Wait + MaxDelay
      BY <1>1, <1>5, <2>1, TimeAssumption DEF EndsInTime, EndInv
    <2> QED
      BY <1>1, <2>1, <2>2, <2>3, <2>4
  <1>7. CASE ~up /\ nudgedAt = Never
    BY <1>1, <1>3, <1>4, <1>7, TimeAssumption
  <1>8. CASE ~up /\ nudgedAt # Never
    <2>1. nudgedAt' = nudgedAt /\ nudgedAt \in Nat
      BY <1>1, <1>3, <1>8 DEF Time
    <2>2. t < nudgedAt + NudgeWait
      BY <1>1, <1>3, <1>8, <2>1, TimeAssumption
    <2>3. now > 0
      BY <1>8 DEF EndInv
    <2> QED
      BY <1>5, <1>8, <2>1, <2>2, <2>3 DEF EndsInTime, EndInv
  <1> QED
    BY <1>6, <1>7, <1>8

(* Whatever the sessions do, a step at or after the time to wait and the    *)
(* time after the nudge is the last one.                                    *)
THEOREM RestartIsNotHeldUp == Spec => []EndsInTime
  <1>1. Init => EndInv
    <2> SUFFICES ASSUME Init PROVE EndInv
      OBVIOUS
    <2> QED
      BY TypeInit DEF Init, EndInv, EndsInTime
  <1>2. EndInv /\ [Next \/ Finished]_vars => EndInv'
    <2> SUFFICES ASSUME EndInv, Next \/ Finished \/ UNCHANGED vars PROVE EndInv'
      OBVIOUS
    <2>1. CASE Next
      BY <2>1, NextIsATurn, TurnType, TurnEnds DEF EndInv
    <2>2. CASE Finished \/ UNCHANGED vars
      BY <2>2 DEF Finished, vars, slotVars, history, EndInv, EndsInTime, TypeOK
    <2> QED
      BY <2>1, <2>2
  <1>3. EndInv => EndsInTime
    BY DEF EndInv
  <1> QED
    BY <1>1, <1>2, <1>3, PTL DEF Spec

-----------------------------------------------------------------------------
(* The promise.                                                             *)

(* Who has still to be told to stop is at work and waited for, marked, and  *)
(* can be judged; and only who is not waited for any more, or is waited for *)
(* to write, has been asked to write.                                       *)
PromiseInv ==
    /\ TypeOK
    /\ \A m \in nudgeDue :
          phase[m] = "waiting" /\ m \in interrupted /\ m \in Patterned
    /\ \A m \in handoffs : phase[m] # "waiting"

LEMMA SlotFacts ==
    ASSUME TypeOK, NEW st \in States, NEW t, NEW ready, NEW written,
           NEW m \in Members
    PROVE  LET after == PhaseAfter(m, st, t, ready, written) IN
           /\ after = "asked" /\ phase[m] = "waiting"
                 => st[m] = "idle" /\ m \notin Resumable
           /\ after # "done" => phase[m] # "done"
           /\ after = "waiting" => phase[m] = "waiting" /\ st[m] # "unknown"
           /\ st[m] = "busy" /\ phase[m] = "waiting" => after = "waiting"
           /\ GivesUp(m, st, t, ready) => phase[m] = "waiting"
           /\ st[m] # "unknown" => m \in Patterned \/ st[m] = "gone"
           /\ m \in Patterned => st[m] # "unknown"
           /\ st[m] \in Seen
  <1>1. st[m] \in Seen /\ (m \in Patterned => st[m] # "unknown")
        /\ (m \notin Patterned => st[m] \in {"gone", "unknown"})
    BY DEF States
  <1>2. phase[m] \in Phases
    BY DEF TypeOK
  <1> QED
    BY <1>1, <1>2 DEF PhaseAfter, Phases, Seen, HasStopped, HasWritten, GivesUp, Unclear,
                Stuck, Asks, AtRest, NeedsHandoff, Gone

LEMMA TurnPromise ==
    ASSUME PromiseInv, NEW st \in States, NEW d \in 1..MaxDelay,
           NEW ready \in SUBSET open, NEW written \in SUBSET (handoffs \cap open),
           Turn(st, d, ready, written)
    PROVE  PromiseInv' /\ Promise!Round
  <1> DEFINE t == now + d
             After(m) == PhaseAfter(m, st, t, ready, written)
             left == {m \in Members : After(m) # "done"}
             cutShort == {m \in Members : TimeIsUp(t, left)
                              /\ After(m) = "waiting" /\ ~Stopped(st, m)}
             due == nudgeDue \cup (IF Now THEN {} ELSE cutShort)
             givenUp == {m \in Members : GivesUp(m, st, t, ready)}
  <1>1. TypeOK /\ TypeOK'
    BY TurnType DEF PromiseInv
  <1>2. /\ \A m \in Members : phase'[m] = After(m)
        /\ open = {m \in Members : phase[m] # "done"}
        /\ open' = left
        /\ asking' = {m \in Members : After(m) = "asked" /\ phase[m] = "waiting"}
        /\ handoffs' = handoffs \cup asking'
        /\ nudging' = {m \in due : ~Stopped(st, m) /\ m \in ready}
        /\ nudgeDue' = {m \in due : ~Stopped(st, m) /\ m \notin ready}
        /\ interrupted' = interrupted \cup givenUp \cup cutShort
                              \cup (IF finished' THEN left ELSE {})
        /\ left = {} => finished'
        /\ finished' \in BOOLEAN
        /\ ~finished /\ initiator' = initiator
    BY <1>1 DEF Turn, Step, CutShort, open
  <1>3. \A m \in Members :
           /\ After(m) = "asked" /\ phase[m] = "waiting"
                 => st[m] = "idle" /\ m \notin Resumable
           /\ After(m) # "done" => phase[m] # "done"
           /\ After(m) = "waiting" => phase[m] = "waiting" /\ st[m] # "unknown"
           /\ st[m] = "busy" /\ phase[m] = "waiting" => After(m) = "waiting"
           /\ GivesUp(m, st, t, ready) => phase[m] = "waiting"
           /\ st[m] # "unknown" => m \in Patterned \/ st[m] = "gone"
           /\ m \in Patterned => st[m] # "unknown"
           /\ st[m] \in Seen
    BY <1>1, SlotFacts
  <1> HIDE DEF After
  <1>4. \A m \in due : m \in nudgeDue \/ m \in cutShort
    OBVIOUS
  (* Whoever is to be told to stop is at work, and waited for before and    *)
  (* after.                                                                 *)
  <1>5. \A m \in due : ~Stopped(st, m) =>
           /\ m \in Members /\ st[m] = "busy" /\ m \in Patterned
           /\ phase[m] = "waiting" /\ After(m) = "waiting"
           /\ m \in interrupted'
    <2> SUFFICES ASSUME NEW m \in due, ~Stopped(st, m)
                 PROVE  /\ m \in Members /\ st[m] = "busy" /\ m \in Patterned
                        /\ phase[m] = "waiting" /\ After(m) = "waiting"
                        /\ m \in interrupted'
      OBVIOUS
    <2>1. m \in Members /\ m \notin asking'
      BY <1>1, <1>2, <1>3, <1>4 DEF TypeOK, Stopped
    <2>2. st[m] \in {"unknown", "busy"}
      BY <1>3, <2>1 DEF Stopped, Seen
    <2>3. CASE m \in nudgeDue
      BY <1>2, <1>3, <2>1, <2>2, <2>3 DEF PromiseInv
    <2>4. CASE m \in cutShort
      BY <1>2, <1>3, <2>1, <2>2, <2>4
    <2> QED
      BY <1>4, <2>3, <2>4
  <1>6. \A m \in handoffs' : m \in Members /\ After(m) # "waiting"
    BY <1>1, <1>2, <1>3 DEF PromiseInv, TypeOK
  <1>7. PromiseInv'
    BY <1>1, <1>2, <1>5, <1>6 DEF PromiseInv, TypeOK
  <1>8. open' \subseteq open
    BY <1>2, <1>3
  <1>9. asking' \subseteq open \ (handoffs \cup Resumable)
    BY <1>2, <1>3 DEF PromiseInv
  <1>10. interrupted \subseteq interrupted' /\ interrupted' \subseteq interrupted \cup open
    BY <1>2, <1>3
  <1>11. nudging' \subseteq (open \cap interrupted') \ handoffs'
    BY <1>2, <1>5, <1>6
  <1>12. finished' => open' \subseteq interrupted'
    BY <1>2
  <1> QED
    BY <1>2, <1>7, <1>8, <1>9, <1>10, <1>11, <1>12 DEF Promise!Round

(* The drain does what its promise allows, whatever the sessions do and     *)
(* however long the waits: whom it asks and tells to stop, and whom it      *)
(* marks for the next daemon.                                               *)
THEOREM DrainKeepsPromise == Spec => KeepsPromise
  <1>1. Init => PromiseInv /\ Promise!Init
    <2> SUFFICES ASSUME Init PROVE PromiseInv /\ Promise!Init
      OBVIOUS
    <2>1. PromiseInv
      BY TypeInit DEF Init, PromiseInv
    <2>2. open = Agents \ initiator
      BY MemberAssumption DEF Init, open
    <2>3. Promise!Begins(initiator)
      BY <2>2, MemberAssumption DEF Init, Promise!Begins
    <2> QED
      BY <2>1, <2>3 DEF Init, Promise!Init
  <1>2. PromiseInv /\ [Next \/ Finished]_vars
          => PromiseInv' /\ [Promise!Round]_(Promise!promiseVars)
    <2> SUFFICES ASSUME PromiseInv, Next \/ Finished \/ UNCHANGED vars
                 PROVE  PromiseInv' /\ [Promise!Round]_(Promise!promiseVars)
      OBVIOUS
    <2>1. CASE Next
      BY <2>1, NextIsATurn, TurnPromise
    <2>2. CASE Finished \/ UNCHANGED vars
      BY <2>2 DEF Finished, vars, slotVars, history, PromiseInv, TypeOK,
                  Promise!promiseVars, open
    <2> QED
      BY <2>1, <2>2
  <1> QED
    BY <1>1, <1>2, PTL DEF Spec, KeepsPromise, Promise!Spec

-----------------------------------------------------------------------------
(* Marks, and rest.                                                         *)

(* While a session is waited for that could not take the question, the      *)
(* clock of its unreadiness began after it was last at work or ready, and   *)
(* after it had come to rest.                                               *)
MarkInv ==
    /\ TypeOK
    /\ \A m \in Members :
          /\ lastFit[m] <= now
          /\ phase[m] = "waiting" /\ unreadySince[m] # Never =>
                /\ lastFit[m] < unreadySince[m] /\ unreadySince[m] <= now
                /\ seenBusy[m] => /\ idleSince[m] # Never
                                  /\ unreadySince[m] - idleSince[m] >= Settle

(* What a step may mark a session for.                                      *)
HasReason(m) ==
    \/ /\ seen'[m] = "busy"
       /\ nudgedAt' = now' /\ now' >= Wait
    \/ /\ finished' /\ m \in open'
       /\ nudgedAt' # Never /\ now' >= nudgedAt' + NudgeWait
    \/ /\ seen'[m] = "idle" /\ NeedsHandoff(m)
       /\ now' - lastFit'[m] >= UnreadyCap

LEMMA TurnMarks ==
    ASSUME MarkInv, NEW st \in States, NEW d \in 1..MaxDelay,
           NEW ready \in SUBSET open, NEW written \in SUBSET (handoffs \cap open),
           Turn(st, d, ready, written)
    PROVE  MarkInv' /\ \A m \in (interrupted' \ interrupted) \cap Patterned : HasReason(m)
  <1> DEFINE t == now + d
             After(m) == PhaseAfter(m, st, t, ready, written)
             left == {m \in Members : After(m) # "done"}
             cutShort == {m \in Members : TimeIsUp(t, left)
                              /\ After(m) = "waiting" /\ ~Stopped(st, m)}
             givenUp == {m \in Members : GivesUp(m, st, t, ready)}
  <1>1. TypeOK /\ TypeOK'
    BY TurnType DEF MarkInv
  <1>2. d \in Nat /\ d > 0 /\ now \in Nat /\ t \in Nat /\ now' = t /\ t # Never
    BY <1>1, TimeAssumption DEF TypeOK, Turn, Never
  <1>3. \A m \in Members :
           /\ phase'[m] = After(m)
           /\ seenBusy'[m] = (seenBusy[m] \/ (phase[m] = "waiting" /\ st[m] = "busy"))
           /\ idleSince'[m] = IF After(m) = "done" \/ After(m) # phase[m] THEN Never
                              ELSE IdleAfter(m, st, t)
           /\ unreadySince'[m] = IF After(m) # "waiting" THEN Never
                                 ELSE UnreadyAfter(m, st, t)
           /\ lastFit'[m] = IF st[m] = "busy" \/ m \in ready THEN t ELSE lastFit[m]
           /\ seen'[m] = st[m]
    BY <1>1 DEF Turn, Step
  <1>4. /\ open' = left
        /\ nudgedAt' = (IF TimeIsUp(t, left) THEN t ELSE nudgedAt)
        /\ finished' => left = {} \/ (nudgedAt' # Never /\ t >= nudgedAt' + NudgeWait)
        /\ interrupted' = interrupted \cup givenUp \cup cutShort
                              \cup (IF finished' THEN left ELSE {})
    BY <1>1 DEF Turn, Step, CutShort, open
  <1>5. \A m \in Members : m \in Patterned => st[m] # "unknown"
    BY DEF States
  <1>6. ASSUME NEW m \in Members
        PROVE  /\ st[m] \in Seen /\ phase[m] \in Phases /\ seenBusy[m] \in BOOLEAN
               /\ unreadySince[m] \in Time /\ idleSince[m] \in Time
               /\ lastFit[m] \in Nat /\ lastFit[m] < t
               /\ Since(unreadySince[m], t) \in Nat
    <2>1. st[m] \in Seen
      BY DEF States
    <2>2. /\ phase[m] \in Phases /\ seenBusy[m] \in BOOLEAN
          /\ unreadySince[m] \in Time /\ idleSince[m] \in Time /\ lastFit[m] \in Nat
      BY <1>1 DEF TypeOK
    <2>3. lastFit[m] < t
      BY <1>2, <2>2 DEF MarkInv
    <2> QED
      BY <1>2, <2>1, <2>2, <2>3 DEF Since, Time
  (* A session that goes on being waited for is at work, or idle; and idle    *)
  (* and at rest only if it could not take the question.                    *)
  <1>7. ASSUME NEW m \in Members, After(m) = "waiting"
        PROVE  /\ phase[m] = "waiting" /\ st[m] \in {"idle", "busy"}
               /\ AtRest(m, st, t) => m \notin ready
    BY <1>6, <1>7 DEF PhaseAfter, Phases, Seen, HasStopped, GivesUp, Unclear, Asks, Gone
  <1> HIDE DEF left, After
  <1>8. MarkInv'
    <2> SUFFICES ASSUME NEW m \in Members
                 PROVE  /\ lastFit'[m] <= t
                        /\ After(m) = "waiting" /\ unreadySince'[m] # Never =>
                              /\ lastFit'[m] < unreadySince'[m]
                              /\ unreadySince'[m] <= t
                              /\ seenBusy'[m] =>
                                    /\ idleSince'[m] # Never
                                    /\ unreadySince'[m] - idleSince'[m] >= Settle
      BY <1>1, <1>2, <1>3 DEF MarkInv
    <2>1. lastFit'[m] <= t
      BY <1>2, <1>3, <1>6
    <2>2. ASSUME After(m) = "waiting", unreadySince'[m] # Never
          PROVE  /\ lastFit'[m] < unreadySince'[m] /\ unreadySince'[m] <= t
                 /\ seenBusy'[m] => /\ idleSince'[m] # Never
                                    /\ unreadySince'[m] - idleSince'[m] >= Settle
      <3>1. phase[m] = "waiting" /\ st[m] = "idle"
            /\ (AtRest(m, st, t) => m \notin ready)
            /\ unreadySince'[m] = UnreadyAfter(m, st, t)
        BY <1>3, <1>7, <2>2 DEF UnreadyAfter
      <3>2. /\ seenBusy'[m] = seenBusy[m]
            /\ idleSince'[m] = Since(idleSince[m], t)
        BY <1>3, <1>6, <2>2, <3>1 DEF IdleAfter
      <3>3. CASE unreadySince[m] = Never
        <4>1. AtRest(m, st, t) /\ unreadySince'[m] = t
          BY <2>2, <3>1, <3>3 DEF UnreadyAfter, Since
        <4>2. lastFit'[m] = lastFit[m]
          BY <1>3, <3>1, <4>1
        <4>3. seenBusy'[m] => t - idleSince'[m] >= Settle
          BY <3>2, <4>1 DEF AtRest
        <4>4. idleSince'[m] # Never
          BY <1>2, <3>2 DEF Since
        <4> QED
          BY <1>2, <1>6, <4>1, <4>2, <4>3, <4>4
      <3>4. CASE unreadySince[m] # Never
        <4>1. /\ lastFit[m] < unreadySince[m] /\ unreadySince[m] <= now
              /\ seenBusy[m] => /\ idleSince[m] # Never
                                /\ unreadySince[m] - idleSince[m] >= Settle
          BY <3>1, <3>4 DEF MarkInv
        <4>2. unreadySince'[m] = unreadySince[m]
          BY <3>1, <3>4 DEF UnreadyAfter, Since
        <4>3. seenBusy[m] => idleSince'[m] = idleSince[m]
          BY <3>2, <4>1 DEF Since
        <4>4. unreadySince[m] <= t
          BY <1>2, <1>6, <4>1 DEF Time, Never
        <4>5. AtRest(m, st, t)
          BY <1>2, <1>6, <3>1, <3>2, <4>1, <4>3, <4>4, TimeAssumption DEF AtRest, Time, Never
        <4>6. lastFit'[m] = lastFit[m]
          BY <1>3, <3>1, <4>5
        <4> QED
          BY <3>2, <4>1, <4>2, <4>3, <4>4, <4>6
      <3> QED
        BY <3>3, <3>4
    <2> QED
      BY <2>1, <2>2
  <1>9. ASSUME NEW m \in (interrupted' \ interrupted) \cap Patterned
        PROVE  HasReason(m)
    <2>1. m \in Members
      BY <1>1, <1>9 DEF TypeOK
    <2>2. CASE m \in cutShort
      <3>1. st[m] = "busy" /\ nudgedAt' = t /\ t >= Wait
        BY <1>4, <1>7, <2>1, <2>2 DEF Stopped, TimeIsUp
      <3> QED
        BY <1>2, <1>3, <2>1, <3>1 DEF HasReason
    <2>3. CASE finished' /\ m \in left
      BY <1>2, <1>4, <2>3 DEF HasReason
    <2>4. CASE m \in givenUp
      <3>1. Stuck(m, st, t, ready)
        BY <1>5, <1>9, <2>1, <2>4 DEF GivesUp, Unclear
      <3>2. /\ phase[m] = "waiting" /\ st[m] = "idle" /\ NeedsHandoff(m) /\ m \notin ready
            /\ t - Since(unreadySince[m], t) >= UnreadyCap
        BY <3>1 DEF Stuck, AtRest
      <3>3. lastFit'[m] = lastFit[m] /\ lastFit[m] <= Since(unreadySince[m], t)
        BY <1>2, <1>3, <1>6, <2>1, <3>2 DEF MarkInv, Since, Time, Never
      <3>4. t - lastFit'[m] >= UnreadyCap
        BY <1>2, <1>6, <2>1, <3>2, <3>3, TimeAssumption
      <3> QED
        BY <1>2, <1>3, <2>1, <3>2, <3>4 DEF HasReason
    <2> QED
      BY <1>4, <1>9, <2>2, <2>3, <2>4
  <1> QED
    BY <1>8, <1>9

(* Nobody who came to rest is marked to be told to carry on: only who was   *)
(* at work when the time to wait ran out, who was still waited for at the   *)
(* very end, and who could not be asked for a handoff for too long.         *)
THEOREM MarksHaveReasons == Spec => MarkedForAReason
  <1>1. Init => MarkInv
    <2> SUFFICES ASSUME Init PROVE MarkInv
      OBVIOUS
    <2> QED
      BY TypeInit DEF Init, MarkInv, Never
  <1>2. MarkInv /\ [Next \/ Finished]_vars => MarkInv' /\
          [\A m \in (interrupted' \ interrupted) \cap Patterned : HasReason(m)]_vars
    <2>1. CASE Next
      BY <2>1, NextIsATurn, TurnMarks
    <2>2. CASE Finished \/ UNCHANGED vars
      BY <2>2 DEF Finished, vars, slotVars, history, MarkInv, TypeOK
    <2> QED
      BY <2>1, <2>2
  <1> QED
    BY <1>1, <1>2, PTL DEF Spec, MarkedForAReason, HasReason

(* What the history says of a session that is still waited for: when it was *)
(* last at work the slot knows, and the quiet spell began later.            *)
RestInv ==
    /\ TypeOK
    /\ \A m \in Members :
          /\ lastBusy[m] <= now
          /\ idleSince[m] # Never => lastBusy[m] <= idleSince[m]
          /\ phase[m] = "waiting" /\ lastBusy[m] # Never => seenBusy[m]

LEMMA TurnRests ==
    ASSUME RestInv, NEW st \in States, NEW d \in 1..MaxDelay,
           NEW ready \in SUBSET open, NEW written \in SUBSET (handoffs \cap open),
           Turn(st, d, ready, written)
    PROVE  /\ RestInv'
           /\ \A m \in open \ open' : m \notin interrupted' =>
                 \/ seen'[m] \in {"gone", "failed"}
                 \/ lastBusy'[m] = Never
                 \/ seen'[m] = "idle" /\ now' - lastBusy'[m] >= Settle
  <1> DEFINE t == now + d
             After(m) == PhaseAfter(m, st, t, ready, written)
  <1>1. TypeOK /\ TypeOK'
    BY TurnType DEF RestInv
  <1>2. d \in Nat /\ d > 0 /\ now \in Nat /\ t \in Nat /\ now' = t
    BY <1>1, TimeAssumption DEF TypeOK, Turn
  <1>3. \A m \in Members :
           /\ phase'[m] = After(m)
           /\ seenBusy'[m] = (seenBusy[m] \/ (phase[m] = "waiting" /\ st[m] = "busy"))
           /\ idleSince'[m] = IF After(m) = "done" \/ After(m) # phase[m] THEN Never
                              ELSE IdleAfter(m, st, t)
           /\ lastBusy'[m] = IF st[m] = "busy" THEN t ELSE lastBusy[m]
           /\ seen'[m] = st[m]
    BY <1>1 DEF Turn, Step
  <1>4. \A m \in Members : After(m) = "waiting" => phase[m] = "waiting"
    BY <1>1, SlotFacts
  <1>5. ASSUME NEW m \in Members
        PROVE  /\ lastBusy[m] \in Time /\ idleSince[m] \in Time
               /\ Since(idleSince[m], t) \in Nat
               /\ lastBusy[m] <= Since(idleSince[m], t)
               /\ lastBusy[m] < t
    BY <1>1, <1>2 DEF RestInv, Since, TypeOK, Time, Never
  <1>6. RestInv'
    <2> SUFFICES ASSUME NEW m \in Members
                 PROVE  /\ lastBusy'[m] <= t
                        /\ idleSince'[m] # Never => lastBusy'[m] <= idleSince'[m]
                        /\ phase'[m] = "waiting" /\ lastBusy'[m] # Never => seenBusy'[m]
      BY <1>1, <1>2 DEF RestInv
    <2>1. lastBusy'[m] <= t
      BY <1>2, <1>3, <1>5 DEF Time, Never
    <2>2. ASSUME idleSince'[m] # Never PROVE lastBusy'[m] <= idleSince'[m]
      <3>1. st[m] = "idle" /\ idleSince'[m] = Since(idleSince[m], t)
        BY <1>3, <2>2 DEF IdleAfter
      <3> QED
        BY <1>3, <1>5, <3>1
    <2>3. ASSUME phase'[m] = "waiting", lastBusy'[m] # Never PROVE seenBusy'[m]
      BY <1>1, <1>3, <1>4, <2>3 DEF RestInv, TypeOK
    <2> QED
      BY <2>1, <2>2, <2>3
  <1>7. ASSUME NEW m \in open \ open', m \notin interrupted'
        PROVE  \/ seen'[m] \in {"gone", "failed"}
               \/ lastBusy'[m] = Never
               \/ seen'[m] = "idle" /\ now' - lastBusy'[m] >= Settle
    <2>1. m \in Members /\ phase[m] # "done" /\ After(m) = "done"
      BY <1>3, <1>7 DEF open
    <2>2. ~GivesUp(m, st, t, ready)
      <3>1. GivesUp(m, st, t, ready) => m \in interrupted'
        BY <2>1 DEF Turn, Step
      <3> QED
        BY <1>7, <3>1
    <2>3. HasStopped(m, st, t, written)
      BY <2>1, <2>2 DEF PhaseAfter
    <2>4. CASE Gone(st, m)
      BY <1>3, <2>1, <2>4 DEF Gone
    <2>5. CASE phase[m] = "waiting" /\ AtRest(m, st, t)
      <3>1. st[m] = "idle" /\ lastBusy'[m] = lastBusy[m]
        BY <1>3, <2>1, <2>5 DEF AtRest
      <3>2. CASE lastBusy[m] # Never
        <4>1. seenBusy[m]
          BY <2>1, <2>5, <3>2 DEF RestInv
        <4>2. t - Since(idleSince[m], t) >= Settle
          BY <2>5, <4>1 DEF AtRest
        <4> QED
          BY <1>2, <1>3, <1>5, <2>1, <3>1, <4>2, TimeAssumption DEF Time, Never
      <3> QED
        BY <3>1, <3>2
    <2>6. CASE HasWritten(m, st, t, written)
      <3>1. st[m] = "idle" /\ lastBusy'[m] = lastBusy[m]
            /\ t - Since(idleSince[m], t) >= Settle
        BY <1>3, <2>1, <2>6 DEF HasWritten
      <3> QED
        BY <1>2, <1>3, <1>5, <2>1, <3>1, TimeAssumption DEF Time, Never
    <2> QED
      BY <2>3, <2>4, <2>5, <2>6 DEF HasStopped
  <1> QED
    BY <1>6, <1>7

(* Nobody is taken for done who may still be at work: gone, never at work   *)
(* in this drain, or quiet for as long as agents must be.                   *)
THEOREM DoneIsAtRest == Spec => RestIsReal
  <1>1. Init => RestInv
    <2> SUFFICES ASSUME Init PROVE RestInv
      OBVIOUS
    <2> QED
      BY TypeInit DEF Init, RestInv, Never
  <1>2. RestInv /\ [Next \/ Finished]_vars => RestInv' /\
          [\A m \in open \ open' : m \notin interrupted' =>
              \/ seen'[m] \in {"gone", "failed"}
              \/ lastBusy'[m] = Never
              \/ seen'[m] = "idle" /\ now' - lastBusy'[m] >= Settle]_vars
    <2>1. CASE Next
      BY <2>1, NextIsATurn, TurnRests
    <2>2. CASE Finished \/ UNCHANGED vars
      BY <2>2 DEF Finished, vars, slotVars, history, RestInv, TypeOK
    <2> QED
      BY <2>1, <2>2
  <1> QED
    BY <1>1, <1>2, PTL DEF Spec, RestIsReal
=============================================================================
