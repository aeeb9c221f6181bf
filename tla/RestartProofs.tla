--------------------------- MODULE RestartProofs ----------------------------
(***************************************************************************)
(* Theorems about GracefulRestart, for any sessions and any number of      *)
(* drains: a drain whose cancelling was confirmed never restarts the       *)
(* daemon, a thread that comes late leaves the drains of others alone, and *)
(* whoever was told to stop is remembered.                                 *)
(***************************************************************************)
EXTENDS GracefulRestart, TLAPS

USE DEF Generations

-----------------------------------------------------------------------------
(* Types.                                                                   *)

LEMMA ActsType ==
    ASSUME TypeOK, NEW g \in Generations
    PROVE  /\ acts[g] \in Acts /\ driver[g] \in DriverAt
           /\ NoActs \in Acts /\ NoMarks \in Marks
  BY DEF TypeOK, Acts, NoActs, Marks, NoMarks

LEMMA CalledOffType == ASSUME TypeOK, running, generation \in Generations
                       PROVE  CalledOff \subseteq Notes
  BY DEF TypeOK, CalledOff, Notes

(* Before the first drain there is no run, no thread and no new daemon.     *)
NumberInv ==
    /\ TypeOK
    /\ generation = 0 => /\ ~running /\ daemon = "serving"
                         /\ \A g \in Generations : driver[g] = "none"

LEMMA Counted ==
    ASSUME NumberInv, running \/ daemon # "serving"
                              \/ \E g \in Generations : driver[g] # "none"
    PROVE  generation \in Generations
  BY RestartAssumption DEF NumberInv, TypeOK

LEMMA MoveType ==
    ASSUME TypeOK, NEW g \in Generations, NEW l \in DriverAt, Move(g, l)
    PROVE  driver' \in [Generations -> DriverAt]
  BY DEF TypeOK, Move

LEMMA RequestTypes ==
    ASSUME NumberInv, Requests \/ Lapse
    PROVE  NumberInv'
  <1>1. ASSUME NEW i \in Initiators, Start(i) PROVE NumberInv'
    <2>1. i \subseteq Members
      BY DEF Initiators
    <2>2. generation \in Nat /\ generation' \in Generations /\ generation' = generation + 1
      BY <1>1, RestartAssumption DEF Start, NumberInv, TypeOK
    <2>3. driver' \in [Generations -> DriverAt]
      BY <1>1, <2>2 DEF Start, NumberInv, TypeOK, Move, DriverAt
    <2>4. Agents \ i \subseteq Members
      BY RestartAssumption
    <2>5. UNCHANGED <<daemon, acts, file, recorded, conversations, named, spoken, notes,
                      gone, halted, warned, cancelled, spared, passedOver, carriedOn>>
      BY <1>1 DEF Start, disk, talkVars, worldVars, history, excuses
    <2>6. /\ running' = TRUE /\ finishing' = FALSE /\ done' = FALSE /\ told' = {}
          /\ lapsed' = FALSE /\ draining' = TRUE
          /\ initiator' = i /\ open' = Agents \ i /\ interrupted' = i
          /\ handoffs' = {} /\ asking' = {} /\ nudging' = {} /\ over' = FALSE
          /\ resumable' \subseteq Members
      BY <1>1 DEF Start
    <2>7. generation' \in 0..MaxDrains
      BY <2>2
    <2>8. TypeOK'
      BY <2>1, <2>3, <2>4, <2>5, <2>6, <2>7 DEF NumberInv, TypeOK
    <2> QED
      BY <2>2, <2>8 DEF NumberInv
  <1>2. CASE Poll
    BY <1>2 DEF Poll, NumberInv, TypeOK, drainVars, disk, talkVars, worldVars, history, excuses
  <1>3. CASE Cancel
    <2>1. CalledOff \subseteq Notes
      BY <1>3, CalledOffType, Counted DEF Cancel, MayCancel, NumberInv
    <2>2. TypeOK'
      BY <1>3, <2>1, Counted
         DEF Cancel, MayCancel, EndRun, NoRun, NumberInv, TypeOK, disk, talkVars, excuses
    <2>3. generation # 0 /\ generation' = generation
      BY <1>3 DEF Cancel, MayCancel, EndRun, NoRun, NumberInv
    <2> QED
      BY <2>2, <2>3 DEF NumberInv
  <1>4. CASE Lapse
    BY <1>4 DEF Lapse, NumberInv, TypeOK, drainVars, disk, talkVars, worldVars, history, excuses
  <1> QED
    BY <1>1, <1>2, <1>3, <1>4 DEF Requests

LEMMA WakeTypes ==
    ASSUME NumberInv, NEW g \in Generations, Wake(g)
    PROVE  NumberInv'
  <1>1. /\ open' \subseteq Members /\ asking' \subseteq Members
        /\ handoffs' \subseteq Members /\ nudging' \subseteq Members
        /\ interrupted' \subseteq Members
    BY DEF Wake, NumberInv, TypeOK
  <1>2. over' \in BOOLEAN /\ finishing' \in BOOLEAN /\ initiator' = initiator
        /\ running = TRUE /\ resumable' = resumable
    BY DEF Wake, RunIs, NumberInv, TypeOK, P!Round
  <1>3. acts' \in [Generations -> Acts]
    <2> DEFINE a == [asks |-> asking', nudges |-> nudging', finish |-> over',
                     marks |-> IF over' THEN [interrupted |-> interrupted',
                                              handoffs |-> handoffs',
                                              initiator |-> initiator]
                               ELSE NoMarks]
    <2>1. a \in Acts
      BY <1>1, <1>2 DEF Acts, Marks, NoMarks, NumberInv, TypeOK
    <2>2. acts' = [acts EXCEPT ![g] = a]
      BY DEF Wake
    <2> HIDE DEF a
    <2> QED
      BY <2>1, <2>2 DEF NumberInv, TypeOK
  <1>4. driver' \in [Generations -> DriverAt]
    BY MoveType DEF Wake, DriverAt, NumberInv
  <1>5. UNCHANGED <<daemon, running, generation, done, told, lapsed, draining,
                    file, recorded, conversations, named, spoken, notes, gone, halted,
                    warned, cancelled, spared, passedOver, carriedOn>>
    BY DEF Wake, disk, talkVars, worldVars, history, excuses
  <1> QED
    BY <1>1, <1>2, <1>3, <1>4, <1>5 DEF NumberInv, TypeOK

LEMMA ProceedTypes ==
    ASSUME NumberInv, NEW g \in Generations, Proceed(g)
    PROVE  NumberInv'
  <1>0. driver[g] # "none"
    BY DEF Proceed, Spawn, WakeGone, WakeLapsed, TypeFor, ActsDone, Abandon, Persist,
           SwapFails, Swap, Exit
  <1>0a. generation # 0 /\ generation' = generation
    BY <1>0 DEF NumberInv, Proceed, Spawn, WakeGone, WakeLapsed, TypeFor, ActsDone, Abandon,
           Persist, SwapFails, Swap, Exit, EndRun, NoRun, runVars
  <1> USE DEF runVars, drainVars, disk, talkVars, worldVars, history, excuses
  <1>1. ASSUME NEW l \in DriverAt, Move(g, l),
               UNCHANGED <<daemon, runVars, drainVars, acts, disk, talkVars, worldVars, history>>
        PROVE  NumberInv'
    BY <1>0a, <1>1, MoveType DEF NumberInv, TypeOK
  <1>2. CASE Spawn(g) \/ WakeGone(g) \/ WakeLapsed(g) \/ ActsDone(g) \/ SwapFails(g)
    <2>1. \E l \in DriverAt : Move(g, l)
      BY <1>2 DEF Spawn, WakeGone, WakeLapsed, ActsDone, SwapFails, DriverAt
    <2>2. UNCHANGED <<daemon, runVars, drainVars, acts, disk, talkVars, worldVars, history>>
      BY <1>2 DEF Spawn, WakeGone, WakeLapsed, ActsDone, SwapFails
    <2> QED
      BY <1>1, <2>1, <2>2
  <1>3. ASSUME NEW i \in Members, TypeFor(g, i) PROVE NumberInv'
    <2>1. acts' \in [Generations -> Acts]
      BY <1>0a, <1>3 DEF TypeFor, NumberInv, TypeOK, Acts
    <2>2. /\ told' \subseteq Members /\ halted' \subseteq Members
          /\ spoken' \subseteq Members
          /\ passedOver' \subseteq Members /\ carriedOn' \subseteq Members
      BY <1>0a, <1>3 DEF TypeFor, Heard, NumberInv, TypeOK
    <2>3. UNCHANGED <<daemon, running, generation, finishing, done, lapsed, draining,
                      drainVars, driver, disk, named, notes, gone, warned, cancelled,
                      spared>>
      BY <1>3 DEF TypeFor
    <2> QED
      BY <1>0a, <2>1, <2>2, <2>3 DEF NumberInv, TypeOK
  <1>4. CASE Abandon(g)
    <2>1. driver' \in [Generations -> DriverAt]
      BY <1>0a, <1>4, MoveType DEF Abandon, DriverAt, NumberInv
    <2>2. CASE EndsOwn(g)
      <3>1. CalledOff \subseteq Notes
        BY <1>0a, <2>2, CalledOffType, Counted DEF EndsOwn, RunIs, NumberInv
      <3>2. NoRun /\ notes' = notes \cup CalledOff
        BY <1>4, <2>2 DEF Abandon, EndRun
      <3>3. UNCHANGED <<daemon, acts, disk, talkVars, gone, halted, warned, history>>
        BY <1>4 DEF Abandon
      <3> QED
        BY <1>0a, <2>1, <3>1, <3>2, <3>3 DEF NoRun, NumberInv, TypeOK
    <2>3. CASE ~EndsOwn(g)
      BY <1>0a, <1>4, <2>1, <2>3 DEF Abandon, NumberInv, TypeOK
    <2> QED
      BY <2>2, <2>3
  <1>5. CASE Persist(g)
    <2>1. driver' \in [Generations -> DriverAt]
      BY <1>0a, <1>5, MoveType DEF Persist, DriverAt, NumberInv
    <2>2. /\ file' \in Marks /\ recorded' \subseteq Members
          /\ conversations' \subseteq recorded' /\ spared' \subseteq Members
          /\ acts' \in [Generations -> Acts]
      BY <1>0a, <1>5, ActsType DEF Persist, NumberInv, TypeOK, Acts
    <2> QED
      BY <1>0a, <1>5, <2>1, <2>2 DEF Persist, NumberInv, TypeOK
  <1>6. CASE Swap(g)
    <2>1. driver' \in [Generations -> DriverAt]
      BY <1>0a, <1>6, MoveType DEF Swap, DriverAt, NumberInv
    <2>2. done' \in BOOLEAN /\ (done' => running)
      BY <1>0a, <1>6 DEF Swap, NumberInv, TypeOK
    <2>3. UNCHANGED <<daemon, running, generation, finishing, told, lapsed, draining,
                      drainVars, acts, disk, talkVars, worldVars, history>>
      BY <1>6 DEF Swap
    <2> QED
      BY <1>0a, <2>1, <2>2, <2>3 DEF NumberInv, TypeOK
  <1>7. CASE Exit(g)
    <2>1. driver' \in [Generations -> DriverAt] /\ acts' \in [Generations -> Acts]
      BY <1>0a, <1>7, ActsType DEF Exit, DriverAt, NumberInv
    <2> QED
      BY <1>0a, <1>7, <2>1 DEF Exit, NoRun, NumberInv, TypeOK
  <1> QED
    BY <1>2, <1>3, <1>4, <1>5, <1>6, <1>7 DEF Proceed

LEMMA NewDaemonTypes ==
    ASSUME NumberInv,
           Boot \/ (\E back, flags \in SUBSET Members : Restore(back, flags))
           \/ (\E n \in Notes : Note(n)) \/ \E i \in Members : Ends(i) \/ Speaks(i) \/ UserTells(i)
    PROVE  NumberInv'
  <1> USE DEF runVars, drainVars, disk, talkVars, worldVars, history, excuses
  <1>1. CASE Boot
    BY <1>1 DEF Boot, NumberInv, TypeOK
  <1>2. ASSUME NEW back \in SUBSET Members, NEW flags \in SUBSET Members,
               Restore(back, flags)
        PROVE  NumberInv'
    <2>1. generation \in 0..MaxDrains
      BY DEF NumberInv, TypeOK
    <2>2. notes' \subseteq Notes
      <3>1. \A i, byId : NoteFor(i, byId) \subseteq {"restarted", "continue", "handoff"}
        BY DEF NoteFor
      <3>2. notes' # {} => generation \in Generations
        BY <1>2, Counted DEF Restore
      <3> QED
        BY <1>2, <3>1, <3>2 DEF Restore, Notes
    <2>3. /\ named' \subseteq ById /\ spoken' \subseteq Members /\ halted' \subseteq Members
          /\ passedOver' \subseteq Members /\ carriedOn' \subseteq Members
          /\ spared' = {} /\ recorded' = {} /\ conversations' = {} /\ gone' \subseteq Members
          /\ warned' \subseteq Members /\ file' \in Marks /\ daemon' = "serving"
      BY <1>2 DEF Restore, NumberInv, TypeOK, Marks, NoMarks
    <2>4. UNCHANGED <<runVars, drainVars, driver, acts, cancelled>>
      BY <1>2 DEF Restore
    <2>5. generation # 0
      BY <1>2 DEF Restore, NumberInv
    <2> QED
      BY <2>1, <2>2, <2>3, <2>4, <2>5 DEF NumberInv, TypeOK
  <1>3. ASSUME NEW n \in Notes, Note(n) PROVE NumberInv'
    <2>1. n.id \in Members
      BY DEF Notes
    <2>2. UNCHANGED <<daemon, running, generation, driver>> /\ TypeOK'
      <3>1. CASE Deliver(n)
        BY <2>1, <3>1 DEF Deliver, Heard, NumberInv, TypeOK
      <3>2. CASE NoteDropped(n)
        BY <2>1, <3>2 DEF NoteDropped, NumberInv, TypeOK
      <3>3. CASE NoteIsForNobody(n)
        BY <3>3 DEF NoteIsForNobody, NumberInv, TypeOK
      <3> QED
        BY <1>3, <3>1, <3>2, <3>3 DEF Note
    <2> QED
      BY <2>2 DEF NumberInv
  <1>4. ASSUME NEW i \in Members, Ends(i) \/ Speaks(i) \/ UserTells(i) PROVE NumberInv'
    <2>1. UNCHANGED <<daemon, running, generation, driver>>
      BY <1>4 DEF Ends, Speaks, UserTells
    <2>2. CASE Ends(i)
      BY <2>1, <2>2 DEF Ends, NumberInv, TypeOK
    <2>3. CASE UserTells(i)
      BY <2>1, <2>3 DEF UserTells, Heard, NumberInv, TypeOK
    <2>4. CASE Speaks(i)
      BY <2>1, <2>4 DEF Speaks, NumberInv, TypeOK
    <2> QED
      BY <1>4, <2>2, <2>3, <2>4
  <1> QED
    BY <1>1, <1>2, <1>3, <1>4

LEMMA NextTypes == NumberInv /\ [Next]_vars => NumberInv'
  <1> SUFFICES ASSUME NumberInv, Next \/ UNCHANGED vars PROVE NumberInv'
    OBVIOUS
  <1>1. CASE UNCHANGED vars
    BY <1>1 DEF vars, runVars, drainVars, disk, talkVars, worldVars, history, excuses,
                NumberInv, TypeOK
  <1>2. CASE Next
    <2>1. CASE Requests \/ Lapse
      BY <2>1, RequestTypes
    <2>2. ASSUME NEW g \in Generations, Drive(g) PROVE NumberInv'
      BY <2>2, WakeTypes, ProceedTypes DEF Drive
    <2> QED
      BY <1>2, <2>1, <2>2, NewDaemonTypes DEF Next
  <1> QED
    BY <1>1, <1>2

LEMMA InitTypes == Init => NumberInv
  <1> SUFFICES ASSUME Init PROVE NumberInv
    OBVIOUS
  <1>1. driver \in [Generations -> DriverAt] /\ \A g \in Generations : driver[g] = "none"
    BY DEF Init, DriverAt
  <1>2. acts \in [Generations -> Acts] /\ file \in Marks
    BY DEF Init, Acts, NoActs, Marks, NoMarks
  <1>3. generation \in 0..MaxDrains
    BY RestartAssumption DEF Init
  <1> QED
    BY <1>1, <1>2, <1>3 DEF Init, NumberInv, TypeOK

(* Through every drain, restart and failure the daemon's fields keep their  *)
(* types, the bridge and the mesh are told of every run and of nothing but  *)
(* a run, and only a run is in its last step.                               *)
THEOREM RestartTypes == Spec => []TypeOK
  <1>1. NumberInv => TypeOK
    BY DEF NumberInv
  <1> QED
    BY <1>1, InitTypes, NextTypes, PTL DEF Spec

-----------------------------------------------------------------------------
(* The last step.                                                           *)

Lasts(g) ==
    \/ driver[g] \in {"persist", "swap", "linger"}
    \/ driver[g] = "act" /\ acts[g].finish

(* A thread in the last step of its drain is the thread of the run, which   *)
(* knows that it is in its last step; and a run that is there has not been  *)
(* cancelled.                                                               *)
LastInv ==
    /\ NumberInv
    /\ \A g \in Generations : Lasts(g) => RunIs(g) /\ finishing
    /\ running => daemon = "serving" /\ generation \notin cancelled
    /\ \A g \in cancelled : g <= generation

LEMMA StartLast ==
    ASSUME LastInv, NEW i \in Initiators, Start(i) PROVE LastInv'
  <1>1. NumberInv'
    BY RequestTypes DEF Requests, LastInv
  <1>2. generation \in Nat /\ generation' = generation + 1
        /\ generation' \in Generations /\ cancelled' = cancelled
    BY RestartAssumption DEF Start, LastInv, NumberInv, TypeOK, history
  <1>3. \A g \in Generations : ~Lasts(g)'
    <2>1. \A g \in Generations : ~Lasts(g)
      BY DEF LastInv, Start, RunIs
    <2> QED
      BY <1>2, <2>1 DEF Start, Lasts, Move, LastInv, NumberInv, TypeOK
  <1>4. cancelled \subseteq Generations
    BY DEF LastInv, NumberInv, TypeOK
  <1>5. generation' \notin cancelled' /\ \A g \in cancelled' : g <= generation'
    BY <1>2, <1>4 DEF LastInv
  <1> QED
    BY <1>1, <1>3, <1>5 DEF LastInv, Start

LEMMA CancelLast == ASSUME LastInv, Cancel PROVE LastInv'
  <1>1. NumberInv'
    BY RequestTypes DEF Requests, LastInv
  <1>2. \A g \in Generations : ~Lasts(g)'
    BY DEF Cancel, MayCancel, LastInv, Lasts
  <1>3. generation \in Nat /\ generation' = generation /\ ~running'
    BY DEF Cancel, EndRun, NoRun, LastInv, NumberInv, TypeOK
  <1> QED
    BY <1>1, <1>2, <1>3 DEF LastInv, Cancel

(* Taking one session off a list of things to type leaves the decision to     *)
(* finish as it was.                                                          *)
LEMMA TypingKeepsFinish ==
    ASSUME acts \in [Generations -> Acts], NEW g \in Generations, NEW i \in Members,
           \/ acts' = [acts EXCEPT ![g].asks = @ \ {i}]
           \/ acts' = [acts EXCEPT ![g].nudges = @ \ {i}]
    PROVE  \A h \in Generations : acts'[h].finish = acts[h].finish
  <1>1. ASSUME NEW h \in Generations PROVE acts[h] \in Acts
    OBVIOUS
  <1>2. CASE acts' = [acts EXCEPT ![g].asks = @ \ {i}]
    <2>1. acts' = [acts EXCEPT ![g] = [acts[g] EXCEPT !.asks = @ \ {i}]]
      BY <1>2
    <2>2. [acts[g] EXCEPT !.asks = @ \ {i}].finish = acts[g].finish
      BY <1>1 DEF Acts
    <2> QED
      BY <2>1, <2>2
  <1>3. CASE acts' = [acts EXCEPT ![g].nudges = @ \ {i}]
    <2>1. acts' = [acts EXCEPT ![g] = [acts[g] EXCEPT !.nudges = @ \ {i}]]
      BY <1>3
    <2>2. [acts[g] EXCEPT !.nudges = @ \ {i}].finish = acts[g].finish
      BY <1>1 DEF Acts
    <2> QED
      BY <2>1, <2>2
  <1> QED
    BY <1>2, <1>3

LEMMA DriveLast ==
    ASSUME LastInv, NEW g \in Generations, Drive(g) PROVE LastInv'
  <1> USE DEF runVars, drainVars, disk, talkVars, worldVars, history, excuses
  <1>1. NumberInv'
    BY WakeTypes, ProceedTypes DEF Drive, LastInv
  <1>2. generation' = generation /\ cancelled' = cancelled
    BY DEF Drive, Wake, Proceed, Spawn, WakeGone, WakeLapsed, TypeFor, ActsDone, Abandon,
           Persist, SwapFails, Swap, Exit, EndRun, NoRun
  <1>20. driver \in [Generations -> DriverAt] /\ acts \in [Generations -> Acts]
    BY DEF LastInv, NumberInv, TypeOK
  <1>3. ASSUME UNCHANGED <<running, finishing, daemon>>,
               \A h \in Generations : Lasts(h)' => Lasts(h)
        PROVE  LastInv'
    BY <1>1, <1>2, <1>3 DEF LastInv, RunIs
  <1>4. CASE Spawn(g) \/ WakeGone(g) \/ WakeLapsed(g) \/ ActsDone(g) \/ SwapFails(g)
             \/ Persist(g) \/ Swap(g) \/ \E i \in Members : TypeFor(g, i)
    <2>1. UNCHANGED <<running, finishing, daemon>>
      BY <1>4 DEF Spawn, WakeGone, WakeLapsed, TypeFor, ActsDone, Persist, SwapFails, Swap
    <2>2. CASE \E i \in Members : TypeFor(g, i)
      <3>1. driver' = driver /\ \A h \in Generations : acts'[h].finish = acts[h].finish
        <4>1. PICK i \in Members : TypeFor(g, i)
          BY <2>2
        <4>2. \/ acts' = [acts EXCEPT ![g].asks = @ \ {i}]
              \/ acts' = [acts EXCEPT ![g].nudges = @ \ {i}]
          BY <4>1 DEF TypeFor
        <4>3. driver' = driver
          BY <4>1 DEF TypeFor
        <4> QED
          BY <1>20, <4>2, <4>3, TypingKeepsFinish
      <3> QED
        BY <1>3, <2>1, <3>1 DEF Lasts
    <2>3. CASE Persist(g)
      <3>1. \A h \in Generations : Lasts(h)' => Lasts(h)
        BY <1>20, <2>3 DEF Persist, Move, Lasts
      <3> QED
        BY <1>3, <2>1, <3>1
    <2>4. CASE Spawn(g) \/ WakeGone(g) \/ WakeLapsed(g) \/ ActsDone(g) \/ SwapFails(g)
               \/ Swap(g)
      <3>1. \A h \in Generations : Lasts(h)' => Lasts(h)
        BY <1>20, <2>4 DEF Spawn, WakeGone, WakeLapsed, ActsDone, SwapFails, Swap, Move, Lasts
      <3> QED
        BY <1>3, <2>1, <3>1
    <2> QED
      BY <1>4, <2>2, <2>3, <2>4
  <1>5. CASE Abandon(g)
    <2>1. \A h \in Generations : Lasts(h)' => Lasts(h)
      BY <1>20, <1>5 DEF Abandon, Move, Lasts
    <2>2. CASE EndsOwn(g)
      <3>1. ~Lasts(g)
        BY <1>5 DEF Abandon, Lasts
      <3>2. \A h \in Generations : ~Lasts(h)
        BY <2>2, <3>1 DEF LastInv, EndsOwn, RunIs
      <3>3. ~running'
        BY <1>5, <2>2 DEF Abandon, EndRun, NoRun
      <3> QED
        BY <1>1, <1>2, <2>1, <3>2, <3>3 DEF LastInv
    <2>3. CASE ~EndsOwn(g)
      BY <1>3, <1>5, <2>1, <2>3 DEF Abandon
    <2> QED
      BY <2>2, <2>3
  <1>6. CASE Exit(g)
    BY <1>1, <1>2, <1>20, <1>6 DEF Exit, NoRun, Lasts, NoActs, LastInv
  <1>7. CASE Wake(g)
    <2>1. RunIs(g) /\ RunIs(g)' /\ daemon' = daemon /\ running' = running
          /\ driver[g] = "sleep"
      BY <1>7 DEF Wake, RunIs
    <2>2. \A h \in Generations : h # g => ~Lasts(h) /\ ~Lasts(h)'
      <3>1. \A h \in Generations : h # g => ~Lasts(h)
        BY <2>1 DEF LastInv, RunIs
      <3>2. \A h \in Generations : h # g => driver'[h] = driver[h] /\ acts'[h] = acts[h]
        BY <1>20, <1>7 DEF Wake, Move
      <3> QED
        BY <3>1, <3>2 DEF Lasts
    <2>3. over' => finishing'
      BY <1>7 DEF Wake
    <2>4. \A h \in Generations : Lasts(h)' => RunIs(h)' /\ finishing'
      <3>1. driver'[g] = "act"
        BY <1>20, <1>7 DEF Wake, Move
      <3>2. acts'[g].finish = over'
        <4>1. \E m : acts' = [acts EXCEPT ![g] =
                     [asks |-> asking', nudges |-> nudging', finish |-> over', marks |-> m]]
          BY <1>7 DEF Wake
        <4> QED
          BY <1>20, <4>1
      <3> QED
        BY <2>1, <2>2, <2>3, <3>1, <3>2 DEF Lasts
    <2> QED
      BY <1>1, <1>2, <2>1, <2>4 DEF LastInv
  <1> QED
    BY <1>4, <1>5, <1>6, <1>7 DEF Drive, Proceed

LEMMA OthersLast ==
    ASSUME LastInv,
           Poll \/ Lapse \/ Boot \/ (\E back, flags \in SUBSET Members : Restore(back, flags))
           \/ (\E n \in Notes : Note(n)) \/ \E i \in Members : Ends(i) \/ Speaks(i) \/ UserTells(i)
    PROVE  LastInv'
  <1> USE DEF runVars, drainVars, disk, talkVars, worldVars, history, excuses
  <1>1. NumberInv'
    BY RequestTypes, NewDaemonTypes DEF Requests, LastInv
  <1>2. UNCHANGED <<running, generation, finishing, driver, acts, cancelled>>
        /\ (daemon' = daemon \/ ~running)
    BY DEF Poll, Lapse, Boot, Restore, Note, Deliver, NoteDropped, NoteIsForNobody,
           Ends, Speaks, UserTells, LastInv
  <1> QED
    BY <1>1, <1>2 DEF LastInv, Lasts, RunIs

LEMMA LastIsInvariant == LastInv /\ [Next]_vars => LastInv'
  <1> SUFFICES ASSUME LastInv, Next \/ UNCHANGED vars PROVE LastInv'
    OBVIOUS
  <1>1. CASE UNCHANGED vars
    <2>1. NumberInv'
      BY <1>1, NextTypes DEF LastInv
    <2> QED
      BY <1>1, <2>1 DEF vars, runVars, history, LastInv, Lasts, RunIs
  <1>2. CASE Next
    BY <1>2, StartLast, CancelLast, DriveLast, OthersLast DEF Next, Requests
  <1> QED
    BY <1>1, <1>2

(* A drain whose cancelling has been confirmed to the CLI never gets to the *)
(* last write: the daemon goes on.                                          *)
THEOREM CancelIsFinal == Spec => []CancelledNeverRestarts
  <1>1. Init => LastInv
    <2> SUFFICES ASSUME Init PROVE LastInv
      OBVIOUS
    <2> QED
      BY InitTypes DEF Init, LastInv, Lasts
  <1>2. LastInv => CancelledNeverRestarts
    BY DEF LastInv, CancelledNeverRestarts, Lasts, RunIs, NumberInv, TypeOK
  <1> QED
    BY <1>1, <1>2, LastIsInvariant, PTL DEF Spec

-----------------------------------------------------------------------------
(* Threads that come late.                                                  *)

Minds(g) ==
    (driver'[g] # driver[g] \/ acts'[g] # acts[g])
      /\ daemon' = daemon /\ running /\ generation # g /\ driver[g] # "none"
        => UNCHANGED <<running, generation, told, draining, notes>>

LEMMA OwnStepMinds ==
    ASSUME LastInv, NEW g \in Generations, Drive(g) PROVE Minds(g)
  <1> USE DEF runVars, drainVars, disk, talkVars, worldVars, history, excuses
  <1> SUFFICES ASSUME daemon' = daemon, ~RunIs(g), running
               PROVE  UNCHANGED <<running, generation, told, draining, notes>>
    BY DEF Minds, RunIs
  <1>1. ~Wake(g) /\ ~WakeLapsed(g)
    BY DEF Wake, WakeLapsed
  <1>2. ~Exit(g)
    BY DEF Exit, LastInv
  <1>3. CASE \E i \in Members : TypeFor(g, i)
    BY <1>3 DEF TypeFor, MayType
  <1>4. CASE Abandon(g)
    BY <1>4 DEF Abandon, EndsOwn
  <1>5. CASE Spawn(g) \/ WakeGone(g) \/ ActsDone(g) \/ Persist(g) \/ SwapFails(g) \/ Swap(g)
    BY <1>5 DEF Spawn, WakeGone, ActsDone, Persist, SwapFails, Swap
  <1> QED
    BY <1>1, <1>2, <1>3, <1>4, <1>5 DEF Drive, Proceed

LEMMA OtherStepMinds ==
    ASSUME LastInv, NEW g \in Generations, NEW h \in Generations, g # h, Drive(h)
    PROVE  Minds(g)
  <1> USE DEF runVars, drainVars, disk, talkVars, worldVars, history, excuses
  <1>1. CASE Exit(h)
    BY <1>1 DEF Exit, LastInv, Minds
  <1>2. CASE ~Exit(h)
    <2>1. driver'[g] = driver[g]
      BY <1>2 DEF Drive, Wake, Proceed, Spawn, WakeGone, WakeLapsed, TypeFor, ActsDone, Abandon,
             Persist, SwapFails, Swap, Move, LastInv, NumberInv, TypeOK
    <2>2. acts'[g] = acts[g]
      <3>1. \/ acts' = acts
            \/ \E a : acts' = [acts EXCEPT ![h] = a]
        <4>1. CASE Wake(h)
          BY <4>1 DEF Wake
        <4>2. CASE \E i \in Members : TypeFor(h, i)
          BY <4>2 DEF TypeFor
        <4>3. CASE Persist(h)
          BY <4>3 DEF Persist
        <4> QED
          BY <1>2, <4>1, <4>2, <4>3
             DEF Drive, Proceed, Spawn, WakeGone, WakeLapsed, ActsDone, Abandon, SwapFails, Swap
      <3> QED
        BY <3>1 DEF LastInv, NumberInv, TypeOK
    <2> QED
      BY <2>1, <2>2 DEF Minds
  <1> QED
    BY <1>1, <1>2

(* A drain thread that wakes up, types, gives up or ends after its drain is *)
(* over does nothing to the drain that runs now.                            *)
THEOREM LateThreadsAreHarmless == Spec => DriversMindTheirRun
  <1>1. Init => LastInv
    <2> SUFFICES ASSUME Init PROVE LastInv
      OBVIOUS
    <2> QED
      BY InitTypes DEF Init, LastInv, Lasts
  <1>2. LastInv /\ [Next]_vars => [\A g \in Generations : Minds(g)]_vars
    <2> SUFFICES ASSUME LastInv, Next, NEW g \in Generations PROVE Minds(g)
      OBVIOUS
    <2>1. ASSUME NEW i \in Initiators, Start(i) PROVE Minds(g)
      BY <2>1 DEF Start, Minds
    <2>2. CASE Poll \/ Cancel \/ Lapse
      BY <2>2 DEF Poll, Cancel, Lapse, Minds
    <2>3. ASSUME NEW h \in Generations, Drive(h) PROVE Minds(g)
      BY <2>3, OwnStepMinds, OtherStepMinds
    <2>4. CASE Boot
      BY <2>4 DEF Boot, Minds
    <2>5. ASSUME NEW back \in SUBSET Members, NEW flags \in SUBSET Members,
                 Restore(back, flags)
          PROVE  Minds(g)
      BY <2>5 DEF Restore, Minds
    <2>6. ASSUME NEW n \in Notes, Note(n) PROVE Minds(g)
      BY <2>6 DEF Note, Deliver, NoteDropped, NoteIsForNobody, Minds
    <2>7. ASSUME NEW i \in Members, Ends(i) \/ Speaks(i) \/ UserTells(i) PROVE Minds(g)
      BY <2>7 DEF Ends, Speaks, UserTells, Minds
    <2> QED
      BY <2>1, <2>2, <2>3, <2>4, <2>5, <2>6, <2>7 DEF Next, Requests
  <1>3. LastInv /\ [Next]_vars =>
          [\A g \in Generations :
             (driver'[g] # driver[g] \/ acts'[g] # acts[g])
               /\ daemon' = daemon /\ running /\ generation # g /\ driver[g] # "none"
                 => UNCHANGED <<running, generation, told, draining, notes>>]_vars
    BY <1>2 DEF Minds
  <1> QED
    BY <1>1, <1>3, LastIsInvariant, PTL DEF Spec, DriversMindTheirRun

-----------------------------------------------------------------------------
(* Promises to those who were told to stop.                                 *)

LEMMA EndRunRemembers ==
    ASSUME ToldAreRemembered, running, EndRun,
           UNCHANGED <<daemon, gone, halted, warned, excuses>>
    PROVE  ToldAreRemembered'
  <1> SUFFICES ASSUME daemon = "serving",
                      NEW i \in halted \ (gone \cup passedOver \cup carriedOn)
               PROVE  Remembered(i)'
    BY DEF ToldAreRemembered, excuses
  <1>1. Remembered(i)
    BY DEF ToldAreRemembered
  <1>2. CASE i \in told
    <2> DEFINE n == [id |-> i, kind |-> "cancel", of |-> generation]
    <2>1. n \in notes'
      BY <1>2 DEF EndRun, CalledOff
    <2>2. n.id = i
      OBVIOUS
    <2> QED
      BY <2>1, <2>2 DEF Remembered
  <1>3. CASE i \notin told
    BY <1>1, <1>3 DEF Remembered, EndRun
  <1> QED
    BY <1>2, <1>3

LEMMA RestoreRemembers ==
    ASSUME NEW back \in SUBSET Members, NEW flags \in SUBSET Members, Restore(back, flags)
    PROVE  ToldAreRemembered'
  <1> DEFINE byId == back \cap conversations
             continued == back \cap flags \cap Continues
  <1> SUFFICES ASSUME NEW i \in halted', i \notin passedOver', i \notin carriedOn'
               PROVE  Remembered(i)'
    BY DEF ToldAreRemembered
  <1>1. i \in byId \/ i \in continued
    BY DEF Restore
  <1>2. i \in file.interrupted \cup file.handoffs
    BY DEF Restore
  <1>3. i \in continued => i \in file.handoffs
    BY DEF Restore
  <1>4. PICK k \in NoteFor(i, i \in byId) : TRUE
    BY <1>1, <1>2, <1>3 DEF NoteFor
  <1> DEFINE n == [id |-> i, kind |-> k, of |-> generation]
  <1>5. n \in notes'
    BY <1>1, <1>4 DEF Restore
  <1>6. n.id = i
    OBVIOUS
  <1> QED
    BY <1>5, <1>6 DEF Remembered

LEMMA DriveRemembers ==
    ASSUME ToldAreRemembered, NEW g \in Generations, Drive(g)
    PROVE  ToldAreRemembered'
  <1> USE DEF runVars, drainVars, disk, talkVars, worldVars, history, excuses
  <1>1. CASE Exit(g)
    BY <1>1 DEF Exit, ToldAreRemembered
  <1>2. CASE Abandon(g)
    <2>1. CASE EndsOwn(g)
      BY <1>2, <2>1, EndRunRemembers DEF Abandon, EndsOwn, RunIs
    <2>2. CASE ~EndsOwn(g)
      BY <1>2, <2>2 DEF Abandon, ToldAreRemembered, Remembered
    <2> QED
      BY <2>1, <2>2
  <1>3. ASSUME NEW i \in Members, TypeFor(g, i) PROVE ToldAreRemembered'
    BY <1>3 DEF TypeFor, Heard, MayType, RunIs, ToldAreRemembered, Remembered
  <1>4. CASE Wake(g) \/ Spawn(g) \/ WakeGone(g) \/ WakeLapsed(g) \/ ActsDone(g)
             \/ Persist(g) \/ SwapFails(g) \/ Swap(g)
    <2>1. UNCHANGED <<daemon, running, told, notes, gone, halted, warned, excuses>>
      BY <1>4 DEF Wake, Spawn, WakeGone, WakeLapsed, ActsDone, Persist, SwapFails, Swap
    <2> QED
      BY <2>1 DEF ToldAreRemembered, Remembered
  <1> QED
    BY <1>1, <1>2, <1>3, <1>4 DEF Drive, Proceed

(* Whoever has been told to stop is told to carry on, or is still known to  *)
(* wait for it, or the user is told; except whom a restart took for done,   *)
(* and whom it brought back by --continue without a handoff.                *)
THEOREM NobodyToldIsForgotten == Spec => []ToldAreRemembered
  <1> USE DEF runVars, drainVars, disk, talkVars, worldVars, history, excuses
  <1>1. Init => ToldAreRemembered
    BY DEF Init, ToldAreRemembered
  <1>2. ToldAreRemembered /\ [Next]_vars => ToldAreRemembered'
    <2> SUFFICES ASSUME ToldAreRemembered, Next \/ UNCHANGED vars
                 PROVE  ToldAreRemembered'
      OBVIOUS
    <2>1. ASSUME NEW i \in Initiators, Start(i) PROVE ToldAreRemembered'
      BY <2>1 DEF Start, ToldAreRemembered, Remembered
    <2>2. CASE Poll \/ Lapse \/ UNCHANGED vars
      BY <2>2 DEF Poll, Lapse, vars, ToldAreRemembered, Remembered
    <2>3. CASE Cancel
      BY <2>3, EndRunRemembers DEF Cancel, MayCancel
    <2>4. CASE Boot
      BY <2>4 DEF Boot, ToldAreRemembered
    <2>5. ASSUME NEW n \in Notes, Note(n) PROVE ToldAreRemembered'
      BY <2>5 DEF Note, Deliver, Heard, NoteDropped, NoteIsForNobody, ToldAreRemembered,
                  Remembered
    <2>6. ASSUME NEW i \in Members, Ends(i) \/ Speaks(i) \/ UserTells(i) PROVE ToldAreRemembered'
      BY <2>6 DEF Ends, Speaks, UserTells, Heard, ToldAreRemembered, Remembered
    <2> QED
      BY <2>1, <2>2, <2>3, <2>4, <2>5, <2>6, DriveRemembers, RestoreRemembers
         DEF Next, Requests
  <1> QED
    BY <1>1, <1>2, PTL DEF Spec
=============================================================================
