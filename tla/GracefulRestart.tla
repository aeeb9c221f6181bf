--------------------------- MODULE GracefulRestart --------------------------
(***************************************************************************)
(* A graceful restart as a whole (DrainCtl in src/src/daemon.rs): requests *)
(* to begin, follow and cancel a drain, the thread that carries a drain    *)
(* out and types into the sessions, the last write and the swap, the exit  *)
(* of the old daemon, and the notes the new one (or the old one, when the  *)
(* restart is called off) types into the sessions (resume_notes.rs).       *)
(*                                                                         *)
(* What a drain decides is taken from DrainPromise, which the state        *)
(* machine of the code is shown to keep (Drain).  Everything done with the *)
(* mutex of `run` held is one step; drains are counted by generation, and  *)
(* the model goes on counting in the next daemon.                          *)
(***************************************************************************)
EXTENDS Integers

CONSTANTS
    Members, Agents,
    ById,         \* their profile resumes a conversation by its id
    Continues,    \* their profile can pick up the last one of a directory
    Place,        \* the directory and the profile of a session
    MaxDrains     \* bound of the model on the number of drains begun

ASSUME RestartAssumption ==
    /\ Agents \subseteq Members
    /\ ById \subseteq Agents /\ Continues \subseteq Agents
    /\ \A i, j \in Members : Place[i] = Place[j] =>
          (i \in ById <=> j \in ById) /\ (i \in Continues <=> j \in Continues)
    /\ MaxDrains \in Nat \ {0}

Generations == 1..MaxDrains

VARIABLES
    daemon,       \* serving, down, or restoring the recorded sessions
    running,      \* is there a DrainRun
    generation,   \* counts the drains; the run's own, when there is one
    finishing, done, told,     \* fields of the DrainRun
    lapsed,       \* the last poll is longer ago than the lease
    draining,     \* what the phone bridge and the mesh look at
    initiator, resumable, open, interrupted, handoffs, asking, nudging,
    over,         \* the Drain inside
    driver,       \* where the drain thread of each generation is
    acts,         \* what it has still to carry out
    file,         \* the marks in the list of sessions
    recorded,     \* the sessions in that list, once it is final
    conversations,    \* those of them recorded with the id of a conversation
    named,        \* sessions whose conversation has an id
    spoken,       \* sessions in which an Enter was pressed (submitted)
    notes,        \* notes on their way to sessions
    gone,         \* sessions that have ended
    halted,       \* told to stop and not yet told to carry on
    warned,       \* the user has been told that a note did not arrive
    cancelled,    \* history: drains whose cancelling was confirmed
    spared,       \* history: who, for the drain that restarted, lost nothing by it
    passedOver,   \* history: the drain that restarted took it for done
    carriedOn     \* history: brought back by --continue, had no handoff to write

runVars == <<running, generation, finishing, done, told, lapsed, draining>>
disk == <<file, recorded, conversations>>
talkVars == <<named, spoken>>
drainVars == <<initiator, resumable, open, interrupted, handoffs, asking,
               nudging, over>>
worldVars == <<notes, gone, halted, warned>>
excuses == <<passedOver, carriedOn>>
history == <<cancelled, spared, excuses>>
vars == <<daemon, runVars, drainVars, driver, acts, disk, talkVars, worldVars,
          history>>

P == INSTANCE DrainPromise

Marks == [interrupted : SUBSET Members, handoffs : SUBSET Members,
          initiator : SUBSET Members]
NoMarks == [interrupted |-> {}, handoffs |-> {}, initiator |-> {}]

Acts == [asks : SUBSET Members, nudges : SUBSET Members, finish : BOOLEAN,
         marks : Marks]
NoActs == [asks |-> {}, nudges |-> {}, finish |-> FALSE, marks |-> NoMarks]

Notes == [id : Members, kind : {"cancel", "continue", "handoff", "restarted"},
          of : Generations]

DriverAt == {"none", "spawn", "sleep", "abandon", "act", "persist", "swap",
             "linger", "gone"}

(* Types; and what the bridge and the mesh look at says what the run says,  *)
(* and only a run can be in its last step.                                  *)
TypeOK ==
    /\ draining = running
    /\ (finishing \/ done) => running
    /\ daemon \in {"serving", "down", "restoring"}
    /\ running \in BOOLEAN /\ generation \in 0..MaxDrains
    /\ finishing \in BOOLEAN /\ done \in BOOLEAN /\ told \subseteq Members
    /\ lapsed \in BOOLEAN /\ draining \in BOOLEAN
    /\ initiator \subseteq Members /\ resumable \subseteq Members
    /\ open \subseteq Members
    /\ interrupted \subseteq Members /\ handoffs \subseteq Members
    /\ asking \subseteq Members /\ nudging \subseteq Members
    /\ over \in BOOLEAN
    /\ driver \in [Generations -> DriverAt]
    /\ acts \in [Generations -> Acts]
    /\ file \in Marks /\ recorded \subseteq Members
    /\ conversations \subseteq recorded
    /\ named \subseteq ById /\ spoken \subseteq Members
    /\ notes \subseteq Notes
    /\ gone \subseteq Members /\ halted \subseteq Members
    /\ warned \subseteq Members
    /\ cancelled \subseteq Generations
    /\ spared \subseteq Members
    /\ passedOver \subseteq Members /\ carriedOn \subseteq Members

(* create_inner gives every new session of a profile that resumes by id an  *)
(* id, and continues at most one session of a place without.                *)
Init ==
    /\ named \in SUBSET ById
    /\ \A i, j \in ById \ named : Place[i] = Place[j] => i = j
    /\ spoken \in SUBSET Members
    /\ daemon = "serving"
    /\ running = FALSE /\ generation = 0
    /\ finishing = FALSE /\ done = FALSE /\ told = {}
    /\ lapsed = FALSE /\ draining = FALSE
    /\ initiator = {} /\ resumable = {} /\ open = {} /\ interrupted = {}
    /\ handoffs = {}
    /\ asking = {} /\ nudging = {} /\ over = FALSE
    /\ driver = [g \in Generations |-> "none"]
    /\ acts = [g \in Generations |-> NoActs]
    /\ file = NoMarks /\ recorded = {} /\ conversations = {}
    /\ notes = {} /\ gone = {} /\ halted = {} /\ warned = {}
    /\ cancelled = {} /\ spared = {} /\ passedOver = {} /\ carriedOn = {}

RunIs(g) == running /\ generation = g
Move(g, l) == driver' = [driver EXCEPT ![g] = l]

-----------------------------------------------------------------------------
(* Requests of the CLI.                                                     *)

(* drain_resumable: it loses nothing by a restart, and so need not write a  *)
(* handoff.  Without an id it is picked up where its directory was left,    *)
(* unless a session beside it has the name of its conversation to go by.    *)
DrainResumable(i) ==
    \/ i \notin spoken
    \/ /\ i \in ById
       /\ \/ i \in named
          \/ \A j \in (named \cap spoken) \ (gone \cup {i}) : Place[j] # Place[i]

(* start: refused while a drain runs or sessions are still being restored.  *)
Start(i) ==
    /\ daemon = "serving" /\ ~running
    /\ generation < MaxDrains
    /\ generation' = generation + 1
    /\ running' = TRUE /\ finishing' = FALSE /\ done' = FALSE /\ told' = {}
    /\ lapsed' = FALSE /\ draining' = TRUE
    /\ resumable' = {m \in Members : DrainResumable(m)}
    /\ initiator' = i /\ open' = Agents \ i /\ interrupted' = i
    /\ handoffs' = {} /\ asking' = {} /\ nudging' = {} /\ over' = FALSE
    /\ Move(generation', "spawn")
    /\ UNCHANGED <<daemon, acts, disk, talkVars, worldVars, history>>

(* The thread starts, or it does not and the run is abandoned.              *)
Spawn(g) ==
    /\ driver[g] = "spawn"
    /\ \/ Move(g, "sleep") \/ Move(g, "abandon")
    /\ UNCHANGED <<daemon, runVars, drainVars, acts, disk, talkVars, worldVars, history>>

(* status, when it renews the lease; otherwise it only reads.               *)
Poll ==
    /\ daemon = "serving" /\ running
    /\ lapsed' = FALSE
    /\ UNCHANGED <<daemon, running, generation, finishing, done, told, draining,
                   drainVars, driver, acts, disk, talkVars, worldVars, history>>

(* Time passes and nobody renews the lease.                                 *)
Lapse ==
    /\ running /\ ~lapsed
    /\ lapsed' = TRUE
    /\ UNCHANGED <<daemon, running, generation, finishing, done, told,
                   draining, drainVars, driver, acts, disk, talkVars, worldVars, history>>

(* tell_called_off: one note for each session this run has typed into.      *)
CalledOff == {[id |-> i, kind |-> "cancel", of |-> generation] : i \in told}

(* The DrainRun is dropped, with everything in it.                          *)
NoRun ==
    /\ running' = FALSE /\ draining' = FALSE
    /\ finishing' = FALSE /\ done' = FALSE /\ told' = {} /\ lapsed' = FALSE
    /\ initiator' = {} /\ resumable' = {} /\ open' = {} /\ interrupted' = {}
    /\ handoffs' = {} /\ asking' = {} /\ nudging' = {} /\ over' = FALSE
    /\ UNCHANGED generation

EndRun == NoRun /\ notes' = notes \cup CalledOff

(* Mutated form of MayCancel: the last write is not looked at.              *)
MayAlwaysCancel == running

MayCancel == running /\ ~finishing

(* cancel                                                                   *)
Cancel ==
    /\ daemon = "serving" /\ MayCancel
    /\ EndRun
    /\ cancelled' = cancelled \cup {generation}
    /\ UNCHANGED <<daemon, driver, acts, disk, talkVars, gone, halted, warned,
                   spared, excuses>>

-----------------------------------------------------------------------------
(* drive: the thread of drain g.                                            *)

(* Mutated form of MayType: any run will do.                                *)
MayTypeForAny(g) == running

(* type_for_run and drive look for their own run.                           *)
MayType(g) == RunIs(g)

(* Mutated form of LeaseOver: nobody looks at the lease.                    *)
LeaseNeverOver == FALSE

LeaseOver == initiator = {} /\ lapsed

WakeGone(g) ==
    /\ driver[g] = "sleep" /\ ~RunIs(g)
    /\ Move(g, "gone")
    /\ UNCHANGED <<daemon, runVars, drainVars, acts, disk, talkVars, worldVars, history>>

WakeLapsed(g) ==
    /\ driver[g] = "sleep" /\ RunIs(g) /\ LeaseOver
    /\ Move(g, "abandon")
    /\ UNCHANGED <<daemon, runVars, drainVars, acts, disk, talkVars, worldVars, history>>

Wake(g) ==
    /\ driver[g] = "sleep" /\ RunIs(g) /\ ~LeaseOver
    /\ open' \in SUBSET open
    /\ asking' \in SUBSET (open' \ (handoffs \cup resumable))
    /\ handoffs' = handoffs \cup asking'
    /\ \E marked \in SUBSET open : interrupted' = interrupted \cup marked
    /\ nudging' \in SUBSET (open' \ handoffs')
    /\ over' \in BOOLEAN
    /\ initiator' = initiator
    /\ P!Round
    /\ finishing' = over'
    /\ acts' = [acts EXCEPT ![g] =
                   [asks |-> asking', nudges |-> nudging', finish |-> over',
                    marks |-> IF over' THEN [interrupted |-> interrupted',
                                             handoffs |-> handoffs',
                                             initiator |-> initiator]
                              ELSE NoMarks]]
    /\ Move(g, "act")
    /\ UNCHANGED <<daemon, running, generation, done, told, lapsed,
                   draining, disk, talkVars, worldVars, history>>

(* What a session has been told anew, it has no excuse not to hear the end  *)
(* of.                                                                      *)
Heard(i) == /\ passedOver' = passedOver \ {i}
            /\ carriedOn' = carriedOn \ {i}

(* type_for_run: the words do not go in, or go in, and the run remembers    *)
(* the session as told; without the Enter the session does not know of it.  *)
TypeFor(g, i) ==
    /\ driver[g] = "act"
    /\ \/ i \in acts[g].asks
          /\ acts' = [acts EXCEPT ![g].asks = @ \ {i}]
       \/ i \in acts[g].nudges /\ acts[g].asks = {}
          /\ acts' = [acts EXCEPT ![g].nudges = @ \ {i}]
    /\ \/ /\ MayType(g) /\ i \notin gone
          /\ told' = told \cup {i} /\ halted' \in {halted, halted \cup {i}}
          /\ spoken' = spoken \cup {i}
          /\ Heard(i)
       \/ UNCHANGED <<told, halted, spoken, excuses>>
    /\ UNCHANGED <<daemon, running, generation, finishing, done, lapsed, draining,
                   drainVars, driver, disk, named, notes, gone, warned,
                   cancelled, spared>>

ActsDone(g) ==
    /\ driver[g] = "act" /\ acts[g].asks = {} /\ acts[g].nudges = {}
    /\ Move(g, IF acts[g].finish THEN "persist" ELSE "sleep")
    /\ UNCHANGED <<daemon, runVars, drainVars, acts, disk, talkVars, worldVars, history>>

(* Mutated form of EndsOwn: whatever runs is ended.                         *)
EndsAny(g) == running
EndsOwn(g) == RunIs(g)

(* abandon: the run is ended if it is still this one.                       *)
Abandon(g) ==
    /\ driver[g] = "abandon"
    /\ IF EndsOwn(g) THEN EndRun ELSE UNCHANGED <<runVars, drainVars, notes>>
    /\ Move(g, "gone")
    /\ UNCHANGED <<daemon, acts, disk, talkVars, gone, halted, warned, history>>

(* finish: the last write, which freezes the list of sessions; a            *)
(* conversation in which nothing was said is not worth recording.           *)
Persist(g) ==
    /\ driver[g] = "persist"
    /\ file' = acts[g].marks
    /\ recorded' = Members \ gone
    /\ conversations' = recorded' \cap named \cap spoken
    /\ spared' = resumable
    /\ acts' = [acts EXCEPT ![g] = NoActs]
    /\ Move(g, "swap")
    /\ UNCHANGED <<daemon, runVars, drainVars, talkVars, worldVars, cancelled,
                   excuses>>

(* Mutated form of SwapFails: the run is left as it is.                     *)
SwapFailsSilently(g) ==
    /\ driver[g] = "swap"
    /\ Move(g, "gone")
    /\ UNCHANGED <<daemon, runVars, drainVars, acts, disk, talkVars, worldVars, history>>

(* ... and the process that is to replace the daemon, started or not.       *)
SwapFails(g) ==
    /\ driver[g] = "swap"
    /\ Move(g, "abandon")
    /\ UNCHANGED <<daemon, runVars, drainVars, acts, disk, talkVars, worldVars, history>>

Swap(g) ==
    /\ driver[g] = "swap"
    /\ done' = (done \/ running)
    /\ Move(g, "linger")
    /\ UNCHANGED <<daemon, running, generation, finishing, told, lapsed,
                   draining, drainVars, acts, disk, talkVars, worldVars, history>>

(* The CLI has heard of it, or two seconds have passed: the sessions are    *)
(* killed and the daemon is gone with all its threads and notes.            *)
Exit(g) ==
    /\ driver[g] = "linger"
    /\ daemon' = "down"
    /\ NoRun
    /\ driver' = [h \in Generations |->
                     IF driver[h] = "none" THEN "none" ELSE "gone"]
    /\ acts' = [h \in Generations |-> NoActs]
    /\ notes' = {}
    /\ UNCHANGED <<disk, talkVars, gone, halted, warned, history>>

-----------------------------------------------------------------------------
(* The new daemon.                                                          *)

Boot ==
    /\ daemon = "down"
    /\ daemon' = "restoring"
    /\ UNCHANGED <<runVars, drainVars, driver, acts, disk, talkVars, worldVars, history>>

(* Mutated form of NoteFor: who is marked as interrupted and is not resumed *)
(* by id is told nothing, though it was asked for a handoff.                *)
NoteInterruptedFirst(i, byId) ==
    IF i \in file.initiator /\ byId THEN {"restarted"}
    ELSE IF i \in file.interrupted THEN (IF byId THEN {"continue"} ELSE {})
    ELSE IF i \in file.handoffs THEN {"handoff"} ELSE {}

(* note_for: what a restored session is told.                               *)
NoteFor(i, byId) ==
    IF i \in file.initiator /\ byId THEN {"restarted"}
    ELSE IF i \in file.interrupted /\ byId THEN {"continue"}
    ELSE IF i \in file.handoffs THEN {"handoff"} ELSE {}

(* lost_without_handoff: the user must tell it what it was doing.           *)
LostWithoutHandoff(i, byId, continued) ==
    /\ i \in file.interrupted \ (file.handoffs \cup file.initiator)
    /\ ~byId /\ ~continued

(* continue_flags: of the sessions of a place that are not resumed by id    *)
(* one is to pick up the last conversation of the directory, the one used   *)
(* last; beside one that is resumed by id, only if it was used later still. *)
ContinueFlags(flags) ==
    /\ flags \subseteq recorded \ conversations
    /\ \A i, j \in flags : Place[i] = Place[j] => i = j
    /\ \A i \in recorded \ conversations :
          \E j \in conversations \cup flags : Place[j] = Place[i]

(* restore_sessions_with: the recorded sessions are started again, each of  *)
(* them if it can be, by id, by --continue, or afresh; the last begin with  *)
(* no memory of having been told to stop.  create_inner: only by id is a    *)
(* conversation known to have been spoken in, and one that is continued has *)
(* no id from now on.                                                       *)
Restore(back, flags) ==
    LET byId == back \cap conversations
        continued == back \cap flags \cap Continues
    IN
    /\ daemon = "restoring" /\ back \subseteq recorded /\ ContinueFlags(flags)
    /\ daemon' = "serving"
    /\ notes' = UNION {{[id |-> i, kind |-> k, of |-> generation] :
                           k \in NoteFor(i, i \in byId)} : i \in back}
    /\ warned' = warned \cup {i \in back :
                     LostWithoutHandoff(i, i \in byId, i \in continued)}
    /\ halted' = halted \cap (byId \cup continued)
    /\ named' = (back \cap ById) \ continued /\ spoken' = byId
    /\ passedOver' = halted' \ (file.interrupted \cup file.handoffs)
    /\ carriedOn' = (halted' \cap continued) \ file.handoffs
    /\ spared' = {}
    /\ file' = NoMarks /\ recorded' = {} /\ conversations' = {}
    /\ gone' = Members \ back
    /\ UNCHANGED <<runVars, drainVars, driver, acts, cancelled>>

-----------------------------------------------------------------------------
(* resume_notes::step, run by a thread of its own for each batch of notes.  *)

Deliver(n) ==
    /\ daemon = "serving" /\ n \in notes
    /\ n.id \notin gone
    /\ notes' = notes \ {n}
    /\ halted' = halted \ {n.id} /\ spoken' = spoken \cup {n.id}
    /\ Heard(n.id)
    /\ UNCHANGED <<daemon, runVars, drainVars, driver, acts, disk, named, gone,
                   warned, cancelled, spared>>

(* Its deadline has passed, or the words went in and the Enter did not.     *)
NoteDropped(n) ==
    /\ daemon = "serving" /\ n \in notes
    /\ n.id \notin gone
    /\ notes' = notes \ {n}
    /\ warned' = warned \cup {n.id}
    /\ spoken' \in {spoken, spoken \cup {n.id}}
    /\ UNCHANGED <<daemon, runVars, drainVars, driver, acts, disk, named, gone,
                   halted, history>>

NoteIsForNobody(n) ==
    /\ daemon = "serving" /\ n \in notes
    /\ n.id \in gone
    /\ notes' = notes \ {n}
    /\ UNCHANGED <<daemon, runVars, drainVars, driver, acts, disk, talkVars, gone,
                   halted, warned, history>>

(* A session is closed by the user or ends by itself.                       *)
Ends(i) ==
    /\ i \notin gone /\ daemon = "serving"
    /\ gone' = gone \cup {i}
    /\ UNCHANGED <<daemon, runVars, drainVars, driver, acts, disk, talkVars, notes,
                   halted, warned, history>>

(* send_input: the user presses Enter in a session.                         *)
Speaks(i) ==
    /\ i \notin gone \cup spoken /\ daemon = "serving"
    /\ spoken' = spoken \cup {i}
    /\ UNCHANGED <<daemon, runVars, drainVars, driver, acts, disk, named, worldVars,
                   history>>

(* The user reads the warning and tells the session to carry on himself.    *)
UserTells(i) ==
    /\ i \in warned
    /\ warned' = warned \ {i}
    /\ halted' = halted \ {i} /\ spoken' = spoken \cup {i}
    /\ Heard(i)
    /\ UNCHANGED <<daemon, runVars, drainVars, driver, acts, disk, named, notes,
                   gone, cancelled, spared>>

-----------------------------------------------------------------------------
Initiators == {{}} \cup {{i} : i \in Members}

Requests == (\E i \in Initiators : Start(i))
            \/ Poll \/ Cancel

(* What the drain thread of g does once it has something to do.             *)
Proceed(g) ==
    \/ Spawn(g) \/ WakeGone(g) \/ WakeLapsed(g)
    \/ (\E i \in Members : TypeFor(g, i))
    \/ ActsDone(g) \/ Abandon(g) \/ Persist(g)
    \/ SwapFails(g) \/ Swap(g) \/ Exit(g)

Drive(g) == Wake(g) \/ Proceed(g)

Note(n) == Deliver(n) \/ NoteDropped(n) \/ NoteIsForNobody(n)

Next ==
    \/ Requests \/ Lapse
    \/ \E g \in Generations : Drive(g)
    \/ Boot
    \/ \E back, flags \in SUBSET Members : Restore(back, flags)
    \/ \E n \in Notes : Note(n)
    \/ \E i \in Members : Ends(i) \/ Speaks(i) \/ UserTells(i)

(* The operating system runs the drain thread.  Nobody has to ask for       *)
(* anything, and no drain has to end by itself.                             *)
Spec == Init /\ [][Next]_vars
FairSpec == Spec /\ \A g \in Generations : WF_vars(Drive(g))

-----------------------------------------------------------------------------
(* The run a session was told to stop by is still there and remembers it,   *)
(* or a note that it may carry on is on its way, or the user has been told. *)
Remembered(i) ==
    \/ running /\ i \in told
    \/ \E n \in notes : n.id = i
    \/ i \in warned

(* Who has been told to stop is remembered, whatever else is cancelled,     *)
(* fails or restarts.  Two kinds of sessions are left out, as the code does *)
(* leave them in silence: whom a restart took for done while the note about *)
(* the restart before was still on its way (`passedOver`), and whom it      *)
(* brought back by --continue, without its id and without a handoff         *)
(* (`carriedOn`; see ContinuedAreTold).                                     *)
ToldAreRemembered ==
    daemon = "serving" =>
        \A i \in halted \ (gone \cup passedOver \cup carriedOn) : Remembered(i)

(* What the design of 2026-10-14 (line 113) promises everybody who was told *)
(* to stop and did not: the restart marks it as interrupted and tells it to *)
(* carry on afterwards.  The code does not keep this: note_for tells only   *)
(* who is resumed by id, and lost_without_handoff counts --continue as      *)
(* resumed, so the user is not warned either.                               *)
ContinuedAreTold ==
    daemon = "serving" => \A i \in halted \ (gone \cup passedOver) : Remembered(i)

(* What drain_resumable is for: a session that was used, and is not asked   *)
(* for a handoff because it loses nothing by the restart, loses nothing: it *)
(* is resumed or continued, or the user is warned.  The code does not keep  *)
(* this.  The question is settled when the drain starts, and the session,   *)
(* or the one beside it, may first be spoken to later; and a session beside *)
(* it that was never spoken to may be the newer one and take --continue.    *)
SparedAreResumed ==
    [][daemon = "restoring" /\ daemon' = "serving" =>
          \A i \in (spared \cap spoken) \ (gone' \cup file.initiator) :
              i \in spoken' \cup (ById \ named') \cup warned']_vars

(* A drain whose cancelling was confirmed never gets to the last write.     *)
CancelledNeverRestarts ==
    \A g \in cancelled : driver[g] \notin {"persist", "swap", "linger"}

(* A drain thread that comes late leaves the run of a later drain alone: it *)
(* neither ends it nor counts its own words as said by it.                  *)
DriversMindTheirRun ==
    [][\A g \in Generations :
          (driver'[g] # driver[g] \/ acts'[g] # acts[g])
            /\ daemon' = daemon /\ running /\ generation # g /\ driver[g] # "none"
              => UNCHANGED <<running, generation, told, draining, notes>>]_vars

(* A drain nobody follows ends: the lease runs out, unless the drain is in  *)
(* its last step already.                                                   *)
UnfollowedDrainEnds ==
    (running /\ lapsed /\ initiator = {})
        ~> (~running \/ ~lapsed \/ finishing)

(* A drain in its last step restarts the daemon or is called off.           *)
FinishingEnds == finishing ~> ~finishing
=============================================================================
