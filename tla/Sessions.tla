------------------------------ MODULE Sessions ------------------------------
(***************************************************************************)
(* The session manager of the dct daemon (src/src/session.rs): the table   *)
(* of sessions, the agents' processes, the list of sessions that survives  *)
(* the daemon (last-sessions.toml) and the threads that work on them:      *)
(*                                                                         *)
(*   Clients   one thread per connection; one request at a time            *)
(*   Ticker    the 200 ms thread that classifies screens and reaps         *)
(*   Restorer  the thread that brings back the recorded sessions           *)
(*   Watcher   replaces a session whose conversation could not be resumed  *)
(*   Drainer   the last phase of a graceful restart                        *)
(*                                                                         *)
(* A step is what a thread does under one lock, or between two locks.  A   *)
(* session is named by its number: the numbers never being handed out      *)
(* twice is a property here (NumbersAreUnique), not an assumption.         *)
(***************************************************************************)
EXTENDS Integers, Sequences

CONSTANTS
    Clients,     \* connection threads
    MaxId,       \* bound of the model on session numbers
    Inherited,   \* the possible contents of last-sessions.toml at start-up
    Patterned,   \* numbers whose profile has an idle or a busy pattern
    ById         \* numbers whose profile can resume a conversation by its id

Ids == 1..MaxId

CONSTANTS Ticker, Restorer, Watcher, Drainer, Nobody

Actors == Clients \cup {Ticker, Restorer, Watcher, Drainer}

(* One line of the list: the number, and whether it names a conversation.  *)
Record == [id : Ids, conv : BOOLEAN]

ASSUME MaxIdAssumption == MaxId \in Nat \ {0}

ASSUME ActorAssumption ==
    /\ Nobody \notin Actors
    /\ {Ticker, Restorer, Watcher, Drainer} \cap Clients = {}
    /\ Ticker \notin {Restorer, Watcher, Drainer}
    /\ Restorer \notin {Watcher, Drainer} /\ Watcher # Drainer

ASSUME ProfileAssumption == Patterned \subseteq Ids /\ ById \subseteq Ids

(* The list holds at most one record per number: it was written from a map. *)
ASSUME InheritedAssumption ==
    /\ Inherited \subseteq Seq(Record)
    /\ \A s \in Inherited : \A j, k \in DOMAIN s :
          s[j].id = s[k].id => j = k

VARIABLES
    table,      \* numbers present in the map of sessions
    nextId,     \* the counter numbers are taken from
    state,      \* what the board shows of each session
    alive,      \* is the process of the session still running
    byRequest,  \* stopped_by_request
    submitted,  \* has an Enter ever gone to the session
    hasConv,    \* the session has a conversation id
    death,      \* the last word of the journal on the end of each session
    file,       \* last-sessions.toml, as a set of records
    frozen,     \* the list is final: nothing writes it any more
    listLock,   \* holder of the mutex around `frozen`
    unread,     \* sessions the holder has still to look at
    draft,      \* records the holder has collected
    pc,         \* where each thread is
    cur,        \* the session each thread works on
    then,       \* where each thread goes after writing the list
    dead,       \* numbers collected by the first pass of prune, per thread
    round,      \* sessions the ticker has still to visit in this round
    toRestore,  \* records still to restore, in order
    watched,    \* sessions resumed by conversation id, being watched
    stale,      \* history: file was inherited, or a write has been skipped
    everConv    \* history: numbers the list has named a conversation for

procVars == <<alive>>
sessVars == <<state, byRequest, submitted, hasConv, death>>
listVars == <<file, frozen, listLock, unread, draft, stale, everConv>>
threadVars == <<pc, cur, then, dead, round, toRestore, watched>>
vars == <<table, nextId, procVars, sessVars, listVars, threadVars>>

(* "Live" stands for Working, Idle, Failed and Unknown alike: here they only *)
(* differ in when the ticker writes the list, which is left open.           *)
States == {"None", "Live", "Stopped"}

PCs == {"idle", "spawn", "list", "read", "mark", "prune",
        "discard", "recreate", "swap", "kill", "over", "gone"}

NoId == 0

TypeOK ==
    /\ table \subseteq Ids
    /\ nextId \in 1..(MaxId + 1)
    /\ state \in [Ids -> States]
    /\ alive \in [Ids -> BOOLEAN]
    /\ byRequest \in [Ids -> BOOLEAN]
    /\ submitted \in [Ids -> BOOLEAN]
    /\ hasConv \in [Ids -> BOOLEAN]
    /\ death \in [Ids -> {"none", "requested", "vanished"}]
    /\ file \subseteq Record
    /\ frozen \in BOOLEAN
    /\ listLock \in Actors \cup {Nobody}
    /\ unread \subseteq Ids
    /\ draft \subseteq Record
    /\ pc \in [Actors -> PCs]
    /\ cur \in [Actors -> Ids \cup {NoId}]
    /\ then \in [Actors -> {"idle", "swap", "recreate"}]
    /\ dead \in [Actors -> SUBSET Ids]
    /\ round \subseteq Ids
    /\ toRestore \in Seq(Record)
    /\ watched \subseteq Ids
    /\ stale \in BOOLEAN
    /\ everConv \subseteq Ids

Listed == {r.id : r \in file}

restoring == pc[Restorer] # "over"
exited == pc[Drainer] = "gone"

(* Thread a goes on at l, with session i in hand.                           *)
Goto(a, l, i) ==
    /\ pc' = [pc EXCEPT ![a] = l]
    /\ cur' = [cur EXCEPT ![a] = i]

Done(a) == Goto(a, "idle", NoId)

(* persist_last_sessions, as the tail of an operation of thread a that goes *)
(* on at l afterwards.                                                      *)
ThenPersist(a, l) ==
    /\ Goto(a, "list", NoId)
    /\ then' = [then EXCEPT ![a] = l]

Return(a) ==
    /\ Goto(a, then[a], NoId)
    /\ then' = [then EXCEPT ![a] = "idle"]

-----------------------------------------------------------------------------
(* Start-up: the counter starts at 1 and reserve_ids_up_to moves it past    *)
(* every recorded number before the restore thread or a client runs.        *)
(* Mutated form of Reserved: the recorded numbers are not set aside. *)
NotReserved(n, recs) == n = 1

Reserved(n, recs) ==
    /\ \A k \in DOMAIN recs : recs[k].id < n
    /\ n = 1 \/ \E k \in DOMAIN recs : recs[k].id = n - 1

Init ==
    /\ toRestore \in Inherited
    /\ table = {}
    /\ nextId \in 1..(MaxId + 1)
    /\ Reserved(nextId, toRestore)
    /\ state = [i \in Ids |-> "None"]
    /\ alive = [i \in Ids |-> FALSE]
    /\ byRequest = [i \in Ids |-> FALSE]
    /\ submitted = [i \in Ids |-> FALSE]
    /\ hasConv = [i \in Ids |-> FALSE]
    /\ death = [i \in Ids |-> "none"]
    /\ file = {toRestore[k] : k \in DOMAIN toRestore}
    /\ frozen = FALSE
    /\ listLock = Nobody
    /\ unread = {}
    /\ draft = {}
    /\ pc = [a \in Actors |-> "idle"]
    /\ cur = [a \in Actors |-> NoId]
    /\ then = [a \in Actors |-> "idle"]
    /\ dead = [a \in Actors |-> {}]
    /\ round = {}
    /\ watched = {}
    /\ stale = TRUE
    /\ everConv = {r.id : r \in {x \in file : x.conv}}

-----------------------------------------------------------------------------
(* Writing the list.  The mutex around `frozen` is taken first and held     *)
(* until the file is on disk, so two writers never overlap; the sessions    *)
(* are looked at one by one, each under its own lock.                       *)

(* Mutated form of MayWrite: `frozen` is not looked at. *)
MayAlwaysWrite(a) == TRUE
MayWrite(a) == a = Drainer \/ ~frozen

PersistSkipped(a) ==
    /\ pc[a] = "list" /\ listLock = Nobody
    /\ ~MayWrite(a)
    /\ stale' = TRUE
    /\ Return(a)
    /\ UNCHANGED <<table, nextId, procVars, sessVars, file, frozen, listLock,
                   unread, draft, everConv, dead, round, toRestore,
                   watched>>

PersistBegin(a) ==
    /\ pc[a] = "list" /\ listLock = Nobody
    /\ MayWrite(a)
    /\ listLock' = a
    /\ unread' = table
    /\ draft' = {}
    /\ Goto(a, "read", NoId)
    /\ UNCHANGED <<table, nextId, procVars, sessVars, file, frozen, stale,
                   everConv, then, dead, round, toRestore, watched>>

(* A conversation nobody has said a word in cannot be resumed.              *)
RecordOf(i) == [id |-> i, conv |-> submitted[i] /\ hasConv[i]]

ReadSession(a) ==
    /\ pc[a] = "read" /\ listLock = a
    /\ \E i \in unread :
          /\ \A j \in unread : i <= j
          /\ unread' = unread \ {i}
          /\ draft' = IF state[i] = "Stopped" THEN draft
                      ELSE draft \cup {RecordOf(i)}
    /\ UNCHANGED <<table, nextId, procVars, sessVars, file, frozen, listLock,
                   stale, everConv, threadVars>>

SaveList(a) ==
    /\ pc[a] = "read" /\ listLock = a
    /\ unread = {}
    /\ file' = draft
    /\ everConv' = everConv \cup {r.id : r \in {x \in draft : x.conv}}
    /\ stale' = FALSE
    /\ frozen' = (frozen \/ a = Drainer)
    /\ listLock' = Nobody
    /\ draft' = {}
    /\ Return(a)
    /\ UNCHANGED <<table, nextId, procVars, sessVars, unread, dead,
                   round, toRestore, watched>>

(* The disk refuses: the old list stays as it was, and the program goes on  *)
(* (the last write of a restart freezes the list all the same).             *)
SaveFails(a) ==
    /\ pc[a] = "read" /\ listLock = a
    /\ unread = {}
    /\ stale' = TRUE
    /\ frozen' = (frozen \/ a = Drainer)
    /\ listLock' = Nobody
    /\ draft' = {}
    /\ Return(a)
    /\ UNCHANGED <<table, nextId, procVars, sessVars, file, everConv, unread,
                   dead, round, toRestore, watched>>

-----------------------------------------------------------------------------
(* create_inner.  The number is taken first, then come the slow steps with  *)
(* no lock held (spawning the agent, the first git snapshot); the session   *)
(* enters the map only at the end, and nobody sees its process before.      *)

TakeNumber(a) ==
    /\ nextId <= MaxId
    /\ nextId' = nextId + 1
    /\ Goto(a, "spawn", nextId)

Create(a) ==
    /\ a \in Clients /\ pc[a] = "idle"
    /\ TakeNumber(a)
    /\ UNCHANGED <<table, procVars, sessVars, listVars, then, dead, round,
                   toRestore, watched>>

(* What is left to restore once the head of the queue has been dealt with.  *)
RestTo(a) == IF a = Restorer THEN Tail(toRestore) ELSE toRestore

(* Not a git repository, login needed, the program does not start, or the   *)
(* first snapshot fails: the number is lost.                                *)
CreateFails(a) ==
    /\ pc[a] = "spawn"
    /\ toRestore' = RestTo(a)
    /\ Done(a)
    /\ UNCHANGED <<table, nextId, procVars, sessVars, listVars, then, dead,
                   round, watched>>

(* Does the new session of thread a take up a recorded conversation?        *)
ResumesById(a) ==
    a = Restorer /\ Head(toRestore).conv /\ cur[a] \in ById

(* Mutated form of Insert: a resumed session counts as never spoken to. *)
InsertUnspoken(a) ==
    LET i == cur[a] IN
    /\ pc[a] = "spawn"
    /\ hasConv' = [hasConv EXCEPT ![i] = i \in ById]
    /\ alive' = [alive EXCEPT ![i] = TRUE]
    /\ state' = [state EXCEPT ![i] = "Live"]
    /\ table' = table \cup {i}
    /\ watched' = IF ResumesById(a) THEN watched \cup {i} ELSE watched
    /\ toRestore' = RestTo(a)
    /\ ThenPersist(a, "idle")
    /\ UNCHANGED <<nextId, byRequest, submitted, death, listVars, dead, round>>

(* A session restored by directory (--continue) has no conversation id.     *)
Insert(a) ==
    LET i == cur[a] IN
    /\ pc[a] = "spawn"
    /\ \E continues \in (IF a = Restorer THEN BOOLEAN ELSE {FALSE}) :
          hasConv' = [hasConv EXCEPT ![i] =
                         i \in ById /\ (ResumesById(a) \/ ~continues)]
    /\ alive' = [alive EXCEPT ![i] = TRUE]
    /\ state' = [state EXCEPT ![i] = "Live"]
    /\ submitted' = [submitted EXCEPT ![i] = ResumesById(a)]
    /\ byRequest' = [byRequest EXCEPT ![i] = FALSE]
    /\ table' = table \cup {i}
    /\ watched' = IF ResumesById(a) THEN watched \cup {i} ELSE watched
    /\ toRestore' = RestTo(a)
    /\ ThenPersist(a, "idle")
    /\ UNCHANGED <<nextId, death, listVars, dead, round>>

(* restore: the recorded number is used again when nobody has it.           *)
Restore ==
    /\ pc[Restorer] = "idle" /\ toRestore # <<>>
    /\ LET w == Head(toRestore).id IN
       IF w \notin table
       THEN /\ nextId' = IF nextId > w THEN nextId ELSE w + 1
            /\ Goto(Restorer, "spawn", w)
       ELSE TakeNumber(Restorer)
    /\ UNCHANGED <<table, procVars, sessVars, listVars, then, dead, round,
                   toRestore, watched>>

(* The directory or the profile of the record is gone.                      *)
SkipRecord ==
    /\ pc[Restorer] = "idle" /\ toRestore # <<>>
    /\ toRestore' = Tail(toRestore)
    /\ UNCHANGED <<table, nextId, procVars, sessVars, listVars, pc, cur, then,
                   dead, round, watched>>

RestoreOver ==
    /\ pc[Restorer] = "idle" /\ toRestore = <<>>
    /\ Goto(Restorer, "over", NoId)
    /\ UNCHANGED <<table, nextId, procVars, sessVars, listVars, then, dead,
                   round, toRestore, watched>>

-----------------------------------------------------------------------------
(* The watcher of sessions resumed by conversation id.                      *)

ExitedOnItsOwn(i) == ~byRequest[i] /\ (state[i] = "Stopped" \/ ~alive[i])

Watch(i) ==
    /\ pc[Watcher] = "idle" /\ ~restoring
    /\ i \in watched
    /\ \/ i \notin table /\ UNCHANGED <<pc, cur>>
       \/ i \in table /\ ExitedOnItsOwn(i) /\ Goto(Watcher, "discard", i)
    /\ watched' = watched \ {i}
    /\ UNCHANGED <<table, nextId, procVars, sessVars, listVars, then, dead,
                   round, toRestore>>

(* RESUME_WATCH_WINDOW has passed.                                          *)
WatchOver ==
    /\ pc[Watcher] = "idle" /\ ~restoring
    /\ watched # {}
    /\ watched' = {}
    /\ UNCHANGED <<table, nextId, procVars, sessVars, listVars, pc, cur, then,
                   dead, round, toRestore>>

(* discard: out of the map, its process killed, the list written again.     *)
Discard ==
    LET i == cur[Watcher] IN
    /\ pc[Watcher] = "discard"
    /\ table' = table \ {i}
    /\ IF i \in table
       THEN /\ alive' = [alive EXCEPT ![i] = FALSE]
            /\ ThenPersist(Watcher, "recreate")
       ELSE /\ Goto(Watcher, "recreate", NoId)
            /\ UNCHANGED <<alive, then>>
    /\ UNCHANGED <<nextId, sessVars, listVars, dead, round, toRestore,
                   watched>>

(* The replacement is a new conversation under a new number.                *)
Recreate ==
    /\ pc[Watcher] = "recreate"
    /\ \/ TakeNumber(Watcher)
       \/ nextId > MaxId /\ Done(Watcher) /\ UNCHANGED nextId
    /\ UNCHANGED <<table, procVars, sessVars, listVars, then, dead, round,
                   toRestore, watched>>

-----------------------------------------------------------------------------
(* What a client asks for.                                                  *)

(* send_input with an empty text, the Enter key: the session has been       *)
(* spoken to, then comes the git snapshot with no lock held ...             *)
Enter(c, i) ==
    /\ c \in Clients /\ pc[c] = "idle"
    /\ i \in table
    /\ submitted' = [submitted EXCEPT ![i] = TRUE]
    /\ Goto(c, "mark", i)
    /\ UNCHANGED <<table, nextId, procVars, state, byRequest, hasConv,
                   death, listVars, then, dead, round, toRestore,
                   watched>>

(* ... and only then is the session marked as working, under its lock.      *)
EnterMarks(c) ==
    /\ c \in Clients /\ pc[c] = "mark"
    /\ state' = IF cur[c] \in Patterned
                THEN [state EXCEPT ![cur[c]] = "Live"] ELSE state
    /\ Done(c)
    /\ UNCHANGED <<table, nextId, procVars, byRequest, submitted, hasConv,
                   death, listVars, then, dead, round, toRestore,
                   watched>>

StopSession(i) ==
    /\ alive' = [alive EXCEPT ![i] = FALSE]
    /\ state' = [state EXCEPT ![i] = "Stopped"]
    /\ byRequest' = [byRequest EXCEPT ![i] = TRUE]

Stop(c, i) ==
    /\ c \in Clients /\ pc[c] = "idle"
    /\ i \in table
    /\ StopSession(i)
    /\ death' = [death EXCEPT ![i] = "requested"]
    /\ ThenPersist(c, "idle")
    /\ UNCHANGED <<table, nextId, submitted, hasConv, listVars,
                   dead, round, toRestore, watched>>

(* kill writes nothing in the journal.                                      *)
Kill(c, i) ==
    /\ c \in Clients /\ pc[c] = "idle"
    /\ i \in table
    /\ StopSession(i)
    /\ ThenPersist(c, "idle")
    /\ UNCHANGED <<table, nextId, submitted, hasConv, death,
                   listVars, dead, round, toRestore, watched>>

(* prune: two passes, the map unlocked between them.                        *)
Prune(c) ==
    /\ c \in Clients /\ pc[c] = "idle"
    /\ dead' = [dead EXCEPT ![c] = {i \in table : state[i] = "Stopped"}]
    /\ Goto(c, "prune", NoId)
    /\ UNCHANGED <<table, nextId, procVars, sessVars, listVars, then, round,
                   toRestore, watched>>

PruneRemoves(c) ==
    /\ c \in Clients /\ pc[c] = "prune"
    /\ table' = table \ dead[c]
    /\ dead' = [dead EXCEPT ![c] = {}]
    /\ IF dead[c] \cap table # {}
       THEN ThenPersist(c, "idle")
       ELSE Done(c) /\ UNCHANGED then
    /\ UNCHANGED <<nextId, procVars, sessVars, listVars, round, toRestore,
                   watched>>

-----------------------------------------------------------------------------
(* The ticker.  A round visits every session that was in the map when the   *)
(* round began, each under its own lock, in the order of the hash map.      *)

TickBegins ==
    /\ pc[Ticker] = "idle" /\ round = {}
    /\ table # {}
    /\ round' = table
    /\ UNCHANGED <<table, nextId, procVars, sessVars, listVars, pc, cur, then,
                   dead, toRestore, watched>>

TickSkips(i) ==
    /\ pc[Ticker] = "idle" /\ i \in round
    /\ state[i] = "Stopped"
    /\ round' = round \ {i}
    /\ UNCHANGED <<table, nextId, procVars, sessVars, listVars, pc, cur, then,
                   dead, toRestore, watched>>

(* Mutated form of TickReaps: the list is not written. *)
TickReapsUnwritten(i) ==
    /\ pc[Ticker] = "idle" /\ i \in round
    /\ state[i] # "Stopped" /\ ~alive[i]
    /\ round' = round \ {i}
    /\ state' = [state EXCEPT ![i] = "Stopped"]
    /\ death' = [death EXCEPT ![i] = "vanished"]
    /\ UNCHANGED <<table, nextId, procVars, byRequest, submitted, hasConv,
                   listVars, pc, cur, then, dead, toRestore, watched>>

TickReaps(i) ==
    /\ pc[Ticker] = "idle" /\ i \in round
    /\ state[i] # "Stopped" /\ ~alive[i]
    /\ round' = round \ {i}
    /\ state' = [state EXCEPT ![i] = "Stopped"]
    /\ death' = [death EXCEPT ![i] = "vanished"]
    /\ ThenPersist(Ticker, "idle")
    /\ UNCHANGED <<table, nextId, procVars, byRequest, submitted, hasConv,
                   listVars, dead, toRestore, watched>>

(* At the end of a round of work the list is written, unless it was less    *)
(* than ROUND_PERSIST_DEBOUNCE ago.                                         *)
TickClassifies(i) ==
    /\ pc[Ticker] = "idle" /\ i \in round
    /\ state[i] # "Stopped" /\ alive[i]
    /\ round' = round \ {i}
    /\ \/ i \in Patterned /\ ThenPersist(Ticker, "idle")
       \/ UNCHANGED <<pc, cur, then>>
    /\ UNCHANGED <<table, nextId, procVars, sessVars, listVars, dead,
                   toRestore, watched>>

(* An agent may exit or crash at any moment.                                *)
ProcessExits(i) ==
    /\ alive[i]
    /\ alive' = [alive EXCEPT ![i] = FALSE]
    /\ UNCHANGED <<table, nextId, sessVars, listVars, threadVars>>

-----------------------------------------------------------------------------
(* The last phase of a graceful restart (finish in src/src/daemon.rs): the  *)
(* list is written for the last time and frozen, the new daemon is put in   *)
(* place, then every session is killed at once and the daemon exits.        *)

FinalPersist ==
    /\ pc[Drainer] = "idle" /\ ~restoring
    /\ ThenPersist(Drainer, "swap")
    /\ UNCHANGED <<table, nextId, procVars, sessVars, listVars, dead, round,
                   toRestore, watched>>

(* The swap failed: the daemon goes on, the list is written again from the  *)
(* next change on.                                                          *)
Unfreeze ==
    /\ pc[Drainer] = "swap" /\ listLock = Nobody
    /\ frozen' = FALSE
    /\ Done(Drainer)
    /\ UNCHANGED <<table, nextId, procVars, sessVars, file, listLock, unread,
                   draft, stale, everConv, then, dead, round, toRestore,
                   watched>>

(* Mutated form of KillAll: the daemon leaves its agents running. *)
KillNobody ==
    /\ pc[Drainer] = "swap"
    /\ Goto(Drainer, "kill", NoId)
    /\ UNCHANGED <<table, nextId, procVars, sessVars, listVars, then, dead,
                   round, toRestore, watched>>

KillAll ==
    /\ pc[Drainer] = "swap"
    /\ dead' = [dead EXCEPT ![Drainer] = table]
    /\ Goto(Drainer, "kill", NoId)
    /\ UNCHANGED <<table, nextId, procVars, sessVars, listVars, then, round,
                   toRestore, watched>>

KillNow(i) ==
    /\ pc[Drainer] = "kill" /\ i \in dead[Drainer]
    /\ dead' = [dead EXCEPT ![Drainer] = @ \ {i}]
    /\ IF state[i] # "Stopped" THEN StopSession(i)
       ELSE UNCHANGED <<alive, state, byRequest>>
    /\ UNCHANGED <<table, nextId, submitted, hasConv, death,
                   listVars, pc, cur, then, round, toRestore, watched>>

Exit ==
    /\ pc[Drainer] = "kill" /\ dead[Drainer] = {}
    /\ pc' = [a \in Actors |-> "gone"]
    /\ UNCHANGED <<table, nextId, procVars, sessVars, listVars, cur, then,
                   dead, round, toRestore, watched>>

Terminated == exited /\ UNCHANGED vars

-----------------------------------------------------------------------------
(* What thread a does next when it is in the middle of an operation.        *)
Resume(a) ==
    \/ PersistSkipped(a) \/ PersistBegin(a) \/ ReadSession(a)
    \/ SaveList(a) \/ SaveFails(a)
    \/ CreateFails(a) \/ Insert(a)
    \/ EnterMarks(a) \/ PruneRemoves(a)

Request(c) ==
    \/ Create(c) \/ Prune(c)
    \/ \E i \in Ids : Enter(c, i) \/ Stop(c, i) \/ Kill(c, i)

Tick ==
    \/ TickBegins
    \/ \E i \in Ids : TickSkips(i) \/ TickReaps(i) \/ TickClassifies(i)

RestoreThread == Restore \/ SkipRecord \/ RestoreOver

WatchThread == (\E i \in Ids : Watch(i)) \/ WatchOver
               \/ Discard \/ Recreate

DrainThread == FinalPersist \/ Unfreeze \/ KillAll
               \/ (\E i \in Ids : KillNow(i)) \/ Exit

Next ==
    \/ \E a \in Actors : Resume(a)
    \/ \E c \in Clients : Request(c)
    \/ Tick \/ RestoreThread \/ WatchThread \/ DrainThread
    \/ \E i \in Ids : ProcessExits(i)
    \/ Terminated

(* The operating system runs every thread; the mutex of the list is not     *)
(* handed past a waiting thread for ever.  Nobody has to ask for anything,  *)
(* and no agent has to exit.                                                *)
Fairness ==
    /\ \A a \in Actors :
          /\ WF_vars(CreateFails(a) \/ Insert(a) \/ ReadSession(a)
                   \/ SaveList(a) \/ SaveFails(a) \/ EnterMarks(a) \/ PruneRemoves(a))
          /\ SF_vars(PersistSkipped(a) \/ PersistBegin(a))
    /\ WF_vars(Tick)

Spec == Init /\ [][Next]_vars
FairSpec == Spec /\ Fairness

-----------------------------------------------------------------------------
(* Nobody is in the middle of changing the sessions or writing the list.    *)
Quiet ==
    /\ listLock = Nobody
    /\ \A a \in Actors : pc[a] # "list"

(* Once every thread is done, the list on disk names every session of the  *)
(* board whose agent runs, and no session that is off the board or shown    *)
(* as stopped: what the next daemon brings back is what was running.  Until *)
(* this daemon has written it for the first time, and after a write was     *)
(* skipped because the list was frozen, it may lag.  That an agent which    *)
(* died by itself leaves the list so soon is what the code does (the        *)
(* vanished branch of tick), not what its documents say: see                *)
(* TickNeverWrites.                                                         *)
ListFollowsSessions ==
    Quiet /\ ~frozen /\ ~stale =>
        /\ {i \in table : alive[i]} \subseteq Listed
        /\ Listed \subseteq {i \in table : state[i] # "Stopped"}

(* A number that is being given to a new session is on no session of the    *)
(* board and is being given to no other one, whether it was counted up or   *)
(* taken over from the list: no create or restore overwrites a session.     *)
NumbersAreUnique ==
    LET Creating == {a \in Actors : pc[a] = "spawn"} IN
    \A a \in Creating :
        /\ cur[a] \notin table
        /\ \A b \in Creating : b # a => cur[b] # cur[a]

(* When the daemon has exited to make room for the next one, no agent of a  *)
(* session in the list is left running: the next daemon resumes the same    *)
(* conversation by its id, and two agents would write into it.              *)
NoAgentOutlivesItsRecord ==
    exited => \A i \in Listed : ~alive[i]

(* A conversation the list has named once is named by every later list      *)
(* that still has the session, however it is restarted and restored.        *)
ConversationIsKept ==
    \A r \in file : r.id \in everConv => r.conv

(* From the final write until the daemon exits or goes on after a failed    *)
(* swap, nobody writes the list, though threads that were already on their  *)
(* way to write it go on running.                                           *)
FrozenListIsFinal == [][frozen /\ frozen' => file' = file]_vars

(* A session whose agent died leaves the list: the ticker notices and       *)
(* writes, unless the list is frozen or missed a write while it was.  An    *)
(* Enter sent to a dead session puts it back on the list for a round of the *)
(* ticker, so nobody may go on pressing Enter for ever.  The documents      *)
(* leave the dead session on the list until the next create, stop, kill or  *)
(* prune (TickNeverWrites).                                                 *)
DeathReachesTheList ==
    <>[](\A c \in Clients : pc[c] # "mark") =>
        \A i \in Ids :
            (i \in table /\ i \in Listed /\ ~alive[i])
                ~> (i \notin Listed \/ frozen \/ stale \/ exited)

(* What the head of last_sessions.rs and the comments on                    *)
(* persist_last_sessions, create_inner and prune say of the ticker: it      *)
(* never writes the list, so that one whose agent died by itself stays on   *)
(* it until something else does.  The code does not keep this: tick writes  *)
(* the list for a session it finds dead, and at the end of a round of work. *)
TickNeverWrites == [][file' # file => listLock # Ticker]_vars
=============================================================================
