--------------------------- MODULE SessionsProofs ---------------------------
(***************************************************************************)
(* Theorems about Sessions, for every number of connections and sessions,  *)
(* every list the daemon starts with and every set of profiles.            *)
(***************************************************************************)
EXTENDS Sessions, TLAPS

-----------------------------------------------------------------------------
(* Type correctness needs two facts about threads that create a session:    *)
(* the number is a number, and the restore thread has a record in hand.     *)
TypeInv ==
    /\ TypeOK
    /\ \A a \in Actors : pc[a] = "spawn" => cur[a] \in Ids
    /\ pc[Restorer] = "spawn" => toRestore # <<>>

LEMMA ActorFacts ==
    /\ Clients \subseteq Actors
    /\ \A c \in Clients : c \notin {Ticker, Restorer, Watcher, Drainer}
    /\ Ticker \in Actors /\ Restorer \in Actors
    /\ Watcher \in Actors /\ Drainer \in Actors
    /\ Ticker # Restorer /\ Ticker # Watcher /\ Ticker # Drainer
    /\ Restorer # Watcher /\ Restorer # Drainer /\ Watcher # Drainer
    /\ Nobody \notin Actors
  BY ActorAssumption DEF Actors

LEMMA TypeInit == Init => TypeInv
  <1> SUFFICES ASSUME Init PROVE TypeInv
    OBVIOUS
  <1>1. toRestore \in Seq(Record)
    BY InheritedAssumption DEF Init
  <1>2. file \subseteq Record /\ everConv \subseteq Ids
    <2>1. \A k \in DOMAIN toRestore : toRestore[k] \in Record
      BY <1>1
    <2> QED
      BY <2>1 DEF Init, Record
  <1>3. nextId \in 1..(MaxId + 1)
    BY DEF Init
  <1> QED
    BY <1>1, <1>2, <1>3, ActorFacts DEF Init, TypeInv, TypeOK, PCs, States, NoId

LEMMA TypeStep == TypeInv /\ [Next]_vars => TypeInv'
  <1> SUFFICES ASSUME TypeInv, [Next]_vars PROVE TypeInv'
    OBVIOUS
  <1> USE MaxIdAssumption, ActorFacts
      DEF TypeInv, TypeOK, Ids, PCs, States, NoId, Goto, Done, ThenPersist,
          Return, procVars, sessVars, listVars, threadVars
  <1>1. ASSUME NEW a \in Actors, PersistSkipped(a) PROVE TypeInv'
    <2>1. pc' \in [Actors -> PCs] /\ cur' \in [Actors -> Ids \cup {NoId}]
          /\ then' \in [Actors -> {"idle", "swap", "recreate"}]
      BY <1>1 DEF PersistSkipped, MayWrite
    <2>2. (\A b \in Actors : pc'[b] = "spawn" => cur'[b] \in Ids)
          /\ (pc'[Restorer] = "spawn" => toRestore' # <<>>)
      BY <1>1 DEF PersistSkipped, MayWrite
    <2>3. TypeOK'
      BY <1>1, <2>1 DEF PersistSkipped, MayWrite
    <2> QED
      BY <2>2, <2>3
  <1>2. ASSUME NEW a \in Actors, PersistBegin(a) PROVE TypeInv'
    BY <1>2 DEF PersistBegin, MayWrite
  <1>3. ASSUME NEW a \in Actors, ReadSession(a) PROVE TypeInv'
    BY <1>3 DEF ReadSession, RecordOf, Record
  <1>4. ASSUME NEW a \in Actors, SaveList(a) PROVE TypeInv'
    <2>1. pc' \in [Actors -> PCs] /\ cur' \in [Actors -> Ids \cup {NoId}]
          /\ then' \in [Actors -> {"idle", "swap", "recreate"}]
      BY <1>4 DEF SaveList
    <2>2. (\A b \in Actors : pc'[b] = "spawn" => cur'[b] \in Ids)
          /\ (pc'[Restorer] = "spawn" => toRestore' # <<>>)
      BY <1>4 DEF SaveList
    <2>3. file' \subseteq Record /\ everConv' \subseteq Ids
      <3>1. draft \subseteq Record /\ everConv \subseteq Ids
        OBVIOUS
      <3>2. {r.id : r \in {x \in draft : x.conv}} \subseteq Ids
        BY <3>1 DEF Record
      <3> QED
        BY <1>4, <3>1, <3>2 DEF SaveList
    <2>4. frozen' \in BOOLEAN /\ stale' \in BOOLEAN /\ draft' \subseteq Record
      BY <1>4 DEF SaveList
    <2>5. TypeOK'
      BY <1>4, <2>1, <2>3, <2>4 DEF SaveList
    <2> QED
      BY <2>2, <2>5
  <1>4a. ASSUME NEW a \in Actors, SaveFails(a) PROVE TypeInv'
    <2>1. pc' \in [Actors -> PCs] /\ cur' \in [Actors -> Ids \cup {NoId}]
          /\ then' \in [Actors -> {"idle", "swap", "recreate"}]
      BY <1>4a DEF SaveFails
    <2>2. (\A b \in Actors : pc'[b] = "spawn" => cur'[b] \in Ids)
          /\ (pc'[Restorer] = "spawn" => toRestore' # <<>>)
      BY <1>4a DEF SaveFails
    <2>3. TypeOK'
      BY <1>4a, <2>1 DEF SaveFails
    <2> QED
      BY <2>2, <2>3
  <1>5. ASSUME NEW a \in Actors, CreateFails(a) PROVE TypeInv'
    BY <1>5 DEF CreateFails, RestTo
  <1>6. ASSUME NEW a \in Actors, Insert(a) PROVE TypeInv'
    <2>1. pc' \in [Actors -> PCs] /\ cur' \in [Actors -> Ids \cup {NoId}]
          /\ then' \in [Actors -> {"idle", "swap", "recreate"}]
      BY <1>6 DEF Insert, ResumesById, RestTo
    <2>2. (\A b \in Actors : pc'[b] = "spawn" => cur'[b] \in Ids)
          /\ (pc'[Restorer] = "spawn" => toRestore' # <<>>)
      BY <1>6 DEF Insert, ResumesById, RestTo
    <2>3. ResumesById(a) \in BOOLEAN /\ cur[a] \in Ids
      <3>1. a = Restorer => Head(toRestore) \in Record
        BY <1>6 DEF Insert
      <3> QED
        BY <1>6, <3>1 DEF Insert, ResumesById, Record
    <2>4. hasConv' \in [Ids -> BOOLEAN] /\ submitted' \in [Ids -> BOOLEAN]
      BY <1>6, <2>3 DEF Insert
    <2>5. toRestore' \in Seq(Record)
      BY <1>6 DEF Insert, RestTo
    <2>6. table' \subseteq Ids /\ watched' \subseteq Ids
      BY <1>6, <2>3 DEF Insert
    <2>7. TypeOK'
      BY <1>6, <2>1, <2>3, <2>4, <2>5, <2>6 DEF Insert
    <2> QED
      BY <2>2, <2>7
  <1>7. ASSUME NEW a \in Actors, EnterMarks(a) PROVE TypeInv'
    BY <1>7 DEF EnterMarks
  <1>8. ASSUME NEW a \in Actors, PruneRemoves(a) PROVE TypeInv'
    <2>1. ThenPersist(a, "idle") \/ (Done(a) /\ UNCHANGED then)
      BY <1>8 DEF PruneRemoves
    <2>2. CASE ThenPersist(a, "idle")
      BY <1>8, <2>2 DEF PruneRemoves
    <2>3. CASE Done(a) /\ UNCHANGED then
      BY <1>8, <2>3 DEF PruneRemoves
    <2> QED
      BY <2>1, <2>2, <2>3
  <1>9. ASSUME NEW a \in Actors, Create(a) PROVE TypeInv'
    BY <1>9 DEF Create, TakeNumber
  <1>10. ASSUME NEW a \in Actors, Prune(a) PROVE TypeInv'
    BY <1>10 DEF Prune
  <1>11. ASSUME NEW c \in Clients, NEW i \in Ids, Enter(c, i) PROVE TypeInv'
    BY <1>11 DEF Enter
  <1>12. ASSUME NEW c \in Clients, NEW i \in Ids, Stop(c, i) PROVE TypeInv'
    BY <1>12 DEF Stop, StopSession
  <1>13. ASSUME NEW c \in Clients, NEW i \in Ids, Kill(c, i) PROVE TypeInv'
    BY <1>13 DEF Kill, StopSession
  <1>14. ASSUME NEW i \in Ids, TickSkips(i) PROVE TypeInv'
    BY <1>14 DEF TickSkips
  <1>15. ASSUME NEW i \in Ids, TickReaps(i) PROVE TypeInv'
    BY <1>15 DEF TickReaps
  <1>16. ASSUME NEW i \in Ids, TickClassifies(i) PROVE TypeInv'
    <2>1. CASE UNCHANGED <<pc, cur, then>>
      BY <1>16, <2>1 DEF TickClassifies
    <2>2. CASE ThenPersist(Ticker, "idle")
      BY <1>16, <2>2 DEF TickClassifies
    <2> QED
      BY <1>16, <2>1, <2>2 DEF TickClassifies
  <1>17. ASSUME NEW i \in Ids, Watch(i) PROVE TypeInv'
    <2>1. CASE i \in table
      BY <1>17, <2>1 DEF Watch
    <2>2. CASE i \notin table
      BY <1>17, <2>2 DEF Watch
    <2> QED
      BY <1>17, <2>1, <2>2 DEF Watch
  <1>18. ASSUME NEW i \in Ids, KillNow(i) PROVE TypeInv'
    BY <1>18 DEF KillNow, StopSession
  <1>19. ASSUME NEW i \in Ids, ProcessExits(i) PROVE TypeInv'
    BY <1>19 DEF ProcessExits
  <1>20. ASSUME TickBegins PROVE TypeInv'
    BY <1>20 DEF TickBegins
  <1>21. ASSUME Restore PROVE TypeInv'
    <2>1. Head(toRestore).id \in Ids
      <3>1. Head(toRestore) \in Record
        BY <1>21 DEF Restore
      <3> QED
        BY <3>1 DEF Record
    <2>2. PICK i \in Ids : /\ Goto(Restorer, "spawn", i)
                          /\ nextId' \in 1..(MaxId + 1)
      <3>1. CASE Head(toRestore).id \in table
        <4>1. nextId \in Ids /\ nextId' = nextId + 1 /\ Goto(Restorer, "spawn", nextId)
          BY <1>21, <3>1 DEF Restore, TakeNumber
        <4>2. nextId' \in 1..(MaxId + 1)
          BY <4>1
        <4> HIDE DEF Goto
        <4> QED
          BY <4>1, <4>2
      <3>2. CASE Head(toRestore).id \notin table
        <4>1. Goto(Restorer, "spawn", Head(toRestore).id)
          BY <1>21, <3>2 DEF Restore
        <4>2. nextId' \in 1..(MaxId + 1)
          BY <1>21, <2>1, <3>2 DEF Restore
        <4> QED
          BY <2>1, <4>1, <4>2
      <3> QED
        BY <3>1, <3>2
    <2> QED
      BY <1>21, <2>2 DEF Restore
  <1>22. ASSUME SkipRecord PROVE TypeInv'
    BY <1>22 DEF SkipRecord
  <1>23. ASSUME RestoreOver PROVE TypeInv'
    BY <1>23 DEF RestoreOver
  <1>24. ASSUME WatchOver PROVE TypeInv'
    BY <1>24 DEF WatchOver
  <1>25. ASSUME Discard PROVE TypeInv'
    <2>1. \/ ThenPersist(Watcher, "recreate")
          \/ Goto(Watcher, "recreate", NoId) /\ UNCHANGED then
      BY <1>25 DEF Discard
    <2>2. alive' \in [Ids -> BOOLEAN] /\ table' \subseteq Ids
      BY <1>25 DEF Discard
    <2>3. CASE ThenPersist(Watcher, "recreate")
      BY <1>25, <2>2, <2>3 DEF Discard
    <2>4. CASE Goto(Watcher, "recreate", NoId) /\ UNCHANGED then
      BY <1>25, <2>2, <2>4 DEF Discard
    <2> QED
      BY <2>1, <2>3, <2>4
  <1>26. ASSUME Recreate PROVE TypeInv'
    <2>1. CASE TakeNumber(Watcher)
      BY <1>26, <2>1 DEF Recreate, TakeNumber
    <2>2. CASE nextId > MaxId /\ Done(Watcher) /\ UNCHANGED nextId
      BY <1>26, <2>2 DEF Recreate, TakeNumber
    <2> QED
      BY <1>26, <2>1, <2>2 DEF Recreate, TakeNumber
  <1>27. ASSUME FinalPersist PROVE TypeInv'
    BY <1>27 DEF FinalPersist
  <1>28. ASSUME Unfreeze PROVE TypeInv'
    BY <1>28 DEF Unfreeze
  <1>29. ASSUME KillAll PROVE TypeInv'
    BY <1>29 DEF KillAll
  <1>30. ASSUME Exit PROVE TypeInv'
    BY <1>30 DEF Exit
  <1>31. ASSUME UNCHANGED vars PROVE TypeInv'
    BY <1>31 DEF vars
  <1> QED
    BY <1>1, <1>2, <1>3, <1>4, <1>4a, <1>5, <1>6, <1>7, <1>8, <1>9, <1>10,
       <1>11, <1>12, <1>13, <1>14, <1>15, <1>16, <1>17, <1>18, <1>19, <1>20,
       <1>21, <1>22, <1>23, <1>24, <1>25, <1>26, <1>27, <1>28, <1>29,
       <1>30, <1>31
    DEF Next, Resume, Request, Tick, RestoreThread, WatchThread, DrainThread,
        Terminated

(* Every variable keeps its type: Spec => []TypeOK.                         *)
THEOREM TypeCorrect == Spec => []TypeOK
  <1>1. TypeInv => TypeOK
    BY DEF TypeInv
  <1> QED
    BY <1>1, TypeInit, TypeStep, PTL DEF Spec
-----------------------------------------------------------------------------
(* The mutex.  A thread that is reading the sessions holds it; once the     *)
(* list is frozen nobody does, and the drainer is past its own write.       *)
LockInv ==
    /\ \A a \in Actors : pc[a] = "read" => listLock = a
    /\ listLock # Nobody => pc[listLock] = "read"
    /\ frozen => listLock = Nobody /\ pc[Drainer] \in {"swap", "kill", "gone"}
    /\ pc[Drainer] \in {"idle", "list", "read", "swap", "kill", "gone"}
    /\ pc[Drainer] \in {"list", "read"} => then[Drainer] = "swap"
    /\ pc[Drainer] \in {"swap", "kill"} => frozen

LEMMA LockInit == Init => LockInv
  BY ActorFacts DEF Init, LockInv

LEMMA LockStep == TypeInv /\ LockInv /\ [Next]_vars => LockInv'
  <1> SUFFICES ASSUME TypeInv, LockInv, [Next]_vars PROVE LockInv'
    OBVIOUS
  <1> USE ActorFacts
      DEF TypeInv, TypeOK, LockInv, Goto, Done, ThenPersist, Return, procVars,
          sessVars, listVars, threadVars
  <1>1. ASSUME NEW a \in Actors, PersistSkipped(a) PROVE LockInv'
    BY <1>1 DEF PersistSkipped, MayWrite
  <1>2. ASSUME NEW a \in Actors, PersistBegin(a) PROVE LockInv'
    BY <1>2 DEF PersistBegin, MayWrite
  <1>3. ASSUME NEW a \in Actors, ReadSession(a) PROVE LockInv'
    BY <1>3 DEF ReadSession
  <1>4. ASSUME NEW a \in Actors, SaveList(a) PROVE LockInv'
    BY <1>4 DEF SaveList
  <1>4a. ASSUME NEW a \in Actors, SaveFails(a) PROVE LockInv'
    BY <1>4a DEF SaveFails
  <1>5. ASSUME NEW a \in Actors, CreateFails(a) PROVE LockInv'
    BY <1>5 DEF CreateFails, RestTo
  <1>6. ASSUME NEW a \in Actors, Insert(a) PROVE LockInv'
    BY <1>6 DEF Insert, RestTo
  <1>7. ASSUME NEW a \in Actors, EnterMarks(a) PROVE LockInv'
    BY <1>7 DEF EnterMarks
  <1>8. ASSUME NEW a \in Actors, PruneRemoves(a) PROVE LockInv'
    BY <1>8 DEF PruneRemoves
  <1>9. ASSUME NEW a \in Actors, Create(a) PROVE LockInv'
    BY <1>9 DEF Create, TakeNumber
  <1>10. ASSUME NEW a \in Actors, Prune(a) PROVE LockInv'
    BY <1>10 DEF Prune
  <1>11. ASSUME NEW c \in Clients, NEW i \in Ids, Enter(c, i) PROVE LockInv'
    BY <1>11 DEF Enter
  <1>12. ASSUME NEW c \in Clients, NEW i \in Ids, Stop(c, i) PROVE LockInv'
    BY <1>12 DEF Stop
  <1>13. ASSUME NEW c \in Clients, NEW i \in Ids, Kill(c, i) PROVE LockInv'
    BY <1>13 DEF Kill
  <1>14. ASSUME NEW i \in Ids, TickSkips(i) PROVE LockInv'
    BY <1>14 DEF TickSkips
  <1>15. ASSUME NEW i \in Ids, TickReaps(i) PROVE LockInv'
    BY <1>15 DEF TickReaps
  <1>16. ASSUME NEW i \in Ids, TickClassifies(i) PROVE LockInv'
    BY <1>16 DEF TickClassifies
  <1>17. ASSUME NEW i \in Ids, Watch(i) PROVE LockInv'
    BY <1>17 DEF Watch
  <1>18. ASSUME NEW i \in Ids, KillNow(i) PROVE LockInv'
    BY <1>18 DEF KillNow
  <1>19. ASSUME NEW i \in Ids, ProcessExits(i) PROVE LockInv'
    BY <1>19 DEF ProcessExits
  <1>20. ASSUME TickBegins PROVE LockInv'
    BY <1>20 DEF TickBegins
  <1>21. ASSUME Restore PROVE LockInv'
    BY <1>21 DEF Restore, TakeNumber
  <1>22. ASSUME SkipRecord PROVE LockInv'
    BY <1>22 DEF SkipRecord
  <1>23. ASSUME RestoreOver PROVE LockInv'
    BY <1>23 DEF RestoreOver
  <1>24. ASSUME WatchOver PROVE LockInv'
    BY <1>24 DEF WatchOver
  <1>25. ASSUME Discard PROVE LockInv'
    BY <1>25 DEF Discard
  <1>26. ASSUME Recreate PROVE LockInv'
    BY <1>26 DEF Recreate, TakeNumber
  <1>27. ASSUME FinalPersist PROVE LockInv'
    BY <1>27 DEF FinalPersist
  <1>28. ASSUME Unfreeze PROVE LockInv'
    BY <1>28 DEF Unfreeze
  <1>29. ASSUME KillAll PROVE LockInv'
    BY <1>29 DEF KillAll
  <1>30. ASSUME Exit PROVE LockInv'
    BY <1>30 DEF Exit
  <1>31. ASSUME UNCHANGED vars PROVE LockInv'
    BY <1>31 DEF vars
  <1> QED
    BY <1>1, <1>2, <1>3, <1>4, <1>4a, <1>5, <1>6, <1>7, <1>8, <1>9, <1>10, <1>11,
       <1>12, <1>13, <1>14, <1>15, <1>16, <1>17, <1>18, <1>19, <1>20,
       <1>21, <1>22, <1>23, <1>24, <1>25, <1>26, <1>27, <1>28, <1>29,
       <1>30, <1>31
    DEF Next, Resume, Request, Tick, RestoreThread, WatchThread, DrainThread,
        Terminated

-----------------------------------------------------------------------------
(* The numbers.  Everything below nextId has been given out or set aside;   *)
(* a record that waits to be restored owns its number, and shares it only   *)
(* with the thread that is restoring it.                                    *)
Creating(a) == pc[a] = "spawn"

NumberInv ==
    /\ \A i \in table : i < nextId
    /\ \A a \in Actors : Creating(a) => cur[a] < nextId /\ cur[a] \notin table
    /\ \A a, b \in Actors : Creating(a) /\ Creating(b) /\ a # b => cur[a] # cur[b]
    /\ \A k \in DOMAIN toRestore :
          /\ toRestore[k].id < nextId /\ toRestore[k].id \notin table
          /\ \A a \in Actors : Creating(a) /\ cur[a] = toRestore[k].id
                                => a = Restorer /\ k = 1
          /\ \A j \in DOMAIN toRestore : toRestore[j].id = toRestore[k].id => j = k

LEMMA NumberInit == Init => NumberInv
  BY InheritedAssumption, ActorFacts DEF Init, NumberInv, Reserved, Creating

(* A step that starts no session and adds none keeps the invariant ...      *)
LEMMA NumberFrame ==
  ASSUME TypeInv, NumberInv, table' \subseteq table, nextId' = nextId,
         UNCHANGED toRestore,
         \A a \in Actors : Creating(a)' => Creating(a) /\ cur'[a] = cur[a]
  PROVE  NumberInv'
  BY DEF TypeInv, TypeOK, NumberInv, Creating

(* ... and so does giving out the next number.                              *)
LEMMA NumberTaken ==
  ASSUME TypeInv, NumberInv, NEW a \in Actors, TakeNumber(a), pc[a] # "spawn",
         a # Restorer, UNCHANGED <<table, toRestore>>
  PROVE  NumberInv'
  <1>1. /\ nextId \in 1..MaxId /\ nextId' = nextId + 1
        /\ cur' = [cur EXCEPT ![a] = nextId]
        /\ pc' = [pc EXCEPT ![a] = "spawn"]
    BY MaxIdAssumption DEF TypeInv, TypeOK, TakeNumber, Goto
  <1>2. \A b \in Actors : Creating(b) => cur[b] \in Ids /\ cur[b] < nextId
    BY DEF TypeInv, NumberInv, Creating
  <1>3. \A b \in Actors : b # a => (Creating(b)' <=> Creating(b)) /\ cur'[b] = cur[b]
    BY <1>1 DEF TypeInv, TypeOK, Creating
  <1>4. cur'[a] = nextId
    BY <1>1 DEF TypeInv, TypeOK
  <1>5. \A k \in DOMAIN toRestore : toRestore[k].id < nextId /\ toRestore[k].id \in Ids
    <2>1. \A k \in DOMAIN toRestore : toRestore[k] \in Record
      BY DEF TypeInv, TypeOK
    <2> QED
      BY <2>1 DEF NumberInv, Record
  <1>6. \A i \in table : i < nextId /\ i \in Ids
    BY DEF NumberInv, TypeInv, TypeOK
  <1> QED
    BY <1>1, <1>2, <1>3, <1>4, <1>5, <1>6 DEF NumberInv, Ids

LEMMA NumberStep == TypeInv /\ NumberInv /\ [Next]_vars => NumberInv'
  <1> SUFFICES ASSUME TypeInv, NumberInv, [Next]_vars PROVE NumberInv'
    OBVIOUS
  <1> USE MaxIdAssumption, ActorFacts
      DEF TypeInv, TypeOK, Ids, NumberInv, Creating, Goto, Done, ThenPersist, Return,
          procVars, sessVars, listVars, threadVars
  <1>1. ASSUME NEW a \in Actors, PersistSkipped(a) PROVE NumberInv'
    BY <1>1 DEF PersistSkipped, MayWrite
  <1>2. ASSUME NEW a \in Actors, PersistBegin(a) PROVE NumberInv'
    BY <1>2 DEF PersistBegin, MayWrite
  <1>3. ASSUME NEW a \in Actors, ReadSession(a) PROVE NumberInv'
    BY <1>3 DEF ReadSession
  <1>4. ASSUME NEW a \in Actors, SaveList(a) PROVE NumberInv'
    BY <1>4 DEF SaveList
  <1>4a. ASSUME NEW a \in Actors, SaveFails(a) PROVE NumberInv'
    BY <1>4a DEF SaveFails
  <1>5. ASSUME NEW a \in Actors, CreateFails(a) PROVE NumberInv'
    <2>1. pc[a] = "spawn" /\ pc' = [pc EXCEPT ![a] = "idle"]
          /\ cur' = [cur EXCEPT ![a] = NoId] /\ UNCHANGED <<table, nextId>>
      BY <1>5 DEF CreateFails
    <2>2. CASE a = Restorer
      <3>1. toRestore # <<>> /\ toRestore' = Tail(toRestore)
        BY <1>5, <2>1, <2>2 DEF CreateFails, RestTo
      <3>2. \A k \in DOMAIN toRestore' :
               k + 1 \in DOMAIN toRestore /\ toRestore'[k] = toRestore[k + 1] /\ k \in Nat
        BY <3>1
      <3>3. \A b \in Actors : pc'[b] = "spawn" =>
                pc[b] = "spawn" /\ cur'[b] = cur[b] /\ b # Restorer
        BY <2>1, <2>2
      <3>4. \A k \in DOMAIN toRestore' :
               /\ toRestore'[k].id < nextId /\ toRestore'[k].id \notin table
               /\ \A b \in Actors : pc[b] = "spawn" /\ b # Restorer
                                     => cur[b] # toRestore'[k].id
               /\ \A j \in DOMAIN toRestore' :
                     toRestore'[j].id = toRestore'[k].id => j = k
        <4> TAKE k \in DOMAIN toRestore'
        <4> DEFINE m == k + 1
        <4>1. m \in DOMAIN toRestore /\ toRestore'[k] = toRestore[m] /\ m # 1
          BY <3>1, <3>2
        <4>2. \A b \in Actors : pc[b] = "spawn" /\ b # Restorer => cur[b] # toRestore[m].id
          BY <4>1
        <4>3. ASSUME NEW j \in DOMAIN toRestore', toRestore'[j].id = toRestore'[k].id
              PROVE  j = k
          <5>1. toRestore[j + 1].id = toRestore[m].id /\ j + 1 \in DOMAIN toRestore
            BY <3>2, <4>1, <4>3
          <5>2. j + 1 = m
            BY <4>1, <5>1
          <5> QED
            BY <3>2, <5>2
        <4>4. toRestore[m].id < nextId /\ toRestore[m].id \notin table
          BY <4>1
        <4> HIDE DEF m
        <4> QED
          BY <4>1, <4>2, <4>3, <4>4
      <3>5. \A i \in table' : i < nextId'
        BY <2>1
      <3>6. \A b \in Actors : Creating(b)' => cur'[b] < nextId' /\ cur'[b] \notin table'
        BY <2>1, <3>3
      <3>7. \A b, c \in Actors : Creating(b)' /\ Creating(c)' /\ b # c => cur'[b] # cur'[c]
        BY <3>3
      <3>8. \A k \in DOMAIN toRestore' :
               /\ toRestore'[k].id < nextId' /\ toRestore'[k].id \notin table'
               /\ \A b \in Actors : Creating(b)' /\ cur'[b] = toRestore'[k].id
                                     => b = Restorer /\ k = 1
               /\ \A j \in DOMAIN toRestore' :
                     toRestore'[j].id = toRestore'[k].id => j = k
        <4>1. \A k \in DOMAIN toRestore' : \A b \in Actors :
                 ~(Creating(b)' /\ cur'[b] = toRestore'[k].id)
          BY <3>3, <3>4
        <4> QED
          BY <2>1, <3>4, <4>1
      <3> QED
        BY <3>5, <3>6, <3>7, <3>8
    <2>3. CASE a # Restorer
      BY <1>5, <2>1, <2>3, NumberFrame DEF CreateFails, RestTo
    <2> QED
      BY <2>2, <2>3
  <1>6. ASSUME NEW a \in Actors, Insert(a) PROVE NumberInv'
    BY <1>6 DEF Insert, RestTo
  <1>7. ASSUME NEW a \in Actors, EnterMarks(a) PROVE NumberInv'
    BY <1>7 DEF EnterMarks
  <1>8. ASSUME NEW a \in Actors, PruneRemoves(a) PROVE NumberInv'
    <2>1. ThenPersist(a, "idle") \/ (Done(a) /\ UNCHANGED then)
      BY <1>8 DEF PruneRemoves
    <2>2. \A b \in Actors : Creating(b)' => Creating(b) /\ cur'[b] = cur[b]
      BY <2>1
    <2> QED
      BY <1>8, <2>2, NumberFrame DEF PruneRemoves
  <1>9. ASSUME NEW a \in Actors, Create(a) PROVE NumberInv'
    BY <1>9, NumberTaken DEF Create
  <1>10. ASSUME NEW a \in Actors, Prune(a) PROVE NumberInv'
    BY <1>10 DEF Prune
  <1>11. ASSUME NEW c \in Clients, NEW i \in Ids, Enter(c, i) PROVE NumberInv'
    BY <1>11 DEF Enter
  <1>12. ASSUME NEW c \in Clients, NEW i \in Ids, Stop(c, i) PROVE NumberInv'
    BY <1>12 DEF Stop
  <1>13. ASSUME NEW c \in Clients, NEW i \in Ids, Kill(c, i) PROVE NumberInv'
    BY <1>13 DEF Kill
  <1>14. ASSUME NEW i \in Ids, TickSkips(i) PROVE NumberInv'
    BY <1>14 DEF TickSkips
  <1>15. ASSUME NEW i \in Ids, TickReaps(i) PROVE NumberInv'
    BY <1>15 DEF TickReaps
  <1>16. ASSUME NEW i \in Ids, TickClassifies(i) PROVE NumberInv'
    <2>1. \A b \in Actors : Creating(b)' => Creating(b) /\ cur'[b] = cur[b]
      BY <1>16 DEF TickClassifies
    <2> QED
      BY <1>16, <2>1, NumberFrame DEF TickClassifies
  <1>17. ASSUME NEW i \in Ids, Watch(i) PROVE NumberInv'
    <2>1. \A b \in Actors : Creating(b)' => Creating(b) /\ cur'[b] = cur[b]
      BY <1>17 DEF Watch
    <2> QED
      BY <1>17, <2>1, NumberFrame DEF Watch
  <1>18. ASSUME NEW i \in Ids, KillNow(i) PROVE NumberInv'
    BY <1>18 DEF KillNow
  <1>19. ASSUME NEW i \in Ids, ProcessExits(i) PROVE NumberInv'
    BY <1>19 DEF ProcessExits
  <1>20. ASSUME TickBegins PROVE NumberInv'
    BY <1>20 DEF TickBegins
  <1>21. ASSUME Restore PROVE NumberInv'
    BY <1>21 DEF Restore, TakeNumber
  <1>22. ASSUME SkipRecord PROVE NumberInv'
    BY <1>22 DEF SkipRecord
  <1>23. ASSUME RestoreOver PROVE NumberInv'
    BY <1>23 DEF RestoreOver
  <1>24. ASSUME WatchOver PROVE NumberInv'
    BY <1>24 DEF WatchOver
  <1>25. ASSUME Discard PROVE NumberInv'
    <2>1. \A b \in Actors : Creating(b)' => Creating(b) /\ cur'[b] = cur[b]
      BY <1>25 DEF Discard
    <2> QED
      BY <1>25, <2>1, NumberFrame DEF Discard
  <1>26. ASSUME Recreate PROVE NumberInv'
    <2>1. CASE TakeNumber(Watcher)
      BY <1>26, <2>1, NumberTaken DEF Recreate
    <2>2. CASE Done(Watcher) /\ UNCHANGED nextId
      BY <1>26, <2>2, NumberFrame DEF Recreate
    <2> QED
      BY <1>26, <2>1, <2>2 DEF Recreate
  <1>27. ASSUME FinalPersist PROVE NumberInv'
    BY <1>27 DEF FinalPersist
  <1>28. ASSUME Unfreeze PROVE NumberInv'
    BY <1>28 DEF Unfreeze
  <1>29. ASSUME KillAll PROVE NumberInv'
    BY <1>29 DEF KillAll
  <1>30. ASSUME Exit PROVE NumberInv'
    BY <1>30 DEF Exit
  <1>31. ASSUME UNCHANGED vars PROVE NumberInv'
    BY <1>31 DEF vars
  <1> QED
    BY <1>1, <1>2, <1>3, <1>4, <1>4a, <1>5, <1>6, <1>7, <1>8, <1>9, <1>10, <1>11,
       <1>12, <1>13, <1>14, <1>15, <1>16, <1>17, <1>18, <1>19, <1>20,
       <1>21, <1>22, <1>23, <1>24, <1>25, <1>26, <1>27, <1>28, <1>29,
       <1>30, <1>31
    DEF Next, Resume, Request, Tick, RestoreThread, WatchThread, DrainThread,
        Terminated

-----------------------------------------------------------------------------
(* Numbers no session has had yet: those to come, those of the records that *)
(* wait to be restored, and those threads have in hand.                     *)
Awaiting == {toRestore[k].id : k \in DOMAIN toRestore}

Fresh == {i \in Ids : \/ i >= nextId
                      \/ i \in Awaiting
                      \/ \E a \in Actors : Creating(a) /\ cur[a] = i}

LEMMA AwaitingShrinks ==
  ASSUME TypeInv,
         UNCHANGED toRestore \/ (toRestore # <<>> /\ toRestore' = Tail(toRestore))
  PROVE  Awaiting' \subseteq Awaiting
  <1>1. CASE UNCHANGED toRestore
    BY <1>1 DEF Awaiting
  <1>2. CASE toRestore # <<>> /\ toRestore' = Tail(toRestore)
    <2>1. \A k \in DOMAIN toRestore' :
             k + 1 \in DOMAIN toRestore /\ toRestore'[k] = toRestore[k + 1]
      BY <1>2 DEF TypeInv, TypeOK
    <2> QED
      BY <2>1 DEF Awaiting
  <1> QED
    BY <1>1, <1>2

LEMMA HeadAwaits ==
  ASSUME TypeInv, toRestore # <<>>
  PROVE  Head(toRestore) \in Record /\ Head(toRestore).id \in Awaiting
  BY DEF TypeInv, TypeOK, Awaiting

(* A session of the board has had its number.                               *)
LEMMA BoardIsUsed == TypeInv /\ NumberInv => \A i \in table : i \notin Fresh
  BY DEF TypeInv, TypeOK, NumberInv, Fresh, Awaiting, Ids

(* A number that has been used is never fresh again.                        *)
LEMMA FreshStep == TypeInv /\ NumberInv /\ [Next]_vars => Fresh' \subseteq Fresh
  <1> SUFFICES ASSUME TypeInv, NumberInv, [Next]_vars PROVE Fresh' \subseteq Fresh
    OBVIOUS
  <1>0. ASSUME Awaiting' \subseteq Awaiting, nextId' = nextId,
               \A b \in Actors : Creating(b)' => Creating(b) /\ cur'[b] = cur[b]
        PROVE  Fresh' \subseteq Fresh
    BY <1>0 DEF Fresh, Ids
  <1>00. ASSUME NEW a \in Actors, NEW n \in Ids, n >= nextId \/ n \in Awaiting,
                Awaiting' \subseteq Awaiting, nextId' \in Nat, nextId' >= nextId,
                Goto(a, "spawn", n)
         PROVE  Fresh' \subseteq Fresh
    BY <1>00, MaxIdAssumption DEF Fresh, Ids, Goto, Creating, TypeInv, TypeOK
  <1> USE MaxIdAssumption, ActorFacts
      DEF TypeInv, TypeOK, Creating, Goto, Done, ThenPersist, Return,
          procVars, sessVars, listVars, threadVars
  <1>1. ASSUME NEW a \in Actors, PersistSkipped(a) PROVE Fresh' \subseteq Fresh
    BY <1>1, <1>0, AwaitingShrinks DEF PersistSkipped, MayWrite
  <1>2. ASSUME NEW a \in Actors, PersistBegin(a) PROVE Fresh' \subseteq Fresh
    BY <1>2, <1>0, AwaitingShrinks DEF PersistBegin, MayWrite
  <1>3. ASSUME NEW a \in Actors, ReadSession(a) PROVE Fresh' \subseteq Fresh
    BY <1>3, <1>0, AwaitingShrinks DEF ReadSession
  <1>4. ASSUME NEW a \in Actors, SaveList(a) PROVE Fresh' \subseteq Fresh
    BY <1>4, <1>0, AwaitingShrinks DEF SaveList
  <1>4a. ASSUME NEW a \in Actors, SaveFails(a) PROVE Fresh' \subseteq Fresh
    BY <1>4a, <1>0, AwaitingShrinks DEF SaveFails
  <1>5. ASSUME NEW a \in Actors, CreateFails(a) PROVE Fresh' \subseteq Fresh
    <2>1. UNCHANGED toRestore \/ (toRestore # <<>> /\ toRestore' = Tail(toRestore))
      BY <1>5 DEF CreateFails, RestTo
    <2> QED
      BY <1>5, <1>0, <2>1, AwaitingShrinks DEF CreateFails
  <1>6. ASSUME NEW a \in Actors, Insert(a) PROVE Fresh' \subseteq Fresh
    <2>1. UNCHANGED toRestore \/ (toRestore # <<>> /\ toRestore' = Tail(toRestore))
      BY <1>6 DEF Insert, RestTo
    <2> QED
      BY <1>6, <1>0, <2>1, AwaitingShrinks DEF Insert
  <1>7. ASSUME NEW a \in Actors, EnterMarks(a) PROVE Fresh' \subseteq Fresh
    BY <1>7, <1>0, AwaitingShrinks DEF EnterMarks
  <1>8. ASSUME NEW a \in Actors, PruneRemoves(a) PROVE Fresh' \subseteq Fresh
    BY <1>8, <1>0, AwaitingShrinks DEF PruneRemoves
  <1>9. ASSUME NEW a \in Actors, Create(a) PROVE Fresh' \subseteq Fresh
    <2>1. nextId \in Ids /\ nextId' = nextId + 1 /\ Goto(a, "spawn", nextId)
      BY <1>9 DEF Create, TakeNumber, Ids
    <2>2. nextId' \in Nat /\ nextId' >= nextId /\ nextId >= nextId
      BY <2>1 DEF Ids
    <2>3. Awaiting' \subseteq Awaiting
      BY <1>9, AwaitingShrinks DEF Create
    <2> HIDE DEF Goto
    <2> QED
      BY <1>00, <2>1, <2>2, <2>3
  <1>10. ASSUME NEW a \in Actors, Prune(a) PROVE Fresh' \subseteq Fresh
    BY <1>10, <1>0, AwaitingShrinks DEF Prune
  <1>11. ASSUME NEW c \in Clients, NEW i \in Ids, Enter(c, i) PROVE Fresh' \subseteq Fresh
    BY <1>11, <1>0, AwaitingShrinks DEF Enter
  <1>12. ASSUME NEW c \in Clients, NEW i \in Ids, Stop(c, i) PROVE Fresh' \subseteq Fresh
    BY <1>12, <1>0, AwaitingShrinks DEF Stop, StopSession
  <1>13. ASSUME NEW c \in Clients, NEW i \in Ids, Kill(c, i) PROVE Fresh' \subseteq Fresh
    BY <1>13, <1>0, AwaitingShrinks DEF Kill, StopSession
  <1>14. ASSUME NEW i \in Ids, TickSkips(i) PROVE Fresh' \subseteq Fresh
    BY <1>14, <1>0, AwaitingShrinks DEF TickSkips
  <1>15. ASSUME NEW i \in Ids, TickReaps(i) PROVE Fresh' \subseteq Fresh
    BY <1>15, <1>0, AwaitingShrinks DEF TickReaps
  <1>16. ASSUME NEW i \in Ids, TickClassifies(i) PROVE Fresh' \subseteq Fresh
    BY <1>16, <1>0, AwaitingShrinks DEF TickClassifies
  <1>17. ASSUME NEW i \in Ids, Watch(i) PROVE Fresh' \subseteq Fresh
    BY <1>17, <1>0, AwaitingShrinks DEF Watch
  <1>18. ASSUME NEW i \in Ids, KillNow(i) PROVE Fresh' \subseteq Fresh
    BY <1>18, <1>0, AwaitingShrinks DEF KillNow, StopSession
  <1>19. ASSUME NEW i \in Ids, ProcessExits(i) PROVE Fresh' \subseteq Fresh
    BY <1>19, <1>0, AwaitingShrinks DEF ProcessExits
  <1>20. ASSUME TickBegins PROVE Fresh' \subseteq Fresh
    BY <1>20, <1>0, AwaitingShrinks DEF TickBegins
  <1>21. ASSUME Restore PROVE Fresh' \subseteq Fresh
    <2>1. Head(toRestore).id \in Awaiting /\ Head(toRestore).id \in Ids
      BY <1>21, HeadAwaits DEF Restore, Record
    <2>2. Head(toRestore).id \notin table
      BY <2>1 DEF NumberInv, Awaiting
    <2>3. Goto(Restorer, "spawn", Head(toRestore).id) /\ UNCHANGED toRestore
      BY <1>21, <2>2 DEF Restore
    <2>4. nextId' \in Nat /\ nextId' >= nextId
      BY <1>21, <2>1, <2>2 DEF Restore, Ids
    <2> QED
      BY <1>00, <2>1, <2>3, <2>4, AwaitingShrinks
  <1>22. ASSUME SkipRecord PROVE Fresh' \subseteq Fresh
    BY <1>22, <1>0, AwaitingShrinks DEF SkipRecord
  <1>23. ASSUME RestoreOver PROVE Fresh' \subseteq Fresh
    BY <1>23, <1>0, AwaitingShrinks DEF RestoreOver
  <1>24. ASSUME WatchOver PROVE Fresh' \subseteq Fresh
    BY <1>24, <1>0, AwaitingShrinks DEF WatchOver
  <1>25. ASSUME Discard PROVE Fresh' \subseteq Fresh
    BY <1>25, <1>0, AwaitingShrinks DEF Discard
  <1>26. ASSUME Recreate PROVE Fresh' \subseteq Fresh
    <2>1. CASE TakeNumber(Watcher)
      <3>1. nextId \in Ids /\ nextId' = nextId + 1 /\ Goto(Watcher, "spawn", nextId)
        BY <2>1 DEF TakeNumber, Ids
      <3>2. nextId' \in Nat /\ nextId' >= nextId /\ nextId >= nextId
        BY <3>1 DEF Ids
      <3>3. Awaiting' \subseteq Awaiting
        BY <1>26, AwaitingShrinks DEF Recreate
      <3> HIDE DEF Goto
      <3> QED
        BY <1>00, <3>1, <3>2, <3>3
    <2>2. CASE Done(Watcher) /\ UNCHANGED nextId
      BY <1>26, <1>0, <2>2, AwaitingShrinks DEF Recreate
    <2> QED
      BY <1>26, <2>1, <2>2 DEF Recreate
  <1>27. ASSUME FinalPersist PROVE Fresh' \subseteq Fresh
    BY <1>27, <1>0, AwaitingShrinks DEF FinalPersist
  <1>28. ASSUME Unfreeze PROVE Fresh' \subseteq Fresh
    BY <1>28, <1>0, AwaitingShrinks DEF Unfreeze
  <1>29. ASSUME KillAll PROVE Fresh' \subseteq Fresh
    BY <1>29, <1>0, AwaitingShrinks DEF KillAll
  <1>30. ASSUME Exit PROVE Fresh' \subseteq Fresh
    BY <1>30, <1>0, AwaitingShrinks DEF Exit
  <1>31. ASSUME UNCHANGED vars PROVE Fresh' \subseteq Fresh
    BY <1>31, <1>0, AwaitingShrinks DEF vars
  <1> QED
    BY <1>1, <1>2, <1>3, <1>4, <1>4a, <1>5, <1>6, <1>7, <1>8, <1>9, <1>10, <1>11,
       <1>12, <1>13, <1>14, <1>15, <1>16, <1>17, <1>18, <1>19, <1>20,
       <1>21, <1>22, <1>23, <1>24, <1>25, <1>26, <1>27, <1>28, <1>29,
       <1>30, <1>31
    DEF Next, Resume, Request, Tick, RestoreThread, WatchThread, DrainThread,
        Terminated

-----------------------------------------------------------------------------
(* The processes.  An agent that runs is the agent of a session of the      *)
(* board that is not shown as stopped; what the first pass of prune has     *)
(* collected is dead and will not come to life.                             *)
ProcessInv ==
    /\ \A i \in Ids : alive[i] => i \in table /\ state[i] # "Stopped"
    /\ \A c \in Clients : \A i \in dead[c] : ~alive[i] /\ i \notin Fresh

LEMMA ProcessInit == Init => ProcessInv
  BY ActorFacts DEF Init, ProcessInv

LEMMA ProcessStep ==
    TypeInv /\ NumberInv /\ ProcessInv /\ Fresh' \subseteq Fresh /\ [Next]_vars
        => ProcessInv'
  <1> SUFFICES ASSUME TypeInv, NumberInv, ProcessInv, Fresh' \subseteq Fresh, [Next]_vars
               PROVE  ProcessInv'
    OBVIOUS
  <1>0. \A i \in table : i \notin Fresh
    BY BoardIsUsed
  <1> USE ActorFacts, <1>0
      DEF TypeInv, TypeOK, ProcessInv, Goto, Done, ThenPersist,
          Return, procVars, sessVars, listVars, threadVars
  <1>1. ASSUME NEW a \in Actors, PersistSkipped(a) PROVE ProcessInv'
    BY <1>1 DEF PersistSkipped, MayWrite
  <1>2. ASSUME NEW a \in Actors, PersistBegin(a) PROVE ProcessInv'
    BY <1>2 DEF PersistBegin, MayWrite
  <1>3. ASSUME NEW a \in Actors, ReadSession(a) PROVE ProcessInv'
    BY <1>3 DEF ReadSession
  <1>4. ASSUME NEW a \in Actors, SaveList(a) PROVE ProcessInv'
    BY <1>4 DEF SaveList
  <1>4a. ASSUME NEW a \in Actors, SaveFails(a) PROVE ProcessInv'
    BY <1>4a DEF SaveFails
  <1>5. ASSUME NEW a \in Actors, CreateFails(a) PROVE ProcessInv'
    BY <1>5 DEF CreateFails
  <1>6. ASSUME NEW a \in Actors, Insert(a) PROVE ProcessInv'
    <2>1. cur[a] \in Ids /\ cur[a] \in Fresh
      BY <1>6 DEF Insert, Fresh, Creating
    <2>2. \A i \in Ids : i # cur[a] =>
              alive'[i] = alive[i] /\ state'[i] = state[i] /\ (i \in table => i \in table')
      BY <1>6, <2>1 DEF Insert
    <2>3. cur[a] \in table' /\ state'[cur[a]] = "Live"
      BY <1>6, <2>1 DEF Insert
    <2>4. dead' = dead
      BY <1>6 DEF Insert
    <2>5. \A i \in Ids : alive'[i] => i \in table' /\ state'[i] # "Stopped"
      BY <2>2, <2>3
    <2>6. \A c \in Clients : \A i \in dead'[c] : i \in Ids /\ i # cur[a] /\ i \notin Fresh
      BY <2>1, <2>4
    <2> QED
      BY <2>2, <2>5, <2>6, <2>4
  <1>7. ASSUME NEW a \in Actors, EnterMarks(a) PROVE ProcessInv'
    BY <1>7 DEF EnterMarks
  <1>8. ASSUME NEW a \in Actors, PruneRemoves(a) PROVE ProcessInv'
    BY <1>8 DEF PruneRemoves
  <1>9. ASSUME NEW a \in Actors, Create(a) PROVE ProcessInv'
    BY <1>9 DEF Create, TakeNumber
  <1>10. ASSUME NEW a \in Actors, Prune(a) PROVE ProcessInv'
    BY <1>10 DEF Prune
  <1>11. ASSUME NEW c \in Clients, NEW i \in Ids, Enter(c, i) PROVE ProcessInv'
    BY <1>11 DEF Enter
  <1>11a. ASSUME NEW i \in Ids, StopSession(i), table' = table,
                 \A c \in Clients : dead'[c] \subseteq dead[c]
          PROVE  ProcessInv'
    <2>1. /\ ~alive'[i]
          /\ \A j \in Ids \ {i} : alive'[j] = alive[j] /\ state'[j] = state[j]
      BY <1>11a DEF StopSession
    <2>2. \A j \in Ids : alive'[j] => alive[j]
      BY <2>1
    <2>3. \A j \in Ids : alive'[j] => j \in table' /\ state'[j] # "Stopped"
      BY <2>1, <2>2, <1>11a
    <2>4. \A c \in Clients : \A j \in dead'[c] :
              j \in Ids /\ ~alive'[j] /\ j \notin Fresh'
      BY <1>11a, <2>2
    <2> QED
      BY <2>3, <2>4
  <1>12. ASSUME NEW c \in Clients, NEW i \in Ids, Stop(c, i) PROVE ProcessInv'
    <2>1. StopSession(i) /\ table' = table /\ dead' = dead
      BY <1>12 DEF Stop
    <2> QED
      BY <1>11a, <2>1
  <1>13. ASSUME NEW c \in Clients, NEW i \in Ids, Kill(c, i) PROVE ProcessInv'
    <2>1. StopSession(i) /\ table' = table /\ dead' = dead
      BY <1>13 DEF Kill
    <2> QED
      BY <1>11a, <2>1
  <1>14. ASSUME NEW i \in Ids, TickSkips(i) PROVE ProcessInv'
    BY <1>14 DEF TickSkips
  <1>15. ASSUME NEW i \in Ids, TickReaps(i) PROVE ProcessInv'
    BY <1>15 DEF TickReaps
  <1>16. ASSUME NEW i \in Ids, TickClassifies(i) PROVE ProcessInv'
    BY <1>16 DEF TickClassifies
  <1>17. ASSUME NEW i \in Ids, Watch(i) PROVE ProcessInv'
    BY <1>17 DEF Watch
  <1>18. ASSUME NEW i \in Ids, KillNow(i) PROVE ProcessInv'
    <2>1. table' = table /\ \A c \in Clients : dead'[c] \subseteq dead[c]
      BY <1>18 DEF KillNow
    <2>2. CASE state[i] # "Stopped"
      BY <1>11a, <1>18, <2>1, <2>2 DEF KillNow
    <2>3. CASE state[i] = "Stopped"
      <3>1. alive' = alive /\ state' = state
        BY <1>18, <2>3 DEF KillNow
      <3> QED
        BY <2>1, <3>1
    <2> QED
      BY <2>2, <2>3
  <1>19. ASSUME NEW i \in Ids, ProcessExits(i) PROVE ProcessInv'
    BY <1>19 DEF ProcessExits
  <1>20. ASSUME TickBegins PROVE ProcessInv'
    BY <1>20 DEF TickBegins
  <1>21. ASSUME Restore PROVE ProcessInv'
    BY <1>21 DEF Restore, TakeNumber
  <1>22. ASSUME SkipRecord PROVE ProcessInv'
    BY <1>22 DEF SkipRecord
  <1>23. ASSUME RestoreOver PROVE ProcessInv'
    BY <1>23 DEF RestoreOver
  <1>24. ASSUME WatchOver PROVE ProcessInv'
    BY <1>24 DEF WatchOver
  <1>25. ASSUME Discard PROVE ProcessInv'
    BY <1>25 DEF Discard
  <1>26. ASSUME Recreate PROVE ProcessInv'
    BY <1>26 DEF Recreate, TakeNumber
  <1>27. ASSUME FinalPersist PROVE ProcessInv'
    BY <1>27 DEF FinalPersist
  <1>28. ASSUME Unfreeze PROVE ProcessInv'
    BY <1>28 DEF Unfreeze
  <1>29. ASSUME KillAll PROVE ProcessInv'
    BY <1>29 DEF KillAll
  <1>30. ASSUME Exit PROVE ProcessInv'
    BY <1>30 DEF Exit
  <1>31. ASSUME UNCHANGED vars PROVE ProcessInv'
    BY <1>31 DEF vars
  <1> QED
    BY <1>1, <1>2, <1>3, <1>4, <1>4a, <1>5, <1>6, <1>7, <1>8, <1>9, <1>10, <1>11,
       <1>12, <1>13, <1>14, <1>15, <1>16, <1>17, <1>18, <1>19, <1>20,
       <1>21, <1>22, <1>23, <1>24, <1>25, <1>26, <1>27, <1>28, <1>29,
       <1>30, <1>31
    DEF Next, Resume, Request, Tick, RestoreThread, WatchThread, DrainThread,
        Terminated

-----------------------------------------------------------------------------
(* The list follows the board, because whoever changes the board goes on to *)
(* write the list, and cannot begin before the write under way has ended.   *)
(* While no such thread is waiting, the records collected so far and the    *)
(* sessions still to be looked at account for the board as it is, and the   *)
(* list on disk does once nobody is writing.                                *)
Waiting == \E a \in Actors : pc[a] = "list"

Drafted == {r.id : r \in draft}

DraftFollows ==
    /\ unread \subseteq table
    /\ \A i \in table : alive[i] => i \in unread \/ i \in Drafted
    /\ \A i \in Drafted : i \in table /\ state[i] # "Stopped"

FileFollows ==
    /\ \A i \in table : alive[i] => i \in Listed
    /\ \A i \in Listed : i \in table /\ state[i] # "Stopped"

PendingInv ==
    /\ listLock # Nobody => Waiting \/ DraftFollows
    /\ listLock = Nobody /\ ~stale /\ pc[Drainer] \notin {"kill", "gone"}
          => Waiting \/ FileFollows
    /\ pc[Drainer] = "gone" => frozen

LEMMA PendingInit == Init => PendingInv
  BY ActorFacts DEF Init, PendingInv

(* A thread that goes on to write the list settles it ...                   *)
LEMMA PendingLater ==
  ASSUME Waiting', pc'[Drainer] = "gone" => frozen'
  PROVE  PendingInv'
  BY DEF PendingInv

(* ... and so does a step that leaves the board as it was, or lets nothing  *)
(* but an agent die or a session look alive.                                *)
LEMMA PendingFrame ==
  ASSUME TypeInv, PendingInv,
         Waiting => Waiting', pc'[Drainer] = "gone" => frozen',
         pc'[Drainer] \notin {"kill", "gone"} => pc[Drainer] \notin {"kill", "gone"},
         UNCHANGED <<table, file, draft, unread, listLock, stale>>,
         \A i \in Ids : (alive'[i] => alive[i])
                        /\ (state[i] # "Stopped" => state'[i] # "Stopped")
  PROVE  PendingInv'
  <1>1. Listed' = Listed /\ Drafted' = Drafted
    BY DEF Listed, Drafted
  <1>2. Listed \subseteq Ids /\ Drafted \subseteq Ids
    BY DEF TypeInv, TypeOK, Listed, Drafted, Record
  <1>3. DraftFollows => DraftFollows'
    BY <1>1, <1>2 DEF DraftFollows, TypeInv, TypeOK
  <1>4. FileFollows => FileFollows'
    BY <1>1, <1>2 DEF FileFollows, TypeInv, TypeOK
  <1> QED
    BY <1>3, <1>4 DEF PendingInv

LEMMA PendingStep ==
    TypeInv /\ LockInv /\ ProcessInv /\ PendingInv /\ [Next]_vars => PendingInv'
  <1> SUFFICES ASSUME TypeInv, LockInv, ProcessInv, PendingInv, [Next]_vars
               PROVE  PendingInv'
    OBVIOUS
  <1> USE ActorFacts
      DEF TypeInv, TypeOK, LockInv, Goto, Done, ThenPersist,
          Return, procVars, sessVars, listVars, threadVars
  <1>g. pc[Drainer] = "gone" => frozen
    BY DEF PendingInv
  <1>1. ASSUME NEW a \in Actors, PersistSkipped(a) PROVE PendingInv'
    <2>1. stale' /\ listLock' = Nobody /\ (pc'[Drainer] = "gone" => frozen')
      BY <1>1, <1>g DEF PersistSkipped, MayWrite
    <2> QED
      BY <2>1 DEF PendingInv
  <1>2. ASSUME NEW a \in Actors, PersistBegin(a) PROVE PendingInv'
    <2>1. listLock' = a /\ DraftFollows' /\ (pc'[Drainer] = "gone" => frozen')
      BY <1>2, <1>g DEF PersistBegin, MayWrite, DraftFollows, Drafted
    <2> QED
      BY <2>1 DEF PendingInv
  <1>3. ASSUME NEW a \in Actors, ReadSession(a) PROVE PendingInv'
    <2>1. PICK i \in unread :
             /\ unread' = unread \ {i}
             /\ draft' = IF state[i] = "Stopped" THEN draft
                         ELSE draft \cup {RecordOf(i)}
      BY <1>3 DEF ReadSession
    <2>2. UNCHANGED <<table, alive, state, listLock, pc>> /\ listLock # Nobody /\ frozen' = frozen
      BY <1>3 DEF ReadSession
    <2>3. Drafted' = IF state[i] = "Stopped" THEN Drafted ELSE Drafted \cup {i}
      <3>1. RecordOf(i).id = i
        BY DEF RecordOf
      <3> QED
        BY <2>1, <3>1 DEF Drafted
    <2>4. state[i] = "Stopped" => ~alive[i]
      BY <2>1 DEF ProcessInv
    <2>5. DraftFollows => DraftFollows'
      BY <2>1, <2>2, <2>3, <2>4 DEF DraftFollows
    <2> QED
      BY <2>2, <2>5, <1>g DEF PendingInv, Waiting
  <1>4. ASSUME NEW a \in Actors, SaveList(a) PROVE PendingInv'
    <2>1. /\ pc[a] = "read" /\ listLock = a /\ unread = {}
          /\ file' = draft /\ listLock' = Nobody
          /\ UNCHANGED <<table, alive, state>>
      BY <1>4 DEF SaveList
    <2>2. Waiting => Waiting'
      BY <1>4 DEF SaveList, Waiting
    <2>3. DraftFollows => FileFollows'
      BY <2>1 DEF DraftFollows, FileFollows, Drafted, Listed
    <2>4. pc'[Drainer] = "gone" => frozen'
      BY <1>4, <1>g DEF SaveList
    <2> QED
      BY <2>1, <2>2, <2>3, <2>4 DEF PendingInv
  <1>4a. ASSUME NEW a \in Actors, SaveFails(a) PROVE PendingInv'
    <2>1. stale' /\ listLock' = Nobody /\ (pc'[Drainer] = "gone" => frozen')
      BY <1>4a, <1>g DEF SaveFails
    <2> QED
      BY <2>1 DEF PendingInv
  <1>5. ASSUME NEW a \in Actors, CreateFails(a) PROVE PendingInv'
    <2>1. (Waiting => Waiting') /\ (pc'[Drainer] \in {"kill", "gone"} <=> pc[Drainer] \in {"kill", "gone"})
          /\ (pc'[Drainer] = "gone" => frozen')
      BY <1>5, <1>g DEF CreateFails, Waiting
    <2> QED
      BY <1>5, <2>1, PendingFrame DEF CreateFails
  <1>6. ASSUME NEW a \in Actors, Insert(a) PROVE PendingInv'
    <2>1. pc'[a] = "list" /\ (pc'[Drainer] = "gone" => frozen')
      BY <1>6, <1>g DEF Insert
    <2> QED
      BY <2>1, PendingLater DEF Waiting
  <1>7. ASSUME NEW a \in Actors, EnterMarks(a) PROVE PendingInv'
    <2>1. (Waiting => Waiting') /\ (pc'[Drainer] \in {"kill", "gone"} <=> pc[Drainer] \in {"kill", "gone"})
          /\ (pc'[Drainer] = "gone" => frozen')
      BY <1>7, <1>g DEF EnterMarks, Waiting
    <2> QED
      BY <1>7, <2>1, PendingFrame DEF EnterMarks
  <1>8. ASSUME NEW a \in Actors, PruneRemoves(a) PROVE PendingInv'
    <2>1. CASE dead[a] \cap table # {}
      <3>1. pc'[a] = "list" /\ (pc'[Drainer] = "gone" => frozen')
        BY <1>8, <1>g, <2>1 DEF PruneRemoves
      <3> QED
        BY <3>1, PendingLater DEF Waiting
    <2>2. CASE ~(dead[a] \cap table # {})
      <3>1. (Waiting => Waiting') /\ (pc'[Drainer] \in {"kill", "gone"} <=> pc[Drainer] \in {"kill", "gone"})
            /\ (pc'[Drainer] = "gone" => frozen')
        BY <1>8, <1>g, <2>2 DEF PruneRemoves, Waiting
      <3>2. table' = table
        BY <1>8, <2>2 DEF PruneRemoves
      <3> QED
        BY <1>8, <2>2, <3>1, <3>2, PendingFrame DEF PruneRemoves
    <2> QED
      BY <2>1, <2>2
  <1>9. ASSUME NEW a \in Actors, Create(a) PROVE PendingInv'
    <2>1. (Waiting => Waiting') /\ (pc'[Drainer] \in {"kill", "gone"} <=> pc[Drainer] \in {"kill", "gone"})
          /\ (pc'[Drainer] = "gone" => frozen')
      BY <1>9, <1>g DEF Create, TakeNumber, Waiting
    <2> QED
      BY <1>9, <2>1, PendingFrame DEF Create, TakeNumber
  <1>10. ASSUME NEW a \in Actors, Prune(a) PROVE PendingInv'
    <2>1. (Waiting => Waiting') /\ (pc'[Drainer] \in {"kill", "gone"} <=> pc[Drainer] \in {"kill", "gone"})
          /\ (pc'[Drainer] = "gone" => frozen')
      BY <1>10, <1>g DEF Prune, Waiting
    <2> QED
      BY <1>10, <2>1, PendingFrame DEF Prune
  <1>11. ASSUME NEW c \in Clients, NEW i \in Ids, Enter(c, i) PROVE PendingInv'
    <2>1. (Waiting => Waiting') /\ (pc'[Drainer] \in {"kill", "gone"} <=> pc[Drainer] \in {"kill", "gone"})
          /\ (pc'[Drainer] = "gone" => frozen')
      BY <1>11, <1>g DEF Enter, Waiting
    <2> QED
      BY <1>11, <2>1, PendingFrame DEF Enter
  <1>12. ASSUME NEW c \in Clients, NEW i \in Ids, Stop(c, i) PROVE PendingInv'
    <2>1. pc'[c] = "list" /\ (pc'[Drainer] = "gone" => frozen')
      BY <1>12, <1>g DEF Stop, StopSession
    <2> QED
      BY <2>1, PendingLater DEF Waiting
  <1>13. ASSUME NEW c \in Clients, NEW i \in Ids, Kill(c, i) PROVE PendingInv'
    <2>1. pc'[c] = "list" /\ (pc'[Drainer] = "gone" => frozen')
      BY <1>13, <1>g DEF Kill, StopSession
    <2> QED
      BY <2>1, PendingLater DEF Waiting
  <1>14. ASSUME NEW i \in Ids, TickSkips(i) PROVE PendingInv'
    <2>1. (Waiting => Waiting') /\ (pc'[Drainer] \in {"kill", "gone"} <=> pc[Drainer] \in {"kill", "gone"})
          /\ (pc'[Drainer] = "gone" => frozen')
      BY <1>14, <1>g DEF TickSkips, Waiting
    <2> QED
      BY <1>14, <2>1, PendingFrame DEF TickSkips
  <1>15. ASSUME NEW i \in Ids, TickReaps(i) PROVE PendingInv'
    <2>1. pc'[Ticker] = "list" /\ (pc'[Drainer] = "gone" => frozen')
      BY <1>15, <1>g DEF TickReaps
    <2> QED
      BY <2>1, PendingLater DEF Waiting
  <1>16. ASSUME NEW i \in Ids, TickClassifies(i) PROVE PendingInv'
    <2>1. (Waiting => Waiting') /\ (pc'[Drainer] \in {"kill", "gone"} <=> pc[Drainer] \in {"kill", "gone"})
          /\ (pc'[Drainer] = "gone" => frozen')
      BY <1>16, <1>g DEF TickClassifies, Waiting
    <2> QED
      BY <1>16, <2>1, PendingFrame DEF TickClassifies
  <1>17. ASSUME NEW i \in Ids, Watch(i) PROVE PendingInv'
    <2>1. (Waiting => Waiting') /\ (pc'[Drainer] \in {"kill", "gone"} <=> pc[Drainer] \in {"kill", "gone"})
          /\ (pc'[Drainer] = "gone" => frozen')
      BY <1>17, <1>g DEF Watch, Waiting
    <2> QED
      BY <1>17, <2>1, PendingFrame DEF Watch
  <1>18. ASSUME NEW i \in Ids, KillNow(i) PROVE PendingInv'
    <2>1. frozen /\ listLock = Nobody
      BY <1>18 DEF KillNow
    <2> QED
      BY <1>18, <2>1 DEF KillNow, PendingInv
  <1>19. ASSUME NEW i \in Ids, ProcessExits(i) PROVE PendingInv'
    <2>1. (Waiting => Waiting') /\ (pc'[Drainer] \in {"kill", "gone"} <=> pc[Drainer] \in {"kill", "gone"})
          /\ (pc'[Drainer] = "gone" => frozen')
      BY <1>19, <1>g DEF ProcessExits, Waiting
    <2> QED
      BY <1>19, <2>1, PendingFrame DEF ProcessExits
  <1>20. ASSUME TickBegins PROVE PendingInv'
    <2>1. (Waiting => Waiting') /\ (pc'[Drainer] \in {"kill", "gone"} <=> pc[Drainer] \in {"kill", "gone"})
          /\ (pc'[Drainer] = "gone" => frozen')
      BY <1>20, <1>g DEF TickBegins, Waiting
    <2> QED
      BY <1>20, <2>1, PendingFrame DEF TickBegins
  <1>21. ASSUME Restore PROVE PendingInv'
    <2>1. (Waiting => Waiting') /\ (pc'[Drainer] \in {"kill", "gone"} <=> pc[Drainer] \in {"kill", "gone"})
          /\ (pc'[Drainer] = "gone" => frozen')
      BY <1>21, <1>g DEF Restore, TakeNumber, Waiting
    <2> QED
      BY <1>21, <2>1, PendingFrame DEF Restore, TakeNumber
  <1>22. ASSUME SkipRecord PROVE PendingInv'
    <2>1. (Waiting => Waiting') /\ (pc'[Drainer] \in {"kill", "gone"} <=> pc[Drainer] \in {"kill", "gone"})
          /\ (pc'[Drainer] = "gone" => frozen')
      BY <1>22, <1>g DEF SkipRecord, Waiting
    <2> QED
      BY <1>22, <2>1, PendingFrame DEF SkipRecord
  <1>23. ASSUME RestoreOver PROVE PendingInv'
    <2>1. (Waiting => Waiting') /\ (pc'[Drainer] \in {"kill", "gone"} <=> pc[Drainer] \in {"kill", "gone"})
          /\ (pc'[Drainer] = "gone" => frozen')
      BY <1>23, <1>g DEF RestoreOver, Waiting
    <2> QED
      BY <1>23, <2>1, PendingFrame DEF RestoreOver
  <1>24. ASSUME WatchOver PROVE PendingInv'
    <2>1. (Waiting => Waiting') /\ (pc'[Drainer] \in {"kill", "gone"} <=> pc[Drainer] \in {"kill", "gone"})
          /\ (pc'[Drainer] = "gone" => frozen')
      BY <1>24, <1>g DEF WatchOver, Waiting
    <2> QED
      BY <1>24, <2>1, PendingFrame DEF WatchOver
  <1>25. ASSUME Discard PROVE PendingInv'
    <2>1. CASE cur[Watcher] \in table
      <3>1. pc'[Watcher] = "list" /\ (pc'[Drainer] = "gone" => frozen')
        BY <1>25, <1>g, <2>1 DEF Discard
      <3> QED
        BY <3>1, PendingLater DEF Waiting
    <2>2. CASE ~(cur[Watcher] \in table)
      <3>1. (Waiting => Waiting') /\ (pc'[Drainer] \in {"kill", "gone"} <=> pc[Drainer] \in {"kill", "gone"})
            /\ (pc'[Drainer] = "gone" => frozen')
        BY <1>25, <1>g, <2>2 DEF Discard, Waiting
      <3>2. table' = table
        BY <1>25, <2>2 DEF Discard
      <3> QED
        BY <1>25, <2>2, <3>1, <3>2, PendingFrame DEF Discard
    <2> QED
      BY <2>1, <2>2
  <1>26. ASSUME Recreate PROVE PendingInv'
    <2>1. (Waiting => Waiting') /\ (pc'[Drainer] \in {"kill", "gone"} <=> pc[Drainer] \in {"kill", "gone"})
          /\ (pc'[Drainer] = "gone" => frozen')
      BY <1>26, <1>g DEF Recreate, TakeNumber, Waiting
    <2> QED
      BY <1>26, <2>1, PendingFrame DEF Recreate, TakeNumber
  <1>27. ASSUME FinalPersist PROVE PendingInv'
    <2>1. pc'[Drainer] = "list" /\ (pc'[Drainer] = "gone" => frozen')
      BY <1>27, <1>g DEF FinalPersist
    <2> QED
      BY <2>1, PendingLater DEF Waiting
  <1>28. ASSUME Unfreeze PROVE PendingInv'
    <2>1. (Waiting => Waiting') /\ (pc'[Drainer] \in {"kill", "gone"} <=> pc[Drainer] \in {"kill", "gone"})
          /\ (pc'[Drainer] = "gone" => frozen')
      BY <1>28, <1>g DEF Unfreeze, Waiting
    <2> QED
      BY <1>28, <2>1, PendingFrame DEF Unfreeze
  <1>29. ASSUME KillAll PROVE PendingInv'
    <2>1. (Waiting => Waiting') /\ pc'[Drainer] = "kill"
          /\ (pc'[Drainer] = "gone" => frozen')
      BY <1>29, <1>g DEF KillAll, Waiting
    <2> QED
      BY <1>29, <2>1, PendingFrame DEF KillAll
  <1>30. ASSUME Exit PROVE PendingInv'
    <2>1. frozen /\ listLock = Nobody
      BY <1>30 DEF Exit
    <2> QED
      BY <1>30, <2>1 DEF Exit, PendingInv
  <1>31. ASSUME UNCHANGED vars PROVE PendingInv'
    <2>1. (Waiting => Waiting') /\ (pc'[Drainer] \in {"kill", "gone"} <=> pc[Drainer] \in {"kill", "gone"})
          /\ (pc'[Drainer] = "gone" => frozen')
      BY <1>31, <1>g DEF vars, Waiting
    <2> QED
      BY <1>31, <2>1, PendingFrame DEF vars
  <1> QED
    BY <1>1, <1>2, <1>3, <1>4, <1>4a, <1>5, <1>6, <1>7, <1>8, <1>9, <1>10, <1>11,
       <1>12, <1>13, <1>14, <1>15, <1>16, <1>17, <1>18, <1>19, <1>20,
       <1>21, <1>22, <1>23, <1>24, <1>25, <1>26, <1>27, <1>28, <1>29,
       <1>30, <1>31
    DEF Next, Resume, Request, Tick, RestoreThread, WatchThread, DrainThread,
        Terminated

-----------------------------------------------------------------------------
(* The numbers of the list.  Whatever was read from the board, or is on     *)
(* disk, had its number before, unless it is an inherited record that still *)
(* waits to be restored; and the drainer works only after the restore.      *)
RecordInv ==
    /\ \A i \in unread : i \notin Fresh
    /\ \A i \in Drafted : i \notin Fresh
    /\ \A i \in Listed : i \in Fresh => i \in Awaiting
    /\ pc[Restorer] = "over" => toRestore = <<>>
    /\ pc[Drainer] \in {"list", "read", "swap", "kill"} => pc[Restorer] = "over"

LEMMA RecordInit == Init => RecordInv
  BY ActorFacts DEF Init, RecordInv, Drafted, Listed, Awaiting

(* The head of the queue is used up when it leaves the queue.               *)
LEMMA HeadLeaves ==
  ASSUME TypeInv, NumberInv, nextId' = nextId,
         \A b \in Actors : Creating(b)' =>
             Creating(b) /\ cur'[b] = cur[b] /\ b # Restorer,
         NEW i \in Awaiting, i \notin Awaiting'
  PROVE  i \notin Fresh'
  <1>1. i < nextId /\ i \in Nat /\ nextId \in Nat
    <2>1. PICK k \in DOMAIN toRestore : toRestore[k].id = i
      BY DEF Awaiting
    <2>2. toRestore[k] \in Record
      BY <2>1 DEF TypeInv, TypeOK
    <2> QED
      BY <2>1, <2>2, MaxIdAssumption DEF NumberInv, Record, Ids, TypeInv, TypeOK
  <1>2. \A b \in Actors : Creating(b)' => cur'[b] # i
    BY DEF NumberInv, Awaiting
  <1> QED
    BY <1>1, <1>2 DEF Fresh

(* A step that neither writes nor collects, and leaves the queue alone,     *)
(* keeps the invariant.                                                     *)
LEMMA RecordFrame ==
  ASSUME TypeInv, RecordInv, Fresh' \subseteq Fresh,
         UNCHANGED <<file, draft, unread, toRestore>>,
         pc'[Restorer] = "over" => pc[Restorer] = "over",
         pc'[Drainer] \in {"list", "read", "swap", "kill"} =>
             pc[Drainer] \in {"list", "read", "swap", "kill"}
             /\ (pc[Restorer] = "over" => pc'[Restorer] = "over")
  PROVE  RecordInv'
  BY DEF RecordInv, Listed, Drafted, Awaiting

LEMMA RecordStep ==
    TypeInv /\ LockInv /\ NumberInv /\ RecordInv /\ Fresh' \subseteq Fresh
        /\ [Next]_vars => RecordInv'
  <1> SUFFICES ASSUME TypeInv, LockInv, NumberInv, RecordInv, Fresh' \subseteq Fresh,
                      [Next]_vars
               PROVE  RecordInv'
    OBVIOUS
  <1>0. \A i \in table : i \notin Fresh
    BY BoardIsUsed
  <1> USE ActorFacts
      DEF TypeInv, TypeOK, LockInv, Goto, Done, ThenPersist,
          Return, procVars, sessVars, listVars, threadVars
  <1>1. ASSUME NEW a \in Actors, PersistSkipped(a) PROVE RecordInv'
    <2>1. /\ pc'[Restorer] = "over" => pc[Restorer] = "over"
          /\ pc'[Drainer] \in {"list", "read", "swap", "kill"} =>
                pc[Drainer] \in {"list", "read", "swap", "kill"}
                /\ (pc[Restorer] = "over" => pc'[Restorer] = "over")
      BY <1>1 DEF PersistSkipped, MayWrite
    <2> QED
      BY <1>1, <2>1, RecordFrame DEF PersistSkipped, MayWrite
  <1>2. ASSUME NEW a \in Actors, PersistBegin(a) PROVE RecordInv'
    <2>1. unread' = table /\ draft' = {} /\ UNCHANGED <<file, toRestore>>
          /\ (pc'[Restorer] = "over" <=> pc[Restorer] = "over")
          /\ (pc'[Drainer] \in {"list", "read", "swap", "kill"} =>
                 pc[Drainer] \in {"list", "read", "swap", "kill"})
      BY <1>2 DEF PersistBegin, MayWrite
    <2>2. Drafted' = {} /\ Listed' = Listed /\ Awaiting' = Awaiting
      BY <2>1 DEF Drafted, Listed, Awaiting
    <2> QED
      BY <1>0, <2>1, <2>2 DEF RecordInv
  <1>3. ASSUME NEW a \in Actors, ReadSession(a) PROVE RecordInv'
    <2>1. PICK i \in unread :
             /\ unread' = unread \ {i}
             /\ draft' = IF state[i] = "Stopped" THEN draft
                         ELSE draft \cup {RecordOf(i)}
      BY <1>3 DEF ReadSession
    <2>2. Drafted' \subseteq Drafted \cup {i}
      BY <2>1 DEF Drafted, RecordOf
    <2>3. UNCHANGED <<file, toRestore, pc>>
      BY <1>3 DEF ReadSession
    <2>4. Listed' = Listed /\ Awaiting' = Awaiting
      BY <2>3 DEF Listed, Awaiting
    <2> QED
      BY <2>1, <2>2, <2>3, <2>4 DEF RecordInv
  <1>4. ASSUME NEW a \in Actors, SaveList(a) PROVE RecordInv'
    <2>1. /\ file' = draft /\ draft' = {} /\ UNCHANGED <<unread, toRestore>>
          /\ pc'[Restorer] = "over" <=> pc[Restorer] = "over"
          /\ pc'[Drainer] \in {"list", "read", "swap", "kill"} =>
                 pc[Drainer] \in {"list", "read", "swap", "kill"}
      BY <1>4 DEF SaveList
    <2>2. Listed' = Drafted /\ Drafted' = {} /\ Awaiting' = Awaiting
      BY <2>1 DEF Listed, Drafted, Awaiting
    <2> QED
      BY <2>1, <2>2 DEF RecordInv
  <1>4a. ASSUME NEW a \in Actors, SaveFails(a) PROVE RecordInv'
    <2>1. /\ draft' = {} /\ UNCHANGED <<file, unread, toRestore>>
          /\ pc'[Restorer] = "over" <=> pc[Restorer] = "over"
          /\ pc'[Drainer] \in {"list", "read", "swap", "kill"} =>
                 pc[Drainer] \in {"list", "read", "swap", "kill"}
      BY <1>4a DEF SaveFails
    <2>2. Listed' = Listed /\ Drafted' = {} /\ Awaiting' = Awaiting
      BY <2>1 DEF Listed, Drafted, Awaiting
    <2> QED
      BY <2>1, <2>2 DEF RecordInv
  <1>5. ASSUME NEW a \in Actors, CreateFails(a) PROVE RecordInv'
    <2>1. CASE a # Restorer
      <3>1. UNCHANGED <<file, draft, unread, toRestore>>
        BY <1>5, <2>1 DEF CreateFails, RestTo
      <3>2. /\ pc'[Restorer] = pc[Restorer]
            /\ pc'[Drainer] \in {"list", "read", "swap", "kill"} =>
                   pc[Drainer] \in {"list", "read", "swap", "kill"}
        BY <1>5, <2>1 DEF CreateFails
      <3> QED
        BY <3>1, <3>2, RecordFrame
    <2>2. CASE a = Restorer
      <3>1. /\ toRestore # <<>> /\ nextId' = nextId
            /\ \A b \in Actors : Creating(b)' =>
                  Creating(b) /\ cur'[b] = cur[b] /\ b # Restorer
            /\ UNCHANGED <<file, draft, unread>>
            /\ pc'[Restorer] # "over" /\ pc[Restorer] # "over"
            /\ pc'[Drainer] = pc[Drainer]
        BY <1>5, <2>2 DEF CreateFails, Creating
      <3>2. Listed' = Listed /\ Drafted' = Drafted
        BY <3>1 DEF Listed, Drafted
      <3>3. \A i \in Awaiting : i \notin Awaiting' => i \notin Fresh'
        BY <3>1, HeadLeaves
      <3> QED
        BY <3>1, <3>2, <3>3 DEF RecordInv
    <2> QED
      BY <2>1, <2>2
  <1>6. ASSUME NEW a \in Actors, Insert(a) PROVE RecordInv'
    <2>1. CASE a # Restorer
      <3>1. UNCHANGED <<file, draft, unread, toRestore>>
        BY <1>6, <2>1 DEF Insert, RestTo
      <3>2. /\ pc'[Restorer] = pc[Restorer]
            /\ pc'[Drainer] \in {"list", "read", "swap", "kill"} =>
                   pc[Drainer] \in {"list", "read", "swap", "kill"}
        BY <1>6, <2>1 DEF Insert
      <3> QED
        BY <3>1, <3>2, RecordFrame
    <2>2. CASE a = Restorer
      <3>1. /\ toRestore # <<>> /\ nextId' = nextId
            /\ \A b \in Actors : Creating(b)' =>
                  Creating(b) /\ cur'[b] = cur[b] /\ b # Restorer
            /\ UNCHANGED <<file, draft, unread>>
            /\ pc'[Restorer] # "over" /\ pc[Restorer] # "over"
            /\ pc'[Drainer] = pc[Drainer]
        BY <1>6, <2>2 DEF Insert, Creating
      <3>2. Listed' = Listed /\ Drafted' = Drafted
        BY <3>1 DEF Listed, Drafted
      <3>3. \A i \in Awaiting : i \notin Awaiting' => i \notin Fresh'
        BY <3>1, HeadLeaves
      <3> QED
        BY <3>1, <3>2, <3>3 DEF RecordInv
    <2> QED
      BY <2>1, <2>2
  <1>7. ASSUME NEW a \in Actors, EnterMarks(a) PROVE RecordInv'
    <2>1. /\ pc'[Restorer] = "over" => pc[Restorer] = "over"
          /\ pc'[Drainer] \in {"list", "read", "swap", "kill"} =>
                pc[Drainer] \in {"list", "read", "swap", "kill"}
                /\ (pc[Restorer] = "over" => pc'[Restorer] = "over")
      BY <1>7 DEF EnterMarks
    <2> QED
      BY <1>7, <2>1, RecordFrame DEF EnterMarks
  <1>8. ASSUME NEW a \in Actors, PruneRemoves(a) PROVE RecordInv'
    <2>1. /\ pc'[Restorer] = "over" => pc[Restorer] = "over"
          /\ pc'[Drainer] \in {"list", "read", "swap", "kill"} =>
                pc[Drainer] \in {"list", "read", "swap", "kill"}
                /\ (pc[Restorer] = "over" => pc'[Restorer] = "over")
      BY <1>8 DEF PruneRemoves
    <2> QED
      BY <1>8, <2>1, RecordFrame DEF PruneRemoves
  <1>9. ASSUME NEW a \in Actors, Create(a) PROVE RecordInv'
    <2>1. /\ pc'[Restorer] = "over" => pc[Restorer] = "over"
          /\ pc'[Drainer] \in {"list", "read", "swap", "kill"} =>
                pc[Drainer] \in {"list", "read", "swap", "kill"}
                /\ (pc[Restorer] = "over" => pc'[Restorer] = "over")
      BY <1>9 DEF Create, TakeNumber
    <2> QED
      BY <1>9, <2>1, RecordFrame DEF Create, TakeNumber
  <1>10. ASSUME NEW a \in Actors, Prune(a) PROVE RecordInv'
    <2>1. /\ pc'[Restorer] = "over" => pc[Restorer] = "over"
          /\ pc'[Drainer] \in {"list", "read", "swap", "kill"} =>
                pc[Drainer] \in {"list", "read", "swap", "kill"}
                /\ (pc[Restorer] = "over" => pc'[Restorer] = "over")
      BY <1>10 DEF Prune
    <2> QED
      BY <1>10, <2>1, RecordFrame DEF Prune
  <1>11. ASSUME NEW c \in Clients, NEW i \in Ids, Enter(c, i) PROVE RecordInv'
    <2>1. /\ pc'[Restorer] = "over" => pc[Restorer] = "over"
          /\ pc'[Drainer] \in {"list", "read", "swap", "kill"} =>
                pc[Drainer] \in {"list", "read", "swap", "kill"}
                /\ (pc[Restorer] = "over" => pc'[Restorer] = "over")
      BY <1>11 DEF Enter
    <2> QED
      BY <1>11, <2>1, RecordFrame DEF Enter
  <1>12. ASSUME NEW c \in Clients, NEW i \in Ids, Stop(c, i) PROVE RecordInv'
    <2>1. /\ pc'[Restorer] = "over" => pc[Restorer] = "over"
          /\ pc'[Drainer] \in {"list", "read", "swap", "kill"} =>
                pc[Drainer] \in {"list", "read", "swap", "kill"}
                /\ (pc[Restorer] = "over" => pc'[Restorer] = "over")
      BY <1>12 DEF Stop, StopSession
    <2> QED
      BY <1>12, <2>1, RecordFrame DEF Stop, StopSession
  <1>13. ASSUME NEW c \in Clients, NEW i \in Ids, Kill(c, i) PROVE RecordInv'
    <2>1. /\ pc'[Restorer] = "over" => pc[Restorer] = "over"
          /\ pc'[Drainer] \in {"list", "read", "swap", "kill"} =>
                pc[Drainer] \in {"list", "read", "swap", "kill"}
                /\ (pc[Restorer] = "over" => pc'[Restorer] = "over")
      BY <1>13 DEF Kill, StopSession
    <2> QED
      BY <1>13, <2>1, RecordFrame DEF Kill, StopSession
  <1>14. ASSUME NEW i \in Ids, TickSkips(i) PROVE RecordInv'
    <2>1. /\ pc'[Restorer] = "over" => pc[Restorer] = "over"
          /\ pc'[Drainer] \in {"list", "read", "swap", "kill"} =>
                pc[Drainer] \in {"list", "read", "swap", "kill"}
                /\ (pc[Restorer] = "over" => pc'[Restorer] = "over")
      BY <1>14 DEF TickSkips
    <2> QED
      BY <1>14, <2>1, RecordFrame DEF TickSkips
  <1>15. ASSUME NEW i \in Ids, TickReaps(i) PROVE RecordInv'
    <2>1. /\ pc'[Restorer] = "over" => pc[Restorer] = "over"
          /\ pc'[Drainer] \in {"list", "read", "swap", "kill"} =>
                pc[Drainer] \in {"list", "read", "swap", "kill"}
                /\ (pc[Restorer] = "over" => pc'[Restorer] = "over")
      BY <1>15 DEF TickReaps
    <2> QED
      BY <1>15, <2>1, RecordFrame DEF TickReaps
  <1>16. ASSUME NEW i \in Ids, TickClassifies(i) PROVE RecordInv'
    <2>1. /\ pc'[Restorer] = "over" => pc[Restorer] = "over"
          /\ pc'[Drainer] \in {"list", "read", "swap", "kill"} =>
                pc[Drainer] \in {"list", "read", "swap", "kill"}
                /\ (pc[Restorer] = "over" => pc'[Restorer] = "over")
      BY <1>16 DEF TickClassifies
    <2> QED
      BY <1>16, <2>1, RecordFrame DEF TickClassifies
  <1>17. ASSUME NEW i \in Ids, Watch(i) PROVE RecordInv'
    <2>1. /\ pc'[Restorer] = "over" => pc[Restorer] = "over"
          /\ pc'[Drainer] \in {"list", "read", "swap", "kill"} =>
                pc[Drainer] \in {"list", "read", "swap", "kill"}
                /\ (pc[Restorer] = "over" => pc'[Restorer] = "over")
      BY <1>17 DEF Watch
    <2> QED
      BY <1>17, <2>1, RecordFrame DEF Watch
  <1>18. ASSUME NEW i \in Ids, KillNow(i) PROVE RecordInv'
    <2>1. /\ pc'[Restorer] = "over" => pc[Restorer] = "over"
          /\ pc'[Drainer] \in {"list", "read", "swap", "kill"} =>
                pc[Drainer] \in {"list", "read", "swap", "kill"}
                /\ (pc[Restorer] = "over" => pc'[Restorer] = "over")
      BY <1>18 DEF KillNow, StopSession
    <2> QED
      BY <1>18, <2>1, RecordFrame DEF KillNow, StopSession
  <1>19. ASSUME NEW i \in Ids, ProcessExits(i) PROVE RecordInv'
    <2>1. /\ pc'[Restorer] = "over" => pc[Restorer] = "over"
          /\ pc'[Drainer] \in {"list", "read", "swap", "kill"} =>
                pc[Drainer] \in {"list", "read", "swap", "kill"}
                /\ (pc[Restorer] = "over" => pc'[Restorer] = "over")
      BY <1>19 DEF ProcessExits
    <2> QED
      BY <1>19, <2>1, RecordFrame DEF ProcessExits
  <1>20. ASSUME TickBegins PROVE RecordInv'
    <2>1. /\ pc'[Restorer] = "over" => pc[Restorer] = "over"
          /\ pc'[Drainer] \in {"list", "read", "swap", "kill"} =>
                pc[Drainer] \in {"list", "read", "swap", "kill"}
                /\ (pc[Restorer] = "over" => pc'[Restorer] = "over")
      BY <1>20 DEF TickBegins
    <2> QED
      BY <1>20, <2>1, RecordFrame DEF TickBegins
  <1>21. ASSUME Restore PROVE RecordInv'
    <2>1. /\ pc[Restorer] = "idle" /\ pc'[Restorer] = "spawn"
          /\ pc'[Drainer] = pc[Drainer]
          /\ UNCHANGED <<file, draft, unread, toRestore>>
      BY <1>21 DEF Restore, TakeNumber
    <2> QED
      BY <2>1, RecordFrame DEF RecordInv
  <1>22. ASSUME SkipRecord PROVE RecordInv'
    <2>1. /\ nextId' = nextId /\ UNCHANGED <<file, draft, unread, pc>>
          /\ pc[Restorer] = "idle"
          /\ \A b \in Actors : Creating(b)' =>
                Creating(b) /\ cur'[b] = cur[b] /\ b # Restorer
      BY <1>22 DEF SkipRecord, Creating
    <2>2. Listed' = Listed /\ Drafted' = Drafted
      BY <2>1 DEF Listed, Drafted
    <2>3. \A i \in Awaiting : i \notin Awaiting' => i \notin Fresh'
      BY <2>1, HeadLeaves
    <2> QED
      BY <2>1, <2>2, <2>3 DEF RecordInv
  <1>23. ASSUME RestoreOver PROVE RecordInv'
    <2>1. toRestore = <<>> /\ UNCHANGED <<file, draft, unread, toRestore>>
          /\ pc'[Restorer] = "over" /\ pc[Restorer] = "idle" /\ pc'[Drainer] = pc[Drainer]
      BY <1>23 DEF RestoreOver
    <2>2. Listed' = Listed /\ Drafted' = Drafted /\ Awaiting' = Awaiting
      BY <2>1 DEF Listed, Drafted, Awaiting
    <2> QED
      BY <2>1, <2>2 DEF RecordInv
  <1>24. ASSUME WatchOver PROVE RecordInv'
    <2>1. /\ pc'[Restorer] = "over" => pc[Restorer] = "over"
          /\ pc'[Drainer] \in {"list", "read", "swap", "kill"} =>
                pc[Drainer] \in {"list", "read", "swap", "kill"}
                /\ (pc[Restorer] = "over" => pc'[Restorer] = "over")
      BY <1>24 DEF WatchOver
    <2> QED
      BY <1>24, <2>1, RecordFrame DEF WatchOver
  <1>25. ASSUME Discard PROVE RecordInv'
    <2>1. /\ pc'[Restorer] = "over" => pc[Restorer] = "over"
          /\ pc'[Drainer] \in {"list", "read", "swap", "kill"} =>
                pc[Drainer] \in {"list", "read", "swap", "kill"}
                /\ (pc[Restorer] = "over" => pc'[Restorer] = "over")
      BY <1>25 DEF Discard
    <2> QED
      BY <1>25, <2>1, RecordFrame DEF Discard
  <1>26. ASSUME Recreate PROVE RecordInv'
    <2>1. /\ pc'[Restorer] = "over" => pc[Restorer] = "over"
          /\ pc'[Drainer] \in {"list", "read", "swap", "kill"} =>
                pc[Drainer] \in {"list", "read", "swap", "kill"}
                /\ (pc[Restorer] = "over" => pc'[Restorer] = "over")
      BY <1>26 DEF Recreate, TakeNumber
    <2> QED
      BY <1>26, <2>1, RecordFrame DEF Recreate, TakeNumber
  <1>27. ASSUME FinalPersist PROVE RecordInv'
    <2>1. /\ pc[Restorer] = "over" /\ pc'[Restorer] = "over"
          /\ UNCHANGED <<file, draft, unread, toRestore>>
      BY <1>27 DEF FinalPersist, restoring
    <2>2. Listed' = Listed /\ Drafted' = Drafted /\ Awaiting' = Awaiting
      BY <2>1 DEF Listed, Drafted, Awaiting
    <2> QED
      BY <2>1, <2>2 DEF RecordInv
  <1>28. ASSUME Unfreeze PROVE RecordInv'
    <2>1. /\ pc'[Restorer] = "over" => pc[Restorer] = "over"
          /\ pc'[Drainer] \in {"list", "read", "swap", "kill"} =>
                pc[Drainer] \in {"list", "read", "swap", "kill"}
                /\ (pc[Restorer] = "over" => pc'[Restorer] = "over")
      BY <1>28 DEF Unfreeze
    <2> QED
      BY <1>28, <2>1, RecordFrame DEF Unfreeze
  <1>29. ASSUME KillAll PROVE RecordInv'
    <2>1. /\ pc'[Restorer] = "over" => pc[Restorer] = "over"
          /\ pc'[Drainer] \in {"list", "read", "swap", "kill"} =>
                pc[Drainer] \in {"list", "read", "swap", "kill"}
                /\ (pc[Restorer] = "over" => pc'[Restorer] = "over")
      BY <1>29 DEF KillAll
    <2> QED
      BY <1>29, <2>1, RecordFrame DEF KillAll
  <1>30. ASSUME Exit PROVE RecordInv'
    <2>1. /\ pc'[Restorer] = "over" => pc[Restorer] = "over"
          /\ pc'[Drainer] \in {"list", "read", "swap", "kill"} =>
                pc[Drainer] \in {"list", "read", "swap", "kill"}
                /\ (pc[Restorer] = "over" => pc'[Restorer] = "over")
      BY <1>30 DEF Exit
    <2> QED
      BY <1>30, <2>1, RecordFrame DEF Exit
  <1>31. ASSUME UNCHANGED vars PROVE RecordInv'
    <2>1. /\ pc'[Restorer] = "over" => pc[Restorer] = "over"
          /\ pc'[Drainer] \in {"list", "read", "swap", "kill"} =>
                pc[Drainer] \in {"list", "read", "swap", "kill"}
                /\ (pc[Restorer] = "over" => pc'[Restorer] = "over")
      BY <1>31 DEF vars
    <2> QED
      BY <1>31, <2>1, RecordFrame DEF vars
  <1> QED
    BY <1>1, <1>2, <1>3, <1>4, <1>4a, <1>5, <1>6, <1>7, <1>8, <1>9, <1>10, <1>11,
       <1>12, <1>13, <1>14, <1>15, <1>16, <1>17, <1>18, <1>19, <1>20,
       <1>21, <1>22, <1>23, <1>24, <1>25, <1>26, <1>27, <1>28, <1>29,
       <1>30, <1>31
    DEF Next, Resume, Request, Tick, RestoreThread, WatchThread, DrainThread,
        Terminated

-----------------------------------------------------------------------------
(* The end of the daemon.  While it kills its sessions, a listed one that   *)
(* still runs is among those to be killed: nobody can start another, since  *)
(* the list names no number that is still to be given out.                  *)
KillInv ==
    /\ pc[Drainer] = "kill" => \A i \in Listed : alive[i] => i \in dead[Drainer]
    /\ exited => \A i \in Listed : ~alive[i]
    /\ exited => \A a \in Actors : pc[a] = "gone"

LEMMA KillInit == Init => KillInv
  BY ActorFacts DEF Init, KillInv, exited

(* A step that lets agents only die keeps the invariant.                    *)
LEMMA KillFrame ==
  ASSUME TypeInv, KillInv, UNCHANGED file,
         pc'[Drainer] \in {"kill", "gone"} =>
             pc'[Drainer] = pc[Drainer] /\ dead'[Drainer] = dead[Drainer],
         pc'[Drainer] = "gone" => pc' = pc,
         \A i \in Listed : alive'[i] => alive[i]
  PROVE  KillInv'
  BY DEF KillInv, Listed, exited

LEMMA KillStep ==
    TypeInv /\ LockInv /\ NumberInv /\ ProcessInv /\ RecordInv /\ KillInv
        /\ [Next]_vars => KillInv'
  <1> SUFFICES ASSUME TypeInv, LockInv, NumberInv, ProcessInv, RecordInv, KillInv,
                      [Next]_vars
               PROVE  KillInv'
    OBVIOUS
  <1>0. Listed \subseteq Ids
    BY DEF TypeInv, TypeOK, Listed, Record
  <1> USE ActorFacts, <1>0
      DEF TypeInv, TypeOK, LockInv, Goto, Done, ThenPersist,
          Return, procVars, sessVars, listVars, threadVars
  <1>g. \A a \in Actors : pc[a] # "gone" => pc[Drainer] # "gone"
    BY DEF KillInv, exited
  <1>1. ASSUME NEW a \in Actors, PersistSkipped(a) PROVE KillInv'
    <2>1. /\ pc'[Drainer] \in {"kill", "gone"} =>
                pc'[Drainer] = pc[Drainer] /\ dead'[Drainer] = dead[Drainer]
          /\ pc'[Drainer] = "gone" => pc' = pc
      BY <1>1, <1>g DEF PersistSkipped, MayWrite
    <2> QED
      BY <1>1, <2>1, KillFrame DEF PersistSkipped, MayWrite
  <1>2. ASSUME NEW a \in Actors, PersistBegin(a) PROVE KillInv'
    <2>1. /\ pc'[Drainer] \in {"kill", "gone"} =>
                pc'[Drainer] = pc[Drainer] /\ dead'[Drainer] = dead[Drainer]
          /\ pc'[Drainer] = "gone" => pc' = pc
      BY <1>2, <1>g DEF PersistBegin, MayWrite
    <2> QED
      BY <1>2, <2>1, KillFrame DEF PersistBegin, MayWrite
  <1>3. ASSUME NEW a \in Actors, ReadSession(a) PROVE KillInv'
    <2>1. /\ pc'[Drainer] \in {"kill", "gone"} =>
                pc'[Drainer] = pc[Drainer] /\ dead'[Drainer] = dead[Drainer]
          /\ pc'[Drainer] = "gone" => pc' = pc
      BY <1>3, <1>g DEF ReadSession
    <2> QED
      BY <1>3, <2>1, KillFrame DEF ReadSession
  <1>4. ASSUME NEW a \in Actors, SaveList(a) PROVE KillInv'
    <2>1. pc'[Drainer] \notin {"kill", "gone"}
      <3>1. pc[Drainer] # "kill"
        BY <1>4 DEF SaveList
      <3> QED
        BY <1>4, <1>g, <3>1 DEF SaveList
    <2> QED
      BY <2>1 DEF KillInv, exited
  <1>4a. ASSUME NEW a \in Actors, SaveFails(a) PROVE KillInv'
    <2>1. /\ pc'[Drainer] \in {"kill", "gone"} =>
                pc'[Drainer] = pc[Drainer] /\ dead'[Drainer] = dead[Drainer]
          /\ pc'[Drainer] = "gone" => pc' = pc
      BY <1>4a, <1>g DEF SaveFails
    <2> QED
      BY <1>4a, <2>1, KillFrame DEF SaveFails
  <1>5. ASSUME NEW a \in Actors, CreateFails(a) PROVE KillInv'
    <2>1. /\ pc'[Drainer] \in {"kill", "gone"} =>
                pc'[Drainer] = pc[Drainer] /\ dead'[Drainer] = dead[Drainer]
          /\ pc'[Drainer] = "gone" => pc' = pc
      BY <1>5, <1>g DEF CreateFails
    <2> QED
      BY <1>5, <2>1, KillFrame DEF CreateFails
  <1>6. ASSUME NEW a \in Actors, Insert(a) PROVE KillInv'
    <2>1. /\ pc'[Drainer] \in {"kill", "gone"} =>
                pc'[Drainer] = pc[Drainer] /\ dead'[Drainer] = dead[Drainer]
          /\ pc'[Drainer] # "gone"
      BY <1>6, <1>g DEF Insert
    <2>2. file' = file /\ Listed' = Listed
      BY <1>6 DEF Insert, Listed
    <2>3. CASE pc'[Drainer] = "kill"
      <3>1. toRestore = <<>>
        BY <2>1, <2>3 DEF RecordInv
      <3>2. \A i \in Listed : i \notin Fresh
        BY <3>1 DEF RecordInv, Awaiting
      <3>3. cur[a] \in Fresh
        BY <1>6 DEF Insert, Fresh, Creating
      <3>4. \A i \in Listed : alive'[i] => alive[i]
        BY <1>6, <3>2, <3>3 DEF Insert
      <3> QED
        BY <2>1, <2>2, <3>4, KillFrame
    <2> QED
      BY <2>1, <2>3 DEF KillInv, exited
  <1>7. ASSUME NEW a \in Actors, EnterMarks(a) PROVE KillInv'
    <2>1. /\ pc'[Drainer] \in {"kill", "gone"} =>
                pc'[Drainer] = pc[Drainer] /\ dead'[Drainer] = dead[Drainer]
          /\ pc'[Drainer] = "gone" => pc' = pc
      BY <1>7, <1>g DEF EnterMarks
    <2> QED
      BY <1>7, <2>1, KillFrame DEF EnterMarks
  <1>8. ASSUME NEW a \in Actors, PruneRemoves(a) PROVE KillInv'
    <2>1. /\ pc'[Drainer] \in {"kill", "gone"} =>
                pc'[Drainer] = pc[Drainer] /\ dead'[Drainer] = dead[Drainer]
          /\ pc'[Drainer] = "gone" => pc' = pc
      BY <1>8, <1>g DEF PruneRemoves
    <2> QED
      BY <1>8, <2>1, KillFrame DEF PruneRemoves
  <1>9. ASSUME NEW a \in Actors, Create(a) PROVE KillInv'
    <2>1. /\ pc'[Drainer] \in {"kill", "gone"} =>
                pc'[Drainer] = pc[Drainer] /\ dead'[Drainer] = dead[Drainer]
          /\ pc'[Drainer] = "gone" => pc' = pc
      BY <1>9, <1>g DEF Create, TakeNumber
    <2> QED
      BY <1>9, <2>1, KillFrame DEF Create, TakeNumber
  <1>10. ASSUME NEW a \in Actors, Prune(a) PROVE KillInv'
    <2>1. /\ pc'[Drainer] \in {"kill", "gone"} =>
                pc'[Drainer] = pc[Drainer] /\ dead'[Drainer] = dead[Drainer]
          /\ pc'[Drainer] = "gone" => pc' = pc
      BY <1>10, <1>g DEF Prune
    <2> QED
      BY <1>10, <2>1, KillFrame DEF Prune
  <1>11. ASSUME NEW c \in Clients, NEW i \in Ids, Enter(c, i) PROVE KillInv'
    <2>1. /\ pc'[Drainer] \in {"kill", "gone"} =>
                pc'[Drainer] = pc[Drainer] /\ dead'[Drainer] = dead[Drainer]
          /\ pc'[Drainer] = "gone" => pc' = pc
      BY <1>11, <1>g DEF Enter
    <2> QED
      BY <1>11, <2>1, KillFrame DEF Enter
  <1>12. ASSUME NEW c \in Clients, NEW i \in Ids, Stop(c, i) PROVE KillInv'
    <2>1. /\ pc'[Drainer] \in {"kill", "gone"} =>
                pc'[Drainer] = pc[Drainer] /\ dead'[Drainer] = dead[Drainer]
          /\ pc'[Drainer] = "gone" => pc' = pc
      BY <1>12, <1>g DEF Stop, StopSession
    <2> QED
      BY <1>12, <2>1, KillFrame DEF Stop, StopSession
  <1>13. ASSUME NEW c \in Clients, NEW i \in Ids, Kill(c, i) PROVE KillInv'
    <2>1. /\ pc'[Drainer] \in {"kill", "gone"} =>
                pc'[Drainer] = pc[Drainer] /\ dead'[Drainer] = dead[Drainer]
          /\ pc'[Drainer] = "gone" => pc' = pc
      BY <1>13, <1>g DEF Kill, StopSession
    <2> QED
      BY <1>13, <2>1, KillFrame DEF Kill, StopSession
  <1>14. ASSUME NEW i \in Ids, TickSkips(i) PROVE KillInv'
    <2>1. /\ pc'[Drainer] \in {"kill", "gone"} =>
                pc'[Drainer] = pc[Drainer] /\ dead'[Drainer] = dead[Drainer]
          /\ pc'[Drainer] = "gone" => pc' = pc
      BY <1>14, <1>g DEF TickSkips
    <2> QED
      BY <1>14, <2>1, KillFrame DEF TickSkips
  <1>15. ASSUME NEW i \in Ids, TickReaps(i) PROVE KillInv'
    <2>1. /\ pc'[Drainer] \in {"kill", "gone"} =>
                pc'[Drainer] = pc[Drainer] /\ dead'[Drainer] = dead[Drainer]
          /\ pc'[Drainer] = "gone" => pc' = pc
      BY <1>15, <1>g DEF TickReaps
    <2> QED
      BY <1>15, <2>1, KillFrame DEF TickReaps
  <1>16. ASSUME NEW i \in Ids, TickClassifies(i) PROVE KillInv'
    <2>1. /\ pc'[Drainer] \in {"kill", "gone"} =>
                pc'[Drainer] = pc[Drainer] /\ dead'[Drainer] = dead[Drainer]
          /\ pc'[Drainer] = "gone" => pc' = pc
      BY <1>16, <1>g DEF TickClassifies
    <2> QED
      BY <1>16, <2>1, KillFrame DEF TickClassifies
  <1>17. ASSUME NEW i \in Ids, Watch(i) PROVE KillInv'
    <2>1. /\ pc'[Drainer] \in {"kill", "gone"} =>
                pc'[Drainer] = pc[Drainer] /\ dead'[Drainer] = dead[Drainer]
          /\ pc'[Drainer] = "gone" => pc' = pc
      BY <1>17, <1>g DEF Watch
    <2> QED
      BY <1>17, <2>1, KillFrame DEF Watch
  <1>18. ASSUME NEW i \in Ids, KillNow(i) PROVE KillInv'
    <2>1. /\ pc' = pc /\ file' = file /\ pc[Drainer] = "kill"
          /\ dead'[Drainer] = dead[Drainer] \ {i}
          /\ \A j \in Ids : alive'[j] => alive[j] /\ j # i
      BY <1>18 DEF KillNow, StopSession, ProcessInv
    <2>2. Listed' = Listed
      BY <2>1 DEF Listed
    <2> QED
      BY <2>1, <2>2 DEF KillInv, exited
  <1>19. ASSUME NEW i \in Ids, ProcessExits(i) PROVE KillInv'
    <2>1. /\ pc'[Drainer] \in {"kill", "gone"} =>
                pc'[Drainer] = pc[Drainer] /\ dead'[Drainer] = dead[Drainer]
          /\ pc'[Drainer] = "gone" => pc' = pc
      BY <1>19, <1>g DEF ProcessExits
    <2> QED
      BY <1>19, <2>1, KillFrame DEF ProcessExits
  <1>20. ASSUME TickBegins PROVE KillInv'
    <2>1. /\ pc'[Drainer] \in {"kill", "gone"} =>
                pc'[Drainer] = pc[Drainer] /\ dead'[Drainer] = dead[Drainer]
          /\ pc'[Drainer] = "gone" => pc' = pc
      BY <1>20, <1>g DEF TickBegins
    <2> QED
      BY <1>20, <2>1, KillFrame DEF TickBegins
  <1>21. ASSUME Restore PROVE KillInv'
    <2>1. /\ pc'[Drainer] \in {"kill", "gone"} =>
                pc'[Drainer] = pc[Drainer] /\ dead'[Drainer] = dead[Drainer]
          /\ pc'[Drainer] = "gone" => pc' = pc
      BY <1>21, <1>g DEF Restore, TakeNumber
    <2> QED
      BY <1>21, <2>1, KillFrame DEF Restore, TakeNumber
  <1>22. ASSUME SkipRecord PROVE KillInv'
    <2>1. /\ pc'[Drainer] \in {"kill", "gone"} =>
                pc'[Drainer] = pc[Drainer] /\ dead'[Drainer] = dead[Drainer]
          /\ pc'[Drainer] = "gone" => pc' = pc
      BY <1>22, <1>g DEF SkipRecord
    <2> QED
      BY <1>22, <2>1, KillFrame DEF SkipRecord
  <1>23. ASSUME RestoreOver PROVE KillInv'
    <2>1. /\ pc'[Drainer] \in {"kill", "gone"} =>
                pc'[Drainer] = pc[Drainer] /\ dead'[Drainer] = dead[Drainer]
          /\ pc'[Drainer] = "gone" => pc' = pc
      BY <1>23, <1>g DEF RestoreOver
    <2> QED
      BY <1>23, <2>1, KillFrame DEF RestoreOver
  <1>24. ASSUME WatchOver PROVE KillInv'
    <2>1. /\ pc'[Drainer] \in {"kill", "gone"} =>
                pc'[Drainer] = pc[Drainer] /\ dead'[Drainer] = dead[Drainer]
          /\ pc'[Drainer] = "gone" => pc' = pc
      BY <1>24, <1>g DEF WatchOver
    <2> QED
      BY <1>24, <2>1, KillFrame DEF WatchOver
  <1>25. ASSUME Discard PROVE KillInv'
    <2>1. /\ pc'[Drainer] \in {"kill", "gone"} =>
                pc'[Drainer] = pc[Drainer] /\ dead'[Drainer] = dead[Drainer]
          /\ pc'[Drainer] = "gone" => pc' = pc
      BY <1>25, <1>g DEF Discard
    <2> QED
      BY <1>25, <2>1, KillFrame DEF Discard
  <1>26. ASSUME Recreate PROVE KillInv'
    <2>1. /\ pc'[Drainer] \in {"kill", "gone"} =>
                pc'[Drainer] = pc[Drainer] /\ dead'[Drainer] = dead[Drainer]
          /\ pc'[Drainer] = "gone" => pc' = pc
      BY <1>26, <1>g DEF Recreate, TakeNumber
    <2> QED
      BY <1>26, <2>1, KillFrame DEF Recreate, TakeNumber
  <1>27. ASSUME FinalPersist PROVE KillInv'
    <2>1. /\ pc'[Drainer] \in {"kill", "gone"} =>
                pc'[Drainer] = pc[Drainer] /\ dead'[Drainer] = dead[Drainer]
          /\ pc'[Drainer] = "gone" => pc' = pc
      BY <1>27, <1>g DEF FinalPersist
    <2> QED
      BY <1>27, <2>1, KillFrame DEF FinalPersist
  <1>28. ASSUME Unfreeze PROVE KillInv'
    <2>1. /\ pc'[Drainer] \in {"kill", "gone"} =>
                pc'[Drainer] = pc[Drainer] /\ dead'[Drainer] = dead[Drainer]
          /\ pc'[Drainer] = "gone" => pc' = pc
      BY <1>28, <1>g DEF Unfreeze
    <2> QED
      BY <1>28, <2>1, KillFrame DEF Unfreeze
  <1>29. ASSUME KillAll PROVE KillInv'
    <2>1. /\ pc'[Drainer] = "kill" /\ UNCHANGED <<alive, file>>
          /\ dead'[Drainer] = table
      BY <1>29 DEF KillAll
    <2>2. Listed' = Listed
      BY <2>1 DEF Listed
    <2> QED
      BY <2>1, <2>2 DEF KillInv, ProcessInv, exited
  <1>30. ASSUME Exit PROVE KillInv'
    <2>1. /\ pc[Drainer] = "kill" /\ dead[Drainer] = {}
          /\ pc' = [b \in Actors |-> "gone"] /\ UNCHANGED <<alive, file>>
      BY <1>30 DEF Exit
    <2>2. Listed' = Listed
      BY <2>1 DEF Listed
    <2> QED
      BY <2>1, <2>2 DEF KillInv, exited
  <1>31. ASSUME UNCHANGED vars PROVE KillInv'
    <2>1. /\ pc'[Drainer] \in {"kill", "gone"} =>
                pc'[Drainer] = pc[Drainer] /\ dead'[Drainer] = dead[Drainer]
          /\ pc'[Drainer] = "gone" => pc' = pc
      BY <1>31, <1>g DEF vars
    <2> QED
      BY <1>31, <2>1, KillFrame DEF vars
  <1> QED
    BY <1>1, <1>2, <1>3, <1>4, <1>4a, <1>5, <1>6, <1>7, <1>8, <1>9, <1>10, <1>11,
       <1>12, <1>13, <1>14, <1>15, <1>16, <1>17, <1>18, <1>19, <1>20,
       <1>21, <1>22, <1>23, <1>24, <1>25, <1>26, <1>27, <1>28, <1>29,
       <1>30, <1>31
    DEF Next, Resume, Request, Tick, RestoreThread, WatchThread, DrainThread,
        Terminated

-----------------------------------------------------------------------------
(* The conversations.  A number the list has named a conversation for is in *)
(* use, or its record waits to be restored and says so; a session that has  *)
(* such a number could be recorded with its conversation at any time.  The  *)
(* profile must be able to resume by id, or the restored session starts     *)
(* without a conversation.                                                  *)
Remaining == {toRestore[k] : k \in DOMAIN toRestore}

Kept == everConv \cap ById

Resumable(i) == submitted[i] /\ hasConv[i]

ConversationInv ==
    /\ \A i \in everConv : i \in Fresh => i \in Awaiting
    /\ \A r \in Remaining : r.id \in Kept => r.conv
    /\ pc[Restorer] = "spawn" => cur[Restorer] = Head(toRestore).id
    /\ \A i \in table \cup unread : i \in Kept => Resumable(i)
    /\ \A r \in draft : r.conv => Resumable(r.id)
    /\ \A r \in draft : r.id \notin unread
    /\ \A r, s \in draft : r.id = s.id => r = s
    /\ \A r \in draft \cup file : r.id \in Kept => r.conv

LEMMA ConversationInit == Init => ConversationInv
  <1> SUFFICES ASSUME Init PROVE ConversationInv
    OBVIOUS
  <1>1. \A i \in everConv : i \in Awaiting
    BY DEF Init, Awaiting
  <1>2. \A r \in Remaining : r.id \in everConv => r.conv
    <2> SUFFICES ASSUME NEW k \in DOMAIN toRestore, toRestore[k].id \in everConv
                 PROVE  toRestore[k].conv
      BY DEF Remaining
    <2>1. PICK j \in DOMAIN toRestore : toRestore[j].conv /\ toRestore[j].id = toRestore[k].id
      BY DEF Init
    <2>2. j = k
      BY <2>1, InheritedAssumption DEF Init
    <2> QED
      BY <2>1, <2>2
  <1>3. file = Remaining
    BY DEF Init, Remaining
  <1> QED
    BY <1>1, <1>2, <1>3, ActorFacts DEF Init, ConversationInv, Kept

LEMMA RemainingShrinks ==
  ASSUME TypeInv,
         UNCHANGED toRestore \/ (toRestore # <<>> /\ toRestore' = Tail(toRestore))
  PROVE  Remaining' \subseteq Remaining
  <1>1. CASE UNCHANGED toRestore
    BY <1>1 DEF Remaining
  <1>2. CASE toRestore # <<>> /\ toRestore' = Tail(toRestore)
    <2>1. \A k \in DOMAIN toRestore' :
             k + 1 \in DOMAIN toRestore /\ toRestore'[k] = toRestore[k + 1]
      BY <1>2 DEF TypeInv, TypeOK
    <2> QED
      BY <2>1 DEF Remaining
  <1> QED
    BY <1>1, <1>2

(* A step that reads and writes nothing and resets no session in use keeps  *)
(* the invariant.                                                           *)
LEMMA ConversationFrame ==
  ASSUME TypeInv, ConversationInv, Fresh' \subseteq Fresh,
         table' \subseteq table, UNCHANGED <<draft, unread, file, everConv, toRestore>>,
         \A i \in Ids : Resumable(i) => Resumable(i)',
         pc'[Restorer] = "spawn" => cur'[Restorer] = Head(toRestore).id
  PROVE  ConversationInv'
  <1>1. Awaiting' = Awaiting /\ Remaining' = Remaining /\ Kept' = Kept
    BY DEF Awaiting, Remaining, Kept
  <1>2. table \subseteq Ids /\ unread \subseteq Ids /\ \A r \in draft : r.id \in Ids
    BY DEF TypeInv, TypeOK, Record
  <1> QED
    BY <1>1, <1>2 DEF ConversationInv

LEMMA ConversationStep ==
    TypeInv /\ NumberInv /\ RecordInv /\ ConversationInv
        /\ Fresh' \subseteq Fresh /\ [Next]_vars => ConversationInv'
  <1> SUFFICES ASSUME TypeInv, NumberInv, RecordInv, ConversationInv,
                      Fresh' \subseteq Fresh, [Next]_vars
               PROVE  ConversationInv'
    OBVIOUS
  <1>0. pc[Restorer] = "spawn" => cur[Restorer] = Head(toRestore).id
    BY DEF ConversationInv
  <1>r. \A r \in draft : r \in Record /\ r.id \in Ids
    BY DEF TypeInv, TypeOK, Record
  <1> USE ActorFacts
      DEF TypeInv, TypeOK, Goto, Done, ThenPersist,
          Return, procVars, sessVars, listVars, threadVars
  <1>1. ASSUME NEW a \in Actors, PersistSkipped(a) PROVE ConversationInv'
    <2>1. pc'[Restorer] = "spawn" => cur'[Restorer] = Head(toRestore).id
      BY <1>1, <1>0 DEF PersistSkipped, MayWrite
    <2> QED
      BY <1>1, <2>1, ConversationFrame DEF PersistSkipped, MayWrite, Resumable
  <1>2. ASSUME NEW a \in Actors, PersistBegin(a) PROVE ConversationInv'
    <2>1. /\ unread' = table /\ draft' = {}
          /\ UNCHANGED <<table, file, everConv, toRestore, submitted, hasConv>>
          /\ pc'[Restorer] = "spawn" => cur'[Restorer] = Head(toRestore).id
      BY <1>2, <1>0 DEF PersistBegin
    <2>2. Awaiting' = Awaiting /\ Remaining' = Remaining /\ Kept' = Kept
          /\ \A i \in Ids : Resumable(i)' = Resumable(i)
      BY <2>1 DEF Awaiting, Remaining, Kept, Resumable
    <2> QED
      BY <2>1, <2>2 DEF ConversationInv
  <1>3. ASSUME NEW a \in Actors, ReadSession(a) PROVE ConversationInv'
    <2>1. PICK i \in unread :
             /\ unread' = unread \ {i}
             /\ draft' = IF state[i] = "Stopped" THEN draft
                         ELSE draft \cup {RecordOf(i)}
      BY <1>3 DEF ReadSession
    <2>2. /\ UNCHANGED <<table, file, everConv, toRestore, submitted, hasConv>>
          /\ pc'[Restorer] = "spawn" => cur'[Restorer] = Head(toRestore').id
      BY <1>3, <1>0 DEF ReadSession
    <2>3. Awaiting' = Awaiting /\ Remaining' = Remaining /\ Kept' = Kept
          /\ \A j \in Ids : Resumable(j)' = Resumable(j)
      BY <2>2 DEF Awaiting, Remaining, Kept, Resumable
    <2>4. RecordOf(i).id = i /\ RecordOf(i).conv = Resumable(i) /\ i \in Ids
      BY <2>1 DEF RecordOf, Resumable
    <2>5. \A r \in draft' : \/ r \in draft /\ r.id # i
                            \/ r = RecordOf(i)
      BY <2>1 DEF ConversationInv
    <2>6. \A r \in draft' : r.conv => Resumable(r.id)'
      BY <1>r, <2>3, <2>4, <2>5 DEF ConversationInv
    <2>7. \A r \in draft' : r.id \notin unread'
      BY <2>1, <2>4, <2>5 DEF ConversationInv
    <2>8. \A r, s \in draft' : r.id = s.id => r = s
      BY <2>4, <2>5 DEF ConversationInv
    <2>9. \A r \in draft' \cup file' : r.id \in Kept' => r.conv
      BY <2>1, <2>2, <2>3, <2>4, <2>5 DEF ConversationInv
    <2>10. \A j \in table' \cup unread' : j \in Kept' => Resumable(j)'
      BY <2>1, <2>2, <2>3 DEF ConversationInv
    <2> QED
      BY <2>2, <2>3, <2>6, <2>7, <2>8, <2>9, <2>10 DEF ConversationInv
  <1>4. ASSUME NEW a \in Actors, SaveList(a) PROVE ConversationInv'
    <2>1. /\ unread = {} /\ unread' = {} /\ draft' = {} /\ file' = draft
          /\ UNCHANGED <<table, toRestore, submitted, hasConv>>
          /\ pc'[Restorer] = "spawn" => cur'[Restorer] = Head(toRestore').id
      BY <1>4, <1>0 DEF SaveList
    <2>2. everConv' = everConv \cup {r.id : r \in {x \in draft : x.conv}}
      BY <1>4 DEF SaveList
    <2>3. Awaiting' = Awaiting /\ Remaining' = Remaining
          /\ \A j \in Ids : Resumable(j)' = Resumable(j)
      BY <2>1 DEF Awaiting, Remaining, Resumable
    <2>4. \A i \in everConv' : i \in everConv \/ \E r \in draft : r.id = i /\ r.conv
      BY <2>2
    <2>5. \A r \in draft : r.id \notin Fresh /\ r.id \in Ids /\ r.id \in Drafted
      BY <1>r DEF RecordInv, Drafted
    <2>6. \A i \in everConv' : i \in Fresh' => i \in Awaiting'
      BY <2>3, <2>4, <2>5 DEF ConversationInv
    <2>7. \A r \in Remaining : r \in Record /\ r.id \in Awaiting /\ r.id \notin Drafted
      <3> SUFFICES ASSUME NEW k \in DOMAIN toRestore
                   PROVE  toRestore[k] \in Record /\ toRestore[k].id \in Awaiting
                          /\ toRestore[k].id \notin Drafted
        BY DEF Remaining
      <3>1. toRestore[k] \in Record /\ toRestore[k].id \in Awaiting
        BY DEF Awaiting
      <3>2. toRestore[k].id \in Fresh
        BY <3>1 DEF Fresh, Record
      <3> QED
        BY <3>1, <3>2 DEF RecordInv
    <2>8. \A r \in Remaining' : r.id \in Kept' => r.conv
      BY <2>3, <2>4, <2>5, <2>7 DEF ConversationInv, Kept
    <2>9. \A j \in table' \cup unread' : j \in Kept' => Resumable(j)'
      <3> SUFFICES ASSUME NEW j \in table, j \in Kept' PROVE Resumable(j)'
        BY <2>1
      <3>1. CASE j \in everConv
        BY <2>1, <2>3, <3>1 DEF ConversationInv, Kept
      <3>2. CASE \E r \in draft : r.id = j /\ r.conv
        BY <2>3, <3>2 DEF ConversationInv
      <3> QED
        BY <2>4, <3>1, <3>2 DEF Kept
    <2>10. \A r \in file' : r.id \in Kept' => r.conv
      BY <2>1, <2>4 DEF ConversationInv, Kept
    <2> QED
      BY <2>1, <2>6, <2>8, <2>9, <2>10 DEF ConversationInv
  <1>4a. ASSUME NEW a \in Actors, SaveFails(a) PROVE ConversationInv'
    <2>1. /\ unread = {} /\ unread' = {} /\ draft' = {}
          /\ UNCHANGED <<table, file, everConv, toRestore, submitted, hasConv>>
          /\ pc'[Restorer] = "spawn" => cur'[Restorer] = Head(toRestore').id
      BY <1>4a, <1>0 DEF SaveFails
    <2>2. Awaiting' = Awaiting /\ Remaining' = Remaining /\ Kept' = Kept
          /\ \A j \in Ids : Resumable(j)' = Resumable(j)
      BY <2>1 DEF Awaiting, Remaining, Kept, Resumable
    <2> QED
      BY <2>1, <2>2 DEF ConversationInv
  <1>5. ASSUME NEW a \in Actors, CreateFails(a) PROVE ConversationInv'
    <2>1. CASE a # Restorer
      <3>1. /\ UNCHANGED <<table, draft, unread, file, everConv, toRestore, submitted, hasConv>>
            /\ pc'[Restorer] = "spawn" => cur'[Restorer] = Head(toRestore).id
        BY <1>5, <1>0, <2>1 DEF CreateFails, RestTo
      <3> QED
        BY <3>1, ConversationFrame DEF Resumable
    <2>2. CASE a = Restorer
      <3>1. /\ UNCHANGED <<table, draft, unread, file, everConv, submitted, hasConv>>
            /\ pc'[Restorer] # "spawn"
            /\ toRestore # <<>> /\ toRestore' = Tail(toRestore)
        BY <1>5, <2>2 DEF CreateFails, RestTo
      <3>2. \A i \in Awaiting : i \notin Awaiting' => i \notin Fresh'
        <4>1. /\ nextId' = nextId
              /\ \A b \in Actors : Creating(b)' =>
                    Creating(b) /\ cur'[b] = cur[b] /\ b # Restorer
          BY <1>5, <2>2 DEF CreateFails, Creating
        <4> QED
          BY <4>1, HeadLeaves
      <3>3. Remaining' \subseteq Remaining /\ Kept' = Kept
            /\ \A j \in Ids : Resumable(j)' = Resumable(j)
        BY <3>1, RemainingShrinks DEF Kept, Resumable
      <3>4. \A i \in everConv' : i \in Fresh' => i \in Awaiting'
        BY <3>1, <3>2 DEF ConversationInv
      <3>5. \A r \in draft' : r.conv => Resumable(r.id)'
        BY <1>r, <3>1, <3>3 DEF ConversationInv
      <3> QED
        BY <3>1, <3>3, <3>4, <3>5 DEF ConversationInv
    <2> QED
      BY <2>1, <2>2
  <1>6. ASSUME NEW a \in Actors, Insert(a) PROVE ConversationInv'
    <2>0. PICK n \in Ids : n = cur[a]
      BY <1>6 DEF Insert
    <2>1. /\ n = cur[a] /\ n \in Fresh /\ pc[a] = "spawn"
          /\ UNCHANGED <<draft, unread, file, everConv, nextId>> /\ table' = table \cup {n}
          /\ pc'[a] = "list"
          /\ \A b \in Actors : b # a => pc'[b] = pc[b] /\ cur'[b] = cur[b]
      BY <1>6, <2>0 DEF Insert, Fresh, Creating
    <2>2. \A j \in Ids : j # n => Resumable(j)' = Resumable(j)
      BY <1>6, <2>1 DEF Insert, Resumable
    <2>3. n \notin unread /\ n \notin Drafted
      BY <2>1 DEF RecordInv
    <2>4. UNCHANGED toRestore \/ (a = Restorer /\ toRestore # <<>> /\ toRestore' = Tail(toRestore))
      BY <1>6 DEF Insert, RestTo
    <2>5. Remaining' \subseteq Remaining /\ Kept' = Kept
      BY <2>1, <2>4, RemainingShrinks DEF Kept
    <2>6. \A i \in everConv' : i \in Fresh' => i \in Awaiting'
      <3>1. CASE UNCHANGED toRestore
        BY <2>1, <3>1 DEF ConversationInv, Awaiting
      <3>2. CASE a = Restorer
        <4>1. \A b \in Actors : Creating(b)' =>
                    Creating(b) /\ cur'[b] = cur[b] /\ b # Restorer
          BY <2>1, <3>2 DEF Creating
        <4>2. \A i \in Awaiting : i \notin Awaiting' => i \notin Fresh'
          BY <2>1, <4>1, HeadLeaves
        <4> QED
          BY <2>1, <4>2 DEF ConversationInv
      <3> QED
        BY <2>4, <3>1, <3>2
    <2>7. n \in Kept => Resumable(n)'
      <3> SUFFICES ASSUME n \in Kept PROVE Resumable(n)'
        OBVIOUS
      <3>1. n \in Awaiting
        BY <2>1 DEF ConversationInv, Kept
      <3>2. a = Restorer
        BY <2>1, <3>1 DEF NumberInv, Awaiting, Creating
      <3>3. Head(toRestore) \in Remaining /\ Head(toRestore).id = n
        BY <1>0, <2>1, <3>2 DEF Remaining
      <3>4. ResumesById(a)
        BY <2>1, <3>2, <3>3 DEF ConversationInv, ResumesById, Kept
      <3>5. submitted' = [submitted EXCEPT ![n] = TRUE]
            /\ hasConv' = [hasConv EXCEPT ![n] = TRUE]
        BY <1>6, <2>1, <3>4 DEF Insert, Kept
      <3> QED
        BY <2>1, <3>5 DEF Resumable
    <2>8. \A j \in table' \cup unread' : j \in Kept' => Resumable(j)'
      <3> SUFFICES ASSUME NEW j \in table' \cup unread', j \in Kept, j # n
                   PROVE  Resumable(j)'
        BY <2>5, <2>7
      <3>1. j \in table \cup unread /\ j \in Ids
        BY <2>1
      <3>2. Resumable(j)
        BY <3>1 DEF ConversationInv
      <3> QED
        BY <2>2, <3>1, <3>2
    <2>9. \A r \in draft' : r.conv => Resumable(r.id)'
      BY <1>r, <2>1, <2>2, <2>3 DEF ConversationInv, Drafted
    <2>10. pc'[Restorer] = "spawn" => cur'[Restorer] = Head(toRestore').id
      BY <1>0, <2>1, <2>4
    <2> QED
      BY <2>1, <2>5, <2>6, <2>8, <2>9, <2>10 DEF ConversationInv
  <1>7. ASSUME NEW a \in Actors, EnterMarks(a) PROVE ConversationInv'
    <2>1. pc'[Restorer] = "spawn" => cur'[Restorer] = Head(toRestore).id
      BY <1>7, <1>0 DEF EnterMarks
    <2> QED
      BY <1>7, <2>1, ConversationFrame DEF EnterMarks, Resumable
  <1>8. ASSUME NEW a \in Actors, PruneRemoves(a) PROVE ConversationInv'
    <2>1. pc'[Restorer] = "spawn" => cur'[Restorer] = Head(toRestore).id
      BY <1>8, <1>0 DEF PruneRemoves
    <2> QED
      BY <1>8, <2>1, ConversationFrame DEF PruneRemoves, Resumable
  <1>9. ASSUME NEW a \in Actors, Create(a) PROVE ConversationInv'
    <2>1. pc'[Restorer] = "spawn" => cur'[Restorer] = Head(toRestore).id
      BY <1>9, <1>0 DEF Create, TakeNumber
    <2> QED
      BY <1>9, <2>1, ConversationFrame DEF Create, TakeNumber, Resumable
  <1>10. ASSUME NEW a \in Actors, Prune(a) PROVE ConversationInv'
    <2>1. pc'[Restorer] = "spawn" => cur'[Restorer] = Head(toRestore).id
      BY <1>10, <1>0 DEF Prune
    <2> QED
      BY <1>10, <2>1, ConversationFrame DEF Prune, Resumable
  <1>11. ASSUME NEW c \in Clients, NEW i \in Ids, Enter(c, i) PROVE ConversationInv'
    <2>1. pc'[Restorer] = "spawn" => cur'[Restorer] = Head(toRestore).id
      BY <1>11, <1>0 DEF Enter
    <2> QED
      BY <1>11, <2>1, ConversationFrame DEF Enter, Resumable
  <1>12. ASSUME NEW c \in Clients, NEW i \in Ids, Stop(c, i) PROVE ConversationInv'
    <2>1. pc'[Restorer] = "spawn" => cur'[Restorer] = Head(toRestore).id
      BY <1>12, <1>0 DEF Stop, StopSession
    <2> QED
      BY <1>12, <2>1, ConversationFrame DEF Stop, StopSession, Resumable
  <1>13. ASSUME NEW c \in Clients, NEW i \in Ids, Kill(c, i) PROVE ConversationInv'
    <2>1. pc'[Restorer] = "spawn" => cur'[Restorer] = Head(toRestore).id
      BY <1>13, <1>0 DEF Kill, StopSession
    <2> QED
      BY <1>13, <2>1, ConversationFrame DEF Kill, StopSession, Resumable
  <1>14. ASSUME NEW i \in Ids, TickSkips(i) PROVE ConversationInv'
    <2>1. pc'[Restorer] = "spawn" => cur'[Restorer] = Head(toRestore).id
      BY <1>14, <1>0 DEF TickSkips
    <2> QED
      BY <1>14, <2>1, ConversationFrame DEF TickSkips, Resumable
  <1>15. ASSUME NEW i \in Ids, TickReaps(i) PROVE ConversationInv'
    <2>1. pc'[Restorer] = "spawn" => cur'[Restorer] = Head(toRestore).id
      BY <1>15, <1>0 DEF TickReaps
    <2> QED
      BY <1>15, <2>1, ConversationFrame DEF TickReaps, Resumable
  <1>16. ASSUME NEW i \in Ids, TickClassifies(i) PROVE ConversationInv'
    <2>1. pc'[Restorer] = "spawn" => cur'[Restorer] = Head(toRestore).id
      BY <1>16, <1>0 DEF TickClassifies
    <2> QED
      BY <1>16, <2>1, ConversationFrame DEF TickClassifies, Resumable
  <1>17. ASSUME NEW i \in Ids, Watch(i) PROVE ConversationInv'
    <2>1. pc'[Restorer] = "spawn" => cur'[Restorer] = Head(toRestore).id
      BY <1>17, <1>0 DEF Watch
    <2> QED
      BY <1>17, <2>1, ConversationFrame DEF Watch, Resumable
  <1>18. ASSUME NEW i \in Ids, KillNow(i) PROVE ConversationInv'
    <2>1. pc'[Restorer] = "spawn" => cur'[Restorer] = Head(toRestore).id
      BY <1>18, <1>0 DEF KillNow, StopSession
    <2> QED
      BY <1>18, <2>1, ConversationFrame DEF KillNow, StopSession, Resumable
  <1>19. ASSUME NEW i \in Ids, ProcessExits(i) PROVE ConversationInv'
    <2>1. pc'[Restorer] = "spawn" => cur'[Restorer] = Head(toRestore).id
      BY <1>19, <1>0 DEF ProcessExits
    <2> QED
      BY <1>19, <2>1, ConversationFrame DEF ProcessExits, Resumable
  <1>20. ASSUME TickBegins PROVE ConversationInv'
    <2>1. pc'[Restorer] = "spawn" => cur'[Restorer] = Head(toRestore).id
      BY <1>20, <1>0 DEF TickBegins
    <2> QED
      BY <1>20, <2>1, ConversationFrame DEF TickBegins, Resumable
  <1>21. ASSUME Restore PROVE ConversationInv'
    <2>1. Head(toRestore).id \notin table
      BY <1>21, HeadAwaits DEF Restore, NumberInv, Awaiting
    <2>2. cur'[Restorer] = Head(toRestore).id
      BY <1>21, <2>1 DEF Restore
    <2>3. UNCHANGED <<table, draft, unread, file, everConv, toRestore, submitted, hasConv>>
      BY <1>21 DEF Restore
    <2> QED
      BY <2>2, <2>3, ConversationFrame DEF Resumable
  <1>22. ASSUME SkipRecord PROVE ConversationInv'
    <2>2. /\ UNCHANGED <<table, draft, unread, file, everConv, submitted, hasConv, pc, cur, nextId>>
          /\ pc[Restorer] = "idle" /\ toRestore # <<>> /\ toRestore' = Tail(toRestore)
      BY <1>22 DEF SkipRecord
    <2>3. \A i \in Awaiting : i \notin Awaiting' => i \notin Fresh'
      <3>1. \A b \in Actors : Creating(b)' =>
                Creating(b) /\ cur'[b] = cur[b] /\ b # Restorer
        BY <2>2 DEF Creating
      <3> QED
        BY <2>2, <3>1, HeadLeaves
    <2>4. Remaining' \subseteq Remaining /\ Kept' = Kept
          /\ \A j \in Ids : Resumable(j)' = Resumable(j)
      BY <2>2, RemainingShrinks DEF Kept, Resumable
    <2>5. \A i \in everConv' : i \in Fresh' => i \in Awaiting'
      BY <2>2, <2>3 DEF ConversationInv
    <2>6. \A r \in draft' : r.conv => Resumable(r.id)'
      BY <1>r, <2>2, <2>4 DEF ConversationInv
    <2> QED
      BY <2>2, <2>4, <2>5, <2>6 DEF ConversationInv
  <1>23. ASSUME RestoreOver PROVE ConversationInv'
    <2>1. pc'[Restorer] = "spawn" => cur'[Restorer] = Head(toRestore).id
      BY <1>23, <1>0 DEF RestoreOver
    <2> QED
      BY <1>23, <2>1, ConversationFrame DEF RestoreOver, Resumable
  <1>24. ASSUME WatchOver PROVE ConversationInv'
    <2>1. pc'[Restorer] = "spawn" => cur'[Restorer] = Head(toRestore).id
      BY <1>24, <1>0 DEF WatchOver
    <2> QED
      BY <1>24, <2>1, ConversationFrame DEF WatchOver, Resumable
  <1>25. ASSUME Discard PROVE ConversationInv'
    <2>1. pc'[Restorer] = "spawn" => cur'[Restorer] = Head(toRestore).id
      BY <1>25, <1>0 DEF Discard
    <2> QED
      BY <1>25, <2>1, ConversationFrame DEF Discard, Resumable
  <1>26. ASSUME Recreate PROVE ConversationInv'
    <2>1. pc'[Restorer] = "spawn" => cur'[Restorer] = Head(toRestore).id
      BY <1>26, <1>0 DEF Recreate, TakeNumber
    <2> QED
      BY <1>26, <2>1, ConversationFrame DEF Recreate, TakeNumber, Resumable
  <1>27. ASSUME FinalPersist PROVE ConversationInv'
    <2>1. pc'[Restorer] = "spawn" => cur'[Restorer] = Head(toRestore).id
      BY <1>27, <1>0 DEF FinalPersist
    <2> QED
      BY <1>27, <2>1, ConversationFrame DEF FinalPersist, Resumable
  <1>28. ASSUME Unfreeze PROVE ConversationInv'
    <2>1. pc'[Restorer] = "spawn" => cur'[Restorer] = Head(toRestore).id
      BY <1>28, <1>0 DEF Unfreeze
    <2> QED
      BY <1>28, <2>1, ConversationFrame DEF Unfreeze, Resumable
  <1>29. ASSUME KillAll PROVE ConversationInv'
    <2>1. pc'[Restorer] = "spawn" => cur'[Restorer] = Head(toRestore).id
      BY <1>29, <1>0 DEF KillAll
    <2> QED
      BY <1>29, <2>1, ConversationFrame DEF KillAll, Resumable
  <1>30. ASSUME Exit PROVE ConversationInv'
    <2>1. pc'[Restorer] = "spawn" => cur'[Restorer] = Head(toRestore).id
      BY <1>30, <1>0 DEF Exit
    <2> QED
      BY <1>30, <2>1, ConversationFrame DEF Exit, Resumable
  <1>31. ASSUME UNCHANGED vars PROVE ConversationInv'
    <2>1. pc'[Restorer] = "spawn" => cur'[Restorer] = Head(toRestore).id
      BY <1>31, <1>0 DEF vars
    <2> QED
      BY <1>31, <2>1, ConversationFrame DEF vars, Resumable
  <1> QED
    BY <1>1, <1>2, <1>3, <1>4, <1>4a, <1>5, <1>6, <1>7, <1>8, <1>9, <1>10, <1>11,
       <1>12, <1>13, <1>14, <1>15, <1>16, <1>17, <1>18, <1>19, <1>20,
       <1>21, <1>22, <1>23, <1>24, <1>25, <1>26, <1>27, <1>28, <1>29,
       <1>30, <1>31
    DEF Next, Resume, Request, Tick, RestoreThread, WatchThread, DrainThread,
        Terminated

(* Only a session of a profile that resumes by id has a conversation to     *)
(* record, and the list names no other, provided the one that was inherited *)
(* did not: ListIsResumable below says that it was written that way, unless *)
(* a profile was changed between two daemons.                               *)
InheritedIsResumable ==
    \A s \in Inherited : \A k \in DOMAIN s : s[k].conv => s[k].id \in ById

ByIdInv ==
    /\ \A i \in Ids : hasConv[i] => i \in ById
    /\ everConv \subseteq ById
    /\ \A r \in file : r.conv => r.id \in ById

LEMMA ByIdInit == InheritedIsResumable /\ Init => ByIdInv
  <1> SUFFICES ASSUME InheritedIsResumable, Init PROVE ByIdInv
    OBVIOUS
  <1>1. \A r \in file : r.conv => r.id \in ById
    BY DEF InheritedIsResumable, Init
  <1> QED
    BY <1>1 DEF Init, ByIdInv

LEMMA ByIdStep == TypeInv /\ ConversationInv /\ ByIdInv /\ [Next]_vars => ByIdInv'
  <1> SUFFICES ASSUME TypeInv, ConversationInv, ByIdInv, [Next]_vars PROVE ByIdInv'
    OBVIOUS
  <1>0. ASSUME UNCHANGED <<hasConv, everConv, file>> PROVE ByIdInv'
    BY <1>0 DEF ByIdInv
  <1> USE ActorFacts
      DEF procVars, sessVars, listVars, threadVars
  <1>1. ASSUME NEW a \in Actors, PersistSkipped(a) PROVE ByIdInv'
    BY <1>1, <1>0 DEF PersistSkipped, MayWrite
  <1>2. ASSUME NEW a \in Actors, PersistBegin(a) PROVE ByIdInv'
    BY <1>2, <1>0 DEF PersistBegin, MayWrite
  <1>3. ASSUME NEW a \in Actors, ReadSession(a) PROVE ByIdInv'
    BY <1>3, <1>0 DEF ReadSession
  <1>4. ASSUME NEW a \in Actors, SaveList(a) PROVE ByIdInv'
    <2>1. \A r \in draft : r.conv => r.id \in ById
      BY DEF ConversationInv, Resumable, ByIdInv, TypeInv, TypeOK, Record
    <2> QED
      BY <1>4, <2>1 DEF SaveList, ByIdInv
  <1>4a. ASSUME NEW a \in Actors, SaveFails(a) PROVE ByIdInv'
    BY <1>4a, <1>0 DEF SaveFails
  <1>5. ASSUME NEW a \in Actors, CreateFails(a) PROVE ByIdInv'
    BY <1>5, <1>0 DEF CreateFails
  <1>6. ASSUME NEW a \in Actors, Insert(a) PROVE ByIdInv'
    <2>1. /\ cur[a] \in Ids /\ UNCHANGED <<everConv, file>>
          /\ \E b \in BOOLEAN : hasConv' = [hasConv EXCEPT ![cur[a]] = cur[a] \in ById /\ b]
      BY <1>6 DEF Insert, TypeInv
    <2> QED
      BY <2>1 DEF ByIdInv, TypeInv, TypeOK
  <1>7. ASSUME NEW a \in Actors, EnterMarks(a) PROVE ByIdInv'
    BY <1>7, <1>0 DEF EnterMarks
  <1>8. ASSUME NEW a \in Actors, PruneRemoves(a) PROVE ByIdInv'
    BY <1>8, <1>0 DEF PruneRemoves
  <1>9. ASSUME NEW a \in Actors, Create(a) PROVE ByIdInv'
    BY <1>9, <1>0 DEF Create, TakeNumber
  <1>10. ASSUME NEW a \in Actors, Prune(a) PROVE ByIdInv'
    BY <1>10, <1>0 DEF Prune
  <1>11. ASSUME NEW c \in Clients, NEW i \in Ids, Enter(c, i) PROVE ByIdInv'
    BY <1>11, <1>0 DEF Enter
  <1>12. ASSUME NEW c \in Clients, NEW i \in Ids, Stop(c, i) PROVE ByIdInv'
    BY <1>12, <1>0 DEF Stop, StopSession
  <1>13. ASSUME NEW c \in Clients, NEW i \in Ids, Kill(c, i) PROVE ByIdInv'
    BY <1>13, <1>0 DEF Kill, StopSession
  <1>14. ASSUME NEW i \in Ids, TickSkips(i) PROVE ByIdInv'
    BY <1>14, <1>0 DEF TickSkips
  <1>15. ASSUME NEW i \in Ids, TickReaps(i) PROVE ByIdInv'
    BY <1>15, <1>0 DEF TickReaps
  <1>16. ASSUME NEW i \in Ids, TickClassifies(i) PROVE ByIdInv'
    BY <1>16, <1>0 DEF TickClassifies
  <1>17. ASSUME NEW i \in Ids, Watch(i) PROVE ByIdInv'
    BY <1>17, <1>0 DEF Watch
  <1>18. ASSUME NEW i \in Ids, KillNow(i) PROVE ByIdInv'
    BY <1>18, <1>0 DEF KillNow, StopSession
  <1>19. ASSUME NEW i \in Ids, ProcessExits(i) PROVE ByIdInv'
    BY <1>19, <1>0 DEF ProcessExits
  <1>20. ASSUME TickBegins PROVE ByIdInv'
    BY <1>20, <1>0 DEF TickBegins
  <1>21. ASSUME Restore PROVE ByIdInv'
    BY <1>21, <1>0 DEF Restore, TakeNumber
  <1>22. ASSUME SkipRecord PROVE ByIdInv'
    BY <1>22, <1>0 DEF SkipRecord
  <1>23. ASSUME RestoreOver PROVE ByIdInv'
    BY <1>23, <1>0 DEF RestoreOver
  <1>24. ASSUME WatchOver PROVE ByIdInv'
    BY <1>24, <1>0 DEF WatchOver
  <1>25. ASSUME Discard PROVE ByIdInv'
    BY <1>25, <1>0 DEF Discard
  <1>26. ASSUME Recreate PROVE ByIdInv'
    BY <1>26, <1>0 DEF Recreate, TakeNumber
  <1>27. ASSUME FinalPersist PROVE ByIdInv'
    BY <1>27, <1>0 DEF FinalPersist
  <1>28. ASSUME Unfreeze PROVE ByIdInv'
    BY <1>28, <1>0 DEF Unfreeze
  <1>29. ASSUME KillAll PROVE ByIdInv'
    BY <1>29, <1>0 DEF KillAll
  <1>30. ASSUME Exit PROVE ByIdInv'
    BY <1>30, <1>0 DEF Exit
  <1>31. ASSUME UNCHANGED vars PROVE ByIdInv'
    BY <1>31, <1>0 DEF vars
  <1> QED
    BY <1>1, <1>2, <1>3, <1>4, <1>4a, <1>5, <1>6, <1>7, <1>8, <1>9, <1>10, <1>11,
       <1>12, <1>13, <1>14, <1>15, <1>16, <1>17, <1>18, <1>19, <1>20,
       <1>21, <1>22, <1>23, <1>24, <1>25, <1>26, <1>27, <1>28, <1>29,
       <1>30, <1>31
    DEF Next, Resume, Request, Tick, RestoreThread, WatchThread, DrainThread,
        Terminated

-----------------------------------------------------------------------------
(* Only SaveList writes the list.                                           *)
LEMMA OnlySaveListWrites ==
  ASSUME [Next]_vars, ~\E a \in Actors : SaveList(a)
  PROVE  file' = file
  BY DEF Next, Resume, Request, Tick, RestoreThread, WatchThread, DrainThread,
         PersistSkipped, PersistBegin, ReadSession, SaveFails, CreateFails, Insert,
         EnterMarks, PruneRemoves, Create, Prune, Enter, Stop, Kill, TickBegins,
         TickSkips, TickReaps, TickClassifies, Watch, KillNow, ProcessExits,
         Restore, SkipRecord, RestoreOver, WatchOver, Discard, Recreate,
         FinalPersist, Unfreeze, KillAll, Exit, Terminated, vars, listVars

(* From the moment the list is frozen until it is unfrozen or the daemon    *)
(* exits, no write of last-sessions.toml takes effect.                      *)
THEOREM FrozenList == Spec => FrozenListIsFinal
  <1>1. TypeInv /\ LockInv /\ [Next]_vars
            => [frozen /\ frozen' => file' = file]_vars
    <2> SUFFICES ASSUME TypeInv, LockInv, [Next]_vars, frozen
                 PROVE  file' = file
      OBVIOUS
    <2>1. ASSUME NEW a \in Actors, SaveList(a) PROVE FALSE
      BY <2>1, ActorFacts DEF SaveList, LockInv
    <2> QED
      BY <2>1, OnlySaveListWrites
  <1> QED
    BY <1>1, TypeInit, TypeStep, LockInit, LockStep, PTL DEF Spec, FrozenListIsFinal

(* No create and no restore is ever given the number of a session of the    *)
(* board or of another session that is being started.                       *)
THEOREM UniqueNumbers == Spec => []NumbersAreUnique
  <1>1. NumberInv => NumbersAreUnique
    BY DEF NumberInv, NumbersAreUnique, Creating
  <1> QED
    BY <1>1, TypeInit, TypeStep, NumberInit, NumberStep, PTL DEF Spec

-----------------------------------------------------------------------------
(* The invariants together, and the theorems they carry.                    *)
SessionsInv ==
    /\ TypeInv /\ LockInv /\ NumberInv
    /\ ProcessInv /\ PendingInv /\ RecordInv /\ KillInv
    /\ ConversationInv

LEMMA SessionsInit == Init => SessionsInv
  BY TypeInit, LockInit, NumberInit, ProcessInit, PendingInit, RecordInit,
     KillInit, ConversationInit DEF SessionsInv

LEMMA SessionsStep == SessionsInv /\ [Next]_vars => SessionsInv'
  <1> SUFFICES ASSUME SessionsInv, [Next]_vars PROVE SessionsInv'
    OBVIOUS
  <1>1. TypeInv' /\ LockInv' /\ NumberInv'
    BY TypeStep, LockStep, NumberStep DEF SessionsInv
  <1>2. Fresh' \subseteq Fresh
    BY FreshStep DEF SessionsInv
  <1>3. ProcessInv' /\ PendingInv'
    BY <1>2, ProcessStep, PendingStep DEF SessionsInv
  <1>4. RecordInv' /\ KillInv' /\ ConversationInv'
    BY <1>2, RecordStep, KillStep, ConversationStep DEF SessionsInv
  <1> QED
    BY <1>1, <1>3, <1>4 DEF SessionsInv

(* Once every thread is done, the list on disk names every session whose    *)
(* agent runs and none that is off the board or shown as stopped.           *)
THEOREM ListFollows == Spec => []ListFollowsSessions
  <1>1. SessionsInv => ListFollowsSessions
    BY ActorFacts DEF SessionsInv, LockInv, PendingInv, Waiting, FileFollows,
                      ListFollowsSessions, Quiet
  <1> QED
    BY <1>1, SessionsInit, SessionsStep, PTL DEF Spec

(* When the daemon has exited for the next one, no agent of a session that  *)
(* the list names is left running beside the one the next daemon starts.    *)
THEOREM NoAgentOutlives == Spec => []NoAgentOutlivesItsRecord
  <1>1. SessionsInv => NoAgentOutlivesItsRecord
    BY DEF SessionsInv, KillInv, NoAgentOutlivesItsRecord
  <1> QED
    BY <1>1, SessionsInit, SessionsStep, PTL DEF Spec

(* A conversation the list has named once is named by every later list that *)
(* still has the session, whatever list the daemon started with, as long as *)
(* the profile of the session can resume by id.                             *)
THEOREM KeptConversation ==
    Spec => [](\A r \in file : r.id \in everConv /\ r.id \in ById => r.conv)
  <1>1. SessionsInv => \A r \in file : r.id \in everConv /\ r.id \in ById => r.conv
    BY DEF SessionsInv, ConversationInv, Kept
  <1> QED
    BY <1>1, SessionsInit, SessionsStep, PTL DEF Spec

(* The list never names a conversation of a profile that cannot resume by   *)
(* id: what InheritedIsResumable asks of one daemon's list is what that     *)
(* daemon hands on to the next one.                                         *)
THEOREM ListIsResumable ==
  ASSUME InheritedIsResumable
  PROVE  Spec => [](\A r \in file : r.conv => r.id \in ById)
  <1>1. Init => SessionsInv /\ ByIdInv
    BY SessionsInit, ByIdInit
  <1>2. SessionsInv /\ ByIdInv /\ [Next]_vars => (SessionsInv /\ ByIdInv)'
    BY SessionsStep, ByIdStep DEF SessionsInv
  <1>3. ByIdInv => \A r \in file : r.conv => r.id \in ById
    BY DEF ByIdInv
  <1> QED
    BY <1>1, <1>2, <1>3, PTL DEF Spec

(* So for a list whose profiles are what they were when it was written, a   *)
(* conversation the list has named is never lost from a record.             *)
THEOREM ConversationKept ==
  ASSUME InheritedIsResumable
  PROVE  Spec => []ConversationIsKept
  <1>1. Init => SessionsInv /\ ByIdInv
    BY SessionsInit, ByIdInit
  <1>2. SessionsInv /\ ByIdInv /\ [Next]_vars => (SessionsInv /\ ByIdInv)'
    BY SessionsStep, ByIdStep DEF SessionsInv
  <1>3. SessionsInv /\ ByIdInv => ConversationIsKept
    BY DEF SessionsInv, ConversationInv, ByIdInv, Kept, ConversationIsKept
  <1> QED
    BY <1>1, <1>2, <1>3, PTL DEF Spec
=============================================================================
