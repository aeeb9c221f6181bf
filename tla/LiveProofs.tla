----------------------------- MODULE LiveProofs -----------------------------
(* Theorems about Live, for all sessions, lists of lanes, screens, titles    *)
(* and bounds.                                                               *)
EXTENDS Live, SequenceTheorems, TLAPS

-----------------------------------------------------------------------------
(* Types, and what the pusher has in hand where it is.                       *)
AtWork == pc \notin {"look", "drop"}
InTheRoom == pc \notin {"look", "drop", "register", "registered"}

PlaceInv ==
    /\ AtWork => hand # NoRoom /\ lastRoom = hand.id
    /\ pc = "drop" => lastRoom \in Ids
    /\ pc # "push" => lane = 1
    /\ pc = "push" => lane <= Len(hand.staged)
    /\ pc = "seen" => answer \in Wishes
    /\ pc \in {"registered", "told"} => answer \in {"ok", "lost", "denied", "refused"}

TypedInv == TypeOK /\ PlaceInv

LEMMA Bounds ==
    /\ MaxRooms \in Nat \ {0} /\ 0 \notin Ids /\ 1 \in Ids
    /\ \A staged \in Stagings : staged \in Seq(Sessions) /\ Len(staged) >= 1
    /\ Blank \in Shots /\ "gone" \in Shots /\ "none" \in Shots
    /\ NoRoom \notin Room
  BY LiveAssumption DEF LiveAssumption, Ids, Shots, NoRoom, Room

LEMMA RoomParts ==
    ASSUME NEW s \in Room \cup {NoRoom}, s # NoRoom
    PROVE  /\ s.id \in Ids /\ s.staged \in Stagings /\ s.stagedRev \in Nat
           /\ s.want \in Wishes /\ s.publicRev \in Nat /\ s.public \in Shown
           /\ s.staged \in Seq(Sessions) /\ Len(s.staged) >= 1
           /\ \A i \in 1..Len(s.staged) : s.staged[i] \in Sessions
  BY Bounds DEF Room

LEMMA ShownParts ==
    /\ Private \in Shown
    /\ \A t \in Titles : /\ As("pending", t) \in Shown
                         /\ As("listed", t) \in Shown
                         /\ As("failed", t) \in Shown
  BY DEF Private, Shown, As

LEMMA RoomChanges ==
    ASSUME NEW s \in Room, NEW n \in Nat
    PROVE  /\ \A staged \in Stagings :
                 [s EXCEPT !.staged = staged, !.stagedRev = n,
                           !.readiness = "pending"] \in Room
           /\ \A p \in Shown, w \in Wishes :
                 [s EXCEPT !.public = p, !.want = w, !.publicRev = n] \in Room
           /\ \A state \in {"ready", "failed"} :
                 [s EXCEPT !.readiness = state] \in Room
           /\ \A p \in Shown : [s EXCEPT !.public = p] \in Room
  BY DEF Room

LEMMA RelayRooms ==
    /\ Absent \in RelayRoom
    /\ \A staged \in Stagings : Opened(staged) \in RelayRoom
    /\ \A room \in RelayRoom, by \in {"nobody", "teacher", "console"}, t \in Wishes :
           [room EXCEPT !.public = [by |-> by, title |-> t]] \in RelayRoom
    /\ \A room \in RelayRoom : [room EXCEPT !.public = Nobody] \in RelayRoom
    /\ \A room \in RelayRoom, i \in Nat, f \in Sessions \X Shots :
           /\ [room EXCEPT !.frames[i] = f] \in RelayRoom
           /\ [room EXCEPT !.frames[i] = f].lanes = room.lanes
  <1>1. Absent \in RelayRoom
    BY DEF Absent, RelayRoom, Nobody, Wishes, NoTitle
  <1>2. ASSUME NEW staged \in Stagings PROVE Opened(staged) \in RelayRoom
    <2>1. DOMAIN staged = 1..Len(staged) /\ Len(staged) \in Nat
      BY Bounds
    <2>2. NoFrames(staged) \in Seq({NoFrame} \cup (Sessions \X Shots))
      BY <2>1 DEF NoFrames
    <2> QED
      BY <2>2 DEF Opened, RelayRoom, Nobody, Wishes, NoTitle
  <1>3. ASSUME NEW room \in RelayRoom, NEW by \in {"nobody", "teacher", "console"},
               NEW t \in Wishes
        PROVE  [room EXCEPT !.public = [by |-> by, title |-> t]] \in RelayRoom
    BY DEF RelayRoom
  <1>4. ASSUME NEW room \in RelayRoom
        PROVE  [room EXCEPT !.public = Nobody] \in RelayRoom
    BY DEF RelayRoom, Nobody, Wishes, NoTitle
  <1>5. ASSUME NEW room \in RelayRoom, NEW i \in Nat, NEW f \in Sessions \X Shots
        PROVE  /\ [room EXCEPT !.frames[i] = f] \in RelayRoom
               /\ [room EXCEPT !.frames[i] = f].lanes = room.lanes
    <2> DEFINE S == {NoFrame} \cup (Sessions \X Shots)
               fs == [room.frames EXCEPT ![i] = f]
    <2>1. room.frames \in Seq(S) /\ f \in S
      BY DEF RelayRoom
    <2>2. fs \in Seq(S)
      <3>1. CASE i \in 1..Len(room.frames)
        BY <2>1, <3>1, ExceptSeq
      <3>2. CASE i \notin 1..Len(room.frames)
        <4>1. fs = room.frames
          BY <2>1, <3>2
        <4> QED
          BY <2>1, <4>1
      <3> QED
        BY <3>1, <3>2
    <2>3. [room EXCEPT !.frames[i] = f] = [room EXCEPT !.frames = fs]
      BY DEF RelayRoom
    <2> QED
      BY <2>2, <2>3 DEF RelayRoom
  <1> QED
    BY <1>1, <1>2, <1>3, <1>4, <1>5

LEMMA InitTyped == Init => TypedInv
  <1> SUFFICES ASSUME Init PROVE TypedInv
    OBVIOUS
  <1>1. slot \in Room \cup {NoRoom} /\ hand \in Room \cup {NoRoom}
    BY DEF Init
  <1>2. nextId \in 1..(MaxRooms + 1)
    BY Bounds DEF Init
  <1>3. /\ screen \in [Sessions -> Shots] /\ shots \in [Sessions -> Shots]
        /\ pushed \in [Sessions -> Shots] /\ rooms \in [Ids -> RelayRoom]
    BY Bounds, RelayRooms DEF Init, Unpushed
  <1>4. \A v \in {started, applied, stuck, retry} : v \in Version \cup {NoVersion}
    BY DEF Init
  <1>5. keyIsGood \in BOOLEAN /\ due \in BOOLEAN /\ readDue \in BOOLEAN
    BY Zenon DEF Init
  <1>6. /\ pc \in Places /\ lane \in Nat \ {0} /\ lastRoom \in Ids \cup {0}
        /\ answer \in {"none", "ok", "lost", "denied", "refused"} \cup Titles
    BY DEF Init, Places
  <1>7. /\ known \subseteq Ids /\ lost \subseteq Ids
        /\ heard \subseteq Titles /\ unsure \subseteq Sessions
    BY DEF Init
  <1>8. TypeOK
    BY <1>1, <1>2, <1>3, <1>4, <1>6, <1>7, <1>5 DEF TypeOK
  <1>9. PlaceInv
    BY DEF Init, PlaceInv, AtWork
  <1> QED
    BY <1>8, <1>9 DEF TypedInv

LEMMA StartTyped ==
    ASSUME TypedInv, NEW staged \in Stagings, Start(staged)
    PROVE  TypedInv'
  <1>1. slot' \in Room
    BY DEF Start, Room, Private, Shown, Wishes, NoTitle
  <1>2. nextId' \in 1..(MaxRooms + 1)
    BY Bounds DEF Start, Ids
  <1>3. TypeOK'
    BY <1>1, <1>2 DEF TypedInv, TypeOK, Start, Asks, relayVars, bookVars, clockVars, roundVars
  <1>4. PlaceInv'
    BY DEF TypedInv, PlaceInv, AtWork, Start, Asks, roundVars
  <1> QED
    BY <1>3, <1>4 DEF TypedInv

LEMMA AskTyped ==
    ASSUME TypedInv, Asks, UNCHANGED nextId, slot' \in Room \cup {NoRoom},
           heard' \subseteq Titles
    PROVE  TypedInv'
  <1>1. TypeOK'
    BY DEF TypedInv, TypeOK, Asks, relayVars, bookVars, clockVars, roundVars
  <1>2. PlaceInv'
    BY DEF TypedInv, PlaceInv, AtWork, Asks, roundVars
  <1> QED
    BY <1>1, <1>2 DEF TypedInv

LEMMA TeacherTyped == TypedInv /\ Teacher => TypedInv'
  <1> SUFFICES ASSUME TypedInv, Teacher PROVE TypedInv'
    OBVIOUS
  <1>1. slot \in Room \cup {NoRoom} /\ heard \subseteq Titles
    BY DEF TypedInv, TypeOK
  <1>2. CASE \E staged \in Stagings : Start(staged)
    BY <1>2, StartTyped
  <1>3. ASSUME NEW staged \in Stagings, Restage(staged) PROVE TypedInv'
    <2>1. slot' \in Room /\ heard' \subseteq Titles
      <3>1. slot \in Room
        BY <1>1, <1>3 DEF Restage
      <3>2. slot' \in Room
        <4>1. slot.stagedRev + 1 \in Nat
          BY <3>1 DEF Room
        <4> QED
          BY <1>3, <3>1, <4>1, RoomChanges DEF Restage
      <3> QED
        BY <1>1, <1>3, <3>2 DEF Restage
    <2> QED
      BY <1>3, <2>1, AskTyped DEF Restage
  <1>4. CASE Stop
    BY <1>4, AskTyped DEF Stop
  <1>5. CASE Unpublish
    <2>1. slot' \in Room /\ heard' \subseteq Titles
      <3>1. slot \in Room
        BY <1>1, <1>5 DEF Unpublish
      <3>2. slot' \in Room
        <4>1. slot.publicRev + 1 \in Nat
          BY <3>1 DEF Room
        <4> QED
          BY <1>5, <3>1, <4>1, ShownParts, RoomChanges DEF Unpublish, Wishes
      <3> QED
        BY <1>5, <3>2 DEF Unpublish
    <2> QED
      BY <1>5, <2>1, AskTyped DEF Unpublish
  <1>6. ASSUME NEW t \in Titles, Publish(t) PROVE TypedInv'
    <2>1. slot' \in Room /\ heard' \subseteq Titles
      <3>1. slot \in Room
        BY <1>1, <1>6 DEF Publish
      <3>2. slot' \in Room
        <4>1. slot.publicRev + 1 \in Nat
          BY <3>1 DEF Room
        <4> QED
          BY <1>6, <3>1, <4>1, ShownParts, RoomChanges DEF Publish, Wishes
      <3> QED
        BY <1>6, <3>2 DEF Publish
    <2> QED
      BY <1>6, <2>1, AskTyped DEF Publish
  <1> QED
    BY <1>2, <1>3, <1>4, <1>5, <1>6 DEF Teacher

LEMMA WorldTyped ==
    ASSUME TypedInv, World, UNCHANGED heard,
           screen' \in [Sessions -> Shots], rooms' \in [Ids -> RelayRoom],
           keyIsGood' \in BOOLEAN, due' \in BOOLEAN, readDue' \in BOOLEAN
    PROVE  TypedInv'
  <1>1. TypeOK'
    BY DEF TypedInv, TypeOK, World, teacherVars, bookVars, roundVars
  <1>2. PlaceInv'
    BY DEF TypedInv, PlaceInv, AtWork, World, roundVars
  <1> QED
    BY <1>1, <1>2 DEF TypedInv

LEMMA OthersTyped == TypedInv /\ Others => TypedInv'
  <1> SUFFICES ASSUME TypedInv, Others PROVE TypedInv'
    OBVIOUS
  <1>1. /\ screen \in [Sessions -> Shots] /\ rooms \in [Ids -> RelayRoom]
        /\ keyIsGood \in BOOLEAN /\ due \in BOOLEAN /\ readDue \in BOOLEAN
    BY DEF TypedInv, TypeOK
  <1>2. ASSUME NEW s \in Sessions, Turns(s) PROVE TypedInv'
    <2>1. screen' \in [Sessions -> Shots]
      BY <1>1, <1>2 DEF Turns, Shots
    <2> QED
      BY <1>1, <1>2, <2>1, WorldTyped DEF Turns, relayVars, clockVars
  <1>3. CASE TimeToRetry \/ TimeToRead
    BY <1>1, <1>3, WorldTyped DEF TimeToRetry, TimeToRead, relayVars
  <1>4. ASSUME NEW gone \in SUBSET Ids, Forgets(gone) PROVE TypedInv'
    <2>1. rooms' \in [Ids -> RelayRoom]
      BY <1>1, <1>4, RelayRooms DEF Forgets
    <2> QED
      BY <1>1, <1>4, <2>1, WorldTyped DEF Forgets, Relay, clockVars
  <1>5. CASE Revokes
    <2>1. rooms' \in [Ids -> RelayRoom]
      BY <1>1, <1>5, RelayRooms DEF Revokes
    <2> QED
      BY <1>1, <1>5, <2>1, WorldTyped DEF Revokes, Relay, clockVars
  <1>6. CASE Reinstates
    BY <1>1, <1>6, WorldTyped DEF Reinstates, Relay, clockVars
  <1>7. ASSUME NEW r \in Ids, ConsoleUnpublishes(r) PROVE TypedInv'
    <2>1. rooms' \in [Ids -> RelayRoom]
      BY <1>1, <1>7, RelayRooms DEF ConsoleUnpublishes
    <2> QED
      BY <1>1, <1>7, <2>1, WorldTyped DEF ConsoleUnpublishes, Relay, clockVars
  <1>8. ASSUME NEW r \in Ids, NEW t \in Titles, ConsolePublishes(r, t) PROVE TypedInv'
    <2>1. rooms' \in [Ids -> RelayRoom]
      BY <1>1, <1>8, RelayRooms DEF ConsolePublishes, Wishes
    <2> QED
      BY <1>1, <1>8, <2>1, WorldTyped DEF ConsolePublishes, Relay, clockVars
  <1> QED
    BY <1>2, <1>3, <1>4, <1>5, <1>6, <1>7, <1>8 DEF Others

LEMMA LookTyped == TypedInv /\ Look => TypedInv'
  <1> SUFFICES ASSUME TypedInv, Look PROVE TypedInv'
    OBVIOUS
  <1>1. slot # NoRoom => slot.id \in Ids
    BY RoomParts DEF TypedInv, TypeOK
  <1>2. pc' \in {"look", "drop", "publicity", "register"} /\ lastRoom' \in Ids \cup {0}
    BY <1>1 DEF TypedInv, TypeOK, Look, AfterDrop
  <1>3. TypeOK'
    BY <1>2 DEF TypedInv, TypeOK, Look, Pusher, Quiet, ghostVars, bookVars, clockVars, Places
  <1>4. PlaceInv'
    BY <1>1, <1>2 DEF TypedInv, TypeOK, PlaceInv, Look, AfterDrop, AtWork
  <1> QED
    BY <1>3, <1>4 DEF TypedInv

LEMMA DropTyped == TypedInv /\ Drop => TypedInv'
  <1> SUFFICES ASSUME TypedInv, Drop PROVE TypedInv'
    OBVIOUS
  <1>1. hand.id \in Ids \cup {0} /\ lastRoom \in Ids
    BY RoomParts DEF TypedInv, TypeOK, PlaceInv, Drop, NoRoom
  <1>2. pc' \in {"look", "publicity", "register"}
    BY DEF Drop, AfterDrop
  <1>3. rooms' \in [Ids -> RelayRoom] /\ lost' \subseteq Ids
    BY <1>1, RelayRooms DEF TypedInv, TypeOK, Drop
  <1>4. Unpushed \in [Sessions -> Shots]
    BY Bounds DEF Unpushed
  <1>5. TypeOK'
    BY <1>1, <1>2, <1>3, <1>4
    DEF TypedInv, TypeOK, Drop, Pusher, Forgotten, bookVars, Places
  <1>6. PlaceInv'
    BY <1>2 DEF TypedInv, PlaceInv, Drop, AfterDrop, AtWork
  <1> QED
    BY <1>5, <1>6 DEF TypedInv

LEMMA RegisterTyped == TypedInv /\ Register => TypedInv'
  <1> SUFFICES ASSUME TypedInv, Register PROVE TypedInv'
    OBVIOUS
  <1>1. hand # NoRoom /\ hand.id \in Ids /\ hand.staged \in Stagings
    BY RoomParts DEF TypedInv, TypeOK, PlaceInv, AtWork, Register
  <1>2. rooms' \in [Ids -> RelayRoom] /\ known' \subseteq Ids
    BY <1>1, RelayRooms DEF TypedInv, TypeOK, Register, Opens
  <1>3. TypeOK'
    BY <1>2 DEF TypedInv, TypeOK, Register, Pusher, bookVars, clockVars, Places
  <1>4. PlaceInv'
    BY DEF TypedInv, PlaceInv, Register, AtWork
  <1> QED
    BY <1>3, <1>4 DEF TypedInv

LEMMA MarkStagedType ==
    ASSUME TypedInv, NEW state \in {"ready", "failed"}, MarkStaged(state)
    PROVE  slot' \in Room \cup {NoRoom}
  BY RoomChanges DEF TypedInv, TypeOK, MarkStaged

LEMMA RegisteredTyped == TypedInv /\ Registered => TypedInv'
  <1> SUFFICES ASSUME TypedInv, Registered PROVE TypedInv'
    OBVIOUS
  <1>1. hand # NoRoom /\ Lanes(hand) \in Version
    BY RoomParts DEF TypedInv, TypeOK, PlaceInv, AtWork, Registered, Lanes, Version
  <1>2. slot' \in Room \cup {NoRoom}
    BY MarkStagedType DEF Registered
  <1>3. Unpushed \in [Sessions -> Shots]
    BY Bounds DEF Unpushed
  <1>4. TypeOK'
    BY <1>1, <1>2, <1>3
    DEF TypedInv, TypeOK, Registered, Pusher, clockVars, Places
  <1>5. PlaceInv'
    BY DEF TypedInv, PlaceInv, Registered, AtWork
  <1> QED
    BY <1>4, <1>5 DEF TypedInv

LEMMA PublicityTyped == TypedInv /\ (NothingToAsk \/ Put \/ Delete) => TypedInv'
  <1> SUFFICES ASSUME TypedInv, NothingToAsk \/ Put \/ Delete PROVE TypedInv'
    OBVIOUS
  <1>1. hand # NoRoom /\ hand.id \in Ids /\ hand.want \in Wishes
    BY RoomParts
    DEF TypedInv, TypeOK, PlaceInv, AtWork, NothingToAsk, Put, Delete
  <1>2. RetryOfThisWish \in Version \cup {NoVersion}
    BY DEF RetryOfThisWish, TypedInv, TypeOK
  <1>3. CASE NothingToAsk
    <2>1. TypeOK'
      BY <1>2, <1>3
      DEF TypedInv, TypeOK, NothingToAsk, Pusher, Quiet, ghostVars, clockVars, Places
    <2>2. PlaceInv'
      BY <1>3 DEF TypedInv, PlaceInv, NothingToAsk, AtWork
    <2> QED
      BY <2>1, <2>2 DEF TypedInv
  <1>4. CASE Put
    <2>1. rooms' \in [Ids -> RelayRoom]
      BY <1>1, <1>4, RelayRooms DEF TypedInv, TypeOK, Put, Publishes
    <2>2. heard' \subseteq Titles
      BY <1>1, <1>4 DEF TypedInv, TypeOK, Put, Hears, Wishes
    <2>3. TypeOK'
      BY <1>2, <1>4, <2>1, <2>2 DEF TypedInv, TypeOK, Put, Pusher, clockVars, Places
    <2>4. PlaceInv'
      BY <1>4 DEF TypedInv, PlaceInv, Put, AtWork
    <2> QED
      BY <2>3, <2>4 DEF TypedInv
  <1>5. CASE Delete
    <2>1. rooms' \in [Ids -> RelayRoom]
      BY <1>1, <1>5, RelayRooms DEF TypedInv, TypeOK, Delete
    <2>2. TypeOK'
      BY <1>2, <1>5, <2>1 DEF TypedInv, TypeOK, Delete, Pusher, ghostVars, clockVars, Places
    <2>3. PlaceInv'
      BY <1>5 DEF TypedInv, PlaceInv, Delete, AtWork
    <2> QED
      BY <2>2, <2>3 DEF TypedInv
  <1> QED
    BY <1>3, <1>4, <1>5

LEMMA ToldTyped == TypedInv /\ (Told \/ Probe) => TypedInv'
  <1> SUFFICES ASSUME TypedInv, Told \/ Probe PROVE TypedInv'
    OBVIOUS
  <1>1. hand # NoRoom /\ hand.want \in Wishes /\ Wish(hand) \in Version
    BY RoomParts
    DEF TypedInv, TypeOK, PlaceInv, AtWork, Told, Probe, Wish, Version
  <1>2. CASE Told
    <2>1. ASSUME hand.want # NoTitle
          PROVE  As(IF answer = "ok" THEN "listed" ELSE "failed", hand.want) \in Shown
      BY <1>1, <2>1, ShownParts DEF Wishes
    <2>2. slot' \in Room \cup {NoRoom}
      <3>1. ASSUME NEW p \in Shown, MarkPublic(p) PROVE slot' \in Room \cup {NoRoom}
        BY <3>1, RoomChanges DEF TypedInv, TypeOK, MarkPublic
      <3> QED
        BY <1>2, <2>1, <3>1 DEF Told, TypedInv, TypeOK
    <2>3. answer \in {"ok", "lost", "denied", "refused"}
      BY <1>2 DEF TypedInv, PlaceInv, Told
    <2>4. /\ applied' \in Version \cup {NoVersion} /\ stuck' \in Version \cup {NoVersion}
          /\ retry' \in Version \cup {NoVersion} /\ due' \in BOOLEAN
      BY <1>1, <1>2, <2>3 DEF Told, TryLater, TypedInv, TypeOK
    <2>5. TypeOK'
      BY <1>2, <2>2, <2>4 DEF TypedInv, TypeOK, Told, Pusher, Quiet, ghostVars, Places
    <2>6. PlaceInv'
      BY <1>2 DEF TypedInv, PlaceInv, Told, AtWork
    <2> QED
      BY <2>5, <2>6 DEF TypedInv
  <1>3. CASE Probe
    <2>1. /\ stuck' \in Version \cup {NoVersion} /\ started' \in Version \cup {NoVersion}
          /\ retry' \in Version \cup {NoVersion} /\ due' \in BOOLEAN
      BY <1>1, <1>3 DEF Probe, TryLater, TypedInv, TypeOK
    <2>2. TypeOK'
      BY <1>3, <2>1 DEF TypedInv, TypeOK, Probe, Pusher, ghostVars, Places
    <2>3. PlaceInv'
      BY <1>3 DEF TypedInv, PlaceInv, Probe, AtWork
    <2> QED
      BY <2>2, <2>3 DEF TypedInv
  <1> QED
    BY <1>2, <1>3

LEMMA ReadTyped == TypedInv /\ (Read \/ Seen \/ Capture) => TypedInv'
  <1> SUFFICES ASSUME TypedInv, Read \/ Seen \/ Capture PROVE TypedInv'
    OBVIOUS
  <1>1. hand # NoRoom /\ hand.id \in Ids /\ Len(hand.staged) >= 1
    BY RoomParts DEF TypedInv, TypeOK, PlaceInv, AtWork, Read, Seen, Capture
  <1>2. CASE Read
    <2>1. rooms[hand.id].public.title \in Wishes
      BY <1>1 DEF TypedInv, TypeOK, RelayRoom
    <2>2. heard' \subseteq Titles
      BY <1>2, <2>1 DEF TypedInv, TypeOK, Read, Hears, Wishes
    <2>3. /\ answer' \in {"none", "ok", "lost", "denied", "refused"} \cup Titles
          /\ pc' \in {"capture", "seen"} /\ pc' = "seen" => answer' \in Wishes
      BY <1>2, <2>1 DEF TypedInv, TypeOK, Read, Wishes, NoTitle
    <2>4. TypeOK'
      BY <1>2, <2>2, <2>3 DEF TypedInv, TypeOK, Read, Pusher, Places
    <2>5. PlaceInv'
      BY <1>2, <2>3 DEF TypedInv, PlaceInv, Read, AtWork
    <2> QED
      BY <2>4, <2>5 DEF TypedInv
  <1>3. CASE Seen
    <2>1. answer \in Wishes
      BY <1>3 DEF TypedInv, PlaceInv, Seen
    <2>2. ASSUME slot # NoRoom PROVE SeenPublic(answer) \in Shown
      <3>1. slot.want \in Wishes /\ slot.public \in Shown
        BY <2>2, RoomParts DEF TypedInv, TypeOK
      <3> QED
        BY <2>1, <3>1, ShownParts DEF SeenPublic, Wishes
    <2>3. slot' \in Room \cup {NoRoom}
      <3>1. ASSUME NEW p \in Shown, slot \in Room
            PROVE  [slot EXCEPT !.public = p] \in Room
        BY <3>1, RoomChanges
      <3> QED
        BY <1>3, <2>2, <3>1 DEF TypedInv, TypeOK, Seen
    <2>4. TypeOK'
      BY <1>3, <2>3 DEF TypedInv, TypeOK, Seen, Pusher, Quiet, ghostVars, clockVars, Places
    <2>5. PlaceInv'
      BY <1>3 DEF TypedInv, PlaceInv, Seen, AtWork
    <2> QED
      BY <2>4, <2>5 DEF TypedInv
  <1>4. CASE Capture
    <2>1. TypeOK'
      BY <1>4
      DEF TypedInv, TypeOK, Capture, Pusher, Quiet, ghostVars, bookVars, clockVars, Places
    <2>2. PlaceInv'
      BY <1>1, <1>4 DEF TypedInv, PlaceInv, Capture, AtWork
    <2> QED
      BY <2>1, <2>2 DEF TypedInv
  <1> QED
    BY <1>2, <1>3, <1>4

(* The lane that comes next is one of the copy, and its session is one.      *)
LEMMA LaneParts ==
    ASSUME TypedInv, pc = "push"
    PROVE  /\ hand # NoRoom /\ hand.id \in Ids
           /\ lane \in Nat \ {0} /\ lane <= Len(hand.staged)
           /\ lane \in 1..Len(hand.staged) /\ lane \in DOMAIN hand.staged
           /\ hand.staged[lane] \in Sessions
           /\ Shot \in Shots
  <1>1. hand # NoRoom /\ lane \in Nat \ {0} /\ lane <= Len(hand.staged)
    BY DEF TypedInv, TypeOK, PlaceInv, AtWork
  <1>2. hand.id \in Ids /\ hand.staged \in Seq(Sessions)
    BY <1>1, RoomParts DEF TypedInv, TypeOK
  <1>3. lane \in 1..Len(hand.staged) /\ hand.staged[lane] \in Sessions
    BY <1>1, <1>2
  <1>4. Shot \in Shots
    BY <1>3 DEF Shot, TypedInv, TypeOK
  <1> QED
    BY <1>1, <1>2, <1>3, <1>4

LEMMA DeliversType ==
    ASSUME TypedInv, pc = "push", Delivers
    PROVE  rooms' \in [Ids -> RelayRoom]
  <1>1. CASE Keepalive
    BY <1>1 DEF Delivers, TypedInv, TypeOK
  <1>2. CASE ~Keepalive
    <2>1. <<hand.staged[lane], Shot>> \in Sessions \X Shots /\ lane \in Nat
      BY LaneParts
    <2>2. rooms[hand.id] \in RelayRoom
      BY LaneParts DEF TypedInv, TypeOK
    <2> DEFINE room == [rooms[hand.id] EXCEPT !.frames[lane] = <<hand.staged[lane], Shot>>]
    <2>3. room \in RelayRoom
      BY <2>1, <2>2, RelayRooms
    <2>4. rooms' = [rooms EXCEPT ![hand.id] = room]
      BY <1>2, LaneParts DEF Delivers, TypedInv, TypeOK
    <2> QED
      BY <2>3, <2>4 DEF TypedInv, TypeOK
  <1> QED
    BY <1>1, <1>2

LEMMA PushTyped == TypedInv /\ (NothingToPush \/ Skips \/ Push) => TypedInv'
  <1> SUFFICES ASSUME TypedInv, NothingToPush \/ Skips \/ Push PROVE TypedInv'
    OBVIOUS
  <1>1. Pushing /\ pc = "push"
    BY DEF NothingToPush, Skips, Push, Pushing
  <1>2. /\ lane' \in Nat \ {0} /\ shots' \in [Sessions -> Shots] /\ pc' \in {"push", "look"}
        /\ pc' = "push" => lane' <= Len(hand.staged)
        /\ pc' = "look" => lane' = 1
    <2>1. Unpushed \in [Sessions -> Shots] /\ Len(hand.staged) \in Nat
      BY <1>1, Bounds, LaneParts, RoomParts DEF Unpushed, TypedInv, TypeOK
    <2> QED
      BY <1>1, <2>1, LaneParts DEF Pushing, NextLane, TypedInv, TypeOK
  <1>3. ASSUME NEW v \in Shots, Books(v) PROVE pushed' \in [Sessions -> Shots]
    BY <1>3 DEF Books, TypedInv, TypeOK
  <1>4. pushed' \in [Sessions -> Shots]
    BY <1>1, <1>3, LaneParts DEF NothingToPush, Skips, Push, TypedInv, TypeOK
  <1>5. rooms' \in [Ids -> RelayRoom]
    BY <1>1, DeliversType DEF NothingToPush, Skips, Push, TypedInv, TypeOK
  <1>6. started' \in Version \cup {NoVersion}
    BY DEF NothingToPush, Skips, Push, TypedInv, TypeOK
  <1>7. unsure' \subseteq Sessions
    BY <1>1, LaneParts DEF NothingToPush, Skips, Push, Confirmed, TypedInv, TypeOK
  <1>8. TypeOK'
    BY <1>1, <1>2, <1>4, <1>5, <1>6, <1>7
    DEF TypedInv, TypeOK, Pushing, Pusher, clockVars, Places
  <1>9. PlaceInv'
    BY <1>1, <1>2 DEF TypedInv, PlaceInv, Pushing, AtWork
  <1> QED
    BY <1>8, <1>9 DEF TypedInv

LEMMA StutterTyped == TypedInv /\ UNCHANGED vars => TypedInv'
  BY DEF TypedInv, TypeOK, PlaceInv, AtWork, vars, teacherVars, relayVars, bookVars,
         clockVars, roundVars, ghostVars

LEMMA NextTyped == TypedInv /\ [Next]_vars => TypedInv'
  BY TeacherTyped, OthersTyped, LookTyped, DropTyped, RegisterTyped, RegisteredTyped,
     PublicityTyped, ToldTyped, ReadTyped, PushTyped, StutterTyped
  DEF Next, Goes

LEMMA AlwaysTyped == Spec => []TypedInv
  BY InitTyped, NextTyped, PTL DEF Spec

(* Types of the slot, of the books of the pusher and of the relay's rooms.   *)
THEOREM TypeCorrect == Spec => []TypeOK
  <1>1. TypedInv => TypeOK
    BY DEF TypedInv
  <1> QED
    BY <1>1, AlwaysTyped, PTL

-----------------------------------------------------------------------------
(* What the steps of the pusher leave alone: of the slot they change what is *)
(* shown of it, and they take a copy of it only when they look.              *)
SameSlot ==
    /\ slot = NoRoom => slot' = NoRoom
    /\ slot # NoRoom =>
         /\ slot' \in Room /\ slot' # NoRoom
         /\ slot'.id = slot.id /\ slot'.staged = slot.staged
         /\ slot'.stagedRev = slot.stagedRev
         /\ slot'.want = slot.want /\ slot'.publicRev = slot.publicRev

SameShown == slot # NoRoom => slot'.public = slot.public
SameReadiness == slot # NoRoom => slot'.readiness = slot.readiness

LEMMA ReadinessChange ==
    ASSUME NEW s \in Room, NEW state \in {"ready", "failed"},
           NEW t, t = [s EXCEPT !.readiness = state]
    PROVE  /\ t \in Room /\ t # NoRoom /\ t.readiness = state
           /\ t.id = s.id /\ t.staged = s.staged /\ t.stagedRev = s.stagedRev
           /\ t.want = s.want /\ t.publicRev = s.publicRev /\ t.public = s.public
  BY Bounds DEF Room

LEMMA PublicChange ==
    ASSUME NEW s \in Room, NEW p \in Shown, NEW t, t = [s EXCEPT !.public = p]
    PROVE  /\ t \in Room /\ t # NoRoom /\ t.public = p
           /\ t.id = s.id /\ t.staged = s.staged /\ t.stagedRev = s.stagedRev
           /\ t.want = s.want /\ t.publicRev = s.publicRev
           /\ t.readiness = s.readiness
  BY Bounds DEF Room

LEMMA SameWhenUnchanged == TypedInv /\ UNCHANGED slot => SameSlot /\ SameShown /\ SameReadiness
  BY DEF TypedInv, TypeOK, SameSlot, SameShown, SameReadiness

LEMMA StagedMarks ==
    ASSUME TypedInv, NEW state \in {"ready", "failed"}, MarkStaged(state)
    PROVE  /\ SameSlot /\ SameShown
           /\ slot # NoRoom =>
                slot'.readiness = IF Lanes(slot) = Lanes(hand) THEN state
                                  ELSE slot.readiness
  <1>1. CASE slot # NoRoom /\ Lanes(slot) = Lanes(hand)
    <2>1. slot \in Room
      BY <1>1 DEF TypedInv, TypeOK
    <2>2. slot' = [slot EXCEPT !.readiness = state]
      BY <1>1 DEF MarkStaged
    <2> QED
      BY <1>1, <2>1, <2>2, ReadinessChange DEF SameSlot, SameShown
  <1>2. CASE ~(slot # NoRoom /\ Lanes(slot) = Lanes(hand))
    BY <1>2 DEF MarkStaged, SameSlot, SameShown, TypedInv, TypeOK
  <1> QED
    BY <1>1, <1>2

LEMMA PublicMarks ==
    ASSUME TypedInv, NEW p \in Shown, MarkPublic(p)
    PROVE  /\ SameSlot /\ SameReadiness
           /\ slot # NoRoom =>
                slot'.public = IF Wish(slot) = Wish(hand) THEN p ELSE slot.public
  <1>1. CASE slot # NoRoom /\ Wish(slot) = Wish(hand)
    <2>1. slot \in Room
      BY <1>1 DEF TypedInv, TypeOK
    <2>2. slot' = [slot EXCEPT !.public = p]
      BY <1>1 DEF MarkPublic
    <2> QED
      BY <1>1, <2>1, <2>2, PublicChange DEF SameSlot, SameReadiness
  <1>2. CASE ~(slot # NoRoom /\ Wish(slot) = Wish(hand))
    BY <1>2 DEF MarkPublic, SameSlot, SameReadiness, TypedInv, TypeOK
  <1> QED
    BY <1>1, <1>2

LEMMA ToldMarks ==
    ASSUME TypedInv, Told
    PROVE  /\ SameSlot /\ SameReadiness
           /\ slot # NoRoom =>
                slot'.public =
                  IF hand.want # NoTitle /\ Wish(slot) = Wish(hand)
                  THEN As(IF answer = "ok" THEN "listed" ELSE "failed", hand.want)
                  ELSE slot.public
  <1>1. hand # NoRoom /\ hand.want \in Wishes
    BY RoomParts DEF TypedInv, TypeOK, PlaceInv, AtWork, Told
  <1>2. CASE hand.want = NoTitle
    BY <1>2, SameWhenUnchanged DEF Told, SameShown
  <1>3. CASE hand.want # NoTitle
    <2> DEFINE p == As(IF answer = "ok" THEN "listed" ELSE "failed", hand.want)
    <2>1. p \in Shown
      BY <1>1, <1>3, ShownParts DEF Wishes
    <2>2. MarkPublic(p)
      BY <1>3 DEF Told
    <2> HIDE DEF p
    <2>3. /\ SameSlot /\ SameReadiness
          /\ slot # NoRoom =>
               slot'.public = IF Wish(slot) = Wish(hand) THEN p ELSE slot.public
      BY <2>1, <2>2, PublicMarks
    <2> QED
      BY <1>3, <2>3 DEF p
  <1> QED
    BY <1>2, <1>3

LEMMA SeenShown ==
    ASSUME TypedInv, slot # NoRoom, answer \in Wishes
    PROVE  SeenPublic(answer) \in Shown
  <1>1. slot.want \in Wishes /\ slot.public \in Shown
    BY RoomParts DEF TypedInv, TypeOK
  <1> QED
    BY <1>1, ShownParts DEF SeenPublic, Wishes

LEMMA SeenMarks ==
    ASSUME TypedInv, Seen
    PROVE  /\ SameSlot /\ SameReadiness
           /\ slot # NoRoom =>
                slot'.public = IF Wish(slot) = Wish(hand) THEN SeenPublic(answer)
                               ELSE slot.public
  <1>1. CASE slot # NoRoom /\ Wish(slot) = Wish(hand)
    <2>1. slot \in Room /\ SeenPublic(answer) \in Shown
      BY <1>1, SeenShown DEF TypedInv, TypeOK, PlaceInv, Seen
    <2>2. slot' = [slot EXCEPT !.public = SeenPublic(answer)]
      BY <1>1 DEF Seen
    <2> QED
      BY <1>1, <2>1, <2>2, PublicChange DEF SameSlot, SameReadiness
  <1>2. CASE ~(slot # NoRoom /\ Wish(slot) = Wish(hand))
    BY <1>2 DEF Seen, SameSlot, SameReadiness, TypedInv, TypeOK
  <1> QED
    BY <1>1, <1>2

Confirms == pc = "registered" /\ answer = "ok" /\ started' = Lanes(hand)

LEMMA GoesKeeps ==
    ASSUME TypedInv, Goes, ~Look
    PROVE  /\ SameSlot /\ UNCHANGED <<hand, nextId>>
           /\ started' \in {started, NoVersion} \/ Confirms
  <1>1. CASE Registered
    BY <1>1, StagedMarks DEF Registered, Pusher, Confirms
  <1>2. CASE Told
    BY <1>2, ToldMarks DEF Told, Pusher
  <1>3. CASE Seen
    BY <1>3, SeenMarks DEF Seen, Pusher
  <1>4. CASE Drop
    BY <1>4, SameWhenUnchanged DEF Drop, Pusher, Forgotten, bookVars
  <1>5. CASE Register \/ NothingToAsk \/ Capture
    BY <1>5, SameWhenUnchanged DEF Register, NothingToAsk, Capture, Pusher, bookVars
  <1>6. CASE Put \/ Delete \/ Probe \/ Read
    BY <1>6, SameWhenUnchanged DEF Put, Delete, Probe, Read, Pusher
  <1>7. CASE NothingToPush \/ Skips \/ Push
    BY <1>7, SameWhenUnchanged DEF NothingToPush, Skips, Push, Pushing, Pusher
  <1> QED
    BY <1>1, <1>2, <1>3, <1>4, <1>5, <1>6, <1>7 DEF Goes

LEMMA OthersKeep ==
    ASSUME TypedInv, Others \/ UNCHANGED vars
    PROVE  /\ UNCHANGED <<slot, nextId, hand, started, pc, answer, lastRoom, known, lost>>
           /\ UNCHANGED heard
  BY DEF Others, Turns, TimeToRetry, TimeToRead, Forgets, Revokes, Reinstates,
         ConsolePublishes, ConsoleUnpublishes, Relay, World, vars, teacherVars,
         bookVars, roundVars, ghostVars

LEMMA TeacherKeeps ==
    ASSUME TypedInv, Teacher
    PROVE  /\ UNCHANGED <<hand, started, pc, answer, lastRoom, known, lost, rooms>>
           /\ \/ slot' = NoRoom /\ nextId' = nextId
              \/ /\ slot' \in Room /\ slot'.id = nextId /\ nextId' = nextId + 1
                 /\ slot'.readiness = "pending" /\ slot'.public = Private
              \/ /\ slot \in Room /\ slot' \in Room /\ slot'.id = slot.id
                 /\ slot'.readiness = "pending"
                 /\ nextId' = nextId /\ slot'.stagedRev = slot.stagedRev + 1
                 /\ slot'.publicRev = slot.publicRev /\ slot'.want = slot.want
                 /\ slot'.public = slot.public /\ heard' = heard
              \/ /\ slot \in Room /\ slot' \in Room /\ slot'.id = slot.id
                 /\ nextId' = nextId /\ slot'.publicRev = slot.publicRev + 1
                 /\ slot'.stagedRev = slot.stagedRev /\ slot'.staged = slot.staged
                 /\ slot'.readiness = slot.readiness
                 /\ slot'.public.as # "listed"
  <1>1. slot' \in Room \cup {NoRoom}
    BY TeacherTyped DEF TypedInv, TypeOK
  <1>2. slot # NoRoom => slot \in Room
    BY DEF TypedInv, TypeOK
  <1>3. Asks
    BY DEF Teacher, Start, Restage, Stop, Publish, Unpublish
  <1>4. UNCHANGED <<hand, started, pc, answer, lastRoom, known, lost, rooms>>
    BY <1>3 DEF Asks, roundVars, bookVars, relayVars
  <1>5. ASSUME NEW staged \in Stagings, Start(staged)
        PROVE  /\ slot' \in Room /\ slot'.id = nextId /\ nextId' = nextId + 1
               /\ slot'.readiness = "pending" /\ slot'.public = Private
    <2>1. slot' # NoRoom
      BY <1>5, Bounds DEF Start, NoRoom
    <2> QED
      BY <1>1, <1>5, <2>1 DEF Start
  <1>6. ASSUME NEW staged \in Stagings, Restage(staged)
        PROVE  /\ slot \in Room /\ slot' \in Room /\ slot'.id = slot.id
               /\ slot'.readiness = "pending"
               /\ nextId' = nextId /\ slot'.stagedRev = slot.stagedRev + 1
               /\ slot'.publicRev = slot.publicRev /\ slot'.want = slot.want
               /\ slot'.public = slot.public /\ heard' = heard
    <2>1. slot \in Room /\ nextId' = nextId /\ heard' = heard
      BY <1>2, <1>6 DEF Restage
    <2>2. slot.stagedRev + 1 \in Nat
      BY <2>1 DEF Room
    <2>3. slot' = [slot EXCEPT !.staged = staged, !.stagedRev = slot.stagedRev + 1,
                               !.readiness = "pending"]
      BY <1>6 DEF Restage
    <2>4. slot' \in Room
      BY <2>1, <2>2, <2>3, RoomChanges
    <2> QED
      BY <2>1, <2>3, <2>4 DEF Room
  <1>7. ASSUME NEW p \in Shown, NEW w \in Wishes, p.as # "listed", slot # NoRoom,
               slot' = [slot EXCEPT !.public = p, !.want = w,
                                    !.publicRev = slot.publicRev + 1],
               nextId' = nextId
        PROVE  /\ slot \in Room /\ slot' \in Room /\ slot'.id = slot.id
               /\ nextId' = nextId /\ slot'.publicRev = slot.publicRev + 1
               /\ slot'.stagedRev = slot.stagedRev /\ slot'.staged = slot.staged
               /\ slot'.readiness = slot.readiness
               /\ slot'.public.as # "listed"
    <2>1. slot \in Room /\ slot.publicRev + 1 \in Nat
      BY <1>2, <1>7 DEF Room
    <2>2. slot' \in Room
      BY <1>7, <2>1, RoomChanges
    <2> QED
      BY <1>7, <2>1, <2>2 DEF Room
  <1>8. CASE Unpublish
    <2>1. Private \in Shown /\ Private.as # "listed" /\ NoTitle \in Wishes
      BY ShownParts DEF Private, Wishes
    <2> QED
      BY <1>4, <1>7, <1>8, <2>1 DEF Unpublish
  <1>9. ASSUME NEW t \in Titles, Publish(t)
        PROVE  /\ slot \in Room /\ slot' \in Room /\ slot'.id = slot.id
               /\ nextId' = nextId /\ slot'.publicRev = slot.publicRev + 1
               /\ slot'.stagedRev = slot.stagedRev /\ slot'.staged = slot.staged
               /\ slot'.readiness = slot.readiness
               /\ slot'.public.as # "listed"
    <2>1. As("pending", t) \in Shown /\ As("pending", t).as # "listed" /\ t \in Wishes
      BY ShownParts DEF As, Wishes
    <2> QED
      BY <1>7, <1>9, <2>1 DEF Publish
  <1>10. CASE Stop
    BY <1>4, <1>10 DEF Stop
  <1> QED
    BY <1>4, <1>5, <1>6, <1>8, <1>9, <1>10 DEF Teacher

-----------------------------------------------------------------------------
(* The copy is never newer than the slot, nor the books newer than the copy, *)
(* and what has the same number is the same.                                 *)
AgeInv ==
    /\ slot # NoRoom => slot.id < nextId
    /\ hand # NoRoom => hand.id < nextId
    /\ started[1] < nextId
    /\ hand # NoRoom /\ slot # NoRoom /\ hand.id = slot.id =>
         /\ hand.stagedRev <= slot.stagedRev
         /\ hand.publicRev <= slot.publicRev
         /\ hand.stagedRev = slot.stagedRev => hand.staged = slot.staged
         /\ hand.publicRev = slot.publicRev => hand.want = slot.want
    /\ hand # NoRoom /\ started[1] = hand.id => started[2] <= hand.stagedRev
    /\ slot # NoRoom /\ started[1] = slot.id => started[2] <= slot.stagedRev

AgedInv == TypedInv /\ AgeInv

LEMMA VersionParts ==
    ASSUME NEW v \in Version \cup {NoVersion}
    PROVE  v[1] \in Nat /\ v[2] \in Nat /\ v = <<v[1], v[2]>>
  BY Bounds DEF Version, NoVersion, Ids

LEMMA NextAged == AgedInv /\ [Next]_vars => AgeInv'
  <1> SUFFICES ASSUME AgedInv, [Next]_vars PROVE AgeInv'
    OBVIOUS
  <1>1. /\ slot # NoRoom => slot.id \in Nat /\ slot.stagedRev \in Nat /\ slot.publicRev \in Nat
        /\ hand # NoRoom => hand.id \in Nat /\ hand.stagedRev \in Nat /\ hand.publicRev \in Nat
        /\ started[1] \in Nat /\ started[2] \in Nat /\ nextId \in Nat /\ nextId > 0
    BY RoomParts, VersionParts, Bounds DEF AgedInv, TypedInv, TypeOK, Ids
  <1>2. CASE Teacher
    BY <1>1, <1>2, TeacherKeeps, Bounds DEF AgedInv, AgeInv
  <1>3. CASE Others \/ UNCHANGED vars
    BY <1>3, OthersKeep DEF AgedInv, AgeInv
  <1>4. CASE Look
    BY <1>1, <1>4 DEF AgedInv, AgeInv, Look, Pusher, bookVars
  <1>5. CASE Goes /\ ~Look
    <2>1. SameSlot /\ UNCHANGED <<hand, nextId>> /\ (started' \in {started, NoVersion} \/ Confirms)
      BY <1>5, GoesKeeps DEF AgedInv
    <2>2. CASE started' = started
      BY <1>1, <2>1, <2>2 DEF AgedInv, AgeInv, SameSlot
    <2>3. CASE started' = NoVersion
      BY <1>1, <2>1, <2>3, RoomParts DEF AgedInv, AgeInv, SameSlot, NoVersion
    <2>4. CASE Confirms
      <3>1. hand # NoRoom
        BY <2>4 DEF Confirms, AgedInv, TypedInv, PlaceInv, AtWork
      <3> QED
        BY <1>1, <2>1, <2>4, <3>1 DEF AgedInv, AgeInv, SameSlot, Confirms, Lanes
    <2> QED
      BY <2>1, <2>2, <2>3, <2>4
  <1> QED
    BY <1>2, <1>3, <1>4, <1>5 DEF Next

-----------------------------------------------------------------------------
(* What a step may do to a room of the relay.                                *)
Closed(r) == rooms'[r] = Absent
Kept(r) == rooms'[r].lanes = rooms[r].lanes /\ rooms'[r].frames = rooms[r].frames
OpenedNow(r) ==
    /\ Register /\ r = hand.id /\ rooms'[r] = Opened(hand.staged)
    /\ known' = known \cup {hand.id}
Framed(r) ==
    /\ Push /\ r = hand.id /\ IsOpen(r) /\ rooms'[r].lanes = rooms[r].lanes
    /\ rooms'[r].frames = [rooms[r].frames EXCEPT ![lane] = <<hand.staged[lane], Shot>>]

LEMMA PublicKeeps ==
    ASSUME NEW room \in RelayRoom, NEW p
    PROVE  /\ [room EXCEPT !.public = p].lanes = room.lanes
           /\ [room EXCEPT !.public = p].frames = room.frames
  BY DEF RelayRoom

LEMMA RoomSteps ==
    ASSUME TypedInv, [Next]_vars, NEW r \in Ids
    PROVE  Closed(r) \/ Kept(r) \/ OpenedNow(r) \/ Framed(r)
  <1>1. /\ rooms \in [Ids -> RelayRoom]
        /\ \A q \in Ids : rooms[q] \in RelayRoom
    BY DEF TypedInv, TypeOK
  <1>2. ASSUME NEW q \in Ids, NEW p, rooms' = [rooms EXCEPT ![q].public = p]
        PROVE  Kept(r)
    <2>1. rooms' = [rooms EXCEPT ![q] = [rooms[q] EXCEPT !.public = p]]
      BY <1>1, <1>2
    <2>2. rooms'[r] = IF r = q THEN [rooms[q] EXCEPT !.public = p] ELSE rooms[r]
      BY <1>1, <2>1
    <2> QED
      BY <1>1, <2>2, PublicKeeps DEF Kept
  <1>3. CASE rooms' = rooms
    BY <1>3 DEF Kept
  <1>4. CASE Teacher
    BY <1>3, <1>4, TeacherKeeps
  <1>5. ASSUME NEW gone \in SUBSET Ids, Forgets(gone) PROVE Closed(r) \/ Kept(r)
    BY <1>5 DEF Forgets, Closed, Kept
  <1>6. CASE Revokes
    <2>1. rooms'[r] \in {rooms[r], [rooms[r] EXCEPT !.public = Nobody]}
      BY <1>6 DEF Revokes
    <2>2. /\ [rooms[r] EXCEPT !.public = Nobody].lanes = rooms[r].lanes
          /\ [rooms[r] EXCEPT !.public = Nobody].frames = rooms[r].frames
      BY <1>1, PublicKeeps
    <2> QED
      BY <2>1, <2>2 DEF Kept
  <1>7. ASSUME NEW q \in Ids, ConsoleUnpublishes(q) PROVE Kept(r)
    BY <1>2, <1>7 DEF ConsoleUnpublishes
  <1>8. ASSUME NEW q \in Ids, NEW t \in Titles, ConsolePublishes(q, t) PROVE Kept(r)
    BY <1>2, <1>8 DEF ConsolePublishes
  <1>9. CASE (\E s \in Sessions : Turns(s)) \/ TimeToRetry \/ TimeToRead \/ Reinstates
    BY <1>3, <1>9 DEF Turns, TimeToRetry, TimeToRead, Reinstates, relayVars
  <1>10. CASE Drop
    BY <1>1, <1>10 DEF Drop, Closed, Kept
  <1>11. CASE Register
    BY <1>1, <1>11 DEF Register, Opens, OpenedNow, Kept
  <1>12. CASE Put \/ Delete
    <2>1. hand.id \in Ids
      BY <1>12, RoomParts DEF Put, Delete, TypedInv, TypeOK, PlaceInv, AtWork
    <2> QED
      BY <1>2, <1>3, <1>12, <2>1 DEF Put, Delete, Publishes
  <1>13. CASE Push
    <2>1. hand.id \in Ids /\ lane \in Nat /\ Shot \in Shots /\ hand.staged[lane] \in Sessions
      BY <1>13, LaneParts DEF Push, Pushing
    <2> DEFINE f == <<hand.staged[lane], Shot>>
               room == [rooms[hand.id] EXCEPT !.frames[lane] = f]
    <2>2. room.lanes = rooms[hand.id].lanes
          /\ room.frames = [rooms[hand.id].frames EXCEPT ![lane] = f]
      BY <1>1, <2>1 DEF RelayRoom
    <2>3. CASE IsOpen(hand.id) /\ Delivers /\ ~Keepalive
      <3>1. rooms' = [rooms EXCEPT ![hand.id] = room]
        BY <1>1, <2>1, <2>3 DEF Delivers
      <3>2. r # hand.id => Kept(r)
        BY <1>1, <3>1 DEF Kept
      <3>3. r = hand.id => rooms'[r] = room
        BY <1>1, <3>1
      <3>4. r = hand.id => Framed(r)
        BY <1>13, <2>2, <2>3, <3>3 DEF Framed
      <3> QED
        BY <3>2, <3>4
    <2>4. CASE ~(IsOpen(hand.id) /\ Delivers /\ ~Keepalive)
      BY <1>3, <1>13, <2>4 DEF Push, Delivers
    <2> QED
      BY <2>3, <2>4
  <1>14. CASE NothingToPush \/ Skips
    BY <1>3, <1>14 DEF NothingToPush, Skips
  <1>15. CASE Look \/ Registered \/ NothingToAsk \/ Told \/ Probe \/ Read \/ Seen \/ Capture
    BY <1>3, <1>15 DEF Look, Registered, NothingToAsk, Told, Probe, Read, Seen, Capture, Quiet
  <1>16. CASE UNCHANGED vars
    BY <1>3, <1>16 DEF vars, relayVars
  <1> QED
    BY <1>4, <1>5, <1>6, <1>7, <1>8, <1>9, <1>10, <1>11, <1>12, <1>13, <1>14, <1>15, <1>16
    DEF Next, Others, Goes

LEMMA StaysOpen ==
    ASSUME TypedInv, [Next]_vars, ~Register, NEW r \in Ids, IsOpen(r)'
    PROVE  IsOpen(r) /\ rooms'[r].lanes = rooms[r].lanes
  <1>1. ~Closed(r)
    BY DEF Closed, Absent, IsOpen
  <1>2. Kept(r) \/ Framed(r)
    BY <1>1, RoomSteps DEF OpenedNow
  <1> QED
    BY <1>2 DEF Kept, Framed, IsOpen

LEMMA OtherPlaces ==
    ASSUME Goes, ~Look, ~Drop
    PROVE  UNCHANGED <<lastRoom, lost>>
  BY DEF Goes, Register, Registered, NothingToAsk, Put, Delete, Told, Probe, Read, Seen,
         Capture, NothingToPush, Skips, Push, Pushing, Quiet, ghostVars

LEMMA InitLeftOpen == Init => NoRoomIsLeftOpen
  BY DEF Init, NoRoomIsLeftOpen, IsOpen, Absent

LEMMA NextLeftOpen == TypedInv /\ NoRoomIsLeftOpen /\ [Next]_vars => NoRoomIsLeftOpen'
  <1> SUFFICES ASSUME TypedInv, NoRoomIsLeftOpen, [Next]_vars, NEW r \in Ids, IsOpen(r)'
               PROVE  (r = lastRoom \/ r \in lost)'
    BY DEF NoRoomIsLeftOpen
  <1>1. CASE Register
    <2>1. lastRoom = hand.id /\ UNCHANGED <<lastRoom, lost>>
      BY <1>1 DEF Register, TypedInv, PlaceInv, AtWork
    <2>2. ~Closed(r)
      BY DEF Closed, Absent, IsOpen
    <2>3. Kept(r) \/ r = hand.id
      BY <1>1, <2>2, RoomSteps DEF OpenedNow, Framed
    <2> QED
      BY <2>1, <2>3 DEF Kept, IsOpen, NoRoomIsLeftOpen
  <1>2. ASSUME ~Register PROVE r = lastRoom \/ r \in lost
    BY <1>2, StaysOpen DEF NoRoomIsLeftOpen
  <1>3. CASE Look
    <2>1. ~Register
      BY <1>3 DEF Look, Register
    <2>2. UNCHANGED lost /\ (r = lastRoom => r = lastRoom')
      BY <1>3, Bounds DEF Look, Quiet, ghostVars
    <2> QED
      BY <1>2, <2>1, <2>2
  <1>4. CASE Drop
    <2>1. ~Register
      BY <1>4 DEF Drop, Register
    <2>2. CASE rooms' = [rooms EXCEPT ![lastRoom] = Absent] /\ UNCHANGED lost
      <3>1. r # lastRoom
        BY <2>2 DEF IsOpen, Absent, TypedInv, TypeOK
      <3> QED
        BY <1>2, <2>1, <2>2, <3>1
    <2>3. CASE lost' = lost \cup {lastRoom}
      BY <1>2, <2>1, <2>3
    <2> QED
      BY <1>4, <2>2, <2>3 DEF Drop
  <1>5. CASE Goes /\ ~Look /\ ~Drop /\ ~Register
    BY <1>2, <1>5, OtherPlaces
  <1>6. CASE Teacher \/ Others \/ UNCHANGED vars
    <2>1. UNCHANGED <<lastRoom, lost>>
      BY <1>6, TeacherKeeps, OthersKeep
    <2>2. CASE Register
      BY <1>1, <2>2
    <2> QED
      BY <1>2, <2>1, <2>2
  <1> QED
    BY <1>1, <1>3, <1>4, <1>5, <1>6 DEF Next

(* What the relay has open the pusher has in mind, or the request to close   *)
(* it was lost: it remembers a broadcast before it registers it, and forgets *)
(* it only once it has asked the relay to close it (pusher_loop, last_room). *)
THEOREM RoomsHold == Spec => []NoRoomIsLeftOpen
  <1>1. Init => TypedInv /\ NoRoomIsLeftOpen
    BY InitTyped, InitLeftOpen
  <1>2. TypedInv /\ NoRoomIsLeftOpen /\ [Next]_vars => (TypedInv /\ NoRoomIsLeftOpen)'
    BY NextTyped, NextLeftOpen
  <1> QED
    BY <1>1, <1>2, PTL DEF Spec

-----------------------------------------------------------------------------
(* What the relay has open under a confirmed number is what that number      *)
(* stands for.                                                               *)
HasLanesOf(room) == IsOpen(room.id) => rooms[room.id].lanes = room.staged

LanesInv ==
    /\ slot # NoRoom /\ started = Lanes(slot) => HasLanesOf(slot)
    /\ hand # NoRoom /\ started = Lanes(hand) => HasLanesOf(hand)
    /\ InTheRoom => HasLanesOf(hand)
    /\ pc = "registered" /\ answer = "ok" => HasLanesOf(hand) /\ hand.id \in known

LaneInv == AgedInv /\ LanesInv

(* The teacher is told that a list is ready when it is the one of the copy.  *)
ReadyInv ==
    slot # NoRoom /\ slot.readiness = "ready" =>
        /\ hand # NoRoom /\ Lanes(hand) = Lanes(slot)
        /\ slot.id \in known /\ HasLanesOf(slot)

LEMMA InitLanes == Init => AgedInv /\ LanesInv /\ ReadyInv
  <1> SUFFICES ASSUME Init PROVE AgedInv /\ LanesInv /\ ReadyInv
    OBVIOUS
  <1>1. AgeInv
    BY DEF Init, AgeInv, NoVersion
  <1>2. LanesInv /\ ReadyInv
    BY DEF Init, LanesInv, ReadyInv, InTheRoom
  <1> QED
    BY <1>1, <1>2, InitTyped DEF AgedInv

(* The same of the rooms of the next state. *)
NowHas(r, lanes) == rooms'[r].lanes # <<>> => rooms'[r].lanes = lanes

(* Without a registration the lanes of a room stay, or the room goes.        *)
LEMMA LanesStay ==
    ASSUME TypedInv, [Next]_vars, ~Register, NEW a \in Room, NEW b \in Room,
           HasLanesOf(a), b.id = a.id, b.staged = a.staged
    PROVE  NowHas(b.id, b.staged)
  <1>1. b.id \in Ids
    BY DEF Room
  <1>2. ~Closed(b.id) => Kept(b.id) \/ Framed(b.id)
    BY <1>1, RoomSteps DEF OpenedNow
  <1> QED
    BY <1>2 DEF Closed, Kept, Framed, Absent, IsOpen, HasLanesOf, NowHas

(* The same when the room of the copy is registered.                         *)
LEMMA LanesOpened ==
    ASSUME TypedInv, [Next]_vars, Register, NEW a \in Room, HasLanesOf(a),
           a.id = hand.id => a.staged = hand.staged
    PROVE  NowHas(a.id, a.staged)
  <1>1. a.id \in Ids
    BY DEF Room
  <1>2. Closed(a.id) \/ Kept(a.id) \/ OpenedNow(a.id)
    BY <1>1, RoomSteps DEF Register, Framed, Push, Pushing
  <1> QED
    BY <1>2 DEF Closed, Kept, OpenedNow, Opened, Absent, IsOpen, HasLanesOf, NowHas

LEMMA NextLanes == LaneInv /\ [Next]_vars => LanesInv'
  <1> SUFFICES ASSUME LaneInv, [Next]_vars PROVE LanesInv'
    OBVIOUS
  <1>1. /\ slot # NoRoom => slot \in Room
        /\ hand # NoRoom => hand \in Room
        /\ TypedInv /\ AgeInv /\ LanesInv
    BY DEF LaneInv, AgedInv, TypedInv, TypeOK
  <1>2. /\ \A s \in Room : s.id \in Nat \ {0} /\ s.stagedRev \in Nat /\ Lanes(s) # NoVersion
        /\ started[1] \in Nat /\ started[2] \in Nat
        /\ \A s \in Room : started = Lanes(s) =>
             started[1] = s.id /\ started[2] = s.stagedRev
    <2>1. \A s \in Room : s.id \in Nat \ {0} /\ s.stagedRev \in Nat
      BY Bounds DEF Room, Ids
    <2>2. started[1] \in Nat /\ started[2] \in Nat
      BY <1>1, VersionParts DEF TypedInv, TypeOK
    <2> QED
      BY <2>1, <2>2 DEF Lanes, NoVersion
  <1>3. CASE Teacher
    <2>1. UNCHANGED <<hand, started, pc, answer, known, rooms>>
      BY <1>1, <1>3, TeacherKeeps
    <2>2. ASSUME slot' # NoRoom, started = Lanes(slot')
          PROVE  /\ slot # NoRoom /\ started = Lanes(slot)
                 /\ slot'.id = slot.id /\ slot'.staged = slot.staged
      BY <1>1, <1>2, <1>3, <2>2, TeacherKeeps, Bounds DEF AgeInv, Lanes
    <2> QED
      BY <1>1, <2>1, <2>2 DEF LanesInv, HasLanesOf, NowHas, IsOpen, InTheRoom
  <1>4. CASE Others \/ UNCHANGED vars
    <2>1. UNCHANGED <<slot, hand, started, pc, answer, known>>
      BY <1>1, <1>4, OthersKeep
    <2>2. ~Register
      BY <2>1 DEF Register
    <2>3. ASSUME NEW s \in Room, HasLanesOf(s)
          PROVE  NowHas(s.id, s.staged)
      BY <1>1, <2>2, <2>3, LanesStay
    <2>4. InTheRoom => hand # NoRoom
      BY <1>1 DEF InTheRoom, TypedInv, PlaceInv, AtWork
    <2>5. pc = "registered" => hand # NoRoom
      BY <1>1 DEF TypedInv, PlaceInv, AtWork
    <2> QED
      BY <1>1, <2>1, <2>3, <2>4, <2>5 DEF LanesInv, HasLanesOf, NowHas, IsOpen, InTheRoom
  <1>5. CASE Look
    <2>1. UNCHANGED <<slot, started, rooms>> /\ hand' = slot
      BY <1>5 DEF Look, Quiet, bookVars
    <2>2. pc' \in {"look", "drop", "register", "publicity"}
      BY <1>5 DEF Look, AfterDrop
    <2>3. pc' = "publicity" => slot # NoRoom /\ started = Lanes(slot)
      BY <1>5 DEF Look, AfterDrop
    <2> QED
      BY <1>1, <2>1, <2>2, <2>3 DEF LanesInv, HasLanesOf, NowHas, IsOpen, InTheRoom
  <1>6. CASE Register
    <2>1. UNCHANGED <<slot, hand, started>> /\ hand # NoRoom /\ pc' = "registered"
      BY <1>1, <1>6 DEF Register, bookVars, TypedInv, PlaceInv, AtWork
    <2>2. ASSUME slot # NoRoom, started = Lanes(slot)
          PROVE  NowHas(slot.id, slot.staged)
      <3>1. slot.id = hand.id => slot.staged = hand.staged
        BY <1>1, <1>2, <2>1, <2>2 DEF AgeInv
      <3> QED
        BY <1>1, <1>6, <2>2, <3>1, LanesOpened DEF LanesInv
    <2>3. started = Lanes(hand) => NowHas(hand.id, hand.staged)
      BY <1>1, <1>6, <2>1, LanesOpened DEF LanesInv
    <2>4. answer' = "ok" =>
            /\ NowHas(hand.id, hand.staged)
            /\ hand.id \in known'
      <3>1. hand.id \in Ids
        BY <1>1, <2>1 DEF Room
      <3>2. answer' = "ok" => Opens
        BY <1>6 DEF Register
      <3> QED
        BY <1>1, <3>1, <3>2 DEF Opens, Opened, NowHas, TypedInv, TypeOK
    <2> QED
      BY <2>1, <2>2, <2>3, <2>4 DEF LanesInv, HasLanesOf, NowHas, IsOpen, InTheRoom
  <1>7. CASE Registered
    <2>1. SameSlot /\ UNCHANGED <<hand, rooms, known>> /\ hand # NoRoom /\ pc' # "registered"
      BY <1>1, <1>7, StagedMarks DEF Registered, TypedInv, PlaceInv, AtWork
    <2>2. CASE answer = "ok"
      <3>1. started' = Lanes(hand) /\ HasLanesOf(hand)
        BY <1>1, <1>7, <2>2 DEF Registered, LanesInv
      <3>2. slot # NoRoom /\ Lanes(hand) = Lanes(slot) =>
              slot.id = hand.id /\ slot.staged = hand.staged
        BY <1>1, <2>1 DEF AgeInv, Lanes
      <3> QED
        BY <2>1, <3>1, <3>2 DEF LanesInv, HasLanesOf, NowHas, IsOpen, InTheRoom, SameSlot, Lanes
    <2>3. CASE answer # "ok"
      <3>1. started' = started /\ pc' = "look"
        BY <1>7, <2>3 DEF Registered
      <3> QED
        BY <1>1, <2>1, <3>1 DEF LanesInv, HasLanesOf, NowHas, IsOpen, InTheRoom, SameSlot, Lanes
    <2> QED
      BY <2>2, <2>3
  <1>8. CASE Goes /\ ~Look /\ ~Register /\ ~Registered
    <2>1. SameSlot /\ UNCHANGED hand /\ started' \in {started, NoVersion}
      BY <1>1, <1>8, GoesKeeps DEF Goes, Confirms, Drop, Register, NothingToAsk, Put, Delete,
         Told, Probe, Read, Seen, Capture, NothingToPush, Skips, Push, Pushing
    <2>2. ASSUME NEW s \in Room, HasLanesOf(s), NEW t \in Room, t.id = s.id, t.staged = s.staged
          PROVE  NowHas(t.id, t.staged)
      BY <1>1, <1>8, <2>2, LanesStay
    <2>3. pc' # "registered"
      BY <1>8 DEF Goes, Drop, AfterDrop, NothingToAsk, Put, Delete, Told, Probe, Read, Seen,
         Capture, NothingToPush, Skips, Push, Pushing, NextLane
    <2>4. InTheRoom' => hand # NoRoom /\ HasLanesOf(hand)
      <3>1. CASE Drop
        BY <1>1, <3>1 DEF Drop, AfterDrop, InTheRoom, LanesInv
      <3>2. CASE ~Drop
        <4>1. InTheRoom
          BY <1>8, <3>2 DEF Goes, InTheRoom, NothingToAsk, Put, Delete, Told, Probe, Read,
             Seen, Capture, NothingToPush, Skips, Push, Pushing
        <4> QED
          BY <1>1, <4>1 DEF LanesInv, InTheRoom, TypedInv, PlaceInv, AtWork
      <3> QED
        BY <3>1, <3>2
    <2>5. slot' # NoRoom /\ started' = Lanes(slot') =>
            NowHas(slot'.id, slot'.staged)
      <3> SUFFICES ASSUME slot' # NoRoom, started' = Lanes(slot')
                   PROVE  NowHas(slot'.id, slot'.staged)
        OBVIOUS
      <3>1. slot # NoRoom /\ slot' \in Room /\ slot'.id = slot.id /\ slot'.staged = slot.staged
            /\ Lanes(slot') = Lanes(slot)
        BY <2>1 DEF SameSlot, Lanes
      <3>2. started' = started
        BY <1>2, <2>1, <3>1
      <3>3. HasLanesOf(slot)
        BY <1>1, <3>1, <3>2 DEF LanesInv
      <3> QED
        BY <1>1, <2>2, <3>1, <3>3
    <2>6. hand # NoRoom /\ started' = Lanes(hand) =>
            NowHas(hand.id, hand.staged)
      BY <1>1, <1>2, <2>1, <2>2 DEF LanesInv
    <2>7. InTheRoom' => NowHas(hand.id, hand.staged)
      BY <1>1, <2>2, <2>4
    <2> QED
      BY <2>1, <2>3, <2>5, <2>6, <2>7 DEF LanesInv, HasLanesOf, NowHas, IsOpen
  <1> QED
    BY <1>3, <1>4, <1>5, <1>6, <1>7, <1>8 DEF Next

-----------------------------------------------------------------------------
(* What the relay has opened once stays known.                               *)
LEMMA KnownGrows == ASSUME TypedInv, [Next]_vars PROVE known \subseteq known'
  <1>1. CASE Teacher \/ Others \/ UNCHANGED vars
    BY <1>1, TeacherKeeps, OthersKeep
  <1>2. CASE Goes
    BY <1>2 DEF Goes, Look, Drop, Register, Registered, NothingToAsk, Put, Delete, Told,
       Probe, Read, Seen, Capture, NothingToPush, Skips, Push, Pushing, Opens, Quiet, ghostVars
  <1> QED
    BY <1>1, <1>2 DEF Next

LEMMA ReadinessStays ==
    ASSUME TypedInv, Goes, ~Look, ~Registered
    PROVE  SameReadiness
  <1>1. CASE Told
    BY <1>1, ToldMarks
  <1>2. CASE Seen
    BY <1>2, SeenMarks
  <1>3. CASE ~Told /\ ~Seen
    <2>1. UNCHANGED slot
      BY <1>3 DEF Goes, Drop, Register, NothingToAsk, Put, Delete, Probe, Read, Capture,
         NothingToPush, Skips, Push, Pushing
    <2> QED
      BY <2>1, SameWhenUnchanged
  <1> QED
    BY <1>1, <1>2, <1>3

LEMMA NextReady == LaneInv /\ ReadyInv /\ [Next]_vars => ReadyInv'
  <1> SUFFICES ASSUME LaneInv, ReadyInv, [Next]_vars,
                      slot' # NoRoom, slot'.readiness = "ready"
               PROVE  /\ hand' # NoRoom /\ Lanes(hand') = Lanes(slot')
                      /\ slot'.id \in known' /\ NowHas(slot'.id, slot'.staged)
    BY DEF ReadyInv, HasLanesOf, NowHas, IsOpen, Lanes
  <1>1. TypedInv /\ AgeInv /\ LanesInv /\ known \subseteq known'
        /\ (slot # NoRoom => slot \in Room) /\ (hand # NoRoom => hand \in Room)
    BY KnownGrows DEF LaneInv, AgedInv, TypedInv, TypeOK
  <1>2. ASSUME slot # NoRoom, slot.readiness = "ready", slot' \in Room, slot'.id = slot.id,
               slot'.staged = slot.staged
        PROVE  NowHas(slot'.id, slot'.staged)
    <2>1. HasLanesOf(slot) /\ hand # NoRoom /\ Lanes(hand) = Lanes(slot)
      BY <1>2 DEF ReadyInv
    <2>2. CASE Register
      <3>1. slot.id = hand.id => slot.staged = hand.staged
        BY <1>1, <1>2, <2>1 DEF AgeInv, Lanes
      <3> QED
        BY <1>1, <1>2, <2>1, <2>2, <3>1, LanesOpened
    <2>3. CASE ~Register
      BY <1>1, <1>2, <2>1, <2>3, LanesStay
    <2> QED
      BY <2>2, <2>3
  <1>3. CASE Teacher
    <2>1. /\ slot # NoRoom /\ slot.readiness = "ready" /\ slot' \in Room
          /\ slot'.id = slot.id /\ slot'.staged = slot.staged
          /\ slot'.stagedRev = slot.stagedRev /\ hand' = hand
      BY <1>1, <1>3, TeacherKeeps, Bounds
    <2> QED
      BY <1>1, <1>2, <2>1 DEF ReadyInv, Lanes
  <1>4. CASE Others \/ UNCHANGED vars
    <2>1. slot' = slot /\ hand' = hand
      BY <1>1, <1>4, OthersKeep
    <2> QED
      BY <1>1, <1>2, <2>1 DEF ReadyInv
  <1>5. CASE Look
    <2>1. slot' = slot /\ hand' = slot
      BY <1>5 DEF Look
    <2> QED
      BY <1>1, <1>2, <2>1 DEF ReadyInv
  <1>6. CASE Registered
    <2>1. /\ SameSlot /\ UNCHANGED <<hand, rooms>>
          /\ slot # NoRoom => slot'.readiness =
               IF Lanes(slot) = Lanes(hand)
               THEN IF answer = "ok" THEN "ready" ELSE "failed" ELSE slot.readiness
      BY <1>1, <1>6, StagedMarks DEF Registered
    <2>2. slot # NoRoom /\ slot' \in Room /\ slot'.id = slot.id /\ slot'.staged = slot.staged
          /\ Lanes(slot') = Lanes(slot)
      BY <2>1 DEF SameSlot, Lanes
    <2>3. CASE Lanes(slot) = Lanes(hand)
      <3>1. answer = "ok" /\ pc = "registered" /\ hand # NoRoom
        BY <1>1, <1>6, <2>1, <2>2, <2>3 DEF Registered, TypedInv, PlaceInv, AtWork
      <3>2. hand.id \in known /\ HasLanesOf(hand) /\ slot.id = hand.id
            /\ slot.staged = hand.staged
        BY <1>1, <2>2, <2>3, <3>1 DEF LanesInv, AgeInv, Lanes
      <3> QED
        BY <1>1, <2>1, <2>2, <2>3, <3>1, <3>2 DEF HasLanesOf, NowHas, IsOpen
    <2>4. CASE Lanes(slot) # Lanes(hand)
      BY <1>1, <1>2, <2>1, <2>2, <2>4 DEF ReadyInv
    <2> QED
      BY <2>3, <2>4
  <1>7. CASE Goes /\ ~Look /\ ~Registered
    <2>1. SameSlot /\ SameReadiness /\ hand' = hand
      BY <1>1, <1>7, GoesKeeps, ReadinessStays
    <2>2. /\ slot # NoRoom /\ slot.readiness = "ready" /\ slot' \in Room
          /\ slot'.id = slot.id /\ slot'.staged = slot.staged /\ Lanes(slot') = Lanes(slot)
      BY <2>1 DEF SameSlot, SameReadiness, Lanes
    <2> QED
      BY <1>1, <1>2, <2>1, <2>2 DEF ReadyInv
  <1> QED
    BY <1>3, <1>4, <1>5, <1>6, <1>7 DEF Next

LEMMA AlwaysLanes == Spec => [](LaneInv /\ ReadyInv)
  <1>1. Init => LaneInv /\ ReadyInv
    BY InitLanes DEF LaneInv
  <1>2. LaneInv /\ ReadyInv /\ [Next]_vars => (LaneInv /\ ReadyInv)'
    BY NextTyped, NextAged, NextLanes, NextReady DEF LaneInv, AgedInv
  <1> QED
    BY <1>1, <1>2, PTL DEF Spec

(* The teacher is told that the broadcast is ready only for the list of      *)
(* lanes the relay has: mark_ready compares the number of the list, and what *)
(* is registered under a number is the list the slot held under it.          *)
THEOREM ReadyHolds == Spec => []ReadyIsTrue
  <1>1. ReadyInv => ReadyIsTrue
    BY DEF ReadyInv, ReadyIsTrue, HasLanesOf
  <1> QED
    BY <1>1, AlwaysLanes, PTL

-----------------------------------------------------------------------------
LEMMA NextShows ==
    LaneInv /\ LanesShowTheirSessions /\ [Next]_vars => LanesShowTheirSessions'
  <1> SUFFICES ASSUME LaneInv, LanesShowTheirSessions, [Next]_vars, NEW r \in Ids,
                      NEW i \in DOMAIN rooms'[r].frames, rooms'[r].frames[i] # NoFrame
               PROVE  rooms'[r].frames[i][1] = rooms'[r].lanes[i]
    BY DEF LanesShowTheirSessions
  <1>1. TypedInv /\ LanesInv
    BY DEF LaneInv, AgedInv
  <1>2. CASE Closed(r)
    BY <1>2 DEF Closed, Absent
  <1>3. CASE Kept(r)
    BY <1>3 DEF Kept, LanesShowTheirSessions
  <1>4. CASE OpenedNow(r)
    BY <1>4 DEF OpenedNow, Opened, NoFrames
  <1>5. CASE Framed(r)
    <2> DEFINE f == <<hand.staged[lane], Shot>>
    <2>1. pc = "push" /\ r = hand.id /\ rooms'[r].lanes = rooms[r].lanes
          /\ rooms'[r].frames = [rooms[r].frames EXCEPT ![lane] = f]
      BY <1>5 DEF Framed, Push, Pushing
    <2>2. rooms[r].lanes = hand.staged
      BY <1>1, <1>5, <2>1 DEF LanesInv, HasLanesOf, InTheRoom, Framed
    <2>3. i \in DOMAIN rooms[r].frames
          /\ rooms'[r].frames[i] = IF i = lane THEN f ELSE rooms[r].frames[i]
      BY <2>1
    <2>4. CASE i = lane
      BY <2>1, <2>2, <2>3, <2>4
    <2>5. CASE i # lane
      BY <2>1, <2>3, <2>5 DEF LanesShowTheirSessions
    <2> QED
      BY <2>4, <2>5
  <1> QED
    BY <1>1, <1>2, <1>3, <1>4, <1>5, RoomSteps

(* No student sees under a name the screen of another session: the lanes are *)
(* addressed by their place in the list, and when a frame arrives the room   *)
(* has the list the pusher counts by (attempt_lane), however often the       *)
(* teacher has changed the list while the screens were on their way.         *)
THEOREM LanesHold == Spec => []LanesShowTheirSessions
  <1>1. Init => LanesShowTheirSessions
    BY DEF Init, LanesShowTheirSessions, Absent
  <1>2. LaneInv /\ LanesShowTheirSessions /\ [Next]_vars => LanesShowTheirSessions'
    BY NextShows
  <1> QED
    BY <1>1, <1>2, AlwaysLanes, PTL DEF Spec

-----------------------------------------------------------------------------
(* What the pusher is about to note as listed has been heard, as long as it  *)
(* is about the wish the slot holds.                                         *)
HeardInv ==
    /\ ListedIsHeard
    /\ slot # NoRoom /\ hand # NoRoom /\ Wish(slot) = Wish(hand) =>
         /\ pc = "told" /\ answer = "ok" /\ hand.want # NoTitle => hand.want \in heard
         /\ pc = "seen" /\ answer # NoTitle => answer \in heard

LEMMA HeardGrows ==
    ASSUME TypedInv, Goes
    PROVE  /\ heard \subseteq heard'
           /\ heard' = heard \/ (pc = "publicity" /\ Put) \/ (pc = "read" /\ Read)
  BY DEF Goes, Look, Drop, Register, Registered, NothingToAsk, Put, Delete, Told,
     Probe, Read, Seen, Capture, NothingToPush, Skips, Push, Pushing, Quiet, ghostVars, Hears

LEMMA ShownStays ==
    ASSUME TypedInv, Goes, ~Told, ~Seen
    PROVE  slot # NoRoom => slot' # NoRoom /\ slot'.public = slot.public
  <1>1. CASE Registered
    BY <1>1, StagedMarks DEF Registered, SameSlot, SameShown
  <1>2. CASE ~Registered
    BY <1>2 DEF Goes, Look, Drop, Register, NothingToAsk, Put, Delete, Probe, Read, Capture,
       NothingToPush, Skips, Push, Pushing
  <1> QED
    BY <1>1, <1>2

LEMMA ListedParts ==
    /\ Private.as # "listed"
    /\ \A t \in Wishes : /\ As("listed", t).title = t
                         /\ As("pending", t).as # "listed"
                         /\ As("failed", t).as # "listed"
  BY DEF Private, As

LEMMA GoesListed == AgedInv /\ HeardInv /\ Goes => ListedIsHeard'
  <1> SUFFICES ASSUME AgedInv, HeardInv, Goes, slot' # NoRoom, slot'.public.as = "listed"
               PROVE  slot'.public.title \in heard'
    BY DEF ListedIsHeard
  <1>1. TypedInv /\ heard \subseteq heard'
    BY HeardGrows DEF AgedInv
  <1>2. CASE Told
    <2>1. /\ SameSlot
          /\ slot # NoRoom =>
               slot'.public =
                 IF hand.want # NoTitle /\ Wish(slot) = Wish(hand)
                 THEN As(IF answer = "ok" THEN "listed" ELSE "failed", hand.want)
                 ELSE slot.public
      BY <1>1, <1>2, ToldMarks
    <2>2. slot # NoRoom /\ hand # NoRoom /\ pc = "told" /\ hand.want \in Wishes
      BY <1>1, <1>2, <2>1, RoomParts
      DEF SameSlot, Told, TypedInv, TypeOK, PlaceInv, AtWork
    <2>3. CASE hand.want # NoTitle /\ Wish(slot) = Wish(hand)
      <3>1. answer = "ok" /\ slot'.public = As("listed", hand.want)
        BY <2>1, <2>2, <2>3, ListedParts
      <3> QED
        BY <1>1, <2>2, <2>3, <3>1, ListedParts DEF HeardInv
    <2>4. CASE ~(hand.want # NoTitle /\ Wish(slot) = Wish(hand))
      BY <1>1, <2>1, <2>2, <2>4 DEF HeardInv, ListedIsHeard
    <2> QED
      BY <2>3, <2>4
  <1>3. CASE Seen
    <2>1. /\ SameSlot
          /\ slot # NoRoom =>
               slot'.public = IF Wish(slot) = Wish(hand) THEN SeenPublic(answer)
                              ELSE slot.public
      BY <1>1, <1>3, SeenMarks
    <2>2. slot # NoRoom /\ hand # NoRoom /\ pc = "seen" /\ answer \in Wishes
          /\ slot.want \in Wishes
      BY <1>1, <1>3, <2>1, RoomParts
      DEF SameSlot, Seen, TypedInv, TypeOK, PlaceInv, AtWork
    <2>3. CASE Wish(slot) = Wish(hand)
      <3>1. \/ slot'.public = As("listed", answer) /\ answer # NoTitle
            \/ slot'.public = slot.public
        BY <2>1, <2>2, <2>3, ListedParts DEF SeenPublic
      <3> QED
        BY <1>1, <2>2, <2>3, <3>1, ListedParts DEF HeardInv, ListedIsHeard
    <2>4. CASE Wish(slot) # Wish(hand)
      BY <1>1, <2>1, <2>2, <2>4 DEF HeardInv, ListedIsHeard
    <2> QED
      BY <2>3, <2>4
  <1>4. CASE ~Told /\ ~Seen
    <2>1. slot # NoRoom /\ slot'.public = slot.public
      <3>1. CASE Look
        BY <3>1 DEF Look
      <3>2. CASE ~Look
        BY <1>1, <1>4, <3>2, GoesKeeps, ShownStays DEF SameSlot
      <3> QED
        BY <3>1, <3>2
    <2> QED
      BY <1>1, <2>1 DEF HeardInv, ListedIsHeard
  <1> QED
    BY <1>2, <1>3, <1>4

LEMMA GoesHeard == AgedInv /\ HeardInv /\ Goes => HeardInv'
  <1> SUFFICES ASSUME AgedInv, HeardInv, Goes, slot' # NoRoom, hand' # NoRoom,
                      Wish(slot') = Wish(hand')
               PROVE  /\ pc' = "told" /\ answer' = "ok" /\ hand'.want # NoTitle
                            => hand'.want \in heard'
                      /\ pc' = "seen" /\ answer' # NoTitle => answer' \in heard'
    BY GoesListed DEF HeardInv, Wish
  <1>1. CASE Put
    <2>1. pc' = "told" /\ UNCHANGED <<slot, hand>>
      BY <1>1 DEF Put
    <2>2. slot.id = hand.id
      BY <2>1 DEF Wish
    <2>3. answer' = "ok" => Hears(hand.id, hand.want)
      BY <1>1 DEF Put
    <2> QED
      BY <2>1, <2>2, <2>3 DEF Hears
  <1>2. CASE Delete
    <2>1. pc' = "told" /\ hand' = hand /\ hand.want = NoTitle
      BY <1>2 DEF Delete, PublicAction
    <2> QED
      BY <2>1
  <1>3. CASE Read
    <2>1. pc' \in {"seen", "capture"} /\ UNCHANGED <<slot, hand>>
      BY <1>3 DEF Read
    <2>2. slot.id = hand.id
      BY <2>1 DEF Wish
    <2>3. pc' = "seen" => Hears(hand.id, answer')
      BY <1>3 DEF Read
    <2> QED
      BY <2>1, <2>2, <2>3 DEF Hears
  <1>4. CASE ~Put /\ ~Delete /\ ~Read
    <2>1. pc' \notin {"told", "seen"}
      BY <1>4 DEF Goes, Look, AfterDrop, Drop, Register, Registered, NothingToAsk, Told,
         Probe, Seen, Capture, NothingToPush, Skips, Push, Pushing, NextLane
    <2> QED
      BY <2>1
  <1> QED
    BY <1>1, <1>2, <1>3, <1>4

LEMMA TeacherHeard == AgedInv /\ HeardInv /\ Teacher => HeardInv'
  <1> SUFFICES ASSUME AgedInv, HeardInv, Teacher PROVE HeardInv'
    OBVIOUS
  <1>1. TypedInv /\ AgeInv /\ (hand # NoRoom => hand \in Room) /\ (slot # NoRoom => slot \in Room)
    BY DEF AgedInv, TypedInv, TypeOK
  <1>2. /\ \A s \in Room : s.id \in Nat /\ s.publicRev \in Nat
        /\ nextId \in Nat
    BY <1>1, Bounds DEF Room, Ids, TypedInv, TypeOK
  <1>3. CASE slot' = NoRoom
    BY <1>3 DEF HeardInv, ListedIsHeard
  <1>4. CASE slot' \in Room /\ slot'.id = nextId /\ slot'.public = Private
    <2>1. hand # NoRoom => Wish(slot') # Wish(hand)
      BY <1>1, <1>2, <1>4 DEF AgeInv, Wish
    <2>2. slot'.public.as # "listed"
      BY <1>4, ListedParts
    <2> QED
      BY <1>1, <2>1, <2>2, TeacherKeeps DEF HeardInv, ListedIsHeard, Wish
  <1>5. CASE /\ slot \in Room /\ slot' \in Room /\ slot'.id = slot.id
             /\ slot'.publicRev = slot.publicRev
             /\ slot'.public = slot.public /\ heard' = heard
    BY <1>1, <1>5, TeacherKeeps, Bounds DEF HeardInv, ListedIsHeard, Wish
  <1>6. CASE /\ slot \in Room /\ slot' \in Room /\ slot'.id = slot.id
             /\ slot'.publicRev = slot.publicRev + 1
             /\ slot'.public.as # "listed"
    <2>1. hand # NoRoom => Wish(slot') # Wish(hand)
      BY <1>1, <1>2, <1>6, Bounds DEF AgeInv, Wish
    <2> QED
      BY <1>1, <1>6, <2>1, TeacherKeeps DEF HeardInv, ListedIsHeard, Wish
  <1> QED
    BY <1>1, <1>3, <1>4, <1>5, <1>6, TeacherKeeps

LEMMA NextHeard == AgedInv /\ HeardInv /\ [Next]_vars => HeardInv'
  <1> SUFFICES ASSUME AgedInv, HeardInv, [Next]_vars PROVE HeardInv'
    OBVIOUS
  <1>1. CASE Others \/ UNCHANGED vars
    BY <1>1, OthersKeep DEF AgedInv, HeardInv, ListedIsHeard, Wish
  <1> QED
    BY <1>1, GoesHeard, TeacherHeard DEF Next

(* What the teacher's screen says to be listed was found at the relay by a   *)
(* request served after the teacher's last word: mark_public and             *)
(* set_public_seen compare the number of the wish under the lock.            *)
THEOREM HeardHold == Spec => []ListedIsHeard
  <1>1. Init => AgedInv /\ HeardInv
    BY InitLanes DEF Init, HeardInv, ListedIsHeard
  <1>2. AgedInv /\ HeardInv /\ [Next]_vars => (AgedInv /\ HeardInv)'
    BY NextTyped, NextAged, NextHeard DEF AgedInv
  <1>3. HeardInv => ListedIsHeard
    BY DEF HeardInv
  <1> QED
    BY <1>1, <1>2, <1>3, PTL DEF Spec
=============================================================================
