-------------------------------- MODULE Live --------------------------------
(* The live broadcast: the slot of the daemon (src/live.rs, LiveState), the  *)
(* thread that pushes the screens of the staged sessions to the relay        *)
(* (pusher_loop), and the rooms of the relay (crates/dct-srv/src/live.rs).   *)
(*                                                                           *)
(* The teacher changes the slot at any time.  The pusher takes a copy of it  *)
(* at the beginning of a round, works through that copy with one request     *)
(* after another, and notes each answer in the slot, under its lock, if the  *)
(* answer is still about what the slot holds.  A request may fail before or  *)
(* after the relay has served it.                                            *)
EXTENDS Naturals, Sequences

CONSTANTS
    Sessions,    \* sessions of the daemon
    Stagings,    \* lists of sessions the teacher may show
    Screens,     \* what a session may show
    Blank,       \* what it shows at first
    TooBig,      \* those of them that no request may carry
    Titles,      \* titles of public broadcasts
    MaxRooms,    \* bound: broadcasts that are started
    MaxEvents    \* bound: what the teacher does, changes of screens, failed
                 \* requests and what happens at the relay, all together

LiveAssumption ==
    /\ MaxRooms \in Nat \ {0} /\ MaxEvents \in Nat
    /\ Stagings \subseteq Seq(Sessions) \ {<<>>}
    /\ TooBig \subseteq Screens /\ Blank \in Screens
    /\ "gone" \notin Screens /\ "none" \notin Screens /\ "none" \notin Titles
ASSUME LiveAssumption

VARIABLES
    slot,      \* the one broadcast, or NoRoom
    nextId,    \* a live-id nobody has used
    screen,    \* what each session shows; "gone" when it is no more
    rooms,     \* the relay: what it knows of each broadcast
    keyIsGood, \* the relay takes the publishing key of this computer
    pc,        \* where the pusher is
    hand,      \* its copy of the slot
    lastRoom,  \* the broadcast of the last round, 0 for none
    started,   \* the list of lanes the relay has confirmed
    pushed,    \* per session the screen it counts as delivered
    applied,   \* the wish for publicity the relay has confirmed
    stuck,     \* the one it has refused
    retry,     \* the one that waits for another try
    due,       \* that wait is over
    readDue,   \* it is time to read what the relay says of the broadcast
    answer,    \* the answer that is still to be noted
    shots,     \* the screens of this round
    lane,      \* the lane of this round that comes next
    events,    \* counter of the bound
    known,     \* broadcasts the relay has opened at some time
    lost,      \* broadcasts whose end did not reach the relay
    heard,     \* titles found at the relay by requests since the last wish
    unsure     \* sessions whose last frame was served but not confirmed

teacherVars == <<slot, nextId>>
relayVars == <<rooms, keyIsGood>>
bookVars == <<started, pushed, applied, stuck, retry>>
clockVars == <<due, readDue>>
roundVars == <<pc, hand, lastRoom, answer, shots, lane>>
ghostVars == <<known, lost, heard, unsure>>
vars == <<teacherVars, screen, events, relayVars, bookVars, clockVars,
          roundVars, ghostVars>>

-----------------------------------------------------------------------------
Ids == 1..MaxRooms
NoTitle == "none"
Wishes == Titles \cup {NoTitle}
Shown == [as : {"private"}] \cup [as : {"pending", "listed", "failed"}, title : Titles]
Private == [as |-> "private"]
As(state, t) == [as |-> state, title |-> t]

(* A broadcast of the daemon; the two keys and the address come from the id.*)
Room == [id : Ids, staged : Stagings, stagedRev : Nat,
         readiness : {"pending", "ready", "failed"},
         want : Wishes, publicRev : Nat, public : Shown]
NoRoom == [id |-> 0]

Version == Ids \X Nat
NoVersion == <<0, 0>>

(* A room of the relay: its lanes, the frame of each, who made it public    *)
(* and under which title.                                                   *)
NoFrame == <<>>
NoFrames(lanes) == [i \in DOMAIN lanes |-> NoFrame]
Nobody == [by |-> "nobody", title |-> NoTitle]
Absent == [lanes |-> <<>>, frames |-> <<>>, public |-> Nobody]
Opened(lanes) == [lanes |-> lanes, frames |-> NoFrames(lanes), public |-> Nobody]
IsOpen(r) == rooms[r].lanes # <<>>

Lanes(room) == <<room.id, room.stagedRev>>
Wish(room) == <<room.id, room.publicRev>>
Unpushed == [s \in Sessions |-> "none"]

Event == events < MaxEvents /\ events' = events + 1

Init ==
    /\ slot = NoRoom /\ nextId = 1
    /\ screen = [s \in Sessions |-> Blank] /\ events = 0
    /\ rooms = [r \in Ids |-> Absent] /\ keyIsGood = TRUE
    /\ pc = "look" /\ hand = NoRoom /\ lastRoom = 0
    /\ started = NoVersion /\ pushed = Unpushed
    /\ applied = NoVersion /\ stuck = NoVersion /\ retry = NoVersion
    /\ due = FALSE /\ readDue = TRUE
    /\ answer = "none" /\ shots = Unpushed /\ lane = 1
    /\ known = {} /\ lost = {} /\ heard = {} /\ unsure = {}

-----------------------------------------------------------------------------
(* What the teacher does.                                                   *)
Asks ==
    /\ Event
    /\ UNCHANGED <<screen, relayVars, bookVars, clockVars,
                   roundVars, known, lost, unsure>>

Start(staged) ==
    /\ Asks
    /\ nextId \in Ids
    /\ \A i \in DOMAIN staged : screen[staged[i]] # "gone"
    /\ slot' = [id |-> nextId, staged |-> staged, stagedRev |-> 0,
                readiness |-> "pending",
                want |-> NoTitle, publicRev |-> 0, public |-> Private]
    /\ nextId' = nextId + 1
    /\ heard' = {}

Restage(staged) ==
    /\ Asks
    /\ slot # NoRoom
    /\ \A i \in DOMAIN staged : screen[staged[i]] # "gone"
    /\ slot' = [slot EXCEPT !.staged = staged, !.stagedRev = slot.stagedRev + 1,
                            !.readiness = "pending"]
    /\ UNCHANGED <<nextId, heard>>

Stop ==
    /\ Asks
    /\ slot # NoRoom
    /\ slot' = NoRoom
    /\ heard' = {}
    /\ UNCHANGED nextId

Publish(t) ==
    /\ Asks
    /\ slot # NoRoom
    /\ slot' = [slot EXCEPT !.public = As("pending", t), !.want = t,
                            !.publicRev = slot.publicRev + 1]
    /\ heard' = {}
    /\ UNCHANGED nextId

Unpublish ==
    /\ Asks
    /\ slot # NoRoom
    /\ slot' = [slot EXCEPT !.public = Private, !.want = NoTitle,
                            !.publicRev = slot.publicRev + 1]
    /\ heard' = {}
    /\ UNCHANGED nextId

-----------------------------------------------------------------------------
(* The world: screens change, sessions end, time passes, the relay restarts *)
(* or sweeps out a room that was not fed, and the people who run it change  *)
(* the keys or make a broadcast public with the grant of the daemon.        *)
World == UNCHANGED <<teacherVars, bookVars, roundVars, known, lost, unsure>>

Turns(s) ==
    /\ World
    /\ Event
    /\ screen[s] # "gone"
    /\ \E v \in (Screens \cup {"gone"}) \ {screen[s]} :
           screen' = [screen EXCEPT ![s] = v]
    /\ UNCHANGED <<relayVars, clockVars, heard>>

TimeToRetry ==
    /\ World
    /\ ~due /\ retry # NoVersion /\ due' = TRUE
    /\ UNCHANGED <<readDue, screen, events, relayVars, heard>>

TimeToRead ==
    /\ World
    /\ ~readDue /\ hand # NoRoom /\ readDue' = TRUE
    /\ UNCHANGED <<due, screen, events, relayVars, heard>>

Relay == World /\ Event /\ UNCHANGED <<screen, clockVars, heard>>

Forgets(gone) ==
    /\ Relay
    /\ gone # {} /\ \A r \in gone : IsOpen(r)
    /\ rooms' = [r \in Ids |-> IF r \in gone THEN Absent ELSE rooms[r]]
    /\ UNCHANGED keyIsGood

(* The key is revoked or the broadcast barred: the keys are exchanged, then *)
(* reconcile takes back what it made public; here it is one step.           *)
Revokes ==
    /\ Relay
    /\ keyIsGood /\ keyIsGood' = FALSE
    /\ rooms' = [r \in Ids |-> IF rooms[r].public.by = "teacher"
                               THEN [rooms[r] EXCEPT !.public = Nobody]
                               ELSE rooms[r]]

Reinstates ==
    /\ Relay
    /\ ~keyIsGood /\ keyIsGood' = TRUE
    /\ UNCHANGED rooms

ConsolePublishes(r, t) ==
    /\ Relay
    /\ IsOpen(r)
    /\ rooms' = [rooms EXCEPT ![r].public = [by |-> "console", title |-> t]]
    /\ UNCHANGED keyIsGood

ConsoleUnpublishes(r) ==
    /\ Relay
    /\ IsOpen(r) /\ rooms[r].public # Nobody
    /\ rooms' = [rooms EXCEPT ![r].public = Nobody]
    /\ UNCHANGED keyIsGood

-----------------------------------------------------------------------------
(* The pusher.  What a request finds of a title is heard when it is about   *)
(* the broadcast of the slot.                                               *)
Hears(r, title) ==
    heard' = IF slot.id = r /\ title # NoTitle THEN heard \cup {title} ELSE heard

Pusher == UNCHANGED <<nextId, screen, keyIsGood>>
Quiet == UNCHANGED <<events, rooms, ghostVars>>

(* Where a round goes on once the old room is out of the way.               *)
AfterDrop(room) == IF started = Lanes(room) THEN "publicity" ELSE "register"

Forgotten ==
    /\ started' = NoVersion /\ pushed' = Unpushed
    /\ applied' = NoVersion /\ stuck' = NoVersion /\ retry' = NoVersion
    /\ readDue' = TRUE

(* A slip: only a broadcast that was stopped is closed, not one that was     *)
(* replaced.                                                                *)
LookForTheNew ==
    /\ pc = "look"
    /\ Pusher /\ Quiet
    /\ hand' = slot
    /\ lastRoom' = IF slot = NoRoom THEN lastRoom ELSE slot.id
    /\ pc' = IF slot # NoRoom THEN AfterDrop(slot)
             ELSE IF lastRoom # 0 THEN "drop" ELSE "look"
    /\ UNCHANGED <<slot, bookVars, clockVars, answer, shots, lane>>

(* A round begins with one look at the slot.                                *)
Look ==
    /\ pc = "look"
    /\ Pusher /\ Quiet
    /\ hand' = slot
    /\ \/ /\ lastRoom \notin {0, slot.id}
          /\ pc' = "drop"
          /\ UNCHANGED lastRoom
       \/ /\ lastRoom \in {0, slot.id}
          /\ slot # NoRoom
          /\ lastRoom' = slot.id
          /\ pc' = AfterDrop(slot)
       \/ /\ lastRoom = 0 /\ slot = NoRoom
          /\ UNCHANGED <<lastRoom, pc>>
    /\ UNCHANGED <<slot, bookVars, clockVars, answer, shots, lane>>

(* The room of the last round is not the one of this round: the relay is    *)
(* told, once, and the answer is not looked at.                             *)
Drop ==
    /\ pc = "drop"
    /\ Pusher
    /\ \/ /\ rooms' = [rooms EXCEPT ![lastRoom] = Absent]
          /\ UNCHANGED <<events, lost>>
       \/ /\ Event
          /\ lost' = lost \cup {lastRoom}
          /\ UNCHANGED rooms
    /\ lastRoom' = hand.id
    /\ IF hand = NoRoom
       THEN pc' = "look" /\ Forgotten
       ELSE pc' = AfterDrop(hand) /\ readDue' = TRUE /\ UNCHANGED bookVars
    /\ UNCHANGED <<slot, due, hand, answer, shots, lane, known, heard, unsure>>

Opens ==
    /\ rooms' = [rooms EXCEPT ![hand.id] = Opened(hand.staged)]
    /\ known' = known \cup {hand.id}

Register ==
    /\ pc = "register"
    /\ Pusher
    /\ \/ Opens /\ answer' = "ok" /\ UNCHANGED events
       \/ Opens /\ answer' = "lost" /\ Event
       \/ Event /\ answer' = "lost" /\ UNCHANGED <<rooms, known>>
    /\ pc' = "registered"
    /\ UNCHANGED <<slot, bookVars, clockVars, hand, lastRoom, shots, lane, lost, heard,
                   unsure>>

(* A slip: only the id is compared. *)
MarkById(state) ==
    slot' = IF slot # NoRoom /\ slot.id = hand.id
            THEN [slot EXCEPT !.readiness = state] ELSE slot

(* The answer is noted if it is about the list of lanes the slot holds now.  *)
MarkStaged(state) ==
    slot' = IF slot # NoRoom /\ Lanes(slot) = Lanes(hand)
            THEN [slot EXCEPT !.readiness = state] ELSE slot

Registered ==
    /\ pc = "registered"
    /\ Pusher /\ UNCHANGED <<events, rooms, known, lost, heard>>
    /\ IF answer = "ok"
       THEN /\ MarkStaged("ready")
            /\ started' = Lanes(hand)
            /\ applied' = NoVersion
            /\ pushed' = Unpushed /\ unsure' = {}
            /\ pc' = "publicity"
       ELSE /\ MarkStaged("failed")
            /\ pc' = "look"
            /\ UNCHANGED <<started, applied, pushed, unsure>>
    /\ answer' = "none"
    /\ UNCHANGED <<stuck, retry, clockVars, hand, lastRoom, shots, lane>>

-----------------------------------------------------------------------------
(* What the wish for publicity asks for in this round.                      *)
Waits == retry = Wish(hand) /\ ~due
PublicAction ==
    IF Waits \/ applied = Wish(hand) \/ stuck = Wish(hand) THEN "nothing"
    ELSE IF hand.want # NoTitle THEN "put"
    ELSE IF hand.publicRev > 0 THEN "delete" ELSE "nothing"

RetryOfThisWish == IF retry = Wish(hand) THEN retry ELSE NoVersion

NothingToAsk ==
    /\ pc = "publicity" /\ PublicAction = "nothing"
    /\ Pusher /\ Quiet
    /\ retry' = RetryOfThisWish
    /\ pc' = "read"
    /\ UNCHANGED <<slot, started, pushed, applied, stuck, clockVars, hand,
                   lastRoom, answer, shots, lane>>

Publishes ==
    rooms' = [rooms EXCEPT ![hand.id].public = [by |-> "teacher", title |-> hand.want]]

(* A room that is not there and a key that is not known get the same        *)
(* answer; a barred room, and publishing switched off, another one.         *)
Put ==
    /\ pc = "publicity" /\ PublicAction = "put"
    /\ Pusher
    /\ retry' = RetryOfThisWish
    /\ \/ /\ IsOpen(hand.id) /\ keyIsGood
          /\ Publishes /\ Hears(hand.id, hand.want)
          /\ \/ answer' = "ok" /\ UNCHANGED events
             \/ answer' = "lost" /\ Event
       \/ /\ ~IsOpen(hand.id) /\ answer' = "denied"
          /\ UNCHANGED <<events, rooms, heard>>
       \/ /\ IsOpen(hand.id) /\ ~keyIsGood /\ answer' \in {"denied", "refused"}
          /\ UNCHANGED <<events, rooms, heard>>
       \/ /\ Event /\ answer' = "lost"
          /\ UNCHANGED <<rooms, heard>>
    /\ pc' = "told"
    /\ UNCHANGED <<slot, started, pushed, applied, stuck, clockVars, hand,
                   lastRoom, shots, lane, known, lost, unsure>>

Delete ==
    /\ pc = "publicity" /\ PublicAction = "delete"
    /\ Pusher
    /\ retry' = RetryOfThisWish
    /\ \/ /\ rooms' = [rooms EXCEPT ![hand.id].public = Nobody]
          /\ \/ answer' = "ok" /\ UNCHANGED events
             \/ answer' = "lost" /\ Event
       \/ Event /\ answer' = "lost" /\ UNCHANGED rooms
    /\ pc' = "told"
    /\ UNCHANGED <<slot, started, pushed, applied, stuck, clockVars, hand,
                   lastRoom, shots, lane, ghostVars>>

(* A slip: the wish may have changed since. *)
MarkPublicById(public) ==
    slot' = IF slot # NoRoom /\ slot.id = hand.id
            THEN [slot EXCEPT !.public = public] ELSE slot

(* The answer to Put is noted in the slot if it is about the wish the slot   *)
(* holds now; any answer goes into the books.                               *)
MarkPublic(public) ==
    slot' = IF slot # NoRoom /\ Wish(slot) = Wish(hand)
            THEN [slot EXCEPT !.public = public] ELSE slot

TryLater == retry' = Wish(hand) /\ due' = FALSE

Told ==
    /\ pc = "told"
    /\ Pusher /\ Quiet
    /\ IF hand.want = NoTitle THEN UNCHANGED slot
       ELSE MarkPublic(As(IF answer = "ok" THEN "listed" ELSE "failed", hand.want))
    /\ CASE answer = "ok" ->
              applied' = Wish(hand) /\ retry' = NoVersion /\ UNCHANGED <<stuck, due>>
         [] answer = "refused" ->
              stuck' = Wish(hand) /\ retry' = NoVersion /\ UNCHANGED <<applied, due>>
         [] answer = "denied" -> UNCHANGED <<applied, stuck, retry, due>>
         [] answer = "lost" -> TryLater /\ UNCHANGED <<applied, stuck>>
    /\ pc' = IF answer = "denied" THEN "probe" ELSE "read"
    /\ answer' = "none"
    /\ UNCHANGED <<started, pushed, readDue, hand, lastRoom, shots, lane>>

(* Was it the room that is gone, or the key that is not good?               *)
Probe ==
    /\ pc = "probe"
    /\ Pusher
    /\ \/ /\ ~IsOpen(hand.id)
          /\ started' = NoVersion
          /\ UNCHANGED <<events, stuck, retry, due>>
       \/ /\ IsOpen(hand.id)
          /\ stuck' = Wish(hand) /\ retry' = NoVersion
          /\ UNCHANGED <<events, started, due>>
       \/ /\ Event /\ TryLater
          /\ UNCHANGED <<started, stuck>>
    /\ pc' = "read"
    /\ UNCHANGED <<slot, rooms, ghostVars, pushed, applied, readDue, hand,
                   lastRoom, answer, shots, lane>>

-----------------------------------------------------------------------------
(* What the relay says of the broadcast, read now and then.                 *)
Read ==
    /\ pc = "read"
    /\ Pusher
    /\ \/ /\ ~readDue
          /\ pc' = "capture"
          /\ UNCHANGED <<events, started, readDue, answer, heard>>
       \/ /\ readDue /\ readDue' = FALSE
          /\ \/ /\ IsOpen(hand.id)
                /\ answer' = rooms[hand.id].public.title
                /\ Hears(hand.id, rooms[hand.id].public.title)
                /\ pc' = "seen"
                /\ UNCHANGED <<events, started>>
             \/ /\ ~IsOpen(hand.id)
                /\ started' = NoVersion
                /\ pc' = "capture"
                /\ UNCHANGED <<events, answer, heard>>
             \/ /\ Event
                /\ pc' = "capture"
                /\ UNCHANGED <<started, answer, heard>>
    /\ UNCHANGED <<slot, rooms, known, lost, unsure, pushed, applied, stuck, retry, due,
                   hand, lastRoom, shots, lane>>

(* A slip: what the relay has forgotten is not asked for again. *)
NeverHeals(title) == FALSE

(* The relay lists the broadcast no more although the daemon wants it to:   *)
(* ask again.                                                               *)
Heals(title) ==
    slot.want # NoTitle /\ title = NoTitle /\ slot.public.as = "listed"

SeenPublic(title) ==
    IF title # NoTitle THEN As("listed", title)
    ELSE IF slot.want = NoTitle THEN Private
    ELSE IF Heals(title) THEN As("pending", slot.want)
    ELSE slot.public

Seen ==
    /\ pc = "seen"
    /\ Pusher /\ Quiet
    /\ IF slot # NoRoom /\ Wish(slot) = Wish(hand)
       THEN /\ slot' = [slot EXCEPT !.public = SeenPublic(answer)]
            /\ applied' = IF Heals(answer) THEN NoVersion ELSE applied
       ELSE UNCHANGED <<slot, applied>>
    /\ answer' = "none"
    /\ pc' = "capture"
    /\ UNCHANGED <<started, pushed, stuck, retry, clockVars, hand, lastRoom, shots, lane>>

-----------------------------------------------------------------------------
(* The screens of the round are taken at one moment and pushed lane by lane.*)
Capture ==
    /\ pc = "capture"
    /\ Pusher /\ Quiet
    /\ shots' = screen
    /\ pc' = "push"
    /\ UNCHANGED <<slot, bookVars, clockVars, hand, lastRoom, answer, lane>>

Shot == shots[hand.staged[lane]]
Books(v) == pushed' = [pushed EXCEPT ![hand.staged[lane]] = v]

NextLane ==
    IF lane < Len(hand.staged)
    THEN lane' = lane + 1 /\ UNCHANGED <<pc, shots>>
    ELSE lane' = 1 /\ pc' = "look" /\ shots' = Unpushed

Pushing ==
    /\ pc = "push"
    /\ Pusher
    /\ NextLane
    /\ UNCHANGED <<slot, applied, stuck, retry, clockVars, hand, lastRoom, answer,
                   known, lost, heard>>

(* The session is gone, or the screen has been delivered already.           *)
NothingToPush ==
    /\ Pushing
    /\ Shot \in {"gone", pushed[hand.staged[lane]]}
    /\ UNCHANGED <<events, rooms, started, pushed, unsure>>

(* A screen too big for a request counts as delivered.                      *)
Skips ==
    /\ Pushing
    /\ Shot \in TooBig /\ Shot # pushed[hand.staged[lane]]
    /\ Books(Shot)
    /\ UNCHANGED <<events, rooms, started, unsure>>

(* An unchanged screen is sent now and then as an empty frame, which keeps  *)
(* the room alive and changes nothing in it.                                *)
Keepalive == Shot = pushed[hand.staged[lane]]

Delivers ==
    rooms' = IF Keepalive THEN rooms
             ELSE [rooms EXCEPT ![hand.id].frames[lane] = <<hand.staged[lane], Shot>>]

Confirmed(ok) ==
    unsure' = IF Keepalive THEN unsure
              ELSE IF ok THEN unsure \ {hand.staged[lane]}
              ELSE unsure \cup {hand.staged[lane]}

(* A slip: a frame counts as delivered when it was sent. *)
PushUnasked ==
    /\ Pushing
    /\ Shot # "gone"
    /\ Shot \in TooBig => Keepalive
    /\ Books(Shot)
    /\ \/ /\ IsOpen(hand.id)
          /\ Delivers /\ Confirmed(TRUE)
          /\ UNCHANGED <<events, started>>
       \/ /\ ~IsOpen(hand.id)
          /\ started' = NoVersion
          /\ UNCHANGED <<events, rooms, unsure>>
       \/ /\ Event
          /\ UNCHANGED <<rooms, started, unsure>>

Push ==
    /\ Pushing
    /\ Shot # "gone"
    /\ Shot \in TooBig => Keepalive
    /\ \/ /\ IsOpen(hand.id)
          /\ Delivers
          /\ \/ Books(Shot) /\ Confirmed(TRUE) /\ UNCHANGED events
             \/ Event /\ Confirmed(FALSE) /\ UNCHANGED pushed
          /\ UNCHANGED started
       \/ /\ ~IsOpen(hand.id)
          /\ started' = NoVersion
          /\ UNCHANGED <<events, rooms, pushed, unsure>>
       \/ /\ Event
          /\ UNCHANGED <<rooms, started, pushed, unsure>>

-----------------------------------------------------------------------------
Teacher ==
    \/ \E staged \in Stagings : Start(staged) \/ Restage(staged)
    \/ Stop \/ Unpublish
    \/ \E t \in Titles : Publish(t)

Others ==
    \/ \E s \in Sessions : Turns(s)
    \/ TimeToRetry \/ TimeToRead
    \/ \E gone \in SUBSET Ids : Forgets(gone)
    \/ Revokes \/ Reinstates
    \/ \E r \in Ids : ConsoleUnpublishes(r) \/ \E t \in Titles : ConsolePublishes(r, t)

Goes ==
    \/ Look \/ Drop \/ Register \/ Registered
    \/ NothingToAsk \/ Put \/ Delete \/ Told \/ Probe \/ Read \/ Seen
    \/ Capture \/ NothingToPush \/ Skips \/ Push

Next == Teacher \/ Others \/ Goes

(* The operating system runs the pusher, its requests time out, and time    *)
(* passes.                                                                  *)
Spec == Init /\ [][Next]_vars
FairSpec == Spec /\ WF_vars(Goes) /\ WF_vars(TimeToRetry) /\ WF_vars(TimeToRead)

-----------------------------------------------------------------------------
Places == {"look", "drop", "register", "registered", "publicity", "told",
           "probe", "read", "seen", "capture", "push"}
Shots == Screens \cup {"gone", "none"}
RelayRoom == [lanes : Stagings \cup {<<>>},
              frames : Seq({NoFrame} \cup (Sessions \X Shots)),
              public : [by : {"nobody", "teacher", "console"}, title : Wishes]]

TypeOK ==
    /\ slot \in Room \cup {NoRoom} /\ hand \in Room \cup {NoRoom}
    /\ nextId \in 1..(MaxRooms + 1) /\ lastRoom \in Ids \cup {0}
    /\ screen \in [Sessions -> Shots] /\ shots \in [Sessions -> Shots]
    /\ pushed \in [Sessions -> Shots]
    /\ rooms \in [Ids -> RelayRoom] /\ keyIsGood \in BOOLEAN
    /\ \A v \in {started, applied, stuck, retry} : v \in Version \cup {NoVersion}
    /\ due \in BOOLEAN /\ readDue \in BOOLEAN
    /\ pc \in Places /\ lane \in Nat \ {0}
    /\ answer \in {"none", "ok", "lost", "denied", "refused"} \cup Titles
    /\ known \subseteq Ids /\ lost \subseteq Ids
    /\ heard \subseteq Titles /\ unsure \subseteq Sessions

(* "Ready" on the teacher's screen means that the relay has opened this very *)
(* broadcast, and that what it still has of it are the lanes of the teacher, *)
(* however late the answer to an earlier list came.                          *)
ReadyIsTrue ==
    slot # NoRoom /\ slot.readiness = "ready" =>
        /\ slot.id \in known
        /\ IsOpen(slot.id) => rooms[slot.id].lanes = slot.staged

(* A broadcast that is over is closed at the relay, unless the request got   *)
(* lost: whatever the relay has open the pusher has in mind, and will close  *)
(* before it opens another.  A start the relay serves after its client gave  *)
(* up is left out of the model; one that came after the DELETE would leave   *)
(* its room open.                                                            *)
NoRoomIsLeftOpen ==
    \A r \in Ids : IsOpen(r) => r = lastRoom \/ r \in lost

(* A lane never shows the screen of a session it was not staged for.         *)
LanesShowTheirSessions ==
    \A r \in Ids : \A i \in DOMAIN rooms[r].frames :
        LET f == rooms[r].frames[i] IN f # NoFrame => f[1] = rooms[r].lanes[i]

(* "Listed" on the teacher's screen was found at the relay by a request      *)
(* served after the teacher's last word on publicity.                        *)
ListedIsHeard ==
    slot # NoRoom /\ slot.public.as = "listed" => slot.public.title \in heard

(* The screen of a staged session reaches the relay, whatever was lost or    *)
(* forgotten in between.  Left out: screens no request may carry, and those  *)
(* of which the relay has a newer frame than the books of the pusher know;   *)
(* when such a screen goes back to what the books say, it is not sent.       *)
Arrived(i) ==
    /\ i \in DOMAIN rooms[slot.id].frames
    /\ rooms[slot.id].frames[i] = <<slot.staged[i], screen[slot.staged[i]]>>

ArrivedUnless(excused) ==
    slot # NoRoom =>
        \A i \in DOMAIN slot.staged :
            \/ screen[slot.staged[i]] \in TooBig \cup {"gone"}
            \/ slot.staged[i] \in excused
            \/ Arrived(i)

ScreensArrive == <>[]ArrivedUnless(unsure)

(* What the comment of attempt_lane says: a frame whose push failed is sent  *)
(* again.  The code does not do so for a screen that goes back.              *)
EveryScreenArrives == <>[]ArrivedUnless({})

(* The last word of the teacher on publicity is carried out: what is wanted  *)
(* is listed unless the relay refused it, and what this computer made public *)
(* and is not wanted any more is not listed.  The teacher's screen says in   *)
(* the end whether the relay lists the broadcast, whoever made it public.    *)
IsListed(r) == rooms[r].public # Nobody

CarriedOut ==
    IF slot.want = NoTitle THEN rooms[slot.id].public.by # "teacher"
    ELSE IsListed(slot.id) \/ stuck = Wish(slot)

ShownTruly == (slot.public.as = "listed") = IsListed(slot.id)

WishIsFollowed == <>[](slot # NoRoom => CarriedOut /\ ShownTruly)

(* What the comment of seen_public says: when the relay lists a broadcast no *)
(* more, the answer to the next request decides what is shown.  After a      *)
(* refusal no request is made, and "pending" stays.                          *)
RefusalIsShown ==
    <>[](slot # NoRoom /\ slot.want # NoTitle /\ ~IsListed(slot.id)
           => slot.public.as = "failed")
=============================================================================
