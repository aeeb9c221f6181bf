---------------------------- MODULE BridgeProofs -----------------------------
(* Theorems about Bridge, for any bridges, messages and pushes: a bridge     *)
(* hears only what is written in its own time, and what all of them type     *)
(* together is what PhonePromise says.                                       *)
EXTENDS Bridge, SequenceTheorems, TLAPS

-----------------------------------------------------------------------------
(* The invariant.                                                           *)

Listening(b) ==
    poll[b].at \in {"polling", "asked", "answered", "handling", "routing"}
Handling(b) == poll[b].at \in {"handling", "routing"}
HasBatch(b) ==
    poll[b].at \in {"answered", "handling", "routing"} /\ poll[b].next # 0

(* Only the bridge in the slot goes on; those to come have not begun; and   *)
(* no bridge but the first has an owner before it has heard something.      *)
SlotInv ==
    \A b \in Bridges :
        /\ b <= born /\ b # slot => Stopped(b)
        /\ b > born =>
               /\ ~Stopped(b) /\ poll[b].at = "gone" /\ send[b].at = "gone"
               /\ bridge[b].owner = None
        /\ b > 1 /\ poll[b].at \in {"naming", "draining", "emptying"} =>
               bridge[b].owner = None

(* What a bridge has in hand is of its own time.                            *)
TimeInv ==
    \A b \in Bridges :
        /\ heard[b] <= Len(log)
        /\ Handling(b) => poll[b].next \in 1..poll[b].read
        /\ Handling(b) /\ Stopped(b) => poll[b].read <= heard[b]
        /\ \A a \in Bridges :
               a < b => /\ Listening(b) => heard[a] <= confirmed
                        /\ HasBatch(b) => heard[a] < poll[b].next

(* What it has typed is too, and comes before what it has in hand.          *)
OfItsTime(t) ==
    /\ t.by <= born
    /\ t.update <= poll[t.by].read
    /\ HasBatch(t.by) => t.update < poll[t.by].next
    /\ Stopped(t.by) => t.update <= heard[t.by]
    /\ \A a \in Bridges : a < t.by => heard[a] < t.update
TypedInv == \A i \in DOMAIN typed : OfItsTime(typed[i])

(* What is noted of a push is what it was about.                            *)
PushInv ==
    \A b \in Bridges :
        /\ send[b].at = "sent" => /\ send[b].id \in DOMAIN about
                                  /\ about[send[b].id] = send[b].events
        /\ \A i \in DOMAIN bridge[b].map :
               LET push == bridge[b].map[i] IN
               /\ push.id \in DOMAIN about
               /\ about[push.id] = {push.session}

IInv == TypeOK /\ SlotInv /\ TimeInv /\ TypedInv /\ PushInv

-----------------------------------------------------------------------------
(* Types.                                                                   *)

LEMMA Inside ==
    ASSUME TypeOK, TimeInv, NEW b \in Bridges, Handling(b)
    PROVE  /\ poll[b].next \in 1..Len(log)
           /\ Message(b) \in Texts /\ Message(b) \in Incoming
  <1>1. poll[b].next \in 1..poll[b].read /\ poll[b].read \in Nat
        /\ poll[b].read <= Len(log) /\ log \in Seq(Texts)
    BY DEF TypeOK, TimeInv, Listener
  <1> QED
    BY <1>1, TextsAssumption DEF Message

LEMMA MapTypes ==
    ASSUME TypeOK, NEW b \in Bridges, NEW i \in DOMAIN bridge[b].map
    PROVE  /\ bridge[b].map \in Seq([id : Nat, session : Sessions])
           /\ bridge[b].map[i].id \in Nat
           /\ bridge[b].map[i].session \in Sessions
  <1> DEFINE map == bridge[b].map
  <1>1. map \in Seq([id : Nat, session : Sessions])
    BY DEF TypeOK, Bridge
  <1> HIDE DEF map
  <1>2. \A j \in DOMAIN map : map[j] \in [id : Nat, session : Sessions]
    <2>1. DOMAIN map = 1..Len(map)
      BY <1>1
    <2> QED
      BY <1>1, <2>1, ElementOfSeq
  <1> QED
    BY <1>1, <1>2 DEF map

LEMMA KeepTypes ==
    ASSUME NEW T, NEW map \in Seq(T), Len(map) <= MapCap, NEW push \in T
    PROVE  /\ Keep(map, push) \in Seq(T)
           /\ Len(Keep(map, push)) <= MapCap
           /\ \A i \in DOMAIN Keep(map, push) :
                  \/ Keep(map, push)[i] = push
                  \/ \E j \in DOMAIN map : Keep(map, push)[i] = map[j]
  <1>1. CASE Len(map) >= MapCap
    <2> DEFINE rest == SubSeq(map, 2, Len(map))
    <2>1. /\ rest \in Seq(T) /\ Len(rest) = Len(map) - 1
          /\ \A i \in 1..Len(rest) : rest[i] = map[i + 1] /\ i + 1 \in 1..Len(map)
      <3>1. Len(map) \in Nat /\ 2 \in 1..(Len(map) + 1) /\ Len(map) - 2 + 1 = Len(map) - 1
        BY <1>1, CapAssumption
      <3>2. \A i \in 1..(Len(map) - 1) : 2 + i - 1 = i + 1
        BY <3>1
      <3> QED
        BY <3>1, <3>2, SubSeqProperties
    <2>2. Keep(map, push) = Append(rest, push)
      BY <1>1 DEF Keep
    <2> HIDE DEF rest
    <2>3. /\ Append(rest, push) \in Seq(T)
          /\ Len(Append(rest, push)) = Len(map)
          /\ \A i \in 1..Len(map) :
                 Append(rest, push)[i] = IF i = Len(map) THEN push ELSE rest[i]
      BY <2>1
    <2>4. \A i \in 1..Len(map) :
              i # Len(map) => rest[i] = map[i + 1] /\ i + 1 \in DOMAIN map
      BY <2>1
    <2>5. DOMAIN Append(rest, push) = 1..Len(map)
      BY <2>3
    <2> QED
      BY <2>2, <2>3, <2>4, <2>5
  <1>2. CASE ~(Len(map) >= MapCap)
    BY <1>2, CapAssumption DEF Keep
  <1> QED
    BY <1>1, <1>2

(* How far a request for updates brings the messenger and the bridge.       *)
LEMMA Advance ==
    ASSUME TypeOK, NEW b \in Bridges
    PROVE  /\ Forgotten(b) \in confirmed..Len(log) /\ Forgotten(b) \in Nat
           /\ Forgotten(b) >= poll[b].read
           /\ Reads(b) \in poll[b].read..Len(log) /\ Reads(b) \in Nat
           /\ Unread(b) = {} => Forgotten(b) = Len(log)
           /\ Unread(b) # {} => Forgotten(b) < Len(log) /\ Reads(b) = Len(log)
  <1>1. /\ poll[b].read \in Nat /\ poll[b].read <= Len(log)
        /\ confirmed \in Nat /\ confirmed <= Len(log) /\ Len(log) \in Nat
    BY DEF TypeOK, Listener
  <1>2. Forgotten(b) \in Nat /\ Forgotten(b) >= confirmed
        /\ Forgotten(b) >= poll[b].read /\ Forgotten(b) <= Len(log)
    BY <1>1 DEF Forgotten
  <1>3. Unread(b) = {} <=> Forgotten(b) = Len(log)
    BY <1>1, <1>2 DEF Unread
  <1> QED
    BY <1>1, <1>2, <1>3 DEF Reads

LEMMA ListensTypes ==
    ASSUME TypeOK, NEW b \in Bridges, NEW at \in PollPlaces, NEW next \in Nat,
           NEW read \in Nat, read <= Len(log), Listens(b, at, next, read)
    PROVE  /\ poll' \in [Bridges -> Listener]
           /\ poll'[b] = [at |-> at, next |-> next, read |-> read]
           /\ \A c \in Bridges : /\ c # b => poll'[c] = poll[c]
                                 /\ poll'[c].read <= Len(log)
  BY DEF TypeOK, Listens, Listener

LEMMA GoesTypes ==
    ASSUME TypeOK, NEW b \in Bridges, NEW at \in PollPlaces, Goes(b, at)
    PROVE  /\ poll' \in [Bridges -> Listener]
           /\ poll'[b] = [at |-> at, next |-> poll[b].next, read |-> poll[b].read]
           /\ \A c \in Bridges : /\ c # b => poll'[c] = poll[c]
                                 /\ poll'[c].read <= Len(log)
  <1>1. poll[b].next \in Nat /\ poll[b].read \in Nat /\ poll[b].read <= Len(log)
    BY DEF TypeOK, Listener
  <1> QED
    BY <1>1, ListensTypes DEF Goes

LEMMA HandlesTypes ==
    ASSUME TypeOK, NEW b \in Bridges, NEW n \in Nat, Handles(b, n)
    PROVE  /\ poll' \in [Bridges -> Listener]
           /\ \/ /\ n \in 1..poll[b].read
                 /\ poll'[b] = [at |-> "handling", next |-> n, read |-> poll[b].read]
              \/ poll'[b] = [at |-> "polling", next |-> 0, read |-> poll[b].read]
           /\ \A c \in Bridges : /\ c # b => poll'[c] = poll[c]
                                 /\ poll'[c].read <= Len(log)
  <1>1. poll[b].read \in Nat /\ poll[b].read <= Len(log)
    BY DEF TypeOK, Listener
  <1> QED
    BY <1>1, ListensTypes DEF Handles, PollPlaces

LEMMA PollTypes ==
    ASSUME TypeOK, TimeInv, NEW b \in Bridges, PollStep(b)
    PROVE  TypeOK'
  <1> USE DEF daemonVars, worldVars
  <1>1. CASE Stops(b) \/ Begins(b) \/ Asks(b)
    <2>1. PICK at \in PollPlaces : Goes(b, at)
      BY <1>1 DEF Stops, Begins, Asks, PollPlaces
    <2>2. UNCHANGED <<born, slot, bridge, send, log, confirmed, about, typed, heard>>
      BY <1>1 DEF Stops, Begins, Asks
    <2> QED
      BY <2>1, <2>2, GoesTypes DEF TypeOK
  <1>2. CASE DrainsBacklog(b) \/ Answered(b)
    <2>1. PICK at \in PollPlaces, next \in Nat : Listens(b, at, next, Reads(b))
      BY <1>2, Advance DEF DrainsBacklog, Answered, TypeOK, Listener, PollPlaces
    <2>2. Reads(b) \in Nat /\ Reads(b) <= Len(log) /\ Forgotten(b) \in 0..Len(log)
      BY Advance DEF TypeOK
    <2>3. /\ poll' \in [Bridges -> Listener]
          /\ \A c \in Bridges : poll'[c].read <= Len(log)
      BY <2>1, <2>2, ListensTypes
    <2> QED
      BY <1>2, <2>2, <2>3 DEF DrainsBacklog, Answered, TypeOK
  <1>3. CASE AskFails(b)
    <2>1. PICK at \in PollPlaces : Goes(b, at)
      BY <1>3 DEF AskFails, PollPlaces
    <2>2. confirmed' \in 0..Len(log)
      BY <1>3, Advance DEF AskFails, TypeOK
    <2> QED
      BY <1>3, <2>1, <2>2, GoesTypes DEF AskFails, TypeOK
  <1>4. CASE Proceeds(b)
    <2>1. poll[b].next \in Nat
      BY DEF TypeOK, Listener
    <2> QED
      BY <1>4, <2>1, HandlesTypes DEF Proceeds, TypeOK
  <1>5. CASE Accept(b)
    <2>1. Message(b).from \in Chats
      BY <1>5, Inside DEF Accept, Handling, Incoming
    <2>2. poll[b].next + 1 \in Nat
      BY DEF TypeOK, Listener
    <2>3. /\ poll' \in [Bridges -> Listener]
          /\ \A c \in Bridges : poll'[c].read <= Len(log)
      BY <1>5, <2>2, GoesTypes, HandlesTypes DEF Accept, Drops, PollPlaces
    <2>4. /\ bridge' \in [Bridges -> Bridge]
          /\ \A c \in Bridges : bridge'[c].map = bridge[c].map
      <3>1. CASE bridge' = [bridge EXCEPT ![b].owner = Message(b).from]
        <4>1. PICK owner \in Chats \cup {None} :
                  bridge' = [bridge EXCEPT ![b].owner = owner]
          BY <2>1, <3>1
        <4> QED
          BY <4>1 DEF TypeOK, Bridge
      <3>2. CASE UNCHANGED bridge
        BY <3>2 DEF TypeOK
      <3> QED
        BY <1>5, <3>1, <3>2 DEF Accept
    <2> QED
      BY <1>5, <2>3, <2>4 DEF Accept, TypeOK
  <1>6. CASE DeliversReply(b) \/ DeliversText(b)
    <2>1. poll[b].next \in Nat /\ poll[b].next + 1 \in Nat
      BY DEF TypeOK, Listener
    <2>2. typed' = typed \/ \E s \in Sessions : TypesInto(b, s)
      BY <1>6, MapTypes DEF DeliversReply, DeliversText, Remembered
    <2>3. typed' \in Seq(Typing)
      <3>1. typed \in Seq(Typing)
        BY DEF TypeOK
      <3>2. CASE typed' = typed
        BY <3>1, <3>2
      <3>3. ASSUME NEW s \in Sessions, TypesInto(b, s)
            PROVE  typed' \in Seq(Typing)
        <4> DEFINE t == [update |-> poll[b].next, session |-> s, by |-> b]
        <4>1. t \in Typing
          BY <2>1 DEF Typing
        <4>2. typed' \in {typed, Append(typed, t)}
          BY <3>3 DEF TypesInto
        <4> HIDE DEF t
        <4> QED
          BY <3>1, <4>1, <4>2
      <3> QED
        BY <2>2, <3>2, <3>3
    <2>4. /\ poll' \in [Bridges -> Listener]
          /\ \A c \in Bridges : poll'[c].read <= Len(log)
      BY <1>6, <2>1, HandlesTypes DEF DeliversReply, DeliversText, Drops
    <2> QED
      BY <1>6, <2>3, <2>4 DEF DeliversReply, DeliversText, TypeOK
  <1> QED
    BY <1>1, <1>2, <1>3, <1>4, <1>5, <1>6 DEF PollStep

LEMMA StopsBridgeTypes ==
    ASSUME TypeOK, StopsBridge
    PROVE  /\ bridge' \in [Bridges -> Bridge] /\ heard' \in [Bridges -> Nat]
           /\ slot # 0 => slot \in Bridges
           /\ \A c \in Bridges :
                  /\ bridge'[c].map = bridge[c].map
                  /\ bridge'[c].owner = bridge[c].owner
                  /\ c = slot => bridge'[c].stop
                  /\ c # slot => bridge'[c].stop = bridge[c].stop
                  /\ c = slot => heard'[c] = Len(log)
                  /\ c # slot => heard'[c] = heard[c]
  <1>1. slot # 0 => slot \in Bridges
    BY BoundAssumption DEF TypeOK, Bridges
  <1>2. CASE slot = 0
    <2>1. \A c \in Bridges : c # slot
      BY <1>2 DEF Bridges
    <2> QED
      BY <1>2, <2>1 DEF StopsBridge, TypeOK
  <1>3. CASE slot # 0
    <2>1. Len(log) \in Nat /\ slot \in Bridges
      BY <1>1, <1>3 DEF TypeOK
    <2>2. bridge' = [bridge EXCEPT ![slot].stop = TRUE]
          /\ heard' = [heard EXCEPT ![slot] = Len(log)]
      BY <1>3 DEF StopsBridge
    <2>3. heard' \in [Bridges -> Nat]
          /\ \A c \in Bridges :
                 /\ c = slot => heard'[c] = Len(log)
                 /\ c # slot => heard'[c] = heard[c]
      BY <2>1, <2>2 DEF TypeOK
    <2>4. bridge' \in [Bridges -> Bridge]
      BY <2>1, <2>2 DEF TypeOK, Bridge
    <2>5. \A c \in Bridges :
              /\ bridge'[c].map = bridge[c].map
              /\ bridge'[c].owner = bridge[c].owner
              /\ c = slot => bridge'[c].stop
              /\ c # slot => bridge'[c].stop = bridge[c].stop
      BY <2>1, <2>2 DEF TypeOK, Bridge
    <2> QED
      BY <2>1, <2>3, <2>4, <2>5
  <1> QED
    BY <1>1, <1>2, <1>3

LEMMA SendTypes ==
    ASSUME TypeOK, NEW b \in Bridges, SendStep(b)
    PROVE  TypeOK'
  <1> USE DEF daemonVars, worldVars
  <1>1. CASE SenderStops(b) \/ Takes(b) \/ SendFails(b)
    <2>1. send' \in [Bridges -> Sender]
      <3>1. NotSending \in Sender
        BY DEF NotSending, Sender, SendPlaces
      <3>2. \A at \in SendPlaces :
                [send EXCEPT ![b].at = at] \in [Bridges -> Sender]
        BY DEF TypeOK, Sender
      <3>3. \/ send' = [send EXCEPT ![b] = NotSending]
            \/ \E at \in SendPlaces : send' = [send EXCEPT ![b].at = at]
        BY <1>1 DEF SenderStops, Takes, SendFails, SendPlaces
      <3> QED
        BY <3>1, <3>2, <3>3 DEF TypeOK
    <2> QED
      BY <1>1, <2>1 DEF SenderStops, Takes, SendFails, TypeOK
  <1>2. CASE Sends(b)
    <2>1. PICK events \in SUBSET Sessions :
              /\ about' = Append(about, events)
              /\ send' = [send EXCEPT ![b] = [at |-> "sent", events |-> events,
                                             id |-> Len(about')]]
      BY <1>2 DEF Sends
    <2>2. about' \in Seq(SUBSET Sessions) /\ Len(about') \in Nat
      BY <2>1 DEF TypeOK
    <2>3. send' \in [Bridges -> Sender]
      BY <2>1, <2>2 DEF TypeOK, Sender, SendPlaces
    <2> QED
      BY <1>2, <2>2, <2>3 DEF Sends, TypeOK
  <1>3. CASE Records(b)
    <2>1. send' \in [Bridges -> Sender]
      BY <1>3 DEF Records, TypeOK, Sender, SendPlaces, NotSending
    <2>2. /\ bridge' \in [Bridges -> Bridge]
          /\ \A c \in Bridges : Len(bridge'[c].map) <= MapCap
      <3>1. CASE UNCHANGED bridge
        BY <3>1 DEF TypeOK
      <3>2. ASSUME NEW s \in Sessions,
                   bridge' = [bridge EXCEPT ![b].map =
                                 Keep(@, [id |-> send[b].id, session |-> s])]
            PROVE  /\ bridge' \in [Bridges -> Bridge]
                   /\ \A c \in Bridges : Len(bridge'[c].map) <= MapCap
        <4> DEFINE push == [id |-> send[b].id, session |-> s]
                   T == [id : Nat, session : Sessions]
                   map == Keep(bridge[b].map, push)
        <4>1. push \in T /\ bridge[b].map \in Seq(T) /\ Len(bridge[b].map) <= MapCap
          BY DEF TypeOK, Bridge, Sender
        <4>2. map \in Seq(T) /\ Len(map) <= MapCap
          BY <4>1, KeepTypes
        <4>3. bridge' = [bridge EXCEPT ![b].map = map]
          BY <3>2
        <4> HIDE DEF map, push
        <4> QED
          BY <4>2, <4>3 DEF TypeOK, Bridge
      <3> QED
        BY <1>3, <3>1, <3>2 DEF Records
    <2> QED
      BY <1>3, <2>1, <2>2 DEF Records, TypeOK
  <1> QED
    BY <1>1, <1>2, <1>3 DEF SendStep

LEMMA DaemonTypes ==
    ASSUME TypeOK, SetToken \/ Disable \/ Unpair \/ \E m \in Texts : Post(m)
    PROVE  TypeOK'
  <1> USE DEF daemonVars, worldVars
  <1>1. CASE SetToken
    <2>1. born' \in Bridges /\ born' = born + 1 /\ slot' = born'
      BY <1>1, BoundAssumption DEF SetToken, TypeOK, Bridges
    <2>2. poll' \in [Bridges -> Listener]
          /\ \A c \in Bridges : poll'[c].read <= Len(log)
      BY <1>1, <2>1, GoesTypes DEF SetToken, PollPlaces
    <2>3. send' \in [Bridges -> Sender]
      BY <1>1, <2>1 DEF SetToken, TypeOK, Sender, SendPlaces
    <2>4. /\ bridge' \in [Bridges -> Bridge] /\ heard' \in [Bridges -> Nat]
          /\ \A c \in Bridges : bridge'[c].map = bridge[c].map
      BY <1>1, StopsBridgeTypes DEF SetToken
    <2>5. born' \in 0..MaxBridges
      BY <2>1, BoundAssumption DEF Bridges
    <2> QED
      BY <1>1, <2>1, <2>2, <2>3, <2>4, <2>5 DEF SetToken, TypeOK
  <1>2. CASE Disable
    BY <1>2, StopsBridgeTypes DEF Disable, TypeOK
  <1>3. CASE Unpair
    <2>1. slot \in Bridges
      BY <1>3, BoundAssumption DEF Unpair, TypeOK, Bridges
    <2>2. /\ bridge' \in [Bridges -> Bridge]
          /\ \A c \in Bridges : bridge'[c].map \in {bridge[c].map, <<>>}
      <3>1. <<>> \in Seq([id : Nat, session : Sessions])
        OBVIOUS
      <3>2. bridge[slot].stop \in BOOLEAN
        BY <2>1 DEF TypeOK, Bridge
      <3>3. [owner |-> None, stop |-> bridge[slot].stop, map |-> <<>>] \in Bridge
        BY <3>1, <3>2 DEF Bridge
      <3> QED
        BY <1>3, <2>1, <3>3 DEF Unpair, TypeOK
    <2>3. Len(<<>>) <= MapCap
      BY CapAssumption
    <2> QED
      BY <1>3, <2>2, <2>3 DEF Unpair, TypeOK
  <1>4. CASE \E m \in Texts : Post(m)
    <2>1. log' \in Seq(Texts) /\ Len(log') = Len(log) + 1 /\ Len(log) \in Nat
      BY <1>4 DEF Post, TypeOK
    <2>2. \A c \in Bridges : poll[c].read <= Len(log')
      BY <2>1 DEF TypeOK, Listener
    <2>3. confirmed \in 0..Len(log')
      BY <2>1 DEF TypeOK
    <2> QED
      BY <1>4, <2>1, <2>2, <2>3 DEF Post, TypeOK
  <1> QED
    BY <1>1, <1>2, <1>3, <1>4

-----------------------------------------------------------------------------
(* The thread that listens.                                                 *)

LEMMA PollLeaves ==
    ASSUME IInv, NEW b \in Bridges, PollStep(b)
    PROVE  /\ b <= born
           /\ born' = born /\ slot' = slot /\ send' = send
           /\ log' = log /\ about' = about /\ heard' = heard
           /\ \A c \in Bridges : /\ bridge'[c].stop = bridge[c].stop
                                 /\ bridge'[c].map = bridge[c].map
                                 /\ c # b => /\ poll'[c] = poll[c]
                                             /\ bridge'[c].owner = bridge[c].owner
           /\ confirmed' >= confirmed /\ confirmed' \in Nat
  <1> USE DEF daemonVars, worldVars
  <1>1. UNCHANGED <<born, slot, send, log, about, heard>>
    BY DEF PollStep, Stops, Begins, DrainsBacklog, Asks, Answered, AskFails,
           Proceeds, Accept, DeliversReply, DeliversText
  <1>2. poll[b].at # "gone"
    BY DEF PollStep, Stops, Begins, DrainsBacklog, Asks, Answered, AskFails,
           Proceeds, Accept, DeliversReply, DeliversText, Watchful
  <1>3. b <= born
    BY <1>2 DEF IInv, SlotInv, TypeOK, Bridges
  <1>4. confirmed' >= confirmed /\ confirmed' \in Nat
    <2>1. confirmed' \in {confirmed, Forgotten(b)}
      BY DEF PollStep, Stops, Begins, DrainsBacklog, Asks, Answered, AskFails,
             Proceeds, Accept, DeliversReply, DeliversText
    <2> QED
      BY <2>1, Advance DEF IInv, TypeOK
  <1>5. \A c \in Bridges : c # b => poll'[c] = poll[c]
    BY DEF PollStep, Stops, Begins, DrainsBacklog, Asks, Answered, AskFails,
           Proceeds, Accept, DeliversReply, DeliversText, Goes, Drops, Handles,
           Listens, IInv, TypeOK
  <1>6. \A c \in Bridges : /\ bridge'[c].stop = bridge[c].stop
                           /\ bridge'[c].map = bridge[c].map
                           /\ c # b => bridge'[c].owner = bridge[c].owner
    <2>1. UNCHANGED bridge
          \/ \E owner \in Chats : bridge' = [bridge EXCEPT ![b].owner = owner]
      <3>1. CASE Accept(b)
        <4>1. Message(b).from \in Chats
          BY <3>1, Inside DEF IInv, Accept, Handling, Incoming
        <4> QED
          BY <3>1, <4>1 DEF Accept
      <3>2. CASE ~Accept(b)
        BY <3>2 DEF PollStep, Stops, Begins, DrainsBacklog, Asks, Answered,
                    AskFails, Proceeds, DeliversReply, DeliversText
      <3> QED
        BY <3>1, <3>2
    <2> QED
      BY <2>1 DEF IInv, TypeOK, Bridge
  <1> QED
    BY <1>1, <1>3, <1>4, <1>5, <1>6

(* What the thread may have come to.                                        *)
LEMMA PollMoves ==
    ASSUME IInv, NEW b \in Bridges, PollStep(b)
    PROVE  \/ /\ poll'[b].at \in {"gone", "draining", "emptying"}
              /\ poll'[b].read >= poll[b].read
              /\ poll'[b].at # "gone" =>
                     /\ bridge'[b].owner = bridge[b].owner
                     /\ b > 1 => bridge[b].owner = None
           \/ /\ poll'[b].at \in {"polling", "asked"}
              /\ poll'[b].read >= poll[b].read
              /\ \/ Listening(b) \/ b = 1
                 \/ poll[b].at = "emptying" /\ confirmed' = Len(log)
           \/ /\ poll[b].at = "asked" /\ poll'[b].at = "answered"
              /\ poll'[b].read >= poll[b].read
              /\ poll'[b].next = 0 \/ /\ poll'[b].next > poll[b].read
                                      /\ poll'[b].next > confirmed
           \/ /\ HasBatch(b) /\ Handling(b)'
              /\ Handling(b) \/ ~Stopped(b)
              /\ poll'[b].next \in {poll[b].next, poll[b].next + 1}
              /\ poll'[b].next \in 1..poll[b].read
              /\ poll'[b].read = poll[b].read
  <1> USE DEF IInv
  <1>1. /\ poll[b].at \in PollPlaces /\ poll[b].next \in Nat
        /\ poll[b].read \in Nat /\ poll[b].read <= Len(log)
    BY DEF TypeOK, Listener
  <1>2. CASE Stops(b)
    <2>1. poll'[b] = [at |-> "gone", next |-> poll[b].next, read |-> poll[b].read]
      BY <1>2, GoesTypes DEF Stops, PollPlaces
    <2> QED
      BY <1>1, <2>1
  <1>3. CASE Begins(b)
    <2>1. b > 1 => bridge[b].owner = None
      BY <1>3 DEF Begins, SlotInv
    <2>2. b > 1 \/ b = 1
      BY DEF Bridges
    <2>3. PICK at \in {"gone", IF bridge[b].owner = None THEN "draining"
                                                       ELSE "polling"} :
              Goes(b, at)
      BY <1>3 DEF Begins
    <2>4. poll'[b] = [at |-> at, next |-> poll[b].next, read |-> poll[b].read]
      BY <2>3, GoesTypes DEF PollPlaces
    <2> QED
      BY <1>1, <1>3, <2>1, <2>2, <2>3, <2>4 DEF Begins
  <1>4. CASE DrainsBacklog(b)
    <2>1. poll'[b] = [at |-> IF Unread(b) = {} THEN "polling" ELSE "draining",
                      next |-> poll[b].next, read |-> Reads(b)]
      BY <1>1, <1>4, Advance, ListensTypes DEF DrainsBacklog, PollPlaces
    <2>2. b > 1 => bridge[b].owner = None
      BY <1>4 DEF DrainsBacklog, SlotInv
    <2> QED
      BY <1>1, <1>4, <2>1, <2>2, Advance DEF DrainsBacklog
  <1>5. CASE Asks(b)
    <2>1. poll'[b] = [at |-> IF poll[b].at = "draining" THEN "emptying"
                                                       ELSE "asked",
                      next |-> poll[b].next, read |-> poll[b].read]
      BY <1>5, GoesTypes DEF Asks, PollPlaces
    <2>2. b > 1 /\ poll[b].at = "draining" => bridge[b].owner = None
      BY DEF SlotInv
    <2> QED
      BY <1>1, <1>5, <2>1, <2>2 DEF Asks, Listening
  <1>6. CASE Answered(b)
    <2> DEFINE next == IF Unread(b) = {} THEN 0 ELSE Forgotten(b) + 1
    <2>1. next \in Nat /\ Reads(b) \in Nat /\ Reads(b) <= Len(log)
          /\ Reads(b) >= poll[b].read
      BY <1>1, Advance
    <2>2. poll'[b] = [at |-> "answered", next |-> next, read |-> Reads(b)]
      BY <1>6, <2>1, ListensTypes DEF Answered, PollPlaces
    <2>3. next = 0 \/ (next > poll[b].read /\ next > confirmed)
      <3>1. /\ confirmed \in Nat /\ Forgotten(b) \in Nat
            /\ Forgotten(b) >= confirmed /\ Forgotten(b) >= poll[b].read
        <4>1. confirmed \in Nat /\ Len(log) \in Nat
          BY DEF TypeOK
        <4>2. Forgotten(b) \in confirmed..Len(log)
          BY Advance
        <4>3. Forgotten(b) \in Nat /\ Forgotten(b) >= poll[b].read
          BY Advance
        <4> QED
          BY <4>1, <4>2, <4>3
      <3> QED
        BY <1>1, <3>1
    <2> QED
      BY <1>6, <2>1, <2>2, <2>3 DEF Answered
  <1>7. CASE AskFails(b)
    <2>1. PICK at \in {"gone", IF poll[b].at = "asked" THEN "polling"
                                                     ELSE "draining"} :
              Goes(b, at)
      BY <1>7 DEF AskFails
    <2>2. poll'[b] = [at |-> at, next |-> poll[b].next, read |-> poll[b].read]
      BY <2>1, GoesTypes DEF PollPlaces
    <2>3. b > 1 /\ poll[b].at = "emptying" => bridge[b].owner = None
      BY DEF SlotInv
    <2> QED
      BY <1>1, <1>7, <2>1, <2>2, <2>3 DEF AskFails, Listening
  <1>8. ASSUME NEW n \in {poll[b].next, poll[b].next + 1}, Handles(b, n),
               poll[b].at \in {"answered", "handling", "routing"},
               Handling(b) \/ ~Stopped(b), poll[b].next = 0 => n = 0
        PROVE  \/ /\ poll'[b].at = "polling"
                  /\ poll'[b].read = poll[b].read /\ Listening(b)
               \/ /\ HasBatch(b) /\ Handling(b)'
                  /\ poll'[b].next = n /\ n \in 1..poll[b].read
                  /\ poll'[b].read = poll[b].read
    <2>1. n \in Nat
      BY <1>1
    <2>2. \/ /\ n \in 1..poll[b].read
             /\ poll'[b] = [at |-> "handling", next |-> n, read |-> poll[b].read]
          \/ poll'[b] = [at |-> "polling", next |-> 0, read |-> poll[b].read]
      BY <1>8, <2>1, HandlesTypes
    <2> QED
      BY <1>1, <1>8, <2>1, <2>2 DEF HasBatch, Handling, Listening
  <1>9. CASE Proceeds(b)
    BY <1>1, <1>8, <1>9 DEF Proceeds
  <1>10. Handling(b) => poll[b].next \in 1..poll[b].read
    BY DEF TimeInv
  <1>11. CASE Accept(b) \/ DeliversReply(b) \/ DeliversText(b)
    <2>1. Handling(b)
      BY <1>11 DEF Accept, DeliversReply, DeliversText, Handling
    <2>2. CASE Drops(b)
      BY <1>1, <1>8, <1>10, <2>1, <2>2 DEF Drops, Handling
    <2>3. CASE Goes(b, "routing")
      <3>1. poll'[b] = [at |-> "routing", next |-> poll[b].next, read |-> poll[b].read]
        BY <2>3, GoesTypes DEF PollPlaces
      <3> QED
        BY <1>1, <1>10, <2>1, <3>1 DEF Handling, HasBatch
    <2> QED
      BY <1>11, <2>2, <2>3 DEF Accept, DeliversReply, DeliversText
  <1> QED
    BY <1>2, <1>3, <1>4, <1>5, <1>6, <1>7, <1>9, <1>11 DEF PollStep

LEMMA PollKeeps ==
    ASSUME IInv, NEW b \in Bridges, PollStep(b)
    PROVE  SlotInv' /\ TimeInv' /\ PushInv'
  <1>1. SlotInv'
    <2> SUFFICES ASSUME NEW c \in Bridges
                 PROVE  /\ c <= born' /\ c # slot' => Stopped(c)'
                        /\ c > born' =>
                               /\ ~Stopped(c)' /\ poll'[c].at = "gone"
                               /\ send'[c].at = "gone"
                               /\ bridge'[c].owner = None
                        /\ c > 1 /\ poll'[c].at \in {"naming", "draining", "emptying"}
                              => bridge'[c].owner = None
      BY DEF SlotInv
    <2>1. CASE c # b
      BY <2>1, PollLeaves DEF IInv, SlotInv, Stopped
    <2>2. CASE c = b
      <3>1. poll'[b].at \in {"draining", "emptying"} /\ b > 1 =>
                bridge'[b].owner = None
        BY PollMoves DEF Handling
      <3>2. poll'[b].at # "naming"
        BY PollMoves DEF Handling
      <3>3. b <= born /\ born' = born /\ slot' = slot /\ Stopped(b)' = Stopped(b)
        BY PollLeaves DEF Stopped
      <3>4. ~(b > born)
        BY <3>3 DEF IInv, TypeOK, Bridges
      <3>5. b # slot => Stopped(b)
        BY <3>3 DEF IInv, SlotInv
      <3> QED
        BY <2>2, <3>1, <3>2, <3>3, <3>4, <3>5
    <2> QED
      BY <2>1, <2>2
  <1>2. TimeInv'
    <2> SUFFICES ASSUME NEW c \in Bridges
                 PROVE  /\ heard'[c] <= Len(log')
                        /\ Handling(c)' => poll'[c].next \in 1..poll'[c].read
                        /\ Handling(c)' /\ Stopped(c)' => poll'[c].read <= heard'[c]
                        /\ \A a \in Bridges :
                               a < c => /\ Listening(c)' => heard'[a] <= confirmed'
                                        /\ HasBatch(c)' => heard'[a] < poll'[c].next
      BY DEF TimeInv
    <2>1. /\ heard' = heard /\ log' = log /\ confirmed' >= confirmed
          /\ confirmed \in Nat /\ confirmed' \in Nat /\ Stopped(c)' = Stopped(c)
          /\ \A a \in Bridges : heard[a] \in Nat /\ heard[a] <= Len(log)
          /\ Len(log) \in Nat
      BY PollLeaves DEF IInv, TypeOK, TimeInv, Stopped
    <2>2. CASE c # b
      <3>1. poll'[c] = poll[c]
        BY <2>2, PollLeaves
      <3> QED
        BY <2>1, <3>1 DEF IInv, TimeInv, Handling, Listening, HasBatch
    <2>3. CASE c = b
      <3>1. poll[b].next \in Nat /\ poll[b].read \in Nat
        BY DEF IInv, TypeOK, Listener
      <3>2. CASE poll'[b].at \in {"gone", "draining", "emptying"}
        BY <2>1, <2>3, <3>2 DEF Handling, Listening, HasBatch
      <3>3. CASE poll'[b].at \in {"polling", "asked"}
        <4>1. Listening(b) \/ b = 1 \/ confirmed' = Len(log)
          BY <3>3, PollMoves DEF Handling
        <4>2. \A a \in Bridges : a < b => heard[a] <= confirmed'
          BY <2>1, <4>1 DEF IInv, TimeInv, Bridges
        <4> QED
          BY <2>1, <2>3, <3>3, <4>2 DEF Handling, Listening, HasBatch
      <3>4. CASE poll[b].at = "asked" /\ poll'[b].at = "answered"
        <4>1. poll'[b].next = 0 \/ poll'[b].next > confirmed
          BY <3>4, PollMoves DEF Handling
        <4>2. \A a \in Bridges : a < b => heard[a] <= confirmed
          BY <3>4 DEF IInv, TimeInv, Listening
        <4>3. poll'[b].next \in Nat
          BY PollTypes DEF IInv, TypeOK, Listener
        <4> QED
          BY <2>1, <2>3, <3>4, <4>1, <4>2, <4>3 DEF Handling, Listening, HasBatch
      <3>5. CASE Handling(b)'
        <4>1. /\ HasBatch(b) /\ (Handling(b) \/ ~Stopped(b))
              /\ poll'[b].next \in {poll[b].next, poll[b].next + 1}
              /\ poll'[b].next \in 1..poll[b].read
              /\ poll'[b].read = poll[b].read
          BY <3>5, PollMoves DEF Handling
        <4>2. \A a \in Bridges : a < b => /\ heard[a] <= confirmed
                                          /\ heard[a] < poll[b].next
          BY <4>1 DEF IInv, TimeInv, Listening, HasBatch
        <4>3. Handling(b) /\ Stopped(b) => poll[b].read <= heard[b]
          BY DEF IInv, TimeInv
        <4> QED
          BY <2>1, <2>3, <3>1, <4>1, <4>2, <4>3
      <3> QED
        BY <3>2, <3>3, <3>4, <3>5, PollMoves
    <2> QED
      BY <2>2, <2>3
  <1>3. PushInv'
    <2>1. /\ send' = send /\ about' = about
          /\ \A c \in Bridges : bridge'[c].map = bridge[c].map
      BY PollLeaves
    <2> QED
      BY <2>1 DEF IInv, PushInv
  <1> QED
    BY <1>1, <1>2, <1>3

LEMMA TypedTypes ==
    ASSUME TypeOK, NEW i \in DOMAIN typed
    PROVE  typed[i] \in Typing /\ typed[i].by \in Bridges /\ typed[i].update \in Nat
  <1>1. typed \in Seq(Typing) /\ i \in 1..Len(typed)
    BY DEF TypeOK
  <1>2. typed[i] \in Typing
    BY <1>1, ElementOfSeq
  <1> QED
    BY <1>2 DEF Typing

(* What is typed is the message in hand, and it is done with.               *)
LEMMA Delivered ==
    ASSUME IInv, NEW b \in Bridges, PollStep(b), typed' # typed
    PROVE  \E s \in Sessions :
               /\ typed' = Append(typed, [update |-> poll[b].next,
                                          session |-> s, by |-> b])
               /\ Handling(b)
               /\ poll'[b].read = poll[b].read
               /\ HasBatch(b)' => poll'[b].next = poll[b].next + 1
               /\ Promise!InPlace(Message(b), s)
  <1> USE DEF IInv
  <1>1. DeliversReply(b) \/ DeliversText(b)
    BY DEF PollStep, Stops, Begins, DrainsBacklog, Asks, Answered, AskFails,
           Proceeds, Accept, worldVars
  <1>2. Handling(b)
    BY <1>1 DEF DeliversReply, DeliversText, Handling
  <1>3. /\ poll'[b].read = poll[b].read
        /\ HasBatch(b)' => poll'[b].next = poll[b].next + 1
    <2> DEFINE n == poll[b].next + 1
    <2>1. n \in Nat /\ Handles(b, n)
      BY <1>1 DEF TypeOK, Listener, DeliversReply, DeliversText, Drops
    <2>2. \/ /\ n \in 1..poll[b].read
             /\ poll'[b] = [at |-> "handling", next |-> n, read |-> poll[b].read]
          \/ poll'[b] = [at |-> "polling", next |-> 0, read |-> poll[b].read]
      BY <2>1, HandlesTypes
    <2> QED
      BY <2>2 DEF HasBatch
  <1>4. PICK s \in Sessions :
            TypesInto(b, s) /\ Promise!InPlace(Message(b), s)
    <2>1. CASE DeliversReply(b)
      <3>1. PICK i \in DOMAIN bridge[b].map :
                /\ bridge[b].map[i].id = Message(b).to
                /\ TypesInto(b, bridge[b].map[i].session)
        BY <2>1 DEF DeliversReply, Remembered
      <3>2. bridge[b].map[i].session \in Sessions
        BY MapTypes
      <3>3. /\ Message(b).to \in DOMAIN about
            /\ about[Message(b).to] = {bridge[b].map[i].session}
        BY <3>1 DEF PushInv
      <3> QED
        BY <2>1, <3>1, <3>2, <3>3 DEF DeliversReply, Promise!InPlace
    <2>2. CASE DeliversText(b)
      BY <2>2 DEF DeliversText, Promise!InPlace
    <2> QED
      BY <1>1, <2>1, <2>2
  <1>5. typed' = Append(typed, [update |-> poll[b].next, session |-> s, by |-> b])
    BY <1>4 DEF TypesInto
  <1> QED
    BY <1>2, <1>3, <1>4, <1>5

LEMMA PollTyped ==
    ASSUME IInv, NEW b \in Bridges, PollStep(b)
    PROVE  TypedInv'
  <1> USE DEF IInv
  <1>1. /\ born' = born /\ heard' = heard
        /\ \A c \in Bridges : /\ Stopped(c)' = Stopped(c)
                              /\ c # b => poll'[c] = poll[c]
    BY PollLeaves DEF Stopped
  <1>2. poll[b].next \in Nat /\ poll[b].read \in Nat
        /\ poll'[b].next \in Nat /\ poll'[b].read \in Nat
    BY PollTypes DEF TypeOK, Listener
  <1>3. ASSUME NEW t \in Typing, OfItsTime(t)
        PROVE  OfItsTime(t)'
    <2>1. t.update \in Nat /\ t.by \in Bridges
      BY DEF Typing
    <2>2. CASE t.by # b
      BY <1>1, <1>3, <2>1, <2>2 DEF OfItsTime, HasBatch
    <2>3. CASE t.by = b
      <3>1. t.update <= poll'[b].read
        <4>1. poll'[b].read >= poll[b].read
          BY <1>2, PollMoves
        <4> QED
          BY <1>2, <1>3, <2>1, <2>3, <4>1 DEF OfItsTime
      <3>2. HasBatch(b)' => t.update < poll'[b].next
        <4>1. HasBatch(b)' =>
                  \/ poll'[b].next > poll[b].read
                  \/ HasBatch(b) /\ poll'[b].next \in {poll[b].next, poll[b].next + 1}
          BY PollMoves DEF HasBatch
        <4> QED
          BY <1>2, <1>3, <2>1, <2>3, <4>1 DEF OfItsTime
      <3> QED
        BY <1>1, <1>3, <2>1, <2>3, <3>1, <3>2 DEF OfItsTime
    <2> QED
      BY <2>2, <2>3
  <1>4. CASE typed' = typed
    <2> SUFFICES ASSUME NEW i \in DOMAIN typed'
                 PROVE  OfItsTime(typed[i])'
      BY DEF TypedInv
    <2>1. PICK t \in Typing : t = typed'[i] /\ OfItsTime(t)
      BY <1>4, TypedTypes DEF TypedInv
    <2>2. OfItsTime(t)'
      BY <1>3, <2>1
    <2> QED
      BY <2>1, <2>2 DEF OfItsTime
  <1>5. CASE typed' # typed
    <2>1. PICK s \in Sessions :
              /\ typed' = Append(typed, [update |-> poll[b].next,
                                         session |-> s, by |-> b])
              /\ Handling(b)
              /\ poll'[b].read = poll[b].read
              /\ HasBatch(b)' => poll'[b].next = poll[b].next + 1
      BY <1>5, Delivered
    <2>2. PICK new \in Typing :
              /\ new = [update |-> poll[b].next, session |-> s, by |-> b]
              /\ new.update = poll[b].next /\ new.by = b
      <3>1. [update |-> poll[b].next, session |-> s, by |-> b] \in Typing
        BY <1>2 DEF Typing
      <3> QED
        BY <3>1
    <2>3. OfItsTime(new)'
      <3>1. HasBatch(b) /\ poll[b].next <= poll[b].read
        BY <1>2, <2>1 DEF TimeInv, Handling, HasBatch
      <3>2. /\ \A a \in Bridges : a < b => heard[a] < poll[b].next
            /\ Stopped(b) => poll[b].next <= heard[b]
        <4>1. heard[b] \in Nat
          BY DEF TypeOK
        <4> QED
          BY <1>2, <2>1, <3>1, <4>1 DEF TimeInv
      <3>3. b <= born'
        BY PollLeaves
      <3> QED
        BY <1>1, <1>2, <2>1, <2>2, <3>1, <3>2, <3>3
           DEF OfItsTime, HasBatch, Stopped
    <2> SUFFICES ASSUME NEW i \in DOMAIN typed'
                 PROVE  OfItsTime(typed[i])'
      BY DEF TypedInv
    <2>4. typed \in Seq(Typing) /\ typed' = Append(typed, new)
      BY <2>1, <2>2 DEF TypeOK
    <2>5. \/ i \in DOMAIN typed /\ typed'[i] = typed[i]
          \/ typed'[i] = new
      BY <2>2, <2>4
    <2>6. PICK t \in Typing : t = typed'[i] /\ (t = new \/ OfItsTime(t))
      BY <2>2, <2>5, TypedTypes DEF TypedInv
    <2>7. OfItsTime(t)'
      BY <1>3, <2>3, <2>6
    <2> QED
      BY <2>6, <2>7 DEF OfItsTime
  <1> QED
    BY <1>4, <1>5

-----------------------------------------------------------------------------
(* The thread that sends, and the daemon.                                   *)

LEMMA SendKeeps ==
    ASSUME IInv, NEW b \in Bridges, SendStep(b)
    PROVE  SlotInv' /\ TimeInv' /\ TypedInv' /\ PushInv'
  <1> USE DEF IInv
  <1>1. /\ born' = born /\ slot' = slot /\ poll' = poll /\ log' = log
        /\ confirmed' = confirmed /\ typed' = typed /\ heard' = heard
    BY DEF SendStep, SenderStops, Takes, Sends, SendFails, Records, daemonVars,
           worldVars
  <1>2. \A c \in Bridges : /\ bridge'[c].stop = bridge[c].stop
                           /\ bridge'[c].owner = bridge[c].owner
    <2>1. bridge' = bridge \/ \E map : bridge' = [bridge EXCEPT ![b].map = map]
      <3>1. CASE Records(b)
        BY <3>1 DEF Records
      <3>2. CASE ~Records(b)
        BY <3>2 DEF SendStep, SenderStops, Takes, Sends, SendFails
      <3> QED
        BY <3>1, <3>2
    <2>2. CASE bridge' = bridge
      BY <2>2
    <2>3. CASE \E map : bridge' = [bridge EXCEPT ![b].map = map]
      <3>1. PICK map : bridge' = [bridge EXCEPT ![b].map = map]
        BY <2>3
      <3> QED
        BY <3>1 DEF TypeOK, Bridge
    <2> QED
      BY <2>1, <2>2, <2>3
  <1>3. SlotInv'
    <2>1. send[b].at # "gone" /\ b <= born
      BY DEF SendStep, SenderStops, Takes, Sends, SendFails, Records, SlotInv,
             TypeOK, Bridges
    <2>2. \A c \in Bridges : c # b => send'[c] = send[c]
      BY DEF SendStep, SenderStops, Takes, Sends, SendFails, Records, TypeOK
    <2>3. ~(b > born)
      BY <2>1 DEF TypeOK, Bridges
    <2> QED
      BY <1>1, <1>2, <2>2, <2>3 DEF SlotInv, Stopped
  <1>4. TimeInv'
    BY <1>1, <1>2 DEF TimeInv, Handling, Listening, HasBatch, Stopped
  <1>5. TypedInv'
    <2> SUFFICES ASSUME NEW i \in DOMAIN typed'
                 PROVE  OfItsTime(typed[i])'
      BY DEF TypedInv
    <2>1. OfItsTime(typed[i]) /\ typed[i].by \in Bridges
      BY <1>1, TypedTypes DEF TypedInv
    <2> QED
      BY <1>1, <1>2, <2>1 DEF OfItsTime, HasBatch, Stopped
  <1>6. PushInv'
    <2>1. CASE SenderStops(b) \/ Takes(b) \/ SendFails(b)
      <3>1. about' = about /\ bridge' = bridge
        BY <2>1 DEF SenderStops, Takes, SendFails, worldVars
      <3>2. send'[b].at # "sent" /\ \A c \in Bridges : c # b => send'[c] = send[c]
        BY <2>1 DEF SenderStops, Takes, SendFails, TypeOK, Sender, NotSending
      <3> QED
        BY <3>1, <3>2 DEF PushInv
    <2>2. CASE Sends(b)
      <3>1. PICK events \in SUBSET Sessions :
                /\ about' = Append(about, events)
                /\ send' = [send EXCEPT ![b] = [at |-> "sent", events |-> events,
                                               id |-> Len(about')]]
        BY <2>2 DEF Sends
      <3>2. /\ about \in Seq(SUBSET Sessions)
            /\ Len(about') \in DOMAIN about' /\ about'[Len(about')] = events
            /\ \A p \in DOMAIN about : p \in DOMAIN about' /\ about'[p] = about[p]
        BY <3>1 DEF TypeOK
      <3>3. /\ send'[b].id = Len(about') /\ send'[b].events = events
            /\ \A c \in Bridges : c # b => send'[c] = send[c]
        BY <3>1 DEF TypeOK
      <3>4. bridge' = bridge
        BY <2>2 DEF Sends
      <3> QED
        BY <3>2, <3>3, <3>4 DEF PushInv
    <2>3. CASE Records(b)
      <3>1. about' = about
        BY <2>3 DEF Records, worldVars
      <3>2. /\ send'[b].at # "sent" /\ send[b].at = "sent"
            /\ \A c \in Bridges : c # b => send'[c] = send[c]
        BY <2>3 DEF Records, TypeOK, Sender, NotSending
      <3>3. CASE bridge' = bridge
        BY <3>1, <3>2, <3>3 DEF PushInv
      <3>4. CASE \E s \in Sessions :
                     /\ send[b].events = {s}
                     /\ bridge' = [bridge EXCEPT ![b].map =
                                      Keep(@, [id |-> send[b].id, session |-> s])]
        <4>1. PICK s \in Sessions :
                  /\ send[b].events = {s}
                  /\ bridge' = [bridge EXCEPT ![b].map =
                                   Keep(@, [id |-> send[b].id, session |-> s])]
          BY <3>4
        <4>2. PICK push \in [id : Nat, session : Sessions] :
                  push = [id |-> send[b].id, session |-> s]
          BY DEF TypeOK, Sender
        <4>3. /\ push.id \in DOMAIN about /\ about[push.id] = {push.session}
          BY <3>2, <4>1, <4>2 DEF PushInv
        <4>4. /\ bridge'[b].map = Keep(bridge[b].map, push)
              /\ \A c \in Bridges : c # b => bridge'[c].map = bridge[c].map
          BY <4>1, <4>2 DEF TypeOK, Bridge
        <4>5. /\ bridge[b].map \in Seq([id : Nat, session : Sessions])
              /\ Len(bridge[b].map) <= MapCap
          BY DEF TypeOK, Bridge
        <4>6. \A i \in DOMAIN bridge'[b].map :
                  \/ bridge'[b].map[i] = push
                  \/ \E j \in DOMAIN bridge[b].map :
                         bridge'[b].map[i] = bridge[b].map[j]
          <5> DEFINE T == [id : Nat, session : Sessions]
                     map == bridge[b].map
          <5>1. map \in Seq(T) /\ Len(map) <= MapCap /\ push \in T
            BY <4>5
          <5>2. bridge'[b].map = Keep(map, push)
            BY <4>4
          <5> HIDE DEF T, map
          <5>3. \A i \in DOMAIN Keep(map, push) :
                    \/ Keep(map, push)[i] = push
                    \/ \E j \in DOMAIN map : Keep(map, push)[i] = map[j]
            BY <5>1, KeepTypes
          <5> QED
            BY <5>2, <5>3 DEF map
        <4>7. \A i \in DOMAIN bridge'[b].map :
                  LET entry == bridge'[b].map[i] IN
                  /\ entry.id \in DOMAIN about
                  /\ about[entry.id] = {entry.session}
          BY <4>3, <4>6 DEF PushInv
        <4> QED
          BY <3>1, <3>2, <4>4, <4>7 DEF PushInv
      <3> QED
        BY <2>3, <3>3, <3>4 DEF Records
    <2> QED
      BY <2>1, <2>2, <2>3 DEF SendStep
  <1> QED
    BY <1>3, <1>4, <1>5, <1>6

(* Stopping the bridge in the slot, whatever takes its place: what began    *)
(* before keeps to its time, and what has not begun yet hears nothing.      *)
LEMMA StopKeepsTime ==
    ASSUME IInv, StopsBridge, UNCHANGED <<log, confirmed, typed>>,
           born' \in Nat, born <= born',
           \A c \in Bridges : /\ c <= born => poll'[c] = poll[c]
                              /\ ~(c <= born) => poll'[c].at \in {"gone", "naming"}
    PROVE  TimeInv' /\ TypedInv'
  <1> USE DEF IInv
  <1>1. /\ log' = log /\ confirmed' = confirmed /\ typed' = typed
        /\ Len(log) \in Nat /\ born \in Nat /\ slot \in {0, born}
        /\ \A c \in Bridges : c \in Nat /\ c # 0
    BY BoundAssumption DEF TypeOK, Bridges
  <1>2. \A c \in Bridges :
            /\ c = slot => bridge'[c].stop
            /\ c # slot => bridge'[c].stop = bridge[c].stop
            /\ c = slot => heard'[c] = Len(log)
            /\ c # slot => heard'[c] = heard[c]
            /\ heard[c] \in Nat /\ heard[c] <= Len(log)
            /\ poll[c].read \in Nat /\ poll[c].read <= Len(log)
    BY StopsBridgeTypes DEF TypeOK, TimeInv, Listener
  <1>3. TimeInv'
    <2> SUFFICES ASSUME NEW c \in Bridges
                 PROVE  /\ heard'[c] <= Len(log')
                        /\ Handling(c)' => poll'[c].next \in 1..poll'[c].read
                        /\ Handling(c)' /\ Stopped(c)' => poll'[c].read <= heard'[c]
                        /\ \A a \in Bridges :
                               a < c => /\ Listening(c)' => heard'[a] <= confirmed'
                                        /\ HasBatch(c)' => heard'[a] < poll'[c].next
      BY DEF TimeInv
    <2>1. CASE c <= born
      <3>1. poll'[c] = poll[c]
        BY <2>1
      <3>2. \A a \in Bridges : a < c => heard'[a] = heard[a]
        BY <1>1, <1>2, <2>1
      <3>3. poll[c].read <= Len(log) /\ poll[c].read \in Nat
        BY <1>2
      <3>4. heard'[c] <= Len(log')
        BY <1>1, <1>2
      <3>5. Handling(c)' => poll'[c].next \in 1..poll'[c].read
        BY <3>1 DEF TimeInv, Handling
      <3>6. Handling(c)' /\ Stopped(c)' => poll'[c].read <= heard'[c]
        BY <1>1, <1>2, <3>1, <3>3 DEF TimeInv, Handling, Stopped
      <3>7. \A a \in Bridges :
                a < c => /\ Listening(c)' => heard'[a] <= confirmed'
                         /\ HasBatch(c)' => heard'[a] < poll'[c].next
        BY <1>1, <3>1, <3>2 DEF TimeInv, Listening, HasBatch
      <3> QED
        BY <3>4, <3>5, <3>6, <3>7
    <2>2. CASE ~(c <= born)
      <3>1. poll'[c].at \in {"gone", "naming"}
        BY <2>2
      <3> QED
        BY <1>1, <1>2, <3>1 DEF Handling, Listening, HasBatch
    <2> QED
      BY <2>1, <2>2
  <1>4. TypedInv'
    <2> SUFFICES ASSUME NEW i \in DOMAIN typed'
                 PROVE  OfItsTime(typed[i])'
      BY DEF TypedInv
    <2>1. PICK t \in Typing : /\ t = typed[i] /\ t = typed'[i] /\ OfItsTime(t)
                              /\ t.by \in Bridges /\ t.update \in Nat
      BY <1>1, TypedTypes DEF TypedInv
    <2>2. t.by <= born /\ t.by \in Nat
      BY <1>1, <2>1 DEF OfItsTime
    <2>3. t.by <= born' /\ poll'[t.by] = poll[t.by]
      BY <1>1, <2>1, <2>2
    <2>4. \A a \in Bridges : a < t.by => heard'[a] = heard[a]
      BY <1>1, <1>2, <2>2
    <2>5. t.update <= Len(log)
      BY <1>1, <1>2, <2>1 DEF OfItsTime
    <2>6. bridge'[t.by].stop => t.update <= heard'[t.by]
      BY <1>2, <2>1, <2>5 DEF OfItsTime, Stopped
    <2> QED
      BY <2>1, <2>3, <2>4, <2>6 DEF OfItsTime, HasBatch, Stopped
  <1> QED
    BY <1>3, <1>4

LEMMA DaemonKeeps ==
    ASSUME IInv, SetToken \/ Disable \/ Unpair \/ \E m \in Texts : Post(m)
    PROVE  SlotInv' /\ TimeInv' /\ TypedInv' /\ PushInv'
  <1> USE DEF IInv
  <1>0. /\ born \in Nat /\ slot \in {0, born}
        /\ \A c \in Bridges : c \in Nat /\ c # 0
    BY BoundAssumption DEF TypeOK, Bridges
  <1>1. CASE SetToken
    <2>1. /\ born' = born + 1 /\ slot' = born + 1 /\ born' \in Bridges
          /\ log' = log /\ confirmed' = confirmed /\ typed' = typed /\ about' = about
          /\ StopsBridge
      BY <1>0, <1>1, BoundAssumption DEF SetToken, TypeOK, Bridges
    <2>2. \A c \in Bridges : /\ c = born' => poll'[c].at = "naming"
                             /\ c # born' => poll'[c] = poll[c]
      BY <1>1, <2>1 DEF SetToken, Goes, Listens, TypeOK
    <2>3. \A c \in Bridges : /\ c = born' => send'[c].at = "resting"
                             /\ c # born' => send'[c] = send[c]
      BY <1>1, <2>1 DEF SetToken, TypeOK, Sender
    <2>4. \A c \in Bridges :
              /\ bridge'[c].map = bridge[c].map
              /\ bridge'[c].owner = bridge[c].owner
              /\ c = slot => bridge'[c].stop
              /\ c # slot => bridge'[c].stop = bridge[c].stop
      BY <2>1, StopsBridgeTypes
    <2>5. SlotInv'
      <3> SUFFICES ASSUME NEW c \in Bridges
                   PROVE  /\ c <= born' /\ c # slot' => Stopped(c)'
                          /\ c > born' =>
                                 /\ ~Stopped(c)' /\ poll'[c].at = "gone"
                                 /\ send'[c].at = "gone"
                                 /\ bridge'[c].owner = None
                          /\ c > 1 /\ poll'[c].at \in {"naming", "draining", "emptying"}
                                => bridge'[c].owner = None
        BY DEF SlotInv
      <3>1. c \in Nat
        BY <1>0
      <3>2. CASE c <= born
        <4>1. c # born' /\ ~(c > born')
          BY <1>0, <2>1, <3>1, <3>2
        <4>2. Stopped(c)'
          BY <1>0, <2>4, <3>2 DEF SlotInv, Stopped
        <4> QED
          BY <2>2, <2>4, <4>1, <4>2 DEF SlotInv
      <3>3. CASE c = born'
        <4>1. c > born /\ ~(c > born') /\ c = slot'
          BY <1>0, <2>1, <3>3
        <4> QED
          BY <2>4, <4>1 DEF SlotInv
      <3>4. CASE c > born'
        <4>1. c > born /\ c # born' /\ c # slot /\ ~(c <= born')
          BY <1>0, <2>1, <3>1, <3>4
        <4> QED
          BY <2>2, <2>3, <2>4, <4>1 DEF SlotInv, Stopped
      <3> QED
        BY <1>0, <2>1, <3>1, <3>2, <3>3, <3>4
    <2>6. \A c \in Bridges : /\ c <= born => poll'[c] = poll[c]
                             /\ ~(c <= born) => poll'[c].at \in {"gone", "naming"}
      <3>1. \A c \in Bridges : /\ c <= born => c # born'
                               /\ ~(c <= born) => c > born
        BY <1>0, <2>1
      <3> QED
        BY <2>2, <3>1 DEF SlotInv
    <2>7. TimeInv' /\ TypedInv'
      <3>1. born <= born' /\ born' \in Nat
        BY <1>0, <2>1
      <3> QED
        BY <2>1, <2>6, <3>1, StopKeepsTime
    <2>8. PushInv'
      BY <2>1, <2>3, <2>4 DEF PushInv
    <2> QED
      BY <2>5, <2>7, <2>8
  <1>2. CASE Disable
    <2>1. /\ born' = born /\ slot' = 0 /\ poll' = poll /\ send' = send
          /\ log' = log /\ confirmed' = confirmed /\ typed' = typed /\ about' = about
          /\ StopsBridge
      BY <1>2 DEF Disable
    <2>2. \A c \in Bridges :
              /\ bridge'[c].map = bridge[c].map
              /\ bridge'[c].owner = bridge[c].owner
              /\ c = slot => bridge'[c].stop
              /\ c # slot => bridge'[c].stop = bridge[c].stop
      BY <2>1, StopsBridgeTypes
    <2>3. SlotInv'
      <3>1. \A c \in Bridges : c > born => c # slot
        BY <1>0
      <3> QED
        BY <2>1, <2>2, <3>1 DEF SlotInv, Stopped
    <2>4. \A c \in Bridges : /\ c <= born => poll'[c] = poll[c]
                             /\ ~(c <= born) => poll'[c].at \in {"gone", "naming"}
      <3>1. \A c \in Bridges : c <= born \/ c > born
        BY <1>0
      <3> QED
        BY <2>1, <3>1 DEF SlotInv
    <2>5. TimeInv' /\ TypedInv'
      BY <1>0, <2>1, <2>4, StopKeepsTime
    <2>6. PushInv'
      BY <2>1, <2>2 DEF PushInv
    <2> QED
      BY <2>3, <2>5, <2>6
  <1>3. CASE Unpair
    <2>1. /\ born' = born /\ slot' = slot /\ poll' = poll /\ send' = send
          /\ log' = log /\ confirmed' = confirmed /\ typed' = typed /\ about' = about
          /\ heard' = heard
      BY <1>3 DEF Unpair, daemonVars, worldVars
    <2>2. \A c \in Bridges :
              /\ c = slot => bridge'[c] = [owner |-> None, stop |-> bridge[c].stop,
                                           map |-> <<>>]
              /\ c # slot => bridge'[c] = bridge[c]
      BY <1>3 DEF Unpair, TypeOK
    <2>3. \A c \in Bridges :
              /\ bridge'[c].stop = bridge[c].stop
              /\ bridge'[c].owner \in {bridge[c].owner, None}
              /\ bridge'[c].map \in {bridge[c].map, <<>>}
      <3> SUFFICES ASSUME NEW c \in Bridges
                   PROVE  /\ bridge'[c].stop = bridge[c].stop
                          /\ bridge'[c].owner \in {bridge[c].owner, None}
                          /\ bridge'[c].map \in {bridge[c].map, <<>>}
        OBVIOUS
      <3>1. CASE c = slot
        <4>1. PICK stop : stop = bridge[c].stop
          OBVIOUS
        <4>2. bridge'[c] = [owner |-> None, stop |-> stop, map |-> <<>>]
          BY <2>2, <3>1, <4>1
        <4> QED
          BY <4>1, <4>2
      <3>2. CASE c # slot
        BY <2>2, <3>2
      <3> QED
        BY <3>1, <3>2
    <2>4. SlotInv'
      BY <2>1, <2>3 DEF SlotInv, Stopped
    <2>5. TimeInv'
      BY <2>1, <2>3 DEF TimeInv, Handling, Listening, HasBatch, Stopped
    <2>6. TypedInv'
      <3> SUFFICES ASSUME NEW i \in DOMAIN typed'
                   PROVE  OfItsTime(typed[i])'
        BY DEF TypedInv
      <3>1. OfItsTime(typed[i]) /\ typed[i].by \in Bridges
        BY <2>1, TypedTypes DEF TypedInv
      <3> QED
        BY <2>1, <2>3, <3>1 DEF OfItsTime, HasBatch, Stopped
    <2>7. PushInv'
      BY <2>1, <2>3 DEF PushInv
    <2> QED
      BY <2>4, <2>5, <2>6, <2>7
  <1>4. CASE \E m \in Texts : Post(m)
    <2>1. /\ born' = born /\ slot' = slot /\ poll' = poll /\ send' = send
          /\ bridge' = bridge /\ confirmed' = confirmed /\ typed' = typed
          /\ about' = about /\ heard' = heard
          /\ Len(log') = Len(log) + 1 /\ Len(log) \in Nat
      BY <1>4 DEF Post, TypeOK, daemonVars
    <2>2. SlotInv' /\ PushInv'
      BY <2>1 DEF SlotInv, PushInv, Stopped
    <2>3. TimeInv'
      <3>1. \A c \in Bridges : heard[c] \in Nat /\ heard[c] <= Len(log')
        BY <2>1 DEF TimeInv, TypeOK
      <3> QED
        BY <2>1, <3>1 DEF TimeInv, Handling, Listening, HasBatch, Stopped
    <2>4. TypedInv'
      <3> SUFFICES ASSUME NEW i \in DOMAIN typed'
                   PROVE  OfItsTime(typed[i])'
        BY DEF TypedInv
      <3>1. OfItsTime(typed[i]) /\ typed[i].by \in Bridges
        BY <2>1, TypedTypes DEF TypedInv
      <3> QED
        BY <2>1, <3>1 DEF OfItsTime, HasBatch, Stopped
    <2> QED
      BY <2>2, <2>3, <2>4
  <1> QED
    BY <1>1, <1>2, <1>3, <1>4

-----------------------------------------------------------------------------
(* The theorems.                                                            *)

LEMMA InitHolds == Init => IInv
  <1> SUFFICES ASSUME Init
               PROVE  IInv
    OBVIOUS
  <1>1. PICK owner \in Paired, token \in 0..1 :
            /\ born = token /\ slot = token
            /\ bridge = [b \in Bridges |->
                            NewBridge(IF b = token THEN owner ELSE None)]
            /\ poll = [b \in Bridges |->
                          [NotListening EXCEPT
                              !.at = IF b = token THEN "naming" ELSE @]]
            /\ send = [b \in Bridges |->
                          [NotSending EXCEPT
                              !.at = IF b = token THEN "resting" ELSE @]]
            /\ log = <<>> /\ confirmed = 0 /\ about = <<>> /\ typed = <<>>
            /\ heard = [b \in Bridges |-> 0]
    BY DEF Init
  <1>2. \A b \in Bridges :
            /\ bridge[b].owner = IF b = token THEN owner ELSE None
            /\ ~bridge[b].stop /\ bridge[b].map = <<>>
            /\ poll[b].at = IF b = token THEN "naming" ELSE "gone"
            /\ poll[b].next = 0 /\ poll[b].read = 0
            /\ send[b].at = IF b = token THEN "resting" ELSE "gone"
            /\ heard[b] = 0
    BY <1>1 DEF NewBridge, NotListening, NotSending
  <1>3. \A b \in Bridges : b \in Nat /\ b # 0
    BY BoundAssumption DEF Bridges
  <1>4. owner \in Chats \cup {None} /\ token \in 0..MaxBridges /\ token \in Nat
    BY BoundAssumption, PairedAssumption
  <1>5. /\ <<>> \in Seq([id : Nat, session : Sessions]) /\ Len(<<>>) = 0
        /\ DOMAIN <<>> = {}
    OBVIOUS
  <1>6. TypeOK
    <2>1. bridge \in [Bridges -> Bridge] /\ \A b \in Bridges : Len(bridge[b].map) = 0
      BY <1>1, <1>2, <1>4, <1>5 DEF Bridge, NewBridge
    <2>2. poll \in [Bridges -> Listener] /\ \A b \in Bridges : poll[b].read = 0
      <3>1. \A at \in PollPlaces : [NotListening EXCEPT !.at = at] \in Listener
        BY DEF NotListening, Listener
      <3>2. \A b \in Bridges :
                (IF b = token THEN "naming" ELSE NotListening.at) \in PollPlaces
        BY DEF NotListening, PollPlaces
      <3>3. \A b \in Bridges : poll[b] \in Listener
        BY <1>1, <3>1, <3>2
      <3> QED
        BY <1>1, <1>2, <3>3
    <2>3. send \in [Bridges -> Sender]
      <3>1. \A at \in SendPlaces : [NotSending EXCEPT !.at = at] \in Sender
        BY DEF NotSending, Sender
      <3>2. \A b \in Bridges :
                (IF b = token THEN "resting" ELSE NotSending.at) \in SendPlaces
        BY DEF NotSending, SendPlaces
      <3>3. \A b \in Bridges : send[b] \in Sender
        BY <1>1, <3>1, <3>2
      <3> QED
        BY <1>1, <3>3
    <2>4. /\ log \in Seq(Texts) /\ confirmed \in 0..Len(log)
          /\ about \in Seq(SUBSET Sessions) /\ typed \in Seq(Typing)
          /\ Len(log) = 0 /\ heard \in [Bridges -> Nat]
      BY <1>1
    <2> QED
      BY <1>1, <1>4, <2>1, <2>2, <2>3, <2>4, CapAssumption DEF TypeOK
  <1>7. SlotInv
    <2>1. \A b \in Bridges : /\ b <= token => b = token
                             /\ b > token => b # token
                             /\ b > 1 => b # token
      BY <1>3
    <2> QED
      BY <1>1, <1>2, <2>1 DEF SlotInv, Stopped
  <1>8. TimeInv
    <2>1. \A b \in Bridges : poll[b].at \in {"naming", "gone"} /\ heard[b] = 0
      BY <1>2
    <2>2. \A b \in Bridges : ~Handling(b) /\ ~Listening(b) /\ ~HasBatch(b)
      BY <2>1 DEF Handling, Listening, HasBatch
    <2>3. Len(log) = 0
      BY <1>1, <1>5
    <2> QED
      BY <2>1, <2>2, <2>3 DEF TimeInv
  <1>9. TypedInv
    BY <1>1, <1>5 DEF TypedInv
  <1>10. PushInv
    <2>1. \A b \in Bridges : send[b].at \in {"resting", "gone"} /\ bridge[b].map = <<>>
      BY <1>2
    <2> QED
      BY <1>5, <2>1 DEF PushInv
  <1> QED
    BY <1>6, <1>7, <1>8, <1>9, <1>10 DEF IInv

LEMMA NextHolds == IInv /\ [Next]_vars => IInv'
  <1> SUFFICES ASSUME IInv, Next \/ UNCHANGED vars
               PROVE  IInv'
    OBVIOUS
  <1>1. ASSUME NEW b \in Bridges, PollStep(b)
        PROVE  IInv'
    BY <1>1, PollTypes, PollKeeps, PollTyped DEF IInv
  <1>2. ASSUME NEW b \in Bridges, SendStep(b)
        PROVE  IInv'
    BY <1>2, SendTypes, SendKeeps DEF IInv
  <1>3. CASE SetToken \/ Disable \/ Unpair \/ \E m \in Texts : Post(m)
    BY <1>3, DaemonTypes, DaemonKeeps DEF IInv
  <1>4. CASE UNCHANGED vars
    BY <1>4 DEF vars, daemonVars, worldVars, IInv, TypeOK, SlotInv, TimeInv,
                TypedInv, PushInv, OfItsTime, Stopped, Listening, Handling, HasBatch
  <1> QED
    BY <1>1, <1>2, <1>3, <1>4 DEF Next

THEOREM Invariance == Spec => []IInv
  BY InitHolds, NextHolds, PTL DEF Spec

(* Every state is of the types declared: nobody has read what was not       *)
(* written, and no table of pushes outgrows its limit.                      *)
THEOREM TypeCorrect == Spec => []TypeOK
  <1>1. IInv => TypeOK
    BY DEF IInv
  <1> QED
    BY <1>1, Invariance, PTL

(* However many bridges come after one another, a bridge types only what    *)
(* was written after the one before it stopped and before it stopped        *)
(* itself.                                                                  *)
THEOREM EachInItsTime == Spec => []HearsInItsTime
  <1>1. IInv => HearsInItsTime
    <2> SUFFICES ASSUME IInv, NEW i \in DOMAIN typed
                 PROVE  LET b == typed[i].by IN
                        /\ Stopped(b) => typed[i].update <= heard[b]
                        /\ b > 1 => typed[i].update > heard[b - 1]
      BY DEF HearsInItsTime
    <2> DEFINE b == typed[i].by
    <2>1. OfItsTime(typed[i]) /\ b \in Bridges /\ typed[i].update \in Nat
      BY TypedTypes DEF IInv, TypedInv
    <2>2. b > 1 => b - 1 \in Bridges /\ b - 1 < b
      BY <2>1, BoundAssumption DEF Bridges
    <2>3. b > 1 => heard[b - 1] \in Nat
      BY <2>2 DEF IInv, TypeOK
    <2> QED
      BY <2>1, <2>2, <2>3 DEF OfItsTime
  <1> QED
    BY <1>1, Invariance, PTL

LEMMA TypedInOrder ==
    ASSUME IInv, NEW b \in Bridges, Handling(b), b <= born, NEW s \in Sessions
    PROVE  Promise!InOrder([update |-> poll[b].next, session |-> s, by |-> b])
  <1> USE DEF IInv
  <1>1. /\ born \in Nat /\ slot \in {0, born}
        /\ \A c \in Bridges : c \in Nat /\ c # 0 /\ heard[c] \in Nat
    BY BoundAssumption DEF TypeOK, Bridges
  <1>2. /\ poll[b].next \in Nat /\ poll[b].read \in Nat
        /\ poll[b].next <= poll[b].read /\ HasBatch(b)
    BY DEF TypeOK, Listener, TimeInv, Handling, HasBatch
  <1> SUFFICES ASSUME NEW i \in DOMAIN typed
               PROVE  /\ typed[i].update # poll[b].next
                      /\ typed[i].by = b => typed[i].update < poll[b].next
    BY DEF Promise!InOrder
  <1>3. PICK t \in Typing : /\ t = typed[i] /\ OfItsTime(t)
                            /\ t.by \in Bridges /\ t.update \in Nat
    BY TypedTypes DEF TypedInv
  <1>4. t.by <= born /\ t.by \in Nat /\ b \in Nat
    BY <1>1, <1>3 DEF OfItsTime
  <1>5. CASE t.by = b
    BY <1>2, <1>3, <1>5 DEF OfItsTime
  <1>6. CASE t.by < b
    <2>1. Stopped(t.by)
      BY <1>1, <1>3, <1>4, <1>6 DEF SlotInv
    <2>2. t.update <= heard[t.by]
      BY <1>3, <2>1 DEF OfItsTime
    <2>3. heard[t.by] < poll[b].next
      BY <1>2, <1>3, <1>6 DEF TimeInv
    <2> QED
      BY <1>1, <1>2, <1>3, <1>6, <2>2, <2>3
  <1>7. CASE t.by > b
    <2>1. Stopped(b)
      BY <1>1, <1>4, <1>7 DEF SlotInv
    <2>2. poll[b].read <= heard[b]
      BY <2>1 DEF TimeInv
    <2>3. heard[b] < t.update
      BY <1>3, <1>4, <1>7 DEF OfItsTime
    <2> QED
      BY <1>1, <1>2, <1>3, <1>7, <2>2, <2>3
  <1> QED
    BY <1>4, <1>5, <1>6, <1>7

(* Whatever bridges are set up, stopped and replaced, and whatever requests *)
(* fail or reach the messenger without an answer, what is typed is what     *)
(* PhonePromise says.                                                       *)
THEOREM PromiseIsKept == Spec => KeepsPromise
  <1>1. Init => Promise!Init
    BY DEF Init, Promise!Init
  <1>2. IInv /\ [Next]_vars => [Promise!Next]_(Promise!promiseVars)
    <2> SUFFICES ASSUME IInv, Next \/ UNCHANGED vars
                 PROVE  Promise!Next \/ UNCHANGED <<log, about, typed>>
      BY DEF Promise!promiseVars
    <2>1. ASSUME NEW b \in Bridges, PollStep(b), typed' # typed
          PROVE  Promise!Next
      <3>1. PICK s \in Sessions :
                /\ typed' = Append(typed, [update |-> poll[b].next,
                                           session |-> s, by |-> b])
                /\ Handling(b)
                /\ Promise!InPlace(Message(b), s)
        BY <2>1, Delivered
      <3>2. poll[b].next \in DOMAIN log
        BY <3>1, Inside DEF IInv, TypeOK
      <3>3. log' = log /\ about' = about /\ b <= born
        BY <2>1, PollLeaves
      <3>4. Promise!InOrder([update |-> poll[b].next, session |-> s, by |-> b])
        BY <3>1, <3>3, TypedInOrder
      <3>5. Promise!Type([update |-> poll[b].next, session |-> s, by |-> b])
        BY <3>1, <3>2, <3>3, <3>4 DEF Promise!Type, Message
      <3> QED
        BY <3>2, <3>5 DEF Promise!Next
    <2>2. ASSUME NEW b \in Bridges, PollStep(b), typed' = typed
          PROVE  UNCHANGED <<log, about, typed>>
      BY <2>2, PollLeaves
    <2>3. ASSUME NEW b \in Bridges, SendStep(b)
          PROVE  Promise!Next \/ UNCHANGED <<log, about, typed>>
      <3>1. CASE Sends(b)
        BY <3>1 DEF Sends, Promise!Next, Promise!Tell
      <3>2. CASE ~Sends(b)
        BY <2>3, <3>2 DEF SendStep, SenderStops, Takes, SendFails, Records, worldVars
      <3> QED
        BY <3>1, <3>2
    <2>4. ASSUME NEW m \in Texts, Post(m)
          PROVE  Promise!Next
      BY <2>4 DEF Post, Promise!Next, Promise!Write
    <2>5. CASE SetToken \/ Disable \/ Unpair \/ UNCHANGED vars
      BY <2>5 DEF SetToken, Disable, Unpair, vars, worldVars
    <2> QED
      BY <2>1, <2>2, <2>3, <2>4, <2>5 DEF Next
  <1> QED
    BY <1>1, <1>2, Invariance, PTL DEF Spec, KeepsPromise, Promise!Spec
=============================================================================
