------------------------------- MODULE Bridge --------------------------------
(* The phone bridge (bridge.rs, channel/telegram.rs, the phone requests of   *)
(* daemon.rs): a bot of a messenger, the bridge that listens to it in one    *)
(* thread and sends pushes in another, and the requests that replace the     *)
(* bridge, stop it or make it forget its owner while its threads are in the  *)
(* middle of something.  One bot is modelled; setting its token again makes  *)
(* a new bridge for it.                                                      *)
EXTENDS Integers, Sequences, FiniteSets

CONSTANTS
    Chats,          \* the phones that may write to the bot
    Paired,         \* the owners, or None, that the secrets may name at first
    Sessions,
    Texts,          \* the messages they may send
    None,
    MapCap,         \* MSG_MAP_CAP, the pushes a bridge remembers
    MaxBridges, MaxUpdates, MaxPushes      \* bounds of the model

(* A reply to 0 is one to something that is no push.  The commands are only *)
(* answered, like a plain text that finds no session waiting; what /use     *)
(* names is left open.  Updates without text are left out.                  *)
Kinds == {"plain", "reply"}
Incoming == [from : Chats, kind : Kinds, to : 0..MaxPushes]

ASSUME CapAssumption == MapCap \in Nat \ {0}
ASSUME BoundAssumption ==
    MaxBridges \in Nat \ {0} /\ MaxUpdates \in Nat /\ MaxPushes \in Nat
ASSUME NoneAssumption == None \notin Chats \cup Sessions
ASSUME TextsAssumption == Texts \subseteq Incoming
ASSUME PairedAssumption == Paired \subseteq Chats \cup {None}

Bridges == 1..MaxBridges

VARIABLES
    born,       \* the bridges there have been
    slot,       \* the bridge of the daemon, 0 for none
    bridge,     \* Bridge: owner, flag, and the table of pushes
    poll,       \* the thread that listens, for every bridge
    send,       \* the thread that sends pushes
    log,        \* the updates of the bot, oldest first
    confirmed,  \* how many of them the messenger has forgotten
    about,      \* about[p]: the sessions push p told of
    typed,      \* what has been typed into sessions, and by which bridge
    heard       \* heard[b]: the updates there were when b was stopped

daemonVars == <<born, slot>>
worldVars == <<log, confirmed, about, typed, heard>>
vars == <<daemonVars, bridge, poll, send, worldVars>>


(* Where the threads are.  At a place in Watchful a thread looks at the     *)
(* flag before it goes on.                                                  *)
PollPlaces == {"naming", "draining", "emptying", "polling", "asked",
               "answered", "handling", "routing", "gone"}
SendPlaces == {"resting", "composing", "sent", "gone"}
Watchful == {"naming", "draining", "polling", "answered"}

Bridge == [owner : Chats \cup {None}, stop : BOOLEAN,
           map : Seq([id : Nat, session : Sessions])]
(* A batch is what is in hand, next, and the updates after it up to read;   *)
(* next is 0 when there is none.                                            *)
Listener == [at : PollPlaces, next : Nat, read : Nat]
Sender == [at : SendPlaces, events : SUBSET Sessions, id : Nat]
Typing == [update : Nat, session : Sessions, by : Bridges]

(* Types, that nobody has read what was not written, and that a bridge      *)
(* remembers so many pushes at most.                                        *)
TypeOK ==
    /\ born \in 0..MaxBridges
    /\ slot \in {0, born}
    /\ bridge \in [Bridges -> Bridge]
    /\ poll \in [Bridges -> Listener]
    /\ send \in [Bridges -> Sender]
    /\ log \in Seq(Texts)
    /\ confirmed \in 0..Len(log)
    /\ about \in Seq(SUBSET Sessions)
    /\ typed \in Seq(Typing)
    /\ heard \in [Bridges -> Nat]
    /\ \A b \in Bridges :
           /\ poll[b].read <= Len(log)
           /\ Len(bridge[b].map) <= MapCap
-----------------------------------------------------------------------------
NewBridge(owner) ==
    [owner |-> owner, stop |-> FALSE, map |-> <<>>]
NotListening == [at |-> "gone", next |-> 0, read |-> 0]
NotSending == [at |-> "gone", events |-> {}, id |-> 0]

(* start_phone_bridge: with a token there is a bridge from the beginning,   *)
(* with the owner that is in the secrets, if there is one.                  *)
Init ==
    \E owner \in Paired, token \in 0..1 :
        /\ born = token
        /\ slot = token
        /\ bridge = [b \in Bridges |->
                        NewBridge(IF b = token THEN owner ELSE None)]
        /\ poll = [b \in Bridges |->
                      [NotListening EXCEPT
                          !.at = IF b = token THEN "naming" ELSE @]]
        /\ send = [b \in Bridges |->
                      [NotSending EXCEPT
                          !.at = IF b = token THEN "resting" ELSE @]]
        /\ log = <<>>
        /\ confirmed = 0
        /\ about = <<>>
        /\ typed = <<>>
        /\ heard = [b \in Bridges |-> 0]

Listens(b, at, next, read) ==
    poll' = [poll EXCEPT ![b] = [at |-> at, next |-> next, read |-> read]]
Goes(b, at) == Listens(b, at, poll[b].next, poll[b].read)
Stopped(b) == bridge[b].stop

(* The message in hand, and what comes when it is done with.                *)
Message(b) == log[poll[b].next]
Handles(b, next) ==
    IF next \in 1..poll[b].read
    THEN Listens(b, "handling", next, poll[b].read)
    ELSE Listens(b, "polling", 0, poll[b].read)
Drops(b) == Handles(b, poll[b].next + 1)

(* A full table loses its oldest entry.                                     *)
Keep(map, push) ==
    Append(IF Len(map) >= MapCap THEN SubSeq(map, 2, Len(map)) ELSE map, push)
-----------------------------------------------------------------------------
(* run: the thread that listens.                                            *)

Stops(b) ==
    /\ poll[b].at \in Watchful
    /\ Stopped(b)
    /\ Goes(b, "gone")
    /\ UNCHANGED <<daemonVars, bridge, send, worldVars>>

(* Mutant of Begins: a bridge without owner listens at once.                *)
BeginsAtOnce(b) ==
    /\ poll[b].at = "naming"
    /\ ~Stopped(b)
    /\ \E at \in {"gone", "polling"} : Goes(b, at)
    /\ UNCHANGED <<daemonVars, bridge, send, worldVars>>

(* ensure_bot_known: the token may turn out to be bad.  Who has no owner    *)
(* yet throws away what has piled up first.                                 *)
Begins(b) ==
    /\ poll[b].at = "naming"
    /\ ~Stopped(b)
    /\ \E at \in {"gone", IF bridge[b].owner = None THEN "draining"
                                                   ELSE "polling"} :
          Goes(b, at)
    /\ UNCHANGED <<daemonVars, bridge, send, worldVars>>

(* A request for updates tells the messenger what has been read; what it    *)
(* forgets is never sent again, to nobody.                                  *)
Forgotten(b) == IF poll[b].read > confirmed THEN poll[b].read ELSE confirmed
Unread(b) == Forgotten(b) + 1 .. Len(log)
Reads(b) == IF Unread(b) = {} THEN poll[b].read ELSE Len(log)

Asks(b) ==
    /\ poll[b].at \in {"draining", "polling"}
    /\ ~Stopped(b)
    /\ Goes(b, IF poll[b].at = "draining" THEN "emptying" ELSE "asked")
    /\ UNCHANGED <<daemonVars, bridge, send, worldVars>>

(* drain_backlog goes on until the messenger has nothing left.              *)
DrainsBacklog(b) ==
    /\ poll[b].at = "emptying"
    /\ confirmed' = Forgotten(b)
    /\ Listens(b, IF Unread(b) = {} THEN "polling" ELSE "draining",
               poll[b].next, Reads(b))
    /\ UNCHANGED <<daemonVars, bridge, send, log, about, typed, heard>>

(* poll: the cursor passes every update of the batch.                       *)
Answered(b) ==
    /\ poll[b].at = "asked"
    /\ confirmed' = Forgotten(b)
    /\ Listens(b, "answered",
               IF Unread(b) = {} THEN 0 ELSE Forgotten(b) + 1, Reads(b))
    /\ UNCHANGED <<daemonVars, bridge, send, log, about, typed, heard>>

(* The request or its answer is lost, and is made again after a while; or   *)
(* the answer says that there is no use in trying.                          *)
AskFails(b) ==
    /\ poll[b].at \in {"emptying", "asked"}
    /\ confirmed' \in {confirmed, Forgotten(b)}
    /\ \E at \in {"gone", IF poll[b].at = "asked" THEN "polling"
                                                  ELSE "draining"} :
          Goes(b, at)
    /\ UNCHANGED <<daemonVars, bridge, send, log, about, typed, heard>>

(* Mutant of Proceeds: nobody looks at the flag after the answer.           *)
ProceedsAnyway(b) ==
    /\ poll[b].at = "answered"
    /\ Handles(b, poll[b].next)
    /\ UNCHANGED <<daemonVars, bridge, send, worldVars>>

(* A bridge stopped while it waited does nothing with the answer.           *)
Proceeds(b) ==
    /\ poll[b].at = "answered"
    /\ ~Stopped(b)
    /\ Handles(b, poll[b].next)
    /\ UNCHANGED <<daemonVars, bridge, send, worldVars>>
-----------------------------------------------------------------------------
(* dispatch, message by message; nobody looks at the flag here.             *)

(* accept: the first to write becomes the owner, strangers are dropped.     *)
Accept(b) ==
    LET from == Message(b).from IN
    /\ poll[b].at = "handling"
    /\ IF bridge[b].owner \in {None, from}
       THEN /\ bridge' = [bridge EXCEPT ![b].owner = from]
            /\ Goes(b, "routing")
       ELSE Drops(b) /\ UNCHANGED bridge
    /\ UNCHANGED <<daemonVars, send, worldVars>>

(* deliver_to: the text or the number of the chosen option is typed, or     *)
(* typing fails: the session has gone, a restart is being prepared.  Words  *)
(* that went in without their Enter count as typed.                         *)
TypesInto(b, s) ==
    typed' \in {typed,
                Append(typed, [update |-> poll[b].next, session |-> s, by |-> b])}

(* A reply goes where its push came from.  To one about several sessions    *)
(* dct asks which, to one it does not know it says so.                      *)
Remembered(b, id) == {i \in DOMAIN bridge[b].map : bridge[b].map[i].id = id}
DeliversReply(b) ==
    LET known == Remembered(b, Message(b).to) IN
    /\ poll[b].at = "routing"
    /\ Message(b).kind = "reply"
    /\ \/ known = {} /\ UNCHANGED typed
       \/ \E i \in known : TypesInto(b, bridge[b].map[i].session)
    /\ Drops(b)
    /\ UNCHANGED <<daemonVars, bridge, send, log, confirmed, about, heard>>

(* Another text goes to the session of /use, to the one that waits, or to   *)
(* the one of those that wait that the model picks (narrow); or dct asks.   *)
DeliversText(b) ==
    /\ poll[b].at = "routing"
    /\ Message(b).kind = "plain"
    /\ UNCHANGED typed \/ \E s \in Sessions : TypesInto(b, s)
    /\ Drops(b)
    /\ UNCHANGED <<daemonVars, bridge, send, log, confirmed, about, heard>>

PollStep(b) ==
    \/ Stops(b) \/ Begins(b) \/ DrainsBacklog(b)
    \/ Asks(b) \/ Answered(b) \/ AskFails(b) \/ Proceeds(b)
    \/ Accept(b) \/ DeliversReply(b) \/ DeliversText(b)
-----------------------------------------------------------------------------
(* run_sender: the thread that sends pushes.                                *)

SenderStops(b) ==
    /\ send[b].at = "resting"
    /\ Stopped(b)
    /\ send' = [send EXCEPT ![b] = NotSending]
    /\ UNCHANGED <<daemonVars, bridge, poll, worldVars>>

(* drain_outbound takes what has happened in sessions meanwhile; which they *)
(* are shows in the push.  Without an owner it is thrown away.              *)
Takes(b) ==
    /\ send[b].at = "resting"
    /\ ~Stopped(b)
    /\ bridge[b].owner # None
    /\ Len(about) + Cardinality({c \in Bridges : send[c].at = "composing"})
          < MaxPushes
    /\ send' = [send EXCEPT ![b].at = "composing"]
    /\ UNCHANGED <<daemonVars, bridge, poll, worldVars>>

(* What was taken is one push, however long the model takes to word it and  *)
(* whatever happens to the bridge meanwhile; or sending fails and it is     *)
(* lost.                                                                    *)
Sends(b) ==
    /\ send[b].at = "composing"
    /\ \E events \in SUBSET Sessions \ {{}} :
          /\ about' = Append(about, events)
          /\ send' = [send EXCEPT ![b] = [at |-> "sent", events |-> events,
                                         id |-> Len(about')]]
    /\ UNCHANGED <<daemonVars, bridge, poll, log, confirmed, typed, heard>>
SendFails(b) ==
    /\ send[b].at = "composing"
    /\ send' = [send EXCEPT ![b].at = "resting"]
    /\ UNCHANGED <<daemonVars, bridge, poll, worldVars>>

(* record_push for a push about one event.  Of a push about several, of one *)
(* session or of more, dct remembers only what to ask                       *)
(* (record_ambiguous_push).                                                 *)
Records(b) ==
    /\ send[b].at = "sent"
    /\ \/ \E s \in Sessions :
             LET push == [id |-> send[b].id, session |-> s] IN
             /\ send[b].events = {s}
             /\ bridge' = [bridge EXCEPT ![b].map = Keep(@, push)]
       \/ UNCHANGED bridge
    /\ send' = [send EXCEPT ![b] = [NotSending EXCEPT !.at = "resting"]]
    /\ UNCHANGED <<daemonVars, poll, worldVars>>

SendStep(b) ==
    SenderStops(b) \/ Takes(b) \/ Sends(b) \/ SendFails(b) \/ Records(b)
-----------------------------------------------------------------------------
(* The daemon: each of these holds the slot.                                *)

StopsBridge ==
    IF slot = 0
    THEN UNCHANGED <<bridge, heard>>
    ELSE /\ bridge' = [bridge EXCEPT ![slot].stop = TRUE]
         /\ heard' = [heard EXCEPT ![slot] = Len(log)]

(* PhoneSetToken: replace stops the old bridge and starts one that knows    *)
(* nobody.                                                                  *)
SetToken ==
    /\ born < MaxBridges
    /\ born' = born + 1
    /\ slot' = born'
    /\ StopsBridge
    /\ Goes(born', "naming")
    /\ send' = [send EXCEPT ![born'].at = "resting"]
    /\ UNCHANGED <<log, confirmed, about, typed>>

(* PhoneDisable.                                                            *)
Disable ==
    /\ slot # 0
    /\ StopsBridge
    /\ slot' = 0
    /\ UNCHANGED <<born, poll, send, log, confirmed, about, typed>>

(* PhoneUnpair: clear_owner forgets the owner, and then what it answered to.*)
Unpair ==
    /\ slot # 0
    /\ bridge' = [bridge EXCEPT
                     ![slot] = [owner |-> None, stop |-> @.stop, map |-> <<>>]]
    /\ UNCHANGED <<daemonVars, poll, send, worldVars>>

(* Somebody writes to the bot; only a push that there is can be replied to. *)
Post(m) ==
    /\ Len(log) < MaxUpdates
    /\ m.kind = "reply" => m.to \in 0..Len(about)
    /\ log' = Append(log, m)
    /\ UNCHANGED <<daemonVars, bridge, poll, send, confirmed, about, typed, heard>>

Next ==
    \/ \E b \in Bridges : PollStep(b) \/ SendStep(b)
    \/ SetToken \/ Disable \/ Unpair
    \/ \E m \in Texts : Post(m)

Spec == Init /\ [][Next]_vars
-----------------------------------------------------------------------------
Promise == INSTANCE PhonePromise

(* Whatever replaces or stops bridges, and however requests to the          *)
(* messenger fail or are made by two bridges at a time, what is typed is    *)
(* what the user of the phone is promised (Channel::poll's cursor,          *)
(* drain_backlog, the look at the flag after a poll, the tables of pushes). *)
KeepsPromise == Promise!Spec

(* A bridge hears only what is written in its own time: nothing written     *)
(* since it was stopped, though it may have been stopped while it waited    *)
(* for an answer (run looks at the flag once more before it dispatches);    *)
(* and, if it replaced another, nothing that was there when that one        *)
(* stopped (drain_backlog).                                                 *)
HearsInItsTime ==
    \A i \in DOMAIN typed :
        LET b == typed[i].by IN
        /\ Stopped(b) => typed[i].update <= heard[b]
        /\ b > 1 => typed[i].update > heard[b - 1]
=============================================================================
