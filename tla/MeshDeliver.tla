---------------------------- MODULE MeshDeliver -----------------------------
(***************************************************************************)
(* Messages from other computers of the group into the sessions of this    *)
(* one (src/src/mesh/deliver.rs, src/src/mesh/mod.rs).  Three kinds of     *)
(* threads work on the mailboxes:                                          *)
(*                                                                         *)
(*   Link      takes envelopes from the relay, one after the other         *)
(*   Clients   connections that run `dct send` to a session of their own   *)
(*             computer                                                    *)
(*   Ticker    the delivery thread, once a second                          *)
(*                                                                         *)
(* What is decided is decided under the lock of the mesh; the typing, with *)
(* its git snapshot, is done without it.  A step is what a thread does in  *)
(* one section of the lock, or between two.  Envelopes may be lost, come   *)
(* late, out of order and more than once.                                  *)
(***************************************************************************)
EXTENDS Integers, Sequences, FiniteSets, Mailbox

CONSTANTS
    Sessions,    \* numbers of sessions; the ticker goes through them in order
    Agents,      \* sessions that run an agent, not a plain shell
    Peers, Me,   \* the computers that may be in the group, and this one
    Messages,
    Sender,      \* the computer each message is from
    Address,     \* the sessions each message's address can mean
    QueueCap,    \* QUEUE_CAP
    Clients, Link, Ticker

Threads == Clients \cup {Link, Ticker}

ASSUME PeopleAssumption ==
    /\ Me \in Peers
    /\ Sender \in [Messages -> Peers]
    /\ Address \in [Messages -> SUBSET Sessions]

ASSUME SessionAssumption == Sessions \subseteq Nat /\ Agents \subseteq Sessions

ASSUME ThreadAssumption ==
    Link # Ticker /\ {Link, Ticker} \cap Clients = {}

ASSUME CapAssumption == QueueCap \in Nat

VARIABLES
    board,      \* the state of each session
    members,    \* the computers on the current roster
    queue,      \* queues: messages waiting for each session
    inFlight,   \* in_flight: sessions that are being typed into
    seen,       \* Seen: messages that have been let in
    pc,         \* where each thread is
    jobs,       \* what each thread has still to type
    result,     \* how the last typing of each thread ended
    answer,     \* the receipt given for each message
    restart,    \* how far a graceful restart has got
    held,       \* the copy of the queues for the next daemon
    typed,      \* history: what has been typed into each session
    accepted,   \* history: messages that have been queued or typed at once
    turnedAway  \* history: not typed because of the restart

mailVars == <<queue, inFlight, seen, answer>>
threadVars == <<pc, jobs, result>>
worldVars == <<board, members, restart, held>>
history == <<typed, accepted, turnedAway>>
vars == <<mailVars, threadVars, worldVars, history>>

(* "busy" stands for working, asking and unknown.                           *)
Board == {"idle", "busy", "failed", "stopped", "gone"}
Receipts == {"Delivered", "Queued", "NoSuchSession", "SessionStopped",
             "Refused"}
Job == [to : Sessions, msg : Messages]

TypeOK ==
    /\ board \in [Sessions -> Board]
    /\ members \subseteq Peers
    /\ queue \in [Sessions -> Seq(Messages)]
    /\ \A s \in Sessions : Len(queue[s]) <= QueueCap
    /\ inFlight \subseteq Sessions
    /\ seen \subseteq Messages
    /\ pc \in [Threads -> {"ready", "take", "job", "typing", "done"}]
    /\ jobs \in [Threads -> SUBSET Job]
    /\ result \in [Threads -> {"none", "ok", "failed", "restart"}]
    /\ answer \in [Messages -> Receipts \cup {"none"}]
    /\ restart \in {"no", "draining", "copied", "over"}
    /\ held \in [Sessions -> Seq(Messages)]
    /\ typed \in [Sessions -> Seq(Messages)]
    /\ accepted \subseteq Messages
    /\ turnedAway \subseteq Messages

draining == restart # "no"

Init ==
    /\ board \in [Sessions -> {"idle", "busy"}]
    /\ members = Peers
    /\ queue = [s \in Sessions |-> <<>>]
    /\ inFlight = {}
    /\ seen = {}
    /\ pc = [a \in Threads |-> "ready"]
    /\ jobs = [a \in Threads |-> {}]
    /\ result = [a \in Threads |-> "none"]
    /\ answer = [m \in Messages |-> "none"]
    /\ restart = "no"
    /\ held = [s \in Sessions |-> <<>>]
    /\ typed = [s \in Sessions |-> <<>>]
    /\ accepted = {} /\ turnedAway = {}

-----------------------------------------------------------------------------
(* decide: what becomes of a message that has been let in.                  *)

(* resolve: a number or a name, which several sessions may share.           *)
Hits(m) == {s \in Address[m] : board[s] # "gone"}

Reply(m, r) ==
    /\ answer' = [answer EXCEPT ![m] = r]
    /\ UNCHANGED <<queue, inFlight, threadVars, accepted>>

(* Mutated form of TypesAtOnce: the messages already waiting are not        *)
(* looked at.                                                               *)
JumpsTheQueue(s) ==
    s \notin inFlight /\ board[s] = "idle" /\ ~draining

TypesAtOnce(s) ==
    queue[s] = <<>> /\ s \notin inFlight /\ board[s] = "idle" /\ ~draining

(* Mutated form of Full: one message too many. *)
FullLate(s) == Len(queue[s]) > QueueCap
Full(s) == Len(queue[s]) >= QueueCap

Takes(a, m, s) ==
    /\ accepted' = accepted \cup {m}
    /\ IF TypesAtOnce(s)
       THEN /\ inFlight' = inFlight \cup {s}
            /\ jobs' = [jobs EXCEPT ![a] = {[to |-> s, msg |-> m]}]
            /\ pc' = [pc EXCEPT ![a] = "job"]
            /\ UNCHANGED <<queue, answer, result>>
       ELSE /\ queue' = [queue EXCEPT ![s] = Append(@, m)]
            /\ answer' = [answer EXCEPT ![m] = "Queued"]
            /\ UNCHANGED <<inFlight, threadVars>>

Decide(a, m) ==
    \/ Cardinality(Hits(m)) # 1 /\ Reply(m, "NoSuchSession")
    \/ \E s \in Sessions :
          /\ Hits(m) = {s}
          /\ \/ /\ board[s] \in {"stopped", "failed"}
                /\ Reply(m, "SessionStopped")
             \/ /\ board[s] \in {"idle", "busy"}
                /\ IF s \notin Agents \/ (~TypesAtOnce(s) /\ Full(s))
                   THEN Reply(m, "Refused")
                   ELSE Takes(a, m, s)

(* Mutated form of FirstTime: a message comes in as often as it is sent. *)
AnyTime(m) == TRUE
FirstTime(m) == m \notin seen

(* take_sealed.  The memory of what has been seen is taken to hold all the  *)
(* messages of the time window, as its comment demands; an older message is *)
(* refused for its age, so nothing is ever forgotten as far as can be told. *)
Receive(m) ==
    /\ pc[Link] = "ready"
    /\ Sender[m] \in members \ {Me}
    /\ FirstTime(m)
    /\ seen' = seen \cup {m}
    /\ Decide(Link, m)
    /\ UNCHANGED <<worldVars, typed, turnedAway>>

(* send, to this very computer: a new message, which has not been through   *)
(* the relay.  The roster was looked at in an earlier section of the lock.  *)
SendHere(c, m) ==
    /\ c \in Clients /\ pc[c] = "ready"
    /\ Sender[m] = Me
    /\ m \notin accepted /\ answer[m] = "none"
    /\ Decide(c, m)
    /\ UNCHANGED <<seen, worldVars, typed, turnedAway>>

-----------------------------------------------------------------------------
(* tick: the restart is looked for in one section of the lock, the queues   *)
(* are taken in the next.                                                   *)

TickChecks ==
    /\ pc[Ticker] = "ready" /\ ~draining
    /\ pc' = [pc EXCEPT ![Ticker] = "take"]
    /\ UNCHANGED <<mailVars, jobs, result, worldVars, history>>

Ended(s) == board[s] \in {"gone", "stopped"}

(* Mutated form of Free: a session that is being typed into is not spared. *)
FreeOrNot(s) == board[s] = "idle"
Free(s) == board[s] = "idle" /\ s \notin inFlight

(* The messages of s that may still be typed: a sender that is no longer in *)
(* the group is skipped at the front of the queue.                          *)
Welcome(s) == {k \in DOMAIN queue[s] : Sender[queue[s][k]] \in members}
First(s) == CHOOSE k \in Welcome(s) : \A j \in Welcome(s) : k <= j

TickTakes ==
    LET taken == {s \in Sessions : Free(s) /\ Welcome(s) # {}} IN
    /\ pc[Ticker] = "take"
    /\ jobs' = [jobs EXCEPT ![Ticker] =
                  {[to |-> s, msg |-> queue[s][First(s)]] : s \in taken}]
    /\ inFlight' = inFlight \cup taken
    /\ queue' = [s \in Sessions |->
                   IF s \in taken
                   THEN SubSeq(queue[s], First(s) + 1, Len(queue[s]))
                   ELSE IF Ended(s) \/ Free(s) THEN <<>> ELSE queue[s]]
    /\ pc' = [pc EXCEPT ![Ticker] = IF taken = {} THEN "ready" ELSE "job"]
    /\ UNCHANGED <<seen, answer, result, worldVars, history>>

-----------------------------------------------------------------------------
(* The typing, by whichever thread, without the lock.                       *)

(* A thread types what it has in the order of the sessions' numbers.        *)
Current(a) == CHOOSE j \in jobs[a] : \A k \in jobs[a] : j.to <= k.to

(* Mutated form of Submit: the restart is not looked at. *)
SubmitUnchecked(a) ==
    /\ pc[a] = "job"
    /\ pc' = [pc EXCEPT ![a] = "typing"]
    /\ UNCHANGED <<mailVars, jobs, result, worldVars, history>>

(* submit: nothing is typed while a restart is being prepared.              *)
Submit(a) ==
    /\ pc[a] = "job"
    /\ IF draining
       THEN /\ result' = [result EXCEPT ![a] = "restart"]
            /\ turnedAway' = turnedAway \cup {Current(a).msg}
            /\ pc' = [pc EXCEPT ![a] = "done"]
       ELSE /\ pc' = [pc EXCEPT ![a] = "typing"]
            /\ UNCHANGED <<result, turnedAway>>
    /\ UNCHANGED <<mailVars, jobs, worldVars, typed, accepted>>

(* The snapshot, the text and the Enter, in one step; the session counts as *)
(* working.                                                                 *)
Types(a) ==
    LET j == Current(a) IN
    /\ pc[a] = "typing"
    /\ board[j.to] # "gone"
    /\ typed' = [typed EXCEPT ![j.to] = Append(@, j.msg)]
    /\ board' = [board EXCEPT ![j.to] = "busy"]
    /\ result' = [result EXCEPT ![a] = "ok"]
    /\ pc' = [pc EXCEPT ![a] = "done"]
    /\ UNCHANGED <<mailVars, jobs, members, restart, held, accepted,
                   turnedAway>>

(* The session has left the board, or its agent has exited.                 *)
TypeFails(a) ==
    /\ pc[a] = "typing"
    /\ result' = [result EXCEPT ![a] = "failed"]
    /\ pc' = [pc EXCEPT ![a] = "done"]
    /\ UNCHANGED <<mailVars, jobs, worldVars, history>>

(* Mutated form of Panics: the mark of the session stays. *)
PanicsMarked(a) ==
    /\ pc[a] = "typing"
    /\ jobs' = [jobs EXCEPT ![a] = {}]
    /\ pc' = [pc EXCEPT ![a] = "ready"]
    /\ UNCHANGED <<mailVars, result, worldVars, history>>

(* A panic while typing: the guards of all the jobs clear their marks, the  *)
(* thread goes on with its next round, and nobody is answered.              *)
Panics(a) ==
    /\ pc[a] = "typing"
    /\ inFlight' = inFlight \ {j.to : j \in jobs[a]}
    /\ jobs' = [jobs EXCEPT ![a] = {}]
    /\ pc' = [pc EXCEPT ![a] = "ready"]
    /\ UNCHANGED <<queue, seen, answer, result, worldVars, history>>

(* Mutated form of ReceiptOf: whatever happened, it was delivered. *)
AlwaysDelivered(a) == "Delivered"
ReceiptOf(a) == IF result[a] = "ok" THEN "Delivered" ELSE "Refused"

(* finish_typing; the sender of a message from the queue has its answer.    *)
Finish(a) ==
    LET j == Current(a) IN
    /\ pc[a] = "done"
    /\ inFlight' = inFlight \ {j.to}
    /\ jobs' = [jobs EXCEPT ![a] = @ \ {j}]
    /\ answer' = IF a = Ticker THEN answer
                 ELSE [answer EXCEPT ![j.msg] = ReceiptOf(a)]
    /\ result' = [result EXCEPT ![a] = "none"]
    /\ pc' = [pc EXCEPT ![a] = IF jobs[a] = {j} THEN "ready" ELSE "job"]
    /\ UNCHANGED <<queue, seen, worldVars, history>>

-----------------------------------------------------------------------------
(* The world around.                                                        *)

(* A stopped session stays stopped until it leaves the board, or somebody   *)
(* presses Enter in it, which is Types here.                                *)
SessionChanges(s) ==
    /\ board[s] # "gone"
    /\ \E st \in IF board[s] = "stopped" THEN {"gone"}
                 ELSE Board \ {board[s]} :
          board' = [board EXCEPT ![s] = st]
    /\ UNCHANGED <<mailVars, threadVars, members, restart, held, history>>

(* Mutated form of Commit: the messages that wait stay. *)
CommitOnly(new) ==
    /\ members' = new
    /\ UNCHANGED <<mailVars, threadVars, board, restart, held, history>>

(* commit: another roster, by whatever way; the waiting messages of a       *)
(* computer that is not on it are thrown away.                              *)
Commit(new) ==
    /\ members' = new
    /\ LET removed == {m \in Messages : Sender[m] \notin new} IN
       queue' = [s \in Sessions |-> Without(queue[s], removed)]
    /\ UNCHANGED <<inFlight, seen, answer, threadVars, board, restart,
                   held, history>>

(* DrainCtl: begun, cancelled, at its end with the queues copied, then      *)
(* given up because the new daemon could not be started, or carried out.    *)
Restart(from, to, copy) ==
    /\ restart = from
    /\ restart' = to
    /\ held' = copy
    /\ UNCHANGED <<mailVars, threadVars, board, members, history>>

Nothing == [s \in Sessions |-> <<>>]

DrainStarts == Restart("no", "draining", Nothing)
DrainCancelled == Restart("draining", "no", Nothing)
CopyHeld == Restart("draining", "copied", queue)
SwapFails == Restart("copied", "no", Nothing)
Exit == Restart("copied", "over", held)

-----------------------------------------------------------------------------
Works(a) == Submit(a) \/ Types(a) \/ TypeFails(a) \/ Panics(a) \/ Finish(a)

Next ==
    \/ /\ restart # "over"
       /\ \/ \E m \in Messages : Receive(m)
          \/ \E c \in Clients, m \in Messages : SendHere(c, m)
          \/ TickChecks \/ TickTakes
          \/ \E a \in Threads : Works(a)
          \/ \E s \in Sessions : SessionChanges(s)
          \/ \E new \in SUBSET Peers \ {members} : Commit(new)
          \/ DrainStarts \/ DrainCancelled \/ CopyHeld \/ SwapFails \/ Exit
    \/ restart = "over" /\ UNCHANGED vars

Spec == Init /\ [][Next]_vars

(* The delivery thread runs once a second, and typing ends: every git       *)
(* snapshot does.  Nothing is demanded of the sessions or of the network.   *)
Fairness ==
    /\ WF_vars(restart # "over" /\ (TickChecks \/ TickTakes))
    /\ \A a \in Threads : WF_vars(restart # "over" /\ Works(a))

FairSpec == Spec /\ Fairness

-----------------------------------------------------------------------------
(* What thread a has for session s and has not typed yet.                   *)
InHand(a, s) ==
    {j \in jobs[a] : j.to = s /\ ~(pc[a] = "done" /\ j = Current(a))}

(* The mailbox of a session: the message some thread is about to type, then *)
(* the queue.                                                               *)
Box(s) ==
    IF \E a \in Threads : InHand(a, s) # {}
    THEN <<(CHOOSE j \in UNION {InHand(a, s) : a \in Threads} : TRUE).msg>>
             \o queue[s]
    ELSE queue[s]

Promise == INSTANCE MailPromise
    WITH box <- [s \in Sessions |-> Box(s)], ever <- accepted

(* Messages reach a session in the order they came and at most once,        *)
(* however the link thread, local senders and the delivery thread overlap   *)
(* and however often an envelope arrives.                                   *)
KeepsMail == Promise!Spec

(* A session is marked as being typed into exactly when one thread has a    *)
(* message for it in hand, and no second thread ever has: the messages of   *)
(* two computers are never typed into one another.                          *)
OneAtATime ==
    /\ inFlight = {j.to : j \in UNION {jobs[a] : a \in Threads}}
    /\ \A a, b \in Threads : \A j \in jobs[a], k \in jobs[b] :
          j.to = k.to => a = b /\ j = k

TypedMessages == UNION {Items(typed[s]) : s \in Sessions}

(* What a sender was told is so: a delivered message has been typed, and    *)
(* one that was turned down neither has been nor is waiting to be.          *)
ReceiptIsTrue ==
    \A m \in Messages :
        /\ answer[m] = "Delivered" => m \in TypedMessages
        /\ answer[m] \in {"Refused", "SessionStopped", "NoSuchSession"} =>
              \A s \in Sessions : m \notin TypedMessages \cup Items(Box(s))

(* A message in the copy for the next daemon has not been typed by this     *)
(* one, which goes on running for a while after the copy was made: it is    *)
(* not typed twice.                                                         *)
HeldIsNotTyped ==
    \A s \in Sessions : Items(held[s]) \cap TypedMessages = {}

(* No message of a computer that has been removed from the group waits in a *)
(* queue (commit calls purge_non_members).  The copy for the next daemon is *)
(* of the queues as they were; a removal after that does not reach it.      *)
RemovedIsForgotten ==
    \A s \in Sessions : \A m \in Items(queue[s]) :
        Sender[m] \in members \cup {Me}

(* "准备重启时不取队列：留言原样留着，取消或者重启之后照常送": a message    *)
(* whose sender was told that it waits is not thrown away because a restart *)
(* is being prepared (tick in src/src/mesh/deliver.rs).                     *)
QueuedIsKept ==
    \A m \in Messages : answer[m] = "Queued" => m \notin turnedAway

(* When a session has come to rest for good and no restart is going on, its *)
(* queue is emptied in the end, though some typing may fail or panic.       *)
QueueIsEmptied ==
    \A s \in Sessions :
        <>[](board[s] = "idle" /\ ~draining) => <>[](queue[s] = <<>>)
=============================================================================
