------------------------------- MODULE Relay --------------------------------
(* Letters between the computers of a group, by way of the relay server:    *)
(* `dct send` asks (deliver.rs, net.rs, link.rs), the relay keeps a mailbox *)
(* for each computer that polls and a list of who waits for which answer    *)
(* (dct-srv/src/lib.rs), and the addressee's link thread polls, hands each  *)
(* envelope to the mesh and sends back what the mesh answers (link.rs).     *)
(*                                                                          *)
(* Time is abstracted: a request may be given up, an entry may grow old and *)
(* a wait may end at any moment the time limits allow.  A client that gives *)
(* up leaves its request in the server, which goes on with it until it next *)
(* waits and may be dropped there.                                          *)
EXTENDS Naturals, SequencesExt

CONSTANTS
    Computers,      \* the endpoints, each with a link thread
    Accounts,       \* the accounts tokens are signed for
    Letters,        \* the letters somebody sends, one `dct send` each
    From, To,       \* From[l], To[l]: the computers of a letter
    Number,         \* Number[l][try]: the seq of the envelope that asks
    Inbox,          \* Config.inbox, the envelopes a mailbox holds
    MaxBoxes,       \* bound: the mailboxes of a computer there are at a time
    MaxPolls,       \* MaxPolls[c], bound: the polls of c in the server at a time
    MaxLogins,      \* bound: how often a computer changes its account
    MaxRestarts,    \* bound: how often the relay restarts
    None            \* nothing

Tries == 1..2
Boxes == 1..MaxBoxes
Keys == Computers \X UNION {{Number[l][t] : t \in Tries} : l \in Letters}

ASSUME LettersAssumption ==
    /\ From \in [Letters -> Computers]
    /\ To \in [Letters -> Computers]
    /\ \A l \in Letters : From[l] # To[l]
    /\ \A l \in Letters : Number[l] \in [Tries -> Nat]

VARIABLES
    devices,    \* Relay.devices: endpoint -> its entry, or None
    boxes,      \* boxes[c][b]: what is in a mailbox (an mpsc channel)
    polls,      \* polls[c]: the server's polls, in the order they came
    waiting,    \* Relay.waiting: the slots, by (endpoint, seq)
    ask,        \* ask[l]: the server's task for a letter
    told,       \* what the sender was told, "" as long as it waits
    link,       \* link[c]: where the link thread is
    handled,    \* the envelopes the mesh of the addressee has acted on
    account,    \* account[c]: whom the token in use is for
    logins, restarts

serverVars == <<devices, boxes, polls, waiting>>
boundVars == <<account, logins, restarts>>
vars == <<serverVars, ask, told, link, handled, boundVars>>


(* An envelope: the letter and the try it is about, and the account of the  *)
(* token it was sent with, which the relay has checked.                     *)
Envelope == [kind : {"question", "answer"}, letter : Letters, try : Tries,
             account : Accounts]
Question(l) == [kind |-> "question", letter |-> l, try |-> ask[l].try,
                account |-> ask[l].account]
Sender(e) == IF e.kind = "question" THEN From[e.letter] ELSE To[e.letter]
Addressee(e) == IF e.kind = "question" THEN To[e.letter] ELSE From[e.letter]
KeyFor(e) == <<Addressee(e), Number[e.letter][e.try]>>
KeyOf(l) == <<From[l], Number[l][ask[l].try]>>

Entry == [box : Boxes, fresh : BOOLEAN, account : Accounts]
Slot == [letter : Letters, try : Tries, from : Computers, account : Accounts]
Poll == [box : Boxes, live : BOOLEAN, account : Accounts]
AskStates == {"idle", "called", "slotted", "routed", "found", "waiting",
              "forgetting", "over"}
Task == [at : AskStates, try : Tries, account : Accounts, box : Boxes \cup {0},
         got : Envelope \cup {None}, why : {None, "offline", "busy", "noanswer"}]
LinkStates == {"idle", "polling", "got", "sending", "routed", "found"}
Words == {"receipt", "offline", "refused", "noanswer"}

TypeOK ==
    /\ devices \in [Computers -> Entry \cup {None}]
    /\ boxes \in [Computers -> [Boxes -> Seq(Envelope)]]
    /\ \A c \in Computers, b \in Boxes : Len(boxes[c][b]) <= Inbox
    /\ polls \in [Computers -> Seq(Poll)]
    /\ \A c \in Computers : \A i \in DOMAIN polls[c] :
           polls[c][i].live =>
               /\ link[c].at = "polling"
               /\ \A j \in DOMAIN polls[c] : polls[c][j].live => i = j
    /\ DOMAIN waiting \subseteq Keys
    /\ \A k \in DOMAIN waiting : waiting[k] \in Slot
    /\ ask \in [Letters -> Task]
    /\ \A l \in Letters : ask[l].at = "found" => ask[l].box # 0
    /\ told \in [Letters -> Words \cup {""}]
    /\ link \in [Computers -> [at : LinkStates, env : Envelope \cup {None},
                               box : Boxes \cup {0}]]
    /\ \A c \in Computers :
           /\ link[c].env = None <=> link[c].at \in {"idle", "polling"}
           /\ link[c].at = "found" => link[c].box # 0
    /\ handled \subseteq Letters \X Tries
    /\ account \in [Computers -> Accounts]

ASSUME NoneAssumption == None \notin Entry /\ None \notin Envelope

ASSUME BoundsAssumption ==
    /\ Accounts # {}
    /\ Inbox \in Nat /\ MaxBoxes \in Nat /\ MaxPolls \in [Computers -> Nat]
    /\ MaxLogins \in Nat /\ MaxRestarts \in Nat

NoAsk == [at |-> "idle", try |-> 1, account |-> CHOOSE a \in Accounts : TRUE,
          box |-> 0, got |-> None, why |-> None]
Over == [NoAsk EXCEPT !.at = "over"]
At(where) == [at |-> where, env |-> None, box |-> 0]

Init ==
    /\ devices = [c \in Computers |-> None]
    /\ boxes = [c \in Computers |-> [b \in Boxes |-> <<>>]]
    /\ polls = [c \in Computers |-> <<>>]
    /\ waiting = <<>>
    /\ ask = [l \in Letters |-> NoAsk]
    /\ told = [l \in Letters |-> ""]
    /\ link = [c \in Computers |-> At("idle")]
    /\ handled = {}
    /\ account \in [Computers -> {CHOOSE a \in Accounts : TRUE}]
    /\ logins = 0
    /\ restarts = 0
-----------------------------------------------------------------------------
(* The table of devices.                                                    *)

(* Whoever polls or asks for its peers throws out what has grown old.       *)
Swept == [c \in Computers |->
             IF devices[c] # None /\ devices[c].fresh THEN devices[c] ELSE None]

(* Mutant of Taken: the endpoint is taken over with its mailbox.            *)
NeverTaken(c) == FALSE

(* An endpoint that is present under another account is refused, and        *)
(* nothing of its entry is touched.                                         *)
Taken(c) == Swept[c] # None /\ Swept[c].account # account[c]

(* A mailbox takes envelopes as long as anybody holds its receiving end:    *)
(* the entry, or a poll that was let in before the entry was thrown out.    *)
Held(c, b) ==
    \/ devices[c] # None /\ devices[c].box = b
    \/ \E i \in DOMAIN polls[c] : polls[c][i].box = b

(* What is in a mailbox goes with the last who has a hold of it.            *)
Keeps(mail) == boxes' = [c \in Computers |-> [b \in Boxes |->
                            IF Held(c, b)' THEN mail[c][b] ELSE <<>>]]

(* An entry grows old when its computer has not asked for three times the   *)
(* length of a poll.  A live poll cannot last that long: the client gives   *)
(* up sooner (LinkConfig::read_timeout).                                    *)
Ages(c) ==
    /\ devices[c] # None
    /\ devices[c].fresh
    /\ \A i \in DOMAIN polls[c] : ~polls[c][i].live
    /\ devices' = [devices EXCEPT ![c].fresh = FALSE]
    /\ UNCHANGED <<boxes, polls, waiting, ask, told, link, handled,
                   boundVars>>

(* Relay::peers, for anybody's `dct peers`.                                 *)
Peers ==
    /\ devices # Swept
    /\ devices' = Swept
    /\ UNCHANGED <<polls, waiting, ask, told, link, handled,
                   boundVars>>
    /\ Keeps(boxes)
-----------------------------------------------------------------------------
(* Polling: the link thread and the server's end of its requests.           *)

(* The section of Relay::poll under the lock: sweep, refuse an endpoint     *)
(* that is taken, or note the time and join the queue for the mailbox.      *)
(* Mailboxes that nobody has a hold of any more are numbered again.         *)
Unused(c, b) ==
    /\ ~\E i \in DOMAIN polls[c] : polls[c][i].box = b
    /\ \A l \in Letters : ~(ask[l].at = "found" /\ To[l] = c /\ ask[l].box = b)
    /\ \A d \in Computers :
           ~(link[d].at = "found" /\ Addressee(link[d].env) = c /\ link[d].box = b)

Joins(c, b) ==
    /\ devices' = [Swept EXCEPT ![c] =
                      [box |-> b, fresh |-> TRUE, account |-> account[c]]]
    /\ polls' = [polls EXCEPT ![c] =
                    Append(@, [box |-> b, live |-> TRUE, account |-> account[c]])]

Enter(c) ==
    /\ link[c].at = "idle"
    /\ ~Taken(c)
    /\ IF Swept[c] = None
       THEN LET box == CHOOSE n \in Boxes : Unused(c, n)
            IN  /\ \E n \in Boxes : Unused(c, n)
                /\ Joins(c, box)
                /\ Keeps([boxes EXCEPT ![c][box] = <<>>])
       ELSE Joins(c, Swept[c].box) /\ Keeps(boxes)
    /\ link' = [link EXCEPT ![c] = At("polling")]
    /\ UNCHANGED <<waiting, ask, told, handled, boundVars>>

(* NotYours: only the sweep is left of it.  The link thread naps and tries  *)
(* again, as after a request that does not reach the relay.                 *)
Refused(c) ==
    /\ link[c].at = "idle"
    /\ Taken(c)
    /\ devices' = Swept
    /\ UNCHANGED <<polls, waiting, ask, told, link, handled,
                   boundVars>>
    /\ Keeps(boxes)

(* Mutant of Receives: a poll does not get the lock while another exists.   *)
ReceivesAlone(c, i) == i = 1 /\ Len(polls[c]) = 1

(* The lock on the receiving end is taken in turn: only the first of the    *)
(* polls on a mailbox receives.                                             *)
Receives(c, i) ==
    /\ i \in DOMAIN polls[c]
    /\ \A j \in 1..(i - 1) : polls[c][j].box # polls[c][i].box

(* An envelope is taken out for good.  It is lost when the client has gone, *)
(* or when the connection breaks under the response.                        *)
PollTakes(c, i) ==
    LET p == polls[c][i] IN
    /\ Receives(c, i)
    /\ boxes[c][p.box] # <<>>
    /\ polls' = [polls EXCEPT ![c] = RemoveAt(@, i)]
    /\ IF p.live
       THEN link' \in {[link EXCEPT ![c] =
                           [at |-> "got", env |-> Head(boxes[c][p.box]),
                            box |-> 0]],
                       [link EXCEPT ![c] = At("idle")]}
       ELSE UNCHANGED link
    /\ UNCHANGED <<devices, waiting, ask, told, handled, boundVars>>
    /\ Keeps([boxes EXCEPT ![c][p.box] = Tail(@)])

(* Nothing came in time, or the entry was thrown out and the mailbox is     *)
(* empty: the client asks again at once.                                    *)
PollEmpty(c, i) ==
    LET p == polls[c][i] IN
    /\ Receives(c, i)
    /\ boxes[c][p.box] = <<>>
    /\ polls' = [polls EXCEPT ![c] = RemoveAt(@, i)]
    /\ link' = IF p.live THEN [link EXCEPT ![c] = At("idle")] ELSE link
    /\ UNCHANGED <<devices, waiting, ask, told, handled,
                   boundVars>>
    /\ Keeps(boxes)

(* The client stops waiting (its time is over, or the connection is gone);  *)
(* its poll stays in the server until the server notices.                   *)
LinkGivesUp(c) ==
    /\ link[c].at = "polling"
    /\ Len(polls[c]) < MaxPolls[c]
    /\ polls' = [polls EXCEPT ![c] =
                    [i \in DOMAIN @ |-> [@[i] EXCEPT !.live = FALSE]]]
    /\ link' = [link EXCEPT ![c] = At("idle")]
    /\ UNCHANGED <<devices, boxes, waiting, ask, told, handled, boundVars>>

PollDropped(c, i) ==
    /\ i \in DOMAIN polls[c]
    /\ ~polls[c][i].live
    /\ polls' = [polls EXCEPT ![c] = RemoveAt(@, i)]
    /\ UNCHANGED <<devices, waiting, ask, told, link, handled,
                   boundVars>>
    /\ Keeps(boxes)

(* The mesh acts on a question it has not seen and answers, or says nothing *)
(* (it cannot open the envelope, or panics); an answer that comes this way  *)
(* is late and nobody waits for it.                                         *)
Answers(c, e) ==
    /\ e.kind = "question"
    /\ <<e.letter, e.try>> \notin handled
    /\ handled' = handled \cup {<<e.letter, e.try>>}
    /\ link' \in {[link EXCEPT ![c] =
                      [at |-> "sending", box |-> 0,
                       env |-> [e EXCEPT !.kind = "answer",
                                         !.account = account[c]]]],
                  [link EXCEPT ![c] = At("idle")]}

(* Mutant of Ignores: a panic of the mesh ends the link thread.             *)
PanicEnds(c, e) ==
    /\ link' = [link EXCEPT ![c] = At("over")]
    /\ UNCHANGED handled

Ignores(c, e) ==
    /\ link' = [link EXCEPT ![c] = At("idle")]
    /\ UNCHANGED handled

HandleEnvelope(c) ==
    /\ link[c].at = "got"
    /\ Answers(c, link[c].env) \/ Ignores(c, link[c].env)
    /\ UNCHANGED <<serverVars, ask, told, boundVars>>
-----------------------------------------------------------------------------
(* Relay::send, for the questions of the letters and for the answers of the *)
(* link threads.  It holds no lock from one of its steps to the next.       *)

Filled(e) ==
    /\ KeyFor(e) \in DOMAIN waiting
    /\ waiting[KeyFor(e)].from = Sender(e)
    /\ waiting[KeyFor(e)].account = e.account

Without(key) == [k \in DOMAIN waiting \ {key} |-> waiting[k]]

(* What is sent for a slot goes to the task that made it, if it still       *)
(* exists and has not been given an answer.                                 *)
Fill(e, tasks) ==
    LET s == waiting[KeyFor(e)] IN
    [tasks EXCEPT ![s.letter].got =
        IF tasks[s.letter].at # "over" /\ tasks[s.letter].try = s.try
        THEN e ELSE @]

(* The entry of an addressee that is present, of the same account.          *)
Reachable(e) ==
    LET d == devices[Addressee(e)] IN
    d # None /\ d.fresh /\ d.account = e.account

AnswerSent(c) ==
    LET e == link[c].env IN
    /\ link[c].at = "sending"
    /\ IF Filled(e)
       THEN /\ waiting' = Without(KeyFor(e))
            /\ ask' = Fill(e, ask)
            /\ link' = [link EXCEPT ![c] = At("idle")]
       ELSE /\ link' = [link EXCEPT ![c].at = "routed"]
            /\ UNCHANGED <<waiting, ask>>
    /\ UNCHANGED <<devices, boxes, polls, told, handled, boundVars>>

AnswerRouted(c) ==
    LET e == link[c].env IN
    /\ link[c].at = "routed"
    /\ link' = [link EXCEPT ![c] =
                   IF Reachable(e)
                   THEN [at |-> "found", env |-> e,
                         box |-> devices[Addressee(e)].box]
                   ELSE At("idle")]
    /\ UNCHANGED <<serverVars, ask, told, handled, boundVars>>

Accepts(c, b) == Held(c, b) /\ Len(boxes[c][b]) < Inbox
Put(e, b) ==
    boxes' = IF Accepts(Addressee(e), b)
             THEN [boxes EXCEPT ![Addressee(e)][b] = Append(@, e)]
             ELSE boxes

AnswerPut(c) ==
    /\ link[c].at = "found"
    /\ Put(link[c].env, link[c].box)
    /\ link' = [link EXCEPT ![c] = At("idle")]
    /\ UNCHANGED <<devices, polls, waiting, ask, told, handled, boundVars>>

AnswerLost(c) ==
    /\ link[c].at = "sending"
    /\ link' = [link EXCEPT ![c] = At("idle")]
    /\ UNCHANGED <<serverVars, ask, told, handled, boundVars>>
-----------------------------------------------------------------------------
(* Relay::ask and its client, `dct send`.                                   *)

Call(l) ==
    /\ ask[l].at = "idle"
    /\ ask' = [ask EXCEPT ![l].at = "called", ![l].account = account[From[l]]]
    /\ UNCHANGED <<serverVars, told, link, handled, boundVars>>

(* What the sender makes of an error: a mailbox that was full is tried once *)
(* more, with a new envelope.                                               *)
Failed(l, why) ==
    IF told[l] # ""
    THEN /\ ask' = [ask EXCEPT ![l] = Over]
         /\ UNCHANGED told
    ELSE IF why = "busy" /\ ask[l].try = 1
    THEN /\ ask' = [ask EXCEPT ![l] =
                       [NoAsk EXCEPT !.at = "called", !.try = 2,
                                     !.account = account[From[l]]]]
         /\ UNCHANGED told
    ELSE /\ ask' = [ask EXCEPT ![l] = Over]
         /\ told' = [told EXCEPT ![l] = IF why = "busy" THEN "refused" ELSE why]

(* A slot is made before the question is sent, and never in place of one    *)
(* that is there.                                                           *)
Free(l) == KeyOf(l) \notin DOMAIN waiting

AskSlotted(l) ==
    /\ ask[l].at = "called"
    /\ Free(l)
    /\ waiting' = [k \in DOMAIN waiting \cup {KeyOf(l)} |->
                      IF k = KeyOf(l)
                      THEN [letter |-> l, try |-> ask[l].try, from |-> To[l],
                            account |-> ask[l].account]
                      ELSE waiting[k]]
    /\ ask' = [ask EXCEPT ![l].at = "slotted"]
    /\ UNCHANGED <<devices, boxes, polls, told, link, handled, boundVars>>

AskBusy(l) ==
    /\ ask[l].at = "called"
    /\ ~Free(l)
    /\ Failed(l, "busy")
    /\ UNCHANGED <<serverVars, link, handled, boundVars>>

AskSent(l) ==
    LET e == Question(l) IN
    /\ ask[l].at = "slotted"
    /\ IF Filled(e)
       THEN /\ waiting' = Without(KeyFor(e))
            /\ ask' = Fill(e, [ask EXCEPT ![l].at = "waiting"])
       ELSE /\ ask' = [ask EXCEPT ![l].at = "routed"]
            /\ UNCHANGED waiting
    /\ UNCHANGED <<devices, boxes, polls, told, link, handled, boundVars>>

AskRouted(l) ==
    LET e == Question(l) IN
    /\ ask[l].at = "routed"
    /\ ask' = [ask EXCEPT ![l] =
                  IF Reachable(e)
                  THEN [@ EXCEPT !.at = "found", !.box = devices[To[l]].box]
                  ELSE [@ EXCEPT !.at = "forgetting", !.why = "offline"]]
    /\ UNCHANGED <<serverVars, told, link, handled, boundVars>>

AskPut(l) ==
    LET box == ask[l].box IN
    /\ ask[l].at = "found"
    /\ Put(Question(l), box)
    /\ ask' = [ask EXCEPT ![l] =
                  IF Accepts(To[l], box)
                  THEN [@ EXCEPT !.at = "waiting", !.box = 0]
                  ELSE [@ EXCEPT !.at = "forgetting", !.box = 0,
                                 !.why = IF Held(To[l], box)
                                         THEN "busy" ELSE "offline"]]
    /\ UNCHANGED <<devices, polls, waiting, told, link, handled, boundVars>>

(* Mutant of AskTimesOut: the server waits as long as the client does.      *)
WaitsForEver(l) ==
    /\ ask[l].at = "waiting"
    /\ ask[l].got = None
    /\ told[l] # ""
    /\ ask' = [ask EXCEPT ![l].at = "forgetting", ![l].why = "noanswer"]
    /\ UNCHANGED <<serverVars, told, link, handled, boundVars>>

AskTimesOut(l) ==
    /\ ask[l].at = "waiting"
    /\ ask[l].got = None
    /\ ask' = [ask EXCEPT ![l].at = "forgetting", ![l].why = "noanswer"]
    /\ UNCHANGED <<serverVars, told, link, handled, boundVars>>

(* Mutant of Mine: whatever slot has the key.                               *)
MineByKey(l) == ~Free(l)

(* Relay::forget takes away the slot this very task made, and no other.     *)
Mine(l) ==
    /\ ~Free(l)
    /\ waiting[KeyOf(l)].letter = l
    /\ waiting[KeyOf(l)].try = ask[l].try

Forget(l) ==
    /\ ask[l].at = "forgetting"
    /\ waiting' = IF Mine(l) THEN Without(KeyOf(l)) ELSE waiting
    /\ Failed(l, ask[l].why)
    /\ UNCHANGED <<devices, boxes, polls, link, handled, boundVars>>

(* Mutant of Opens: any answer counts.                                      *)
OpensAny(l, e) == e.kind = "answer"

(* The sender opens what it was given; it counts only as the answer to the  *)
(* very message it sent (Mesh::open_answer goes by the id).                 *)
Opens(l, e) ==
    /\ e.kind = "answer"
    /\ e.letter = l
    /\ e.try = ask[l].try

AskAnswered(l) ==
    /\ ask[l].at = "waiting"
    /\ ask[l].got # None
    /\ ask' = [ask EXCEPT ![l] = Over]
    /\ told' = IF told[l] # "" THEN told
               ELSE [told EXCEPT ![l] =
                        IF Opens(l, ask[l].got) THEN "receipt" ELSE "noanswer"]
    /\ UNCHANGED <<serverVars, link, handled, boundVars>>

(* The time of the client's own limit, shorter than the relay's, is over,   *)
(* or the connection breaks.  The request may still be on its way.          *)
GiveUp(l) ==
    /\ ask[l].at \notin {"idle", "over"}
    /\ told[l] = ""
    /\ told' = [told EXCEPT ![l] = "noanswer"]
    /\ UNCHANGED <<serverVars, ask, link, handled, boundVars>>

(* The server drops a task whose client has gone, where it waits; a request *)
(* may also never arrive.  Nobody calls forget.                             *)
AskDropped(l) ==
    /\ told[l] # ""
    /\ ask[l].at \in {"called", "waiting"}
    /\ ask' = [ask EXCEPT ![l] = Over]
    /\ UNCHANGED <<serverVars, told, link, handled, boundVars>>
-----------------------------------------------------------------------------
(* `dct login` with another account; the next poll uses the new token.      *)
Login(c) ==
    /\ logins < MaxLogins
    /\ account' \in {[account EXCEPT ![c] = a] : a \in Accounts \ {account[c]}}
    /\ logins' = logins + 1
    /\ UNCHANGED <<serverVars, ask, told, link, handled, restarts>>

(* The relay restarts: it keeps nothing, and every connection breaks.       *)
Restart ==
    /\ restarts < MaxRestarts
    /\ restarts' = restarts + 1
    /\ devices' = [c \in Computers |-> None]
    /\ boxes' = [c \in Computers |-> [b \in Boxes |-> <<>>]]
    /\ polls' = [c \in Computers |-> <<>>]
    /\ waiting' = <<>>
    /\ ask' = [l \in Letters |->
                  IF ask[l].at = "idle" THEN ask[l]
                  ELSE Over]
    /\ told' = [l \in Letters |->
                   IF ask[l].at \notin {"idle", "over"} /\ told[l] = ""
                   THEN "noanswer" ELSE told[l]]
    /\ link' = [c \in Computers |->
                   CASE link[c].at = "polling" -> At("idle")
                     [] link[c].at \in {"sending", "routed", "found"} -> At("idle")
                     [] OTHER -> link[c]]
    /\ UNCHANGED <<handled, account, logins>>

ServerStep(l) ==
    \/ AskSlotted(l) \/ AskBusy(l) \/ AskSent(l) \/ AskRouted(l) \/ AskPut(l)
    \/ AskTimesOut(l) \/ Forget(l) \/ AskAnswered(l)

PollStep(c) == \E i \in 1..MaxPolls[c] : PollTakes(c, i) \/ PollEmpty(c, i)

LinkStep(c) ==
    \/ Enter(c) \/ Refused(c) \/ HandleEnvelope(c)
    \/ AnswerSent(c) \/ AnswerRouted(c) \/ AnswerPut(c)

Next ==
    \/ \E l \in Letters : Call(l) \/ ServerStep(l) \/ GiveUp(l) \/ AskDropped(l)
    \/ \E c \in Computers :
           \/ PollStep(c) \/ LinkStep(c) \/ AnswerLost(c)
           \/ LinkGivesUp(c) \/ Ages(c) \/ Login(c)
           \/ \E i \in 1..MaxPolls[c] : PollDropped(c, i)
    \/ Peers
    \/ Restart

Spec == Init /\ [][Next]_vars

(* The server's tasks and the link threads go on; polls that find an        *)
(* envelope are not broken before they take it every time; the relay can be *)
(* reached now and then; and the clock advances for an entry nobody renews. *)
(* A client need not give up: the server answers it.                        *)
Fairness ==
    /\ \A l \in Letters : WF_vars(ServerStep(l))
    /\ \A c \in Computers :
           /\ SF_vars(\E i \in 1..MaxPolls[c] : PollTakes(c, i))
           /\ WF_vars(PollStep(c))
           /\ SF_vars(Enter(c))
           /\ WF_vars(LinkStep(c))
           /\ WF_vars(Ages(c))

FairSpec == Spec /\ Fairness
-----------------------------------------------------------------------------
(* A task that waits has its slot in the list until it is given something:  *)
(* no forget of an earlier question with the same number, and no other      *)
(* question, takes it away.                                                 *)
WaitersAreListed ==
    \A l \in Letters :
        /\ ask[l].at \in {"slotted", "routed", "found", "waiting"}
        /\ ask[l].got = None
        => Mine(l)

(* What a poll may take, and what a question is answered with, was sent     *)
(* under the account the poll and the question came with, though computers  *)
(* change accounts and entries are thrown out while polls wait.             *)
MailStaysInAccount ==
    /\ \A c \in Computers : \A i \in DOMAIN polls[c] :
           LET p == polls[c][i] IN
           \A j \in DOMAIN boxes[c][p.box] :
               boxes[c][p.box][j].account = p.account
    /\ \A l \in Letters :
           ask[l].got # None => ask[l].got.account = ask[l].account

(* The promise of LetterPromise.                                            *)
Promise == INSTANCE LetterPromise WITH
    handled <- [l \in Letters |-> Cardinality({t \in Tries : <<l, t>> \in handled})]

KeepsPromise == Promise!Spec

(* An envelope that lies in the mailbox of a computer that is present is    *)
(* taken out, whatever polls are given up while it lies there.              *)
HasMail(c) == devices[c] # None /\ boxes[c][devices[c].box] # <<>>
MailIsFetched == \A c \in Computers : HasMail(c) ~> ~HasMail(c)

(* Whatever the relay, the connections and the mesh do, the link thread of  *)
(* a computer polls again.                                                  *)
LinkComesBack == \A c \in Computers : []<>(link[c].at = "polling")

(* Every sender is told something, even if its client would wait for ever.  *)
EverySenderIsTold ==
    \A l \in Letters : (ask[l].at = "called") ~> (told[l] # "")

=============================================================================
