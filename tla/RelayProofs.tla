---------------------------- MODULE RelayProofs -----------------------------
(***************************************************************************)
(* Theorems about Relay, for any number of computers, accounts and letters,*)
(* whatever numbers the senders choose.                                    *)
(*                                                                         *)
(*   TypeCorrect    the type invariant; with it WhyInv, that a task which  *)
(*                  forgets its slot knows what to tell the sender         *)
(*   WaitersListed  who waits is in the list: inductive with the types     *)
(*   InAccount      OneAccount, that all that is about one mailbox is of   *)
(*                  one account, and SlotInv and GotInv, that a slot of    *)
(*                  the present try carries the account of its task        *)
(*   PromiseKept    Relay implements LetterPromise, by PromiseInv: where a *)
(*                  letter has been asked, nobody has denied it            *)
(*                                                                         *)
(* The steps are taken in three groups: Around the mailboxes, Answering    *)
(* (the link threads), and Asking (the letters), whose effect on a task is *)
(* one of the moves of the relation Move.                                  *)
(***************************************************************************)
EXTENDS Relay, SequenceTheorems, FiniteSetTheorems, TLAPS

(* An element of a sequence without its i-th was there before, one place    *)
(* further on from the i-th.                                                *)
LEMMA RemoveAtShifts ==
    ASSUME NEW S, NEW s \in Seq(S), NEW i \in DOMAIN s
    PROVE  /\ RemoveAt(s, i) \in Seq(S)
           /\ Len(RemoveAt(s, i)) = Len(s) - 1
           /\ \A j \in 1..(Len(s) - 1) :
                  RemoveAt(s, i)[j] = IF j < i THEN s[j] ELSE s[j + 1]
  <1> DEFINE front == SubSeq(s, 1, i - 1)
             back == SubSeq(s, i + 1, Len(s))
  <1>1. i \in 1..Len(s) /\ Len(s) \in Nat /\ \A j \in 1..Len(s) : s[j] \in S
    OBVIOUS
  <1>2. /\ front \in Seq(S) /\ Len(front) = i - 1
        /\ \A j \in 1..(i - 1) : front[j] = s[j]
    <2>1. \A j \in 1..(i - 1) : s[j] \in S
      BY <1>1
    <2>2. /\ front \in Seq(S) 
          /\ Len(front) = IF 1 <= i - 1 THEN (i - 1) - 1 + 1 ELSE 0
          /\ \A j \in 1..((i - 1) - 1 + 1) : front[j] = s[1 + j - 1]
      <3> HIDE DEF front
      <3> QED
        BY <1>1, <2>1, SubSeqProperties DEF front
    <2> QED
      BY <1>1, <2>2
  <1>3. /\ back \in Seq(S) /\ Len(back) = Len(s) - i
        /\ \A j \in 1..(Len(s) - i) : back[j] = s[i + j]
    <2>1. \A j \in (i + 1)..Len(s) : s[j] \in S
      BY <1>1
    <2>2. /\ back \in Seq(S)
          /\ Len(back) = IF i + 1 <= Len(s) THEN Len(s) - (i + 1) + 1 ELSE 0
          /\ \A j \in 1..(Len(s) - (i + 1) + 1) : back[j] = s[i + 1 + j - 1]
      BY <1>1, <2>1, SubSeqProperties
    <2> QED
      BY <1>1, <2>2
  <1>4. RemoveAt(s, i) = front \o back
    BY DEF RemoveAt
  <1> HIDE DEF front, back
  <1>5. /\ front \o back \in Seq(S)
        /\ Len(front \o back) = Len(front) + Len(back)
        /\ \A j \in 1..(Len(front) + Len(back)) :
               (front \o back)[j] = IF j <= Len(front) THEN front[j]
                                    ELSE back[j - Len(front)]
    BY <1>2, <1>3, ConcatProperties
  <1>6. ASSUME NEW j \in 1..(Len(s) - 1)
        PROVE  (front \o back)[j] = IF j < i THEN s[j] ELSE s[j + 1]
    <2>1. Len(front) + Len(back) = Len(s) - 1
      BY <1>1, <1>2, <1>3
    <2>2. (front \o back)[j] = IF j <= i - 1 THEN front[j] ELSE back[j - (i - 1)]
      BY <1>2, <1>5, <2>1
    <2>3. CASE j < i
      <3>1. j \in 1..(i - 1)
        BY <1>1, <2>3
      <3> QED
        BY <1>1, <1>2, <2>2, <2>3, <3>1
    <2>4. CASE ~(j < i)
      <3>1. j - (i - 1) \in 1..(Len(s) - i) /\ i + (j - (i - 1)) = j + 1
        BY <1>1, <2>4
      <3>2. back[j - (i - 1)] = s[j + 1]
        BY <1>3, <3>1
      <3> QED
        BY <1>1, <2>2, <2>4, <3>2
    <2> QED
      BY <2>3, <2>4
  <1>7. Len(front \o back) = Len(s) - 1
    BY <1>1, <1>2, <1>3, <1>5
  <1> QED
    BY <1>4, <1>5, <1>6, <1>7

-----------------------------------------------------------------------------
(* The type invariant, in parts.                                            *)
DevicesOK == devices \in [Computers -> Entry \cup {None}]

MailOK ==
    /\ boxes \in [Computers -> [Boxes -> Seq(Envelope)]]
    /\ \A c \in Computers, b \in Boxes : Len(boxes[c][b]) <= Inbox

(* At most one poll of a queue is live.                                     *)
OneLive(q) == \A i, j \in DOMAIN q : q[i].live /\ q[j].live => i = j

PollsOK ==
    /\ polls \in [Computers -> Seq(Poll)]
    /\ \A c \in Computers : OneLive(polls[c])
    /\ \A c \in Computers : \A i \in DOMAIN polls[c] :
           polls[c][i].live => link[c].at = "polling"

WaitingOK ==
    /\ DOMAIN waiting \subseteq Keys
    /\ \A k \in DOMAIN waiting : waiting[k] \in Slot

TasksOK ==
    /\ ask \in [Letters -> Task]
    /\ \A l \in Letters : ask[l].at = "found" => ask[l].box # 0

LinkType == [at : LinkStates, env : Envelope \cup {None}, box : Boxes \cup {0}]

LinkOK ==
    /\ link \in [Computers -> LinkType]
    /\ \A c \in Computers :
           /\ link[c].env = None <=> link[c].at \in {"idle", "polling"}
           /\ link[c].at = "found" => link[c].box # 0

RestOK ==
    /\ told \in [Letters -> Words \cup {""}]
    /\ handled \subseteq Letters \X Tries
    /\ account \in [Computers -> Accounts]

LEMMA Parts ==
    TypeOK <=> /\ DevicesOK /\ MailOK /\ PollsOK /\ WaitingOK
               /\ TasksOK /\ LinkOK /\ RestOK
  <1>1. PollsOK <=> /\ polls \in [Computers -> Seq(Poll)]
                    /\ \A c \in Computers : \A i \in DOMAIN polls[c] :
                          polls[c][i].live =>
                              /\ link[c].at = "polling"
                              /\ \A j \in DOMAIN polls[c] : polls[c][j].live => i = j
    BY DEF PollsOK, OneLive
  <1> QED
    BY <1>1 DEF TypeOK, DevicesOK, MailOK, WaitingOK, TasksOK, LinkOK, LinkType, RestOK

LEMMA TypeInit == Init => TypeOK
  <1> SUFFICES ASSUME Init PROVE TypeOK
    OBVIOUS
  <1>1. (CHOOSE a \in Accounts : TRUE) \in Accounts
    BY BoundsAssumption
  <1>2. NoAsk \in Task /\ NoAsk.at = "idle"
    BY <1>1 DEF NoAsk, Task, AskStates, Tries
  <1>3. At("idle") \in LinkType /\ At("idle").env = None /\ At("idle").at = "idle"
    BY DEF At, LinkType, LinkStates
  <1>0. DOMAIN <<>> = {} /\ Len(<<>>) = 0
    OBVIOUS
  <1>4. DevicesOK /\ WaitingOK
    BY <1>0 DEF Init, DevicesOK, WaitingOK
  <1>7. PollsOK
    <2>1. <<>> \in Seq(Poll)
      OBVIOUS
    <2> QED
      BY <1>0, <2>1 DEF Init, PollsOK, OneLive
  <1>5. MailOK
    <2>1. <<>> \in Seq(Envelope) /\ 0 <= Inbox
      BY BoundsAssumption
    <2>2. \A c \in Computers : boxes[c] = [b \in Boxes |-> <<>>]
      BY DEF Init
    <2>3. \A c \in Computers, b \in Boxes : boxes[c][b] = <<>>
      BY <2>2
    <2>4. boxes \in [Computers -> [Boxes -> Seq(Envelope)]]
      BY <2>1 DEF Init
    <2> QED
      BY <1>0, <2>1, <2>3, <2>4 DEF MailOK
  <1>6. TasksOK /\ LinkOK /\ RestOK
    BY <1>1, <1>2, <1>3 DEF Init, TasksOK, LinkOK, RestOK, Words
  <1> QED
    BY <1>4, <1>5, <1>6, <1>7, Parts

-----------------------------------------------------------------------------
(* What the steps on the table of devices and on the mailboxes do.  In      *)
(* every mailbox is only what was in it before.                             *)
Shrinks ==
    /\ MailOK'
    /\ \A c \in Computers, b \in Boxes : \A j \in DOMAIN boxes'[c][b] :
          \E i \in DOMAIN boxes[c][b] : boxes'[c][b][j] = boxes[c][b][i]

LEMMA KeepsShrinks ==
    ASSUME NEW mail \in [Computers -> [Boxes -> Seq(Envelope)]], MailOK, Keeps(mail),
           \A c \in Computers, b \in Boxes :
              /\ Len(mail[c][b]) <= Inbox
              /\ \A j \in DOMAIN mail[c][b] :
                    \E i \in DOMAIN boxes[c][b] : mail[c][b][j] = boxes[c][b][i]
    PROVE  Shrinks
  <1>1. \A c \in Computers, b \in Boxes : boxes'[c][b] = mail[c][b] \/ boxes'[c][b] = <<>>
    BY DEF Keeps
  <1>2. boxes' \in [Computers -> [Boxes -> Seq(Envelope)]]
    BY DEF Keeps
  <1>3. MailOK'
    BY <1>1, <1>2, BoundsAssumption DEF MailOK
  <1>4. \A c \in Computers, b \in Boxes : \A j \in DOMAIN boxes'[c][b] :
          \E i \in DOMAIN boxes[c][b] : boxes'[c][b][j] = boxes[c][b][i]
    <2> TAKE c \in Computers, b \in Boxes
    <2>1. DOMAIN <<>> = {}
      OBVIOUS
    <2>2. CASE boxes'[c][b] = <<>>
      BY <2>1, <2>2
    <2>3. CASE boxes'[c][b] = mail[c][b]
      BY <2>3
    <2> QED
      BY <1>1, <2>2, <2>3
  <1> QED
    BY <1>3, <1>4 DEF Shrinks

LEMMA KeepsAll ==
    ASSUME MailOK, Keeps(boxes)
    PROVE  Shrinks
  BY KeepsShrinks DEF MailOK

LEMMA SweptFacts ==
    ASSUME DevicesOK
    PROVE  /\ Swept \in [Computers -> Entry \cup {None}]
           /\ \A c \in Computers : Swept[c] = None \/ Swept[c] = devices[c]
  BY DEF DevicesOK, Swept

(* The mailbox of a poll that is let in: that of the entry, or a new one.   *)
LEMMA EnterFacts ==
    ASSUME NEW c \in Computers, TypeOK, Enter(c)
    PROVE  \E b \in Boxes :
              /\ Joins(c, b)
              /\ \/ Swept[c] # None /\ Swept[c].box = b /\ Swept[c].account = account[c]
                    /\ Keeps(boxes)
                 \/ Unused(c, b) /\ Keeps([boxes EXCEPT ![c][b] = <<>>])
  <1>1. CASE Swept[c] = None
    <2> DEFINE b == CHOOSE n \in Boxes : Unused(c, n)
    <2>1. b \in Boxes /\ Unused(c, b)
      BY <1>1 DEF Enter
    <2>2. Joins(c, b) /\ Keeps([boxes EXCEPT ![c][b] = <<>>])
      BY <1>1 DEF Enter
    <2> HIDE DEF b
    <2> QED
      BY <2>1, <2>2
  <1>2. CASE Swept[c] # None
    <2>1. Swept[c] \in Entry
      BY <1>2, SweptFacts, Parts
    <2>2. Swept[c].box \in Boxes
      BY <2>1 DEF Entry
    <2> QED
      BY <1>2, <2>2 DEF Enter, Taken
  <1> QED
    BY <1>1, <1>2

LEMMA PollShrinks ==
    ASSUME TypeOK,
           \/ Peers
           \/ \E c \in Computers :
                 \/ Enter(c) \/ Refused(c)
                 \/ \E i \in 1..MaxPolls[c] :
                       PollTakes(c, i) \/ PollEmpty(c, i) \/ PollDropped(c, i)
    PROVE  Shrinks
  <1>0. MailOK
    BY Parts
  <1>1. CASE Keeps(boxes)
    BY <1>0, <1>1, KeepsAll
  <1>2. ASSUME NEW c \in Computers, Enter(c) PROVE Shrinks
    <2>1. PICK b \in Boxes : Keeps(boxes) \/ Keeps([boxes EXCEPT ![c][b] = <<>>])
      BY <1>2, EnterFacts
    <2> DEFINE mail == [boxes EXCEPT ![c][b] = <<>>]
    <2>2. mail \in [Computers -> [Boxes -> Seq(Envelope)]]
          /\ \A d \in Computers, n \in Boxes : mail[d][n] = boxes[d][n] \/ mail[d][n] = <<>>
      BY <1>0 DEF MailOK
    <2> HIDE DEF mail
    <2>3. \A d \in Computers, n \in Boxes :
              /\ Len(mail[d][n]) <= Inbox
              /\ \A j \in DOMAIN mail[d][n] :
                    \E i \in DOMAIN boxes[d][n] : mail[d][n][j] = boxes[d][n][i]
      BY <1>0, <2>2, BoundsAssumption DEF MailOK
    <2>4. CASE Keeps(mail)
      BY <1>0, <2>2, <2>3, <2>4, KeepsShrinks
    <2> QED
      BY <1>1, <2>1, <2>4 DEF mail
  <1>3. ASSUME NEW c \in Computers, NEW i \in 1..MaxPolls[c], PollTakes(c, i) PROVE Shrinks
    <2> DEFINE b == polls[c][i].box
               mail == [boxes EXCEPT ![c][b] = Tail(boxes[c][b])]
    <2>1. b \in Boxes /\ boxes[c][b] # <<>>
      <3>1. i \in DOMAIN polls[c] /\ polls[c] \in Seq(Poll)
        BY <1>3, Parts DEF PollTakes, Receives, PollsOK
      <3>2. polls[c][i] \in Poll
        BY <3>1
      <3> QED
        BY <1>3, <3>2 DEF PollTakes, Poll
    <2>2. Keeps(mail)
      BY <1>3 DEF PollTakes
    <2> HIDE DEF b
    <2>3. boxes[c][b] \in Seq(Envelope) /\ Len(boxes[c][b]) <= Inbox
          /\ boxes \in [Computers -> [Boxes -> Seq(Envelope)]]
      BY <1>0, <2>1 DEF MailOK
    <2>4. /\ Tail(boxes[c][b]) \in Seq(Envelope)
          /\ Len(Tail(boxes[c][b])) = Len(boxes[c][b]) - 1
          /\ \A j \in 1..(Len(boxes[c][b]) - 1) : Tail(boxes[c][b])[j] = boxes[c][b][j + 1]
      BY <2>1, <2>3, HeadTailProperties
    <2>5. /\ Len(Tail(boxes[c][b])) <= Inbox
          /\ \A j \in DOMAIN Tail(boxes[c][b]) :
                \E k \in DOMAIN boxes[c][b] : Tail(boxes[c][b])[j] = boxes[c][b][k]
      <3>1. \A j \in 1..(Len(boxes[c][b]) - 1) : j + 1 \in DOMAIN boxes[c][b]
        BY <2>3
      <3> QED
        BY <2>3, <2>4, <3>1, BoundsAssumption
    <2>6. mail \in [Computers -> [Boxes -> Seq(Envelope)]]
          /\ \A d \in Computers, n \in Boxes :
                mail[d][n] = IF d = c /\ n = b THEN Tail(boxes[c][b]) ELSE boxes[d][n]
      BY <2>1, <2>3, <2>4
    <2> HIDE DEF mail
    <2>7. \A d \in Computers, n \in Boxes :
              /\ Len(mail[d][n]) <= Inbox
              /\ \A j \in DOMAIN mail[d][n] :
                    \E k \in DOMAIN boxes[d][n] : mail[d][n][j] = boxes[d][n][k]
      <3> TAKE d \in Computers, n \in Boxes
      <3>1. CASE d = c /\ n = b
        <4>1. mail[d][n] = Tail(boxes[c][b]) /\ boxes[d][n] = boxes[c][b]
          BY <2>6, <3>1
        <4> QED
          BY <2>5, <4>1
      <3>2. CASE ~(d = c /\ n = b)
        BY <1>0, <2>6, <3>2 DEF MailOK
      <3> QED
        BY <3>1, <3>2
    <2> QED
      BY <1>0, <2>2, <2>6, <2>7, KeepsShrinks
  <1> QED
    BY <1>1, <1>2, <1>3 DEF Peers, Refused, PollEmpty, PollDropped

-----------------------------------------------------------------------------
(* The steps, by what they work on.                                         *)
Around ==
    \/ Peers
    \/ \E c \in Computers :
          \/ Enter(c) \/ Refused(c) \/ Ages(c) \/ LinkGivesUp(c)
          \/ \E i \in 1..MaxPolls[c] :
                PollTakes(c, i) \/ PollEmpty(c, i) \/ PollDropped(c, i)

Answering(c) ==
    \/ HandleEnvelope(c) \/ AnswerSent(c) \/ AnswerRouted(c) \/ AnswerPut(c)
    \/ AnswerLost(c)

Asking(l) == Call(l) \/ ServerStep(l) \/ GiveUp(l) \/ AskDropped(l)

LEMMA NextCases ==
    ASSUME [Next]_vars
    PROVE  \/ Around
           \/ \E c \in Computers : Answering(c) \/ Login(c)
           \/ \E l \in Letters : Asking(l)
           \/ Restart \/ UNCHANGED vars
  BY DEF Next, Around, Answering, Asking, PollStep, LinkStep

LEMMA AroundFrame ==
    ASSUME Around
    PROVE  UNCHANGED <<waiting, ask, told, handled, boundVars>>
  BY DEF Around, Peers, Enter, Refused, Ages, LinkGivesUp, PollTakes,
         PollEmpty, PollDropped

LEMMA AnsweringFrame ==
    ASSUME NEW c, Answering(c)
    PROVE  UNCHANGED <<devices, polls, told, boundVars>>
  BY DEF Answering, HandleEnvelope, AnswerSent, AnswerRouted, AnswerPut,
         AnswerLost, serverVars

LEMMA AskingFrame ==
    ASSUME NEW l, Asking(l)
    PROVE  UNCHANGED <<devices, polls, link, handled, boundVars>>
  BY DEF Asking, Call, ServerStep, GiveUp, AskDropped, AskSlotted, AskBusy,
         AskSent, AskRouted, AskPut, AskTimesOut, Forget, AskAnswered, serverVars

(* A task that is to forget its slot knows what to tell the sender.         *)
Reasons == {"offline", "busy", "noanswer"}
WhyInv == \A l \in Letters : ask[l].at = "forgetting" => ask[l].why \in Reasons

LEMMA DevicesStep ==
    ASSUME TypeOK, [Next]_vars
    PROVE  DevicesOK'
  <1>0. DevicesOK /\ Swept \in [Computers -> Entry \cup {None}]
        /\ account \in [Computers -> Accounts]
    BY Parts, SweptFacts DEF RestOK
  <1>1. ASSUME devices' = devices \/ devices' = Swept PROVE DevicesOK'
    BY <1>0, <1>1 DEF DevicesOK
  <1>2. ASSUME NEW c \in Computers, Enter(c) PROVE DevicesOK'
    <2>1. PICK b \in Boxes : Joins(c, b)
      BY <1>2, EnterFacts
    <2>2. [box |-> b, fresh |-> TRUE, account |-> account[c]] \in Entry
      BY <1>0 DEF Entry
    <2> QED
      BY <1>0, <2>1, <2>2 DEF Joins, DevicesOK
  <1>3. ASSUME NEW c \in Computers, Ages(c) PROVE DevicesOK'
    <2>1. devices[c] \in Entry /\ devices' = [devices EXCEPT ![c].fresh = FALSE]
      BY <1>0, <1>3 DEF Ages, DevicesOK
    <2>2. [devices[c] EXCEPT !.fresh = FALSE] \in Entry
      BY <2>1 DEF Entry
    <2> QED
      BY <1>0, <2>1, <2>2 DEF DevicesOK
  <1>4. CASE Restart
    BY <1>4 DEF Restart, DevicesOK
  <1>5. CASE Around
    BY <1>1, <1>2, <1>3, <1>5 DEF Around, Peers, Refused, LinkGivesUp, PollTakes,
                                PollEmpty, PollDropped
  <1>6. CASE devices' = devices
    BY <1>1, <1>6
  <1> QED
    BY <1>4, <1>5, <1>6, NextCases, AnsweringFrame, AskingFrame
       DEF vars, serverVars, Login

(* What lies in a mailbox after an envelope was put into one.               *)
LEMMA PutFacts ==
    ASSUME NEW e \in Envelope, NEW n \in Boxes, Put(e, n), MailOK
    PROVE  /\ MailOK'
           /\ \A c \in Computers, b \in Boxes : \A j \in DOMAIN boxes'[c][b] :
                 \/ \E i \in DOMAIN boxes[c][b] : boxes'[c][b][j] = boxes[c][b][i]
                 \/ /\ c = Addressee(e) /\ b = n /\ boxes'[c][b][j] = e
                    /\ Accepts(Addressee(e), n)
  <1> DEFINE d == Addressee(e)
  <1>1. d \in Computers
    BY LettersAssumption DEF Addressee, Envelope
  <1> HIDE DEF d
  <1>2. boxes \in [Computers -> [Boxes -> Seq(Envelope)]]
    BY DEF MailOK
  <1>3. CASE ~Accepts(d, n)
    <2>1. boxes' = boxes
      BY <1>3 DEF Put, d
    <2> QED
      BY <2>1 DEF MailOK
  <1>4. CASE Accepts(d, n)
    <2> DEFINE q == boxes[d][n]
    <2>1. boxes' = [boxes EXCEPT ![d][n] = Append(q, e)]
      BY <1>4 DEF Put, d
    <2>2. q \in Seq(Envelope) /\ Len(q) \in Nat /\ Len(q) < Inbox
      BY <1>1, <1>2, <1>4 DEF Accepts
    <2> HIDE DEF q
    <2>3. /\ Append(q, e) \in Seq(Envelope) /\ Len(Append(q, e)) <= Inbox
          /\ DOMAIN q = 1..Len(q) /\ DOMAIN Append(q, e) = 1..(Len(q) + 1)
          /\ \A j \in 1..Len(q) : Append(q, e)[j] = q[j]
          /\ Append(q, e)[Len(q) + 1] = e
      BY <2>2, BoundsAssumption
    <2>4. \A j \in DOMAIN Append(q, e) :
             Append(q, e)[j] = e \/ \E i \in DOMAIN q : Append(q, e)[j] = q[i]
      <3>1. \A j \in 1..(Len(q) + 1) : j = Len(q) + 1 \/ j \in 1..Len(q)
        BY <2>2
      <3> QED
        BY <2>3, <3>1
    <2>5. boxes' \in [Computers -> [Boxes -> Seq(Envelope)]]
          /\ \A c \in Computers, b \in Boxes :
                boxes'[c][b] = IF c = d /\ b = n THEN Append(q, e) ELSE boxes[c][b]
      BY <1>1, <1>2, <2>1, <2>3
    <2>6. MailOK'
      BY <2>3, <2>5 DEF MailOK
    <2>7. ASSUME NEW c \in Computers, NEW b \in Boxes, NEW j \in DOMAIN boxes'[c][b]
          PROVE  \/ \E i \in DOMAIN boxes[c][b] : boxes'[c][b][j] = boxes[c][b][i]
                 \/ c = d /\ b = n /\ boxes'[c][b][j] = e
      <3>1. CASE c = d /\ b = n
        <4>1. boxes'[c][b] = Append(q, e) /\ boxes[c][b] = q
          BY <2>5, <3>1 DEF q
        <4> QED
          BY <2>4, <3>1, <4>1
      <3>2. CASE ~(c = d /\ b = n)
        BY <2>5, <3>2
      <3> QED
        BY <3>1, <3>2
    <2> QED
      BY <1>4, <2>6, <2>7 DEF d
  <1> QED
    BY <1>3, <1>4

LEMMA QuestionIs ==
    ASSUME TypeOK, NEW l \in Letters
    PROVE  /\ Question(l) \in Envelope /\ Question(l).kind = "question"
           /\ Question(l).letter = l /\ Question(l).try = ask[l].try
           /\ Question(l).account = ask[l].account
           /\ Addressee(Question(l)) = To[l] /\ Sender(Question(l)) = From[l]
           /\ KeyFor(Question(l)) = <<To[l], Number[l][ask[l].try]>>
           /\ KeyOf(l) \in Keys /\ From[l] # To[l]
  <1>1. ask[l].try \in Tries /\ ask[l].account \in Accounts
    BY Parts DEF TasksOK, Task
  <1> QED
    BY <1>1, LettersAssumption
       DEF Question, Envelope, Addressee, Sender, KeyFor, KeyOf, Keys

LEMMA MailStep ==
    ASSUME TypeOK, [Next]_vars
    PROVE  MailOK'
  <1>0. MailOK /\ TasksOK /\ LinkOK
    BY Parts
  <1>1. CASE boxes' = boxes
    BY <1>0, <1>1 DEF MailOK
  <1>2. CASE Around
    BY <1>1, <1>2, PollShrinks DEF Around, Shrinks, Ages, LinkGivesUp
  <1>3. ASSUME NEW c \in Computers, Answering(c) PROVE MailOK'
    <2>1. CASE AnswerPut(c)
      <3>1. link[c].env \in Envelope /\ link[c].box \in Boxes
        BY <1>0, <2>1 DEF AnswerPut, LinkOK, LinkType
      <3> QED
        BY <1>0, <2>1, <3>1, PutFacts DEF AnswerPut
    <2> QED
      BY <1>1, <1>3, <2>1 DEF Answering, HandleEnvelope, AnswerSent, AnswerRouted,
                              AnswerLost, serverVars
  <1>4. ASSUME NEW l \in Letters, Asking(l) PROVE MailOK'
    <2>1. CASE AskPut(l)
      <3>1. Question(l) \in Envelope /\ ask[l].box \in Boxes
        BY <1>0, <2>1, QuestionIs DEF AskPut, TasksOK, Task
      <3> QED
        BY <1>0, <2>1, <3>1, PutFacts DEF AskPut
    <2> QED
      BY <1>1, <1>4, <2>1
         DEF Asking, Call, ServerStep, GiveUp, AskDropped, AskSlotted, AskBusy,
             AskSent, AskRouted, AskTimesOut, Forget, AskAnswered, serverVars
  <1>5. CASE Restart
    <2>1. <<>> \in Seq(Envelope) /\ Len(<<>>) <= Inbox
      BY BoundsAssumption
    <2>2. boxes' = [c \in Computers |-> [b \in Boxes |-> <<>>]]
      BY <1>5 DEF Restart
    <2>3. boxes' \in [Computers -> [Boxes -> Seq(Envelope)]]
      BY <2>1, <2>2
    <2>4. \A c \in Computers, b \in Boxes : boxes'[c][b] = <<>>
      BY <2>2
    <2> QED
      BY <2>1, <2>3, <2>4 DEF MailOK
  <1> QED
    BY <1>1, <1>2, <1>3, <1>4, <1>5, NextCases DEF vars, serverVars, Login

(* A poll leaves the queue.                                                 *)
LEMMA LeavesQueue ==
    ASSUME NEW q \in Seq(Poll), NEW i \in DOMAIN q, OneLive(q)
    PROVE  /\ RemoveAt(q, i) \in Seq(Poll) /\ OneLive(RemoveAt(q, i))
           /\ \A j \in DOMAIN RemoveAt(q, i) : \E k \in DOMAIN q : RemoveAt(q, i)[j] = q[k]
           /\ q[i].live => \A j \in DOMAIN RemoveAt(q, i) : ~RemoveAt(q, i)[j].live
  <1> DEFINE r == RemoveAt(q, i)
  <1>1. /\ r \in Seq(Poll) /\ Len(r) = Len(q) - 1
        /\ \A j \in 1..(Len(q) - 1) : r[j] = IF j < i THEN q[j] ELSE q[j + 1]
    BY RemoveAtShifts
  <1>2. DOMAIN q = 1..Len(q) /\ Len(q) \in Nat /\ i \in 1..Len(q)
    OBVIOUS
  <1> HIDE DEF r
  <1>3. DOMAIN r = 1..(Len(q) - 1)
    BY <1>1, <1>2
  <1> DEFINE old(j) == IF j < i THEN j ELSE j + 1
  <1>4. \A j \in DOMAIN r : old(j) \in DOMAIN q /\ r[j] = q[old(j)] /\ old(j) # i
    BY <1>1, <1>2, <1>3
  <1>5. \A j, k \in DOMAIN r : old(j) = old(k) => j = k
    BY <1>2, <1>3
  <1> HIDE DEF old
  <1>6. OneLive(r)
    BY <1>4, <1>5 DEF OneLive
  <1>7. q[i].live => \A j \in DOMAIN r : ~r[j].live
    BY <1>4 DEF OneLive
  <1> QED
    BY <1>1, <1>4, <1>6, <1>7 DEF r

LEMMA PollsFrame ==
    ASSUME PollsOK, NEW c \in Computers, NEW q \in Seq(Poll),
           polls' = [polls EXCEPT ![c] = q], OneLive(q),
           \A i \in DOMAIN q : q[i].live => link'[c].at = "polling",
           \A d \in Computers \ {c} : link'[d] = link[d]
    PROVE  PollsOK'
  <1>1. polls' \in [Computers -> Seq(Poll)] /\ polls'[c] = q
        /\ \A d \in Computers \ {c} : polls'[d] = polls[d]
    BY DEF PollsOK
  <1>2. \A d \in Computers : OneLive(polls[d])'
    BY <1>1 DEF PollsOK, OneLive
  <1> QED
    BY <1>1, <1>2 DEF PollsOK

LEMMA PollsStep ==
    ASSUME TypeOK, [Next]_vars
    PROVE  PollsOK'
  <1>0. PollsOK /\ LinkOK /\ RestOK
    BY Parts
  <1>1. ASSUME UNCHANGED <<polls, link>> PROVE PollsOK'
    BY <1>0, <1>1 DEF PollsOK, OneLive
  <1>2. ASSUME NEW c \in Computers, Enter(c) PROVE PollsOK'
    <2>1. PICK b \in Boxes : Joins(c, b)
      BY <1>2, EnterFacts
    <2> DEFINE p == [box |-> b, live |-> TRUE, account |-> account[c]]
               q == Append(polls[c], p)
    <2>2. p \in Poll
      BY <1>0 DEF Poll, RestOK
    <2>3. polls[c] \in Seq(Poll) /\ \A i \in DOMAIN polls[c] : ~polls[c][i].live
      <3>1. link[c].at # "polling"
        BY <1>2 DEF Enter
      <3> QED
        BY <1>0, <3>1 DEF PollsOK
    <2>4. polls' = [polls EXCEPT ![c] = q]
      BY <2>1 DEF Joins
    <2> HIDE DEF p
    <2>5. /\ q \in Seq(Poll) /\ DOMAIN q = 1..(Len(polls[c]) + 1) /\ Len(polls[c]) \in Nat
          /\ DOMAIN polls[c] = 1..Len(polls[c])
          /\ \A i \in 1..Len(polls[c]) : q[i] = polls[c][i]
      BY <2>2, <2>3
    <2> HIDE DEF q
    <2>6. \A i \in DOMAIN q : q[i].live => i = Len(polls[c]) + 1
      BY <2>3, <2>5
    <2>7. OneLive(q)
      BY <2>6 DEF OneLive
    <2>8. link'[c].at = "polling" /\ \A d \in Computers \ {c} : link'[d] = link[d]
      BY <1>0, <1>2 DEF Enter, At, LinkOK
    <2> QED
      BY <1>0, <2>4, <2>5, <2>7, <2>8, PollsFrame
  <1>3. ASSUME NEW c \in Computers, NEW i \in DOMAIN polls[c],
               polls' = [polls EXCEPT ![c] = RemoveAt(polls[c], i)],
               polls[c][i].live \/ link' = link,
               \A d \in Computers \ {c} : link'[d] = link[d]
        PROVE  PollsOK'
    <2>1. polls[c] \in Seq(Poll) /\ OneLive(polls[c])
          /\ \A k \in DOMAIN polls[c] : polls[c][k].live => link[c].at = "polling"
      BY <1>0 DEF PollsOK
    <2>2. PICK q : q = RemoveAt(polls[c], i)
      OBVIOUS
    <2>3. /\ q \in Seq(Poll) /\ OneLive(q)
          /\ \A j \in DOMAIN q : \E k \in DOMAIN polls[c] : q[j] = polls[c][k]
          /\ polls[c][i].live => \A j \in DOMAIN q : ~q[j].live
      BY <2>1, <2>2, LeavesQueue
    <2>4. \A j \in DOMAIN q : q[j].live => link'[c].at = "polling"
      BY <1>3, <2>1, <2>3
    <2> QED
      BY <1>0, <1>3, <2>2, <2>3, <2>4, PollsFrame
  <1>4. ASSUME NEW c \in Computers, NEW i, PollTakes(c, i) PROVE PollsOK'
    <2>1. /\ i \in DOMAIN polls[c] /\ polls' = [polls EXCEPT ![c] = RemoveAt(polls[c], i)]
          /\ polls[c][i].live \/ link' = link
      BY <1>4 DEF PollTakes, Receives
    <2>2. \A d \in Computers \ {c} : link'[d] = link[d]
      BY <1>0, <1>4 DEF PollTakes, LinkOK
    <2> QED
      BY <1>3, <2>1, <2>2
  <1>5. ASSUME NEW c \in Computers, NEW i, PollEmpty(c, i) PROVE PollsOK'
    <2>1. /\ i \in DOMAIN polls[c] /\ polls' = [polls EXCEPT ![c] = RemoveAt(polls[c], i)]
          /\ polls[c][i].live \/ link' = link
      BY <1>5 DEF PollEmpty, Receives
    <2>2. \A d \in Computers \ {c} : link'[d] = link[d]
      BY <1>0, <1>5 DEF PollEmpty, LinkOK
    <2> QED
      BY <1>3, <2>1, <2>2
  <1>6. ASSUME NEW c \in Computers, NEW i, PollDropped(c, i) PROVE PollsOK'
    BY <1>3, <1>6 DEF PollDropped
  <1>7. ASSUME NEW c \in Computers, LinkGivesUp(c) PROVE PollsOK'
    <2> DEFINE q == [i \in DOMAIN polls[c] |-> [polls[c][i] EXCEPT !.live = FALSE]]
    <2>1. /\ polls[c] \in Seq(Poll) /\ DOMAIN polls[c] = 1..Len(polls[c])
          /\ Len(polls[c]) \in Nat
      BY <1>0 DEF PollsOK
    <2>2. \A i \in DOMAIN polls[c] :
             /\ [polls[c][i] EXCEPT !.live = FALSE] \in Poll
             /\ ~[polls[c][i] EXCEPT !.live = FALSE].live
      <3>1. \A i \in DOMAIN polls[c] : polls[c][i] \in Poll
        BY <2>1
      <3> QED
        BY <3>1 DEF Poll
    <2>3. q \in [1..Len(polls[c]) -> Poll] /\ \A i \in DOMAIN q : ~q[i].live
      BY <2>1, <2>2
    <2>4. polls' = [polls EXCEPT ![c] = q] /\ \A d \in Computers \ {c} : link'[d] = link[d]
      BY <1>0, <1>7 DEF LinkGivesUp, LinkOK
    <2> HIDE DEF q
    <2>5. q \in Seq(Poll) /\ OneLive(q)
      BY <2>1, <2>3 DEF OneLive
    <2> QED
      BY <1>0, <2>3, <2>4, <2>5, PollsFrame
  <1>8. CASE Around
    BY <1>1, <1>2, <1>4, <1>5, <1>6, <1>7, <1>8 DEF Around, Peers, Refused, Ages
  <1>9. ASSUME NEW c \in Computers, Answering(c) PROVE PollsOK'
    <2>1. link[c].at # "polling" /\ polls' = polls
          /\ \A d \in Computers \ {c} : link'[d] = link[d]
      BY <1>0, <1>9, AnsweringFrame
         DEF Answering, HandleEnvelope, Answers, Ignores, AnswerSent, AnswerRouted,
             AnswerPut, AnswerLost, LinkOK
    <2>2. \A d \in Computers : OneLive(polls[d])'
      BY <1>0, <2>1 DEF PollsOK, OneLive
    <2> QED
      BY <1>0, <2>1, <2>2 DEF PollsOK
  <1>10. CASE Restart
    <2>1. <<>> \in Seq(Poll) /\ DOMAIN <<>> = {}
      OBVIOUS
    <2>2. polls' = [c \in Computers |-> <<>>]
      BY <1>10 DEF Restart
    <2>3. polls' \in [Computers -> Seq(Poll)] /\ \A c \in Computers : DOMAIN polls'[c] = {}
      BY <2>1, <2>2
    <2> QED
      BY <2>3 DEF PollsOK, OneLive
  <1> QED
    BY <1>1, <1>8, <1>9, <1>10, NextCases, AskingFrame DEF vars, serverVars, Login

LEMMA WaitingStep ==
    ASSUME TypeOK, [Next]_vars
    PROVE  WaitingOK'
  <1>0. WaitingOK /\ TasksOK
    BY Parts
  <1>1. ASSUME waiting' = waiting PROVE WaitingOK'
    BY <1>0, <1>1 DEF WaitingOK
  <1>2. ASSUME NEW k, waiting' = Without(k) PROVE WaitingOK'
    BY <1>0, <1>2 DEF WaitingOK, Without
  <1>3. ASSUME NEW l \in Letters, AskSlotted(l) PROVE WaitingOK'
    <2> DEFINE new == [letter |-> l, try |-> ask[l].try, from |-> To[l],
                       account |-> ask[l].account]
    <2>1. waiting' = [k \in DOMAIN waiting \cup {KeyOf(l)} |->
                         IF k = KeyOf(l) THEN new ELSE waiting[k]]
      BY <1>3 DEF AskSlotted
    <2>2. new \in Slot /\ KeyOf(l) \in Keys
      BY <1>0, QuestionIs, LettersAssumption DEF TasksOK, Task, Slot
    <2> HIDE DEF new
    <2> QED
      BY <1>0, <2>1, <2>2 DEF WaitingOK
  <1>4. ASSUME NEW c \in Computers, Answering(c) PROVE WaitingOK'
    BY <1>1, <1>2, <1>4 DEF Answering, HandleEnvelope, AnswerSent, AnswerRouted,
                            AnswerPut, AnswerLost, serverVars
  <1>5. ASSUME NEW l \in Letters, Asking(l) PROVE WaitingOK'
    BY <1>1, <1>2, <1>3, <1>5
       DEF Asking, Call, ServerStep, GiveUp, AskDropped, AskBusy, AskSent, AskRouted,
           AskPut, AskTimesOut, Forget, AskAnswered, serverVars
  <1>6. CASE Restart
    <2>1. DOMAIN <<>> = {}
      OBVIOUS
    <2>2. waiting' = <<>>
      BY <1>6 DEF Restart
    <2> QED
      BY <2>1, <2>2 DEF WaitingOK
  <1> QED
    BY <1>1, <1>4, <1>5, <1>6, NextCases, AroundFrame DEF vars, serverVars, Login

LEMMA LinkKept ==
    ASSUME TypeOK, [Next]_vars
    PROVE  LinkOK'
  <1>0. LinkOK /\ MailOK /\ PollsOK /\ DevicesOK /\ RestOK
    BY Parts
  <1>1. ASSUME link' = link PROVE LinkOK'
    BY <1>0, <1>1 DEF LinkOK
  <1>2. ASSUME NEW c \in Computers, NEW r \in LinkType, link' = [link EXCEPT ![c] = r],
               r.env = None <=> r.at \in {"idle", "polling"},
               r.at = "found" => r.box # 0
        PROVE  LinkOK'
    BY <1>0, <1>2 DEF LinkOK
  <1>3. At("idle") \in LinkType /\ At("idle").env = None /\ At("idle").at = "idle"
        /\ At("polling") \in LinkType /\ At("polling").env = None
        /\ At("polling").at = "polling"
    BY DEF At, LinkType, LinkStates
  <1>4. ASSUME NEW c \in Computers, link' = [link EXCEPT ![c] = At("idle")] PROVE LinkOK'
    BY <1>2, <1>3, <1>4
  <1>5. ASSUME NEW c \in Computers, NEW i, PollTakes(c, i) PROVE LinkOK'
    <2> DEFINE b == polls[c][i].box
               e == Head(boxes[c][b])
               r == [at |-> "got", env |-> e, box |-> 0]
    <2>1. e \in Envelope
      <3>1. polls[c] \in Seq(Poll) /\ i \in DOMAIN polls[c]
        BY <1>0, <1>5 DEF PollTakes, Receives, PollsOK
      <3>2. b \in Boxes
        <4>1. polls[c][i] \in Poll
          BY <3>1
        <4> QED
          BY <4>1 DEF Poll
      <3>3. boxes[c][b] \in Seq(Envelope) /\ boxes[c][b] # <<>>
        BY <1>0, <1>5, <3>2 DEF PollTakes, MailOK
      <3> HIDE DEF b
      <3> QED
        BY <3>3
    <2>2. \/ link' = link \/ link' = [link EXCEPT ![c] = At("idle")]
          \/ link' = [link EXCEPT ![c] = r]
      BY <1>5 DEF PollTakes
    <2> HIDE DEF e
    <2>3. r \in LinkType /\ r.env # None /\ r.at = "got"
      BY <2>1, NoneAssumption DEF LinkType, LinkStates
    <2> HIDE DEF r
    <2> QED
      BY <1>1, <1>2, <1>4, <2>2, <2>3
  <1>6. CASE Around
    <2>1. ASSUME NEW c \in Computers, Enter(c) PROVE LinkOK'
      BY <1>2, <1>3, <2>1 DEF Enter
    <2> QED
      BY <1>1, <1>4, <1>5, <1>6, <2>1
         DEF Around, Peers, Refused, Ages, LinkGivesUp, PollEmpty, PollDropped
  <1>7. ASSUME NEW c \in Computers, Answering(c) PROVE LinkOK'
    <2>1. link[c] \in LinkType
      BY <1>0 DEF LinkOK
    <2>2. CASE HandleEnvelope(c)
      <3> DEFINE e == link[c].env
                 a == [e EXCEPT !.kind = "answer", !.account = account[c]]
                 r == [at |-> "sending", box |-> 0, env |-> a]
      <3>1. e \in Envelope
        BY <1>0, <2>1, <2>2 DEF HandleEnvelope, LinkOK, LinkType
      <3>2. link' = [link EXCEPT ![c] = At("idle")] \/ link' = [link EXCEPT ![c] = r]
        BY <2>2 DEF HandleEnvelope, Answers, Ignores
      <3> HIDE DEF e
      <3>3. a \in Envelope
        BY <1>0, <3>1 DEF Envelope, RestOK
      <3> HIDE DEF a
      <3>4. r \in LinkType /\ r.env # None /\ r.at = "sending"
        BY <3>3, NoneAssumption DEF LinkType, LinkStates
      <3> HIDE DEF r
      <3> QED
        BY <1>2, <1>4, <3>2, <3>4
    <2>3. CASE AnswerSent(c)
      <3> DEFINE r == [link[c] EXCEPT !.at = "routed"]
      <3>1. link' = [link EXCEPT ![c] = At("idle")] \/ link' = [link EXCEPT ![c] = r]
        BY <2>3 DEF AnswerSent
      <3>2. r \in LinkType /\ r.env # None /\ r.at = "routed"
        BY <1>0, <2>1, <2>3 DEF AnswerSent, LinkType, LinkStates, LinkOK
      <3> HIDE DEF r
      <3> QED
        BY <1>2, <1>4, <3>1, <3>2
    <2>4. CASE AnswerRouted(c)
      <3> DEFINE e == link[c].env
                 b == devices[Addressee(e)].box
                 r == [at |-> "found", env |-> e, box |-> b]
      <3>1. e \in Envelope
        BY <1>0, <2>1, <2>4 DEF AnswerRouted, LinkOK, LinkType
      <3>2. \/ link' = [link EXCEPT ![c] = At("idle")]
            \/ link' = [link EXCEPT ![c] = r] /\ Reachable(e)
        BY <2>4 DEF AnswerRouted
      <3> HIDE DEF e
      <3>3. Addressee(e) \in Computers
        BY <3>1, LettersAssumption DEF Addressee, Envelope
      <3>4. Reachable(e) => b \in Boxes
        BY <1>0, <3>3 DEF Reachable, DevicesOK, Entry
      <3> HIDE DEF b
      <3>5. Reachable(e) => r \in LinkType /\ r.env # None /\ r.at = "found" /\ r.box # 0
        BY <3>1, <3>4, NoneAssumption DEF LinkType, LinkStates, Boxes
      <3> HIDE DEF r
      <3> QED
        BY <1>2, <1>4, <3>2, <3>5
    <2>5. CASE AnswerPut(c) \/ AnswerLost(c)
      BY <1>4, <2>5 DEF AnswerPut, AnswerLost
    <2> QED
      BY <1>7, <2>2, <2>3, <2>4, <2>5 DEF Answering
  <1>8. CASE Restart
    <2>1. \A c \in Computers : link'[c] = At("idle") \/ link'[c] = link[c]
      BY <1>8 DEF Restart
    <2>2. link' \in [Computers -> LinkType]
      BY <1>0, <1>3, <1>8, <2>1 DEF Restart, LinkOK
    <2> QED
      BY <1>0, <1>3, <2>1, <2>2 DEF LinkOK
  <1> QED
    BY <1>1, <1>6, <1>7, <1>8, NextCases, AskingFrame DEF vars, Login

LEMMA NoAskIs ==
    /\ NoAsk \in Task /\ Over \in Task
    /\ NoAsk.at = "idle" /\ Over.at = "over"
    /\ NoAsk.got = None /\ Over.got = None
    /\ \A a \in Accounts :
          LET t == [NoAsk EXCEPT !.at = "called", !.try = 2, !.account = a] IN
          t \in Task /\ t.at = "called" /\ t.try = 2 /\ t.got = None
          /\ t.account = a
  <1> DEFINE first == CHOOSE a \in Accounts : TRUE
  <1>1. first \in Accounts
    BY BoundsAssumption
  <1>2. NoAsk = [at |-> "idle", try |-> 1, account |-> first, box |-> 0,
                 got |-> None, why |-> None]
    BY DEF NoAsk
  <1> HIDE DEF first
  <1>3. NoAsk \in Task /\ NoAsk.at = "idle" /\ NoAsk.got = None
    BY <1>1, <1>2 DEF Task, AskStates, Tries
  <1>4. Over \in Task /\ Over.at = "over" /\ Over.got = None
    BY <1>1, <1>2 DEF Over, Task, AskStates, Tries
  <1>5. ASSUME NEW a \in Accounts,
               NEW t, t = [NoAsk EXCEPT !.at = "called", !.try = 2, !.account = a]
        PROVE  t \in Task /\ t.at = "called" /\ t.try = 2 /\ t.got = None
               /\ t.account = a
    <2>1. t = [at |-> "called", try |-> 2, account |-> a, box |-> 0, got |-> None,
               why |-> None]
      BY <1>2, <1>5
    <2> QED
      BY <2>1 DEF Task, AskStates, Tries
  <1> QED
    BY <1>3, <1>4, <1>5

(* What is sent for a slot is given to one task at most.                    *)
LEMMA FillFacts ==
    ASSUME TypeOK, NEW e \in Envelope, KeyFor(e) \in DOMAIN waiting,
           NEW tasks \in [Letters -> Task]
    PROVE  LET s == waiting[KeyFor(e)] IN
           /\ s.letter \in Letters
           /\ Fill(e, tasks) \in [Letters -> Task]
           /\ \A l \in Letters \ {s.letter} : Fill(e, tasks)[l] = tasks[l]
           /\ IF tasks[s.letter].at # "over" /\ tasks[s.letter].try = s.try
              THEN Fill(e, tasks)[s.letter] = [tasks[s.letter] EXCEPT !.got = e]
              ELSE Fill(e, tasks)[s.letter] = tasks[s.letter]
  <1> DEFINE s == waiting[KeyFor(e)]
             g == IF tasks[s.letter].at # "over" /\ tasks[s.letter].try = s.try
                  THEN e ELSE tasks[s.letter].got
             t == [tasks[s.letter] EXCEPT !.got = g]
  <1>1. s \in Slot
    BY Parts DEF WaitingOK
  <1>2. s.letter \in Letters
    BY <1>1 DEF Slot
  <1>3. Fill(e, tasks) = [tasks EXCEPT ![s.letter] = t]
    BY <1>2 DEF Fill
  <1> HIDE DEF s
  <1>4. tasks[s.letter] \in Task
    BY <1>2
  <1>5. t \in Task
    BY <1>4 DEF Task
  <1>6. ~(tasks[s.letter].at # "over" /\ tasks[s.letter].try = s.try) =>
           t = tasks[s.letter]
    BY <1>4 DEF Task
  <1>7. tasks[s.letter].at # "over" /\ tasks[s.letter].try = s.try =>
           t = [tasks[s.letter] EXCEPT !.got = e]
    OBVIOUS
  <1> HIDE DEF t
  <1> QED
    BY <1>2, <1>3, <1>5, <1>6, <1>7 DEF s

(* Of a task only what it has been given is changed by what is sent.        *)
LEMMA FillKeeps ==
    ASSUME TypeOK, NEW e \in Envelope, KeyFor(e) \in DOMAIN waiting,
           NEW tasks \in [Letters -> Task], NEW l \in Letters
    PROVE  LET t == Fill(e, tasks)[l] IN
           /\ t.at = tasks[l].at /\ t.try = tasks[l].try /\ t.why = tasks[l].why
           /\ t.account = tasks[l].account /\ t.box = tasks[l].box
           /\ t.got = tasks[l].got \/ t.got = e
  <1>1. PICK t : t = Fill(e, tasks)[l]
    OBVIOUS
  <1>2. t = tasks[l] \/ t = [tasks[l] EXCEPT !.got = e]
    <2> DEFINE s == waiting[KeyFor(e)]
    <2>1. /\ \A m \in Letters \ {s.letter} : Fill(e, tasks)[m] = tasks[m]
          /\ \/ Fill(e, tasks)[s.letter] = [tasks[s.letter] EXCEPT !.got = e]
             \/ Fill(e, tasks)[s.letter] = tasks[s.letter]
      BY FillFacts
    <2> HIDE DEF s
    <2> QED
      BY <1>1, <2>1
  <1>3. tasks[l] \in Task
    OBVIOUS
  <1>4. CASE t = [tasks[l] EXCEPT !.got = e]
    BY <1>1, <1>3, <1>4 DEF Task
  <1> QED
    BY <1>1, <1>2, <1>4

-----------------------------------------------------------------------------
(* How a step of the server or of its client changes the task of a letter.  *)
Same(s, t) == t.try = s.try /\ t.account = s.account /\ t.got = s.got

GoesOn(l, s, t) ==
    \/ s.at = "called" /\ t.at = "slotted"
    \/ s.at = "slotted" /\ t.at \in {"waiting", "routed"}
    \/ /\ s.at = "routed" /\ t.at = "found"
       /\ Reachable(Question(l)) /\ t.box = devices[To[l]].box
    \/ s.at = "routed" /\ t.at = "forgetting" /\ t.why = "offline"
    \/ s.at = "found" /\ t.at = "waiting"
    \/ s.at = "found" /\ t.at = "forgetting" /\ t.why \in {"busy", "offline"}
    \/ s.at = "waiting" /\ t.at = "forgetting" /\ t.why = "noanswer"

Move(l, s, t) ==
    \/ t = s
    \/ s.at = "idle" /\ t.at = "called" /\ t.try = s.try /\ t.got = s.got
    \/ Same(s, t) /\ GoesOn(l, s, t)
    \/ s.at # "idle" /\ t = Over
    \/ /\ s.at = "called" \/ (s.at = "forgetting" /\ s.why = "busy")
       /\ s.try = 1
       /\ t.at = "called" /\ t.try = 2 /\ t.got = None

Moves(l, t) ==
    /\ Move(l, ask[l], t)
    /\ \/ ask' = [ask EXCEPT ![l] = t]
       \/ /\ ask[l].at = "slotted" /\ t.at = "waiting"
          /\ Filled(Question(l)) /\ waiting' = Without(KeyFor(Question(l)))
          /\ ask' = Fill(Question(l), [ask EXCEPT ![l] = t])

LEMMA AskingMoves ==
    ASSUME TypeOK, NEW l \in Letters, Asking(l)
    PROVE  \E t \in Task : Moves(l, t)
  <1>0. TasksOK /\ ask[l] \in Task /\ DevicesOK
        /\ account[From[l]] \in Accounts /\ (ask[l].at = "found" => ask[l].box # 0)
    BY Parts, LettersAssumption DEF TasksOK, RestOK
  <1>1. ASSUME NEW t \in Task, Move(l, ask[l], t), ask' = [ask EXCEPT ![l] = t]
        PROVE  \E u \in Task : Moves(l, u)
    BY <1>1 DEF Moves
  <1>2. CASE Call(l)
    <2> DEFINE t == [ask[l] EXCEPT !.at = "called", !.account = account[From[l]]]
    <2>1. ask' = [ask EXCEPT ![l] = t] /\ ask[l].at = "idle"
      BY <1>0, <1>2 DEF Call, TasksOK
    <2>2. t \in Task /\ t.at = "called" /\ t.try = ask[l].try /\ t.got = ask[l].got
      BY <1>0 DEF Task, AskStates
    <2> HIDE DEF t
    <2>3. Move(l, ask[l], t)
      BY <2>1, <2>2 DEF Move
    <2> QED
      BY <1>1, <2>1, <2>2, <2>3
  <1>3. CASE AskSlotted(l)
    <2> DEFINE t == [ask[l] EXCEPT !.at = "slotted"]
    <2>1. ask' = [ask EXCEPT ![l] = t] /\ ask[l].at = "called"
      BY <1>0, <1>3 DEF AskSlotted, TasksOK
    <2>2. t \in Task /\ t.at = "slotted" /\ Same(ask[l], t)
      BY <1>0 DEF Task, AskStates, Same
    <2> HIDE DEF t
    <2>3. Move(l, ask[l], t)
      BY <2>1, <2>2 DEF Move, GoesOn
    <2> QED
      BY <1>1, <2>1, <2>2, <2>3
  <1>4. CASE AskSent(l)
    <2> DEFINE t == [ask[l] EXCEPT !.at = "waiting"]
               u == [ask[l] EXCEPT !.at = "routed"]
    <2>1. /\ ask[l].at = "slotted"
          /\ \/ ask' = [ask EXCEPT ![l] = u]
             \/ /\ Filled(Question(l)) /\ waiting' = Without(KeyFor(Question(l)))
                /\ ask' = Fill(Question(l), [ask EXCEPT ![l] = t])
      BY <1>0, <1>4 DEF AskSent, TasksOK
    <2>2. /\ t \in Task /\ t.at = "waiting" /\ Same(ask[l], t)
          /\ u \in Task /\ u.at = "routed" /\ Same(ask[l], u)
      BY <1>0 DEF Task, AskStates, Same
    <2> HIDE DEF t, u
    <2>3. Move(l, ask[l], t) /\ Move(l, ask[l], u)
      BY <2>1, <2>2 DEF Move, GoesOn
    <2>4. CASE ask' = [ask EXCEPT ![l] = u]
      BY <1>1, <2>2, <2>3, <2>4
    <2>5. CASE /\ Filled(Question(l)) /\ waiting' = Without(KeyFor(Question(l)))
               /\ ask' = Fill(Question(l), [ask EXCEPT ![l] = t])
      BY <2>1, <2>2, <2>3, <2>5 DEF Moves
    <2> QED
      BY <2>1, <2>4, <2>5
  <1>5. CASE AskRouted(l)
    <2> DEFINE e == Question(l)
               b == devices[To[l]].box
               t == [ask[l] EXCEPT !.at = "found", !.box = b]
               u == [ask[l] EXCEPT !.at = "forgetting", !.why = "offline"]
    <2>1. /\ ask[l].at = "routed"
          /\ \/ Reachable(e) /\ ask' = [ask EXCEPT ![l] = t]
             \/ ask' = [ask EXCEPT ![l] = u]
      BY <1>0, <1>5 DEF AskRouted, TasksOK
    <2>2. Reachable(e) => b \in Boxes
      BY <1>0, QuestionIs, LettersAssumption DEF Reachable, DevicesOK, Entry
    <2> HIDE DEF b
    <2>3. /\ u \in Task /\ u.at = "forgetting" /\ u.why = "offline" /\ Same(ask[l], u)
          /\ Reachable(e) => /\ t \in Task /\ t.at = "found" /\ Same(ask[l], t)
                             /\ t.box = b
      <3>1. u \in Task /\ u.at = "forgetting" /\ u.why = "offline" /\ Same(ask[l], u)
        BY <1>0 DEF Task, AskStates, Same
      <3>2. Reachable(e) => t \in Task /\ t.at = "found" /\ Same(ask[l], t) /\ t.box = b
        BY <1>0, <2>2 DEF Task, AskStates, Same
      <3> QED
        BY <3>1, <3>2
    <2> HIDE DEF t, u
    <2>4. Move(l, ask[l], u) /\ (Reachable(e) => Move(l, ask[l], t))
      BY <2>1, <2>3 DEF Move, GoesOn, b
    <2> HIDE DEF e
    <2> QED
      BY <1>1, <2>1, <2>3, <2>4
  <1>6. CASE AskPut(l)
    <2> DEFINE t == [ask[l] EXCEPT !.at = "waiting", !.box = 0]
               why == IF Held(To[l], ask[l].box) THEN "busy" ELSE "offline"
               u == [ask[l] EXCEPT !.at = "forgetting", !.box = 0, !.why = why]
    <2>1. /\ ask[l].at = "found"
          /\ ask' = [ask EXCEPT ![l] = t] \/ ask' = [ask EXCEPT ![l] = u]
      BY <1>0, <1>6 DEF AskPut, TasksOK
    <2>2. why \in {"busy", "offline"}
      OBVIOUS
    <2> HIDE DEF why
    <2>3. /\ t \in Task /\ t.at = "waiting" /\ Same(ask[l], t)
          /\ u \in Task /\ u.at = "forgetting" /\ u.why = why /\ Same(ask[l], u)
      BY <1>0, <2>2 DEF Task, AskStates, Same
    <2> HIDE DEF t, u
    <2>4. Move(l, ask[l], t) /\ Move(l, ask[l], u)
      BY <2>1, <2>2, <2>3 DEF Move, GoesOn
    <2> QED
      BY <1>1, <2>1, <2>3, <2>4
  <1>7. CASE AskTimesOut(l)
    <2> DEFINE u == [ask[l] EXCEPT !.at = "forgetting", !.why = "noanswer"]
    <2>1. ask[l].at = "waiting" /\ ask' = [ask EXCEPT ![l] = u]
      BY <1>0, <1>7 DEF AskTimesOut, TasksOK
    <2>2. u \in Task /\ u.at = "forgetting" /\ u.why = "noanswer" /\ Same(ask[l], u)
      BY <1>0 DEF Task, AskStates, Same
    <2> HIDE DEF u
    <2>3. Move(l, ask[l], u)
      BY <2>1, <2>2 DEF Move, GoesOn
    <2> QED
      BY <1>1, <2>1, <2>2, <2>3
  <1>8. CASE AskBusy(l) \/ Forget(l)
    <2> DEFINE t == [NoAsk EXCEPT !.at = "called", !.try = 2,
                                  !.account = account[From[l]]]
    <2>1. /\ ask[l].at \in {"called", "forgetting"}
          /\ \/ ask' = [ask EXCEPT ![l] = Over]
             \/ /\ ask' = [ask EXCEPT ![l] = t] /\ ask[l].try = 1
                /\ ask[l].at = "forgetting" => ask[l].why = "busy"
      BY <1>8 DEF AskBusy, Forget, Failed
    <2>2. t \in Task /\ t.at = "called" /\ t.try = 2 /\ t.got = None
      BY <1>0, NoAskIs
    <2> HIDE DEF t
    <2>3. /\ Move(l, ask[l], Over)
          /\ /\ ask[l].try = 1
             /\ ask[l].at = "forgetting" => ask[l].why = "busy"
             => Move(l, ask[l], t)
      BY <2>1, <2>2 DEF Move
    <2> QED
      BY <1>1, <2>1, <2>2, <2>3, NoAskIs
  <1>9. CASE AskAnswered(l) \/ AskDropped(l)
    <2>1. ask' = [ask EXCEPT ![l] = Over] /\ ask[l].at # "idle"
      BY <1>9 DEF AskAnswered, AskDropped
    <2>2. Move(l, ask[l], Over)
      BY <2>1 DEF Move
    <2> QED
      BY <1>1, <2>1, <2>2, NoAskIs
  <1>10. CASE GiveUp(l)
    <2>1. ask' = [ask EXCEPT ![l] = ask[l]] /\ Move(l, ask[l], ask[l])
      BY <1>0, <1>10 DEF GiveUp, Move, TasksOK
    <2> QED
      BY <1>0, <1>1, <2>1
  <1> QED
    BY <1>2, <1>3, <1>4, <1>5, <1>6, <1>7, <1>8, <1>9, <1>10 DEF Asking, ServerStep

-----------------------------------------------------------------------------
LEMMA TasksStep ==
    ASSUME TypeOK, WhyInv, [Next]_vars
    PROVE  TasksOK' /\ WhyInv'
  <1>0. TasksOK /\ LinkOK /\ DevicesOK /\ ask \in [Letters -> Task]
    BY Parts DEF TasksOK
  <1>1. ASSUME ask' = ask PROVE TasksOK' /\ WhyInv'
    BY <1>0, <1>1 DEF TasksOK, WhyInv
  <1>2. ASSUME NEW e \in Envelope, Filled(e), NEW tasks \in [Letters -> Task],
               ask' = Fill(e, tasks),
               \A l \in Letters : /\ tasks[l].at = "found" => tasks[l].box # 0
                                  /\ tasks[l].at = "forgetting" => tasks[l].why \in Reasons
        PROVE  TasksOK' /\ WhyInv'
    <2>1. KeyFor(e) \in DOMAIN waiting
      BY <1>2 DEF Filled
    <2>2. Fill(e, tasks) \in [Letters -> Task]
      BY <1>2, <2>1, FillFacts
    <2>3. \A l \in Letters : /\ ask'[l].at = tasks[l].at /\ ask'[l].box = tasks[l].box
                             /\ ask'[l].why = tasks[l].why
      BY <1>2, <2>1, FillKeeps
    <2>4. ask' \in [Letters -> Task]
      BY <1>2, <2>2
    <2>5. \A l \in Letters : /\ ask'[l].at = "found" => ask'[l].box # 0
                             /\ ask'[l].at = "forgetting" => ask'[l].why \in Reasons
      BY <1>2, <2>3
    <2> QED
      BY <2>4, <2>5 DEF TasksOK, WhyInv
  <1>3. ASSUME NEW c \in Computers, Answering(c) PROVE TasksOK' /\ WhyInv'
    <2>1. CASE AnswerSent(c) /\ Filled(link[c].env)
      <3>1. link[c].env \in Envelope /\ ask' = Fill(link[c].env, ask)
        BY <1>0, <2>1 DEF AnswerSent, LinkOK, LinkType
      <3> QED
        BY <1>0, <1>2, <2>1, <3>1 DEF TasksOK, WhyInv
    <2> QED
      BY <1>1, <1>3, <2>1 DEF Answering, HandleEnvelope, AnswerSent, AnswerRouted,
                              AnswerPut, AnswerLost
  <1>4. ASSUME NEW l \in Letters, Asking(l) PROVE TasksOK' /\ WhyInv'
    <2>1. PICK t \in Task : Moves(l, t)
      BY <1>4, AskingMoves
    <2>2. PICK tasks : tasks = [ask EXCEPT ![l] = t]
      OBVIOUS
    <2>3. tasks \in [Letters -> Task]
          /\ \A m \in Letters : tasks[m] = IF m = l THEN t ELSE ask[m]
      BY <1>0, <2>2
    <2>4. Move(l, ask[l], t)
      BY <2>1 DEF Moves
    <2>5. t.at = "found" => t.box # 0
      <3>1. ASSUME Reachable(Question(l)) PROVE devices[To[l]].box # 0
        BY <1>0, <3>1, QuestionIs, LettersAssumption
           DEF Reachable, DevicesOK, Entry, Boxes
      <3> QED
        BY <1>0, <2>4, <3>1, NoAskIs DEF Move, GoesOn, TasksOK
    <2>6. t.at = "forgetting" => t.why \in Reasons
      BY <2>4, NoAskIs DEF Move, GoesOn, WhyInv, Reasons
    <2>7. \A m \in Letters : /\ tasks[m].at = "found" => tasks[m].box # 0
                             /\ tasks[m].at = "forgetting" => tasks[m].why \in Reasons
      BY <1>0, <2>3, <2>5, <2>6 DEF TasksOK, WhyInv
    <2>8. CASE ask' = tasks
      BY <2>3, <2>7, <2>8 DEF TasksOK, WhyInv
    <2>9. CASE Filled(Question(l)) /\ ask' = Fill(Question(l), tasks)
      BY <1>2, <2>3, <2>7, <2>9, QuestionIs
    <2> QED
      BY <2>1, <2>2, <2>8, <2>9 DEF Moves
  <1>5. CASE Restart
    <2>1. \A l \in Letters : ask'[l] = Over \/ (ask[l].at = "idle" /\ ask'[l] = ask[l])
      BY <1>5 DEF Restart
    <2>2. ask' \in [Letters -> Task]
      BY <1>0, <1>5, NoAskIs DEF Restart, TasksOK
    <2> QED
      BY <1>0, <2>1, <2>2, NoAskIs DEF TasksOK, WhyInv
  <1> QED
    BY <1>1, <1>3, <1>4, <1>5, NextCases, AroundFrame DEF vars, Login

LEMMA RestStep ==
    ASSUME TypeOK, WhyInv, [Next]_vars
    PROVE  RestOK'
  <1>0. RestOK /\ LinkOK
    BY Parts
  <1>1. ASSUME told' = told, handled' = handled, account' = account PROVE RestOK'
    BY <1>0, <1>1 DEF RestOK
  <1>2. ASSUME NEW l \in Letters, NEW w \in Words, told' = [told EXCEPT ![l] = w],
               handled' = handled, account' = account
        PROVE  RestOK'
    BY <1>0, <1>2 DEF RestOK
  <1>3. ASSUME NEW c \in Computers, Answering(c) PROVE RestOK'
    <2>1. told' = told /\ account' = account
      BY <1>3, AnsweringFrame DEF boundVars
    <2>2. CASE handled' = handled
      BY <1>1, <2>1, <2>2
    <2>3. CASE HandleEnvelope(c)
      <3>1. link[c].env \in Envelope
        BY <1>0, <2>3 DEF HandleEnvelope, LinkOK, LinkType
      <3>2. \/ handled' = handled
            \/ handled' = handled \cup {<<link[c].env.letter, link[c].env.try>>}
        BY <2>3 DEF HandleEnvelope, Answers, Ignores
      <3>3. <<link[c].env.letter, link[c].env.try>> \in Letters \X Tries
        BY <3>1 DEF Envelope
      <3> QED
        BY <1>0, <2>1, <3>2, <3>3 DEF RestOK
    <2> QED
      BY <1>3, <2>2, <2>3 DEF Answering, AnswerSent, AnswerRouted, AnswerPut, AnswerLost
  <1>4. ASSUME NEW c \in Computers, Login(c) PROVE RestOK'
    <2>1. told' = told /\ handled' = handled
      BY <1>4 DEF Login
    <2>2. PICK a \in Accounts : account' = [account EXCEPT ![c] = a]
      BY <1>4 DEF Login
    <2> QED
      BY <1>0, <2>1, <2>2 DEF RestOK
  <1>5. ASSUME NEW l \in Letters, Asking(l) PROVE RestOK'
    <2>1. handled' = handled /\ account' = account
      BY <1>5, AskingFrame DEF boundVars
    <2>2. ASSUME NEW why \in Reasons, Failed(l, why) PROVE RestOK'
      <3> DEFINE w == IF why = "busy" THEN "refused" ELSE why
      <3>1. told' = told \/ told' = [told EXCEPT ![l] = w]
        BY <2>2 DEF Failed
      <3>2. w \in Words
        BY DEF Reasons, Words
      <3> HIDE DEF w
      <3> QED
        BY <1>1, <1>2, <2>1, <3>1, <3>2
    <2>3. CASE AskBusy(l)
      <3>1. "busy" \in Reasons
        BY DEF Reasons
      <3> QED
        BY <2>2, <2>3, <3>1 DEF AskBusy
    <2>4. CASE Forget(l)
      BY <2>2, <2>4 DEF Forget, WhyInv
    <2>5. CASE AskAnswered(l) \/ GiveUp(l)
      <3>1. \/ told' = told \/ told' = [told EXCEPT ![l] = "receipt"]
            \/ told' = [told EXCEPT ![l] = "noanswer"]
        BY <2>5 DEF AskAnswered, GiveUp
      <3>2. "receipt" \in Words /\ "noanswer" \in Words
        BY DEF Words
      <3> QED
        BY <1>1, <1>2, <2>1, <3>1, <3>2
    <2>6. CASE told' = told
      BY <1>1, <2>1, <2>6
    <2> QED
      BY <1>5, <2>3, <2>4, <2>5, <2>6
         DEF Asking, ServerStep, Call, AskSlotted, AskSent, AskRouted, AskPut,
             AskTimesOut, AskDropped
  <1>6. CASE Restart
    <2>1. \A l \in Letters : told[l] \in Words \cup {""}
      BY <1>0 DEF RestOK
    <2>2. told' \in [Letters -> Words \cup {""}]
      <3>1. "noanswer" \in Words
        BY DEF Words
      <3> QED
        BY <1>6, <2>1, <3>1 DEF Restart
    <2> QED
      BY <1>0, <1>6, <2>2 DEF RestOK, Restart
  <1> QED
    BY <1>1, <1>3, <1>4, <1>5, <1>6, NextCases, AroundFrame DEF vars, boundVars

LEMMA TypeStep ==
    ASSUME TypeOK, WhyInv, [Next]_vars
    PROVE  TypeOK' /\ WhyInv'
  <1>1. DevicesOK' /\ MailOK' /\ PollsOK' /\ WaitingOK'
    BY DevicesStep, MailStep, PollsStep, WaitingStep
  <1>2. TasksOK' /\ WhyInv' /\ LinkOK' /\ RestOK'
    BY TasksStep, LinkKept, RestStep
  <1> QED
    BY <1>1, <1>2, Parts, PTL

LEMMA TypeInvariant == Spec => [](TypeOK /\ WhyInv)
  <1>1. Init => TypeOK /\ WhyInv
    BY TypeInit, NoAskIs DEF Init, WhyInv
  <1>2. TypeOK /\ WhyInv /\ [Next]_vars => (TypeOK /\ WhyInv)'
    BY TypeStep
  <1> QED
    BY <1>1, <1>2, PTL DEF Spec

(* In every reachable state the table of the devices, the mailboxes, the    *)
(* polls, the list of those who wait and the tasks are what they are meant  *)
(* to be: no mailbox holds more than it may, at most one poll of a computer *)
(* is live and its link thread waits for it.                                *)
THEOREM TypeCorrect == Spec => []TypeOK
  BY TypeInvariant, PTL
-----------------------------------------------------------------------------
(* Who waits is in the list.                                                *)
Waits(task) == task.at \in {"slotted", "routed", "found", "waiting"} /\ task.got = None

SlotIn(list, l, try) ==
    LET k == <<From[l], Number[l][try]>> IN
    k \in DOMAIN list /\ list[k].letter = l /\ list[k].try = try

LEMMA ListedIs ==
    /\ WaitersAreListed <=>
          \A l \in Letters : Waits(ask[l]) => SlotIn(waiting, l, ask[l].try)
    /\ WaitersAreListed' <=>
          \A l \in Letters : Waits(ask'[l]) => SlotIn(waiting', l, ask'[l].try)
  BY DEF WaitersAreListed, Waits, SlotIn, Mine, Free, KeyOf

(* The slot that is filled is taken from the list, and its task, if it      *)
(* still waits, has its answer.                                             *)
LEMMA FillListed ==
    ASSUME TypeOK, NEW e \in Envelope, Filled(e), NEW tasks \in [Letters -> Task],
           ask' = Fill(e, tasks), waiting' = Without(KeyFor(e)),
           \A l \in Letters : Waits(tasks[l]) => SlotIn(waiting, l, tasks[l].try)
    PROVE  WaitersAreListed'
  <1> DEFINE k == KeyFor(e)
             s == waiting[k]
  <1>1. k \in DOMAIN waiting
    BY DEF Filled
  <1>2. /\ s.letter \in Letters
        /\ \A l \in Letters \ {s.letter} : ask'[l] = tasks[l]
        /\ IF tasks[s.letter].at # "over" /\ tasks[s.letter].try = s.try
           THEN ask'[s.letter] = [tasks[s.letter] EXCEPT !.got = e]
           ELSE ask'[s.letter] = tasks[s.letter]
    BY <1>1, FillFacts
  <1>3. waiting' = [j \in DOMAIN waiting \ {k} |-> waiting[j]]
    BY DEF Without
  <1> HIDE DEF k
  <1>4. ASSUME NEW l \in Letters, Waits(ask'[l])
        PROVE  SlotIn(waiting', l, ask'[l].try)
    <2>1. tasks[l] \in Task /\ e # None
      BY NoneAssumption
    <2>2. ~(l = s.letter /\ tasks[l].at # "over" /\ tasks[l].try = s.try)
      <3> SUFFICES ASSUME l = s.letter, tasks[l].at # "over", tasks[l].try = s.try
                   PROVE  FALSE
        OBVIOUS
      <3>1. ask'[l].got = e
        BY <1>2, <2>1 DEF Task
      <3> QED
        BY <1>4, <2>1, <3>1 DEF Waits
    <2>3. ask'[l] = tasks[l]
      BY <1>2, <2>2
    <2>4. SlotIn(waiting, l, tasks[l].try) /\ tasks[l].at # "over"
      BY <1>4, <2>3 DEF Waits
    <2>5. <<From[l], Number[l][tasks[l].try]>> # k
      BY <2>2, <2>4 DEF SlotIn
    <2> QED
      BY <1>3, <2>3, <2>4, <2>5 DEF SlotIn
  <1> QED
    BY <1>4, ListedIs

LEMMA ListedStep ==
    ASSUME TypeOK, WaitersAreListed, [Next]_vars
    PROVE  WaitersAreListed'
  <1>0. /\ TasksOK /\ LinkOK
        /\ \A l \in Letters : Waits(ask[l]) => SlotIn(waiting, l, ask[l].try)
    BY Parts, ListedIs
  <1>1. ASSUME waiting' = waiting,
               \A l \in Letters : Waits(ask'[l]) =>
                  Waits(ask[l]) /\ ask'[l].try = ask[l].try
        PROVE  WaitersAreListed'
    BY <1>0, <1>1, ListedIs
  <1>2. ASSUME NEW l \in Letters, NEW t, ask' = [ask EXCEPT ![l] = t], waiting' = waiting,
               Waits(t) => Waits(ask[l]) /\ t.try = ask[l].try
        PROVE  WaitersAreListed'
    <2>1. \A m \in Letters : ask'[m] = IF m = l THEN t ELSE ask[m]
      BY <1>0, <1>2 DEF TasksOK
    <2> QED
      BY <1>1, <1>2, <2>1
  <1>3. ASSUME NEW c \in Computers, Answering(c) PROVE WaitersAreListed'
    <2>1. CASE AnswerSent(c) /\ Filled(link[c].env)
      <3>1. link[c].env \in Envelope /\ ask' = Fill(link[c].env, ask)
            /\ waiting' = Without(KeyFor(link[c].env)) /\ ask \in [Letters -> Task]
        BY <1>0, <2>1 DEF AnswerSent, LinkOK, LinkType, TasksOK
      <3> QED
        BY <1>0, <2>1, <3>1, FillListed
    <2>2. CASE UNCHANGED <<ask, waiting>>
      BY <1>1, <2>2
    <2> QED
      BY <1>3, <2>1, <2>2 DEF Answering, HandleEnvelope, AnswerSent, AnswerRouted,
                              AnswerPut, AnswerLost, serverVars
  <1>4. ASSUME NEW l \in Letters, Asking(l) PROVE WaitersAreListed'
    <2>0. ask[l] \in Task
      BY <1>0 DEF TasksOK
    <2>1. CASE AskSlotted(l)
      <3> DEFINE t == [ask[l] EXCEPT !.at = "slotted"]
                 k == KeyOf(l)
                 s == [letter |-> l, try |-> ask[l].try, from |-> To[l],
                       account |-> ask[l].account]
      <3>1. t.try = ask[l].try
        BY <2>0 DEF Task
      <3>2. \A m \in Letters : ask'[m] = IF m = l THEN t ELSE ask[m]
        BY <1>0, <2>1 DEF AskSlotted, TasksOK
      <3>3. /\ k \notin DOMAIN waiting
            /\ waiting' = [j \in DOMAIN waiting \cup {k} |-> IF j = k THEN s ELSE waiting[j]]
        BY <2>1 DEF AskSlotted, Free
      <3>4. k = <<From[l], Number[l][ask[l].try]>> /\ s.letter = l /\ s.try = ask[l].try
        BY DEF KeyOf
      <3> HIDE DEF t, k, s
      <3>5. ASSUME NEW m \in Letters, Waits(ask'[m])
            PROVE  SlotIn(waiting', m, ask'[m].try)
        <4>1. CASE m = l
          BY <3>1, <3>2, <3>3, <3>4, <4>1 DEF SlotIn
        <4>2. CASE m # l
          <5>1. ask'[m] = ask[m] /\ SlotIn(waiting, m, ask[m].try)
            BY <1>0, <3>2, <3>5, <4>2
          <5> QED
            BY <3>3, <5>1 DEF SlotIn
        <4> QED
          BY <4>1, <4>2
      <3> QED
        BY <3>5, ListedIs
    <2>2. CASE AskSent(l) /\ Filled(Question(l))
      <3> DEFINE e == Question(l)
                 t == [ask[l] EXCEPT !.at = "waiting"]
                 tasks == [ask EXCEPT ![l] = t]
      <3>1. e \in Envelope
        BY QuestionIs
      <3>2. ask' = Fill(e, tasks) /\ waiting' = Without(KeyFor(e)) /\ ask[l].at = "slotted"
        BY <1>0, <2>2 DEF AskSent, TasksOK
      <3>3. t \in Task /\ t.try = ask[l].try /\ t.got = ask[l].got
        BY <2>0 DEF Task, AskStates
      <3> HIDE DEF t
      <3>4. tasks \in [Letters -> Task]
            /\ \A m \in Letters : tasks[m] = IF m = l THEN t ELSE ask[m]
        BY <1>0, <3>3 DEF TasksOK
      <3> HIDE DEF e, tasks
      <3>5. Waits(t) => Waits(ask[l])
        BY <3>2, <3>3 DEF Waits
      <3>6. \A m \in Letters : Waits(tasks[m]) => SlotIn(waiting, m, tasks[m].try)
        BY <1>0, <3>3, <3>4, <3>5
      <3> QED
        BY <2>2, <3>1, <3>2, <3>4, <3>6, FillListed DEF e
    <2>3. CASE AskSent(l) /\ ~Filled(Question(l))
      <3> DEFINE t == [ask[l] EXCEPT !.at = "routed"]
      <3>1. ask' = [ask EXCEPT ![l] = t] /\ waiting' = waiting /\ ask[l].at = "slotted"
        BY <1>0, <2>3 DEF AskSent, TasksOK
      <3>2. t.try = ask[l].try /\ t.got = ask[l].got
        BY <2>0 DEF Task
      <3> HIDE DEF t
      <3> QED
        BY <1>2, <3>1, <3>2 DEF Waits
    <2>4. CASE AskRouted(l) \/ AskPut(l)
      <3> DEFINE b == devices[To[l]].box
                 why == IF Held(To[l], ask[l].box) THEN "busy" ELSE "offline"
                 t1 == [ask[l] EXCEPT !.at = "found", !.box = b]
                 t2 == [ask[l] EXCEPT !.at = "forgetting", !.why = "offline"]
                 t3 == [ask[l] EXCEPT !.at = "waiting", !.box = 0]
                 t4 == [ask[l] EXCEPT !.at = "forgetting", !.box = 0, !.why = why]
      <3>1. /\ waiting' = waiting /\ ask[l].at \in {"routed", "found"}
            /\ \/ ask' = [ask EXCEPT ![l] = t1] \/ ask' = [ask EXCEPT ![l] = t2]
               \/ ask' = [ask EXCEPT ![l] = t3] \/ ask' = [ask EXCEPT ![l] = t4]
        BY <1>0, <2>4 DEF AskRouted, AskPut, TasksOK, serverVars
      <3> HIDE DEF why, b
      <3>2. /\ t1.try = ask[l].try /\ t1.got = ask[l].got
            /\ t3.try = ask[l].try /\ t3.got = ask[l].got
            /\ t2.at = "forgetting" /\ t4.at = "forgetting"
        BY <2>0 DEF Task
      <3> HIDE DEF t1, t2, t3, t4
      <3> QED
        BY <1>2, <3>1, <3>2 DEF Waits
    <2>5. CASE AskTimesOut(l) \/ Call(l)
      <3> DEFINE t1 == [ask[l] EXCEPT !.at = "forgetting", !.why = "noanswer"]
                 t2 == [ask[l] EXCEPT !.at = "called", !.account = account[From[l]]]
      <3>1. /\ waiting' = waiting
            /\ ask' = [ask EXCEPT ![l] = t1] \/ ask' = [ask EXCEPT ![l] = t2]
        BY <1>0, <2>5 DEF AskTimesOut, Call, TasksOK, serverVars
      <3>2. t1.at = "forgetting" /\ t2.at = "called"
        BY <2>0 DEF Task
      <3> HIDE DEF t1, t2
      <3> QED
        BY <1>2, <3>1, <3>2 DEF Waits
    <2>6. CASE AskBusy(l) \/ Forget(l)
      <3> DEFINE t == [NoAsk EXCEPT !.at = "called", !.try = 2,
                                    !.account = account[From[l]]]
      <3>1. ask' = [ask EXCEPT ![l] = Over] \/ ask' = [ask EXCEPT ![l] = t]
        BY <2>6 DEF AskBusy, Forget, Failed
      <3>2. t.at = "called"
        BY NoAskIs DEF Task
      <3> HIDE DEF t
      <3>3. ~Waits(ask'[l]) /\ \A m \in Letters \ {l} : ask'[m] = ask[m]
        BY <1>0, <3>1, <3>2, NoAskIs DEF TasksOK, Waits
      <3>4. \/ waiting' = waiting
            \/ Mine(l) /\ waiting' = Without(KeyOf(l))
        BY <2>6 DEF AskBusy, Forget, serverVars
      <3>5. CASE waiting' = waiting
        BY <1>1, <3>3, <3>5
      <3>6. CASE Mine(l) /\ waiting' = Without(KeyOf(l))
        <4>1. ASSUME NEW m \in Letters, Waits(ask'[m])
              PROVE  SlotIn(waiting', m, ask'[m].try)
          <5>1. m # l /\ ask'[m] = ask[m] /\ SlotIn(waiting, m, ask[m].try)
            BY <1>0, <3>3, <4>1
          <5>2. <<From[m], Number[m][ask[m].try]>> # KeyOf(l)
            BY <3>6, <5>1 DEF SlotIn, Mine
          <5> QED
            BY <3>6, <5>1, <5>2 DEF SlotIn, Without
        <4> QED
          BY <4>1, ListedIs
      <3> QED
        BY <3>4, <3>5, <3>6
    <2>7. CASE AskAnswered(l) \/ AskDropped(l)
      <3>1. ask' = [ask EXCEPT ![l] = Over] /\ waiting' = waiting
        BY <2>7 DEF AskAnswered, AskDropped, serverVars
      <3>2. ~Waits(Over)
        BY NoAskIs DEF Waits
      <3> QED
        BY <1>2, <3>1, <3>2
    <2>8. CASE GiveUp(l)
      BY <1>1, <2>8 DEF GiveUp, serverVars
    <2> QED
      BY <1>4, <2>1, <2>2, <2>3, <2>4, <2>5, <2>6, <2>7, <2>8 DEF Asking, ServerStep
  <1>5. CASE Restart
    <2>1. \A l \in Letters : ask'[l] = Over \/ (ask[l].at = "idle" /\ ask'[l] = ask[l])
      BY <1>5 DEF Restart
    <2>2. \A l \in Letters : ~Waits(ask'[l])
      BY <2>1, NoAskIs DEF Waits
    <2> QED
      BY <2>2, ListedIs
  <1> QED
    BY <1>1, <1>3, <1>4, <1>5, NextCases, AroundFrame DEF vars, serverVars, Login

(* A task that waits and has not been given anything has its slot in the    *)
(* list: what arrives for it finds it, and no forget of an earlier question *)
(* with the same number has taken the slot away.                            *)
THEOREM WaitersListed == Spec => []WaitersAreListed
  <1>1. Init => WaitersAreListed
    BY NoAskIs DEF Init, WaitersAreListed
  <1>2. TypeOK /\ WaitersAreListed /\ [Next]_vars => WaitersAreListed'
    BY ListedStep
  <1> QED
    BY <1>1, <1>2, TypeCorrect, PTL DEF Spec
-----------------------------------------------------------------------------
(* A slot is of this or of an earlier try of its letter; when it is of this *)
(* one, it carries the account of the task.  What a task has been given     *)
(* carries that account too.                                                *)
SlotFits(s, task) ==
    task.at # "over" =>
        /\ s.try <= task.try
        /\ s.try = task.try =>
              task.at \notin {"idle", "called"} /\ s.account = task.account

SlotInv == \A k \in DOMAIN waiting : SlotFits(waiting[k], ask[waiting[k].letter])

GotFits(task) ==
    task.got # None => task.at \notin {"idle", "called"} /\ task.got.account = task.account

GotInv == \A l \in Letters : GotFits(ask[l])

(* Only the slot of a task itself fits it when it is made.                  *)
LEMMA MoveFits ==
    ASSUME NEW l \in Letters, NEW s \in Task, NEW t \in Task, Move(l, s, t)
    PROVE  /\ GotFits(s) => GotFits(t)
           /\ \A slot \in Slot : SlotFits(slot, s) => SlotFits(slot, t)
  <1>0. s.try \in {1, 2} /\ t.try \in {1, 2} /\ \A slot \in Slot : slot.try \in {1, 2}
    BY DEF Task, Slot, Tries
  <1>1. CASE t = s
    BY <1>1
  <1>2. CASE s.at = "idle" /\ t.at = "called" /\ t.try = s.try /\ t.got = s.got
    BY <1>0, <1>2 DEF GotFits, SlotFits
  <1>3. CASE Same(s, t) /\ GoesOn(l, s, t)
    <2>1. s.at # "over" /\ t.at \notin {"idle", "called"}
      BY <1>3 DEF GoesOn
    <2> QED
      BY <1>3, <2>1 DEF Same, GotFits, SlotFits
  <1>4. CASE t = Over
    BY <1>4, NoAskIs DEF GotFits, SlotFits
  <1>5. CASE s.at \in {"called", "forgetting"} /\ s.try = 1
             /\ t.at = "called" /\ t.try = 2 /\ t.got = None
    BY <1>0, <1>5 DEF GotFits, SlotFits
  <1> QED
    BY <1>1, <1>2, <1>3, <1>4, <1>5 DEF Move

LEMMA FillFits ==
    ASSUME TypeOK, SlotInv, NEW e \in Envelope, Filled(e), NEW tasks \in [Letters -> Task],
           ask' = Fill(e, tasks), waiting' = Without(KeyFor(e)),
           \A l \in Letters : GotFits(tasks[l]),
           \A k \in DOMAIN waiting : SlotFits(waiting[k], tasks[waiting[k].letter])
    PROVE  SlotInv' /\ GotInv'
  <1> DEFINE k == KeyFor(e)
             s == waiting[k]
  <1>1. k \in DOMAIN waiting /\ s.account = e.account
    BY DEF Filled
  <1>2. /\ s.letter \in Letters
        /\ \A l \in Letters \ {s.letter} : ask'[l] = tasks[l]
        /\ IF tasks[s.letter].at # "over" /\ tasks[s.letter].try = s.try
           THEN ask'[s.letter] = [tasks[s.letter] EXCEPT !.got = e]
           ELSE ask'[s.letter] = tasks[s.letter]
    BY <1>1, FillFacts
  <1>3. waiting' = [j \in DOMAIN waiting \ {k} |-> waiting[j]]
        /\ \A j \in DOMAIN waiting : waiting[j] \in Slot
    BY Parts DEF Without, WaitingOK
  <1>4. SlotFits(s, tasks[s.letter])
    BY <1>1
  <1> HIDE DEF k
  <1>5. PICK t : t = [tasks[s.letter] EXCEPT !.got = e]
    OBVIOUS
  <1>6. /\ t.at = tasks[s.letter].at /\ t.try = tasks[s.letter].try
        /\ t.account = tasks[s.letter].account /\ t.got = e
    <2>1. tasks[s.letter] \in Task
      BY <1>2
    <2> QED
      BY <1>5, <2>1 DEF Task
  <1>7. ASSUME tasks[s.letter].at # "over", tasks[s.letter].try = s.try PROVE GotFits(t)
    BY <1>1, <1>4, <1>6, <1>7 DEF SlotFits, GotFits
  <1>8. \A l \in Letters : GotFits(ask'[l])
    <2> TAKE l \in Letters
    <2>1. \/ ask'[l] = tasks[l]
          \/ /\ l = s.letter /\ ask'[l] = t
             /\ tasks[s.letter].at # "over"
             /\ tasks[s.letter].try = s.try
      BY <1>2, <1>5
    <2> QED
      BY <1>7, <2>1
  <1>9. ASSUME NEW slot, NEW l \in Letters, SlotFits(slot, tasks[l])
        PROVE  SlotFits(slot, ask'[l])
    <2>1. ask'[l] = tasks[l] \/ (l = s.letter /\ ask'[l] = t)
      BY <1>2, <1>5
    <2>2. CASE l = s.letter /\ ask'[l] = t
      BY <1>6, <1>9, <2>2 DEF SlotFits
    <2> QED
      BY <1>9, <2>1, <2>2
  <1>10. \A j \in DOMAIN waiting' : /\ j \in DOMAIN waiting /\ waiting'[j] = waiting[j]
                                    /\ waiting[j].letter \in Letters
    BY <1>3 DEF Slot
  <1>11. SlotInv'
    <2>1. \A j \in DOMAIN waiting' : SlotFits(waiting'[j], ask'[waiting'[j].letter])
      BY <1>9, <1>10
    <2> QED
      BY <2>1 DEF SlotInv, SlotFits
  <1> QED
    BY <1>8, <1>11 DEF GotInv, GotFits

LEMMA SlotStep ==
    ASSUME TypeOK, SlotInv, GotInv, [Next]_vars
    PROVE  SlotInv' /\ GotInv'
  <1>0. /\ TasksOK /\ LinkOK /\ ask \in [Letters -> Task]
        /\ \A k \in DOMAIN waiting : waiting[k] \in Slot /\ waiting[k].letter \in Letters
    BY Parts DEF TasksOK, WaitingOK, Slot
  <1>1. ASSUME UNCHANGED <<waiting, ask>> PROVE SlotInv' /\ GotInv'
    BY <1>1 DEF SlotInv, GotInv, SlotFits, GotFits
  <1>2. ASSUME NEW c \in Computers, Answering(c) PROVE SlotInv' /\ GotInv'
    <2>1. CASE AnswerSent(c) /\ Filled(link[c].env)
      <3>1. link[c].env \in Envelope /\ ask' = Fill(link[c].env, ask)
            /\ waiting' = Without(KeyFor(link[c].env))
        BY <1>0, <2>1 DEF AnswerSent, LinkOK, LinkType
      <3> QED
        BY <1>0, <2>1, <3>1, FillFits DEF SlotInv, GotInv
    <2> QED
      BY <1>1, <1>2, <2>1 DEF Answering, HandleEnvelope, AnswerSent, AnswerRouted,
                              AnswerPut, AnswerLost, serverVars
  <1>3. ASSUME NEW l \in Letters, Asking(l) PROVE SlotInv' /\ GotInv'
    <2>1. PICK t \in Task : Moves(l, t)
      BY <1>3, AskingMoves
    <2>2. PICK tasks : tasks = [ask EXCEPT ![l] = t]
      OBVIOUS
    <2>3. tasks \in [Letters -> Task] /\ \A m \in Letters : tasks[m] = IF m = l THEN t ELSE ask[m]
      BY <1>0, <2>2
    <2>4. /\ GotFits(ask[l]) => GotFits(t)
          /\ \A slot \in Slot : SlotFits(slot, ask[l]) => SlotFits(slot, t)
      BY <1>0, <2>1, MoveFits DEF Moves
    <2>5. /\ \A m \in Letters : GotFits(tasks[m])
          /\ \A k \in DOMAIN waiting : SlotFits(waiting[k], tasks[waiting[k].letter])
      BY <1>0, <2>3, <2>4 DEF SlotInv, GotInv
    <2>6. ASSUME ask' = tasks PROVE SlotInv' /\ GotInv'
      <3>1. GotInv'
        BY <2>5, <2>6 DEF GotInv, GotFits
      <3>2. ASSUME \A k \in DOMAIN waiting' : k \in DOMAIN waiting /\ waiting'[k] = waiting[k]
            PROVE  SlotInv'
        BY <2>5, <2>6, <3>2 DEF SlotInv, SlotFits
      <3>3. CASE AskSlotted(l)
        <4> DEFINE key == KeyOf(l)
                   s == [letter |-> l, try |-> ask[l].try, from |-> To[l],
                         account |-> ask[l].account]
        <4>1. /\ waiting' = [k \in DOMAIN waiting \cup {key} |->
                                IF k = key THEN s ELSE waiting[k]]
              /\ ask' = [ask EXCEPT ![l].at = "slotted"]
          BY <3>3 DEF AskSlotted
        <4>2. /\ s.letter = l /\ s.try = ask[l].try /\ s.account = ask[l].account
              /\ ask'[l].at = "slotted" /\ ask'[l].try = ask[l].try
              /\ ask'[l].account = ask[l].account /\ ask[l].try \in {1, 2}
          <5>1. ask[l] \in Task
            BY <1>0
          <5> QED
            BY <1>0, <4>1, <5>1 DEF Task, Tries
        <4> HIDE DEF s, key
        <4>3. SlotFits(s, ask'[l])
          BY <4>2 DEF SlotFits
        <4>4. \A k \in DOMAIN waiting' : SlotFits(waiting'[k], ask'[waiting'[k].letter])
          BY <2>5, <2>6, <4>1, <4>2, <4>3
        <4> QED
          BY <3>1, <4>4 DEF SlotInv, SlotFits
      <3>4. CASE ~AskSlotted(l)
        BY <1>3, <3>1, <3>2, <3>4
           DEF Asking, ServerStep, Call, AskBusy, AskSent, AskRouted, AskPut,
               AskTimesOut, Forget, AskAnswered, GiveUp, AskDropped, Without, serverVars
      <3> QED
        BY <3>3, <3>4
    <2>7. ASSUME Filled(Question(l)), waiting' = Without(KeyFor(Question(l))),
                 ask' = Fill(Question(l), tasks)
          PROVE  SlotInv' /\ GotInv'
      BY <2>3, <2>5, <2>7, QuestionIs, FillFits
    <2> QED
      BY <2>1, <2>2, <2>6, <2>7 DEF Moves
  <1>4. CASE Restart
    <2>1. DOMAIN <<>> = {}
      OBVIOUS
    <2>2. waiting' = <<>> /\ \A l \in Letters : ask'[l] = Over \/ ask'[l] = ask[l]
      BY <1>4 DEF Restart
    <2>3. \A l \in Letters : GotFits(ask'[l])
      BY <2>2, NoAskIs DEF GotInv, GotFits
    <2>4. DOMAIN waiting' = {}
      BY <2>1, <2>2
    <2> QED
      BY <2>3, <2>4 DEF SlotInv, GotInv, GotFits
  <1> QED
    BY <1>1, <1>2, <1>3, <1>4, NextCases, AroundFrame DEF vars, serverVars, Login
-----------------------------------------------------------------------------
(* Everything about one mailbox is of one account: the entry, the polls,    *)
(* what lies in it, and who is about to put something into it.              *)
HasEntry(c, b, x) == devices[c] # None /\ devices[c].box = b /\ devices[c].account = x
HasPoll(c, b, x) == \E i \in DOMAIN polls[c] : polls[c][i].box = b /\ polls[c][i].account = x
HasEnvelope(c, b, x) == \E j \in DOMAIN boxes[c][b] : boxes[c][b][j].account = x
HasAsk(c, b, x) ==
    \E l \in Letters : /\ ask[l].at = "found" /\ To[l] = c
                       /\ ask[l].box = b /\ ask[l].account = x
HasLink(c, b, x) ==
    \E d \in Computers : /\ link[d].at = "found" /\ Addressee(link[d].env) = c
                         /\ link[d].box = b /\ link[d].env.account = x
Has(c, b, x) ==
    HasEntry(c, b, x) \/ HasPoll(c, b, x) \/ HasEnvelope(c, b, x)
    \/ HasAsk(c, b, x) \/ HasLink(c, b, x)

OneAccount ==
    \A c \in Computers, b \in Boxes : \A x, y : Has(c, b, x) /\ Has(c, b, y) => x = y

LEMMA Fades ==
    ASSUME OneAccount,
           \A c \in Computers, b \in Boxes : \A x : Has(c, b, x)' => Has(c, b, x)
    PROVE  OneAccount'
  <1>1. \A c \in Computers, b \in Boxes : \A x, y : Has(c, b, x)' /\ Has(c, b, y)' => x = y
    BY DEF OneAccount
  <1> QED
    BY <1>1 DEF OneAccount

LEMMA EntryFades ==
    ASSUME DevicesOK, NEW c \in Computers, NEW b, NEW x,
           \/ devices' = devices \/ devices' = Swept
           \/ \E d \in Computers : Ages(d)
    PROVE  HasEntry(c, b, x)' => HasEntry(c, b, x)
  <1>1. CASE devices' = devices
    BY <1>1 DEF HasEntry
  <1>2. CASE devices' = Swept
    BY <1>2, SweptFacts DEF HasEntry
  <1>3. ASSUME NEW d \in Computers, Ages(d)
        PROVE  HasEntry(c, b, x)' => HasEntry(c, b, x)
    <2>1. devices[d] \in Entry /\ devices' = [devices EXCEPT ![d].fresh = FALSE]
      BY <1>3 DEF Ages, DevicesOK
    <2>2. /\ [devices[d] EXCEPT !.fresh = FALSE].box = devices[d].box
          /\ [devices[d] EXCEPT !.fresh = FALSE].account = devices[d].account
      BY <2>1 DEF Entry
    <2>3. devices'[c] = devices[c] \/ (c = d /\ devices'[c] = [devices[d] EXCEPT !.fresh = FALSE])
      BY <2>1 DEF DevicesOK
    <2>4. CASE c = d /\ devices'[c] = [devices[d] EXCEPT !.fresh = FALSE]
      <3>1. devices'[c].box = devices[c].box /\ devices'[c].account = devices[c].account
        BY <2>2, <2>4
      <3> QED
        BY <1>3, <2>4, <3>1 DEF HasEntry, Ages
    <2> QED
      BY <2>3, <2>4 DEF HasEntry
  <1> QED
    BY <1>1, <1>2, <1>3

LEMMA PollFades ==
    ASSUME PollsOK, NEW c \in Computers, NEW b, NEW x,
           \/ polls' = polls
           \/ \E d \in Computers : LinkGivesUp(d)
           \/ \E d \in Computers : \E i \in DOMAIN polls[d] :
                 polls' = [polls EXCEPT ![d] = RemoveAt(polls[d], i)]
    PROVE  HasPoll(c, b, x)' => HasPoll(c, b, x)
  <1>1. CASE polls' = polls
    BY <1>1 DEF HasPoll
  <1>2. ASSUME NEW d \in Computers, LinkGivesUp(d)
        PROVE  HasPoll(c, b, x)' => HasPoll(c, b, x)
    <2> DEFINE q == [i \in DOMAIN polls[d] |-> [polls[d][i] EXCEPT !.live = FALSE]]
    <2>1. polls'[c] = IF c = d THEN q ELSE polls[c]
      BY <1>2 DEF LinkGivesUp, PollsOK
    <2>2. DOMAIN q = DOMAIN polls[d]
          /\ \A i \in DOMAIN polls[d] : q[i].box = polls[d][i].box
                                       /\ q[i].account = polls[d][i].account
      <3>1. \A i \in DOMAIN polls[d] : polls[d][i] \in Poll
        BY DEF PollsOK
      <3> QED
        BY <3>1 DEF Poll
    <2> HIDE DEF q
    <2>3. CASE c = d
      BY <2>1, <2>2, <2>3 DEF HasPoll
    <2> QED
      BY <2>1, <2>3 DEF HasPoll
  <1>3. ASSUME NEW d \in Computers, NEW i \in DOMAIN polls[d],
               polls' = [polls EXCEPT ![d] = RemoveAt(polls[d], i)]
        PROVE  HasPoll(c, b, x)' => HasPoll(c, b, x)
    <2>1. PICK q : q = RemoveAt(polls[d], i)
      OBVIOUS
    <2>2. \A j \in DOMAIN q : \E k \in DOMAIN polls[d] : q[j] = polls[d][k]
      BY <2>1, LeavesQueue DEF PollsOK
    <2>3. polls'[c] = IF c = d THEN q ELSE polls[c]
      BY <1>3, <2>1 DEF PollsOK
    <2>4. CASE c = d
      BY <2>2, <2>3, <2>4 DEF HasPoll
    <2> QED
      BY <2>3, <2>4 DEF HasPoll
  <1> QED
    BY <1>1, <1>2, <1>3

LEMMA MailFades ==
    ASSUME Shrinks \/ boxes' = boxes, NEW c \in Computers, NEW b \in Boxes, NEW x
    PROVE  HasEnvelope(c, b, x)' => HasEnvelope(c, b, x)
  <1>1. CASE boxes' = boxes
    BY <1>1 DEF HasEnvelope
  <1>2. CASE Shrinks
    <2> SUFFICES ASSUME HasEnvelope(c, b, x)' PROVE HasEnvelope(c, b, x)
      OBVIOUS
    <2>1. PICK j \in DOMAIN boxes'[c][b] : boxes'[c][b][j].account = x
      BY DEF HasEnvelope
    <2>2. PICK i \in DOMAIN boxes[c][b] : boxes'[c][b][j] = boxes[c][b][i]
      BY <1>2 DEF Shrinks
    <2> QED
      BY <2>1, <2>2 DEF HasEnvelope
  <1> QED
    BY <1>1, <1>2

LEMMA LinkFades ==
    ASSUME NEW c \in Computers, NEW b, NEW x,
           \A d \in Computers : link'[d].at = "found" => link'[d] = link[d]
    PROVE  HasLink(c, b, x)' => HasLink(c, b, x)
  <1>1. ASSUME NEW d \in Computers, link'[d].at = "found", Addressee(link'[d].env) = c,
               link'[d].box = b, link'[d].env.account = x
        PROVE  HasLink(c, b, x)
    <2>1. link'[d] = link[d]
      BY <1>1
    <2> QED
      BY <1>1, <2>1 DEF HasLink
  <1> QED
    BY <1>1 DEF HasLink, Addressee

(* A poll that is let in finds the account of its mailbox, or the mailbox   *)
(* is new and nothing else is about it.                                     *)
LEMMA EnterAccount ==
    ASSUME TypeOK, OneAccount, NEW e \in Computers, Enter(e)
    PROVE  OneAccount'
  <1>0. DevicesOK /\ PollsOK /\ LinkOK
    BY Parts
  <1>1. PICK m \in Boxes :
           /\ Joins(e, m)
           /\ \/ Swept[e] # None /\ Swept[e].box = m /\ Swept[e].account = account[e]
              \/ Unused(e, m) /\ Keeps([boxes EXCEPT ![e][m] = <<>>])
    BY EnterFacts
  <1>2. Shrinks /\ UNCHANGED <<ask, waiting>>
    BY PollShrinks DEF Enter
  <1> DEFINE p == [box |-> m, live |-> TRUE, account |-> account[e]]
  <1>3. \A c \in Computers :
           /\ devices'[c] = IF c = e THEN [box |-> m, fresh |-> TRUE, account |-> account[e]]
                            ELSE Swept[c]
           /\ polls'[c] = IF c = e THEN Append(polls[e], p) ELSE polls[c]
    BY <1>0, <1>1, SweptFacts DEF Joins, PollsOK
  <1>4. \A i \in DOMAIN Append(polls[e], p) :
           \/ Append(polls[e], p)[i] = p
           \/ \E k \in DOMAIN polls[e] : Append(polls[e], p)[i] = polls[e][k]
    <2>1. polls[e] \in Seq(Poll) /\ Len(polls[e]) \in Nat
      BY <1>0 DEF PollsOK
    <2> HIDE DEF p
    <2>2. /\ DOMAIN Append(polls[e], p) = 1..(Len(polls[e]) + 1)
          /\ DOMAIN polls[e] = 1..Len(polls[e])
          /\ Append(polls[e], p)[Len(polls[e]) + 1] = p
          /\ \A k \in 1..Len(polls[e]) : Append(polls[e], p)[k] = polls[e][k]
      BY <2>1
    <2>3. \A i \in 1..(Len(polls[e]) + 1) : i = Len(polls[e]) + 1 \/ i \in 1..Len(polls[e])
      BY <2>1
    <2> QED
      BY <2>2, <2>3
  <1>5. p.box = m /\ p.account = account[e]
    OBVIOUS
  <1>6. PICK q : q = Append(polls[e], p)
    OBVIOUS
  <1>7. \A i \in DOMAIN q : (q[i].box = m /\ q[i].account = account[e])
                            \/ \E k \in DOMAIN polls[e] : q[i] = polls[e][k]
    BY <1>4, <1>5, <1>6
  <1>8. polls'[e] = q /\ \A c \in Computers : c # e => polls'[c] = polls[c]
    BY <1>3, <1>6
  <1> HIDE DEF p
  <1>9. \A d \in Computers : link'[d].at = "found" => link'[d] = link[d]
    BY <1>0 DEF Enter, At, LinkOK
  <1>10. ASSUME NEW c \in Computers, NEW b \in Boxes, NEW x
         PROVE  /\ HasEntry(c, b, x)' => HasEntry(c, b, x) \/ (c = e /\ b = m /\ x = account[e])
                /\ HasPoll(c, b, x)' => HasPoll(c, b, x) \/ (c = e /\ b = m /\ x = account[e])
                /\ HasEnvelope(c, b, x)' => HasEnvelope(c, b, x)
                /\ HasAsk(c, b, x)' => HasAsk(c, b, x)
                /\ HasLink(c, b, x)' => HasLink(c, b, x)
    <2>1. HasEntry(c, b, x)' => HasEntry(c, b, x) \/ (c = e /\ b = m /\ x = account[e])
      BY <1>0, <1>3, SweptFacts DEF HasEntry
    <2>2. HasPoll(c, b, x)' => HasPoll(c, b, x) \/ (c = e /\ b = m /\ x = account[e])
      BY <1>7, <1>8 DEF HasPoll
    <2>3. HasEnvelope(c, b, x)' => HasEnvelope(c, b, x)
      BY <1>2, MailFades
    <2>4. HasAsk(c, b, x)' => HasAsk(c, b, x)
      BY <1>2 DEF HasAsk
    <2>5. HasLink(c, b, x)' => HasLink(c, b, x)
      BY <1>9, LinkFades
    <2> QED
      BY <2>1, <2>2, <2>3, <2>4, <2>5
  <1>11. CASE Swept[e] # None /\ Swept[e].box = m /\ Swept[e].account = account[e]
    <2>1. HasEntry(e, m, account[e])
      BY <1>0, <1>11, SweptFacts DEF HasEntry
    <2>2. \A c \in Computers, b \in Boxes : \A x : Has(c, b, x)' => Has(c, b, x)
      BY <1>10, <2>1 DEF Has
    <2> QED
      BY <2>2, Fades
  <1>12. CASE Unused(e, m) /\ Keeps([boxes EXCEPT ![e][m] = <<>>])
    <2>1. boxes'[e][m] = <<>>
      <3> DEFINE mail == [boxes EXCEPT ![e][m] = <<>>]
      <3>1. mail[e][m] = <<>>
        BY Parts DEF MailOK
      <3>2. Keeps(mail)
        BY <1>12
      <3> HIDE DEF mail
      <3>3. boxes'[e][m] = mail[e][m] \/ boxes'[e][m] = <<>>
        BY <3>2 DEF Keeps
      <3> QED
        BY <3>1, <3>3
    <2>2. \A x : ~HasEnvelope(e, m, x)'
      <3>1. DOMAIN <<>> = {}
        OBVIOUS
      <3> QED
        BY <2>1, <3>1 DEF HasEnvelope
    <2>3. \A x : ~HasPoll(e, m, x) /\ ~HasAsk(e, m, x) /\ ~HasLink(e, m, x)
      BY <1>12 DEF Unused, HasPoll, HasAsk, HasLink
    <2>4. \A x : HasEntry(e, m, x)' => x = account[e]
      BY <1>3 DEF HasEntry
    <2>5. \A x : Has(e, m, x)' => x = account[e]
      BY <1>10, <2>2, <2>3, <2>4 DEF Has
    <2>6. \A c \in Computers, b \in Boxes : \A x :
             Has(c, b, x)' => Has(c, b, x) \/ (c = e /\ b = m)
      BY <1>10 DEF Has
    <2>7. \A c \in Computers, b \in Boxes : \A x, y :
             Has(c, b, x)' /\ Has(c, b, y)' => x = y
      <3> SUFFICES ASSUME NEW c \in Computers, NEW b \in Boxes, NEW x, NEW y,
                          Has(c, b, x)', Has(c, b, y)'
                   PROVE  x = y
        OBVIOUS
      <3>1. CASE c = e /\ b = m
        BY <2>5, <3>1
      <3>2. CASE ~(c = e /\ b = m)
        BY <2>6, <3>2 DEF OneAccount
      <3> QED
        BY <3>1, <3>2
    <2> QED
      BY <2>7 DEF OneAccount
  <1> QED
    BY <1>1, <1>11, <1>12

(* A task or a link thread that has found a mailbox has its account.        *)
LEMMA ReachesAccount ==
    ASSUME NEW e, Reachable(e)
    PROVE  HasEntry(Addressee(e), devices[Addressee(e)].box, e.account)
  BY DEF Reachable, HasEntry

(* What is put into a mailbox has its account.                              *)
LEMMA PutFades ==
    ASSUME MailOK, NEW e \in Envelope, NEW n \in Boxes, Put(e, n),
           Has(Addressee(e), n, e.account),
           NEW c \in Computers, NEW b \in Boxes, NEW x, HasEnvelope(c, b, x)'
    PROVE  Has(c, b, x)
  <1>1. PICK j \in DOMAIN boxes'[c][b] : boxes'[c][b][j].account = x
    BY DEF HasEnvelope
  <1>2. CASE \E i \in DOMAIN boxes[c][b] : boxes'[c][b][j] = boxes[c][b][i]
    BY <1>1, <1>2 DEF HasEnvelope, Has
  <1>3. CASE c = Addressee(e) /\ b = n /\ boxes'[c][b][j] = e
    BY <1>1, <1>3
  <1> QED
    BY <1>2, <1>3, PutFacts

LEMMA AccountStep ==
    ASSUME TypeOK, OneAccount, [Next]_vars
    PROVE  OneAccount'
  <1>0. DevicesOK /\ PollsOK /\ LinkOK /\ MailOK /\ TasksOK
    BY Parts
  <1>1. ASSUME UNCHANGED <<devices, polls, boxes, link, ask>> PROVE OneAccount'
    <2>1. ASSUME NEW c \in Computers, NEW b \in Boxes, NEW x, Has(c, b, x)'
          PROVE  Has(c, b, x)
      <3>1. HasEntry(c, b, x)' => HasEntry(c, b, x)
        BY <1>1 DEF HasEntry
      <3>2. HasPoll(c, b, x)' => HasPoll(c, b, x)
        BY <1>1 DEF HasPoll
      <3>3. HasEnvelope(c, b, x)' => HasEnvelope(c, b, x)
        BY <1>1 DEF HasEnvelope
      <3>4. HasAsk(c, b, x)' => HasAsk(c, b, x)
        BY <1>1 DEF HasAsk
      <3>5. HasLink(c, b, x)' => HasLink(c, b, x)
        BY <1>1, LinkFades
      <3> QED
        BY <2>1, <3>1, <3>2, <3>3, <3>4, <3>5 DEF Has
    <2> QED
      BY <2>1, Fades
  <1>2. CASE Around
    <2>1. UNCHANGED ask
      BY <1>2, AroundFrame
    <2>2. ASSUME \A d \in Computers : ~Enter(d) PROVE OneAccount'
      <3>1. \/ devices' = devices \/ devices' = Swept
            \/ \E d \in Computers : Ages(d)
        BY <1>2, <2>2 DEF Around, Peers, Refused, LinkGivesUp, PollTakes, PollEmpty,
                          PollDropped
      <3>2. \/ polls' = polls
            \/ \E d \in Computers : LinkGivesUp(d)
            \/ \E d \in Computers : \E i \in DOMAIN polls[d] :
                  polls' = [polls EXCEPT ![d] = RemoveAt(polls[d], i)]
        BY <1>2, <2>2 DEF Around, Peers, Refused, Ages, PollTakes, PollEmpty,
                          PollDropped, Receives
      <3>3. Shrinks \/ boxes' = boxes
        BY <1>2, PollShrinks DEF Around, Ages, LinkGivesUp
      <3>4. \A d \in Computers : link'[d].at = "found" => link'[d] = link[d]
        <4>1. ASSUME NEW c \in Computers, NEW r, r.at # "found", link' = [link EXCEPT ![c] = r]
              PROVE  \A d \in Computers : link'[d].at = "found" => link'[d] = link[d]
          BY <1>0, <4>1 DEF LinkOK
        <4>2. At("idle").at # "found"
          BY DEF At
        <4>3. CASE link' = link
          BY <4>3
        <4>4. ASSUME NEW c \in Computers, NEW i, PollTakes(c, i)
              PROVE  \A d \in Computers : link'[d].at = "found" => link'[d] = link[d]
          <5> DEFINE r == [at |-> "got", env |-> Head(boxes[c][polls[c][i].box]), box |-> 0]
          <5>1. \/ link' = link \/ link' = [link EXCEPT ![c] = r]
                \/ link' = [link EXCEPT ![c] = At("idle")]
            BY <4>4 DEF PollTakes
          <5>2. r.at # "found"
            OBVIOUS
          <5> HIDE DEF r
          <5> QED
            BY <4>1, <4>2, <4>3, <5>1, <5>2
        <4>5. ASSUME NEW c \in Computers, NEW i, PollEmpty(c, i) \/ LinkGivesUp(c)
              PROVE  \A d \in Computers : link'[d].at = "found" => link'[d] = link[d]
          <5>1. link' = link \/ link' = [link EXCEPT ![c] = At("idle")]
            BY <4>5 DEF PollEmpty, LinkGivesUp
          <5> QED
            BY <4>1, <4>2, <4>3, <5>1
        <4> QED
          BY <1>2, <2>2, <4>3, <4>4, <4>5 DEF Around, Peers, Refused, Ages, PollDropped
      <3>5. ASSUME NEW c \in Computers, NEW b \in Boxes, NEW x, Has(c, b, x)'
            PROVE  Has(c, b, x)
        <4>1. HasAsk(c, b, x)' => HasAsk(c, b, x)
          BY <2>1 DEF HasAsk
        <4>2. HasEntry(c, b, x)' => HasEntry(c, b, x)
          BY <1>0, <3>1, EntryFades
        <4>3. HasPoll(c, b, x)' => HasPoll(c, b, x)
          BY <1>0, <3>2, PollFades
        <4>4. HasEnvelope(c, b, x)' => HasEnvelope(c, b, x)
          BY <3>3, MailFades
        <4>5. HasLink(c, b, x)' => HasLink(c, b, x)
          BY <3>4, LinkFades
        <4> QED
          BY <3>5, <4>1, <4>2, <4>3, <4>4, <4>5 DEF Has
      <3> QED
        BY <3>5, Fades
    <2> QED
      BY <2>2, EnterAccount
  <1>3. ASSUME NEW e \in Envelope, NEW n, NEW c \in Computers, NEW b, Reachable(e),
               n = devices[Addressee(e)].box, Addressee(e) = c, n = b
        PROVE  HasEntry(c, b, e.account)
    BY <1>3, ReachesAccount
  <1>4. ASSUME NEW d \in Computers, Answering(d) PROVE OneAccount'
    <2> SUFFICES ASSUME NEW c \in Computers, NEW b \in Boxes, NEW x, Has(c, b, x)'
                 PROVE  Has(c, b, x)
      BY Fades
    <2>0. UNCHANGED <<devices, polls>>
      BY <1>4, AnsweringFrame
    <2>1. HasEntry(c, b, x)' => HasEntry(c, b, x)
      BY <2>0 DEF HasEntry
    <2>2. HasPoll(c, b, x)' => HasPoll(c, b, x)
      BY <2>0 DEF HasPoll
    <2>3. HasEnvelope(c, b, x)' => Has(c, b, x)
      <3>1. CASE boxes' = boxes
        BY <3>1 DEF HasEnvelope, Has
      <3>2. CASE AnswerPut(d)
        <4>1. /\ link[d].env \in Envelope /\ link[d].box \in Boxes
              /\ link[d].at = "found" /\ Put(link[d].env, link[d].box)
          BY <1>0, <3>2 DEF AnswerPut, LinkOK, LinkType
        <4>2. Has(Addressee(link[d].env), link[d].box, link[d].env.account)
          BY <4>1 DEF Has, HasLink
        <4> QED
          BY <1>0, <4>1, <4>2, PutFades
      <3> QED
        BY <1>4, <3>1, <3>2 DEF Answering, HandleEnvelope, AnswerSent, AnswerRouted,
                                AnswerLost, serverVars
    <2>4. HasAsk(c, b, x)' => HasAsk(c, b, x)
      <3>1. CASE ask' = ask
        BY <3>1 DEF HasAsk
      <3>2. CASE AnswerSent(d) /\ Filled(link[d].env)
        <4>1. /\ link[d].env \in Envelope /\ ask' = Fill(link[d].env, ask)
              /\ KeyFor(link[d].env) \in DOMAIN waiting /\ ask \in [Letters -> Task]
          BY <1>0, <3>2 DEF AnswerSent, LinkOK, LinkType, Filled, TasksOK
        <4>2. \A l \in Letters : /\ ask'[l].at = ask[l].at /\ ask'[l].box = ask[l].box
                                 /\ ask'[l].account = ask[l].account
          BY <4>1, FillKeeps
        <4> QED
          BY <4>2 DEF HasAsk
      <3> QED
        BY <1>4, <3>1, <3>2 DEF Answering, HandleEnvelope, AnswerSent, AnswerRouted,
                                AnswerPut, AnswerLost
    <2>5. HasLink(c, b, x)' => HasLink(c, b, x) \/ HasEntry(c, b, x)
      <3>1. CASE AnswerRouted(d)
        <4> DEFINE e == link[d].env
                   n == devices[Addressee(e)].box
        <4>1. e \in Envelope
          BY <1>0, <3>1 DEF AnswerRouted, LinkOK, LinkType
        <4>2. \/ link'[d].at = "idle"
              \/ Reachable(e) /\ link'[d] = [at |-> "found", env |-> e, box |-> n]
          BY <1>0, <3>1 DEF AnswerRouted, LinkOK, At
        <4>3. \A k \in Computers \ {d} : link'[k] = link[k]
          BY <1>0, <3>1 DEF AnswerRouted, LinkOK
        <4> HIDE DEF e, n
        <4>4. ASSUME NEW k \in Computers, link'[k].at = "found",
                     Addressee(link'[k].env) = c, link'[k].box = b, link'[k].env.account = x
              PROVE  HasLink(c, b, x) \/ HasEntry(c, b, x)
          <5>1. CASE k # d
            <6>1. link'[k] = link[k]
              BY <4>3, <5>1
            <6> QED
              BY <4>4, <6>1 DEF HasLink
          <5>2. CASE k = d
            <6>1. Reachable(e) /\ link'[k].env = e /\ link'[k].box = n
              BY <4>2, <4>4, <5>2
            <6>2. Addressee(e) = c /\ n = b /\ e.account = x
              BY <4>4, <6>1
            <6> QED
              BY <1>3, <4>1, <6>1, <6>2 DEF n
          <5> QED
            BY <5>1, <5>2
        <4> QED
          BY <4>4 DEF HasLink, Addressee
      <3>2. CASE ~AnswerRouted(d)
        <4>1. link[d].at \in {"got", "sending", "found"}
              /\ \/ link' = [link EXCEPT ![d] = At("idle")]
                 \/ \E r : link' = [link EXCEPT ![d] = r] /\ r.at \in {"sending", "routed"}
          <5>1. link[d] \in LinkType
            BY <1>0 DEF LinkOK
          <5> DEFINE r1 == [link[d] EXCEPT !.at = "routed"]
                     r2 == [at |-> "sending", box |-> 0,
                            env |-> [link[d].env EXCEPT !.kind = "answer",
                                                        !.account = account[d]]]
          <5>2. r1.at = "routed" /\ r2.at = "sending"
            BY <5>1 DEF LinkType
          <5>3. \/ link' = [link EXCEPT ![d] = At("idle")]
                \/ link' = [link EXCEPT ![d] = r1]
                \/ link' = [link EXCEPT ![d] = r2]
            BY <1>0, <1>4, <3>2 DEF Answering, HandleEnvelope, Answers, Ignores,
                                    AnswerSent, AnswerPut, AnswerLost, LinkOK
          <5>4. link[d].at \in {"got", "sending", "found"}
            BY <1>4, <3>2 DEF Answering, HandleEnvelope, AnswerSent, AnswerPut, AnswerLost
          <5> HIDE DEF r1, r2
          <5> QED
            BY <5>2, <5>3, <5>4
        <4>2. At("idle").at = "idle"
          BY DEF At
        <4>3. \A k \in Computers : link'[k].at = "found" => link'[k] = link[k]
          BY <1>0, <4>1, <4>2 DEF LinkOK
        <4> QED
          BY <4>3, LinkFades
      <3> QED
        BY <3>1, <3>2
    <2> QED
      BY <2>1, <2>2, <2>3, <2>4, <2>5 DEF Has
  <1>5. ASSUME NEW l \in Letters, Asking(l) PROVE OneAccount'
    <2> SUFFICES ASSUME NEW c \in Computers, NEW b \in Boxes, NEW x, Has(c, b, x)'
                 PROVE  Has(c, b, x)
      BY Fades
    <2>0. UNCHANGED <<devices, polls, link>>
      BY <1>5, AskingFrame
    <2>1. HasEntry(c, b, x)' => HasEntry(c, b, x)
      BY <2>0 DEF HasEntry
    <2>2. HasPoll(c, b, x)' => HasPoll(c, b, x)
      BY <2>0 DEF HasPoll
    <2>3. HasEnvelope(c, b, x)' => Has(c, b, x)
      <3>1. CASE boxes' = boxes
        BY <3>1 DEF HasEnvelope, Has
      <3>2. CASE AskPut(l)
        <4>1. /\ ask[l].box \in Boxes /\ ask[l].at = "found"
              /\ Put(Question(l), ask[l].box)
          BY <1>0, <3>2 DEF AskPut, TasksOK, Task
        <4>2. HasAsk(To[l], ask[l].box, ask[l].account)
          BY <4>1 DEF HasAsk
        <4>3. Has(Addressee(Question(l)), ask[l].box, Question(l).account)
          BY <4>2, QuestionIs DEF Has
        <4> QED
          BY <1>0, <4>1, <4>3, QuestionIs, PutFades
      <3> QED
        BY <1>5, <3>1, <3>2
           DEF Asking, ServerStep, Call, AskSlotted, AskBusy, AskSent, AskRouted,
               AskTimesOut, Forget, AskAnswered, GiveUp, AskDropped, serverVars
    <2>4. HasAsk(c, b, x)' => HasAsk(c, b, x) \/ HasEntry(c, b, x)
      <3>1. PICK t \in Task : Moves(l, t)
        BY <1>5, AskingMoves
      <3>2. PICK tasks : tasks = [ask EXCEPT ![l] = t]
        OBVIOUS
      <3>3. tasks \in [Letters -> Task]
            /\ \A m \in Letters : tasks[m] = IF m = l THEN t ELSE ask[m]
        BY <1>0, <3>2 DEF TasksOK
      <3>4. \A m \in Letters : /\ ask'[m].at = tasks[m].at /\ ask'[m].box = tasks[m].box
                               /\ ask'[m].account = tasks[m].account
        <4>1. CASE ask' = tasks
          BY <4>1
        <4>2. CASE Filled(Question(l)) /\ ask' = Fill(Question(l), tasks)
          BY <3>3, <4>2, QuestionIs, FillKeeps DEF Filled
        <4> QED
          BY <3>1, <3>2, <4>1, <4>2 DEF Moves
      <3>5. t.at = "found" => \/ t = ask[l]
                              \/ /\ Reachable(Question(l)) /\ t.box = devices[To[l]].box
                                 /\ t.account = ask[l].account
        BY <3>1, NoAskIs DEF Moves, Move, GoesOn, Same
      <3>6. ASSUME NEW m \in Letters, tasks[m].at = "found", To[m] = c, tasks[m].box = b,
                   tasks[m].account = x
            PROVE  HasAsk(c, b, x) \/ HasEntry(c, b, x)
        <4>1. CASE tasks[m] = ask[m]
          BY <3>6, <4>1 DEF HasAsk
        <4>2. CASE tasks[m] # ask[m]
          <5>1. m = l /\ Reachable(Question(l)) /\ b = devices[c].box /\ x = ask[l].account
            BY <3>3, <3>5, <3>6, <4>2
          <5>2. Question(l) \in Envelope /\ Addressee(Question(l)) = c /\ Question(l).account = x
            BY <3>6, <5>1, QuestionIs
          <5>3. HasEntry(c, devices[c].box, x)
            BY <5>1, <5>2, ReachesAccount
          <5> QED
            BY <5>1, <5>3
        <4> QED
          BY <4>1, <4>2
      <3> QED
        BY <3>4, <3>6 DEF HasAsk
    <2>5. HasLink(c, b, x)' => HasLink(c, b, x)
      BY <2>0, LinkFades
    <2> QED
      BY <2>1, <2>2, <2>3, <2>4, <2>5 DEF Has
  <1>6. CASE Restart
    <2> SUFFICES ASSUME NEW c \in Computers, NEW b \in Boxes, NEW x, Has(c, b, x)'
                 PROVE  Has(c, b, x)
      BY Fades
    <2>0. DOMAIN <<>> = {}
      OBVIOUS
    <2>1. devices'[c] = None /\ polls'[c] = <<>> /\ boxes'[c][b] = <<>>
      BY <1>6 DEF Restart
    <2>2. ~HasEntry(c, b, x)' /\ ~HasPoll(c, b, x)' /\ ~HasEnvelope(c, b, x)'
      BY <2>0, <2>1 DEF HasEntry, HasPoll, HasEnvelope
    <2>3. ~HasAsk(c, b, x)'
      <3>1. \A l \in Letters : ask'[l].at # "found"
        BY <1>6, NoAskIs DEF Restart
      <3> QED
        BY <3>1 DEF HasAsk
    <2>4. ~HasLink(c, b, x)'
      <3>1. \A d \in Computers : link'[d].at # "found"
        BY <1>6 DEF Restart, At
      <3> QED
        BY <3>1 DEF HasLink
    <2> QED
      BY <2>2, <2>3, <2>4 DEF Has
  <1> QED
    BY <1>1, <1>2, <1>4, <1>5, <1>6, NextCases DEF vars, serverVars, Login

(* What a poll may take, and what a question is answered with, was sent     *)
(* under the account the poll and the question came with: computers may     *)
(* change accounts, and entries be thrown out and made again, at any moment.*)
THEOREM InAccount == Spec => []MailStaysInAccount
  <1>1. Init => OneAccount /\ SlotInv /\ GotInv
    <2> SUFFICES ASSUME Init PROVE OneAccount /\ SlotInv /\ GotInv
      OBVIOUS
    <2>0. DOMAIN <<>> = {}
      OBVIOUS
    <2>1. SlotInv
      BY <2>0 DEF Init, SlotInv
    <2>2. GotInv
      BY NoAskIs DEF Init, GotInv, GotFits
    <2>3. \A c \in Computers, b \in Boxes : \A x : ~Has(c, b, x)
      <3> SUFFICES ASSUME NEW c \in Computers, NEW b \in Boxes, NEW x PROVE ~Has(c, b, x)
        OBVIOUS
      <3>1. devices[c] = None /\ polls[c] = <<>> /\ boxes[c][b] = <<>>
        BY DEF Init
      <3>2. ~HasEntry(c, b, x) /\ ~HasPoll(c, b, x) /\ ~HasEnvelope(c, b, x)
        BY <2>0, <3>1 DEF HasEntry, HasPoll, HasEnvelope
      <3>3. ~HasAsk(c, b, x) /\ ~HasLink(c, b, x)
        BY NoAskIs DEF Init, HasAsk, HasLink, At
      <3> QED
        BY <3>2, <3>3 DEF Has
    <2> QED
      BY <2>1, <2>2, <2>3 DEF OneAccount
  <1>2. TypeOK /\ OneAccount /\ SlotInv /\ GotInv /\ [Next]_vars =>
           (OneAccount /\ SlotInv /\ GotInv)'
    BY AccountStep, SlotStep
  <1>3. TypeOK /\ OneAccount /\ GotInv => MailStaysInAccount
    <2> SUFFICES ASSUME TypeOK, OneAccount, GotInv PROVE MailStaysInAccount
      OBVIOUS
    <2>1. ASSUME NEW c \in Computers, NEW i \in DOMAIN polls[c],
                 NEW j \in DOMAIN boxes[c][polls[c][i].box]
          PROVE  boxes[c][polls[c][i].box][j].account = polls[c][i].account
      <3>1. polls[c][i].box \in Boxes
        <4>1. polls[c][i] \in Poll
          BY Parts DEF PollsOK
        <4> QED
          BY <4>1 DEF Poll
      <3>2. /\ HasPoll(c, polls[c][i].box, polls[c][i].account)
            /\ HasEnvelope(c, polls[c][i].box, boxes[c][polls[c][i].box][j].account)
        BY <2>1 DEF HasPoll, HasEnvelope
      <3> QED
        BY <3>1, <3>2 DEF OneAccount, Has
    <2>2. \A l \in Letters : ask[l].got # None => ask[l].got.account = ask[l].account
      BY DEF GotInv, GotFits
    <2> QED
      BY <2>1, <2>2 DEF MailStaysInAccount
  <1> QED
    BY <1>1, <1>2, <1>3, TypeCorrect, PTL DEF Spec
-----------------------------------------------------------------------------
(* The promise of `dct send`.  A letter is asked when its question has been *)
(* put somewhere from where its addressee may still handle it, or has been  *)
(* handled.                                                                 *)
Lies(e) ==
    \/ \E c \in Computers, b \in Boxes : \E j \in DOMAIN boxes[c][b] : boxes[c][b][j] = e
    \/ \E c \in Computers : link[c].env = e

Asked(l, t) ==
    \/ <<l, t>> \in handled
    \/ \E e \in Envelope : Lies(e) /\ e.kind = "question" /\ e.letter = l /\ e.try = t

Away == {"offline", "refused"}

(* The sender of a letter that is asked waits for it, or will be told       *)
(* nothing, or nothing that denies it.                                      *)
AskedFits(task, word, t) ==
    \/ /\ task.try = t
       /\ task.at = "waiting" \/ (task.at = "forgetting" /\ task.why = "noanswer")
    \/ task.at = "over" /\ word \notin Away

PromiseInv ==
    /\ \A l \in Letters, t \in Tries : Asked(l, t) => AskedFits(ask[l], told[l], t)
    /\ \A l \in Letters : \A t, u \in Tries : Asked(l, t) /\ Asked(l, u) => t = u
    /\ \A e \in Envelope :
          e.kind = "answer" /\ (Lies(e) \/ \E l \in Letters : ask[l].got = e) =>
             <<e.letter, e.try>> \in handled
    /\ \A l \in Letters : told[l] \in Away => ask[l].at = "over"
    /\ \A l \in Letters : told[l] = "receipt" => \E t \in Tries : <<l, t>> \in handled

(* What the sender of a letter is told, by a step of the server or of its   *)
(* client.                                                                  *)
Tells(l, w) ==
    /\ told[l] = "" /\ told' = [told EXCEPT ![l] = w]
    /\ \/ w = "noanswer"
       \/ w = "receipt" /\ ask[l].got # None /\ Opens(l, ask[l].got)
       \/ /\ w \in Away /\ ask'[l].at = "over"
          /\ ask[l].at = "called" \/ (ask[l].at = "forgetting" /\ ask[l].why # "noanswer")

LEMMA AskingTells ==
    ASSUME TypeOK, WhyInv, NEW l \in Letters, Asking(l)
    PROVE  told' = told \/ \E w \in Words : Tells(l, w)
  <1>0. RestOK /\ TasksOK
    BY Parts
  <1>1. ASSUME NEW why \in Reasons, Failed(l, why),
               why # "noanswer" => \/ ask[l].at = "called"
                                   \/ (ask[l].at = "forgetting" /\ ask[l].why # "noanswer")
        PROVE  told' = told \/ \E w \in Words : Tells(l, w)
    <2>1. CASE told' = told
      BY <2>1
    <2>2. CASE /\ told[l] = "" /\ ask' = [ask EXCEPT ![l] = Over]
               /\ told' = [told EXCEPT ![l] = IF why = "busy" THEN "refused" ELSE why]
      <3> DEFINE w == IF why = "busy" THEN "refused" ELSE why
      <3>1. w \in Words /\ (w = "noanswer" \/ (w \in Away /\ why # "noanswer"))
        BY DEF Reasons, Words, Away
      <3>2. ask'[l].at = "over"
        BY <1>0, <2>2, NoAskIs DEF TasksOK
      <3>3. told[l] = "" /\ told' = [told EXCEPT ![l] = w]
        BY <2>2
      <3> HIDE DEF w
      <3>4. Tells(l, w)
        BY <1>1, <3>1, <3>2, <3>3 DEF Tells
      <3> QED
        BY <3>1, <3>4
    <2> QED
      BY <1>1, <2>1, <2>2 DEF Failed
  <1>2. CASE AskBusy(l)
    <2>1. "busy" \in Reasons /\ ask[l].at = "called" /\ Failed(l, "busy")
      BY <1>2 DEF AskBusy, Reasons
    <2> QED
      BY <1>1, <2>1
  <1>3. CASE Forget(l)
    <2>1. ask[l].at = "forgetting" /\ Failed(l, ask[l].why) /\ ask[l].why \in Reasons
      BY <1>3 DEF Forget, WhyInv
    <2> QED
      BY <1>1, <2>1
  <1>4. CASE AskAnswered(l)
    <2>1. "receipt" \in Words /\ "noanswer" \in Words
      BY DEF Words
    <2>2. \/ told' = told
          \/ Tells(l, "receipt") \/ Tells(l, "noanswer")
      BY <1>4 DEF AskAnswered, Tells
    <2> QED
      BY <2>1, <2>2
  <1>5. CASE GiveUp(l)
    <2>1. "noanswer" \in Words
      BY DEF Words
    <2>2. Tells(l, "noanswer")
      BY <1>5 DEF GiveUp, Tells
    <2> QED
      BY <2>1, <2>2
  <1> QED
    BY <1>2, <1>3, <1>4, <1>5
       DEF Asking, ServerStep, Call, AskSlotted, AskSent, AskRouted, AskPut,
           AskTimesOut, AskDropped

(* A step that lets no envelope lie anywhere new.                           *)
LEMMA NothingNewLies ==
    ASSUME PromiseInv, UNCHANGED <<ask, told, handled>>,
           \A e \in Envelope : Lies(e)' => Lies(e)
    PROVE  PromiseInv'
  <1>1. \A l \in Letters, t \in Tries : Asked(l, t)' => Asked(l, t)
    BY DEF Asked
  <1>2. \A l \in Letters, t \in Tries : Asked(l, t)' => AskedFits(ask'[l], told'[l], t)
    BY <1>1 DEF PromiseInv, AskedFits
  <1>3. \A l \in Letters : \A t, u \in Tries : Asked(l, t)' /\ Asked(l, u)' => t = u
    BY <1>1 DEF PromiseInv
  <1>4. \A e \in Envelope :
          e.kind = "answer" /\ (Lies(e)' \/ \E l \in Letters : ask'[l].got = e) =>
             <<e.letter, e.try>> \in handled'
    BY DEF PromiseInv
  <1>5. /\ \A l \in Letters : told'[l] \in Away => ask'[l].at = "over"
        /\ \A l \in Letters : told'[l] = "receipt" => \E t \in Tries : <<l, t>> \in handled'
    BY DEF PromiseInv, Away
  <1> QED
    BY <1>2, <1>3, <1>4, <1>5 DEF PromiseInv, AskedFits, Away

LEMMA ShrinksLies ==
    ASSUME Shrinks \/ boxes' = boxes, NEW e \in Envelope,
           \A c \in Computers : \/ link'[c].env = link[c].env \/ link'[c].env = None
                                \/ Lies(link'[c].env)
    PROVE  Lies(e)' => Lies(e)
  <1> SUFFICES ASSUME Lies(e)' PROVE Lies(e)
    OBVIOUS
  <1>1. ASSUME NEW c \in Computers, link'[c].env = e PROVE Lies(e)
    <2>1. e # None
      BY NoneAssumption
    <2> QED
      BY <1>1, <2>1 DEF Lies
  <1>2. ASSUME NEW c \in Computers, NEW b \in Boxes, NEW j \in DOMAIN boxes'[c][b],
               boxes'[c][b][j] = e
        PROVE  Lies(e)
    <2>1. CASE boxes' = boxes
      BY <1>2, <2>1 DEF Lies
    <2>2. CASE Shrinks
      <3>1. PICK i \in DOMAIN boxes[c][b] : boxes'[c][b][j] = boxes[c][b][i]
        BY <2>2 DEF Shrinks
      <3> QED
        BY <1>2, <3>1 DEF Lies
    <2> QED
      BY <2>1, <2>2
  <1> QED
    BY <1>1, <1>2 DEF Lies

(* Among the steps around the mailboxes, only a poll that takes gives a     *)
(* link thread an envelope, the first of a mailbox.                         *)
LEMMA AroundLies ==
    ASSUME TypeOK, Around, NEW e \in Envelope
    PROVE  Lies(e)' => Lies(e)
  <1>0. LinkOK /\ PollsOK /\ MailOK
    BY Parts
  <1>1. Shrinks \/ boxes' = boxes
    BY PollShrinks DEF Around, Ages, LinkGivesUp
  <1>2. At("idle").env = None /\ At("polling").env = None
    BY DEF At
  <1>3. ASSUME NEW d \in Computers, NEW i, PollTakes(d, i)
        PROVE  \A c \in Computers : \/ link'[c].env = link[c].env \/ link'[c].env = None
                                    \/ Lies(link'[c].env)
    <2> DEFINE b == polls[d][i].box
               h == Head(boxes[d][b])
    <2>1. \/ link' = link \/ link' = [link EXCEPT ![d] = At("idle")]
          \/ link' = [link EXCEPT ![d] = [at |-> "got", env |-> h, box |-> 0]]
      BY <1>3 DEF PollTakes
    <2>2. Lies(h)
      <3>1. b \in Boxes /\ boxes[d][b] # <<>>
        <4>1. polls[d][i] \in Poll
          BY <1>0, <1>3 DEF PollTakes, Receives, PollsOK
        <4> QED
          BY <1>3, <4>1 DEF Poll, PollTakes
      <3> HIDE DEF b
      <3>2. boxes[d][b] \in Seq(Envelope)
        BY <1>0, <3>1 DEF MailOK
      <3>3. 1 \in DOMAIN boxes[d][b] /\ h = boxes[d][b][1]
        BY <3>1, <3>2
      <3> HIDE DEF h
      <3> QED
        BY <3>1, <3>3 DEF Lies
    <2> HIDE DEF h
    <2> QED
      BY <1>0, <1>2, <2>1, <2>2 DEF LinkOK
  <1>4. ASSUME \A d \in Computers : \A i : ~PollTakes(d, i)
        PROVE  \A c \in Computers : link'[c].env = link[c].env \/ link'[c].env = None
    <2>1. \/ link' = link
          \/ \E d \in Computers : \/ link' = [link EXCEPT ![d] = At("idle")]
                                  \/ link' = [link EXCEPT ![d] = At("polling")]
      BY <1>4 DEF Around, Peers, Enter, Refused, Ages, LinkGivesUp, PollEmpty, PollDropped
    <2> QED
      BY <1>0, <1>2, <2>1 DEF LinkOK
  <1> QED
    BY <1>1, <1>3, <1>4, ShrinksLies

(* What an envelope that was put somewhere makes lie.                       *)
LEMMA PutLies ==
    ASSUME MailOK, NEW q \in Envelope, NEW n \in Boxes, Put(q, n),
           \A c \in Computers : link'[c].env = link[c].env \/ link'[c].env = None,
           NEW e \in Envelope, Lies(e)'
    PROVE  Lies(e) \/ (e = q /\ Accepts(Addressee(q), n))
  <1>1. ASSUME NEW c \in Computers, link'[c].env = e PROVE Lies(e)
    <2>1. e # None
      BY NoneAssumption
    <2> QED
      BY <1>1, <2>1 DEF Lies
  <1>2. ASSUME NEW c \in Computers, NEW b \in Boxes, NEW j \in DOMAIN boxes'[c][b],
               boxes'[c][b][j] = e
        PROVE  Lies(e) \/ (e = q /\ Accepts(Addressee(q), n))
    <2>1. CASE \E i \in DOMAIN boxes[c][b] : boxes'[c][b][j] = boxes[c][b][i]
      BY <1>2, <2>1 DEF Lies
    <2>2. CASE boxes'[c][b][j] = q /\ Accepts(Addressee(q), n)
      BY <1>2, <2>2
    <2> QED
      BY <2>1, <2>2, PutFacts
  <1> QED
    BY <1>1, <1>2 DEF Lies

(* The mesh of the addressee acts on a question that lay at its link thread:*)
(* what it answers with is about the same try.                              *)
LEMMA HandlingKeeps ==
    ASSUME TypeOK, PromiseInv, NEW c \in Computers, HandleEnvelope(c)
    PROVE  /\ PromiseInv'
           /\ \/ handled' = handled
              \/ \E l \in Letters, t \in Tries :
                    /\ Asked(l, t) /\ <<l, t>> \notin handled
                    /\ handled' = handled \cup {<<l, t>>}
  <1>0. LinkOK
    BY Parts
  <1>1. UNCHANGED <<boxes, ask, told>> /\ link[c] \in LinkType /\ link[c].at = "got"
    BY <1>0 DEF HandleEnvelope, serverVars, LinkOK
  <1>2. PICK e \in Envelope : e = link[c].env
    BY <1>0, <1>1 DEF LinkOK, LinkType
  <1>3. Lies(e)
    BY <1>2 DEF Lies
  <1>4. CASE Ignores(c, e)
    <2>1. handled' = handled /\ link' = [link EXCEPT ![c] = At("idle")]
      BY <1>4 DEF Ignores
    <2>2. \A d \in Computers : link'[d].env = link[d].env \/ link'[d].env = None
      BY <1>0, <2>1 DEF LinkOK, At
    <2>3. \A x \in Envelope : Lies(x)' => Lies(x)
      BY <1>1, <2>2, ShrinksLies
    <2> QED
      BY <1>1, <2>1, <2>3, NothingNewLies
  <1>5. CASE Answers(c, e)
    <2>1. PICK l \in Letters, t \in Tries : l = e.letter /\ t = e.try
      BY DEF Envelope
    <2>2. /\ e.kind = "question" /\ <<l, t>> \notin handled
          /\ handled' = handled \cup {<<l, t>>}
      BY <1>5, <2>1 DEF Answers
    <2>3. Asked(l, t)
      BY <1>3, <2>1, <2>2 DEF Asked
    <2> DEFINE a == [e EXCEPT !.kind = "answer", !.account = account[c]]
    <2>4. a.kind = "answer" /\ a.letter = l /\ a.try = t
      BY <2>1 DEF Envelope
    <2>5. \A d \in Computers : link'[d].env = link[d].env \/ link'[d].env = None
                               \/ link'[d].env = a
      <3>1. \/ link' = [link EXCEPT ![c] = At("idle")]
            \/ link' = [link EXCEPT ![c] = [at |-> "sending", box |-> 0, env |-> a]]
        BY <1>5 DEF Answers
      <3> HIDE DEF a
      <3> QED
        BY <1>0, <3>1 DEF LinkOK, At
    <2> HIDE DEF a
    <2>6. \A x \in Envelope : Lies(x)' => Lies(x) \/ x = a
      <3> SUFFICES ASSUME NEW x \in Envelope, Lies(x)' PROVE Lies(x) \/ x = a
        OBVIOUS
      <3>1. x # None
        BY NoneAssumption
      <3> QED
        BY <1>1, <2>5, <3>1 DEF Lies
    <2>7. \A m \in Letters, u \in Tries : Asked(m, u)' => Asked(m, u)
      <3> SUFFICES ASSUME NEW m \in Letters, NEW u \in Tries, Asked(m, u)'
                   PROVE  Asked(m, u)
        OBVIOUS
      <3>1. CASE <<m, u>> \in handled'
        BY <2>2, <2>3, <3>1 DEF Asked
      <3>2. CASE \E x \in Envelope : /\ Lies(x)' /\ x.kind = "question"
                                     /\ x.letter = m /\ x.try = u
        BY <2>4, <2>6, <3>2 DEF Asked
      <3> QED
        BY <3>1, <3>2 DEF Asked
    <2>8. \A m \in Letters, u \in Tries : Asked(m, u)' => AskedFits(ask'[m], told'[m], u)
      BY <1>1, <2>7 DEF PromiseInv
    <2>9. \A m \in Letters : \A u, v \in Tries : Asked(m, u)' /\ Asked(m, v)' => u = v
      BY <2>7 DEF PromiseInv
    <2>10. \A x \in Envelope :
              x.kind = "answer" /\ (Lies(x)' \/ \E m \in Letters : ask'[m].got = x) =>
                 <<x.letter, x.try>> \in handled'
      BY <1>1, <2>2, <2>4, <2>6 DEF PromiseInv
    <2>11. /\ \A m \in Letters : told'[m] \in Away => ask'[m].at = "over"
           /\ \A m \in Letters : told'[m] = "receipt" => \E u \in Tries : <<m, u>> \in handled'
      BY <1>1, <2>2 DEF PromiseInv, Away
    <2>12. PromiseInv'
      BY <2>8, <2>9, <2>10, <2>11 DEF PromiseInv, AskedFits, Away
    <2> QED
      BY <2>2, <2>3, <2>12
  <1> QED
    BY <1>2, <1>4, <1>5 DEF HandleEnvelope

LEMMA AnsweringKeeps ==
    ASSUME TypeOK, PromiseInv, NEW c \in Computers, Answering(c), ~HandleEnvelope(c)
    PROVE  PromiseInv' /\ UNCHANGED <<told, handled>>
  <1>0. LinkOK /\ MailOK /\ TasksOK /\ link[c] \in LinkType
    BY Parts DEF LinkOK
  <1>1. UNCHANGED <<told, handled>>
    BY DEF Answering, AnswerSent, AnswerRouted, AnswerPut, AnswerLost
  <1>2. link[c].env \in Envelope /\ Lies(link[c].env)
    BY <1>0 DEF Answering, AnswerSent, AnswerRouted, AnswerPut, AnswerLost, LinkOK,
                LinkType, Lies
  <1>3. \A d \in Computers : link'[d].env = link[d].env \/ link'[d].env = None
    <2> DEFINE r1 == [link[c] EXCEPT !.at = "routed"]
               r2 == [at |-> "found", env |-> link[c].env,
                      box |-> devices[Addressee(link[c].env)].box]
    <2>1. \/ link' = [link EXCEPT ![c] = At("idle")]
          \/ link' = [link EXCEPT ![c] = r1] \/ link' = [link EXCEPT ![c] = r2]
      BY <1>0 DEF Answering, AnswerSent, AnswerRouted, AnswerPut, AnswerLost, LinkOK
    <2>2. r1.env = link[c].env /\ r2.env = link[c].env /\ At("idle").env = None
      BY <1>0 DEF LinkType, At
    <2> HIDE DEF r1, r2
    <2> QED
      BY <1>0, <2>1, <2>2 DEF LinkOK
  <1>4. \A e \in Envelope : Lies(e)' => Lies(e)
    <2> TAKE e \in Envelope
    <2>1. CASE boxes' = boxes
      BY <1>3, <2>1, ShrinksLies
    <2>2. CASE AnswerPut(c)
      <3>1. link[c].box \in Boxes /\ Put(link[c].env, link[c].box)
        BY <1>0, <2>2 DEF AnswerPut, LinkOK, LinkType
      <3>2. Lies(e)' => Lies(e) \/ e = link[c].env
        BY <1>0, <1>2, <1>3, <3>1, PutLies
      <3> QED
        BY <1>2, <3>2
    <2> QED
      BY <2>1, <2>2 DEF Answering, AnswerSent, AnswerRouted, AnswerLost, serverVars
  <1>5. CASE ask' = ask
    BY <1>1, <1>4, <1>5, NothingNewLies
  <1>6. CASE AnswerSent(c) /\ Filled(link[c].env)
    <2> DEFINE e == link[c].env
    <2>1. /\ ask' = Fill(e, ask) /\ KeyFor(e) \in DOMAIN waiting
          /\ ask \in [Letters -> Task]
      BY <1>0, <1>6 DEF AnswerSent, Filled, TasksOK
    <2>2. \A l \in Letters : /\ ask'[l].at = ask[l].at /\ ask'[l].try = ask[l].try
                             /\ ask'[l].why = ask[l].why
                             /\ ask'[l].got = ask[l].got \/ ask'[l].got = e
      BY <1>2, <2>1, FillKeeps
    <2> HIDE DEF e
    <2>3. \A l \in Letters, t \in Tries : Asked(l, t)' => Asked(l, t)
      BY <1>1, <1>4 DEF Asked
    <2>4. \A l \in Letters, t \in Tries : Asked(l, t)' => AskedFits(ask'[l], told'[l], t)
      <3> TAKE l \in Letters, t \in Tries
      <3>1. Asked(l, t)' => AskedFits(ask[l], told[l], t)
        BY <2>3 DEF PromiseInv
      <3>2. AskedFits(ask[l], told[l], t) => AskedFits(ask'[l], told'[l], t)
        BY <1>1, <2>2 DEF AskedFits
      <3> QED
        BY <3>1, <3>2
    <2>5. \A l \in Letters : \A t, u \in Tries : Asked(l, t)' /\ Asked(l, u)' => t = u
      BY <2>3 DEF PromiseInv
    <2>6. \A x \in Envelope :
             x.kind = "answer" /\ (Lies(x)' \/ \E l \in Letters : ask'[l].got = x) =>
                <<x.letter, x.try>> \in handled'
      BY <1>1, <1>2, <1>4, <2>2 DEF PromiseInv, e
    <2>7. /\ \A l \in Letters : told'[l] \in Away => ask'[l].at = "over"
          /\ \A l \in Letters : told'[l] = "receipt" => \E t \in Tries : <<l, t>> \in handled'
      BY <1>1, <2>2 DEF PromiseInv, Away
    <2> QED
      BY <1>1, <2>4, <2>5, <2>6, <2>7 DEF PromiseInv, AskedFits, Away
  <1> QED
    BY <1>1, <1>5, <1>6 DEF Answering, AnswerSent, AnswerRouted, AnswerPut, AnswerLost

LEMMA AskingKeeps ==
    ASSUME TypeOK, WhyInv, PromiseInv, NEW l \in Letters, Asking(l)
    PROVE  PromiseInv'
  <1>0. MailOK /\ TasksOK /\ ask \in [Letters -> Task] /\ ask[l] \in Task /\ RestOK
    BY Parts DEF TasksOK
  <1>1. UNCHANGED <<link, handled>>
    BY AskingFrame
  <1>2. PICK t \in Task : Moves(l, t)
    BY AskingMoves
  <1>3. PICK tasks : tasks = [ask EXCEPT ![l] = t]
    OBVIOUS
  <1>4. tasks \in [Letters -> Task]
        /\ \A m \in Letters : tasks[m] = IF m = l THEN t ELSE ask[m]
    BY <1>0, <1>3
  <1> DEFINE q == Question(l)
  <1>5. q \in Envelope /\ q.kind = "question" /\ q.letter = l /\ q.try = ask[l].try
        /\ Addressee(q) = To[l]
    BY QuestionIs
  <1>6. \A m \in Letters : /\ ask'[m].at = tasks[m].at /\ ask'[m].try = tasks[m].try
                           /\ ask'[m].why = tasks[m].why
                           /\ ask'[m].got = tasks[m].got \/ ask'[m].got = q
    <2>1. CASE ask' = tasks
      BY <2>1
    <2>2. CASE Filled(q) /\ ask' = Fill(q, tasks)
      BY <1>4, <1>5, <2>2, FillKeeps DEF Filled
    <2> QED
      BY <1>2, <1>3, <2>1, <2>2 DEF Moves
  <1>7. Move(l, ask[l], t)
    BY <1>2 DEF Moves
  <1>8. told' = told \/ \E w \in Words : Tells(l, w)
    BY AskingTells
  <1>9. /\ \A m \in Letters \ {l} : told'[m] = told[m]
        /\ told'[l] = told[l] \/ /\ told[l] = "" /\ Tells(l, told'[l])
    <2>1. CASE told' = told
      BY <2>1
    <2>2. ASSUME NEW w \in Words, Tells(l, w)
          PROVE  /\ \A m \in Letters \ {l} : told'[m] = told[m]
                 /\ told[l] = "" /\ Tells(l, told'[l])
      <3>1. told' = [told EXCEPT ![l] = w] /\ told[l] = ""
        BY <2>2 DEF Tells
      <3>2. told'[l] = w /\ \A m \in Letters \ {l} : told'[m] = told[m]
        BY <1>0, <3>1 DEF RestOK
      <3> QED
        BY <2>2, <3>1, <3>2
    <2> QED
      BY <1>8, <2>1, <2>2
  (* Only what is put into a mailbox lies there new: the question of l.     *)
  <1>10. /\ \A e \in Envelope : Lies(e)' => Lies(e) \/ e = q
         /\ (\A e \in Envelope : Lies(e)' => Lies(e))
            \/ (ask[l].at = "found" /\ t.at = "waiting" /\ t.try = ask[l].try)
    <2>1. CASE AskPut(l)
      <3>1. ask[l].box \in Boxes /\ Put(q, ask[l].box) /\ ask[l].at = "found"
        BY <1>0, <2>1 DEF AskPut, TasksOK, Task
      <3>2. \A e \in Envelope : Lies(e)' => Lies(e) \/ (e = q /\ Accepts(To[l], ask[l].box))
        BY <1>0, <1>1, <1>5, <3>1, PutLies
      <3>3. CASE ~Accepts(To[l], ask[l].box)
        BY <3>2, <3>3
      <3>4. CASE Accepts(To[l], ask[l].box)
        <4> DEFINE r == [ask[l] EXCEPT !.at = "waiting", !.box = 0]
        <4>1. ask' = [ask EXCEPT ![l] = r]
          BY <1>0, <2>1, <3>4 DEF AskPut
        <4>2. r.at = "waiting" /\ r.try = ask[l].try
          BY <1>0 DEF Task
        <4> HIDE DEF r
        <4>3. t.at = "waiting" /\ t.try = ask[l].try
          BY <1>0, <1>4, <1>6, <4>1, <4>2
        <4> QED
          BY <3>1, <3>2, <4>3
      <3> QED
        BY <3>3, <3>4
    <2>2. CASE boxes' = boxes
      BY <1>1, <2>2, ShrinksLies
    <2> QED
      BY <2>1, <2>2
         DEF Asking, ServerStep, Call, AskSlotted, AskBusy, AskSent, AskRouted,
             AskTimesOut, Forget, AskAnswered, GiveUp, AskDropped, serverVars
  <1> HIDE DEF q
  <1>11. \A m \in Letters, u \in Tries :
            Asked(m, u)' => \/ Asked(m, u)
                            \/ /\ m = l /\ u = ask[l].try /\ ask[l].at = "found"
                               /\ t.at = "waiting" /\ t.try = u
    <2> SUFFICES ASSUME NEW m \in Letters, NEW u \in Tries, Asked(m, u)', ~Asked(m, u)
                 PROVE  /\ m = l /\ u = ask[l].try /\ ask[l].at = "found"
                        /\ t.at = "waiting" /\ t.try = u
      OBVIOUS
    <2>1. PICK e \in Envelope : /\ Lies(e)' /\ ~Lies(e) /\ e.kind = "question"
                                /\ e.letter = m /\ e.try = u
      BY <1>1 DEF Asked
    <2> QED
      BY <1>5, <1>10, <2>1
  <1>12. ASSUME NEW u \in Tries, AskedFits(ask[l], told[l], u)
         PROVE  AskedFits(t, told'[l], u)
    <2>1. CASE ask[l].at = "over"
      <3>1. t.at = "over"
        BY <1>7, <2>1, NoAskIs DEF Move, GoesOn
      <3>2. told'[l] \notin Away
        BY <1>9, <1>12, <2>1 DEF AskedFits, Tells, Away
      <3> QED
        BY <3>1, <3>2 DEF AskedFits
    <2>2. CASE /\ ask[l].try = u
               /\ ask[l].at = "waiting" \/ (ask[l].at = "forgetting" /\ ask[l].why = "noanswer")
      <3>1. told[l] \notin Away
        BY <2>2 DEF PromiseInv
      <3>2. told'[l] \notin Away
        BY <1>9, <2>2, <3>1 DEF Tells, Away
      <3>3. \/ t = ask[l] \/ t = Over
            \/ t.at = "forgetting" /\ t.why = "noanswer" /\ t.try = u
        BY <1>7, <2>2 DEF Move, GoesOn, Same
      <3> QED
        BY <2>2, <3>2, <3>3, NoAskIs DEF AskedFits
    <2> QED
      BY <1>12, <2>1, <2>2 DEF AskedFits
  <1>13. ASSUME NEW m \in Letters, NEW u \in Tries, Asked(m, u)'
         PROVE  AskedFits(ask'[m], told'[m], u)
    <2>1. AskedFits(tasks[m], told'[m], u) => AskedFits(ask'[m], told'[m], u)
      BY <1>6 DEF AskedFits
    <2>2. CASE m # l
      BY <1>4, <1>9, <1>11, <1>13, <2>1, <2>2 DEF PromiseInv
    <2>3. CASE m = l /\ Asked(m, u)
      BY <1>4, <1>12, <2>1, <2>3 DEF PromiseInv
    <2>4. CASE m = l /\ ~Asked(m, u)
      <3>1. t.at = "waiting" /\ t.try = u
        BY <1>11, <1>13, <2>4
      <3> QED
        BY <1>4, <2>1, <2>4, <3>1 DEF AskedFits
    <2> QED
      BY <2>2, <2>3, <2>4
  <1>14. \A m \in Letters : \A u, v \in Tries : Asked(m, u)' /\ Asked(m, v)' => u = v
    <2> SUFFICES ASSUME NEW m \in Letters, NEW u \in Tries, NEW v \in Tries,
                        Asked(m, u)', Asked(m, v)'
                 PROVE  u = v
      OBVIOUS
    <2>1. CASE Asked(m, u) /\ Asked(m, v)
      BY <2>1 DEF PromiseInv
    <2>2. CASE ~Asked(m, u) \/ ~Asked(m, v)
      <3>1. m = l /\ ask[l].at = "found"
        BY <1>11, <2>2
      <3>2. \A w \in Tries : ~Asked(l, w)
        BY <3>1 DEF PromiseInv, AskedFits
      <3> QED
        BY <1>11, <3>1, <3>2
    <2> QED
      BY <2>1, <2>2
  <1>15. \A e \in Envelope :
            e.kind = "answer" /\ (Lies(e)' \/ \E m \in Letters : ask'[m].got = e) =>
               <<e.letter, e.try>> \in handled'
    <2> SUFFICES ASSUME NEW e \in Envelope, e.kind = "answer",
                        Lies(e)' \/ \E m \in Letters : ask'[m].got = e
                 PROVE  <<e.letter, e.try>> \in handled
      BY <1>1
    <2>1. e # q /\ e # None
      BY <1>5, NoneAssumption
    <2>2. CASE Lies(e)'
      BY <1>10, <2>1, <2>2 DEF PromiseInv
    <2>3. ASSUME NEW m \in Letters, ask'[m].got = e PROVE <<e.letter, e.try>> \in handled
      <3>1. tasks[m].got = e
        BY <1>6, <2>1, <2>3
      <3>2. t.got = ask[l].got \/ t.got = None
        BY <1>7, NoAskIs DEF Move, Same
      <3>3. ask[m].got = e
        BY <1>4, <2>1, <3>1, <3>2
      <3> QED
        BY <3>3 DEF PromiseInv
    <2> QED
      BY <2>2, <2>3
  <1>16. \A m \in Letters : told'[m] \in Away => ask'[m].at = "over"
    <2> SUFFICES ASSUME NEW m \in Letters, told'[m] \in Away PROVE ask'[m].at = "over"
      OBVIOUS
    <2>1. CASE told'[m] = told[m]
      <3>1. ask[m].at = "over"
        BY <2>1 DEF PromiseInv
      <3>2. t.at = "over" \/ m # l
        BY <1>7, <3>1, NoAskIs DEF Move, GoesOn
      <3> QED
        BY <1>4, <1>6, <3>1, <3>2
    <2>2. CASE told'[m] # told[m]
      BY <1>9, <2>2 DEF Tells, Away
    <2> QED
      BY <2>1, <2>2
  <1>17. \A m \in Letters : told'[m] = "receipt" => \E u \in Tries : <<m, u>> \in handled'
    <2> SUFFICES ASSUME NEW m \in Letters, told'[m] = "receipt"
                 PROVE  \E u \in Tries : <<m, u>> \in handled
      BY <1>1
    <2>1. CASE told'[m] = told[m]
      BY <2>1 DEF PromiseInv
    <2>2. CASE told'[m] # told[m]
      <3>1. m = l /\ ask[l].got # None /\ Opens(l, ask[l].got)
        BY <1>9, <2>2 DEF Tells, Away
      <3>2. ask[l].got \in Envelope /\ ask[l].try \in Tries
        BY <1>0, <3>1 DEF Task
      <3> QED
        BY <3>1, <3>2 DEF Opens, PromiseInv
    <2> QED
      BY <2>1, <2>2
  <1> QED
    BY <1>13, <1>14, <1>15, <1>16, <1>17 DEF PromiseInv, AskedFits, Away

(* When the relay stops, nothing lies in a mailbox any more, and who waits  *)
(* is told that there is no answer.                                         *)
LEMMA RestartKeeps ==
    ASSUME TypeOK, PromiseInv, Restart
    PROVE  PromiseInv'
  <1>0. LinkOK /\ MailOK /\ RestOK
    BY Parts
  <1>1. /\ handled' = handled
        /\ \A l \in Letters : \/ ask'[l] = Over
                              \/ ask[l].at = "idle" /\ ask'[l] = ask[l]
    BY DEF Restart
  <1>2. \A l \in Letters : told'[l] = told[l] \/ (told[l] = "" /\ told'[l] = "noanswer")
    BY DEF Restart
  <1>3. \A e \in Envelope : Lies(e)' => Lies(e)
    <2>1. \A c \in Computers : link'[c].env = link[c].env \/ link'[c].env = None
      BY DEF Restart, At
    <2>2. \A c \in Computers, b \in Boxes : DOMAIN boxes'[c][b] = {}
      <3>1. DOMAIN <<>> = {}
        OBVIOUS
      <3>2. \A c \in Computers, b \in Boxes : boxes'[c][b] = <<>>
        BY DEF Restart
      <3> QED
        BY <3>1, <3>2
    <2> QED
      BY <2>1, <2>2, NoneAssumption DEF Lies
  <1>4. \A l \in Letters, t \in Tries : Asked(l, t)' => Asked(l, t)
    BY <1>1, <1>3 DEF Asked
  <1>5. ASSUME NEW l \in Letters, NEW t \in Tries, Asked(l, t)'
        PROVE  AskedFits(ask'[l], told'[l], t)
    <2>1. AskedFits(ask[l], told[l], t)
      BY <1>4, <1>5 DEF PromiseInv
    <2>2. told[l] \notin Away
      BY <2>1 DEF AskedFits, PromiseInv
    <2>3. told'[l] \notin Away
      BY <1>2, <2>2 DEF Away
    <2> QED
      BY <1>1, <2>1, <2>3, NoAskIs DEF AskedFits
  <1>6. \A l \in Letters : \A t, u \in Tries : Asked(l, t)' /\ Asked(l, u)' => t = u
    BY <1>4 DEF PromiseInv
  <1>7. \A e \in Envelope :
           e.kind = "answer" /\ (Lies(e)' \/ \E l \in Letters : ask'[l].got = e) =>
              <<e.letter, e.try>> \in handled'
    <2> SUFFICES ASSUME NEW e \in Envelope, e.kind = "answer",
                        Lies(e)' \/ \E l \in Letters : ask'[l].got = e
                 PROVE  <<e.letter, e.try>> \in handled
      BY <1>1
    <2>1. ASSUME NEW l \in Letters, ask'[l].got = e PROVE ask[l].got = e
      BY <1>1, <2>1, NoAskIs, NoneAssumption
    <2> QED
      BY <1>3, <2>1 DEF PromiseInv
  <1>8. \A l \in Letters : told'[l] \in Away => ask'[l].at = "over"
    <2> SUFFICES ASSUME NEW l \in Letters, told'[l] \in Away PROVE ask'[l].at = "over"
      OBVIOUS
    <2>1. told[l] \in Away
      BY <1>2 DEF Away
    <2> QED
      BY <1>1, <2>1, NoAskIs DEF PromiseInv
  <1>9. \A l \in Letters : told'[l] = "receipt" => \E t \in Tries : <<l, t>> \in handled'
    <2> SUFFICES ASSUME NEW l \in Letters, told'[l] = "receipt"
                 PROVE  \E t \in Tries : <<l, t>> \in handled
      BY <1>1
    <2>1. told[l] = "receipt"
      BY <1>2
    <2> QED
      BY <2>1 DEF PromiseInv
  <1> QED
    BY <1>5, <1>6, <1>7, <1>8, <1>9 DEF PromiseInv, AskedFits, Away

LEMMA PromiseStep ==
    ASSUME TypeOK, WhyInv, PromiseInv, [Next]_vars
    PROVE  PromiseInv'
  <1>1. CASE UNCHANGED <<boxes, link, ask, told, handled>>
    <2>1. \A e \in Envelope : Lies(e)' => Lies(e)
      BY <1>1, ShrinksLies
    <2> QED
      BY <1>1, <2>1, NothingNewLies
  <1>2. CASE Around
    <2>1. \A e \in Envelope : Lies(e)' => Lies(e)
      BY <1>2, AroundLies
    <2> QED
      BY <1>2, <2>1, NothingNewLies, AroundFrame
  <1>3. ASSUME NEW c \in Computers, Answering(c) PROVE PromiseInv'
    BY <1>3, HandlingKeeps, AnsweringKeeps
  <1>4. ASSUME NEW l \in Letters, Asking(l) PROVE PromiseInv'
    BY <1>4, AskingKeeps
  <1> QED
    BY <1>1, <1>2, <1>3, <1>4, RestartKeeps, NextCases DEF vars, serverVars, Login
-----------------------------------------------------------------------------
(* Relay implements LetterPromise.                                          *)
HandledTries(l) == {t \in Tries : <<l, t>> \in handled}

LEMMA HowOften ==
    ASSUME NEW l \in Letters
    PROVE  /\ (\A t \in Tries : <<l, t>> \notin handled) => Cardinality(HandledTries(l)) = 0
           /\ \A t \in Tries : /\ <<l, t>> \in handled
                               /\ \A u \in Tries : <<l, u>> \in handled => u = t
                               => Cardinality(HandledTries(l)) = 1
  <1>1. ASSUME \A t \in Tries : <<l, t>> \notin handled
        PROVE  Cardinality(HandledTries(l)) = 0
    <2>1. HandledTries(l) = {}
      BY <1>1 DEF HandledTries
    <2> QED
      BY <2>1, FS_EmptySet
  <1>2. ASSUME NEW t \in Tries, <<l, t>> \in handled,
               \A u \in Tries : <<l, u>> \in handled => u = t
        PROVE  Cardinality(HandledTries(l)) = 1
    <2>1. HandledTries(l) = {t}
      BY <1>2 DEF HandledTries
    <2> QED
      BY <2>1, FS_Singleton
  <1> QED
    BY <1>1, <1>2

handledBar == [l \in Letters |-> Cardinality({t \in Tries : <<l, t>> \in handled})]

LEMMA BarIs ==
    /\ \A l \in Letters : handledBar[l] = Cardinality(HandledTries(l))
    /\ DOMAIN handledBar = Letters
    /\ handledBar = [l \in Letters |-> handledBar[l]]
  BY DEF handledBar, HandledTries

(* A letter no try of which is asked has not been handled; one that has     *)
(* been handled has been so once.                                           *)
LEMMA OnceInAll ==
    ASSUME PromiseInv, NEW l \in Letters
    PROVE  /\ (\A t \in Tries : <<l, t>> \notin handled) => handledBar[l] = 0
           /\ (\E t \in Tries : <<l, t>> \in handled) => handledBar[l] = 1
  <1>1. ASSUME \A t \in Tries : <<l, t>> \notin handled PROVE handledBar[l] = 0
    BY <1>1, HowOften, BarIs
  <1>2. ASSUME NEW t \in Tries, <<l, t>> \in handled PROVE handledBar[l] = 1
    <2>1. \A u \in Tries : <<l, u>> \in handled => u = t
      BY <1>2 DEF PromiseInv, Asked
    <2> QED
      BY <1>2, <2>1, HowOften, BarIs
  <1> QED
    BY <1>1, <1>2

LEMMA PromiseInit == Init => Promise!Init /\ PromiseInv
  <1> SUFFICES ASSUME Init PROVE Promise!Init /\ PromiseInv
    OBVIOUS
  <1>0. DOMAIN <<>> = {}
    OBVIOUS
  <1>1. \A e \in Envelope : ~Lies(e)
    <2>1. \A c \in Computers, b \in Boxes : boxes[c][b] = <<>>
      BY DEF Init
    <2>2. \A c \in Computers : link[c].env = None
      BY DEF Init, At
    <2> QED
      BY <1>0, <2>1, <2>2, NoneAssumption DEF Lies
  <1>2. \A l \in Letters, t \in Tries : ~Asked(l, t)
    BY <1>1 DEF Init, Asked
  <1>3. \A l \in Letters : told[l] = "" /\ ask[l].got = None
    BY NoAskIs DEF Init
  <1>4. PromiseInv
    BY <1>1, <1>2, <1>3, NoneAssumption DEF PromiseInv, Away
  <1>5. \A l \in Letters : handledBar[l] = 0
    BY <1>4, OnceInAll DEF Init
  <1>6. handledBar = [l \in Letters |-> 0]
    BY <1>5, BarIs
  <1> QED
    BY <1>4, <1>6 DEF Init, Promise!Init, handledBar

LEMMA PromiseRefined ==
    ASSUME TypeOK, WhyInv, PromiseInv, [Next]_vars
    PROVE  [Promise!Next]_Promise!letterVars
  <1>0. PromiseInv' /\ RestOK
    BY PromiseStep, Parts
  <1>1. CASE handled' = handled /\ told' = told
    BY <1>1 DEF Promise!letterVars
  <1>2. ASSUME NEW c \in Computers, HandleEnvelope(c)
        PROVE  [Promise!Next]_Promise!letterVars
    <2>1. told' = told
      BY <1>2 DEF HandleEnvelope
    <2>2. CASE handled' = handled
      BY <1>1, <2>1, <2>2
    <2>3. ASSUME NEW l \in Letters, NEW t \in Tries, Asked(l, t), <<l, t>> \notin handled,
                 handled' = handled \cup {<<l, t>>}
          PROVE  Promise!Handle(l)
      <3>1. \A u \in Tries : <<l, u>> \notin handled
        BY <2>3 DEF PromiseInv, Asked
      <3>2. handledBar[l] = 0
        BY <3>1, OnceInAll
      <3>3. handledBar'[l] = 1
        <4>1. <<l, t>> \in handled' /\ \A u \in Tries : <<l, u>> \in handled' => u = t
          BY <2>3, <3>1
        <4>2. {u \in Tries : <<l, u>> \in handled'} = {t}
          BY <4>1
        <4>3. Cardinality({u \in Tries : <<l, u>> \in handled'}) = 1
          BY <4>2, FS_Singleton
        <4> QED
          BY <4>3 DEF handledBar
      <3>4. \A m \in Letters \ {l} : handledBar'[m] = handledBar[m]
        <4> TAKE m \in Letters \ {l}
        <4>1. {u \in Tries : <<m, u>> \in handled'} = {u \in Tries : <<m, u>> \in handled}
          BY <2>3
        <4> QED
          BY <4>1 DEF handledBar
      <3>5. handledBar' = [handledBar EXCEPT ![l] = 1]
        BY <3>3, <3>4 DEF handledBar
      <3>6. told[l] \in {"", "noanswer"}
        <4>1. told[l] \notin Away
          BY <2>3 DEF PromiseInv, AskedFits
        <4>2. told[l] # "receipt"
          BY <3>1 DEF PromiseInv
        <4>3. told[l] \in Words \cup {""}
          BY <1>0 DEF RestOK
        <4> QED
          BY <4>1, <4>2, <4>3 DEF Words, Away
      <3> QED
        BY <2>1, <3>2, <3>5, <3>6 DEF Promise!Handle, handledBar
    <2>4. \/ handled' = handled
          \/ \E l \in Letters : Promise!Handle(l)
      BY <1>2, <2>3, HandlingKeeps
    <2> QED
      BY <2>2, <2>4 DEF Promise!Next
  <1>3. ASSUME NEW l \in Letters, Asking(l)
        PROVE  [Promise!Next]_Promise!letterVars
    <2>1. handled' = handled
      BY <1>3, AskingFrame
    <2>2. CASE told' = told
      BY <1>1, <2>1, <2>2
    <2>3. ASSUME NEW w \in Words, Tells(l, w) PROVE Promise!Tell(l, w)
      <3>1. told[l] = "" /\ told' = [told EXCEPT ![l] = w]
        BY <2>3 DEF Tells
      <3>2. w \in Away => handledBar[l] = 0
        <4> SUFFICES ASSUME w \in Away PROVE handledBar[l] = 0
          OBVIOUS
        <4>1. ask[l].at = "called" \/ (ask[l].at = "forgetting" /\ ask[l].why # "noanswer")
          BY <2>3 DEF Tells, Away
        <4>2. \A t \in Tries : <<l, t>> \notin handled
          BY <4>1 DEF PromiseInv, AskedFits, Asked
        <4> QED
          BY <4>2, OnceInAll
      <3>3. w = "receipt" => handledBar[l] = 1
        <4> SUFFICES ASSUME w = "receipt" PROVE handledBar[l] = 1
          OBVIOUS
        <4>1. told'[l] = "receipt"
          BY <1>0, <3>1 DEF RestOK
        <4>2. \E t \in Tries : <<l, t>> \in handled
          BY <1>0, <2>1, <4>1 DEF PromiseInv
        <4> QED
          BY <4>2, OnceInAll
      <3>4. handledBar' = handledBar
        BY <2>1 DEF handledBar
      <3> QED
        BY <3>1, <3>2, <3>3, <3>4 DEF Promise!Tell, Promise!Away, handledBar, Away
    <2> QED
      BY <1>3, <2>2, <2>3, AskingTells DEF Promise!Next, Promise!Words, Promise!Away, Words
  <1>4. CASE Restart
    <2>1. handled' = handled
          /\ \A l \in Letters : told'[l] = told[l] \/ (told[l] = "" /\ told'[l] = "noanswer")
      BY <1>4 DEF Restart
    <2>2. told' \in [Letters -> Words \cup {""}]
      BY <1>4, WhyInv, RestStep DEF RestOK
    <2>3. Words = Promise!Words
      BY DEF Words, Promise!Words, Promise!Away
    <2>4. Promise!TellNobody
      BY <2>1, <2>2, <2>3 DEF Promise!TellNobody
    <2> QED
      BY <2>4 DEF Promise!Next
  <1>5. ASSUME NEW c \in Computers, Answering(c), ~HandleEnvelope(c)
        PROVE  handled' = handled /\ told' = told
    BY <1>5, AnsweringKeeps
  <1> QED
    BY <1>1, <1>2, <1>3, <1>4, <1>5, NextCases, AroundFrame DEF vars, Login

(* Relay keeps what LetterPromise says of `dct send`: whatever is lost,     *)
(* refused, thrown out or restarted, a letter is handled at most once, its  *)
(* sender is told one thing at most, a receipt only when it was handled,    *)
(* and that nobody is there or that it was turned down only when it was not *)
(* and never will be.                                                       *)
THEOREM PromiseKept == Spec => KeepsPromise
  <1>1. TypeOK /\ WhyInv /\ PromiseInv /\ [Next]_vars => PromiseInv'
    BY PromiseStep
  <1>2. TypeOK /\ WhyInv /\ PromiseInv /\ [Next]_vars =>
           [Promise!Next]_Promise!letterVars
    BY PromiseRefined
  <1>3. Spec => [](TypeOK /\ WhyInv)
    BY TypeInvariant
  <1> QED
    BY <1>1, <1>2, <1>3, PromiseInit, PTL DEF Spec, KeepsPromise, Promise!Spec
=============================================================================
