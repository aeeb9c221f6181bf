---------------------------- MODULE GroupProofs -----------------------------
(***************************************************************************)
(* Theorems about Group, for any computers, codes and threads: rosters and *)
(* codes keep their types, a code lets in one computer, nobody is on a     *)
(* roster uninvited, what the user is told of a code is so, and a roster   *)
(* is replaced only as RosterPromise allows.                               *)
(***************************************************************************)
EXTENDS Group, TLAPS

-----------------------------------------------------------------------------
(* Types.                                                                   *)

Typed ==
    /\ roster \in [Computers -> Roster]
    /\ \A c \in Computers : c \in roster[c].members
    /\ invite \in [Computers -> Invites]
    /\ note \in [Computers -> Notes]
    /\ spent \in [Computers -> SUBSET Codes]
    /\ join \in [Joins -> Threads]
    /\ asks \subseteq Question
    /\ issuer \in Seq(Computers) /\ Len(issuer) <= MaxCodes
    /\ signed \subseteq Roster
    /\ admitted \subseteq Admission
    /\ joined \subseteq Admission

LEMMA InviteParts ==
    ASSUME NEW i \in Invites
    PROVE  /\ i.at \in {"none", "live", "flight"}
           /\ i = NoInvite <=> i.at = "none"
           /\ i.at # "none" => i.code \in Codes
           /\ i.at = "flight" => i.peer \in Computers
  BY DEF Invites, NoInvite, Live, InFlight

LEMMA ThreadParts ==
    ASSUME NEW t \in Threads
    PROVE  /\ t = Idle <=> t.at = "idle"
           /\ t.at = "probing" => t.me \in Computers /\ t.code \in Codes
           /\ t.at \in {"waits", "keyed", "handed", "refused"} => t.ask \in Question
           /\ t.at = "handed" => t.roster \in Roster
           /\ t.at \in {"idle", "probing", "waits", "keyed", "handed", "refused"}
  <1>1. CASE t = Idle
    BY <1>1 DEF Idle
  <1>2. ASSUME NEW b \in Computers, NEW k \in Codes, t = Probing(b, k)
        PROVE  t.at = "probing" /\ t.me = b /\ t.code = k /\ t # Idle
    BY <1>2 DEF Probing, Idle
  <1>3. ASSUME NEW q \in Question, t \in {Waits(q), Keyed(q), Refused(q)}
        PROVE  t.at \in {"waits", "keyed", "refused"} /\ t.ask = q /\ t # Idle
    BY <1>3 DEF Waits, Keyed, Refused, Idle
  <1>4. ASSUME NEW q \in Question, NEW r \in Roster, t = Handed(q, r)
        PROVE  t.at = "handed" /\ t.ask = q /\ t.roster = r /\ t # Idle
    BY <1>4 DEF Handed, Idle
  <1>5. \/ t = Idle
        \/ \E b \in Computers, k \in Codes : t = Probing(b, k)
        \/ \E q \in Question : t \in {Waits(q), Keyed(q), Refused(q)}
        \/ \E q \in Question, r \in Roster : t = Handed(q, r)
    BY DEF Threads
  <1>6. CASE t = Idle
    BY <1>1, <1>6 DEF Idle
  <1>7. CASE \E b \in Computers, k \in Codes : t = Probing(b, k)
    BY <1>2, <1>7
  <1>8. CASE \E q \in Question : t \in {Waits(q), Keyed(q), Refused(q)}
    BY <1>3, <1>8
  <1>9. CASE \E q \in Question, r \in Roster : t = Handed(q, r)
    BY <1>4, <1>9
  <1> QED
    BY <1>5, <1>6, <1>7, <1>8, <1>9

LEMMA SignNextType ==
    ASSUME Typed, NEW c \in Computers, CanSignNext(c),
           NEW ms \in SUBSET Computers
    PROVE  SignNext(c, ms) \in Roster
  <1>1. roster[c].group \in Computers /\ roster[c].version \in 1..MaxVersion
    BY DEF Typed, Roster
  <1>2. roster[c].version + 1 \in 1..MaxVersion
    BY <1>1, BoundAssumption DEF CanSignNext
  <1> QED
    BY <1>1, <1>2 DEF SignNext, Roster

LEMMA CommitType ==
    ASSUME Typed, NEW c \in Computers, NEW r \in Roster, c \in r.members,
           Commit(c, r)
    PROVE  /\ roster' \in [Computers -> Roster]
           /\ \A d \in Computers : d \in roster'[d].members
           /\ roster'[c] = r
           /\ \A d \in Computers \ {c} : roster'[d] = roster[d]
  BY DEF Typed, Commit

LEMMA GenesisType ==
    ASSUME Typed, NEW c \in Computers
    PROVE  Genesis(c, roster[c].group) \in Roster
  <1>1. roster[c].group \in Computers /\ 1 \in 1..MaxVersion
    BY BoundAssumption DEF Typed, Roster
  <1> QED
    BY <1>1 DEF Genesis, Roster

LEMMA AnsweredType ==
    ASSUME Typed, NEW q \in Question, NEW t \in Threads, Answered(q, t)
    PROVE  join' \in [Joins -> Threads]
  BY DEF Typed, Answered

LEMMA EndInviteType ==
    ASSUME Typed, NEW c \in Computers, NEW o \in Outcomes,
           invite[c].at # "none", EndInvite(c, o)
    PROVE  invite' \in [Computers -> Invites] /\ note' \in [Computers -> Notes]
  <1>1. invite[c].code \in Codes
    BY InviteParts DEF Typed
  <1> QED
    BY <1>1 DEF Typed, EndInvite, Invites, Notes

LEMMA ThreadTypes ==
    /\ Idle \in Threads
    /\ \A b \in Computers, k \in Codes : Probing(b, k) \in Threads
    /\ \A q \in Question : {Waits(q), Keyed(q), Refused(q)} \subseteq Threads
    /\ \A q \in Question, r \in Roster : Handed(q, r) \in Threads
  BY DEF Threads

LEMMA InitTyped == Init => Typed
  <1> SUFFICES ASSUME Init PROVE Typed
    OBVIOUS
  <1>1. \A c \in Computers : Genesis(c, c) \in Roster /\ c \in Genesis(c, c).members
    BY BoundAssumption DEF Genesis, Roster
  <1>2. NoInvite \in Invites /\ NoNote \in Notes /\ Idle \in Threads
    BY ThreadTypes DEF Invites, Notes
  <1>3. issuer \in Seq(Computers) /\ Len(issuer) <= MaxCodes
    BY BoundAssumption DEF Init
  <1> QED
    BY <1>1, <1>2, <1>3 DEF Init, Typed

LEMMA RosterStepTyped ==
    ASSUME Typed, NEW c \in Computers,
           \/ Rename(c)
           \/ \E who \in Computers : Remove(c, who)
           \/ \E r \in signed : TakeRoster(c, r)
    PROVE  Typed'
  <1>1. CASE Rename(c)
    <2> DEFINE r == Genesis(c, roster[c].group)
    <2>1. r \in Roster /\ c \in r.members
      BY GenesisType DEF Genesis
    <2>2. Commit(c, r) /\ signed' = signed \cup {r}
          /\ UNCHANGED <<memory, join, asks, issuer, admitted, joined>>
      BY <1>1 DEF Rename
    <2> HIDE DEF r
    <2> QED
      BY <2>1, <2>2, CommitType DEF Typed, memory
  <1>2. ASSUME NEW who \in Computers, Remove(c, who) PROVE Typed'
    <2> DEFINE r == SignNext(c, roster[c].members \ {who})
    <2>1. roster[c].members \subseteq Computers /\ c \in roster[c].members
      BY DEF Typed, Roster
    <2>2. r \in Roster /\ c \in r.members
      BY <1>2, <2>1, SignNextType DEF Remove, SignNext
    <2>3. Commit(c, r) /\ signed' = signed \cup {r}
          /\ UNCHANGED <<memory, join, asks, issuer, admitted, joined>>
      BY <1>2 DEF Remove
    <2> HIDE DEF r
    <2> QED
      BY <2>2, <2>3, CommitType DEF Typed, memory
  <1>3. ASSUME NEW r \in signed, TakeRoster(c, r) PROVE Typed'
    <2>1. r \in Roster /\ c \in r.members
      BY <1>3 DEF Typed, TakeRoster
    <2> QED
      BY <1>3, <2>1, CommitType DEF Typed, memory, history, TakeRoster
  <1> QED
    BY <1>1, <1>2, <1>3

LEMMA InviteStepTyped ==
    ASSUME Typed, NEW c \in Computers,
           StartInvite(c) \/ CancelInvite(c) \/ ExpireInvite(c) \/ Restart(c)
    PROVE  Typed'
  <1>1. CASE StartInvite(c)
    <2>1. Len(issuer) \in Nat /\ Len(issuer) < MaxCodes
      BY <1>1 DEF Typed, StartInvite
    <2>2. Len(issuer) + 1 \in Codes
      BY <2>1, BoundAssumption DEF Codes
    <2>3. issuer' \in Seq(Computers) /\ Len(issuer') <= MaxCodes
      BY <1>1, <2>1, BoundAssumption DEF Typed, StartInvite
    <2>4. invite' \in [Computers -> Invites]
      BY <1>1, <2>2 DEF Typed, StartInvite, Invites
    <2> QED
      BY <1>1, <2>3, <2>4 DEF Typed, StartInvite
  <1>2. CASE CancelInvite(c)
    <2>1. invite' \in [Computers -> Invites]
      BY <1>2 DEF Typed, CancelInvite, Invites
    <2> QED
      BY <1>2, <2>1 DEF Typed, CancelInvite, history
  <1>3. CASE ExpireInvite(c)
    <2>1. PICK o \in Outcomes : EndInvite(c, o)
      BY <1>3 DEF ExpireInvite, Outcomes
    <2>2. invite[c].at # "none"
      BY <1>3, InviteParts DEF Typed, ExpireInvite
    <2> QED
      BY <1>3, <2>1, <2>2, EndInviteType DEF Typed, ExpireInvite, history
  <1>4. CASE Restart(c)
    <2>1. NoInvite \in Invites /\ NoNote \in Notes
      BY DEF Invites, Notes
    <2>2. join' \in [Joins -> Threads]
      BY <1>4, ThreadTypes DEF Typed, Restart
    <2>3. invite' \in [Computers -> Invites] /\ note' \in [Computers -> Notes]
      BY <1>4, <2>1 DEF Typed, Restart
    <2>4. spent' \in [Computers -> SUBSET Codes]
      BY <1>4 DEF Typed, Restart
    <2> QED
      BY <1>4, <2>2, <2>3, <2>4 DEF Typed, Restart, history
  <1> QED
    BY <1>1, <1>2, <1>3, <1>4

LEMMA LetsType ==
    ASSUME Typed, NEW q \in Question, Lets(q)
    PROVE  admitted' \subseteq Admission
  <1>1. roster[q.to].group \in Computers
    BY DEF Typed, Question, Roster
  <1>2. [code |-> q.code, who |-> q.from, by |-> q.to,
         group |-> roster[q.to].group] \in Admission
    BY <1>1 DEF Question, Admission
  <1> QED
    BY <1>2 DEF Typed, Lets

LEMMA AnswerTyped ==
    ASSUME Typed, NEW q \in asks, Answer(q)
    PROVE  Typed'
  <1>1. q \in Question /\ q.to \in Computers /\ q.from \in Computers
        /\ q.code \in Codes
    BY DEF Typed, Question
  <1>2. asks' \subseteq Question
    BY DEF Typed, Answer, TakeJoin, FinishIgnored, FinishWrong, FinishAgain,
           FinishAdds, FinishUnsaved
  <1>3. CASE TakeJoin(q)
    <2>1. invite' \in [Computers -> Invites]
      <3>1. invite[q.to].at = "live" => invite[q.to].code \in Codes
        BY <1>1, InviteParts DEF Typed
      <3> QED
        BY <1>1, <1>3, <3>1 DEF Typed, TakeJoin, Invites
    <2>2. join' \in [Joins -> Threads]
      BY <1>1, <1>3, AnsweredType, ThreadTypes DEF TakeJoin
    <2> QED
      BY <1>2, <1>3, <2>1, <2>2 DEF Typed, TakeJoin, history
  <1>4. CASE FinishIgnored(q)
    BY <1>2, <1>4 DEF Typed, FinishIgnored, memory, history
  <1>5. CASE FinishWrong(q) \/ FinishUnsaved(q)
    <2>1. EndInvite(q.to, "Burned") /\ Answered(q, Idle) /\ Finishes(q)
          /\ UNCHANGED <<roster, spent, history>>
      BY <1>5 DEF FinishWrong, FinishUnsaved
    <2>2. invite[q.to].at # "none" /\ "Burned" \in Outcomes
      BY <2>1 DEF Finishes, Outcomes
    <2>3. invite' \in [Computers -> Invites] /\ note' \in [Computers -> Notes]
      BY <1>1, <2>1, <2>2, EndInviteType
    <2>4. join' \in [Joins -> Threads]
      BY <1>1, <2>1, AnsweredType, ThreadTypes
    <2> QED
      BY <1>2, <2>1, <2>3, <2>4 DEF Typed, history
  <1>6. ASSUME FinishAgain(q) \/ FinishAdds(q)
        PROVE  Typed'
    <2>1. EndInvite(q.to, "Joined") /\ Finishes(q) /\ Lets(q)
          /\ UNCHANGED <<spent, issuer, joined>>
      BY <1>6 DEF FinishAgain, FinishAdds
    <2>2. invite[q.to].at # "none" /\ "Joined" \in Outcomes
      BY <2>1 DEF Finishes, Outcomes
    <2>3. invite' \in [Computers -> Invites] /\ note' \in [Computers -> Notes]
      BY <1>1, <2>1, <2>2, EndInviteType
    <2>4. admitted' \subseteq Admission
      BY <1>1, <2>1, LetsType
    <2>5. CASE FinishAgain(q)
      <3>1. join' \in [Joins -> Threads]
        BY <1>1, <2>5, AnsweredType, ThreadTypes DEF Typed, FinishAgain
      <3> QED
        BY <1>2, <2>1, <2>3, <2>4, <2>5, <3>1 DEF Typed, FinishAgain
    <2>6. CASE FinishAdds(q)
      <3> DEFINE r == SignNext(q.to, roster[q.to].members \cup {q.from})
      <3>1. roster[q.to].members \subseteq Computers /\ q.to \in roster[q.to].members
        BY <1>1 DEF Typed, Roster
      <3>2. r \in Roster /\ q.to \in r.members
        BY <1>1, <2>6, <3>1, SignNextType DEF FinishAdds, SignNext
      <3>3. Commit(q.to, r) /\ signed' = signed \cup {r} /\ Answered(q, Handed(q, r))
        BY <2>6 DEF FinishAdds
      <3> HIDE DEF r
      <3>4. join' \in [Joins -> Threads]
        BY <1>1, <3>2, <3>3, AnsweredType, ThreadTypes
      <3> QED
        BY <1>1, <1>2, <2>1, <2>3, <2>4, <3>2, <3>3, <3>4, CommitType DEF Typed
    <2> QED
      BY <1>6, <2>5, <2>6
  <1> QED
    BY <1>3, <1>4, <1>5, <1>6 DEF Answer

LEMMA JoinStepTyped ==
    ASSUME Typed, NEW j \in Joins, JoinStep(j)
    PROVE  Typed'
  <1>1. join[j] \in Threads
    BY DEF Typed
  <1>2. ASSUME NEW b \in Computers, NEW k \in Codes, Type(j, b, k) PROVE Typed'
    BY <1>2, ThreadTypes DEF Typed, Type, memory
  <1>3. ASSUME NEW c \in Computers, Ask(j, c) PROVE Typed'
    <2> DEFINE b == join[j].me
               q == [kind |-> "join", by |-> j, from |-> b, to |-> c,
                     code |-> join[j].code, group |-> roster[c].group]
    <2>1. b \in Computers /\ join[j].code \in Codes
      BY <1>1, <1>3, ThreadParts DEF Ask
    <2>2. q \in Question
      BY <2>1 DEF Typed, Question, Roster
    <2>3. /\ spent' = [spent EXCEPT ![b] = @ \cup {join[j].code}]
          /\ asks' = asks \cup {q} /\ join' = [join EXCEPT ![j] = Waits(q)]
          /\ UNCHANGED <<roster, invite, note, history>>
      BY <1>3 DEF Ask
    <2> HIDE DEF q
    <2> QED
      BY <2>1, <2>2, <2>3, ThreadTypes DEF Typed, history
  <1>4. CASE SendFinish(j)
    <2> DEFINE q == [join[j].ask EXCEPT !.kind = "finish"]
    <2>1. join[j].ask \in Question
      BY <1>1, <1>4, ThreadParts DEF SendFinish
    <2>2. q \in Question
      BY <2>1 DEF Question
    <2>3. /\ asks' = asks \cup {q} /\ join' = [join EXCEPT ![j] = Waits(q)]
          /\ UNCHANGED <<roster, memory, history>>
      BY <1>4 DEF SendFinish
    <2> HIDE DEF q
    <2> QED
      BY <2>2, <2>3, ThreadTypes DEF Typed, memory, history
  <1>5. CASE Refuse(j)
    <2>1. join[j].ask \in Question
      BY <1>1, <1>5, ThreadParts DEF Refuse
    <2> QED
      BY <1>5, <2>1, ThreadTypes DEF Typed, Refuse, memory, history
  <1>6. CASE Settle(j)
    <2> DEFINE q == join[j].ask
               r == join[j].roster
    <2>1. q \in Question /\ r \in Roster
      BY <1>1, <1>6, ThreadParts DEF Settle
    <2>2. q.from \in Computers /\ q.to \in Computers /\ q.code \in Codes
          /\ r.group \in Computers /\ q.from \in r.members
      BY <1>6, <2>1 DEF Settle, AcceptsInvite, Question, Roster
    <2>3. /\ Commit(q.from, r)
          /\ joined' = joined \cup {[code |-> q.code, who |-> q.from,
                                     by |-> q.to, group |-> r.group]}
          /\ join' = [join EXCEPT ![j] = Idle]
          /\ UNCHANGED <<memory, asks, issuer, signed, admitted>>
      BY <1>6 DEF Settle
    <2> HIDE DEF q, r
    <2>4. joined' \subseteq Admission
      BY <2>2, <2>3 DEF Typed, Admission
    <2> QED
      BY <2>1, <2>2, <2>3, <2>4, CommitType, ThreadTypes DEF Typed, memory
  <1>7. CASE GiveUp(j)
    BY <1>7, ThreadTypes DEF Typed, GiveUp, memory, history
  <1> QED
    BY <1>2, <1>3, <1>4, <1>5, <1>6, <1>7 DEF JoinStep

LEMMA NextTyped == Typed /\ [Next]_vars => Typed'
  <1> SUFFICES ASSUME Typed, Next \/ UNCHANGED vars PROVE Typed'
    OBVIOUS
  <1>1. CASE UNCHANGED vars
    BY <1>1 DEF vars, memory, history, Typed
  <1>2. CASE Next
    BY <1>2, RosterStepTyped, InviteStepTyped, AnswerTyped, JoinStepTyped DEF Next
  <1> QED
    BY <1>1, <1>2

LEMMA AlwaysTyped == Spec => []Typed
  BY InitTyped, NextTyped, PTL DEF Spec

(* Rosters, codes, notes and questions keep their types, and every computer *)
(* is on the roster it goes by.                                             *)
THEOREM TypeCorrect == Spec => []TypeOK
  <1>1. Typed => TypeOK
    BY DEF Typed, TypeOK
  <1> QED
    BY <1>1, AlwaysTyped, PTL

-----------------------------------------------------------------------------
(* Codes.                                                                   *)

(* As far as codes go, a step passes them by, shows a new one, ends one for *)
(* nothing, or lets a computer in by one.                                   *)
Passes ==
    /\ issuer' = issuer /\ admitted' = admitted
    /\ \A c \in Computers :
          /\ \/ invite'[c].at = "none"
             \/ invite'[c].code = invite[c].code /\ invite[c].at # "none"
          /\ note'[c] \in {note[c], NoNote}

Ends(c, o) ==
    /\ invite[c].at # "none" /\ EndInvite(c, o)
    /\ issuer' = issuer /\ admitted' = admitted

Admits(q) ==
    /\ invite[q.to].at # "none" /\ q.code = invite[q.to].code
    /\ EndInvite(q.to, "Joined") /\ Lets(q)
    /\ issuer' = issuer

LEMMA UnchangedPasses ==
    ASSUME Typed, UNCHANGED <<invite, issuer, admitted>>,
           \A c \in Computers : note'[c] \in {note[c], NoNote}
    PROVE  Passes
  <1>1. \A c \in Computers : invite[c] \in Invites
    BY DEF Typed
  <1> QED
    BY <1>1, InviteParts DEF Passes

LEMMA CodeSteps ==
    ASSUME Typed, Next
    PROVE  \/ Passes
           \/ \E c \in Computers : StartInvite(c)
           \/ \E c \in Computers, o \in {"Expired", "Burned"} : Ends(c, o)
           \/ \E q \in asks : Admits(q)
  <1>1. \A c \in Computers : invite[c] \in Invites
    BY DEF Typed
  <1>2. ASSUME NEW c \in Computers,
               \/ Rename(c)
               \/ \E who \in Computers : Remove(c, who)
               \/ \E r \in signed : TakeRoster(c, r)
        PROVE  Passes
    <2>1. UNCHANGED <<invite, note, issuer, admitted>>
      BY <1>2 DEF Rename, Remove, TakeRoster, memory, history
    <2> QED
      BY <2>1, UnchangedPasses
  <1>3. ASSUME NEW c \in Computers, CancelInvite(c) \/ Restart(c) PROVE Passes
    <2>1. /\ issuer' = issuer /\ admitted' = admitted
          /\ invite' = [invite EXCEPT ![c] = NoInvite]
          /\ note' = note \/ note' = [note EXCEPT ![c] = NoNote]
      BY <1>3 DEF CancelInvite, Restart, history
    <2> QED
      BY <1>1, <2>1, InviteParts DEF Passes, Typed, NoInvite
  <1>4. ASSUME NEW c \in Computers, ExpireInvite(c)
        PROVE  \E o \in {"Expired", "Burned"} : Ends(c, o)
    BY <1>1, <1>4, InviteParts DEF ExpireInvite, Ends, history
  <1>5. ASSUME NEW j \in Joins, JoinStep(j) PROVE Passes
    <2>1. UNCHANGED <<invite, note, issuer, admitted>>
      BY <1>5 DEF JoinStep, Type, Ask, SendFinish, Refuse, Settle, GiveUp,
                  memory, history
    <2> QED
      BY <2>1, UnchangedPasses
  <1>6. ASSUME NEW q \in asks, TakeJoin(q) PROVE Passes
    <2>1. q.to \in Computers
      BY DEF Typed, Question
    <2>2. CASE invite[q.to].at = "live"
      <3>1. /\ issuer' = issuer /\ admitted' = admitted /\ note' = note
            /\ invite' = [invite EXCEPT
                             ![q.to] = InFlight(invite[q.to].code, q.from)]
        BY <1>6, <2>2 DEF TakeJoin, history
      <3>2. invite'[q.to].code = invite[q.to].code
        BY <2>1, <3>1 DEF Typed, InFlight
      <3>3. \A c \in Computers \ {q.to} : invite'[c] = invite[c]
        BY <3>1 DEF Typed
      <3> QED
        BY <1>1, <2>2, <3>1, <3>2, <3>3, InviteParts DEF Passes
    <2>3. CASE invite[q.to].at # "live"
      BY <1>6, <2>3, UnchangedPasses DEF TakeJoin, history
    <2> QED
      BY <2>2, <2>3
  <1>7. ASSUME NEW q \in asks, FinishIgnored(q) PROVE Passes
    BY <1>7, UnchangedPasses DEF FinishIgnored, memory, history
  <1>8. ASSUME NEW q \in asks, FinishWrong(q) \/ FinishUnsaved(q)
        PROVE  q.to \in Computers /\ Ends(q.to, "Burned")
    BY <1>8 DEF Typed, Question, FinishWrong, FinishUnsaved, Finishes, Ends, history
  <1>9. ASSUME NEW q \in asks, FinishAgain(q) \/ FinishAdds(q) PROVE Admits(q)
    BY <1>9 DEF FinishAgain, FinishAdds, Finishes, Right, Admits
  <1> QED
    BY <1>2, <1>3, <1>4, <1>5, <1>6, <1>7, <1>8, <1>9 DEF Next, Answer

(* Nobody asks itself.                                                      *)
Asks(t) == t.at \in {"waits", "keyed", "handed", "refused"}

OthersAreAsked ==
    /\ \A q \in asks : q.from # q.to
    /\ \A j \in Joins : Asks(join[j]) => join[j].ask.from # join[j].ask.to

(* A code that is shown was made by the computer that shows it.             *)
ShownByIssuer ==
    \A c \in Computers : invite[c].at # "none" =>
        invite[c].code \in DOMAIN issuer /\ issuer[invite[c].code] = c

(* A code that has let a computer in is not shown any more.                 *)
UsedUp ==
    \A x \in admitted :
        /\ x.code \in DOMAIN issuer /\ x.by = issuer[x.code] /\ x.who # x.by
        /\ \A c \in Computers : invite[c].at # "none" => invite[c].code # x.code
        /\ \A y \in admitted : y.code = x.code => y = x

(* Nor is one that the user has been told of.                               *)
NotedIsOver ==
    \A c \in Computers : note[c] # NoNote =>
        /\ note[c].code \in DOMAIN issuer /\ issuer[note[c].code] = c
        /\ invite[c].at # "none" => invite[c].code # note[c].code
        /\ note[c].outcome = "Joined"
              <=> \E x \in admitted : x.code = note[c].code

CodesInv ==
    Typed /\ OthersAreAsked /\ ShownByIssuer /\ UsedUp /\ NotedIsOver

LEMMA OthersStep ==
    ASSUME Typed, OthersAreAsked, Next
    PROVE  OthersAreAsked'
  <1>1. \A j \in Joins : join[j] \in Threads
    BY DEF Typed
  <1>2. ASSUME NEW q \in Question, q.from # q.to,
               NEW t \in {Idle, Keyed(q)} \cup {Handed(q, r) : r \in Roster},
               Answered(q, t), asks' \subseteq asks
        PROVE  OthersAreAsked'
    <2>1. Asks(t) => t.ask = q
      BY DEF Asks, Idle, Keyed, Handed
    <2>2. \A j \in Joins : join'[j] \in {join[j], t}
      BY <1>2 DEF Answered
    <2> QED
      BY <1>2, <2>1, <2>2 DEF OthersAreAsked
  <1>3. ASSUME NEW c \in Computers,
               \/ Rename(c)
               \/ \E who \in Computers : Remove(c, who)
               \/ \E r \in signed : TakeRoster(c, r)
               \/ StartInvite(c) \/ CancelInvite(c) \/ ExpireInvite(c)
        PROVE  OthersAreAsked'
    <2>1. UNCHANGED <<join, asks>>
      BY <1>3 DEF Rename, Remove, TakeRoster, StartInvite, CancelInvite,
                  ExpireInvite
    <2> QED
      BY <2>1 DEF OthersAreAsked
  <1>4. ASSUME NEW c \in Computers, Restart(c) PROVE OthersAreAsked'
    <2>1. asks' = asks /\ \A j \in Joins : join'[j] \in {join[j], Idle}
      BY <1>4 DEF Restart
    <2> QED
      BY <2>1 DEF OthersAreAsked, Asks, Idle
  <1>5. ASSUME NEW q \in asks, Answer(q) PROVE OthersAreAsked'
    <2>1. q \in Question /\ q.from # q.to /\ q.to \in Computers /\ q.from \in Computers
      BY DEF Typed, OthersAreAsked, Question
    <2>2. asks' \subseteq asks
      BY <1>5 DEF Answer, TakeJoin, FinishIgnored, FinishWrong, FinishAgain,
                  FinishAdds, FinishUnsaved
    <2>3. CASE TakeJoin(q) \/ FinishWrong(q) \/ FinishUnsaved(q)
      <3>1. Answered(q, Idle) \/ Answered(q, Keyed(q))
        BY <2>3 DEF TakeJoin, FinishWrong, FinishUnsaved
      <3> QED
        BY <1>2, <2>1, <2>2, <3>1
    <2>4. CASE FinishIgnored(q)
      BY <2>2, <2>4 DEF FinishIgnored, OthersAreAsked
    <2>5. CASE FinishAgain(q)
      <3>1. roster[q.to] \in Roster /\ Answered(q, Handed(q, roster[q.to]))
        BY <2>1, <2>5 DEF Typed, FinishAgain
      <3> QED
        BY <1>2, <2>1, <2>2, <3>1
    <2>6. CASE FinishAdds(q)
      <3> DEFINE r == SignNext(q.to, roster[q.to].members \cup {q.from})
      <3>1. roster[q.to].members \subseteq Computers
        BY <2>1 DEF Typed, Roster
      <3>2. r \in Roster
        BY <2>1, <2>6, <3>1, SignNextType DEF FinishAdds
      <3>3. Answered(q, Handed(q, r))
        BY <2>6 DEF FinishAdds
      <3> HIDE DEF r
      <3> QED
        BY <1>2, <2>1, <2>2, <3>2, <3>3
    <2> QED
      BY <1>5, <2>3, <2>4, <2>5, <2>6 DEF Answer
  <1>6. ASSUME NEW j \in Joins, NEW b \in Computers, NEW k \in Codes, Type(j, b, k)
        PROVE  OthersAreAsked'
    BY <1>6 DEF Type, OthersAreAsked, Asks, Typed, Probing
  <1>7. ASSUME NEW j \in Joins, NEW c \in Computers, Ask(j, c)
        PROVE  OthersAreAsked'
    <2> DEFINE q == [kind |-> "join", by |-> j, from |-> join[j].me, to |-> c,
                     code |-> join[j].code, group |-> roster[c].group]
    <2>1. q.from # q.to
      BY <1>7 DEF Ask
    <2>2. asks' = asks \cup {q} /\ join' = [join EXCEPT ![j] = Waits(q)]
      BY <1>7 DEF Ask
    <2> HIDE DEF q
    <2> QED
      BY <2>1, <2>2 DEF OthersAreAsked, Asks, Waits, Typed
  <1>8. ASSUME NEW j \in Joins, SendFinish(j) PROVE OthersAreAsked'
    <2> DEFINE q == [join[j].ask EXCEPT !.kind = "finish"]
    <2>1. join[j].ask \in Question /\ join[j].ask.from # join[j].ask.to
      BY <1>1, <1>8, ThreadParts DEF SendFinish, OthersAreAsked, Asks
    <2>2. q.from # q.to
      BY <2>1 DEF Question
    <2>3. asks' = asks \cup {q} /\ join' = [join EXCEPT ![j] = Waits(q)]
      BY <1>8 DEF SendFinish
    <2> HIDE DEF q
    <2> QED
      BY <2>2, <2>3 DEF OthersAreAsked, Asks, Waits, Typed
  <1>9. ASSUME NEW j \in Joins, Refuse(j) PROVE OthersAreAsked'
    BY <1>9 DEF Refuse, OthersAreAsked, Asks, Refused, Typed
  <1>10. ASSUME NEW j \in Joins, Settle(j) \/ GiveUp(j) PROVE OthersAreAsked'
    <2>1. asks' = asks /\ join' = [join EXCEPT ![j] = Idle]
      BY <1>10 DEF Settle, GiveUp
    <2> QED
      BY <2>1 DEF OthersAreAsked, Asks, Idle, Typed
  <1> QED
    BY <1>3, <1>4, <1>5, <1>6, <1>7, <1>8, <1>9, <1>10 DEF Next, JoinStep

LEMMA StartInviteParts ==
    ASSUME Typed, NEW c \in Computers, StartInvite(c)
    PROVE  /\ DOMAIN issuer \subseteq DOMAIN issuer'
           /\ \A k \in DOMAIN issuer : issuer'[k] = issuer[k]
           /\ \A d \in Computers \ {c} : invite'[d] = invite[d]
           /\ invite'[c].code \in DOMAIN issuer' \ DOMAIN issuer
           /\ issuer'[invite'[c].code] = c
           /\ UNCHANGED <<admitted, note>>
  <1>1. Len(issuer) \in Nat /\ issuer' = Append(issuer, c)
    BY DEF Typed, StartInvite
  <1>2. /\ DOMAIN issuer = 1..Len(issuer) /\ DOMAIN issuer' = 1..(Len(issuer) + 1)
        /\ \A k \in 1..Len(issuer) : issuer'[k] = issuer[k]
        /\ issuer'[Len(issuer) + 1] = c
    BY <1>1 DEF Typed
  <1>3. invite' = [invite EXCEPT ![c] = Live(Len(issuer) + 1)]
    BY DEF StartInvite
  <1>4. invite'[c].code = Len(issuer) + 1
    BY <1>3 DEF Typed, Live
  <1> QED
    BY <1>1, <1>2, <1>3, <1>4 DEF Typed, StartInvite

LEMMA EndInviteParts ==
    ASSUME Typed, NEW c \in Computers, NEW o \in Outcomes, EndInvite(c, o)
    PROVE  /\ invite'[c].at = "none"
           /\ note'[c].code = invite[c].code /\ note'[c].outcome = o
           /\ \A d \in Computers \ {c} : invite'[d] = invite[d] /\ note'[d] = note[d]
  BY DEF Typed, EndInvite, NoInvite, Note

LEMMA AdmitsParts ==
    ASSUME Typed, OthersAreAsked, NEW q \in asks, Admits(q)
    PROVE  /\ q.to \in Computers
           /\ \E x : /\ admitted' = admitted \cup {x}
                    /\ x.code = invite[q.to].code
                    /\ x.by = q.to /\ x.who # x.by
  <1> DEFINE x == [code |-> q.code, who |-> q.from, by |-> q.to,
                   group |-> roster[q.to].group]
  <1>1. q.to \in Computers /\ q.from # q.to
    BY DEF Typed, Question, OthersAreAsked
  <1>2. admitted' = admitted \cup {x}
    BY DEF Admits, Lets
  <1>3. x.code = invite[q.to].code /\ x.by = q.to /\ x.who # x.by
    BY <1>1 DEF Admits
  <1> HIDE DEF x
  <1> QED
    BY <1>1, <1>2, <1>3

LEMMA CodesStep ==
    ASSUME CodesInv, Next
    PROVE  ShownByIssuer' /\ UsedUp' /\ NotedIsOver'
  <1> USE DEF CodesInv
  <1>1. CASE Passes
    <2>1. \A c \in Computers : invite'[c].at # "none" =>
             invite[c].at # "none" /\ invite'[c].code = invite[c].code
      BY <1>1 DEF Passes
    <2>2. ShownByIssuer'
      BY <1>1, <2>1 DEF Passes, ShownByIssuer
    <2>3. UsedUp'
      BY <1>1, <2>1 DEF Passes, UsedUp
    <2>4. NotedIsOver'
      BY <1>1, <2>1 DEF Passes, NotedIsOver
    <2> QED
      BY <2>2, <2>3, <2>4
  <1>2. ASSUME NEW c \in Computers, StartInvite(c)
        PROVE  ShownByIssuer' /\ UsedUp' /\ NotedIsOver'
    <2>1. ShownByIssuer'
      BY <1>2, StartInviteParts DEF ShownByIssuer
    <2>2. UsedUp'
      <3> SUFFICES ASSUME NEW x \in admitted
                   PROVE  /\ x.code \in DOMAIN issuer' /\ x.by = issuer'[x.code]
                          /\ x.who # x.by
                          /\ \A d \in Computers :
                                invite'[d].at # "none" => invite'[d].code # x.code
                          /\ \A y \in admitted : y.code = x.code => y = x
        BY <1>2, StartInviteParts DEF UsedUp
      <3> QED
        BY <1>2, StartInviteParts DEF UsedUp
    <2>3. NotedIsOver'
      <3> SUFFICES ASSUME NEW d \in Computers, note[d] # NoNote
                   PROVE  /\ note[d].code \in DOMAIN issuer'
                          /\ issuer'[note[d].code] = d
                          /\ invite'[d].at # "none" => invite'[d].code # note[d].code
                          /\ note[d].outcome = "Joined"
                                <=> \E x \in admitted : x.code = note[d].code
        BY <1>2, StartInviteParts DEF NotedIsOver
      <3> QED
        BY <1>2, StartInviteParts DEF NotedIsOver
    <2> QED
      BY <2>1, <2>2, <2>3
  <1>3. ASSUME NEW c \in Computers, NEW o \in {"Expired", "Burned"}, Ends(c, o)
        PROVE  ShownByIssuer' /\ UsedUp' /\ NotedIsOver'
    <2>1. /\ invite[c].at # "none" /\ issuer' = issuer /\ admitted' = admitted
          /\ o \in Outcomes /\ EndInvite(c, o) /\ o # "Joined"
      BY <1>3 DEF Ends, Outcomes
    <2>2. ShownByIssuer'
      BY <2>1, EndInviteParts DEF ShownByIssuer
    <2>3. UsedUp'
      BY <2>1, EndInviteParts DEF UsedUp
    <2>4. ~ \E x \in admitted : x.code = invite[c].code
      BY <2>1 DEF UsedUp
    <2>5. NotedIsOver'
      BY <2>1, <2>4, EndInviteParts DEF NotedIsOver, ShownByIssuer
    <2> QED
      BY <2>2, <2>3, <2>5
  <1>4. ASSUME NEW q \in asks, Admits(q)
        PROVE  ShownByIssuer' /\ UsedUp' /\ NotedIsOver'
    <2> DEFINE c == q.to
    <2>1. /\ c \in Computers
          /\ invite[c].at # "none" /\ issuer' = issuer
          /\ "Joined" \in Outcomes /\ EndInvite(c, "Joined")
      BY <1>4, AdmitsParts DEF Admits, Outcomes
    <2>2. PICK x : /\ admitted' = admitted \cup {x}
                   /\ x.code = invite[c].code /\ x.by = c /\ x.who # x.by
      BY <1>4, AdmitsParts
    <2> HIDE DEF c
    <2>3. invite[c].code \in DOMAIN issuer /\ issuer[invite[c].code] = c
      BY <2>1 DEF ShownByIssuer
    <2>4. \A d \in Computers : invite'[d].at # "none" =>
             d # c /\ invite[d].at # "none" /\ invite'[d] = invite[d]
      BY <2>1, EndInviteParts
    <2>5. ShownByIssuer'
      BY <2>1, <2>4 DEF ShownByIssuer
    <2>6. UsedUp'
      <3>1. \A y \in admitted : y.code # x.code
        BY <2>1, <2>2 DEF UsedUp
      <3>2. \A d \in Computers : invite'[d].at # "none" => invite'[d].code # x.code
        BY <2>2, <2>3, <2>4 DEF ShownByIssuer
      <3> QED
        BY <2>1, <2>2, <2>3, <2>4, <3>1, <3>2 DEF UsedUp
    <2>7. NotedIsOver'
      <3> SUFFICES ASSUME NEW d \in Computers, note'[d] # NoNote
                   PROVE  /\ note'[d].code \in DOMAIN issuer
                          /\ issuer[note'[d].code] = d
                          /\ invite'[d].at # "none" => invite'[d].code # note'[d].code
                          /\ note'[d].outcome = "Joined"
                                <=> \E y \in admitted' : y.code = note'[d].code
        BY <2>1 DEF NotedIsOver
      <3>1. CASE d = c
        BY <2>1, <2>2, <2>3, <3>1, EndInviteParts
      <3>2. CASE d # c
        <4>1. note'[d] = note[d] /\ invite'[d] = invite[d]
          BY <2>1, <3>2, EndInviteParts
        <4>2. note[d].code # x.code
          BY <2>2, <2>3, <3>2, <4>1 DEF NotedIsOver
        <4> QED
          BY <2>2, <4>1, <4>2 DEF NotedIsOver
      <3> QED
        BY <3>1, <3>2
    <2> QED
      BY <2>5, <2>6, <2>7
  <1> QED
    BY <1>1, <1>2, <1>3, <1>4, CodeSteps

LEMMA InitCodes == Init => CodesInv
  <1> SUFFICES ASSUME Init PROVE CodesInv
    OBVIOUS
  <1>1. \A c \in Computers : invite[c].at = "none" /\ note[c] = NoNote
    BY DEF Init, NoInvite
  <1>2. \A j \in Joins : ~Asks(join[j])
    BY DEF Init, Idle, Asks
  <1> QED
    BY <1>1, <1>2, InitTyped DEF Init, CodesInv, OthersAreAsked,
       ShownByIssuer, UsedUp, NotedIsOver

LEMMA NextCodes == CodesInv /\ [Next]_vars => CodesInv'
  <1> SUFFICES ASSUME CodesInv, Next \/ UNCHANGED vars PROVE CodesInv'
    OBVIOUS
  <1>1. CASE UNCHANGED vars
    BY <1>1 DEF vars, memory, history, CodesInv, Typed, OthersAreAsked,
         ShownByIssuer, UsedUp, NotedIsOver
  <1>2. CASE Next
    BY <1>2, NextTyped, OthersStep, CodesStep DEF CodesInv
  <1> QED
    BY <1>1, <1>2

LEMMA AlwaysCodesInv == Spec => []CodesInv
  BY InitCodes, NextCodes, PTL DEF Spec

(* However codes are shown, withdrawn, typed, guessed and run out, what the *)
(* user is told of the last one is so.                                      *)
THEOREM NotesHold == Spec => []NotesAreTrue
  <1>1. CodesInv => NotesAreTrue
    BY DEF CodesInv, NotedIsOver, NotesAreTrue
  <1> QED
    BY <1>1, AlwaysCodesInv, PTL

-----------------------------------------------------------------------------
(* Rosters.                                                                 *)

RostersAreSigned == \A c \in Computers : roster[c] \in signed

AdmissionOf(q, g) == [code |-> q.code, who |-> q.from, by |-> q.to, group |-> g]

(* Who holds a roster as the answer to its code has been let in by it.      *)
HandedOver ==
    \A j \in Joins : join[j].at = "handed" =>
        /\ join[j].roster \in signed
        /\ AdmissionOf(join[j].ask, join[j].roster.group) \in admitted

RostersInv ==
    /\ CodesInv /\ RostersAreSigned /\ MembersWereInvited /\ HandedOver
    /\ joined \subseteq admitted

(* Nobody may be written on a roster who is neither its founder nor let in. *)
MayBeOn(r) ==
    \A m \in r.members :
        m = r.group \/ \E x \in admitted' : x.who = m /\ x.group = r.group

(* As far as rosters go, a step leaves them alone, signs one, or follows    *)
(* one that has been signed.                                                *)
Writing(c, r) ==
    /\ Promise!Writes(c, r) /\ MayBeOn(r) /\ r.group = roster[c].group
    /\ Commit(c, r) /\ signed' = signed \cup {r}

Following(c, r) ==
    /\ Promise!Follows(c, r) /\ (~Alone(c) => r.group = roster[c].group)
    /\ Commit(c, r) /\ signed' = signed

LEMMA MembersParts ==
    ASSUME Typed, NEW c \in Computers
    PROVE  /\ roster[c].members \subseteq Computers /\ c \in roster[c].members
           /\ Alone(c) <=> Promise!Alone(c)
  <1>1. roster[c].members \subseteq Computers /\ c \in roster[c].members
    BY DEF Typed, Roster
  <1> QED
    BY <1>1 DEF Alone, Promise!Alone

LEMMA RenameWrites ==
    ASSUME RostersInv, NEW c \in Computers, Rename(c)
    PROVE  Writing(c, Genesis(c, roster[c].group))
  <1> DEFINE r == Genesis(c, roster[c].group)
  <1>1. /\ Alone(c) /\ Commit(c, r) /\ signed' = signed \cup {r}
        /\ admitted' = admitted
    BY DEF Rename
  <1>2. r.members = {c} /\ r.group = roster[c].group
    BY DEF Genesis
  <1>3. c \in roster[c].members /\ Promise!Alone(c) /\ roster[c] \in signed
    BY <1>1, MembersParts DEF RostersInv, CodesInv, RostersAreSigned
  <1>4. MayBeOn(r)
    BY <1>1, <1>2, <1>3 DEF MayBeOn, RostersInv, MembersWereInvited
  <1>5. Promise!Writes(c, r)
    BY <1>3 DEF Promise!Writes, Promise!Begins, Promise!First, Genesis
  <1> QED
    BY <1>1, <1>2, <1>4, <1>5 DEF Writing

LEMMA RemoveWrites ==
    ASSUME RostersInv, NEW c \in Computers, NEW who \in Computers, Remove(c, who)
    PROVE  Writing(c, SignNext(c, roster[c].members \ {who}))
  <1> DEFINE r == SignNext(c, roster[c].members \ {who})
  <1>1. /\ who \in roster[c].members \ {c} /\ admitted' = admitted
        /\ Commit(c, r) /\ signed' = signed \cup {r}
    BY DEF Remove
  <1>2. /\ r.members = roster[c].members \ {who} /\ r.group = roster[c].group
        /\ r.signer = c /\ r.version = roster[c].version + 1
    BY DEF SignNext
  <1>3. c \in roster[c].members /\ roster[c] \in signed
    BY MembersParts DEF RostersInv, CodesInv, RostersAreSigned
  <1> HIDE DEF r
  <1>4. MayBeOn(r)
    BY <1>1, <1>2, <1>3 DEF MayBeOn, RostersInv, MembersWereInvited
  <1>5. Promise!Writes(c, r)
    <2>1. Promise!Signs(c, r)
      BY <1>1, <1>2, <1>3 DEF Promise!Signs
    <2> QED
      BY <2>1 DEF Promise!Writes
  <1> QED
    BY <1>1, <1>2, <1>4, <1>5 DEF Writing, r

LEMMA FinishWrites ==
    ASSUME RostersInv, NEW q \in asks, FinishAdds(q)
    PROVE  LET r == SignNext(q.to, roster[q.to].members \cup {q.from})
           IN  /\ q.to \in Computers /\ r \in Roster
               /\ Writing(q.to, r) /\ Answered(q, Handed(q, r))
               /\ AdmissionOf(q, r.group) \in admitted'
  <1> DEFINE c == q.to
             r == SignNext(c, roster[c].members \cup {q.from})
  <1>1. c \in Computers /\ q.from \in Computers /\ q.from # c
    BY DEF RostersInv, CodesInv, Typed, Question, OthersAreAsked
  <1>2. /\ q.from \notin roster[c].members /\ CanSignNext(c)
        /\ Commit(c, r) /\ signed' = signed \cup {r}
        /\ admitted' = admitted \cup {AdmissionOf(q, roster[c].group)}
        /\ Answered(q, Handed(q, r))
    BY DEF FinishAdds, Lets, AdmissionOf
  <1>3. /\ r.members = roster[c].members \cup {q.from} /\ r.group = roster[c].group
        /\ r.signer = c /\ r.version = roster[c].version + 1
    BY DEF SignNext
  <1>4. roster[c].members \subseteq Computers /\ c \in roster[c].members
        /\ roster[c] \in signed
    BY <1>1, MembersParts DEF RostersInv, CodesInv, RostersAreSigned
  <1>5. r \in Roster
    BY <1>1, <1>2, <1>4, SignNextType DEF RostersInv, CodesInv
  <1> HIDE DEF r, c
  <1>6. MayBeOn(r)
    <2>1. AdmissionOf(q, r.group).who = q.from /\ AdmissionOf(q, r.group).group = r.group
      BY DEF AdmissionOf
    <2> QED
      BY <1>2, <1>3, <1>4, <2>1 DEF MayBeOn, RostersInv, MembersWereInvited
  <1>7. Promise!Writes(c, r)
    <2>1. Promise!Signs(c, r)
      BY <1>1, <1>2, <1>3, <1>4 DEF Promise!Signs
    <2> QED
      BY <2>1 DEF Promise!Writes
  <1> QED
    BY <1>1, <1>2, <1>3, <1>5, <1>6, <1>7 DEF Writing, r, c

LEMMA TakeFollows ==
    ASSUME RostersInv, NEW c \in Computers, NEW r \in signed, TakeRoster(c, r)
    PROVE  Following(c, r)
  <1>1. Promise!Follows(c, r)
    BY DEF TakeRoster, Accepts, Promise!Follows, Promise!Learns
  <1> QED
    BY <1>1 DEF TakeRoster, Accepts, Following, history

LEMMA SettleFollows ==
    ASSUME RostersInv, NEW j \in Joins, Settle(j)
    PROVE  /\ join[j].ask.from \in Computers
           /\ Following(join[j].ask.from, join[j].roster)
  <1> DEFINE c == join[j].ask.from
             r == join[j].roster
  <1>1. join[j] \in Threads /\ join[j].at = "handed"
    BY DEF Settle, RostersInv, CodesInv, Typed
  <1>2. c \in Computers /\ c # join[j].ask.to
    BY <1>1, ThreadParts DEF Question, RostersInv, CodesInv, OthersAreAsked, Asks
  <1>3. r \in signed
    BY <1>1 DEF RostersInv, HandedOver
  <1>4. /\ Alone(c) /\ Commit(c, r) /\ signed' = signed
        /\ r.signer = join[j].ask.to /\ {c, join[j].ask.to} \subseteq r.members
    BY DEF Settle, SettlesOn, AcceptsInvite
  <1>5. Promise!Alone(c)
    BY <1>2, <1>4, MembersParts DEF RostersInv, CodesInv
  <1> HIDE DEF c, r
  <1>6. Promise!Follows(c, r)
    BY <1>2, <1>3, <1>4, <1>5 DEF Promise!Follows, Promise!Enters
  <1> QED
    BY <1>2, <1>4, <1>6 DEF Following, c, r

LEMMA RosterSteps ==
    ASSUME RostersInv, Next
    PROVE  \/ UNCHANGED <<roster, signed>>
           \/ \E c \in Computers, r \in signed' : Writing(c, r) \/ Following(c, r)
  <1>1. ASSUME NEW c \in Computers, NEW r, Writing(c, r) PROVE r \in signed'
    BY <1>1 DEF Writing
  <1>2. ASSUME NEW c \in Computers, NEW r, Following(c, r) PROVE r \in signed'
    BY <1>2 DEF Following, Promise!Follows
  <1>3. ASSUME NEW c \in Computers, Rename(c)
        PROVE  \E r \in signed' : Writing(c, r)
    BY <1>1, <1>3, RenameWrites
  <1>4. ASSUME NEW c \in Computers, NEW who \in Computers, Remove(c, who)
        PROVE  \E r \in signed' : Writing(c, r)
    BY <1>1, <1>4, RemoveWrites
  <1>5. ASSUME NEW q \in asks, FinishAdds(q)
        PROVE  \E c \in Computers, r \in signed' : Writing(c, r)
    BY <1>1, <1>5, FinishWrites
  <1>6. ASSUME NEW c \in Computers, NEW r \in signed, TakeRoster(c, r)
        PROVE  \E s \in signed' : Following(c, s)
    BY <1>2, <1>6, TakeFollows
  <1>7. ASSUME NEW j \in Joins, Settle(j)
        PROVE  \E c \in Computers, r \in signed' : Following(c, r)
    BY <1>2, <1>7, SettleFollows
  <1>8. ASSUME NEW c \in Computers,
               StartInvite(c) \/ CancelInvite(c) \/ ExpireInvite(c) \/ Restart(c)
        PROVE  UNCHANGED <<roster, signed>>
    BY <1>8 DEF StartInvite, CancelInvite, ExpireInvite, Restart, history
  <1>9. ASSUME NEW q \in asks,
               \/ TakeJoin(q) \/ FinishIgnored(q) \/ FinishWrong(q)
               \/ FinishAgain(q) \/ FinishUnsaved(q)
        PROVE  UNCHANGED <<roster, signed>>
    BY <1>9 DEF TakeJoin, FinishIgnored, FinishWrong, FinishAgain, FinishUnsaved,
                history
  <1>10. ASSUME NEW j \in Joins,
                \/ \E b \in Computers, k \in Codes : Type(j, b, k)
                \/ \E c \in Computers : Ask(j, c)
                \/ SendFinish(j) \/ Refuse(j) \/ GiveUp(j)
         PROVE  UNCHANGED <<roster, signed>>
    BY <1>10 DEF Type, Ask, SendFinish, Refuse, GiveUp, history
  <1> QED
    BY <1>3, <1>4, <1>5, <1>6, <1>7, <1>8, <1>9, <1>10 DEF Next, Answer, JoinStep

LEMMA HistoryGrows ==
    ASSUME RostersInv, Next
    PROVE  signed \subseteq signed' /\ admitted \subseteq admitted'
  <1>1. signed \subseteq signed'
    BY RosterSteps DEF Writing, Following
  <1>2. admitted \subseteq admitted'
    BY CodeSteps DEF RostersInv, CodesInv, Passes, StartInvite, Ends, Admits, Lets
  <1> QED
    BY <1>1, <1>2

LEMMA SignedStep ==
    ASSUME RostersInv, Next
    PROVE  RostersAreSigned' /\ MembersWereInvited'
  <1>1. CASE UNCHANGED <<roster, signed>>
    BY <1>1, HistoryGrows DEF RostersInv, RostersAreSigned, MembersWereInvited
  <1>2. ASSUME NEW c \in Computers, NEW r \in signed', Writing(c, r)
        PROVE  RostersAreSigned' /\ MembersWereInvited'
    <2>1. RostersAreSigned'
      BY <1>2 DEF Writing, Commit, RostersInv, CodesInv, Typed, RostersAreSigned
    <2>2. MembersWereInvited'
      BY <1>2, HistoryGrows DEF Writing, MayBeOn, RostersInv, MembersWereInvited
    <2> QED
      BY <2>1, <2>2
  <1>3. ASSUME NEW c \in Computers, NEW r \in signed', Following(c, r)
        PROVE  RostersAreSigned' /\ MembersWereInvited'
    <2>1. RostersAreSigned'
      BY <1>3 DEF Following, Commit, RostersInv, CodesInv, Typed, RostersAreSigned
    <2>2. MembersWereInvited'
      BY <1>3, HistoryGrows DEF Following, RostersInv, MembersWereInvited
    <2> QED
      BY <2>1, <2>2
  <1> QED
    BY <1>1, <1>2, <1>3, RosterSteps

LEMMA HandedStep ==
    ASSUME RostersInv, Next
    PROVE  HandedOver'
  <1> DEFINE Earned(t) ==
        t.at = "handed" => /\ t.roster \in signed'
                           /\ AdmissionOf(t.ask, t.roster.group) \in admitted'
  <1>1. \A j \in Joins : Earned(join[j])
    BY HistoryGrows DEF RostersInv, HandedOver
  <1>2. SUFFICES \A j \in Joins : Earned(join'[j])
    BY DEF HandedOver
  <1>3. ASSUME NEW t, Earned(t), \A j \in Joins : join'[j] \in {join[j], t}
        PROVE  \A j \in Joins : Earned(join'[j])
    BY <1>1, <1>3
  <1>4. ASSUME NEW q, NEW t, Earned(t), Answered(q, t)
        PROVE  \A j \in Joins : Earned(join'[j])
    BY <1>3, <1>4 DEF Answered
  <1>5. /\ Earned(Idle) /\ \A q : Earned(Waits(q)) /\ Earned(Keyed(q)) /\ Earned(Refused(q))
        /\ \A b, k : Earned(Probing(b, k))
    BY DEF Idle, Waits, Keyed, Refused, Probing
  <1> HIDE DEF Earned
  <1>6. ASSUME NEW c \in Computers,
               \/ Rename(c)
               \/ \E who \in Computers : Remove(c, who)
               \/ \E r \in signed : TakeRoster(c, r)
               \/ StartInvite(c) \/ CancelInvite(c) \/ ExpireInvite(c)
        PROVE  \A j \in Joins : Earned(join'[j])
    <2>1. join' = join
      BY <1>6 DEF Rename, Remove, TakeRoster, StartInvite, CancelInvite,
                  ExpireInvite
    <2> QED
      BY <1>1, <2>1
  <1>7. ASSUME NEW c \in Computers, Restart(c)
        PROVE  \A j \in Joins : Earned(join'[j])
    BY <1>3, <1>5, <1>7 DEF Restart
  <1>8. ASSUME NEW q \in asks, Answer(q)
        PROVE  \A j \in Joins : Earned(join'[j])
    <2>1. CASE FinishIgnored(q)
      BY <1>1, <2>1 DEF FinishIgnored
    <2>2. CASE TakeJoin(q) \/ FinishWrong(q) \/ FinishUnsaved(q)
      <3>1. Answered(q, Idle) \/ Answered(q, Keyed(q))
        BY <2>2 DEF TakeJoin, FinishWrong, FinishUnsaved
      <3> QED
        BY <1>4, <1>5, <3>1
    <2>3. CASE FinishAgain(q)
      <3>1. q.to \in Computers
        BY DEF RostersInv, CodesInv, Typed, Question
      <3>2. /\ admitted' = admitted \cup {AdmissionOf(q, roster[q.to].group)}
            /\ signed' = signed /\ roster[q.to] \in signed
            /\ Answered(q, Handed(q, roster[q.to]))
        BY <2>3, <3>1 DEF FinishAgain, Lets, AdmissionOf, RostersInv, RostersAreSigned
      <3>3. Earned(Handed(q, roster[q.to]))
        BY <3>2 DEF Handed, Earned
      <3> QED
        BY <1>4, <3>2, <3>3
    <2>4. CASE FinishAdds(q)
      <3>1. PICK r : /\ Answered(q, Handed(q, r)) /\ r \in signed'
                     /\ AdmissionOf(q, r.group) \in admitted'
        BY <2>4, FinishWrites DEF Writing
      <3>2. Earned(Handed(q, r))
        BY <3>1 DEF Handed, Earned
      <3> QED
        BY <1>4, <3>1, <3>2
    <2> QED
      BY <1>8, <2>1, <2>2, <2>3, <2>4 DEF Answer
  <1>9. ASSUME NEW j \in Joins, JoinStep(j)
        PROVE  \A i \in Joins : Earned(join'[i])
    <2>1. \E t : /\ join' = [join EXCEPT ![j] = t]
                 /\ \/ t = Idle \/ \E q : t \in {Waits(q), Refused(q)}
                    \/ \E b, k : t = Probing(b, k)
      BY <1>9 DEF JoinStep, Type, Ask, SendFinish, Refuse, Settle, GiveUp
    <2>2. PICK t : join' = [join EXCEPT ![j] = t] /\ Earned(t)
      BY <1>5, <2>1
    <2> QED
      BY <1>3, <2>2
  <1> QED
    BY <1>6, <1>7, <1>8, <1>9 DEF Next

LEMMA JoinedStep ==
    ASSUME RostersInv, Next
    PROVE  joined' \subseteq admitted'
  <1>1. ASSUME NEW j \in Joins, Settle(j) PROVE joined' \subseteq admitted'
    <2>1. joined' = joined \cup {AdmissionOf(join[j].ask, join[j].roster.group)}
      BY <1>1 DEF Settle, AdmissionOf
    <2>2. AdmissionOf(join[j].ask, join[j].roster.group) \in admitted
      BY <1>1 DEF Settle, RostersInv, HandedOver
    <2> QED
      BY <2>1, <2>2, HistoryGrows DEF RostersInv
  <1>2. CASE ~ \E j \in Joins : Settle(j)
    <2>1. joined' = joined
      BY <1>2 DEF Next, Rename, Remove, TakeRoster, StartInvite, CancelInvite,
           ExpireInvite, Restart, Answer, TakeJoin, FinishIgnored, FinishWrong,
           FinishAgain, FinishAdds, FinishUnsaved, JoinStep, Type, Ask,
           SendFinish, Refuse, GiveUp, history
    <2> QED
      BY <2>1, HistoryGrows DEF RostersInv
  <1> QED
    BY <1>1, <1>2

LEMMA RostersStep == RostersInv /\ [Next]_vars => RostersInv'
  <1> SUFFICES ASSUME RostersInv, Next \/ UNCHANGED vars PROVE RostersInv'
    OBVIOUS
  <1>1. CodesInv'
    BY NextCodes DEF RostersInv
  <1>2. CASE UNCHANGED vars
    BY <1>1, <1>2 DEF vars, memory, history, RostersInv, RostersAreSigned,
       MembersWereInvited, HandedOver
  <1>3. CASE Next
    BY <1>1, <1>3, SignedStep, HandedStep, JoinedStep DEF RostersInv
  <1> QED
    BY <1>2, <1>3

LEMMA AlwaysRostersInv == Spec => []RostersInv
  <1>1. Init => RostersInv
    <2> SUFFICES ASSUME Init PROVE RostersInv
      OBVIOUS
    <2>1. CodesInv
      BY InitCodes
    <2>2. \A c \in Computers : Genesis(c, c).group = c /\ Genesis(c, c).members = {c}
      BY DEF Genesis
    <2>3. RostersAreSigned
      BY DEF Init, RostersAreSigned
    <2>4. MembersWereInvited
      BY <2>2 DEF Init, MembersWereInvited
    <2>5. HandedOver /\ joined \subseteq admitted
      BY DEF Init, HandedOver, Idle
    <2> QED
      BY <2>1, <2>3, <2>4, <2>5 DEF RostersInv
  <1> QED
    BY <1>1, RostersStep, PTL DEF Spec

(* However questions cross, are lost or come late, a code lets in one       *)
(* computer at most, by its issuer, and a computer goes over only to a      *)
(* group that has let it in by the code it typed.                           *)
THEOREM CodesHold == Spec => []CodesAreForOne
  <1>1. RostersInv => CodesAreForOne
    BY DEF RostersInv, CodesInv, UsedUp, CodesAreForOne
  <1> QED
    BY <1>1, AlwaysRostersInv, PTL

(* Whatever rosters cross, fork and arrive late, whoever is on a signed one *)
(* founded the group or was let into it by a code.                          *)
THEOREM InvitedHold == Spec => []MembersWereInvited
  <1>1. RostersInv => MembersWereInvited
    BY DEF RostersInv
  <1> QED
    BY <1>1, AlwaysRostersInv, PTL

(* A computer that shares its group with others stays in it.                *)
THEOREM GroupsHold == Spec => GroupIsKept
  <1>1. RostersInv /\ [Next]_vars =>
          [\A c \in Computers : ~Alone(c) => roster'[c].group = roster[c].group]_vars
    <2> SUFFICES ASSUME RostersInv, Next, NEW c \in Computers, ~Alone(c)
                 PROVE  roster'[c].group = roster[c].group
      OBVIOUS
    <2>1. ASSUME NEW d \in Computers, NEW r \in signed',
                 Writing(d, r) \/ Following(d, r)
          PROVE  roster'[c].group = roster[c].group
      BY <2>1 DEF Writing, Following, Commit, RostersInv, CodesInv, Typed
    <2> QED
      BY <2>1, RosterSteps
  <1> QED
    BY <1>1, AlwaysRostersInv, PTL DEF Spec, GroupIsKept

(* The computers of a group replace their rosters only as RosterPromise     *)
(* allows: by one's own next version, by a newer one of a member, or, by    *)
(* itself, by a new beginning or that of a group that has taken one in.     *)
THEOREM RostersHold == Spec => KeepsRosters
  <1>1. Init => Promise!Init
    BY DEF Init, Genesis, Promise!Init, Promise!First
  <1>2. RostersInv /\ [Next]_vars => [Promise!Next]_<<roster, signed>>
    <2> SUFFICES ASSUME RostersInv, Next
                 PROVE  Promise!Next \/ UNCHANGED <<roster, signed>>
      BY DEF vars, history
    <2>1. ASSUME NEW c \in Computers, NEW r \in signed',
                 Writing(c, r) \/ Following(c, r)
          PROVE  Promise!Next
      BY <2>1 DEF Writing, Following, Commit, Promise!Next
    <2> QED
      BY <2>1, RosterSteps
  <1> QED
    BY <1>1, <1>2, AlwaysRostersInv, PTL DEF Spec, KeepsRosters, Promise!Spec
=============================================================================
