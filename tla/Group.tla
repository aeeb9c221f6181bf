------------------------------- MODULE Group --------------------------------
(***************************************************************************)
(* The group of computers of one user: its signed roster                   *)
(* (crates/dct-mesh/src/roster.rs, src/src/mesh/group.rs) and the codes by *)
(* which a computer comes into it (src/src/mesh/invite.rs).                *)
(*                                                                         *)
(* Every computer keeps one roster, in memory and, written first, on disk. *)
(* Whoever is on it may sign the next version, with one computer more or   *)
(* less, and sends it to the others once.  A roster that has been signed   *)
(* may reach those at any time, again, or never.                           *)
(*                                                                         *)
(* A computer that is alone comes into a group by a code its user types,   *)
(* in two questions to the computer that shows it: "join" and "finish".    *)
(* Whoever asks waits five seconds for each; questions may be lost, or     *)
(* handled when nobody waits for the answer any more.                      *)
(*                                                                         *)
(* Keys and signatures are taken to do what they are for: the two ends of  *)
(* a handshake confirm each other exactly when they used the same code and *)
(* meant the same group.  The computers' names are left out.               *)
(***************************************************************************)
EXTENDS Integers, Sequences, FiniteSets

CONSTANTS
    Computers,
    Joins,        \* threads that can run `join`, on whichever computer
    MaxCodes, MaxVersion, MaxAsks   \* bounds of the model

ASSUME BoundAssumption ==
    MaxCodes \in Nat /\ MaxVersion \in Nat \ {0} /\ MaxAsks \in Nat

Codes == 1..MaxCodes

(* SignedRoster; a group is named for the computer that founded it.         *)
Roster == [group : Computers, version : 1..MaxVersion,
           members : SUBSET Computers, signer : Computers]

VARIABLES
    roster,     \* the roster each computer goes by
    invite,     \* the code each computer shows: not yet used, or in flight
    note,       \* invite_note: how the last code of each computer ended
    spent,      \* spent_codes: the codes each computer has sent out
    join,       \* where each thread that joins is
    asks,       \* questions that have not been handled
    issuer,     \* history: who made each code
    signed,     \* history: every roster somebody signed and stored
    admitted,   \* history: who was let in by which code, by whom, where to
    joined      \* history: who went over to which group by which code

memory == <<invite, note, spent>>
history == <<issuer, signed, admitted, joined>>
vars == <<roster, memory, join, asks, history>>

NoInvite == [at |-> "none"]
Live(k) == [at |-> "live", code |-> k]
InFlight(k, b) == [at |-> "flight", code |-> k, peer |-> b]
Invites == {NoInvite} \cup {Live(k) : k \in Codes}
             \cup {InFlight(k, b) : k \in Codes, b \in Computers}

Outcomes == {"Joined", "Burned", "Expired"}
Note(k, o) == [code |-> k, outcome |-> o]
NoNote == Note(0, "Expired")
Notes == {NoNote} \cup {Note(k, o) : k \in Codes, o \in Outcomes}

Question == [kind : {"join", "finish"}, by : Joins, from : Computers,
             to : Computers, code : Codes, group : Computers]

(* A thread is idle, has not asked yet, waits for the answer to `ask`, has  *)
(* the key it asked for, or the roster; "refused" is its last step when the *)
(* roster does not hold.                                                    *)
Idle == [at |-> "idle"]
Probing(b, k) == [at |-> "probing", me |-> b, code |-> k]
Waits(q) == [at |-> "waits", ask |-> q]
Keyed(q) == [at |-> "keyed", ask |-> q]
Handed(q, r) == [at |-> "handed", ask |-> q, roster |-> r]
Refused(q) == [at |-> "refused", ask |-> q]
Threads == {Idle} \cup {Probing(b, k) : b \in Computers, k \in Codes}
             \cup {Waits(q) : q \in Question} \cup {Keyed(q) : q \in Question}
             \cup {Handed(q, r) : q \in Question, r \in Roster}
             \cup {Refused(q) : q \in Question}

Admission == [code : Codes, who : Computers, by : Computers,
              group : Computers]

TypeOK ==
    /\ \A c \in Computers :
          /\ roster[c] \in Roster /\ c \in roster[c].members
          /\ invite[c] \in Invites
          /\ note[c] \in Notes
          /\ spent[c] \subseteq Codes
    /\ DOMAIN roster = Computers /\ DOMAIN invite = Computers
    /\ DOMAIN note = Computers /\ DOMAIN spent = Computers
    /\ DOMAIN join = Joins
    /\ asks \subseteq Question
    /\ issuer \in Seq(Computers) /\ Len(issuer) <= MaxCodes
    /\ signed \subseteq Roster
    /\ admitted \subseteq Admission
    /\ joined \subseteq Admission

(* genesis: version 1, with nobody but its signer.                          *)
Genesis(c, g) ==
    [group |-> g, version |-> 1, members |-> {c}, signer |-> c]

(* Every computer has been through its login (ensure_group).                *)
Init ==
    /\ roster = [c \in Computers |-> Genesis(c, c)]
    /\ invite = [c \in Computers |-> NoInvite]
    /\ note = [c \in Computers |-> NoNote]
    /\ spent = [c \in Computers |-> {}]
    /\ join = [j \in Joins |-> Idle]
    /\ asks = {}
    /\ issuer = <<>>
    /\ signed = {Genesis(c, c) : c \in Computers}
    /\ admitted = {} /\ joined = {}

-----------------------------------------------------------------------------
(* The roster.                                                              *)

(* is_alone *)
Alone(c) == roster[c].members \subseteq {c}

(* Mutated form of SignNext: the group is named for whoever signs.          *)
SignNextOfOwn(c, ms) ==
    [group |-> c, version |-> roster[c].version + 1,
     members |-> ms, signer |-> c]

(* sign_next *)
SignNext(c, ms) ==
    [group |-> roster[c].group, version |-> roster[c].version + 1,
     members |-> ms, signer |-> c]

(* commit: disk first, then memory; when the disk refuses, nothing changes. *)
Commit(c, r) == roster' = [roster EXCEPT ![c] = r]

CanSignNext(c) == roster[c].version < MaxVersion

(* Mutated form of Accepts: the version is not looked at.                   *)
AcceptsOld(current, r) ==
    /\ r.group = current.group
    /\ r.signer \in current.members
    /\ r.signer \in r.members

(* accept, against a roster one has.                                        *)
Accepts(current, r) ==
    /\ r.group = current.group
    /\ r.version > current.version
    /\ r.signer \in current.members
    /\ r.signer \in r.members

(* rename: the roster of a computer that is alone is signed anew, as the    *)
(* first version of its group.                                              *)
Rename(c) ==
    LET r == Genesis(c, roster[c].group) IN
    /\ Alone(c) /\ r # roster[c]
    /\ Commit(c, r)
    /\ signed' = signed \cup {r}
    /\ UNCHANGED <<memory, join, asks, issuer, admitted, joined>>

(* remove: another computer than this one.                                  *)
Remove(c, who) ==
    /\ CanSignNext(c)
    /\ who \in roster[c].members \ {c}
    /\ LET r == SignNext(c, roster[c].members \ {who}) IN
          /\ Commit(c, r)
          /\ signed' = signed \cup {r}
    /\ UNCHANGED <<memory, join, asks, issuer, admitted, joined>>

(* take_roster: what broadcast sent to everybody on it but the signer.      *)
TakeRoster(c, r) ==
    /\ r \in signed /\ c \in r.members \ {r.signer}
    /\ Accepts(roster[c], r)
    /\ Commit(c, r)
    /\ UNCHANGED <<memory, join, asks, history>>

-----------------------------------------------------------------------------
(* The computer that shows a code.                                          *)

(* start_invite: an earlier code is no longer good for anything.            *)
StartInvite(c) ==
    /\ Len(issuer) < MaxCodes
    /\ issuer' = Append(issuer, c)
    /\ invite' = [invite EXCEPT ![c] = Live(Len(issuer) + 1)]
    /\ UNCHANGED <<roster, note, spent, join, asks, signed, admitted, joined>>

CancelInvite(c) ==
    /\ invite[c] # NoInvite
    /\ invite' = [invite EXCEPT ![c] = NoInvite]
    /\ UNCHANGED <<roster, note, spent, join, asks, history>>

EndInvite(c, outcome) ==
    /\ invite' = [invite EXCEPT ![c] = NoInvite]
    /\ note' = [note EXCEPT ![c] = Note(invite[c].code, outcome)]

(* expire_invite, looked at before everything else that reads the code: ten *)
(* minutes for the code, half a minute for the computer that used it.       *)
ExpireInvite(c) ==
    /\ invite[c] # NoInvite
    /\ EndInvite(c, IF invite[c].at = "live" THEN "Expired" ELSE "Burned")
    /\ UNCHANGED <<roster, spent, join, asks, history>>

(* An answer is of use only to a thread that still waits for it.            *)
Answered(q, then) ==
    join' = [j \in Joins |-> IF join[j] = Waits(q) THEN then ELSE join[j]]

(* take_invite_join: whoever asks first has the code, right or wrong.  That *)
(* the two ends mean different codes or groups shows in what the asker      *)
(* makes of the key.                                                        *)
TakeJoin(q) ==
    /\ q \in asks /\ q.kind = "join"
    /\ asks' = asks \ {q}
    /\ IF invite[q.to].at = "live"
       THEN /\ invite' = [invite EXCEPT
                             ![q.to] = InFlight(invite[q.to].code, q.from)]
            /\ Answered(q, IF q.code = invite[q.to].code
                                /\ q.group = roster[q.to].group
                           THEN Keyed(q) ELSE Idle)
       ELSE UNCHANGED invite /\ Answered(q, Idle)
    /\ UNCHANGED <<roster, note, spent, history>>

(* The finish that take_invite_finish looks at.                             *)
Finishes(q) ==
    /\ q \in asks /\ q.kind = "finish"
    /\ invite[q.to].at = "flight" /\ invite[q.to].peer = q.from

Right(q) == q.code = invite[q.to].code

(* Nobody is in flight, or another computer: no answer and no change.       *)
FinishIgnored(q) ==
    /\ q \in asks /\ q.kind = "finish" /\ ~Finishes(q)
    /\ asks' = asks \ {q}
    /\ UNCHANGED <<roster, memory, join, history>>

FinishWrong(q) ==
    /\ Finishes(q) /\ ~Right(q)
    /\ asks' = asks \ {q}
    /\ EndInvite(q.to, "Burned")
    /\ Answered(q, Idle)
    /\ UNCHANGED <<roster, spent, history>>

Lets(q) ==
    admitted' = admitted \cup
        {[code |-> q.code, who |-> q.from, by |-> q.to,
          group |-> roster[q.to].group]}

(* The computer is on the roster already, it just never heard: it is given  *)
(* the current one.                                                         *)
FinishAgain(q) ==
    /\ Finishes(q) /\ Right(q)
    /\ q.from \in roster[q.to].members
    /\ asks' = asks \ {q}
    /\ EndInvite(q.to, "Joined")
    /\ Lets(q)
    /\ Answered(q, Handed(q, roster[q.to]))
    /\ UNCHANGED <<roster, spent, issuer, signed, joined>>

(* Mutated form of FinishAdds: the code stays good for the next.            *)
FinishKeepsCode(q) ==
    /\ Finishes(q) /\ Right(q) /\ CanSignNext(q.to)
    /\ q.from \notin roster[q.to].members
    /\ LET r == SignNext(q.to, roster[q.to].members \cup {q.from}) IN
          /\ Commit(q.to, r)
          /\ signed' = signed \cup {r}
          /\ Answered(q, Handed(q, r))
    /\ asks' = asks \ {q}
    /\ invite' = [invite EXCEPT ![q.to] = Live(q.code)]
    /\ Lets(q)
    /\ UNCHANGED <<note, spent, issuer, joined>>

(* A new version with the computer on it; it is broadcast to the others by  *)
(* the delivery thread (outbox).                                            *)
FinishAdds(q) ==
    /\ Finishes(q) /\ Right(q) /\ CanSignNext(q.to)
    /\ q.from \notin roster[q.to].members
    /\ LET r == SignNext(q.to, roster[q.to].members \cup {q.from}) IN
          /\ Commit(q.to, r)
          /\ signed' = signed \cup {r}
          /\ Answered(q, Handed(q, r))
    /\ asks' = asks \ {q}
    /\ EndInvite(q.to, "Joined")
    /\ Lets(q)
    /\ UNCHANGED <<spent, issuer, joined>>

(* Mutated form of FinishUnsaved: the outcome is noted before the roster is *)
(* stored.                                                                  *)
FinishUnsavedNoted(q) ==
    /\ Finishes(q) /\ Right(q) /\ q.from \notin roster[q.to].members
    /\ asks' = asks \ {q}
    /\ EndInvite(q.to, "Joined")
    /\ Answered(q, Idle)
    /\ UNCHANGED <<roster, spent, history>>

(* The new version cannot be stored: the code is gone, nobody has come in.  *)
FinishUnsaved(q) ==
    /\ Finishes(q) /\ Right(q) /\ q.from \notin roster[q.to].members
    /\ asks' = asks \ {q}
    /\ EndInvite(q.to, "Burned")
    /\ Answered(q, Idle)
    /\ UNCHANGED <<roster, spent, history>>

-----------------------------------------------------------------------------
(* join, on the computer that wants to come in.                             *)

(* The user types a code another computer shows or showed; this one must be *)
(* alone and not have sent that code out before.                            *)
Type(j, b, k) ==
    /\ join[j] = Idle
    /\ k \in DOMAIN issuer \ spent[b] /\ issuer[k] # b /\ Alone(b)
    /\ join' = [join EXCEPT ![j] = Probing(b, k)]
    /\ UNCHANGED <<roster, memory, asks, issuer, signed, admitted, joined>>

(* Every other computer is asked whether it shows a code, with none of them *)
(* told which.  Answers may be lost; what is left is c alone.  The code     *)
(* counts as used before it is sent.                                        *)
Ask(j, c) ==
    LET b == join[j].me
        q == [kind |-> "join", by |-> j, from |-> b, to |-> c,
              code |-> join[j].code, group |-> roster[c].group] IN
    /\ join[j].at = "probing" /\ Cardinality(asks) < MaxAsks
    /\ c # b /\ invite[c].at = "live"
    /\ spent' = [spent EXCEPT ![b] = @ \cup {join[j].code}]
    /\ asks' = asks \cup {q}
    /\ join' = [join EXCEPT ![j] = Waits(q)]
    /\ UNCHANGED <<roster, invite, note, history>>

(* Nobody shows a code, or several do; or the time for an answer is over.   *)
GiveUp(j) ==
    /\ join[j].at \notin {"idle"}
    /\ join' = [join EXCEPT ![j] = Idle]
    /\ UNCHANGED <<roster, memory, asks, history>>

(* The other end has shown that it knows the code: confirm it.              *)
SendFinish(j) ==
    LET q == [join[j].ask EXCEPT !.kind = "finish"] IN
    /\ join[j].at = "keyed" /\ Cardinality(asks) < MaxAsks
    /\ asks' = asks \cup {q}
    /\ join' = [join EXCEPT ![j] = Waits(q)]
    /\ UNCHANGED <<roster, memory, history>>

(* accept_invite, and what attempt looks at besides: signed by the computer *)
(* asked, with both of us on it, and of the group it named.                 *)
AcceptsInvite(q, r) ==
    /\ r.signer = q.to
    /\ {q.from, q.to} \subseteq r.members
    /\ r.group = q.group

Refuse(j) ==
    /\ join[j].at = "handed" /\ ~AcceptsInvite(join[j].ask, join[j].roster)
    /\ join' = [join EXCEPT ![j] = Refused(join[j].ask)]
    /\ UNCHANGED <<roster, memory, asks, history>>

(* Mutated form of SettlesOn: that it was alone before is enough.           *)
SettlesAnyway(b) == b \in roster[b].members

(* settle looks again, with the lock in its hand.                           *)
SettlesOn(b) == Alone(b)

Settle(j) ==
    LET q == join[j].ask
        r == join[j].roster IN
    /\ join[j].at = "handed" /\ AcceptsInvite(q, r)
    /\ SettlesOn(q.from)
    /\ Commit(q.from, r)
    /\ joined' = joined \cup {[code |-> q.code, who |-> q.from,
                               by |-> q.to, group |-> r.group]}
    /\ join' = [join EXCEPT ![j] = Idle]
    /\ UNCHANGED <<memory, asks, issuer, signed, admitted>>

RunsOn(j, c) ==
    \/ join[j].at = "probing" /\ join[j].me = c
    \/ join[j].at \notin {"idle", "probing"} /\ join[j].ask.from = c

(* The daemon of c is started anew: codes and threads are gone, the roster  *)
(* is read back.                                                            *)
Restart(c) ==
    /\ invite' = [invite EXCEPT ![c] = NoInvite]
    /\ note' = [note EXCEPT ![c] = NoNote]
    /\ spent' = [spent EXCEPT ![c] = {}]
    /\ join' = [j \in Joins |-> IF RunsOn(j, c) THEN Idle ELSE join[j]]
    /\ UNCHANGED <<roster, asks, history>>

-----------------------------------------------------------------------------
Answer(q) ==
    \/ TakeJoin(q)
    \/ FinishIgnored(q) \/ FinishWrong(q)
    \/ FinishAgain(q) \/ FinishAdds(q) \/ FinishUnsaved(q)

JoinStep(j) ==
    \/ \E b \in Computers, k \in Codes : Type(j, b, k)
    \/ \E c \in Computers : Ask(j, c)
    \/ SendFinish(j) \/ Refuse(j) \/ Settle(j) \/ GiveUp(j)

Next ==
    \/ \E c \in Computers :
          \/ Rename(c)
          \/ StartInvite(c) \/ CancelInvite(c) \/ ExpireInvite(c)
          \/ Restart(c)
          \/ \E who \in Computers : Remove(c, who)
          \/ \E r \in signed : TakeRoster(c, r)
    \/ \E q \in asks : Answer(q)
    \/ \E j \in Joins : JoinStep(j)

Spec == Init /\ [][Next]_vars

-----------------------------------------------------------------------------
Promise == INSTANCE RosterPromise

(* However rosters and codes cross, what each computer goes by is replaced  *)
(* only as RosterPromise allows.                                            *)
KeepsRosters == Promise!Spec

(* A code lets in one computer at most, and only by whoever made it; and a  *)
(* computer goes over only to a group whose computer has let it in by the   *)
(* code that was typed.                                                     *)
CodesAreForOne ==
    /\ \A x \in admitted :
          /\ x.by = issuer[x.code] /\ x.who # x.by
          /\ \A y \in admitted : y.code = x.code => y = x
    /\ joined \subseteq admitted

(* Whoever is on a roster anybody has signed founded the group or was let   *)
(* into it by a code.                                                       *)
MembersWereInvited ==
    \A r \in signed : \A m \in r.members :
        m = r.group \/ \E x \in admitted : x.who = m /\ x.group = r.group

(* What the user is told about a code is so: "joined" when a computer has   *)
(* been let in by it, "burned" or "expired" when none has and none will.    *)
NotesAreTrue ==
    \A c \in Computers :
        note[c] # NoNote =>
            (note[c].outcome = "Joined"
               <=> \E x \in admitted : x.code = note[c].code)

(* A computer that shares a group with others does not leave it for another *)
(* one behind its user's back, for instance by a second join.               *)
GroupIsKept ==
    [][\A c \in Computers :
          ~Alone(c) => roster'[c].group = roster[c].group]_vars

(* "对上了就把现在的名单再给它一份" (src/src/mesh/invite.rs): a computer    *)
(* that was let into a group, did not hear of it and proves that it knows   *)
(* another code of that group takes the roster it is given.                 *)
RosterIsTaken ==
    \A j \in Joins : join[j].at = "refused" =>
        ~ \E x \in admitted \ joined :
              /\ x.who = join[j].ask.from /\ x.group = join[j].ask.group
              /\ x.code # join[j].ask.code
=============================================================================
