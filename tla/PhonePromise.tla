---------------------------- MODULE PhonePromise ----------------------------
(* What dct promises whoever writes to its bot from the phone (bridge.rs),  *)
(* whichever bridge listens and however often bridges are replaced: a       *)
(* message is typed into a session once at most; one bridge types in the    *)
(* order of writing; and a reply to a push is typed into the one session    *)
(* the push was about, or nowhere.                                          *)
EXTENDS Naturals, Sequences

CONSTANTS
    Texts,      \* the messages there can be: [from, kind, to]
    Sessions,
    Bridges

VARIABLES
    log,        \* the messages, in the order the bot got them
    about,      \* about[p]: the sessions push p told of
    typed       \* what has been typed: [update, session, by]

promiseVars == <<log, about, typed>>

Init == log = <<>> /\ about = <<>> /\ typed = <<>>

Write(m) == log' = Append(log, m) /\ UNCHANGED <<about, typed>>

Tell(told) == about' = Append(about, told) /\ UNCHANGED <<log, typed>>

InOrder(t) ==
    \A i \in DOMAIN typed :
        /\ typed[i].update # t.update
        /\ typed[i].by = t.by => typed[i].update < t.update

InPlace(m, s) ==
    \/ m.kind = "plain"
    \/ m.kind = "reply" /\ m.to \in DOMAIN about /\ about[m.to] = {s}

Type(t) ==
    /\ t.update \in DOMAIN log
    /\ InOrder(t)
    /\ InPlace(log[t.update], t.session)
    /\ typed' = Append(typed, t)
    /\ UNCHANGED <<log, about>>

Next ==
    \/ \E m \in Texts : Write(m)
    \/ \E told \in SUBSET Sessions : Tell(told)
    \/ \E n \in DOMAIN log, s \in Sessions, b \in Bridges :
           Type([update |-> n, session |-> s, by |-> b])

Spec == Init /\ [][Next]_promiseVars
=============================================================================
