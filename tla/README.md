# dct: TLA+ models of the daemon

`dct` runs several coding agents (claude, codex, qwen, plain shells, ...) side by side, each in a
pseudo terminal of its own, behind one long-lived daemon.  Terminal windows, phones and other
computers talk to the daemon; the daemon keeps the agents alive, knows which of them work and
which are idle, and can replace itself by a newer version without losing anybody's work.  This
directory holds TLA+ models of that daemon, the TLC runs that check them, and theorems about
them whose proofs TLAPS checks.

To check: `tlc -workers 2 -config MCSessions.cfg MCSessions` and so on (the table under "The runs"
gives module and configuration), and `tlapm` on every module whose name ends in `Proofs`.
`PROJECT.json` names for every definition the source lines it stands for.

## 1. The system and its parts

| part | source | state it keeps | operations | how it meets the others |
|---|---|---|---|---|
| session manager | `src/session.rs` | map number -> session, counter of numbers, `frozen`, `draining`, `restoring`, per session the process, its state on the board, what was submitted, conversation id | create, restore, discard, Enter/keys, stop, kill, prune, `tick` every 200 ms, final write, `kill_all_now` | called by one thread per connection, the ticker, the restore thread, the watcher, the drain thread, the bridge and the mesh |
| list of sessions | `src/last_sessions.rs` | `last-sessions.toml` | save, load, which session of a directory gets `--continue`, who is resumed by conversation id | written by the session manager under a mutex, read once at start-up |
| drain | `src/drain.rs` | one slot per session (waiting, asked, done), the marks for the next daemon, when time ran out | `new`, `step`, `progress`; no I/O, no clock of its own | stepped by the drain thread |
| graceful restart | `src/daemon.rs` (`DrainCtl`) | the one `DrainRun`, counted by generation; the lease; whom it told | start, status, cancel, abandon, the drain thread, final write, swap, exit | holds a mutex while it types into sessions; starts the process that replaces the daemon |
| notes after a restart | `src/resume_notes.rs`, `daemon.rs` | list of notes, each with a deadline | `note_for`, `step` | a thread for each batch; types through the bridge |
| pseudo terminals | `src/pty.rs` | child process, screen, scroll position | spawn, write, resize, kill, is_alive | one reader thread per session |
| journal | `src/journal.rs` | append-only file | one line per birth, death, drain | written by the session manager |
| explanations, names | `src/session.rs`, `src/llm/` | a slot and a generation counter per session | ask a model when a session fails | a thread per question |
| git checkpoints | `src/git.rs` | git's own | snapshot, undo, diff | called with no lock held |
| daemon | `src/daemon.rs` | socket, watchers of secrets | one thread per connection, dispatch of requests | owns everything above |
| client, protocol | `src/client.rs`, `src/proto.rs` | none | connect, version check, swap of the daemon | over the socket |
| phone bridge | `src/bridge.rs`, `src/channel/` | owner, reply targets, event queue | events to the phone, replies into sessions | gate on `draining`; types with the session's writer |
| messages between computers | `src/mesh/mod.rs`, `deliver.rs`, `net.rs` | queue per session, `in_flight`, replay guard | receive, decide, type, queue, give up, send | holds messages during a drain and hands copies to the final write |
| group of computers | `src/mesh/group.rs`, `store.rs`, `crates/dct-mesh/src/roster.rs` | signed roster with a version | create, accept, add, remove, leave, rename | rosters travel through the relay |
| invitations | `src/mesh/invite.rs`, `crates/dct-mesh/src/invite.rs` | open codes, attempts | invite, join, confirm | two computers and the relay |
| link to the relay | `src/link.rs`, `crates/dct-link/` | position of the long poll, pending asks | poll, answer, ask with a timeout | a thread of its own |
| relay server | `crates/dct-srv/` | endpoints, mailboxes, keys, broadcasts | register, post, poll, ack | untrusted by the mesh |
| live broadcast | `src/live.rs` | the one broadcast and its pushing thread | start, push, stop | reads screens |
| brain | `crates/dct-brain/`, `src/procedures.rs` | approvals, tickets | approve, run a procedure step | signed requests |
| pairing | `src/pair*.rs` | a pairing code | begin, confirm, apply | one HTTP exchange |
| the rest | `src/ui/`, `src/web/`, `src/gate.rs`, `src/game/`, `src/voice/`, `src/llm/`, settings, secrets, profiles, the vendored terminal emulator | files and screens | drawing, serving pages, calling services | in front of the daemon's requests |

What is hard in it:

* **Many threads, short locks.** The daemon has no big lock.  A request takes the lock of one
  session, gives it up for slow work (a git snapshot, spawning an agent), and takes it again;
  meanwhile the ticker, another connection or a restart may have changed the session.
* **The daemon replaces itself.** The old process writes a list, starts its successor, kills its
  agents and exits; the new one reads the list and resumes conversations by their ids.  A write
  too many, a number used twice or an agent left over loses a conversation or doubles one.
* **Agents are guessed at.** Whether an agent works is read off its screen; some profiles cannot
  be judged at all, and agents look idle for a moment while they work.
* **Promises to agents.** A session that was told "stop, dct restarts" must be told to carry on
  whatever becomes of the restart: done, cancelled, failed, or abandoned because the command that
  asked for it was killed.
* **Threads outlive their purpose.** Drain threads, note threads, model calls and the pushing
  thread of a broadcast are recognised by a generation when they come late.

* **Somebody else holds the other half.**  A letter, a broadcast's room, an invitation or a message
  from the phone is known to two computers at once, and any request between them may be lost before
  or after it was served.  What one side believes of the other is true only if every late answer is
  compared with what it was the answer to.

What makes each part correct is in section 3 for the parts that are modelled, and in section 6 for
those that could come next.

## 2. The modules

| module | models | composes / refines |
|---|---|---|
| `Sessions` | the table of sessions, its threads, the list on disk | |
| `DrainPromise` | what a drain promises the thread that carries it out | abstract specification |
| `Drain` | `drain.rs`: the state machine with its clocks | implements `DrainPromise` |
| `GracefulRestart` | `DrainCtl`, its threads, the swap, the notes | uses `DrainPromise` for the drain inside |
| `Mailbox` | a queue of messages, and what is left of it when some are thrown away | used by `MailPromise`, `MeshDeliver` |
| `MailPromise` | what a computer promises about messages left for its sessions | abstract specification |
| `MeshDeliver` | `mesh/deliver.rs`, `mesh/mod.rs`: receiving, deciding, typing, the delivery thread | implements `MailPromise` |
| `LetterPromise` | what `dct send` promises about a letter to another computer | abstract specification |
| `Relay` | the sender, the relay server and the link thread of the addressee | implements `LetterPromise` |
| `RosterPromise` | what the computers of a group promise about their rosters | abstract specification |
| `Group` | `mesh/group.rs`, `mesh/invite.rs`: rosters and invitations | implements `RosterPromise` |
| `PhonePromise` | what dct promises whoever writes to its bot | abstract specification |
| `Bridge` | `bridge.rs` and the requests about it: two threads for each bridge | implements `PhonePromise` |
| `Live` | the slot of `live.rs`, its pusher, and the rooms of `dct-srv/src/live.rs` | |
| `SessionsProofs`, `DrainProofs`, `RestartProofs`, `MeshProofs`, `RelayProofs`, `GroupProofs`, `BridgeProofs`, `LiveProofs` | theorems | each extends the module it is about |
| `MCSessions`, `MCDrain`, `MCGracefulRestart`, `MCMeshDeliver`, `MCRelay`, `MCGroup`, `MCBridge`, `MCLive` | instances for TLC | |

`GracefulRestart` takes from `DrainPromise!Round` what one step of a drain may do, and the run
`drain` shows that the state machine of the code does nothing else.  So the interleavings of
threads are checked without the clocks, and the clocks without the threads.
`Sessions` models the final write and the swap from the side of the table and the list,
`GracefulRestart` from the side of the drain; the two share the order *final write (freezes), swap,
kill all, exit* and the way back after a failed swap.  `MeshDeliver` and `Relay` are the two halves of
a letter: `Relay` ends where the addressee's link thread hands the envelope to the mesh, `MeshDeliver`
begins there and lets the envelope arrive late, repeated or never.

### 2.1 Sessions

| variable | code |
|---|---|
| `table`, `nextId` | `SessionManager.sessions`, `next_id` |
| `state`, `byRequest`, `submitted`, `hasConv` | fields of `Session` (`state`, `stopped_by_request`, whether an Enter ever went in, `conversation_id`) |
| `alive` | `PtySession::is_alive` |
| `death` | the last `Death` line of the journal |
| `file`, `frozen`, `listLock` | `last-sessions.toml` and the mutex of `frozen` |
| `unread`, `draft` | the loop of `write_last_sessions` over the map |
| `pc`, `cur`, `then`, `dead`, `round` | where each thread is |
| `toRestore`, `watched` | the records of the restore thread, `ResumedById` |
| `stale`, `everConv` | history variables of the properties |

A step is what a thread does under one lock.  `persist_last_sessions` is three kinds of steps
(`PersistBegin` takes the mutex, `ReadSession` looks at one session under its own lock,
`SaveList` or `SaveFails` ends it), and every operation that writes the list in the code ends in
it in the model (`ThenPersist`).  `create_inner` takes its number first (`Create`, `Restore`,
`Recreate`), works with no lock held, and inserts at the end (`Insert`) or loses the number
(`CreateFails`).  `send_input` is two steps, because it gives the lock up for the snapshot.
Working, idle, asking, failed and unknown are one state ("Live"); where the code writes the list on
a change between them and a debounce allows it, the model may write it after any look.

### 2.2 Drain

`Drain::step` is one action.  What it is given (each session's state, who can take key strokes,
which handoff files exist) is chosen anew at every step, except that a session that is gone stays
gone, and that a profile without patterns always shows "unknown" and no other ever does
(`session.rs` classifies so).  Time is counted in ticks; a late thread skips up to `MaxDelay`.
`phase`, `seenBusy`, `idleSince`, `unreadySince` are the fields of a slot; `nudgedAt`,
`nudgeDue`, `interrupted`, `handoffs` those of `Drain`; the actions a step returns are `asking`,
`nudging` and `finished`.  `seen`, `lastBusy` and `lastFit` are history: what each session showed at the
last step, when it was last seen at work, and when it was last at work or able to take key strokes.
`MarkedForAReason` and `RestIsReal` speak of these and not of the slots' own clocks.

### 2.3 GracefulRestart

`running`, `generation`, `finishing`, `done`, `told` and the drain inside are the `DrainRun`;
`lapsed` says that the last poll is older than the lease; `draining` is the flag the bridge and the
mesh look at.  `driver[g]` is where the thread of drain `g` is, `acts[g]` the actions it has still
to carry out, for the code computes them under the lock and carries them out one by one, each
under the lock again (`type_for_run`).  `file` and `recorded` are the marks and sessions of the
final list.  `notes` are the notes of every note thread together.  `halted`, `warned` are about
the world: who has been told to stop and not to carry on, and whose failed note the user has been
shown; what the user does then is an action of the environment (`UserTells`), as are `Ends` and
`Lapse`.  Everything done with the mutex of `run` held is one step.  The thread of notes that a
cancel starts right after it gave the mutex up is counted to that step: what it does first is to
wait.

Two questions that look alike are kept apart, as in the code.  `DrainResumable` (`drain_resumable`) is asked
when a drain starts, to decide who need not write a handoff; `conversations` (`will_resume_by_id`) is
what the last write records, and decides who comes back by id.  `named` and `spoken` are the
`conversation_id` and `submitted` of each session; `Speaks` is the user's Enter, which may come between
the two questions.  `Restore` starts the recorded sessions again: by id, by `--continue`
(`ContinueFlags`, from `continue_flags`; which session was active last is left open), or afresh.
`NoteFor` and `LostWithoutHandoff` have the arguments of `note_for` and `lost_without_handoff`.  A session
that starts afresh does not remember that it was told to stop; one that is continued does.
`cancelled`, `spared`, `passedOver` and `carriedOn` are history.  The last two are sessions that the
code leaves in silence (section 5); they are computed from the marks in the list and from how a session
came back, not from `NoteFor`, so that a wrong `note_for` is caught.

### 2.4 MeshDeliver

`queue`, `inFlight`, `seen`, `members` are `queues`, `in_flight`, `seen` and the roster of `Mesh`;
`board` is what `Inbox::sessions` shows.  `pc[a]` and `jobs[a]` say where thread `a` is between two
sections of the lock and which messages it has in hand; `result[a]` is what `type_into` gave back.
Everything done with the lock held is one step: `Receive` is `take_sealed` with `decide`,
`SendHere` is the part of `send` that is for this computer, `TickChecks` and `TickTakes` are the two
sections of `tick`.  Without the lock come `Submit` (the look at the flag of a restart), `Types` or
`TypeFails` or `Panics`, and with the lock again `Finish`.  `answer[m]` is the receipt the code computes;
whether it reaches the sender is the network's affair.
Text and Enter are two calls in the code (`submit_unchecked`) and one step here: words that went in without
their Enter count as not typed, which is also what the sender is told.  An address means the sessions in
`Address[m]`, and is resolved when exactly one of them is on the board.  `restart` and `held` are the
drain seen from here; `typed`, `accepted`, `turnedAway` are history variables.  Any message may be
received at any time, again and again, or never: lost, late, reordered and repeated envelopes need
no action of their own.  The mailbox of a session in the sense of `MailPromise` is the message in some
thread's hand followed by the queue.

### 2.5 Relay

| variable | code |
|---|---|
| `devices`, `waiting` | `Relay.devices` and `Relay.waiting` of `crates/dct-srv/src/lib.rs` |
| `boxes`, `polls` | the mpsc channel of each entry and the handlers that wait at its receiving end |
| `ask[l]` | the server's task for a letter, and which try of `Outbox` it belongs to |
| `link[c]` | where `link.rs`'s thread of computer `c` is |
| `account`, `logins` | the account of the token in use, and how often it changed |
| `handled`, `told` | the envelopes the addressee's mesh acted on; what the sender was told |

A step is what the server does between two awaits under one of its locks, so that a mailbox may be
replaced, swept or thrown out between looking it up and putting something in.  Time is not counted: a
request may be given up, an entry grow old and a wait end whenever the time limits allow it, and a
client that gave up leaves its request in the server.  An answer carries the number of the question
and its sender, as in the code; two letters may have equal numbers because the number comes from the
computer that asks.

### 2.6 Group

`roster`, `invite`, `note`, `spent` are what each daemon keeps (`Mesh.roster`, the open invitation,
`invite_note`, `spent_codes`); `join[t]` is where a thread that runs `join` is; `asks` are the questions
that have been sent and not handled; `signed`, `admitted`, `joined`, `issuer` are history variables.
A roster somebody signed and stored may reach those on it at any time, again, or never: that covers
the one broadcast of `group.rs`, its loss, and its repetition.  A question may be handled after its
sender gave up.  Codes run out at any moment (`ExpireInvite`), a daemon restarts and forgets its codes
(`Restart`), but keeps the roster it has written.  Keys and signatures do what they are for, and the
names of the computers are left out.  At first every computer is logged in and alone.

### 2.7 Bridge

`slot` is the bridge the daemon has, `bridge[b]` its `owner`, its `stop` flag and its table of pushes,
`poll[b]` and `send[b]` where its two threads are.  `log` and `confirmed` belong to the messenger: the
updates of the bot, and how many of them it has forgotten since somebody asked for later ones.
`typed`, `about` and `heard` are history.  Each section in which the code holds the bridge's lock, and each
request to the messenger, is a step; a request may fail before or after it was served.
One bot is modelled, whose token is set again; the daemon does not restart.  Which events are in a push
is left open, and so are the answers to commands, the screens, the options and the session named by
`/use`.  Text and Enter are one step: words that went in without their Enter may count as typed.  Batches are not cut at a hundred, updates without text are left out, and the messenger gives
each push a number of its own.  The owner in the secrets file and the status for the settings page are
written but read by nobody while the daemon lives.  `clear_owner` is one step, an owner that cannot be
read means no bridge, and panics of the polling thread are left out.

### 2.8 Live

`slot` is the one broadcast of `LiveState`, `screen` what the sessions show, `rooms` and `keyIsGood` the
relay.  `pc`, `hand`, `answer`, `shots`, `lane` say where the pusher is in its round: *look at the slot,
delete the room of an earlier broadcast, register the lanes, publish or withdraw, look at the room when
the key was refused, read who watches, take the screens, push them one lane after the other*.
`started`, `pushed`, `applied`, `stuck`, `retry` are the pusher's books.  Every answer is noted under the
slot's lock and only if the id and the revision still agree with the ones it was about; `known`, `lost`, `heard`, `unsure`
are history.  A request fails before or after the relay served it.  `MaxEvents` bounds together what the
teacher does, how often screens change, requests fail, and the relay forgets a room or the console
touches it; the pusher's own steps are not bounded.
Left out: a request the relay serves only after its client gave up (a start carries no revision, so a
late one could put an old list of lanes back, which bears on `ReadyIsTrue`; and one that is served after the
DELETE would leave a room open that nobody closes, which bears on `NoRoomIsLeftOpen`), the quota of a key (a request that is turned down
for it counts as lost), and titles too long for the relay (the daemon cuts them first).  The keepalive
and the waits between tries are over at any time.  The lists of the instance name no session twice;
`validated_staging` would take such a list, and as `pushed` is kept by session the second lane would then
never get a frame of its own.  The exchange of the keys and the `reconcile` after it are one step
(`Revokes`).

## 3. The runs

| run | instance | shows |
|---|---|---|
| `sessions` (`MCSessions.cfg`) | one connection, the ticker, restore thread, watcher and drain thread; two numbers, one inherited record that names a conversation | `ListFollowsSessions`: when nobody is busy, the list on disk names every session that runs and none that is off the board or stopped; `NumbersAreUnique`; `NoAgentOutlivesItsRecord`; `ConversationIsKept`; `FrozenListIsFinal` |
| `sessions_live` (`MCSessionsLive.cfg`) | one connection, one number, fair threads | `DeathReachesTheList`: a session whose agent died leaves the list (what the code does; its documents say otherwise, section 5) |
| `drain` (`MCDrain.cfg`) | three sessions: resumable, to be asked for a handoff, not to be judged; wait 4, nudge 2, settle 2, cap 3 ticks, thread up to two ticks late | `EndsInTime`; `RestIsReal`: nobody is taken for stopped who may be at work; `MarkedForAReason`: who is marked for a word after the restart was at work when time ran out, still waited for at the end, or could not be asked for a handoff for the whole cap; `KeepsPromise` (the refinement) |
| `restart` (`MCGracefulRestart.cfg`) | two drains one after the other, two sessions in one directory, of a profile that resumes by id and by `--continue`, each with or without an id, used or not | `ToldAreRemembered`: who was told to stop hears the end of it; `CancelledNeverRestarts`; `DriversMindTheirRun` |
| `restart_ends` (`MCRestartLive.cfg`) | two drains, one session, fair drain threads | `UnfollowedDrainEnds`; `FinishingEnds` |
| `mesh` (`MCMeshDeliver.cfg`) | two sessions, a message for one and one for a name both share, a queue of one, two computers, one local sender, fair threads | types and the cap of the queue; `KeepsMail` (the refinement: order, and nothing typed twice); `OneAtATime`; `ReceiptIsTrue`; `HeldIsNotTyped`; `RemovedIsForgotten`; `QueueIsEmptied` |
| `queued` (`MCMeshQueued.cfg`) | two sessions, three messages | a violation, see section 5 |
| `relay` (`MCRelay.cfg`) | `a` sends `b` two letters with the same number, a mailbox for one envelope, two mailboxes at a time, one change of account | `KeepsPromise` (the refinement: what the sender is told is true, nothing is acted on twice); `WaitersAreListed`: a task that waits is the one that will be woken; `MailStaysInAccount` |
| `relay_goes_on` (`MCRelayLive.cfg`) | one letter, two polls at a time, a change of account, a restart of the relay, fair tasks and link threads | `MailIsFetched`; `LinkComesBack`; `EverySenderIsTold` |
| `group` (`MCGroup.cfg`) | three computers, one thread that joins, two codes, rosters up to version 3, two questions | `CodesAreForOne`; `MembersWereInvited`; `NotesAreTrue`; `GroupIsKept`; `KeepsRosters` (the refinement) |
| `bridge` (`MCBridge.cfg`) | two bridges, two phones, two sessions, two updates, one push, a table for one push | `KeepsPromise` (the refinement: typed once at most, in order, a reply only where its push came from); `HearsInItsTime` |
| `live` (`MCLive.cfg`) | two sessions, two lists of lanes, one title, two broadcasts, four events, fair pusher | `ReadyIsTrue`; `NoRoomIsLeftOpen`; `ListedIsHeard`; `ScreensArrive`; `WishIsFollowed` |

A type invariant is checked by the run `mesh`, for it holds the cap of the queues; that the variables of
each module keep their types is a theorem for all of them (section 4).

**Why the bounds are enough to be interesting.**  In `sessions`, two numbers are one restored and
one new session (or its replacement): enough for a number to be taken twice, for the list to mix
two moments, for a watcher to discard what a client stops.  The interleavings come from the five
threads, not from more sessions.  The view leaves out the journal's last word, which no action and
no property of that run reads.  In `drain`, the one session of each kind takes every branch of the
slots; the waits are different from each other and longer than the settle time, so that each of them can
run out first, and a delay of two ticks makes every comparison be met exactly and jumped over.  In
`restart`, two drains are what a thread that comes late needs to meet somebody else's run, and what a
note needs to be overtaken by the next restart; two sessions in one place are what it takes for one to be
resumed by id and the other by `--continue` or not at all.  They are alike, so the run uses symmetry.  Two places,
profiles that cannot resume and plain shells are the theorems' affair.  The views of `drain` and `restart` leave out
what no later step and no property reads (see `MCDrain` and `MCGracefulRestart`).

In `mesh`, two sessions give the delivery thread two jobs in one round, so that a panic at the first
leaves the second, and the cap of one is met by the second message.  In `relay`, two letters with one
number, both from `a` to `b`, are what it takes for an answer to reach the wrong waiter; one envelope fills the mailbox; two
mailboxes are an old one that somebody still looks at and its replacement.  In `group`, three computers
are needed for a fork (two that sign the same version) and somebody to hear of it; of two codes
one is spent and one is open.  In `bridge`, the second bridge is set up while the threads of the first are anywhere; one
push does not overflow the table, so what the table throws out is the proof's affair.  In `live`, two
broadcasts give answers about the first one while the second is in the slot; four events are a start,
a change of what is wanted, and two failures.

**Deadlock.**  `Sessions`, `Drain`, `MeshDeliver`, `Relay` and `Live` are checked for it (their ends are
steps of their own, such as `Terminated`, `Finished`, and standing still after `Exit`; relay and pusher
always have a step).  `GracefulRestart` is checked without: after `MaxDrains` drains and with all sessions
gone, the model has nothing more to do.  So are `Group`, where all codes and versions may have been
used, and `Bridge`, whose threads end with the last bridge.

**Fairness.**  `Sessions!FairSpec`: weak fairness for what a thread does in the middle of an operation and
for the ticker, strong fairness for taking the mutex of the list (a thread is not passed over for
ever).  Nobody has to ask for anything.  An Enter sent to a dead session puts it back on the list for a
round, so `DeathReachesTheList` assumes that nobody presses Enter for ever.
`GracefulRestart!FairSpec`: weak fairness for the drain threads only, which are loops that
the operating system runs; nothing about the CLI, the notes or the drain's end is assumed.
`MeshDeliver!FairSpec`: the delivery thread runs, and typing ends one way or another; this rests on git
snapshots ending, which the code does not bound.  `QueueIsEmptied` assumes that the session stays at
rest and no restart is prepared.
`Relay!FairSpec`: the server's tasks and the link threads go on, and the clock advances for an entry nobody
renews (weak); polls that find an envelope are not broken every time before they take it, and a computer whose
requests fail again and again gets into the relay now and then (strong: without the two nothing would ever
arrive).  A client need not give up.
`Live!FairSpec`: the pusher's thread runs, and its waits end.  No request has to succeed; that the failures are
bounded (`MaxEvents`) is what makes `ScreensArrive` and `WishIsFollowed` true in the end.

## 4. What is proved

Every theorem is about all values of the constants that satisfy the assumptions named in the module.
Every safety property, action property and refinement that a passing run checks has one.  The inductive
invariants are written in the `Proofs` modules.  Those of `Sessions`, `MeshDeliver` and `Relay` were invariants
of a TLC run on an instance like those of section 3 first, and were strengthened until they were inductive.

`SessionsProofs`, for every set of connections, every number of sessions, every inherited list and
every set of profiles (the actors are different, an inherited list names no number twice, `MaxId` is a
positive number):

* `TypeCorrect`: `Spec => []TypeOK`.  Not inductive alone: a thread at "spawn" must have a number in
  hand, and the restore thread a record (`TypeInv`).
* `FrozenList`: `Spec => FrozenListIsFinal`.  It rests on `LockInv`: whoever is
  reading the sessions holds the mutex, and only the drain thread reads them while the list is
  frozen, because `frozen` is looked at with the mutex held and set by the last step that holds it.
* `UniqueNumbers`: `Spec => []NumbersAreUnique`.  It rests on `NumberInv`: numbers on the board
  and in hand are below the counter unless they came from the list, the numbers of the records still to
  restore are below the counter and in nobody's hand, and the restore thread is the only one that takes
  a recorded number.
* `ListFollows`: `Spec => []ListFollowsSessions`.  A change of the board is not on disk at once: between
  the two is either a thread that waits to write (`Waiting`), or the draft together with the sessions still to be
  looked at accounts for the board, or the file does.  `PendingInv` says that one of the three is always
  so: stop, prune, create and the ticker write only after they have given up the lock of the session, but
  whoever changes the board goes on to write, and cannot begin before the write under way has ended.
* `NoAgentOutlives`: `Spec => []NoAgentOutlivesItsRecord`.  `KillInv`: while the daemon kills, every
  listed session that runs is still among those to be killed.  The hard case is a create that ends
  while the killing goes on; its session is not on the list, because the list is frozen and `RecordInv`
  says that it names no number that is still to be given out.
* `KeptConversation`, `ListIsResumable`, `ConversationKept`.  `ConversationInv` follows the name of a
  conversation from the record through the restore thread's queue, the session on the board and
  the draft back to the record.  A session restored by id is marked as spoken to, so the next list
  names its conversation again; but only if its profile resumes by id.  `ConversationIsKept` therefore has
  the hypothesis `InheritedIsResumable`: the inherited list names conversations of such profiles only.
  Each daemon writes a list of that kind (`ListIsResumable`), so only a user who edits the profiles between
  two daemons can break it, and then `KeptConversation` is what remains, which has no hypothesis.

`DrainProofs`, for any sessions of any kinds, any waits and any bounded lateness:

* `TypeCorrect`; `RestartIsNotHeldUp` (`EndsInTime`), from how long each slot may have been as it is;
  `DoneIsAtRest` (`RestIsReal`).
* `MarksHaveReasons` (`MarkedForAReason`).  `MarkInv` ties the slot's `unreadySince` to `lastFit`: a session
  was last at work or able to take key strokes before it began to count as unready, and a session that has
  worked counts as unready only after it was idle for the settle time.
* `DrainKeepsPromise`: `Spec => KeepsPromise`.  Strengthening needed: a nudge is due only for sessions
  that are waited for and marked, and after the interrupt nobody is waited for.

`RestartProofs`, for any sessions and any number of drains:

* `RestartTypes`: types, and that the flag `draining` says what the run says.
* `CancelIsFinal` (`CancelledNeverRestarts`): a cancelled generation is past or not running, and
  only the running one is in its last step.
* `LateThreadsAreHarmless` (`DriversMindTheirRun`).
* `NobodyToldIsForgotten` (`ToldAreRemembered`): while a daemon serves, whoever is halted is in the run that told
  it, among the notes, or in the warning.  The hard step is `Restore` (`RestoreRemembers`): who comes back with its memory,
  by id or by `--continue`, and is on the list as interrupted or with a handoff, gets a note, unless it was
  continued without a handoff.  The theorem says nothing of the two kinds of sessions in section 5 that the code leaves
  in silence.

`MeshProofs`, for all sets of sessions (numbers), computers, messages and connections:

* `OneTypist`: `Spec => []OneAtATime`.  It rests on `HandsInv`: a thread has something in hand exactly
  when it is between taking and finishing, and what it has is for sessions.  The step of the delivery
  thread that takes several messages at once, and the one that finishes the job for the least session,
  need that a set of jobs has a least session (`CurrentIsAJob`, from the well-foundedness of the naturals).
* `TypeCorrect` (`TypeOK`, with the cap of the queues) and `Forgotten` (`RemovedIsForgotten`, which is about the
  queues only), each inductive with the marks.
* `ReceiptsHold` (`ReceiptIsTrue`).  `PlaceInv` is the heart: a message that was let in is in one queue, once,
  or in one thread's hand, or typed; `AnswerInv` adds that one not let in has no answer and that one turned down is
  in none of these places.
* `CopyIsNotTyped` (`HeldIsNotTyped`).  `HeldInv`: the copy is made while a restart is prepared, when no
  typing begins; a typing that had begun is of a message that had left its queue before.
* `MailIsKept`: `Spec => KeepsMail`, the refinement of `MailPromise`.  The mailbox of a session is what some thread has
  in hand for it followed by its queue (`Boxes`), which is one message and a queue because of `OneAtATime`.
  Taking a message stutters, putting one in is `Accept`, typing is `Type` of the head, and a refused
  typing, a removed member and a restart are `ThrowAway`, which drops messages but keeps the order of the
  others: `Without` of `Mailbox` is written as a function so that its head and its members can be reasoned about.

`RelayProofs`, for any computers, accounts, letters and numbers of their questions, any size of the mailboxes
and any number of polls, changes of account and restarts (a letter goes to another computer, and `None` is
neither an entry nor an envelope):

* `TypeCorrect`: `Spec => []TypeOK`.  Not inductive alone: a task that is to forget its slot knows what to
  tell the sender (`WhyInv`).
* `WaitersListed` (`WaitersAreListed`), which is inductive with the types.  The case that matters is two letters with the
  same number: `forget` takes only the slot of its own task.
* `InAccount` (`MailStaysInAccount`).  A mailbox is looked up in one step and used in a later one.  `OneAccount`: all
  that has to do with one mailbox, that is the entry, its polls, what lies in it, and the tasks and link threads that have
  found it, belongs to one account; `SlotInv` and `GotInv` say it of slots and of answers given to a task.
* `PromiseKept`: `Spec => KeepsPromise`, the refinement of `LetterPromise`.  `PromiseInv`: where a question lies
  in a mailbox or with a link thread, or has been handled, its task waits for it, or is over and its sender has not
  been told that nobody is there; this is so of one of the two tries of a letter only; an answer is about
  something that was handled, and so is a receipt.

The steps of `Relay` are proved in three groups, those of polls and entries (`Around`), of link threads
(`Answering`) and of tasks (`Asking`); `Move` says what a step of any group may do to a task, so that an
invariant about tasks is proved once for each kind of move.

`GroupProofs`, for any computers, threads, codes and versions:

* `TypeCorrect`, and the five properties of the run `group`: `CodesHold`, `InvitedHold`, `NotesHold`,
  `GroupsHold`, `RostersHold`.  The invariants are `Typed` (the types, and that every computer is on its own
  roster), `CodesInv` (a code is shown by the computer that made it; once it has let somebody in, or its user
  has been told of its end, it is shown no more) and `RostersInv` (every roster in use was signed,
  everybody on one founded the group or was let in, and whoever holds a roster as the answer to its
  code was let in by that code).

`BridgeProofs`, for any number of bridges, messages and pushes and any size of the table:

* `TypeCorrect`; `EachInItsTime` (`HearsInItsTime`); `PromiseIsKept` (`KeepsPromise`).  The invariant
  is `TypeOK`, `SlotInv` (a bridge that is not the daemon's has its flag set; one that came later has no
  owner before it has thrown away what was waiting), `TimeInv` (what a stopped bridge has in hand was
  there when it was stopped, what a later bridge has in hand was not there when an earlier one was
  stopped), `TypedInv` (what a bridge has typed comes before what it has in hand) and `PushInv` (the table
  names for a number the session its push was about).

`LiveProofs`, for any sessions, lists, screens, titles and bounds:

* `TypeCorrect`; `RoomsHold` (`NoRoomIsLeftOpen`); `ReadyHolds` (`ReadyIsTrue`); `LanesHold` (a lane never shows the
  screen of a session it was not staged for); `HeardHold` (`ListedIsHeard`).  The invariants are `TypedInv`,
  `AgeInv` (the copy is never newer than the slot and the books never newer than the copy), `LanesInv`,
  `ReadyInv` and `HeardInv`.  `AgeInv` is what makes the comparison of revisions enough: an equal revision
  means that nothing happened in between.

Only model-checked is liveness: `DeathReachesTheList`, `UnfollowedDrainEnds`, `FinishingEnds`, `QueueIsEmptied`,
`MailIsFetched`, `LinkComesBack`, `EverySenderIsTold`, `ScreensArrive` and `WishIsFollowed`.  Each rests on fairness
of actions whose being enabled would have to be proved, and TLAPS cannot reason about ENABLED.  So is the
violation of `queued`, which is a fact about one instance.

## 5. Where the code and its documents disagree

By a run of this project:

* **`queued`**: the delivery thread takes messages out of the queues, then types them; when a restart
  begins to be prepared in between, typing is refused and the messages are dropped, although their
  senders were told that they wait, and although the thread is meant to leave the queue alone.

By configurations that are kept beside the runs (TLC finds the property violated):

* `MCSessionsTick.cfg`, `TickNeverWrites`: the ticker never writes the list, and a session whose agent died by itself
  stays on it on purpose until the next create, stop, kill or prune.  So say the head of `last_sessions.rs` (lines 13-20) and
  the comments at `session.rs:931`, 1480 and 1774-1776.  The code (`session.rs:1865-1880`) writes the list
  when `tick` finds an agent dead, and at the end of a round of work (1984-1994); the comment there calls it
  a later fix, because a dead session could take `--continue` from a live one.  The models follow the code:
  `ListFollowsSessions` and `DeathReachesTheList` hold because of that write, and their mutant
  `TickReapsUnwritten` is what the documents describe.
* `MCRestartContinue.cfg`, `ContinuedAreTold`: an agent that goes on although it was told to stop is marked as interrupted
  and "will be told to carry on after the restart" (design of 2026-10-14, line 113).  When it
  has no conversation id and comes back by `--continue`, `note_for` has nothing for it, because it was not
  resumed by id, and `lost_without_handoff` does not warn, because it was continued
  (`resume_notes.rs:89-129`, `daemon.rs:1344-1362`).  So it remembers that it must stop, and nobody tells it or the user.
  The drain does not ask such a session for a handoff as long as no session beside it has an id
  (`drain_resumable`).  `carriedOn` of `GracefulRestart` stands for these sessions.
* `MCRestartSpared.cfg`, `SparedAreResumed`: `drain_resumable` says of a session that it "can take up its own conversation
  after the restart" (`session.rs:982`), so it is not asked for a handoff.  That is settled when the drain
  starts; who gets `--continue` is settled when the new daemon restores.  In between the session, or one beside it, may
  be spoken to for the first time; and a session beside it that was never used, but is the newer one, may take
  `--continue`.  Then it starts afresh although it was used, which the doc of `continue_flags` excludes
  (`last_sessions.rs:216-217`: it "was asked to write a handoff, so it can go on from a blank start"), and the user is
  warned only if it was marked as interrupted.
* `MCGroupRejoin.cfg`, `RosterIsTaken`: after a lost answer the inviter "gives it the present roster once more"
  (`invite.rs`, and the design of invitation codes of 2026-09-30, line 73), but `accept_invite` takes only a
  roster the inviter itself has signed; when somebody else has signed since, the newcomer refuses it.
* `MCLiveBack.cfg`, `EveryScreenArrives`: a push is served, its answer is lost, and the session goes back to the screen that is
  booked as delivered.  The books say there is nothing to send; students keep the other screen
  although the comment on `attempt_lane` promises another try "with the real contents".
* `MCLiveRefused.cfg`, `RefusalIsShown`: a publication was refused, then somebody at the console published and withdrew the
  broadcast.  `seen_public` goes back to pending "and another PUT decides", but `public_stuck` keeps
  the pusher from sending one: the teacher sees "pending" for ever.

From reading, and from earlier versions of these models:

* An Enter that is in flight while the session is stopped sets it back to working; the next tick
  then writes that it vanished, over the line that says the user closed it (`session.rs:1604`, against
  the head of `journal.rs`).
* A session that was idle when the drain first looked and has been given work since is killed at
  work and not marked; the design of 2026-10-14 (line 54) wants every session marked that is at work at the moment
  of the restart (`drain.rs:188`).
* The thread of notes goes past the gate because "no drain is going on at that moment"
  (`daemon.rs:1424`); but it lives for two minutes and a new drain may begin.
* Cancel, then restart again before the note of the cancelled drain has been typed: the session comes
  back and nobody tells it to carry on (`daemon.rs:441`).  `passedOver` of `GracefulRestart` stands for those sessions.
* After a failed swap the list is thawed but not written again (`daemon.rs:726-731`): until something else writes it, the file
  has the marks and messages of the restart that did not happen, and a daemon that is killed meanwhile leaves
  them to the next one.
* A computer is removed in the seconds between the copy of the queues for the next daemon and the end of the old one:
  its messages leave the queues (`purge_non_members`) but not the copy, which does not name its senders, and the next daemon
  types them.
* A question whose client closes the connection while the relay waits for the answer leaves its slot in
  `waiting` for good, for the handler is dropped at its await and nobody calls `forget`
  (`dct-srv/src/lib.rs:380`; the comment at line 396 says that it must be cleared, or the table leaks).
  `AskDropped` of `Relay` is this step.
* A lone computer that is renamed founds its group anew at version 1; and two `join`s at the same time may
  send the same code.  That the laggards of a fork keep the older roster is a known limit (design of 2026-09-28, lines 225-227).
* Bridge: the options of a push are kept although the push failed; a `/use` of the old phone in
  flight sets `used` again after the owner was forgotten; `persist_owner` in flight writes the owner back
  after `PhoneUnpair`, `PhoneDisable` or `PhoneSetToken` removed it; and a daemon that restarts before its
  next request confirmed the batch types the same messages again (`telegram.rs:151`).
* An explanation of a failure that comes late may overwrite the slot after it was cleared, because the
  generation is compared and then the slot is written with nothing held in between (`session.rs:2071`).
* `client.rs` says of `Client` that after a time-out the connection must be dropped; `ask_instance` does
  not, so a late answer to `Instance` is read as the answer to the next request.

## 6. Plan

Done in this order: `Sessions`, `Drain` with `DrainPromise`, `GracefulRestart`, `MeshDeliver` with
`MailPromise`, the proofs about drain and restart, `Relay` with `LetterPromise`, `Group` with
`RosterPromise`, `Bridge` with `PhonePromise`, `Live`; then the proofs about `Group`, `Bridge` and `Live`, the
rest of those about `Sessions` and `MeshDeliver`, and those about `Relay`.  What could come next:

1. `ResumePlan`: `continue_flags` and `group_for_resume` as pure functions over lists with the times of last use.
   `ContinueFlags` of `GracefulRestart` says what holds of them for any such times: one session of a place is continued at
   most, and one is if none is resumed by id.
2. The guard of the client (version check and swap), and the approvals of the brain.

No module that is proved about uses RECURSIVE operators.

## 7. What is not modelled

Screens and their classification (any state may be seen at any time), git, the model calls and their
answers, wording and files' formats, names, undo, scrolling, notifications.  Of the session
manager's `prune`, the first pass is one step although it looks at the sessions one by one.  In
`GracefulRestart` the members of a drain are fixed when the model begins, a crash of the daemon
outside the restart is left out, and the thread of notes always starts.  Sizes of numbers are not
modelled: the counter of sessions is 32 bits wide and counts one per session.  In `MeshDeliver`
the roster is there from the beginning (how it changes is in `Group`), sending to other computers is
left to `Relay`, the memory of what has been seen is as large as the time window needs, and the wall clock
does not go back.  What `Relay`, `Group`, `Bridge` and `Live` leave out is said in section 2.
The remaining parts and the reasons are in `PROJECT.json` under "components".
