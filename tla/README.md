# A TLA+ verification of komnet

komnet lets coding agents on different machines exchange messages through an ordinary git
repository. There is no server: every machine has a clone, a message is a file in a commit on
the branch of its room, and whatever the agents agree on is computed from what their clones
show them. This directory holds TLA+ models of the protocols that make that work, TLC
configurations that check them on small instances, and TLAPS proofs of what holds for every
instance. Paths below are relative to the repository: `packages/core/src/` is written `core/`,
`packages/daemon/src/` is `daemon/`, `packages/cli/src/` is `cli/`, `packages/protocol/src/` is
`protocol/`.

Contents: [the system](#the-system), [how the project was planned](#how-the-project-was-planned),
[modules and code](#modules-and-code), [runs](#runs), [fairness](#fairness), [proofs](#proofs),
[what the models found](#what-the-models-found), [what is not modelled](#what-is-not-modelled).

## The system

The transport repository has one branch per room (`room/<id>`) and `main`, the record:
manifest, room configuration, agent cards, receipts, digests of sealed messages. Every machine
runs a daemon, and beside it the command line in direct mode and MCP servers may work on the
same clone. The parts, what each keeps and what makes it correct:

| Part | State | Operations | What is hard | What must hold |
|---|---|---|---|---|
| **Network lock** `core/lock.ts` | one file per network, created empty and then written | acquire (create, judge, remove stale, wait), release | processes between any two file-system calls; death at any of them | at most one process inside; a live holder is never judged gone; a dead one blocks nobody |
| **Room delivery** `core/network.ts`, `network/outbox.ts`, `network/rooms.ts`, `sync/detector.ts`, `state.ts`, `git/repo.ts` | remote branch, tracking ref, worktree; cursor and inbox rows; subscriptions | send, sync, join, leave, drain | refused and unanswered pushes; posts between ls-remote and fetch; crashes; queued commits | a committed message is never lost and reaches the room; a posted one enters every inbox it is for, once |
| **The record** `core/network.ts` init, `network/rooms.ts`, `network/agents.ts` | `main` on the remote and in every record worktree; unpushed commits on it | init, create a room, publish a card, the outbox of main | two founders of one network; a failure between a room's branch and its configuration; rebases | nobody's push takes anything back; a room has its configuration |
| **Sealing** `core/seal/sealer.ts`, `network/sealing.ts` | lock record and plan in the room branch, digests and history on `main` | acquire, renew, release by compare-and-swap push; plan, record, prune, recover | a lease that runs out under a live holder; death between steps; a push that landed without an answer | nothing is pruned before `main` has it, nothing summarised twice; the room ends within its window |
| **Tasks** `protocol/task.ts`, `core/task/tasks.ts`, `network/tasks.ts` | the task events of a room | create, claim, progress, block, complete, cancel, reopen, refine, release | claims in flight; an event with a smaller ULID that arrives later | clones with the same events agree; an owner keeps its task until it lets go or an earlier claim appears |
| **Resource claims** `protocol/claim.ts`, `core/room/claims.ts`, `network/claims.ts` | the claim events of a room | claim (look, write, look again), renew, release | both look before either has pushed; failed syncs are swallowed; lapse by time | a lease granted with every event in hand is not lost before it lapses |
| **Reviews and reply budget** `protocol/review.ts`, `core/review/tasks.ts`, `network/reviews.ts`, `room/pressure.ts` | a chain of replies in one thread | request, update to any state, people's answers | two replies to one event; no second look after the send; everyone counts only what has arrived | an update is lost only to a sibling; autonomous talk stays within the budget |
| **Reading** `core/network/inbox.ts`, `network/delivery.ts`, `network/waiting.ts`, `agent/receipt.ts` | inbox rows, a mark per room, the receipt on main | inbox, wait, drain, answer, handshake, publish the receipt | late messages under a larger mark; calls that overlap or die | questions for people are settled by people |
| **Watching** `cli/main.ts` cmdWatch, `Network.health`, `surroundings` | what was seen, announced, armed, confirmed | poll, report, wait with exit code | health and inbox read in two calls while syncs go on and fail | silence is reported only when it was checked; the backlog is not news |
| **Approvals** `core/approvals.ts`, `policy.ts`, `network/approvals.ts` | two policy files, `approvals.json` | approve, revoke, the gate of a claim | unlocked rewrites in place, torn files | no grant without an approval that stands |
| **Presence** `core/agent/card.ts`, `network/agents.ts`, `sync/routing.ts` | the cards | announce, observe, expand mentions, forecast delivery | several sessions of one agent; stale and future stamps | one session's departure does not take the agent away; forecasts agree with the routing |
| **Daemon** `daemon/daemon.ts`, `loop.ts`, `client.ts`, `backend.ts`, `cli/daemon-cmd.ts` | timers, running sync and seal, sockets, requests, sessions; the socket file | tick, wake, connect, serve, stop; start, probe, unlink, bind | wakes during a sync; stop while work starts; two daemons and a stop command at one path | a wake is served; stop leaves nothing it found running; a serving daemon is reachable |
| **Reports** `daemon/daemon.ts` onReport, `notify.ts` | activations of the last hour, facts already told | notify, activate an agent, scan for stalled work | reports of overlapping syncs, each with awaits in the middle | the hourly limit holds; what is recorded as told was told |
| **Cadence** `core/sync/cadence.ts` | failures in a row | next delay | boundaries, failures during a person's wait | polling never stops; backoff grows and spreads |
| **Configuration** `core/config.ts` | `config.yaml`, a copy in every process | load, reload, join, init, bind, save | whole-file rewrites of several processes without a lock | only overlapping saves lose anything; what was taken for seen is served |
| **Git access** `core/git/runner.ts`, `git/hygiene.ts` | child processes, git's lock files | run, time out, terminate, clear an orphaned lock | komnet dies and its git lives on; check, then unlink | no git loses the lock it works under |
| **MCP server, message format, authenticity, secret scanner** | none beyond a connection | - | - | see [what is not modelled](#what-is-not-modelled) |

How they interact: every operation on a clone runs inside `FileLock.withLock`, except draining
the inbox and reading. `sync` is called by the daemon's loop, by claims, by the watcher without a
daemon, and by commands. After a sync the daemon reports (notification, activation, stalled work)
and runs seals in the background, one lock hold per seal step, so a sync may run between any two
steps of a seal. Seals touch the room branch and the cursor that delivery uses. Tasks, claims and
reviews are pure reductions of what delivery has brought into the worktree, preceded and followed
by sends. Cards and receipts go to `main` through the record outbox. The modules take what their
neighbours promise as given: delivery and sealing take the lock as exclusive (`FileLock` says when
it is), tasks, reviews and claims take clones whose histories meet by merges (`RoomDelivery`), the
daemon takes operations that end well or badly.

The hazards, each at its line and with the properties that watch it, are in `PROJECT.json`.

## How the project was planned

The order was: the lock, delivery and sealing, on which everything rests (`FileLock`,
`RoomDelivery`, `SealProtocol`); then what agents agree on over a log that reaches them in pieces
(`TaskRace`, `ResourceClaims`, `ReviewChain`); then the machine (`Daemon`, `Endpoint`, `Reports`,
`ConfigFile`, `GitRunner`); then the record, reading and watching (`RecordBranch`, `Reading`,
`Watch`, `Approvals`); last the pure parts (`Cadence`, `Roster`). All of these exist. What is left,
in the order in which it would be worth doing: `SealProtocol` with a local branch per sealer, so that
unpublished seal commits and unresolved messages are part of it; a lease specification that
`ResourceClaims` implements under bounded delay.

The modules are written to be proved about: parameters are constants with named assumptions, an
action per operation, invariants of named parts. The reductions of tasks, reviews and claims and the
sessions of a card go through a log or a list; they are recursive functions, about which the proofs
argue by induction over numbers.

## Modules and code

Every module names the code it models in its heading, and every action the function or the part of
a function it stands for; `map` in `PROJECT.json` has the lines. An action is what happens between
two points at which something else can happen: two file-system calls (`FileLock`, `Endpoint`), two
awaits (`Daemon`, `Reports`, `ConfigFile`, `Approvals`), two git commands that others can see
(`RoomDelivery`, `RecordBranch`, `SealProtocol`), two holds of the network lock.

### FileLock (`core/lock.ts`)

`file` is what is at the lock's path: nothing, or a file with its creator and whether its record
has been written. `call[p]` is the next file-system call of process `p`. One action per call of
`FileLock.acquire`: creation with `wx` and its refusal, writing the record, `isStale` reading the
record or, without one, the age of the file; `rm`, waiting, giving up; the `finally` of `withLock`;
and death anywhere. `misremoved` is a history variable: an `rm` has deleted a lock its creator was
using. Assumptions: one host; a creator that lives writes its record, and `isStale` finishes,
within `UNWRITTEN_GRACE_MS`; a dead process's pid does not come back.

### RoomDelivery and Mailbox (`core/network.ts` and around)

A git head is abstracted to the pair (posted, pruned): the messages added in its history, and
those a seal removed. Commits only add uniquely named files or remove them, so rebase and merge
are unions and fast-forward is inclusion. Per node: `tracked` (remote-tracking ref), `local`
(the branch), `detached` (HEAD of the worktree, where it is off the branch), `orig` (what an
unfinished rebase goes back to when it is aborted), `cursor` and `inbox` (the state database), `pc`
(where the holder of the network lock is), `polled` (what the running sync saw in ls-remote).
`Send`, the outcomes of `pushWithRetry` and `RecordOwnHead` are `Network.send`; `SyncStart` to
`SyncDone` / `SyncFails` are `Network.sync`; `SealPrune` and its variants are what a seal does to a
room as delivery sees it.

A death is one of two actions, after which the next process finds clone and database as they are.
`Crash` is a death between two runs of git, or in the fetch, which may have been done. `RebaseDies`
is a death inside `git rebase`, in `pushWithRetry` or in `fastForward`: before HEAD leaves the
branch, with any part of the commits replayed on a detached HEAD, or after the branch has moved, with
HEAD on it or not. What the code does next depends on what it looks at. A send looks at nothing: it
commits where HEAD is (`CommitOffBranch`) and pushes the branch. A second rebase is refused and the
first one aborted (`RebaseRefused`, `FetchRefused`). A sync or a seal restores the worktree when HEAD
is detached, by the same abort (`Restored`, `Restores`), and leaves a rebase alone that has HEAD on
the branch. `stray` are the messages committed while a rebase was unfinished.

`Mailbox` is the promise without git: posted messages stay posted, an item enters an inbox only if
it is posted and addressed to it, and a finished item does not come back unless its owner gave the
room up. `RoomDelivery` implements it with `posted <- room.posted, box <- inbox`.

### RecordBranch (`Network.init`, `network/rooms.ts`, `network/agents.ts`, `agent/card.ts`)

`main` is the manifest, the rooms that have a configuration, and a card per agent. What a clone has
of it is the remote main it is based on (`base`) and its own commits on top (`own`); a push lands on
its base (`Pushable`), a rebase keeps `own` and stops where both have written the manifest.
`call[a]` is where the holder of `a`'s network lock is: founding, creating a room (branch, commit of
`room.yaml`, push of main), recording a card, draining the outbox. `unannounced` are the clones
that owe a card after init, create, join or leave, whose failure is swallowed. `Reconciled` is
`reconcileSessions` with its lapse after twelve hours and its bound on the list.

### SealProtocol (`core/seal/sealer.ts`)

`room` is the remote room branch: posted and pruned messages, the token in `lock.json`, the
messages of `transaction.json` (`NoPlan` is the empty set). `main` is what the record has:
archived history and the digests, one per set of messages, because the id of a transaction is a
hash of its messages. `view[n]` is node n's worktree as of its last fetch; `pc`, `held`, `plan` and
`clear` are the locals of the running `Sealer.seal`. Each `exclusive(...)` block and each fetch
between two of them is one action, in the code's order. The compare-and-swap push lands exactly
when the remote is what the clone saw (`Swappable`); the pushes of plan and prune merge whatever
arrived meanwhile and do not look at the lock. `Expire` lets a lease run out; `Throws`,
`PruneUnanswered`, `Dies` and `SwitchedOff` are a failing git call, a prune that landed without an
answer, a death (or a release that fails), and a machine that goes for good.

### TaskRace, ReviewChain, ResourceClaims (`core/task`, `core/review`, `core/room`, `core/network/*`)

All three have the room on the remote and a clone per agent as pairs (posted, pruned) of events, and
an update between its decision and its commit, when neither a lock is held nor anything is checked
again. ULIDs are any unused number above the agent's own earlier ones: clocks of machines disagree
in any way, `ulid` is monotonic within a process. Publishing and fetching are unions, seals prune
what `unresolvedMessages` and `protectedOpenIds` do not protect.

`TaskRace`: one task. `Reduced` is `reduceOne`: the first creation in ULID order, then every event
that replies to an accepted one and is a `Transition` from the current one. `Decide` is `updateTask`
up to `send`, `Commit` the commit of `send`.

`ReviewChain`: one review. `Chain` is `reduceReviewTasks`: of the events that reply to the current
one, the first in ULID order that is a transition. `SendUpdate` is `send` with
`assessReviewDiscussionPressure` over the thread in thread order (`Precedes` is `threadOrder`), with
people's answers in it (`Relay`).

`ResourceClaims`: one resource. `Hold` is `reduceClaims` with lapse by the events' own times;
`Look`, `WriteClaim`, `PushClaim`, `LookAgain` are `claimResource`, whose syncs may fail unnoticed.
Clocks agree here: an event has the time of its commit.

### Reading (`core/network/inbox.ts`, `delivery.ts`, `waiting.ts`, `Network.answer`)

A message is its ULID. `arrived` and `handled` are the inbox rows, `seenThrough` the mark in the
meta table, `receipt` what main says, `reading[k]` an overlapping call: publishing a receipt reads
the mark before it takes the lock; `answer` and `handshake` send first and settle the row after.
`shown`, `relayed` and `late` are history variables.

### Watch (`cli/main.ts` cmdWatch, `Network.sync`, `health`, `surroundings`)

`watcher` is the state of the command: which network it polls, what the two calls of the poll have
answered, `seen`, `armed`, `confirmed`, `matched` and the exit code. `pull[h]` is a running sync of
network h, of the watcher (without a daemon) or of anybody else: ls-remote, one room after the
other, success or failure at any point. Other commands drain, join and leave meanwhile.

### Approvals (`core/approvals.ts`, `policy.ts`, `network/approvals.ts`)

`policyFile` are the machine's and the home's file, `approvals` the content of `approvals.json`,
possibly torn. A command reads, truncates and writes; a claim reads the policy, then the list.
`withdrawn` are works revoked by a command that overlapped with no other, and not approved again.

### Daemon, Endpoint, Reports (`daemon/*`, `cli/daemon-cmd.ts`)

`Daemon` is one process, an event loop: an action is everything between two awaits. `timer`,
`syncing`: the loops; `autoSeal`: the seal in the background; `connection`, `declared`, `sessions`:
the sockets and what they registered; `requests`: those in flight, with `awaited` for those that
`stop` has found; `presenceTimer`: an arrival that waits for its grace.

`Endpoint` is the path of the socket, with several daemons that probe, unlink and bind, die and stop
around it, and `komnet daemon stop`, one action per system call or answer. There is no pid file: a
stop command learns the pid from the daemon's answer to its ping (`pid`). `Busy` are the daemons
whose event loop may be blocked for longer than a probe waits, so that one that serves is taken for
dead (`ProbeTimesOut`). `exposed` is a history variable: the daemons that timed a probe out, and
those that bound while another one could still unlink the path (`MayUnlink`): it had found nobody and
not yet cleared the path, it was serving without having the path, or it was between the two unlinks
of its stop.

`Reports` is `onReport` of overlapping syncs, split at its awaits: notification, activation
(`Decide` after the await of the policy), the scan for stalled tasks and its telling.

### ConfigFile (`core/config.ts`, `daemon.ts` reload, `backend.ts`, `main.ts` init and bind)

`yaml` is the file, or `Torn` between truncation and write; `memory[p]` the copy of a process,
`rooms[p]` the subscriptions of the network object it has opened, `seen` whose mtime is the file's.
Several requests of the daemon interleave.

### GitRunner (`core/git/runner.ts`, `git/hygiene.ts`)

`git[g]` is how far a run of git has got: refused by a lock file it may judge and remove it, if no
child of its own runner is running, and try again. One lock file stands for all of git's. Writers
hold the network lock (`writer`); komnet may die and leave its git running without a timeout.

### Cadence and Roster (`core/sync/cadence.ts`, `agent/card.ts`, `network/agents.ts`, `sync/routing.ts`)

Pure: one operator per function, and the set of outcomes where the code draws a random number.
`Doubled[n]` stands for `2 ** n`, which is a float in the code and cut off by the cap long before it
loses a bit. The small instance of `MCMachine` evaluates them in its assumptions (`CadencesPoll`,
`RostersAgree`); `TimingProofs` states what holds for all arguments.

## Runs

Every passing run but `machine` has between one and one and a half million states; with its liveness
properties, `machine` takes as long with a tenth of that: a few minutes each on two workers. The runs
that end in a violation check one component each. The others, `machine`, `remote`, `work` and `node`,
check several components that share no variable: the variable `topic` says which one a behaviour is
about, and the others keep their initial state. That changes nothing about what each of them does, and
the state count is the sum and not the product.

| Run | Module, configuration | Components | Instance |
|---|---|---|---|
| `machine` | MCMachine, Machine.cfg | FileLock, Daemon, RoomDelivery, Cadence, Roster | fairness; 3 processes at the lock; 1 network, 2 connections and 1 request at a time, or 1 connection and 2 requests; a writer that seals, a reader, 1 message, 1 death; a room that a peer has posted to, a writer of 2 messages, 1 death |
| `filelock_exclusion` | MCFileLock | FileLock | 2 processes |
| `endpoint_two` | Endpoint | Endpoint | 2 daemons, none of them ever busy, 1 stop command |
| `remote` | MCRemote, Remote.cfg | RoomDelivery, Mailbox, RecordBranch, Endpoint | 2 nodes, 2 messages, one node seals, a death or both messages sent; 2 nodes, 3 messages that enter no inbox, two of them of one node, 1 death, nothing sealed; 1 clone with 3 sessions, 1 that joins and leaves a room with a session, 2 that found under two names, or 2 that create one room; 3 daemons, any of them busy, 1 stop command |
| `delivery_stray` | MCRoomDelivery | RoomDelivery | 2 writers, 3 messages, two of them of one writer, 1 death; what inboxes get is left out |
| `delivery_cursor` | MCRoomDelivery | RoomDelivery | 2 writers, no crash, no seal |
| `work` | MCWork, Work.cfg | TaskRace, SealProtocol, ReviewChain, ResourceClaims, ConfigFile | a creator and 2 agents with 4 events of claims, work and what a creator does to it, or of claims and releases, or 3 of any kind, or 3 and a seal; 2 sealers, window 1, leases that run out under live holders, 1 failure or 3 messages; a review of at most 5 posts, budget 2, in one of five scopes; 2 claimants, leases of 2 units, 4 units of time; daemon, agent and command on one file, 2 saves |
| `node` | MCNodes, Nodes.cfg | SealProtocol, Watch, Reports, Reading, Approvals, GitRunner | 2 sealers whose leases outlast live holders, fairness, 3 messages and 1 failure, or 2 and 2; 2 networks, 3 rooms, 2 posts; 2 syncs, 1 task, 1 activation an hour; 2 messages, one a question for people, 2 overlapping calls; 2 works, 3 commands, 1 claim; 2 processes with 4 runs of git |
| `seal_wedge` | MCSealProtocol | SealProtocol | as in `work`, no failure |
| `task_seal` | MCTaskRace | TaskRace | a creator and an agent, 4 refinements and claims, and a seal |
| `config_joins` | MCConfig | ConfigFile | as in `work` |
| `read_unseen` | Reading | Reading | 2 messages, 1 call |

What the properties of the passing runs say:

- `machine`: the lock excludes unless an `rm` hits a lock in use (`ExclusiveUnlessMisremoved`), a
  lock in use is never judged stale (`CondemnsOnlyTheAbandoned`), and a dead process's lock does not
  last (`AbandonedLockIsBroken`). After `stop` has resolved nothing it found is running
  (`QuietAfterStop`); a wake that was accepted leads to a sync that starts after it (`WakeIsServed`);
  an arrival that outlasts its grace is published (`SettledArrivalIsPublished`). Of delivery
  `ReaderCursorIsProcessed`, and under fair syncing `SentReachesRoom`, for commits queued behind an
  unfinished rebase too, and `PostedIsDelivered`. The assumptions `CadencesPoll` and `RostersAgree`
  evaluate Cadence and Roster against reference definitions.
- `remote`: for delivery `SentIsDurable`, about failed and dying seals, and about a commit queued
  before a death inside a rebase and sends after it; `RoomAppendOnly` and the refinement
  `ImplementsMailbox`. For the record, `MainKeepsRecords` (no push takes a room, a card or the manifest
  back), `RoomsAreConfigured` (a room branch has its configuration on main or on the way) and
  `SessionsKeepLive` (a session that left does not make an agent with another session look away). A
  daemon that serves can be reached at the path and serves alone unless it is exposed
  (`ServingIsReachable`), and one that a stop command reported as stopped does nothing more
  (`StoppedIsQuiet`).
- `work`: of tasks `OwnerKeepsTask`, `MetHistoriesAgree` and `SealKeepsUncontestedTasks` (a seal by
  an agent that has all there is leaves an unfinished task as it was, if every accepted event answers
  the one before it; without either condition it need not: `task_seal`); of sealing `PrunedIsRecorded`,
  `SealedOnce`, `LockLeavesRightly`; of reviews `OnlyRacesLose` (an update that was sent with its
  predecessor current is lost only to a sibling), `AutonomousTalkIsBounded`, `SealKeepsOpenReviews`; of
  claims `FirmLeaseHolds`; of the configuration `SeenIsServed` and `OnlyOverlapsLose`.
- `node`: `PlanIsResumable` and `RoomGetsSealed` when leases outlast the holders that live (with slow
  holders the first fails: `seal_wedge`); `WatchIsHonest` (silence is reported only after a complete
  look, the backlog is not news); of reports `ActivationsAreBounded` and `AnnouncedIsTold`;
  `QuestionsWaitForPeople`; `GrantsArePermitted`; `FreshLocksStay` (no git loses the lock it works
  under).

Deadlock is not checked in the passing runs: the system may stop because the messages, requests,
failures or times of an instance are used up, or because everybody has stopped or died.

Each property has a mutant in `PROJECT.json`: a definition changed the way a bug would change it,
under which the property fails in its run.

Bounds. A message is lost with an unfinished rebase only if three things come together: a post of a
peer, which makes a push be refused; a commit that is being rebased when the process dies; and a
second commit of the same node on top. Hence three messages, two of them of one node, and one death;
a second death repeats the first, since a rebase is refused until the first one is aborted.
In `remote` the topic `queue` has them, and the topic `room`, where messages enter inboxes and are
sealed, leaves out either the death or the second message. The topic `recovery` of `machine` begins
(`PostedInit`) where the peer has joined, posted and left and the other node has joined before that;
the peer stays out, so that what fairness is asked of is one node.
Three messages with a window of one give a plan of two messages, a second plan, a plan that
is pruned in part, and a message posted in the middle. Three tokens per sealer are enough: when a
node draws one, the room's lock, which it sees, and the one the other sees may be its own
(`FreshTokens` is never empty). Four ids in a task or review give every order of two concurrent
updates and a third that answers either. Two overlapping calls, commands or syncs give every order
of their halves. Where an instance has a bound on two things at once (a crash or both messages, a
failure or three messages), either is there without the other: the cases that take both are left to
the proofs, which bound neither. The view `WorkView` leaves out the expiry of tokens that occur nowhere, which
`ClaimWins` resets before it is read again. Symmetry is declared over what no action and no property
of the run tells apart, and in no run with a liveness property: clones, and two messages of one node
that enter no inbox (`remote`); and the two agents at one computer, whose names the sealers, the
claimants and the requests of the daemon share (`work`). A behaviour is about one topic, so one
exchange of the two names is an exchange within it.
MaxFailures, MaxCrashes, MaxSaves, MaxRequests, MaxPost, Horizon, MaxTracked, MaxPerHour and the
scopes are bounds of the instances; in the code MaxTracked is 32 sessions and MaxPerHour a setting.

## Fairness

Stated only where a liveness property is checked, and of the component that the behaviour is about
(`TopicFairness` in MCMachine).

- FileLock: weak fairness of every step of a live process (an event loop that runs), strong fairness
  of the look at a file's age: it only grows. A caller may still give up.
- RoomDelivery: after every sync, good or bad, the loop schedules the next (`daemon/loop.ts`
  111-164), so `SyncStart`, `Poll` and the fetch, which ends in `Fetch` or `FetchRefused`, are strongly
  fair: the network fails at times and comes back. A push that is tried again and again in between other people's pushes succeeds at times
  (`PushTried`). Steps without the network are weakly fair. Nothing makes anybody send, join, leave,
  drain or seal.
- SealProtocol: a node that is on keeps syncing, starts a seal when a sync shows one is due
  (`roomsNeedingSeal`) and takes the next step of a running one; a lease that nobody renews runs out.
  Failures are finite in number.
- Daemon: ticks start, what they await ends, the timer of an arrival fires, `stop` goes on.
  Nothing makes clients connect or signals arrive.

## Proofs

The theorems hold for every value of the constants that satisfies the named `ASSUME` of the
component's module: sets that are disjoint where the code has different things, a special value that
is not a member of what it stands beside (`NoFile`, `NoLock`, `Nobody`), bounds that are numbers. TLC
evaluates these assumptions in the run of the component; nothing else is assumed, except what a
theorem's own statement says (`PlansStayResumable`: no slow holders; `ReadsWereShown`: no filtered
look). `tlapm X.tla`
checks a module. `theorems` in `PROJECT.json` lists the results, and every listed invariant or action
property is the one that the run checks.

The argument is nearly always the same: an inductive invariant, which TLC has checked first, is
shown to hold initially and to be kept by every action, and implies the property. A type invariant is
part of it or proved before it. What is needed beyond the property, and why:

| Module | Theorem | Inductive invariant and the idea |
|---|---|---|
| LocalFileProofs | `FileLockTyped`, `ExclusionHolds` | `OwnerHasFile`: whoever is inside, or entering, owns the file that is there, unless an `rm` hit a lock in use. `UnlinkKeeps` is the step that would break it. |
| | `CondemnationIsSound` | `HeldIsWritten`: the lock of a process inside has its record, so it is not judged by age. |
| | `GitTyped`, `OrphanRemovalIsSafe` | `GitInv`: the git of a live writer goes on under the network lock, only writers meet lock files, and what a run is about to remove is an orphan; the check and the unlink are two steps, and the network lock is what keeps the answer true between them. |
| | `ConfigTyped`, `SeenStaysServed`, `SavesKeepWhatIsKnown`, `OthersKeepJoins` | `ConfigInv`: a process that is current knows what was last written, what a writer has in hand has it too, and the file is what was last written unless it is torn; `current` ends for everybody else when a save is written. `RoomsKnown` says the same of the joined rooms for all but the daemon, which loads the rooms of others and saves its own. |
| RoomDeliveryProofs | `DeliveryTyped`, `CommittedIsDurable`, `RoomGrows` | Heads as pairs of sets: every git operation is a union or an inclusion (`HeadOps`, `PrunedOps`), so the room only grows (`RoomOnlyGrows`). A branch does not: an abort takes it back. `Kept` says of every message sent, unless it is stray, that it is on the branch and in what an unfinished rebase goes back to, and every action keeps that (`KeptGrows`). |
| | `ReaderCursorIsHonest` | `Roles`: a node that never sends or seals only moves its cursor by a completed sync. |
| | `RoomImplementsMailbox` | `PolledIsPosted`: what a sync saw in ls-remote is in the room; every action maps to a step of `Mailbox` or to a stutter. |
| RecordProofs | `RecordTyped`, `MainStays`, `RoomsStayConfigured`, `SessionsStayLive` | `RecordInv`: a network is founded once (`FoundedOnce`); a room on the remote has its configuration on main, in a clone's own commits or in a call that is about to make it; until a clone writes its card again, main has the card it knows (`CardsFollow`); its card has the sessions that are attached. Only a push changes main, and it overlays what the clone has on what it is based on (`PushesOverlay`). |
| SealProofs | `SealTyped`, `PrunedStaysRecorded` | `HistoryInv`: what a clone shows of a room was there; a plan is about messages of the room; a seal past its push of main has its digest there. It needs no lock at all. |
| | `MessagesAreSealedOnce`, `LocksLeaveRightly`, `PlansStayResumable` | `SealInv`: nodes push plans and prunes without looking at the lock, so the invariants say what the holder of the room's lock, the leader, can rely on: a token that has not expired excludes (`TokensExclude`), a digest is of messages that are gone or of the plan in the room (`DigestsAreDone`), and the leader's clone is up to date in plan and digests (`LeaderKnows`). `PlanIsResumable` needs in addition that leases outlast the holders that live (`HoldersLead`), which the theorem has as its hypothesis. |
| WorkProofs | `TaskTyped`, `OwnersKeepTheirTasks`, `AgentsWhoMetAgree` | `TaskInv`: an event that offers a task has no owner in it, ids are unique. The rest is about `Reduced`: what happens to a reduction when events are added or left out (`ReducedSteps`, `ReducedHistory`, `ReducedAgree`). |
| | `SealsKeepUncontestedTasks` | The chain of the current event of an uncontested task is its whole history, so a seal prunes only what was never accepted (`UncontestedIsProtected`), and a reduction does not depend on that (`KeptSteps`). |
| | `ReviewTyped`, `TalkStaysBounded`, `OnlyRacesAreLost`, `SealsKeepReviews` | `ReviewInv`: what a clone has was written; an update in flight answers what was current in its author's clone and has a larger id; without people's answers the count of everything written is the budget's. A chain of events that were there first stays a chain (`ChainsGrow`, `UnracedInChain`); what a seal protects is the whole chain (`PendingChainIsProtected`), and the chain does not depend on the rest (`ChainWithoutTheRest`). |
| | `ClaimsTyped`, `FirmLeasesHold` | `ClaimsInv`: a firm lease is `Backed`: it began with a claim at `lease - Ttl`, its holder has every event up to then, what it has written since are renewals, and the claim holds at its time. Clones with the same events up to a time agree on who holds (`SameEventsSameHold`), and nobody else's later claim takes it (`HolderKeeps`). |
| DaemonProofs | `DaemonTyped`, `DaemonIsQuiet` | `StopHolds`: once it stops no loop is scheduled again, no seal starts and the running one is awaited. |
| | `EndpointTyped`, `ServingStaysReachable`, `StoppedStaysQuiet` | `Alone`: a daemon that serves and is not exposed is at the path, nobody else serves, and nobody may unlink; only a probe that finds nobody leads to an unlink (`FindsNobody`), and nobody binds over a socket (`BindsAlone`). `CommandsKnow`: what a stop command knows of the daemon it has spoken to, and that a daemon only goes on towards its end (`DaemonGoesOn`). |
| | `ReportsTyped`, `ActivationsStayBounded`, `AnnouncedStaysTold` | `ListIsComplete`: the list of the last hour holds every agent started in it; what is recorded as told is in a telling, told, or its telling failed. |
| AgentProofs | `ApprovalsTyped`, `GateHolds` | `ApprovalInv`: the file, and what every command that has read it is going to write, is permitted; two commands that overlap have both noticed. |
| | `ReadingTyped`, `PeopleAreAsked` | `ReadingInv`: letters arrive one at a time, so the mark of a room, the newest of what was looked at, exists. `RelayInv`: what a call remembers carries who answers, decided before the answer was sent. |
| | `ReadsWereShown` | `MarkIsShown`: what is at or below the mark of a room was shown, came late, or is not of the room. The mark only rises (`MarkOnlyRises`), and a look that passes nothing over shows all that it marks (`LooksShow`). |
| | `WatchTyped`, `WatchersAreHonest` | `WatchInv`: a network in good health has delivered what completed syncs have seen in its rooms (`SyncInv`); what the poll lists is all that was due, unless a sync came between (`PollInv`). |
| TimingProofs | `FresherIsNoSlower`, `BackoffGrows`, `FailuresOnlySlowDown`, `RetriesSpread`, `PeopleAreNotKeptWaiting` | About `NextDelay` for every policy and input; `CeilingBounds` is what they rest on. |
| | `SilenceFades`, `WritingNeverHurts`, `ForecastIsRight`, `NewcomersAreReached` | About cards, presence and routing for every roster. |

Recursion. `Reduced`, `Chain` and `Hold` go through a log in ULID order, and `Remaining` through the
sessions of a card; they are recursive functions, not `RECURSIVE` operators. The induction theorems
of the library take an operator as a parameter, which the provers cannot instantiate, so the modules
have induction over sets of numbers instead (`Induction`, `InductionUpTo`, from the least number
principle, `Least`, which is `WFMin` of the library for `<`), and `Recursion`: the function that a
recursion defines exists, so that its equation may be used.

The proofs also said something about the models. `FirmLeaseHolds` once asked only that the holder has
the claim; with three claimants that is false: what freed the resource may have reached the holder
later and others not at all. It now asks for all events up to the claim.

What the code does not promise is a violation below; for most of these there is a theorem that says
what holds instead: `ExclusionHolds` (the lock excludes unless an `rm` hits a lock in use),
`ReaderCursorIsHonest` (the cursor of a node that never sends or seals), `CommittedIsDurable` (commits that are not
on top of an unfinished rebase), `ServingStaysReachable` (daemons that are not exposed),
`PlansStayResumable` (leases that outlast their holders), `SealsKeepUncontestedTasks` (no race), `OthersKeepJoins` (everybody but
the daemon), `ReadsWereShown` (looks without a filter).

Only model-checked: liveness (`AbandonedLockIsBroken`, `WakeIsServed`, `SettledArrivalIsPublished`,
`SentReachesRoom`, `PostedIsDelivered`, `RoomGetsSealed`), as fairness and ENABLED are out of the
prover's reach; and the type invariants of three composed specifications (`MachineTypeOK`,
`RemoteTypeOK`, `WorkTypeOK`), which are conjunctions of the components' type invariants. Each of
those is a theorem about its own component's specification, and a behaviour of the composition is one
of a component; `node`, whose components are all typed by theorems too, checks none. Every other
property of the passing runs is the statement of a theorem.

## What the models found

Each of these is a run that ends in a violation, with the lines in `PROJECT.json`.

- `filelock_exclusion`: `isStale` judges a file and `rm` deletes whatever is at its path by then, so
  two processes that find the same dead holder's lock can both end up inside. That is the only way:
  `ExclusiveUnlessMisremoved`.
- `endpoint_two`: the probe of a starting daemon and its unlink are two calls. Of two that start at
  once the second unlinks what the first has bound, and both serve. Which daemons this may happen to
  is what `ServingIsReachable` says.
- `delivery_stray`: only syncs and seals look for a rebase that a death left unfinished. A send that
  comes before them commits on the detached HEAD, its push does not carry the commit, and the abort
  of the rebase drops it: the message was reported as sent and is on no branch. Everything else that
  was queued stays and is pushed: `SentIsDurable`, `SentReachesRoom`.
- `delivery_cursor`: `send` and seals set the delivery cursor to the worktree's head, which may
  contain messages of peers that no sync has put in the inbox; they never arrive.
- `seal_wedge`: a sealer whose lease ran out still pushes its plan. If a successor has finished in
  between, the plan names messages that are gone and digests that do not exist, and no seal of that
  room ever succeeds again. It cannot happen when leases outlast the holders that live.
- `task_seal`: a seal keeps the current event of a task and its reply chain; an accepted event off
  that chain is pruned, and an update that replies to it is rejected by everybody from then on. It takes
  a race: `SealsKeepUncontestedTasks`.
- `config_joins`: the daemon saves the subscriptions of a network as it was when it was opened; a
  room that another process has joined since is dropped from the configuration.
- `read_unseen`: waiting for one thread records everything pending as looked at, and the receipt
  tells other agents that it was read. Without such a filter it does not happen: `ReadsWereShown`.

Seen while modelling, without a run of their own:

- Delivery: a message that is posted and pruned between two syncs of a node is never delivered to it;
  the prunes of a seal are reported as anomalies (`core/sync/detector.ts`).
- Record: two `init`s of an empty remote under different names leave the slower one with a commit that
  conflicts in `.komnet/net.yaml` at every later push of `main`, although `git/repo.ts:617-621` says
  that its rebases cannot conflict. A failure between the push of a room's branch and the commit of
  its configuration leaves a room without `room.yaml`. Failed announcements are swallowed.
- Daemon: a daemon that is too busy to answer within a second is taken for dead by one that starts,
  and by the stop command. A wake during a running sync is replaced by the cadence's delay. A session registered after its connection was
  destroyed stays registered. The limit on activations is per process; a stalled task is recorded as
  told before it is told.
- Claims: two claimants whose syncs fail are both told that they hold the resource
  (`FirmLeaseHolds` is about those who had every event in hand); contenders are not pruned at release.
- Reviews: a person's answer to an older message sorts after later replies, and the budget counts
  from it; an update with a smaller ULID than what it answers is dropped.
- Reading: receipts may move backwards, as the mark is read before the lock is taken; a late message
  under the mark counts as read. Approvals: the unlocked rewrite may lose a revocation that overlaps
  with another command; a torn file refuses everything.
- Configuration: a file read while it is being written is taken for an empty one by a command, and
  saved.
- Watching: flags are shared between the networks of one watcher, so the backlog of the second is
  announced as news, and the success of the last covers the failure of an earlier one; after 5000
  items evicted ones are announced again; a direct watcher pulls twice per poll.
- Git: a child whose komnet died has no timeout any more and may lose its lock to a cleaner after ten
  minutes; the check before the unlink is sound only because writers hold the network lock
  (`FreshLocksStay`).

## What is not modelled

- The MCP server, the message format, authenticity and the secret scanner: request translation,
  parsing and pattern matching without state of their own. Setup of editors, supervisor units,
  argument parsing and output of the command line.
- Lock files of another host (judged by age only). Connections that wait in the backlog of a socket
  when its server closes, and the timeout of the stop command's own ping.
- Delivery: uncommitted files that a death leaves in a worktree and the next restore discards. (A
  send before that commits its own file only; one that fails to commit has sent nothing.) A death
  inside a rebase of `main`: `RecordDies` comes between two runs of git, so `RoomsAreConfigured` does
  not cover a configuration committed on top of such a rebase, which would be lost as in
  `delivery_stray`. Unreadable messages, anomaly reports, sorting within a sync.
- Sealing: the age limit, promoted decisions, unresolved messages that a plan leaves out, backoff
  after failures, and the local commits of a sealer that died before its push. The text of digests.
- Tasks: needs, agenda and reports; several tasks, reviews or resources at once (their reductions do
  not read each other's events).
- Cards: profiles and discovery. Search and rendering. The settings that git hygiene writes, parsing
  of git's output. Request framing between client and daemon. Other settings of the configuration.
- Time is a few abstract steps; clocks of machines are unrelated except in ResourceClaims and Roster,
  which say what they assume.

`components` in `PROJECT.json` has the list by component.
