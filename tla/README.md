# smallkhoj: a TLA+ verification project

smallkhoj is a workbench in which people and coding agents share channels and
tasks.  Agents run on computers; each computer runs one *daemon*, which starts
the agents' runtimes (Claude, Codex, Goose, Pi, ...) and talks to the backend
over HTTP and one websocket.  This directory holds specifications of the parts
of that system whose correctness depends on interleavings, retries and stale
state, model-checked with TLC and, where it matters most, proved with TLAPS.

## 1. Inventory

Paths are relative to the repository.  `daemon/` abbreviates
`agent/daemon/aaa-daemon/src/`.

| component | state | operations | what is hard |
|---|---|---|---|
| **Daemon event delivery** `backend/services/daemon_control.py`, `backend/routers/agent_api.py` (`daemon_websocket`), `daemon/websocket.ts` | `event_records` (append-only, `seq` drawn at INSERT), the hub's connection and cursor per websocket, the daemon's `lastEventCursor` | INSERT/COMMIT of a row, `push_events`, accept/register/close of a websocket, reconnect with a cursor | every `await` lets another handler run; rows commit out of seq order; the websocket drops between two sends |
| **Channel roster** `backend/services/channel_membership.py`, `channel_member_references.py`, `daemon/runtime/channel-context.ts` | members, `membership_revision`, `rosterRevision` of each event, the daemon's registry entry per runtime generation and channel | add/remove member, apply a change, fetch a snapshot, clear | events late, twice or missing; snapshot made of two reads; counter read outside the lock |
| **Pi capacity leases** `backend/services/llm_run_leases.py` | `llm_run_leases`: status, expiry, order | acquire (poll), heartbeat, release, reconcile | only some operations take the advisory lock; drivers die |
| **Daemon lease** `backend/routers/agent_api.py` 362-420, 1654-2123 | `active_daemon_id`, `daemon_lease_expires_at`, `status` of the computer | connect, register, heartbeat, shutdown, websocket takeover, ack | long-lived handlers keep an old copy of the row; takeover races with reconnects |
| **Runtime lifecycle** `daemon/daemon/daemon.ts` | one record per running agent: driver, turn queue, restart and stall timers | start, stop, cancel, restart after a crash, warmup, stall watchdog, reports | timers that fire after a stop; fire-and-forget reports |
| **Runtime drivers** `daemon/runtime/*-runtime.ts` | the active turn, the pending prompts, the child process, the lease of the turn | send, stop, finish a turn | stop while an acquire is in flight; a stopped driver that is started by a late message |
| **Agent proxy** `daemon/proxy/` | event ring buffer, `lastSeenSeq`, `readUpToSeq` | record, read, send with freshness hold | one pair of marks for several agents and channels |
| **Tasks and task runs** `backend/services/task_runs.py`, `task_run_writeback.py`, `agent_api.py` | task status and assignee, run status | claim, update, lifecycle report, writeback | check-then-act without locks, reports out of order |
| **Reminders** `backend/services/reminder_scheduler.py` | due time, status | schedule, snooze, cancel, fire | the scheduler against the handlers |
| **Public events** `backend/services/public_events.py`, `frontend/lib` realtime owner | bounded queues per browser, high-water mark | publish, drop, catch up | a queue at its limit |
| **Read cursors** `backend/services/chat_read_cursors.py` | position per reader | advance | unlocked read-modify-write |
| **Accounts, invites, servers** `backend/services/account_bootstrap.py`, `server_invites.py`, ... | accounts, memberships, tickets | register, accept | accept twice |
| **Adapters** Feishu, Jira, memory, uploads, summaries, release loop | external | | out of scope |
| **Frontend pages, scripts, prototypes** | | | out of scope |

Interaction: every backend handler that changes something writes a row of
`event_records`, commits and calls `push_latest_events_for_server`; the daemon
receives the row and hands it to the runtime of the agent through one serial
delivery chain; a membership row changes the runtime's registry, any other row
becomes a prompt of the driver; a Pi driver asks the backend for capacity before
it starts the turn.

### What makes each part correct

* Event delivery: no committed row that an agent may see is left behind a cursor,
  but for the losses of section 6; a daemon without a rival is never sent away.
* Roster: a view at revision *r* is the roster after change *r*, references
  included; the revision never goes back.
* Leases: capacity respected and used, first come first served, a lease that is
  alive is kept, a run that is over stays over, every waiter is served.
* Daemon lease: one daemon is fed at a time; after a takeover the old one stops; a
  daemon whose lease belongs to another one does not go on.
* Lifecycle: at most one runtime per agent is known to the daemon and the proxy, and
  what it replaced was told to end; the daemon's books name the run the child works
  on; what is reported of a run never goes back, and a run that began ends.
* Drivers: prompts go out one at a time and in the order of their messages; none
  waits for ever; a hung child is replaced; a Pi child works under a lease.
* Proxy: a send is held while a message of its channel is unread.

## 2. Modules

| module | models | composed with |
|---|---|---|
| `OrderedFeed` | the abstract promise: one consumer reads a log in order, and what it may miss | implemented by `EventDelivery` |
| `EventDelivery` | event log, hub, websockets and the daemon's cursor | `OrderedFeed` (refinement) |
| `RosterSync` | database roster, its events, the registry of one runtime | |
| `RosterSyncProofs` | the theorems about `RosterSync` | |
| `LlmRunLeases` | capacity leases of Pi turns | |
| `LlmRunLeasesProofs` | the theorems about `LlmRunLeases` | |
| `DaemonLease` | which daemon process of a computer is the active one | |
| `DaemonLeaseProofs` | the theorems about `DaemonLease` | |
| `RuntimeRecord` | the daemon's record of one launch, and its handlers | extended by the three runtimes |
| `ClaudeRuntime` | the launches of an agent run by the Claude driver | `TaskRunLifecycle` (refinement) |
| `AcpRuntime` | the same for the driver of the Agent Client Protocol (Codex) | `TaskRunLifecycle` (refinement) |
| `PiRuntime` | the same for the built-in Pi, with its leases | `LlmRunLeases` (composition and refinement), `TaskRunLifecycle` (in the proofs) |
| `TaskRunLifecycle` | the abstract promise: reports of a run only walk forward | implemented by the three runtimes |
| `EventDeliveryProofs` | the theorems about websockets, cursors and the order of delivery | |
| `RuntimeRecordProofs` | what each handler keeps of a record | |
| `ClaudeRuntimeProofs`, `AcpRuntimeProofs`, `PiRuntimeProofs` | the theorems about the three runtimes | |
| `MC*` | constants for TLC | |

A definition whose name contains an underscore and whose comment starts with
"Mutant" is not part of a specification: it is the form a plausible bug would
give to the definition after it, kept to show that the properties notice.

### EventDelivery

`records[seq]` is a row: which agents may see it and whether its transaction is
open, committed or aborted.  A *task* is a coroutine of the single backend
process: the handler of a request (`InsertEvent`, `CommitEvent` or
`RollbackEvent`, then a push) or the handler of a websocket up to its first
receive (`AcceptWs`, `RegisterWs`, then a push; `RegisterFails` is the commit that
fails behind `add_exclusive`).  A push is split at its awaits:
`StartPush` reads the connection and the cursor, `ScanVisible` or
`ScanNothingVisible` is the query, `SendCopy` one `send_json`, `FinishBatch`
stores the cursor, `SendFails` is the `except` branch.  `hub` and `cursors` are
the two dictionaries of `DaemonControlHub`, `conns` what each handler knows of
its websocket, `wire` what is in flight.  On the daemon's side `Receive` raises
`lastEventCursor` and hands over the event, `Drop` and `DaemonConnect` are the
network and the reconnect timer, `Revoke` the close frame 4001.

`base`, `delivered` and `excused` are history variables: where the live subscription
began, what the daemon processed, and the copies that no cursor promises.  Two things
are excused, and nothing else: the copies of a row that commits when a row with a
larger number is committed already (`CommitEvent`); and, when the daemon reconnects,
the copies still missing of the row its cursor is at, because the copies of one row
for several agents share its number (`DaemonConnect`).  The first is what
`event_late_commit` shows to be a loss, under `NothingSkipped`, which excuses nothing;
the second is `daemon_control.py:458`.  Of a row that commits in order, copies are excused
only where the daemon has one of the same row already, so that a push or a resume that
leaves a row out is noticed, as the mutants show.

`OrderedFeed` says the same as a promise: an entry is consumed only when every earlier
one was, the excused apart; `Repeats`, whether an entry may come again, is whether
more than one coroutine may push.

Simplifications: a displaced websocket is closed in the step that displaces it, while
the code awaits two sends to it; `send_json` raises only on a link that is down; which
agents may see a row is fixed when it is inserted.

### RosterSync

One channel, one agent with a runtime, and the other members.  `Mutate` is the
locked part of a membership request, one atomic transaction; `LoadChannel` is
the read of the channel row that authorises the request and that the locked part
then works with, because SQLAlchemy does not refresh a loaded object.  Without
overlap (`Overlap = FALSE`) the two are adjacent.  `Deliver*` are the branches of
`prepareRuntimeMembershipChange` and `apply`; any committed event may be
delivered at any time and any number of times, which covers loss, delay,
reordering and duplication by the path above.  A fetch is split into the two
reads of `list_channel_members`.

`asOf` is a history variable: how many changes the last snapshot had seen.  It
is needed to say what a view is worth between the two reads' revisions: until
the revision has reached `asOf`, each member is shown as of one of two rosters.

### LlmRunLeases

One row per run.  `acquire_run_lease` and `release_run_lease` run under an
advisory lock and end with `Reconcile`; the heartbeat takes no lock and is split
into what it reads and what it writes, and the release reads its row before the
lock.  Time is counted down per row so that it needs no bound.  `Abandoned` runs
belong to drivers that die after they first asked.

### DaemonLease

Several daemon processes of one computer.  `holder`, `left` and `online` are the
computer's row, `proc` the life of each process.  `Start`, `Heartbeat`, `Refuse`,
`Load` and `Grant` are a register or heartbeat request: it decides on the row it
loads and writes it back after the workspaces are synchronised.  `Open`,
`TakeOver`, `Claim`, `Ack` and `HandlerExit` are the handler of a websocket, split
at its awaits; `Revoke`, `Stop` and the three shutdown actions are the end of a
daemon, `Crash` the end without one, `Drop` the network.  `Commit` is what a
SQLAlchemy session does at commit: it writes the attributes that differ from the
row it loaded and leaves the others as the database has them.  The handler of a
websocket keeps its `copy` of the row for as long as the websocket lives, because
the session factory sets `expire_on_commit=False`.

Registration and heartbeat differ in the columns they write beside the lease and
share their actions; their difference here is what the answer means to the daemon
(`Answered`).  Not modelled: the exchange of a connect ticket, daemons without a
`daemonId`, two overlapping heartbeats of one daemon, and the workspaces that
these requests carry.

### RuntimeRecord

JavaScript runs a handler to its end, so the part of a handler that concerns the
daemon's record of a launch is an operator from record to record: `OnMessageSent`,
`OnToolEvent`, `OnResult`, `OnError`, `OnExit`, `OnStop`, `CutOff`,
`DeliverQueued`, `DeliverSent`.  The modules of the drivers say when they run.  A
record holds the delivery chain, the queue of prompts of the driver, the daemon's
own queue of turns (`pendingActivityTurns`), the active task run, readiness, the
stall clock and the last report posted of each run.

A message is its number in the order of receipt; it may carry a task run or tell
the agent that it left a channel, and it belongs to a channel.  `skewed` is a
history variable.  The daemon and the driver keep two queues that meet only through
`message_sent`, which takes the oldest turn whatever prompt was sent.  A notice of
removal that is queued is a prompt without a turn, and from then on the books are
one behind; so they are after a result that came before the runtime was ready.
`skewed` marks these cases, and the properties about the books except them.

### ClaudeRuntime

One resident child per launch.  `records[g]`, `children[g]` are the record and the
child of launch *g*; `current` is the launch in the daemon's map; a launch goes on
after it left the map, until its child exits.  A child is written to when its stdin
is open and it is not busy; `Result` flushes the queue; `Exit` takes the record out
of the map if it is still there and sets the restart timer after a crash.
`SpawnError` is `error` without `exit`.  `Watch` is the stall watchdog: request to
cancel, then kill; `ControlCommand` a slash command.  Every child can hang
(`Hang`), crash, or close its stdin.

### AcpRuntime

A driver behind the Agent Client Protocol.  A prompt has a stage: its session is
being opened, it is the turn, or the request is dead because the connection is
gone, in which case it is rejected later.  `Returned` is the `finally` of
`runPrompt`: it flushes the queue also when the driver was stopped.  `exited` is
`exitEmitted` of the driver, behind which a flush may still start a child.  A stop
waits for the child, which may ignore the signal: `Killed`, `DueExit`,
`StopReturned`.  A crash is not followed by a restart: the daemon restarts Claude
only.  Goose's driver differs in its command line and session file.

### PiRuntime

One child per turn.  `calls[m]` follows `preparePrompt` and `finishTurn` of the
prompt of message *m*: an acquire is posted, handled by the backend (or denied by
the proxy, or lost), its answer arrives, the driver sleeps and polls, runs its
child, posts the release, and goes on when that returned.  The lease table is
`LlmRunLeases` itself: `AcquireHandled`, `Heartbeat*` and `Release*` conjoin its
actions.  Nothing waits for `preparePrompt`: a stop finishes the turn while its
acquire is under way, and a message that was in the delivery chain at that moment
starts the stopped driver again (`Deliver`), with the fields of the earlier turn's
calls overwritten.

`tokens` are the launches the proxy knows.  A request is posted when its handler
runs and reaches the proxy after it: `open` says whether the handler that posts it
also takes the token away.

A tick is one period of the heartbeat timer.  It waits for the requests of the
period before (they time out after 10 s of 30) and for a driver that polls every
1.5 s to learn of its promotion.

## 3. Runs

| run | question | bounds and why they suffice |
|---|---|---|
| `event_delivery` | is a resumable cursor a promise that nothing behind it is missing, and does the hub's cursor stay behind what was sent, and does every row arrive? | two coroutines (a third adds no new pair of a read and a write of one cursor), each with a transaction, so that rows commit in any order; three rows in one page, two websockets and a drop: a subscription and its resume; one agent (`event_feed` has two) |
| `event_feed` | does the path implement an ordered log? | two agents, so that a drop may cut the copies of a row in two; one coroutine, three rows, pages of two, two websockets, slow handshakes included |
| `event_late_commit` | what if rows commit out of order? | the smallest instance that shows it |
| `roster_sync` | is a view the roster of its revision? | five changes among three members, two of which share a handle, so that references are qualified and released again; one runtime with restarts |
| `roster_overlap` | what if requests overlap? | two requests, three changes |
| `llm_run_leases` | capacity, order, honour and service | one place, two living runs and one dead one, a lease of two ticks: a heartbeat can be late by one |
| `daemon_lease` | is only one daemon fed, and does only one remain? | two daemons (a third is displaced like the second), one of them managed, crashes, one drop, a lease of one tick: it runs out or does not |
| `daemon_lease_taken` | does a daemon that lost its lease stop? | a lease of two ticks, so that an ack can extend it before it runs out (30 s against 90 s) |
| `claude_runtime` | do map, token, child and both queues stay in step; do prompts keep their order and reports walk forward to an outcome? | a message and a task in the channel the third message removes the agent from: two to wait in a queue and one to cut it; two launches (old and new), one fault of any kind, a stall of one tick |
| `claude_stall` | does the watchdog replace a hung child? | one launch, two messages, one fault |
| `acp_runtime` | is each exit taken once, is one prompt out at a time and in order, does none wait for ever, is a hung child removed? | a message and a task beside the warmup and a slash command, two launches, one fault: a session that fails, a child that dies or hangs |
| `pi_runtime` | does a child work only under an active lease, and does every prompt start? | a message and a task in need of one lease (the one a stopped launch left behind is the rival), two launches, a lease of four ticks (120 s against 30 s), one fault of any request |

Deadlock is not checked where the system may come to rest: when the bounds on
rows, connections or runs are used up.

### Fairness

`EventDelivery`: each ready coroutine is resumed by the event loop; a websocket
that was opened finds a coroutine; the daemon's reconnect timer (5 s) fires; a
frame on a link that stays up arrives.  Requests and network drops are not fair.
The reconnect delay is also why `SlowHandshake` is false in this run: a handshake
that outlasts five seconds lets the daemon displace itself (the property
`NeverEvictedByItself`; its mutant removes the delay).

`LlmRunLeases`: a waiting driver that lives polls every 1.5 s, its turn ends and
its release is sent, handlers finish, and the clock runs.  Nothing is assumed of
drivers that died.

`ClaudeRuntime`: the clock runs, the watchdog's interval fires, deliveries go on, and
a child that is not hung ends its turn or exits.  Each is a timer, a promise or the
child itself.  `AcpRuntime`: the same, with one condition for the clock and the
watchdog and one for deliveries and the deadline after which a child is killed,
since each of those alternates or has finitely many steps.  A hung child promises
nothing; that is what the watchdog is for.

`PiRuntime`: the clock; polls; heartbeats, handled or lost; and, in one condition as
there are finitely many of them, deliveries, denials, the ends of children and the
steps of releases.  `EveryPromptStarts` excepts a child that was not spawned, whose
turn nothing ends.

In all three, commands, messages, crashes and lost requests need not happen.

`DaemonLease`: handlers finish, close frames arrive unless the websocket drops
first, a running daemon heartbeats (15 s), acks (30 s) and reconnects (5 s), and
the clock runs.  Each of these is a timer or a handler of its own, hence weakly
fair on its own.  Nobody has to start or stop a daemon, nothing has to crash.

## 4. Proofs

`RosterSyncProofs` proves, for any finite or infinite set of members, any handles
and any number of requests and changes, under the assumption `~Overlap`:

* `TypeCorrectness`: `Spec => []TypeOK`;
* `ViewIsExact`: `Spec => []ViewIsRosterOfRevision`;
* `ViewIsMixture`: `Spec => []ViewMixesTwoRosters`;
* `ViewIsMonotone`: `Spec => ViewNeverGoesBack`;
* `CurrentViewIsCurrent`: `Spec => []CurrentRevisionIsCurrentRoster`.

The inductive invariant `IInv` says, beside the types: the request in flight
loaded the current revision; the log is numbered 1, 2, 3, ... without gaps and
each entry *describes* its step, that is, the rosters before and after it differ
at most in its member and in the members whose references it lists; a fetch in
flight read a revision at least as new as the view and as the change it was made
for; and each member of a view is shown as of the view's revision or as of the
snapshot.  None of the view properties is inductive alone: applying a change to a
mixed view stays a mixture only because the change lists every member it affects,
and the revision does not go back only because a snapshot is read after the gap
that asked for it.

`roster_overlap` is the counterexample without the assumption.

`LlmRunLeasesProofs` proves all safety properties of `LlmRunLeases`, for any
finite set of runs, any capacity and any length of the lease: `TypeCorrectness`,
`CapacityIsRespected`, `CapacityIsUsed`, `TerminalsStay`, `LivingLeasesStay` and
`ServedInOrder`.  The capacity is respected after a reconciliation only if the rows
it starts from respect it, and it is used only if it was respected, so the
invariant is the conjunction of the two with the types.  `StepShape` says that a
step is either quiet (no status changes) or a reconciliation of rows that differ
from the table by one new waiter or one run that ended; `ReconcileRows` and
`ReconcileCapacity` say what a reconciliation makes of its rows.

`DaemonLeaseProofs` proves, for any set of daemons, `TypeCorrectness` and
`HubIsExclusive` (`Spec => []OnlyHubConnected`).  The inductive invariant extends
the property to handlers that have entered the hub and not yet claimed the lease.

`RuntimeRecordProofs` holds the lemmas about the handlers of a record: what each of
them does to the chain, the queue, the turns, the active run and the reports.  The three proof
modules of the runtimes cite them instead of the definitions.

`ClaudeRuntimeProofs` proves, for any number of launches, messages and faults, any
assignment of tasks, channels and removals, all safety properties of its run, in two
parts.

* `RuntimesAreOwned`, `BooksAreKept`, `IdleChildHasNothing` and `ActiveRunIsTurn`.
  None of the four is inductive.  The invariant links, for each launch whose child
  lives, the driver's queue with the daemon's turns, the turn the child works on with
  the active run, and the state of the child with what may wait for it (`Sound`);
  launches that have not happened are in their first state; and whatever is not in
  the map was told to end or has exited (`ChildrenAreOwned`).
* `QueuesAreOrdered`, `TypesAreRight`, `RemovalsCutOff`, `ChildReadsInOrder` and
  `ReportsGoForward`.  Here the invariant `OrderInv` says of each launch that its
  delivery chain and its queue increase and hold nothing that was not received; that
  every message of the chain is newer than the ones that wait for the child; that no
  message in the queue stands before a removal from its own channel (`Cut`); and that
  what was reported of a run is what its place says (`Orderly`).  What a handler makes
  of the reports only walks forward (`Proceeds`), so that a step of the runtime is a
  step of `TaskRunLifecycle` or a stutter.

`AcpRuntimeProofs` proves `MapIsKept`, `PromptsAreSerial` and `IdleDriverHasNothing`,
whose invariant says the corresponding facts of the prompts and their stages
(`LaunchInv`), that the variables are functions, and `MapFollowsExits`, which is
inductive with it: a launch leaves the map with its exit or its stop, and never
returns.  The second part is as for Claude: `AcpQueuesAreOrdered`, `AcpTypes`,
`PromptsGoInOrder` (until the exit of a driver is reported) and
`AcpReportsGoForward`.

`PiRuntimeProofs` proves `ChildHoldsLease` (`Spec => []RunHoldsLease`) for any number
of messages, launches, places, removals and faults, under one assumption, `Sheltered`:
`LeaseTicks >= MaxFaults + 3`, that is, a lease has time for the heartbeats that may
fail, the one under way and the part of a period before the first.  The bound is
needed: with three ticks and one fault TLC finds a child whose lease ran out.  The
code has four periods to a lease (120 s, `backend/config.py:143`, and 30 s,
`pi-runtime.ts:311`), which tolerates one failure.

Its invariant: a message waits in one place and has had no prompt (`WaitingInv`); the
launch in the map has one prompt at most, its driver knows that prompt's run and
timer (`MapInv`); and the time a lease has left, the faults so far and the heartbeat
under way are together at least `LeaseTicks - 1` (`Worth`).  The last is what makes
the property inductive: a tick takes a period from the lease only if the heartbeat of
that period was handled or is counted as a fault.  The daemon's handlers are shown to
keep the invariant through the *context* they work on (`Fits`, `Solo`, `Serial`,
`BecomesInv`), the backend's steps through what they do to the rows (`LeaseStep`).

The other theorems about Pi need no assumption.  `LeasesAreKept`
(`Spec => Leases!Spec`): under drivers, proxies and timers the table of leases takes
only steps of `LlmRunLeases`.  `TableHolds`: therefore everything that is proved of
that module (types, capacity, order, honour, terminal runs) holds under the runtimes;
the theorems of `LlmRunLeasesProofs` are instantiated, not repeated.
`PiQueuesAreOrdered`, `PiTypes`, `PiPromptsGoInOrder` and `PiReportsGoForward` are the
second part of the other two runtimes; what a handler makes of its context on the
way, and what it leaves when it is done, are `Kept` and `Leaves`.

`EventDeliveryProofs` proves all safety properties of `EventDelivery`, for any number
of agents, coroutines, open transactions, rows, websockets and drops and any page size.
Only `NeverEvicted` has an assumption.

* `NeverEvicted` (`Spec => []NeverEvictedByItself`), under `~SlowHandshake`: the
  reconnect delay of 5 s outlasts a handshake.  Its invariant says that one websocket
  at most has a handshake under way, that it is the daemon's own unless the network
  dropped that one, and that one coroutine at most registers a websocket, namely the
  one of that handshake.  Without the assumption the property fails.
* `DeliveryTypes` (`Spec => []TypeOK`).
* `NothingIsSkipped` (`Spec => []OnlyExcusedSkipped`) and `CursorIsCovered`
  (`Spec => []CursorCoversSent`).  A cursor occurs in many places: in the hub, in the
  local variables of a push and of a handshake, in the daemon, in the query string of
  a websocket.  The invariant (`PromiseInv`) says the same of all of them: a cursor is
  a promise (`Covered`) that the entries up to it that are owed, those that are not
  excused, are among what was sent on the websocket or processed.  Of a batch and of
  the wire it says that each copy may come next after those before it (`Fits`,
  `Follows`): what is owed of earlier rows is among them.  A query turns the promise of
  the cursor it was read behind into that of its page (`PageFollows`); `SendCopy`,
  `Receive`, `DaemonConnect` and `AcceptWs` hand it on.  What makes it inductive is
  `Grown`: a commit adds to what is owed only behind the newest row, a reconnect takes
  from it, and nothing else changes it.  `OpenInv` ties an open row to one coroutine,
  `LinksInv` a websocket that is up to the daemon.
* `FeedIsOrdered` (`Spec => FeedSpec`): the refinement of `OrderedFeed`.  That a copy
  may come next is the guard of `Consume`, so `Receive` is that step, `CommitEvent` is
  `Publish`, `DaemonConnect` is `Resume`, `AcceptWs` is `Subscribe`, and the others are
  stutters.  Where one coroutine runs at a time, the invariant has a part more
  (`Reached`): what was sent ends where the cursor is, and a copy that follows is new.

The theorems say what may be missing, not that it is little: the excused rows are lost
in the code too, and `event_late_commit` is the counterexample to the promise without
them.

Several of these proofs are about recursive functions: what `Without` keeps of a queue,
what `Expand` makes of a page.  The induction is done by hand, over numbers: a set of
numbers with an element has a least one (`LeastElement`), so a set that has 0 and with
each number the next has all of an interval (`UpTo`).  The existence of the function
that the recursion defines is itself proved that way (`ExpandDef`).

With these, every invariant, action property and refinement that a passing
run checks are theorems.  Model-checked only: all liveness (`EventuallyDelivered` and
the other properties under fairness), which is out of the prover's reach; and the
disagreements of section 6, which are counterexamples.  The run of Pi has no message
that removes the agent from a channel, because with two messages a removal has
nothing to cut; the theorems about Pi have no such restriction.

## 5. What is not modelled

The table of section 1 names the components; `PROJECT.json` gives the reason for
each.  Within the modelled ones: control commands and inbox polling of the event
path; payloads, prompts and the wording of messages; ownership checks; the 256
remembered event keys of a registry entry (they are never forgotten in the model; a
forgotten one would reach the revision check, which classifies it the same way); other event types
that `event_visible_to_agent` filters, which are a set of agents per row.

Of the runtimes: OpenCode's driver; several agents of one daemon (their records
share nothing but the proxy); the choice of a provider and a command line; the
persistence of sessions; several channel contexts per runtime, and the snapshot that
a delivery may wait for, which is the wait in the chain; the daemon's own stop, after
which nothing is reported.  Reports are independent requests, and the model has the
order in which they are posted, not the order in which they arrive.

Simplifications within the modelled parts, which no property is known to depend on:

* `RosterSync`: whether the agent is a member is asked when an event is delivered, and
  in the code when the push reads the rows, a moment before.
* `LlmRunLeases`: `created_at` grows in the order in which acquires get the lock; ties,
  which the code breaks by `run_id`, do not occur.
* `DaemonLease`: a lease is written in full at the commit, while its expiry counts from
  the time the row was loaded; a websocket handler that fails while it starts is only
  in `EventDelivery` (`RegisterFails`).
* `RuntimeRecord`: the clock of the stall watchdog is set back when the watchdog stops.
* `AcpRuntime`: a child that cannot be spawned is a refused prompt, opening a session is
  one stage, and `bootstrapping` is not cleared by an older bootstrap's end.
* `PiRuntime`: an acquire that times out at the client is not handled afterwards; polls
  and heartbeats complete within their period.

The proxy's freshness hold, task claims and run writeback, reminders, public events
and read cursors are not modelled yet; each is small, and section 7 says what would
be worth asking.  Accounts, adapters, pages, scripts and prototypes are request by
request or pure presentation, with nothing of their own that a model would find.

## 6. Disagreements with the documents

Runs that show a disagreement:

1. `event_late_commit`: a row that commits late is skipped for good, though the cursor
   is called resumable.
2. `roster_overlap`: two requests that overlap number their changes alike.
3. `daemon_lease_taken`: a websocket handler looks for another holder in its own
   old copy of the row and never finds one, so a connected daemon extends a lease
   that a late request gave to another daemon, and its own heartbeats are refused.
4. `claude_stall`: the request to cancel a stalled turn is reported by the driver as
   a `line`, which the daemon takes for progress, so that the watchdog never gets to
   its next step and a hung child stays.

Observations made while modelling, without a run of their own:

* Event delivery.  Two handlers that push at once send a row twice.  The copies of a
  row for two agents share one cursor value, so a drop between them loses the second.
  A backlog of more than a page waits for the next push (`daemon_control.py:373`).
* Books of the daemon.  A task that is queued while another prompt opens its session
  begins with that prompt's `message_sent` (`daemon.ts:1741`), and the result of that
  prompt completes it; the ACP and Pi drivers both emit `message_sent` long after they
  accepted the prompt.  An ACP prompt that fails is reported completed before the
  error (`daemon.ts:1654`).  A removal notice that is queued shifts all later turns.
  A prompt with a task survives the cutoff of its channel while its turn is dropped
  (`session-scope.ts:72`, `daemon.ts:589`).  Task runs that wait in a queue when their
  runtime stops or crashes get no outcome, and a result before the runtime is ready is
  ignored.
* Exits and restarts.  A child that cannot be spawned emits `error` and no `exit`, and
  its runtime stays in the map (`claude-runtime.ts:549`).  `restartAttempts` belongs to
  the record, so that a crash loop restarts for ever (`daemon.ts:2498`).  A stop during
  the 250 ms before a restart finds nothing to stop (`daemon.ts:2505`).  A flush behind
  the exit of an ACP child may start another that is in no map
  (`codex-acp-runtime.ts:413`).
* Pi.  The handler that stops a runtime, and the one that hears its exit, take the
  proxy token away before the release it posted arrives (`daemon.ts:1938`), so that
  the lease is kept until it expires, 120 s in which the agent's next prompt may wait.
  An acquire that was under way at a stop creates or promotes a lease after its
  release.  A child that could not be spawned keeps its lease through its heartbeat
  until the next stop.  A message that was being delivered at a stop starts the driver
  again; without a token it fails at its acquire, with `error` and a second `exit`.

## 7. Plan

1. `TaskRuns` and `TaskClaims`: the backend's side of the reports and of claims:
   which order of states it accepts, and whether two agents may both be told that a
   task is theirs.
2. `ProxyFreshness`: a send is held while a message of its channel is unread.
3. `Reminders`, `ReadCursors`, public events.
4. A composition of `DaemonLease` with the workspaces a shutdown stops.
