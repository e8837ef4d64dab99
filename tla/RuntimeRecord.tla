--------------------------- MODULE RuntimeRecord ---------------------------
(***************************************************************************)
(* What the daemon knows of one launch of an agent's runtime, and what its *)
(* handlers do with it.  JavaScript runs each handler to its end, so every *)
(* handler is an operator from a record to the record it leaves behind;    *)
(* the modules of the drivers say when the handlers run.                   *)
(*                                                                         *)
(* A record has the fields of the daemon's RuntimeRecord that decide       *)
(* something, the queue of its driver, and for each task run the lifecycle *)
(* report that was posted last.                                            *)
(***************************************************************************)
EXTENDS Naturals, Sequences, SequencesExt

CONSTANTS
    MaxMessages,    \* bound: messages, numbered in the order of their receipt
    TaskRuns,       \* the messages that carry a task run
    Removals,       \* the messages that tell the agent it left a channel
    ChannelOf,      \* the channel of each message
    StallTicks,     \* runtimeStallTimeoutMs
    None

Messages == 1 .. MaxMessages

ASSUME RuntimeRecordAssumption ==
    /\ MaxMessages \in Nat
    /\ TaskRuns \subseteq Messages /\ Removals \subseteq Messages
    /\ TaskRuns \cap Removals = {}
    /\ None \notin Messages
    /\ StallTicks \in Nat \ {0}

Outcomes == {"completed", "failed", "cancelled"}
Reports == {"none", "dispatched", "running"} \cup Outcomes

\* A new record: nothing is delivered, the warmup timer runs until it is ready.
Launched == [
    chain |-> <<>>,                         \* channelContextDeliveryChain
    queue |-> <<>>,                         \* pendingUserMessages of the driver
    turns |-> <<>>,                         \* pendingActivityTurns
    run |-> None,                           \* activeTaskRunId
    ready |-> FALSE,
    restart |-> FALSE,                      \* restartTimer
    quiet |-> 0,                            \* ticks since lastProgressAt
    asked |-> FALSE,                        \* stallCancelSentAt
    reported |-> [m \in TaskRuns |-> "none"],
    skewed |-> FALSE]                       \* history: see Skew

---------------------------------------------------------------------------
\* reportTaskRunLifecycle, for a message that carries a task run.
Post(r, m, report) == IF m \in TaskRuns THEN [r EXCEPT !.reported[m] = report] ELSE r

\* From here on the books of the daemon may name another run than the one that
\* works: a prompt without a turn waits between prompts with one, or the result of
\* a run was not taken.
Skew(r) == [r EXCEPT !.skewed = TRUE]

\* Mutant: the run stays active.
EndRun_KeepsRun(r, outcome) == IF r.run = None THEN r ELSE Post(r, r.run, outcome)

\* The active run ends with a report, if there is one.
EndRun(r, outcome) ==
    IF r.run = None THEN r ELSE [Post(r, r.run, outcome) EXCEPT !.run = None]

MarkProgress(r) == [r EXCEPT !.quiet = 0, !.asked = FALSE]

MarkReady(r) == [r EXCEPT !.ready = TRUE]

\* Mutant: every message is taken for a task run.
BeginTurn_AnyMessage(r, m) == Post([r EXCEPT !.run = m], m, "running")

\* beginRuntimeActivityTurn: a message without a task run leaves the active run.
BeginTurn(r, m) == IF m \in TaskRuns THEN Post([r EXCEPT !.run = m], m, "running") ELSE r

\* Mutant: the turn stays queued when it begins.
OnMessageSent_KeepsTurn(r) ==
    IF r.turns = <<>> THEN MarkProgress(r) ELSE BeginTurn(MarkProgress(r), Head(r.turns))

\* 'message_sent': the oldest queued turn begins, whatever prompt was sent.
OnMessageSent(r) ==
    IF r.turns = <<>> THEN MarkProgress(r)
    ELSE BeginTurn([MarkProgress(r) EXCEPT !.turns = Tail(@)], Head(r.turns))

\* Mutant: a tool event is reported for a run that has ended, too.
OnToolEvent_AfterEnd(r) ==
    LET begun == {m \in TaskRuns : r.reported[m] # "none"} IN
    IF r.ready /\ begun # {} THEN Post(MarkProgress(r), CHOOSE m \in begun : TRUE, "running")
    ELSE MarkProgress(r)

\* 'stream_event' of a tool.
OnToolEvent(r) ==
    IF r.ready /\ r.run # None THEN Post(MarkProgress(r), r.run, "running") ELSE MarkProgress(r)

\* 'stream_event' with a result.  A runtime that is still starting ignores it.
OnResult(r) ==
    IF r.ready THEN EndRun(MarkProgress(r), "completed")
    ELSE IF r.run = None THEN MarkProgress(r) ELSE Skew(MarkProgress(r))

\* 'error' of the driver.
OnError(r) == EndRun(MarkProgress(r), "failed")

\* Mutant: the run of a runtime that crashes is forgotten.
OnExit_Silent(r, intentional) == MarkProgress(r)

\* 'exit', the part that concerns the record.  The watchdog stops with it
\* (stopRuntimeStallWatchdog): what it counts is of no use any more and is set back.
OnExit(r, intentional) == MarkProgress(IF intentional THEN r ELSE EndRun(r, "failed"))

\* stopRuntimeForAgent, the part that concerns the record; the watchdog stops as above.
OnStop(r) == MarkProgress(EndRun(r, "cancelled"))

---------------------------------------------------------------------------
\* The scope of a prompt: a message with a task has the task's scope, any other
\* one its channel's or its thread's (chooseRuntimeSessionScope).
InChannelScope(m, channel) == m \notin TaskRuns /\ ChannelOf[m] = channel

\* A queue without the messages of a set, in the same order.
Without(queue, gone) ==
    LET kept[i \in 0 .. Len(queue)] ==
            IF i = 0 THEN <<>>
            ELSE IF queue[i] \in gone THEN kept[i - 1] ELSE Append(kept[i - 1], queue[i])
    IN  kept[Len(queue)]

\* discardQueuedChannel goes by the scope of a prompt.
DiscardQueuedChannel(queue, channel) == Without(queue, {m \in Messages : InChannelScope(m, channel)})

\* The daemon's own queue goes by the channel of the message.
DiscardTurns(turns, channel) == Without(turns, {m \in Messages : ChannelOf[m] = channel})

\* Mutant: the prompts that wait in the driver are forgotten.
CutOff_QueueKept(r, channel) == [r EXCEPT !.turns = DiscardTurns(@, channel)]

\* prepareRuntimeMembershipChange for the agent's own removal.
CutOff(r, channel) ==
    [r EXCEPT !.turns = DiscardTurns(@, channel), !.queue = DiscardQueuedChannel(@, channel)]

\* Mutant: the message goes to the front of the driver's queue.
DeliverQueued_AtFront(r, m) ==
    LET queued == [r EXCEPT !.queue = <<m>> \o @] IN
    IF m \in Removals THEN Skew(queued) ELSE [Post(queued, m, "dispatched") EXCEPT !.turns = Append(@, m)]

\* deliverRuntimeMessageToDriver when sendUserMessage queues the prompt: the
\* turn of a message waits as well, a notice has none.
DeliverQueued(r, m) ==
    LET queued == [r EXCEPT !.queue = Append(@, m)] IN
    IF m \in Removals THEN Skew(queued) ELSE [Post(queued, m, "dispatched") EXCEPT !.turns = Append(@, m)]

\* ... and when it sends the prompt: the turn begins at once.
DeliverSent(r, m) == IF m \in Removals THEN r ELSE BeginTurn(Post(r, m, "dispatched"), m)

---------------------------------------------------------------------------
RecordTypeOK(r) ==
    /\ {r.chain, r.queue, r.turns} \subseteq Seq(Messages)
    /\ r.run \in TaskRuns \cup {None}
    /\ {r.ready, r.restart, r.asked, r.skewed} \subseteq BOOLEAN
    /\ r.quiet \in 0 .. StallTicks
    /\ r.reported \in [TaskRuns -> Reports]
=============================================================================
