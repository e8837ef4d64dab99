--------------------------- MODULE ClaudeRuntime ---------------------------
(***************************************************************************)
(* The runtime of one agent, run by Claude: launches, stops, crashes and   *)
(* the restart after a crash, the watchdog, and the way of a message from  *)
(* the websocket through the daemon's delivery chain and the driver's      *)
(* queue to a turn of the resident child.                                  *)
(*                                                                         *)
(* Each launch has a record of its own.  A stopped launch leaves the map   *)
(* at once while its child has two seconds to go, so that the handlers of  *)
(* several records run side by side.                                       *)
(***************************************************************************)
EXTENDS RuntimeRecord, FiniteSets

CONSTANTS
    MaxLaunches,        \* bound: launches of the runtime
    RestartOnCrash,     \* --runtime-restart-on-crash
    WarmupTurn,         \* what a turn is about that answers no message
    ControlTurn,
    MaxFaults           \* bound: failed spawns, broken pipes and children that hang

ASSUME ClaudeRuntimeAssumption ==
    /\ MaxLaunches \in Nat
    /\ RestartOnCrash \in BOOLEAN /\ MaxFaults \in Nat
    /\ {WarmupTurn, ControlTurn} \cap (Messages \cup {None}) = {}

Launches == 1 .. MaxLaunches

VARIABLES
    records,    \* the record of each launch
    children,   \* its child process and what the driver knows of it
    current,    \* the launch in the daemon's map of runtimes (0: none)
    launches,   \* how many there were
    tokens,     \* the launches whose proxy token is registered
    received,   \* how many messages and commands came
    faults      \* how many faults there were

vars == <<records, children, current, launches, tokens, received, faults>>

---------------------------------------------------------------------------
NoChild == [state |-> "none", busy |-> FALSE, turn |-> None, writable |-> FALSE,
            stopping |-> FALSE, signalled |-> FALSE, hung |-> FALSE]

\* driver.start(): the child is spawned and gets the warmup prompt.
Spawned == [NoChild EXCEPT !.state = "up", !.busy = TRUE, !.turn = WarmupTurn, !.writable = TRUE]

Up(g) == children[g].state = "up"
Idle(child) == child.state = "up" /\ child.writable /\ ~child.busy

\* terminate(): SIGTERM, and SIGKILL two seconds later.
Terminated(child, intentional) ==
    IF child.state = "up" THEN [child EXCEPT !.stopping = intentional, !.signalled = TRUE] ELSE child

Init ==
    /\ records = [g \in Launches |-> Launched]
    /\ children = [g \in Launches |-> NoChild]
    /\ current = 0
    /\ launches = 0
    /\ tokens = {}
    /\ received = 0
    /\ faults = 0

\* startRuntimeForAgent, from the records, children and tokens its caller leaves.
\* Bound: MaxLaunches.
Launch(recs, kids, toks) ==
    /\ launches < MaxLaunches
    /\ launches' = launches + 1
    /\ current' = launches + 1
    /\ records' = recs
    /\ children' = [kids EXCEPT ![launches + 1] = Spawned]
    /\ tokens' = toks \cup {launches + 1}

\* A start command; it is ignored while a runtime is in the map.
StartCommand ==
    /\ current = 0
    /\ Launch(records, children, tokens)
    /\ UNCHANGED <<received, faults>>

\* The records, children and tokens after stopRuntimeForAgent.
StoppedRecords == [records EXCEPT ![current] = OnStop(@)]
StoppedChildren == [children EXCEPT ![current] = Terminated(@, TRUE)]

\* A stop command.
StopCommand ==
    /\ current # 0
    /\ records' = StoppedRecords
    /\ children' = StoppedChildren
    /\ current' = 0
    /\ tokens' = tokens \ {current}
    /\ UNCHANGED <<launches, received, faults>>

\* A restart command: stop and start in one handler.
RestartCommand ==
    /\ current # 0
    /\ Launch(StoppedRecords, StoppedChildren, tokens \ {current})
    /\ UNCHANGED <<received, faults>>

---------------------------------------------------------------------------
\* deliverRuntimeMessage up to the delivery chain.  Bound: MaxMessages.
Receive ==
    /\ current # 0 /\ received < MaxMessages
    /\ received' = received + 1
    /\ records' = [records EXCEPT ![current].chain = Append(@, received + 1)]
    /\ UNCHANGED <<children, current, launches, tokens, faults>>

\* writeUserMessage: the child is busy and the daemon hears of it.
WriteTurn(r, kid, turn) == [record |-> OnMessageSent(r), child |-> [kid EXCEPT !.busy = TRUE, !.turn = turn]]

\* deliverRuntimeMessageToDriver for the head of the chain, up to and after
\* sendUserMessage; a record that left the map delivers as well.
Deliver(g) ==
    LET m == Head(records[g].chain)
        taken == [records[g] EXCEPT !.chain = Tail(@)]
        r == IF m \in Removals THEN CutOff(taken, ChannelOf[m]) ELSE taken
        written == WriteTurn(r, children[g], m)
    IN
    /\ records[g].chain # <<>>
    /\ \/ /\ Idle(children[g])
          /\ records' = [records EXCEPT ![g] = DeliverSent(written.record, m)]
          /\ children' = [children EXCEPT ![g] = written.child]
       \/ /\ ~Idle(children[g])
          /\ records' = [records EXCEPT ![g] = DeliverQueued(r, m)]
          /\ UNCHANGED children
    /\ UNCHANGED <<current, launches, tokens, received, faults>>

\* executeRuntimeControlCommand: a slash command for an idle runtime.  Bound:
\* MaxMessages, for the messages and the commands together.
ControlCommand ==
    /\ current # 0 /\ received < MaxMessages
    /\ received' = received + 1
    /\ Idle(children[current])
    /\ LET written == WriteTurn(records[current], children[current], ControlTurn) IN
        /\ records' = [records EXCEPT ![current] = written.record]
        /\ children' = [children EXCEPT ![current] = written.child]
    /\ UNCHANGED <<current, launches, tokens, faults>>

---------------------------------------------------------------------------
\* A child that works and is not hung.
Works(g) == Up(g) /\ children[g].busy /\ ~children[g].hung

\* The child uses a tool; success of the probe's makes the runtime ready.
ToolEvent(g) ==
    /\ Works(g)
    /\ \E probe \in {records[g], MarkReady(records[g])} :
        records' = [records EXCEPT ![g] = OnToolEvent(probe)]
    /\ UNCHANGED <<children, current, launches, tokens, received, faults>>

\* Mutant: the queue is not flushed after a result.
Result_NoFlush(g) ==
    /\ Works(g)
    /\ records' = [records EXCEPT ![g] = OnResult(@)]
    /\ children' = [children EXCEPT ![g].busy = FALSE, ![g].turn = None]
    /\ UNCHANGED <<current, launches, tokens, received, faults>>

\* The turn ends; the daemon handles the result, then the driver writes the next
\* prompt of its queue.
Result(g) ==
    LET done == OnResult(records[g])
        kid == [children[g] EXCEPT !.busy = FALSE, !.turn = None]
        next == WriteTurn([done EXCEPT !.queue = Tail(@)], kid, Head(done.queue))
    IN
    /\ Works(g)
    /\ IF done.queue # <<>> /\ kid.writable
       THEN /\ records' = [records EXCEPT ![g] = next.record]
            /\ children' = [children EXCEPT ![g] = next.child]
       ELSE /\ records' = [records EXCEPT ![g] = done]
            /\ children' = [children EXCEPT ![g] = kid]
    /\ UNCHANGED <<current, launches, tokens, received, faults>>

\* One more fault.  Bound: MaxFaults.
Fault == faults < MaxFaults /\ faults' = faults + 1

\* The spawn failed: 'error' and no exit, so that the driver keeps the child.
SpawnError(g) ==
    /\ Fault
    /\ Up(g) /\ records[g] = Launched
    /\ children' = [children EXCEPT ![g] = [@ EXCEPT !.state = "lost", !.writable = FALSE]]
    /\ records' = [records EXCEPT ![g] = OnError(@)]
    /\ UNCHANGED <<current, launches, tokens, received>>

\* Mutant: the exit of an old launch takes the new one out of the map.
Exit_AnyLaunch(g) ==
    /\ Up(g)
    /\ children[g].signalled \/ ~children[g].hung
    /\ LET intentional == children[g].stopping IN
        records' = [records EXCEPT ![g] =
            [OnExit(@, intentional) EXCEPT !.restart = RestartOnCrash /\ ~intentional]]
    /\ children' = [children EXCEPT ![g] = [NoChild EXCEPT !.state = "exited"]]
    /\ current' = 0
    /\ tokens' = tokens \ {g}
    /\ UNCHANGED <<launches, received, faults>>

\* The child exits by itself, or because it was told to: a hung one only by a
\* signal.  An exit nobody asked for arms the restart timer.
Exit(g) ==
    /\ Up(g)
    /\ children[g].signalled \/ ~children[g].hung
    /\ LET intentional == children[g].stopping IN
        records' = [records EXCEPT ![g] =
            [OnExit(@, intentional) EXCEPT !.restart = RestartOnCrash /\ ~intentional]]
    /\ children' = [children EXCEPT ![g] = [NoChild EXCEPT !.state = "exited"]]
    /\ current' = IF current = g THEN 0 ELSE current
    /\ tokens' = tokens \ {g}
    /\ UNCHANGED <<launches, received, faults>>

\* The child hangs: it neither writes nor reads any more.
Hang(g) ==
    /\ Fault
    /\ Works(g)
    /\ children' = [children EXCEPT ![g].hung = TRUE]
    /\ UNCHANGED <<records, current, launches, tokens, received>>

\* The child's stdin breaks: it is about to exit.
CloseStdin(g) ==
    /\ Fault
    /\ Up(g) /\ children[g].writable
    /\ children' = [children EXCEPT ![g].writable = FALSE]
    /\ UNCHANGED <<records, current, launches, tokens, received>>

---------------------------------------------------------------------------
\* The restart timer: startRuntimeForAgent unless a runtime is in the map again.
RestartTimer(g) ==
    /\ records[g].restart
    /\ LET fired == [records EXCEPT ![g].restart = FALSE] IN
        IF current = 0 /\ launches < MaxLaunches
        THEN Launch(fired, children, tokens)
        ELSE records' = fired /\ UNCHANGED <<children, current, launches, tokens>>
    /\ UNCHANGED <<received, faults>>

\* The warmup timer: a launch that never proved itself is taken for ready.
WarmupTimer(g) ==
    /\ current = g /\ ~records[g].ready
    /\ records' = [records EXCEPT ![g] = MarkReady(@)]
    /\ UNCHANGED <<children, current, launches, tokens, received, faults>>

\* The watchdog's timer.  requestGracefulCancel writes an interrupt and emits a
\* line of its own, which the daemon takes for progress; only a child whose stdin
\* is broken cannot be asked and is terminated.
Watch(g) ==
    /\ current = g /\ children[g].busy /\ records[g].quiet = StallTicks
    /\ IF children[g].writable
       THEN records' = [records EXCEPT ![g] = MarkProgress(@)] /\ UNCHANGED children
       ELSE children' = [children EXCEPT ![g] = Terminated(@, FALSE)] /\ UNCHANGED records
    /\ UNCHANGED <<current, launches, tokens, received, faults>>

\* A cancel_turn command interrupts a busy child.  Bound: as for slash commands.
CancelTurn ==
    /\ current # 0 /\ received < MaxMessages
    /\ received' = received + 1
    /\ children[current].busy /\ children[current].writable
    /\ records' = [records EXCEPT ![current] = MarkProgress(@)]
    /\ UNCHANGED <<children, current, launches, tokens, faults>>

\* Time passes for the watchdog of the current launch.
Tick ==
    /\ current # 0 /\ children[current].busy /\ records[current].quiet < StallTicks
    /\ records' = [records EXCEPT ![current].quiet = @ + 1]
    /\ UNCHANGED <<children, current, launches, tokens, received, faults>>

Next ==
    \/ Receive \/ StartCommand \/ StopCommand \/ RestartCommand \/ ControlCommand \/ CancelTurn \/ Tick
    \/ \E g \in Launches :
        \/ Deliver(g) \/ ToolEvent(g) \/ Result(g) \/ Exit(g) \/ SpawnError(g) \/ Hang(g) \/ CloseStdin(g)
        \/ RestartTimer(g) \/ WarmupTimer(g) \/ Watch(g)

Spec == Init /\ [][Next]_vars

\* An exit that is bound to come: the child was told to, or its stdin is gone.
DueExit(g) == (children[g].signalled \/ ~children[g].writable) /\ Exit(g)

\* What happens to launch g without a command, a message, a fault or the watchdog.
Advance(g) == Result(g) \/ DueExit(g) \/ RestartTimer(g)

\* Time passes, the watchdog looks, the delivery chains run, and some launch that
\* can advance does: a working child comes to the end of its turn, and one that is
\* due exits.  Commands, faults and crashes need not happen.
Fairness ==
    /\ WF_vars(Tick) /\ WF_vars(\E g \in Launches : Watch(g))
    /\ WF_vars(\E g \in Launches : Deliver(g)) /\ WF_vars(\E g \in Launches : Advance(g))

FairSpec == Spec /\ Fairness

---------------------------------------------------------------------------
Turns == Messages \cup {None, WarmupTurn, ControlTurn}

ProcessTypeOK ==
    /\ children \in [Launches -> [state : {"none", "up", "lost", "exited"}, busy : BOOLEAN, turn : Turns,
                                  writable : BOOLEAN, stopping : BOOLEAN,
                                  signalled : BOOLEAN, hung : BOOLEAN]]
    /\ current \in 0 .. MaxLaunches
    /\ launches \in 0 .. MaxLaunches
    /\ tokens \subseteq Launches
    /\ faults \in 0 .. MaxFaults

\* The types of the variables.
TypeOK ==
    /\ ProcessTypeOK
    /\ DOMAIN records = Launches /\ \A g \in Launches : RecordTypeOK(records[g])
    /\ received \in 0 .. MaxMessages

\* The map of runtimes, the child processes and the proxy tokens agree, although
\* a stopped launch outlives its entry and the next one is already there: the
\* runtime in the map has a child whose exit was not seen and the only token, and
\* any other child that still runs has been told to end.
ChildrenAreOwned ==
    /\ tokens = {current} \ {0}
    /\ current # 0 => children[current].state \in {"up", "lost"}
    /\ \A g \in Launches : Up(g) /\ g # current => children[g].signalled

\* pendingActivityTurns of the daemon and pendingUserMessages of the driver are two
\* queues that are filled and emptied in different handlers; as long as every
\* prompt has a turn they hold the same messages.
BooksFollowQueue ==
    \A g \in Launches : ~records[g].skewed => records[g].turns = records[g].queue

\* The driver never sits on a prompt with a child that waits for one.
NothingWaitsOnIdleChild == \A g \in Launches : Idle(children[g]) => records[g].queue = <<>>

\* The run that is told to be active is the one the child works on, so that its
\* tool events and its outcome are those of its own turn.
RunIsTurn ==
    \A g \in Launches :
        Up(g) /\ ~records[g].skewed /\ records[g].run # None => children[g].turn = records[g].run

Waiting(g) == ToSet(records[g].chain) \cup ToSet(records[g].queue)

\* After the agent's own removal from a channel reached the driver, no prompt of
\* that channel from before it waits there any more; a prompt with a task may.
CutoffHolds ==
    \A g \in Launches : \A m \in Removals \cap ToSet(records[g].queue) :
        \A k \in ToSet(records[g].queue) : k < m => ~InChannelScope(k, ChannelOf[m])

\* A child gets the messages in the order in which the daemon received them: when
\* one starts, none from before it waits in the delivery chain or in the driver.
PromptsInOrder ==
    [][\A g \in Launches : \A m \in Messages :
        children'[g].turn = m /\ children[g].turn # m =>
            \A k \in Waiting(g)' : m < k]_vars

\* The reports of a task run, as the backend would like to see them.
Lifecycle == INSTANCE TaskRunLifecycle WITH
    Runs <- Launches \X TaskRuns, status <- [p \in Launches \X TaskRuns |-> records[p[1]].reported[p[2]]]

\* What is posted of a task run walks dispatched, running and one outcome, and
\* nothing follows the outcome: not from a tool event that comes late, a turn that
\* starts on a stopped launch, or the exit after a stop.
LifecycleSpec == Lifecycle!Spec

\* A message that waits is handed to the child sooner or later, unless its launch
\* leaves the map, or the child hangs or was never there.
EveryPromptStarts ==
    \A g \in Launches : \A m \in Messages :
        (current = g /\ m \in Waiting(g)) ~>
            (m \notin Waiting(g) \/ current # g \/ children[g].hung \/ children[g].state = "lost")

\* A run that a ready runtime works on gets an outcome, whether the turn ends, the
\* child exits or the runtime is stopped; only a hung child holds it back.
EveryRunEnds ==
    \A g \in Launches : \A m \in TaskRuns :
        (current = g /\ records[g].ready /\ records[g].run = m /\ children[g].turn = m) ~>
            (records[g].reported[m] \in Outcomes \/ children[g].hung)

\* A runtime that stalls is asked to cancel its turn, and "only then" terminated
\* (runtime-slock-integration.md:1433): the watchdog gets rid of a hung child.
HungIsReplaced ==
    (current # 0 /\ children[current].hung) ~> (current = 0 \/ ~children[current].hung)
=============================================================================
