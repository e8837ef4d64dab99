----------------------------- MODULE AcpRuntime -----------------------------
(***************************************************************************)
(* The runtime of one agent behind the Agent Client Protocol, as Codex and *)
(* Goose run: the driver starts a child when a prompt needs one, opens or  *)
(* loads a session, which takes a while, sends the prompt, and waits for   *)
(* its response.  Unlike Claude's, the driver hears of a prompt that       *)
(* failed, and goes on with the next one.  The daemon runs without         *)
(* --runtime-restart-on-crash here; ClaudeRuntime has the restart.         *)
(***************************************************************************)
EXTENDS RuntimeRecord, FiniteSets

CONSTANTS
    MaxLaunches,        \* bound: launches of the runtime
    MaxFaults,          \* bound: prompts that fail, children that hang or die
    WarmupTurn,         \* what a prompt is about that is no message
    ControlTurn

ASSUME AcpRuntimeAssumption ==
    /\ MaxLaunches \in Nat /\ MaxFaults \in Nat
    /\ {WarmupTurn, ControlTurn} \cap (Messages \cup {None}) = {}

Launches == 1 .. MaxLaunches
Turns == Messages \cup {WarmupTurn, ControlTurn}

\* A prompt waits for its session, or for its response, or is bound to be rejected.
Stages == {"session", "turn", "dead"}

VARIABLES
    records,    \* the record of each launch
    drivers,    \* its driver
    current,    \* the launch in the daemon's map of runtimes (0: none)
    launches,   \* how many there were
    tokens,     \* the launches whose proxy token is registered
    received,   \* how many messages and slash commands came
    faults      \* how many faults there were

vars == <<records, drivers, current, launches, tokens, received, faults>>

---------------------------------------------------------------------------
\* The fields of CodexAcpRuntimeDriver; bridge is "none", or one with a child
\* that is "up", whose connection is "broken", or that was told to end ("closed").
NewDriver == [started |-> FALSE, stopping |-> FALSE, exited |-> FALSE,
              bridge |-> "none", session |-> FALSE, hung |-> FALSE,
              active |-> FALSE,         \* activePrompt
              prompts |-> {}]           \* the calls of runPrompt that have not returned

Busy(d) == d.active \/ \E p \in d.prompts : p.stage = "session"

Init ==
    /\ records = [g \in Launches |-> Launched]
    /\ drivers = [g \in Launches |-> NewDriver]
    /\ current = 0
    /\ launches = 0
    /\ tokens = {}
    /\ received = 0
    /\ faults = 0

\* One more fault.  Bound: MaxFaults.
Fault == faults < MaxFaults /\ faults' = faults + 1

\* A prompt goes out; the daemon hears of it.
PromptSent(r, turn) == IF turn = ControlTurn THEN MarkProgress(r) ELSE OnMessageSent(r)

\* runPrompt and ensureSession up to what takes time: the prompt is sent at once
\* if its session is the open one, else a child is started, if there is none, and
\* the session opened.
RunPrompt(r, d, turn, opened) ==
    IF opened
    THEN [record |-> PromptSent(r, turn),
          driver |-> [d EXCEPT !.active = TRUE, !.prompts = @ \cup {[turn |-> turn, stage |-> "turn"]}]]
    ELSE [record |-> r,
          driver |-> [d EXCEPT !.active = TRUE, !.prompts = @ \cup {[turn |-> turn, stage |-> "session"]},
                               !.bridge = IF @ = "none" THEN "up" ELSE @]]

\* Whether the session of a prompt is the open one: only with a child and a session.
SessionOpen(d) == IF d.session /\ d.bridge # "none" THEN BOOLEAN ELSE {FALSE}

\* flushQueuedMessages.
Flush(r, d, opened) ==
    IF d.started /\ ~d.active /\ r.queue # <<>>
    THEN RunPrompt([r EXCEPT !.queue = Tail(@)], d, Head(r.queue), opened)
    ELSE [record |-> r, driver |-> d]

\* Launch g goes on with this record and driver.
Becomes(g, after) ==
    /\ records' = [records EXCEPT ![g] = after.record]
    /\ drivers' = [drivers EXCEPT ![g] = after.driver]

---------------------------------------------------------------------------
\* stop() of the driver: with a bridge, the exit comes later.
Stopped(d) == [d EXCEPT !.started = FALSE, !.stopping = TRUE,
                        !.bridge = IF @ = "none" THEN @ ELSE "closed"]

\* stopRuntimeForAgent; without a bridge 'exit' comes at once.
AfterStop(g) ==
    LET d == Stopped(drivers[g]) IN
    [record |-> OnStop(records[g]), driver |-> [d EXCEPT !.exited = @ \/ d.bridge = "none"]]

\* startRuntimeForAgent: the warmup prompt starts the first child.
LaunchOf(g) ==
    RunPrompt(Launched, [NewDriver EXCEPT !.started = TRUE], WarmupTurn, FALSE)

\* A start command; it is ignored while a runtime is in the map.  Bound: MaxLaunches.
StartCommand ==
    /\ current = 0 /\ launches < MaxLaunches
    /\ launches' = launches + 1
    /\ current' = launches + 1
    /\ Becomes(launches + 1, LaunchOf(launches + 1))
    /\ tokens' = tokens \cup {launches + 1}
    /\ UNCHANGED <<received, faults>>

\* A stop command.
StopCommand ==
    /\ current # 0
    /\ Becomes(current, AfterStop(current))
    /\ current' = 0
    /\ tokens' = tokens \ {current}
    /\ UNCHANGED <<launches, received, faults>>

\* A restart command: stop and start in one handler.
RestartCommand ==
    /\ current # 0 /\ launches < MaxLaunches
    /\ LET new == launches + 1 IN
        /\ launches' = new
        /\ current' = new
        /\ records' = [records EXCEPT ![current] = AfterStop(current).record, ![new] = LaunchOf(new).record]
        /\ drivers' = [drivers EXCEPT ![current] = AfterStop(current).driver, ![new] = LaunchOf(new).driver]
        /\ tokens' = (tokens \ {current}) \cup {new}
    /\ UNCHANGED <<received, faults>>

\* deliverRuntimeMessage up to the delivery chain.  Bound: MaxMessages.
Receive ==
    /\ current # 0 /\ received < MaxMessages
    /\ received' = received + 1
    /\ records' = [records EXCEPT ![current].chain = Append(@, received + 1)]
    /\ UNCHANGED <<drivers, current, launches, tokens, faults>>

\* Mutant: a prompt that waits for its session leaves the driver free.
Deliver_WhileStarting(g) ==
    LET m == Head(records[g].chain)
        d == drivers[g]
        taken == [records[g] EXCEPT !.chain = Tail(@)]
        r == IF m \in Removals THEN CutOff(taken, ChannelOf[m]) ELSE taken
    IN
    /\ records[g].chain # <<>>
    /\ \E opened \in SessionOpen(d) :
        Becomes(g, IF d.started /\ \A p \in d.prompts : p.stage = "session"
                   THEN RunPrompt(DeliverSent(r, m), d, m, opened)
                   ELSE Flush(DeliverQueued(r, m), d, opened))
    /\ UNCHANGED <<current, launches, tokens, received, faults>>

\* deliverRuntimeMessageToDriver for the head of the chain: sendUserMessage runs
\* the prompt of an idle driver, and queues any other.
Deliver(g) ==
    LET m == Head(records[g].chain)
        d == drivers[g]
        taken == [records[g] EXCEPT !.chain = Tail(@)]
        r == IF m \in Removals THEN CutOff(taken, ChannelOf[m]) ELSE taken
    IN
    /\ records[g].chain # <<>>
    /\ \E opened \in SessionOpen(d) :
        Becomes(g, IF d.started /\ ~Busy(d) THEN RunPrompt(DeliverSent(r, m), d, m, opened)
                   ELSE Flush(DeliverQueued(r, m), d, opened))
    /\ UNCHANGED <<current, launches, tokens, received, faults>>

\* executeRuntimeControlCommand: a slash command for an idle runtime.  Bound:
\* MaxMessages, for the messages and the commands together.
ControlCommand ==
    /\ current # 0 /\ received < MaxMessages
    /\ received' = received + 1
    /\ drivers[current].started /\ ~Busy(drivers[current])
    /\ \E opened \in SessionOpen(drivers[current]) :
        Becomes(current, RunPrompt(records[current], drivers[current], ControlTurn, opened))
    /\ UNCHANGED <<current, launches, tokens, faults>>

---------------------------------------------------------------------------
\* The child answers requests.
Answers(d) == d.bridge = "up" /\ ~d.hung

\* The session of a prompt is open: 'session' makes the runtime ready, and the
\* prompt is sent.
SessionOpened(g, p) ==
    LET d == drivers[g] IN
    /\ p \in d.prompts /\ p.stage = "session" /\ Answers(d)
    /\ Becomes(g,
        [record |-> PromptSent(MarkReady(MarkProgress(records[g])), p.turn),
         driver |-> [d EXCEPT !.session = TRUE,
                              !.prompts = (@ \ {p}) \cup {[p EXCEPT !.stage = "turn"]}]])
    /\ UNCHANGED <<current, launches, tokens, received, faults>>

\* The child uses a tool.
ToolEvent(g) ==
    /\ Answers(drivers[g]) /\ \E p \in drivers[g].prompts : p.stage = "turn"
    /\ Becomes(g, [record |-> OnToolEvent(records[g]), driver |-> drivers[g]])
    /\ UNCHANGED <<current, launches, tokens, received, faults>>

\* Mutant: the driver does not go on after a prompt.
Returned_NoFlush(g, p, r) ==
    Becomes(g, [record |-> r, driver |-> [drivers[g] EXCEPT !.active = FALSE, !.prompts = @ \ {p}]])

\* The end of runPrompt, whatever prompt is the active one by then.
Returned(g, p, r) ==
    LET d == [drivers[g] EXCEPT !.active = FALSE, !.prompts = @ \ {p}] IN
    \E opened \in SessionOpen(d) : Becomes(g, Flush(r, d, opened))

\* A prompt has its response.
Result(g, p) ==
    /\ p \in drivers[g].prompts /\ p.stage = "turn" /\ Answers(drivers[g])
    /\ Returned(g, p, OnResult(records[g]))
    /\ UNCHANGED <<current, launches, tokens, received, faults>>

\* A prompt is bound to be rejected: its connection is gone.
Doomed(d, p) == p.stage = "dead" \/ d.bridge \in {"broken", "closed"}

\* A prompt is rejected: the driver emits a result, too, before the error.
Rejected(g, p) ==
    /\ p \in drivers[g].prompts /\ Doomed(drivers[g], p)
    /\ Returned(g, p, OnError(OnResult(records[g])))
    /\ UNCHANGED <<current, launches, tokens, received, faults>>

\* A child that answers refuses the session or the prompt.
Refused(g, p) ==
    /\ Fault
    /\ p \in drivers[g].prompts /\ Answers(drivers[g]) /\ ~Doomed(drivers[g], p)
    /\ Returned(g, p, OnError(OnResult(records[g])))
    /\ UNCHANGED <<current, launches, tokens, received>>

---------------------------------------------------------------------------
\* Mutant: the driver does not remember that it reported its exit.
ExitReported_EachTime(g, r, d) ==
    /\ Becomes(g, [record |-> OnExit(r, d.stopping), driver |-> [d EXCEPT !.exited = TRUE]])
    /\ current' = 0
    /\ tokens' = tokens \ {g}
    /\ UNCHANGED <<launches, received>>

\* 'exit' of the driver reaches the daemon, once for each driver.
ExitReported(g, r, d) ==
    /\ Becomes(g, IF d.exited THEN [record |-> r, driver |-> d]
                  ELSE [record |-> OnExit(r, d.stopping), driver |-> [d EXCEPT !.exited = TRUE]])
    /\ current' = IF current = g /\ ~d.exited THEN 0 ELSE current
    /\ tokens' = IF d.exited THEN tokens ELSE tokens \ {g}
    /\ UNCHANGED <<launches, received>>

\* The child's stdout ends: requests are rejected before its exit is known.
ConnectionEnds(g) ==
    /\ Fault
    /\ drivers[g].bridge = "up"
    /\ drivers' = [drivers EXCEPT ![g].bridge = "broken"]
    /\ UNCHANGED <<records, current, launches, tokens, received>>

\* The child is gone, and with it the active prompt and the opening of a session.
Gone(d) ==
    [d EXCEPT !.bridge = "none", !.active = FALSE, !.hung = FALSE,
              !.prompts = {[p EXCEPT !.stage = "dead"] : p \in @}]

\* The child exits: because it was told to, behind its stdout, or all at once.
ChildExit(g) ==
    /\ drivers[g].bridge # "none"
    /\ IF drivers[g].bridge = "up" THEN Fault ELSE UNCHANGED faults
    /\ ExitReported(g, records[g], Gone(drivers[g]))

\* stop(0) of the bridge has returned: it does not wait for the child, as the stop()
\* of a stop command does.
StopReturned(g) ==
    /\ drivers[g].bridge = "closed" /\ ~drivers[g].stopping /\ ~drivers[g].exited
    /\ ExitReported(g, records[g], drivers[g])
    /\ UNCHANGED faults

\* The child neither answers nor exits any more.
Hang(g) ==
    /\ Fault
    /\ Answers(drivers[g]) /\ drivers[g].active
    /\ drivers' = [drivers EXCEPT ![g].hung = TRUE]
    /\ UNCHANGED <<records, current, launches, tokens, received>>

---------------------------------------------------------------------------
\* The warmup timer: a launch without a session is taken for ready.
WarmupTimer(g) ==
    /\ current = g /\ ~records[g].ready
    /\ records' = [records EXCEPT ![g] = MarkReady(@)]
    /\ UNCHANGED <<drivers, current, launches, tokens, received, faults>>

\* requestGracefulCancel has somebody to ask.
CanAsk(d) == d.bridge \in {"up", "broken"} /\ d.active /\ d.session

\* killUnresponsive.
Killed(d) == [d EXCEPT !.started = FALSE, !.stopping = FALSE,
                       !.bridge = IF @ = "none" THEN @ ELSE "closed"]

\* Mutant: the request to cancel counts as progress.
Watch_AskingIsProgress(g) ==
    /\ current = g /\ Busy(drivers[g]) /\ records[g].quiet = StallTicks
    /\ IF CanAsk(drivers[g]) /\ ~records[g].asked
       THEN /\ records' = [records EXCEPT ![g] = MarkProgress(@)]
            /\ UNCHANGED <<drivers, current, tokens, launches, received>>
       ELSE IF drivers[g].bridge = "none"
            THEN ExitReported(g, records[g], Killed(drivers[g]))
            ELSE /\ drivers' = [drivers EXCEPT ![g] = Killed(@)]
                 /\ UNCHANGED <<records, current, tokens, launches, received>>
    /\ UNCHANGED faults

\* The watchdog's timer: a busy driver without progress is asked to cancel its
\* turn, and when nothing came of that it is killed.
Watch(g) ==
    /\ current = g /\ Busy(drivers[g]) /\ records[g].quiet = StallTicks
    /\ IF CanAsk(drivers[g]) /\ ~records[g].asked
       THEN /\ records' = [records EXCEPT ![g].asked = TRUE]
            /\ UNCHANGED <<drivers, current, tokens, launches, received>>
       ELSE IF drivers[g].bridge = "none"
            THEN ExitReported(g, records[g], Killed(drivers[g]))
            ELSE /\ drivers' = [drivers EXCEPT ![g] = Killed(@)]
                 /\ UNCHANGED <<records, current, tokens, launches, received>>
    /\ UNCHANGED faults

\* Time passes for the watchdog of the current launch.
Tick ==
    /\ current # 0 /\ Busy(drivers[current]) /\ records[current].quiet < StallTicks
    /\ records' = [records EXCEPT ![current].quiet = @ + 1]
    /\ UNCHANGED <<drivers, current, launches, tokens, received, faults>>

Next ==
    \/ Receive \/ StartCommand \/ StopCommand \/ RestartCommand \/ ControlCommand \/ Tick
    \/ \E g \in Launches :
        \/ Deliver(g) \/ ToolEvent(g) \/ ConnectionEnds(g) \/ ChildExit(g) \/ StopReturned(g)
        \/ Hang(g) \/ WarmupTimer(g) \/ Watch(g)
        \/ \E p \in drivers[g].prompts :
            SessionOpened(g, p) \/ Result(g, p) \/ Rejected(g, p) \/ Refused(g, p)

Spec == Init /\ [][Next]_vars

\* A child whose connection ended exits, and one that was told to: a hung child only
\* by the SIGKILL of a stop command.
DueExit(g) ==
    /\ \/ drivers[g].bridge = "broken"
       \/ drivers[g].bridge = "closed" /\ (drivers[g].stopping \/ ~drivers[g].hung)
    /\ ChildExit(g)

\* What happens to launch g without a command, a message, a timer or a fault.
Advance(g) ==
    \/ StopReturned(g)
    \/ \E p \in drivers[g].prompts : SessionOpened(g, p) \/ Result(g, p) \/ Rejected(g, p)

\* The clock runs and the watchdog looks, the delivery chains run and a child that
\* is bound to exit does (both are finitely many steps), and some launch that can
\* advance does: a child that answers comes to an end, and a request without a
\* connection is rejected.  Commands and faults need not happen.
Fairness ==
    /\ WF_vars(Tick \/ \E g \in Launches : Watch(g))
    /\ WF_vars(\E g \in Launches : Deliver(g) \/ DueExit(g))
    /\ WF_vars(\E g \in Launches : Advance(g))

FairSpec == Spec /\ Fairness

---------------------------------------------------------------------------
\* The types of the variables.
TypeOK ==
    /\ DOMAIN records = Launches /\ \A g \in Launches : RecordTypeOK(records[g])
    /\ drivers \in [Launches -> [started : BOOLEAN, stopping : BOOLEAN, exited : BOOLEAN,
            bridge : {"none", "up", "broken", "closed"}, session : BOOLEAN, hung : BOOLEAN,
            active : BOOLEAN, prompts : SUBSET [turn : Turns, stage : Stages]]]
    /\ {current, launches} \subseteq 0 .. MaxLaunches
    /\ tokens \subseteq Launches
    /\ received \in 0 .. MaxMessages /\ faults \in 0 .. MaxFaults

\* The map of runtimes and the proxy tokens agree, and a runtime in the map is one
\* whose exit was not reported: although stop, kill, the exit of the child and the
\* return of stop() each report one, and the next launch may be there already.
MapFollowsExits ==
    /\ tokens = {current} \ {0}
    /\ \A g \in Launches : current = g => ~drivers[g].exited

\* Until the exit of a driver is reported, one prompt is out at a time, and
\* the driver remembers it; only without one may it be idle.
OnePromptAtATime ==
    \A g \in Launches : drivers[g].started /\ ~drivers[g].exited =>
        IF drivers[g].active THEN \E p \in drivers[g].prompts : drivers[g].prompts = {p}
                             ELSE drivers[g].prompts = {}

\* A driver without a prompt has nothing in its queue, unless it has been stopped.
NothingWaitsOnIdleDriver ==
    \A g \in Launches :
        drivers[g].started /\ ~drivers[g].exited /\ ~Busy(drivers[g]) => records[g].queue = <<>>

Waiting(g) == ToSet(records[g].chain) \cup ToSet(records[g].queue)

InWork(g, m) == \E p \in drivers[g].prompts : p.turn = m

\* Until the exit of a driver is reported, prompts go out in the order in which the
\* daemon received the messages.
PromptsInOrder ==
    [][\A g \in Launches : \A m \in Messages :
        ~drivers[g].exited /\ InWork(g, m)' /\ ~InWork(g, m) =>
            \A k \in Waiting(g)' : m < k]_vars

Lifecycle == INSTANCE TaskRunLifecycle WITH
    Runs <- Launches \X TaskRuns, status <- [p \in Launches \X TaskRuns |-> records[p[1]].reported[p[2]]]

\* What is posted of a task run never goes back: not when the driver emits a result
\* and an error for one prompt, nor when it goes on behind its exit.
LifecycleSpec == Lifecycle!Spec

\* The messages that wait become prompts sooner or later, unless their launch
\* leaves the map: also behind prompts that are refused and children that die.
EveryPromptStarts ==
    (current # 0 /\ Waiting(current) # {}) ~> (current = 0 \/ Waiting(current) = {})

\* A runtime whose child hangs leaves the map (runtime-slock-integration.md:1433).
HungIsRemoved ==
    (current # 0 /\ drivers[current].hung) ~> (current = 0 \/ ~drivers[current].hung)
=============================================================================
