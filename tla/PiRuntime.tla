----------------------------- MODULE PiRuntime -----------------------------
(***************************************************************************)
(* The runtime of one agent, run by the built-in Pi, together with the     *)
(* table of capacity leases that its turns need.  Pi has one child per     *)
(* turn: a prompt asks the backend for a lease until it has one, runs its  *)
(* child while a timer keeps the lease alive, and gives it back.  Every    *)
(* request goes through the daemon's proxy, which knows the launch by its  *)
(* token; the token is gone when the handler of a stop command ends, before *)
(* any request that this handler posted arrives.                           *)
(*                                                                         *)
(* A message is prompted once at most, so that it names its run as well.   *)
(* A restart command is a stop and a start with nothing between them.      *)
(***************************************************************************)
EXTENDS RuntimeRecord, FiniteSets

CONSTANTS
    Capacity,       \* pi_llm_max_active_runs
    LeaseTicks,     \* pi_llm_lease_seconds, in periods of the heartbeat timer
    MaxLaunches,    \* bound: launches of the runtime
    MaxFaults       \* bound: requests that fail, children that cannot be spawned

ASSUME PiRuntimeAssumption ==
    /\ Capacity \in Nat \ {0} /\ LeaseTicks \in Nat \ {0}
    /\ MaxLaunches \in Nat /\ MaxFaults \in Nat

Launches == 1 .. MaxLaunches

VARIABLES
    records,    \* the record of each launch
    drivers,    \* its driver
    calls,      \* preparePrompt and finishTurn of each message's run
    current,    \* the launch in the daemon's map of runtimes (0: none)
    launches,   \* how many there were
    tokens,     \* the launches whose proxy token is registered
    received,   \* how many messages came
    faults,     \* how many faults there were
    status, left, order, heartbeat, release     \* the leases: see LlmRunLeases

daemonVars == <<records, drivers, current, launches, tokens, received>>
leaseVars == <<status, left, order, heartbeat, release>>
vars == <<daemonVars, calls, faults, leaseVars>>

Leases == INSTANCE LlmRunLeases WITH Runs <- Messages, Abandoned <- {}

---------------------------------------------------------------------------
\* The fields of PiRuntimeDriver; a child and a run are named by their message.
NewDriver == [started |-> FALSE, stopping |-> FALSE, active |-> FALSE,  \* activeTurn
              child |-> None, run |-> None,                             \* activeRunId
              beat |-> None]                                            \* leaseHeartbeatTimer

\* Where preparePrompt is: an acquire is under way ("denied": without a token), its
\* answer is, it sleeps before it polls again, its child runs or was not spawned
\* ("lost").  ending is finishTurn with the outcome it was called with.
NoCall == [launch |-> 0, stage |-> "none", answer |-> "none", due |-> FALSE,
           ending |-> "none", outcome |-> "none"]

Init ==
    /\ records = [g \in Launches |-> Launched]
    /\ drivers = [g \in Launches |-> NewDriver]
    /\ calls = [m \in Messages |-> NoCall]
    /\ current = 0 /\ launches = 0 /\ tokens = {}
    /\ received = 0 /\ faults = 0
    /\ Leases!Init

\* One more fault.  Bound: MaxFaults.
Fault == faults < MaxFaults /\ faults' = faults + 1

\* What a handler of launch g works on: open says whether the proxy will know the
\* requests it posts, exited whether the daemon heard 'exit'.
Now(g) == [record |-> records[g], driver |-> drivers[g], calls |-> calls,
           open |-> g \in tokens, exited |-> FALSE]

Becomes(g, x) ==
    /\ records' = [records EXCEPT ![g] = x.record]
    /\ drivers' = [drivers EXCEPT ![g] = x.driver]
    /\ calls' = x.calls
    /\ current' = IF x.exited /\ current = g THEN 0 ELSE current
    /\ tokens' = IF x.exited THEN tokens \ {g} ELSE tokens

Running(d) == d.started /\ ~d.stopping

\* An acquire for the run of m is posted.
Ask(x, m) == [x EXCEPT !.calls[m].stage = IF x.open THEN "asking" ELSE "denied"]

\* preparePrompt up to its first await, for a driver that runs.
Prepare(x, g, m) ==
    Ask([x EXCEPT !.driver.active = TRUE, !.driver.run = m, !.calls[m].launch = g], m)

\* Mutant: the driver does not go on with its queue.
Settle_NoFlush(x, g, outcome) ==
    LET idle == [x EXCEPT !.driver.active = FALSE] IN
    IF outcome # "done"
    THEN [idle EXCEPT !.record = OnExit(@, outcome = "stopped"), !.exited = TRUE]
    ELSE idle

\* The end of finishTurn: 'exit', or the next prompt of the queue.  A queue that is
\* not empty belongs to a driver that runs.
Settle(x, g, outcome) ==
    LET idle == [x EXCEPT !.driver.active = FALSE] IN
    IF outcome # "done"
    THEN [idle EXCEPT !.record = OnExit(@, outcome = "stopped"), !.exited = TRUE]
    ELSE IF x.record.queue # <<>>
    THEN Prepare([idle EXCEPT !.record.queue = Tail(@)], g, Head(x.record.queue))
    ELSE idle

\* finishTurn up to its await: the release of the driver's run is posted, whatever
\* run that is; without one there is nothing to wait for.
Finish(x, g, outcome) ==
    LET run == x.driver.run
        quiet == [x EXCEPT !.driver.run = None, !.driver.beat = None] IN
    IF run = None THEN Settle(quiet, g, outcome)
    ELSE [quiet EXCEPT !.calls[run].ending = IF x.open THEN "posted" ELSE "denied",
                       !.calls[run].outcome = outcome]

\* preparePrompt of m ends without a child: the driver was stopped, or it failed.
GiveUp(x, g, m) == Finish([x EXCEPT !.calls[m].stage = "over"], g, "stopped")
Fail(x, g, m) == Finish([x EXCEPT !.calls[m].stage = "over", !.record = OnError(@)], g, "crashed")

---------------------------------------------------------------------------
\* A start command; it is ignored while a runtime is in the map.  Pi has no warmup:
\* its runtime is ready at once.  Bound: MaxLaunches.
StartCommand ==
    /\ current = 0 /\ launches < MaxLaunches
    /\ launches' = launches + 1
    /\ current' = launches + 1
    /\ records' = [records EXCEPT ![launches + 1] = MarkReady(@)]
    /\ drivers' = [drivers EXCEPT ![launches + 1].started = TRUE]
    /\ tokens' = tokens \cup {launches + 1}
    /\ UNCHANGED <<calls, received, faults, leaseVars>>

\* stopRuntimeForAgent and stop() of the driver: a child gets a signal, otherwise
\* the turn, if there is one, is finished here.
StopCommand ==
    LET x == [Now(current) EXCEPT
                !.record = [OnStop(@) EXCEPT !.queue = <<>>],
                !.driver.started = FALSE, !.driver.stopping = TRUE, !.open = FALSE]
    IN
    /\ current # 0
    /\ Becomes(current, [(IF x.driver.child = None /\ x.driver.active THEN Finish(x, current, "stopped") ELSE x)
                            EXCEPT !.exited = TRUE])
    /\ UNCHANGED <<launches, received, faults, leaseVars>>

\* deliverRuntimeMessage up to the delivery chain.  Bound: MaxMessages.
Receive ==
    /\ current # 0 /\ received < MaxMessages
    /\ received' = received + 1
    /\ records' = [records EXCEPT ![current].chain = Append(@, received + 1)]
    /\ UNCHANGED <<drivers, calls, current, launches, tokens, faults, leaseVars>>

\* deliverRuntimeMessageToDriver for the head of the chain; sendUserMessage starts a
\* driver that was stopped again.
Deliver(g) ==
    LET m == Head(records[g].chain)
        taken == [records[g] EXCEPT !.chain = Tail(@)]
        r == IF m \in Removals THEN CutOff(taken, ChannelOf[m]) ELSE taken
        d == IF drivers[g].started THEN drivers[g]
             ELSE [drivers[g] EXCEPT !.started = TRUE, !.stopping = FALSE]
    IN
    /\ records[g].chain # <<>>
    /\ Becomes(g, IF d.active THEN [Now(g) EXCEPT !.driver = d, !.record = DeliverQueued(r, m)]
                  ELSE Prepare([Now(g) EXCEPT !.driver = d, !.record = DeliverSent(r, m)], g, m))
    /\ UNCHANGED <<launches, received, faults, leaseVars>>

---------------------------------------------------------------------------
\* The backend handles an acquire that the proxy let through.
AcquireHandled(m) ==
    /\ calls[m].stage = "asking"
    /\ Leases!AcquireNew(m) \/ Leases!AcquireAgain(m)
    /\ calls' = [calls EXCEPT ![m].stage = "answered", ![m].answer = status'[m]]
    /\ UNCHANGED <<daemonVars, faults>>

\* The proxy does not know the token of an acquire, or no longer.
AcquireDenied(m) ==
    LET g == calls[m].launch IN
    /\ calls[m].stage = "denied" \/ (calls[m].stage = "asking" /\ g \notin tokens)
    /\ Becomes(g, Fail(Now(g), g, m))
    /\ UNCHANGED <<launches, received, faults, leaseVars>>

\* An acquire fails or times out, whether it was handled or not.
AcquireFails(m) ==
    LET g == calls[m].launch IN
    /\ Fault
    /\ calls[m].stage \in {"asking", "answered"}
    /\ Becomes(g, Fail(Now(g), g, m))
    /\ UNCHANGED <<launches, received, leaseVars>>

\* runPrompt: the heartbeat timer is set and the child spawned.
RunPrompt(x, m) ==
    [x EXCEPT !.record = OnMessageSent(@), !.calls[m].stage = "child",
              !.driver.child = m, !.driver.beat = m]

\* Mutant: a prompt runs whatever the answer is.
Answer_IsAlwaysYes(m) ==
    LET g == calls[m].launch IN
    /\ calls[m].stage = "answered"
    /\ Becomes(g, IF Running(drivers[g]) THEN RunPrompt(Now(g), m) ELSE GiveUp(Now(g), g, m))
    /\ UNCHANGED <<launches, received, faults, leaseVars>>

\* The driver has its answer.
Answer(m) ==
    LET g == calls[m].launch
        answer == calls[m].answer
    IN
    /\ calls[m].stage = "answered"
    /\ Becomes(g, IF answer = "waiting" THEN [Now(g) EXCEPT !.calls[m].stage = "sleeping"]
                  ELSE IF answer # "active" THEN Fail(Now(g), g, m)
                  ELSE IF Running(drivers[g]) THEN RunPrompt(Now(g), m)
                  ELSE GiveUp(Now(g), g, m))
    /\ UNCHANGED <<launches, received, faults, leaseVars>>

\* After its sleep the driver polls again, unless it was stopped.
Wake(m) ==
    LET g == calls[m].launch IN
    /\ calls[m].stage = "sleeping"
    /\ Becomes(g, IF Running(drivers[g]) THEN Ask(Now(g), m) ELSE GiveUp(Now(g), g, m))
    /\ UNCHANGED <<launches, received, faults, leaseVars>>

---------------------------------------------------------------------------
\* The child uses a tool or tells its result.
ChildEvent(m) ==
    LET g == calls[m].launch IN
    /\ calls[m].stage = "child"
    /\ \E r \in {OnToolEvent(records[g]), OnResult(records[g])} : records' = [records EXCEPT ![g] = r]
    /\ UNCHANGED <<drivers, calls, current, launches, tokens, received, faults, leaseVars>>

\* The child exits, by itself, by the signal of a stop command or killed by the
\* watchdog, as it likes; whether that was intended is a matter of the driver.
ChildExit(m) ==
    LET g == calls[m].launch
        x == [Now(g) EXCEPT !.calls[m].stage = "over",
                            !.driver.child = IF @ = m THEN None ELSE @]
    IN
    /\ calls[m].stage = "child"
    /\ \E outcome \in IF drivers[g].stopping THEN {"stopped"} ELSE {"done", "crashed"} :
        Becomes(g, Finish(x, g, outcome))
    /\ UNCHANGED <<launches, received, faults, leaseVars>>

\* The child could not be spawned: 'error' and no exit.
SpawnFails(m) ==
    LET g == calls[m].launch IN
    /\ Fault
    /\ calls[m].stage = "child"
    /\ Becomes(g, [Now(g) EXCEPT !.record = OnError(@), !.calls[m].stage = "lost"])
    /\ UNCHANGED <<launches, received, leaseVars>>

\* The heartbeat timer: the backend handles the request ...
HeartbeatSent(m) ==
    /\ calls[m].due /\ calls[m].launch \in tokens
    /\ Leases!HeartbeatRead(m)
    /\ calls' = [calls EXCEPT ![m].due = FALSE]
    /\ UNCHANGED <<daemonVars, faults>>

\* ... or it is denied by the proxy, refused by the backend, or fails.
HeartbeatLost(m) ==
    /\ calls[m].due
    /\ IF calls[m].launch \in tokens /\ status[m] = "active" /\ left[m] > 0 THEN Fault ELSE UNCHANGED faults
    /\ calls' = [calls EXCEPT ![m].due = FALSE]
    /\ UNCHANGED <<daemonVars, leaseVars>>

HeartbeatWrite(m) ==
    /\ Leases!HeartbeatWrite(m)
    /\ UNCHANGED <<daemonVars, calls, faults>>

---------------------------------------------------------------------------
\* The backend reads the row of a release that the proxy let through ...
ReleaseRead(m) ==
    /\ calls[m].ending = "posted"
    /\ Leases!ReleaseRead(m)
    /\ calls' = [calls EXCEPT ![m].ending = "handled"]
    /\ UNCHANGED <<daemonVars, faults>>

\* ... and ends the lease.
ReleaseWrite(m) ==
    /\ Leases!ReleaseWrite(m, IF calls[m].outcome = "crashed" THEN "failed" ELSE "released")
    /\ UNCHANGED <<daemonVars, calls, faults>>

\* finishTurn goes on after its await: the release was handled, it was denied or
\* there was no row to release (404), or it failed.
ReleaseReturns(m) ==
    LET g == calls[m].launch
        x == [Now(g) EXCEPT !.calls[m].ending = "over"]
        answered == \/ calls[m].ending = "handled" /\ release[m] = "none"
                    \/ calls[m].ending = "denied"
                    \/ calls[m].ending = "posted" /\ (g \notin tokens \/ status[m] = "none")
    IN
    /\ calls[m].ending \in {"posted", "denied", "handled"}
    /\ IF answered THEN UNCHANGED faults ELSE Fault
    /\ Becomes(g, Settle(x, g, calls[m].outcome))
    /\ UNCHANGED <<launches, received, leaseVars>>

\* A prompt of the launch in the map that has its lease and does not know it yet.
Overdue(m) ==
    /\ calls[m].launch = current /\ calls[m].stage \in {"asking", "answered", "sleeping"}
    /\ status[m] = "active" /\ left[m] < LeaseTicks

\* A period of the heartbeat timer (30 s).  A request takes 10 s at most, so that a
\* heartbeat is over before the next one is due, and a prompt, which polls every
\* 1.5 s, knows of its lease before a second period is over.
Tick ==
    /\ \A m \in Messages : ~calls[m].due /\ ~heartbeat[m].busy /\ ~Overdue(m)
    /\ Leases!Tick
    /\ calls' = [m \in Messages |->
                    [calls[m] EXCEPT !.due = \E g \in Launches : drivers[g].beat = m]]
    /\ UNCHANGED <<daemonVars, faults>>

Next ==
    \/ StartCommand \/ StopCommand \/ Receive \/ Tick
    \/ \E g \in Launches : Deliver(g)
    \/ \E m \in Messages :
        \/ AcquireHandled(m) \/ AcquireDenied(m) \/ AcquireFails(m) \/ Answer(m) \/ Wake(m)
        \/ ChildEvent(m) \/ ChildExit(m) \/ SpawnFails(m)
        \/ HeartbeatSent(m) \/ HeartbeatLost(m) \/ HeartbeatWrite(m)
        \/ ReleaseRead(m) \/ ReleaseWrite(m) \/ ReleaseReturns(m)

Spec == Init /\ [][Next]_vars

\* The clock runs, drivers poll, heartbeats are handled or refused, and everything
\* of which there are finitely many steps goes on: deliveries, denied requests,
\* releases, and the turns of the children, which the watchdog ends if nothing else
\* does.  Commands, messages and faults need not happen.
Fairness ==
    /\ WF_vars(Tick)
    /\ WF_vars(\E m \in Messages : AcquireHandled(m) \/ Answer(m) \/ Wake(m))
    /\ WF_vars(\E m \in Messages : HeartbeatSent(m) \/ HeartbeatLost(m) \/ HeartbeatWrite(m))
    /\ WF_vars(\/ \E g \in Launches : Deliver(g)
               \/ \E m \in Messages : \/ AcquireDenied(m) \/ ChildExit(m)
                                      \/ ReleaseRead(m) \/ ReleaseWrite(m) \/ ReleaseReturns(m))

FairSpec == Spec /\ Fairness

---------------------------------------------------------------------------
Calls == [launch : 0 .. MaxLaunches,
          stage : {"none", "asking", "denied", "answered", "sleeping", "child", "lost", "over"},
          answer : Leases!Statuses, due : BOOLEAN,
          ending : {"none", "posted", "denied", "handled", "over"},
          outcome : {"none", "done", "crashed", "stopped"}]

\* The types of the variables.
TypeOK ==
    /\ DOMAIN records = Launches /\ \A g \in Launches : RecordTypeOK(records[g])
    /\ drivers \in [Launches -> [started : BOOLEAN, stopping : BOOLEAN, active : BOOLEAN,
            child : Messages \cup {None}, run : Messages \cup {None}, beat : Messages \cup {None}]]
    /\ calls \in [Messages -> Calls]
    /\ {current, launches} \subseteq 0 .. MaxLaunches /\ tokens \subseteq Launches
    /\ received \in 0 .. MaxMessages /\ faults \in 0 .. MaxFaults
    /\ Leases!TypeOK

\* "Each full agent run/tool loop holds one capacity lease"
\* (runtime-slock-integration.md:745): while the child of a runtime in the map works
\* its lease is active, although the handlers of stopped launches, late
\* heartbeats and releases work on the same table, and although a heartbeat fails.
RunHoldsLease ==
    \A m \in Messages : calls[m].launch = current /\ calls[m].stage = "child" => status[m] = "active"

\* A message on its way to a child of launch g.
Pending(g, m) ==
    \/ m \in ToSet(records[g].chain) \cup ToSet(records[g].queue)
    \/ calls[m].launch = g /\ calls[m].stage \in {"asking", "denied", "answered", "sleeping"}

\* A message becomes a turn sooner or later, unless its launch leaves the map:
\* behind turns before it, and behind leases that stopped launches did not give
\* back.  Only a child that was not spawned holds the driver for ever.
EveryPromptStarts ==
    \A g \in Launches : \A m \in Messages :
        (current = g /\ Pending(g, m)) ~>
            (current # g \/ ~Pending(g, m) \/ \E k \in Messages : calls[k].stage = "lost")
=============================================================================
