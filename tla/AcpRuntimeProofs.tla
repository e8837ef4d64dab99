------------------------- MODULE AcpRuntimeProofs -------------------------
(* Theorems about AcpRuntime, for every number of messages, launches and   *)
(* faults and every assignment of tasks, channels and removals.  First the *)
(* one prompt of a launch, then the order in which prompts and reports go. *)
EXTENDS AcpRuntime, RuntimeRecordProofs

\* The fields of a driver.
DriverFields == DOMAIN NewDriver

OnePrompt(d) == IF d.active THEN \E p \in d.prompts : d.prompts = {p} ELSE d.prompts = {}

\* One launch: until its exit is reported it has one prompt at most, and nothing
\* waits behind none.
Sound(r, d) ==
    /\ DOMAIN r = RecordFields /\ DOMAIN d = DriverFields
    /\ d.started /\ ~d.exited => OnePrompt(d) /\ (~Busy(d) => r.queue = <<>>)

LaunchInv == \A g \in Launches : Sound(records[g], drivers[g])

FunctionsInv ==
    /\ records = [g \in Launches |-> records[g]] /\ drivers = [g \in Launches |-> drivers[g]]
    /\ current \in 0 .. MaxLaunches /\ launches \in 0 .. MaxLaunches

IInv == LaunchInv /\ FunctionsInv /\ MapFollowsExits

---------------------------------------------------------------------------
\* The fields of a driver, by name.
LEMMA FieldsOfDriver ==
    DriverFields = {"started", "stopping", "exited", "bridge", "session", "hung", "active", "prompts"}
  BY DEF DriverFields, NewDriver

\* Sending a prompt leaves the fields and the queue of the record alone.
LEMMA PromptSentFacts ==
    ASSUME NEW r, DOMAIN r = RecordFields, NEW turn
    PROVE  DOMAIN PromptSent(r, turn) = RecordFields /\ PromptSent(r, turn).queue = r.queue
  BY MarkFacts, MessageSentFacts DEF PromptSent, SameQueues

\* A prompt that is run becomes the only one.
LEMMA RunFacts ==
    ASSUME NEW r, DOMAIN r = RecordFields, NEW d, DOMAIN d = DriverFields,
           d.started /\ ~d.exited => d.prompts = {},
           NEW turn, NEW opened
    PROVE  LET after == RunPrompt(r, d, turn, opened) IN
           Sound(after.record, after.driver) /\ after.driver.exited = d.exited
  <1> DEFINE p == [turn |-> turn, stage |-> "turn"]
             s == [turn |-> turn, stage |-> "session"]
             d1 == [d EXCEPT !.active = TRUE, !.prompts = @ \cup {p}]
             d2 == [d EXCEPT !.active = TRUE, !.prompts = @ \cup {s},
                             !.bridge = IF @ = "none" THEN "up" ELSE @]
  <1>1. /\ DOMAIN d1 = DriverFields /\ d1.active = TRUE /\ d1.prompts = d.prompts \cup {p}
        /\ d1.started = d.started /\ d1.exited = d.exited
    BY FieldsOfDriver
  <1>2. /\ DOMAIN d2 = DriverFields /\ d2.active = TRUE /\ d2.prompts = d.prompts \cup {s}
        /\ d2.started = d.started /\ d2.exited = d.exited
    BY FieldsOfDriver
  <1>3. RunPrompt(r, d, turn, opened) =
            IF opened THEN [record |-> PromptSent(r, turn), driver |-> d1]
            ELSE [record |-> r, driver |-> d2]
    BY DEF RunPrompt
  <1> HIDE DEF d1, d2, p, s
  <1>4. Sound(PromptSent(r, turn), d1)
    BY <1>1, PromptSentFacts DEF Sound, OnePrompt, Busy
  <1>5. Sound(r, d2)
    BY <1>2 DEF Sound, OnePrompt, Busy
  <1> QED
    BY <1>1, <1>2, <1>3, <1>4, <1>5

\* After a flush nothing waits behind no prompt.
LEMMA FlushFacts ==
    ASSUME NEW r, DOMAIN r = RecordFields, NEW d, DOMAIN d = DriverFields,
           d.started /\ ~d.exited => OnePrompt(d),
           NEW opened
    PROVE  LET after == Flush(r, d, opened) IN
           Sound(after.record, after.driver) /\ after.driver.exited = d.exited
  <1> DEFINE rest == [r EXCEPT !.queue = Tail(@)]
  <1>1. CASE d.started /\ ~d.active /\ r.queue # <<>>
    <2>1. Flush(r, d, opened) = RunPrompt(rest, d, Head(r.queue), opened)
      BY <1>1 DEF Flush
    <2>2. DOMAIN rest = RecordFields
      OBVIOUS
    <2>3. d.started /\ ~d.exited => d.prompts = {}
      BY <1>1 DEF OnePrompt
    <2> HIDE DEF rest
    <2> QED
      BY <2>1, <2>2, <2>3, RunFacts
  <1>2. CASE ~(d.started /\ ~d.active /\ r.queue # <<>>)
    <2>1. Flush(r, d, opened) = [record |-> r, driver |-> d]
      BY <1>2 DEF Flush
    <2>2. Sound(r, d)
      BY <1>2 DEF Sound, Busy
    <2> QED
      BY <2>1, <2>2
  <1> QED
    BY <1>1, <1>2

\* A driver that is stopped, killed or gone for good.
LEMMA StoppedDriver ==
    ASSUME NEW d, DOMAIN d = DriverFields
    PROVE  /\ DOMAIN Stopped(d) = DriverFields /\ Stopped(d).started = FALSE
           /\ Stopped(d).exited = d.exited
           /\ DOMAIN Killed(d) = DriverFields /\ Killed(d).started = FALSE
           /\ Killed(d).exited = d.exited
           /\ DOMAIN Gone(d) = DriverFields /\ Gone(d).exited = d.exited
  <1>1. DOMAIN Stopped(d) = DriverFields /\ Stopped(d).started = FALSE /\ Stopped(d).exited = d.exited
    BY FieldsOfDriver DEF Stopped
  <1>2. DOMAIN Killed(d) = DriverFields /\ Killed(d).started = FALSE /\ Killed(d).exited = d.exited
    BY FieldsOfDriver DEF Killed
  <1>3. DOMAIN Gone(d) = DriverFields /\ Gone(d).exited = d.exited
    BY FieldsOfDriver DEF Gone
  <1> QED
    BY <1>1, <1>2, <1>3

\* What stop leaves of a launch is sound.
LEMMA AfterStopFacts ==
    ASSUME LaunchInv, NEW g \in Launches
    PROVE  Sound(AfterStop(g).record, AfterStop(g).driver)
  <1> DEFINE d == Stopped(drivers[g])
             e == [d EXCEPT !.exited = @ \/ d.bridge = "none"]
  <1>1. DOMAIN records[g] = RecordFields /\ DOMAIN drivers[g] = DriverFields
    BY DEF LaunchInv, Sound
  <1>2. DOMAIN d = DriverFields /\ d.started = FALSE
    BY <1>1, StoppedDriver
  <1> HIDE DEF d
  <1>3. DOMAIN e = DriverFields /\ e.started = FALSE
    BY <1>2, FieldsOfDriver
  <1>4. DOMAIN OnStop(records[g]) = RecordFields
    BY <1>1, StopFacts DEF SameQueues
  <1>5. AfterStop(g) = [record |-> OnStop(records[g]), driver |-> e]
    BY DEF AfterStop, d
  <1> HIDE DEF e
  <1>6. Sound(OnStop(records[g]), e)
    BY <1>3, <1>4 DEF Sound
  <1> QED
    BY <1>5, <1>6

\* A new launch is sound and has not exited.
LEMMA LaunchOfFacts ==
    ASSUME NEW g
    PROVE  Sound(LaunchOf(g).record, LaunchOf(g).driver) /\ LaunchOf(g).driver.exited = FALSE
  <1> DEFINE d == [NewDriver EXCEPT !.started = TRUE]
  <1>1. DOMAIN d = DriverFields /\ d.prompts = {} /\ d.exited = FALSE
    BY DEF DriverFields, NewDriver
  <1> HIDE DEF d
  <1>2. LaunchOf(g) = RunPrompt(Launched, d, WarmupTurn, FALSE)
    BY DEF LaunchOf, d
  <1>3. DOMAIN Launched = RecordFields
    BY DEF RecordFields
  <1>a. d.started /\ ~d.exited => d.prompts = {}
    BY <1>1
  <1>b. ASSUME NEW opened
        PROVE  LET after == RunPrompt(Launched, d, WarmupTurn, opened) IN
               Sound(after.record, after.driver) /\ after.driver.exited = d.exited
    BY <1>1, <1>3, <1>a, RunFacts
  <1>4. LET after == RunPrompt(Launched, d, WarmupTurn, FALSE) IN
        Sound(after.record, after.driver) /\ after.driver.exited = d.exited
    BY <1>b
  <1> DEFINE after == RunPrompt(Launched, d, WarmupTurn, FALSE)
  <1>5. Sound(after.record, after.driver) /\ after.driver.exited = FALSE
    BY <1>1, <1>4
  <1> HIDE DEF after
  <1>6. LaunchOf(g) = after
    BY <1>2 DEF after
  <1> QED
    BY <1>5, <1>6

---------------------------------------------------------------------------
\* A handler of one launch that keeps it sound and reports no exit.
LEMMA LocalStep ==
    ASSUME IInv, NEW g \in Launches, NEW r, NEW d, Sound(r, d),
           records' = [records EXCEPT ![g] = r], drivers' = [drivers EXCEPT ![g] = d],
           d.exited = drivers[g].exited,
           UNCHANGED <<current, launches, tokens>>
    PROVE  IInv'
  <1>1. \A h \in Launches : /\ records'[h] = IF h = g THEN r ELSE records[h]
                            /\ drivers'[h] = IF h = g THEN d ELSE drivers[h]
    BY DEF IInv, FunctionsInv
  <1>2. LaunchInv'
    BY <1>1 DEF IInv, LaunchInv
  <1>3. FunctionsInv'
    BY DEF IInv, FunctionsInv
  <1>4. MapFollowsExits'
    BY <1>1 DEF IInv, MapFollowsExits
  <1> QED
    BY <1>2, <1>3, <1>4 DEF IInv

\* The exit of a driver.
LEMMA ExitStep ==
    ASSUME IInv, NEW g \in Launches, NEW r, NEW d,
           DOMAIN r = RecordFields, DOMAIN d = DriverFields, d.exited = drivers[g].exited,
           ExitReported(g, r, d)
    PROVE  IInv'
  <1>1. CASE d.exited
    <2>1. /\ records' = [records EXCEPT ![g] = r] /\ drivers' = [drivers EXCEPT ![g] = d]
          /\ UNCHANGED <<current, launches, tokens>>
      BY <1>1 DEF ExitReported, Becomes
    <2>2. Sound(r, d)
      BY <1>1 DEF Sound
    <2> QED
      BY <2>1, <2>2, LocalStep
  <1>2. CASE ~d.exited
    <2> DEFINE q == OnExit(r, d.stopping)
               e == [d EXCEPT !.exited = TRUE]
    <2>1. /\ records' = [records EXCEPT ![g] = q] /\ drivers' = [drivers EXCEPT ![g] = e]
          /\ current' = IF current = g THEN 0 ELSE current
          /\ tokens' = tokens \ {g} /\ launches' = launches
      BY <1>2 DEF ExitReported, Becomes
    <2>2. DOMAIN q = RecordFields
      BY ExitFacts DEF SameQueues
    <2>3. DOMAIN e = DriverFields /\ e.exited = TRUE
      BY FieldsOfDriver
    <2> HIDE DEF q, e
    <2>4. Sound(q, e)
      BY <2>2, <2>3 DEF Sound
    <2>5. \A h \in Launches : /\ records'[h] = IF h = g THEN q ELSE records[h]
                              /\ drivers'[h] = IF h = g THEN e ELSE drivers[h]
      BY <2>1 DEF IInv, FunctionsInv
    <2>6. LaunchInv'
      BY <2>4, <2>5 DEF IInv, LaunchInv
    <2>8. g # 0 /\ 0 \in 0 .. MaxLaunches
      BY AcpRuntimeAssumption DEF AcpRuntimeAssumption, Launches
    <2>7. FunctionsInv'
      <3>1. current' \in 0 .. MaxLaunches /\ launches' \in 0 .. MaxLaunches
        BY <2>1, <2>8 DEF IInv, FunctionsInv
      <3>2. records' = [h \in Launches |-> records'[h]] /\ drivers' = [h \in Launches |-> drivers'[h]]
        BY <2>1 DEF IInv, FunctionsInv
      <3> QED
        BY <3>1, <3>2 DEF FunctionsInv
    <2>9. MapFollowsExits'
      <3>1. tokens' = {current'} \ {0}
        BY <2>1, <2>8 DEF IInv, MapFollowsExits
      <3>2. ASSUME NEW h \in Launches, current' = h PROVE ~drivers'[h].exited
        <4>0. h # 0
          BY DEF Launches
        <4>1. h # g /\ current = h
          BY <2>1, <2>8, <3>2, <4>0
        <4>2. drivers'[h] = drivers[h]
          BY <4>1, <2>5
        <4> QED
          BY <4>1, <4>2 DEF IInv, MapFollowsExits
      <3> QED
        BY <3>1, <3>2 DEF MapFollowsExits
    <2> QED
      BY <2>6, <2>7, <2>9 DEF IInv
  <1> QED
    BY <1>1, <1>2

\* A launch begins, and no other one is in the map.
LEMMA LaunchStep ==
    ASSUME IInv, launches < MaxLaunches,
           launches' = launches + 1, current' = launches + 1, tokens' = {launches + 1},
           NEW recs, NEW drvs, recs = [g \in Launches |-> recs[g]], drvs = [g \in Launches |-> drvs[g]],
           \A g \in Launches : Sound(recs[g], drvs[g]),
           records' = [recs EXCEPT ![launches + 1] = LaunchOf(launches + 1).record],
           drivers' = [drvs EXCEPT ![launches + 1] = LaunchOf(launches + 1).driver]
    PROVE  IInv'
  <1> DEFINE new == launches + 1
             r == LaunchOf(new).record
             d == LaunchOf(new).driver
  <1>1. new \in Launches /\ new \in 0 .. MaxLaunches /\ new # 0
    BY AcpRuntimeAssumption DEF AcpRuntimeAssumption, IInv, FunctionsInv, Launches
  <1>2. /\ records' = [recs EXCEPT ![new] = r] /\ drivers' = [drvs EXCEPT ![new] = d]
        /\ current' = new /\ tokens' = {new} /\ launches' = new
    OBVIOUS
  <1>3. Sound(r, d) /\ d.exited = FALSE
    BY LaunchOfFacts
  <1> HIDE DEF new, r, d
  <1>4. \A h \in Launches : /\ records'[h] = IF h = new THEN r ELSE recs[h]
                            /\ drivers'[h] = IF h = new THEN d ELSE drvs[h]
    BY <1>2
  <1>5. LaunchInv'
    BY <1>3, <1>4 DEF LaunchInv
  <1>6. FunctionsInv'
    BY <1>1, <1>2 DEF FunctionsInv
  <1>7. MapFollowsExits'
    BY <1>1, <1>2, <1>3, <1>4 DEF MapFollowsExits
  <1> QED
    BY <1>5, <1>6, <1>7 DEF IInv

\* A handler that leaves the queue and the driver.
LEMMA RecordStep ==
    ASSUME IInv, NEW g \in Launches, NEW r, DOMAIN r = RecordFields, r.queue = records[g].queue,
           records' = [records EXCEPT ![g] = r], drivers' = drivers,
           UNCHANGED <<current, launches, tokens>>
    PROVE  IInv'
  <1>1. Sound(r, drivers[g])
    BY DEF IInv, LaunchInv, Sound
  <1>2. drivers' = [drivers EXCEPT ![g] = drivers[g]]
    BY DEF IInv, FunctionsInv
  <1> QED
    BY <1>1, <1>2, LocalStep

\* What befalls a driver besides prompts and its exit.
LEMMA DriverStep ==
    ASSUME IInv, NEW g \in Launches, NEW d, DOMAIN d = DriverFields, d.exited = drivers[g].exited,
           d.started => drivers[g].started /\ d.active = drivers[g].active
                                          /\ d.prompts = drivers[g].prompts,
           drivers' = [drivers EXCEPT ![g] = d], records' = records,
           UNCHANGED <<current, launches, tokens>>
    PROVE  IInv'
  <1>1. Sound(records[g], d)
    BY DEF IInv, LaunchInv, Sound, OnePrompt, Busy
  <1>2. records' = [records EXCEPT ![g] = records[g]]
    BY DEF IInv, FunctionsInv
  <1> QED
    BY <1>1, <1>2, LocalStep

\* Launch g goes on with a sound record and driver.
LEMMA BecomesStep ==
    ASSUME IInv, NEW g \in Launches, NEW after, Becomes(g, after),
           Sound(after.record, after.driver), after.driver.exited = drivers[g].exited,
           UNCHANGED <<current, launches, tokens>>
    PROVE  IInv'
  BY LocalStep DEF Becomes

\* The end of a prompt, whatever the daemon makes of it.
LEMMA ReturnedStep ==
    ASSUME IInv, NEW g \in Launches, NEW p \in drivers[g].prompts, NEW q, DOMAIN q = RecordFields,
           Returned(g, p, q), UNCHANGED <<current, launches, tokens>>
    PROVE  IInv'
  <1> DEFINE d == [drivers[g] EXCEPT !.active = FALSE, !.prompts = @ \ {p}]
  <1>1. PICK opened \in SessionOpen(d) : Becomes(g, Flush(q, d, opened))
    BY DEF Returned
  <1>2. Sound(records[g], drivers[g])
    BY DEF IInv, LaunchInv
  <1>a. /\ DOMAIN d = DriverFields /\ d.active = FALSE /\ d.prompts = drivers[g].prompts \ {p}
        /\ d.started = drivers[g].started /\ d.exited = drivers[g].exited
    BY <1>2, FieldsOfDriver DEF Sound
  <1> HIDE DEF d
  <1>b. d.started /\ ~d.exited => OnePrompt(d)
    BY <1>2, <1>a DEF Sound, OnePrompt
  <1>3. LET after == Flush(q, d, opened) IN
        Sound(after.record, after.driver) /\ after.driver.exited = d.exited
    BY <1>a, <1>b, FlushFacts
  <1> DEFINE after == Flush(q, d, opened)
  <1>4. Becomes(g, after) /\ Sound(after.record, after.driver)
        /\ after.driver.exited = drivers[g].exited
    BY <1>1, <1>3, <1>a
  <1> HIDE DEF after
  <1> QED
    BY <1>4, BecomesStep

\* A delivery is sent, or it waits in the queue.
LEMMA DeliverStep == ASSUME IInv, NEW g \in Launches, Deliver(g) PROVE IInv'
  <1> DEFINE m == Head(records[g].chain)
             d == drivers[g]
             taken == [records[g] EXCEPT !.chain = Tail(@)]
             r == IF m \in Removals THEN CutOff(taken, ChannelOf[m]) ELSE taken
  <1>1. PICK opened \in SessionOpen(d) :
            Becomes(g, IF d.started /\ ~Busy(d) THEN RunPrompt(DeliverSent(r, m), d, m, opened)
                       ELSE Flush(DeliverQueued(r, m), d, opened))
    BY DEF Deliver
  <1>2. UNCHANGED <<current, launches, tokens>>
    BY DEF Deliver
  <1>3. Sound(records[g], drivers[g])
    BY DEF IInv, LaunchInv
  <1>4. DOMAIN taken = RecordFields
    BY <1>3 DEF Sound
  <1> HIDE DEF taken, m
  <1>5. DOMAIN r = RecordFields
    BY <1>4, DeliveryFields
  <1> HIDE DEF r
  <1>6. DOMAIN DeliverSent(r, m) = RecordFields /\ DOMAIN DeliverQueued(r, m) = RecordFields
    BY <1>5, DeliveryFields
  <1>7. CASE d.started /\ ~Busy(d)
    <2> DEFINE after == RunPrompt(DeliverSent(r, m), d, m, opened)
    <2>1. d.started /\ ~d.exited => d.prompts = {}
      BY <1>3, <1>7 DEF Sound, OnePrompt, Busy
    <2>2. DOMAIN d = DriverFields
      BY <1>3 DEF Sound
    <2>3. Sound(after.record, after.driver) /\ after.driver.exited = d.exited
      BY <1>6, <2>1, <2>2, RunFacts
    <2>4. Becomes(g, after)
      BY <1>1, <1>7
    <2> HIDE DEF after
    <2> QED
      BY <1>2, <2>3, <2>4, BecomesStep
  <1>8. CASE ~(d.started /\ ~Busy(d))
    <2> DEFINE after == Flush(DeliverQueued(r, m), d, opened)
    <2>1. d.started /\ ~d.exited => OnePrompt(d)
      BY <1>3 DEF Sound
    <2>2. DOMAIN d = DriverFields
      BY <1>3 DEF Sound
    <2>3. Sound(after.record, after.driver) /\ after.driver.exited = d.exited
      BY <1>6, <2>1, <2>2, FlushFacts
    <2>4. Becomes(g, after)
      BY <1>1, <1>8
    <2> HIDE DEF after
    <2> QED
      BY <1>2, <2>3, <2>4, BecomesStep
  <1> QED
    BY <1>7, <1>8

\* The session of the prompt is open, and it goes on as the only one.
LEMMA SessionStep ==
    ASSUME IInv, NEW g \in Launches, NEW p \in drivers[g].prompts, SessionOpened(g, p)
    PROVE  IInv'
  <1> DEFINE q == MarkReady(MarkProgress(records[g]))
             r == PromptSent(q, p.turn)
             x == [p EXCEPT !.stage = "turn"]
             d == [drivers[g] EXCEPT !.session = TRUE, !.prompts = (@ \ {p}) \cup {x}]
  <1>1. records' = [records EXCEPT ![g] = r] /\ drivers' = [drivers EXCEPT ![g] = d]
        /\ UNCHANGED <<current, launches, tokens>>
    BY DEF SessionOpened, Becomes
  <1>2. Sound(records[g], drivers[g])
    BY DEF IInv, LaunchInv
  <1>3. DOMAIN q = RecordFields /\ q.queue = records[g].queue
    <2>1. DOMAIN MarkProgress(records[g]) = RecordFields
          /\ MarkProgress(records[g]).queue = records[g].queue
      BY <1>2, MarkFacts DEF Sound, SameQueues
    <2> QED
      BY <2>1, MarkFacts DEF SameQueues
  <1> HIDE DEF q
  <1>4. DOMAIN r = RecordFields /\ r.queue = records[g].queue
    BY <1>3, PromptSentFacts
  <1> HIDE DEF r, x
  <1>5. /\ DOMAIN d = DriverFields /\ d.started = drivers[g].started /\ d.exited = drivers[g].exited
        /\ d.active = drivers[g].active /\ d.prompts = (drivers[g].prompts \ {p}) \cup {x}
    BY <1>2, FieldsOfDriver DEF Sound
  <1> HIDE DEF d
  <1>6. d.started /\ ~d.exited => d.active /\ d.prompts = {x}
    BY <1>2, <1>5 DEF Sound, OnePrompt
  <1>7. Sound(r, d)
    BY <1>2, <1>4, <1>5, <1>6 DEF Sound, OnePrompt, Busy
  <1> QED
    BY <1>1, <1>5, <1>7, LocalStep

\* A stop takes the runtime out of the map.
LEMMA StopStep == ASSUME IInv, StopCommand PROVE IInv'
  <1> DEFINE r == AfterStop(current).record
             d == AfterStop(current).driver
  <1>1. current \in Launches
    BY AcpRuntimeAssumption DEF AcpRuntimeAssumption, IInv, FunctionsInv, Launches, StopCommand
  <1>2. Sound(r, d)
    BY <1>1, AfterStopFacts DEF IInv
  <1>3. /\ records' = [records EXCEPT ![current] = r] /\ drivers' = [drivers EXCEPT ![current] = d]
        /\ current' = 0 /\ tokens' = tokens \ {current} /\ launches' = launches
    BY DEF StopCommand, Becomes
  <1> HIDE DEF r, d
  <1>4. \A h \in Launches : /\ records'[h] = IF h = current THEN r ELSE records[h]
                            /\ drivers'[h] = IF h = current THEN d ELSE drivers[h]
    BY <1>1, <1>3 DEF IInv, FunctionsInv
  <1>5. LaunchInv'
    BY <1>2, <1>4 DEF IInv, LaunchInv
  <1>6. 0 \in 0 .. MaxLaunches /\ \A h \in Launches : h # 0
    BY AcpRuntimeAssumption DEF AcpRuntimeAssumption, Launches
  <1>7. FunctionsInv'
    <2>1. records' = [h \in Launches |-> records'[h]] /\ drivers' = [h \in Launches |-> drivers'[h]]
      BY <1>3 DEF IInv, FunctionsInv
    <2> QED
      BY <1>3, <1>6, <2>1 DEF IInv, FunctionsInv
  <1>8. MapFollowsExits'
    BY <1>3, <1>6 DEF IInv, MapFollowsExits
  <1> QED
    BY <1>5, <1>7, <1>8 DEF IInv

\* A restart stops one launch and begins the next.
LEMMA RestartStep == ASSUME IInv, RestartCommand PROVE IInv'
  <1> DEFINE new == launches + 1
             r == AfterStop(current).record
             d == AfterStop(current).driver
             recs == [records EXCEPT ![current] = r]
             drvs == [drivers EXCEPT ![current] = d]
  <1>1. current \in Launches /\ launches < MaxLaunches /\ launches' = new /\ current' = new
    BY AcpRuntimeAssumption DEF AcpRuntimeAssumption, IInv, FunctionsInv, Launches, RestartCommand
  <1>2. Sound(r, d)
    BY <1>1, AfterStopFacts DEF IInv
  <1>3. /\ records' = [records EXCEPT ![current] = r, ![new] = LaunchOf(new).record]
        /\ drivers' = [drivers EXCEPT ![current] = d, ![new] = LaunchOf(new).driver]
        /\ tokens' = (tokens \ {current}) \cup {new}
    BY DEF RestartCommand
  <1> HIDE DEF r, d
  <1>4. /\ recs = [h \in Launches |-> recs[h]] /\ drvs = [h \in Launches |-> drvs[h]]
        /\ \A h \in Launches : /\ recs[h] = IF h = current THEN r ELSE records[h]
                               /\ drvs[h] = IF h = current THEN d ELSE drivers[h]
    BY <1>1 DEF IInv, FunctionsInv
  <1>5. \A h \in Launches : Sound(recs[h], drvs[h])
    <2> HIDE DEF recs, drvs
    <2> QED
      BY <1>2, <1>4 DEF IInv, LaunchInv
  <1>6. tokens' = {new}
    BY <1>3 DEF IInv, MapFollowsExits
  <1>7. /\ records' = [recs EXCEPT ![new] = LaunchOf(new).record]
        /\ drivers' = [drvs EXCEPT ![new] = LaunchOf(new).driver]
    BY <1>3
  <1> HIDE DEF recs, drvs
  <1> QED
    BY <1>1, <1>4, <1>5, <1>6, <1>7, LaunchStep

---------------------------------------------------------------------------
\* Every step keeps the invariant.
LEMMA StepIInv == ASSUME IInv, [Next]_vars PROVE IInv'
  <1>s. ASSUME NEW g \in Launches
        PROVE  /\ Sound(records[g], drivers[g])
               /\ DOMAIN records[g] = RecordFields /\ DOMAIN drivers[g] = DriverFields
    BY DEF IInv, LaunchInv, Sound
  <1>c. ASSUME current # 0 PROVE current \in Launches
    BY <1>c, AcpRuntimeAssumption DEF AcpRuntimeAssumption, IInv, FunctionsInv, Launches
  <1>1. CASE Receive
    <2> DEFINE r == [records[current] EXCEPT !.chain = Append(@, received + 1)]
    <2>1. current \in Launches
      BY <1>1, <1>c DEF Receive
    <2>2. DOMAIN r = RecordFields /\ r.queue = records[current].queue
      BY <1>s, <2>1, FieldsOfRecord
    <2>3. /\ records' = [records EXCEPT ![current] = r] /\ drivers' = drivers
          /\ UNCHANGED <<current, launches, tokens>>
      BY <1>1 DEF Receive
    <2> HIDE DEF r
    <2> QED
      BY <2>1, <2>2, <2>3, RecordStep
  <1>2. CASE StartCommand
    <2>1. /\ records = [g \in Launches |-> records[g]] /\ drivers = [g \in Launches |-> drivers[g]]
          /\ \A g \in Launches : Sound(records[g], drivers[g])
      BY DEF IInv, FunctionsInv, LaunchInv
    <2>2. /\ launches < MaxLaunches /\ launches' = launches + 1 /\ current' = launches + 1
          /\ records' = [records EXCEPT ![launches + 1] = LaunchOf(launches + 1).record]
          /\ drivers' = [drivers EXCEPT ![launches + 1] = LaunchOf(launches + 1).driver]
      BY <1>2 DEF StartCommand, Becomes
    <2>3. tokens' = {launches + 1}
      BY <1>2 DEF StartCommand, IInv, MapFollowsExits
    <2> QED
      BY <2>1, <2>2, <2>3, LaunchStep
  <1>3. CASE StopCommand
    BY <1>3, StopStep
  <1>4. CASE RestartCommand
    BY <1>4, RestartStep
  <1>5. CASE ControlCommand
    <2>1. current \in Launches
      BY <1>5, <1>c DEF ControlCommand
    <2>2. PICK opened \in SessionOpen(drivers[current]) :
              Becomes(current, RunPrompt(records[current], drivers[current], ControlTurn, opened))
      BY <1>5 DEF ControlCommand
    <2> DEFINE d == drivers[current]
               after == RunPrompt(records[current], d, ControlTurn, opened)
    <2>3. d.started /\ ~d.exited => d.prompts = {}
      BY <1>5, <1>s, <2>1 DEF ControlCommand, Sound, OnePrompt, Busy
    <2>4. Sound(after.record, after.driver) /\ after.driver.exited = d.exited
      BY <1>s, <2>1, <2>3, RunFacts
    <2>5. Becomes(current, after) /\ UNCHANGED <<current, launches, tokens>>
      BY <1>5, <2>2 DEF ControlCommand
    <2> HIDE DEF after
    <2> QED
      BY <2>1, <2>4, <2>5, BecomesStep
  <1>6. CASE Tick
    <2> DEFINE r == [records[current] EXCEPT !.quiet = @ + 1]
    <2>1. current \in Launches
      BY <1>6, <1>c DEF Tick
    <2>2. DOMAIN r = RecordFields /\ r.queue = records[current].queue
      BY <1>s, <2>1, FieldsOfRecord
    <2>3. /\ records' = [records EXCEPT ![current] = r] /\ drivers' = drivers
          /\ UNCHANGED <<current, launches, tokens>>
      BY <1>6 DEF Tick
    <2> HIDE DEF r
    <2> QED
      BY <2>1, <2>2, <2>3, RecordStep
  <1>7. ASSUME NEW g \in Launches, Deliver(g) PROVE IInv'
    BY <1>7, DeliverStep
  <1>8. ASSUME NEW g \in Launches, ToolEvent(g) PROVE IInv'
    <2> DEFINE after == [record |-> OnToolEvent(records[g]), driver |-> drivers[g]]
    <2>1. DOMAIN after.record = RecordFields /\ after.record.queue = records[g].queue
      BY <1>s, ToolEventFacts DEF SameQueues
    <2>2. Sound(after.record, after.driver) /\ after.driver.exited = drivers[g].exited
      BY <1>s, <2>1 DEF Sound
    <2>3. Becomes(g, after) /\ UNCHANGED <<current, launches, tokens>>
      BY <1>8 DEF ToolEvent
    <2> HIDE DEF after
    <2> QED
      BY <2>2, <2>3, BecomesStep
  <1>9. ASSUME NEW g \in Launches, ConnectionEnds(g) PROVE IInv'
    <2> DEFINE d == [drivers[g] EXCEPT !.bridge = "broken"]
    <2>1. /\ DOMAIN d = DriverFields /\ d.exited = drivers[g].exited
          /\ d.active = drivers[g].active /\ d.prompts = drivers[g].prompts
          /\ d.started = drivers[g].started
      BY <1>s, FieldsOfDriver
    <2>2. /\ drivers' = [drivers EXCEPT ![g] = d] /\ records' = records
          /\ UNCHANGED <<current, launches, tokens>>
      BY <1>9 DEF ConnectionEnds
    <2> HIDE DEF d
    <2> QED
      BY <2>1, <2>2, DriverStep
  <1>10. ASSUME NEW g \in Launches, ChildExit(g) PROVE IInv'
    <2>1. DOMAIN Gone(drivers[g]) = DriverFields /\ Gone(drivers[g]).exited = drivers[g].exited
      BY <1>s, StoppedDriver
    <2>2. ExitReported(g, records[g], Gone(drivers[g]))
      BY <1>10 DEF ChildExit
    <2> QED
      BY <1>s, <2>1, <2>2, ExitStep
  <1>11. ASSUME NEW g \in Launches, StopReturned(g) PROVE IInv'
    <2>1. ExitReported(g, records[g], drivers[g])
      BY <1>11 DEF StopReturned
    <2> QED
      BY <1>s, <2>1, ExitStep
  <1>12. ASSUME NEW g \in Launches, Hang(g) PROVE IInv'
    <2> DEFINE d == [drivers[g] EXCEPT !.hung = TRUE]
    <2>1. /\ DOMAIN d = DriverFields /\ d.exited = drivers[g].exited
          /\ d.active = drivers[g].active /\ d.prompts = drivers[g].prompts
          /\ d.started = drivers[g].started
      BY <1>s, FieldsOfDriver
    <2>2. /\ drivers' = [drivers EXCEPT ![g] = d] /\ records' = records
          /\ UNCHANGED <<current, launches, tokens>>
      BY <1>12 DEF Hang
    <2> HIDE DEF d
    <2> QED
      BY <2>1, <2>2, DriverStep
  <1>13. ASSUME NEW g \in Launches, WarmupTimer(g) PROVE IInv'
    <2>1. DOMAIN MarkReady(records[g]) = RecordFields
          /\ MarkReady(records[g]).queue = records[g].queue
      BY <1>s, MarkFacts DEF SameQueues
    <2>2. /\ records' = [records EXCEPT ![g] = MarkReady(records[g])] /\ drivers' = drivers
          /\ UNCHANGED <<current, launches, tokens>>
      BY <1>13 DEF WarmupTimer
    <2> QED
      BY <2>1, <2>2, RecordStep
  <1>14. ASSUME NEW g \in Launches, Watch(g) PROVE IInv'
    <2>k. /\ DOMAIN Killed(drivers[g]) = DriverFields /\ Killed(drivers[g]).started = FALSE
          /\ Killed(drivers[g]).exited = drivers[g].exited
      BY <1>s, StoppedDriver
    <2>1. CASE CanAsk(drivers[g]) /\ ~records[g].asked
      <3> DEFINE r == [records[g] EXCEPT !.asked = TRUE]
      <3>1. DOMAIN r = RecordFields /\ r.queue = records[g].queue
        BY <1>s, FieldsOfRecord
      <3>2. /\ records' = [records EXCEPT ![g] = r] /\ drivers' = drivers
            /\ UNCHANGED <<current, launches, tokens>>
        BY <1>14, <2>1 DEF Watch
      <3> HIDE DEF r
      <3> QED
        BY <3>1, <3>2, RecordStep
    <2>2. CASE ~(CanAsk(drivers[g]) /\ ~records[g].asked) /\ drivers[g].bridge = "none"
      <3>1. ExitReported(g, records[g], Killed(drivers[g]))
        BY <1>14, <2>2 DEF Watch
      <3> QED
        BY <1>s, <2>k, <3>1, ExitStep
    <2>3. CASE ~(CanAsk(drivers[g]) /\ ~records[g].asked) /\ drivers[g].bridge # "none"
      <3>1. /\ drivers' = [drivers EXCEPT ![g] = Killed(drivers[g])] /\ records' = records
            /\ UNCHANGED <<current, launches, tokens>>
        BY <1>14, <2>3 DEF Watch
      <3> QED
        BY <2>k, <3>1, DriverStep
    <2> QED
      BY <2>1, <2>2, <2>3
  <1>15. ASSUME NEW g \in Launches, NEW p \in drivers[g].prompts, SessionOpened(g, p) PROVE IInv'
    BY <1>15, SessionStep
  <1>r. ASSUME NEW g \in Launches
        PROVE  DOMAIN OnResult(records[g]) = RecordFields
               /\ DOMAIN OnError(OnResult(records[g])) = RecordFields
    <2>1. DOMAIN OnResult(records[g]) = RecordFields
      BY <1>s, ResultFacts
    <2> QED
      BY <2>1, ErrorFacts DEF SameQueues
  <1>16. ASSUME NEW g \in Launches, NEW p \in drivers[g].prompts, Result(g, p) PROVE IInv'
    <2>1. Returned(g, p, OnResult(records[g])) /\ UNCHANGED <<current, launches, tokens>>
      BY <1>16 DEF Result
    <2> QED
      BY <1>r, <2>1, ReturnedStep
  <1>17. ASSUME NEW g \in Launches, NEW p \in drivers[g].prompts, Rejected(g, p) \/ Refused(g, p)
         PROVE  IInv'
    <2>1. Returned(g, p, OnError(OnResult(records[g]))) /\ UNCHANGED <<current, launches, tokens>>
      BY <1>17 DEF Rejected, Refused
    <2> QED
      BY <1>r, <2>1, ReturnedStep
  <1>18. CASE UNCHANGED vars
    BY <1>18 DEF vars, IInv, LaunchInv, FunctionsInv, MapFollowsExits
  <1> QED
    BY <1>1, <1>2, <1>3, <1>4, <1>5, <1>6, <1>7, <1>8, <1>9, <1>10, <1>11, <1>12, <1>13, <1>14,
       <1>15, <1>16, <1>17, <1>18 DEF Next

\* The invariant holds initially.
LEMMA InitIInv == Init => IInv
  <1> SUFFICES ASSUME Init PROVE IInv
    OBVIOUS
  <1>1. Sound(Launched, NewDriver)
    BY DEF Sound, OnePrompt, Busy, Launched, NewDriver, RecordFields, DriverFields
  <1>2. LaunchInv
    BY <1>1 DEF Init, LaunchInv
  <1>3. FunctionsInv
    BY AcpRuntimeAssumption DEF AcpRuntimeAssumption, Init, FunctionsInv
  <1>4. MapFollowsExits
    BY DEF Init, MapFollowsExits, Launches
  <1> QED
    BY <1>2, <1>3, <1>4 DEF IInv

\* The inductive invariant.
THEOREM AcpInvariance == Spec => []IInv
  <1>1. IInv /\ [Next]_vars => IInv'
    BY StepIInv
  <1> QED
    BY InitIInv, <1>1, PTL DEF Spec

\* However stops, kills and exits overlap, the map holds one launch at most, its proxy
\* token is the only one, and its exit has not been reported.
THEOREM MapIsKept == Spec => []MapFollowsExits
  <1>1. IInv => MapFollowsExits
    BY DEF IInv
  <1> QED
    BY AcpInvariance, <1>1, PTL

\* Before its exit is reported, a driver has one prompt out and remembers it.
THEOREM PromptsAreSerial == Spec => []OnePromptAtATime
  <1>1. IInv => OnePromptAtATime
    BY DEF IInv, LaunchInv, Sound, OnePrompt, OnePromptAtATime
  <1> QED
    BY AcpInvariance, <1>1, PTL

\* No driver rests while a message waits in its queue.
THEOREM IdleDriverHasNothing == Spec => []NothingWaitsOnIdleDriver
  <1>1. IInv => NothingWaitsOnIdleDriver
    BY DEF IInv, LaunchInv, Sound, NothingWaitsOnIdleDriver
  <1> QED
    BY AcpInvariance, <1>1, PTL
---------------------------------------------------------------------------
DriverTypeOK(d) ==
    d \in [started : BOOLEAN, stopping : BOOLEAN, exited : BOOLEAN,
           bridge : {"none", "up", "broken", "closed"}, session : BOOLEAN, hung : BOOLEAN,
           active : BOOLEAN, prompts : SUBSET [turn : Turns, stage : Stages]]

\* Some prompt of the driver is about m.
Takes(d, m) == \E p \in d.prompts : p.turn = m

\* Everything that waits in r came after m.
Ahead(m, r) == \A k \in ToSet(r.chain) \cup ToSet(r.queue) : m < k

\* A launch goes on from r and d to q and e: the record stays in order, and a message
\* that becomes a prompt is ahead of those that wait, unless the driver has exited.
Fits(r, d, q, e, n) ==
    /\ Proceeds(r, q, n)
    /\ DriverTypeOK(e)
    /\ d.exited \/ \A m \in Messages : Takes(e, m) /\ ~Takes(d, m) => Ahead(m, q)

\* The records of all launches are in order, and their drivers have their type.
OrderInv ==
    /\ received \in 0 .. MaxMessages
    /\ \A g \in Launches : Orderly(records[g], received) /\ DriverTypeOK(drivers[g])

\* A launch that has not begun is untouched.
FreshInv ==
    /\ current <= launches
    /\ \A g \in Launches : launches < g => records[g] = Launched /\ drivers[g] = NewDriver

\* The faults that have happened are no more than the bound.
FaultsInv == faults \in 0 .. MaxFaults

AllFit == \A g \in Launches : Fits(records[g], drivers[g], records'[g], drivers'[g], received')

---------------------------------------------------------------------------
\* A launch at rest, and one whose driver gets no new prompt.
LEMMA StayFits ==
    ASSUME NEW r, NEW d, NEW n, Orderly(r, n), DriverTypeOK(d)
    PROVE  Fits(r, d, r, d, n) /\ Fits(r, d, r, d, n + 1)
  BY MarkStep, LaterStep DEF Fits

\* A step that gives the driver no prompt has only to keep the record in order.
LEMMA NoNewPrompt ==
    ASSUME NEW r, NEW d, NEW n, NEW q, NEW e, Proceeds(r, q, n), DriverTypeOK(e),
           \A m \in Messages : Takes(e, m) => Takes(d, m)
    PROVE  Fits(r, d, q, e, n)
  BY DEF Fits

\* Sending a prompt keeps a record in order and takes nothing out of its queues.
LEMMA PromptSentStep ==
    ASSUME NEW r, NEW n, Orderly(r, n), NEW turn
    PROVE  /\ Proceeds(r, PromptSent(r, turn), n)
           /\ PromptSent(r, turn).chain = r.chain /\ PromptSent(r, turn).queue = r.queue
  <1>1. /\ Proceeds(r, MarkProgress(r), n)
        /\ MarkProgress(r).chain = r.chain /\ MarkProgress(r).queue = r.queue
    BY MarkStep, EndRunWaiting, TypeOfOrderly DEF SameWaiting
  <1> QED  BY <1>1, MessageSentStep DEF PromptSent

\* A prompt is run.
LEMMA RunFits ==
    ASSUME NEW r, NEW n, Orderly(r, n), NEW d, DriverTypeOK(d), NEW turn \in Turns, NEW opened \in BOOLEAN
    PROVE  LET after == RunPrompt(r, d, turn, opened) IN
           /\ Proceeds(r, after.record, n) /\ DriverTypeOK(after.driver)
           /\ after.record.chain = r.chain /\ after.record.queue = r.queue
           /\ \A m : Takes(after.driver, m) => Takes(d, m) \/ m = turn
  <1> DEFINE p == [turn |-> turn, stage |-> "turn"]
             s == [turn |-> turn, stage |-> "session"]
             d1 == [d EXCEPT !.active = TRUE, !.prompts = @ \cup {p}]
             d2 == [d EXCEPT !.active = TRUE, !.prompts = @ \cup {s},
                             !.bridge = IF @ = "none" THEN "up" ELSE @]
  <1>1. p \in [turn : Turns, stage : Stages] /\ s \in [turn : Turns, stage : Stages]
        /\ p.turn = turn /\ s.turn = turn
    BY DEF Stages
  <1> HIDE DEF p, s
  <1>2. DriverTypeOK(d1) /\ d1.prompts = d.prompts \cup {p}
    BY <1>1 DEF DriverTypeOK
  <1>3. DriverTypeOK(d2) /\ d2.prompts = d.prompts \cup {s}
    BY <1>1 DEF DriverTypeOK
  <1>4. RunPrompt(r, d, turn, opened) =
            IF opened THEN [record |-> PromptSent(r, turn), driver |-> d1]
            ELSE [record |-> r, driver |-> d2]
    BY DEF RunPrompt, p, s
  <1> HIDE DEF d1, d2
  <1>5. \A m : Takes(d1, m) \/ Takes(d2, m) => Takes(d, m) \/ m = turn
    BY <1>1, <1>2, <1>3 DEF Takes
  <1>6. Proceeds(r, r, n)
    BY MarkStep
  <1> QED  BY <1>2, <1>3, <1>4, <1>5, <1>6, PromptSentStep

\* The queue is flushed: its oldest message becomes a prompt.
LEMMA FlushFits ==
    ASSUME NEW r, NEW n, Orderly(r, n), NEW d, DriverTypeOK(d), NEW opened \in BOOLEAN
    PROVE  LET after == Flush(r, d, opened) IN
           /\ Proceeds(r, after.record, n) /\ DriverTypeOK(after.driver)
           /\ \A m \in Messages : Takes(after.driver, m) /\ ~Takes(d, m) => Ahead(m, after.record)
  <1> DEFINE rest == [r EXCEPT !.queue = Tail(@)]
             m == Head(r.queue)
             after == RunPrompt(rest, d, m, opened)
  <1>1. CASE d.started /\ ~d.active /\ r.queue # <<>>
    <2>1. Flush(r, d, opened) = after
      BY <1>1 DEF Flush
    <2>2. /\ Proceeds(r, rest, n) /\ Orderly(rest, n) /\ m \in Turns
          /\ \A k \in ToSet(rest.queue) \cup ToSet(rest.chain) : m < k
      BY <1>1, DequeueStep DEF Proceeds, Turns
    <2> HIDE DEF rest, m
    <2>3. /\ Proceeds(rest, after.record, n) /\ DriverTypeOK(after.driver)
          /\ after.record.chain = rest.chain /\ after.record.queue = rest.queue
          /\ \A k : Takes(after.driver, k) => Takes(d, k) \/ k = m
      BY <2>2, RunFits
    <2> HIDE DEF after
    <2>4. Proceeds(r, after.record, n)
      BY <2>2, <2>3, StepsCompose
    <2>5. Ahead(m, after.record)
      BY <2>2, <2>3 DEF Ahead
    <2> QED  BY <2>1, <2>3, <2>4, <2>5
  <1>2. CASE ~(d.started /\ ~d.active /\ r.queue # <<>>)
    <2>1. Flush(r, d, opened) = [record |-> r, driver |-> d]
      BY <1>2 DEF Flush
    <2>2. Proceeds(r, r, n)
      BY MarkStep
    <2> QED  BY <2>1, <2>2
  <1> QED  BY <1>1, <1>2

\* Drivers that are stopped, killed or gone keep their type and get no prompt.
LEMMA StoppedFits ==
    ASSUME NEW d, DriverTypeOK(d)
    PROVE  /\ DriverTypeOK(Stopped(d)) /\ DriverTypeOK(Killed(d)) /\ DriverTypeOK(Gone(d))
           /\ \A m : /\ Takes(Stopped(d), m) => Takes(d, m)
                     /\ Takes(Killed(d), m) => Takes(d, m)
                     /\ Takes(Gone(d), m) => Takes(d, m)
  <1>1. DriverTypeOK(Stopped(d)) /\ Stopped(d).prompts = d.prompts
    BY DEF DriverTypeOK, Stopped
  <1>2. DriverTypeOK(Killed(d)) /\ Killed(d).prompts = d.prompts
    BY DEF DriverTypeOK, Killed
  <1> DEFINE ps == {[p EXCEPT !.stage = "dead"] : p \in d.prompts}
  <1>3. ASSUME NEW p \in [turn : Turns, stage : Stages]
        PROVE  [p EXCEPT !.stage = "dead"] \in [turn : Turns, stage : Stages]
               /\ [p EXCEPT !.stage = "dead"].turn = p.turn
    BY DEF Stages
  <1>4. d.prompts \subseteq [turn : Turns, stage : Stages]
    BY DEF DriverTypeOK
  <1>5. ps \subseteq [turn : Turns, stage : Stages]
    BY <1>3, <1>4
  <1>6. \A x \in ps : \E p \in d.prompts : x.turn = p.turn
    BY <1>3, <1>4
  <1>7. Gone(d) = [d EXCEPT !.bridge = "none", !.active = FALSE, !.hung = FALSE, !.prompts = ps]
    BY DEF Gone
  <1> HIDE DEF ps
  <1>8. DriverTypeOK(Gone(d)) /\ Gone(d).prompts = ps
    BY <1>5, <1>7 DEF DriverTypeOK
  <1> QED  BY <1>1, <1>2, <1>6, <1>8 DEF Takes

---------------------------------------------------------------------------
\* A step of one launch that has begun.
LEMMA LocalFits ==
    ASSUME IInv, OrderInv, FreshInv, NEW g \in Launches, g <= launches, NEW q, NEW e,
           Fits(records[g], drivers[g], q, e, received'),
           records' = [records EXCEPT ![g] = q], drivers' = [drivers EXCEPT ![g] = e],
           received' \in {received, received + 1}, launches' = launches, current' \in {current, 0}
    PROVE  AllFit /\ FreshInv'
  <1>1. /\ DOMAIN records = Launches /\ DOMAIN drivers = Launches /\ launches \in Nat /\ g \in Nat
    BY AcpRuntimeAssumption DEF AcpRuntimeAssumption, IInv, FunctionsInv, Launches
  <1>2. \A h \in Launches : /\ records'[h] = IF h = g THEN q ELSE records[h]
                            /\ drivers'[h] = IF h = g THEN e ELSE drivers[h]
    BY <1>1
  <1>3. ASSUME NEW h \in Launches PROVE Fits(records[h], drivers[h], records'[h], drivers'[h], received')
    BY <1>2, StayFits DEF OrderInv
  <1>4. FreshInv'
    BY <1>1, <1>2 DEF FreshInv
  <1> QED  BY <1>3, <1>4 DEF AllFit

\* A step that changes the record of one launch and no driver.
LEMMA LocalRecord ==
    ASSUME IInv, OrderInv, FreshInv, NEW g \in Launches, g <= launches, NEW q,
           Proceeds(records[g], q, received'),
           records' = [records EXCEPT ![g] = q], drivers' = drivers,
           received' \in {received, received + 1}, launches' = launches, current' = current
    PROVE  AllFit /\ FreshInv'
  <1>1. drivers' = [drivers EXCEPT ![g] = drivers[g]]
    BY DEF IInv, FunctionsInv
  <1>2. Fits(records[g], drivers[g], q, drivers[g], received')
    BY NoNewPrompt DEF OrderInv
  <1> QED  BY <1>1, <1>2, LocalFits

\* A launch with something to do has begun.
LEMMA Begun ==
    ASSUME IInv, FreshInv, NEW g \in Launches,
           \/ current = g \/ records[g].chain # <<>> \/ drivers[g].prompts # {}
           \/ drivers[g].bridge # "none" \/ drivers[g].active
    PROVE  g <= launches
  <1>1. launches \in Nat /\ g \in Nat
    BY AcpRuntimeAssumption DEF AcpRuntimeAssumption, IInv, FunctionsInv, Launches
  <1>2. /\ Launched.chain = <<>> /\ NewDriver.prompts = {} /\ NewDriver.bridge = "none"
        /\ NewDriver.active = FALSE
    BY DEF Launched, NewDriver
  <1> QED  BY <1>1, <1>2 DEF FreshInv

\* The warm-up of a launch.
LEMMA FirstPrompt ==
    ASSUME NEW n, Orderly(Launched, n), NEW d, DriverTypeOK(d)
    PROVE  LET after == RunPrompt(Launched, d, WarmupTurn, FALSE) IN
           /\ Proceeds(Launched, after.record, n) /\ DriverTypeOK(after.driver)
           /\ \A m : Takes(after.driver, m) => Takes(d, m) \/ m = WarmupTurn
  <1>1. WarmupTurn \in Turns /\ FALSE \in BOOLEAN
    BY DEF Turns
  <1> QED  BY <1>1, RunFits

\* A launch begins.
LEMMA BeginFits ==
    ASSUME IInv, OrderInv, FreshInv, launches < MaxLaunches,
           launches' = launches + 1, current' = launches + 1, received' = received,
           records'[launches + 1] = LaunchOf(launches + 1).record,
           drivers'[launches + 1] = LaunchOf(launches + 1).driver,
           \A h \in Launches : h # launches + 1 =>
               Fits(records[h], drivers[h], records'[h], drivers'[h], received),
           \A h \in Launches : launches + 1 < h =>
               records'[h] = Launched /\ drivers'[h] = NewDriver
    PROVE  AllFit /\ FreshInv'
  <1> DEFINE new == launches + 1
             d == [NewDriver EXCEPT !.started = TRUE]
             after == RunPrompt(Launched, d, WarmupTurn, FALSE)
  <1>1. new \in Launches /\ launches < new /\ launches \in Nat
    BY AcpRuntimeAssumption DEF AcpRuntimeAssumption, IInv, FunctionsInv, Launches
  <1>2. Orderly(Launched, received) /\ DriverTypeOK(d) /\ d.prompts = {}
    <2>1. received \in Nat
      BY RuntimeRecordAssumption DEF OrderInv
    <2>2. DriverTypeOK(d) /\ d.prompts = {}
      BY DEF DriverTypeOK, NewDriver
    <2> QED  BY <2>1, <2>2, LaunchedOrderly
  <1>3. WarmupTurn \in Turns /\ FALSE \in BOOLEAN /\ WarmupTurn \notin Messages
    BY AcpRuntimeAssumption DEF AcpRuntimeAssumption, Turns
  <1>4. LaunchOf(new) = after
    BY DEF LaunchOf
  <1> HIDE DEF d
  <1>5. /\ Proceeds(Launched, after.record, received) /\ DriverTypeOK(after.driver)
        /\ \A m : Takes(after.driver, m) => Takes(d, m) \/ m = WarmupTurn
    BY <1>2, FirstPrompt
  <1> HIDE DEF after, new
  <1>6. \A m \in Messages : ~Takes(after.driver, m)
    BY <1>2, <1>3, <1>5 DEF Takes
  <1>7. Fits(records[new], drivers[new], after.record, after.driver, received)
    BY <1>1, <1>5, <1>6 DEF Fits, FreshInv
  <1>8. AllFit
    BY <1>4, <1>7 DEF AllFit, new
  <1>9. FreshInv'
    BY <1>1 DEF FreshInv, new
  <1> QED  BY <1>8, <1>9

\* The exit of a driver.
LEMMA ExitFits ==
    ASSUME IInv, OrderInv, FreshInv, NEW g \in Launches, g <= launches,
           NEW d, DriverTypeOK(d), \A m : Takes(d, m) => Takes(drivers[g], m),
           ExitReported(g, records[g], d), received' = received
    PROVE  AllFit /\ FreshInv'
  <1> DEFINE e == [d EXCEPT !.exited = TRUE]
             q == OnExit(records[g], d.stopping)
  <1>1. Orderly(records[g], received)
    BY DEF OrderInv
  <1>2. DriverTypeOK(e) /\ e.prompts = d.prompts
    BY DEF DriverTypeOK
  <1>3. Proceeds(records[g], q, received) /\ Proceeds(records[g], records[g], received)
    BY <1>1, EventSteps, MarkStep
  <1>4. /\ launches' = launches /\ current' \in {current, 0}
        /\ \/ records' = [records EXCEPT ![g] = records[g]] /\ drivers' = [drivers EXCEPT ![g] = d]
           \/ records' = [records EXCEPT ![g] = q] /\ drivers' = [drivers EXCEPT ![g] = e]
    BY DEF ExitReported, Becomes
  <1> HIDE DEF e, q
  <1>5. \A m : Takes(e, m) => Takes(drivers[g], m)
    BY <1>2 DEF Takes
  <1>6. /\ Fits(records[g], drivers[g], records[g], d, received)
        /\ Fits(records[g], drivers[g], q, e, received)
    BY <1>2, <1>3, <1>5, NoNewPrompt
  <1> QED  BY <1>4, <1>6, LocalFits

\* The end of a prompt.
LEMMA ReturnedFits ==
    ASSUME IInv, OrderInv, FreshInv, NEW g \in Launches, g <= launches, NEW p \in drivers[g].prompts,
           NEW q, Proceeds(records[g], q, received), Returned(g, p, q),
           UNCHANGED <<current, launches, received>>
    PROVE  AllFit /\ FreshInv'
  <1> DEFINE d == [drivers[g] EXCEPT !.active = FALSE, !.prompts = @ \ {p}]
  <1>1. PICK opened \in SessionOpen(d) : Becomes(g, Flush(q, d, opened))
    BY DEF Returned
  <1>2. DriverTypeOK(d) /\ d.prompts \subseteq drivers[g].prompts
    BY DEF OrderInv, DriverTypeOK
  <1>3. opened \in BOOLEAN /\ Orderly(q, received)
    BY <1>1 DEF SessionOpen, Proceeds
  <1> HIDE DEF d
  <1> DEFINE after == Flush(q, d, opened)
  <1>4. /\ Proceeds(q, after.record, received) /\ DriverTypeOK(after.driver)
        /\ \A m \in Messages : Takes(after.driver, m) /\ ~Takes(d, m) => Ahead(m, after.record)
    BY <1>2, <1>3, FlushFits
  <1>5. records' = [records EXCEPT ![g] = after.record] /\ drivers' = [drivers EXCEPT ![g] = after.driver]
    BY <1>1 DEF Becomes
  <1> HIDE DEF after
  <1>6. Fits(records[g], drivers[g], after.record, after.driver, received)
    BY <1>2, <1>4, StepsCompose DEF Fits, Takes
  <1> QED  BY <1>5, <1>6, LocalFits

\* A delivery.
LEMMA DeliverFits ==
    ASSUME IInv, OrderInv, FreshInv, NEW g \in Launches, Deliver(g)
    PROVE  AllFit /\ FreshInv'
  <1> DEFINE m == Head(records[g].chain)
             d == drivers[g]
             taken == [records[g] EXCEPT !.chain = Tail(@)]
             cut == IF m \in Removals THEN CutOff(taken, ChannelOf[m]) ELSE taken
             sent == DeliverSent(cut, m)
             queued == DeliverQueued(cut, m)
  <1>1. PICK opened \in SessionOpen(d) :
            Becomes(g, IF d.started /\ ~Busy(d) THEN RunPrompt(sent, d, m, opened)
                       ELSE Flush(queued, d, opened))
    BY DEF Deliver
  <1>2. UNCHANGED <<current, launches, received>> /\ records[g].chain # <<>> /\ opened \in BOOLEAN
    BY <1>1 DEF Deliver, SessionOpen
  <1>3. Orderly(records[g], received) /\ DriverTypeOK(d) /\ Sound(records[g], d) /\ g <= launches
    BY <1>2, Begun DEF OrderInv, IInv, LaunchInv
  <1>4. /\ m \in Turns /\ (\A k \in ToSet(Tail(records[g].chain)) : m < k)
        /\ Proceeds(records[g], sent, received) /\ sent.chain = Tail(records[g].chain)
        /\ ToSet(sent.queue) \subseteq ToSet(records[g].queue)
        /\ Proceeds(records[g], queued, received)
    BY <1>2, <1>3, DeliveredStep DEF Turns
  <1> HIDE DEF sent, queued, cut, taken, m, d
  <1>5. CASE d.started /\ ~Busy(d)
    <2> DEFINE after == RunPrompt(sent, d, m, opened)
    <2>1. Orderly(sent, received)
      BY <1>4 DEF Proceeds
    <2>2. /\ Proceeds(sent, after.record, received) /\ DriverTypeOK(after.driver)
          /\ after.record.chain = sent.chain /\ after.record.queue = sent.queue
          /\ \A k : Takes(after.driver, k) => Takes(d, k) \/ k = m
      BY <1>2, <1>3, <1>4, <2>1, RunFits
    <2>3. records' = [records EXCEPT ![g] = after.record] /\ drivers' = [drivers EXCEPT ![g] = after.driver]
      BY <1>1, <1>5 DEF Becomes
    <2> HIDE DEF after
    <2>4. ~d.exited => ToSet(sent.queue) = {}
      <3>1. ToSet(<<>>) = {}
        BY DEF ToSet
      <3>2. ~d.exited => records[g].queue = <<>>
        BY <1>3, <1>5 DEF Sound
      <3> QED  BY <1>4, <3>1, <3>2
    <2>5. ~d.exited => Ahead(m, after.record)
      BY <1>4, <2>2, <2>4 DEF Ahead
    <2>6. Fits(records[g], d, after.record, after.driver, received)
      BY <1>4, <2>2, <2>5, StepsCompose DEF Fits
    <2> QED  BY <1>2, <1>3, <2>3, <2>6, LocalFits DEF d
  <1>6. CASE ~(d.started /\ ~Busy(d))
    <2> DEFINE after == Flush(queued, d, opened)
    <2>1. Orderly(queued, received)
      BY <1>4 DEF Proceeds
    <2>2. /\ Proceeds(queued, after.record, received) /\ DriverTypeOK(after.driver)
          /\ \A k \in Messages : Takes(after.driver, k) /\ ~Takes(d, k) => Ahead(k, after.record)
      BY <1>2, <1>3, <2>1, FlushFits
    <2>3. records' = [records EXCEPT ![g] = after.record] /\ drivers' = [drivers EXCEPT ![g] = after.driver]
      BY <1>1, <1>6 DEF Becomes
    <2> HIDE DEF after
    <2>4. Fits(records[g], d, after.record, after.driver, received)
      BY <1>4, <2>2, StepsCompose DEF Fits
    <2> QED  BY <1>2, <1>3, <2>3, <2>4, LocalFits DEF d
  <1> QED  BY <1>5, <1>6
---------------------------------------------------------------------------
\* Every launch goes on in order.
LEMMA StepFits ==
    ASSUME IInv, OrderInv, FreshInv, [Next]_vars
    PROVE  AllFit /\ FreshInv'
  <1>o. ASSUME NEW g \in Launches
        PROVE  /\ Orderly(records[g], received) /\ DriverTypeOK(drivers[g]) /\ Sound(records[g], drivers[g])
               /\ Proceeds(records[g], records[g], received)
               /\ DOMAIN records[g] = RecordFields /\ DOMAIN drivers[g] = DriverFields
    BY MarkStep DEF OrderInv, IInv, LaunchInv, Sound
  <1>c. ASSUME current # 0 PROVE current \in Launches /\ current <= launches
    BY <1>c, AcpRuntimeAssumption DEF AcpRuntimeAssumption, IInv, FunctionsInv, Launches, FreshInv
  <1>b. launches \in Nat /\ (launches < MaxLaunches => launches + 1 \in Launches)
    BY AcpRuntimeAssumption DEF AcpRuntimeAssumption, IInv, FunctionsInv, Launches
  <1>d. /\ DOMAIN records = Launches /\ DOMAIN drivers = Launches /\ received \in Nat
        /\ records = [g \in Launches |-> records[g]] /\ drivers = [g \in Launches |-> drivers[g]]
    BY RuntimeRecordAssumption DEF IInv, FunctionsInv, OrderInv
  \* A driver that changes without a new prompt.
  <1>e. ASSUME NEW g \in Launches, g <= launches, NEW e, DriverTypeOK(e),
               \A m : Takes(e, m) => Takes(drivers[g], m),
               drivers' = [drivers EXCEPT ![g] = e], records' = records,
               UNCHANGED <<current, launches, received>>
        PROVE  AllFit /\ FreshInv'
    <2>1. Fits(records[g], drivers[g], records[g], e, received)
      BY <1>e, <1>o, NoNewPrompt
    <2>2. records' = [records EXCEPT ![g] = records[g]]
      BY <1>d, <1>e
    <2> QED  BY <1>e, <2>1, <2>2, LocalFits
  <1>1. CASE Receive
    <2> DEFINE q == [records[current] EXCEPT !.chain = Append(@, received + 1)]
    <2>1. /\ current \in Launches /\ current <= launches
          /\ received' = received + 1 /\ received + 1 \in Messages
          /\ records' = [records EXCEPT ![current] = q]
          /\ drivers' = drivers /\ UNCHANGED <<current, launches>>
      BY <1>1, <1>c, <1>d, RuntimeRecordAssumption DEF Receive, Messages
    <2>2. Proceeds(records[current], q, received + 1)
      BY <1>o, <2>1, ReceivedStep
    <2> HIDE DEF q
    <2> QED  BY <2>1, <2>2, LocalRecord
  <1>2. CASE StartCommand
    <2>1. /\ launches < MaxLaunches /\ launches' = launches + 1 /\ current' = launches + 1
          /\ received' = received
          /\ records' = [records EXCEPT ![launches + 1] = LaunchOf(launches + 1).record]
          /\ drivers' = [drivers EXCEPT ![launches + 1] = LaunchOf(launches + 1).driver]
      BY <1>2 DEF StartCommand, Becomes
    <2>2. launches + 1 \in Launches /\ launches \in Nat
      BY <1>b, <2>1
    <2>3. /\ records'[launches + 1] = LaunchOf(launches + 1).record
          /\ drivers'[launches + 1] = LaunchOf(launches + 1).driver
          /\ \A h \in Launches : h # launches + 1 =>
                 records'[h] = records[h] /\ drivers'[h] = drivers[h]
      BY <1>d, <2>1, <2>2
    <2>4. \A h \in Launches : h # launches + 1 =>
              Fits(records[h], drivers[h], records'[h], drivers'[h], received)
      BY <1>o, <2>3, StayFits
    <2>5. \A h \in Launches : launches + 1 < h => launches < h /\ h # launches + 1
      BY <2>2 DEF Launches
    <2>6. \A h \in Launches : launches + 1 < h =>
              records'[h] = Launched /\ drivers'[h] = NewDriver
      BY <2>3, <2>5 DEF FreshInv
    <2> QED  BY <2>1, <2>3, <2>4, <2>6, BeginFits
  <1>3. CASE StopCommand \/ RestartCommand
    <2> DEFINE d == Stopped(drivers[current])
               e == [d EXCEPT !.exited = @ \/ d.bridge = "none"]
               q == OnStop(records[current])
               new == launches + 1
    <2>1. current \in Launches /\ current <= launches /\ received' = received
      BY <1>3, <1>c DEF StopCommand, RestartCommand
    <2>2. AfterStop(current) = [record |-> q, driver |-> e]
      BY DEF AfterStop
    <2>3. Proceeds(records[current], q, received)
      BY <1>o, <2>1, EventSteps
    <2>4. DriverTypeOK(d) /\ \A m : Takes(d, m) => Takes(drivers[current], m)
      BY <1>o, <2>1, StoppedFits
    <2> HIDE DEF d, q
    <2>5. DriverTypeOK(e) /\ e.prompts = d.prompts
      BY <2>4 DEF DriverTypeOK
    <2> HIDE DEF e
    <2>6. Fits(records[current], drivers[current], q, e, received)
      BY <2>3, <2>4, <2>5, NoNewPrompt DEF Takes
    <2>7. CASE StopCommand
      <3>1. /\ records' = [records EXCEPT ![current] = q] /\ drivers' = [drivers EXCEPT ![current] = e]
            /\ launches' = launches /\ current' = 0
        BY <2>2, <2>7 DEF StopCommand, Becomes
      <3> QED  BY <2>1, <2>6, <3>1, LocalFits
    <2>8. CASE RestartCommand
      <3>1. /\ launches < MaxLaunches /\ launches' = new /\ current' = new
            /\ records' = [records EXCEPT ![current] = q, ![new] = LaunchOf(new).record]
            /\ drivers' = [drivers EXCEPT ![current] = e, ![new] = LaunchOf(new).driver]
        BY <2>2, <2>8 DEF RestartCommand
      <3>2. new \in Launches /\ launches \in Nat /\ current # new
        BY <1>b, <2>1, <3>1 DEF Launches
      <3>3. /\ records'[new] = LaunchOf(new).record /\ drivers'[new] = LaunchOf(new).driver
            /\ \A h \in Launches : h # new =>
                   /\ records'[h] = IF h = current THEN q ELSE records[h]
                   /\ drivers'[h] = IF h = current THEN e ELSE drivers[h]
        BY <1>d, <2>1, <3>1, <3>2
      <3>4. \A h \in Launches : h # new =>
                Fits(records[h], drivers[h], records'[h], drivers'[h], received)
        BY <1>o, <2>6, <3>3, StayFits
      <3>5. \A h \in Launches : new < h => launches < h /\ h # new /\ h # current
        BY <2>1, <3>2 DEF Launches
      <3>6. \A h \in Launches : new < h => records'[h] = Launched /\ drivers'[h] = NewDriver
        BY <3>3, <3>5 DEF FreshInv
      <3> QED  BY <2>1, <3>1, <3>3, <3>4, <3>6, BeginFits
    <2> QED  BY <1>3, <2>7, <2>8
  <1>4. CASE ControlCommand
    <2> DEFINE d == drivers[current]
    <2>1. /\ current \in Launches /\ current <= launches /\ received' = received + 1
          /\ launches' = launches /\ current' = current
      BY <1>4, <1>c DEF ControlCommand
    <2>2. PICK opened \in SessionOpen(d) :
              Becomes(current, RunPrompt(records[current], d, ControlTurn, opened))
      BY <1>4 DEF ControlCommand
    <2> DEFINE after == RunPrompt(records[current], d, ControlTurn, opened)
    <2>3. opened \in BOOLEAN /\ ControlTurn \in Turns /\ ControlTurn \notin Messages
      BY <2>2, AcpRuntimeAssumption DEF AcpRuntimeAssumption, SessionOpen, Turns
    <2>4. /\ Proceeds(records[current], after.record, received) /\ DriverTypeOK(after.driver)
          /\ \A k : Takes(after.driver, k) => Takes(d, k) \/ k = ControlTurn
      BY <1>o, <2>1, <2>3, RunFits
    <2>5. /\ records' = [records EXCEPT ![current] = after.record]
          /\ drivers' = [drivers EXCEPT ![current] = after.driver]
      BY <2>2 DEF Becomes
    <2> HIDE DEF after
    <2>6. Fits(records[current], d, after.record, after.driver, received + 1)
      BY <2>3, <2>4, LaterProceeds, NoNewPrompt
    <2> QED  BY <2>1, <2>5, <2>6, LocalFits
  <1>5. CASE Tick
    <2> DEFINE q == [records[current] EXCEPT !.quiet = @ + 1]
    <2>1. /\ current \in Launches /\ current <= launches /\ records[current].quiet < StallTicks
          /\ records' = [records EXCEPT ![current] = q] /\ drivers' = drivers
          /\ UNCHANGED <<current, launches, received>>
      BY <1>5, <1>c DEF Tick
    <2>2. Proceeds(records[current], q, received)
      BY <1>o, <2>1, QuietStep
    <2> HIDE DEF q
    <2> QED  BY <2>1, <2>2, LocalRecord
  <1>6. ASSUME NEW g \in Launches, Deliver(g) PROVE AllFit /\ FreshInv'
    BY <1>6, DeliverFits
  <1>7. ASSUME NEW g \in Launches, ToolEvent(g) PROVE AllFit /\ FreshInv'
    <2>1. /\ g <= launches /\ UNCHANGED <<current, launches, received>>
          /\ records' = [records EXCEPT ![g] = OnToolEvent(records[g])] /\ drivers' = drivers
      BY <1>7, <1>d, Begun DEF ToolEvent, Becomes
    <2>2. Proceeds(records[g], OnToolEvent(records[g]), received)
      BY <1>o, EventSteps
    <2> QED  BY <2>1, <2>2, LocalRecord
  <1>8. ASSUME NEW g \in Launches, ConnectionEnds(g) \/ Hang(g) PROVE AllFit /\ FreshInv'
    <2> DEFINE broken == [drivers[g] EXCEPT !.bridge = "broken"]
               hung == [drivers[g] EXCEPT !.hung = TRUE]
    <2>1. /\ g <= launches /\ records' = records /\ UNCHANGED <<current, launches, received>>
          /\ drivers' = [drivers EXCEPT ![g] = broken] \/ drivers' = [drivers EXCEPT ![g] = hung]
      BY <1>8, Begun DEF ConnectionEnds, Hang
    <2>2. /\ DriverTypeOK(broken) /\ broken.prompts = drivers[g].prompts
          /\ DriverTypeOK(hung) /\ hung.prompts = drivers[g].prompts
      BY <1>o DEF DriverTypeOK
    <2> HIDE DEF broken, hung
    <2>3. \A m : (Takes(broken, m) => Takes(drivers[g], m)) /\ (Takes(hung, m) => Takes(drivers[g], m))
      BY <2>2 DEF Takes
    <2> QED  BY <1>e, <2>1, <2>2, <2>3
  <1>9. ASSUME NEW g \in Launches, ChildExit(g) PROVE AllFit /\ FreshInv'
    <2>1. g <= launches /\ ExitReported(g, records[g], Gone(drivers[g])) /\ received' = received
      BY <1>9, Begun DEF ChildExit, ExitReported
    <2>2. DriverTypeOK(Gone(drivers[g])) /\ \A m : Takes(Gone(drivers[g]), m) => Takes(drivers[g], m)
      BY <1>o, StoppedFits
    <2> QED  BY <2>1, <2>2, ExitFits
  <1>10. ASSUME NEW g \in Launches, StopReturned(g) PROVE AllFit /\ FreshInv'
    <2>1. g <= launches /\ ExitReported(g, records[g], drivers[g]) /\ received' = received
      BY <1>10, Begun DEF StopReturned, ExitReported
    <2> QED  BY <1>o, <2>1, ExitFits
  <1>11. ASSUME NEW g \in Launches, WarmupTimer(g) PROVE AllFit /\ FreshInv'
    <2>1. /\ g <= launches /\ UNCHANGED <<current, launches, received>>
          /\ records' = [records EXCEPT ![g] = MarkReady(records[g])] /\ drivers' = drivers
      BY <1>11, Begun DEF WarmupTimer
    <2>2. Proceeds(records[g], MarkReady(records[g]), received)
      BY <1>o, MarkStep
    <2> QED  BY <2>1, <2>2, LocalRecord
  <1>12. ASSUME NEW g \in Launches, Watch(g) PROVE AllFit /\ FreshInv'
    <2> DEFINE k == Killed(drivers[g])
               q == [records[g] EXCEPT !.asked = TRUE]
    <2>0. g <= launches
      BY <1>12, Begun DEF Watch
    <2>1. DriverTypeOK(k) /\ \A m : Takes(k, m) => Takes(drivers[g], m)
      BY <1>o, StoppedFits
    <2>2. Proceeds(records[g], q, received)
      BY <1>o, AskedStep
    <2>3. \/ /\ records' = [records EXCEPT ![g] = q] /\ drivers' = drivers
             /\ UNCHANGED <<current, launches, received>>
          \/ ExitReported(g, records[g], k) /\ received' = received
          \/ /\ drivers' = [drivers EXCEPT ![g] = k] /\ records' = records
             /\ UNCHANGED <<current, launches, received>>
      BY <1>12 DEF Watch, ExitReported
    <2> HIDE DEF k, q
    <2> QED  BY <1>e, <2>0, <2>1, <2>2, <2>3, ExitFits, LocalRecord
  <1>13. ASSUME NEW g \in Launches, NEW p \in drivers[g].prompts, SessionOpened(g, p)
         PROVE  AllFit /\ FreshInv'
    <2> DEFINE r == MarkReady(MarkProgress(records[g]))
               q == PromptSent(r, p.turn)
               x == [p EXCEPT !.stage = "turn"]
               e == [drivers[g] EXCEPT !.session = TRUE, !.prompts = (@ \ {p}) \cup {x}]
    <2>1. /\ g <= launches /\ UNCHANGED <<current, launches, received>>
          /\ records' = [records EXCEPT ![g] = q] /\ drivers' = [drivers EXCEPT ![g] = e]
      BY <1>13, Begun DEF SessionOpened, Becomes
    <2>2. Proceeds(records[g], r, received) /\ Orderly(r, received)
      <3>1. Proceeds(records[g], MarkProgress(records[g]), received)
        BY <1>o, MarkStep
      <3>2. Proceeds(MarkProgress(records[g]), r, received)
        BY <3>1, MarkStep DEF Proceeds
      <3> QED  BY <3>1, <3>2, StepsCompose DEF Proceeds
    <2> HIDE DEF r
    <2>3. Proceeds(records[g], q, received)
      BY <2>2, PromptSentStep, StepsCompose
    <2>4. p \in [turn : Turns, stage : Stages]
      BY <1>o DEF DriverTypeOK
    <2>5. x \in [turn : Turns, stage : Stages] /\ x.turn = p.turn
      BY <2>4 DEF Stages
    <2> HIDE DEF x
    <2>6. DriverTypeOK(e) /\ e.prompts = (drivers[g].prompts \ {p}) \cup {x}
      BY <1>o, <2>5 DEF DriverTypeOK
    <2> HIDE DEF e, q
    <2>7. \A m : Takes(e, m) => Takes(drivers[g], m)
      BY <2>5, <2>6 DEF Takes
    <2>8. Fits(records[g], drivers[g], q, e, received)
      BY <2>3, <2>6, <2>7, NoNewPrompt
    <2> QED  BY <2>1, <2>8, LocalFits
  <1>14. ASSUME NEW g \in Launches, NEW p \in drivers[g].prompts,
                Result(g, p) \/ Rejected(g, p) \/ Refused(g, p)
         PROVE  AllFit /\ FreshInv'
    <2> DEFINE q == OnResult(records[g])
    <2>1. /\ g <= launches /\ UNCHANGED <<current, launches, received>>
          /\ Returned(g, p, q) \/ Returned(g, p, OnError(q))
      BY <1>14, Begun DEF Result, Rejected, Refused
    <2>2. Proceeds(records[g], q, received) /\ Orderly(q, received)
      BY <1>o, EventSteps DEF Proceeds
    <2> HIDE DEF q
    <2>3. Proceeds(records[g], OnError(q), received)
      BY <2>2, EventSteps, StepsCompose
    <2> QED  BY <2>1, <2>2, <2>3, ReturnedFits
  <1>15. CASE UNCHANGED vars
    <2>1. records' = records /\ drivers' = drivers /\ UNCHANGED <<current, launches, received>>
      BY <1>15 DEF vars
    <2> QED  BY <1>o, <2>1, StayFits DEF AllFit, FreshInv
  <1> QED
    BY <1>1, <1>2, <1>3, <1>4, <1>5, <1>6, <1>7, <1>8, <1>9, <1>10, <1>11, <1>12, <1>13, <1>14, <1>15
       DEF Next

\* The counters stay within their bounds.
LEMMA StepCounts ==
    ASSUME IInv, OrderInv, FaultsInv, [Next]_vars
    PROVE  received' \in 0 .. MaxMessages /\ FaultsInv'
  <1>1. received' = received \/ (received < MaxMessages /\ received' = received + 1)
    BY DEF Next, vars, Receive, StartCommand, StopCommand, RestartCommand, ControlCommand, Tick,
           Deliver, ToolEvent, ConnectionEnds, ChildExit, StopReturned, Hang, WarmupTimer, Watch,
           ExitReported, SessionOpened, Result, Rejected, Refused
  <1>2. faults' = faults \/ (faults < MaxFaults /\ faults' = faults + 1)
    BY DEF Next, vars, Receive, StartCommand, StopCommand, RestartCommand, ControlCommand, Tick,
           Deliver, ToolEvent, ConnectionEnds, ChildExit, StopReturned, Hang, WarmupTimer, Watch,
           SessionOpened, Result, Rejected, Refused, Fault
  <1> QED  BY <1>1, <1>2, RuntimeRecordAssumption, AcpRuntimeAssumption
    DEF AcpRuntimeAssumption, OrderInv, FaultsInv

\* They hold at first.
LEMMA InitOrder == Init => OrderInv /\ FreshInv /\ FaultsInv
  <1> SUFFICES ASSUME Init PROVE OrderInv /\ FreshInv /\ FaultsInv
    OBVIOUS
  <1>1. DriverTypeOK(NewDriver)
    BY DEF DriverTypeOK, NewDriver
  <1>2. OrderInv
    BY <1>1, LaunchedOrderly, RuntimeRecordAssumption DEF Init, OrderInv
  <1>3. FreshInv /\ FaultsInv
    BY AcpRuntimeAssumption DEF AcpRuntimeAssumption, Init, FreshInv, FaultsInv
  <1> QED  BY <1>2, <1>3

\* The queues stay in the order of receipt, and the types with them.
THEOREM AcpQueuesAreOrdered == Spec => [](OrderInv /\ FreshInv /\ FaultsInv)
  <1>1. IInv /\ OrderInv /\ FreshInv /\ FaultsInv /\ [Next]_vars
            => OrderInv' /\ FreshInv' /\ FaultsInv'
    <2> SUFFICES ASSUME IInv, OrderInv, FreshInv, FaultsInv, [Next]_vars
                 PROVE  OrderInv' /\ FreshInv' /\ FaultsInv'
      OBVIOUS
    <2>1. AllFit /\ FreshInv'
      BY StepFits
    <2>2. received' \in 0 .. MaxMessages /\ FaultsInv'
      BY StepCounts
    <2>3. OrderInv'
      BY <2>1, <2>2 DEF OrderInv, AllFit, Fits, Proceeds
    <2> QED  BY <2>1, <2>2, <2>3
  <1> QED  BY AcpInvariance, InitOrder, <1>1, PTL DEF Spec

\* The variables have their types.
THEOREM AcpTypes == Spec => []TypeOK
  <1>1. IInv /\ OrderInv /\ FreshInv /\ FaultsInv => TypeOK
    <2> SUFFICES ASSUME IInv, OrderInv, FaultsInv PROVE TypeOK
      OBVIOUS
    <2>1. DOMAIN records = Launches /\ \A g \in Launches : RecordTypeOK(records[g])
      BY DEF IInv, FunctionsInv, OrderInv, Orderly
    <2>2. drivers \in [Launches -> [started : BOOLEAN, stopping : BOOLEAN, exited : BOOLEAN,
              bridge : {"none", "up", "broken", "closed"}, session : BOOLEAN, hung : BOOLEAN,
              active : BOOLEAN, prompts : SUBSET [turn : Turns, stage : Stages]]]
      BY DEF IInv, FunctionsInv, OrderInv, DriverTypeOK
    <2>3. tokens \subseteq Launches /\ {current, launches} \subseteq 0 .. MaxLaunches
      BY AcpRuntimeAssumption DEF AcpRuntimeAssumption, IInv, FunctionsInv, MapFollowsExits, Launches
    <2> QED  BY <2>1, <2>2, <2>3 DEF TypeOK, OrderInv, FaultsInv
  <1> QED  BY AcpInvariance, AcpQueuesAreOrdered, <1>1, PTL

\* Until the exit of a driver is reported, its prompts go out in the order in which
\* the daemon received the messages.
THEOREM PromptsGoInOrder == Spec => PromptsInOrder
  <1>1. IInv /\ OrderInv /\ FreshInv /\ [Next]_vars =>
          [\A g \in Launches : \A m \in Messages :
              ~drivers[g].exited /\ InWork(g, m)' /\ ~InWork(g, m) =>
                  \A k \in Waiting(g)' : m < k]_vars
    BY StepFits DEF AllFit, Fits, Takes, InWork, Waiting, Ahead
  <1> QED  BY AcpInvariance, AcpQueuesAreOrdered, <1>1, PTL DEF Spec, PromptsInOrder

\* The reports of the task runs implement their lifecycle.
THEOREM AcpReportsGoForward == Spec => LifecycleSpec
  <1> DEFINE status == [p \in Launches \X TaskRuns |-> records[p[1]].reported[p[2]]]
  <1>1. Init => Lifecycle!Init
    BY DEF Init, Launched, Lifecycle!Init
  <1>2. IInv /\ OrderInv /\ FreshInv /\ [Next]_vars => [Lifecycle!Next]_status
    <2> SUFFICES ASSUME IInv, OrderInv, FreshInv, [Next]_vars PROVE Lifecycle!Next
      OBVIOUS
    <2>1. AllFit
      BY StepFits
    <2>2. ASSUME NEW p \in Launches \X TaskRuns
          PROVE  status'[p] \in Reports /\ MayFollow(status'[p], status[p])
      BY <2>1, TypeOfOrderly DEF AllFit, Fits, Proceeds, Forward
    <2>3. DOMAIN Lifecycle!Rank = Reports
      BY DEF Lifecycle!Rank, Reports, Outcomes
    <2>4. \A x, y : MayFollow(y, x) => x = y \/ Lifecycle!Rank[x] < Lifecycle!Rank[y]
      BY DEF MayFollow, Lifecycle!Rank, Reports, Outcomes
    <2>5. status' \in [Launches \X TaskRuns -> Reports]
      BY <2>2
    <2> HIDE DEF status
    <2> QED  BY <2>2, <2>3, <2>4, <2>5 DEF Lifecycle!Next, status
  <1> QED  BY AcpInvariance, AcpQueuesAreOrdered, <1>1, <1>2, PTL DEF Spec, LifecycleSpec, Lifecycle!Spec
===========================================================================
