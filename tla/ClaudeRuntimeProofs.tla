------------------------ MODULE ClaudeRuntimeProofs ------------------------
(* Theorems about ClaudeRuntime, for every number of messages, launches and *)
(* faults, every assignment of tasks, channels and removals, and whether or *)
(* not a runtime that crashes is restarted.  First the books of a launch and *)
(* the child it owns, then the order of its queues and of what it reports.   *)
EXTENDS ClaudeRuntime, RuntimeRecordProofs

\* The fields of a child.
ChildFields == DOMAIN NoChild

\* A record that the daemon's books are right about.
Books(r) == ~r.skewed => r.turns = r.queue

\* One launch: the properties of its record and its child, with the link between
\* busy and turn that the induction needs.
Sound(r, c) ==
    /\ DOMAIN r = RecordFields /\ DOMAIN c = ChildFields
    /\ Books(r)
    /\ Idle(c) => r.queue = <<>>
    /\ c.state = "up" /\ ~c.busy => c.turn = None
    /\ c.state = "up" /\ ~r.skewed /\ r.run # None => c.turn = r.run

LaunchInv == \A g \in Launches : Sound(records[g], children[g])

\* A launch that has not begun is untouched.
FreshInv ==
    /\ current \in 0 .. launches /\ launches \in 0 .. MaxLaunches
    /\ records = [g \in Launches |-> records[g]] /\ children = [g \in Launches |-> children[g]]
    /\ \A g \in Launches : launches < g => records[g] = Launched /\ children[g] = NoChild

IInv == LaunchInv /\ FreshInv /\ ChildrenAreOwned

---------------------------------------------------------------------------
\* The fields of a child, by name.
LEMMA FieldsOfChild ==
    ChildFields = {"state", "busy", "turn", "writable", "stopping", "signalled", "hung"}
  BY DEF ChildFields, NoChild

---------------------------------------------------------------------------
\* A handler that leaves the queues alone and at most ends the run.
LEMMA SoundHandler ==
    ASSUME NEW r, NEW c, Sound(r, c), NEW q, SameQueues(r, q), q.run \in {r.run, None}
    PROVE  Sound(q, c)
  BY DEF Sound, SameQueues, Books

\* What happens to a child besides turns: it may be told to end, hang, lose its
\* stdin or be gone.
LEMMA SoundChild ==
    ASSUME NEW r, NEW c, Sound(r, c), NEW d, DOMAIN d = ChildFields,
           d.state = "up" => c.state = "up" /\ d.turn = c.turn /\ d.busy = c.busy,
           d.writable => c.writable
    PROVE  Sound(r, d)
  BY DEF Sound, Idle

\* terminate changes no more of a child than its signals.
LEMMA TerminatedFacts ==
    ASSUME NEW c, DOMAIN c = ChildFields, NEW intentional
    PROVE  LET d == Terminated(c, intentional) IN
           /\ DOMAIN d = ChildFields /\ d.state = c.state /\ d.turn = c.turn /\ d.busy = c.busy
           /\ d.writable = c.writable
           /\ c.state = "up" => d.signalled = TRUE
  BY FieldsOfChild DEF Terminated

\* A delivery that is sent at once: the child works on the message, and the run, if
\* there is one, is its own.
LEMMA SoundSent ==
    ASSUME NEW r, NEW c, Sound(r, c), Idle(c), NEW m
    PROVE  LET taken == [r EXCEPT !.chain = Tail(@)]
               cut == IF m \in Removals THEN CutOff(taken, ChannelOf[m]) ELSE taken
               written == WriteTurn(cut, c, m)
           IN  Sound(DeliverSent(written.record, m), written.child)
  <1> DEFINE taken == [r EXCEPT !.chain = Tail(@)]
             cut == IF m \in Removals THEN CutOff(taken, ChannelOf[m]) ELSE taken
             sent == OnMessageSent(cut)
             kid == [c EXCEPT !.busy = TRUE, !.turn = m]
             p == Post(sent, m, "dispatched")
  <1>1. DOMAIN taken = RecordFields /\ taken.queue = r.queue /\ taken.turns = r.turns
        /\ taken.skewed = r.skewed /\ taken.run = r.run
    BY FieldsOfRecord DEF Sound
  <1>2. /\ DOMAIN cut = RecordFields /\ cut.skewed = r.skewed /\ cut.run = r.run
        /\ ~r.skewed => cut.turns = <<>> /\ cut.queue = <<>>
    <2>1. ~r.skewed => taken.turns = <<>> /\ taken.queue = <<>>
      BY <1>1 DEF Sound, Books
    <2>2. CASE m \in Removals
      <3> DEFINE x == DiscardTurns(taken.turns, ChannelOf[m])
                 y == DiscardQueuedChannel(taken.queue, ChannelOf[m])
      <3>1. ~r.skewed => x = <<>> /\ y = <<>>
        BY <2>1, WithoutEmpty DEF DiscardTurns, DiscardQueuedChannel
      <3> HIDE DEF taken
      <3>2. cut = [taken EXCEPT !.turns = x, !.queue = y]
        BY <2>2 DEF CutOff
      <3> HIDE DEF cut, x, y
      <3> QED
        BY <1>1, <3>1, <3>2, FieldsOfRecord
    <2>3. CASE m \notin Removals
      BY <1>1, <2>1, <2>3
    <2> QED
      BY <2>2, <2>3
  <1> HIDE DEF taken, cut
  <1>3. /\ DOMAIN sent = RecordFields /\ sent.skewed = r.skewed
        /\ ~r.skewed => sent.turns = <<>> /\ sent.queue = <<>> /\ sent.run = r.run
    BY <1>2, MessageSentFacts
  <1>4. ~r.skewed => r.run = None
    BY DEF Sound, Idle
  <1>5. SameQueues(sent, p) /\ p.run = sent.run
    BY <1>3, PostFacts
  <1>6. /\ SameQueues(p, BeginTurn(p, m))
        /\ BeginTurn(p, m).run = IF m \in TaskRuns THEN m ELSE p.run
    BY <1>5, BeginTurnFacts DEF SameQueues
  <1>7. DOMAIN kid = ChildFields /\ kid.busy = TRUE /\ kid.turn = m
    BY FieldsOfChild DEF Sound
  <1> HIDE DEF sent, p, kid
  <1>8. /\ SameQueues(sent, DeliverSent(sent, m))
        /\ ~r.skewed => DeliverSent(sent, m).run \in {m, None}
    BY <1>3, <1>4, <1>5, <1>6 DEF DeliverSent, SameQueues, p
  <1>9. Sound(DeliverSent(sent, m), kid)
    BY <1>3, <1>7, <1>8 DEF Sound, Books, SameQueues, Idle
  <1>10. WriteTurn(cut, c, m) = [record |-> sent, child |-> kid]
    BY DEF WriteTurn, sent, kid
  <1> QED
    BY <1>9, <1>10 DEF cut, taken

\* A delivery that is queued: both queues get the message, or the books are behind.
LEMMA SoundQueued ==
    ASSUME NEW r, NEW c, Sound(r, c), ~Idle(c), NEW m
    PROVE  LET taken == [r EXCEPT !.chain = Tail(@)]
               cut == IF m \in Removals THEN CutOff(taken, ChannelOf[m]) ELSE taken
           IN  Sound(DeliverQueued(cut, m), c)
  <1> DEFINE taken == [r EXCEPT !.chain = Tail(@)]
             cut == IF m \in Removals THEN CutOff(taken, ChannelOf[m]) ELSE taken
             queued == [cut EXCEPT !.queue = Append(@, m)]
  <1>1. DOMAIN taken = RecordFields /\ taken.queue = r.queue /\ taken.turns = r.turns
        /\ taken.skewed = r.skewed /\ taken.run = r.run
    BY FieldsOfRecord DEF Sound
  <1>2. CASE m \in Removals
    <2>1. DOMAIN cut = RecordFields
      BY <1>1, <1>2 DEF CutOff
    <2>2. DOMAIN queued = RecordFields
      BY <2>1
    <2> HIDE DEF queued, cut, taken
    <2>3. DeliverQueued(cut, m) = Skew(queued)
      BY <1>2 DEF DeliverQueued, queued
    <2>4. DOMAIN Skew(queued) = RecordFields /\ Skew(queued).skewed = TRUE
      BY <2>2, FieldsOfRecord DEF Skew
    <2> QED
      BY <2>3, <2>4 DEF Sound, Books, cut, taken
  <1>3. CASE m \notin Removals
    <2> DEFINE p == Post(queued, m, "dispatched")
               q == [p EXCEPT !.turns = Append(@, m)]
    <2>1. cut = taken
      BY <1>3
    <2>2. DOMAIN queued = RecordFields /\ queued.queue = Append(r.queue, m)
          /\ queued.turns = r.turns /\ queued.skewed = r.skewed /\ queued.run = r.run
      BY <1>1, <2>1, FieldsOfRecord
    <2> HIDE DEF queued
    <2>3. SameQueues(queued, p) /\ p.run = queued.run
      BY <2>2, PostFacts
    <2> HIDE DEF p
    <2>4. DOMAIN q = RecordFields /\ q.queue = Append(r.queue, m)
          /\ q.turns = Append(r.turns, m) /\ q.skewed = r.skewed /\ q.run = r.run
      BY <2>2, <2>3, FieldsOfRecord DEF SameQueues
    <2> HIDE DEF q, cut, taken
    <2>5. DeliverQueued(cut, m) = q
      BY <1>3 DEF DeliverQueued, q, p, queued
    <2>6. Sound(q, c)
      BY <2>4 DEF Sound, Books
    <2> QED
      BY <2>5, <2>6 DEF cut, taken
  <1> QED
    BY <1>2, <1>3

\* A turn that ends with nothing to follow.
LEMMA SoundIdle ==
    ASSUME NEW r, NEW c, Sound(r, c),
           OnResult(r).queue = <<>> \/ ~c.writable
    PROVE  Sound(OnResult(r), [c EXCEPT !.busy = FALSE, !.turn = None])
  <1> DEFINE done == OnResult(r)
             kid == [c EXCEPT !.busy = FALSE, !.turn = None]
  <1>1. /\ DOMAIN done = RecordFields /\ done.queue = r.queue
        /\ ~done.skewed => ~r.skewed /\ done.turns = r.turns /\ done.run = None
    BY ResultFacts DEF Sound
  <1>2. DOMAIN kid = ChildFields /\ kid.writable = c.writable /\ kid.turn = None
    BY FieldsOfChild DEF Sound
  <1> HIDE DEF done, kid
  <1>3. done.queue = <<>> \/ ~kid.writable
    BY <1>2 DEF done
  <1>4. Sound(done, kid)
    BY <1>1, <1>2, <1>3 DEF Sound, Books, Idle
  <1> QED
    BY <1>4 DEF done, kid

\* A turn that ends with another one to follow.
LEMMA SoundFlushed ==
    ASSUME NEW r, NEW c, Sound(r, c), OnResult(r).queue # <<>>
    PROVE  LET done == OnResult(r)
               kid == [c EXCEPT !.busy = FALSE, !.turn = None]
               next == WriteTurn([done EXCEPT !.queue = Tail(@)], kid, Head(done.queue))
           IN  Sound(next.record, next.child)
  <1> DEFINE done == OnResult(r)
             kid == [c EXCEPT !.busy = FALSE, !.turn = None]
             rest == [done EXCEPT !.queue = Tail(@)]
             m == Head(done.queue)
             sent == OnMessageSent(rest)
             works == [kid EXCEPT !.busy = TRUE, !.turn = m]
  <1>1. /\ DOMAIN done = RecordFields /\ done.queue = r.queue
        /\ ~done.skewed => ~r.skewed /\ done.turns = r.turns /\ done.run = None
    BY ResultFacts DEF Sound
  <1>2. /\ DOMAIN rest = RecordFields /\ rest.queue = Tail(done.queue) /\ rest.turns = done.turns
        /\ rest.skewed = done.skewed /\ rest.run = done.run
    BY <1>1, FieldsOfRecord
  <1>3. ~done.skewed => done.turns = done.queue
    BY <1>1 DEF Sound, Books
  <1>4. done.queue # <<>>
    OBVIOUS
  <1>5. DOMAIN works = ChildFields /\ works.busy = TRUE /\ works.turn = m
    BY FieldsOfChild DEF Sound
  <1> HIDE DEF done, kid, rest, m
  <1>6. /\ DOMAIN sent = RecordFields /\ sent.queue = rest.queue /\ sent.skewed = rest.skewed
        /\ rest.turns # <<>> =>
             /\ sent.turns = Tail(rest.turns)
             /\ sent.run = IF Head(rest.turns) \in TaskRuns THEN Head(rest.turns) ELSE rest.run
    BY <1>2, MessageSentFacts
  <1> HIDE DEF sent, works
  <1>7. ~sent.skewed => sent.turns = sent.queue /\ sent.run \in {m, None}
    BY <1>1, <1>2, <1>3, <1>4, <1>6 DEF m
  <1>8. Sound(sent, works)
    BY <1>5, <1>6, <1>7 DEF Sound, Books, Idle
  <1>9. WriteTurn(rest, kid, m) = [record |-> sent, child |-> works]
    BY DEF WriteTurn, sent, works
  <1> QED
    BY <1>8, <1>9 DEF done, kid, rest, m

---------------------------------------------------------------------------
\* A handler of launch g: the launch has begun, and stays sound.
LEMMA LocalStep ==
    ASSUME LaunchInv, FreshInv, NEW g \in Launches, g <= launches,
           NEW r, NEW c, Sound(r, c),
           records' = [records EXCEPT ![g] = r], children' = [children EXCEPT ![g] = c],
           launches' = launches, current' \in {current, 0}
    PROVE  LaunchInv' /\ FreshInv'
  <1> USE ClaudeRuntimeAssumption DEF ClaudeRuntimeAssumption
  <1>1. DOMAIN records = Launches /\ DOMAIN children = Launches
    BY DEF FreshInv
  <1>2. LaunchInv'
    <2> SUFFICES ASSUME NEW h \in Launches PROVE Sound(records'[h], children'[h])
      BY DEF LaunchInv
    <2>1. CASE h = g
      BY <1>1, <2>1
    <2>2. CASE h # g
      BY <1>1, <2>2 DEF LaunchInv
    <2> QED
      BY <2>1, <2>2
  <1>3. current' \in 0 .. launches' /\ launches' \in 0 .. MaxLaunches
    BY DEF FreshInv
  <1>4. /\ records' = [h \in Launches |-> records'[h]]
        /\ children' = [h \in Launches |-> children'[h]]
    BY <1>1
  <1>5. ASSUME NEW h \in Launches, launches' < h
        PROVE  records'[h] = Launched /\ children'[h] = NoChild
    <2>1. h # g
      BY <1>5, <1>3 DEF Launches
    <2> QED
      BY <1>1, <1>5, <2>1 DEF FreshInv
  <1> QED
    BY <1>2, <1>3, <1>4, <1>5 DEF FreshInv

\* A launch begins, from whatever sound records and children.
LEMMA LaunchStep ==
    ASSUME FreshInv, NEW recs, NEW kids, NEW toks,
           recs = [g \in Launches |-> recs[g]], kids = [g \in Launches |-> kids[g]],
           \A g \in Launches : Sound(recs[g], kids[g]),
           \A g \in Launches : launches < g => recs[g] = Launched /\ kids[g] = NoChild,
           Launch(recs, kids, toks)
    PROVE  LaunchInv' /\ FreshInv'
  <1> USE ClaudeRuntimeAssumption DEF ClaudeRuntimeAssumption
  <1> DEFINE new == launches + 1
  <1>1. /\ new \in Launches /\ launches < new /\ launches' = new /\ current' = new
        /\ records' = recs /\ children' = [kids EXCEPT ![new] = Spawned]
    BY DEF Launch, FreshInv, Launches
  <1>2. Sound(Launched, Spawned)
    BY FieldsOfRecord, FieldsOfChild
       DEF Sound, Books, Idle, Launched, Spawned, NoChild, RecordFields, ChildFields
  <1> HIDE DEF new
  <1>3. LaunchInv'
    <2> SUFFICES ASSUME NEW h \in Launches PROVE Sound(records'[h], children'[h])
      BY DEF LaunchInv
    <2>1. CASE h = new
      BY <1>1, <1>2, <2>1
    <2>2. CASE h # new
      BY <1>1, <2>2
    <2> QED
      BY <2>1, <2>2
  <1>4. FreshInv'
    <2>1. current' \in 0 .. launches' /\ launches' \in 0 .. MaxLaunches
      BY <1>1 DEF FreshInv, Launches
    <2>2. /\ records' = [h \in Launches |-> records'[h]]
          /\ children' = [h \in Launches |-> children'[h]]
      BY <1>1
    <2>3. ASSUME NEW h \in Launches, launches' < h
          PROVE  records'[h] = Launched /\ children'[h] = NoChild
      <3>1. launches < h /\ h # new
        BY <1>1, <2>3 DEF FreshInv, Launches, new
      <3> QED
        BY <1>1, <3>1
    <2> QED
      BY <2>1, <2>2, <2>3 DEF FreshInv
  <1> QED
    BY <1>3, <1>4

\* What a stop leaves.
LEMMA StoppedFacts ==
    ASSUME LaunchInv, FreshInv, current # 0
    PROVE  /\ current \in Launches /\ current <= launches
           /\ Sound(OnStop(records[current]), Terminated(children[current], TRUE))
           /\ StoppedRecords = [records EXCEPT ![current] = OnStop(records[current])]
           /\ StoppedChildren = [children EXCEPT ![current] = Terminated(children[current], TRUE)]
  <1>1. current \in Launches /\ current <= launches
    BY ClaudeRuntimeAssumption DEF ClaudeRuntimeAssumption, FreshInv, Launches
  <1>2. Sound(records[current], children[current])
    BY <1>1 DEF LaunchInv
  <1>3. Sound(OnStop(records[current]), children[current])
    BY <1>2, StopFacts, SoundHandler DEF Sound
  <1>4. DOMAIN children[current] = ChildFields
    BY <1>2 DEF Sound
  <1>5. Sound(OnStop(records[current]), Terminated(children[current], TRUE))
    <2> DEFINE c == children[current]
               d == Terminated(c, TRUE)
    <2>1. /\ DOMAIN d = ChildFields /\ d.state = c.state /\ d.turn = c.turn /\ d.busy = c.busy
          /\ d.writable = c.writable
      BY <1>4, TerminatedFacts
    <2> HIDE DEF c, d
    <2>2. Sound(OnStop(records[current]), c)
      BY <1>3 DEF c
    <2>3. Sound(OnStop(records[current]), d)
      BY <2>1, <2>2, SoundChild
    <2> QED
      BY <2>3 DEF c, d
  <1> QED
    BY <1>1, <1>5 DEF StoppedRecords, StoppedChildren

\* A launch with something to do has begun.
LEMMA Begun ==
    ASSUME FreshInv, NEW g \in Launches,
           \/ Up(g) \/ current = g \/ records[g].chain # <<>> \/ records[g].restart
    PROVE  g <= launches
  BY ClaudeRuntimeAssumption, FieldsOfRecord
     DEF ClaudeRuntimeAssumption, FreshInv, Launches, Up, Launched, NoChild

---------------------------------------------------------------------------
\* Every step keeps the launches sound.
LEMMA StepLaunches ==
    ASSUME LaunchInv, FreshInv, [Next]_vars
    PROVE  LaunchInv' /\ FreshInv'
  <1>d. /\ DOMAIN records = Launches /\ records = [g \in Launches |-> records[g]]
        /\ DOMAIN children = Launches /\ children = [g \in Launches |-> children[g]]
    BY DEF FreshInv
  <1>s. ASSUME NEW g \in Launches
        PROVE  /\ Sound(records[g], children[g])
               /\ DOMAIN records[g] = RecordFields /\ DOMAIN children[g] = ChildFields
    BY DEF LaunchInv, Sound
  <1>c. ASSUME current # 0 PROVE current \in Launches /\ current <= launches
    BY <1>c, ClaudeRuntimeAssumption DEF ClaudeRuntimeAssumption, FreshInv, Launches
  \* A step of which nothing but these two matters.
  <1>l. ASSUME NEW g \in Launches, g <= launches, NEW r, NEW c, Sound(r, c),
               records' = [records EXCEPT ![g] = r], children' = [children EXCEPT ![g] = c],
               launches' = launches, current' \in {current, 0}
        PROVE  LaunchInv' /\ FreshInv'
    BY <1>l, LocalStep
  <1>1. CASE Receive
    <2> DEFINE r == [records[current] EXCEPT !.chain = Append(@, received + 1)]
    <2>1. current \in Launches /\ current <= launches
      BY <1>1, <1>c DEF Receive
    <2>2. SameQueues(records[current], r) /\ r.run = records[current].run
      BY <1>s, <2>1, FieldsOfRecord DEF SameQueues
    <2>3. Sound(r, children[current])
      BY <1>s, <2>1, <2>2, SoundHandler
    <2>4. /\ records' = [records EXCEPT ![current] = r]
          /\ children' = [children EXCEPT ![current] = children[current]]
          /\ launches' = launches /\ current' = current
      BY <1>1, <1>d DEF Receive
    <2> HIDE DEF r
    <2> QED
      BY <1>l, <2>1, <2>3, <2>4
  <1>2. CASE StartCommand
    <2>1. Launch(records, children, tokens)
      BY <1>2 DEF StartCommand
    <2> QED
      BY <1>d, <1>s, <2>1, LaunchStep DEF FreshInv
  <1>3. CASE StopCommand
    <2>1. /\ records' = [records EXCEPT ![current] = OnStop(records[current])]
          /\ children' = [children EXCEPT ![current] = Terminated(children[current], TRUE)]
          /\ launches' = launches /\ current' = 0
      BY <1>3, StoppedFacts DEF StopCommand
    <2> QED
      BY <1>3, <1>l, <2>1, StoppedFacts DEF StopCommand
  <1>4. CASE RestartCommand
    <2> DEFINE r == OnStop(records[current])
               c == Terminated(children[current], TRUE)
    <2>1. /\ current \in Launches /\ current <= launches /\ Sound(r, c)
          /\ StoppedRecords = [records EXCEPT ![current] = r]
          /\ StoppedChildren = [children EXCEPT ![current] = c]
      BY <1>4, StoppedFacts DEF RestartCommand
    <2>2. Launch(StoppedRecords, StoppedChildren, tokens \ {current})
      BY <1>4 DEF RestartCommand
    <2> HIDE DEF r, c
    <2>3. /\ StoppedRecords = [g \in Launches |-> StoppedRecords[g]]
          /\ StoppedChildren = [g \in Launches |-> StoppedChildren[g]]
      BY <1>d, <2>1
    <2>4. ASSUME NEW g \in Launches PROVE Sound(StoppedRecords[g], StoppedChildren[g])
      <3>1. CASE g = current
        BY <1>d, <2>1, <3>1
      <3>2. CASE g # current
        BY <1>d, <1>s, <2>1, <3>2
      <3> QED
        BY <3>1, <3>2
    <2>5. ASSUME NEW g \in Launches, launches < g
          PROVE  StoppedRecords[g] = Launched /\ StoppedChildren[g] = NoChild
      <3>1. g # current
        BY <2>1, <2>5 DEF FreshInv, Launches
      <3> QED
        BY <1>d, <2>1, <2>5, <3>1 DEF FreshInv
    <2> QED
      BY <2>2, <2>3, <2>4, <2>5, LaunchStep
  <1>5. CASE ControlCommand
    <2> DEFINE written == WriteTurn(records[current], children[current], ControlTurn)
    <2>1. current \in Launches /\ current <= launches /\ Idle(children[current])
      BY <1>5, <1>c DEF ControlCommand
    <2>2. Sound(written.record, written.child)
      <3> DEFINE r == records[current]
                 c == children[current]
                 sent == OnMessageSent(r)
                 kid == [c EXCEPT !.busy = TRUE, !.turn = ControlTurn]
      <3>1. Sound(r, c) /\ DOMAIN r = RecordFields /\ DOMAIN c = ChildFields
        BY <1>s, <2>1
      <3>2. ~r.skewed => r.turns = <<>> /\ r.queue = <<>> /\ r.run = None
        BY <2>1, <3>1 DEF Sound, Books, Idle
      <3>3. DOMAIN kid = ChildFields /\ kid.busy = TRUE
        BY <3>1, FieldsOfChild
      <3>4. /\ DOMAIN sent = RecordFields /\ sent.queue = r.queue /\ sent.skewed = r.skewed
            /\ ~r.skewed => sent.turns = <<>> /\ sent.run = None
        BY <3>1, <3>2, MessageSentFacts
      <3> HIDE DEF sent, kid, r, c
      <3>5. Sound(sent, kid)
        BY <3>2, <3>3, <3>4 DEF Sound, Books, Idle
      <3>6. written = [record |-> sent, child |-> kid]
        BY DEF WriteTurn, sent, kid, r, c
      <3> HIDE DEF written
      <3> QED
        BY <3>5, <3>6
    <2>3. /\ records' = [records EXCEPT ![current] = written.record]
          /\ children' = [children EXCEPT ![current] = written.child]
          /\ launches' = launches /\ current' = current
      BY <1>5 DEF ControlCommand
    <2> HIDE DEF written
    <2> QED
      BY <1>l, <2>1, <2>2, <2>3
  <1>6. CASE CancelTurn
    <2>1. current \in Launches /\ current <= launches
      BY <1>6, <1>c DEF CancelTurn
    <2>2. Sound(MarkProgress(records[current]), children[current])
      BY <1>s, <2>1, MarkFacts, SoundHandler
    <2>3. /\ records' = [records EXCEPT ![current] = MarkProgress(records[current])]
          /\ children' = [children EXCEPT ![current] = children[current]]
          /\ launches' = launches /\ current' = current
      BY <1>6, <1>d DEF CancelTurn
    <2> QED
      BY <1>l, <2>1, <2>2, <2>3
  <1>7. CASE Tick
    <2> DEFINE r == [records[current] EXCEPT !.quiet = @ + 1]
    <2>1. current \in Launches /\ current <= launches
      BY <1>7, <1>c DEF Tick
    <2>2. SameQueues(records[current], r) /\ r.run = records[current].run
      BY <1>s, <2>1, FieldsOfRecord DEF SameQueues
    <2>3. Sound(r, children[current])
      BY <1>s, <2>1, <2>2, SoundHandler
    <2>4. /\ records' = [records EXCEPT ![current] = r]
          /\ children' = [children EXCEPT ![current] = children[current]]
          /\ launches' = launches /\ current' = current
      BY <1>7, <1>d DEF Tick
    <2> HIDE DEF r
    <2> QED
      BY <1>l, <2>1, <2>3, <2>4
  <1>8. ASSUME NEW g \in Launches, Deliver(g) PROVE LaunchInv' /\ FreshInv'
    <2> DEFINE m == Head(records[g].chain)
               taken == [records[g] EXCEPT !.chain = Tail(@)]
               cut == IF m \in Removals THEN CutOff(taken, ChannelOf[m]) ELSE taken
               written == WriteTurn(cut, children[g], m)
               sent == DeliverSent(written.record, m)
               queued == DeliverQueued(cut, m)
    <2>1. g <= launches
      BY <1>8, Begun DEF Deliver
    <2>2. CASE Idle(children[g])
      <3>1. Sound(sent, written.child)
        BY <1>s, <2>2, SoundSent
      <3>2. /\ records' = [records EXCEPT ![g] = sent]
            /\ children' = [children EXCEPT ![g] = written.child]
            /\ launches' = launches /\ current' = current
        BY <1>8, <2>2 DEF Deliver
      <3> HIDE DEF sent, written
      <3> QED
        BY <1>l, <2>1, <3>1, <3>2
    <2>3. CASE ~Idle(children[g])
      <3>1. Sound(queued, children[g])
        BY <1>s, <2>3, SoundQueued
      <3>2. /\ records' = [records EXCEPT ![g] = queued]
            /\ children' = [children EXCEPT ![g] = children[g]]
            /\ launches' = launches /\ current' = current
        BY <1>8, <1>d, <2>3 DEF Deliver
      <3> HIDE DEF queued
      <3> QED
        BY <1>l, <2>1, <3>1, <3>2
    <2> QED
      BY <2>2, <2>3
  <1>9. ASSUME NEW g \in Launches, ToolEvent(g) PROVE LaunchInv' /\ FreshInv'
    <2>1. g <= launches
      BY <1>9, Begun DEF ToolEvent, Works
    <2>2. PICK probe \in {records[g], MarkReady(records[g])} :
              records' = [records EXCEPT ![g] = OnToolEvent(probe)]
      BY <1>9 DEF ToolEvent
    <2>3. SameQueues(records[g], probe) /\ probe.run = records[g].run
      BY <1>s, MarkFacts DEF SameQueues
    <2>4. SameQueues(records[g], OnToolEvent(probe)) /\ OnToolEvent(probe).run = records[g].run
      BY <2>3, ToolEventFacts DEF SameQueues
    <2>5. Sound(OnToolEvent(probe), children[g])
      BY <1>s, <2>4, SoundHandler
    <2>6. /\ children' = [children EXCEPT ![g] = children[g]]
          /\ launches' = launches /\ current' = current
      BY <1>9, <1>d DEF ToolEvent
    <2> QED
      BY <1>l, <2>1, <2>2, <2>5, <2>6
  <1>10. ASSUME NEW g \in Launches, Result(g) PROVE LaunchInv' /\ FreshInv'
    <2> DEFINE done == OnResult(records[g])
               kid == [children[g] EXCEPT !.busy = FALSE, !.turn = None]
               next == WriteTurn([done EXCEPT !.queue = Tail(@)], kid, Head(done.queue))
    <2>1. g <= launches
      BY <1>10, Begun DEF Result, Works
    <2>2. kid.writable = children[g].writable
      BY <1>s, FieldsOfChild
    <2>3. CASE done.queue # <<>> /\ kid.writable
      <3>1. Sound(next.record, next.child)
        BY <1>s, <2>3, SoundFlushed
      <3>2. /\ records' = [records EXCEPT ![g] = next.record]
            /\ children' = [children EXCEPT ![g] = next.child]
            /\ launches' = launches /\ current' = current
        BY <1>10, <2>3 DEF Result
      <3> HIDE DEF next
      <3> QED
        BY <1>l, <2>1, <3>1, <3>2
    <2>4. CASE ~(done.queue # <<>> /\ kid.writable)
      <3>1. Sound(done, kid)
        BY <1>s, <2>2, <2>4, SoundIdle
      <3>2. /\ records' = [records EXCEPT ![g] = done]
            /\ children' = [children EXCEPT ![g] = kid]
            /\ launches' = launches /\ current' = current
        BY <1>10, <2>4 DEF Result
      <3> HIDE DEF done, kid
      <3> QED
        BY <1>l, <2>1, <3>1, <3>2
    <2> QED
      BY <2>3, <2>4
  <1>11. ASSUME NEW g \in Launches, Exit(g) PROVE LaunchInv' /\ FreshInv'
    <2> DEFINE i == children[g].stopping
               out == OnExit(records[g], i)
               r == [out EXCEPT !.restart = RestartOnCrash /\ ~i]
               c == [NoChild EXCEPT !.state = "exited"]
    <2>1. g <= launches
      BY <1>11, Begun DEF Exit
    <2>2. SameQueues(records[g], out) /\ out.run \in {records[g].run, None}
      BY <1>s, ExitFacts
    <2> HIDE DEF out
    <2>3. SameQueues(records[g], r) /\ r.run \in {records[g].run, None}
      BY <2>2, FieldsOfRecord DEF SameQueues
    <2> HIDE DEF r
    <2>4. DOMAIN c = ChildFields /\ c.state = "exited" /\ c.writable = FALSE
      BY FieldsOfChild DEF NoChild
    <2>5. Sound(r, c)
      BY <1>s, <2>3, <2>4, SoundHandler, SoundChild
    <2>6. /\ records' = [records EXCEPT ![g] = r]
          /\ children' = [children EXCEPT ![g] = c]
          /\ launches' = launches /\ current' \in {current, 0}
      BY <1>11 DEF Exit, r, out
    <2> HIDE DEF c
    <2> QED
      BY <1>l, <2>1, <2>5, <2>6
  <1>12. ASSUME NEW g \in Launches, SpawnError(g) PROVE LaunchInv' /\ FreshInv'
    <2> DEFINE c == [children[g] EXCEPT !.state = "lost", !.writable = FALSE]
    <2>1. g <= launches
      BY <1>12, Begun DEF SpawnError
    <2>2. DOMAIN c = ChildFields /\ c.state = "lost" /\ c.writable = FALSE
      BY <1>s, FieldsOfChild
    <2>3. Sound(OnError(records[g]), children[g])
      BY <1>s, ErrorFacts, SoundHandler
    <2>4. /\ records' = [records EXCEPT ![g] = OnError(records[g])]
          /\ children' = [children EXCEPT ![g] = c]
          /\ launches' = launches /\ current' = current
      BY <1>12 DEF SpawnError
    <2> HIDE DEF c
    <2>5. Sound(OnError(records[g]), c)
      BY <2>2, <2>3, SoundChild
    <2> QED
      BY <1>l, <2>1, <2>4, <2>5
  <1>13. ASSUME NEW g \in Launches, Hang(g) \/ CloseStdin(g) PROVE LaunchInv' /\ FreshInv'
    <2> DEFINE hung == [children[g] EXCEPT !.hung = TRUE]
               closed == [children[g] EXCEPT !.writable = FALSE]
    <2>1. g <= launches
      BY <1>13, Begun DEF Hang, CloseStdin, Works
    <2>2. Sound(records[g], hung) /\ Sound(records[g], closed)
      BY <1>s, FieldsOfChild, SoundChild
    <2>3. /\ records' = [records EXCEPT ![g] = records[g]]
          /\ children' = [children EXCEPT ![g] = hung] \/ children' = [children EXCEPT ![g] = closed]
          /\ launches' = launches /\ current' = current
      BY <1>13, <1>d DEF Hang, CloseStdin
    <2> HIDE DEF hung, closed
    <2> QED
      BY <1>l, <2>1, <2>2, <2>3
  <1>14. ASSUME NEW g \in Launches, RestartTimer(g) PROVE LaunchInv' /\ FreshInv'
    <2> DEFINE r == [records[g] EXCEPT !.restart = FALSE]
               fired == [records EXCEPT ![g] = r]
    <2>1. g <= launches
      BY <1>14, Begun DEF RestartTimer
    <2>2. SameQueues(records[g], r) /\ r.run = records[g].run
      BY <1>s, FieldsOfRecord DEF SameQueues
    <2>3. Sound(r, children[g])
      BY <1>s, <2>2, SoundHandler
    <2>4. CASE current = 0 /\ launches < MaxLaunches
      <3>1. Launch(fired, children, tokens)
        BY <1>14, <2>4 DEF RestartTimer
      <3> HIDE DEF r
      <3>2. fired = [h \in Launches |-> fired[h]]
        BY <1>d
      <3>3. ASSUME NEW h \in Launches PROVE Sound(fired[h], children[h])
        <4>1. CASE h = g
          BY <1>d, <2>3, <4>1
        <4>2. CASE h # g
          BY <1>d, <1>s, <4>2
        <4> QED
          BY <4>1, <4>2
      <3>4. ASSUME NEW h \in Launches, launches < h
            PROVE  fired[h] = Launched /\ children[h] = NoChild
        <4>1. h # g
          BY <2>1, <3>4 DEF FreshInv, Launches
        <4> QED
          BY <1>d, <3>4, <4>1 DEF FreshInv
      <3> HIDE DEF fired
      <3> QED
        BY <1>d, <3>1, <3>2, <3>3, <3>4, LaunchStep
    <2>5. CASE ~(current = 0 /\ launches < MaxLaunches)
      <3>1. /\ records' = fired
            /\ children' = [children EXCEPT ![g] = children[g]]
            /\ launches' = launches /\ current' = current
        BY <1>14, <1>d, <2>5 DEF RestartTimer
      <3> HIDE DEF r
      <3> QED
        BY <1>l, <2>1, <2>3, <3>1
    <2> QED
      BY <2>4, <2>5
  <1>15. ASSUME NEW g \in Launches, WarmupTimer(g) PROVE LaunchInv' /\ FreshInv'
    <2>1. g <= launches
      BY <1>15, Begun DEF WarmupTimer
    <2>2. Sound(MarkReady(records[g]), children[g])
      BY <1>s, MarkFacts, SoundHandler
    <2>3. /\ records' = [records EXCEPT ![g] = MarkReady(records[g])]
          /\ children' = [children EXCEPT ![g] = children[g]]
          /\ launches' = launches /\ current' = current
      BY <1>15, <1>d DEF WarmupTimer
    <2> QED
      BY <1>l, <2>1, <2>2, <2>3
  <1>16. ASSUME NEW g \in Launches, Watch(g) PROVE LaunchInv' /\ FreshInv'
    <2> DEFINE c == Terminated(children[g], FALSE)
    <2>1. g <= launches
      BY <1>16, Begun DEF Watch
    <2>2. Sound(MarkProgress(records[g]), children[g])
      BY <1>s, MarkFacts, SoundHandler
    <2>t. /\ DOMAIN c = ChildFields /\ c.state = children[g].state /\ c.turn = children[g].turn
          /\ c.busy = children[g].busy /\ c.writable = children[g].writable
      BY <1>s, TerminatedFacts
    <2> HIDE DEF c
    <2>3. Sound(records[g], c)
      BY <1>s, <2>t, SoundChild
    <2> USE DEF c
    <2>4. /\ launches' = launches /\ current' = current
          /\ \/ /\ records' = [records EXCEPT ![g] = MarkProgress(records[g])]
                /\ children' = [children EXCEPT ![g] = children[g]]
             \/ /\ records' = [records EXCEPT ![g] = records[g]]
                /\ children' = [children EXCEPT ![g] = c]
      BY <1>16, <1>d DEF Watch
    <2> HIDE DEF c
    <2> QED
      BY <1>l, <2>1, <2>2, <2>3, <2>4
  <1>17. CASE UNCHANGED vars
    BY <1>17 DEF vars, LaunchInv, FreshInv
  <1> QED
    BY <1>1, <1>2, <1>3, <1>4, <1>5, <1>6, <1>7, <1>8, <1>9, <1>10, <1>11, <1>12, <1>13,
       <1>14, <1>15, <1>16, <1>17 DEF Next

---------------------------------------------------------------------------
\* A step that changes the child of one launch only, keeps its state and does not
\* take a signal back.
LEMMA OwnedLocal ==
    ASSUME FreshInv, ChildrenAreOwned, NEW g \in Launches, NEW c,
           children' = [children EXCEPT ![g] = c],
           c.state = children[g].state \/ (children[g].state = "up" /\ c.state = "lost"),
           children[g].signalled => c.signalled,
           current' = current, tokens' = tokens
    PROVE  ChildrenAreOwned'
  <1>1. \A h \in Launches : children'[h] = IF h = g THEN c ELSE children[h]
    BY DEF FreshInv
  <1>2. current # 0 => current \in Launches
    BY ClaudeRuntimeAssumption DEF ClaudeRuntimeAssumption, FreshInv, Launches
  <1>3. current' # 0 => children'[current'].state \in {"up", "lost"}
    BY <1>1, <1>2 DEF ChildrenAreOwned
  <1>4. \A h \in Launches : Up(h)' /\ h # current' => children'[h].signalled
    BY <1>1 DEF ChildrenAreOwned, Up
  <1> QED
    BY <1>3, <1>4 DEF ChildrenAreOwned

\* A launch begins while no child but those that were told to end is left.
LEMMA OwnedLaunch ==
    ASSUME FreshInv, NEW recs, NEW kids, NEW toks, toks = {},
           kids = [g \in Launches |-> kids[g]],
           \A g \in Launches : kids[g].state = "up" => kids[g].signalled,
           Launch(recs, kids, toks)
    PROVE  ChildrenAreOwned'
  <1> DEFINE new == launches + 1
  <1>1. /\ new \in Launches /\ new # 0 /\ current' = new /\ tokens' = {new}
        /\ children' = [kids EXCEPT ![new] = Spawned]
    BY ClaudeRuntimeAssumption DEF ClaudeRuntimeAssumption, Launch, FreshInv, Launches
  <1> HIDE DEF new
  <1>2. Spawned.state = "up"
    BY DEF Spawned, NoChild
  <1>3. \A h \in Launches : children'[h] = IF h = new THEN Spawned ELSE kids[h]
    BY <1>1
  <1>4. tokens' = {current'} \ {0}
    BY <1>1
  <1>5. children'[current'].state \in {"up", "lost"}
    BY <1>1, <1>2, <1>3
  <1>6. \A h \in Launches : Up(h)' /\ h # current' => children'[h].signalled
    BY <1>1, <1>3 DEF Up
  <1> QED
    BY <1>4, <1>5, <1>6 DEF ChildrenAreOwned

\* A stop leaves no token, and no child that was not told to end.
LEMMA OwnedStop ==
    ASSUME LaunchInv, FreshInv, ChildrenAreOwned, current # 0
    PROVE  /\ tokens \ {current} = {}
           /\ StoppedChildren = [g \in Launches |-> StoppedChildren[g]]
           /\ \A g \in Launches : StoppedChildren[g].state = "up" => StoppedChildren[g].signalled
  <1> DEFINE d == Terminated(children[current], TRUE)
  <1>1. current \in Launches /\ StoppedChildren = [children EXCEPT ![current] = d]
    BY StoppedFacts
  <1>2. DOMAIN children[current] = ChildFields
    BY <1>1 DEF LaunchInv, Sound
  <1>3. d.state = "up" => d.signalled
    BY <1>2, TerminatedFacts
  <1> HIDE DEF d
  <1>4. \A g \in Launches : StoppedChildren[g] = IF g = current THEN d ELSE children[g]
    BY <1>1 DEF FreshInv
  <1>5. StoppedChildren = [g \in Launches |-> StoppedChildren[g]]
    BY <1>1 DEF FreshInv
  <1>6. tokens \ {current} = {}
    BY DEF ChildrenAreOwned
  <1>7. \A g \in Launches : StoppedChildren[g].state = "up" => StoppedChildren[g].signalled
    BY <1>3, <1>4 DEF ChildrenAreOwned, Up
  <1> QED
    BY <1>5, <1>6, <1>7

\* Every step keeps the map, the children and the tokens together.
LEMMA StepOwned ==
    ASSUME LaunchInv, FreshInv, ChildrenAreOwned, [Next]_vars
    PROVE  ChildrenAreOwned'
  <1>d. ASSUME NEW g \in Launches PROVE DOMAIN children[g] = ChildFields
    BY DEF LaunchInv, Sound
  <1>c. current # 0 => current \in Launches
    BY ClaudeRuntimeAssumption DEF ClaudeRuntimeAssumption, FreshInv, Launches
  <1>1. CASE UNCHANGED <<children, current, tokens>>
    BY <1>1 DEF ChildrenAreOwned, Up
  <1>2. CASE StartCommand
    <2>1. /\ Launch(records, children, tokens)
          /\ tokens = {} /\ \A g \in Launches : children[g].state = "up" => children[g].signalled
      BY <1>2 DEF StartCommand, ChildrenAreOwned, Up, Launches
    <2> QED
      BY <2>1, OwnedLaunch DEF FreshInv
  <1>3. CASE StopCommand
    <2>1. /\ current # 0 /\ children' = StoppedChildren /\ current' = 0
          /\ tokens' = tokens \ {current}
      BY <1>3 DEF StopCommand
    <2>2. /\ tokens' = {}
          /\ \A g \in Launches : children'[g].state = "up" => children'[g].signalled
      BY <2>1, OwnedStop
    <2> QED
      BY <2>1, <2>2 DEF ChildrenAreOwned, Up
  <1>4. CASE RestartCommand
    <2>1. current # 0 /\ Launch(StoppedRecords, StoppedChildren, tokens \ {current})
      BY <1>4 DEF RestartCommand
    <2> QED
      BY <2>1, OwnedStop, OwnedLaunch
  <1>5. CASE ControlCommand
    <2> DEFINE written == WriteTurn(records[current], children[current], ControlTurn)
    <2>1. /\ current \in Launches /\ children' = [children EXCEPT ![current] = written.child]
          /\ current' = current /\ tokens' = tokens
      BY <1>5, <1>c DEF ControlCommand
    <2>2. written.child = [children[current] EXCEPT !.busy = TRUE, !.turn = ControlTurn]
      BY DEF WriteTurn
    <2> HIDE DEF written
    <2>3. /\ written.child.state = children[current].state
          /\ written.child.signalled = children[current].signalled
      BY <1>d, <2>1, <2>2, FieldsOfChild
    <2> QED
      BY <2>1, <2>3, OwnedLocal
  <1>6. ASSUME NEW g \in Launches, Deliver(g) PROVE ChildrenAreOwned'
    <2>1. CASE UNCHANGED <<children, current, tokens>>
      BY <2>1, <1>1
    <2>2. CASE Idle(children[g])
      <3> DEFINE m == Head(records[g].chain)
                 c == [children[g] EXCEPT !.busy = TRUE, !.turn = m]
      <3>1. /\ children' = [children EXCEPT ![g] = c]
            /\ current' = current /\ tokens' = tokens
        BY <1>6, <2>2 DEF Deliver, WriteTurn
      <3>2. c.state = children[g].state /\ c.signalled = children[g].signalled
        BY <1>d, FieldsOfChild
      <3> HIDE DEF c
      <3> QED
        BY <3>1, <3>2, OwnedLocal
    <2> QED
      BY <1>6, <2>1, <2>2 DEF Deliver
  <1>7. ASSUME NEW g \in Launches, Result(g) PROVE ChildrenAreOwned'
    <2> DEFINE kid == [children[g] EXCEPT !.busy = FALSE, !.turn = None]
               m == Head(OnResult(records[g]).queue)
               works == [kid EXCEPT !.busy = TRUE, !.turn = m]
    <2>1. /\ children' = [children EXCEPT ![g] = works] \/ children' = [children EXCEPT ![g] = kid]
          /\ current' = current /\ tokens' = tokens
      BY <1>7 DEF Result, WriteTurn
    <2>2. kid.state = children[g].state /\ kid.signalled = children[g].signalled
      BY <1>d, FieldsOfChild
    <2>3. works.state = children[g].state /\ works.signalled = children[g].signalled
      BY <1>d, FieldsOfChild
    <2> HIDE DEF kid, works
    <2> QED
      BY <2>1, <2>2, <2>3, OwnedLocal
  <1>8. ASSUME NEW g \in Launches, Exit(g) PROVE ChildrenAreOwned'
    <2>1. /\ children' = [children EXCEPT ![g] = [NoChild EXCEPT !.state = "exited"]]
          /\ current' = IF current = g THEN 0 ELSE current
          /\ tokens' = tokens \ {g}
      BY <1>8 DEF Exit
    <2>2. \A h \in Launches : h # g => children'[h] = children[h]
      BY <2>1 DEF FreshInv
    <2>3. children'[g].state = "exited"
      BY <2>1 DEF FreshInv, NoChild
    <2>4. tokens' = {current'} \ {0}
      BY <2>1 DEF ChildrenAreOwned, Launches
    <2>5. current' # 0 => children'[current'].state \in {"up", "lost"}
      BY <1>c, <2>1, <2>2 DEF ChildrenAreOwned
    <2>6. \A h \in Launches : Up(h)' /\ h # current' => children'[h].signalled
      BY <2>1, <2>2, <2>3 DEF ChildrenAreOwned, Up
    <2> QED
      BY <2>4, <2>5, <2>6 DEF ChildrenAreOwned
  <1>9. ASSUME NEW g \in Launches, SpawnError(g) \/ Hang(g) \/ CloseStdin(g)
        PROVE  ChildrenAreOwned'
    <2> DEFINE lost == [children[g] EXCEPT !.state = "lost", !.writable = FALSE]
               hung == [children[g] EXCEPT !.hung = TRUE]
               closed == [children[g] EXCEPT !.writable = FALSE]
    <2>1. /\ children[g].state = "up" /\ current' = current /\ tokens' = tokens
          /\ \/ children' = [children EXCEPT ![g] = lost]
             \/ children' = [children EXCEPT ![g] = hung]
             \/ children' = [children EXCEPT ![g] = closed]
      BY <1>9 DEF SpawnError, Hang, CloseStdin, Works, Up
    <2>2. /\ lost.state = "lost" /\ lost.signalled = children[g].signalled
          /\ hung.state = children[g].state /\ hung.signalled = children[g].signalled
          /\ closed.state = children[g].state /\ closed.signalled = children[g].signalled
      BY <1>d, FieldsOfChild
    <2> HIDE DEF lost, hung, closed
    <2> QED
      BY <2>1, <2>2, OwnedLocal
  <1>10. ASSUME NEW g \in Launches, RestartTimer(g) PROVE ChildrenAreOwned'
    <2> DEFINE fired == [records EXCEPT ![g].restart = FALSE]
    <2>1. CASE current = 0 /\ Launch(fired, children, tokens)
      <3>1. tokens = {} /\ \A h \in Launches : children[h].state = "up" => children[h].signalled
        BY <2>1 DEF ChildrenAreOwned, Up, Launches
      <3> HIDE DEF fired
      <3> QED
        BY <2>1, <3>1, OwnedLaunch DEF FreshInv
    <2> QED
      BY <1>1, <1>10, <2>1 DEF RestartTimer
  <1>11. ASSUME NEW g \in Launches, Watch(g) PROVE ChildrenAreOwned'
    <2> DEFINE c == Terminated(children[g], FALSE)
    <2>1. CASE children' = [children EXCEPT ![g] = c] /\ current' = current /\ tokens' = tokens
      <3>1. c.state = children[g].state /\ (children[g].signalled => c.signalled)
        BY <1>d, FieldsOfChild DEF Terminated
      <3> HIDE DEF c
      <3> QED
        BY <2>1, <3>1, OwnedLocal
    <2> QED
      BY <1>1, <1>11, <2>1 DEF Watch
  <1>12. ASSUME \/ Receive \/ CancelTurn \/ Tick
                \/ \E g \in Launches : ToolEvent(g) \/ WarmupTimer(g)
                \/ UNCHANGED vars
         PROVE  UNCHANGED <<children, current, tokens>>
    BY <1>12 DEF Receive, CancelTurn, Tick, ToolEvent, WarmupTimer, vars
  <1> QED
    BY <1>1, <1>2, <1>3, <1>4, <1>5, <1>6, <1>7, <1>8, <1>9, <1>10, <1>11, <1>12 DEF Next

---------------------------------------------------------------------------
\* The invariant holds initially.
LEMMA InitIInv == Init => IInv
  <1> SUFFICES ASSUME Init PROVE IInv
    OBVIOUS
  <1>1. Sound(Launched, NoChild)
    BY DEF Sound, Books, Idle, Launched, NoChild, RecordFields, ChildFields
  <1>2. LaunchInv
    BY <1>1 DEF Init, LaunchInv
  <1>3. FreshInv
    BY ClaudeRuntimeAssumption DEF ClaudeRuntimeAssumption, Init, FreshInv
  <1>4. ChildrenAreOwned
    BY DEF Init, ChildrenAreOwned, Up, NoChild
  <1> QED
    BY <1>2, <1>3, <1>4 DEF IInv

\* The inductive invariant.
THEOREM Invariance == Spec => []IInv
  <1>1. IInv /\ [Next]_vars => IInv'
    BY StepLaunches, StepOwned DEF IInv
  <1> QED
    BY InitIInv, <1>1, PTL DEF Spec

\* However stops, restarts, crashes and exits overlap, the runtime in the map is the
\* only one with a proxy token, and any other child was told to end.
THEOREM RuntimesAreOwned == Spec => []ChildrenAreOwned
  <1>1. IInv => ChildrenAreOwned
    BY DEF IInv
  <1> QED
    BY Invariance, <1>1, PTL

\* The turns of the daemon are the prompts of the driver.
THEOREM BooksAreKept == Spec => []BooksFollowQueue
  <1>1. IInv => BooksFollowQueue
    BY DEF IInv, LaunchInv, Sound, Books, BooksFollowQueue
  <1> QED
    BY Invariance, <1>1, PTL

\* No child waits for a prompt while the driver has one.
THEOREM IdleChildHasNothing == Spec => []NothingWaitsOnIdleChild
  <1>1. IInv => NothingWaitsOnIdleChild
    BY DEF IInv, LaunchInv, Sound, NothingWaitsOnIdleChild
  <1> QED
    BY Invariance, <1>1, PTL

\* The active run is the one the child works on.
THEOREM ActiveRunIsTurn == Spec => []RunIsTurn
  <1>1. IInv => RunIsTurn
    BY DEF IInv, LaunchInv, Sound, RunIsTurn, Up
  <1> QED
    BY Invariance, <1>1, PTL

---------------------------------------------------------------------------
\* The records of all launches are in order.
OrderInv == received \in 0 .. MaxMessages /\ \A g \in Launches : Orderly(records[g], received)

\* ... and go on in order.
AllProceed == \A g \in Launches : Proceeds(records[g], records'[g], received')

\* A step that concerns one record, or none.
LEMMA OneProceeds ==
    ASSUME FreshInv, OrderInv, NEW g \in Launches, NEW r, Proceeds(records[g], r, received'),
           records' = [records EXCEPT ![g] = r], received' \in {received, received + 1}
    PROVE  AllProceed
  <1> SUFFICES ASSUME NEW h \in Launches PROVE Proceeds(records[h], records'[h], received')
    BY DEF AllProceed
  <1>1. DOMAIN records = Launches
    BY DEF FreshInv
  <1>2. CASE h = g
    BY <1>1, <1>2
  <1>3. CASE h # g
    <2>1. records'[h] = records[h] /\ Orderly(records[h], received)
      BY <1>1, <1>3 DEF OrderInv
    <2>2. /\ Proceeds(records[h], records[h], received)
          /\ Proceeds(records[h], records[h], received + 1)
      BY <2>1, MarkStep, LaterStep
    <2> QED  BY <2>1, <2>2
  <1> QED  BY <1>2, <1>3

\* A step that changes no record.
LEMMA NoneProceeds ==
    ASSUME OrderInv, records' = records, received' \in {received, received + 1}
    PROVE  AllProceed
  <1> SUFFICES ASSUME NEW h \in Launches PROVE Proceeds(records[h], records[h], received')
    BY DEF AllProceed
  <1>1. Orderly(records[h], received)
    BY DEF OrderInv
  <1>2. Proceeds(records[h], records[h], received) /\ Proceeds(records[h], records[h], received + 1)
    BY <1>1, MarkStep, LaterStep
  <1> QED  BY <1>2

\* Every step keeps the records in order, and takes no report back.
LEMMA StepProceeds ==
    ASSUME LaunchInv, FreshInv, OrderInv, [Next]_vars
    PROVE  AllProceed
  <1>d. DOMAIN records = Launches /\ received \in Nat
    BY RuntimeRecordAssumption DEF FreshInv, OrderInv
  <1>o. ASSUME NEW g \in Launches
        PROVE  /\ Orderly(records[g], received) /\ DOMAIN records[g] = RecordFields
               /\ Proceeds(records[g], records[g], received)
    BY MarkStep, TypeOfOrderly DEF OrderInv
  <1>c. current # 0 => current \in Launches
    BY ClaudeRuntimeAssumption DEF ClaudeRuntimeAssumption, FreshInv, Launches
  <1>l. ASSUME NEW g \in Launches, NEW r, Proceeds(records[g], r, received),
               records' = [records EXCEPT ![g] = r], received' \in {received, received + 1}
        PROVE  AllProceed
    <2>1. Proceeds(records[g], r, received + 1)
      BY <1>l, LaterProceeds
    <2> QED  BY <1>l, <2>1, OneProceeds
  <1>1. CASE Receive
    <2>1. /\ current \in Launches /\ received' = received + 1 /\ received + 1 \in Messages
          /\ records' = [records EXCEPT ![current] =
                            [records[current] EXCEPT !.chain = Append(@, received + 1)]]
      BY <1>1, <1>c, <1>d, RuntimeRecordAssumption DEF Receive, Messages
    <2>2. Proceeds(records[current], [records[current] EXCEPT !.chain = Append(@, received + 1)], received + 1)
      BY <1>o, <2>1, ReceivedStep
    <2> QED  BY <2>1, <2>2, OneProceeds
  <1>2. CASE StartCommand
    <2>1. Launch(records, children, tokens) /\ received' = received
      BY <1>2 DEF StartCommand
    <2> QED  BY <2>1, NoneProceeds DEF Launch
  <1>3. CASE StopCommand \/ RestartCommand
    <2>1. /\ current \in Launches /\ received' = received
          /\ records' = [records EXCEPT ![current] = OnStop(records[current])]
      BY <1>3, <1>c, <1>d DEF StopCommand, RestartCommand, Launch, StoppedRecords
    <2>2. Proceeds(records[current], OnStop(records[current]), received)
      BY <1>o, <2>1, EventSteps
    <2> QED  BY <1>l, <2>1, <2>2
  <1>4. CASE ControlCommand
    <2>1. /\ current \in Launches /\ received' = received + 1
          /\ records' = [records EXCEPT ![current] = OnMessageSent(records[current])]
      BY <1>4, <1>c DEF ControlCommand, WriteTurn
    <2>2. Proceeds(records[current], OnMessageSent(records[current]), received)
      BY <1>o, <2>1, MessageSentStep
    <2> QED  BY <1>l, <2>1, <2>2
  <1>5. CASE CancelTurn
    <2>1. /\ current \in Launches /\ received' = received + 1
          /\ records' = [records EXCEPT ![current] = MarkProgress(records[current])]
      BY <1>5, <1>c DEF CancelTurn
    <2>2. Proceeds(records[current], MarkProgress(records[current]), received)
      BY <1>o, <2>1, MarkStep
    <2> QED  BY <1>l, <2>1, <2>2
  <1>6. CASE Tick
    <2> DEFINE r == [records[current] EXCEPT !.quiet = @ + 1]
    <2>1. /\ current \in Launches /\ received' = received /\ records[current].quiet < StallTicks
          /\ records' = [records EXCEPT ![current] = r]
      BY <1>6, <1>c DEF Tick
    <2>2. Proceeds(records[current], r, received)
      BY <1>o, <2>1, QuietStep
    <2> HIDE DEF r
    <2> QED  BY <1>l, <2>1, <2>2
  <1>7. ASSUME NEW g \in Launches, Deliver(g) PROVE AllProceed
    <2> DEFINE m == Head(records[g].chain)
               taken == [records[g] EXCEPT !.chain = Tail(@)]
               cut == IF m \in Removals THEN CutOff(taken, ChannelOf[m]) ELSE taken
               sent == DeliverSent(OnMessageSent(cut), m)
               queued == DeliverQueued(cut, m)
    <2>1. /\ received' = received /\ records[g].chain # <<>>
          /\ \/ records' = [records EXCEPT ![g] = sent]
             \/ records' = [records EXCEPT ![g] = queued]
      BY <1>7 DEF Deliver, WriteTurn
    <2>2. Proceeds(records[g], sent, received) /\ Proceeds(records[g], queued, received)
      BY <1>o, <2>1, DeliveredStep
    <2> HIDE DEF sent, queued
    <2> QED  BY <1>l, <2>1, <2>2
  <1>8. ASSUME NEW g \in Launches, ToolEvent(g) PROVE AllProceed
    <2>1. PICK probe \in {records[g], MarkReady(records[g])} :
              records' = [records EXCEPT ![g] = OnToolEvent(probe)]
      BY <1>8 DEF ToolEvent
    <2>2. Proceeds(records[g], probe, received) /\ Orderly(probe, received)
      BY <1>o, MarkStep DEF Proceeds
    <2>3. Proceeds(records[g], OnToolEvent(probe), received)
      BY <2>2, EventSteps, StepsCompose
    <2>4. received' = received
      BY <1>8 DEF ToolEvent
    <2> QED  BY <1>l, <2>1, <2>3, <2>4
  <1>9. ASSUME NEW g \in Launches, Result(g) PROVE AllProceed
    <2> DEFINE done == OnResult(records[g])
               rest == [done EXCEPT !.queue = Tail(@)]
    <2>1. /\ received' = received
          /\ \/ records' = [records EXCEPT ![g] = done]
             \/ done.queue # <<>> /\ records' = [records EXCEPT ![g] = OnMessageSent(rest)]
      BY <1>9 DEF Result, WriteTurn
    <2>2. Proceeds(records[g], done, received) /\ Orderly(done, received)
      BY <1>o, EventSteps DEF Proceeds
    <2> HIDE DEF done
    <2>3. ASSUME done.queue # <<>> PROVE Proceeds(records[g], OnMessageSent(rest), received)
      <3>1. Proceeds(done, rest, received) /\ Orderly(rest, received)
        BY <2>2, <2>3, DequeueStep DEF Proceeds
      <3> HIDE DEF rest
      <3>2. Proceeds(rest, OnMessageSent(rest), received)
        BY <3>1, MessageSentStep
      <3> QED  BY <2>2, <3>1, <3>2, StepsCompose
    <2> HIDE DEF rest
    <2> QED  BY <1>l, <2>1, <2>2, <2>3
  <1>10. ASSUME NEW g \in Launches, Exit(g) PROVE AllProceed
    <2> DEFINE i == children[g].stopping
               out == OnExit(records[g], i)
               r == [out EXCEPT !.restart = RestartOnCrash /\ ~i]
    <2>1. received' = received /\ records' = [records EXCEPT ![g] = r]
      BY <1>10 DEF Exit
    <2>2. Proceeds(records[g], out, received) /\ Orderly(out, received)
      BY <1>o, EventSteps DEF Proceeds
    <2> HIDE DEF out
    <2>3. Proceeds(out, r, received)
      BY <2>2, TimerStep, ClaudeRuntimeAssumption DEF ClaudeRuntimeAssumption
    <2> HIDE DEF r
    <2> QED  BY <1>l, <2>1, <2>2, <2>3, StepsCompose
  <1>11. ASSUME NEW g \in Launches, SpawnError(g) PROVE AllProceed
    <2>1. received' = received /\ records' = [records EXCEPT ![g] = OnError(records[g])]
      BY <1>11 DEF SpawnError
    <2>2. Proceeds(records[g], OnError(records[g]), received)
      BY <1>o, EventSteps
    <2> QED  BY <1>l, <2>1, <2>2
  <1>12. ASSUME NEW g \in Launches, RestartTimer(g) PROVE AllProceed
    <2> DEFINE r == [records[g] EXCEPT !.restart = FALSE]
    <2>1. received' = received /\ records' = [records EXCEPT ![g] = r]
      BY <1>12 DEF RestartTimer, Launch
    <2>2. Proceeds(records[g], r, received)
      BY <1>o, TimerStep
    <2> HIDE DEF r
    <2> QED  BY <1>l, <2>1, <2>2
  <1>13. ASSUME NEW g \in Launches, WarmupTimer(g) \/ Watch(g) PROVE AllProceed
    <2>1. /\ received' = received
          /\ \/ records' = [records EXCEPT ![g] = MarkReady(records[g])]
             \/ records' = [records EXCEPT ![g] = MarkProgress(records[g])]
             \/ records' = records
      BY <1>13 DEF WarmupTimer, Watch
    <2>2. /\ Proceeds(records[g], MarkReady(records[g]), received)
          /\ Proceeds(records[g], MarkProgress(records[g]), received)
      BY <1>o, MarkStep
    <2> QED  BY <1>l, <2>1, <2>2, NoneProceeds
  <1>14. ASSUME (\E g \in Launches : Hang(g) \/ CloseStdin(g)) \/ UNCHANGED vars
         PROVE  AllProceed
    <2>1. records' = records /\ received' = received
      BY <1>14 DEF Hang, CloseStdin, vars
    <2> QED  BY <2>1, NoneProceeds
  <1> QED
    BY <1>1, <1>2, <1>3, <1>4, <1>5, <1>6, <1>7, <1>8, <1>9, <1>10, <1>11, <1>12, <1>13, <1>14
       DEF Next

\* Messages and commands are counted.
LEMMA StepReceived ==
    ASSUME OrderInv, [Next]_vars
    PROVE  received' \in 0 .. MaxMessages
  <1>1. received' = received \/ (received < MaxMessages /\ received' = received + 1)
    BY DEF Next, vars, Receive, StartCommand, StopCommand, RestartCommand, ControlCommand, CancelTurn,
           Tick, Deliver, ToolEvent, Result, Exit, SpawnError, Hang, CloseStdin, RestartTimer,
           WarmupTimer, Watch
  <1> QED  BY <1>1, RuntimeRecordAssumption DEF OrderInv

\* Every step keeps the queues of all launches in order.
LEMMA StepOrder ==
    ASSUME LaunchInv, FreshInv, OrderInv, [Next]_vars
    PROVE  OrderInv'
  BY StepProceeds, StepReceived DEF OrderInv, AllProceed, Proceeds

---------------------------------------------------------------------------
ChildTypeOK(c) == c \in [state : {"none", "up", "lost", "exited"}, busy : BOOLEAN, turn : Turns,
                         writable : BOOLEAN, stopping : BOOLEAN, signalled : BOOLEAN, hung : BOOLEAN]

\* The type of a child that changes in some of its fields.
LEMMA ChildTypes ==
    /\ ChildTypeOK(NoChild) /\ ChildTypeOK(Spawned) /\ ChildTypeOK([NoChild EXCEPT !.state = "exited"])
    /\ \A c : ChildTypeOK(c) =>
        /\ \A intentional \in BOOLEAN : ChildTypeOK(Terminated(c, intentional))
        /\ \A turn \in Turns : ChildTypeOK([c EXCEPT !.busy = TRUE, !.turn = turn])
        /\ ChildTypeOK([c EXCEPT !.busy = FALSE, !.turn = None])
        /\ ChildTypeOK([c EXCEPT !.state = "lost", !.writable = FALSE])
        /\ ChildTypeOK([c EXCEPT !.hung = TRUE]) /\ ChildTypeOK([c EXCEPT !.writable = FALSE])
  <1>1. None \in Turns /\ WarmupTurn \in Turns
    BY DEF Turns
  <1>2. ChildTypeOK(NoChild) /\ ChildTypeOK(Spawned) /\ ChildTypeOK([NoChild EXCEPT !.state = "exited"])
    BY <1>1 DEF ChildTypeOK, NoChild, Spawned
  <1>3. ASSUME NEW c, ChildTypeOK(c)
        PROVE  /\ \A intentional \in BOOLEAN : ChildTypeOK(Terminated(c, intentional))
               /\ \A turn \in Turns : ChildTypeOK([c EXCEPT !.busy = TRUE, !.turn = turn])
               /\ ChildTypeOK([c EXCEPT !.busy = FALSE, !.turn = None])
               /\ ChildTypeOK([c EXCEPT !.state = "lost", !.writable = FALSE])
               /\ ChildTypeOK([c EXCEPT !.hung = TRUE]) /\ ChildTypeOK([c EXCEPT !.writable = FALSE])
    <2>1. \A intentional \in BOOLEAN : ChildTypeOK(Terminated(c, intentional))
      BY <1>3 DEF ChildTypeOK, Terminated
    <2>2. \A turn \in Turns : ChildTypeOK([c EXCEPT !.busy = TRUE, !.turn = turn])
      BY <1>3 DEF ChildTypeOK
    <2>3. ChildTypeOK([c EXCEPT !.busy = FALSE, !.turn = None])
      BY <1>1, <1>3 DEF ChildTypeOK
    <2>4. /\ ChildTypeOK([c EXCEPT !.state = "lost", !.writable = FALSE])
          /\ ChildTypeOK([c EXCEPT !.hung = TRUE]) /\ ChildTypeOK([c EXCEPT !.writable = FALSE])
      BY <1>3 DEF ChildTypeOK
    <2> QED  BY <2>1, <2>2, <2>3, <2>4
  <1> QED  BY <1>2, <1>3

\* Every step keeps the types of the children and the counters.
LEMMA StepTypes ==
    ASSUME LaunchInv, FreshInv, OrderInv, ProcessTypeOK, [Next]_vars
    PROVE  ProcessTypeOK'
  <1> USE ClaudeRuntimeAssumption DEF ClaudeRuntimeAssumption
  <1>t. /\ \A g \in Launches : ChildTypeOK(children[g])
        /\ DOMAIN children = Launches /\ children = [g \in Launches |-> children[g]]
        /\ current \in 0 .. MaxLaunches /\ launches \in 0 .. MaxLaunches
        /\ tokens \subseteq Launches /\ faults \in 0 .. MaxFaults
    BY DEF ProcessTypeOK, ChildTypeOK
  <1>c. current # 0 => current \in Launches
    BY <1>t DEF Launches
  <1>m. ASSUME NEW g \in Launches
        PROVE  /\ records[g].chain \in Seq(Messages) /\ Orderly(records[g], received)
    BY TypeOfOrderly DEF OrderInv
  \* The child of one launch changes, or none does.
  <1>k. ASSUME NEW kids, kids = [g \in Launches |-> kids[g]], \A g \in Launches : ChildTypeOK(kids[g]),
               NEW g \in Launches, NEW c, ChildTypeOK(c)
        PROVE  /\ [kids EXCEPT ![g] = c] = [h \in Launches |-> [kids EXCEPT ![g] = c][h]]
               /\ \A h \in Launches : ChildTypeOK([kids EXCEPT ![g] = c][h])
    <2> DEFINE new == [kids EXCEPT ![g] = c]
    <2>1. DOMAIN kids = Launches
      BY <1>k
    <2>2. DOMAIN new = Launches /\ \A h \in Launches : new[h] = IF h = g THEN c ELSE kids[h]
      BY <2>1
    <2>3. new = [h \in Launches |-> new[h]]
      BY <2>1
    <2> QED  BY <1>k, <2>2, <2>3
  <1>p. ASSUME children' = [g \in Launches |-> children'[g]],
               \A g \in Launches : ChildTypeOK(children'[g]),
               current' \in 0 .. MaxLaunches, launches' \in 0 .. MaxLaunches,
               tokens' \subseteq Launches, faults' \in 0 .. MaxFaults
        PROVE  ProcessTypeOK'
    BY <1>p DEF ProcessTypeOK, ChildTypeOK
  <1>l. ASSUME NEW g \in Launches, NEW c, ChildTypeOK(c), children' = [children EXCEPT ![g] = c],
               current' \in {current, 0}, launches' = launches, tokens' \subseteq tokens,
               faults' \in 0 .. MaxFaults
        PROVE  ProcessTypeOK'
    <2>1. /\ children' = [h \in Launches |-> children'[h]]
          /\ \A h \in Launches : ChildTypeOK(children'[h])
      BY <1>t, <1>k, <1>l
    <2>2. current' \in 0 .. MaxLaunches /\ launches' \in 0 .. MaxLaunches /\ tokens' \subseteq Launches
      BY <1>t, <1>l
    <2> QED  BY <1>l, <1>p, <2>1, <2>2
  <1>n. ASSUME NEW recs, NEW kids, NEW toks, kids = [g \in Launches |-> kids[g]],
               \A g \in Launches : ChildTypeOK(kids[g]), toks \subseteq Launches,
               Launch(recs, kids, toks), faults' = faults
        PROVE  ProcessTypeOK'
    <2>1. /\ launches + 1 \in Launches /\ children' = [kids EXCEPT ![launches + 1] = Spawned]
          /\ current' = launches + 1 /\ launches' = launches + 1 /\ tokens' = toks \cup {launches + 1}
      BY <1>t, <1>n DEF Launch, Launches
    <2>2. /\ children' = [h \in Launches |-> children'[h]]
          /\ \A h \in Launches : ChildTypeOK(children'[h])
      BY <1>n, <1>k, <2>1, ChildTypes
    <2>3. current' \in 0 .. MaxLaunches /\ launches' \in 0 .. MaxLaunches /\ tokens' \subseteq Launches
      BY <1>n, <2>1 DEF Launches
    <2> QED  BY <1>t, <1>n, <1>p, <2>2, <2>3
  <1>f. ASSUME Fault PROVE faults' \in 0 .. MaxFaults
    BY <1>t, <1>f DEF Fault
  <1>1. CASE UNCHANGED <<children, current, launches, tokens, faults>>
    BY <1>1 DEF ProcessTypeOK
  <1>2. CASE StartCommand
    BY <1>2, <1>n, <1>t DEF StartCommand
  <1>3. CASE StopCommand \/ RestartCommand
    <2> DEFINE c == Terminated(children[current], TRUE)
    <2>1. current \in Launches /\ ChildTypeOK(c) /\ StoppedChildren = [children EXCEPT ![current] = c]
      BY <1>3, <1>c, <1>t, ChildTypes DEF StopCommand, RestartCommand, StoppedChildren
    <2> HIDE DEF c
    <2>2. /\ StoppedChildren = [g \in Launches |-> StoppedChildren[g]]
          /\ \A g \in Launches : ChildTypeOK(StoppedChildren[g])
      BY <1>t, <1>k, <2>1
    <2>3. CASE StopCommand
      <3>1. /\ children' = StoppedChildren /\ current' = 0 /\ launches' = launches
            /\ tokens' = tokens \ {current} /\ faults' = faults
        BY <2>3 DEF StopCommand
      <3> QED  BY <1>l, <1>t, <2>1, <3>1
    <2>4. CASE RestartCommand
      <3>1. Launch(StoppedRecords, StoppedChildren, tokens \ {current}) /\ faults' = faults
        BY <2>4 DEF RestartCommand
      <3> QED  BY <1>n, <1>t, <2>2, <3>1
    <2> QED  BY <1>3, <2>3, <2>4
  <1>4. CASE ControlCommand
    <2> DEFINE c == [children[current] EXCEPT !.busy = TRUE, !.turn = ControlTurn]
    <2>1. /\ current \in Launches /\ children' = [children EXCEPT ![current] = c]
          /\ UNCHANGED <<current, launches, tokens, faults>>
      BY <1>4, <1>c DEF ControlCommand, WriteTurn
    <2>2. ChildTypeOK(c)
      BY <1>t, <2>1, ChildTypes DEF Turns
    <2> HIDE DEF c
    <2> QED  BY <1>l, <1>t, <2>1, <2>2
  <1>5. ASSUME NEW g \in Launches, Deliver(g) PROVE ProcessTypeOK'
    <2> DEFINE m == Head(records[g].chain)
               c == [children[g] EXCEPT !.busy = TRUE, !.turn = m]
    <2>1. /\ records[g].chain # <<>> /\ UNCHANGED <<current, launches, tokens, faults>>
          /\ children' = [children EXCEPT ![g] = c] \/ children' = children
      BY <1>5 DEF Deliver, WriteTurn
    <2>2. m \in Turns
      BY <1>m, <2>1 DEF Turns
    <2>3. ChildTypeOK(c)
      BY <1>t, <2>2, ChildTypes
    <2> HIDE DEF c
    <2> QED  BY <1>1, <1>l, <1>t, <2>1, <2>3
  <1>6. ASSUME NEW g \in Launches, Result(g) PROVE ProcessTypeOK'
    <2> DEFINE done == OnResult(records[g])
               kid == [children[g] EXCEPT !.busy = FALSE, !.turn = None]
               m == Head(done.queue)
               c == [kid EXCEPT !.busy = TRUE, !.turn = m]
    <2>1. /\ UNCHANGED <<current, launches, tokens, faults>>
          /\ \/ done.queue # <<>> /\ children' = [children EXCEPT ![g] = c]
             \/ children' = [children EXCEPT ![g] = kid]
      BY <1>6 DEF Result, WriteTurn
    <2>2. ChildTypeOK(kid)
      BY <1>t, ChildTypes
    <2>3. done.queue \in Seq(Messages)
      BY <1>m, EventSteps, TypeOfOrderly DEF Proceeds
    <2> HIDE DEF kid, done
    <2>4. done.queue # <<>> => ChildTypeOK(c)
      <3>1. done.queue # <<>> => m \in Turns
        BY <2>3 DEF Turns
      <3> HIDE DEF m
      <3> QED  BY <2>2, <3>1, ChildTypes
    <2> HIDE DEF c
    <2> QED  BY <1>l, <1>t, <2>1, <2>2, <2>4
  <1>7. ASSUME NEW g \in Launches, Exit(g) PROVE ProcessTypeOK'
    <2>1. /\ children' = [children EXCEPT ![g] = [NoChild EXCEPT !.state = "exited"]]
          /\ current' \in {current, 0} /\ launches' = launches /\ tokens' = tokens \ {g} /\ faults' = faults
      BY <1>7 DEF Exit
    <2>2. ChildTypeOK([NoChild EXCEPT !.state = "exited"])
      BY ChildTypes
    <2> QED  BY <1>l, <1>t, <2>1, <2>2
  <1>8. ASSUME NEW g \in Launches, SpawnError(g) \/ Hang(g) \/ CloseStdin(g) PROVE ProcessTypeOK'
    <2> DEFINE lost == [children[g] EXCEPT !.state = "lost", !.writable = FALSE]
               hung == [children[g] EXCEPT !.hung = TRUE]
               closed == [children[g] EXCEPT !.writable = FALSE]
    <2>1. /\ Fault /\ UNCHANGED <<current, launches, tokens>>
          /\ \/ children' = [children EXCEPT ![g] = lost]
             \/ children' = [children EXCEPT ![g] = hung]
             \/ children' = [children EXCEPT ![g] = closed]
      BY <1>8 DEF SpawnError, Hang, CloseStdin
    <2>2. ChildTypeOK(lost) /\ ChildTypeOK(hung) /\ ChildTypeOK(closed)
      BY <1>t, ChildTypes
    <2> HIDE DEF lost, hung, closed
    <2> QED  BY <1>f, <1>l, <2>1, <2>2
  <1>9. ASSUME NEW g \in Launches, RestartTimer(g) PROVE ProcessTypeOK'
    <2> DEFINE fired == [records EXCEPT ![g].restart = FALSE]
    <2>1. CASE Launch(fired, children, tokens) /\ faults' = faults
      <3> HIDE DEF fired
      <3> QED  BY <1>n, <1>t, <2>1
    <2> QED  BY <1>1, <1>9, <2>1 DEF RestartTimer
  <1>10. ASSUME NEW g \in Launches, Watch(g) PROVE ProcessTypeOK'
    <2> DEFINE c == Terminated(children[g], FALSE)
    <2>1. /\ UNCHANGED <<current, launches, tokens, faults>>
          /\ children' = [children EXCEPT ![g] = c] \/ children' = children
      BY <1>10 DEF Watch
    <2>2. ChildTypeOK(c)
      BY <1>t, ChildTypes
    <2> HIDE DEF c
    <2> QED  BY <1>1, <1>l, <1>t, <2>1, <2>2
  <1>11. ASSUME \/ Receive \/ CancelTurn \/ Tick \/ UNCHANGED vars
                \/ \E g \in Launches : ToolEvent(g) \/ WarmupTimer(g)
         PROVE  UNCHANGED <<children, current, launches, tokens, faults>>
    BY <1>11 DEF Receive, CancelTurn, Tick, ToolEvent, WarmupTimer, vars
  <1> QED
    BY <1>1, <1>2, <1>3, <1>4, <1>5, <1>6, <1>7, <1>8, <1>9, <1>10, <1>11 DEF Next

---------------------------------------------------------------------------
\* A message that starts has nothing from before it behind it.
LEMMA StepPrompts ==
    ASSUME LaunchInv, FreshInv, OrderInv, [Next]_vars
    PROVE  \A g \in Launches : \A m \in Messages :
               children'[g].turn = m /\ children[g].turn # m => \A k \in Waiting(g)' : m < k
  <1> SUFFICES ASSUME NEW g \in Launches, children'[g].turn \in Messages,
                      children'[g].turn # children[g].turn
               PROVE  \A k \in Waiting(g)' : children'[g].turn < k
    OBVIOUS
  <1>d. /\ DOMAIN records = Launches /\ DOMAIN children = Launches
        /\ Orderly(records[g], received) /\ Sound(records[g], children[g])
        /\ \A h \in Launches : DOMAIN children[h] = ChildFields
    BY DEF FreshInv, OrderInv, LaunchInv, Sound
  <1>x. /\ WarmupTurn \notin Messages /\ ControlTurn \notin Messages /\ None \notin Messages
    BY ClaudeRuntimeAssumption, RuntimeRecordAssumption DEF ClaudeRuntimeAssumption
  <1>c. current # 0 => current \in Launches
    BY ClaudeRuntimeAssumption DEF ClaudeRuntimeAssumption, FreshInv, Launches
  \* Only these two give a message to a child.
  <1>1. ASSUME Deliver(g) PROVE \A k \in Waiting(g)' : children'[g].turn < k
    <2> DEFINE r == records[g]
               m == Head(r.chain)
               taken == [r EXCEPT !.chain = Tail(@)]
               cut == IF m \in Removals THEN CutOff(taken, ChannelOf[m]) ELSE taken
               sent == DeliverSent(OnMessageSent(cut), m)
               c == [children[g] EXCEPT !.busy = TRUE, !.turn = m]
    <2>1. /\ r.chain # <<>> /\ Idle(children[g])
          /\ records' = [records EXCEPT ![g] = sent] /\ children' = [children EXCEPT ![g] = c]
      BY <1>1 DEF Deliver, WriteTurn
    <2>2. children'[g].turn = m
      BY <1>d, <2>1, FieldsOfChild
    <2>3. /\ sent.chain = Tail(r.chain) /\ sent.queue = cut.queue
          /\ ToSet(cut.queue) \subseteq ToSet(r.queue) /\ \A k \in ToSet(Tail(r.chain)) : m < k
      BY <1>d, <2>1, DeliveredStep
    <2>4. ToSet(r.queue) = {}
      BY <1>d, <2>1 DEF Sound, ToSet
    <2>5. records'[g] = sent
      BY <1>d, <2>1
    <2> HIDE DEF sent, cut, r
    <2>6. Waiting(g)' = ToSet(sent.chain) \cup ToSet(sent.queue)
      BY <2>5 DEF Waiting
    <2> QED  BY <2>2, <2>3, <2>4, <2>6
  <1>2. ASSUME Result(g) PROVE \A k \in Waiting(g)' : children'[g].turn < k
    <2> DEFINE done == OnResult(records[g])
               kid == [children[g] EXCEPT !.busy = FALSE, !.turn = None]
               m == Head(done.queue)
               c == [kid EXCEPT !.busy = TRUE, !.turn = m]
               rest == [done EXCEPT !.queue = Tail(@)]
    <2>1. \/ done.queue # <<>> /\ children' = [children EXCEPT ![g] = c]
             /\ records' = [records EXCEPT ![g] = OnMessageSent(rest)]
          \/ children' = [children EXCEPT ![g] = kid]
      BY <1>2 DEF Result, WriteTurn
    <2>2. DOMAIN kid = ChildFields /\ kid.turn = None /\ c.turn = m
      BY <1>d, FieldsOfChild
    <2>3. Orderly(done, received)
      BY <1>d, EventSteps DEF Proceeds
    <2> HIDE DEF kid, c, done
    <2>4. /\ done.queue # <<>> /\ children'[g].turn = m
          /\ records'[g] = OnMessageSent(rest)
      BY <1>d, <1>x, <2>1, <2>2
    <2>5. Orderly(rest, received) /\ \A k \in ToSet(rest.queue) \cup ToSet(rest.chain) : m < k
      BY <2>3, <2>4, DequeueStep DEF Proceeds
    <2> HIDE DEF rest
    <2>6. records'[g].chain = rest.chain /\ records'[g].queue = rest.queue
      BY <2>4, <2>5, MessageSentStep
    <2> QED  BY <2>4, <2>5, <2>6 DEF Waiting
  \* The others leave what a child works on, or give it something else.
  <1>3. CASE children' = children
    BY <1>3
  <1>4. ASSUME NEW h \in Launches, NEW c, children' = [children EXCEPT ![h] = c], h # g
        PROVE  FALSE
    BY <1>4
  <1>5. ASSUME NEW c, children' = [children EXCEPT ![g] = c],
               c.turn \in {children[g].turn, WarmupTurn, ControlTurn, None}
        PROVE  FALSE
    BY <1>5, <1>d, <1>x
  <1>6. ASSUME NEW h \in Launches, Deliver(h) \/ Result(h) PROVE h = g
    <2>1. children' = children \/ \E c : children' = [children EXCEPT ![h] = c]
      BY <1>6 DEF Deliver, Result
    <2> QED  BY <1>3, <1>4, <2>1
  <1>7. ASSUME NEW kids, kids = [h \in Launches |-> kids[h]], kids[g].turn = children[g].turn,
               NEW recs, NEW toks, Launch(recs, kids, toks)
        PROVE  FALSE
    <2>1. children'[g] \in {Spawned, kids[g]}
      BY <1>7 DEF Launch
    <2>2. Spawned.turn = WarmupTurn
      BY DEF Spawned, NoChild
    <2> QED  BY <1>7, <1>x, <2>1, <2>2
  <1>8. CASE StartCommand
    BY <1>7, <1>8 DEF StartCommand, FreshInv
  <1>9. CASE StopCommand \/ RestartCommand
    <2> DEFINE c == Terminated(children[current], TRUE)
    <2>1. current \in Launches /\ StoppedChildren = [children EXCEPT ![current] = c]
      BY <1>9, <1>c DEF StopCommand, RestartCommand, StoppedChildren
    <2>2. c.turn = children[current].turn
      BY <1>d, <2>1, TerminatedFacts
    <2> HIDE DEF c
    <2>3. StoppedChildren = [h \in Launches |-> StoppedChildren[h]]
          /\ StoppedChildren[g].turn = children[g].turn
      BY <1>d, <2>1, <2>2 DEF FreshInv
    <2>4. CASE StopCommand
      <3>1. children'[g].turn = children[g].turn
        BY <2>3, <2>4 DEF StopCommand
      <3> QED  BY <3>1
    <2>5. CASE RestartCommand
      <3>1. Launch(StoppedRecords, StoppedChildren, tokens \ {current})
        BY <2>5 DEF RestartCommand
      <3> QED  BY <1>7, <2>3, <3>1
    <2> QED  BY <1>9, <2>4, <2>5
  <1>10. CASE ControlCommand
    <2> DEFINE c == [children[current] EXCEPT !.busy = TRUE, !.turn = ControlTurn]
    <2>1. current \in Launches /\ children' = [children EXCEPT ![current] = c]
      BY <1>10, <1>c DEF ControlCommand, WriteTurn
    <2>2. c.turn = ControlTurn
      BY <1>d, <2>1, FieldsOfChild
    <2> HIDE DEF c
    <2> QED  BY <1>4, <1>5, <2>1, <2>2
  <1>11. ASSUME NEW h \in Launches, Exit(h) PROVE FALSE
    <2> DEFINE c == [NoChild EXCEPT !.state = "exited"]
    <2>1. children' = [children EXCEPT ![h] = c] /\ c.turn = None
      BY <1>11 DEF Exit, NoChild
    <2> HIDE DEF c
    <2> QED  BY <1>4, <1>5, <2>1
  <1>12. ASSUME NEW h \in Launches, SpawnError(h) \/ Hang(h) \/ CloseStdin(h) PROVE FALSE
    <2> DEFINE lost == [children[h] EXCEPT !.state = "lost", !.writable = FALSE]
               hung == [children[h] EXCEPT !.hung = TRUE]
               closed == [children[h] EXCEPT !.writable = FALSE]
    <2>1. \/ children' = [children EXCEPT ![h] = lost]
          \/ children' = [children EXCEPT ![h] = hung]
          \/ children' = [children EXCEPT ![h] = closed]
      BY <1>12 DEF SpawnError, Hang, CloseStdin
    <2>2. /\ lost.turn = children[h].turn /\ hung.turn = children[h].turn
          /\ closed.turn = children[h].turn
      BY <1>d, FieldsOfChild
    <2> HIDE DEF lost, hung, closed
    <2> QED  BY <1>4, <1>5, <2>1, <2>2
  <1>13. ASSUME NEW h \in Launches, RestartTimer(h) PROVE FALSE
    <2> DEFINE fired == [records EXCEPT ![h].restart = FALSE]
    <2>1. Launch(fired, children, tokens) \/ children' = children
      BY <1>13 DEF RestartTimer
    <2> HIDE DEF fired
    <2> QED  BY <1>3, <1>7, <2>1 DEF FreshInv
  <1>14. ASSUME NEW h \in Launches, Watch(h) PROVE FALSE
    <2> DEFINE c == Terminated(children[h], FALSE)
    <2>1. children' = [children EXCEPT ![h] = c] \/ children' = children
      BY <1>14 DEF Watch
    <2>2. c.turn = children[h].turn
      BY <1>d, TerminatedFacts
    <2> HIDE DEF c
    <2> QED  BY <1>3, <1>4, <1>5, <2>1, <2>2
  <1>15. ASSUME \/ Receive \/ CancelTurn \/ Tick \/ UNCHANGED vars
                \/ \E h \in Launches : ToolEvent(h) \/ WarmupTimer(h)
         PROVE  children' = children
    BY <1>15 DEF Receive, CancelTurn, Tick, ToolEvent, WarmupTimer, vars
  <1> QED
    BY <1>1, <1>2, <1>3, <1>6, <1>8, <1>9, <1>10, <1>11, <1>12, <1>13, <1>14, <1>15 DEF Next

---------------------------------------------------------------------------
\* The queues are in order initially.
LEMMA InitOrder == Init => OrderInv /\ ProcessTypeOK
  <1> SUFFICES ASSUME Init PROVE OrderInv /\ ProcessTypeOK
    OBVIOUS
  <1>1. OrderInv
    BY LaunchedOrderly, RuntimeRecordAssumption DEF Init, OrderInv
  <1>2. ChildTypeOK(NoChild)
    BY ChildTypes
  <1>3. ProcessTypeOK
    BY <1>2, ClaudeRuntimeAssumption DEF ClaudeRuntimeAssumption, Init, ProcessTypeOK, ChildTypeOK
  <1> QED  BY <1>1, <1>3

\* The queues stay in the order of receipt, and the types with them.
THEOREM QueuesAreOrdered == Spec => [](OrderInv /\ ProcessTypeOK)
  <1>1. IInv /\ OrderInv /\ ProcessTypeOK /\ [Next]_vars => OrderInv' /\ ProcessTypeOK'
    BY StepOrder, StepTypes DEF IInv
  <1> QED  BY Invariance, InitOrder, <1>1, PTL DEF Spec

\* The variables have their types.
THEOREM TypesAreRight == Spec => []TypeOK
  <1>1. IInv /\ OrderInv /\ ProcessTypeOK => TypeOK
    BY DEF IInv, FreshInv, OrderInv, Orderly, TypeOK
  <1> QED  BY Invariance, QueuesAreOrdered, <1>1, PTL

\* A removal leaves no prompt of its channel in the queue of a driver, for good.
THEOREM RemovalsCutOff == Spec => []CutoffHolds
  <1>1. OrderInv => CutoffHolds
    BY DEF OrderInv, Orderly, Cut, CutoffHolds
  <1> QED  BY QueuesAreOrdered, <1>1, PTL

\* A child gets the messages in the order of their receipt, across queues, results,
\* crashes and restarts.
THEOREM ChildReadsInOrder == Spec => PromptsInOrder
  <1>1. IInv /\ OrderInv /\ [Next]_vars =>
          [\A g \in Launches : \A m \in Messages :
              children'[g].turn = m /\ children[g].turn # m => \A k \in Waiting(g)' : m < k]_vars
    BY StepPrompts DEF IInv
  <1> QED  BY Invariance, QueuesAreOrdered, <1>1, PTL DEF Spec, PromptsInOrder

\* The reports of the task runs implement their lifecycle.
THEOREM ReportsGoForward == Spec => LifecycleSpec
  <1> DEFINE status == [p \in Launches \X TaskRuns |-> records[p[1]].reported[p[2]]]
  <1>1. Init => Lifecycle!Init
    BY DEF Init, Launched, Lifecycle!Init
  <1>2. IInv /\ OrderInv /\ [Next]_vars => [Lifecycle!Next]_status
    <2> SUFFICES ASSUME IInv, OrderInv, [Next]_vars PROVE Lifecycle!Next
      OBVIOUS
    <2>1. AllProceed
      BY StepProceeds DEF IInv
    <2>2. ASSUME NEW p \in Launches \X TaskRuns
          PROVE  /\ status'[p] \in Reports
                 /\ MayFollow(status'[p], status[p])
      BY <2>1, TypeOfOrderly DEF AllProceed, Proceeds, Forward
    <2>3. DOMAIN Lifecycle!Rank = Reports
      BY DEF Lifecycle!Rank, Reports, Outcomes
    <2>4. \A x, y : MayFollow(y, x) => x = y \/ Lifecycle!Rank[x] < Lifecycle!Rank[y]
      BY DEF MayFollow, Lifecycle!Rank, Reports, Outcomes
    <2>5. status' \in [Launches \X TaskRuns -> Reports]
      BY <2>2
    <2> HIDE DEF status
    <2> QED  BY <2>2, <2>3, <2>4, <2>5 DEF Lifecycle!Next, status
  <1> QED  BY Invariance, QueuesAreOrdered, <1>1, <1>2, PTL DEF Spec, LifecycleSpec, Lifecycle!Spec
=============================================================================
