------------------------ MODULE RuntimeRecordProofs ------------------------
(* What the handlers of RuntimeRecord do to a record, for the proofs about   *)
(* the drivers: which fields they leave alone (the two queues and the active *)
(* run), what waits after them, and that each of them keeps the queues in    *)
(* the order of receipt and moves the report of a run forward (Proceeds).    *)
(*                                                                           *)
(* What a removal leaves of a queue is computed by a recursive function.     *)
(* Facts about it for queues of every length are proved by a least element:  *)
(* a first place where one fails would have a predecessor where it fails.    *)
EXTENDS RuntimeRecord, WellFoundedInduction, TLAPS

\* The fields of a record.
RecordFields == DOMAIN Launched

\* An empty queue has nothing to discard.
LEMMA WithoutEmpty == ASSUME NEW gone PROVE Without(<<>>, gone) = <<>>
  <1> DEFINE Step(k) == [i \in 0 .. Len(<<>>) |->
                 IF i = 0 THEN <<>>
                 ELSE IF <<>>[i] \in gone THEN k[i - 1] ELSE Append(k[i - 1], <<>>[i])]
             kept == CHOOSE k : k = Step(k)
  <1>1. 0 .. Len(<<>>) = {0} /\ Len(<<>>) = 0
    OBVIOUS
  <1>2. [i \in {0} |-> <<>>] = Step([i \in {0} |-> <<>>])
    BY <1>1
  <1>3. kept = Step(kept)
    <2> HIDE DEF Step
    <2> QED BY <1>2
  <1>4. kept[0] = <<>>
    BY <1>1, <1>3
  <1> HIDE DEF kept
  <1> QED
    BY <1>1, <1>4 DEF Without, kept

\* The fields of a record, by name.
LEMMA FieldsOfRecord ==
    RecordFields = {"chain", "queue", "turns", "run", "ready", "restart", "quiet", "asked",
                    "reported", "skewed"}
  BY DEF RecordFields, Launched

---------------------------------------------------------------------------
\* What the handlers leave of the fields that matter.  Q stands for a record that
\* has its queues and its history untouched.
SameQueues(r, q) ==
    /\ DOMAIN q = RecordFields
    /\ q.queue = r.queue /\ q.turns = r.turns /\ q.skewed = r.skewed

\* A report leaves the queues and the run alone.
LEMMA PostFacts ==
    ASSUME NEW r, DOMAIN r = RecordFields, NEW m, NEW report
    PROVE  SameQueues(r, Post(r, m, report)) /\ Post(r, m, report).run = r.run
  BY FieldsOfRecord DEF Post, SameQueues

\* Progress and readiness leave the queues and the run alone.
LEMMA MarkFacts ==
    ASSUME NEW r, DOMAIN r = RecordFields
    PROVE  /\ SameQueues(r, MarkProgress(r)) /\ MarkProgress(r).run = r.run
           /\ SameQueues(r, MarkReady(r)) /\ MarkReady(r).run = r.run
  BY FieldsOfRecord DEF MarkProgress, MarkReady, SameQueues

\* The end of a run leaves the queues alone and no run.
LEMMA EndRunFacts ==
    ASSUME NEW r, DOMAIN r = RecordFields, NEW outcome
    PROVE  SameQueues(r, EndRun(r, outcome)) /\ EndRun(r, outcome).run = None
  <1>1. SameQueues(r, Post(r, r.run, outcome))
    BY PostFacts
  <1> QED
    BY <1>1, FieldsOfRecord DEF EndRun, SameQueues

\* A turn that begins leaves the queues alone and is the run if it is a task.
LEMMA BeginTurnFacts ==
    ASSUME NEW r, DOMAIN r = RecordFields, NEW m
    PROVE  /\ SameQueues(r, BeginTurn(r, m))
           /\ BeginTurn(r, m).run = IF m \in TaskRuns THEN m ELSE r.run
  <1> DEFINE q == [r EXCEPT !.run = m]
  <1>1. DOMAIN q = RecordFields /\ SameQueues(r, q) /\ q.run = m
    BY FieldsOfRecord DEF SameQueues
  <1>2. SameQueues(q, Post(q, m, "running")) /\ Post(q, m, "running").run = m
    BY <1>1, PostFacts
  <1> QED
    BY <1>1, <1>2 DEF BeginTurn, SameQueues

\* A prompt without a turn changes nothing but the progress; with one the oldest
\* turn begins.
LEMMA MessageSentFacts ==
    ASSUME NEW r, DOMAIN r = RecordFields
    PROVE  /\ DOMAIN OnMessageSent(r) = RecordFields
           /\ OnMessageSent(r).queue = r.queue /\ OnMessageSent(r).skewed = r.skewed
           /\ r.turns = <<>> => OnMessageSent(r).turns = <<>> /\ OnMessageSent(r).run = r.run
           /\ r.turns # <<>> =>
                /\ OnMessageSent(r).turns = Tail(r.turns)
                /\ OnMessageSent(r).run = IF Head(r.turns) \in TaskRuns THEN Head(r.turns) ELSE r.run
  <1> DEFINE p == MarkProgress(r)
             q == [p EXCEPT !.turns = Tail(@)]
  <1>1. SameQueues(r, p) /\ p.run = r.run
    BY MarkFacts
  <1>2. DOMAIN q = RecordFields /\ q.queue = r.queue /\ q.skewed = r.skewed
        /\ q.turns = Tail(r.turns) /\ q.run = r.run
    BY <1>1, FieldsOfRecord DEF SameQueues
  <1>3. /\ SameQueues(q, BeginTurn(q, Head(r.turns)))
        /\ BeginTurn(q, Head(r.turns)).run = IF Head(r.turns) \in TaskRuns THEN Head(r.turns) ELSE q.run
    BY <1>2, BeginTurnFacts
  <1>4. CASE r.turns = <<>>
    BY <1>4, <1>1 DEF OnMessageSent, SameQueues
  <1>5. CASE r.turns # <<>>
    <2>1. OnMessageSent(r) = BeginTurn(q, Head(r.turns))
      BY <1>5 DEF OnMessageSent
    <2> HIDE DEF q, p
    <2> QED
      BY <1>2, <1>3, <1>5, <2>1 DEF SameQueues
  <1> QED
    BY <1>4, <1>5

\* A tool event leaves the queues and the run alone.
LEMMA ToolEventFacts ==
    ASSUME NEW r, DOMAIN r = RecordFields
    PROVE  SameQueues(r, OnToolEvent(r)) /\ OnToolEvent(r).run = r.run
  <1> DEFINE p == MarkProgress(r)
  <1>1. SameQueues(r, p) /\ p.run = r.run
    BY MarkFacts
  <1>2. SameQueues(p, Post(p, r.run, "running")) /\ Post(p, r.run, "running").run = p.run
    BY <1>1, PostFacts DEF SameQueues
  <1> QED
    BY <1>1, <1>2 DEF OnToolEvent, SameQueues

\* A result ends the run, or is not taken and leaves the books behind.
LEMMA ResultFacts ==
    ASSUME NEW r, DOMAIN r = RecordFields
    PROVE  /\ DOMAIN OnResult(r) = RecordFields
           /\ OnResult(r).queue = r.queue
           /\ ~OnResult(r).skewed =>
                ~r.skewed /\ OnResult(r).turns = r.turns /\ OnResult(r).run = None
  <1> DEFINE p == MarkProgress(r)
  <1>1. SameQueues(r, p) /\ p.run = r.run
    BY MarkFacts
  <1>2. SameQueues(p, EndRun(p, "completed")) /\ EndRun(p, "completed").run = None
    BY <1>1, EndRunFacts DEF SameQueues
  <1>3. DOMAIN Skew(p) = RecordFields /\ Skew(p).queue = p.queue /\ Skew(p).skewed = TRUE
    BY <1>1, FieldsOfRecord DEF Skew, SameQueues
  <1> HIDE DEF p
  <1> QED
    BY <1>1, <1>2, <1>3 DEF OnResult, SameQueues, p

\* An error ends the run and leaves the queues alone.
LEMMA ErrorFacts ==
    ASSUME NEW r, DOMAIN r = RecordFields
    PROVE  SameQueues(r, OnError(r)) /\ OnError(r).run = None
  BY MarkFacts, EndRunFacts DEF OnError, SameQueues

\* A stop ends the run and leaves the queues alone.
LEMMA StopFacts ==
    ASSUME NEW r, DOMAIN r = RecordFields
    PROVE  SameQueues(r, OnStop(r)) /\ OnStop(r).run = None
  BY MarkFacts, EndRunFacts DEF OnStop, SameQueues

\* An exit leaves the queues alone, and the run or none.
LEMMA ExitFacts ==
    ASSUME NEW r, DOMAIN r = RecordFields, NEW intentional
    PROVE  SameQueues(r, OnExit(r, intentional)) /\ OnExit(r, intentional).run \in {r.run, None}
  BY MarkFacts, EndRunFacts DEF OnExit, SameQueues

---------------------------------------------------------------------------
\* A removal and a delivery leave a record.
LEMMA DeliveryFields ==
    ASSUME NEW r, DOMAIN r = RecordFields, NEW m, NEW channel
    PROVE  /\ DOMAIN CutOff(r, channel) = RecordFields
           /\ DOMAIN DeliverQueued(r, m) = RecordFields
           /\ DOMAIN DeliverSent(r, m) = RecordFields
  <1> DEFINE queued == [r EXCEPT !.queue = Append(@, m)]
             q == Post(queued, m, "dispatched")
             s == Post(r, m, "dispatched")
  <1>1. DOMAIN CutOff(r, channel) = RecordFields
    BY DEF CutOff
  <1>2. DOMAIN queued = RecordFields
    OBVIOUS
  <1> HIDE DEF queued
  <1>3. DOMAIN q = RecordFields /\ DOMAIN s = RecordFields
    BY <1>2, PostFacts DEF SameQueues
  <1> HIDE DEF q, s
  <1>4. DOMAIN Skew(queued) = RecordFields
    BY <1>2 DEF Skew
  <1>5. DOMAIN [q EXCEPT !.turns = Append(@, m)] = RecordFields
    BY <1>3
  <1>6. DOMAIN BeginTurn(s, m) = RecordFields
    BY <1>3, BeginTurnFacts DEF SameQueues
  <1> QED
    BY <1>1, <1>4, <1>5, <1>6 DEF DeliverQueued, DeliverSent, queued, q, s

---------------------------------------------------------------------------
\* What waits for a prompt: the delivery chain and the queue of the driver.
SameWaiting(r, q) == DOMAIN q = RecordFields /\ q.chain = r.chain /\ q.queue = r.queue

\* A report, or another run, leaves everything that waits.
LEMMA PostWaiting ==
    ASSUME NEW r, DOMAIN r = RecordFields, NEW m, NEW report
    PROVE  SameWaiting(r, Post(r, m, report)) /\ SameWaiting(r, [r EXCEPT !.run = m])
  BY FieldsOfRecord DEF Post, SameWaiting

\* Progress, readiness and the end of a run leave everything that waits.
LEMMA EndRunWaiting ==
    ASSUME NEW r, DOMAIN r = RecordFields, NEW outcome
    PROVE  /\ SameWaiting(r, MarkProgress(r)) /\ SameWaiting(r, MarkReady(r)) /\ SameWaiting(r, Skew(r))
           /\ SameWaiting(r, EndRun(r, outcome))
  <1>1. SameWaiting(r, Post(r, r.run, outcome))
    BY PostWaiting
  <1> QED
    BY <1>1, FieldsOfRecord DEF MarkProgress, MarkReady, Skew, EndRun, SameWaiting

\* A turn that begins leaves everything that waits.
LEMMA BeginTurnWaiting ==
    ASSUME NEW r, DOMAIN r = RecordFields, NEW m
    PROVE  SameWaiting(r, BeginTurn(r, m))
  <1> DEFINE q == [r EXCEPT !.run = m]
  <1>1. SameWaiting(r, q) /\ DOMAIN q = RecordFields
    BY PostWaiting DEF SameWaiting
  <1>2. BeginTurn(r, m) = IF m \in TaskRuns THEN Post(q, m, "running") ELSE r
    BY DEF BeginTurn
  <1> HIDE DEF q
  <1>3. SameWaiting(q, Post(q, m, "running"))
    BY <1>1, PostWaiting
  <1> QED
    BY <1>1, <1>2, <1>3 DEF SameWaiting

\* The events of a child leave both as they are.
LEMMA EventsKeepWaiting ==
    ASSUME NEW r, DOMAIN r = RecordFields, NEW intentional
    PROVE  /\ SameWaiting(r, OnMessageSent(r)) /\ SameWaiting(r, OnToolEvent(r))
           /\ SameWaiting(r, OnResult(r)) /\ SameWaiting(r, OnError(r))
           /\ SameWaiting(r, OnExit(r, intentional)) /\ SameWaiting(r, OnStop(r))
  <1> DEFINE p == MarkProgress(r)
             q == [p EXCEPT !.turns = Tail(@)]
             e == EndRun(r, "failed")
             c == EndRun(r, "cancelled")
  <1>1. SameWaiting(r, p) /\ SameWaiting(r, e) /\ SameWaiting(r, c)
    BY EndRunWaiting
  <1>2. SameWaiting(p, q)
    BY <1>1, FieldsOfRecord DEF SameWaiting
  <1>3. OnMessageSent(r) = IF r.turns = <<>> THEN p ELSE BeginTurn(q, Head(r.turns))
    BY DEF OnMessageSent
  <1>4. OnToolEvent(r) = IF r.ready /\ r.run # None THEN Post(p, r.run, "running") ELSE p
    BY DEF OnToolEvent
  <1>5. OnResult(r) = IF r.ready THEN EndRun(p, "completed") ELSE IF r.run = None THEN p ELSE Skew(p)
    BY DEF OnResult
  <1>6. OnError(r) = EndRun(p, "failed")
    BY DEF OnError
  <1>7. OnExit(r, intentional) = MarkProgress(IF intentional THEN r ELSE e) /\ OnStop(r) = MarkProgress(c)
    BY DEF OnExit, OnStop
  <1> HIDE DEF p, q, e, c
  <1>8. DOMAIN p = RecordFields /\ DOMAIN q = RecordFields /\ DOMAIN e = RecordFields /\ DOMAIN c = RecordFields
    BY <1>1, <1>2 DEF SameWaiting
  <1>9. /\ SameWaiting(q, BeginTurn(q, Head(r.turns))) /\ SameWaiting(p, Post(p, r.run, "running"))
        /\ SameWaiting(p, EndRun(p, "completed")) /\ SameWaiting(p, EndRun(p, "failed"))
        /\ SameWaiting(p, Skew(p)) /\ SameWaiting(e, MarkProgress(e)) /\ SameWaiting(c, MarkProgress(c))
        /\ SameWaiting(r, MarkProgress(r))
    BY <1>8, BeginTurnWaiting, PostWaiting, EndRunWaiting
  <1> QED
    BY <1>1, <1>2, <1>3, <1>4, <1>5, <1>6, <1>7, <1>9 DEF SameWaiting

\* A prompt that is sent leaves the queues; one that is queued joins the driver's.
LEMMA PromptWaiting ==
    ASSUME NEW r, DOMAIN r = RecordFields, NEW m
    PROVE  /\ SameWaiting(r, DeliverSent(r, m))
           /\ DOMAIN DeliverQueued(r, m) = RecordFields
           /\ DeliverQueued(r, m).chain = r.chain
           /\ DeliverQueued(r, m).queue = Append(r.queue, m)
  <1> DEFINE queued == [r EXCEPT !.queue = Append(@, m)]
             q == Post(queued, m, "dispatched")
             s == Post(r, m, "dispatched")
             t == [q EXCEPT !.turns = Append(@, m)]
  <1>1. DOMAIN queued = RecordFields /\ queued.chain = r.chain /\ queued.queue = Append(r.queue, m)
    BY FieldsOfRecord
  <1>2. /\ DeliverSent(r, m) = IF m \in Removals THEN r ELSE BeginTurn(s, m)
        /\ DeliverQueued(r, m) = IF m \in Removals THEN Skew(queued) ELSE t
    BY DEF DeliverSent, DeliverQueued
  <1> HIDE DEF queued
  <1>3. SameWaiting(queued, q) /\ SameWaiting(r, s) /\ SameWaiting(queued, Skew(queued))
    BY <1>1, PostWaiting, FieldsOfRecord DEF SameWaiting, Skew
  <1>4. SameWaiting(q, t)
    BY <1>3, FieldsOfRecord DEF SameWaiting
  <1> HIDE DEF q, s, t
  <1>5. SameWaiting(s, BeginTurn(s, m)) /\ SameWaiting(r, r)
    BY <1>1, <1>3, BeginTurnWaiting DEF SameWaiting
  <1> QED
    BY <1>1, <1>2, <1>3, <1>4, <1>5 DEF SameWaiting

---------------------------------------------------------------------------
\* Induction over the natural numbers, in the form the provers can instantiate: a set
\* of numbers that is not empty has a least one.
LEMMA LeastElement ==
    ASSUME NEW T \in SUBSET Nat, T # {}
    PROVE  \E x \in T : \A y \in T : x <= y
  <1> DEFINE R == {p \in Nat \X Nat : p[1] < p[2]}
  <1>1. IsWellFoundedOn(R, Nat)
    BY NatLessThanWellFounded DEF OpToRel
  <1>2. \A x, y \in Nat : <<y, x>> \in R <=> y < x
    OBVIOUS
  <1> HIDE DEF R
  <1>3. PICK x \in T : \A y \in T : ~(<<y, x>> \in R)
    BY <1>1, WFMin
  <1>4. ASSUME NEW y \in T PROVE x <= y
    <2>1. x \in Nat /\ y \in Nat /\ ~(<<y, x>> \in R)
      BY <1>3
    <2> QED  BY <2>1, <1>2
  <1> QED  BY <1>4

\* A set of numbers that has 0, and with a number below n its successor, has all up to n.
LEMMA UpTo ==
    ASSUME NEW n \in Nat, NEW S, 0 \in S, \A i \in 0 .. n : i # n /\ i \in S => i + 1 \in S
    PROVE  0 .. n \subseteq S
  <1> DEFINE T == {i \in 0 .. n : i \notin S}
  <1> SUFFICES ASSUME T # {} PROVE FALSE
    OBVIOUS
  <1>1. T \in SUBSET Nat
    OBVIOUS
  <1>2. PICK x \in T : \A y \in T : x <= y
    BY <1>1, LeastElement
  <1>3. x \in 0 .. n /\ x # 0
    OBVIOUS
  <1>4. x - 1 \in 0 .. n /\ x - 1 # n /\ x - 1 \notin T
    BY <1>2, <1>3
  <1>5. x - 1 \in S
    BY <1>4
  <1>6. (x - 1) + 1 \in S
    BY <1>4, <1>5
  <1> QED  BY <1>3, <1>6

---------------------------------------------------------------------------
WithoutStep(queue, gone, k, n) ==
    [i \in 0 .. n |->
        IF i = 0 THEN <<>>
        ELSE IF queue[i] \in gone THEN k[i - 1] ELSE Append(k[i - 1], queue[i])]

\* The recursive function in Without exists.
LEMMA WithoutDef ==
    ASSUME NEW queue, Len(queue) \in Nat, NEW gone
    PROVE  \E k : k = WithoutStep(queue, gone, k, Len(queue)) /\ Without(queue, gone) = k[Len(queue)]
  <1> DEFINE S == {n \in Nat : \E k : k = WithoutStep(queue, gone, k, n)}
             kept == CHOOSE k : k = WithoutStep(queue, gone, k, Len(queue))
  <1>1. 0 \in S
    <2>1. [i \in 0 .. 0 |-> <<>>] = WithoutStep(queue, gone, [i \in 0 .. 0 |-> <<>>], 0)
      BY DEF WithoutStep
    <2> QED  BY <2>1
  <1>2. ASSUME NEW n \in Nat, n \in S PROVE n + 1 \in S
    <2>1. PICK k : k = WithoutStep(queue, gone, k, n)
      BY <1>2
    <2> DEFINE l == [i \in 0 .. n + 1 |->
                        IF i # n + 1 THEN k[i]
                        ELSE IF queue[i] \in gone THEN k[i - 1] ELSE Append(k[i - 1], queue[i])]
    <2>2. \A i \in 0 .. n : l[i] = k[i]
      OBVIOUS
    <2>3. ASSUME NEW i \in 0 .. n + 1
          PROVE  l[i] = WithoutStep(queue, gone, l, n + 1)[i]
      <3>1. CASE i = n + 1
        <4>1. l[i - 1] = k[i - 1] /\ i # 0
          BY <3>1, <2>2
        <4> QED  BY <3>1, <4>1 DEF WithoutStep
      <3>2. CASE i # n + 1
        <4>1. i \in 0 .. n /\ (i # 0 => i - 1 \in 0 .. n)
          BY <3>2
        <4>2. l[i] = WithoutStep(queue, gone, k, n)[i]
          BY <4>1, <2>1, <2>2
        <4>3. i # 0 => l[i - 1] = k[i - 1]
          BY <4>1, <2>2
        <4> QED  BY <4>1, <4>2, <4>3 DEF WithoutStep
      <3> QED  BY <3>1, <3>2
    <2>4. l = WithoutStep(queue, gone, l, n + 1)
      <3>1. DOMAIN l = 0 .. n + 1 /\ DOMAIN WithoutStep(queue, gone, l, n + 1) = 0 .. n + 1
        BY DEF WithoutStep
      <3>2. l = [i \in 0 .. n + 1 |-> l[i]]
            /\ WithoutStep(queue, gone, l, n + 1) = [i \in 0 .. n + 1 |-> WithoutStep(queue, gone, l, n + 1)[i]]
        BY DEF WithoutStep
      <3> HIDE DEF l
      <3> QED  BY <2>3, <3>2
    <2> QED  BY <2>4
  <1>3. Len(queue) \in S
    <2> HIDE DEF S
    <2>1. \A i \in 0 .. Len(queue) : i # Len(queue) /\ i \in S => i + 1 \in S
      BY <1>2
    <2>2. 0 .. Len(queue) \subseteq S
      BY <1>1, <2>1, UpTo
    <2> QED  BY <2>2
  <1>4. kept = WithoutStep(queue, gone, kept, Len(queue))
    BY <1>3
  <1>5. Without(queue, gone) = kept[Len(queue)]
    BY DEF Without, WithoutStep
  <1> QED  BY <1>4, <1>5

\* f picks, in their order, the places of queue up to n that are not in gone, and w is
\* what is there.
Picks(f, w, queue, gone, n) ==
    /\ f \in [1 .. Len(w) -> 1 .. n]
    /\ \A a, b \in 1 .. Len(w) : a < b => f[a] < f[b]
    /\ \A a \in 1 .. Len(w) : w[a] = queue[f[a]] /\ queue[f[a]] \notin gone
    /\ \A i \in 1 .. n : queue[i] \notin gone => \E a \in 1 .. Len(w) : f[a] = i

\* What Without keeps of a queue, for every queue and every set.
LEMMA WithoutFacts ==
    ASSUME NEW D, NEW queue \in Seq(D), NEW gone
    PROVE  /\ Without(queue, gone) \in Seq(D)
           /\ \E f : Picks(f, Without(queue, gone), queue, gone, Len(queue))
  <1> DEFINE n == Len(queue)
  <1>0. n \in Nat /\ \A i \in 1 .. n : queue[i] \in D
    OBVIOUS
  <1>1. PICK k : k = WithoutStep(queue, gone, k, n) /\ Without(queue, gone) = k[n]
    BY <1>0, WithoutDef
  <1>2. /\ k[0] = <<>>
        /\ \A i \in 1 .. n : k[i] = IF queue[i] \in gone THEN k[i - 1] ELSE Append(k[i - 1], queue[i])
    <2> HIDE DEF n
    <2>1. \A i \in 0 .. n : k[i] = WithoutStep(queue, gone, k, n)[i]
      BY <1>1
    <2> QED  BY <1>0, <2>1 DEF WithoutStep
  <1> DEFINE S == {i \in 0 .. n : k[i] \in Seq(D) /\ \E f : Picks(f, k[i], queue, gone, i)}
  <1>3. 0 \in S
    <2>1. Picks(<<>>, k[0], queue, gone, 0)
      BY <1>2 DEF Picks
    <2>2. k[0] \in Seq(D) /\ 0 \in 0 .. n
      BY <1>0, <1>2
    <2> QED  BY <2>1, <2>2
  <1>4. ASSUME NEW i \in 0 .. n, i # n, i \in S PROVE i + 1 \in S
    <2> DEFINE j == i + 1
    <2>1. j \in 1 .. n /\ j - 1 = i /\ queue[j] \in D
      BY <1>0, <1>4
    <2>2. k[i] \in Seq(D)
      BY <1>4
    <2>3. PICK f : Picks(f, k[i], queue, gone, i)
      BY <1>4
    <2>4. k[j] = IF queue[j] \in gone THEN k[i] ELSE Append(k[i], queue[j])
      BY <1>2, <2>1
    <2>5. CASE queue[j] \in gone
      <3>1. Picks(f, k[i], queue, gone, j)
        <4>1. Len(k[i]) \in Nat
          BY <2>2
        <4> QED  BY <4>1, <2>1, <2>3, <2>5 DEF Picks
      <3> QED  BY <2>1, <2>2, <2>4, <2>5, <3>1
    <2>6. CASE queue[j] \notin gone
      <3> DEFINE w == k[i]
                 l == Len(w)
                 v == Append(w, queue[j])
                 e == [a \in 1 .. l + 1 |-> IF a = l + 1 THEN j ELSE f[a]]
      <3>1. l \in Nat /\ v \in Seq(D) /\ Len(v) = l + 1 /\ v[l + 1] = queue[j]
            /\ \A a \in 1 .. l : v[a] = w[a]
        BY <2>1, <2>2
      <3> HIDE DEF v, w, l
      <3>2. f \in [1 .. l -> 1 .. i] /\ (\A a, b \in 1 .. l : a < b => f[a] < f[b])
            /\ (\A a \in 1 .. l : w[a] = queue[f[a]] /\ queue[f[a]] \notin gone)
            /\ \A b \in 1 .. i : queue[b] \notin gone => \E a \in 1 .. l : f[a] = b
        BY <2>3 DEF Picks, w, l
      <3>3. e \in [1 .. l + 1 -> 1 .. j]
        BY <3>1, <3>2, <2>1
      <3>4. \A a, b \in 1 .. l + 1 : a < b => e[a] < e[b]
        BY <3>1, <3>2, <2>1
      <3>5. \A a \in 1 .. l + 1 : v[a] = queue[e[a]] /\ queue[e[a]] \notin gone
        BY <3>1, <3>2, <2>1, <2>6
      <3>6. ASSUME NEW b \in 1 .. j, queue[b] \notin gone PROVE \E a \in 1 .. l + 1 : e[a] = b
        <4>1. CASE b = j
          BY <4>1, <3>1
        <4>2. CASE b # j
          <5>1. PICK a \in 1 .. l : f[a] = b
            BY <4>2, <3>2, <3>6, <2>1
          <5>2. a \in 1 .. l + 1 /\ e[a] = b
            BY <5>1, <3>1
          <5> QED  BY <5>2
        <4> QED  BY <4>1, <4>2
      <3> HIDE DEF e
      <3>7. Picks(e, v, queue, gone, j)
        BY <3>1, <3>3, <3>4, <3>5, <3>6 DEF Picks
      <3>8. k[j] = v
        BY <2>4, <2>6 DEF v, w
      <3> QED  BY <3>1, <3>7, <3>8, <2>1
    <2> QED  BY <2>5, <2>6
  <1>5. n \in S
    <2> HIDE DEF S, n
    <2>1. 0 .. n \subseteq S
      BY <1>0, <1>3, <1>4, UpTo
    <2> QED  BY <1>0, <2>1
  <1> QED  BY <1>1, <1>5

---------------------------------------------------------------------------
\* The elements of a sequence.
LEMMA InToSet ==
    ASSUME NEW D, NEW s \in Seq(D)
    PROVE  \A x : x \in ToSet(s) <=> \E i \in 1 .. Len(s) : s[i] = x
  <1>1. DOMAIN s = 1 .. Len(s)
    OBVIOUS
  <1> QED  BY <1>1 DEF ToSet

Increasing(s) == \A i, j \in 1 .. Len(s) : i < j => s[i] < s[j]

\* What is left when a removal has cut a queue: everything else, in the order it had.
LEMMA WithoutSet ==
    ASSUME NEW D, NEW queue \in Seq(D), NEW gone
    PROVE  /\ Without(queue, gone) \in Seq(D)
           /\ ToSet(Without(queue, gone)) = ToSet(queue) \ gone
           /\ Increasing(queue) => Increasing(Without(queue, gone))
  <1> DEFINE w == Without(queue, gone)
             n == Len(queue)
             l == Len(w)
  <1>1. w \in Seq(D) /\ \E f : Picks(f, w, queue, gone, n)
    BY WithoutFacts
  <1>2. n \in Nat /\ l \in Nat /\ DOMAIN queue = 1 .. n /\ DOMAIN w = 1 .. l
    BY <1>1
  <1>3. PICK f : /\ f \in [1 .. l -> 1 .. n]
                 /\ \A a, b \in 1 .. l : a < b => f[a] < f[b]
                 /\ \A a \in 1 .. l : w[a] = queue[f[a]] /\ queue[f[a]] \notin gone
                 /\ \A i \in 1 .. n : queue[i] \notin gone => \E a \in 1 .. l : f[a] = i
    BY <1>1 DEF Picks
  <1> HIDE DEF w, n, l
  <1>4. ToSet(w) = ToSet(queue) \ gone
    <2>1. /\ \A x : x \in ToSet(w) <=> \E a \in 1 .. l : w[a] = x
          /\ \A x : x \in ToSet(queue) <=> \E i \in 1 .. n : queue[i] = x
      BY <1>1, InToSet DEF l, n
    <2>2. ASSUME NEW x \in ToSet(w) PROVE x \in ToSet(queue) \ gone
      <3>1. PICK a \in 1 .. l : w[a] = x
        BY <2>1, <2>2
      <3>2. f[a] \in 1 .. n /\ queue[f[a]] = x /\ x \notin gone
        BY <3>1, <1>3
      <3> QED  BY <2>1, <3>2
    <2>3. ASSUME NEW x \in ToSet(queue) \ gone PROVE x \in ToSet(w)
      <3>1. PICK i \in 1 .. n : queue[i] = x
        BY <2>1, <2>3
      <3>2. PICK a \in 1 .. l : f[a] = i
        BY <3>1, <2>3, <1>3
      <3>3. w[a] = x
        BY <3>1, <3>2, <1>3
      <3> QED  BY <2>1, <3>3
    <2> QED  BY <2>2, <2>3
  <1>5. (\A i, j \in 1 .. n : i < j => queue[i] < queue[j]) =>
            \A i, j \in 1 .. l : i < j => w[i] < w[j]
    BY <1>2, <1>3
  <1> QED  BY <1>1, <1>4, <1>5 DEF Increasing, w, n, l

\* Sequences of numbers at their ends.
LEMMA AppendIncreasing ==
    ASSUME NEW D \in SUBSET Nat, NEW s \in Seq(D), NEW x \in D
    PROVE  /\ Append(s, x) \in Seq(D)
           /\ ToSet(Append(s, x)) = ToSet(s) \cup {x}
           /\ Increasing(s) /\ (\A k \in ToSet(s) : k < x) => Increasing(Append(s, x))
  <1> DEFINE t == Append(s, x)
             n == Len(s)
  <1>1. /\ n \in Nat /\ t \in Seq(D) /\ Len(t) = n + 1 /\ t[n + 1] = x
        /\ (\A i \in 1 .. n : t[i] = s[i] /\ s[i] \in D)
        /\ DOMAIN s = 1 .. n /\ DOMAIN t = 1 .. n + 1
    OBVIOUS
  <1> HIDE DEF t, n
  <1>2. ToSet(t) = ToSet(s) \cup {x}
    BY <1>1 DEF ToSet
  <1>3. ASSUME \A i, j \in 1 .. n : i < j => s[i] < s[j], \A k \in ToSet(s) : k < x
        PROVE  \A i, j \in 1 .. n + 1 : i < j => t[i] < t[j]
    <2>1. \A i \in 1 .. n : s[i] < x
      BY <1>1, <1>3 DEF ToSet
    <2> QED  BY <1>1, <1>3, <2>1
  <1> QED  BY <1>1, <1>2, <1>3 DEF Increasing, t, n

\* The head of an ordered queue is its least element.
LEMMA TailIncreasing ==
    ASSUME NEW D \in SUBSET Nat, NEW s \in Seq(D), s # <<>>
    PROVE  /\ Tail(s) \in Seq(D) /\ Head(s) \in D
           /\ ToSet(s) = ToSet(Tail(s)) \cup {Head(s)}
           /\ Increasing(s) => Increasing(Tail(s)) /\ \A k \in ToSet(Tail(s)) : Head(s) < k
  <1> DEFINE t == Tail(s)
             n == Len(s)
  <1>1. /\ n \in Nat \ {0} /\ t \in Seq(D) /\ Len(t) = n - 1 /\ Head(s) = s[1]
        /\ \A i \in 1 .. n - 1 : t[i] = s[i + 1]
        /\ (\A i \in 1 .. n : s[i] \in D)
        /\ DOMAIN s = 1 .. n /\ DOMAIN t = 1 .. n - 1
    OBVIOUS
  <1> HIDE DEF t, n
  <1>2. ToSet(s) = ToSet(t) \cup {Head(s)}
    <2>0. \A x : x \in ToSet(t) <=> \E i \in 1 .. Len(t) : t[i] = x
      BY <1>1, InToSet
    <2>9. \A x : x \in ToSet(s) <=> \E i \in 1 .. Len(s) : s[i] = x
      BY InToSet
    <2>1. /\ \A x : x \in ToSet(t) <=> \E i \in 1 .. n - 1 : t[i] = x
          /\ \A x : x \in ToSet(s) <=> \E i \in 1 .. n : s[i] = x
      BY <1>1, <2>0, <2>9 DEF n
    <2>2. ASSUME NEW x \in ToSet(s) PROVE x \in ToSet(t) \cup {Head(s)}
      <3>1. PICK i \in 1 .. n : s[i] = x
        BY <2>1, <2>2
      <3>2. CASE i = 1
        BY <1>1, <3>1, <3>2
      <3>3. CASE i # 1
        <4>1. i - 1 \in 1 .. n - 1 /\ t[i - 1] = x
          BY <1>1, <3>1, <3>3
        <4> QED  BY <2>1, <4>1
      <3> QED  BY <3>2, <3>3
    <2>3. ASSUME NEW x \in ToSet(t) PROVE x \in ToSet(s)
      <3>1. PICK i \in 1 .. n - 1 : t[i] = x
        BY <2>1, <2>3
      <3>2. i + 1 \in 1 .. n /\ s[i + 1] = x
        BY <1>1, <3>1
      <3> QED  BY <2>1, <3>2
    <2>4. Head(s) \in ToSet(s)
      BY <1>1, <2>1
    <2> QED  BY <2>2, <2>3, <2>4
  <1>3. ASSUME \A i, j \in 1 .. n : i < j => s[i] < s[j]
        PROVE  /\ \A i, j \in 1 .. n - 1 : i < j => t[i] < t[j]
               /\ \A k \in ToSet(t) : Head(s) < k
    <2>1. \A i, j \in 1 .. n - 1 : i < j => t[i] < t[j]
      BY <1>1, <1>3
    <2>2. \A i \in 1 .. n - 1 : s[1] < t[i]
      BY <1>1, <1>3
    <2> QED  BY <1>1, <2>1, <2>2 DEF ToSet
  <1> QED  BY <1>1, <1>2, <1>3 DEF Increasing, t, n

---------------------------------------------------------------------------
\* A report that may follow another.
MayFollow(later, earlier) ==
    \/ later = earlier
    \/ earlier = "none" /\ later \in Reports
    \/ earlier = "dispatched" /\ later \in {"running"} \cup Outcomes
    \/ earlier = "running" /\ later \in Outcomes

\* No report of q goes back behind the one of r.
Forward(r, q) == \A m \in TaskRuns : MayFollow(q.reported[m], r.reported[m])

Waits(r) == ToSet(r.queue) \cup ToSet(r.turns)

\* No prompt waits in a driver that the removal behind it has cut off.
Cut(queue) ==
    \A m \in Removals \cap ToSet(queue) : \A k \in ToSet(queue) :
        k < m => ~InChannelScope(k, ChannelOf[m])

\* The queues of a record are in the order of receipt, and what was reported of a run
\* is what its place says: n messages were received so far.
Orderly(r, n) ==
    /\ n \in Nat
    /\ DOMAIN r = RecordFields
    /\ RecordTypeOK(r)
    /\ Increasing(r.chain) /\ Increasing(r.queue) /\ Increasing(r.turns)
    /\ \A k \in ToSet(r.chain) \cup Waits(r) : k <= n
    /\ \A k \in Waits(r) : \A m \in ToSet(r.chain) : k < m
    /\ Cut(r.queue)
    /\ \A m \in TaskRuns : n < m \/ m \in ToSet(r.chain) => r.reported[m] = "none"
    /\ \A m \in TaskRuns \cap ToSet(r.turns) : r.reported[m] = "dispatched"
    /\ r.run # None => r.reported[r.run] = "running"

\* m left the delivery chain and is not delivered yet.
Taken(r, m, n) ==
    /\ Orderly(r, n)
    /\ m \in 1 .. n /\ m \in Messages
    /\ \A k \in Waits(r) : k < m
    /\ \A k \in ToSet(r.chain) : m < k
    /\ m \in TaskRuns => r.reported[m] = "none"

\* Both, for a handler that makes q of r.
Proceeds(r, q, n) == Orderly(q, n) /\ Forward(r, q)

\* Messages are numbers above None, and no removal is a task.
LEMMA MessagesAreNumbers ==
    /\ Messages \in SUBSET Nat /\ TaskRuns \subseteq Messages /\ None \notin Messages
    /\ TaskRuns \cap Removals = {} /\ Removals \subseteq Messages
  <1>1. 1 .. MaxMessages \in SUBSET Nat
    BY RuntimeRecordAssumption
  <1> QED  BY <1>1, RuntimeRecordAssumption DEF Messages

\* Reports that go forward twice go forward.
LEMMA ForwardTransitive ==
    ASSUME NEW r, NEW q, NEW s, Forward(r, q), Forward(q, s) PROVE Forward(r, s)
  BY DEF Forward, MayFollow, Outcomes, Reports

\* No report, no step back.
LEMMA ForwardReflexive == ASSUME NEW r, NEW q, q.reported = r.reported PROVE Forward(r, q)
  BY DEF Forward, MayFollow

\* A handler that leaves the queues, the run and the reports alone.
LEMMA AsideStep ==
    ASSUME NEW r, NEW n, Orderly(r, n), NEW q,
           DOMAIN q = RecordFields,
           q.chain = r.chain /\ q.queue = r.queue /\ q.turns = r.turns,
           q.run = r.run /\ q.reported = r.reported,
           q.ready \in BOOLEAN, q.restart \in BOOLEAN, q.asked \in BOOLEAN, q.skewed \in BOOLEAN,
           q.quiet \in 0 .. StallTicks
    PROVE  Proceeds(r, q, n)
  <1>1. RecordTypeOK(q)
    BY DEF Orderly, RecordTypeOK
  <1> QED  BY <1>1, ForwardReflexive DEF Proceeds, Orderly, Waits

\* Resting, progress, readiness and books that no longer fit keep a record in order.
LEMMA MarkStep ==
    ASSUME NEW r, NEW n, Orderly(r, n)
    PROVE  /\ Proceeds(r, r, n) /\ Proceeds(r, MarkProgress(r), n) /\ Proceeds(r, MarkReady(r), n) /\ Proceeds(r, Skew(r), n)
           /\ MarkProgress(r).run = r.run /\ MarkReady(r).run = r.run /\ MarkProgress(r).turns = r.turns
           /\ MarkProgress(r).ready = r.ready
  <1>1. /\ DOMAIN r = RecordFields /\ r.ready \in BOOLEAN /\ r.restart \in BOOLEAN
        /\ r.asked \in BOOLEAN /\ r.skewed \in BOOLEAN
        /\ r.quiet \in 0 .. StallTicks /\ 0 \in 0 .. StallTicks
    BY RuntimeRecordAssumption DEF Orderly, RecordTypeOK
  <1>2. Proceeds(r, r, n)
    BY <1>1, AsideStep
  <1>3. Proceeds(r, MarkProgress(r), n)
    <2> DEFINE q == MarkProgress(r)
    <2>1. /\ DOMAIN q = RecordFields /\ q.chain = r.chain /\ q.queue = r.queue /\ q.turns = r.turns
          /\ q.run = r.run /\ q.reported = r.reported /\ q.quiet = 0 /\ q.asked = FALSE
          /\ q.ready = r.ready /\ q.restart = r.restart /\ q.skewed = r.skewed
      BY <1>1, FieldsOfRecord DEF MarkProgress
    <2> HIDE DEF q
    <2>2. Proceeds(r, q, n)
      BY <1>1, <2>1, AsideStep
    <2> QED  BY <2>2 DEF q
  <1>4. Proceeds(r, MarkReady(r), n)
    <2> DEFINE q == MarkReady(r)
    <2>1. /\ DOMAIN q = RecordFields /\ q.chain = r.chain /\ q.queue = r.queue /\ q.turns = r.turns
          /\ q.run = r.run /\ q.reported = r.reported /\ q.quiet = r.quiet /\ q.asked = r.asked
          /\ q.ready = TRUE /\ q.restart = r.restart /\ q.skewed = r.skewed
      BY <1>1, FieldsOfRecord DEF MarkReady
    <2> HIDE DEF q
    <2>2. Proceeds(r, q, n)
      BY <1>1, <2>1, AsideStep
    <2> QED  BY <2>2 DEF q
  <1>5. Proceeds(r, Skew(r), n)
    <2> DEFINE q == Skew(r)
    <2>1. /\ DOMAIN q = RecordFields /\ q.chain = r.chain /\ q.queue = r.queue /\ q.turns = r.turns
          /\ q.run = r.run /\ q.reported = r.reported /\ q.quiet = r.quiet /\ q.asked = r.asked
          /\ q.ready = r.ready /\ q.restart = r.restart /\ q.skewed = TRUE
      BY <1>1, FieldsOfRecord DEF Skew
    <2> HIDE DEF q
    <2>2. Proceeds(r, q, n)
      BY <1>1, <2>1, AsideStep
    <2> QED  BY <2>2 DEF q
  <1>6. /\ MarkProgress(r).run = r.run /\ MarkReady(r).run = r.run /\ MarkProgress(r).turns = r.turns
        /\ MarkProgress(r).ready = r.ready
    BY <1>1, FieldsOfRecord DEF MarkProgress, MarkReady
  <1> QED  BY <1>2, <1>3, <1>4, <1>5, <1>6

\* The report of the active run: it goes on, or it ends.
LEMMA ReportStep ==
    ASSUME NEW r, NEW n, Orderly(r, n), r.run # None, NEW q, NEW report,
           DOMAIN q = RecordFields,
           q.chain = r.chain /\ q.queue = r.queue /\ q.turns = r.turns,
           q.reported = [r.reported EXCEPT ![r.run] = report],
           \/ report = "running" /\ q.run = r.run
           \/ report \in Outcomes /\ q.run = None,
           q.ready = r.ready /\ q.restart = r.restart /\ q.asked = r.asked /\ q.skewed = r.skewed,
           q.quiet = r.quiet
    PROVE  Proceeds(r, q, n)
  <1>1. r.run \in TaskRuns /\ r.reported \in [TaskRuns -> Reports] /\ r.reported[r.run] = "running"
    BY DEF Orderly, RecordTypeOK
  <1>2. report \in Reports /\ report # "none" /\ report # "dispatched"
    BY DEF Reports, Outcomes
  <1>3. /\ q.reported \in [TaskRuns -> Reports] /\ q.reported[r.run] = report
        /\ \A m \in TaskRuns : m # r.run => q.reported[m] = r.reported[m]
    BY <1>1, <1>2
  <1>4. Forward(r, q)
    BY <1>1, <1>3 DEF Forward, MayFollow
  <1>5. RecordTypeOK(q)
    BY <1>3 DEF Orderly, RecordTypeOK
  <1>6. /\ \A m \in TaskRuns : n < m \/ m \in ToSet(q.chain) => q.reported[m] = "none"
        /\ \A m \in TaskRuns \cap ToSet(q.turns) : q.reported[m] = "dispatched"
        /\ q.run # None => q.reported[q.run] = "running"
    BY <1>1, <1>3 DEF Orderly
  <1> QED  BY <1>4, <1>5, <1>6 DEF Proceeds, Orderly, Waits

\* A report changes what was reported of its run and nothing else.
LEMMA PostRunFields ==
    ASSUME NEW r, DOMAIN r = RecordFields, NEW m \in TaskRuns, NEW report
    PROVE  LET q == Post(r, m, report) IN
           /\ DOMAIN q = RecordFields
           /\ q.chain = r.chain /\ q.queue = r.queue /\ q.turns = r.turns /\ q.run = r.run
           /\ q.reported = [r.reported EXCEPT ![m] = report]
           /\ q.ready = r.ready /\ q.restart = r.restart /\ q.asked = r.asked /\ q.skewed = r.skewed
           /\ q.quiet = r.quiet
  BY FieldsOfRecord DEF Post

\* The end of a run keeps a record in order.
LEMMA EndRunStep ==
    ASSUME NEW r, NEW n, Orderly(r, n), NEW outcome \in Outcomes
    PROVE  Proceeds(r, EndRun(r, outcome), n)
  <1>1. CASE r.run = None
    BY <1>1, MarkStep DEF EndRun
  <1>2. CASE r.run # None
    <2> DEFINE p == Post(r, r.run, outcome)
               q == [p EXCEPT !.run = None]
    <2>1. r.run \in TaskRuns /\ DOMAIN r = RecordFields
      BY <1>2 DEF Orderly, RecordTypeOK
    <2>2. /\ DOMAIN p = RecordFields
          /\ p.chain = r.chain /\ p.queue = r.queue /\ p.turns = r.turns
          /\ p.reported = [r.reported EXCEPT ![r.run] = outcome]
          /\ p.ready = r.ready /\ p.restart = r.restart /\ p.asked = r.asked /\ p.skewed = r.skewed
          /\ p.quiet = r.quiet
      BY <2>1, PostRunFields
    <2> HIDE DEF p
    <2>3. /\ DOMAIN q = RecordFields
          /\ q.chain = r.chain /\ q.queue = r.queue /\ q.turns = r.turns
          /\ q.reported = [r.reported EXCEPT ![r.run] = outcome]
          /\ q.ready = r.ready /\ q.restart = r.restart /\ q.asked = r.asked /\ q.skewed = r.skewed
          /\ q.quiet = r.quiet /\ q.run = None
      BY <2>2, FieldsOfRecord
    <2> HIDE DEF q
    <2>4. Proceeds(r, q, n)
      BY <1>2, <2>3, ReportStep
    <2> QED  BY <1>2, <2>4 DEF EndRun, q, p
  <1> QED  BY <1>1, <1>2

\* Two steps that keep a record in order are one.
LEMMA StepsCompose ==
    ASSUME NEW r, NEW q, NEW s, NEW n, Proceeds(r, q, n), Proceeds(q, s, n)
    PROVE  Proceeds(r, s, n)
  BY ForwardTransitive DEF Proceeds

\* The events of a child.
LEMMA EventSteps ==
    ASSUME NEW r, NEW n, Orderly(r, n), NEW intentional
    PROVE  /\ Proceeds(r, OnToolEvent(r), n) /\ Proceeds(r, OnResult(r), n) /\ Proceeds(r, OnError(r), n)
           /\ Proceeds(r, OnExit(r, intentional), n) /\ Proceeds(r, OnStop(r), n)
  <1> DEFINE p == MarkProgress(r)
  <1>1. Proceeds(r, p, n) /\ Orderly(p, n) /\ p.run = r.run /\ p.ready = r.ready
    BY MarkStep DEF Proceeds
  <1>2. Proceeds(r, OnToolEvent(r), n)
    <2>1. CASE r.ready /\ r.run # None
      <3> DEFINE q == Post(p, r.run, "running")
      <3>1. r.run \in TaskRuns /\ DOMAIN p = RecordFields
        BY <1>1, <2>1 DEF Orderly, RecordTypeOK
      <3> HIDE DEF p
      <3>2. /\ DOMAIN q = RecordFields
            /\ q.chain = p.chain /\ q.queue = p.queue /\ q.turns = p.turns /\ q.run = p.run
            /\ q.reported = [p.reported EXCEPT ![p.run] = "running"]
            /\ q.ready = p.ready /\ q.restart = p.restart /\ q.asked = p.asked /\ q.skewed = p.skewed
            /\ q.quiet = p.quiet
        BY <1>1, <3>1, PostRunFields
      <3> HIDE DEF q
      <3>3. Proceeds(p, q, n)
        BY <1>1, <2>1, <3>2, ReportStep
      <3>4. Proceeds(r, q, n)
        BY <1>1, <3>3, StepsCompose
      <3> QED  BY <2>1, <3>4 DEF OnToolEvent, p, q
    <2>2. CASE ~(r.ready /\ r.run # None)
      BY <1>1, <2>2 DEF OnToolEvent
    <2> QED  BY <2>1, <2>2
  <1>3. Proceeds(r, EndRun(p, "completed"), n) /\ Proceeds(r, EndRun(p, "failed"), n) /\ Proceeds(r, Skew(p), n)
    <2> HIDE DEF p
    <2>1. Proceeds(p, EndRun(p, "completed"), n) /\ Proceeds(p, EndRun(p, "failed"), n) /\ Proceeds(p, Skew(p), n)
      BY <1>1, EndRunStep, MarkStep DEF Outcomes
    <2> QED  BY <1>1, <2>1, StepsCompose
  <1>4. /\ Proceeds(r, MarkProgress(EndRun(r, "failed")), n)
        /\ Proceeds(r, MarkProgress(EndRun(r, "cancelled")), n)
    <2> DEFINE e == EndRun(r, "failed")
               c == EndRun(r, "cancelled")
    <2>1. Proceeds(r, e, n) /\ Proceeds(r, c, n) /\ Orderly(e, n) /\ Orderly(c, n)
      BY EndRunStep DEF Outcomes, Proceeds
    <2> HIDE DEF e, c
    <2>2. Proceeds(e, MarkProgress(e), n) /\ Proceeds(c, MarkProgress(c), n)
      BY <2>1, MarkStep
    <2>3. Proceeds(r, MarkProgress(e), n) /\ Proceeds(r, MarkProgress(c), n)
      BY <2>1, <2>2, StepsCompose
    <2> QED  BY <2>3 DEF e, c
  <1>5. Proceeds(r, OnResult(r), n)
    BY <1>1, <1>3 DEF OnResult
  <1>6. Proceeds(r, OnError(r), n)
    BY <1>3 DEF OnError
  <1>7. Proceeds(r, OnExit(r, intentional), n)
    BY <1>1, <1>4 DEF OnExit
  <1>8. Proceeds(r, OnStop(r), n)
    BY <1>4 DEF OnStop
  <1> QED  BY <1>2, <1>5, <1>6, <1>7, <1>8

\* A run begins whose message waited nowhere.
LEMMA BeginTurnStep ==
    ASSUME NEW r, NEW n, Orderly(r, n), NEW m \in Messages, m <= n,
           \A k \in ToSet(r.turns) : m # k,
           \A k \in ToSet(r.chain) : m # k,
           m \in TaskRuns => r.reported[m] \in {"none", "dispatched"}
    PROVE  Proceeds(r, BeginTurn(r, m), n)
  <1>1. CASE m \notin TaskRuns
    BY <1>1, MarkStep DEF BeginTurn
  <1>2. CASE m \in TaskRuns
    <2>n. m \in Nat /\ n \in Nat
      BY MessagesAreNumbers DEF Orderly
    <2> DEFINE p == [r EXCEPT !.run = m]
               q == Post(p, m, "running")
    <2>0. /\ DOMAIN r = RecordFields /\ RecordTypeOK(r)
          /\ \A k \in TaskRuns : n < k \/ k \in ToSet(r.chain) => r.reported[k] = "none"
          /\ \A k \in TaskRuns \cap ToSet(r.turns) : r.reported[k] = "dispatched"
      BY DEF Orderly
    <2>1. /\ DOMAIN p = RecordFields /\ p.chain = r.chain /\ p.queue = r.queue /\ p.turns = r.turns
          /\ p.run = m /\ p.reported = r.reported /\ p.ready = r.ready /\ p.restart = r.restart
          /\ p.asked = r.asked /\ p.skewed = r.skewed /\ p.quiet = r.quiet
      BY <2>0, FieldsOfRecord
    <2> HIDE DEF p
    <2>2. /\ DOMAIN q = RecordFields /\ q.chain = r.chain /\ q.queue = r.queue /\ q.turns = r.turns
          /\ q.run = m /\ q.reported = [r.reported EXCEPT ![m] = "running"] /\ q.ready = r.ready
          /\ q.restart = r.restart /\ q.asked = r.asked /\ q.skewed = r.skewed /\ q.quiet = r.quiet
      BY <1>2, <2>1, PostRunFields
    <2> HIDE DEF q
    <2>3. /\ q.reported \in [TaskRuns -> Reports] /\ q.reported[m] = "running"
          /\ \A k \in TaskRuns : k # m => q.reported[k] = r.reported[k]
      BY <1>2, <2>0, <2>2 DEF RecordTypeOK, Reports
    <2>4. Forward(r, q)
      BY <1>2, <2>3 DEF Forward, MayFollow, Reports
    <2>5. RecordTypeOK(q)
      BY <1>2, <2>0, <2>2, <2>3 DEF RecordTypeOK
    <2>6. /\ \A k \in TaskRuns : n < k \/ k \in ToSet(q.chain) => q.reported[k] = "none"
          /\ \A k \in TaskRuns \cap ToSet(q.turns) : q.reported[k] = "dispatched"
      <3>1. ~(n < m)
        BY <2>n
      <3> QED  BY <2>0, <2>2, <2>3, <3>1
    <2>7. Orderly(q, n)
      BY <2>2, <2>3, <2>5, <2>6 DEF Orderly, Waits
    <2> QED  BY <1>2, <2>4, <2>7 DEF Proceeds, BeginTurn, q, p
  <1> QED  BY <1>1, <1>2

---------------------------------------------------------------------------
\* What a record in order is made of.
LEMMA TypeOfOrderly ==
    ASSUME NEW r, NEW n, Orderly(r, n)
    PROVE  /\ n \in Nat /\ DOMAIN r = RecordFields
           /\ r.chain \in Seq(Messages) /\ r.queue \in Seq(Messages) /\ r.turns \in Seq(Messages)
           /\ r.run \in TaskRuns \cup {None} /\ r.reported \in [TaskRuns -> Reports]
           /\ r.ready \in BOOLEAN /\ r.restart \in BOOLEAN /\ r.asked \in BOOLEAN /\ r.skewed \in BOOLEAN
           /\ r.quiet \in 0 .. StallTicks
  BY DEF Orderly, RecordTypeOK

\* A record that was just made is in order.
LEMMA LaunchedOrderly == ASSUME NEW n \in Nat PROVE Orderly(Launched, n)
  <1> DEFINE r == Launched
  <1>1. /\ DOMAIN r = RecordFields
        /\ r.chain = <<>> /\ r.queue = <<>> /\ r.turns = <<>> /\ r.run = None
        /\ r.ready = FALSE /\ r.restart = FALSE /\ r.asked = FALSE /\ r.skewed = FALSE
        /\ r.quiet = 0 /\ r.reported = [m \in TaskRuns |-> "none"]
    BY DEF Launched, RecordFields
  <1> HIDE DEF r
  <1>2. RecordTypeOK(r)
    <2>1. r.chain \in Seq(Messages) /\ r.queue \in Seq(Messages) /\ r.turns \in Seq(Messages)
      BY <1>1
    <2>2. r.quiet \in 0 .. StallTicks /\ r.reported \in [TaskRuns -> Reports]
      BY <1>1, RuntimeRecordAssumption DEF Reports
    <2> QED  BY <1>1, <2>1, <2>2 DEF RecordTypeOK
  <1>3. ToSet(r.chain) = {} /\ ToSet(r.queue) = {} /\ ToSet(r.turns) = {}
    BY <1>1 DEF ToSet
  <1>4. Increasing(r.chain) /\ Increasing(r.queue) /\ Increasing(r.turns)
    BY <1>1 DEF Increasing
  <1>5. Orderly(r, n)
    BY <1>1, <1>2, <1>3, <1>4 DEF Orderly, Waits, Cut
  <1> QED  BY <1>5 DEF r

\* A record whose queues lose messages stays in order.
LEMMA FewerStep ==
    ASSUME NEW r, NEW n, Orderly(r, n), NEW q, DOMAIN q = RecordFields,
           q.chain \in Seq(Messages), q.queue \in Seq(Messages), q.turns \in Seq(Messages),
           Increasing(q.chain), Increasing(q.queue), Increasing(q.turns),
           ToSet(q.chain) \subseteq ToSet(r.chain), ToSet(q.queue) \subseteq ToSet(r.queue),
           ToSet(q.turns) \subseteq ToSet(r.turns),
           q.run = r.run, q.ready = r.ready, q.restart = r.restart, q.quiet = r.quiet,
           q.asked = r.asked, q.reported = r.reported, q.skewed = r.skewed
    PROVE  Proceeds(r, q, n)
  <1>1. RecordTypeOK(q)
    BY DEF Orderly, RecordTypeOK
  <1>2. Waits(q) \subseteq Waits(r)
    BY DEF Waits
  <1>3. Cut(q.queue)
    BY DEF Orderly, Cut
  <1>4. Orderly(q, n)
    BY <1>1, <1>2, <1>3 DEF Orderly
  <1> QED  BY <1>4, ForwardReflexive DEF Proceeds

\* The head of the delivery chain.
LEMMA TakeStep ==
    ASSUME NEW r, NEW n, Orderly(r, n), r.chain # <<>>
    PROVE  LET q == [r EXCEPT !.chain = Tail(@)] IN
           /\ Proceeds(r, q, n) /\ Taken(q, Head(r.chain), n)
           /\ q.queue = r.queue /\ q.turns = r.turns /\ q.run = r.run /\ q.chain = Tail(r.chain)
           /\ q.reported = r.reported
  <1> DEFINE q == [r EXCEPT !.chain = Tail(@)]
             m == Head(r.chain)
  <1>1. /\ DOMAIN q = RecordFields /\ q.chain = Tail(r.chain) /\ q.queue = r.queue /\ q.turns = r.turns
        /\ q.run = r.run /\ q.ready = r.ready /\ q.restart = r.restart /\ q.quiet = r.quiet
        /\ q.asked = r.asked /\ q.reported = r.reported /\ q.skewed = r.skewed
    BY TypeOfOrderly, FieldsOfRecord
  <1> HIDE DEF q
  <1>2. r.chain \in Seq(Messages) /\ Increasing(r.chain) /\ Increasing(r.queue) /\ Increasing(r.turns)
        /\ r.queue \in Seq(Messages) /\ r.turns \in Seq(Messages)
    BY TypeOfOrderly DEF Orderly
  <1>3. /\ q.chain \in Seq(Messages) /\ m \in Messages
        /\ ToSet(r.chain) = ToSet(q.chain) \cup {m}
        /\ Increasing(q.chain) /\ \A k \in ToSet(q.chain) : m < k
    BY <1>1, <1>2, MessagesAreNumbers, TailIncreasing
  <1> HIDE DEF m
  <1>4. Proceeds(r, q, n)
    BY <1>1, <1>2, <1>3, FewerStep
  <1>5. m \in 1 .. n
    BY <1>3, RuntimeRecordAssumption DEF Orderly, Messages
  <1>6. Waits(q) = Waits(r)
    BY <1>1 DEF Waits
  <1>7. (\A k \in Waits(q) : k < m) /\ (m \in TaskRuns => q.reported[m] = "none")
    BY <1>1, <1>3, <1>6 DEF Orderly
  <1>8. Taken(q, m, n)
    BY <1>3, <1>4, <1>5, <1>7 DEF Taken, Proceeds
  <1> QED  BY <1>1, <1>4, <1>8 DEF q, m

\* The agent's own removal.
LEMMA CutOffStep ==
    ASSUME NEW r, NEW n, Orderly(r, n), NEW channel
    PROVE  LET q == CutOff(r, channel) IN
           /\ Proceeds(r, q, n)
           /\ q.chain = r.chain /\ q.reported = r.reported /\ q.run = r.run
           /\ ToSet(q.queue) = ToSet(r.queue) \ {m \in Messages : InChannelScope(m, channel)}
           /\ ToSet(q.turns) \subseteq ToSet(r.turns)
  <1> DEFINE q == CutOff(r, channel)
             x == DiscardTurns(r.turns, channel)
             y == DiscardQueuedChannel(r.queue, channel)
             gone == {m \in Messages : InChannelScope(m, channel)}
  <1>1. r.queue \in Seq(Messages) /\ r.turns \in Seq(Messages) /\ Increasing(r.queue) /\ Increasing(r.turns)
        /\ r.chain \in Seq(Messages) /\ Increasing(r.chain)
    BY TypeOfOrderly DEF Orderly
  <1>2. /\ y \in Seq(Messages) /\ ToSet(y) = ToSet(r.queue) \ gone /\ Increasing(y)
    BY <1>1, WithoutSet DEF DiscardQueuedChannel
  <1>3. /\ x \in Seq(Messages) /\ Increasing(x)
        /\ ToSet(x) = ToSet(r.turns) \ {m \in Messages : ChannelOf[m] = channel}
    BY <1>1, WithoutSet DEF DiscardTurns
  <1> HIDE DEF x, y, gone
  <1>4. /\ DOMAIN q = RecordFields /\ q.chain = r.chain /\ q.queue = y /\ q.turns = x
        /\ q.run = r.run /\ q.ready = r.ready /\ q.restart = r.restart /\ q.quiet = r.quiet
        /\ q.asked = r.asked /\ q.reported = r.reported /\ q.skewed = r.skewed
    BY TypeOfOrderly, FieldsOfRecord DEF CutOff, x, y
  <1> HIDE DEF q
  <1>5. /\ Proceeds(r, q, n) /\ q.chain = r.chain /\ q.reported = r.reported /\ q.run = r.run
        /\ ToSet(q.queue) = ToSet(r.queue) \ gone /\ ToSet(q.turns) \subseteq ToSet(r.turns)
    BY <1>1, <1>2, <1>3, <1>4, FewerStep
  <1> QED  BY <1>5 DEF q, gone

\* A removal that was taken from the chain clears its channel; any other message
\* leaves the queues.
LEMMA TakenCutStep ==
    ASSUME NEW r, NEW n, NEW m, Taken(r, m, n)
    PROVE  LET q == IF m \in Removals THEN CutOff(r, ChannelOf[m]) ELSE r IN
           /\ Proceeds(r, q, n) /\ Taken(q, m, n)
           /\ q.chain = r.chain
           /\ ToSet(q.queue) \subseteq ToSet(r.queue)
           /\ m \in Removals => \A k \in ToSet(q.queue) : ~InChannelScope(k, ChannelOf[m])
  <1> DEFINE c == CutOff(r, ChannelOf[m])
  <1>1. Orderly(r, n) /\ r.queue \in Seq(Messages)
    BY TypeOfOrderly DEF Taken
  <1>2. /\ Proceeds(r, c, n)
        /\ c.chain = r.chain /\ c.reported = r.reported
        /\ ToSet(c.queue) = ToSet(r.queue) \ {k \in Messages : InChannelScope(k, ChannelOf[m])}
        /\ ToSet(c.turns) \subseteq ToSet(r.turns)
    BY <1>1, CutOffStep
  <1>3. ToSet(r.queue) \subseteq Messages
    BY <1>1 DEF ToSet
  <1> HIDE DEF c
  <1>4. Taken(c, m, n)
    BY <1>2 DEF Taken, Proceeds, Waits
  <1>5. \A k \in ToSet(c.queue) : ~InChannelScope(k, ChannelOf[m])
    BY <1>2, <1>3
  <1>6. CASE m \in Removals
    BY <1>2, <1>4, <1>5, <1>6 DEF c
  <1>7. CASE m \notin Removals
    BY <1>1, <1>7, MarkStep
  <1> QED  BY <1>6, <1>7

\* The oldest prompt leaves the queue of the driver.
LEMMA DequeueStep ==
    ASSUME NEW r, NEW n, Orderly(r, n), r.queue # <<>>
    PROVE  LET q == [r EXCEPT !.queue = Tail(@)] IN
           /\ Proceeds(r, q, n) /\ Head(r.queue) \in Messages
           /\ q.chain = r.chain /\ q.queue = Tail(r.queue) /\ q.turns = r.turns /\ q.run = r.run
           /\ \A k \in ToSet(q.queue) \cup ToSet(q.chain) : Head(r.queue) < k
  <1> DEFINE q == [r EXCEPT !.queue = Tail(@)]
             m == Head(r.queue)
  <1>1. /\ DOMAIN q = RecordFields /\ q.chain = r.chain /\ q.queue = Tail(r.queue) /\ q.turns = r.turns
        /\ q.run = r.run /\ q.ready = r.ready /\ q.restart = r.restart /\ q.quiet = r.quiet
        /\ q.asked = r.asked /\ q.reported = r.reported /\ q.skewed = r.skewed
    BY TypeOfOrderly, FieldsOfRecord
  <1> HIDE DEF q
  <1>2. r.chain \in Seq(Messages) /\ Increasing(r.chain) /\ Increasing(r.queue) /\ Increasing(r.turns)
        /\ r.queue \in Seq(Messages) /\ r.turns \in Seq(Messages)
    BY TypeOfOrderly DEF Orderly
  <1>3. /\ q.queue \in Seq(Messages) /\ m \in Messages
        /\ ToSet(r.queue) = ToSet(q.queue) \cup {m}
        /\ Increasing(q.queue) /\ \A k \in ToSet(q.queue) : m < k
    BY <1>1, <1>2, MessagesAreNumbers, TailIncreasing
  <1> HIDE DEF m
  <1>4. Proceeds(r, q, n)
    BY <1>1, <1>2, <1>3, FewerStep
  <1>5. \A k \in ToSet(q.chain) : m < k
    BY <1>1, <1>3 DEF Orderly, Waits
  <1> QED  BY <1>1, <1>3, <1>4, <1>5 DEF q, m

\* A turn that begins leaves the queues, and reports a task as running.
LEMMA BeginTurnFields ==
    ASSUME NEW r, DOMAIN r = RecordFields, NEW m
    PROVE  LET q == BeginTurn(r, m) IN
           /\ q.chain = r.chain /\ q.queue = r.queue /\ q.turns = r.turns
           /\ q.reported = IF m \in TaskRuns THEN [r.reported EXCEPT ![m] = "running"] ELSE r.reported
  <1> DEFINE p == [r EXCEPT !.run = m]
  <1>1. CASE m \in TaskRuns
    <2>1. DOMAIN p = RecordFields /\ p.chain = r.chain /\ p.queue = r.queue /\ p.turns = r.turns
          /\ p.reported = r.reported
      BY FieldsOfRecord
    <2>2. BeginTurn(r, m) = Post(p, m, "running")
      BY <1>1 DEF BeginTurn
    <2> HIDE DEF p
    <2> QED  BY <1>1, <2>1, <2>2, PostRunFields
  <1>2. CASE m \notin TaskRuns
    BY <1>2 DEF BeginTurn
  <1> QED  BY <1>1, <1>2

\* The oldest turn begins.
LEMMA MessageSentStep ==
    ASSUME NEW r, NEW n, Orderly(r, n)
    PROVE  /\ Proceeds(r, OnMessageSent(r), n)
           /\ OnMessageSent(r).chain = r.chain /\ OnMessageSent(r).queue = r.queue
           /\ ToSet(OnMessageSent(r).turns) \subseteq ToSet(r.turns)
           /\ \A k \in TaskRuns \ ToSet(r.turns) : OnMessageSent(r).reported[k] = r.reported[k]
  <1> DEFINE p == MarkProgress(r)
             q == [p EXCEPT !.turns = Tail(@)]
             m == Head(r.turns)
             b == BeginTurn(q, m)
  <1>1. Proceeds(r, p, n) /\ Orderly(p, n)
    BY MarkStep DEF Proceeds
  <1>2. /\ DOMAIN p = RecordFields /\ p.chain = r.chain /\ p.queue = r.queue /\ p.turns = r.turns
        /\ p.reported = r.reported
    BY <1>1, TypeOfOrderly, FieldsOfRecord DEF MarkProgress
  <1>3. CASE r.turns = <<>>
    BY <1>1, <1>2, <1>3 DEF OnMessageSent
  <1>4. CASE r.turns # <<>>
    <2>0. OnMessageSent(r) = b
      BY <1>4 DEF OnMessageSent
    <2> HIDE DEF p
    <2>1. /\ DOMAIN q = RecordFields /\ q.chain = p.chain /\ q.queue = p.queue /\ q.turns = Tail(r.turns)
          /\ q.run = p.run /\ q.ready = p.ready /\ q.restart = p.restart /\ q.quiet = p.quiet
          /\ q.asked = p.asked /\ q.reported = r.reported /\ q.skewed = p.skewed
      BY <1>2, FieldsOfRecord
    <2> HIDE DEF q
    <2>2. p.chain \in Seq(Messages) /\ Increasing(p.chain) /\ Increasing(p.queue) /\ Increasing(p.turns)
          /\ p.queue \in Seq(Messages) /\ p.turns \in Seq(Messages)
      BY <1>1, TypeOfOrderly DEF Orderly
    <2>3. /\ q.turns \in Seq(Messages) /\ m \in Messages
          /\ ToSet(r.turns) = ToSet(q.turns) \cup {m}
          /\ Increasing(q.turns) /\ \A k \in ToSet(q.turns) : m < k
      BY <1>2, <1>4, <2>1, <2>2, MessagesAreNumbers, TailIncreasing
    <2> HIDE DEF m
    <2>4. Proceeds(p, q, n) /\ Orderly(q, n)
      BY <1>1, <1>2, <2>1, <2>2, <2>3, FewerStep DEF Proceeds
    <2>5. /\ m <= n /\ m \in Nat
          /\ \A k \in ToSet(q.turns) : m # k
          /\ \A k \in ToSet(q.chain) : m # k
          /\ m \in TaskRuns => q.reported[m] \in {"none", "dispatched"}
      <3>1. m \in ToSet(p.turns) /\ m \in Nat /\ p.turns = r.turns
        BY <1>2, <2>3, MessagesAreNumbers
      <3>2. m <= n /\ \A k \in ToSet(p.chain) : m < k
        BY <1>1, <3>1 DEF Orderly, Waits
      <3>3. m \in TaskRuns => p.reported[m] = "dispatched"
        BY <1>1, <3>1 DEF Orderly
      <3> QED  BY <1>2, <2>1, <2>3, <3>1, <3>2, <3>3
    <2>6. Proceeds(q, b, n)
      BY <2>3, <2>4, <2>5, BeginTurnStep
    <2>7. Proceeds(r, b, n)
      <3> HIDE DEF b
      <3> QED  BY <1>1, <2>4, <2>6, StepsCompose
    <2>8. /\ b.chain = q.chain /\ b.queue = q.queue /\ b.turns = q.turns
          /\ b.reported = IF m \in TaskRuns THEN [q.reported EXCEPT ![m] = "running"] ELSE q.reported
      BY <2>1, BeginTurnFields
    <2> HIDE DEF b
    <2>9. \A k \in TaskRuns \ ToSet(r.turns) : b.reported[k] = r.reported[k]
      BY <2>1, <2>3, <2>8
    <2> QED  BY <1>2, <2>0, <2>1, <2>3, <2>7, <2>8, <2>9
  <1> QED  BY <1>3, <1>4

\* ... of a message other than the one that was taken.
LEMMA TakenSentStep ==
    ASSUME NEW r, NEW n, NEW m, Taken(r, m, n)
    PROVE  Proceeds(r, OnMessageSent(r), n) /\ Taken(OnMessageSent(r), m, n)
  <1> DEFINE q == OnMessageSent(r)
  <1>1. /\ Proceeds(r, q, n) /\ q.chain = r.chain /\ q.queue = r.queue /\ ToSet(q.turns) \subseteq ToSet(r.turns)
        /\ \A k \in TaskRuns \ ToSet(r.turns) : q.reported[k] = r.reported[k]
    BY MessageSentStep DEF Taken
  <1> HIDE DEF q
  <1>2. m \notin ToSet(r.turns) /\ m \in Nat
    BY MessagesAreNumbers DEF Taken, Waits
  <1>3. Taken(q, m, n)
    BY <1>1, <1>2 DEF Taken, Proceeds, Waits
  <1> QED  BY <1>1, <1>3 DEF q

\* The prompt is sent.
LEMMA SentStep ==
    ASSUME NEW r, NEW n, NEW m, Taken(r, m, n)
    PROVE  /\ Proceeds(r, DeliverSent(r, m), n)
           /\ DeliverSent(r, m).chain = r.chain /\ DeliverSent(r, m).queue = r.queue
  <1>0. Orderly(r, n) /\ DOMAIN r = RecordFields /\ m \in Messages /\ m \in Nat /\ n \in Nat /\ m <= n
    BY TypeOfOrderly, MessagesAreNumbers DEF Taken
  <1>1. CASE m \in Removals
    BY <1>0, <1>1, MarkStep DEF DeliverSent
  <1>2. CASE m \notin Removals /\ m \notin TaskRuns
    <2>1. DeliverSent(r, m) = r
      BY <1>2 DEF DeliverSent, Post, BeginTurn
    <2> QED  BY <1>0, <2>1, MarkStep
  <1>3. CASE m \notin Removals /\ m \in TaskRuns
    <2> DEFINE p == Post(r, m, "dispatched")
               b == BeginTurn(p, m)
    <2>1. /\ DOMAIN p = RecordFields
          /\ p.chain = r.chain /\ p.queue = r.queue /\ p.turns = r.turns /\ p.run = r.run
          /\ p.reported = [r.reported EXCEPT ![m] = "dispatched"]
          /\ p.ready = r.ready /\ p.restart = r.restart /\ p.asked = r.asked /\ p.skewed = r.skewed
          /\ p.quiet = r.quiet
      BY <1>0, <1>3, PostRunFields
    <2> HIDE DEF p
    <2>2. /\ r.reported \in [TaskRuns -> Reports] /\ r.reported[m] = "none"
          /\ (\A k \in Waits(r) : k < m) /\ (\A k \in ToSet(r.chain) : m < k)
          /\ r.run \in TaskRuns \cup {None} /\ (r.run # None => r.reported[r.run] = "running")
      BY <1>3, TypeOfOrderly DEF Taken, Orderly
    <2>3. /\ p.reported \in [TaskRuns -> Reports] /\ p.reported[m] = "dispatched"
          /\ \A k \in TaskRuns : k # m => p.reported[k] = r.reported[k]
      BY <1>3, <2>1, <2>2 DEF Reports
    <2>4. Forward(r, p)
      BY <2>2, <2>3 DEF Forward, MayFollow, Reports
    <2>5. RecordTypeOK(p)
      BY <1>0, <2>1, <2>3 DEF Orderly, RecordTypeOK
    <2>6. /\ \A k \in TaskRuns : n < k \/ k \in ToSet(p.chain) => p.reported[k] = "none"
          /\ \A k \in TaskRuns \cap ToSet(p.turns) : p.reported[k] = "dispatched"
          /\ p.run # None => p.reported[p.run] = "running"
      <3>1. \A k \in TaskRuns : n < k \/ k \in ToSet(p.chain) => k # m
        BY <1>0, <2>1, <2>2
      <3>2. \A k \in ToSet(p.turns) : k # m
        BY <1>0, <2>1, <2>2 DEF Waits
      <3>3. p.run # None => p.run # m
        BY <2>1, <2>2, <2>3
      <3> QED  BY <1>0, <2>1, <2>2, <2>3, <3>1, <3>2, <3>3 DEF Orderly
    <2>7. Proceeds(r, p, n) /\ Orderly(p, n)
      BY <1>0, <2>1, <2>4, <2>5, <2>6 DEF Proceeds, Orderly, Waits
    <2>8. Proceeds(p, b, n)
      <3>1. /\ \A k \in ToSet(p.turns) : m # k
            /\ \A k \in ToSet(p.chain) : m # k
        BY <1>0, <2>1, <2>2 DEF Waits
      <3> QED  BY <1>0, <2>3, <2>7, <3>1, BeginTurnStep
    <2>9. b.chain = p.chain /\ b.queue = p.queue
      BY <2>1, BeginTurnFields
    <2> HIDE DEF b
    <2>10. Proceeds(r, b, n) /\ b.chain = r.chain /\ b.queue = r.queue
      BY <2>1, <2>7, <2>8, <2>9, StepsCompose
    <2> QED  BY <1>3, <2>10 DEF DeliverSent, b, p
  <1> QED  BY <1>1, <1>2, <1>3

\* Waiting behind everything else.
LEMMA QueuedStep ==
    ASSUME NEW r, NEW n, NEW m, Taken(r, m, n),
           m \in Removals => \A k \in ToSet(r.queue) : ~InChannelScope(k, ChannelOf[m])
    PROVE  Proceeds(r, DeliverQueued(r, m), n)
  <1> DEFINE u == [r EXCEPT !.queue = Append(@, m)]
             p == Post(u, m, "dispatched")
             t == [p EXCEPT !.turns = Append(@, m)]
             s == Skew(u)
  <1>0. /\ Orderly(r, n) /\ DOMAIN r = RecordFields /\ m \in Messages /\ m \in Nat /\ n \in Nat /\ m <= n
        /\ m \in 1 .. n
        /\ (\A k \in Waits(r) : k < m) /\ (\A k \in ToSet(r.chain) : m < k)
        /\ (m \in TaskRuns => r.reported[m] = "none")
    BY TypeOfOrderly, MessagesAreNumbers DEF Taken
  <1>1. /\ r.queue \in Seq(Messages) /\ r.turns \in Seq(Messages) /\ r.reported \in [TaskRuns -> Reports]
        /\ Increasing(r.queue) /\ Increasing(r.turns) /\ Increasing(r.chain) /\ RecordTypeOK(r) /\ Cut(r.queue)
        /\ r.run \in TaskRuns \cup {None} /\ (r.run # None => r.reported[r.run] = "running")
    BY <1>0, TypeOfOrderly DEF Orderly
  <1>2. /\ DOMAIN u = RecordFields /\ u.chain = r.chain /\ u.queue = Append(r.queue, m) /\ u.turns = r.turns
        /\ u.run = r.run /\ u.ready = r.ready /\ u.restart = r.restart /\ u.quiet = r.quiet
        /\ u.asked = r.asked /\ u.reported = r.reported /\ u.skewed = r.skewed
    BY <1>0, FieldsOfRecord
  <1> HIDE DEF u
  <1>3. /\ u.queue \in Seq(Messages) /\ ToSet(u.queue) = ToSet(r.queue) \cup {m} /\ Increasing(u.queue)
    BY <1>0, <1>1, <1>2, MessagesAreNumbers, AppendIncreasing DEF Waits
  <1>4. Cut(u.queue)
    <2>0. ToSet(r.queue) \subseteq Messages
      BY <1>1 DEF ToSet
    <2>1. ToSet(r.queue) \subseteq Nat /\ \A k \in ToSet(r.queue) : k < m
      BY <1>0, <2>0, MessagesAreNumbers DEF Waits
    <2>2. ASSUME NEW a \in Removals \cap ToSet(u.queue), NEW b \in ToSet(u.queue), b < a
          PROVE  ~InChannelScope(b, ChannelOf[a])
      <3>1. CASE a = m
        <4>1. b # m
          BY <1>0, <2>2, <3>1
        <4> QED  BY <1>3, <2>2, <3>1, <4>1
      <3>2. CASE a # m
        <4>1. a \in ToSet(r.queue) /\ a < m /\ a \in Nat
          BY <1>3, <2>1, <3>2
        <4>2. b # m
          BY <1>0, <2>2, <4>1
        <4> QED  BY <1>1, <1>3, <2>2, <4>1, <4>2 DEF Cut
      <3> QED  BY <3>1, <3>2
    <2> QED  BY <2>2 DEF Cut
  <1>5. CASE m \in Removals
    <2>1. /\ DOMAIN s = RecordFields /\ s.chain = r.chain /\ s.queue = u.queue /\ s.turns = r.turns
          /\ s.run = r.run /\ s.ready = r.ready /\ s.restart = r.restart /\ s.quiet = r.quiet
          /\ s.asked = r.asked /\ s.reported = r.reported /\ s.skewed = TRUE
      BY <1>2, FieldsOfRecord DEF Skew
    <2> HIDE DEF s
    <2>2. RecordTypeOK(s)
      BY <1>1, <1>3, <2>1 DEF RecordTypeOK
    <2>3. Waits(s) = Waits(r) \cup {m}
      BY <1>3, <2>1 DEF Waits
    <2>4. Orderly(s, n)
      BY <1>0, <1>1, <1>3, <1>4, <2>1, <2>2, <2>3 DEF Orderly
    <2>5. Proceeds(r, s, n)
      BY <2>1, <2>4, ForwardReflexive DEF Proceeds
    <2> QED  BY <1>5, <2>5 DEF DeliverQueued, s, u
  <1>6. CASE m \notin Removals
    <2>1. /\ DOMAIN p = RecordFields
          /\ p.chain = u.chain /\ p.queue = u.queue /\ p.turns = u.turns /\ p.run = u.run
          /\ p.reported = IF m \in TaskRuns THEN [r.reported EXCEPT ![m] = "dispatched"] ELSE r.reported
          /\ p.ready = u.ready /\ p.restart = u.restart /\ p.asked = u.asked /\ p.skewed = u.skewed
          /\ p.quiet = u.quiet
      <3>1. CASE m \in TaskRuns
        BY <1>2, <3>1, PostRunFields
      <3>2. CASE m \notin TaskRuns
        BY <1>2, <3>2 DEF Post
      <3> QED  BY <3>1, <3>2
    <2> HIDE DEF p
    <2>2. /\ DOMAIN t = RecordFields /\ t.chain = r.chain /\ t.queue = u.queue
          /\ t.turns = Append(r.turns, m)
          /\ t.run = r.run /\ t.ready = r.ready /\ t.restart = r.restart /\ t.quiet = r.quiet
          /\ t.asked = r.asked /\ t.reported = p.reported /\ t.skewed = r.skewed
      BY <1>2, <2>1, FieldsOfRecord
    <2> HIDE DEF t
    <2>3. /\ t.turns \in Seq(Messages) /\ ToSet(t.turns) = ToSet(r.turns) \cup {m} /\ Increasing(t.turns)
      BY <1>0, <1>1, <2>2, MessagesAreNumbers, AppendIncreasing DEF Waits
    <2>4. /\ t.reported \in [TaskRuns -> Reports] /\ (m \in TaskRuns => t.reported[m] = "dispatched")
          /\ \A k \in TaskRuns : k # m => t.reported[k] = r.reported[k]
      BY <1>1, <2>1, <2>2 DEF Reports
    <2>5. Forward(r, t)
      BY <1>0, <2>4 DEF Forward, MayFollow, Reports
    <2>6. RecordTypeOK(t)
      BY <1>1, <1>3, <2>2, <2>3, <2>4 DEF RecordTypeOK
    <2>7. Waits(t) = Waits(r) \cup {m}
      BY <1>3, <2>2, <2>3 DEF Waits
    <2>8. /\ \A k \in TaskRuns : n < k \/ k \in ToSet(t.chain) => t.reported[k] = "none"
          /\ \A k \in TaskRuns \cap ToSet(t.turns) : t.reported[k] = "dispatched"
          /\ t.run # None => t.reported[t.run] = "running"
      <3>1. \A k \in TaskRuns : n < k \/ k \in ToSet(t.chain) => k # m
        BY <1>0, <2>2
      <3>2. t.run # None /\ m \in TaskRuns => t.run # m
        BY <1>0, <1>1, <2>2
      <3> QED  BY <1>0, <1>1, <2>2, <2>3, <2>4, <3>1, <3>2 DEF Orderly
    <2>9. /\ \A k \in ToSet(t.chain) \cup Waits(t) : k <= n
          /\ \A k \in Waits(t) : \A a \in ToSet(t.chain) : k < a
      BY <1>0, <2>2, <2>7 DEF Orderly
    <2>10. Orderly(t, n)
      BY <1>0, <1>1, <1>3, <1>4, <2>2, <2>3, <2>6, <2>8, <2>9 DEF Orderly
    <2>11. Proceeds(r, t, n)
      BY <2>5, <2>10 DEF Proceeds
    <2> QED  BY <1>6, <2>11 DEF DeliverQueued, t, p, u
  <1> QED  BY <1>5, <1>6

\* A message is received, by this launch or by another.
LEMMA LaterStep == ASSUME NEW r, NEW n, Orderly(r, n) PROVE Proceeds(r, r, n + 1)
  <1>1. /\ n \in Nat /\ n + 1 \in Nat
        /\ \A k \in ToSet(r.chain) \cup Waits(r) : k <= n
        /\ \A m \in TaskRuns : n < m \/ m \in ToSet(r.chain) => r.reported[m] = "none"
    BY DEF Orderly
  <1>2. ToSet(r.chain) \cup Waits(r) \subseteq Nat /\ TaskRuns \subseteq Nat
    BY TypeOfOrderly, MessagesAreNumbers DEF ToSet, Waits
  <1>3. /\ \A k \in ToSet(r.chain) \cup Waits(r) : k <= n + 1
        /\ \A m \in TaskRuns : n + 1 < m => n < m
    BY <1>1, <1>2
  <1>4. Orderly(r, n + 1)
    BY <1>1, <1>3 DEF Orderly
  <1> QED  BY <1>4, ForwardReflexive DEF Proceeds

\* The message that is received last goes to the end of the chain.
LEMMA ReceivedStep ==
    ASSUME NEW r, NEW n, Orderly(r, n), n + 1 \in Messages
    PROVE  Proceeds(r, [r EXCEPT !.chain = Append(@, n + 1)], n + 1)
  <1> DEFINE m == n + 1
             q == [r EXCEPT !.chain = Append(@, m)]
  <1>0. n \in Nat /\ m \in Messages /\ DOMAIN r = RecordFields /\ r.chain \in Seq(Messages)
        /\ r.queue \in Seq(Messages) /\ r.turns \in Seq(Messages)
    BY TypeOfOrderly
  <1>1. /\ DOMAIN q = RecordFields /\ q.chain = Append(r.chain, m) /\ q.queue = r.queue
        /\ q.turns = r.turns
        /\ q.run = r.run /\ q.ready = r.ready /\ q.restart = r.restart /\ q.quiet = r.quiet
        /\ q.asked = r.asked /\ q.reported = r.reported /\ q.skewed = r.skewed
    BY <1>0, FieldsOfRecord
  <1>2. m \in Nat /\ n < m /\ \A k \in Nat : k <= n => k < m
    BY <1>0
  <1>3. ToSet(r.chain) \cup Waits(r) \subseteq Nat /\ \A k \in ToSet(r.chain) \cup Waits(r) : k <= n
    BY <1>0, MessagesAreNumbers DEF ToSet, Waits, Orderly
  <1> HIDE DEF m, q
  <1>4. q.chain \in Seq(Messages) /\ ToSet(q.chain) = ToSet(r.chain) \cup {m} /\ Increasing(q.chain)
    BY <1>0, <1>1, <1>2, <1>3, MessagesAreNumbers, AppendIncreasing DEF Orderly
  <1>5. RecordTypeOK(q)
    BY <1>1, <1>4 DEF Orderly, RecordTypeOK
  <1>6. Waits(q) = Waits(r)
    BY <1>1 DEF Waits
  <1>7. /\ \A k \in ToSet(q.chain) \cup Waits(q) : k <= m
        /\ \A k \in Waits(q) : \A a \in ToSet(q.chain) : k < a
    BY <1>0, <1>2, <1>3, <1>4, <1>6 DEF Orderly
  <1>8. \A k \in TaskRuns : m < k \/ k \in ToSet(q.chain) => q.reported[k] = "none"
    BY <1>0, <1>1, <1>2, <1>4, MessagesAreNumbers DEF Orderly
  <1>9. Orderly(q, m)
    BY <1>1, <1>2, <1>4, <1>5, <1>6, <1>7, <1>8 DEF Orderly
  <1>10. Proceeds(r, q, m)
    BY <1>1, <1>9, ForwardReflexive DEF Proceeds
  <1> QED  BY <1>10 DEF q, m

\* A record that is in order is so when another message is received.
LEMMA LaterProceeds == ASSUME NEW r, NEW q, NEW n, Proceeds(r, q, n) PROVE Proceeds(r, q, n + 1)
  <1>1. Proceeds(q, q, n + 1)
    BY LaterStep DEF Proceeds
  <1> QED  BY <1>1, ForwardTransitive DEF Proceeds

\* The head of the chain is delivered, in each of the ways the drivers have.
LEMMA DeliveredStep ==
    ASSUME NEW r, NEW n, Orderly(r, n), r.chain # <<>>
    PROVE  LET m == Head(r.chain)
               taken == [r EXCEPT !.chain = Tail(@)]
               cut == IF m \in Removals THEN CutOff(taken, ChannelOf[m]) ELSE taken
           IN  /\ m \in Messages
               /\ \A k \in ToSet(Tail(r.chain)) : m < k
               /\ Orderly(cut, n) /\ ToSet(cut.queue) \subseteq ToSet(r.queue)
               /\ Proceeds(r, DeliverQueued(cut, m), n) /\ DeliverQueued(cut, m).chain = Tail(r.chain)
               /\ Proceeds(r, DeliverSent(cut, m), n) /\ DeliverSent(cut, m).chain = Tail(r.chain)
               /\ DeliverSent(cut, m).queue = cut.queue
               /\ Proceeds(r, DeliverSent(OnMessageSent(cut), m), n)
               /\ DeliverSent(OnMessageSent(cut), m).chain = Tail(r.chain)
               /\ DeliverSent(OnMessageSent(cut), m).queue = cut.queue
  <1> DEFINE m == Head(r.chain)
             taken == [r EXCEPT !.chain = Tail(@)]
             cut == IF m \in Removals THEN CutOff(taken, ChannelOf[m]) ELSE taken
             sent == OnMessageSent(cut)
  <1>1. /\ Proceeds(r, taken, n) /\ Taken(taken, m, n)
        /\ taken.queue = r.queue /\ taken.chain = Tail(r.chain)
    BY TakeStep
  <1> HIDE DEF m, taken
  <1>2. /\ Proceeds(taken, cut, n) /\ Taken(cut, m, n) /\ cut.chain = taken.chain
        /\ ToSet(cut.queue) \subseteq ToSet(r.queue)
        /\ m \in Removals => \A k \in ToSet(cut.queue) : ~InChannelScope(k, ChannelOf[m])
    BY <1>1, TakenCutStep
  <1> HIDE DEF cut
  <1>3. Proceeds(r, cut, n) /\ Orderly(cut, n) /\ m \in Messages /\ \A k \in ToSet(cut.chain) : m < k
    BY <1>1, <1>2, StepsCompose DEF Taken
  <1>4. /\ Proceeds(cut, sent, n) /\ Taken(sent, m, n)
        /\ sent.chain = cut.chain /\ sent.queue = cut.queue
    BY <1>2, <1>3, TakenSentStep, MessageSentStep
  <1> HIDE DEF sent
  <1>5. /\ Proceeds(cut, DeliverSent(cut, m), n) /\ DeliverSent(cut, m).chain = cut.chain
        /\ DeliverSent(cut, m).queue = cut.queue
        /\ Proceeds(sent, DeliverSent(sent, m), n) /\ DeliverSent(sent, m).chain = sent.chain
        /\ DeliverSent(sent, m).queue = sent.queue
    BY <1>2, <1>4, SentStep
  <1>6. Proceeds(cut, DeliverQueued(cut, m), n)
    BY <1>2, QueuedStep
  <1>7. DeliverQueued(cut, m).chain = cut.chain
    <2> DEFINE u == [cut EXCEPT !.queue = Append(@, m)]
    <2>1. DOMAIN u = RecordFields /\ u.chain = cut.chain
      BY <1>3, TypeOfOrderly, FieldsOfRecord
    <2>2. DeliverQueued(cut, m) = IF m \in Removals THEN Skew(u)
                                  ELSE [Post(u, m, "dispatched") EXCEPT !.turns = Append(@, m)]
      BY DEF DeliverQueued
    <2> HIDE DEF u
    <2>3. Skew(u).chain = u.chain
      BY <2>1, FieldsOfRecord DEF Skew
    <2>4. DOMAIN Post(u, m, "dispatched") = RecordFields /\ Post(u, m, "dispatched").chain = u.chain
      BY <2>1, PostWaiting DEF SameWaiting
    <2>5. [Post(u, m, "dispatched") EXCEPT !.turns = Append(@, m)].chain = u.chain
      BY <2>4, FieldsOfRecord
    <2> QED  BY <2>1, <2>2, <2>3, <2>5
  <1>8. /\ Proceeds(r, DeliverQueued(cut, m), n) /\ Proceeds(r, DeliverSent(cut, m), n)
        /\ Proceeds(r, DeliverSent(sent, m), n)
    BY <1>3, <1>4, <1>5, <1>6, StepsCompose
  <1> QED  BY <1>1, <1>2, <1>3, <1>4, <1>5, <1>7, <1>8 DEF m, taken, cut, sent

\* The watchdog's clock, its request to cancel, and the restart timer.
LEMMA QuietStep ==
    ASSUME NEW r, NEW n, Orderly(r, n), r.quiet < StallTicks
    PROVE  Proceeds(r, [r EXCEPT !.quiet = @ + 1], n)
  <1> DEFINE q == [r EXCEPT !.quiet = @ + 1]
  <1>1. /\ DOMAIN q = RecordFields /\ q.chain = r.chain /\ q.queue = r.queue /\ q.turns = r.turns
        /\ q.run = r.run /\ q.reported = r.reported /\ q.quiet = r.quiet + 1 /\ q.asked = r.asked
        /\ q.ready = r.ready /\ q.restart = r.restart /\ q.skewed = r.skewed
    BY TypeOfOrderly, FieldsOfRecord
  <1> HIDE DEF q
  <1>2. q.quiet \in 0 .. StallTicks
    BY <1>1, TypeOfOrderly, RuntimeRecordAssumption
  <1>3. Proceeds(r, q, n)
    BY <1>1, <1>2, TypeOfOrderly, AsideStep
  <1> QED  BY <1>3 DEF q

\* The cancel of a stalled turn keeps a record in order.
LEMMA AskedStep == ASSUME NEW r, NEW n, Orderly(r, n) PROVE Proceeds(r, [r EXCEPT !.asked = TRUE], n)
  <1> DEFINE q == [r EXCEPT !.asked = TRUE]
  <1>1. /\ DOMAIN q = RecordFields /\ q.chain = r.chain /\ q.queue = r.queue /\ q.turns = r.turns
        /\ q.run = r.run /\ q.reported = r.reported /\ q.quiet = r.quiet /\ q.asked = TRUE
        /\ q.ready = r.ready /\ q.restart = r.restart /\ q.skewed = r.skewed
    BY TypeOfOrderly, FieldsOfRecord
  <1> HIDE DEF q
  <1>2. Proceeds(r, q, n)
    BY <1>1, TypeOfOrderly, AsideStep
  <1> QED  BY <1>2 DEF q

\* A restart timer that is set or cleared keeps a record in order.
LEMMA TimerStep ==
    ASSUME NEW r, NEW n, Orderly(r, n), NEW on \in BOOLEAN
    PROVE  Proceeds(r, [r EXCEPT !.restart = on], n)
  <1> DEFINE q == [r EXCEPT !.restart = on]
  <1>1. /\ DOMAIN q = RecordFields /\ q.chain = r.chain /\ q.queue = r.queue /\ q.turns = r.turns
        /\ q.run = r.run /\ q.reported = r.reported /\ q.quiet = r.quiet /\ q.asked = r.asked
        /\ q.ready = r.ready /\ q.restart = on /\ q.skewed = r.skewed
    BY TypeOfOrderly, FieldsOfRecord
  <1> HIDE DEF q
  <1>2. Proceeds(r, q, n)
    BY <1>1, TypeOfOrderly, AsideStep
  <1> QED  BY <1>2 DEF q
=============================================================================
