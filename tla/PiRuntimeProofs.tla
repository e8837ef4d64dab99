-------------------------- MODULE PiRuntimeProofs --------------------------
(***************************************************************************)
(* A child of Pi works only under an active lease: for every number of     *)
(* messages, launches and faults, every capacity, and every length of a    *)
(* lease that outlasts the heartbeats that may fail.                       *)
(*                                                                         *)
(* A handler of a launch works on a context: its record, its driver and    *)
(* the calls of all prompts.  Fits says what a context may change; Solo    *)
(* and Serial say of the launch in the map that its driver has no prompt,  *)
(* or one that it knows.                                                   *)
(*                                                                         *)
(* The second part is about the leases under the runtimes, which are those *)
(* of the module LlmRunLeases, and about the order of prompts and reports. *)
(* Kept and Leaves say what a handler makes of its context on the way and  *)
(* when it is done.                                                        *)
(***************************************************************************)
EXTENDS PiRuntime, RuntimeRecordProofs, FiniteSetTheorems

DriverFields == DOMAIN NewDriver
CallFields == DOMAIN NoCall

\* A lease has time for MaxFaults heartbeats that fail, the one that is under way and
\* the part of a period before the first.
Sheltered == LeaseTicks >= MaxFaults + 3

---------------------------------------------------------------------------
\* What waits for a prompt, each message once.
Distinct(s) == \A i, j \in 1 .. Len(s) : s[i] = s[j] => i = j
Elements(s) == {s[i] : i \in 1 .. Len(s)}
WaitingIn(r) == Elements(r.chain) \cup Elements(r.queue)

QueuesSound(r) ==
    /\ DOMAIN r = RecordFields
    /\ r.chain \in Seq(Messages) /\ r.queue \in Seq(Messages)
    /\ Distinct(r.chain) /\ Distinct(r.queue)
    /\ Elements(r.chain) \cap Elements(r.queue) = {}

\* The prompt a driver works on, and the end of one.
InFlight(c, g) ==
    c.launch = g /\ c.stage \in {"asking", "denied", "answered", "sleeping", "child", "lost"}
Occupied(c, g) == InFlight(c, g) \/ (c.launch = g /\ c.ending \in {"posted", "denied", "handled"})

Solo(d, calling, g) ==
    /\ d.started = TRUE /\ d.stopping = FALSE
    /\ \A m \in Messages : ~Occupied(calling[m], g)

\* What a lease is worth to a prompt at each stage of its call: its status, the time it
\* has left, the faults there were and whether a heartbeat is being handled.
Worth(c, state, time, failed, busy) ==
    /\ c.stage \in {"asking", "answered", "sleeping"} /\ state = "active" => time >= LeaseTicks - 1
    /\ c.stage = "answered" /\ c.answer = "active" => state = "active"
    /\ c.stage = "child" =>
        /\ state = "active"
        /\ time + failed + (IF c.due \/ busy THEN 1 ELSE 0) >= LeaseTicks - 1

Timed(c, m) == Worth(c, status[m], left[m], faults, heartbeat[m].busy)

Serial(d, calling, g) ==
    /\ d.started = TRUE /\ d.stopping = FALSE
    /\ \A m, n \in Messages : Occupied(calling[m], g) /\ Occupied(calling[n], g) => m = n
    /\ \A m \in Messages : Occupied(calling[m], g) => d.active = TRUE
    /\ \A m \in Messages : InFlight(calling[m], g) => d.run = m /\ calling[m].ending = "none"
    /\ \A m \in Messages : calling[m].launch = g /\ calling[m].stage = "child" => d.beat = m
    /\ \A m \in Messages : InFlight(calling[m], g) => Timed(calling[m], m)

\* The run and the timer of a driver belong to its own prompts.
Owns(d, calling, g) ==
    /\ d.run \in Messages \cup {None} /\ d.beat \in Messages \cup {None}
    /\ d.run \in Messages => calling[d.run].launch = g /\ calling[d.run].ending = "none"
    /\ d.beat \in Messages => calling[d.beat].launch = g

---------------------------------------------------------------------------
ShapeInv ==
    /\ records = [g \in Launches |-> records[g]]
    /\ drivers = [g \in Launches |-> drivers[g]]
    /\ calls = [m \in Messages |-> calls[m]]
    /\ \A g \in Launches : QueuesSound(records[g]) /\ DOMAIN drivers[g] = DriverFields
    /\ \A m \in Messages : DOMAIN calls[m] = CallFields /\ calls[m].launch \in 0 .. launches
    /\ launches \in 0 .. MaxLaunches /\ current \in 0 .. launches
    /\ received \in 0 .. MaxMessages /\ faults \in 0 .. MaxFaults

LeaseShapeInv ==
    /\ status = [m \in Messages |-> status[m]]
    /\ left \in [Messages -> Nat]
    /\ heartbeat = [m \in Messages |-> heartbeat[m]] /\ release = [m \in Messages |-> release[m]]
    /\ \A m \in Messages :
        /\ DOMAIN heartbeat[m] = {"busy", "left"} /\ heartbeat[m].left \in Nat
        /\ heartbeat[m].busy => heartbeat[m].left = LeaseTicks

\* A message waits in one place, and has not been prompted.
WaitingInv ==
    /\ \A g, h \in Launches : \A m \in Messages :
        m \in WaitingIn(records[g]) /\ m \in WaitingIn(records[h]) => g = h
    /\ \A g \in Launches : \A m \in WaitingIn(records[g]) : calls[m].launch = 0 /\ m <= received
    /\ \A m \in Messages : calls[m].launch # 0 => m <= received

\* A prompt that was not made has no lease; a release belongs to a prompt that ended.
CallsInv ==
    /\ \A m \in Messages : calls[m].launch = 0 =>
            calls[m] = NoCall /\ status[m] = "none" /\ ~heartbeat[m].busy /\ release[m] = "none"
    /\ \A m \in Messages : release[m] # "none" => calls[m].ending \in {"handled", "over"}

LaunchesInv ==
    /\ \A g \in Launches : Owns(drivers[g], calls, g)
    /\ \A g \in Launches : g > launches => records[g] = Launched /\ drivers[g] = NewDriver

MapInv == current # 0 => current \in tokens /\ Serial(drivers[current], calls, current)

IInv == ShapeInv /\ LeaseShapeInv /\ WaitingInv /\ CallsInv /\ LaunchesInv /\ MapInv

---------------------------------------------------------------------------
\* The context x may be what a handler of launch g leaves.
Fits(x, g) ==
    /\ DOMAIN x = {"record", "driver", "calls", "open", "exited"}
    /\ QueuesSound(x.record) /\ DOMAIN x.driver = DriverFields
    /\ x.calls = [m \in Messages |-> x.calls[m]]
    /\ \A m \in Messages : DOMAIN x.calls[m] = CallFields
    /\ WaitingIn(x.record) \subseteq WaitingIn(records[g])
    /\ \A m \in WaitingIn(x.record) : x.calls[m] = calls[m]
    /\ \A m \in Messages :
        \/ x.calls[m] = calls[m]
        \/ x.calls[m].launch = g /\ (calls[m].launch = g \/ m \in WaitingIn(records[g]))
    /\ Owns(x.driver, x.calls, g)
    /\ \A m \in Messages : release[m] # "none" => x.calls[m].ending \in {"handled", "over"}

\* The fields of a driver, by name.
LEMMA FieldsOfDriver == DriverFields = {"started", "stopping", "active", "child", "run", "beat"}
  BY DEF DriverFields, NewDriver

\* The fields of a call, by name.
LEMMA FieldsOfCall == CallFields = {"launch", "stage", "answer", "due", "ending", "outcome"}
  BY DEF CallFields, NoCall

\* The bounds are numbers, and messages and launches are counted from 1.
LEMMA ConstantFacts ==
    /\ MaxMessages \in Nat /\ MaxLaunches \in Nat /\ MaxFaults \in Nat /\ LeaseTicks \in Nat \ {0}
    /\ None \notin Messages /\ Messages = 1 .. MaxMessages /\ Launches = 1 .. MaxLaunches
  BY RuntimeRecordAssumption, PiRuntimeAssumption
     DEF RuntimeRecordAssumption, PiRuntimeAssumption, Messages, Launches

\* The first message of a queue is in it once.
LEMMA TailFacts ==
    ASSUME NEW s \in Seq(Messages), s # <<>>
    PROVE  /\ Head(s) \in Messages /\ Head(s) \in Elements(s)
           /\ Tail(s) \in Seq(Messages) /\ Elements(Tail(s)) \subseteq Elements(s)
           /\ Distinct(s) => Distinct(Tail(s)) /\ Head(s) \notin Elements(Tail(s))
  <1>1. Len(s) \in Nat \ {0} /\ Len(Tail(s)) = Len(s) - 1 /\ Head(s) = s[1]
    OBVIOUS
  <1>2. \A i \in 1 .. Len(Tail(s)) : Tail(s)[i] = s[i + 1] /\ i + 1 \in 1 .. Len(s) /\ i + 1 # 1
    BY <1>1
  <1>3. 1 \in 1 .. Len(s)
    BY <1>1
  <1>4. Head(s) \in Messages /\ Tail(s) \in Seq(Messages)
    OBVIOUS
  <1>5. Head(s) \in Elements(s) /\ Elements(Tail(s)) \subseteq Elements(s)
    BY <1>1, <1>2, <1>3 DEF Elements
  <1>6. ASSUME Distinct(s) PROVE Distinct(Tail(s)) /\ Head(s) \notin Elements(Tail(s))
    BY <1>1, <1>2, <1>3, <1>6 DEF Elements, Distinct
  <1> QED  BY <1>4, <1>5, <1>6

\* A message that is new to a queue is in it once when it is appended.
LEMMA AppendFacts ==
    ASSUME NEW s \in Seq(Messages), NEW m \in Messages
    PROVE  /\ Append(s, m) \in Seq(Messages) /\ Elements(Append(s, m)) = Elements(s) \cup {m}
           /\ Distinct(s) /\ m \notin Elements(s) => Distinct(Append(s, m))
  <1>1. Len(s) \in Nat /\ Len(Append(s, m)) = Len(s) + 1 /\ Append(s, m)[Len(s) + 1] = m
    OBVIOUS
  <1>2. \A i \in 1 .. Len(s) : Append(s, m)[i] = s[i]
    OBVIOUS
  <1>3. Elements(Append(s, m)) = Elements(s) \cup {m}
    BY <1>1, <1>2 DEF Elements
  <1>4. ASSUME Distinct(s), m \notin Elements(s) PROVE Distinct(Append(s, m))
    <2> SUFFICES ASSUME NEW i \in 1 .. Len(s) + 1, NEW j \in 1 .. Len(s) + 1,
                        Append(s, m)[i] = Append(s, m)[j]
                 PROVE  i = j
      BY <1>1 DEF Distinct
    <2>1. CASE i \in 1 .. Len(s) /\ j \in 1 .. Len(s)
      BY <2>1, <1>2, <1>4 DEF Distinct
    <2>2. CASE i \in 1 .. Len(s) /\ j = Len(s) + 1
      BY <2>2, <1>1, <1>2, <1>4 DEF Elements
    <2>3. CASE i = Len(s) + 1 /\ j \in 1 .. Len(s)
      BY <2>3, <1>1, <1>2, <1>4 DEF Elements
    <2> QED  BY <2>1, <2>2, <2>3, <1>1
  <1> QED  BY <1>3, <1>4

\* A queue without the messages of a set.
LEMMA WithoutDistinct ==
    ASSUME NEW s \in Seq(Messages), NEW gone
    PROVE  /\ Without(s, gone) \in Seq(Messages) /\ Elements(Without(s, gone)) \subseteq Elements(s)
           /\ Distinct(s) => Distinct(Without(s, gone))
  <1> DEFINE w == Without(s, gone)
  <1>1. w \in Seq(Messages) /\ \E f : Picks(f, w, s, gone, Len(s))
    BY WithoutFacts
  <1>2. PICK f : Picks(f, w, s, gone, Len(s))
    BY <1>1
  <1> HIDE DEF w
  <1>3. Len(w) \in Nat /\ Len(s) \in Nat
    BY <1>1
  <1>4. /\ \A a \in 1 .. Len(w) : f[a] \in 1 .. Len(s) /\ w[a] = s[f[a]]
        /\ \A a, b \in 1 .. Len(w) : a < b => f[a] < f[b]
    BY <1>2 DEF Picks
  <1>5. Elements(w) \subseteq Elements(s)
    BY <1>4 DEF Elements
  <1>6. ASSUME Distinct(s), NEW a \in 1 .. Len(w), NEW b \in 1 .. Len(w), w[a] = w[b]
        PROVE  a = b
    <2>1. f[a] = f[b] /\ f[a] \in Nat /\ f[b] \in Nat
      BY <1>3, <1>4, <1>6 DEF Distinct
    <2>2. ~(a < b) /\ ~(b < a)
      BY <1>4, <2>1
    <2> QED  BY <1>3, <2>2
  <1>7. Distinct(s) => Distinct(w)
    BY <1>6 DEF Distinct
  <1> QED  BY <1>1, <1>5, <1>7 DEF w

\* Handlers that leave the queues leave them sound.
LEMMA SameWaitingSound ==
    ASSUME NEW r, NEW q, QueuesSound(r), SameWaiting(r, q)
    PROVE  QueuesSound(q) /\ WaitingIn(q) = WaitingIn(r)
  BY DEF QueuesSound, WaitingIn, SameWaiting

---------------------------------------------------------------------------
\* A context that differs from one that fits in one call of the launch.
LEMMA FitsCall ==
    ASSUME NEW g, NEW x, Fits(x, g), NEW y, NEW m \in Messages, NEW c,
           DOMAIN y = {"record", "driver", "calls", "open", "exited"},
           QueuesSound(y.record), WaitingIn(y.record) \subseteq WaitingIn(x.record) \ {m},
           DOMAIN y.driver = DriverFields,
           y.calls = [x.calls EXCEPT ![m] = c],
           DOMAIN c = CallFields, c.launch = g,
           calls[m].launch = g \/ m \in WaitingIn(records[g]),
           Owns(y.driver, y.calls, g),
           release[m] # "none" => c.ending \in {"handled", "over"}
    PROVE  Fits(y, g)
  <1>1. /\ DOMAIN y.calls = Messages /\ y.calls = [n \in Messages |-> y.calls[n]]
        /\ y.calls[m] = c /\ \A n \in Messages \ {m} : y.calls[n] = x.calls[n]
    BY DEF Fits
  <1>2. \A n \in Messages : DOMAIN y.calls[n] = CallFields
    BY <1>1 DEF Fits
  <1>3. WaitingIn(y.record) \subseteq WaitingIn(records[g])
    BY DEF Fits
  <1>4. WaitingIn(y.record) \subseteq Messages
    BY DEF WaitingIn, Elements, QueuesSound
  <1>5. \A n \in WaitingIn(y.record) : y.calls[n] = calls[n]
    BY <1>1, <1>4 DEF Fits
  <1>6. \A n \in Messages :
            \/ y.calls[n] = calls[n]
            \/ y.calls[n].launch = g /\ (calls[n].launch = g \/ n \in WaitingIn(records[g]))
    BY <1>1 DEF Fits
  <1>7. \A n \in Messages : release[n] # "none" => y.calls[n].ending \in {"handled", "over"}
    BY <1>1 DEF Fits
  <1> QED  BY <1>1, <1>2, <1>3, <1>5, <1>6, <1>7 DEF Fits

\* A prompt that is prepared becomes the only one.
LEMMA PrepareFacts ==
    ASSUME IInv, NEW g \in Launches, NEW x, Fits(x, g), NEW m \in WaitingIn(records[g]),
           m \notin WaitingIn(x.record), x.calls[m] = calls[m],
           g = current => Solo(x.driver, x.calls, g)
    PROVE  /\ Fits(Prepare(x, g, m), g) /\ Prepare(x, g, m).exited = x.exited
           /\ g = current => Serial(Prepare(x, g, m).driver, Prepare(x, g, m).calls, g)
  <1> DEFINE y == Prepare(x, g, m)
             d == [x.driver EXCEPT !.active = TRUE, !.run = m]
             c == [NoCall EXCEPT !.launch = g, !.stage = IF x.open THEN "asking" ELSE "denied"]
  <1>1. m \in Messages /\ calls[m].launch = 0 /\ calls[m] = NoCall /\ status[m] = "none"
        /\ release[m] = "none"
    <2>1. m \in Messages
      BY DEF IInv, ShapeInv, WaitingIn, Elements, QueuesSound
    <2>2. calls[m].launch = 0
      BY DEF IInv, WaitingInv
    <2> QED  BY <2>1, <2>2 DEF IInv, CallsInv
  <1>2. /\ DOMAIN x = {"record", "driver", "calls", "open", "exited"}
        /\ DOMAIN x.calls = Messages /\ DOMAIN x.driver = DriverFields /\ x.calls[m] = NoCall
    BY <1>1 DEF Fits
  <1>3. /\ DOMAIN y = {"record", "driver", "calls", "open", "exited"}
        /\ y.record = x.record /\ y.exited = x.exited
        /\ y.driver = d /\ y.calls = [x.calls EXCEPT ![m] = c]
    BY <1>1, <1>2, FieldsOfDriver, FieldsOfCall DEF Prepare, Ask, NoCall
  <1>4. /\ DOMAIN d = DriverFields /\ d.run = m /\ d.active = TRUE /\ d.beat = x.driver.beat
        /\ d.started = x.driver.started /\ d.stopping = x.driver.stopping
    BY <1>2, FieldsOfDriver
  <1>5. /\ DOMAIN c = CallFields /\ c.launch = g /\ c.ending = "none"
        /\ c.stage \in {"asking", "denied"}
    BY FieldsOfCall DEF NoCall
  <1> HIDE DEF y, d, c
  <1>6. /\ DOMAIN y.calls = Messages
        /\ y.calls[m] = c /\ \A n \in Messages \ {m} : y.calls[n] = x.calls[n]
    BY <1>1, <1>2, <1>3
  <1>7. Owns(y.driver, y.calls, g)
    <2>1. y.driver.run = m /\ y.calls[m].launch = g /\ y.calls[m].ending = "none"
      BY <1>3, <1>4, <1>5, <1>6
    <2>2. y.driver.beat \in Messages \cup {None} /\ (y.driver.beat \in Messages => y.calls[y.driver.beat].launch = g)
      BY <1>3, <1>4, <1>5, <1>6 DEF Fits, Owns
    <2> QED  BY <1>1, <2>1, <2>2 DEF Owns
  <1>8. Fits(y, g)
    <2>1. QueuesSound(y.record) /\ WaitingIn(y.record) \subseteq WaitingIn(x.record) \ {m}
      BY <1>3 DEF Fits
    <2>2. DOMAIN y.driver = DriverFields
      BY <1>3, <1>4
    <2> QED  BY <1>1, <1>3, <1>5, <1>7, <2>1, <2>2, FitsCall
  <1>9. ASSUME g = current PROVE Serial(y.driver, y.calls, g)
    <2>1. Solo(x.driver, x.calls, g)
      BY <1>9
    <2>2. \A n \in Messages : Occupied(y.calls[n], g) => n = m
      BY <1>6, <2>1 DEF Solo
    <2>3. InFlight(y.calls[m], g) /\ y.calls[m].stage # "child" /\ y.calls[m].ending = "none"
      BY <1>5, <1>6 DEF InFlight
    <2>4. Timed(y.calls[m], m)
      BY <1>1, <1>5, <1>6 DEF Timed, Worth
    <2>5. \A n \in Messages : InFlight(y.calls[n], g) => n = m
      BY <2>2 DEF Occupied
    <2>6. \A n \in Messages : y.calls[n].launch = g /\ y.calls[n].stage = "child" => FALSE
      BY <2>3, <2>5 DEF InFlight
    <2> QED  BY <1>3, <1>4, <2>1, <2>2, <2>3, <2>4, <2>5, <2>6 DEF Serial, Solo
  <1> QED  BY <1>3, <1>8, <1>9 DEF y

\* The end of a turn: the launch leaves the map, or its driver is idle, or prompts
\* the next message of its queue.
LEMMA SettleFacts ==
    ASSUME IInv, NEW g \in Launches, NEW x, Fits(x, g), NEW outcome,
           g = current /\ outcome = "done" => Solo(x.driver, x.calls, g)
    PROVE  /\ Fits(Settle(x, g, outcome), g)
           /\ g = current /\ Solo(x.driver, x.calls, g) /\ ~Settle(x, g, outcome).exited =>
                Serial(Settle(x, g, outcome).driver, Settle(x, g, outcome).calls, g)
  <1> DEFINE d == [x.driver EXCEPT !.active = FALSE]
             idle == [x EXCEPT !.driver.active = FALSE]
             left0 == [idle EXCEPT !.record = OnExit(@, outcome = "stopped"), !.exited = TRUE]
             next == [idle EXCEPT !.record.queue = Tail(@)]
  <1>1. /\ DOMAIN x = {"record", "driver", "calls", "open", "exited"}
        /\ DOMAIN x.calls = Messages /\ DOMAIN x.driver = DriverFields
        /\ QueuesSound(x.record) /\ DOMAIN x.record = RecordFields
    BY DEF Fits, QueuesSound
  <1>2. /\ DOMAIN idle = {"record", "driver", "calls", "open", "exited"}
        /\ idle.record = x.record /\ idle.driver = d /\ idle.calls = x.calls /\ idle.exited = x.exited
    BY <1>1
  <1>3. /\ DOMAIN d = DriverFields /\ d.run = x.driver.run /\ d.beat = x.driver.beat
        /\ d.started = x.driver.started /\ d.stopping = x.driver.stopping
    BY <1>1, FieldsOfDriver
  <1>4. /\ DOMAIN left0 = {"record", "driver", "calls", "open", "exited"}
        /\ left0.record = OnExit(x.record, outcome = "stopped")
        /\ left0.driver = d /\ left0.calls = x.calls /\ left0.exited = TRUE
    BY <1>1, <1>2
  <1>5. /\ DOMAIN next = {"record", "driver", "calls", "open", "exited"}
        /\ DOMAIN next.record = RecordFields
        /\ next.record.queue = Tail(x.record.queue) /\ next.record.chain = x.record.chain
        /\ next.driver = d /\ next.calls = x.calls /\ next.exited = x.exited
    BY <1>1, <1>2, FieldsOfRecord
  <1>6. Settle(x, g, outcome) =
            IF outcome # "done" THEN left0
            ELSE IF x.record.queue # <<>> THEN Prepare(next, g, Head(x.record.queue)) ELSE idle
    BY DEF Settle
  <1> HIDE DEF d, idle, left0, next
  <1>7. Owns(d, x.calls, g)
    BY <1>3 DEF Fits, Owns
  <1>8. Fits(idle, g)
    BY <1>2, <1>3, <1>7 DEF Fits
  <1>9. Fits(left0, g)
    <2>1. QueuesSound(left0.record) /\ WaitingIn(left0.record) = WaitingIn(x.record)
      BY <1>1, <1>4, EventsKeepWaiting, SameWaitingSound
    <2> QED  BY <1>3, <1>4, <1>7, <2>1 DEF Fits
  <1>10. Solo(x.driver, x.calls, g) => Solo(d, x.calls, g)
    BY <1>3 DEF Solo
  <1>11. Solo(x.driver, x.calls, g) => Serial(idle.driver, idle.calls, g)
    BY <1>2, <1>10 DEF Solo, Serial, Occupied, InFlight
  <1>12. ASSUME outcome = "done", x.record.queue # <<>>
         PROVE  /\ Fits(Prepare(next, g, Head(x.record.queue)), g)
                /\ g = current => Serial(Prepare(next, g, Head(x.record.queue)).driver,
                                         Prepare(next, g, Head(x.record.queue)).calls, g)
    <2> DEFINE m == Head(x.record.queue)
    <2>1. /\ m \in Elements(x.record.queue) /\ m \in Messages
          /\ Tail(x.record.queue) \in Seq(Messages) /\ Distinct(Tail(x.record.queue))
          /\ Elements(Tail(x.record.queue)) \subseteq Elements(x.record.queue) \ {m}
      BY <1>1, <1>12, TailFacts DEF QueuesSound
    <2> HIDE DEF m
    <2>2. QueuesSound(next.record) /\ WaitingIn(next.record) \subseteq WaitingIn(x.record) \ {m}
      BY <1>1, <1>5, <2>1 DEF QueuesSound, WaitingIn
    <2>3. m \in WaitingIn(records[g]) /\ next.calls[m] = calls[m]
      BY <1>5, <2>1 DEF Fits, WaitingIn
    <2>4. Fits(next, g)
      BY <1>3, <1>5, <1>7, <2>2 DEF Fits
    <2>5. g = current => Solo(next.driver, next.calls, g)
      BY <1>5, <1>10, <1>12
    <2> QED  BY <2>2, <2>3, <2>4, <2>5, PrepareFacts DEF m
  <1> QED  BY <1>2, <1>4, <1>6, <1>8, <1>9, <1>11, <1>12

\* A turn that ends posts the release of its run first.
LEMMA FinishFacts ==
    ASSUME IInv, NEW g \in Launches, NEW x, Fits(x, g), NEW outcome,
           g = current /\ outcome = "done" => Solo(x.driver, x.calls, g)
    PROVE  /\ Fits(Finish(x, g, outcome), g)
           /\ g = current /\ Solo(x.driver, x.calls, g) /\ x.driver.active = TRUE
              /\ ~Finish(x, g, outcome).exited =>
                Serial(Finish(x, g, outcome).driver, Finish(x, g, outcome).calls, g)
  <1> DEFINE run == x.driver.run
             d == [x.driver EXCEPT !.run = None, !.beat = None]
             quiet == [x EXCEPT !.driver.run = None, !.driver.beat = None]
             c == [x.calls[run] EXCEPT !.ending = IF x.open THEN "posted" ELSE "denied",
                                       !.outcome = outcome]
             y == [quiet EXCEPT !.calls[run].ending = IF x.open THEN "posted" ELSE "denied",
                                !.calls[run].outcome = outcome]
  <1>1. /\ DOMAIN x = {"record", "driver", "calls", "open", "exited"}
        /\ DOMAIN x.calls = Messages /\ DOMAIN x.driver = DriverFields
        /\ run \in Messages \cup {None}
    BY DEF Fits, Owns
  <1>2. /\ DOMAIN quiet = {"record", "driver", "calls", "open", "exited"}
        /\ quiet.record = x.record /\ quiet.driver = d /\ quiet.calls = x.calls
        /\ quiet.exited = x.exited /\ quiet.open = x.open
    BY <1>1
  <1>3. /\ DOMAIN d = DriverFields /\ d.run = None /\ d.beat = None
        /\ d.started = x.driver.started /\ d.stopping = x.driver.stopping /\ d.active = x.driver.active
    BY <1>1, FieldsOfDriver
  <1>4. Finish(x, g, outcome) = IF run = None THEN Settle(quiet, g, outcome) ELSE y
    BY DEF Finish
  <1>5. /\ DOMAIN y = {"record", "driver", "calls", "open", "exited"}
        /\ y.record = x.record /\ y.driver = d /\ y.exited = x.exited
        /\ run \in Messages => y.calls = [x.calls EXCEPT ![run] = c]
    BY <1>1, <1>2
  <1>6. run \in Messages => /\ DOMAIN c = CallFields /\ c.ending \in {"posted", "denied"}
                            /\ c.launch = x.calls[run].launch /\ c.stage = x.calls[run].stage
    BY FieldsOfCall DEF Fits
  <1>7. run \in Messages => x.calls[run].launch = g /\ x.calls[run].ending = "none"
    BY DEF Fits, Owns
  <1> HIDE DEF d, quiet, c, y
  <1>8. \A k : Owns(d, k, g)
    BY <1>3, ConstantFacts DEF Owns
  <1>9. Fits(quiet, g)
    BY <1>2, <1>3, <1>8 DEF Fits
  <1>10. CASE run = None
    <2>1. Solo(x.driver, x.calls, g) => Solo(quiet.driver, quiet.calls, g)
      BY <1>2, <1>3 DEF Solo
    <2> QED  BY <1>4, <1>9, <1>10, <2>1, SettleFacts
  <1>11. CASE run \in Messages
    <2>1. release[run] = "none"
      BY <1>7, <1>11 DEF Fits
    <2>2. calls[run].launch = g \/ run \in WaitingIn(records[g])
      BY <1>7, <1>11 DEF Fits
    <2>3. run \notin WaitingIn(x.record)
      <3>1. g # 0
        BY ConstantFacts
      <3>2. ASSUME run \in WaitingIn(x.record) PROVE FALSE
        <4>1. x.calls[run] = calls[run] /\ run \in WaitingIn(records[g])
          BY <3>2 DEF Fits
        <4>2. calls[run].launch = 0
          BY <4>1 DEF IInv, WaitingInv
        <4> QED  BY <1>7, <1>11, <3>1, <4>1, <4>2
      <3> QED  BY <3>2
    <2>4. Fits(y, g)
      <3>1. QueuesSound(y.record) /\ WaitingIn(y.record) \subseteq WaitingIn(x.record) \ {run}
        BY <1>5, <2>3 DEF Fits
      <3>2. DOMAIN y.driver = DriverFields /\ Owns(y.driver, y.calls, g)
        BY <1>3, <1>5, <1>8
      <3>3. /\ DOMAIN y = {"record", "driver", "calls", "open", "exited"}
            /\ y.calls = [x.calls EXCEPT ![run] = c]
            /\ DOMAIN c = CallFields /\ c.launch = g
        BY <1>5, <1>6, <1>7, <1>11
      <3> HIDE DEF run
      <3> QED  BY <1>11, <2>1, <2>2, <3>1, <3>2, <3>3, FitsCall
    <2>5. DOMAIN y.calls = Messages /\ y.calls[run] = c
          /\ \A n \in Messages \ {run} : y.calls[n] = x.calls[n]
      BY <1>1, <1>5, <1>11
    <2>6. ASSUME Solo(x.driver, x.calls, g), x.driver.active = TRUE PROVE Serial(y.driver, y.calls, g)
      <3>1. Solo(x.driver, x.calls, g) /\ x.driver.active = TRUE
        BY <2>6
      <3>2. \A n \in Messages : Occupied(y.calls[n], g) => n = run
        BY <2>5, <3>1 DEF Solo
      <3>3. \A n \in Messages : ~InFlight(y.calls[n], g)
        BY <1>6, <1>11, <2>5, <3>1 DEF Solo, Occupied, InFlight
      <3> QED  BY <1>3, <1>5, <3>1, <3>2, <3>3 DEF Serial, Solo, InFlight
    <2>7. Finish(x, g, outcome) = y
      BY <1>4, <1>11, ConstantFacts
    <2> QED  BY <2>4, <2>6, <2>7
  <1> QED  BY <1>1, <1>10, <1>11

---------------------------------------------------------------------------
\* More faults only make the bound on a lease weaker.
LEMMA TimedLater ==
    ASSUME IInv, UNCHANGED leaseVars, faults' \in 0 .. MaxFaults, faults <= faults',
           NEW m \in Messages, NEW c, Timed(c, m)
    PROVE  Timed(c, m)'
  <1>1. status'[m] = status[m] /\ left'[m] = left[m] /\ heartbeat'[m] = heartbeat[m]
    BY DEF leaseVars
  <1>2. left[m] \in Nat /\ faults \in Nat /\ faults' \in Nat /\ LeaseTicks \in Nat
    BY ConstantFacts DEF IInv, ShapeInv, LeaseShapeInv
  <1> QED  BY <1>1, <1>2 DEF Timed, Worth

\* A driver stays serial while the leases rest, whatever request fails.
LEMMA SerialLater ==
    ASSUME IInv, UNCHANGED leaseVars, faults' \in 0 .. MaxFaults, faults <= faults',
           NEW d, NEW k, NEW g, Serial(d, k, g)
    PROVE  Serial(d, k, g)'
  <1>1. ASSUME NEW m \in Messages, InFlight(k[m], g) PROVE Timed(k[m], m)'
    BY <1>1, TimedLater DEF Serial
  <1> QED  BY <1>1 DEF Serial, InFlight, Occupied

\* It is enough to look at the launch in the map.
LEMMA MapLater ==
    ASSUME NEW d, NEW k, NEW c, c = current', d = drivers'[c], k = calls',
           c # 0 => c \in tokens' /\ Serial(d, k, c)'
    PROVE  MapInv'
  BY DEF MapInv, Serial, Timed, Worth, InFlight, Occupied

\* What a handler of a launch leaves, if its context fits, keeps the invariant.
LEMMA BecomesInv ==
    ASSUME IInv, NEW g \in Launches, g <= launches, NEW x, Fits(x, g),
           g = current /\ ~x.exited => Serial(x.driver, x.calls, g),
           Becomes(g, x), UNCHANGED <<launches, received, leaseVars>>,
           faults' \in 0 .. MaxFaults, faults <= faults'
    PROVE  IInv'
  <1>1. /\ records' = [records EXCEPT ![g] = x.record]
        /\ drivers' = [drivers EXCEPT ![g] = x.driver]
        /\ calls' = x.calls
        /\ current' = IF x.exited /\ current = g THEN 0 ELSE current
        /\ tokens' = IF x.exited THEN tokens \ {g} ELSE tokens
        /\ launches' = launches /\ received' = received
        /\ status' = status /\ left' = left /\ heartbeat' = heartbeat /\ release' = release
    BY DEF Becomes, leaseVars
  <1>2. /\ records' = [h \in Launches |-> records'[h]] /\ drivers' = [h \in Launches |-> drivers'[h]]
        /\ records'[g] = x.record /\ drivers'[g] = x.driver
        /\ \A h \in Launches \ {g} : records'[h] = records[h] /\ drivers'[h] = drivers[h]
    BY <1>1 DEF IInv, ShapeInv
  <1>3. g # 0 /\ g \in Nat /\ launches \in Nat /\ current \in Nat
    BY ConstantFacts DEF IInv, ShapeInv
  <1>4. /\ \A m \in WaitingIn(records[g]) : m \in Messages /\ calls[m].launch = 0 /\ m <= received
        /\ WaitingIn(x.record) \subseteq WaitingIn(records[g])
    <2>1. \A m \in WaitingIn(records[g]) : m \in Messages
      BY DEF IInv, ShapeInv, WaitingIn, Elements, QueuesSound
    <2>2. \A m \in WaitingIn(records[g]) : calls[m].launch = 0 /\ m <= received
      BY DEF IInv, WaitingInv
    <2> QED  BY <2>1, <2>2 DEF Fits
  <1>5. \A m \in Messages : \/ calls'[m] = calls[m]
                            \/ calls'[m].launch = g /\ (calls[m].launch = g \/ m \in WaitingIn(records[g]))
    BY <1>1 DEF Fits
  <1>6. ShapeInv'
    <2>1. \A h \in Launches : QueuesSound(records'[h]) /\ DOMAIN drivers'[h] = DriverFields
      BY <1>2 DEF IInv, ShapeInv, Fits
    <2>2. \A m \in Messages : calls'[m].launch \in 0 .. launches
      BY <1>3, <1>5 DEF IInv, ShapeInv
    <2>3. calls' = [m \in Messages |-> calls'[m]] /\ \A m \in Messages : DOMAIN calls'[m] = CallFields
      BY <1>1 DEF Fits
    <2>4. \A h \in Launches : QueuesSound(records[h])' /\ (DOMAIN drivers[h] = DriverFields)'
      BY <2>1 DEF QueuesSound, Distinct, Elements
    <2>5. current' \in 0 .. launches'
      BY <1>1, <1>3 DEF IInv, ShapeInv
    <2> QED  BY <1>1, <1>2, <2>2, <2>3, <2>4, <2>5 DEF IInv, ShapeInv
  <1>7. LeaseShapeInv'
    BY <1>1 DEF IInv, LeaseShapeInv
  <1>8. WaitingInv'
    <2>1. \A h \in Launches : WaitingIn(records'[h]) \subseteq WaitingIn(records[h])
      BY <1>2, <1>4
    <2>2. \A h, i \in Launches : \A m \in Messages :
            m \in WaitingIn(records'[h]) /\ m \in WaitingIn(records'[i]) => h = i
      BY <2>1 DEF IInv, WaitingInv
    <2>3. ASSUME NEW h \in Launches, NEW m \in WaitingIn(records'[h])
          PROVE  calls'[m].launch = 0 /\ m <= received
      <3>1. m \in WaitingIn(records[h]) /\ calls[m].launch = 0 /\ m <= received
        BY <2>1, <2>3 DEF IInv, WaitingInv
      <3>2. m \in Messages
        BY <3>1 DEF IInv, ShapeInv, WaitingIn, Elements, QueuesSound
      <3>3. CASE h = g
        BY <1>1, <1>2, <2>3, <3>1, <3>3 DEF Fits
      <3>4. CASE h # g
        BY <1>3, <1>5, <3>1, <3>2, <3>4 DEF IInv, WaitingInv
      <3> QED  BY <3>1, <3>3, <3>4
    <2>4. \A m \in Messages : calls'[m].launch # 0 => m <= received
      BY <1>3, <1>4, <1>5 DEF IInv, WaitingInv
    <2> QED  BY <1>1, <2>2, <2>3, <2>4 DEF WaitingInv, WaitingIn, Elements
  <1>9. CallsInv'
    <2>1. \A m \in Messages : calls'[m].launch = 0 => calls'[m] = calls[m]
      BY <1>3, <1>5
    <2>2. \A m \in Messages : release[m] # "none" => calls'[m].ending \in {"handled", "over"}
      BY <1>1 DEF Fits
    <2> QED  BY <1>1, <2>1, <2>2 DEF IInv, CallsInv
  <1>10. LaunchesInv'
    <2>1. ASSUME NEW h \in Launches PROVE Owns(drivers'[h], calls', h)
      <3>1. CASE h = g
        BY <1>1, <1>2, <3>1 DEF Fits
      <3>2. CASE h # g
        <4>1. Owns(drivers[h], calls, h) /\ drivers'[h] = drivers[h] /\ h # 0
          BY <1>2, <3>2, ConstantFacts DEF IInv, LaunchesInv
        <4>2. \A m \in Messages : calls[m].launch = h => calls'[m] = calls[m]
          BY <1>4, <1>5, <3>2, <4>1
        <4> QED  BY <4>1, <4>2 DEF Owns
      <3> QED  BY <3>1, <3>2
    <2>2. \A h \in Launches : h > launches => h # g
      BY <1>3
    <2>3. \A h \in Launches : Owns(drivers[h], calls, h)'
      BY <2>1 DEF Owns
    <2> QED  BY <1>1, <1>2, <2>2, <2>3 DEF IInv, LaunchesInv
  <1>11. ASSUME NEW d, NEW c, c = current', d = drivers'[c]
         PROVE  MapInv'
    <2>1. ASSUME c # 0 PROVE c \in tokens' /\ Serial(d, x.calls, c)'
      <3>1. c = current /\ c \in Launches /\ ~(x.exited /\ c = g) /\ c \in tokens
            /\ Serial(drivers[c], calls, c)
        BY <1>1, <1>3, <1>11, <2>1, ConstantFacts DEF IInv, ShapeInv, MapInv
      <3>2. CASE c = g
        <4>1. Serial(d, x.calls, c)
          BY <1>2, <1>11, <3>1, <3>2
        <4> QED  BY <1>1, <3>1, <4>1, SerialLater
      <3>3. CASE c # g
        <4>1. d = drivers[c] /\ c # 0
          BY <1>2, <1>11, <3>1, <3>3, <2>1
        <4>2. \A m \in Messages : calls[m].launch = c => x.calls[m] = calls[m]
          BY <1>1, <1>4, <1>5, <3>3, <4>1
        <4>3. \A m \in Messages : x.calls[m].launch = c => x.calls[m] = calls[m]
          BY <1>1, <1>5, <3>3
        <4>4. Serial(d, x.calls, c)
          BY <3>1, <4>1, <4>2, <4>3 DEF Serial, InFlight, Occupied
        <4> QED  BY <1>1, <3>1, <3>3, <4>4, SerialLater
      <3> QED  BY <3>2, <3>3
    <2> QED  BY <1>1, <1>11, <2>1, MapLater
  <1>12. MapInv'
    BY <1>11
  <1> QED  BY <1>6, <1>7, <1>8, <1>9, <1>10, <1>12 DEF IInv

---------------------------------------------------------------------------
\* Handlers of prompts.
LEMMA NowFits ==
    ASSUME IInv, NEW g \in Launches, NEW y, DOMAIN y = {"record", "driver", "calls", "open", "exited"},
           QueuesSound(y.record), WaitingIn(y.record) \subseteq WaitingIn(records[g]),
           DOMAIN y.driver = DriverFields, y.driver.run = drivers[g].run, y.driver.beat = drivers[g].beat,
           y.calls = calls
    PROVE  Fits(y, g)
  <1>1. /\ calls = [m \in Messages |-> calls[m]] /\ \A m \in Messages : DOMAIN calls[m] = CallFields
        /\ Owns(drivers[g], calls, g)
        /\ \A m \in Messages : release[m] # "none" => calls[m].ending \in {"handled", "over"}
    BY DEF IInv, ShapeInv, LaunchesInv, CallsInv
  <1>2. Owns(y.driver, y.calls, g)
    BY <1>1 DEF Owns
  <1> QED  BY <1>1, <1>2 DEF Fits

\* A prompt that was made belongs to a launch that was started.
LEMMA CallOfLaunch ==
    ASSUME IInv, NEW m \in Messages, calls[m].stage # "none" \/ calls[m].ending # "none"
    PROVE  calls[m].launch \in Launches /\ calls[m].launch <= launches /\ calls[m].launch # 0
  <1>1. calls[m].launch # 0
    BY DEF IInv, CallsInv, NoCall
  <1>2. calls[m].launch \in 0 .. launches /\ launches \in 0 .. MaxLaunches
    BY DEF IInv, ShapeInv
  <1> QED  BY <1>1, <1>2, ConstantFacts

\* A handler of a call may change that call and the driver's heartbeat, no more.
LEMMA CallFits ==
    ASSUME IInv, NEW m \in Messages, NEW g \in Launches, g = calls[m].launch,
           NEW y, DOMAIN y = {"record", "driver", "calls", "open", "exited"},
           SameWaiting(records[g], y.record),
           DOMAIN y.driver = DriverFields,
           y.driver.run = drivers[g].run, y.driver.beat \in {drivers[g].beat, m},
           NEW c, DOMAIN c = CallFields, c.launch = g,
           c.ending = calls[m].ending \/ (c.ending = "over" /\ calls[m].ending # "none"),
           y.calls = [calls EXCEPT ![m] = c]
    PROVE  Fits(y, g)
  <1>1. /\ DOMAIN calls = Messages /\ QueuesSound(records[g]) /\ DOMAIN drivers[g] = DriverFields
        /\ Owns(drivers[g], calls, g) /\ g # 0
        /\ release[m] # "none" => calls[m].ending \in {"handled", "over"}
    BY ConstantFacts DEF IInv, ShapeInv, LaunchesInv, CallsInv
  <1>2. m \notin WaitingIn(records[g])
    BY <1>1 DEF IInv, WaitingInv
  <1>3. QueuesSound(y.record) /\ WaitingIn(y.record) \subseteq WaitingIn(records[g]) \ {m}
    BY <1>1, <1>2, SameWaitingSound
  <1>4. /\ y.calls[m] = c /\ \A n \in Messages \ {m} : y.calls[n] = calls[n]
    BY <1>1
  <1>5. Owns(y.driver, y.calls, g)
    <2>1. y.driver.run \in Messages \cup {None} /\ y.driver.beat \in Messages \cup {None}
      BY <1>1 DEF Owns
    <2>2. y.driver.run \in Messages => y.calls[y.driver.run].launch = g /\ y.calls[y.driver.run].ending = "none"
      BY <1>1, <1>4 DEF Owns
    <2>3. y.driver.beat \in Messages => y.calls[y.driver.beat].launch = g
      BY <1>1, <1>4 DEF Owns
    <2> QED  BY <2>1, <2>2, <2>3 DEF Owns
  <1>6. y.calls = [n \in Messages |-> y.calls[n]] /\ \A n \in Messages : DOMAIN y.calls[n] = CallFields
    BY <1>1, <1>4 DEF IInv, ShapeInv
  <1>7. \A n \in Messages : y.calls[n] = calls[n] \/ (y.calls[n].launch = g /\ calls[n].launch = g)
    BY <1>4
  <1>8. \A n \in WaitingIn(y.record) : n \in Messages \ {m}
    <2>1. WaitingIn(y.record) \subseteq Messages
      BY <1>3 DEF WaitingIn, Elements, QueuesSound
    <2> QED  BY <1>3, <2>1
  <1>9. \A n \in Messages : release[n] # "none" => y.calls[n].ending \in {"handled", "over"}
    BY <1>1, <1>4 DEF IInv, CallsInv
  <1> QED  BY <1>3, <1>4, <1>5, <1>6, <1>7, <1>8, <1>9 DEF Fits

\* The prompt of the launch in the map that ends leaves its driver without one.
LEMMA SoloAfter ==
    ASSUME IInv, current # 0, NEW m \in Messages, Occupied(calls[m], current),
           NEW d, d.started = drivers[current].started, d.stopping = drivers[current].stopping,
           NEW k, \A n \in Messages \ {m} : k[n] = calls[n], ~Occupied(k[m], current)
    PROVE  Solo(d, k, current) /\ drivers[current].active = TRUE
  BY DEF IInv, MapInv, Serial, Solo

\* The end of a turn keeps the invariant, with the next prompt it sends.
LEMMA TurnEnds ==
    ASSUME IInv, NEW m \in Messages, NEW g \in Launches, g = calls[m].launch, g <= launches,
           InFlight(calls[m], g),
           NEW y, DOMAIN y = {"record", "driver", "calls", "open", "exited"},
           SameWaiting(records[g], y.record),
           DOMAIN y.driver = DriverFields,
           y.driver.run = drivers[g].run, y.driver.beat = drivers[g].beat,
           y.driver.started = drivers[g].started, y.driver.stopping = drivers[g].stopping,
           y.driver.active = drivers[g].active,
           y.calls = [calls EXCEPT ![m] = [calls[m] EXCEPT !.stage = "over"]],
           NEW outcome, Becomes(g, Finish(y, g, outcome)),
           UNCHANGED <<launches, received, leaseVars>>, faults' \in 0 .. MaxFaults, faults <= faults'
    PROVE  IInv'
  <1> DEFINE c == [calls[m] EXCEPT !.stage = "over"]
             z == Finish(y, g, outcome)
  <1>1. DOMAIN calls = Messages /\ DOMAIN calls[m] = CallFields
    BY DEF IInv, ShapeInv
  <1>2. DOMAIN c = CallFields /\ c.launch = g /\ c.ending = calls[m].ending /\ c.stage = "over"
    BY <1>1, FieldsOfCall
  <1>3. y.calls = [calls EXCEPT ![m] = c]
    OBVIOUS
  <1> HIDE DEF c, z
  <1>4. Fits(y, g)
    BY <1>2, <1>3, CallFits
  <1>5. y.calls[m] = c /\ \A n \in Messages \ {m} : y.calls[n] = calls[n]
    BY <1>1, <1>3
  <1>6. g = current => Solo(y.driver, y.calls, g) /\ y.driver.active = TRUE
    <2> SUFFICES ASSUME g = current PROVE Solo(y.driver, y.calls, g) /\ y.driver.active = TRUE
      OBVIOUS
    <2>1. calls[m].ending = "none" /\ current # 0
      BY ConstantFacts DEF IInv, MapInv, Serial
    <2>2. ~Occupied(y.calls[m], current)
      BY <1>2, <1>5, <2>1 DEF Occupied, InFlight
    <2>3. Occupied(calls[m], current)
      BY DEF Occupied
    <2>4. y.driver.started = drivers[current].started /\ y.driver.stopping = drivers[current].stopping
          /\ y.driver.active = drivers[current].active
      OBVIOUS
    <2>5. Solo(y.driver, y.calls, current) /\ drivers[current].active = TRUE
      BY <1>5, <2>1, <2>2, <2>3, <2>4, SoloAfter
    <2> QED  BY <2>4, <2>5
  <1>7. Fits(z, g) /\ (g = current /\ ~z.exited => Serial(z.driver, z.calls, g))
    BY <1>4, <1>6, FinishFacts DEF z
  <1>8. Becomes(g, z)
    BY DEF z
  <1> QED  BY <1>7, <1>8, BecomesInv

\* A prompt that goes on.
LEMMA CallMoves ==
    ASSUME IInv, NEW m \in Messages, NEW g \in Launches, g = calls[m].launch,
           InFlight(calls[m], g),
           NEW y, DOMAIN y = {"record", "driver", "calls", "open", "exited"},
           SameWaiting(records[g], y.record),
           DOMAIN y.driver = DriverFields,
           y.driver.run = drivers[g].run, y.driver.beat \in {drivers[g].beat, m},
           y.driver.started = drivers[g].started, y.driver.stopping = drivers[g].stopping,
           y.driver.active = drivers[g].active,
           NEW c, DOMAIN c = CallFields, InFlight(c, g), c.ending = calls[m].ending,
           c.stage = "child" => y.driver.beat = m,
           g = current /\ Timed(calls[m], m) => Timed(c, m),
           y.calls = [calls EXCEPT ![m] = c]
    PROVE  Fits(y, g) /\ (g = current => Serial(y.driver, y.calls, g))
  <1>1. c.launch = g
    BY DEF InFlight
  <1>2. Fits(y, g)
    BY <1>1, CallFits
  <1>3. y.calls[m] = c /\ \A n \in Messages \ {m} : y.calls[n] = calls[n]
    BY DEF IInv, ShapeInv
  <1>4. ASSUME g = current PROVE Serial(y.driver, y.calls, g)
    <2>1. Serial(drivers[g], calls, g)
      BY <1>4, ConstantFacts DEF IInv, MapInv
    <2>2. \A n \in Messages : Occupied(y.calls[n], g) => n = m
      BY <1>3, <2>1 DEF Serial, Occupied
    <2>3. /\ y.driver.started = TRUE /\ y.driver.stopping = FALSE /\ y.driver.active = TRUE
          /\ y.driver.run = m /\ calls[m].ending = "none" /\ Timed(calls[m], m)
      BY <2>1 DEF Serial, Occupied
    <2>4. Timed(c, m)
      BY <1>4, <2>3
    <2>5. \A n \in Messages : y.calls[n].launch = g /\ y.calls[n].stage = "child" => n = m
      BY <2>2 DEF Occupied, InFlight
    <2>6. \A n \in Messages : InFlight(y.calls[n], g) => n = m
      BY <2>2 DEF Occupied
    <2> QED  BY <1>3, <2>2, <2>3, <2>4, <2>5, <2>6 DEF Serial
  <1> QED  BY <1>2, <1>4

\* The steps of a prompt up to its child keep the invariant.
LEMMA PromptSteps ==
    ASSUME IInv, NEW m \in Messages, AcquireDenied(m) \/ AcquireFails(m) \/ Answer(m) \/ Wake(m)
    PROVE  IInv'
  <1> DEFINE g == calls[m].launch
             x == Now(g)
             c(stage) == [calls[m] EXCEPT !.stage = stage]
             quit == [x EXCEPT !.calls[m].stage = "over"]
             failed == [x EXCEPT !.calls[m].stage = "over", !.record = OnError(@)]
             nap == [x EXCEPT !.calls[m].stage = "sleeping"]
             ask == Ask(x, m)
             run == RunPrompt(x, m)
  <1>1. /\ calls[m].stage \in {"asking", "denied", "answered", "sleeping"}
        /\ UNCHANGED <<launches, received, leaseVars>>
        /\ faults' \in 0 .. MaxFaults /\ faults <= faults'
    BY ConstantFacts DEF AcquireDenied, AcquireFails, Answer, Wake, Fault, IInv, ShapeInv
  <1>2. \/ Becomes(g, Finish(quit, g, "stopped")) /\ ~Running(drivers[g])
        \/ Becomes(g, Finish(failed, g, "crashed"))
        \/ Becomes(g, nap) /\ calls[m].stage = "answered"
        \/ Becomes(g, ask) /\ calls[m].stage = "sleeping" /\ Running(drivers[g])
        \/ Becomes(g, run) /\ calls[m].stage = "answered" /\ calls[m].answer = "active"
            /\ Running(drivers[g])
    BY DEF AcquireDenied, AcquireFails, Answer, Wake, GiveUp, Fail
  <1>3. /\ g \in Launches /\ g <= launches /\ g # 0 /\ InFlight(calls[m], g)
    BY <1>1, CallOfLaunch DEF InFlight
  <1>4. /\ DOMAIN calls = Messages /\ DOMAIN calls[m] = CallFields
        /\ DOMAIN records[g] = RecordFields /\ DOMAIN drivers[g] = DriverFields
    BY <1>3 DEF IInv, ShapeInv, QueuesSound
  <1>5. /\ DOMAIN x = {"record", "driver", "calls", "open", "exited"}
        /\ x.record = records[g] /\ x.driver = drivers[g] /\ x.calls = calls /\ x.exited = FALSE
    BY DEF Now
  <1>6. \A stage : /\ DOMAIN c(stage) = CallFields /\ c(stage).launch = g /\ c(stage).stage = stage
                   /\ c(stage).ending = calls[m].ending /\ c(stage).answer = calls[m].answer
                   /\ c(stage).due = calls[m].due
    BY <1>4, FieldsOfCall
  <1>7. SameWaiting(records[g], records[g]) /\ SameWaiting(records[g], OnError(records[g]))
        /\ SameWaiting(records[g], OnMessageSent(records[g]))
    BY <1>4, EventsKeepWaiting DEF SameWaiting
  <1>8. /\ DOMAIN quit = {"record", "driver", "calls", "open", "exited"}
        /\ quit.record = records[g] /\ quit.driver = drivers[g]
        /\ quit.calls = [calls EXCEPT ![m] = c("over")]
    BY <1>4, <1>5
  <1>9. /\ DOMAIN failed = {"record", "driver", "calls", "open", "exited"}
        /\ failed.record = OnError(records[g]) /\ failed.driver = drivers[g]
        /\ failed.calls = [calls EXCEPT ![m] = c("over")]
    BY <1>4, <1>5
  <1>10. /\ DOMAIN nap = {"record", "driver", "calls", "open", "exited"}
         /\ nap.record = records[g] /\ nap.driver = drivers[g] /\ nap.exited = FALSE
         /\ nap.calls = [calls EXCEPT ![m] = c("sleeping")]
    BY <1>4, <1>5
  <1>11. /\ DOMAIN ask = {"record", "driver", "calls", "open", "exited"}
         /\ ask.record = records[g] /\ ask.driver = drivers[g] /\ ask.exited = FALSE
         /\ ask.calls = [calls EXCEPT ![m] = c(IF x.open THEN "asking" ELSE "denied")]
    BY <1>4, <1>5 DEF Ask
  <1>12. /\ DOMAIN run = {"record", "driver", "calls", "open", "exited"}
         /\ run.record = OnMessageSent(records[g]) /\ run.exited = FALSE
         /\ run.driver = [drivers[g] EXCEPT !.child = m, !.beat = m]
         /\ run.calls = [calls EXCEPT ![m] = c("child")]
    BY <1>4, <1>5 DEF RunPrompt
  <1>13. DOMAIN run.driver = DriverFields /\ run.driver.beat = m /\ run.driver.run = drivers[g].run
         /\ run.driver.started = drivers[g].started /\ run.driver.stopping = drivers[g].stopping
         /\ run.driver.active = drivers[g].active
    BY <1>4, <1>12, FieldsOfDriver
  <1> HIDE DEF x, c, quit, failed, nap, ask, run
  <1>14. \A y : y = quit \/ y = failed => y.calls = [calls EXCEPT ![m] = [calls[m] EXCEPT !.stage = "over"]]
    BY <1>8, <1>9 DEF c
  <1>15. ASSUME Becomes(g, Finish(quit, g, "stopped")) PROVE IInv'
    BY <1>1, <1>3, <1>4, <1>7, <1>8, <1>14, <1>15, TurnEnds
  <1>16. ASSUME Becomes(g, Finish(failed, g, "crashed")) PROVE IInv'
    BY <1>1, <1>3, <1>4, <1>7, <1>9, <1>14, <1>16, TurnEnds
  <1>17. ASSUME Becomes(g, nap), calls[m].stage = "answered" PROVE IInv'
    <2>1. InFlight(c("sleeping"), g) /\ (Timed(calls[m], m) => Timed(c("sleeping"), m))
      BY <1>6, <1>17 DEF InFlight, Timed, Worth
    <2>2. /\ DOMAIN nap = {"record", "driver", "calls", "open", "exited"}
          /\ SameWaiting(records[g], nap.record) /\ DOMAIN nap.driver = DriverFields
          /\ nap.driver.run = drivers[g].run /\ nap.driver.beat \in {drivers[g].beat, m}
          /\ nap.driver.started = drivers[g].started /\ nap.driver.stopping = drivers[g].stopping
          /\ nap.driver.active = drivers[g].active
          /\ nap.calls = [calls EXCEPT ![m] = c("sleeping")]
      BY <1>4, <1>7, <1>10
    <2>3. DOMAIN c("sleeping") = CallFields /\ c("sleeping").ending = calls[m].ending
          /\ c("sleeping").stage # "child"
      BY <1>6
    <2>4. Fits(nap, g) /\ (g = current => Serial(nap.driver, nap.calls, g))
      BY <1>3, <2>1, <2>2, <2>3, CallMoves
    <2> QED  BY <1>1, <1>3, <1>10, <1>17, <2>4, BecomesInv
  <1>18. ASSUME Becomes(g, ask), calls[m].stage = "sleeping" PROVE IInv'
    <2> DEFINE stage == IF x.open THEN "asking" ELSE "denied"
    <2>1. InFlight(c(stage), g) /\ c(stage).stage # "child" /\ (Timed(calls[m], m) => Timed(c(stage), m))
      BY <1>6, <1>18 DEF InFlight, Timed, Worth
    <2> HIDE DEF stage
    <2>2. /\ DOMAIN ask = {"record", "driver", "calls", "open", "exited"}
          /\ SameWaiting(records[g], ask.record) /\ DOMAIN ask.driver = DriverFields
          /\ ask.driver.run = drivers[g].run /\ ask.driver.beat \in {drivers[g].beat, m}
          /\ ask.driver.started = drivers[g].started /\ ask.driver.stopping = drivers[g].stopping
          /\ ask.driver.active = drivers[g].active
          /\ ask.calls = [calls EXCEPT ![m] = c(stage)]
      BY <1>4, <1>7, <1>11 DEF stage
    <2>3. DOMAIN c(stage) = CallFields /\ c(stage).ending = calls[m].ending
      BY <1>6
    <2>4. Fits(ask, g) /\ (g = current => Serial(ask.driver, ask.calls, g))
      BY <1>3, <2>1, <2>2, <2>3, CallMoves
    <2> QED  BY <1>1, <1>3, <1>18, <2>4, BecomesInv
  <1>19. ASSUME Becomes(g, run), calls[m].stage = "answered", calls[m].answer = "active" PROVE IInv'
    <2>1. InFlight(c("child"), g)
      BY <1>6 DEF InFlight
    <2>2. Timed(calls[m], m) => Timed(c("child"), m)
      <3>1. left[m] \in Nat /\ faults \in Nat /\ LeaseTicks \in Nat
        BY ConstantFacts DEF IInv, ShapeInv, LeaseShapeInv
      <3> QED  BY <1>6, <1>19, <3>1 DEF Timed, Worth
    <2>3. /\ DOMAIN run = {"record", "driver", "calls", "open", "exited"}
          /\ SameWaiting(records[g], run.record) /\ DOMAIN run.driver = DriverFields
          /\ run.driver.run = drivers[g].run /\ run.driver.beat = m
          /\ run.driver.started = drivers[g].started /\ run.driver.stopping = drivers[g].stopping
          /\ run.driver.active = drivers[g].active
          /\ run.calls = [calls EXCEPT ![m] = c("child")]
      BY <1>4, <1>7, <1>12, <1>13
    <2>4. DOMAIN c("child") = CallFields /\ c("child").ending = calls[m].ending
      BY <1>6
    <2>5. Fits(run, g) /\ (g = current => Serial(run.driver, run.calls, g))
      BY <1>3, <2>1, <2>2, <2>3, <2>4, CallMoves
    <2> QED  BY <1>1, <1>3, <1>19, <2>5, BecomesInv
  <1> QED  BY <1>2, <1>15, <1>16, <1>17, <1>18, <1>19

\* The steps of a child keep the invariant.
LEMMA ChildSteps ==
    ASSUME IInv, NEW m \in Messages, ChildEvent(m) \/ ChildExit(m) \/ SpawnFails(m)
    PROVE  IInv'
  <1> DEFINE g == calls[m].launch
             x == Now(g)
             c(stage) == [calls[m] EXCEPT !.stage = stage]
             told(r) == [x EXCEPT !.record = r]
             exit == [x EXCEPT !.calls[m].stage = "over", !.driver.child = IF @ = m THEN None ELSE @]
             lost == [x EXCEPT !.record = OnError(@), !.calls[m].stage = "lost"]
  <1>1. /\ calls[m].stage = "child"
        /\ UNCHANGED <<launches, received, leaseVars>>
        /\ faults' \in 0 .. MaxFaults /\ faults <= faults'
    BY ConstantFacts DEF ChildEvent, ChildExit, SpawnFails, Fault, IInv, ShapeInv
  <1>2. /\ g \in Launches /\ g <= launches /\ g # 0 /\ InFlight(calls[m], g)
    BY <1>1, CallOfLaunch DEF InFlight
  <1>3. /\ DOMAIN calls = Messages /\ DOMAIN calls[m] = CallFields /\ QueuesSound(records[g])
        /\ DOMAIN records[g] = RecordFields /\ DOMAIN drivers[g] = DriverFields
        /\ records = [h \in Launches |-> records[h]] /\ drivers = [h \in Launches |-> drivers[h]]
    BY <1>2 DEF IInv, ShapeInv, QueuesSound
  <1>4. /\ DOMAIN x = {"record", "driver", "calls", "open", "exited"}
        /\ x.record = records[g] /\ x.driver = drivers[g] /\ x.calls = calls /\ x.exited = FALSE
    BY DEF Now
  <1>5. \A stage : /\ DOMAIN c(stage) = CallFields /\ c(stage).launch = g /\ c(stage).stage = stage
                   /\ c(stage).ending = calls[m].ending
    BY <1>3, FieldsOfCall
  <1>6. SameWaiting(records[g], records[g]) /\ SameWaiting(records[g], OnError(records[g]))
        /\ SameWaiting(records[g], OnToolEvent(records[g])) /\ SameWaiting(records[g], OnResult(records[g]))
    BY <1>3, EventsKeepWaiting DEF SameWaiting
  <1>7. CASE ChildEvent(m)
    <2>1. PICK r \in {OnToolEvent(records[g]), OnResult(records[g])} : records' = [records EXCEPT ![g] = r]
      BY <1>7 DEF ChildEvent
    <2>2. /\ DOMAIN told(r) = {"record", "driver", "calls", "open", "exited"}
          /\ told(r).record = r /\ told(r).driver = drivers[g] /\ told(r).calls = calls
          /\ told(r).exited = FALSE
      BY <1>4
    <2>3. UNCHANGED <<drivers, calls, current, tokens>>
      BY <1>7 DEF ChildEvent
    <2> HIDE DEF told
    <2>4. Becomes(g, told(r))
      BY <1>2, <1>3, <2>1, <2>2, <2>3 DEF Becomes
    <2>5. SameWaiting(records[g], r)
      BY <1>6, <2>1
    <2>6. QueuesSound(r) /\ WaitingIn(r) = WaitingIn(records[g])
      BY <1>3, <2>5, SameWaitingSound
    <2>7. Fits(told(r), g)
      BY <1>2, <1>3, <2>2, <2>6, NowFits
    <2>8. g = current => Serial(told(r).driver, told(r).calls, g)
      BY <1>2, <2>2 DEF IInv, MapInv
    <2> QED  BY <1>1, <1>2, <2>4, <2>7, <2>8, BecomesInv
  <1>8. CASE ChildExit(m)
    <2>1. PICK outcome : Becomes(g, Finish(exit, g, outcome))
      BY <1>8 DEF ChildExit
    <2>2. /\ DOMAIN exit = {"record", "driver", "calls", "open", "exited"}
          /\ exit.record = records[g]
          /\ exit.driver = [drivers[g] EXCEPT !.child = IF @ = m THEN None ELSE @]
          /\ exit.calls = [calls EXCEPT ![m] = [calls[m] EXCEPT !.stage = "over"]]
      BY <1>3, <1>4
    <2>3. /\ DOMAIN exit.driver = DriverFields /\ exit.driver.run = drivers[g].run
          /\ exit.driver.beat = drivers[g].beat
          /\ exit.driver.started = drivers[g].started /\ exit.driver.stopping = drivers[g].stopping
          /\ exit.driver.active = drivers[g].active
      BY <1>3, <2>2, FieldsOfDriver
    <2> HIDE DEF exit
    <2>4. SameWaiting(records[g], exit.record)
      BY <1>6, <2>2
    <2> QED  BY <1>1, <1>2, <2>1, <2>2, <2>3, <2>4, TurnEnds
  <1>9. CASE SpawnFails(m)
    <2>1. Becomes(g, lost)
      BY <1>9 DEF SpawnFails
    <2>2. /\ DOMAIN lost = {"record", "driver", "calls", "open", "exited"}
          /\ SameWaiting(records[g], lost.record) /\ lost.driver = drivers[g]
          /\ DOMAIN lost.driver = DriverFields /\ lost.driver.beat \in {drivers[g].beat, m}
          /\ lost.calls = [calls EXCEPT ![m] = c("lost")]
      BY <1>3, <1>4, <1>6
    <2> HIDE DEF lost, c
    <2>3. /\ DOMAIN c("lost") = CallFields /\ c("lost").ending = calls[m].ending
          /\ c("lost").stage # "child" /\ InFlight(c("lost"), g) /\ Timed(c("lost"), m)
      BY <1>5 DEF InFlight, Timed, Worth
    <2>4. Fits(lost, g) /\ (g = current => Serial(lost.driver, lost.calls, g))
      BY <1>2, <2>2, <2>3, CallMoves
    <2> QED  BY <1>1, <1>2, <2>1, <2>4, BecomesInv
  <1> QED  BY <1>7, <1>8, <1>9

\* The end of a release keeps the invariant.
LEMMA ReleaseReturnsStep ==
    ASSUME IInv, NEW m \in Messages, ReleaseReturns(m)
    PROVE  IInv'
  <1> DEFINE g == calls[m].launch
             x == [Now(g) EXCEPT !.calls[m].ending = "over"]
             c == [calls[m] EXCEPT !.ending = "over"]
             y == Settle(x, g, calls[m].outcome)
  <1>1. /\ calls[m].ending \in {"posted", "denied", "handled"}
        /\ UNCHANGED <<launches, received, leaseVars>>
        /\ faults' \in 0 .. MaxFaults /\ faults <= faults'
        /\ Becomes(g, y)
    BY ConstantFacts DEF ReleaseReturns, Fault, IInv, ShapeInv
  <1>2. /\ g \in Launches /\ g <= launches /\ g # 0
    BY <1>1, CallOfLaunch
  <1>3. /\ DOMAIN calls = Messages /\ DOMAIN calls[m] = CallFields
        /\ DOMAIN records[g] = RecordFields /\ DOMAIN drivers[g] = DriverFields
    BY <1>2 DEF IInv, ShapeInv, QueuesSound
  <1>4. /\ DOMAIN x = {"record", "driver", "calls", "open", "exited"}
        /\ x.record = records[g] /\ x.driver = drivers[g] /\ x.calls = [calls EXCEPT ![m] = c]
    BY <1>3 DEF Now
  <1>5. DOMAIN c = CallFields /\ c.launch = g /\ c.ending = "over" /\ c.stage = calls[m].stage
    BY <1>3, FieldsOfCall
  <1> HIDE DEF x, c, y
  <1>6. SameWaiting(records[g], x.record) /\ DOMAIN x.driver = DriverFields
        /\ x.driver.run = drivers[g].run /\ x.driver.beat \in {drivers[g].beat, m}
        /\ x.driver.started = drivers[g].started /\ x.driver.stopping = drivers[g].stopping
    BY <1>3, <1>4 DEF SameWaiting
  <1>7. Fits(x, g)
    BY <1>1, <1>2, <1>4, <1>5, <1>6, CallFits
  <1>8. ASSUME g = current PROVE Solo(x.driver, x.calls, g)
    <2>1. x.calls[m] = c /\ \A n \in Messages \ {m} : x.calls[n] = calls[n]
      BY <1>3, <1>4
    <2>2. Serial(drivers[current], calls, current) /\ current # 0
      BY <1>2, <1>8 DEF IInv, MapInv
    <2>3. Occupied(calls[m], current)
      BY <1>1, <1>8 DEF Occupied
    <2>4. ~InFlight(calls[m], current)
      BY <1>1, <2>2 DEF Serial
    <2>5. ~Occupied(c, current)
      BY <1>5, <1>8, <2>4 DEF Occupied, InFlight
    <2>6. x.driver.started = drivers[current].started /\ x.driver.stopping = drivers[current].stopping
      BY <1>6, <1>8
    <2>7. Solo(x.driver, x.calls, current)
      BY <2>1, <2>2, <2>3, <2>5, <2>6, SoloAfter
    <2> QED  BY <1>8, <2>7
  <1>9. Fits(y, g) /\ (g = current /\ ~y.exited => Serial(y.driver, y.calls, g))
    BY <1>2, <1>7, <1>8, SettleFacts DEF y
  <1> QED  BY <1>1, <1>2, <1>9, BecomesInv

---------------------------------------------------------------------------
\* Commands and deliveries.
LEMMA StopCommandStep ==
    ASSUME IInv, StopCommand
    PROVE  IInv'
  <1> DEFINE g == current
             stopped == OnStop(records[g])
             x == [Now(g) EXCEPT !.record = [OnStop(@) EXCEPT !.queue = <<>>],
                                 !.driver.started = FALSE, !.driver.stopping = TRUE, !.open = FALSE]
             z == IF x.driver.child = None /\ x.driver.active THEN Finish(x, g, "stopped") ELSE x
             y == [z EXCEPT !.exited = TRUE]
  <1>1. /\ g # 0 /\ Becomes(g, y) /\ UNCHANGED <<launches, received, faults, leaseVars>>
    BY DEF StopCommand
  <1>2. g \in Launches /\ g <= launches
    BY <1>1, ConstantFacts DEF IInv, ShapeInv
  <1>3. /\ QueuesSound(records[g]) /\ DOMAIN records[g] = RecordFields /\ DOMAIN drivers[g] = DriverFields
    BY <1>2 DEF IInv, ShapeInv, QueuesSound
  <1>4. SameWaiting(records[g], stopped) /\ DOMAIN stopped = RecordFields
    BY <1>3, EventsKeepWaiting DEF SameWaiting
  <1>5. /\ DOMAIN x = {"record", "driver", "calls", "open", "exited"}
        /\ x.record = [stopped EXCEPT !.queue = <<>>] /\ x.calls = calls
        /\ x.driver = [drivers[g] EXCEPT !.started = FALSE, !.stopping = TRUE]
    BY DEF Now
  <1>6. /\ DOMAIN x.driver = DriverFields /\ x.driver.run = drivers[g].run
        /\ x.driver.beat = drivers[g].beat
    BY <1>3, <1>5, FieldsOfDriver
  <1> HIDE DEF x, stopped
  <1>7. /\ DOMAIN x.record = RecordFields
        /\ x.record.chain = records[g].chain /\ x.record.queue = <<>>
    BY <1>4, <1>5, FieldsOfRecord DEF SameWaiting
  <1>8. QueuesSound(x.record) /\ WaitingIn(x.record) \subseteq WaitingIn(records[g])
    BY <1>3, <1>7 DEF QueuesSound, WaitingIn, Distinct, Elements
  <1>9. Fits(x, g)
    BY <1>2, <1>5, <1>6, <1>8, NowFits
  <1>10. Fits(Finish(x, g, "stopped"), g)
    BY <1>2, <1>9, FinishFacts
  <1>11. Fits(z, g)
    BY <1>9, <1>10
  <1> HIDE DEF z
  <1>12. Fits(y, g) /\ y.exited = TRUE
    BY <1>11 DEF Fits
  <1> HIDE DEF y
  <1>13. faults' \in 0 .. MaxFaults /\ faults <= faults'
    BY <1>1, ConstantFacts DEF IInv, ShapeInv
  <1> QED  BY <1>1, <1>2, <1>12, <1>13, BecomesInv

\* A delivery keeps the invariant, whatever it removes from the queue.
LEMMA DeliverStep ==
    ASSUME IInv, NEW g \in Launches, Deliver(g)
    PROVE  IInv'
  <1> DEFINE m == Head(records[g].chain)
             taken == [records[g] EXCEPT !.chain = Tail(@)]
             cut == IF m \in Removals THEN CutOff(taken, ChannelOf[m]) ELSE taken
             d == IF drivers[g].started THEN drivers[g]
                  ELSE [drivers[g] EXCEPT !.started = TRUE, !.stopping = FALSE]
             queued == [Now(g) EXCEPT !.driver = d, !.record = DeliverQueued(cut, m)]
             sent == [Now(g) EXCEPT !.driver = d, !.record = DeliverSent(cut, m)]
  <1>1. /\ records[g].chain # <<>> /\ UNCHANGED <<launches, received, faults, leaseVars>>
        /\ Becomes(g, IF d.active THEN queued ELSE Prepare(sent, g, m))
    BY DEF Deliver
  <1>2. g <= launches
    BY <1>1, ConstantFacts DEF IInv, ShapeInv, LaunchesInv, Launched
  <1>3. /\ QueuesSound(records[g]) /\ DOMAIN records[g] = RecordFields /\ DOMAIN drivers[g] = DriverFields
    BY DEF IInv, ShapeInv, QueuesSound
  <1>4. /\ m \in Elements(records[g].chain) /\ m \in Messages
        /\ Tail(records[g].chain) \in Seq(Messages) /\ Distinct(Tail(records[g].chain))
        /\ Elements(Tail(records[g].chain)) \subseteq Elements(records[g].chain) \ {m}
    BY <1>1, <1>3, TailFacts DEF QueuesSound
  <1>5. /\ DOMAIN taken = RecordFields /\ taken.chain = Tail(records[g].chain)
        /\ taken.queue = records[g].queue
    BY <1>3, FieldsOfRecord
  <1>c. /\ DOMAIN cut = RecordFields /\ cut.chain = Tail(records[g].chain)
        /\ cut.queue \in Seq(Messages) /\ Distinct(cut.queue)
        /\ Elements(cut.queue) \subseteq Elements(records[g].queue)
    <2> DEFINE w == DiscardQueuedChannel(records[g].queue, ChannelOf[m])
    <2>1. /\ w \in Seq(Messages) /\ Elements(w) \subseteq Elements(records[g].queue) /\ Distinct(w)
      BY <1>3, WithoutDistinct DEF QueuesSound, DiscardQueuedChannel
    <2>2. /\ DOMAIN CutOff(taken, ChannelOf[m]) = RecordFields
          /\ CutOff(taken, ChannelOf[m]).chain = taken.chain
          /\ CutOff(taken, ChannelOf[m]).queue = w
      BY <1>5, FieldsOfRecord DEF CutOff
    <2> HIDE DEF w
    <2> QED  BY <1>3, <1>5, <2>1, <2>2 DEF QueuesSound
  <1>6. /\ DOMAIN d = DriverFields /\ d.run = drivers[g].run /\ d.beat = drivers[g].beat
        /\ d.active = drivers[g].active /\ (drivers[g].started = TRUE => d = drivers[g])
    BY <1>3, FieldsOfDriver
  <1>7. /\ DOMAIN queued = {"record", "driver", "calls", "open", "exited"}
        /\ queued.record = DeliverQueued(cut, m) /\ queued.driver = d /\ queued.calls = calls
        /\ DOMAIN sent = {"record", "driver", "calls", "open", "exited"}
        /\ sent.record = DeliverSent(cut, m) /\ sent.driver = d /\ sent.calls = calls
    BY DEF Now
  <1> HIDE DEF m, taken, cut, d, queued, sent
  <1>8. /\ SameWaiting(cut, sent.record)
        /\ DOMAIN queued.record = RecordFields /\ queued.record.chain = cut.chain
        /\ queued.record.queue = Append(cut.queue, m)
    BY <1>c, <1>7, PromptWaiting
  <1>9. m \notin Elements(records[g].queue) /\ m \notin Elements(cut.queue)
    BY <1>3, <1>4, <1>c DEF QueuesSound
  <1>10. QueuesSound(cut) /\ WaitingIn(cut) \subseteq WaitingIn(records[g]) \ {m}
         /\ m \in WaitingIn(records[g])
    BY <1>3, <1>4, <1>c, <1>9 DEF QueuesSound, WaitingIn
  <1>11. QueuesSound(sent.record) /\ WaitingIn(sent.record) = WaitingIn(cut)
    BY <1>8, <1>10, SameWaitingSound
  <1>12. QueuesSound(queued.record) /\ WaitingIn(queued.record) \subseteq WaitingIn(records[g])
    <2>1. /\ Append(cut.queue, m) \in Seq(Messages) /\ Distinct(Append(cut.queue, m))
          /\ Elements(Append(cut.queue, m)) = Elements(cut.queue) \cup {m}
      BY <1>4, <1>9, <1>c, AppendFacts
    <2> QED  BY <1>3, <1>4, <1>c, <1>8, <1>10, <2>1 DEF QueuesSound, WaitingIn
  <1>13. Fits(queued, g) /\ Fits(sent, g)
    BY <1>6, <1>7, <1>10, <1>11, <1>12, NowFits
  <1>14. faults' \in 0 .. MaxFaults /\ faults <= faults'
    BY <1>1, ConstantFacts DEF IInv, ShapeInv
  <1>15. g = current => d = drivers[g] /\ Serial(d, calls, g)
    BY <1>6, ConstantFacts DEF IInv, MapInv, Serial
  <1>16. CASE d.active
    BY <1>1, <1>2, <1>7, <1>13, <1>14, <1>15, <1>16, BecomesInv
  <1>17. CASE ~d.active
    <2>1. g = current => Solo(sent.driver, sent.calls, g)
      BY <1>7, <1>15, <1>17 DEF Serial, Solo
    <2> DEFINE y == Prepare(sent, g, m)
    <2>2. Fits(y, g) /\ (g = current => Serial(y.driver, y.calls, g))
      BY <1>7, <1>10, <1>11, <1>13, <2>1, PrepareFacts
    <2>3. Becomes(g, y)
      BY <1>1, <1>17
    <2> HIDE DEF y
    <2> QED  BY <1>1, <1>2, <1>14, <2>2, <2>3, BecomesInv
  <1> QED  BY <1>16, <1>17

\* A message that arrives keeps the invariant.
LEMMA ReceiveStep ==
    ASSUME IInv, Receive
    PROVE  IInv'
  <1> DEFINE n == received + 1
             r == [records[current] EXCEPT !.chain = Append(@, n)]
  <1>1. /\ current # 0 /\ received < MaxMessages /\ received' = n
        /\ records' = [records EXCEPT ![current] = r]
        /\ UNCHANGED <<drivers, calls, current, launches, tokens, faults, leaseVars>>
    BY DEF Receive
  <1>2. /\ current \in Launches /\ n \in Messages /\ n \in 0 .. MaxMessages /\ n > received
        /\ received \in Nat /\ n # received
    BY <1>1, ConstantFacts DEF IInv, ShapeInv
  <1>3. /\ QueuesSound(records[current]) /\ DOMAIN records[current] = RecordFields
        /\ DOMAIN records = Launches
    BY <1>2 DEF IInv, ShapeInv, QueuesSound
  <1>4. \A g \in Launches : \A m \in WaitingIn(records[g]) : m \in Messages /\ m <= received /\ calls[m].launch = 0
    <2>1. \A g \in Launches : \A m \in WaitingIn(records[g]) : m \in Messages
      BY DEF IInv, ShapeInv, QueuesSound, WaitingIn, Elements
    <2> QED  BY <2>1 DEF IInv, WaitingInv
  <1>5. \A g \in Launches : n \notin WaitingIn(records[g])
    BY <1>2, <1>4
  <1>6. calls[n].launch = 0
    BY <1>2, ConstantFacts DEF IInv, WaitingInv
  <1>7. DOMAIN r = RecordFields /\ r.chain = Append(records[current].chain, n) /\ r.queue = records[current].queue
    BY <1>3, FieldsOfRecord
  <1> HIDE DEF r, n
  <1>8. QueuesSound(r) /\ WaitingIn(r) = WaitingIn(records[current]) \cup {n}
    <2>1. n \notin Elements(records[current].chain) /\ n \notin Elements(records[current].queue)
      BY <1>2, <1>5 DEF WaitingIn
    <2>2. /\ Append(records[current].chain, n) \in Seq(Messages)
          /\ Distinct(Append(records[current].chain, n))
          /\ Elements(Append(records[current].chain, n)) = Elements(records[current].chain) \cup {n}
      BY <1>2, <1>3, <2>1, AppendFacts DEF QueuesSound
    <2> QED  BY <1>3, <1>7, <2>1, <2>2 DEF QueuesSound, WaitingIn
  <1>9. /\ records'[current] = r /\ \A g \in Launches \ {current} : records'[g] = records[g]
        /\ DOMAIN records' = Launches
    BY <1>1, <1>2, <1>3
  <1>10. ShapeInv'
    <2>1. \A g \in Launches : QueuesSound(records'[g])
      BY <1>8, <1>9 DEF IInv, ShapeInv
    <2>2. \A g \in Launches : QueuesSound(records[g])'
      BY <2>1 DEF QueuesSound, Distinct, Elements
    <2>3. records' = [g \in Launches |-> records'[g]]
      BY <1>1, <1>3
    <2> QED  BY <1>1, <1>2, <2>2, <2>3 DEF IInv, ShapeInv
  <1>11. WaitingInv'
    <2>1. \A g \in Launches : WaitingIn(records'[g]) =
                IF g = current THEN WaitingIn(records[g]) \cup {n} ELSE WaitingIn(records[g])
      BY <1>8, <1>9
    <2>2. \A g, h \in Launches : \A m \in Messages :
            m \in WaitingIn(records'[g]) /\ m \in WaitingIn(records'[h]) => g = h
      BY <1>5, <2>1 DEF IInv, WaitingInv
    <2>3. \A g \in Launches : \A m \in WaitingIn(records'[g]) : calls[m].launch = 0 /\ m <= n
      <3> SUFFICES ASSUME NEW g \in Launches, NEW m \in WaitingIn(records'[g])
                   PROVE  calls[m].launch = 0 /\ m <= n
        OBVIOUS
      <3>1. m = n \/ m \in WaitingIn(records[g])
        BY <2>1
      <3>2. n \in Nat /\ received \in Nat /\ received < n
        BY <1>2
      <3>3. m = n => m <= n
        BY <3>2
      <3>4. m \in WaitingIn(records[g]) => m \in Nat /\ m <= received
        BY <1>4, ConstantFacts
      <3> QED  BY <1>4, <1>6, <3>1, <3>2, <3>3, <3>4
    <2>4. \A m \in Messages : calls[m].launch # 0 => m <= n
      <3>1. \A m \in Messages : m \in Nat /\ (calls[m].launch # 0 => m <= received)
        BY ConstantFacts DEF IInv, WaitingInv
      <3> QED  BY <1>2, <3>1
    <2> QED  BY <1>1, <2>2, <2>3, <2>4 DEF WaitingInv, WaitingIn, Elements
  <1>12. LaunchesInv'
    <2>1. \A g \in Launches : g > launches => g # current
      BY <1>2, ConstantFacts DEF IInv, ShapeInv
    <2> QED  BY <1>1, <1>9, <2>1 DEF IInv, LaunchesInv, Owns
  <1>13. LeaseShapeInv' /\ CallsInv'
    BY <1>1 DEF IInv, LeaseShapeInv, CallsInv, leaseVars
  <1>14. MapInv'
    BY <1>1 DEF IInv, MapInv, Serial, Timed, Worth, InFlight, Occupied, leaseVars
  <1> QED  BY <1>10, <1>11, <1>12, <1>13, <1>14 DEF IInv

\* A start command keeps the invariant.
LEMMA StartCommandStep ==
    ASSUME IInv, StartCommand
    PROVE  IInv'
  <1> DEFINE g == launches + 1
             r == MarkReady(records[g])
             d == [drivers[g] EXCEPT !.started = TRUE]
  <1>1. /\ current = 0 /\ launches < MaxLaunches /\ launches' = g /\ current' = g
        /\ records' = [records EXCEPT ![g] = r] /\ drivers' = [drivers EXCEPT ![g] = d]
        /\ tokens' = tokens \cup {g} /\ UNCHANGED <<calls, received, faults, leaseVars>>
    BY DEF StartCommand
  <1>2. /\ g \in Launches /\ g # 0 /\ g \in 0 .. MaxLaunches /\ g \in 0 .. g
        /\ \A n \in 0 .. launches : n # g /\ n \in 0 .. g
        /\ \A n \in Launches : n > g => n > launches /\ n # g
        /\ g > launches
    BY <1>1, ConstantFacts DEF IInv, ShapeInv
  <1>3. /\ records[g] = Launched /\ drivers[g] = NewDriver
        /\ DOMAIN records = Launches /\ DOMAIN drivers = Launches /\ QueuesSound(records[g])
        /\ DOMAIN records[g] = RecordFields
    BY <1>2 DEF IInv, ShapeInv, LaunchesInv, QueuesSound
  <1>4. /\ DOMAIN d = DriverFields /\ d.started = TRUE /\ d.stopping = FALSE /\ d.run = None /\ d.beat = None
    BY <1>3, FieldsOfDriver DEF NewDriver
  <1>5. SameWaiting(records[g], r)
    BY <1>3, EndRunWaiting
  <1>6. QueuesSound(r) /\ WaitingIn(r) = WaitingIn(records[g])
    BY <1>3, <1>5, SameWaitingSound
  <1> HIDE DEF g, r, d
  <1>7. /\ records'[g] = r /\ drivers'[g] = d
        /\ \A h \in Launches \ {g} : records'[h] = records[h] /\ drivers'[h] = drivers[h]
        /\ records' = [h \in Launches |-> records'[h]] /\ drivers' = [h \in Launches |-> drivers'[h]]
    BY <1>1, <1>2, <1>3
  <1>8. ShapeInv'
    <2>1. \A h \in Launches : QueuesSound(records'[h]) /\ DOMAIN drivers'[h] = DriverFields
      BY <1>4, <1>6, <1>7 DEF IInv, ShapeInv
    <2>2. \A h \in Launches : QueuesSound(records[h])' /\ (DOMAIN drivers[h] = DriverFields)'
      BY <2>1 DEF QueuesSound, Distinct, Elements
    <2> QED  BY <1>1, <1>2, <1>7, <2>2 DEF IInv, ShapeInv
  <1>9. WaitingInv'
    <2>1. \A h \in Launches : WaitingIn(records'[h]) = WaitingIn(records[h])
      BY <1>6, <1>7
    <2> QED  BY <1>1, <2>1 DEF IInv, WaitingInv, WaitingIn, Elements
  <1>10. LeaseShapeInv' /\ CallsInv'
    BY <1>1 DEF IInv, LeaseShapeInv, CallsInv, leaseVars
  <1>11. LaunchesInv'
    <2>1. Owns(d, calls, g)
      BY <1>4, ConstantFacts DEF Owns
    <2>2. \A h \in Launches : Owns(drivers'[h], calls, h)
      BY <1>7, <2>1 DEF IInv, LaunchesInv
    <2>3. \A h \in Launches : h > g => records'[h] = Launched /\ drivers'[h] = NewDriver
      BY <1>2, <1>7 DEF IInv, LaunchesInv
    <2> QED  BY <1>1, <2>2, <2>3 DEF LaunchesInv, Owns
  <1>12. MapInv'
    <2>1. \A m \in Messages : calls[m].launch # g
      BY <1>2 DEF IInv, ShapeInv
    <2>2. drivers'[g] = d /\ g \in tokens' /\ current' = g /\ calls' = calls
      BY <1>1, <1>7
    <2> QED  BY <1>4, <2>1, <2>2 DEF MapInv, Serial, InFlight, Occupied
  <1> QED  BY <1>8, <1>9, <1>10, <1>11, <1>12 DEF IInv

---------------------------------------------------------------------------
\* Requests for leases.  A reconciliation leaves an owner whose time is not up.
LEMMA ReconcileFacts ==
    ASSUME IInv, NEW st, st = [m \in Messages |-> st[m]], NEW ord, Leases!Reconcile(st, ord)
    PROVE  /\ status' = [m \in Messages |-> status'[m]] /\ left' \in [Messages -> Nat]
           /\ \A m \in Messages :
                /\ st[m] = "none" => status'[m] = "none"
                /\ st[m] = "active" /\ left[m] > 0 => status'[m] = "active" /\ left'[m] = left[m]
                /\ status'[m] = "active" => (st[m] = "active" /\ left'[m] = left[m]) \/ left'[m] = LeaseTicks
  <1> DEFINE kept == Leases!ExpireStale(st, left)
  <1>1. PICK P \in Leases!Promotions(kept, ord) :
            /\ status' = [m \in Messages |-> IF m \in P THEN "active" ELSE kept[m]]
            /\ left' = [m \in Messages |-> IF m \in P THEN LeaseTicks ELSE left[m]]
    BY DEF Leases!Reconcile
  <1>2. \A m \in P : m \in Messages /\ kept[m] = "waiting"
    BY <1>1 DEF Leases!Promotions, Leases!WithStatus
  <1>3. \A m \in Messages : kept[m] = IF st[m] = "active" /\ left[m] = 0 THEN "expired" ELSE st[m]
    BY DEF Leases!ExpireStale
  <1>4. left \in [Messages -> Nat] /\ LeaseTicks \in Nat
    BY ConstantFacts DEF IInv, LeaseShapeInv
  <1> HIDE DEF kept
  <1>5. left' \in [Messages -> Nat] /\ status' = [m \in Messages |-> status'[m]]
    BY <1>1, <1>4
  <1>6. ASSUME NEW m \in Messages
        PROVE  /\ st[m] = "none" => status'[m] = "none"
               /\ st[m] = "active" /\ left[m] > 0 => status'[m] = "active" /\ left'[m] = left[m]
               /\ status'[m] = "active" => (st[m] = "active" /\ left'[m] = left[m]) \/ left'[m] = LeaseTicks
    BY <1>1, <1>2, <1>3, <1>4
  <1> QED  BY <1>5, <1>6

\* An owner whose prompt is under way has time left.
LEMMA TimedOwner ==
    ASSUME IInv, Sheltered, NEW m \in Messages, NEW c, Timed(c, m),
           c.stage = "child" \/ (c.stage \in {"asking", "answered", "sleeping"} /\ status[m] = "active")
    PROVE  status[m] = "active" /\ left[m] > 0
  <1>1. left[m] \in Nat /\ faults \in 0 .. MaxFaults /\ LeaseTicks \in Nat /\ MaxFaults \in Nat
    BY ConstantFacts DEF IInv, ShapeInv, LeaseShapeInv
  <1> QED  BY <1>1 DEF Timed, Worth, Sheltered

\* What becomes of a call when the backend works.
Follows(c, e) ==
    /\ e.launch = c.launch
    /\ e.ending = c.ending \/ (c.ending = "posted" /\ e.ending = "handled")
    /\ e.stage = c.stage \/ (c.stage = "asking" /\ e.stage = "answered")

\* A driver stays serial when its calls go on and no lease loses its worth.
LEMMA SerialFollows ==
    ASSUME NEW d, NEW k, NEW e, NEW g, Serial(d, k, g),
           \A m \in Messages : Follows(k[m], e[m]),
           \A m \in Messages : InFlight(k[m], g) /\ k[m].ending = "none" /\ Timed(k[m], m)
                => Worth(e[m], status'[m], left'[m], faults', heartbeat'[m].busy)
    PROVE  Serial(d, e, g)'
  <1>1. ASSUME NEW m \in Messages, Occupied(e[m], g) PROVE Occupied(k[m], g) /\ d.active = TRUE
    <2>1. Follows(k[m], e[m])
      OBVIOUS
    <2>2. Occupied(k[m], g)
      BY <1>1, <2>1 DEF Follows, InFlight, Occupied
    <2> QED  BY <2>2 DEF Serial
  <1>2. ASSUME NEW m \in Messages, NEW n \in Messages, Occupied(e[m], g), Occupied(e[n], g) PROVE m = n
    <2>1. Occupied(k[m], g) /\ Occupied(k[n], g)
      BY <1>1, <1>2
    <2> QED  BY <2>1 DEF Serial
  <1>3. ASSUME NEW m \in Messages, InFlight(e[m], g)
        PROVE  /\ d.run = m /\ e[m].ending = "none"
               /\ Worth(e[m], status'[m], left'[m], faults', heartbeat'[m].busy)
    <2>1. Follows(k[m], e[m])
      OBVIOUS
    <2>2. InFlight(k[m], g)
      BY <1>3, <2>1 DEF Follows, InFlight
    <2>3. d.run = m /\ k[m].ending = "none" /\ Timed(k[m], m)
      BY <2>2 DEF Serial
    <2>4. e[m].ending = "none"
      BY <2>1, <2>3 DEF Follows
    <2>5. Worth(e[m], status'[m], left'[m], faults', heartbeat'[m].busy)
      BY <2>2, <2>3
    <2> QED  BY <2>3, <2>4, <2>5
  <1>4. ASSUME NEW m \in Messages, e[m].launch = g, e[m].stage = "child" PROVE d.beat = m
    <2>1. Follows(k[m], e[m])
      OBVIOUS
    <2>2. k[m].launch = g /\ k[m].stage = "child"
      BY <1>4, <2>1 DEF Follows
    <2> QED  BY <2>2 DEF Serial
  <1>5. d.started = TRUE /\ d.stopping = FALSE
    BY DEF Serial
  <1>6. \A m \in Messages : InFlight(e[m], g) => Timed(e[m], m)'
    BY <1>3 DEF Timed, Worth
  <1> QED  BY <1>1, <1>2, <1>3, <1>4, <1>5, <1>6 DEF Serial, InFlight, Occupied

\* The daemon is where it was.
LEMMA DaemonKept ==
    ASSUME IInv, UNCHANGED daemonVars, faults' \in 0 .. MaxFaults,
           NEW k, k = calls', k = [m \in Messages |-> k[m]],
           \A m \in Messages : DOMAIN k[m] = CallFields /\ Follows(calls[m], k[m])
    PROVE  ShapeInv' /\ WaitingInv' /\ LaunchesInv'
  <1>1. /\ records' = records /\ drivers' = drivers /\ current' = current /\ launches' = launches
        /\ tokens' = tokens /\ received' = received
    BY DEF daemonVars
  <1>2. \A m \in Messages : k[m].launch = calls[m].launch
    BY DEF Follows
  <1>3. \A m \in Messages : calls[m].ending = "none" => k[m].ending = "none"
    BY DEF Follows
  <1>4. /\ \A g \in Launches : QueuesSound(records[g]) /\ DOMAIN drivers[g] = DriverFields
        /\ \A m \in Messages : k[m].launch \in 0 .. launches
    BY <1>2 DEF IInv, ShapeInv
  <1>5. ShapeInv'
    <2>1. \A g \in Launches : QueuesSound(records'[g])
      BY <1>1, <1>4
    <2>2. \A g \in Launches : QueuesSound(records[g])'
      BY <2>1 DEF QueuesSound, Distinct, Elements
    <2>3. /\ records' = [g \in Launches |-> records'[g]] /\ drivers' = [g \in Launches |-> drivers'[g]]
          /\ launches' \in 0 .. MaxLaunches /\ current' \in 0 .. launches' /\ received' \in 0 .. MaxMessages
      BY <1>1 DEF IInv, ShapeInv
    <2> QED  BY <1>1, <1>4, <2>2, <2>3 DEF ShapeInv
  <1>6. WaitingInv'
    <2>1. \A g \in Launches : WaitingIn(records[g]) \subseteq Messages
      BY <1>4 DEF QueuesSound, WaitingIn, Elements
    <2>2. ASSUME NEW g \in Launches, NEW m \in WaitingIn(records[g]) PROVE k[m].launch = 0 /\ m <= received
      BY <1>2, <2>1, <2>2 DEF IInv, WaitingInv
    <2>3. \A m \in Messages : k[m].launch # 0 => m <= received
      BY <1>2 DEF IInv, WaitingInv
    <2>4. \A g, h \in Launches : \A m \in Messages :
                m \in WaitingIn(records[g]) /\ m \in WaitingIn(records[h]) => g = h
      BY DEF IInv, WaitingInv
    <2>5. /\ \A g, h \in Launches : \A m \in Messages :
                m \in WaitingIn(records'[g]) /\ m \in WaitingIn(records'[h]) => g = h
          /\ \A g \in Launches : \A m \in WaitingIn(records'[g]) : calls'[m].launch = 0 /\ m <= received'
          /\ \A m \in Messages : calls'[m].launch # 0 => m <= received'
      BY <1>1, <2>2, <2>3, <2>4
    <2> QED  BY <2>5 DEF WaitingInv, WaitingIn, Elements
  <1>7. LaunchesInv'
    <2>1. ASSUME NEW g \in Launches PROVE Owns(drivers[g], k, g)
      <3>1. Owns(drivers[g], calls, g)
        BY DEF IInv, LaunchesInv
      <3> QED  BY <1>2, <1>3, <3>1 DEF Owns
    <2>2. \A g \in Launches : g > launches => records[g] = Launched /\ drivers[g] = NewDriver
      BY DEF IInv, LaunchesInv
    <2>3. \A g \in Launches : Owns(drivers[g], calls, g)'
      BY <1>1, <2>1 DEF Owns
    <2> QED  BY <1>1, <2>2, <2>3 DEF LaunchesInv
  <1> QED  BY <1>5, <1>6, <1>7

\* What a request, or the clock, must keep of leases and calls.
LEMMA LeaseStep ==
    ASSUME IInv, UNCHANGED daemonVars, faults' \in 0 .. MaxFaults, LeaseShapeInv', CallsInv',
           NEW k, k = calls', k = [m \in Messages |-> k[m]],
           \A m \in Messages : DOMAIN k[m] = CallFields /\ Follows(calls[m], k[m]),
           \A m \in Messages :
                current # 0 /\ InFlight(calls[m], current) /\ calls[m].ending = "none" /\ Timed(calls[m], m)
                    => Worth(k[m], status'[m], left'[m], faults', heartbeat'[m].busy)
    PROVE  IInv'
  <1>1. ShapeInv' /\ WaitingInv' /\ LaunchesInv'
    BY DaemonKept
  <1>2. ASSUME NEW d, NEW g, g = current', d = drivers'[g]
        PROVE  MapInv'
    <2>1. ASSUME g # 0 PROVE g \in tokens' /\ Serial(d, k, g)'
      <3>1. g = current /\ d = drivers[g] /\ g \in tokens' /\ Serial(d, calls, g)
        BY <1>2, <2>1 DEF daemonVars, IInv, MapInv
      <3>2. \A m \in Messages : InFlight(calls[m], g) /\ calls[m].ending = "none" /\ Timed(calls[m], m)
                => Worth(k[m], status'[m], left'[m], faults', heartbeat'[m].busy)
        BY <2>1, <3>1
      <3>3. \A m \in Messages : Follows(calls[m], k[m])
        OBVIOUS
      <3> HIDE DEF Follows
      <3> QED  BY <3>1, <3>2, <3>3, SerialFollows
    <2> QED  BY <1>2, <2>1, MapLater
  <1>3. MapInv'
    BY <1>2
  <1> QED  BY <1>1, <1>3 DEF IInv

\* A reconciliation that leaves a lease its status leaves it its worth.
LEMMA ReconcileWorth ==
    ASSUME IInv, Sheltered, NEW st, st = [m \in Messages |-> st[m]], NEW ord, Leases!Reconcile(st, ord),
           UNCHANGED <<heartbeat, faults>>,
           NEW m \in Messages, st[m] = status[m], NEW c, Timed(c, m)
    PROVE  Worth(c, status'[m], left'[m], faults', heartbeat'[m].busy)
  <1>1. /\ st[m] = "active" /\ left[m] > 0 => status'[m] = "active" /\ left'[m] = left[m]
        /\ status'[m] = "active" => (st[m] = "active" /\ left'[m] = left[m]) \/ left'[m] = LeaseTicks
    BY ReconcileFacts
  <1>2. LeaseTicks \in Nat /\ left[m] \in Nat /\ faults' = faults /\ heartbeat' = heartbeat
    BY ConstantFacts DEF IInv, LeaseShapeInv
  <1>3. Worth(c, status[m], left[m], faults, heartbeat[m].busy)
    BY DEF Timed
  <1>4. CASE c.stage = "child"
    <2>1. status[m] = "active" /\ left[m] > 0
      BY <1>4, TimedOwner
    <2> QED  BY <1>1, <1>2, <1>3, <1>4, <2>1 DEF Worth
  <1>5. CASE c.stage \in {"asking", "answered", "sleeping"} /\ status[m] = "active"
    <2>1. left[m] > 0
      BY <1>5, TimedOwner
    <2> QED  BY <1>1, <1>2, <1>3, <1>5, <2>1 DEF Worth
  <1>6. CASE c.stage # "child" /\ status[m] # "active"
    BY <1>1, <1>2, <1>3, <1>6 DEF Worth
  <1>7. CASE c.stage \notin {"asking", "answered", "sleeping", "child"}
    BY <1>7 DEF Worth
  <1> QED  BY <1>4, <1>5, <1>6, <1>7

\* An acquire that the backend handles keeps the invariant.
LEMMA AcquireHandledStep ==
    ASSUME IInv, Sheltered, NEW m \in Messages, AcquireHandled(m)
    PROVE  IInv'
  <1> DEFINE c == [calls[m] EXCEPT !.stage = "answered", !.answer = status'[m]]
             k == calls'
  <1>1. PICK st, ord : /\ st = [n \in Messages |-> st[n]] /\ Leases!Reconcile(st, ord)
                       /\ \A n \in Messages \ {m} : st[n] = status[n]
                       /\ st[m] = "active" => status[m] = "active"
    <2>1. CASE Leases!AcquireNew(m)
      <3>1. PICK ord : Leases!Reconcile([status EXCEPT ![m] = "waiting"], ord)
        BY <2>1 DEF Leases!AcquireNew
      <3> DEFINE st == [status EXCEPT ![m] = "waiting"]
      <3>2. /\ st = [n \in Messages |-> st[n]] /\ \A n \in Messages \ {m} : st[n] = status[n]
            /\ st[m] = "waiting"
        BY DEF IInv, LeaseShapeInv
      <3> HIDE DEF st
      <3>3. Leases!Reconcile(st, ord)
        BY <3>1 DEF st
      <3> QED  BY <3>2, <3>3
    <2>2. CASE Leases!AcquireAgain(m)
      <3>1. Leases!Reconcile(status, order) /\ status = [n \in Messages |-> status[n]]
        BY <2>2 DEF Leases!AcquireAgain, IInv, LeaseShapeInv
      <3> QED  BY <3>1
    <2> QED  BY <2>1, <2>2 DEF AcquireHandled
  <1>2. /\ calls[m].stage = "asking" /\ UNCHANGED <<daemonVars, faults, heartbeat, release>>
        /\ calls' = [calls EXCEPT ![m] = c]
    BY DEF AcquireHandled, Leases!AcquireNew, Leases!AcquireAgain, IInv, ShapeInv
  <1>3. calls[m].launch # 0 /\ DOMAIN calls = Messages /\ DOMAIN calls[m] = CallFields
    BY <1>2, CallOfLaunch DEF IInv, ShapeInv
  <1>4. /\ DOMAIN c = CallFields /\ c.launch = calls[m].launch /\ c.ending = calls[m].ending
        /\ c.stage = "answered" /\ c.answer = status'[m]
    BY <1>3, FieldsOfCall
  <1>5. k[m] = c /\ \A n \in Messages \ {m} : k[n] = calls[n]
    BY <1>2, <1>3
  <1>6. \A n \in Messages :
            /\ st[n] = "none" => status'[n] = "none"
            /\ status'[n] = "active" =>
                    (st[n] = "active" /\ left'[n] = left[n]) \/ left'[n] = LeaseTicks
    BY <1>1, ReconcileFacts
  <1> HIDE DEF c
  <1>7. LeaseShapeInv'
    <2>1. status' = [n \in Messages |-> status'[n]] /\ left' \in [Messages -> Nat]
      BY <1>1, ReconcileFacts
    <2> QED  BY <1>2, <2>1 DEF IInv, LeaseShapeInv
  <1>8. CallsInv'
    <2>1. ASSUME NEW n \in Messages, k[n].launch = 0
          PROVE  k[n] = NoCall /\ status'[n] = "none" /\ ~heartbeat[n].busy /\ release[n] = "none"
      <3>1. n # m /\ k[n] = calls[n]
        BY <1>3, <1>4, <1>5, <2>1
      <3>2. calls[n] = NoCall /\ status[n] = "none" /\ ~heartbeat[n].busy /\ release[n] = "none"
        BY <2>1, <3>1 DEF IInv, CallsInv
      <3>3. st[n] = status[n]
        BY <1>1, <3>1
      <3>4. st[n] = "none" => status'[n] = "none"
        BY <1>6
      <3> QED  BY <3>1, <3>2, <3>3, <3>4
    <2>2. \A n \in Messages : release[n] # "none" => k[n].ending \in {"handled", "over"}
      BY <1>4, <1>5 DEF IInv, CallsInv
    <2>3. heartbeat' = heartbeat /\ release' = release
      BY <1>2
    <2> QED  BY <2>1, <2>2, <2>3 DEF CallsInv
  <1>9. ASSUME NEW n \in Messages, Timed(calls[n], n)
        PROVE  Worth(k[n], status'[n], left'[n], faults', heartbeat'[n].busy)
    <2>1. CASE n = m
      <3>1. status[m] = "active" => left[m] >= LeaseTicks - 1
        BY <1>2, <1>9, <2>1 DEF Timed, Worth
      <3>2. LeaseTicks \in Nat
        BY ConstantFacts
      <3>3. status'[m] = "active" => left'[m] >= LeaseTicks - 1
        <4>1. st[m] = "active" => status[m] = "active"
          BY <1>1
        <4>2. status'[m] = "active" => (st[m] = "active" /\ left'[m] = left[m]) \/ left'[m] = LeaseTicks
          BY <1>6
        <4> QED  BY <3>1, <3>2, <4>1, <4>2
      <3> QED  BY <1>4, <1>5, <2>1, <3>3 DEF Worth
    <2>2. CASE n # m
      <3>1. UNCHANGED <<heartbeat, faults>> /\ st[n] = status[n] /\ k[n] = calls[n]
        BY <1>1, <1>2, <1>5, <2>2
      <3> QED  BY <1>1, <1>9, <3>1, ReconcileWorth
    <2> QED  BY <2>1, <2>2
  <1>10. k = [n \in Messages |-> k[n]]
    BY <1>2, <1>3
  <1>11. \A n \in Messages : DOMAIN k[n] = CallFields /\ Follows(calls[n], k[n])
    BY <1>2, <1>4, <1>5 DEF Follows, IInv, ShapeInv
  <1>12. faults' \in 0 .. MaxFaults /\ UNCHANGED daemonVars
    BY <1>2 DEF IInv, ShapeInv
  <1> QED  BY <1>7, <1>8, <1>9, <1>10, <1>11, <1>12, LeaseStep

\* The two halves of a release in the backend keep the invariant.
LEMMA ReleaseSteps ==
    ASSUME IInv, Sheltered, NEW m \in Messages, ReleaseRead(m) \/ ReleaseWrite(m)
    PROVE  IInv'
  <1> DEFINE k == calls'
  <1>1. faults' \in 0 .. MaxFaults /\ UNCHANGED <<daemonVars, faults, heartbeat>>
    BY DEF ReleaseRead, ReleaseWrite, Leases!ReleaseRead, Leases!ReleaseWrite, IInv, ShapeInv
  <1>2. CASE ReleaseRead(m)
    <2> DEFINE c == [calls[m] EXCEPT !.ending = "handled"]
    <2>1. /\ calls[m].ending = "posted" /\ calls' = [calls EXCEPT ![m] = c]
          /\ status[m] # "none" /\ release' = [release EXCEPT ![m] = status[m]]
          /\ UNCHANGED <<status, left>>
      BY <1>2 DEF ReleaseRead, Leases!ReleaseRead, IInv, ShapeInv
    <2>2. calls[m].launch # 0 /\ DOMAIN calls = Messages /\ DOMAIN calls[m] = CallFields
      BY <2>1, CallOfLaunch DEF IInv, ShapeInv
    <2>3. /\ DOMAIN c = CallFields /\ c.launch = calls[m].launch /\ c.ending = "handled"
          /\ c.stage = calls[m].stage /\ c.answer = calls[m].answer /\ c.due = calls[m].due
      BY <2>2, FieldsOfCall
    <2> HIDE DEF c
    <2>4. k[m] = c /\ \A n \in Messages \ {m} : k[n] = calls[n]
      BY <2>1, <2>2
    <2>5. DOMAIN release = Messages
      BY DEF IInv, LeaseShapeInv
    <2>6. release'[m] = status[m] /\ \A n \in Messages \ {m} : release'[n] = release[n]
      BY <2>1, <2>5
    <2>7. LeaseShapeInv'
      <3>1. release' = [n \in Messages |-> release'[n]]
        BY <2>1, <2>5
      <3> QED  BY <1>1, <2>1, <3>1 DEF IInv, LeaseShapeInv
    <2>8. CallsInv'
      <3>1. ASSUME NEW n \in Messages, k[n].launch = 0
            PROVE  k[n] = NoCall /\ status[n] = "none" /\ ~heartbeat[n].busy /\ release'[n] = "none"
        <4>1. n # m /\ k[n] = calls[n] /\ release'[n] = release[n]
          BY <2>2, <2>3, <2>4, <2>6, <3>1
        <4> QED  BY <3>1, <4>1 DEF IInv, CallsInv
      <3>2. \A n \in Messages : release'[n] # "none" => k[n].ending \in {"handled", "over"}
        BY <2>3, <2>4, <2>6 DEF IInv, CallsInv
      <3>3. status' = status /\ heartbeat' = heartbeat
        BY <1>1, <2>1
      <3> QED  BY <3>1, <3>2, <3>3 DEF CallsInv
    <2>9. \A n \in Messages : Timed(calls[n], n) =>
                Worth(k[n], status'[n], left'[n], faults', heartbeat'[n].busy)
      BY <1>1, <2>1, <2>3, <2>4 DEF Timed, Worth
    <2>10. k = [n \in Messages |-> k[n]]
      BY <2>1, <2>2
    <2>11. \A n \in Messages : DOMAIN k[n] = CallFields /\ Follows(calls[n], k[n])
      BY <2>1, <2>3, <2>4 DEF Follows, IInv, ShapeInv
    <2>12. UNCHANGED daemonVars
      BY <1>1
    <2> HIDE DEF k
    <2>13. k = calls'
      BY DEF k
    <2> QED  BY <1>1, <2>7, <2>8, <2>9, <2>10, <2>11, <2>12, <2>13, LeaseStep
  <1>3. CASE ReleaseWrite(m)
    <2> DEFINE st == IF release[m] \in Leases!Terminal THEN status
                     ELSE [status EXCEPT ![m] = IF calls[m].outcome = "crashed" THEN "failed" ELSE "released"]
    <2>1. /\ release[m] # "none" /\ release' = [release EXCEPT ![m] = "none"]
          /\ Leases!Reconcile(st, order) /\ calls' = calls
      BY <1>3 DEF ReleaseWrite, Leases!ReleaseWrite
    <2>2. st = [n \in Messages |-> st[n]]
      BY DEF IInv, LeaseShapeInv
    <2>3. \A n \in Messages \ {m} : st[n] = status[n]
      BY DEF IInv, LeaseShapeInv
    <2> HIDE DEF st
    <2>4. calls[m].ending \in {"handled", "over"} /\ calls[m].launch # 0 /\ DOMAIN release = Messages
      BY <2>1 DEF IInv, CallsInv, LeaseShapeInv
    <2>5. release'[m] = "none" /\ \A n \in Messages \ {m} : release'[n] = release[n]
      BY <2>1, <2>4
    <2>6. \A n \in Messages : st[n] = "none" => status'[n] = "none"
      BY <2>1, <2>2, ReconcileFacts
    <2>7. LeaseShapeInv'
      <3>1. status' = [n \in Messages |-> status'[n]] /\ left' \in [Messages -> Nat]
        BY <2>1, <2>2, ReconcileFacts
      <3>2. release' = [n \in Messages |-> release'[n]]
        BY <2>1, <2>4
      <3> QED  BY <1>1, <3>1, <3>2 DEF IInv, LeaseShapeInv
    <2>8. CallsInv'
      <3>1. ASSUME NEW n \in Messages, calls[n].launch = 0
            PROVE  calls[n] = NoCall /\ status'[n] = "none" /\ ~heartbeat[n].busy /\ release'[n] = "none"
        <4>1. n # m /\ release'[n] = release[n] /\ st[n] = status[n]
          BY <2>3, <2>4, <2>5, <3>1
        <4>2. calls[n] = NoCall /\ status[n] = "none" /\ ~heartbeat[n].busy /\ release[n] = "none"
          BY <3>1 DEF IInv, CallsInv
        <4> QED  BY <2>6, <4>1, <4>2
      <3>2. \A n \in Messages : release'[n] # "none" => calls[n].ending \in {"handled", "over"}
        BY <2>5 DEF IInv, CallsInv
      <3>3. calls' = calls /\ heartbeat' = heartbeat
        BY <1>1, <2>1
      <3> QED  BY <3>1, <3>2, <3>3 DEF CallsInv
    <2>9. ASSUME NEW n \in Messages, calls[n].ending = "none", Timed(calls[n], n)
          PROVE  Worth(k[n], status'[n], left'[n], faults', heartbeat'[n].busy)
      <3>1. st[n] = status[n] /\ k[n] = calls[n]
        BY <2>1, <2>3, <2>4, <2>9
      <3>2. UNCHANGED <<heartbeat, faults>>
        BY <1>1
      <3> QED  BY <2>1, <2>2, <2>9, <3>1, <3>2, ReconcileWorth
    <2>10. k = [n \in Messages |-> k[n]]
      BY <2>1 DEF IInv, ShapeInv
    <2>11. \A n \in Messages : DOMAIN k[n] = CallFields /\ Follows(calls[n], k[n])
      BY <2>1 DEF Follows, IInv, ShapeInv
    <2>12. UNCHANGED daemonVars
      BY <1>1
    <2>13. k = calls'
      OBVIOUS
    <2> HIDE DEF k
    <2> QED  BY <1>1, <2>7, <2>8, <2>9, <2>10, <2>11, <2>12, <2>13, LeaseStep
  <1> QED  BY <1>2, <1>3

\* A heartbeat that is sent, lost or written keeps the invariant.
LEMMA HeartbeatSteps ==
    ASSUME IInv, Sheltered, NEW m \in Messages, HeartbeatSent(m) \/ HeartbeatLost(m) \/ HeartbeatWrite(m)
    PROVE  IInv'
  <1> DEFINE k == calls'
             c == [calls[m] EXCEPT !.due = FALSE]
  <1>1. /\ DOMAIN calls = Messages /\ DOMAIN calls[m] = CallFields
        /\ DOMAIN heartbeat = Messages /\ DOMAIN left = Messages
    BY DEF IInv, ShapeInv, LeaseShapeInv
  <1>2. LeaseTicks \in Nat /\ faults \in Nat /\ \A n \in Messages : left[n] \in Nat
    BY ConstantFacts DEF IInv, ShapeInv, LeaseShapeInv
  <1>3. /\ DOMAIN c = CallFields /\ c.launch = calls[m].launch /\ c.ending = calls[m].ending
        /\ c.stage = calls[m].stage /\ c.answer = calls[m].answer /\ c.due = FALSE
    BY <1>1, FieldsOfCall
  <1> HIDE DEF c
  <1>4. calls[m].due \/ heartbeat[m].busy => calls[m].launch # 0
    BY DEF IInv, CallsInv, NoCall
  <1>5. ASSUME HeartbeatSent(m) \/ HeartbeatLost(m)
        PROVE  /\ calls[m].due /\ k[m] = c /\ \A n \in Messages \ {m} : k[n] = calls[n]
               /\ k = [n \in Messages |-> k[n]]
    <2>1. calls[m].due /\ calls' = [calls EXCEPT ![m] = c]
      BY <1>5 DEF HeartbeatSent, HeartbeatLost, c
    <2> QED  BY <1>1, <2>1
  <1>6. CASE HeartbeatSent(m)
    <2>1. /\ heartbeat' = [heartbeat EXCEPT ![m] = [busy |-> TRUE, left |-> LeaseTicks]]
          /\ status' = status /\ left' = left /\ release' = release
          /\ UNCHANGED <<daemonVars, faults>>
      BY <1>6 DEF HeartbeatSent, Leases!HeartbeatRead
    <2>2. /\ heartbeat'[m] = [busy |-> TRUE, left |-> LeaseTicks]
          /\ \A n \in Messages \ {m} : heartbeat'[n] = heartbeat[n]
      BY <1>1, <2>1
    <2>3. LeaseShapeInv'
      <3>1. heartbeat' = [n \in Messages |-> heartbeat'[n]]
        BY <1>1, <2>1
      <3>2. \A n \in Messages : DOMAIN heartbeat'[n] = {"busy", "left"} /\ heartbeat'[n].left \in Nat
                                /\ (heartbeat'[n].busy => heartbeat'[n].left = LeaseTicks)
        BY <1>2, <2>2 DEF IInv, LeaseShapeInv
      <3> QED  BY <2>1, <3>1, <3>2 DEF IInv, LeaseShapeInv
    <2>4. CallsInv'
      <3>1. ASSUME NEW n \in Messages, k[n].launch = 0
            PROVE  k[n] = NoCall /\ status[n] = "none" /\ ~heartbeat'[n].busy /\ release[n] = "none"
        <4>1. n # m /\ k[n] = calls[n] /\ heartbeat'[n] = heartbeat[n]
          BY <1>3, <1>4, <1>5, <1>6, <2>2, <3>1
        <4> QED  BY <3>1, <4>1 DEF IInv, CallsInv
      <3>2. \A n \in Messages : release[n] # "none" => k[n].ending \in {"handled", "over"}
        BY <1>3, <1>5, <1>6 DEF IInv, CallsInv
      <3> QED  BY <2>1, <3>1, <3>2 DEF CallsInv
    <2>5. ASSUME NEW n \in Messages, Timed(calls[n], n)
          PROVE  Worth(k[n], status'[n], left'[n], faults', heartbeat'[n].busy)
      <3>1. CASE n = m
        <4>1. heartbeat'[n].busy = TRUE /\ k[n] = c /\ faults' = faults
          BY <1>5, <1>6, <2>1, <2>2, <3>1
        <4> QED  BY <1>2, <1>3, <2>1, <2>5, <3>1, <4>1 DEF Timed, Worth
      <3>2. CASE n # m
        <4>1. heartbeat'[n] = heartbeat[n] /\ k[n] = calls[n] /\ faults' = faults
          BY <1>5, <1>6, <2>1, <2>2, <3>2
        <4> QED  BY <2>1, <2>5, <4>1 DEF Timed
      <3> QED  BY <3>1, <3>2
    <2>6. \A n \in Messages : DOMAIN k[n] = CallFields /\ Follows(calls[n], k[n])
      BY <1>3, <1>5, <1>6 DEF Follows, IInv, ShapeInv
    <2>7. faults' \in 0 .. MaxFaults /\ UNCHANGED daemonVars /\ k = calls'
      BY <2>1 DEF IInv, ShapeInv
    <2>8. k = [n \in Messages |-> k[n]]
      BY <1>5, <1>6
    <2> HIDE DEF k
    <2> QED  BY <2>3, <2>4, <2>5, <2>6, <2>7, <2>8, LeaseStep
  <1>7. CASE HeartbeatLost(m)
    <2>1. /\ status' = status /\ left' = left /\ heartbeat' = heartbeat /\ release' = release
          /\ UNCHANGED daemonVars
      BY <1>7 DEF HeartbeatLost, leaseVars
    <2>2. /\ faults' \in 0 .. MaxFaults /\ faults' \in Nat /\ faults <= faults'
          /\ calls[m].launch \in tokens /\ status[m] = "active" /\ left[m] > 0 => faults' = faults + 1
      BY <1>7, ConstantFacts DEF HeartbeatLost, Fault, IInv, ShapeInv
    <2>3. LeaseShapeInv'
      BY <2>1 DEF IInv, LeaseShapeInv
    <2>4. CallsInv'
      <3>1. ASSUME NEW n \in Messages, k[n].launch = 0
            PROVE  k[n] = NoCall /\ status[n] = "none" /\ ~heartbeat[n].busy /\ release[n] = "none"
        <4>1. n # m /\ k[n] = calls[n]
          BY <1>3, <1>4, <1>5, <1>7, <3>1
        <4> QED  BY <3>1, <4>1 DEF IInv, CallsInv
      <3>2. \A n \in Messages : release[n] # "none" => k[n].ending \in {"handled", "over"}
        BY <1>3, <1>5, <1>7 DEF IInv, CallsInv
      <3> QED  BY <2>1, <3>1, <3>2 DEF CallsInv
    <2>5. ASSUME NEW n \in Messages, current # 0, InFlight(calls[n], current), Timed(calls[n], n)
          PROVE  Worth(k[n], status'[n], left'[n], faults', heartbeat'[n].busy)
      <3>1. CASE n = m /\ calls[m].stage = "child"
        <4>1. status[m] = "active" /\ left[m] > 0
          BY <2>5, <3>1, TimedOwner
        <4>2. calls[m].launch \in tokens
          BY <2>5, <3>1 DEF InFlight, IInv, MapInv
        <4>3. faults' = faults + 1 /\ k[n] = c
          BY <1>5, <1>7, <2>2, <3>1, <4>1, <4>2
        <4> QED  BY <1>2, <1>3, <2>1, <2>5, <3>1, <4>1, <4>3 DEF Timed, Worth
      <3>2. CASE n = m /\ calls[m].stage # "child"
        <4>1. k[n] = c
          BY <1>5, <1>7, <3>2
        <4> QED  BY <1>3, <2>1, <2>5, <3>2, <4>1 DEF Timed, Worth
      <3>3. CASE n # m
        <4>1. k[n] = calls[n] /\ left[n] \in Nat
          BY <1>2, <1>5, <1>7, <3>3
        <4> QED  BY <1>2, <2>1, <2>2, <2>5, <4>1 DEF Timed, Worth
      <3> QED  BY <3>1, <3>2, <3>3
    <2>6. \A n \in Messages : DOMAIN k[n] = CallFields /\ Follows(calls[n], k[n])
      BY <1>3, <1>5, <1>7 DEF Follows, IInv, ShapeInv
    <2>7. UNCHANGED daemonVars /\ k = calls'
      BY <2>1
    <2>8. k = [n \in Messages |-> k[n]]
      BY <1>5, <1>7
    <2> HIDE DEF k
    <2> QED  BY <2>2, <2>3, <2>4, <2>5, <2>6, <2>7, <2>8, LeaseStep
  <1>8. CASE HeartbeatWrite(m)
    <2>1. /\ heartbeat[m].busy
          /\ left' = [left EXCEPT ![m] = heartbeat[m].left]
          /\ heartbeat' = [heartbeat EXCEPT ![m] = [busy |-> FALSE, left |-> 0]]
          /\ status' = status /\ release' = release /\ calls' = calls
          /\ UNCHANGED <<daemonVars, faults>>
      BY <1>8 DEF HeartbeatWrite, Leases!HeartbeatWrite
    <2>2. heartbeat[m].left = LeaseTicks
      BY <2>1 DEF IInv, LeaseShapeInv
    <2>3. /\ left'[m] = LeaseTicks /\ heartbeat'[m] = [busy |-> FALSE, left |-> 0]
          /\ \A n \in Messages \ {m} : left'[n] = left[n] /\ heartbeat'[n] = heartbeat[n]
      BY <1>1, <2>1, <2>2
    <2>4. LeaseShapeInv'
      <3>1. heartbeat' = [n \in Messages |-> heartbeat'[n]]
        BY <1>1, <2>1
      <3>2. left' \in [Messages -> Nat]
        BY <1>2, <2>1, <2>2 DEF IInv, LeaseShapeInv
      <3>3. \A n \in Messages : DOMAIN heartbeat'[n] = {"busy", "left"} /\ heartbeat'[n].left \in Nat
                                /\ (heartbeat'[n].busy => heartbeat'[n].left = LeaseTicks)
        BY <2>3 DEF IInv, LeaseShapeInv
      <3> QED  BY <2>1, <3>1, <3>2, <3>3 DEF IInv, LeaseShapeInv
    <2>5. CallsInv'
      <3>1. \A n \in Messages : ~heartbeat[n].busy => ~heartbeat'[n].busy
        BY <2>3
      <3> QED  BY <2>1, <3>1 DEF IInv, CallsInv
    <2>6. ASSUME NEW n \in Messages, Timed(calls[n], n)
          PROVE  Worth(k[n], status'[n], left'[n], faults', heartbeat'[n].busy)
      <3>1. faults' = faults /\ k[n] = calls[n] /\ status' = status
        BY <2>1
      <3>2. CASE n = m
        <4>1. left'[n] = LeaseTicks /\ heartbeat'[n].busy = FALSE
          BY <2>3, <3>2
        <4> QED  BY <1>2, <2>6, <3>1, <4>1 DEF Timed, Worth
      <3>3. CASE n # m
        BY <2>3, <2>6, <3>1, <3>3 DEF Timed, Worth
      <3> QED  BY <3>2, <3>3
    <2>7. \A n \in Messages : DOMAIN k[n] = CallFields /\ Follows(calls[n], k[n])
      BY <2>1 DEF Follows, IInv, ShapeInv
    <2>8. faults' \in 0 .. MaxFaults /\ UNCHANGED daemonVars /\ k = calls'
      BY <2>1 DEF IInv, ShapeInv
    <2>9. k = [n \in Messages |-> k[n]]
      BY <2>1 DEF IInv, ShapeInv
    <2> HIDE DEF k
    <2> QED  BY <2>4, <2>5, <2>6, <2>7, <2>8, <2>9, LeaseStep
  <1> QED  BY <1>6, <1>7, <1>8

\* Time passing keeps the invariant: the heartbeats that fail cost less than a lease.
LEMMA TickStep ==
    ASSUME IInv, Tick
    PROVE  IInv'
  <1> DEFINE k == calls'
             rings(m) == \E g \in Launches : drivers[g].beat = m
  <1>1. /\ \A m \in Messages : ~calls[m].due /\ ~heartbeat[m].busy /\ ~Overdue(m)
        /\ left' = [m \in Messages |-> Leases!Minus(left[m], 1)]
        /\ heartbeat' = [m \in Messages |-> [heartbeat[m] EXCEPT !.left = Leases!Minus(@, 1)]]
        /\ status' = status /\ release' = release
        /\ calls' = [m \in Messages |-> [calls[m] EXCEPT !.due = rings(m)]]
        /\ UNCHANGED <<daemonVars, faults>>
    BY DEF Tick, Leases!Tick
  <1> HIDE DEF rings
  <1>2. LeaseTicks \in Nat \ {0} /\ faults \in Nat /\ \A m \in Messages : left[m] \in Nat
    BY ConstantFacts DEF IInv, ShapeInv, LeaseShapeInv
  <1>3. ASSUME NEW m \in Messages
        PROVE  /\ DOMAIN k[m] = CallFields /\ k[m].launch = calls[m].launch
               /\ k[m].ending = calls[m].ending /\ k[m].stage = calls[m].stage
               /\ k[m].answer = calls[m].answer /\ k[m].due = rings(m)
    <2>1. DOMAIN calls[m] = CallFields
      BY DEF IInv, ShapeInv
    <2>2. k[m] = [calls[m] EXCEPT !.due = rings(m)]
      BY <1>1
    <2> QED  BY <2>1, <2>2, FieldsOfCall
  <1>4. ASSUME NEW m \in Messages
        PROVE  /\ left'[m] \in Nat /\ left'[m] >= left[m] - 1
               /\ DOMAIN heartbeat'[m] = {"busy", "left"} /\ heartbeat'[m].left \in Nat
               /\ heartbeat'[m].busy = heartbeat[m].busy
    <2>1. DOMAIN heartbeat[m] = {"busy", "left"} /\ heartbeat[m].left \in Nat
      BY DEF IInv, LeaseShapeInv
    <2>2. /\ left'[m] = IF left[m] > 1 THEN left[m] - 1 ELSE 0
          /\ heartbeat'[m] = [heartbeat[m] EXCEPT !.left = IF @ > 1 THEN @ - 1 ELSE 0]
      BY <1>1 DEF Leases!Minus
    <2> QED  BY <1>2, <2>1, <2>2
  <1>5. LeaseShapeInv'
    <2>1. left' \in [Messages -> Nat]
      BY <1>1, <1>4
    <2>2. heartbeat' = [m \in Messages |-> heartbeat'[m]]
      BY <1>1
    <2>3. \A m \in Messages : ~heartbeat'[m].busy
      BY <1>1, <1>4
    <2> QED  BY <1>1, <1>4, <2>1, <2>2, <2>3 DEF IInv, LeaseShapeInv
  <1>6. CallsInv'
    <2>1. ASSUME NEW m \in Messages, calls[m].launch = 0 PROVE k[m] = NoCall /\ status[m] = "none" /\ release[m] = "none"
      <3>1. calls[m] = NoCall /\ status[m] = "none" /\ release[m] = "none"
        BY <2>1 DEF IInv, CallsInv
      <3>2. rings(m) = FALSE
        <4>1. ASSUME NEW g \in Launches, drivers[g].beat = m PROVE FALSE
          <5>1. calls[m].launch = g
            BY <4>1 DEF IInv, LaunchesInv, Owns
          <5> QED  BY <2>1, <5>1, ConstantFacts
        <4> QED  BY <4>1 DEF rings
      <3>3. k[m] = [calls[m] EXCEPT !.due = rings(m)]
        BY <1>1
      <3>4. [NoCall EXCEPT !.due = FALSE] = NoCall
        <4>1. NoCall = [x \in {"launch", "stage", "answer", "due", "ending", "outcome"} |-> NoCall[x]]
          BY DEF NoCall
        <4>2. NoCall["due"] = FALSE
          BY DEF NoCall
        <4> QED  BY <4>1, <4>2
      <3> QED  BY <3>1, <3>2, <3>3, <3>4
    <2>2. \A m \in Messages : release[m] # "none" => k[m].ending \in {"handled", "over"}
      BY <1>3 DEF IInv, CallsInv
    <2>3. \A m \in Messages : ~heartbeat'[m].busy
      BY <1>1, <1>4
    <2>4. \A m \in Messages : k[m].launch = 0 => k[m] = NoCall /\ status[m] = "none" /\ release[m] = "none"
      BY <1>3, <2>1
    <2> QED  BY <1>1, <2>2, <2>3, <2>4 DEF CallsInv
  <1>7. ASSUME NEW m \in Messages, current # 0, InFlight(calls[m], current), Timed(calls[m], m)
        PROVE  Worth(k[m], status'[m], left'[m], faults', heartbeat'[m].busy)
    <2>1. Worth(calls[m], status[m], left[m], faults, heartbeat[m].busy) /\ ~calls[m].due /\ ~heartbeat[m].busy
      BY <1>1, <1>7 DEF Timed
    <2>2. status' = status /\ faults' = faults
      BY <1>1
    <2>3. left[m] \in Nat /\ left'[m] \in Nat /\ left'[m] >= left[m] - 1
      BY <1>2, <1>4
    <2>4. CASE calls[m].stage = "child"
      <3>1. current \in Launches /\ drivers[current].beat = m
        BY <1>7, <2>4, ConstantFacts DEF InFlight, IInv, MapInv, Serial, ShapeInv
      <3>2. rings(m) = TRUE
        BY <3>1 DEF rings
      <3>3. k[m].due = TRUE /\ k[m].stage = "child"
        BY <1>3, <2>4, <3>2
      <3>4. status[m] = "active" /\ left[m] + faults >= LeaseTicks - 1
        <4>1. /\ status[m] = "active"
              /\ left[m] + faults + (IF calls[m].due \/ heartbeat[m].busy THEN 1 ELSE 0) >= LeaseTicks - 1
          BY <2>1, <2>4 DEF Worth
        <4>2. (IF calls[m].due \/ heartbeat[m].busy THEN 1 ELSE 0) = 0
          BY <2>1
        <4> QED  BY <1>2, <2>3, <4>1, <4>2
      <3>5. left'[m] + faults + 1 >= LeaseTicks - 1
        BY <1>2, <2>3, <3>4
      <3> QED  BY <2>2, <3>3, <3>4, <3>5 DEF Worth
    <2>5. CASE calls[m].stage \in {"asking", "answered", "sleeping"}
      <3>1. status[m] = "active" => left[m] >= LeaseTicks
        <4>1. ~Overdue(m) /\ calls[m].launch = current
          BY <1>1, <1>7 DEF InFlight
        <4> QED  BY <1>2, <2>3, <2>5, <4>1 DEF Overdue
      <3>2. k[m].stage = calls[m].stage /\ k[m].answer = calls[m].answer
        BY <1>3
      <3> QED  BY <1>2, <2>1, <2>2, <2>3, <2>5, <3>1, <3>2 DEF Worth
    <2>6. CASE calls[m].stage \notin {"asking", "answered", "sleeping", "child"}
      BY <1>3, <2>6 DEF Worth
    <2> QED  BY <2>4, <2>5, <2>6
  <1>8. \A m \in Messages : DOMAIN k[m] = CallFields /\ Follows(calls[m], k[m])
    BY <1>3 DEF Follows
  <1>9. faults' \in 0 .. MaxFaults /\ UNCHANGED daemonVars /\ k = calls'
    BY <1>1 DEF IInv, ShapeInv
  <1>10. k = [m \in Messages |-> k[m]]
    BY <1>1
  <1> HIDE DEF k
  <1> QED  BY <1>5, <1>6, <1>7, <1>8, <1>9, <1>10, LeaseStep

---------------------------------------------------------------------------
\* The invariant holds initially.
LEMMA InitInv == Init => IInv
  <1> SUFFICES ASSUME Init PROVE IInv
    OBVIOUS
  <1>1. /\ records = [g \in Launches |-> Launched] /\ drivers = [g \in Launches |-> NewDriver]
        /\ calls = [m \in Messages |-> NoCall] /\ current = 0 /\ launches = 0
        /\ received = 0 /\ faults = 0
        /\ status = [m \in Messages |-> "none"] /\ left = [m \in Messages |-> 0]
        /\ heartbeat = [m \in Messages |-> [busy |-> FALSE, left |-> 0]]
        /\ release = [m \in Messages |-> "none"]
    BY DEF Init, Leases!Init
  <1>2. QueuesSound(Launched) /\ WaitingIn(Launched) = {}
    BY FieldsOfRecord DEF QueuesSound, WaitingIn, Distinct, Elements, Launched, RecordFields
  <1>3. /\ \A g \in Launches : records[g] = Launched /\ drivers[g] = NewDriver
        /\ \A m \in Messages : calls[m] = NoCall
    BY <1>1
  <1>4. NoCall.launch = 0 /\ DOMAIN NoCall = CallFields /\ DOMAIN NewDriver = DriverFields
    BY DEF NoCall, CallFields, DriverFields
  <1>5. ShapeInv
    BY <1>1, <1>2, <1>3, <1>4, ConstantFacts DEF ShapeInv
  <1>6. LeaseShapeInv
    BY <1>1 DEF LeaseShapeInv
  <1>7. WaitingInv
    BY <1>2, <1>3, <1>4 DEF WaitingInv
  <1>8. CallsInv
    BY <1>1, <1>3 DEF CallsInv
  <1>9. LaunchesInv
    <2>1. \A g \in Launches : Owns(NewDriver, calls, g)
      BY ConstantFacts DEF Owns, NewDriver
    <2> QED  BY <1>3, <2>1 DEF LaunchesInv
  <1>10. MapInv
    BY <1>1 DEF MapInv
  <1> QED  BY <1>5, <1>6, <1>7, <1>8, <1>9, <1>10 DEF IInv

\* A step that changes nothing keeps the invariant.
LEMMA StutterInv ==
    ASSUME IInv, UNCHANGED vars
    PROVE  IInv'
  <1>1. /\ records' = records /\ drivers' = drivers /\ calls' = calls /\ current' = current
        /\ launches' = launches /\ tokens' = tokens /\ received' = received /\ faults' = faults
        /\ status' = status /\ left' = left /\ heartbeat' = heartbeat /\ release' = release
    BY DEF vars, daemonVars, leaseVars
  <1>2. ShapeInv'
    <2>1. \A g \in Launches : QueuesSound(records'[g])
      BY <1>1 DEF IInv, ShapeInv
    <2>2. \A g \in Launches : QueuesSound(records[g])'
      BY <2>1 DEF QueuesSound, Distinct, Elements
    <2> QED  BY <1>1, <2>2 DEF IInv, ShapeInv
  <1>3. WaitingInv'
    <2>1. /\ \A g, h \in Launches : \A m \in Messages :
                m \in WaitingIn(records'[g]) /\ m \in WaitingIn(records'[h]) => g = h
          /\ \A g \in Launches : \A m \in WaitingIn(records'[g]) : calls'[m].launch = 0 /\ m <= received'
          /\ \A m \in Messages : calls'[m].launch # 0 => m <= received'
      BY <1>1 DEF IInv, WaitingInv
    <2> QED  BY <2>1 DEF WaitingInv, WaitingIn, Elements
  <1>4. LeaseShapeInv' /\ CallsInv'
    BY <1>1 DEF IInv, LeaseShapeInv, CallsInv
  <1>5. LaunchesInv'
    BY <1>1 DEF IInv, LaunchesInv, Owns
  <1>6. MapInv'
    BY <1>1 DEF IInv, MapInv, Serial, Timed, Worth, InFlight, Occupied
  <1> QED  BY <1>2, <1>3, <1>4, <1>5, <1>6 DEF IInv

\* Every step keeps the invariant.
LEMMA NextInv ==
    ASSUME IInv, Sheltered, [Next]_vars
    PROVE  IInv'
  <1>1. ASSUME NEW m \in Messages,
               \/ AcquireHandled(m) \/ AcquireDenied(m) \/ AcquireFails(m) \/ Answer(m) \/ Wake(m)
               \/ ChildEvent(m) \/ ChildExit(m) \/ SpawnFails(m)
               \/ HeartbeatSent(m) \/ HeartbeatLost(m) \/ HeartbeatWrite(m)
               \/ ReleaseRead(m) \/ ReleaseWrite(m) \/ ReleaseReturns(m)
        PROVE  IInv'
    BY <1>1, AcquireHandledStep, PromptSteps, ChildSteps, HeartbeatSteps, ReleaseSteps, ReleaseReturnsStep
  <1> QED
    BY <1>1, StartCommandStep, StopCommandStep, ReceiveStep, TickStep, DeliverStep, StutterInv DEF Next

\* RunHoldsLease for every number of messages, launches, places and faults: the child of
\* the runtime in the map works under an active lease, if a lease outlasts the
\* heartbeats that fail.
THEOREM ChildHoldsLease == Sheltered => (Spec => []RunHoldsLease)
  <1> SUFFICES ASSUME Sheltered PROVE Spec => []RunHoldsLease
    OBVIOUS
  <1>1. Init => IInv
    BY InitInv
  <1>2. IInv /\ [Next]_vars => IInv'
    BY NextInv
  <1>3. IInv => RunHoldsLease
    <2> SUFFICES ASSUME IInv, NEW m \in Messages, calls[m].launch = current, calls[m].stage = "child"
                 PROVE  status[m] = "active"
      BY DEF RunHoldsLease
    <2>1. current # 0
      BY CallOfLaunch
    <2>2. InFlight(calls[m], current)
      BY DEF InFlight
    <2>3. Timed(calls[m], m)
      BY <2>1, <2>2 DEF IInv, MapInv, Serial
    <2> QED  BY <2>3 DEF Timed, Worth
  <1> QED
    BY <1>1, <1>2, <1>3, PTL DEF Spec

---------------------------------------------------------------------------
\* The table of leases, with what LlmRunLeasesProofs shows of it.
Table == INSTANCE LlmRunLeasesProofs WITH Runs <- Messages, Abandoned <- {}

\* The constants of the table are what LlmRunLeases takes them for.
LEMMA TableAssumption == Table!LlmRunLeasesAssumption
  <1>1. IsFiniteSet(Messages)
    BY FS_Interval, RuntimeRecordAssumption DEF Messages
  <1>2. \A S : Table!IsFiniteSet(S) <=> IsFiniteSet(S)
    BY DEF IsFiniteSet, Table!IsFiniteSet
  <1> QED
    BY <1>1, <1>2, PiRuntimeAssumption DEF Table!LlmRunLeasesAssumption, PiRuntimeAssumption

\* The instance of LlmRunLeases in PiRuntime is the table.
LEMMA LeasesAreTable ==
    /\ Leases!Init <=> Table!Init
    /\ [Leases!Next]_(Leases!vars) <=> [Table!Next]_(Table!vars)
  <1>1. Leases!Init <=> Table!Init
    BY DEF Leases!Init, Table!Init
  <1>2. \A S : Table!Cardinality(S) = Leases!Cardinality(S)
    BY DEF Table!Cardinality, Leases!Cardinality, Table!IsFiniteSet, Leases!IsFiniteSet
  <1>3. ASSUME NEW st, NEW ord PROVE Leases!Reconcile(st, ord) <=> Table!Reconcile(st, ord)
    <2>1. \A l : Leases!ExpireStale(st, l) = Table!ExpireStale(st, l)
      BY DEF Leases!ExpireStale, Table!ExpireStale
    <2>2. \A s, o : Leases!Promotions(s, o) = Table!Promotions(s, o)
      BY <1>2 DEF Leases!Promotions, Table!Promotions, Leases!WithStatus, Table!WithStatus,
                  Leases!Minus, Table!Minus, Leases!Least, Table!Least
    <2> QED  BY <2>1, <2>2 DEF Leases!Reconcile, Table!Reconcile
  <1>4. ASSUME NEW r
        PROVE  /\ Leases!AcquireNew(r) <=> Table!AcquireNew(r)
               /\ Leases!AcquireAgain(r) <=> Table!AcquireAgain(r)
               /\ Leases!HeartbeatRead(r) <=> Table!HeartbeatRead(r)
               /\ Leases!HeartbeatWrite(r) <=> Table!HeartbeatWrite(r)
               /\ Leases!ReleaseRead(r) <=> Table!ReleaseRead(r)
               /\ \A o : Leases!ReleaseWrite(r, o) <=> Table!ReleaseWrite(r, o)
    BY <1>2, <1>3
       DEF Leases!AcquireNew, Table!AcquireNew, Leases!AcquireAgain, Table!AcquireAgain,
           Leases!HeartbeatRead, Table!HeartbeatRead, Leases!HeartbeatWrite, Table!HeartbeatWrite,
           Leases!ReleaseRead, Table!ReleaseRead, Leases!ReleaseWrite, Table!ReleaseWrite,
           Leases!WithStatus, Table!WithStatus, Leases!Terminal, Table!Terminal
  <1>5. Leases!Tick <=> Table!Tick
    BY DEF Leases!Tick, Table!Tick, Leases!Minus, Table!Minus
  <1>6. Leases!Next <=> Table!Next
    BY <1>4, <1>5 DEF Leases!Next, Table!Next
  <1> QED  BY <1>1, <1>6 DEF Leases!vars, Table!vars

\* Every step of the runtimes is a step of the table or leaves it alone.
LEMMA LeaseSteps == [Next]_vars => [Leases!Next]_(Leases!vars)
  <1> SUFFICES ASSUME [Next]_vars PROVE Leases!Next \/ UNCHANGED leaseVars
    BY DEF Leases!vars, leaseVars
  <1>1. ASSUME NEW m \in Messages,
               \/ AcquireHandled(m) \/ HeartbeatSent(m) \/ HeartbeatWrite(m)
               \/ ReleaseRead(m) \/ ReleaseWrite(m)
        PROVE  Leases!Next
    BY <1>1 DEF AcquireHandled, HeartbeatSent, HeartbeatWrite, ReleaseRead, ReleaseWrite, Leases!Next
  <1>2. CASE Tick
    BY <1>2 DEF Tick, Leases!Next
  <1>3. ASSUME NEW m \in Messages,
               \/ AcquireDenied(m) \/ AcquireFails(m) \/ Answer(m) \/ Wake(m)
               \/ ChildEvent(m) \/ ChildExit(m) \/ SpawnFails(m) \/ HeartbeatLost(m) \/ ReleaseReturns(m)
        PROVE  UNCHANGED leaseVars
    BY <1>3 DEF AcquireDenied, AcquireFails, Answer, Wake, ChildEvent, ChildExit, SpawnFails,
                HeartbeatLost, ReleaseReturns
  <1>4. CASE StartCommand \/ StopCommand \/ Receive \/ (\E g \in Launches : Deliver(g)) \/ UNCHANGED vars
    BY <1>4 DEF StartCommand, StopCommand, Receive, Deliver, vars
  <1> QED  BY <1>1, <1>2, <1>3, <1>4 DEF Next

\* The leases of the runtimes are those of LlmRunLeases: drivers, proxies and timers
\* drive the table only as its own specification allows.
THEOREM LeasesAreKept == Spec => Leases!Spec
  <1>1. Init => Leases!Init
    BY DEF Init
  <1> QED  BY <1>1, LeaseSteps, PTL DEF Spec, Leases!Spec

\* So what is proved of the table holds under the runtimes: it has its types, hands
\* out no more than the capacity and all of it, ends no lease early, revives none that
\* is over and serves in the order of arrival.
THEOREM TableHolds ==
    Spec => /\ [](Table!TypeOK /\ Table!CapacityRespected /\ Table!NoIdleCapacity)
            /\ Table!TerminalStays /\ Table!LeaseIsHonoured /\ Table!OldestFirst
  <1>1. Spec => Table!Spec
    BY LeasesAreKept, LeasesAreTable, PTL DEF Leases!Spec, Table!Spec
  <1>2. /\ Table!Spec => []Table!TypeOK
        /\ Table!Spec => []Table!CapacityRespected
        /\ Table!Spec => []Table!NoIdleCapacity
        /\ Table!Spec => Table!TerminalStays
        /\ Table!Spec => Table!LeaseIsHonoured
        /\ Table!Spec => Table!OldestFirst
    BY TableAssumption, Table!TypeCorrectness, Table!CapacityIsRespected, Table!CapacityIsUsed,
       Table!TerminalsStay, Table!LivingLeasesStay, Table!ServedInOrder, PTL
  <1> QED  BY <1>1, <1>2, PTL
---------------------------------------------------------------------------
Drivers == [started : BOOLEAN, stopping : BOOLEAN, active : BOOLEAN,
            child : Messages \cup {None}, run : Messages \cup {None}, beat : Messages \cup {None}]

\* Everything that waits in r came after m.
Ahead(m, r) == \A k \in ToSet(r.chain) \cup ToSet(r.queue) : m < k

\* A prompt belongs to a launch that has begun.
Begun(k) ==
    \A m \in Messages :
        /\ k[m].launch <= launches
        /\ k[m].stage # "none" \/ k[m].ending # "none" => k[m].launch # 0

\* The run of a driver was prompted.
HasRun(d, k) == d.run \in Messages => k[d.run].launch # 0

\* Every launch goes on in order, and a prompt of the launch in the map is ahead of the
\* messages that wait.
OrderInv ==
    /\ received \in 0 .. MaxMessages /\ launches \in 0 .. MaxLaunches /\ current \in 0 .. launches
    /\ tokens \subseteq Launches
    /\ records = [g \in Launches |-> records[g]] /\ drivers \in [Launches -> Drivers]
    /\ calls \in [Messages -> Calls]
    /\ \A g \in Launches : Orderly(records[g], received)
    /\ \A g \in Launches : launches < g => records[g] = Launched /\ drivers[g] = NewDriver
    /\ Begun(calls) /\ \A g \in Launches : HasRun(drivers[g], calls)
    \* an idle driver in the map has nothing queued
    /\ current # 0 => drivers[current].active \/ records[current].queue = <<>>

\* The faults that have happened are no more than the bound.
FaultsInv == faults \in 0 .. MaxFaults

Prompted(g, m) == calls[m].launch = g

AllProceed ==
    \A g \in Launches :
        /\ Proceeds(records[g], records'[g], received')
        /\ current = g => \A m \in Messages : ~Prompted(g, m) /\ Prompted(g, m)' => Ahead(m, records'[g])

\* What a handler of launch g has made of its context before it prompts anything ...
Kept(x, g) ==
    /\ DOMAIN x = {"record", "driver", "calls", "open", "exited"}
    /\ Proceeds(records[g], x.record, received)
    /\ x.driver \in Drivers /\ x.calls \in [Messages -> Calls] /\ x.exited \in BOOLEAN
    /\ Begun(x.calls) /\ HasRun(x.driver, x.calls)
    /\ \A m \in Messages : x.calls[m].launch = calls[m].launch

\* ... and what it leaves.
Leaves(x, g) ==
    /\ DOMAIN x = {"record", "driver", "calls", "open", "exited"}
    /\ Proceeds(records[g], x.record, received)
    /\ x.driver \in Drivers /\ x.calls \in [Messages -> Calls] /\ x.exited \in BOOLEAN
    /\ Begun(x.calls) /\ HasRun(x.driver, x.calls)
    /\ \A m \in Messages : x.calls[m].launch \in {calls[m].launch, g}
    /\ g = current => \A m \in Messages : calls[m].launch # g /\ x.calls[m].launch = g => Ahead(m, x.record)
    /\ g = current /\ ~x.exited => x.driver.active \/ x.record.queue = <<>>

Idle(x) == x.driver.active \/ x.record.queue = <<>>

---------------------------------------------------------------------------
\* A handler that prompts nothing leaves its launch in order.
LEMMA KeptLeaves ==
    ASSUME NEW g, NEW x, Kept(x, g), g = current /\ ~x.exited => Idle(x)
    PROVE  Leaves(x, g)
  BY DEF Kept, Leaves, Idle

\* A prompt that is prepared is ahead of those that wait.
LEMMA PrepareLeaves ==
    ASSUME OrderInv, NEW g \in Launches, g <= launches, NEW x, Kept(x, g), NEW m \in Messages,
           g = current => Ahead(m, x.record)
    PROVE  Leaves(Prepare(x, g, m), g) /\ Prepare(x, g, m).exited = x.exited
  <1> DEFINE y == Prepare(x, g, m)
             d == [x.driver EXCEPT !.active = TRUE, !.run = m]
             c == [x.calls[m] EXCEPT !.launch = g, !.stage = IF x.open THEN "asking" ELSE "denied"]
  <1>1. /\ x.driver \in Drivers /\ x.calls \in [Messages -> Calls] /\ g \in Nat \ {0} /\ g \in 0 .. MaxLaunches
    BY ConstantFacts DEF Kept
  <1>2. /\ DOMAIN y = {"record", "driver", "calls", "open", "exited"}
        /\ y.record = x.record /\ y.exited = x.exited /\ y.driver = d /\ y.calls = [x.calls EXCEPT ![m] = c]
    BY <1>1 DEF Kept, Prepare, Ask, Calls
  <1>3. d \in Drivers /\ d.active = TRUE /\ d.run = m
    BY <1>1 DEF Drivers
  <1>4. c \in Calls /\ c.launch = g
    BY <1>1 DEF Calls
  <1> HIDE DEF y, d, c
  <1>5. /\ y.calls \in [Messages -> Calls] /\ y.calls[m] = c
        /\ \A n \in Messages \ {m} : y.calls[n] = x.calls[n]
    BY <1>1, <1>2, <1>4
  <1>6. Begun(y.calls) /\ HasRun(y.driver, y.calls)
    BY <1>1, <1>2, <1>3, <1>4, <1>5 DEF Kept, Begun, HasRun
  <1>7. /\ \A n \in Messages : y.calls[n].launch \in {calls[n].launch, g}
        /\ \A n \in Messages : calls[n].launch # g /\ y.calls[n].launch = g => n = m
    BY <1>4, <1>5 DEF Kept
  <1>8. Leaves(y, g)
    BY <1>2, <1>3, <1>5, <1>6, <1>7 DEF Kept, Leaves
  <1> QED  BY <1>2, <1>8 DEF y

\* The end of a turn, with the prompt it takes from the queue, leaves its launch in order.
LEMMA SettleLeaves ==
    ASSUME OrderInv, NEW g \in Launches, g <= launches, NEW x, Kept(x, g), NEW outcome
    PROVE  Leaves(Settle(x, g, outcome), g)
  <1> DEFINE d == [x.driver EXCEPT !.active = FALSE]
             idle == [x EXCEPT !.driver.active = FALSE]
             exit == [idle EXCEPT !.record = OnExit(@, outcome = "stopped"), !.exited = TRUE]
             next == [idle EXCEPT !.record.queue = Tail(@)]
             rest == [x.record EXCEPT !.queue = Tail(@)]
  <1>1. /\ idle.record = x.record /\ idle.driver = d /\ idle.calls = x.calls /\ idle.exited = x.exited
        /\ DOMAIN idle = {"record", "driver", "calls", "open", "exited"}
    BY DEF Kept
  <1>2. d \in Drivers /\ HasRun(d, x.calls)
    BY DEF Kept, Drivers, HasRun
  <1>3. Kept(idle, g)
    BY <1>1, <1>2 DEF Kept
  <1>4. /\ exit.record = OnExit(x.record, outcome = "stopped") /\ exit.driver = d /\ exit.calls = x.calls
        /\ exit.exited = TRUE /\ DOMAIN exit = {"record", "driver", "calls", "open", "exited"}
    BY <1>1
  <1>5. /\ next.record = rest /\ next.driver = d /\ next.calls = x.calls /\ next.exited = x.exited
        /\ DOMAIN next = {"record", "driver", "calls", "open", "exited"}
    BY <1>1
  <1>6. Settle(x, g, outcome) =
            IF outcome # "done" THEN exit
            ELSE IF x.record.queue # <<>> THEN Prepare(next, g, Head(x.record.queue)) ELSE idle
    BY DEF Settle
  <1> HIDE DEF d, idle, exit, next, rest
  <1>7. Orderly(x.record, received)
    BY DEF Kept, Proceeds
  <1>8. Leaves(exit, g)
    <2>1. Proceeds(x.record, exit.record, received)
      BY <1>4, <1>7, EventSteps
    <2>2. Proceeds(records[g], exit.record, received)
      BY <2>1, StepsCompose DEF Kept
    <2>3. Kept(exit, g)
      BY <1>2, <1>4, <2>2 DEF Kept
    <2> QED  BY <1>4, <2>3, KeptLeaves
  <1>9. ASSUME x.record.queue # <<>> PROVE Leaves(Prepare(next, g, Head(x.record.queue)), g)
    <2>1. /\ Proceeds(x.record, rest, received) /\ Head(x.record.queue) \in Messages
          /\ Ahead(Head(x.record.queue), rest)
      BY <1>7, <1>9, DequeueStep DEF rest, Ahead
    <2>2. Proceeds(records[g], rest, received)
      BY <2>1, StepsCompose DEF Kept
    <2>3. Kept(next, g)
      BY <1>2, <1>5, <2>2 DEF Kept
    <2> QED  BY <1>5, <2>1, <2>3, PrepareLeaves
  <1>10. ASSUME x.record.queue = <<>> PROVE Leaves(idle, g)
    BY <1>1, <1>3, <1>10, KeptLeaves DEF Idle
  <1> QED  BY <1>6, <1>8, <1>9, <1>10

\* So does the end of a turn or of the runtime, whichever a child's exit means.
LEMMA FinishLeaves ==
    ASSUME OrderInv, NEW g \in Launches, g <= launches, NEW x, Kept(x, g), g = current => Idle(x),
           NEW outcome \in {"done", "crashed", "stopped"}
    PROVE  Leaves(Finish(x, g, outcome), g)
  <1> DEFINE run == x.driver.run
             d == [x.driver EXCEPT !.run = None, !.beat = None]
             quiet == [x EXCEPT !.driver.run = None, !.driver.beat = None]
             c == [x.calls[run] EXCEPT !.ending = IF x.open THEN "posted" ELSE "denied", !.outcome = outcome]
             y == [quiet EXCEPT !.calls[run].ending = IF x.open THEN "posted" ELSE "denied",
                                !.calls[run].outcome = outcome]
  <1>1. /\ x.driver \in Drivers /\ x.calls \in [Messages -> Calls] /\ x.exited \in BOOLEAN
        /\ DOMAIN x = {"record", "driver", "calls", "open", "exited"}
    BY DEF Kept
  <1>2. /\ quiet.record = x.record /\ quiet.driver = d /\ quiet.calls = x.calls /\ quiet.exited = x.exited
        /\ DOMAIN quiet = {"record", "driver", "calls", "open", "exited"} /\ quiet.open = x.open
    BY <1>1 DEF Drivers
  <1>3. d \in Drivers /\ d.active = x.driver.active /\ HasRun(d, x.calls) /\ HasRun(d, y.calls)
    BY <1>1, RuntimeRecordAssumption DEF Drivers, HasRun
  <1>4. Kept(quiet, g)
    BY <1>2, <1>3 DEF Kept
  <1>5. Finish(x, g, outcome) = IF run = None THEN Settle(quiet, g, outcome) ELSE y
    BY DEF Finish
  <1>6. ASSUME run # None PROVE Leaves(y, g)
    <2>1. run \in Messages
      BY <1>1, <1>6 DEF Drivers
    <2>2. /\ y.record = x.record /\ y.driver = d /\ y.exited = x.exited
          /\ y.calls = [x.calls EXCEPT ![run] = c]
          /\ DOMAIN y = {"record", "driver", "calls", "open", "exited"}
      BY <1>1, <1>2, <2>1
    <2>3. x.calls[run] \in Calls /\ x.calls[run].launch # 0
      BY <1>1, <2>1 DEF Kept, HasRun
    <2>4. c \in Calls /\ c.launch = x.calls[run].launch
      BY <2>3 DEF Calls
    <2> HIDE DEF y, d, c, run
    <2>5. /\ y.calls \in [Messages -> Calls]
          /\ \A m \in Messages : y.calls[m].launch = x.calls[m].launch
          /\ y.calls[run].launch # 0 /\ \A m \in Messages \ {run} : y.calls[m] = x.calls[m]
      BY <1>1, <2>1, <2>2, <2>3, <2>4
    <2>6. Begun(y.calls)
      BY <2>5 DEF Kept, Begun
    <2>7. Kept(y, g)
      BY <1>1, <1>3, <2>2, <2>5, <2>6 DEF Kept
    <2> QED  BY <1>3, <2>2, <2>7, KeptLeaves DEF Idle
  <1> QED  BY <1>4, <1>5, <1>6, SettleLeaves
---------------------------------------------------------------------------
\* What a handler leaves keeps the order.
LEMMA BecomesOrder ==
    ASSUME OrderInv, NEW g \in Launches, g <= launches, NEW x, Leaves(x, g), Becomes(g, x),
           UNCHANGED <<launches, received>>
    PROVE  OrderInv' /\ AllProceed
  <1>1. /\ \A h \in Launches : /\ records'[h] = IF h = g THEN x.record ELSE records[h]
                               /\ drivers'[h] = IF h = g THEN x.driver ELSE drivers[h]
        /\ records' = [h \in Launches |-> records'[h]] /\ drivers' \in [Launches -> Drivers]
        /\ calls' = x.calls
        /\ current' = IF x.exited /\ current = g THEN 0 ELSE current
        /\ tokens' \in SUBSET tokens
        /\ launches' = launches /\ received' = received
    BY DEF Becomes, OrderInv, Leaves
  <1>2. /\ launches \in Nat /\ current \in 0 .. launches /\ current' \in 0 .. launches
        /\ current' # 0 => current' = current /\ current \in Launches /\ ~(x.exited /\ current = g)
    BY <1>1, ConstantFacts DEF OrderInv
  <1>3. /\ \A h \in Launches : Proceeds(records[h], records[h], received)
        /\ Proceeds(records[g], x.record, received)
    BY MarkStep DEF OrderInv, Leaves
  <1>4. \A h \in Launches : Proceeds(records[h], records'[h], received)
    BY <1>1, <1>3
  <1>5. AllProceed
    <2>1. ASSUME NEW h \in Launches, current = h, NEW m \in Messages,
                 calls[m].launch # h, calls'[m].launch = h
          PROVE  Ahead(m, records'[h])
      <3>1. x.calls[m].launch = h /\ h = g
        BY <1>1, <2>1 DEF Leaves
      <3> QED  BY <1>1, <2>1, <3>1 DEF Leaves
    <2> QED  BY <1>1, <1>4, <2>1 DEF AllProceed, Prompted
  <1>6. \A h \in Launches : HasRun(drivers'[h], calls')
    <2>1. \A m \in Messages : calls[m].launch # 0 => calls'[m].launch # 0
      BY <1>1, ConstantFacts DEF Leaves
    <2>2. \A h \in Launches : HasRun(drivers[h], calls')
      BY <2>1 DEF OrderInv, HasRun
    <2>3. HasRun(x.driver, calls')
      BY <1>1 DEF Leaves
    <2> QED  BY <1>1, <2>2, <2>3
  <1>7. \A h \in Launches : launches < h => records'[h] = Launched /\ drivers'[h] = NewDriver
    BY <1>1, <1>2, ConstantFacts DEF OrderInv
  <1>8. current' # 0 => drivers'[current'].active \/ records'[current'].queue = <<>>
    BY <1>1, <1>2 DEF OrderInv, Leaves
  <1>9. OrderInv'
    BY <1>1, <1>2, <1>4, <1>6, <1>7, <1>8 DEF OrderInv, Leaves, Proceeds, Begun, HasRun
  <1> QED  BY <1>5, <1>9

\* The backend and the timer change the calls only.
LEMMA CallsOrder ==
    ASSUME OrderInv, UNCHANGED daemonVars, calls' \in [Messages -> Calls],
           \A m \in Messages :
               /\ calls'[m].launch = calls[m].launch
               /\ calls'[m].stage # "none" => calls[m].stage # "none"
               /\ calls'[m].ending # "none" => calls[m].ending # "none"
    PROVE  OrderInv' /\ AllProceed
  <1>1. /\ records' = records /\ drivers' = drivers /\ current' = current /\ launches' = launches
        /\ tokens' = tokens /\ received' = received
    BY DEF daemonVars
  <1>2. \A g \in Launches : Proceeds(records[g], records[g], received)
    BY MarkStep DEF OrderInv
  <1>3. AllProceed
    BY <1>1, <1>2 DEF AllProceed, Prompted
  <1>4. Begun(calls)' /\ \A g \in Launches : HasRun(drivers'[g], calls')
    BY <1>1 DEF OrderInv, Begun, HasRun
  <1> QED  BY <1>1, <1>3, <1>4 DEF OrderInv, HasRun

\* A handler of a prompt before it ends anything.
LEMMA CallKept ==
    ASSUME OrderInv, NEW m \in Messages, NEW g, g = calls[m].launch, NEW x,
           DOMAIN x = {"record", "driver", "calls", "open", "exited"},
           Proceeds(records[g], x.record, received), x.driver \in Drivers, x.exited \in BOOLEAN,
           x.driver.run = drivers[g].run,
           NEW c \in Calls, c.launch = g, x.calls = [calls EXCEPT ![m] = c],
           g # 0, g \in Launches
    PROVE  Kept(x, g)
  <1>1. /\ x.calls \in [Messages -> Calls] /\ x.calls[m] = c
        /\ \A n \in Messages \ {m} : x.calls[n] = calls[n]
    BY DEF OrderInv
  <1>2. \A n \in Messages : x.calls[n].launch = calls[n].launch
    BY <1>1
  <1>3. Begun(x.calls) /\ HasRun(x.driver, x.calls)
    BY <1>1, <1>2 DEF OrderInv, Begun, HasRun
  <1> QED  BY <1>1, <1>2, <1>3 DEF Kept

\* The launch of a prompt that was made.
LEMMA LaunchOfCall ==
    ASSUME OrderInv, NEW m \in Messages, calls[m].stage # "none" \/ calls[m].ending # "none"
    PROVE  /\ calls[m].launch \in Launches /\ calls[m].launch <= launches /\ calls[m].launch # 0
           /\ calls[m] \in Calls /\ drivers[calls[m].launch] \in Drivers
           /\ Orderly(records[calls[m].launch], received)
           /\ calls[m].launch = current => Idle(Now(current))
  <1>1. calls[m] \in Calls /\ calls[m].launch <= launches /\ calls[m].launch # 0
    BY DEF OrderInv, Begun
  <1>2. calls[m].launch \in Launches
    BY <1>1, ConstantFacts DEF OrderInv, Calls
  <1>3. calls[m].launch = current => Idle(Now(current))
    BY <1>1 DEF OrderInv, Idle, Now
  <1> QED  BY <1>1, <1>2, <1>3 DEF OrderInv
---------------------------------------------------------------------------
\* What the handlers of a prompt leave.
LEMMA HandlersLeave ==
    ASSUME OrderInv, NEW m \in Messages, calls[m].stage # "none" \/ calls[m].ending # "none",
           NEW g, g = calls[m].launch
    PROVE  /\ Leaves(GiveUp(Now(g), g, m), g) /\ Leaves(Fail(Now(g), g, m), g)
           /\ Leaves(RunPrompt(Now(g), m), g) /\ Leaves(Ask(Now(g), m), g)
           /\ Leaves([Now(g) EXCEPT !.calls[m].stage = "sleeping"], g)
           /\ Leaves([Now(g) EXCEPT !.record = OnError(@), !.calls[m].stage = "lost"], g)
  <1> DEFINE c(stage) == [calls[m] EXCEPT !.stage = stage]
             k(stage) == [calls EXCEPT ![m] = c(stage)]
             over == [Now(g) EXCEPT !.calls[m].stage = "over"]
             failed == [Now(g) EXCEPT !.calls[m].stage = "over", !.record = OnError(@)]
             lost == [Now(g) EXCEPT !.record = OnError(@), !.calls[m].stage = "lost"]
             asleep == [Now(g) EXCEPT !.calls[m].stage = "sleeping"]
             d == [drivers[g] EXCEPT !.child = m, !.beat = m]
             asking == IF g \in tokens THEN "asking" ELSE "denied"
  <1>1. /\ g \in Launches /\ g <= launches /\ g # 0 /\ calls[m] \in Calls /\ drivers[g] \in Drivers
        /\ Orderly(records[g], received) /\ DOMAIN calls = Messages
        /\ g = current => drivers[g].active \/ records[g].queue = <<>>
    BY LaunchOfCall DEF OrderInv, Idle, Now
  <1>2. ASSUME NEW stage \in {"asking", "denied", "sleeping", "child", "lost", "over"}
        PROVE  c(stage) \in Calls /\ c(stage).launch = g
    BY <1>1, <1>2 DEF Calls
  <1>3. asking \in {"asking", "denied"}
    OBVIOUS
  <1>4. d \in Drivers /\ d.active = drivers[g].active /\ d.run = drivers[g].run
    BY <1>1 DEF Drivers
  <1>5. /\ DOMAIN over = {"record", "driver", "calls", "open", "exited"}
        /\ over.record = records[g] /\ over.driver = drivers[g] /\ over.calls = k("over") /\ over.exited = FALSE
    BY <1>1 DEF Now
  <1>6. /\ DOMAIN failed = {"record", "driver", "calls", "open", "exited"}
        /\ failed.record = OnError(records[g]) /\ failed.driver = drivers[g] /\ failed.calls = k("over")
        /\ failed.exited = FALSE
    BY <1>1 DEF Now
  <1>7. /\ DOMAIN lost = {"record", "driver", "calls", "open", "exited"}
        /\ lost.record = OnError(records[g]) /\ lost.driver = drivers[g] /\ lost.calls = k("lost")
        /\ lost.exited = FALSE
    BY <1>1 DEF Now
  <1>8. /\ DOMAIN asleep = {"record", "driver", "calls", "open", "exited"}
        /\ asleep.record = records[g] /\ asleep.driver = drivers[g] /\ asleep.calls = k("sleeping")
        /\ asleep.exited = FALSE
    BY <1>1 DEF Now
  <1>9. /\ DOMAIN RunPrompt(Now(g), m) = {"record", "driver", "calls", "open", "exited"}
        /\ RunPrompt(Now(g), m).record = OnMessageSent(records[g]) /\ RunPrompt(Now(g), m).driver = d
        /\ RunPrompt(Now(g), m).calls = k("child") /\ RunPrompt(Now(g), m).exited = FALSE
    BY <1>1 DEF Now, RunPrompt, Drivers
  <1>10. /\ DOMAIN Ask(Now(g), m) = {"record", "driver", "calls", "open", "exited"}
         /\ Ask(Now(g), m).record = records[g] /\ Ask(Now(g), m).driver = drivers[g]
         /\ Ask(Now(g), m).calls = k(asking) /\ Ask(Now(g), m).exited = FALSE
    BY <1>1 DEF Now, Ask
  <1>11. /\ GiveUp(Now(g), g, m) = Finish(over, g, "stopped")
         /\ Fail(Now(g), g, m) = Finish(failed, g, "crashed")
    BY DEF GiveUp, Fail
  <1>12. /\ Proceeds(records[g], records[g], received)
         /\ Proceeds(records[g], OnError(records[g]), received)
         /\ Proceeds(records[g], OnMessageSent(records[g]), received)
         /\ OnError(records[g]).queue = records[g].queue
         /\ OnMessageSent(records[g]).queue = records[g].queue
    <2>1. OnError(records[g]).queue = records[g].queue
      BY <1>1, EventsKeepWaiting DEF SameWaiting, Orderly
    <2> QED  BY <1>1, <2>1, MarkStep, EventSteps, MessageSentStep
  <1> HIDE DEF c, over, failed, lost, asleep, d, asking
  <1>13. Kept(over, g) /\ Kept(asleep, g) /\ Kept(Ask(Now(g), m), g)
    <2>1. Kept(over, g)
      BY <1>1, <1>2, <1>5, <1>12, CallKept
    <2>2. Kept(asleep, g)
      BY <1>1, <1>2, <1>8, <1>12, CallKept
    <2>3. Kept(Ask(Now(g), m), g)
      <3>1. c(asking) \in Calls /\ c(asking).launch = g
        BY <1>2, <1>3
      <3> DEFINE x == Ask(Now(g), m)
                 b == c(asking)
      <3>2. b \in Calls /\ b.launch = g /\ x.calls = [calls EXCEPT ![m] = b]
        BY <1>10, <3>1
      <3>3. /\ DOMAIN x = {"record", "driver", "calls", "open", "exited"} /\ x.exited \in BOOLEAN
            /\ Proceeds(records[g], x.record, received) /\ x.driver \in Drivers
            /\ x.driver.run = drivers[g].run
        BY <1>1, <1>10, <1>12
      <3> HIDE DEF b, x
      <3>4. Kept(x, g)
        BY <1>1, <3>2, <3>3, CallKept
      <3> QED  BY <3>4 DEF x
    <2> QED  BY <2>1, <2>2, <2>3
  <1>14. Kept(failed, g) /\ Kept(lost, g) /\ Kept(RunPrompt(Now(g), m), g)
    <2>1. Kept(failed, g)
      BY <1>1, <1>2, <1>6, <1>12, CallKept
    <2>2. Kept(lost, g)
      BY <1>1, <1>2, <1>7, <1>12, CallKept
    <2>3. Kept(RunPrompt(Now(g), m), g)
      BY <1>1, <1>2, <1>4, <1>9, <1>12, CallKept
    <2> QED  BY <2>1, <2>2, <2>3
  <1>15. g = current => Idle(over) /\ Idle(failed) /\ Idle(lost) /\ Idle(asleep)
                        /\ Idle(RunPrompt(Now(g), m)) /\ Idle(Ask(Now(g), m))
    BY <1>1, <1>4, <1>5, <1>6, <1>7, <1>8, <1>9, <1>10, <1>12 DEF Idle
  <1>16. Leaves(Finish(over, g, "stopped"), g) /\ Leaves(Finish(failed, g, "crashed"), g)
    BY <1>1, <1>13, <1>14, <1>15, FinishLeaves
  <1>17. Leaves(lost, g) /\ Leaves(asleep, g) /\ Leaves(RunPrompt(Now(g), m), g) /\ Leaves(Ask(Now(g), m), g)
    BY <1>13, <1>14, <1>15, KeptLeaves
  <1> QED  BY <1>11, <1>16, <1>17 DEF lost, asleep

\* Prompts on their way to a child.
LEMMA PromptOrder ==
    ASSUME OrderInv, NEW m \in Messages, AcquireDenied(m) \/ AcquireFails(m) \/ Answer(m) \/ Wake(m)
    PROVE  OrderInv' /\ AllProceed
  <1> DEFINE g == calls[m].launch
  <1>1. calls[m].stage # "none"
    BY DEF AcquireDenied, AcquireFails, Answer, Wake
  <1>2. g \in Launches /\ g <= launches
    BY <1>1, LaunchOfCall
  <1>3. PICK x : Becomes(g, x) /\ Leaves(x, g)
    BY <1>1, HandlersLeave DEF AcquireDenied, AcquireFails, Answer, Wake
  <1>4. UNCHANGED <<launches, received>>
    BY DEF AcquireDenied, AcquireFails, Answer, Wake
  <1> QED  BY <1>2, <1>3, <1>4, BecomesOrder

\* Children, and turns that end.
LEMMA ChildOrder ==
    ASSUME OrderInv, NEW m \in Messages, ChildEvent(m) \/ ChildExit(m) \/ SpawnFails(m) \/ ReleaseReturns(m)
    PROVE  OrderInv' /\ AllProceed
  <1> DEFINE g == calls[m].launch
  <1>1. calls[m].stage # "none" \/ calls[m].ending # "none"
    BY DEF ChildEvent, ChildExit, SpawnFails, ReleaseReturns
  <1>2. /\ g \in Launches /\ g <= launches /\ g # 0 /\ calls[m] \in Calls /\ drivers[g] \in Drivers
        /\ Orderly(records[g], received) /\ DOMAIN calls = Messages
        /\ g = current => drivers[g].active \/ records[g].queue = <<>>
    BY <1>1, LaunchOfCall DEF OrderInv, Idle, Now
  <1>3. Proceeds(records[g], records[g], received)
    BY <1>2, MarkStep
  <1>4. CASE ChildEvent(m)
    <2>1. PICK r \in {OnToolEvent(records[g]), OnResult(records[g])} :
              /\ records' = [records EXCEPT ![g] = r]
              /\ UNCHANGED <<drivers, calls, current, launches, tokens, received>>
      BY <1>4 DEF ChildEvent
    <2> DEFINE x == [Now(g) EXCEPT !.record = r]
    <2>2. x.record = r /\ x.driver = drivers[g] /\ x.calls = calls /\ x.exited = FALSE
          /\ DOMAIN x = {"record", "driver", "calls", "open", "exited"}
      BY DEF Now
    <2> HIDE DEF x
    <2>3. Proceeds(records[g], r, received) /\ r.queue = records[g].queue
      <3>1. r.queue = records[g].queue
        BY <1>2, EventsKeepWaiting DEF SameWaiting, Orderly
      <3> QED  BY <1>2, <3>1, EventSteps
    <2>4. Kept(x, g)
      BY <1>2, <2>2, <2>3 DEF Kept, OrderInv
    <2>5. Leaves(x, g)
      BY <1>2, <2>2, <2>3, <2>4, KeptLeaves DEF Idle
    <2>6. Becomes(g, x)
      BY <1>2, <2>1, <2>2 DEF Becomes, OrderInv
    <2> QED  BY <1>2, <2>1, <2>5, <2>6, BecomesOrder
  <1>5. CASE ChildExit(m)
    <2> DEFINE d == [drivers[g] EXCEPT !.child = IF @ = m THEN None ELSE @]
               c == [calls[m] EXCEPT !.stage = "over"]
               x == [Now(g) EXCEPT !.calls[m].stage = "over",
                                   !.driver.child = IF @ = m THEN None ELSE @]
    <2>1. /\ DOMAIN x = {"record", "driver", "calls", "open", "exited"}
          /\ x.record = records[g] /\ x.driver = d /\ x.calls = [calls EXCEPT ![m] = c] /\ x.exited = FALSE
      BY <1>2 DEF Now
    <2>2. d \in Drivers /\ d.run = drivers[g].run /\ d.active = drivers[g].active
      BY <1>2 DEF Drivers
    <2>3. c \in Calls /\ c.launch = g
      BY <1>2 DEF Calls
    <2>4. PICK outcome \in {"done", "crashed", "stopped"} : Becomes(g, Finish(x, g, outcome))
      BY <1>5 DEF ChildExit
    <2> HIDE DEF d, c, x
    <2>5. Kept(x, g)
      BY <1>2, <1>3, <2>1, <2>2, <2>3, CallKept
    <2>6. Leaves(Finish(x, g, outcome), g)
      BY <1>2, <2>1, <2>2, <2>5, FinishLeaves DEF Idle
    <2>7. UNCHANGED <<launches, received>>
      BY <1>5 DEF ChildExit
    <2> QED  BY <1>2, <2>4, <2>6, <2>7, BecomesOrder
  <1>6. CASE SpawnFails(m)
    BY <1>1, <1>2, <1>6, HandlersLeave, BecomesOrder DEF SpawnFails
  <1>7. CASE ReleaseReturns(m)
    <2> DEFINE c == [calls[m] EXCEPT !.ending = "over"]
               x == [Now(g) EXCEPT !.calls[m].ending = "over"]
    <2>1. /\ DOMAIN x = {"record", "driver", "calls", "open", "exited"}
          /\ x.record = records[g] /\ x.driver = drivers[g] /\ x.calls = [calls EXCEPT ![m] = c] /\ x.exited = FALSE
      BY <1>2 DEF Now
    <2>2. c \in Calls /\ c.launch = g
      BY <1>2 DEF Calls
    <2>3. Becomes(g, Settle(x, g, calls[m].outcome)) /\ UNCHANGED <<launches, received>>
      BY <1>7 DEF ReleaseReturns
    <2> HIDE DEF c, x
    <2>4. Kept(x, g)
      BY <1>2, <1>3, <2>1, <2>2, CallKept
    <2>5. Leaves(Settle(x, g, calls[m].outcome), g)
      BY <1>2, <2>4, SettleLeaves
    <2> QED  BY <1>2, <2>3, <2>5, BecomesOrder
  <1> QED  BY <1>4, <1>5, <1>6, <1>7
---------------------------------------------------------------------------
\* Commands, receipts and deliveries.
LEMMA StartOrder ==
    ASSUME OrderInv, StartCommand
    PROVE  OrderInv' /\ AllProceed
  <1> DEFINE g == launches + 1
             d == [drivers[g] EXCEPT !.started = TRUE]
  <1>1. /\ launches < MaxLaunches /\ launches' = g /\ current' = g /\ tokens' = tokens \cup {g}
        /\ records' = [records EXCEPT ![g] = MarkReady(records[g])]
        /\ drivers' = [drivers EXCEPT ![g] = d]
        /\ calls' = calls /\ received' = received /\ current = 0
    BY DEF StartCommand
  <1>2. g \in Launches /\ launches \in Nat /\ launches < g /\ g \in 0 .. MaxLaunches
    BY <1>1, ConstantFacts DEF OrderInv
  <1>3. records[g] = Launched /\ drivers[g] \in Drivers /\ Orderly(records[g], received)
    BY <1>2 DEF OrderInv
  <1>4. d \in Drivers
    BY <1>3 DEF Drivers
  <1>5. Proceeds(records[g], MarkReady(records[g]), received) /\ MarkReady(records[g]).queue = <<>>
    <2>1. MarkReady(records[g]).queue = records[g].queue
      BY <1>3, EndRunWaiting DEF SameWaiting, Orderly
    <2>2. Launched.queue = <<>>
      BY DEF Launched
    <2>3. Proceeds(records[g], MarkReady(records[g]), received)
      BY <1>3, MarkStep
    <2> QED  BY <1>3, <2>1, <2>2, <2>3
  <1>6. d.run = None
    BY <1>2 DEF OrderInv, NewDriver
  <1> HIDE DEF g, d
  <1>7. /\ \A h \in Launches : records'[h] = IF h = g THEN MarkReady(records[g]) ELSE records[h]
        /\ \A h \in Launches : drivers'[h] = IF h = g THEN d ELSE drivers[h]
        /\ records' = [h \in Launches |-> records'[h]] /\ drivers' \in [Launches -> Drivers]
    BY <1>1, <1>2, <1>4 DEF OrderInv
  <1>8. \A h \in Launches : Proceeds(records[h], records'[h], received)
    BY <1>5, <1>7, MarkStep DEF OrderInv
  <1>9. AllProceed
    BY <1>1, <1>8 DEF AllProceed, Prompted
  <1>10. Begun(calls)' /\ \A h \in Launches : HasRun(drivers'[h], calls)
    <2>1. \A m \in Messages : calls[m].launch \in Nat /\ calls[m].launch <= launches
      BY DEF OrderInv, Begun, Calls
    <2>2. \A m \in Messages : calls[m].launch <= g
      BY <1>2, <2>1 DEF g
    <2> QED  BY <1>1, <1>6, <1>7, <2>2, RuntimeRecordAssumption DEF OrderInv, Begun, HasRun
  <1>11. \A h \in Launches : g < h => records'[h] = Launched /\ drivers'[h] = NewDriver
    BY <1>2, <1>7, ConstantFacts DEF OrderInv, g
  <1>12. records'[g].queue = <<>>
    BY <1>2, <1>5, <1>7
  <1>13. g \in 0 .. g /\ tokens' \subseteq Launches
    BY <1>1, <1>2 DEF OrderInv
  <1> QED  BY <1>1, <1>2, <1>7, <1>8, <1>9, <1>10, <1>11, <1>12, <1>13 DEF OrderInv, Proceeds, HasRun

\* A stop keeps every launch in order.
LEMMA StopOrder ==
    ASSUME OrderInv, StopCommand
    PROVE  OrderInv' /\ AllProceed
  <1> DEFINE g == current
             stopped == OnStop(records[g])
             r == [stopped EXCEPT !.queue = <<>>]
             d == [drivers[g] EXCEPT !.started = FALSE, !.stopping = TRUE]
             x == [Now(g) EXCEPT !.record = [OnStop(@) EXCEPT !.queue = <<>>],
                                 !.driver.started = FALSE, !.driver.stopping = TRUE, !.open = FALSE]
             z == IF x.driver.child = None /\ x.driver.active THEN Finish(x, g, "stopped") ELSE x
             y == [z EXCEPT !.exited = TRUE]
  <1>1. g # 0 /\ Becomes(g, y) /\ UNCHANGED <<launches, received>>
    BY DEF StopCommand
  <1>2. /\ g \in Launches /\ g <= launches /\ drivers[g] \in Drivers
        /\ Orderly(records[g], received)
    BY <1>1, ConstantFacts DEF OrderInv
  <1>3. d \in Drivers /\ d.run = drivers[g].run
    BY <1>2 DEF Drivers
  <1>4. /\ DOMAIN x = {"record", "driver", "calls", "open", "exited"}
        /\ x.record = r /\ x.driver = d /\ x.calls = calls /\ x.exited = FALSE
    BY DEF Now
  <1>5. Proceeds(records[g], stopped, received) /\ Orderly(stopped, received)
    BY <1>2, EventSteps DEF Proceeds
  <1> HIDE DEF x, d, stopped
  <1>6. Proceeds(stopped, r, received) /\ r.queue = <<>>
    <2> DEFINE q == r
    <2>1. /\ DOMAIN q = RecordFields /\ q.queue = <<>> /\ q.chain = stopped.chain /\ q.turns = stopped.turns
          /\ q.run = stopped.run /\ q.ready = stopped.ready /\ q.restart = stopped.restart
          /\ q.quiet = stopped.quiet /\ q.asked = stopped.asked /\ q.reported = stopped.reported
          /\ q.skewed = stopped.skewed
      BY <1>5, FieldsOfRecord DEF Orderly
    <2>2. <<>> \in Seq(Messages) /\ Increasing(<<>>)
      BY DEF Increasing
    <2>3. ToSet(<<>>) \subseteq ToSet(stopped.queue)
      BY DEF ToSet
    <2>4. /\ stopped.chain \in Seq(Messages) /\ stopped.turns \in Seq(Messages)
          /\ Increasing(stopped.chain) /\ Increasing(stopped.turns)
      BY <1>5, TypeOfOrderly DEF Orderly
    <2> HIDE DEF q
    <2>5. Proceeds(stopped, q, received)
      BY <1>5, <2>1, <2>2, <2>3, <2>4, FewerStep
    <2> QED  BY <2>1, <2>5 DEF q
  <1> HIDE DEF r
  <1>7. Proceeds(records[g], r, received)
    BY <1>5, <1>6, StepsCompose
  <1>8. Kept(x, g)
    <2>1. HasRun(d, calls)
      BY <1>2, <1>3 DEF OrderInv, HasRun
    <2> QED  BY <1>2, <1>3, <1>4, <1>7, <2>1 DEF Kept, OrderInv
  <1>9. Idle(x)
    BY <1>4, <1>6 DEF Idle
  <1>10. Leaves(z, g)
    BY <1>2, <1>8, <1>9, FinishLeaves, KeptLeaves
  <1> HIDE DEF z
  <1>11. Leaves(y, g)
    <2>1. /\ y.record = z.record /\ y.driver = z.driver /\ y.calls = z.calls /\ y.exited = TRUE
          /\ DOMAIN y = {"record", "driver", "calls", "open", "exited"}
      BY <1>10 DEF Leaves
    <2> HIDE DEF y
    <2> QED  BY <1>10, <2>1 DEF Leaves
  <1> HIDE DEF y
  <1> QED  BY <1>1, <1>2, <1>11, BecomesOrder

\* A message that arrives keeps every launch in order.
LEMMA ReceiveOrder ==
    ASSUME OrderInv, Receive
    PROVE  OrderInv' /\ AllProceed
  <1> DEFINE g == current
             r == [records[g] EXCEPT !.chain = Append(@, received + 1)]
  <1>1. /\ g # 0 /\ received < MaxMessages /\ received' = received + 1
        /\ records' = [records EXCEPT ![g] = r]
        /\ drivers' = drivers /\ calls' = calls /\ current' = current /\ launches' = launches /\ tokens' = tokens
    BY DEF Receive
  <1>2. g \in Launches /\ g <= launches /\ launches \in Nat /\ received \in Nat /\ received + 1 \in Messages
    BY <1>1, ConstantFacts DEF OrderInv
  <1>3. Proceeds(records[g], r, received + 1) /\ r.queue = records[g].queue
    <2>1. Orderly(records[g], received)
      BY <1>2 DEF OrderInv
    <2> QED  BY <1>2, <2>1, ReceivedStep DEF Orderly, RecordFields
  <1>4. \A h \in Launches : Proceeds(records[h], records[h], received + 1)
    BY LaterStep DEF OrderInv
  <1> HIDE DEF r
  <1>5. /\ \A h \in Launches : records'[h] = IF h = g THEN r ELSE records[h]
        /\ records' = [h \in Launches |-> records'[h]]
    BY <1>1 DEF OrderInv
  <1>6. \A h \in Launches : Proceeds(records[h], records'[h], received + 1)
    BY <1>3, <1>4, <1>5
  <1>7. AllProceed
    BY <1>1, <1>6 DEF AllProceed, Prompted
  <1>8. \A h \in Launches : launches < h => records'[h] = Launched /\ drivers'[h] = NewDriver
    BY <1>1, <1>2, <1>5, ConstantFacts DEF OrderInv
  <1>9. received + 1 \in 0 .. MaxMessages
    BY <1>2, ConstantFacts
  <1> QED  BY <1>1, <1>2, <1>3, <1>5, <1>6, <1>7, <1>8, <1>9 DEF OrderInv, Proceeds, Begun, HasRun

\* A delivery keeps every launch in order, whether it prompts, queues or cuts off.
LEMMA DeliverOrder ==
    ASSUME OrderInv, NEW g \in Launches, Deliver(g)
    PROVE  OrderInv' /\ AllProceed
  <1> DEFINE m == Head(records[g].chain)
             taken == [records[g] EXCEPT !.chain = Tail(@)]
             cut == IF m \in Removals THEN CutOff(taken, ChannelOf[m]) ELSE taken
             d == IF drivers[g].started THEN drivers[g]
                  ELSE [drivers[g] EXCEPT !.started = TRUE, !.stopping = FALSE]
             queued == [Now(g) EXCEPT !.driver = d, !.record = DeliverQueued(cut, m)]
             sent == [Now(g) EXCEPT !.driver = d, !.record = DeliverSent(cut, m)]
  <1>1. /\ records[g].chain # <<>> /\ UNCHANGED <<launches, received>>
        /\ Becomes(g, IF d.active THEN queued ELSE Prepare(sent, g, m))
    BY DEF Deliver
  <1>2. /\ g <= launches /\ drivers[g] \in Drivers /\ Orderly(records[g], received)
        /\ HasRun(drivers[g], calls)
    BY <1>1, ConstantFacts DEF OrderInv, Launched
  <1>3. d \in Drivers /\ d.active = drivers[g].active /\ HasRun(d, calls)
    BY <1>2 DEF Drivers, HasRun
  <1>4. /\ m \in Messages /\ \A k \in ToSet(Tail(records[g].chain)) : m < k
        /\ ToSet(cut.queue) \subseteq ToSet(records[g].queue)
        /\ Proceeds(records[g], DeliverQueued(cut, m), received)
        /\ Proceeds(records[g], DeliverSent(cut, m), received)
        /\ DeliverSent(cut, m).chain = Tail(records[g].chain) /\ DeliverSent(cut, m).queue = cut.queue
    BY <1>1, <1>2, DeliveredStep
  <1> HIDE DEF m, cut, d
  <1>5. /\ DOMAIN queued = {"record", "driver", "calls", "open", "exited"}
        /\ queued.record = DeliverQueued(cut, m) /\ queued.driver = d /\ queued.calls = calls
        /\ queued.exited = FALSE
        /\ DOMAIN sent = {"record", "driver", "calls", "open", "exited"}
        /\ sent.record = DeliverSent(cut, m) /\ sent.driver = d /\ sent.calls = calls
        /\ sent.exited = FALSE
    BY DEF Now
  <1> HIDE DEF queued, sent
  <1>6. Kept(queued, g) /\ Kept(sent, g)
    BY <1>3, <1>4, <1>5 DEF Kept, OrderInv
  <1>7. CASE d.active
    <2>1. Leaves(queued, g)
      BY <1>5, <1>6, <1>7, KeptLeaves DEF Idle
    <2> QED  BY <1>1, <1>2, <1>7, <2>1, BecomesOrder
  <1>8. CASE ~d.active
    <2>1. ASSUME g = current PROVE Ahead(m, sent.record)
      <3>1. records[g].queue = <<>>
        BY <1>3, <1>8, <2>1, ConstantFacts DEF OrderInv
      <3>2. ToSet(<<>>) = {}
        BY DEF ToSet
      <3>3. ToSet(cut.queue) = {}
        BY <1>4, <3>1, <3>2
      <3> QED  BY <1>4, <1>5, <3>3 DEF Ahead
    <2>2. Leaves(Prepare(sent, g, m), g)
      BY <1>2, <1>4, <1>6, <2>1, PrepareLeaves
    <2> QED  BY <1>1, <1>2, <1>8, <2>2, BecomesOrder
  <1> QED  BY <1>7, <1>8
---------------------------------------------------------------------------
\* What the backend and the timer change of a call.
LEMMA AnswerFields ==
    ASSUME NEW c \in Calls
    PROVE  /\ \A answer \in Leases!Statuses :
                LET a == [c EXCEPT !.stage = "answered", !.answer = answer] IN
                a \in Calls /\ a.launch = c.launch /\ a.ending = c.ending
           /\ \A b \in BOOLEAN :
                LET a == [c EXCEPT !.due = b] IN
                a \in Calls /\ a.launch = c.launch /\ a.ending = c.ending /\ a.stage = c.stage
           /\ LET a == [c EXCEPT !.ending = "handled"] IN
              a \in Calls /\ a.launch = c.launch /\ a.stage = c.stage
  BY DEF Calls

\* Leases and heartbeats change the calls only.
LEMMA LeaseOrder ==
    ASSUME OrderInv, Table!TypeOK', NEW m \in Messages,
           AcquireHandled(m) \/ HeartbeatSent(m) \/ HeartbeatLost(m) \/ HeartbeatWrite(m)
           \/ ReleaseRead(m) \/ ReleaseWrite(m) \/ Tick
    PROVE  OrderInv' /\ AllProceed
  <1>1. calls \in [Messages -> Calls] /\ \A n \in Messages : calls[n] \in Calls
    BY DEF OrderInv
  <1>3. CASE AcquireHandled(m)
    <2> DEFINE c == [calls[m] EXCEPT !.stage = "answered", !.answer = status'[m]]
    <2>1. calls' = [calls EXCEPT ![m] = c] /\ UNCHANGED daemonVars /\ calls[m].stage = "asking"
      BY <1>1, <1>3 DEF AcquireHandled
    <2>2. status'[m] \in Leases!Statuses
      BY DEF Table!TypeOK, Table!Statuses, Leases!Statuses, Table!Terminal, Leases!Terminal
    <2>3. c \in Calls /\ c.launch = calls[m].launch /\ c.ending = calls[m].ending
      BY <1>1, <2>2, AnswerFields
    <2> HIDE DEF c
    <2> QED  BY <1>1, <2>1, <2>3, CallsOrder
  <1>4. CASE HeartbeatSent(m) \/ HeartbeatLost(m)
    <2> DEFINE c == [calls[m] EXCEPT !.due = FALSE]
    <2>1. calls' = [calls EXCEPT ![m] = c] /\ UNCHANGED daemonVars
      BY <1>1, <1>4 DEF HeartbeatSent, HeartbeatLost
    <2>2. c \in Calls /\ c.launch = calls[m].launch /\ c.ending = calls[m].ending /\ c.stage = calls[m].stage
      BY <1>1, AnswerFields
    <2> HIDE DEF c
    <2> QED  BY <1>1, <2>1, <2>2, CallsOrder
  <1>5. CASE HeartbeatWrite(m) \/ ReleaseWrite(m)
    BY <1>1, <1>5, CallsOrder DEF HeartbeatWrite, ReleaseWrite
  <1>6. CASE ReleaseRead(m)
    <2> DEFINE c == [calls[m] EXCEPT !.ending = "handled"]
    <2>1. calls' = [calls EXCEPT ![m] = c] /\ UNCHANGED daemonVars /\ calls[m].ending = "posted"
      BY <1>1, <1>6 DEF ReleaseRead
    <2>2. c \in Calls /\ c.launch = calls[m].launch /\ c.stage = calls[m].stage
      BY <1>1, AnswerFields
    <2> HIDE DEF c
    <2> QED  BY <1>1, <2>1, <2>2, CallsOrder
  <1>7. CASE Tick
    <2> DEFINE c(n) == [calls[n] EXCEPT !.due = \E g \in Launches : drivers[g].beat = n]
    <2>1. calls' = [n \in Messages |-> c(n)] /\ UNCHANGED daemonVars
      BY <1>7 DEF Tick
    <2>2. ASSUME NEW n \in Messages
          PROVE  /\ c(n) \in Calls /\ c(n).launch = calls[n].launch /\ c(n).ending = calls[n].ending
                 /\ c(n).stage = calls[n].stage
      BY <1>1, AnswerFields
    <2> HIDE DEF c
    <2> QED  BY <2>1, <2>2, CallsOrder
  <1> QED  BY <1>3, <1>4, <1>5, <1>6, <1>7

\* Every step of the runtimes.
LEMMA StepOrder ==
    ASSUME OrderInv, Table!TypeOK', [Next]_vars
    PROVE  OrderInv' /\ AllProceed
  <1>1. CASE UNCHANGED vars
    <2>1. \A m \in Messages : calls'[m] = calls[m]
      BY <1>1 DEF vars
    <2> QED  BY <1>1, <2>1, CallsOrder DEF vars, OrderInv
  <1>2. CASE StartCommand \/ StopCommand \/ Receive \/ \E g \in Launches : Deliver(g)
    BY <1>2, StartOrder, StopOrder, ReceiveOrder, DeliverOrder
  <1>3. ASSUME NEW m \in Messages,
               \/ AcquireDenied(m) \/ AcquireFails(m) \/ Answer(m) \/ Wake(m)
               \/ ChildEvent(m) \/ ChildExit(m) \/ SpawnFails(m) \/ ReleaseReturns(m)
        PROVE  OrderInv' /\ AllProceed
    BY <1>3, PromptOrder, ChildOrder
  <1>4. ASSUME NEW m \in Messages,
               \/ AcquireHandled(m) \/ HeartbeatSent(m) \/ HeartbeatLost(m) \/ HeartbeatWrite(m)
               \/ ReleaseRead(m) \/ ReleaseWrite(m)
        PROVE  OrderInv' /\ AllProceed
    BY <1>4, LeaseOrder
  <1>5. CASE Tick
    <2>1. CASE Messages = {}
      <3>1. UNCHANGED daemonVars /\ calls' \in [Messages -> Calls]
        BY <1>5, <2>1 DEF Tick
      <3> QED  BY <2>1, <3>1, CallsOrder
    <2>2. CASE Messages # {}
      <3>1. PICK m \in Messages : TRUE
        BY <2>2
      <3> QED  BY <1>5, <3>1, LeaseOrder
    <2> QED  BY <2>1, <2>2
  <1> QED  BY <1>1, <1>2, <1>3, <1>4, <1>5 DEF Next

\* The faults stay within their bound.
LEMMA StepFaults == FaultsInv /\ [Next]_vars => FaultsInv'
  <1> SUFFICES ASSUME FaultsInv, [Next]_vars PROVE FaultsInv'
    OBVIOUS
  <1>1. UNCHANGED faults \/ Fault
    BY DEF Next, vars, StartCommand, StopCommand, Receive, Tick, Deliver, AcquireHandled, AcquireDenied,
           AcquireFails, Answer, Wake, ChildEvent, ChildExit, SpawnFails, HeartbeatSent, HeartbeatLost,
           HeartbeatWrite, ReleaseRead, ReleaseWrite, ReleaseReturns
  <1> QED  BY <1>1, ConstantFacts DEF FaultsInv, Fault

\* They hold at first.
LEMMA InitOrder == Init => OrderInv /\ FaultsInv
  <1> SUFFICES ASSUME Init PROVE OrderInv /\ FaultsInv
    OBVIOUS
  <1>1. NewDriver \in Drivers /\ NewDriver.run = None
    BY DEF NewDriver, Drivers
  <1>2. NoCall \in Calls /\ NoCall.launch = 0 /\ NoCall.stage = "none" /\ NoCall.ending = "none"
    BY ConstantFacts DEF NoCall, Calls, Leases!Statuses
  <1>3. 0 \in 0 .. MaxMessages /\ 0 \in 0 .. MaxLaunches /\ 0 \in 0 .. MaxFaults /\ 0 \in 0 .. 0
    BY ConstantFacts
  <1>4. Begun(calls) /\ \A g \in Launches : HasRun(drivers[g], calls)
    BY <1>1, <1>2, ConstantFacts DEF Init, Begun, HasRun
  <1>5. Orderly(Launched, received)
    BY <1>3, LaunchedOrderly DEF Init
  <1>6. FaultsInv
    BY <1>3 DEF Init, FaultsInv
  <1> QED  BY <1>1, <1>2, <1>3, <1>4, <1>5, <1>6 DEF Init, OrderInv

\* The queues of every launch stay in the order of receipt, and an idle driver in the
\* map has nothing queued.
THEOREM PiQueuesAreOrdered == Spec => [](OrderInv /\ FaultsInv)
  <1>1. OrderInv /\ FaultsInv /\ Table!TypeOK' /\ [Next]_vars => OrderInv' /\ FaultsInv'
    BY StepOrder, StepFaults
  <1> QED  BY InitOrder, TableHolds, <1>1, PTL DEF Spec

\* The variables have their types.
THEOREM PiTypes == Spec => []TypeOK
  <1>1. OrderInv /\ FaultsInv /\ Table!TypeOK => TypeOK
    <2> SUFFICES ASSUME OrderInv, FaultsInv, Table!TypeOK PROVE TypeOK
      OBVIOUS
    <2>1. DOMAIN records = Launches /\ \A g \in Launches : RecordTypeOK(records[g])
      BY DEF OrderInv, Orderly
    <2>2. drivers \in [Launches -> [started : BOOLEAN, stopping : BOOLEAN, active : BOOLEAN,
              child : Messages \cup {None}, run : Messages \cup {None}, beat : Messages \cup {None}]]
      BY DEF OrderInv, Drivers
    <2>3. current \in 0 .. MaxLaunches /\ launches \in 0 .. MaxLaunches
      BY ConstantFacts DEF OrderInv
    <2>4. Leases!TypeOK
      BY DEF Table!TypeOK, Leases!TypeOK, Table!Statuses, Leases!Statuses, Table!Terminal, Leases!Terminal
    <2> QED  BY <2>1, <2>2, <2>3, <2>4 DEF TypeOK, OrderInv, FaultsInv
  <1> QED  BY PiQueuesAreOrdered, TableHolds, <1>1, PTL

\* The prompts of the runtime in the map are made in the order in which the daemon
\* received the messages.
THEOREM PiPromptsGoInOrder ==
    Spec => [][\A g \in Launches : \A m \in Messages :
                  current = g /\ ~Prompted(g, m) /\ Prompted(g, m)' => Ahead(m, records[g])']_vars
  <1>1. OrderInv /\ Table!TypeOK' /\ [Next]_vars =>
          [\A g \in Launches : \A m \in Messages :
              current = g /\ ~Prompted(g, m) /\ Prompted(g, m)' => Ahead(m, records[g])']_vars
    <2> SUFFICES ASSUME OrderInv, Table!TypeOK', [Next]_vars, NEW g \in Launches, NEW m \in Messages,
                        current = g, ~Prompted(g, m), Prompted(g, m)'
                 PROVE  Ahead(m, records[g])'
      OBVIOUS
    <2>1. Ahead(m, records'[g])
      BY StepOrder DEF AllProceed
    <2> QED  BY <2>1 DEF Ahead
  <1> QED  BY PiQueuesAreOrdered, TableHolds, <1>1, PTL DEF Spec

\* The reports of the task runs implement their lifecycle, as those of the other
\* drivers do.
Lifecycle == INSTANCE TaskRunLifecycle WITH
    Runs <- Launches \X TaskRuns, status <- [p \in Launches \X TaskRuns |-> records[p[1]].reported[p[2]]]

\* The daemon's reports of a task run that Pi works on never go back.
THEOREM PiReportsGoForward == Spec => Lifecycle!Spec
  <1> DEFINE reported == [p \in Launches \X TaskRuns |-> records[p[1]].reported[p[2]]]
  <1>1. Init => Lifecycle!Init
    BY DEF Init, Launched, Lifecycle!Init
  <1>2. OrderInv /\ Table!TypeOK' /\ [Next]_vars => [Lifecycle!Next]_reported
    <2> SUFFICES ASSUME OrderInv, Table!TypeOK', [Next]_vars PROVE Lifecycle!Next
      OBVIOUS
    <2>1. AllProceed
      BY StepOrder
    <2>2. ASSUME NEW p \in Launches \X TaskRuns
          PROVE  reported'[p] \in Reports /\ MayFollow(reported'[p], reported[p])
      BY <2>1, TypeOfOrderly DEF AllProceed, Proceeds, Forward
    <2>3. DOMAIN Lifecycle!Rank = Reports
      BY DEF Lifecycle!Rank, Reports, Outcomes
    <2>4. \A x, y : MayFollow(y, x) => x = y \/ Lifecycle!Rank[x] < Lifecycle!Rank[y]
      BY DEF MayFollow, Lifecycle!Rank, Reports, Outcomes
    <2>5. reported' \in [Launches \X TaskRuns -> Reports]
      BY <2>2
    <2> HIDE DEF reported
    <2> QED  BY <2>2, <2>3, <2>4, <2>5 DEF Lifecycle!Next, reported
  <1> QED  BY PiQueuesAreOrdered, TableHolds, <1>1, <1>2, PTL DEF Spec, Lifecycle!Spec
=============================================================================
