------------------------ MODULE EventDeliveryProofs ------------------------
(***************************************************************************)
(* What holds of the delivery of events for every number of agents,        *)
(* coroutines, transactions, rows and websockets.                          *)
(*                                                                         *)
(* NeverEvicted: a daemon without a rival is never sent away, as long as   *)
(* no handshake outlasts its reconnect timer.                              *)
(*                                                                         *)
(* DeliveryTypes: every cursor stays within the log and what is sent are   *)
(* copies of its rows.                                                     *)
(*                                                                         *)
(* NothingIsSkipped and CursorIsCovered: a cursor, wherever it is kept, is *)
(* a promise (Covered) that the copies up to it which are owed to the      *)
(* daemon were sent.  A page read by a push passes the promise to the      *)
(* copies it expands to: each may come after what was sent and those       *)
(* before it (Follows).  A copy takes it over the wire to the daemon, and  *)
(* a resume brings it back to the hub.  A commit adds to what is owed only *)
(* behind the newest row (Grown), and a drop takes from it.                *)
(*                                                                         *)
(* FeedIsOrdered: that a copy may come next (Fits) is the guard of the     *)
(* module OrderedFeed, so that a receive is one of its steps.              *)
(***************************************************************************)
EXTENDS EventDelivery, FiniteSetTheorems, TLAPS

Starting(c) == conns[c].handler \in {"new", "accepted"}

Registering(t) == task[t].pc = "register"

\* As much of the types as the argument needs.
ShapeInv ==
    /\ DOMAIN task = Tasks
    /\ \A t \in Tasks : {"pc", "conn"} \subseteq DOMAIN task[t]
    /\ DOMAIN conns = Conns
    /\ \A c \in Conns : {"up", "handler"} \subseteq DOMAIN conns[c]

\* The daemon's websocket is up.
LinkInv == ws # 0 => ws \in Conns /\ conns[ws].up

\* One websocket at most has a handshake under way, and it is the daemon's own
\* unless the network has dropped that one.
HandshakeInv ==
    /\ \A c, d \in Conns : Starting(c) /\ Starting(d) => c = d
    /\ \A c \in Conns : Starting(c) /\ ws # 0 => c = ws

\* One coroutine at most registers a websocket: the one whose handshake is under way.
RegisterInv ==
    /\ \A t \in Tasks : Registering(t) =>
            task[t].conn \in Conns /\ conns[task[t].conn].handler = "accepted"
    /\ \A t, u \in Tasks : Registering(t) /\ Registering(u) => t = u

IInv == ShapeInv /\ LinkInv /\ HandshakeInv /\ RegisterInv /\ ~revoked

\* A coroutine that goes on somewhere else than in a registration disturbs nothing.
LEMMA TaskMoves ==
    ASSUME IInv, NEW t \in Tasks, NEW next,
           task' = [task EXCEPT ![t] = next],
           {"pc", "conn"} \subseteq DOMAIN next, next.pc # "register",
           UNCHANGED <<conns, ws, revoked>>
    PROVE  IInv'
  <1>1. ShapeInv'
    BY DEF IInv, ShapeInv
  <1>2. LinkInv' /\ HandshakeInv'
    BY DEF IInv, LinkInv, HandshakeInv, Starting
  <1>3. \A u \in Tasks : Registering(u)' => u # t /\ Registering(u) /\ task'[u] = task[u]
    BY DEF IInv, ShapeInv, Registering
  <1>4. RegisterInv'
    BY <1>3 DEF IInv, RegisterInv
  <1>. QED  BY <1>1, <1>2, <1>4 DEF IInv

\* The invariant holds initially.
LEMMA InitInv == Init => IInv
  BY DEF Init, IInv, ShapeInv, LinkInv, HandshakeInv, RegisterInv, Starting, Registering, Idle

\* Every step keeps the invariant when no handshake outlasts the reconnect delay.
LEMMA StepInv == ~SlowHandshake /\ IInv /\ [Next]_vars => IInv'
  <1>. SUFFICES ASSUME ~SlowHandshake, IInv, [Next]_vars PROVE IInv'
    OBVIOUS
  <1>1. ASSUME NEW t \in Tasks, InsertEvent(t) PROVE IInv'
    <2>. DEFINE next == [Idle EXCEPT !.pc = "open", !.seq = Len(records) + 1]
    <2>1. task' = [task EXCEPT ![t] = next] /\ UNCHANGED <<conns, ws, revoked>>
      BY <1>1 DEF InsertEvent, daemonVars
    <2>2. {"pc", "conn"} \subseteq DOMAIN next /\ next.pc # "register"
      BY DEF Idle
    <2>. HIDE DEF next
    <2>. QED  BY <2>1, <2>2, TaskMoves
  <1>2. ASSUME NEW t \in Tasks, CommitEvent(t) PROVE IInv'
    <2>. DEFINE next == [Idle EXCEPT !.pc = "push"]
    <2>1. task' = [task EXCEPT ![t] = next] /\ UNCHANGED <<conns, ws, revoked>>
      BY <1>2 DEF CommitEvent, daemonVars
    <2>2. {"pc", "conn"} \subseteq DOMAIN next /\ next.pc # "register"
      BY DEF Idle
    <2>. HIDE DEF next
    <2>. QED  BY <2>1, <2>2, TaskMoves
  <1>3. ASSUME NEW t \in Tasks, RollbackEvent(t) PROVE IInv'
    <2>. DEFINE next == Idle
    <2>1. task' = [task EXCEPT ![t] = next] /\ UNCHANGED <<conns, ws, revoked>>
      BY <1>3 DEF RollbackEvent, daemonVars
    <2>2. {"pc", "conn"} \subseteq DOMAIN next /\ next.pc # "register"
      BY DEF Idle
    <2>. HIDE DEF next
    <2>. QED  BY <2>1, <2>2, TaskMoves
  <1>4. ASSUME NEW t \in Tasks, StartPush(t) PROVE IInv'
    <2>. DEFINE next == IF hub = 0 THEN Idle
                        ELSE [Idle EXCEPT !.pc = "scan", !.conn = hub,
                                          !.cursor = cursors[hub], !.rounds = MaxBatches]
    <2>1. task' = [task EXCEPT ![t] = next] /\ UNCHANGED <<conns, ws, revoked>>
      BY <1>4 DEF StartPush, daemonVars
    <2>2. {"pc", "conn"} \subseteq DOMAIN next /\ next.pc # "register"
      BY DEF Idle
    <2>. HIDE DEF next
    <2>. QED  BY <2>1, <2>2, TaskMoves
  <1>5. ASSUME NEW t \in Tasks, ScanNothingVisible(t) PROVE IInv'
    <2>. DEFINE scanned == Scanned(task[t].cursor, Page(task[t].cursor))
                next == IF Page(task[t].cursor) = {} \/ task[t].rounds = 1 THEN Idle
                        ELSE [task[t] EXCEPT !.cursor = scanned, !.rounds = task[t].rounds - 1]
    <2>1. task' = [task EXCEPT ![t] = next] /\ task[t].pc = "scan" /\ UNCHANGED <<conns, ws, revoked>>
      BY <1>5 DEF ScanNothingVisible, daemonVars, IInv, ShapeInv
    <2>2. {"pc", "conn"} \subseteq DOMAIN next /\ next.pc # "register"
      BY <2>1 DEF Idle, IInv, ShapeInv
    <2>. HIDE DEF next
    <2>. QED  BY <2>1, <2>2, TaskMoves
  <1>6. ASSUME NEW t \in Tasks, ScanVisible(t) PROVE IInv'
    <2>. DEFINE scanned == Scanned(task[t].cursor, Page(task[t].cursor))
                batch == Expand(Page(task[t].cursor))
                next == [task[t] EXCEPT !.pc = "send", !.batch = batch, !.scanned = scanned]
    <2>1. task' = [task EXCEPT ![t] = next] /\ UNCHANGED <<conns, ws, revoked>>
      BY <1>6 DEF ScanVisible, daemonVars, IInv, ShapeInv
    <2>2. {"pc", "conn"} \subseteq DOMAIN next /\ next.pc # "register"
      BY DEF IInv, ShapeInv
    <2>. HIDE DEF next
    <2>. QED  BY <2>1, <2>2, TaskMoves
  <1>7. ASSUME NEW t \in Tasks, SendCopy(t) PROVE IInv'
    <2>. DEFINE next == [task[t] EXCEPT !.batch = Tail(task[t].batch)]
    <2>1. task' = [task EXCEPT ![t] = next] /\ task[t].pc = "send" /\ UNCHANGED <<conns, ws, revoked>>
      BY <1>7 DEF SendCopy, daemonVars, IInv, ShapeInv
    <2>2. {"pc", "conn"} \subseteq DOMAIN next /\ next.pc # "register"
      BY <2>1 DEF IInv, ShapeInv
    <2>. HIDE DEF next
    <2>. QED  BY <2>1, <2>2, TaskMoves
  <1>8. ASSUME NEW t \in Tasks, SendFails(t) PROVE IInv'
    <2>. DEFINE next == Idle
    <2>1. task' = [task EXCEPT ![t] = next] /\ UNCHANGED <<conns, ws, revoked>>
      BY <1>8 DEF SendFails, daemonVars
    <2>2. {"pc", "conn"} \subseteq DOMAIN next /\ next.pc # "register"
      BY DEF Idle
    <2>. HIDE DEF next
    <2>. QED  BY <2>1, <2>2, TaskMoves
  <1>9. ASSUME NEW t \in Tasks, FinishBatch(t) PROVE IInv'
    <2>. DEFINE next == Idle
    <2>1. task' = [task EXCEPT ![t] = next] /\ UNCHANGED <<conns, ws, revoked>>
      BY <1>9 DEF FinishBatch, daemonVars
    <2>2. {"pc", "conn"} \subseteq DOMAIN next /\ next.pc # "register"
      BY DEF Idle
    <2>. HIDE DEF next
    <2>. QED  BY <2>1, <2>2, TaskMoves
  <1>10. ASSUME NEW t \in Tasks, RegisterWs(t) PROVE IInv'
    <2>. DEFINE c == task[t].conn
    <2>1. c \in Conns /\ conns[c].handler = "accepted" /\ (ws # 0 => ws = c)
      BY <1>10 DEF RegisterWs, IInv, RegisterInv, HandshakeInv, Registering, Starting
    <2>2. /\ UNCHANGED <<ws, revoked>>
          /\ task' = [task EXCEPT ![t] = [Idle EXCEPT !.pc = "push"]]
          /\ DOMAIN conns' = Conns
          /\ \A d \in Conns : conns'[d] = CASE d = c -> [conns[d] EXCEPT !.handler = "live"]
                                            [] d = hub /\ d # c -> [conns[d] EXCEPT !.up = FALSE]
                                            [] OTHER -> conns[d]
      BY <1>10 DEF RegisterWs, daemonVars
    <2>3. conns'[c].handler = "live" /\ conns'[c].up = conns[c].up
      BY <2>1, <2>2 DEF IInv, ShapeInv
    <2>4. \A d \in Conns \ {c} : conns'[d].handler = conns[d].handler
      BY <2>2 DEF IInv, ShapeInv
    <2>5. \A d \in Conns : ~Starting(d)'
      BY <2>1, <2>3, <2>4 DEF IInv, HandshakeInv, Starting
    <2>6. \A u \in Tasks : ~Registering(u)'
      BY <1>10, <2>2 DEF RegisterWs, IInv, ShapeInv, RegisterInv, Registering, Idle
    <2>7. ShapeInv'
      <3>1. DOMAIN task' = Tasks /\ \A u \in Tasks : {"pc", "conn"} \subseteq DOMAIN task'[u]
        BY <2>2 DEF IInv, ShapeInv, Idle
      <3>. QED  BY <3>1, <2>2 DEF IInv, ShapeInv
    <2>8. LinkInv'
      BY <2>1, <2>2, <2>3 DEF IInv, LinkInv
    <2>. QED  BY <2>2, <2>5, <2>6, <2>7, <2>8 DEF IInv, HandshakeInv, RegisterInv
  <1>19. ASSUME NEW t \in Tasks, RegisterFails(t) PROVE IInv'
    <2>. DEFINE c == task[t].conn
    <2>1. c \in Conns /\ conns[c].handler = "accepted" /\ (ws # 0 => ws = c)
      BY <1>19 DEF RegisterFails, IInv, RegisterInv, HandshakeInv, Registering, Starting
    <2>2. /\ ws' = (IF ws = c THEN 0 ELSE ws) /\ revoked' = revoked
          /\ task' = [task EXCEPT ![t] = Idle]
          /\ DOMAIN conns' = Conns
          /\ \A d \in Conns : conns'[d] = CASE d = c -> [conns[d] EXCEPT !.up = FALSE, !.handler = "gone"]
                                            [] d = hub /\ d # c -> [conns[d] EXCEPT !.up = FALSE]
                                            [] OTHER -> conns[d]
      BY <1>19 DEF RegisterFails
    <2>0. {"pc", "conn"} \subseteq DOMAIN Idle /\ Idle.pc = "idle"
      BY DEF Idle
    <2>3. ws' = 0
      BY <2>1, <2>2
    <2>4. conns'[c].handler = "gone" /\ \A d \in Conns \ {c} : conns'[d].handler = conns[d].handler
      BY <2>1, <2>2 DEF IInv, ShapeInv
    <2>5. \A d \in Conns : ~Starting(d)'
      BY <2>1, <2>4 DEF IInv, HandshakeInv, Starting
    <2>6. \A u \in Tasks : ~Registering(u)'
      <3>1. \A u \in Tasks : u # t => task'[u] = task[u] /\ ~Registering(u)
        BY <1>19, <2>2 DEF RegisterFails, IInv, ShapeInv, RegisterInv, Registering
      <3>2. task'[t].pc # "register"
        BY <2>0, <2>2 DEF IInv, ShapeInv
      <3>. QED  BY <3>1, <3>2 DEF Registering
    <2>7. ShapeInv'
      <3>1. DOMAIN task' = Tasks /\ \A u \in Tasks : {"pc", "conn"} \subseteq DOMAIN task'[u]
        BY <2>0, <2>2 DEF IInv, ShapeInv
      <3>2. \A d \in Conns : {"up", "handler"} \subseteq DOMAIN conns'[d]
        BY <2>2 DEF IInv, ShapeInv
      <3>. QED  BY <3>1, <3>2, <2>2 DEF ShapeInv
    <2>. QED  BY <2>2, <2>3, <2>5, <2>6, <2>7 DEF IInv, LinkInv, HandshakeInv, RegisterInv
  <1>11. ASSUME NEW t \in Tasks, AcceptWs(t) PROVE IInv'
    <2>. DEFINE cursor(c) == IF conns[c].raw > 0 THEN conns[c].raw ELSE LatestSeq
    <2>1. PICK c \in Conns :
            /\ conns[c].handler = "new"
            /\ conns' = [conns EXCEPT ![c].handler = "accepted"]
            /\ task' = [task EXCEPT ![t] = [Idle EXCEPT !.pc = "register", !.conn = c, !.cursor = cursor(c)]]
            /\ UNCHANGED <<ws, revoked>>
      BY <1>11 DEF AcceptWs, daemonVars
    <2>. HIDE DEF cursor
    <2>2. \A u \in Tasks : ~Registering(u)
      BY <2>1 DEF IInv, HandshakeInv, RegisterInv, Starting
    <2>3. ShapeInv'
      BY <2>1 DEF IInv, ShapeInv, Idle
    <2>4. \A d \in Conns : Starting(d)' = Starting(d) /\ conns'[d].up = conns[d].up
      BY <2>1 DEF IInv, ShapeInv, Starting
    <2>5. \A u \in Tasks : Registering(u)' => u = t
      BY <2>1, <2>2 DEF IInv, ShapeInv, Registering
    <2>6. task'[t].conn = c /\ conns'[c].handler = "accepted"
      BY <2>1 DEF IInv, ShapeInv, Idle
    <2>. QED  BY <2>1, <2>3, <2>4, <2>5, <2>6 DEF IInv, LinkInv, HandshakeInv, RegisterInv
  <1>12. ASSUME NEW c \in Conns, HandlerExit(c) PROVE IInv'
    <2>1. /\ conns[c].handler = "live" /\ ~conns[c].up
          /\ conns' = [conns EXCEPT ![c].handler = "gone"]
          /\ UNCHANGED <<task, ws, revoked>>
      BY <1>12 DEF HandlerExit, daemonVars
    <2>2. ShapeInv'
      BY <2>1 DEF IInv, ShapeInv
    <2>3. \A d \in Conns : /\ conns'[d].up = conns[d].up
                           /\ Starting(d)' = Starting(d)
                           /\ conns[d].handler = "accepted" => conns'[d].handler = "accepted"
      BY <2>1 DEF IInv, ShapeInv, Starting
    <2>. QED  BY <2>1, <2>2, <2>3 DEF IInv, LinkInv, HandshakeInv, RegisterInv, Registering
  <1>13. ASSUME DaemonConnect PROVE IInv'
    <2>1. PICK c \in Conns :
            /\ conns' = [conns EXCEPT ![c] = [raw |-> lastEventCursor, up |-> TRUE, handler |-> "new"]]
            /\ ws' = c /\ UNCHANGED <<task, revoked>>
      BY <1>13 DEF DaemonConnect
    <2>2. \A d \in Conns : ~Starting(d)
      BY <1>13 DEF DaemonConnect, Starting
    <2>3. \A t \in Tasks : ~Registering(t)
      BY <2>2 DEF IInv, RegisterInv, Starting
    <2>4. ShapeInv'
      BY <2>1 DEF IInv, ShapeInv
    <2>5. conns'[c].up /\ \A d \in Conns : Starting(d)' => d = c
      BY <2>1, <2>2 DEF IInv, ShapeInv, Starting
    <2>6. LinkInv' /\ HandshakeInv' /\ RegisterInv'
      BY <2>1, <2>3, <2>5 DEF LinkInv, HandshakeInv, RegisterInv, Registering
    <2>. QED  BY <2>1, <2>4, <2>6 DEF IInv
  <1>14. ASSUME Drop PROVE IInv'
    <2>1. /\ conns' = [conns EXCEPT ![ws].up = FALSE]
          /\ ws' = 0 /\ UNCHANGED <<task, revoked>>
      BY <1>14 DEF Drop
    <2>2. ShapeInv'
      BY <2>1 DEF IInv, ShapeInv
    <2>3. \A d \in Conns : conns'[d].handler = conns[d].handler
      BY <2>1 DEF IInv, ShapeInv
    <2>. QED  BY <2>1, <2>2, <2>3 DEF IInv, LinkInv, HandshakeInv, RegisterInv, Registering, Starting
  <1>15. ASSUME Revoke PROVE IInv'
    BY <1>15 DEF Revoke, IInv, LinkInv
  <1>16. ASSUME UNCHANGED <<task, conns, ws, revoked>> PROVE IInv'
    BY <1>16 DEF IInv, ShapeInv, LinkInv, HandshakeInv, RegisterInv, Starting, Registering
  <1>17. CASE Receive
    BY <1>16, <1>17 DEF Receive
  <1>18. CASE UNCHANGED vars
    BY <1>16, <1>18 DEF vars
  <1>. QED
    BY <1>1, <1>2, <1>3, <1>4, <1>5, <1>6, <1>7, <1>8, <1>9, <1>10, <1>11, <1>12, <1>13,
       <1>14, <1>15, <1>17, <1>18, <1>19 DEF Next, TaskStep

\* 4001 means that another daemon took the computer over (websocket.ts:100): if the
\* reconnect delay of five seconds outlasts every handshake, a daemon without a
\* rival is never closed by add_exclusive.
THEOREM NeverEvicted == ~SlowHandshake => (Spec => []NeverEvictedByItself)
  <1>. SUFFICES ASSUME ~SlowHandshake PROVE Spec => []NeverEvictedByItself
    OBVIOUS
  <1>1. IInv /\ [Next]_vars => IInv'
    BY StepInv
  <1>2. IInv => NeverEvictedByItself
    BY DEF IInv, NeverEvictedByItself
  <1>. QED  BY InitInv, <1>1, <1>2, PTL DEF Spec
\* A set of numbers that is not empty has a least one.
LEMMA LeastElement ==
    ASSUME NEW T \in SUBSET Nat, T # {}
    PROVE  \E x \in T : \A y \in T : x <= y
  <1> DEFINE R == {p \in Nat \X Nat : p[1] < p[2]}
  <1>1. IsWellFoundedOn(R, Nat)
    BY NatLessThanWellFounded DEF OpToRel
  <1>2. \A x, y \in Nat : <<y, x>> \in R <=> y < x
    OBVIOUS
  <1> HIDE DEF R
  <1>3. PICK x \in T : \A y \in T : ~(<<y, x>> \in R)
    BY <1>1, WFMin
  <1>4. ASSUME NEW y \in T PROVE x <= y
    <2>1. x \in Nat /\ y \in Nat /\ ~(<<y, x>> \in R)
      BY <1>3
    <2> QED  BY <2>1, <1>2
  <1> QED  BY <1>4

\* ... and one that is bounded has a greatest one.
LEMMA GreatestElement ==
    ASSUME NEW n \in Nat, NEW T \in SUBSET (0 .. n), T # {}
    PROVE  \E x \in T : \A y \in T : y <= x
  <1> DEFINE S == {n - y : y \in T}
  <1>1. S \in SUBSET Nat /\ S # {}
    <2>1. \A y \in T : y \in Int /\ n - y \in Nat
      OBVIOUS
    <2> QED  BY <2>1
  <1>2. PICK z \in S : \A y \in S : z <= y
    BY <1>1, LeastElement
  <1>3. PICK x \in T : z = n - x
    BY <1>2
  <1>4. ASSUME NEW y \in T PROVE y <= x
    <2>1. n - y \in S
      OBVIOUS
    <2> QED  BY <2>1, <1>2, <1>3
  <1> QED  BY <1>4

\* A set of numbers that has 0, and with a number below n its successor, has all up to n.
LEMMA UpTo ==
    ASSUME NEW n \in Nat, NEW S, 0 \in S, \A i \in 0 .. n : i # n /\ i \in S => i + 1 \in S
    PROVE  0 .. n \subseteq S
  <1> DEFINE T == {i \in 0 .. n : i \notin S}
  <1> SUFFICES ASSUME T # {} PROVE FALSE
    OBVIOUS
  <1>1. T \in SUBSET Nat
    OBVIOUS
  <1>2. PICK x \in T : \A y \in T : x <= y
    BY <1>1, LeastElement
  <1>3. x \in 0 .. n /\ x # 0
    OBVIOUS
  <1>4. x - 1 \in 0 .. n /\ x - 1 # n /\ x - 1 \notin T
    BY <1>2, <1>3
  <1>5. x - 1 \in S
    BY <1>4
  <1>6. (x - 1) + 1 \in S
    BY <1>4, <1>5
  <1> QED  BY <1>3, <1>6

---------------------------------------------------------------------------
\* The rows of event_records.
Rows == [visible : SUBSET Agents, state : {"open", "committed", "aborted"}]

\* What the recursive function in Expand makes of itself.
ExpandStep(page, k, n) ==
    [s \in 0 .. n |->
        IF s = 0 THEN <<>>
        ELSE IF s \in page THEN k[s - 1] \o CopiesOf(s) ELSE k[s - 1]]

\* The recursive function in Expand exists.
LEMMA ExpandDef ==
    ASSUME Len(records) \in Nat, NEW page
    PROVE  \E k : k = ExpandStep(page, k, Len(records)) /\ Expand(page) = k[Len(records)]
  <1> DEFINE S == {n \in Nat : \E k : k = ExpandStep(page, k, n)}
             copies == CHOOSE k : k = ExpandStep(page, k, Len(records))
  <1>1. 0 \in S
    <2>1. [s \in 0 .. 0 |-> <<>>] = ExpandStep(page, [s \in 0 .. 0 |-> <<>>], 0)
      BY DEF ExpandStep
    <2> QED  BY <2>1
  <1>2. ASSUME NEW n \in Nat, n \in S PROVE n + 1 \in S
    <2>1. PICK k : k = ExpandStep(page, k, n)
      BY <1>2
    <2> DEFINE l == [s \in 0 .. n + 1 |->
                        IF s # n + 1 THEN k[s]
                        ELSE IF s \in page THEN k[s - 1] \o CopiesOf(s) ELSE k[s - 1]]
    <2>2. \A s \in 0 .. n : l[s] = k[s]
      OBVIOUS
    <2>3. ASSUME NEW s \in 0 .. n + 1
          PROVE  l[s] = ExpandStep(page, l, n + 1)[s]
      <3>1. CASE s = n + 1
        <4>1. l[s - 1] = k[s - 1] /\ s # 0
          BY <3>1, <2>2
        <4> QED  BY <3>1, <4>1 DEF ExpandStep
      <3>2. CASE s # n + 1
        <4>1. s \in 0 .. n /\ (s # 0 => s - 1 \in 0 .. n)
          BY <3>2
        <4>2. l[s] = ExpandStep(page, k, n)[s]
          BY <4>1, <2>1, <2>2
        <4>3. s # 0 => l[s - 1] = k[s - 1]
          BY <4>1, <2>2
        <4> QED  BY <4>1, <4>2, <4>3 DEF ExpandStep
      <3> QED  BY <3>1, <3>2
    <2>4. l = ExpandStep(page, l, n + 1)
      <3>1. l = [s \in 0 .. n + 1 |-> l[s]]
            /\ ExpandStep(page, l, n + 1) = [s \in 0 .. n + 1 |-> ExpandStep(page, l, n + 1)[s]]
        BY DEF ExpandStep
      <3> HIDE DEF l
      <3> QED  BY <2>3, <3>1
    <2> QED  BY <2>4
  <1>3. Len(records) \in S
    <2> HIDE DEF S
    <2>1. \A i \in 0 .. Len(records) : i # Len(records) /\ i \in S => i + 1 \in S
      BY <1>2
    <2>2. 0 .. Len(records) \subseteq S
      BY <1>1, <2>1, UpTo
    <2> QED  BY <2>2
  <1>4. copies = ExpandStep(page, copies, Len(records))
    BY <1>3
  <1>5. Expand(page) = copies[Len(records)]
    BY DEF Expand, ExpandStep
  <1> QED  BY <1>4, <1>5

\* One copy of a row for each agent that may see it.
LEMMA CopiesFacts ==
    ASSUME records \in Seq(Rows), NEW s \in 1 .. Len(records)
    PROVE  /\ CopiesOf(s) \in Seq({s} \X Agents)
           /\ \A a \in records[s].visible : \E i \in 1 .. Len(CopiesOf(s)) : CopiesOf(s)[i] = <<s, a>>
           /\ \A i \in 1 .. Len(CopiesOf(s)) : CopiesOf(s)[i][2] \in records[s].visible
           /\ \A i, j \in 1 .. Len(CopiesOf(s)) : i # j => CopiesOf(s)[i] # CopiesOf(s)[j]
  <1> DEFINE V == records[s].visible
             n == Cardinality(V)
             q == SetToSeq(V)
  <1>1. V \in SUBSET Agents /\ IsFiniteSet(V)
    <2>1. records[s] \in Rows
      OBVIOUS
    <2>2. V \in SUBSET Agents
      BY <2>1 DEF Rows
    <2> QED  BY <2>2, FS_Subset, EventDeliveryAssumption DEF EventDeliveryAssumption
  <1>2. n \in Nat /\ ExistsBijection(1 .. n, V)
    BY <1>1, FS_CardinalityType
  <1>3. PICK f \in [1 .. n -> V] : IsInjective(f) /\ \A a \in V : \E i \in 1 .. n : f[i] = a
    BY <1>2 DEF ExistsBijection, Bijection, Injection, Surjection
  <1>4. q \in [1 .. n -> V] /\ IsInjective(q)
    BY <1>3 DEF SetToSeq
  <1> HIDE DEF q, n, V
  <1>5. ASSUME NEW a \in V PROVE \E i \in 1 .. n : q[i] = a
    <2>1. IsFiniteSet(1 .. n) /\ Cardinality(1 .. n) = n
      BY <1>2, FS_Interval
    <2>2. q \in Injection(1 .. n, V)
      BY <1>4 DEF Injection
    <2>3. q \in Surjection(1 .. n, V)
      BY <2>1, <2>2, <1>1, FS_Injection DEF n
    <2> QED  BY <2>3 DEF Surjection
  <1> DEFINE c == [i \in 1 .. n |-> <<s, q[i]>>]
  <1>6. CopiesOf(s) = c
    BY DEF CopiesOf, n, q, V
  <1>7. c \in Seq({s} \X Agents) /\ Len(c) = n
    BY <1>1, <1>2, <1>4
  <1>8. ASSUME NEW a \in V PROVE \E i \in 1 .. Len(c) : c[i] = <<s, a>>
    <2>1. PICK i \in 1 .. n : q[i] = a
      BY <1>5
    <2>2. c[i] = <<s, a>>
      BY <2>1
    <2> QED  BY <2>2, <1>7
  <1>9. \A i \in 1 .. Len(c) : c[i][2] \in V
    BY <1>4, <1>7
  <1>10. ASSUME NEW i \in 1 .. Len(c), NEW j \in 1 .. Len(c), i # j PROVE c[i] # c[j]
    <2>1. q[i] # q[j]
      BY <1>4, <1>7, <1>10 DEF IsInjective
    <2>2. c[i][2] = q[i] /\ c[j][2] = q[j]
      BY <1>7
    <2> QED  BY <2>1, <2>2
  <1> HIDE DEF c
  <1> QED  BY <1>6, <1>7, <1>8, <1>9, <1>10 DEF V

---------------------------------------------------------------------------
\* w holds the copies of the rows of page up to n, in row order, each once.
Expanded(w, page, n) ==
    /\ w \in Seq(Copies)
    /\ \A i \in 1 .. Len(w) : w[i][1] \in page /\ w[i][1] <= n /\ w[i][2] \in records[w[i][1]].visible
    /\ \A i, j \in 1 .. Len(w) : i < j => w[i][1] <= w[j][1] /\ w[i] # w[j]
    /\ \A s \in page : s <= n =>
           \A a \in records[s].visible : \E i \in 1 .. Len(w) : w[i] = <<s, a>>

\* The copies of one row more.
LEMMA ExpandRow ==
    ASSUME records \in Seq(Rows), Len(records) <= MaxEvents, NEW page \in SUBSET (1 .. Len(records)),
           NEW s \in 1 .. Len(records), NEW w, Expanded(w, page, s - 1)
    PROVE  Expanded(IF s \in page THEN w \o CopiesOf(s) ELSE w, page, s)
  <1> DEFINE c == CopiesOf(s)
             l == Len(w)
  <1>1. /\ l \in Nat /\ w \in Seq(Copies) /\ \A i \in 1 .. l : w[i] \in Copies
        /\ \A i \in 1 .. l : w[i][1] \in page /\ w[i][1] <= s - 1 /\ w[i][2] \in records[w[i][1]].visible
    BY DEF Expanded
  <1>0. MaxEvents \in Nat /\ \A i \in 1 .. l : w[i][1] \in Nat
    BY <1>1, EventDeliveryAssumption DEF EventDeliveryAssumption, Copies, Seqs
  <1>2. CASE s \notin page
    <2>1. \A r \in page : r <= s => r <= s - 1
      BY <1>2
    <2>2. \A i \in 1 .. l : w[i][1] <= s /\ w[i][2] \in records[w[i][1]].visible
      BY <1>0, <1>1
    <2> QED  BY <1>2, <2>1, <2>2 DEF Expanded
  <1>3. CASE s \in page
    <2>1. /\ c \in Seq({s} \X Agents) /\ Len(c) \in Nat
          /\ \A i \in 1 .. Len(c) : c[i] \in {s} \X Agents
          /\ \A a \in records[s].visible : \E i \in 1 .. Len(c) : c[i] = <<s, a>>
          /\ \A i \in 1 .. Len(c) : c[i][2] \in records[s].visible
          /\ \A i, j \in 1 .. Len(c) : i # j => c[i] # c[j]
      <3>1. /\ c \in Seq({s} \X Agents)
            /\ \A a \in records[s].visible : \E i \in 1 .. Len(c) : c[i] = <<s, a>>
            /\ \A i \in 1 .. Len(c) : c[i][2] \in records[s].visible
            /\ \A i, j \in 1 .. Len(c) : i # j => c[i] # c[j]
        BY CopiesFacts
      <3> DEFINE D == {s} \X Agents
      <3>2. c \in Seq(D)
        BY <3>1
      <3> HIDE DEF c, D
      <3>3. Len(c) \in Nat /\ \A i \in 1 .. Len(c) : c[i] \in D
        BY <3>2
      <3> QED  BY <3>1, <3>3 DEF D
    <2>2. \A i \in 1 .. Len(c) : c[i] \in Copies /\ c[i][1] = s
      BY <2>1, <1>0 DEF Copies, Seqs
    <2>3. c \in Seq(Copies)
      BY <2>1, <2>2
    <2> HIDE DEF c, l
    <2> DEFINE v == w \o c
               m == l + Len(c)
    <2>4. /\ v \in Seq(Copies) /\ Len(v) = m
          /\ \A i \in 1 .. l : v[i] = w[i]
          /\ \A i \in l + 1 .. m : v[i] = c[i - l]
      BY <1>1, <2>1, <2>3 DEF l
    <2> HIDE DEF v
    <2>5. ASSUME NEW i \in 1 .. m PROVE (i \in 1 .. l) \/ (i \in l + 1 .. m /\ i - l \in 1 .. Len(c) /\ v[i][1] = s /\ v[i] = c[i - l])
      <3>1. CASE i <= l
        BY <3>1, <1>1
      <3>2. CASE ~(i <= l)
        <4>1. i \in l + 1 .. m /\ i - l \in 1 .. Len(c)
          BY <3>2, <1>1, <2>1
        <4>2. v[i] = c[i - l]
          BY <4>1, <2>4
        <4> QED  BY <4>1, <4>2, <2>2
      <3> QED  BY <3>1, <3>2
    <2>6. \A i \in 1 .. m : v[i][1] \in page /\ v[i][1] <= s /\ v[i][2] \in records[v[i][1]].visible
      <3> SUFFICES ASSUME NEW i \in 1 .. m
                   PROVE  v[i][1] \in page /\ v[i][1] <= s /\ v[i][2] \in records[v[i][1]].visible
        OBVIOUS
      <3>1. CASE i \in 1 .. l
        <4>1. v[i] = w[i]
          BY <2>4, <3>1
        <4>2. w[i][1] \in Nat /\ w[i][1] <= s - 1 /\ w[i][1] \in page /\ w[i][2] \in records[w[i][1]].visible
          BY <1>0, <1>1, <3>1
        <4>3. w[i][1] <= s
          BY <4>2
        <4> QED  BY <4>1, <4>2, <4>3
      <3>2. CASE i \notin 1 .. l
        <4>1. v[i] = c[i - l] /\ i - l \in 1 .. Len(c) /\ v[i][1] = s
          BY <2>5, <3>2
        <4> QED  BY <1>3, <2>1, <4>1
      <3> QED  BY <3>1, <3>2
    <2>7. ASSUME NEW i \in 1 .. m, NEW j \in 1 .. m, i < j PROVE v[i][1] <= v[j][1] /\ v[i] # v[j]
      <3>1. CASE j \in 1 .. l
        <4>1. i \in 1 .. l
          BY <3>1, <2>7, <1>1
        <4>2. w[i][1] <= w[j][1] /\ w[i] # w[j]
          BY <4>1, <3>1, <2>7 DEF Expanded, l
        <4> QED  BY <3>1, <4>1, <4>2, <2>4
      <3>2. CASE j \notin 1 .. l
        <4>1. v[j][1] = s /\ v[j] = c[j - l] /\ j - l \in 1 .. Len(c)
          BY <3>2, <2>5
        <4>2. v[i] # v[j]
          <5>1. CASE i \in 1 .. l
            <6>1. v[i][1] \in Nat /\ v[i][1] <= s - 1
              BY <1>0, <1>1, <2>4, <5>1
            <6> QED  BY <4>1, <6>1
          <5>2. CASE i \notin 1 .. l
            <6>1. v[i] = c[i - l] /\ i - l \in 1 .. Len(c) /\ i - l # j - l
              BY <2>5, <2>7, <5>2, <1>1
            <6> QED  BY <2>1, <4>1, <6>1
          <5> QED  BY <5>1, <5>2
        <4> QED  BY <4>1, <4>2, <2>6
      <3> QED  BY <3>1, <3>2
    <2>8. ASSUME NEW r \in page, r <= s, NEW a \in records[r].visible
          PROVE  \E i \in 1 .. m : v[i] = <<r, a>>
      <3>1. CASE r = s
        <4>1. PICK i \in 1 .. Len(c) : c[i] = <<s, a>>
          BY <2>1, <2>8, <3>1
        <4>2. l + i \in l + 1 .. m /\ l + i \in 1 .. m /\ (l + i) - l = i
          BY <1>1, <2>1
        <4> QED  BY <4>1, <4>2, <2>4, <3>1
      <3>2. CASE r # s
        <4>1. r <= s - 1
          BY <3>2, <2>8
        <4>2. PICK i \in 1 .. l : w[i] = <<r, a>>
          BY <4>1, <2>8 DEF Expanded, l
        <4>3. i \in 1 .. m
          BY <1>1, <2>1
        <4> QED  BY <4>2, <4>3, <2>4
      <3> QED  BY <3>1, <3>2
    <2>9. Expanded(v, page, s)
      BY <2>4, <2>6, <2>7, <2>8 DEF Expanded
    <2> QED  BY <2>9, <1>3 DEF v, c
  <1> QED  BY <1>2, <1>3

\* What Expand returns, for every page.
LEMMA ExpandFacts ==
    ASSUME records \in Seq(Rows), Len(records) <= MaxEvents, NEW page \in SUBSET (1 .. Len(records))
    PROVE  Expanded(Expand(page), page, Len(records))
  <1> DEFINE n == Len(records)
  <1>0. n \in Nat
    OBVIOUS
  <1>1. PICK k : k = ExpandStep(page, k, n) /\ Expand(page) = k[n]
    BY <1>0, ExpandDef
  <1>2. /\ k[0] = <<>>
        /\ \A s \in 1 .. n : k[s] = IF s \in page THEN k[s - 1] \o CopiesOf(s) ELSE k[s - 1]
    <2> HIDE DEF n
    <2>1. \A s \in 0 .. n : k[s] = ExpandStep(page, k, n)[s]
      BY <1>1
    <2> QED  BY <1>0, <2>1 DEF ExpandStep
  <1> DEFINE S == {s \in 0 .. n : Expanded(k[s], page, s)}
  <1>3. 0 \in S
    <2>1. \A s \in page : ~(s <= 0)
      OBVIOUS
    <2>2. Expanded(<<>>, page, 0)
      <3> HIDE DEF n, S
      <3>1. <<>> \in Seq(Copies)
        OBVIOUS
      <3>2. \A i \in 1 .. Len(<<>>) : FALSE
        OBVIOUS
      <3> QED  BY <2>1, <3>1, <3>2, Zenon DEF Expanded
    <2>3. 0 \in 0 .. n
      BY <1>0
    <2>4. Expanded(k[0], page, 0)
      BY <2>2, <1>2
    <2> QED  BY <2>3, <2>4
  <1>4. ASSUME NEW s \in 0 .. n, s # n, s \in S PROVE s + 1 \in S
    <2>1. s + 1 \in 1 .. n /\ (s + 1) - 1 = s /\ s + 1 \in 0 .. n
      BY <1>0, <1>4
    <2>2. Expanded(IF s + 1 \in page THEN k[s] \o CopiesOf(s + 1) ELSE k[s], page, s + 1)
      BY <2>1, <1>4, ExpandRow
    <2>3. k[s + 1] = IF s + 1 \in page THEN k[s] \o CopiesOf(s + 1) ELSE k[s]
      BY <1>2, <2>1
    <2> QED  BY <2>1, <2>2, <2>3
  <1>5. n \in S
    <2> HIDE DEF S
    <2>1. 0 .. n \subseteq S
      BY <1>0, <1>3, <1>4, UpTo
    <2> QED  BY <2>1, <1>0
  <1> QED  BY <1>5, <1>1

---------------------------------------------------------------------------
\* The newest committed row, and the last row of a page.
LEMMA NewestFacts ==
    ASSUME records \in Seq(Rows)
    PROVE  /\ Committed \in SUBSET (1 .. Len(records))
           /\ LatestSeq \in 0 .. Len(records) /\ LatestSeq \in Committed \cup {0}
           /\ \A s \in Committed : s <= LatestSeq
  <1>0. DOMAIN records = 1 .. Len(records) /\ Len(records) \in Nat
    OBVIOUS
  <1>1. Committed \in SUBSET (1 .. Len(records))
    BY <1>0 DEF Committed
  <1>2. CASE Committed = {}
    BY <1>0, <1>2 DEF LatestSeq
  <1>3. CASE Committed # {}
    <2>1. Committed \in SUBSET (0 .. Len(records))
      BY <1>0, <1>1
    <2>2. \E s \in Committed : \A r \in Committed : r <= s
      BY <1>0, <1>3, <2>1, GreatestElement
    <2>3. LatestSeq \in Committed /\ \A r \in Committed : r <= LatestSeq
      BY <1>3, <2>2 DEF LatestSeq
    <2> QED  BY <2>1, <2>3, <1>1
  <1> QED  BY <1>1, <1>2, <1>3

\* A page has the committed rows behind the cursor up to its last one.
LEMMA PageFacts ==
    ASSUME records \in Seq(Rows), NEW k \in Nat
    PROVE  /\ Page(k) \in SUBSET Committed /\ Page(k) \in SUBSET (1 .. Len(records))
           /\ Page(k) = {} => Scanned(k, Page(k)) = k
           /\ Page(k) # {} => Scanned(k, Page(k)) \in Page(k)
           /\ \A s \in Page(k) : s <= Scanned(k, Page(k))
           /\ \A s \in Committed : k < s /\ s <= Scanned(k, Page(k)) => s \in Page(k)
  <1>0. Len(records) \in Nat /\ BatchLimit \in Nat /\ Committed \in SUBSET (1 .. Len(records))
    BY NewestFacts, EventDeliveryAssumption DEF EventDeliveryAssumption
  <1>1. Page(k) \in SUBSET Committed /\ Page(k) \in SUBSET (1 .. Len(records))
    BY <1>0 DEF Page
  <1>2. CASE Page(k) = {}
    <2>1. Scanned(k, Page(k)) = k
      BY <1>2 DEF Scanned
    <2> QED  BY <1>0, <1>1, <1>2, <2>1
  <1>3. CASE Page(k) # {}
    <2> DEFINE last == Scanned(k, Page(k))
    <2>1. Page(k) \in SUBSET (0 .. Len(records))
      BY <1>0, <1>1
    <2>2. \E s \in Page(k) : \A r \in Page(k) : r <= s
      BY <1>0, <1>3, <2>1, GreatestElement
    <2>3. last \in Page(k) /\ \A r \in Page(k) : r <= last
      <3>1. last = CHOOSE s \in Page(k) : \A r \in Page(k) : r <= s
        BY <1>3 DEF Scanned
      <3> QED  BY <3>1, <2>2
    <2> HIDE DEF last
    <2>4. ASSUME NEW s \in Committed, k < s, s <= last PROVE s \in Page(k)
      <3> DEFINE A == {r \in Committed : k < r /\ r < s}
                 B == {r \in Committed : k < r /\ r < last}
      <3>1. Cardinality(B) < BatchLimit
        BY <2>3 DEF Page
      <3>2. A \subseteq B
        <4>1. \A r \in Committed : r \in Nat
          BY <1>0
        <4>2. last \in Nat /\ s \in Nat
          BY <1>1, <2>3, <4>1
        <4>3. ASSUME NEW r \in A PROVE r \in B
          <5>1. r \in Committed /\ r \in Nat /\ k < r /\ r < s
            BY <4>1
          <5>2. r < last
            BY <5>1, <4>2, <2>4
          <5> QED  BY <5>1, <5>2
        <4> HIDE DEF A, B
        <4> QED  BY <4>3
      <3>3. IsFiniteSet(B)
        <4>1. B \subseteq 1 .. Len(records)
          BY <1>0
        <4>2. IsFiniteSet(1 .. Len(records))
          BY <1>0, FS_Interval
        <4> HIDE DEF B
        <4> QED  BY <4>1, <4>2, FS_Subset
      <3>4. Cardinality(A) <= Cardinality(B) /\ Cardinality(A) \in Nat /\ Cardinality(B) \in Nat
        <4> HIDE DEF A, B
        <4> QED  BY <3>2, <3>3, FS_Subset, FS_CardinalityType
      <3>5. Cardinality(A) < BatchLimit
        <4> HIDE DEF A, B
        <4> QED  BY <1>0, <3>1, <3>4
      <3> QED  BY <2>4, <3>5 DEF Page
    <2> QED  BY <1>0, <1>1, <1>3, <2>3, <2>4 DEF last
  <1> QED  BY <1>2, <1>3

---------------------------------------------------------------------------
\* A coroutine, with what its stage says of its locals.
Coroutines == [pc : {"idle", "open", "push", "scan", "send", "register"},
               seq : 0 .. MaxEvents, conn : 0 .. MaxConns,
               cursor : 0 .. MaxEvents, scanned : 0 .. MaxEvents,
               rounds : 0 .. MaxBatches, batch : Seq(Copies)]

OnLink(k) == k.pc \in {"scan", "send", "register"}

StageOK(k, n) ==
    /\ k \in Coroutines
    /\ k.pc = "open" => k.seq \in 1 .. n
    /\ k.pc = "scan" => k.rounds # 0
    /\ OnLink(k) => k.conn \in Conns

Links == [raw : 0 .. MaxEvents, up : BOOLEAN, handler : {"none", "new", "accepted", "live", "gone"}]

RecordsTyped == records \in Seq(Rows) /\ Len(records) <= MaxEvents

TasksTyped == task = [t \in Tasks |-> task[t]] /\ \A t \in Tasks : StageOK(task[t], Len(records))

HubTyped == hub \in 0 .. MaxConns /\ cursors \in [Conns -> 0 .. MaxEvents]

LinksTyped == conns \in [Conns -> Links] /\ wire \in [Conns -> Seq(Copies)]

DaemonTyped ==
    /\ ws \in 0 .. MaxConns /\ lastEventCursor \in 0 .. MaxEvents /\ revoked \in BOOLEAN
    /\ delivered \in Seq(Copies) /\ base \in 0 .. MaxEvents

TypeInv == RecordsTyped /\ TasksTyped /\ HubTyped /\ LinksTyped /\ DaemonTyped

\* The bounds are numbers.
LEMMA Bounds ==
    /\ MaxEvents \in Nat /\ MaxConns \in Nat /\ MaxBatches \in Nat \ {0}
    /\ Conns = 1 .. MaxConns /\ Copies = (1 .. MaxEvents) \X Agents
  BY EventDeliveryAssumption DEF EventDeliveryAssumption, Conns, Copies, Seqs

\* The invariant has the types that the run checks.
LEMMA TypesImplied == TypeInv /\ excused \in SUBSET Copies => TypeOK
  <1> SUFFICES ASSUME TypeInv, excused \in SUBSET Copies PROVE TypeOK
    OBVIOUS
  <1>1. task \in [Tasks -> Coroutines]
    BY DEF TypeInv, TasksTyped, StageOK
  <1> QED
    BY <1>1 DEF TypeInv, TypeOK, RecordsTyped, HubTyped, LinksTyped, DaemonTyped, Rows, Coroutines, Links

\* What the coroutines start from has its type at every stage without locals.
LEMMA IdleTyped ==
    ASSUME NEW n
    PROVE  /\ Idle \in Coroutines
           /\ StageOK(Idle, n) /\ StageOK([Idle EXCEPT !.pc = "push"], n)
  <1>1. <<>> \in Seq(Copies) /\ 0 \in 0 .. MaxEvents /\ 0 \in 0 .. MaxConns /\ 0 \in 0 .. MaxBatches
    BY Bounds
  <1>2. Idle \in Coroutines /\ Idle.pc = "idle"
    BY <1>1 DEF Idle, Coroutines
  <1>3. StageOK(Idle, n)
    BY <1>2 DEF StageOK, OnLink
  <1>4. ASSUME NEW k \in Coroutines PROVE StageOK([k EXCEPT !.pc = "push"], n)
    BY DEF StageOK, OnLink, Coroutines
  <1> QED  BY <1>2, <1>3, <1>4

\* One coroutine goes on.
LEMMA OneTask ==
    ASSUME TypeInv, NEW t \in Tasks, NEW next, StageOK(next, Len(records')),
           task' = [task EXCEPT ![t] = next],
           RecordsTyped', Len(records) <= Len(records')
    PROVE  TasksTyped'
  <1>1. task' = [u \in Tasks |-> task'[u]]
    BY DEF TypeInv, TasksTyped
  <1>2. ASSUME NEW u \in Tasks PROVE StageOK(task'[u], Len(records'))
    <2>1. CASE u = t
      BY <2>1 DEF TypeInv, TasksTyped
    <2>2. CASE u # t
      <3>1. task'[u] = task[u] /\ StageOK(task[u], Len(records))
        BY <2>2 DEF TypeInv, TasksTyped
      <3>2. Len(records) \in Nat /\ Len(records') \in Nat
        BY DEF TypeInv, RecordsTyped
      <3> QED  BY <3>1, <3>2 DEF StageOK
    <2> QED  BY <2>1, <2>2
  <1> QED  BY <1>1, <1>2 DEF TasksTyped

\* The stages a coroutine goes on to.
LEMMA NextStages ==
    ASSUME NEW n \in Nat
    PROVE  /\ \A s \in 0 .. MaxEvents : s \in 1 .. n => StageOK([Idle EXCEPT !.pc = "open", !.seq = s], n)
           /\ \A c \in Conns, k \in 0 .. MaxEvents :
                /\ StageOK([Idle EXCEPT !.pc = "scan", !.conn = c, !.cursor = k, !.rounds = MaxBatches], n)
                /\ StageOK([Idle EXCEPT !.pc = "register", !.conn = c, !.cursor = k], n)
           /\ \A k : \A s \in 0 .. MaxEvents : StageOK(k, n) /\ k.pc = "scan" /\ k.rounds # 1 =>
                StageOK([k EXCEPT !.cursor = s, !.rounds = k.rounds - 1], n)
           /\ \A k : \A s \in 0 .. MaxEvents : \A b \in Seq(Copies) : StageOK(k, n) /\ OnLink(k) =>
                StageOK([k EXCEPT !.pc = "send", !.batch = b, !.scanned = s], n)
           /\ \A k : \A b \in Seq(Copies) : StageOK(k, n) => StageOK([k EXCEPT !.batch = b], n)
  <1>0. <<>> \in Seq(Copies) /\ \A c \in Conns : c \in 0 .. MaxConns
    BY Bounds
  <1>i. Idle \in Coroutines /\ MaxBatches \in 0 .. MaxBatches /\ MaxBatches # 0
    BY IdleTyped, Bounds
  <1>a. ASSUME NEW i \in Coroutines, NEW s \in 0 .. MaxEvents, s \in 1 .. n
        PROVE  StageOK([i EXCEPT !.pc = "open", !.seq = s], n)
    BY <1>a DEF StageOK, Coroutines, OnLink
  <1>b. ASSUME NEW i \in Coroutines, NEW c \in Conns, NEW k \in 0 .. MaxEvents, c \in 0 .. MaxConns,
               NEW r \in 0 .. MaxBatches, r # 0
        PROVE  /\ StageOK([i EXCEPT !.pc = "scan", !.conn = c, !.cursor = k, !.rounds = r], n)
               /\ StageOK([i EXCEPT !.pc = "register", !.conn = c, !.cursor = k], n)
    BY <1>b DEF StageOK, Coroutines, OnLink
  <1>1. \A s \in 0 .. MaxEvents : s \in 1 .. n => StageOK([Idle EXCEPT !.pc = "open", !.seq = s], n)
    BY <1>i, <1>a
  <1>2. ASSUME NEW c \in Conns, NEW k \in 0 .. MaxEvents
        PROVE  /\ StageOK([Idle EXCEPT !.pc = "scan", !.conn = c, !.cursor = k, !.rounds = MaxBatches], n)
               /\ StageOK([Idle EXCEPT !.pc = "register", !.conn = c, !.cursor = k], n)
    BY <1>0, <1>i, <1>b
  <1>3. ASSUME NEW k, NEW s \in 0 .. MaxEvents, StageOK(k, n), k.pc = "scan", k.rounds # 1
        PROVE  StageOK([k EXCEPT !.cursor = s, !.rounds = k.rounds - 1], n)
    <2>1. k.rounds - 1 \in 0 .. MaxBatches /\ k.rounds - 1 # 0
      BY <1>3, Bounds DEF StageOK, Coroutines
    <2> DEFINE r == k.rounds - 1
    <2> HIDE DEF r
    <2>2. StageOK([k EXCEPT !.cursor = s, !.rounds = r], n)
      BY <1>3, <2>1 DEF StageOK, Coroutines, OnLink, r
    <2> QED  BY <2>2 DEF r
  <1>4. ASSUME NEW k, NEW s \in 0 .. MaxEvents, NEW b \in Seq(Copies), StageOK(k, n), OnLink(k)
        PROVE  StageOK([k EXCEPT !.pc = "send", !.batch = b, !.scanned = s], n)
    BY <1>4 DEF StageOK, Coroutines, OnLink
  <1>5. ASSUME NEW k, NEW b \in Seq(Copies), StageOK(k, n) PROVE StageOK([k EXCEPT !.batch = b], n)
    BY <1>5 DEF StageOK, Coroutines, OnLink
  <1> QED  BY <1>1, <1>2, <1>3, <1>4, <1>5

\* What a query returns has its type.
LEMMA QueryTyped ==
    ASSUME TypeInv, NEW k \in 0 .. MaxEvents
    PROVE  Scanned(k, Page(k)) \in 0 .. MaxEvents /\ Expand(Page(k)) \in Seq(Copies)
  <1>1. /\ Page(k) \in SUBSET (1 .. Len(records))
        /\ Scanned(k, Page(k)) = k \/ Scanned(k, Page(k)) \in Page(k)
    BY PageFacts, Bounds DEF TypeInv, RecordsTyped
  <1>2. Expanded(Expand(Page(k)), Page(k), Len(records))
    BY <1>1, ExpandFacts DEF TypeInv, RecordsTyped
  <1> QED  BY <1>1, <1>2, Bounds DEF Expanded, TypeInv, RecordsTyped

---------------------------------------------------------------------------
\* The types hold initially.
LEMMA InitTypes == Init => TypeInv
  <1> SUFFICES ASSUME Init PROVE TypeInv
    OBVIOUS
  <1>1. RecordsTyped
    <2>1. records = <<>>
      BY DEF Init
    <2> QED  BY <2>1, Bounds DEF RecordsTyped
  <1>2. TasksTyped
    BY IdleTyped DEF Init, TasksTyped
  <1>3. HubTyped /\ DaemonTyped
    <2>1. 0 \in 0 .. MaxConns /\ 0 \in 0 .. MaxEvents /\ <<>> \in Seq(Copies)
      BY Bounds
    <2>2. cursors = [c \in Conns |-> 0] /\ hub = 0
      BY DEF Init
    <2>3. HubTyped
      BY <2>1, <2>2 DEF HubTyped
    <2>4. DaemonTyped
      BY <2>1 DEF Init, DaemonTyped
    <2> QED  BY <2>3, <2>4
  <1>4. LinksTyped
    <2>1. conns \in [Conns -> Links]
      <3>1. [raw |-> 0, up |-> FALSE, handler |-> "none"] \in Links
        BY Bounds DEF Links
      <3> QED  BY <3>1 DEF Init
    <2>2. wire \in [Conns -> Seq(Copies)]
      <3>1. <<>> \in Seq(Copies)
        OBVIOUS
      <3> QED  BY <3>1 DEF Init
    <2> QED  BY <2>1, <2>2 DEF LinksTyped
  <1> QED  BY <1>1, <1>2, <1>3, <1>4 DEF TypeInv

\* What a coroutine finds.
LEMMA TaskFacts ==
    ASSUME TypeInv, NEW t \in Tasks
    PROVE  /\ StageOK(task[t], Len(records)) /\ task[t] \in Coroutines /\ DOMAIN task = Tasks
           /\ Len(records) \in Nat /\ task[t].cursor \in 0 .. MaxEvents /\ task[t].scanned \in 0 .. MaxEvents
           /\ task[t].batch \in Seq(Copies) /\ task[t].seq \in 0 .. MaxEvents
           /\ OnLink(task[t]) => task[t].conn \in Conns
  BY DEF TypeInv, TasksTyped, RecordsTyped, StageOK, Coroutines

\* The log keeps its type.
LEMMA RowsTyped ==
    ASSUME RecordsTyped
    PROVE  /\ \A visible \in SUBSET Agents : Len(records) < MaxEvents =>
                  LET qs == Append(records, [visible |-> visible, state |-> "open"]) IN
                  qs \in Seq(Rows) /\ Len(qs) = Len(records) + 1
           /\ \A s \in 1 .. Len(records) : \A state \in {"committed", "aborted"} :
                  LET qs == [records EXCEPT ![s].state = state] IN
                  qs \in Seq(Rows) /\ Len(qs) = Len(records)
  <1>1. ASSUME NEW visible \in SUBSET Agents
        PROVE  LET qs == Append(records, [visible |-> visible, state |-> "open"]) IN
               qs \in Seq(Rows) /\ Len(qs) = Len(records) + 1
    <2>1. [visible |-> visible, state |-> "open"] \in Rows
      BY DEF Rows
    <2> QED  BY <2>1 DEF RecordsTyped
  <1>2. ASSUME NEW s \in 1 .. Len(records), NEW state \in {"committed", "aborted"}
        PROVE  LET qs == [records EXCEPT ![s].state = state] IN
               qs \in Seq(Rows) /\ Len(qs) = Len(records)
    <2>1. records[s] \in Rows
      BY DEF RecordsTyped
    <2>2. [records[s] EXCEPT !.state = state] \in Rows
      BY <2>1 DEF Rows
    <2> DEFINE row == [records[s] EXCEPT !.state = state]
    <2>3. row \in Rows
      BY <2>2
    <2> HIDE DEF row
    <2>4. [records EXCEPT ![s] = row] \in Seq(Rows) /\ Len([records EXCEPT ![s] = row]) = Len(records)
      BY <2>3 DEF RecordsTyped
    <2> QED  BY <2>4 DEF row
  <1> QED  BY <1>1, <1>2

\* The steps of a request handler keep the types.
LEMMA RequestTypes ==
    ASSUME TypeInv, NEW t \in Tasks, InsertEvent(t) \/ CommitEvent(t) \/ RollbackEvent(t)
    PROVE  TypeInv'
  <1>n. Len(records) \in Nat
    BY TaskFacts
  <1>u. UNCHANGED <<hub, cursors, conns, wire, ws, lastEventCursor, revoked, delivered, base>>
    BY DEF InsertEvent, CommitEvent, RollbackEvent, hubVars, daemonVars
  <1>1. HubTyped' /\ LinksTyped' /\ DaemonTyped'
    BY <1>u DEF TypeInv, HubTyped, LinksTyped, DaemonTyped
  <1>2. \E next : /\ task' = [task EXCEPT ![t] = next]
                  /\ StageOK(next, Len(records')) /\ RecordsTyped' /\ Len(records) <= Len(records')
    <2>1. CASE InsertEvent(t)
      <3> DEFINE next == [Idle EXCEPT !.pc = "open", !.seq = Len(records) + 1]
      <3>1. task' = [task EXCEPT ![t] = next] /\ Len(records) < MaxEvents
        BY <2>1 DEF InsertEvent
      <3>2. records' \in Seq(Rows) /\ Len(records') = Len(records) + 1
        BY <2>1, RowsTyped DEF InsertEvent, TypeInv
      <3>3. Len(records) + 1 \in 0 .. MaxEvents /\ Len(records) + 1 \in 1 .. Len(records')
        BY <1>n, <3>1, <3>2, Bounds
      <3>4. StageOK(next, Len(records'))
        <4> DEFINE n == Len(records')
        <4>1. n \in Nat
          BY <1>n, <3>2
        <4> HIDE DEF n
        <4>2. \A s \in 0 .. MaxEvents : s \in 1 .. n => StageOK([Idle EXCEPT !.pc = "open", !.seq = s], n)
          BY <4>1, NextStages
        <4> QED  BY <4>2, <3>3 DEF n
      <3>5. RecordsTyped' /\ Len(records) <= Len(records')
        BY <1>n, <3>2, <3>3 DEF RecordsTyped
      <3> HIDE DEF next
      <3> QED  BY <3>1, <3>4, <3>5
    <2>2. ASSUME NEW state \in {"committed", "aborted"}, task[t].pc = "open",
                 records' = [records EXCEPT ![task[t].seq].state = state]
          PROVE  RecordsTyped' /\ Len(records) <= Len(records')
      <3>1. task[t].seq \in 1 .. Len(records)
        BY <2>2, TaskFacts DEF StageOK
      <3>2. records' \in Seq(Rows) /\ Len(records') = Len(records)
        BY <2>2, <3>1, RowsTyped DEF TypeInv
      <3> QED  BY <3>2, <1>n DEF TypeInv, RecordsTyped
    <2>3. CASE CommitEvent(t)
      <3>1. task' = [task EXCEPT ![t] = [Idle EXCEPT !.pc = "push"]]
        BY <2>3 DEF CommitEvent
      <3>2. RecordsTyped' /\ Len(records) <= Len(records')
        BY <2>2, <2>3 DEF CommitEvent
      <3> QED  BY <3>1, <3>2, IdleTyped
    <2>4. CASE RollbackEvent(t)
      <3>1. task' = [task EXCEPT ![t] = Idle]
        BY <2>4 DEF RollbackEvent
      <3>2. RecordsTyped' /\ Len(records) <= Len(records')
        BY <2>2, <2>4 DEF RollbackEvent
      <3> QED  BY <3>1, <3>2, IdleTyped
    <2> QED  BY <2>1, <2>3, <2>4
  <1>3. TasksTyped'
    BY <1>2, OneTask
  <1> QED  BY <1>1, <1>2, <1>3 DEF TypeInv

\* The steps of a push keep the types.
LEMMA PushTypes ==
    ASSUME TypeInv, NEW t \in Tasks,
           \/ StartPush(t) \/ ScanNothingVisible(t) \/ ScanVisible(t)
           \/ SendCopy(t) \/ SendFails(t) \/ FinishBatch(t)
    PROVE  TypeInv'
  <1>u. UNCHANGED <<records, conns, ws, lastEventCursor, revoked, delivered, base>>
    BY DEF StartPush, ScanNothingVisible, ScanVisible, SendCopy, SendFails, FinishBatch, hubVars, daemonVars
  <1>f. /\ StageOK(task[t], Len(records)) /\ Len(records) \in Nat
        /\ task[t].cursor \in 0 .. MaxEvents /\ task[t].scanned \in 0 .. MaxEvents
        /\ task[t].batch \in Seq(Copies) /\ (OnLink(task[t]) => task[t].conn \in Conns)
    BY TaskFacts
  <1>d. /\ task = [u \in Tasks |-> task[u]] /\ cursors \in [Conns -> 0 .. MaxEvents] /\ hub \in 0 .. MaxConns
        /\ wire \in [Conns -> Seq(Copies)]
    BY DEF TypeInv, TasksTyped, HubTyped, LinksTyped
  <1>q. Scanned(task[t].cursor, Page(task[t].cursor)) \in 0 .. MaxEvents
        /\ Expand(Page(task[t].cursor)) \in Seq(Copies)
    BY <1>f, QueryTyped
  <1>1. RecordsTyped' /\ DaemonTyped' /\ conns' \in [Conns -> Links]
    BY <1>u DEF TypeInv, RecordsTyped, DaemonTyped, LinksTyped
  <1>2. HubTyped'
    <2>1. CASE StartPush(t) \/ ScanVisible(t) \/ SendCopy(t)
      BY <2>1, <1>d DEF StartPush, ScanVisible, SendCopy, hubVars, HubTyped
    <2>2. CASE ScanNothingVisible(t)
      <3>1. /\ hub' = hub
            /\ \/ cursors' = cursors
               \/ cursors' = [cursors EXCEPT ![task[t].conn] = Scanned(task[t].cursor, Page(task[t].cursor))]
        BY <2>2 DEF ScanNothingVisible
      <3> QED  BY <3>1, <1>d, <1>q DEF HubTyped
    <2>3. CASE SendFails(t)
      <3>1. hub' \in {0, hub} /\ cursors' = [cursors EXCEPT ![task[t].conn] = 0]
        BY <2>3 DEF SendFails
      <3>2. 0 \in 0 .. MaxConns /\ 0 \in 0 .. MaxEvents
        BY Bounds
      <3>3. hub' \in 0 .. MaxConns
        BY <3>1, <3>2, <1>d
      <3>4. cursors' \in [Conns -> 0 .. MaxEvents]
        BY <3>1, <3>2, <1>d
      <3> QED  BY <3>3, <3>4 DEF HubTyped
    <2>4. CASE FinishBatch(t)
      <3>1. hub' = hub /\ cursors' = [cursors EXCEPT ![task[t].conn] = task[t].scanned]
        BY <2>4 DEF FinishBatch
      <3> QED  BY <3>1, <1>d, <1>f DEF HubTyped
    <2> QED  BY <2>1, <2>2, <2>3, <2>4
  <1>3. LinksTyped'
    <2>1. CASE StartPush(t) \/ ScanVisible(t) \/ ScanNothingVisible(t) \/ SendFails(t) \/ FinishBatch(t)
      BY <2>1, <1>1, <1>d DEF StartPush, ScanVisible, ScanNothingVisible, SendFails, FinishBatch, LinksTyped
    <2>2. CASE SendCopy(t)
      <3> DEFINE c == task[t].conn
                 w == Append(wire[c], Head(task[t].batch))
      <3>1. wire' = wire \/ wire' = [wire EXCEPT ![c] = w]
        BY <2>2, <1>d DEF SendCopy
      <3>2. c \in Conns /\ task[t].batch # <<>>
        BY <2>2, <1>f DEF SendCopy, OnLink
      <3>3. w \in Seq(Copies)
        <4>1. Head(task[t].batch) \in Copies
          BY <3>2, <1>f
        <4>2. wire[c] \in Seq(Copies)
          BY <3>2, <1>d
        <4> QED  BY <4>1, <4>2
      <3> HIDE DEF w, c
      <3> QED  BY <3>1, <3>3, <1>1, <1>d DEF LinksTyped
    <2> QED  BY <2>1, <2>2
  <1>4. \E next : task' = [task EXCEPT ![t] = next] /\ StageOK(next, Len(records))
    <2>1. CASE StartPush(t)
      <3>1. CASE hub = 0
        <4>1. task' = [task EXCEPT ![t] = Idle]
          BY <2>1, <3>1 DEF StartPush
        <4> QED  BY <4>1, IdleTyped
      <3>2. CASE hub # 0
        <4> DEFINE next == [Idle EXCEPT !.pc = "scan", !.conn = hub, !.cursor = cursors[hub], !.rounds = MaxBatches]
        <4>1. task' = [task EXCEPT ![t] = next]
          BY <2>1, <3>2 DEF StartPush
        <4>2. hub \in Conns
          BY <1>d, <3>2, Bounds
        <4>3. cursors[hub] \in 0 .. MaxEvents
          BY <1>d, <4>2
        <4>4. StageOK(next, Len(records))
          BY <4>2, <4>3, <1>f, NextStages
        <4> HIDE DEF next
        <4> QED  BY <4>1, <4>4
      <3> QED  BY <3>1, <3>2
    <2>2. CASE ScanNothingVisible(t)
      <3> DEFINE next == [task[t] EXCEPT !.cursor = Scanned(task[t].cursor, Page(task[t].cursor)),
                                         !.rounds = task[t].rounds - 1]
      <3>1. \/ task' = [task EXCEPT ![t] = Idle]
            \/ task' = [task EXCEPT ![t] = next] /\ task[t].pc = "scan" /\ task[t].rounds # 1
        BY <2>2 DEF ScanNothingVisible
      <3>2. task[t].pc = "scan" /\ task[t].rounds # 1 => StageOK(next, Len(records))
        BY <1>f, <1>q, NextStages
      <3> HIDE DEF next
      <3> QED  BY <3>1, <3>2, IdleTyped
    <2>3. CASE ScanVisible(t)
      <3> DEFINE next == [task[t] EXCEPT !.pc = "send", !.batch = Expand(Page(task[t].cursor)),
                                         !.scanned = Scanned(task[t].cursor, Page(task[t].cursor))]
      <3>1. task' = [task EXCEPT ![t] = next] /\ task[t].pc = "scan"
        BY <2>3, <1>d DEF ScanVisible
      <3>2. StageOK(next, Len(records))
        BY <1>f, <1>q, <3>1, NextStages DEF OnLink
      <3> HIDE DEF next
      <3> QED  BY <3>1, <3>2
    <2>4. CASE SendCopy(t)
      <3> DEFINE next == [task[t] EXCEPT !.batch = Tail(task[t].batch)]
      <3>1. task' = [task EXCEPT ![t] = next] /\ task[t].batch # <<>>
        BY <2>4, <1>d DEF SendCopy
      <3>2. Tail(task[t].batch) \in Seq(Copies)
        BY <1>f, <3>1
      <3>3. StageOK(next, Len(records))
        BY <1>f, <3>2, NextStages
      <3> HIDE DEF next
      <3> QED  BY <3>1, <3>3
    <2>5. CASE SendFails(t) \/ FinishBatch(t)
      BY <2>5, IdleTyped DEF SendFails, FinishBatch
    <2> QED  BY <2>1, <2>2, <2>3, <2>4, <2>5
  <1>5. TasksTyped'
    <2>1. records' = records /\ Len(records) <= Len(records')
      BY <1>u, <1>f
    <2>2. \E next : task' = [task EXCEPT ![t] = next] /\ StageOK(next, Len(records'))
      BY <1>4, <2>1
    <2> QED  BY <1>1, <2>1, <2>2, OneTask
  <1> QED  BY <1>1, <1>2, <1>3, <1>5 DEF TypeInv

---------------------------------------------------------------------------
\* The steps of a websocket and its handler keep the types.
LEMMA LinkTypes ==
    ASSUME TypeInv, NEW t \in Tasks, AcceptWs(t) \/ RegisterWs(t) \/ RegisterFails(t)
    PROVE  TypeInv'
  <1>u. UNCHANGED <<records, wire, lastEventCursor, revoked, delivered>> /\ ws' \in 0 .. MaxConns
    <2>1. ws \in 0 .. MaxConns /\ 0 \in 0 .. MaxConns
      BY Bounds DEF TypeInv, DaemonTyped
    <2> QED  BY <2>1 DEF AcceptWs, RegisterWs, RegisterFails, daemonVars
  <1>f. /\ StageOK(task[t], Len(records)) /\ Len(records) \in Nat /\ task[t].cursor \in 0 .. MaxEvents
        /\ (OnLink(task[t]) => task[t].conn \in Conns)
    BY TaskFacts
  <1>d. /\ conns \in [Conns -> Links] /\ cursors \in [Conns -> 0 .. MaxEvents] /\ hub \in 0 .. MaxConns
        /\ wire \in [Conns -> Seq(Copies)] /\ base \in 0 .. MaxEvents
        /\ 0 \in 0 .. MaxEvents
    BY Bounds DEF TypeInv, HubTyped, LinksTyped, DaemonTyped
  <1>l. \A c \in Conns : /\ conns[c].raw \in 0 .. MaxEvents
                         /\ \A h \in {"accepted", "live"} : [conns[c] EXCEPT !.handler = h] \in Links
                         /\ [conns[c] EXCEPT !.up = FALSE] \in Links
                         /\ [conns[c] EXCEPT !.up = FALSE, !.handler = "gone"] \in Links
    BY <1>d DEF Links
  <1>r. RecordsTyped' /\ Len(records') = Len(records) /\ Len(records) <= Len(records')
    BY <1>u, <1>f DEF TypeInv, RecordsTyped
  <1>1. CASE AcceptWs(t)
    <2> DEFINE cursor(c) == IF conns[c].raw > 0 THEN conns[c].raw ELSE LatestSeq
    <2>1. PICK c \in Conns :
            /\ conns' = [conns EXCEPT ![c].handler = "accepted"]
            /\ task' = [task EXCEPT ![t] = [Idle EXCEPT !.pc = "register", !.conn = c, !.cursor = cursor(c)]]
            /\ base' \in {base, cursor(c)}
            /\ UNCHANGED <<hub, cursors>>
      BY <1>1 DEF AcceptWs, hubVars
    <2>2. cursor(c) \in 0 .. MaxEvents
      <3>1. LatestSeq \in 0 .. MaxEvents
        BY NewestFacts, <1>f, Bounds DEF TypeInv, RecordsTyped
      <3> QED  BY <3>1, <1>l
    <2> DEFINE k == cursor(c)
    <2> HIDE DEF cursor
    <2>3. TasksTyped'
      <3> DEFINE next == [Idle EXCEPT !.pc = "register", !.conn = c, !.cursor = k]
      <3>1. StageOK(next, Len(records))
        BY <2>2, <1>f, NextStages
      <3>2. task' = [task EXCEPT ![t] = next]
        BY <2>1
      <3> HIDE DEF next
      <3> QED  BY <3>1, <3>2, <1>r, OneTask
    <2>4. HubTyped' /\ DaemonTyped'
      BY <2>1, <2>2, <1>u, <1>d DEF TypeInv, HubTyped, DaemonTyped
    <2>5. LinksTyped'
      <3> DEFINE link == [conns[c] EXCEPT !.handler = "accepted"]
      <3>1. conns' = [conns EXCEPT ![c] = link] /\ link \in Links
        BY <2>1, <1>l, <1>d
      <3> HIDE DEF link
      <3> QED  BY <3>1, <1>u, <1>d DEF LinksTyped
    <2> QED  BY <1>r, <2>3, <2>4, <2>5 DEF TypeInv
  <1>2. ASSUME NEW link \in Links, NEW next, StageOK(next, Len(records)), task[t].conn \in Conns,
               hub' = task[t].conn, base' = base, task' = [task EXCEPT ![t] = next],
               cursors' = [d \in Conns |-> CASE d = task[t].conn -> task[t].cursor
                                             [] d = hub /\ d # task[t].conn -> 0
                                             [] OTHER -> cursors[d]],
               conns' = [d \in Conns |-> CASE d = task[t].conn -> link
                                           [] d = hub /\ d # task[t].conn -> [conns[d] EXCEPT !.up = FALSE]
                                           [] OTHER -> conns[d]]
        PROVE  TypeInv'
    <2> DEFINE c == task[t].conn
    <2>1. /\ hub' = c /\ base' = base /\ c \in Conns /\ task' = [task EXCEPT ![t] = next]
          /\ cursors' = [d \in Conns |-> CASE d = c -> task[t].cursor
                                           [] d = hub /\ d # c -> 0
                                           [] OTHER -> cursors[d]]
          /\ conns' = [d \in Conns |-> CASE d = c -> link
                                         [] d = hub /\ d # c -> [conns[d] EXCEPT !.up = FALSE]
                                         [] OTHER -> conns[d]]
      BY <1>2
    <2> HIDE DEF c
    <2>2. TasksTyped'
      BY <2>1, <1>2, <1>r, OneTask
    <2>3. HubTyped'
      <3>1. hub' \in 0 .. MaxConns
        BY <2>1, Bounds
      <3>2. \A d \in Conns : (CASE d = c -> task[t].cursor
                                [] d = hub /\ d # c -> 0
                                [] OTHER -> cursors[d]) \in 0 .. MaxEvents
        BY <1>d, <1>f
      <3> QED  BY <2>1, <3>1, <3>2 DEF HubTyped
    <2>4. LinksTyped'
      <3>1. \A d \in Conns : (CASE d = c -> link
                                [] d = hub /\ d # c -> [conns[d] EXCEPT !.up = FALSE]
                                [] OTHER -> conns[d]) \in Links
        BY <1>d, <1>l
      <3> QED  BY <2>1, <3>1, <1>u, <1>d DEF LinksTyped
    <2>5. DaemonTyped'
      BY <2>1, <1>u DEF TypeInv, DaemonTyped
    <2> QED  BY <1>r, <2>2, <2>3, <2>4, <2>5 DEF TypeInv
  <1>3. CASE RegisterWs(t)
    <2>1. task[t].conn \in Conns
      BY <1>3, <1>f DEF RegisterWs, OnLink
    <2> DEFINE c == task[t].conn
               link == [conns[c] EXCEPT !.handler = "live"]
               next == [Idle EXCEPT !.pc = "push"]
    <2>2. link \in Links /\ StageOK(next, Len(records))
      BY <1>l, <2>1, IdleTyped
    <2>3. /\ task' = [task EXCEPT ![t] = next] /\ hub' = c /\ base' = base
          /\ cursors' = [d \in Conns |-> CASE d = c -> task[t].cursor
                                           [] d = hub /\ d # c -> 0
                                           [] OTHER -> cursors[d]]
          /\ conns' = [d \in Conns |-> CASE d = c -> link
                                         [] d = hub /\ d # c -> [conns[d] EXCEPT !.up = FALSE]
                                         [] OTHER -> conns[d]]
      BY <1>3 DEF RegisterWs
    <2> HIDE DEF link, next
    <2> QED  BY <1>2, <2>1, <2>2, <2>3
  <1>4. CASE RegisterFails(t)
    <2>1. task[t].conn \in Conns
      BY <1>4, <1>f DEF RegisterFails, OnLink
    <2> DEFINE c == task[t].conn
               link == [conns[c] EXCEPT !.up = FALSE, !.handler = "gone"]
    <2>2. link \in Links /\ StageOK(Idle, Len(records))
      BY <1>l, <2>1, IdleTyped
    <2>3. /\ task' = [task EXCEPT ![t] = Idle] /\ hub' = c /\ base' = base
          /\ cursors' = [d \in Conns |-> CASE d = c -> task[t].cursor
                                           [] d = hub /\ d # c -> 0
                                           [] OTHER -> cursors[d]]
          /\ conns' = [d \in Conns |-> CASE d = c -> link
                                         [] d = hub /\ d # c -> [conns[d] EXCEPT !.up = FALSE]
                                         [] OTHER -> conns[d]]
      BY <1>4 DEF RegisterFails
    <2> HIDE DEF link
    <2> QED  BY <1>2, <2>1, <2>2, <2>3
  <1> QED  BY <1>1, <1>3, <1>4

\* The steps of the daemon and the network, and the end of a handler, keep the types.
LEMMA DaemonTypes ==
    ASSUME TypeInv, (\E c \in Conns : HandlerExit(c)) \/ DaemonConnect \/ Drop \/ Revoke \/ Receive
    PROVE  TypeInv'
  <1>u. UNCHANGED <<records, task, base>>
    BY DEF HandlerExit, DaemonConnect, Drop, Revoke, Receive, daemonVars
  <1>d. /\ conns \in [Conns -> Links] /\ cursors \in [Conns -> 0 .. MaxEvents] /\ hub \in 0 .. MaxConns
        /\ wire \in [Conns -> Seq(Copies)] /\ ws \in 0 .. MaxConns /\ lastEventCursor \in 0 .. MaxEvents
        /\ delivered \in Seq(Copies) /\ revoked \in BOOLEAN
        /\ base \in 0 .. MaxEvents
    BY DEF TypeInv, HubTyped, LinksTyped, DaemonTyped
  <1>z. /\ 0 \in 0 .. MaxEvents /\ 0 \in 0 .. MaxConns /\ <<>> \in Seq(Copies)
        /\ \A c \in Conns : c \in 0 .. MaxConns
        /\ ws # 0 => ws \in Conns
    BY <1>d, Bounds
  <1>l. /\ \A c \in Conns : /\ [conns[c] EXCEPT !.handler = "gone"] \in Links
                            /\ [conns[c] EXCEPT !.up = FALSE] \in Links
        /\ [raw |-> lastEventCursor, up |-> TRUE, handler |-> "new"] \in Links
    BY <1>d DEF Links
  <1>r. RecordsTyped' /\ TasksTyped'
    BY <1>u DEF TypeInv, RecordsTyped, TasksTyped
  <1>1. ASSUME NEW c \in Conns, HandlerExit(c) PROVE TypeInv'
    <2> DEFINE link == [conns[c] EXCEPT !.handler = "gone"]
    <2>1. /\ hub' \in {hub, 0} /\ cursors' = [cursors EXCEPT ![c] = 0]
          /\ conns' = [conns EXCEPT ![c] = link] /\ link \in Links
          /\ UNCHANGED <<wire, ws, lastEventCursor, revoked, delivered, base>>
      BY <1>1, <1>d, <1>l DEF HandlerExit, daemonVars
    <2> HIDE DEF link
    <2>2. hub' \in 0 .. MaxConns
      BY <2>1, <1>d, <1>z
    <2>3. cursors' \in [Conns -> 0 .. MaxEvents]
      BY <2>1, <1>d, <1>z
    <2>4. LinksTyped'
      BY <2>1, <1>d DEF LinksTyped
    <2>5. DaemonTyped'
      BY <2>1, <1>d DEF DaemonTyped
    <2> QED  BY <1>r, <2>2, <2>3, <2>4, <2>5 DEF TypeInv, HubTyped
  <1>2. CASE DaemonConnect
    <2> DEFINE link == [raw |-> lastEventCursor, up |-> TRUE, handler |-> "new"]
    <2>1. PICK c \in Conns : conns' = [conns EXCEPT ![c] = link] /\ ws' = c
      BY <1>2 DEF DaemonConnect
    <2>2. UNCHANGED <<hub, cursors, wire, lastEventCursor, revoked, delivered, base>>
      BY <1>2 DEF DaemonConnect, hubVars
    <2>3. link \in Links
      BY <1>l
    <2> HIDE DEF link
    <2>4. HubTyped' /\ LinksTyped'
      BY <2>1, <2>2, <2>3, <1>d DEF HubTyped, LinksTyped
    <2>5. DaemonTyped'
      BY <2>1, <2>2, <1>d, <1>z DEF DaemonTyped
    <2> QED  BY <1>r, <2>4, <2>5 DEF TypeInv
  <1>3. CASE Drop
    <2>0. ws \in Conns
      BY <1>3 DEF Drop
    <2> DEFINE link == [conns[ws] EXCEPT !.up = FALSE]
    <2>1. /\ conns' = [conns EXCEPT ![ws] = link] /\ link \in Links
          /\ wire' = [wire EXCEPT ![ws] = <<>>] /\ ws' = 0
          /\ UNCHANGED <<hub, cursors, lastEventCursor, revoked, delivered, base>>
      BY <1>3, <2>0, <1>d, <1>l DEF Drop, hubVars
    <2> HIDE DEF link
    <2>2. conns' \in [Conns -> Links]
      BY <2>1, <1>d
    <2>3. wire' \in [Conns -> Seq(Copies)]
      BY <2>1, <1>d, <1>z
    <2>4. HubTyped' /\ DaemonTyped'
      BY <2>1, <1>d, <1>z DEF HubTyped, DaemonTyped
    <2> QED  BY <1>r, <2>2, <2>3, <2>4 DEF TypeInv, LinksTyped
  <1>4. CASE Revoke
    <2>1. revoked' = TRUE /\ ws' = 0 /\ UNCHANGED <<hub, cursors, conns, wire, lastEventCursor, delivered, base>>
      BY <1>4 DEF Revoke, hubVars
    <2> QED  BY <1>r, <2>1, <1>d, <1>z DEF TypeInv, HubTyped, LinksTyped, DaemonTyped
  <1>5. CASE Receive
    <2> DEFINE copy == Head(wire[ws])
               rest == Tail(wire[ws])
    <2>0. ws \in Conns /\ wire[ws] # <<>>
      BY <1>5, <1>z DEF Receive
    <2>1. wire[ws] \in Seq(Copies)
      BY <2>0, <1>d
    <2>2. copy \in Copies /\ rest \in Seq(Copies)
      BY <2>0, <2>1
    <2>3. copy[1] \in 0 .. MaxEvents
      BY <2>2, Bounds
    <2>4. /\ lastEventCursor' \in {copy[1], lastEventCursor} /\ delivered' = Append(delivered, copy)
          /\ wire' = [wire EXCEPT ![ws] = rest]
          /\ UNCHANGED <<hub, cursors, conns, ws, revoked, base>>
      BY <1>5, <1>d DEF Receive, hubVars
    <2> HIDE DEF copy, rest
    <2>5. wire' \in [Conns -> Seq(Copies)]
      BY <2>2, <2>4, <1>d
    <2>6. delivered' \in Seq(Copies)
      BY <2>2, <2>4, <1>d
    <2>7. HubTyped' /\ LinksTyped'
      BY <2>4, <2>5, <1>d DEF HubTyped, LinksTyped
    <2>8. DaemonTyped'
      BY <2>3, <2>4, <2>6, <1>d DEF DaemonTyped
    <2> QED  BY <1>r, <2>7, <2>8 DEF TypeInv
  <1> QED  BY <1>1, <1>2, <1>3, <1>4, <1>5

\* Every step keeps the types.
LEMMA StepTypes == TypeInv /\ [Next]_vars => TypeInv'
  <1> SUFFICES ASSUME TypeInv, [Next]_vars PROVE TypeInv'
    OBVIOUS
  <1>1. CASE UNCHANGED vars
    BY <1>1 DEF vars, TypeInv, RecordsTyped, TasksTyped, HubTyped, LinksTyped, DaemonTyped
  <1> QED
    BY <1>1, RequestTypes, PushTypes, LinkTypes, DaemonTypes DEF Next, TaskStep

\* What is excused are copies.
LEMMA ExcusedTyped ==
    ASSUME TypeInv, excused \in SUBSET Copies, [Next]_vars
    PROVE  excused' \in SUBSET Copies
  <1>1. ASSUME NEW t \in Tasks, CommitEvent(t) PROVE excused' \in SUBSET Copies
    <2> DEFINE s == task[t].seq
    <2>1. s \in 1 .. Len(records) /\ Len(records) \in Nat
      BY <1>1, TaskFacts DEF CommitEvent, StageOK
    <2>2. s \in 1 .. MaxEvents
      BY <2>1, Bounds DEF TypeInv, RecordsTyped
    <2>3. records[s] \in Rows
      BY <2>1 DEF TypeInv, RecordsTyped
    <2>4. {s} \X records[s].visible \subseteq Copies
      BY <2>2, <2>3, Bounds DEF Rows
    <2>5. excused' \in {excused, excused \cup ({s} \X records[s].visible)}
      BY <1>1 DEF CommitEvent
    <2> HIDE DEF s
    <2> QED  BY <2>4, <2>5
  <1>2. ASSUME DaemonConnect PROVE excused' \in SUBSET Copies
    BY <1>2 DEF DaemonConnect, RestOf, Published
  <1>3. ASSUME excused' = excused PROVE excused' \in SUBSET Copies
    BY <1>3
  <1> QED
    BY <1>1, <1>2, <1>3
       DEF Next, TaskStep, vars, InsertEvent, RollbackEvent, StartPush, ScanNothingVisible, ScanVisible,
           SendCopy, SendFails, FinishBatch, RegisterWs, RegisterFails, AcceptWs, HandlerExit, Drop, Revoke,
           Receive

\* TypeOK for every number of agents, coroutines, rows and websockets: the cursors of
\* hub, pushes and daemon stay within the log, and what is sent are copies of its rows.
THEOREM DeliveryTypes == Spec => []TypeOK
  <1> DEFINE Types == TypeInv /\ excused \in SUBSET Copies
  <1>1. Init => Types
    BY InitTypes DEF Init
  <1>2. Types /\ [Next]_vars => Types'
    BY StepTypes, ExcusedTyped
  <1>3. Types => TypeOK
    BY TypesImplied
  <1> QED  BY <1>1, <1>2, <1>3, PTL DEF Spec

---------------------------------------------------------------------------
\* Pushes never overlap.
OneAtATime == \A t, u \in Tasks : t = u

\* The log behind the start of the subscription: the last row, the copies of the
\* rows, and those of them that are owed to the daemon.
Entries == {e \in Published : base < e[1]}

Log == [last |-> LatestSeq, base |-> base, entries |-> Entries, owed |-> Entries \ excused]

\* The copies before the i-th of a sequence, and what a websocket was sent.
Before(w, i) == {w[j] : j \in 1 .. i - 1}

Sent(w, d) == ToSet(w) \cup ToSet(d)

\* The copy e may come after those in S: what is owed before it is there.  When pushes
\* never overlap, it is new and the next in the order of the log.
Fits(g, S, e) ==
    /\ e \in g.entries
    /\ \A d \in g.owed : d[1] < e[1] => d \in S
    /\ OneAtATime => \A d \in S : d[1] <= e[1] /\ d # e

\* Each copy of the sequence may come after S and those before it.
Follows(g, S, w) == \A i \in 1 .. Len(w) : Fits(g, S \cup Before(w, i), w[i])

\* The cursor k is a promise: what is owed up to it is in S.
Covered(g, k, S) == k \in 0 .. g.last /\ \A e \in g.owed : e[1] <= k => e \in S

\* When pushes never overlap, what is behind k is not in S.
Reached(k, S) == OneAtATime => \A e \in S : e[1] <= k

\* A push may go on from k after S was sent.
Complete(g, k, S) == g.base <= k /\ Covered(g, k, S) /\ Reached(k, S)

TaskFollows(g, k, S) ==
    /\ k.pc \in {"scan", "register"} => Complete(g, k.cursor, S)
    /\ k.pc = "send" => Follows(g, S, k.batch) /\ Complete(g, k.scanned, S \cup ToSet(k.batch))

\* The cursor of the hub, which a push under way has not stored yet.
HubFollows(g, k, S, sending) == g.base <= k /\ Covered(g, k, S) /\ (~sending => Reached(k, S))

Sending(c) == \E t \in Tasks : task[t].pc = "send" /\ task[t].conn = c

TaskInv ==
    \A t \in Tasks : OnLink(task[t]) /\ conns[task[t].conn].up =>
        TaskFollows(Log, task[t], Sent(wire[task[t].conn], delivered))

HubInv ==
    hub # 0 /\ conns[hub].up =>
        HubFollows(Log, cursors[hub], Sent(wire[hub], delivered), Sending(hub))

WireInv == ws # 0 => Follows(Log, ToSet(delivered), wire[ws])

\* The daemon's cursor is at the last row it has a copy of.
DaemonFollows(g, k, d) ==
    /\ ToSet(d) \subseteq g.entries
    /\ d = <<>> => k = 0
    /\ d # <<>> => \E e \in ToSet(d) : e[1] = k
    /\ \A e \in ToSet(d) : e[1] <= k
    /\ \A e \in g.owed : e[1] < k => e \in ToSet(d)

DaemonInv == DaemonFollows(Log, lastEventCursor, delivered)

\* A websocket that was just opened asks for what follows the daemon's cursor.
NewInv ==
    \A c \in Conns : conns[c].handler = "new" /\ conns[c].up =>
        conns[c].raw = lastEventCursor /\ Covered(Log, lastEventCursor, ToSet(delivered))

CoverInv == TaskInv /\ HubInv /\ WireInv /\ DaemonInv /\ NewInv

\* A transaction has a row of its own.
OpenInv ==
    /\ \A t \in Tasks : task[t].pc = "open" => records[task[t].seq].state = "open"
    /\ \A t, u \in Tasks : task[t].pc = "open" /\ task[u].pc = "open" /\ task[t].seq = task[u].seq => t = u

\* Only the daemon's websocket is up, it is up until it is accepted, and nothing
\* concerns one before.
LinksInv ==
    /\ \A c \in Conns : conns[c].up => c = ws
    /\ \A c \in Conns : conns[c].handler \in {"none", "new"} =>
            /\ wire[c] = <<>> /\ c # hub
            /\ \A t \in Tasks : OnLink(task[t]) => task[t].conn # c
    /\ \A c \in Conns : conns[c].handler = "none" => ~conns[c].up
    /\ \A c \in Conns : conns[c].handler = "new" /\ c = ws => conns[c].up

PromiseInv == TypeInv /\ OpenInv /\ LinksInv /\ CoverInv

---------------------------------------------------------------------------
\* The log goes on: what is owed more is behind its last row.
Grown(g, h) ==
    /\ g.last \in Nat /\ h.last \in Nat /\ g.last <= h.last /\ h.base = g.base
    /\ g.entries \subseteq h.entries
    /\ \A e \in g.entries : e[1] \in 0 .. g.last
    /\ \A e \in h.owed : e[1] \in Nat /\ (e \in g.owed \/ g.last < e[1])

\* A promise that was kept is kept: what is owed more is behind it, and what was sent stays sent.
LEMMA CoveredStays ==
    ASSUME NEW g, NEW h, Grown(g, h), NEW k, NEW S, NEW T, S \subseteq T, Covered(g, k, S)
    PROVE  Covered(h, k, T)
  <1>1. k \in 0 .. g.last /\ g.last \in Nat /\ h.last \in Nat /\ g.last <= h.last
    BY DEF Covered, Grown
  <1>2. k \in 0 .. h.last
    BY <1>1
  <1>3. ASSUME NEW e \in h.owed, e[1] <= k PROVE e \in T
    <2>1. e[1] \in Nat /\ (e \in g.owed \/ g.last < e[1])
      BY DEF Grown
    <2>2. e \in g.owed
      BY <1>1, <1>3, <2>1
    <2> QED  BY <1>3, <2>2 DEF Covered
  <1> QED  BY <1>2, <1>3 DEF Covered

\* So it is with where a push may go on.
LEMMA CompleteStays ==
    ASSUME NEW g, NEW h, Grown(g, h), NEW k, NEW S, NEW T, S \subseteq T, OneAtATime => S = T, Complete(g, k, S)
    PROVE  Complete(h, k, T)
  <1>1. Covered(h, k, T)
    BY CoveredStays DEF Complete
  <1>2. h.base <= k
    BY DEF Complete, Grown
  <1>3. Reached(k, T)
    BY DEF Complete, Reached
  <1> QED  BY <1>1, <1>2, <1>3 DEF Complete

\* ... and with what may follow what was sent.
LEMMA FollowsStays ==
    ASSUME NEW g, NEW h, Grown(g, h), NEW S, NEW T, S \subseteq T, OneAtATime => S = T, NEW w, Follows(g, S, w)
    PROVE  Follows(h, T, w)
  <1> SUFFICES ASSUME NEW i \in 1 .. Len(w) PROVE Fits(h, T \cup Before(w, i), w[i])
    BY DEF Follows
  <1> DEFINE A == S \cup Before(w, i)
             B == T \cup Before(w, i)
             x == w[i]
  <1>1. Fits(g, A, x) /\ A \subseteq B /\ (OneAtATime => A = B)
    BY DEF Follows
  <1> HIDE DEF A, B, x
  <1>2. x \in g.entries /\ x[1] \in 0 .. g.last /\ x \in h.entries /\ g.last \in Nat
    BY <1>1 DEF Fits, Grown
  <1>3. ASSUME NEW d \in h.owed, d[1] < x[1] PROVE d \in B
    <2>1. d[1] \in Nat /\ (d \in g.owed \/ g.last < d[1])
      BY DEF Grown
    <2>2. d \in g.owed
      BY <1>2, <1>3, <2>1
    <2> QED  BY <1>1, <1>3, <2>2 DEF Fits
  <1>4. OneAtATime => \A d \in B : d[1] <= x[1] /\ d # x
    BY <1>1 DEF Fits
  <1>5. Fits(h, B, x)
    BY <1>2, <1>3, <1>4 DEF Fits
  <1> QED  BY <1>5 DEF B, x

\* So are the promises of a push.
LEMMA TaskStays ==
    ASSUME NEW g, NEW h, Grown(g, h), NEW k, NEW S, NEW T, S \subseteq T, OneAtATime => S = T, TaskFollows(g, k, S)
    PROVE  TaskFollows(h, k, T)
  <1>1. CASE k.pc \in {"scan", "register"}
    BY <1>1, CompleteStays DEF TaskFollows
  <1>2. CASE k.pc = "send"
    <2>1. Follows(g, S, k.batch) /\ Complete(g, k.scanned, S \cup ToSet(k.batch))
      BY <1>2 DEF TaskFollows
    <2>2. S \cup ToSet(k.batch) \subseteq T \cup ToSet(k.batch)
          /\ (OneAtATime => S \cup ToSet(k.batch) = T \cup ToSet(k.batch))
      OBVIOUS
    <2>3. Complete(h, k.scanned, T \cup ToSet(k.batch))
      BY <2>1, <2>2, CompleteStays
    <2>4. Follows(h, T, k.batch)
      BY <2>1, FollowsStays
    <2> QED  BY <1>2, <2>3, <2>4 DEF TaskFollows
  <1>3. CASE k.pc \notin {"scan", "register", "send"}
    BY <1>3 DEF TaskFollows
  <1> QED  BY <1>1, <1>2, <1>3

---------------------------------------------------------------------------
\* A sequence without its head, and one with an element more.
LEMMA SentFacts ==
    ASSUME NEW w \in Seq(Copies)
    PROVE  /\ Len(w) \in Nat /\ \A i \in 1 .. Len(w) : w[i] \in ToSet(w) /\ Before(w, i) \subseteq ToSet(w)
           /\ \A e \in ToSet(w) : e \in Copies /\ \E i \in 1 .. Len(w) : w[i] = e
           /\ \A x \in Copies :
                /\ Append(w, x) \in Seq(Copies) /\ Append(w, x) # <<>>
                /\ ToSet(Append(w, x)) = ToSet(w) \cup {x}
                /\ Len(Append(w, x)) = Len(w) + 1 /\ Append(w, x)[Len(w) + 1] = x
                /\ Before(Append(w, x), Len(w) + 1) = ToSet(w)
                /\ \A i \in 1 .. Len(w) : Append(w, x)[i] = w[i] /\ Before(Append(w, x), i) = Before(w, i)
           /\ w # <<>> =>
                /\ Head(w) = w[1] /\ Head(w) \in Copies /\ Tail(w) \in Seq(Copies) /\ 1 \in 1 .. Len(w)
                /\ Before(w, 1) = {}
                /\ ToSet(w) = {Head(w)} \cup ToSet(Tail(w))
                /\ \A i \in 1 .. Len(Tail(w)) :
                     /\ i + 1 \in 1 .. Len(w) /\ Tail(w)[i] = w[i + 1]
                     /\ Before(w, i + 1) = {Head(w)} \cup Before(Tail(w), i)
  <1>1. Len(w) \in Nat /\ DOMAIN w = 1 .. Len(w) /\ \A i \in 1 .. Len(w) : w[i] \in Copies
    OBVIOUS
  <1>2. ToSet(w) = Before(w, Len(w) + 1)
    <2>1. 1 .. (Len(w) + 1) - 1 = 1 .. Len(w)
      BY <1>1
    <2> QED  BY <1>1, <2>1 DEF ToSet, Before
  <1>3. /\ \A i \in 1 .. Len(w) : w[i] \in ToSet(w) /\ Before(w, i) \subseteq ToSet(w)
        /\ \A e \in ToSet(w) : e \in Copies /\ \E i \in 1 .. Len(w) : w[i] = e
    <2>1. \A i \in 1 .. Len(w) : \A j \in 1 .. i - 1 : j \in 1 .. Len(w)
      BY <1>1
    <2> QED  BY <1>1, <2>1 DEF ToSet, Before
  <1>4. ASSUME NEW x \in Copies
        PROVE  /\ Append(w, x) \in Seq(Copies) /\ Append(w, x) # <<>>
               /\ ToSet(Append(w, x)) = ToSet(w) \cup {x}
               /\ Len(Append(w, x)) = Len(w) + 1 /\ Append(w, x)[Len(w) + 1] = x
               /\ Before(Append(w, x), Len(w) + 1) = ToSet(w)
               /\ \A i \in 1 .. Len(w) : Append(w, x)[i] = w[i] /\ Before(Append(w, x), i) = Before(w, i)
    <2> DEFINE v == Append(w, x)
               l == Len(w)
    <2>1. /\ Len(v) = l + 1 /\ v[l + 1] = x /\ DOMAIN v = 1 .. l + 1 /\ v \in Seq(Copies)
          /\ \A i \in 1 .. l : v[i] = w[i]
      BY <1>1
    <2>2. v # <<>>
      <3>1. Len(v) # 0
        BY <2>1, <1>1
      <3> HIDE DEF v
      <3>2. Len(<<>>) = 0
        OBVIOUS
      <3> QED  BY <3>1, <3>2
    <2> HIDE DEF v
    <2>3. ASSUME NEW i \in 1 .. l + 1 PROVE Before(v, i) = Before(w, i)
      <3>1. \A j \in 1 .. i - 1 : v[j] = w[j]
        BY <2>1, <1>1
      <3> QED  BY <3>1 DEF Before
    <2>4. l + 1 \in 1 .. l + 1 /\ \A i \in 1 .. l : i \in 1 .. l + 1
      BY <1>1
    <2>5. ToSet(v) = ToSet(w) \cup {x}
      <3>1. \A j \in 1 .. l + 1 : j \in 1 .. l \/ j = l + 1
        BY <1>1
      <3>2. ToSet(v) \subseteq ToSet(w) \cup {x}
        BY <2>1, <3>1, <1>1 DEF ToSet
      <3>3. ToSet(w) \subseteq ToSet(v) /\ x \in ToSet(v)
        BY <2>1, <2>4, <1>1 DEF ToSet
      <3> QED  BY <3>2, <3>3
    <2> QED  BY <1>2, <2>1, <2>2, <2>3, <2>4, <2>5 DEF v
  <1>5. ASSUME w # <<>>
        PROVE  /\ Head(w) = w[1] /\ Head(w) \in Copies /\ Tail(w) \in Seq(Copies) /\ 1 \in 1 .. Len(w)
               /\ Before(w, 1) = {}
               /\ ToSet(w) = {Head(w)} \cup ToSet(Tail(w))
               /\ \A i \in 1 .. Len(Tail(w)) :
                    /\ i + 1 \in 1 .. Len(w) /\ Tail(w)[i] = w[i + 1]
                    /\ Before(w, i + 1) = {Head(w)} \cup Before(Tail(w), i)
    <2> DEFINE v == Tail(w)
               l == Len(w)
               h == Head(w)
    <2>1. /\ h = w[1] /\ h \in Copies /\ v \in Seq(Copies) /\ Len(v) = l - 1 /\ 1 \in 1 .. l
          /\ DOMAIN v = 1 .. l - 1
          /\ \A i \in 1 .. l - 1 : i + 1 \in 1 .. l /\ v[i] = w[i + 1]
      BY <1>1, <1>5
    <2> HIDE DEF v, h
    <2>2. Before(w, 1) = {}
      <3>1. 1 .. 1 - 1 = {}
        OBVIOUS
      <3> QED  BY <3>1 DEF Before
    <2>3. ASSUME NEW i \in 1 .. l PROVE Before(w, i + 1) = {h} \cup Before(v, i)
      <3>0. i \in Nat /\ i - 1 <= l - 1 /\ (i + 1) - 1 = i
        BY <1>1
      <3>1. \A j \in 1 .. i - 1 : j + 1 \in 1 .. i /\ v[j] = w[j + 1]
        BY <3>0, <2>1, <1>1
      <3>2. \A j \in 1 .. i : j = 1 \/ (j - 1 \in 1 .. i - 1 /\ (j - 1) + 1 = j)
        BY <3>0
      <3>3. 1 \in 1 .. i
        BY <3>0
      <3>4. Before(v, i) \subseteq Before(w, i + 1) /\ h \in Before(w, i + 1)
        BY <3>0, <3>1, <3>3, <2>1 DEF Before
      <3>5. ASSUME NEW j \in 1 .. i PROVE w[j] = h \/ w[j] \in Before(v, i)
        <4>1. CASE j = 1
          BY <4>1, <2>1
        <4>2. CASE j # 1
          <5>1. v[j - 1] = w[j]
            BY <4>2, <3>1, <3>2
          <5> QED  BY <5>1, <4>2, <3>2 DEF Before
        <4> QED  BY <4>1, <4>2
      <3>6. Before(w, i + 1) \subseteq {h} \cup Before(v, i)
        BY <3>0, <3>5 DEF Before
      <3> QED  BY <3>4, <3>6
    <2>4. ToSet(w) = {h} \cup ToSet(v)
      <3>1. l \in 1 .. l
        BY <1>1, <2>1
      <3>2. ToSet(v) = Before(v, l)
        BY <2>1 DEF ToSet, Before
      <3> QED  BY <3>1, <3>2, <2>3, <1>2
    <2>5. \A i \in 1 .. l - 1 : i \in 1 .. l
      BY <1>1
    <2> QED  BY <2>1, <2>2, <2>3, <2>4, <2>5 DEF v, h
  <1> QED  BY <1>1, <1>3, <1>4, <1>5

\* What follows S is a first copy that fits and a rest that follows both.
LEMMA FollowsHead ==
    ASSUME NEW w \in Seq(Copies), w # <<>>, NEW g, NEW S, Follows(g, S, w)
    PROVE  Fits(g, S, Head(w)) /\ Follows(g, S \cup {Head(w)}, Tail(w))
  <1>1. /\ Head(w) = w[1] /\ 1 \in 1 .. Len(w) /\ Before(w, 1) = {}
        /\ \A i \in 1 .. Len(Tail(w)) :
             /\ i + 1 \in 1 .. Len(w) /\ Tail(w)[i] = w[i + 1]
             /\ Before(w, i + 1) = {Head(w)} \cup Before(Tail(w), i)
    BY SentFacts
  <1>2. Fits(g, S, Head(w))
    <2>1. S \cup Before(w, 1) = S
      BY <1>1
    <2> QED  BY <1>1, <2>1 DEF Follows
  <1>3. ASSUME NEW i \in 1 .. Len(Tail(w))
        PROVE  Fits(g, (S \cup {Head(w)}) \cup Before(Tail(w), i), Tail(w)[i])
    <2>1. Fits(g, S \cup Before(w, i + 1), w[i + 1])
      BY <1>1 DEF Follows
    <2>2. S \cup Before(w, i + 1) = (S \cup {Head(w)}) \cup Before(Tail(w), i)
      BY <1>1
    <2> QED  BY <1>1, <2>1, <2>2
  <1> QED  BY <1>2, <1>3 DEF Follows

\* A copy that fits at the end may be sent.
LEMMA FollowsAppend ==
    ASSUME NEW w \in Seq(Copies), NEW x \in Copies, NEW g, NEW S, Follows(g, S, w), Fits(g, S \cup ToSet(w), x)
    PROVE  Follows(g, S, Append(w, x))
  <1> DEFINE v == Append(w, x)
             l == Len(w)
  <1>1. /\ l \in Nat /\ Len(v) = l + 1 /\ v[l + 1] = x /\ Before(v, l + 1) = ToSet(w)
        /\ \A i \in 1 .. l : v[i] = w[i] /\ Before(v, i) = Before(w, i)
    BY SentFacts
  <1> HIDE DEF v, l
  <1>2. ASSUME NEW i \in 1 .. Len(v) PROVE Fits(g, S \cup Before(v, i), v[i])
    <2>1. CASE i = l + 1
      BY <1>1, <2>1
    <2>2. CASE i # l + 1
      <3>1. i \in 1 .. l
        BY <1>1, <2>2
      <3> QED  BY <1>1, <3>1 DEF Follows, l
    <2> QED  BY <2>1, <2>2
  <1> QED  BY <1>2 DEF Follows, v

---------------------------------------------------------------------------
\* The largest number of a set is the one CHOOSE finds.
LEMMA TheLast ==
    ASSUME NEW C, NEW n \in C, \A r \in C : r \in Nat /\ r <= n
    PROVE  (CHOOSE s \in C : \A r \in C : r <= s) = n
  <1> DEFINE m == CHOOSE s \in C : \A r \in C : r <= s
  <1>1. m \in C /\ \A r \in C : r <= m
    OBVIOUS
  <1> HIDE DEF m
  <1>2. m <= n /\ n <= m /\ m \in Nat /\ n \in Nat
    BY <1>1
  <1>3. m = n
    BY <1>2
  <1> QED  BY <1>3 DEF m

\* What the log has: the copies of the committed rows, behind the start of the subscription.
LEMMA LogFacts ==
    ASSUME TypeInv
    PROVE  /\ LatestSeq \in Nat /\ base \in Nat /\ Committed \subseteq 1 .. Len(records)
           /\ LatestSeq \in Committed \cup {0}
           /\ \A s \in Committed : s \in Nat /\ s <= LatestSeq /\ records[s].visible \subseteq Agents
           /\ \A s : \A a : <<s, a>> \in Published <=> s \in Committed /\ a \in records[s].visible
           /\ \A e \in Published :
                  e \in Copies /\ e[1] \in Committed /\ e[2] \in records[e[1]].visible /\ e = <<e[1], e[2]>>
           /\ \A e \in Entries : e \in Published /\ base < e[1] /\ e[1] \in 0 .. LatestSeq
  <1>1. records \in Seq(Rows) /\ Len(records) <= MaxEvents /\ base \in Nat /\ MaxEvents \in Nat
    BY Bounds DEF TypeInv, RecordsTyped, DaemonTyped
  <1>2. Len(records) \in Nat /\ \A s \in 1 .. Len(records) : s \in 1 .. MaxEvents /\ records[s] \in Rows
    BY <1>1
  <1>3. /\ Committed \in SUBSET (1 .. Len(records)) /\ LatestSeq \in 0 .. Len(records)
        /\ LatestSeq \in Committed \cup {0} /\ \A s \in Committed : s <= LatestSeq
    BY <1>1, NewestFacts
  <1>4. \A s \in Committed : s \in Nat /\ s <= LatestSeq /\ records[s].visible \subseteq Agents /\ s \in 1 .. MaxEvents
    BY <1>2, <1>3 DEF Rows
  <1>5. \A e \in Published :
            e \in Copies /\ e[1] \in Committed /\ e[2] \in records[e[1]].visible /\ e = <<e[1], e[2]>>
    BY DEF Published, VisibleTo, Copies
  <1>6. ASSUME NEW s, NEW a PROVE <<s, a>> \in Published <=> s \in Committed /\ a \in records[s].visible
    <2>1. ASSUME s \in Committed, a \in records[s].visible PROVE <<s, a>> \in Published
      <3>1. <<s, a>> \in Copies
        BY <1>4, <2>1, Bounds
      <3> QED  BY <2>1, <3>1 DEF Published, VisibleTo
    <2> QED  BY <2>1, <1>5
  <1>7. \A e \in Entries : e \in Published /\ base < e[1] /\ e[1] \in 0 .. LatestSeq
    <2>1. \A e \in Entries : e \in Published /\ base < e[1]
      BY DEF Entries
    <2>2. LatestSeq \in Nat
      BY <1>2, <1>3
    <2> QED  BY <2>1, <2>2, <1>4, <1>5
  <1> QED  BY <1>1, <1>2, <1>3, <1>4, <1>5, <1>6, <1>7

\* A step that commits nothing leaves the log as it is, though more of it may be excused.
LEMMA SameLog ==
    ASSUME TypeInv, base' = base, excused \subseteq excused', Committed' = Committed,
           \A s \in Committed : records'[s].visible = records[s].visible
    PROVE  Published' = Published /\ LatestSeq' = LatestSeq /\ Grown(Log, Log')
           /\ (excused' = excused => Log' = Log)
  <1>1. Published' = Published
    <2>1. \A a : VisibleTo(a)' = VisibleTo(a)
      BY DEF VisibleTo
    <2>2. Copies' = Copies
      BY DEF Copies, Seqs
    <2>3. \A e \in Copies : e[1] \in VisibleTo(e[2])' <=> e[1] \in VisibleTo(e[2])
      BY <2>1
    <2> QED  BY <2>2, <2>3 DEF Published
  <1>2. LatestSeq' = LatestSeq
    BY DEF LatestSeq
  <1>3. Entries' = Entries
    BY <1>1 DEF Entries
  <1>4. LatestSeq \in Nat /\ \A e \in Entries : e[1] \in 0 .. LatestSeq
    BY LogFacts
  <1>5. Grown(Log, Log')
    BY <1>2, <1>3, <1>4 DEF Grown, Log
  <1>6. excused' = excused => Log' = Log
    BY <1>2, <1>3 DEF Log
  <1> QED  BY <1>1, <1>2, <1>5, <1>6

\* A row is inserted or its transaction rolls back: nothing is committed.
LEMMA NothingCommitted ==
    ASSUME TypeInv, OpenInv, NEW t \in Tasks, InsertEvent(t) \/ RollbackEvent(t)
    PROVE  Committed' = Committed /\ \A s \in Committed : records'[s].visible = records[s].visible
  <1>1. /\ records \in Seq(Rows) /\ Len(records) \in Nat /\ DOMAIN records = 1 .. Len(records)
        /\ \A s \in 1 .. Len(records) : DOMAIN records[s] = {"visible", "state"}
    <2>1. records \in Seq(Rows)
      BY DEF TypeInv, RecordsTyped
    <2>2. \A s \in 1 .. Len(records) : records[s] \in Rows
      BY <2>1
    <2>3. \A row \in Rows : DOMAIN row = {"visible", "state"}
      BY DEF Rows
    <2> QED  BY <2>1, <2>2, <2>3
  <1>2. CASE InsertEvent(t)
    <2>1. PICK visible \in SUBSET Agents : records' = Append(records, [visible |-> visible, state |-> "open"])
      BY <1>2 DEF InsertEvent
    <2>2. /\ DOMAIN records' = 1 .. Len(records) + 1 /\ records'[Len(records) + 1].state = "open"
          /\ \A s \in 1 .. Len(records) : records'[s] = records[s]
      BY <2>1, <1>1
    <2>3. \A s : s \in 1 .. Len(records) + 1 <=> s \in 1 .. Len(records) \/ s = Len(records) + 1
      BY <1>1
    <2>4. \A s : s \in Committed' <=> s \in Committed
      BY <2>2, <2>3, <1>1 DEF Committed
    <2> QED  BY <2>2, <2>4, <1>1 DEF Committed
  <1>3. CASE RollbackEvent(t)
    <2> DEFINE n == task[t].seq
    <2>1. n \in 1 .. Len(records) /\ records[n].state = "open"
      BY <1>3, TaskFacts DEF RollbackEvent, StageOK, OpenInv
    <2>2. records' = [records EXCEPT ![n].state = "aborted"]
      BY <1>3 DEF RollbackEvent
    <2> HIDE DEF n
    <2>3. /\ DOMAIN records' = 1 .. Len(records) /\ records'[n].state = "aborted"
          /\ \A s \in 1 .. Len(records) : s # n => records'[s] = records[s]
      BY <2>1, <2>2, <1>1
    <2>4. \A s : s \in Committed' <=> s \in Committed
      BY <2>1, <2>3, <1>1 DEF Committed
    <2>5. \A s \in Committed : s # n /\ s \in 1 .. Len(records)
      BY <2>1, <1>1 DEF Committed
    <2> QED  BY <2>3, <2>4, <2>5
  <1> QED  BY <1>2, <1>3

\* A row commits: its copies join the log, and unless they are its last ones they are excused.
LEMMA CommitLog ==
    ASSUME TypeInv, OpenInv, NEW t \in Tasks, CommitEvent(t)
    PROVE  LET s == task[t].seq IN
           /\ s \in 1 .. MaxEvents /\ s \notin Committed /\ records[s].visible \subseteq Agents
           /\ Published' = Published \cup ({s} \X records[s].visible)
           /\ LatestSeq' = IF s > LatestSeq THEN s ELSE LatestSeq
           /\ excused' = IF s > LatestSeq THEN excused ELSE excused \cup ({s} \X records[s].visible)
           /\ Grown(Log, Log')
  <1> DEFINE s == task[t].seq
             new == {s} \X records[s].visible
  <1>1. /\ records \in Seq(Rows) /\ Len(records) \in Nat /\ DOMAIN records = 1 .. Len(records)
        /\ \A r \in 1 .. Len(records) : DOMAIN records[r] = {"visible", "state"} /\ records[r].visible \subseteq Agents
        /\ Len(records) <= MaxEvents
    <2>1. records \in Seq(Rows) /\ Len(records) <= MaxEvents
      BY DEF TypeInv, RecordsTyped
    <2>2. \A r \in 1 .. Len(records) : records[r] \in Rows
      BY <2>1
    <2>3. \A row \in Rows : DOMAIN row = {"visible", "state"} /\ row.visible \subseteq Agents
      BY DEF Rows
    <2> QED  BY <2>1, <2>2, <2>3
  <1>2. s \in 1 .. Len(records) /\ records[s].state = "open"
    BY TaskFacts DEF CommitEvent, StageOK, OpenInv
  <1>3. s \in 1 .. MaxEvents /\ s \in Nat /\ s # 0 /\ s \notin Committed /\ records[s].visible \subseteq Agents
    BY <1>1, <1>2, Bounds DEF Committed
  <1>4. records' = [records EXCEPT ![s].state = "committed"] /\ base' = base
        /\ excused' = IF LatestSeq > s THEN excused \cup new ELSE excused
    BY DEF CommitEvent
  <1> HIDE DEF s
  <1>5. /\ DOMAIN records' = 1 .. Len(records) /\ records'[s].state = "committed"
        /\ \A r \in 1 .. Len(records) :
             records'[r].visible = records[r].visible /\ (r # s => records'[r].state = records[r].state)
    BY <1>1, <1>2, <1>4
  <1>6. Committed' = Committed \cup {s}
    <2>1. \A r : r \in Committed' <=> r \in Committed \cup {s}
      BY <1>1, <1>2, <1>5 DEF Committed
    <2> QED  BY <2>1
  <1>7. /\ LatestSeq \in Nat /\ LatestSeq \in Committed \cup {0} /\ Committed \subseteq 1 .. Len(records)
        /\ \A r \in Committed : r \in Nat /\ r <= LatestSeq
        /\ \A e \in Entries : e[1] \in 0 .. LatestSeq
    BY LogFacts
  <1>8. Published' = Published \cup new
    <2>1. Copies' = Copies
      BY DEF Copies, Seqs
    <2>2. \A e \in Copies : e \in Published' <=> e[1] \in Committed \cup {s} /\ e[2] \in records'[e[1]].visible
      BY <2>1, <1>6 DEF Published, VisibleTo
    <2>3. \A e \in Copies : e \in Published <=> e[1] \in Committed /\ e[2] \in records[e[1]].visible
      BY DEF Published, VisibleTo
    <2>4. \A r \in Committed \cup {s} : records'[r].visible = records[r].visible
      BY <1>2, <1>5, <1>7
    <2>5. \A e \in Copies : e \in new <=> e[1] = s /\ e[2] \in records[e[1]].visible
      BY DEF Copies
    <2>6. \A e \in Copies : e \in Published' <=> e \in Published \/ e \in new
      BY <2>2, <2>3, <2>4, <2>5
    <2>7. new \subseteq Copies /\ Published \subseteq Copies /\ Published' \subseteq Copies
      BY <1>3, <2>1, Bounds DEF Published
    <2> HIDE DEF new
    <2> QED  BY <2>6, <2>7
  <1>9. LatestSeq' = IF s > LatestSeq THEN s ELSE LatestSeq
    <2> DEFINE D == Committed \cup {s}
    <2>1. LatestSeq' = CHOOSE r \in D : \A q \in D : q <= r
      BY <1>6 DEF LatestSeq
    <2>2. CASE s > LatestSeq
      <3>1. s \in D /\ \A r \in D : r \in Nat /\ r <= s
        BY <1>3, <1>7, <2>2
      <3> HIDE DEF D
      <3> QED  BY <2>1, <2>2, <3>1, TheLast
    <2>3. CASE ~(s > LatestSeq)
      <3>1. LatestSeq \in D /\ \A r \in D : r \in Nat /\ r <= LatestSeq
        BY <1>3, <1>7, <2>3
      <3> HIDE DEF D
      <3> QED  BY <2>1, <2>3, <3>1, TheLast
    <2> QED  BY <2>2, <2>3
  <1>10. s # LatestSeq
    BY <1>3, <1>7
  <1>11. excused' = IF s > LatestSeq THEN excused ELSE excused \cup new
    BY <1>3, <1>4, <1>7, <1>10
  <1> HIDE DEF new
  <1>12. \A e \in new : e[1] = s
    BY DEF new
  <1>13. Grown(Log, Log')
    <2>1. /\ Log.last = LatestSeq /\ Log'.last = LatestSeq' /\ Log.base = base /\ Log'.base = base
          /\ Log.entries = Entries /\ Log'.entries = Entries'
          /\ Log.owed = Entries \ excused /\ Log'.owed = Entries' \ excused'
      BY <1>4 DEF Log
    <2>2. LatestSeq' \in Nat /\ LatestSeq <= LatestSeq'
      BY <1>3, <1>7, <1>9
    <2>3. Entries' = {e \in Published \cup new : base < e[1]}
      BY <1>4, <1>8 DEF Entries
    <2>4. Entries \subseteq Entries'
      BY <2>3 DEF Entries
    <2>5. ASSUME NEW e \in Entries' \ excused' PROVE e[1] \in Nat /\ (e \in Entries \ excused \/ LatestSeq < e[1])
      <3>1. e \notin excused
        BY <1>11
      <3>2. CASE e \in Published
        <4>1. e \in Entries
          BY <3>2, <2>3 DEF Entries
        <4>2. e[1] \in Nat
          BY <4>1, <1>7
        <4> QED  BY <3>1, <4>1, <4>2
      <3>3. CASE e \in new
        <4>1. s > LatestSeq
          BY <1>11, <3>3
        <4>2. e[1] = s
          BY <1>12, <3>3
        <4>3. LatestSeq < e[1] /\ e[1] \in Nat
          BY <4>1, <4>2, <1>3, <1>7
        <4> QED  BY <4>3
      <3> QED  BY <2>3, <3>2, <3>3
    <2> QED  BY <1>7, <2>1, <2>2, <2>4, <2>5 DEF Grown
  <1> QED  BY <1>3, <1>8, <1>9, <1>11, <1>13 DEF s, new

---------------------------------------------------------------------------
\* A page is sent in order, and its end is a place to go on from.
LEMMA PageFollows ==
    ASSUME TypeInv, NEW k \in Nat, NEW S \in SUBSET Copies, Complete(Log, k, S)
    PROVE  LET e == Expand(Page(k))
               z == Scanned(k, Page(k))
           IN  Follows(Log, S, e) /\ Complete(Log, z, S \cup ToSet(e))
  <1> DEFINE P == Page(k)
             e == Expand(P)
             z == Scanned(k, P)
             n == Len(records)
  <1>1. /\ LatestSeq \in Nat /\ base \in Nat /\ Committed \subseteq 1 .. n /\ n \in Nat
        /\ \A s \in Committed : s \in Nat /\ s <= LatestSeq
        /\ \A s : \A a : <<s, a>> \in Published <=> s \in Committed /\ a \in records[s].visible
        /\ \A d \in Published :
               d \in Copies /\ d[1] \in Committed /\ d[2] \in records[d[1]].visible /\ d = <<d[1], d[2]>>
        /\ \A d \in Entries : d \in Published /\ base < d[1]
    BY LogFacts, Bounds DEF TypeInv, RecordsTyped
  <1>2. /\ P \in SUBSET Committed /\ P \in SUBSET (1 .. n)
        /\ P = {} => z = k
        /\ P # {} => z \in P
        /\ \A s \in P : s <= z
        /\ \A s \in Committed : k < s /\ s <= z => s \in P
        /\ \A s \in P : k < s
    <2>1. \A s \in P : k < s
      BY DEF Page
    <2> QED  BY <2>1, PageFacts DEF TypeInv, RecordsTyped
  <1>3. /\ e \in Seq(Copies)
        /\ \A i \in 1 .. Len(e) : e[i][1] \in P /\ e[i][2] \in records[e[i][1]].visible
        /\ \A i, j \in 1 .. Len(e) : i < j => e[i][1] <= e[j][1] /\ e[i] # e[j]
        /\ \A r \in P : \A a \in records[r].visible : \E i \in 1 .. Len(e) : e[i] = <<r, a>>
    <2>1. Expanded(e, P, n)
      BY <1>2, ExpandFacts DEF TypeInv, RecordsTyped
    <2>2. \A r \in P : r <= n
      BY <1>1, <1>2
    <2> HIDE DEF e, P, n
    <2> QED  BY <2>1, <2>2 DEF Expanded
  <1> HIDE DEF P, e, z, n
  <1>4. /\ Len(e) \in Nat
        /\ \A i \in 1 .. Len(e) : e[i] \in Copies /\ e[i] \in ToSet(e) /\ e[i] = <<e[i][1], e[i][2]>>
        /\ \A d \in ToSet(e) : \E i \in 1 .. Len(e) : e[i] = d
    <2>1. \A d \in Copies : d = <<d[1], d[2]>>
      BY DEF Copies
    <2>2. /\ Len(e) \in Nat
          /\ \A i \in 1 .. Len(e) : e[i] \in ToSet(e)
          /\ \A d \in ToSet(e) : d \in Copies /\ \E i \in 1 .. Len(e) : e[i] = d
      BY <1>3, SentFacts
    <2> QED  BY <2>1, <2>2
  <1>5. \A s \in P : s \in Nat /\ k < s /\ base < s /\ s <= z
    BY <1>1, <1>2 DEF Complete, Log
  <1>6. z \in Nat /\ k <= z /\ z <= LatestSeq
    <2>1. k <= LatestSeq
      BY <1>1 DEF Complete, Covered, Log
    <2>2. CASE P = {}
      BY <2>1, <2>2, <1>2
    <2>3. CASE P # {}
      <3>1. z \in P
        BY <2>3, <1>2
      <3>2. z \in Committed
        BY <3>1, <1>2
      <3> QED  BY <3>1, <3>2, <1>1, <1>5
    <2> QED  BY <2>2, <2>3
  <1>7. base <= k
    BY DEF Complete, Log
  <1>8. ASSUME NEW d \in Log.owed, d[1] <= z, d \notin S
        PROVE  d[1] \in P /\ \E i \in 1 .. Len(e) : e[i] = d
    <2>1. d \in Published
      BY <1>1 DEF Log
    <2>2. ~(d[1] <= k)
      BY <1>8 DEF Complete, Covered
    <2>3. d[1] \in Committed /\ d[1] \in Nat /\ d[2] \in records[d[1]].visible /\ d = <<d[1], d[2]>>
      BY <2>1, <1>1
    <2>4. k < d[1]
      BY <2>2, <2>3
    <2>5. d[1] \in P
      BY <2>3, <2>4, <1>2, <1>8
    <2> QED  BY <2>3, <2>5, <1>3
  <1>9. ASSUME OneAtATime, NEW d \in S PROVE d[1] \in Nat /\ d[1] <= k
    <2>1. d[1] <= k
      BY <1>9 DEF Complete, Reached
    <2>2. d[1] \in Nat
      BY Bounds DEF Copies
    <2> QED  BY <2>1, <2>2
  <1>10. ASSUME NEW i \in 1 .. Len(e) PROVE Fits(Log, S \cup Before(e, i), e[i])
    <2> DEFINE x == e[i]
    <2>0. x[1] \in P /\ x[1] \in Nat /\ x[1] <= z /\ k < x[1] /\ base < x[1] /\ i \in Nat
      BY <1>3, <1>4, <1>5
    <2>1. x \in Log.entries
      <3>1. x[1] \in Committed
        BY <2>0, <1>2
      <3>2. x \in Published
        <4>1. <<x[1], x[2]>> \in Published
          BY <3>1, <1>1, <1>3
        <4> QED  BY <4>1, <1>4
      <3>3. x \in Entries
        BY <2>0, <3>2 DEF Entries
      <3> QED  BY <3>3 DEF Log
    <2>2. ASSUME NEW d \in Log.owed, d[1] < x[1] PROVE d \in S \cup Before(e, i)
      <3> SUFFICES ASSUME d \notin S PROVE d \in Before(e, i)
        OBVIOUS
      <3>1. d[1] \in Nat
        BY <1>1 DEF Log
      <3>2. d[1] <= z
        BY <2>0, <2>2, <3>1, <1>6
      <3>3. PICK j \in 1 .. Len(e) : e[j] = d
        BY <3>2, <1>8
      <3>4. j # i
        BY <3>1, <3>3, <2>0, <2>2
      <3>5. ~(i < j)
        <4>1. i < j => x[1] <= d[1]
          BY <1>3, <3>3
        <4> QED  BY <4>1, <3>1, <2>0, <2>2
      <3>6. j \in 1 .. i - 1
        BY <3>4, <3>5, <2>0, <1>4
      <3> QED  BY <3>3, <3>6 DEF Before
    <2>3. ASSUME OneAtATime, NEW d \in S \cup Before(e, i) PROVE d[1] <= x[1] /\ d # x
      <3>1. CASE d \in S
        <4>1. d[1] \in Nat /\ d[1] <= k
          BY <1>9, <2>3, <3>1
        <4>2. d[1] < x[1]
          BY <4>1, <2>0
        <4> QED  BY <4>1, <4>2, <2>0
      <3>2. CASE d \in Before(e, i)
        <4>1. PICK j \in 1 .. i - 1 : d = e[j]
          BY <3>2 DEF Before
        <4>2. j \in 1 .. Len(e) /\ j < i
          BY <2>0, <1>4
        <4> QED  BY <4>1, <4>2, <1>3
      <3> QED  BY <2>3, <3>1, <3>2
    <2> QED  BY <2>1, <2>2, <2>3 DEF Fits
  <1>11. Complete(Log, z, S \cup ToSet(e))
    <2>1. Log.base <= z
      BY <1>1, <1>6, <1>7 DEF Log
    <2>2. Covered(Log, z, S \cup ToSet(e))
      <3>1. z \in 0 .. Log.last
        BY <1>6, <1>1 DEF Log
      <3>2. \A d \in Log.owed : d[1] <= z => d \in S \cup ToSet(e)
        BY <1>4, <1>8
      <3> QED  BY <3>1, <3>2 DEF Covered
    <2>3. Reached(z, S \cup ToSet(e))
      <3> SUFFICES ASSUME OneAtATime, NEW d \in S \cup ToSet(e) PROVE d[1] <= z
        BY DEF Reached
      <3>1. CASE d \in S
        BY <3>1, <1>6, <1>9
      <3>2. CASE d \in ToSet(e)
        <4>1. PICK i \in 1 .. Len(e) : e[i] = d
          BY <3>2, <1>4
        <4> QED  BY <4>1, <1>3, <1>5
      <3> QED  BY <3>1, <3>2
    <2> QED  BY <2>1, <2>2, <2>3 DEF Complete
  <1>12. Follows(Log, S, e)
    BY <1>10 DEF Follows
  <1> QED  BY <1>11, <1>12 DEF P, e, z

---------------------------------------------------------------------------
\* The daemon's cursor stays at the last row it has.
LEMMA DaemonStays ==
    ASSUME NEW g, NEW h, Grown(g, h), NEW k, NEW d, DaemonFollows(g, k, d)
    PROVE  DaemonFollows(h, k, d) /\ k \in 0 .. g.last
  <1>1. g.last \in Nat /\ k \in 0 .. g.last
    <2>1. CASE d = <<>>
      BY <2>1 DEF DaemonFollows, Grown
    <2>2. CASE d # <<>>
      BY <2>2 DEF DaemonFollows, Grown
    <2> QED  BY <2>1, <2>2 DEF Grown
  <1>2. ASSUME NEW e \in h.owed, e[1] < k PROVE e \in ToSet(d)
    <2>1. e[1] \in Nat /\ (e \in g.owed \/ g.last < e[1])
      BY DEF Grown
    <2>2. e \in g.owed
      BY <1>1, <1>2, <2>1
    <2> QED  BY <1>2, <2>2 DEF DaemonFollows
  <1>3. ToSet(d) \subseteq h.entries
    BY DEF DaemonFollows, Grown
  <1> QED  BY <1>1, <1>2, <1>3 DEF DaemonFollows

\* A step that sends and receives nothing: it is enough to look at the coroutines that go on.
LEMMA CoverKept ==
    ASSUME TypeInv, CoverInv, Grown(Log, Log'), UNCHANGED <<lastEventCursor, delivered>>,
           \A c \in Conns : conns'[c].up =>
               /\ conns[c].up /\ wire'[c] = wire[c]
               /\ conns'[c].handler = "new" => conns[c].handler = "new" /\ conns'[c].raw = conns[c].raw,
           ws' # 0 => ws' = ws /\ wire'[ws] = wire[ws],
           \A u \in Tasks :
               \/ task'[u] = task[u]
               \/ OnLink(task'[u]) =>
                      /\ task'[u].conn \in Conns
                      /\ conns[task'[u].conn].up =>
                             TaskFollows(Log', task'[u], Sent(wire[task'[u].conn], delivered))
    PROVE  TaskInv' /\ WireInv' /\ DaemonInv' /\ NewInv'
  <1>1. TaskInv'
    <2> SUFFICES ASSUME NEW u \in Tasks, OnLink(task'[u]), conns'[task'[u].conn].up
                 PROVE  TaskFollows(Log', task'[u], Sent(wire'[task'[u].conn], delivered'))
      BY DEF TaskInv
    <2>1. CASE task'[u] = task[u]
      <3> DEFINE c == task[u].conn
      <3>1. c \in Conns
        BY <2>1, TaskFacts
      <3>2. conns[c].up /\ wire'[c] = wire[c]
        BY <2>1, <3>1
      <3>3. TaskFollows(Log, task[u], Sent(wire[c], delivered))
        BY <2>1, <3>2 DEF CoverInv, TaskInv
      <3>4. TaskFollows(Log', task[u], Sent(wire[c], delivered))
        <4> DEFINE S == Sent(wire[c], delivered)
        <4>1. S \subseteq S /\ (OneAtATime => S = S)
          OBVIOUS
        <4> HIDE DEF S
        <4> QED  BY <3>3, <4>1, TaskStays DEF S
      <3> QED  BY <2>1, <3>2, <3>4
    <2>2. CASE task'[u] # task[u]
      <3> DEFINE c == task'[u].conn
      <3>1. c \in Conns /\ (conns[c].up => TaskFollows(Log', task'[u], Sent(wire[c], delivered)))
        BY <2>2
      <3> QED  BY <3>1
    <2> QED  BY <2>1, <2>2
  <1>2. WireInv'
    <2> SUFFICES ASSUME ws' # 0 PROVE Follows(Log', ToSet(delivered'), wire'[ws'])
      BY DEF WireInv
    <2> DEFINE S == ToSet(delivered)
    <2>1. Follows(Log, S, wire[ws])
      BY DEF CoverInv, WireInv
    <2>2. S \subseteq S /\ (OneAtATime => S = S)
      OBVIOUS
    <2> HIDE DEF S
    <2>3. Follows(Log', S, wire[ws])
      BY <2>1, <2>2, FollowsStays
    <2> QED  BY <2>3 DEF S
  <1>3. DaemonInv'
    <2>1. DaemonFollows(Log', lastEventCursor, delivered)
      BY DaemonStays DEF CoverInv, DaemonInv
    <2> QED  BY <2>1 DEF DaemonInv
  <1>4. NewInv'
    <2> SUFFICES ASSUME NEW c \in Conns, conns'[c].handler = "new", conns'[c].up
                 PROVE  conns'[c].raw = lastEventCursor' /\ Covered(Log', lastEventCursor', ToSet(delivered'))
      BY DEF NewInv
    <2>1. conns[c].handler = "new" /\ conns[c].up /\ conns'[c].raw = conns[c].raw
      OBVIOUS
    <2>2. conns[c].raw = lastEventCursor /\ Covered(Log, lastEventCursor, ToSet(delivered))
      BY <2>1 DEF CoverInv, NewInv
    <2>3. ToSet(delivered) \subseteq ToSet(delivered)
      OBVIOUS
    <2>4. Covered(Log', lastEventCursor, ToSet(delivered))
      BY <2>2, <2>3, CoveredStays
    <2> QED  BY <2>1, <2>2, <2>4
  <1> QED  BY <1>1, <1>2, <1>3, <1>4

\* The hub's cursor is the one before, or one that a push may go on from.
LEMMA HubKept ==
    ASSUME CoverInv, Grown(Log, Log'), delivered' = delivered,
           hub' # 0 /\ conns'[hub'].up =>
               \/ /\ hub' = hub /\ conns[hub].up /\ cursors'[hub] = cursors[hub] /\ wire'[hub] = wire[hub]
                  /\ \A c : c = hub /\ Sending(c) => Sending(c)'
               \/ Complete(Log', cursors'[hub'], Sent(wire'[hub'], delivered))
    PROVE  HubInv'
  <1> SUFFICES ASSUME hub' # 0, conns'[hub'].up
               PROVE  HubFollows(Log', cursors'[hub'], Sent(wire'[hub'], delivered'), Sending(hub)')
    BY DEF HubInv
  <1>1. CASE Complete(Log', cursors'[hub'], Sent(wire'[hub'], delivered))
    BY <1>1 DEF Complete, HubFollows
  <1>2. CASE ~Complete(Log', cursors'[hub'], Sent(wire'[hub'], delivered))
    <2> DEFINE k == cursors[hub]
               S == Sent(wire[hub], delivered)
    <2>1. /\ hub' = hub /\ conns[hub].up /\ cursors'[hub'] = k /\ Sent(wire'[hub'], delivered') = S
          /\ Sending(hub) => Sending(hub)'
      <3>1. hub' = hub /\ conns[hub].up /\ cursors'[hub] = cursors[hub] /\ wire'[hub] = wire[hub]
        BY <1>2
      <3>2. \A c : c = hub /\ Sending(c) => Sending(c)'
        BY <1>2
      <3>3. Sending(hub) => Sending(hub)'
        <4> SUFFICES ASSUME Sending(hub) PROVE Sending(hub)'
          OBVIOUS
        <4>1. PICK c : c = hub
          OBVIOUS
        <4>2. Sending(c)
          BY <4>1
        <4>3. Sending(c)'
          BY <4>1, <4>2, <3>2
        <4> QED  BY <4>1, <4>3, <3>1 DEF Sending
      <3> QED  BY <3>1, <3>3
    <2>2. HubFollows(Log, k, S, Sending(hub))
      BY <2>1 DEF CoverInv, HubInv
    <2>3. S \subseteq S
      OBVIOUS
    <2> HIDE DEF k, S
    <2>4. Covered(Log', k, S)
      BY <2>2, <2>3, CoveredStays DEF HubFollows
    <2>5. Log'.base <= k /\ (~Sending(hub)' => Reached(k, S))
      BY <2>1, <2>2 DEF HubFollows, Grown
    <2>6. HubFollows(Log', k, S, Sending(hub)')
      BY <2>4, <2>5 DEF HubFollows
    <2> QED  BY <2>1, <2>6
  <1> QED  BY <1>1, <1>2

\* A step that opens no websocket.
LEMMA LinksKept ==
    ASSUME TypeInv, LinksInv,
           \A c \in Conns :
               /\ conns'[c].up => conns[c].up /\ c = ws'
               /\ conns'[c].handler \in {"none", "new"} =>
                      conns[c].handler = conns'[c].handler /\ wire'[c] \in {wire[c], <<>>}
               /\ conns'[c].handler = "new" /\ c = ws' => c = ws /\ (conns[c].up => conns'[c].up)
               /\ c = hub' => c = hub \/ conns'[c].handler \notin {"none", "new"},
           \A u \in Tasks : OnLink(task'[u]) =>
               \/ OnLink(task[u]) /\ task'[u].conn = task[u].conn
               \/ \A c \in Conns : task'[u].conn = c => conns'[c].handler \notin {"none", "new"}
    PROVE  LinksInv'
  <1>1. ASSUME NEW c \in Conns, conns'[c].handler \in {"none", "new"}
        PROVE  /\ wire'[c] = <<>> /\ c # hub'
               /\ \A u \in Tasks : OnLink(task'[u]) => task'[u].conn # c
               /\ conns'[c].handler = "none" => ~conns'[c].up
    <2>1. /\ conns[c].handler \in {"none", "new"} /\ wire[c] = <<>> /\ c # hub
          /\ \A u \in Tasks : OnLink(task[u]) => task[u].conn # c
          /\ conns'[c].handler = "none" => ~conns[c].up
      BY <1>1 DEF LinksInv
    <2>2. \A u \in Tasks : OnLink(task'[u]) => task'[u].conn # c
      BY <1>1, <2>1
    <2>3. c # hub' /\ wire'[c] = <<>>
      BY <1>1, <2>1
    <2> QED  BY <1>1, <2>1, <2>2, <2>3
  <1>2. \A c \in Conns : conns'[c].up => c = ws'
    OBVIOUS
  <1>3. \A c \in Conns : conns'[c].handler = "none" => ~conns'[c].up
    BY <1>1
  <1>4. \A c \in Conns : conns'[c].handler = "new" /\ c = ws' => conns'[c].up
    BY DEF LinksInv
  <1> QED  BY <1>1, <1>2, <1>3, <1>4 DEF LinksInv

\* A step that leaves the transactions alone.
LEMMA OpenKept ==
    ASSUME OpenInv, records' = records, \A u \in Tasks : task'[u] = task[u] \/ task'[u].pc # "open"
    PROVE  OpenInv'
  BY DEF OpenInv

---------------------------------------------------------------------------
\* The copies on a websocket are copies.
LEMMA SentTyped ==
    ASSUME TypeInv, NEW c \in Conns
    PROVE  wire[c] \in Seq(Copies) /\ delivered \in Seq(Copies) /\ Sent(wire[c], delivered) \in SUBSET Copies
  <1>1. wire[c] \in Seq(Copies) /\ delivered \in Seq(Copies)
    BY DEF TypeInv, LinksTyped, DaemonTyped
  <1>2. ToSet(wire[c]) \subseteq Copies /\ ToSet(delivered) \subseteq Copies
    BY <1>1, SentFacts
  <1> QED  BY <1>1, <1>2 DEF Sent

\* A transaction keeps its row to itself.
LEMMA RequestOpens ==
    ASSUME TypeInv, OpenInv, NEW t \in Tasks, InsertEvent(t) \/ CommitEvent(t) \/ RollbackEvent(t)
    PROVE  OpenInv' /\ (\A u \in Tasks : task'[u] = task[u] \/ ~OnLink(task'[u]))
           /\ \A c : Sending(c) => Sending(c)'
  <1>0. /\ records \in Seq(Rows) /\ Len(records) \in Nat /\ DOMAIN records = 1 .. Len(records)
        /\ \A s \in 1 .. Len(records) : DOMAIN records[s] = {"visible", "state"}
        /\ DOMAIN task = Tasks
        /\ \A u \in Tasks : task[u].pc = "open" => task[u].seq \in 1 .. Len(records)
    <2>1. records \in Seq(Rows) /\ DOMAIN task = Tasks
      BY TaskFacts DEF TypeInv, RecordsTyped
    <2>2. \A s \in 1 .. Len(records) : records[s] \in Rows
      BY <2>1
    <2>3. \A row \in Rows : DOMAIN row = {"visible", "state"}
      BY DEF Rows
    <2>4. \A u \in Tasks : task[u].pc = "open" => task[u].seq \in 1 .. Len(records)
      BY TaskFacts DEF StageOK
    <2> QED  BY <2>1, <2>2, <2>3, <2>4
  <1>1. /\ Idle.pc = "idle" /\ [Idle EXCEPT !.pc = "push"].pc = "push"
        /\ \A s : [Idle EXCEPT !.pc = "open", !.seq = s].pc = "open" /\ [Idle EXCEPT !.pc = "open", !.seq = s].seq = s
    BY DEF Idle
  <1>2. CASE InsertEvent(t)
    <2>1. PICK visible \in SUBSET Agents : records' = Append(records, [visible |-> visible, state |-> "open"])
      BY <1>2 DEF InsertEvent
    <2>2. /\ records'[Len(records) + 1].state = "open"
          /\ \A s \in 1 .. Len(records) : records'[s] = records[s]
      BY <2>1, <1>0
    <2>3. /\ task'[t].pc = "open" /\ task'[t].seq = Len(records) + 1 /\ task[t].pc = "idle"
          /\ \A u \in Tasks : u # t => task'[u] = task[u]
      BY <1>0, <1>1, <1>2 DEF InsertEvent
    <2>4. Len(records) + 1 \notin 1 .. Len(records)
      BY <1>0
    <2>5. \A u \in Tasks : task'[u].pc = "open" => records'[task'[u].seq].state = "open"
      BY <1>0, <2>2, <2>3 DEF OpenInv
    <2>6. \A u, v \in Tasks : task'[u].pc = "open" /\ task'[v].pc = "open" /\ task'[u].seq = task'[v].seq => u = v
      BY <1>0, <2>3, <2>4 DEF OpenInv
    <2>7. OpenInv'
      BY <2>5, <2>6 DEF OpenInv
    <2> QED  BY <2>3, <2>7 DEF OnLink, Sending
  <1>3. CASE CommitEvent(t) \/ RollbackEvent(t)
    <2>0. /\ task[t].pc = "open" /\ task'[t].pc \in {"idle", "push"}
          /\ \A u \in Tasks : u # t => task'[u] = task[u]
      BY <1>0, <1>1, <1>3 DEF CommitEvent, RollbackEvent
    <2>q. \E state : records' = [records EXCEPT ![task[t].seq].state = state]
      BY <1>3 DEF CommitEvent, RollbackEvent
    <2> DEFINE n == task[t].seq
    <2>1. n \in 1 .. Len(records) /\ \A u \in Tasks : u # t /\ task[u].pc = "open" => task[u].seq # n
      BY <1>0, <2>0 DEF OpenInv
    <2> HIDE DEF n
    <2>2. \A s \in 1 .. Len(records) : s # n => records'[s] = records[s]
      BY <2>1, <2>q, <1>0 DEF n
    <2>3. task'[t].pc \in {"idle", "push"} /\ \A u \in Tasks : u # t => task'[u] = task[u]
      BY <2>0
    <2>4. \A u \in Tasks : task'[u].pc = "open" => records'[task'[u].seq].state = "open"
      BY <1>0, <2>1, <2>2, <2>3 DEF OpenInv
    <2>5. \A u, v \in Tasks : task'[u].pc = "open" /\ task'[v].pc = "open" /\ task'[u].seq = task'[v].seq => u = v
      BY <2>3 DEF OpenInv
    <2>6. OpenInv'
      BY <2>4, <2>5 DEF OpenInv
    <2> QED  BY <2>0, <2>6 DEF OnLink, Sending
  <1> QED  BY <1>2, <1>3

\* A request handler sends nothing, and what it commits is behind every promise or excused.
LEMMA RequestKeeps ==
    ASSUME TypeInv, OpenInv, LinksInv, CoverInv,
           NEW t \in Tasks, InsertEvent(t) \/ CommitEvent(t) \/ RollbackEvent(t)
    PROVE  OpenInv' /\ LinksInv' /\ CoverInv'
  <1>1. UNCHANGED <<hub, cursors, conns, wire, ws, lastEventCursor, delivered, base>>
    BY DEF InsertEvent, CommitEvent, RollbackEvent, hubVars, daemonVars
  <1>2. /\ OpenInv' /\ \A u \in Tasks : task'[u] = task[u] \/ ~OnLink(task'[u])
        /\ \A c : Sending(c) => Sending(c)'
    BY RequestOpens
  <1>3. Grown(Log, Log')
    <2>1. CASE CommitEvent(t)
      BY <2>1, CommitLog
    <2>2. CASE InsertEvent(t) \/ RollbackEvent(t)
      <3>1. excused' = excused
        BY <2>2 DEF InsertEvent, RollbackEvent
      <3> QED  BY <1>1, <2>2, <3>1, NothingCommitted, SameLog
    <2> QED  BY <2>1, <2>2
  <1>4. LinksInv'
    <2>1. \A c \in Conns : conns'[c].up => conns[c].up /\ c = ws'
      BY <1>1 DEF LinksInv
    <2>2. \A u \in Tasks : OnLink(task'[u]) => OnLink(task[u]) /\ task'[u].conn = task[u].conn
      BY <1>2
    <2> QED  BY <1>1, <2>1, <2>2, LinksKept
  <1>5. TaskInv' /\ WireInv' /\ DaemonInv' /\ NewInv'
    BY <1>1, <1>2, <1>3, CoverKept
  <1>6. HubInv'
    BY <1>1, <1>2, <1>3, HubKept
  <1> QED  BY <1>2, <1>4, <1>5, <1>6 DEF CoverInv

---------------------------------------------------------------------------
\* The steps of a push but the sends: what a query returns, and where the cursor goes.
LEMMA PushKeeps ==
    ASSUME TypeInv, OpenInv, LinksInv, CoverInv, NEW t \in Tasks,
           \/ StartPush(t) \/ ScanNothingVisible(t) \/ ScanVisible(t) \/ SendFails(t) \/ FinishBatch(t)
    PROVE  OpenInv' /\ LinksInv' /\ CoverInv'
  <1>1. UNCHANGED <<records, conns, wire, ws, lastEventCursor, delivered, base, excused>>
    BY DEF StartPush, ScanNothingVisible, ScanVisible, SendFails, FinishBatch, hubVars, daemonVars
  <1>2. /\ DOMAIN task = Tasks /\ task[t] \in Coroutines /\ cursors \in [Conns -> 0 .. MaxEvents]
        /\ hub \in 0 .. MaxConns /\ task[t].cursor \in Nat
    BY TaskFacts, Bounds DEF TypeInv, HubTyped
  <1>g. Log' = Log /\ Grown(Log, Log) /\ Grown(Log, Log')
    <2>1. Committed' = Committed /\ \A s \in Committed : records'[s].visible = records[s].visible
      BY <1>1 DEF Committed
    <2>2. excused \subseteq excused' /\ excused' = excused /\ base' = base
      BY <1>1
    <2>3. Log' = Log /\ Grown(Log, Log')
      BY <2>1, <2>2, SameLog
    <2> QED  BY <2>3
  <1> DEFINE c == task[t].conn
             k == task[t].cursor
             e == Expand(Page(k))
             z == Scanned(k, Page(k))
             S == Sent(wire[c], delivered)
  <1>3. \A u \in Tasks : u # t => task'[u] = task[u]
    BY <1>2 DEF StartPush, ScanNothingVisible, ScanVisible, SendFails, FinishBatch
  <1>4. ASSUME OnLink(task[t]) PROVE c \in Conns /\ conns[c].handler \notin {"none", "new"}
    BY <1>4, TaskFacts DEF LinksInv
  <1>5. ASSUME task[t].pc = "scan", conns[c].up
        PROVE  Follows(Log, S, e) /\ Complete(Log, z, S \cup ToSet(e))
    <2>1. OnLink(task[t])
      BY <1>5 DEF OnLink
    <2>2. TaskFollows(Log, task[t], S)
      BY <1>5, <2>1 DEF CoverInv, TaskInv
    <2>3. Complete(Log, k, S)
      BY <1>5, <2>2 DEF TaskFollows
    <2>4. S \in SUBSET Copies
      BY <1>4, <2>1, SentTyped
    <2>5. k \in Nat
      BY <1>2
    <2> HIDE DEF k, S
    <2> QED  BY <2>3, <2>4, <2>5, PageFollows
  <1> HIDE DEF c, k, e, z, S
  <1>6. ASSUME task'[t].pc # "open", hub' \in {hub, 0},
               \/ cursors' = cursors /\ (task[t].pc = "send" /\ task[t].conn = hub /\ hub' # 0 => ~conns[hub].up)
               \/ /\ OnLink(task[t]) /\ \A d \in Conns : d # c => cursors'[d] = cursors[d]
                  /\ conns[c].up => Complete(Log, cursors'[c], S),
               task[t].pc = "send" => OnLink(task[t]),
               \/ ~OnLink(task'[t])
               \/ /\ task'[t].conn \in Conns /\ conns[task'[t].conn].handler \notin {"none", "new"}
                  /\ conns[task'[t].conn].up =>
                         TaskFollows(Log, task'[t], Sent(wire[task'[t].conn], delivered))
        PROVE  OpenInv' /\ LinksInv' /\ CoverInv'
    <2>1. OpenInv'
      BY <1>1, <1>3, <1>6, OpenKept
    <2>2. LinksInv'
      <3>1. \A d \in Conns : conns'[d].up => conns[d].up /\ d = ws'
        BY <1>1 DEF LinksInv
      <3>2. \A d \in Conns : d = hub' => d = hub
        BY <1>6, Bounds
      <3>3. \A u \in Tasks : OnLink(task'[u]) =>
               \/ OnLink(task[u]) /\ task'[u].conn = task[u].conn
               \/ \A d \in Conns : task'[u].conn = d => conns'[d].handler \notin {"none", "new"}
        BY <1>1, <1>3, <1>6
      <3> QED  BY <1>1, <3>1, <3>2, <3>3, LinksKept
    <2>3. TaskInv' /\ WireInv' /\ DaemonInv' /\ NewInv'
      <3>1. \A u \in Tasks :
               \/ task'[u] = task[u]
               \/ OnLink(task'[u]) =>
                      /\ task'[u].conn \in Conns
                      /\ conns[task'[u].conn].up =>
                             TaskFollows(Log', task'[u], Sent(wire[task'[u].conn], delivered))
        BY <1>g, <1>3, <1>6
      <3> QED  BY <1>1, <1>g, <3>1, CoverKept
    <2>4. HubInv'
      <3> SUFFICES ASSUME hub' # 0, conns'[hub'].up
                   PROVE  \/ /\ hub' = hub /\ conns[hub].up /\ cursors'[hub] = cursors[hub] /\ wire'[hub] = wire[hub]
                             /\ \A d : d = hub /\ Sending(d) => Sending(d)'
                          \/ Complete(Log', cursors'[hub'], Sent(wire'[hub'], delivered))
        BY <1>1, <1>g, HubKept
      <3>1. hub' = hub /\ hub # 0 /\ hub \in Conns /\ conns[hub].up
        BY <1>1, <1>2, <1>6, Bounds
      <3>2. CASE OnLink(task[t]) /\ c = hub /\ Complete(Log, cursors'[c], S)
        BY <1>1, <1>g, <3>1, <3>2 DEF S
      <3>3. CASE ~(OnLink(task[t]) /\ c = hub /\ Complete(Log, cursors'[c], S))
        <4>1. cursors'[hub] = cursors[hub]
          BY <1>6, <3>1, <3>3
        <4>2. ~(task[t].pc = "send" /\ task[t].conn = hub)
          BY <1>6, <3>1, <3>3 DEF c
        <4>3. \A d : d = hub /\ Sending(d) => Sending(d)'
          BY <1>3, <4>2 DEF Sending
        <4> QED  BY <1>1, <3>1, <4>1, <4>3
      <3> QED  BY <3>2, <3>3
    <2> QED  BY <2>1, <2>2, <2>3, <2>4 DEF CoverInv
  <1>i. Idle.pc = "idle" /\ ~OnLink(Idle)
    BY DEF Idle, OnLink
  <1>7. CASE StartPush(t)
    <2>1. UNCHANGED <<hub, cursors>> /\ task[t].pc = "push"
      BY <1>7 DEF StartPush, hubVars
    <2>2. CASE hub = 0
      <3>1. task'[t] = Idle
        BY <1>2, <1>7, <2>2 DEF StartPush
      <3> QED  BY <2>1, <3>1, <1>i, <1>6
    <2>3. CASE hub # 0
      <3>1. hub \in Conns /\ conns[hub].handler \notin {"none", "new"}
        BY <1>2, <2>3, Bounds DEF LinksInv
      <3>2. task'[t].conn = hub /\ task'[t].pc = "scan" /\ task'[t].cursor = cursors[hub]
        BY <1>2, <1>7, <2>3 DEF StartPush, Idle
      <3>3. conns[hub].up => TaskFollows(Log, task'[t], Sent(wire[hub], delivered))
        <4> SUFFICES ASSUME conns[hub].up PROVE TaskFollows(Log, task'[t], Sent(wire[hub], delivered))
          OBVIOUS
        <4>1. HubFollows(Log, cursors[hub], Sent(wire[hub], delivered), Sending(hub))
          BY <2>3 DEF CoverInv, HubInv
        <4>2. OneAtATime => ~Sending(hub)
          BY <2>1 DEF OneAtATime, Sending
        <4>3. Reached(cursors[hub], Sent(wire[hub], delivered))
          BY <4>1, <4>2 DEF HubFollows, Reached
        <4>4. Complete(Log, cursors[hub], Sent(wire[hub], delivered))
          BY <4>1, <4>3 DEF HubFollows, Complete
        <4> QED  BY <3>2, <4>4 DEF TaskFollows
      <3> QED  BY <2>1, <3>1, <3>2, <3>3, <1>6
    <2> QED  BY <2>2, <2>3
  <1>8. CASE ScanNothingVisible(t)
    <2>1. task[t].pc = "scan" /\ e = <<>> /\ hub' = hub
      BY <1>8 DEF ScanNothingVisible, e, k
    <2>2. OnLink(task[t])
      BY <2>1 DEF OnLink
    <2>3. conns[c].up => Complete(Log, z, S)
      <3>1. ToSet(<<>>) = {}
        BY DEF ToSet
      <3>2. S \cup ToSet(e) = S
        BY <2>1, <3>1
      <3> QED  BY <3>2, <1>5, <2>1
    <2>4. \/ cursors' = cursors
          \/ cursors' = [cursors EXCEPT ![c] = z]
      BY <1>8 DEF ScanNothingVisible, c, z, k
    <2>5. \/ task'[t] = Idle
          \/ task'[t].pc = "scan" /\ task'[t].conn = c /\ task'[t].cursor = z
      <3>1. \/ task'[t] = Idle
            \/ task'[t] = [task[t] EXCEPT !.cursor = z, !.rounds = task[t].rounds - 1]
        BY <1>2, <1>8 DEF ScanNothingVisible, z, k
      <3>3. ASSUME NEW q \in Coroutines, NEW r
            PROVE  /\ [q EXCEPT !.cursor = z, !.rounds = r].pc = q.pc
                   /\ [q EXCEPT !.cursor = z, !.rounds = r].conn = q.conn
                   /\ [q EXCEPT !.cursor = z, !.rounds = r].cursor = z
        BY DEF Coroutines
      <3>4. CASE task'[t] = [task[t] EXCEPT !.cursor = z, !.rounds = task[t].rounds - 1]
        BY <1>2, <2>1, <3>3, <3>4 DEF c
      <3> QED  BY <3>1, <3>4
    <2>6. task'[t].pc = "scan" /\ task'[t].conn = c /\ task'[t].cursor = z =>
               (conns[c].up => TaskFollows(Log, task'[t], Sent(wire[c], delivered)))
      BY <2>3 DEF TaskFollows, S
    <2>7. \/ cursors' = cursors
          \/ (\A d \in Conns : d # c => cursors'[d] = cursors[d]) /\ cursors'[c] = z
      BY <2>4, <2>2, <1>2, <1>4
    <2>8. /\ task'[t].pc # "open"
          /\ \/ ~OnLink(task'[t])
             \/ /\ task'[t].conn \in Conns /\ conns[task'[t].conn].handler \notin {"none", "new"}
                /\ conns[task'[t].conn].up =>
                       TaskFollows(Log, task'[t], Sent(wire[task'[t].conn], delivered))
      BY <2>2, <2>5, <2>6, <1>4, <1>i
    <2> QED  BY <2>1, <2>2, <2>3, <2>7, <2>8, <1>6
  <1>9. CASE ScanVisible(t)
    <2>1. task[t].pc = "scan" /\ UNCHANGED <<hub, cursors>>
      BY <1>9 DEF ScanVisible, hubVars
    <2>2. OnLink(task[t])
      BY <2>1 DEF OnLink
    <2>3. /\ task'[t].pc = "send" /\ task'[t].conn = c /\ task'[t].batch = e /\ task'[t].scanned = z
      <3>1. task'[t] = [task[t] EXCEPT !.pc = "send", !.batch = e, !.scanned = z]
        BY <1>2, <1>9 DEF ScanVisible, e, z, k
      <3> QED  BY <1>2, <3>1 DEF Coroutines, c
    <2>4. conns[c].up => TaskFollows(Log, task'[t], Sent(wire[c], delivered))
      BY <2>1, <2>3, <1>5 DEF TaskFollows, S
    <2> QED  BY <2>1, <2>2, <2>3, <2>4, <1>4, <1>6
  <1>10. CASE SendFails(t)
    <2>1. /\ hub' \in {hub, 0} /\ cursors' = [cursors EXCEPT ![c] = 0] /\ task' = [task EXCEPT ![t] = Idle]
          /\ task[t].pc = "send" /\ ~conns[c].up
      BY <1>10 DEF SendFails, c
    <2>2. task'[t] = Idle
      BY <2>1, <1>2
    <2>3. OnLink(task[t]) /\ \A d \in Conns : d # c => cursors'[d] = cursors[d]
      BY <2>1, <1>2 DEF OnLink
    <2> QED  BY <2>1, <2>2, <2>3, <1>6, <1>i
  <1>11. CASE FinishBatch(t)
    <2>1. /\ task[t].pc = "send" /\ task[t].batch = <<>> /\ hub' = hub
          /\ cursors' = [cursors EXCEPT ![c] = task[t].scanned] /\ task' = [task EXCEPT ![t] = Idle]
      BY <1>11 DEF FinishBatch, c
    <2>2. task'[t] = Idle /\ OnLink(task[t])
      BY <2>1, <1>2 DEF OnLink
    <2>3. conns[c].up => Complete(Log, task[t].scanned, S)
      <3> SUFFICES ASSUME conns[c].up PROVE Complete(Log, task[t].scanned, S)
        OBVIOUS
      <3>1. TaskFollows(Log, task[t], S)
        BY <2>2 DEF CoverInv, TaskInv, c, S
      <3>2. Complete(Log, task[t].scanned, S \cup ToSet(task[t].batch))
        BY <2>1, <3>1 DEF TaskFollows
      <3>3. ToSet(<<>>) = {}
        BY DEF ToSet
      <3>4. S \cup ToSet(task[t].batch) = S
        BY <2>1, <3>3
      <3> QED  BY <3>2, <3>4
    <2>4. cursors'[c] = task[t].scanned /\ \A d \in Conns : d # c => cursors'[d] = cursors[d]
      BY <2>1, <2>2, <1>2, <1>4
    <2> QED  BY <2>1, <2>2, <2>3, <2>4, <1>6, <1>i
  <1> QED  BY <1>7, <1>8, <1>9, <1>10, <1>11

---------------------------------------------------------------------------
\* A step that leaves the log alone.
LEMMA LogKept ==
    ASSUME TypeInv, UNCHANGED <<records, base, excused>>
    PROVE  Log' = Log /\ Grown(Log, Log) /\ Grown(Log, Log') /\ Published' = Published /\ LatestSeq' = LatestSeq
  <1>1. Committed' = Committed /\ \A s \in Committed : records'[s].visible = records[s].visible
    BY DEF Committed
  <1>2. excused \subseteq excused' /\ excused' = excused /\ base' = base
    OBVIOUS
  <1>3. Log' = Log /\ Grown(Log, Log') /\ Published' = Published /\ LatestSeq' = LatestSeq
    BY <1>1, <1>2, SameLog
  <1> QED  BY <1>3

\* A copy is sent: what its websocket was sent grows by what the page loses.
LEMMA SendKeeps ==
    ASSUME TypeInv, OpenInv, LinksInv, CoverInv, NEW t \in Tasks, SendCopy(t)
    PROVE  OpenInv' /\ LinksInv' /\ CoverInv'
  <1> DEFINE c == task[t].conn
             b == task[t].batch
             x == Head(b)
             w == wire[c]
  <1>1. /\ UNCHANGED <<records, hub, cursors, conns, ws, lastEventCursor, delivered, base, excused>>
        /\ task[t].pc = "send" /\ b # <<>> /\ OnLink(task[t])
        /\ wire' = IF conns[c].up THEN [wire EXCEPT ![c] = Append(w, x)] ELSE wire
        /\ wire \in [Conns -> Seq(Copies)]
    BY DEF SendCopy, hubVars, daemonVars, OnLink, TypeInv, LinksTyped
  <1>2. c \in Conns /\ conns[c].handler \notin {"none", "new"}
    BY <1>1, TaskFacts DEF LinksInv
  <1>g. Log' = Log /\ Grown(Log, Log) /\ Grown(Log, Log')
    BY <1>1, LogKept
  <1>3. /\ task'[t].pc = "send" /\ task'[t].conn = c /\ task'[t].batch = Tail(b)
        /\ task'[t].scanned = task[t].scanned
        /\ \A u \in Tasks : u # t => task'[u] = task[u]
    <2>1. DOMAIN task = Tasks /\ task[t] \in Coroutines
      BY TaskFacts
    <2>2. \A q \in Coroutines : \A r : LET n == [q EXCEPT !.batch = r] IN
              n.pc = q.pc /\ n.conn = q.conn /\ n.scanned = q.scanned /\ n.batch = r
      BY DEF Coroutines
    <2>3. task' = [task EXCEPT ![t] = [task[t] EXCEPT !.batch = Tail(b)]]
      BY <2>1 DEF SendCopy
    <2> HIDE DEF b, c
    <2>4. task'[t] = [task[t] EXCEPT !.batch = Tail(b)] /\ \A u \in Tasks : u # t => task'[u] = task[u]
      BY <2>1, <2>3
    <2> QED  BY <1>1, <2>1, <2>2, <2>4 DEF b, c
  <1>4. b \in Seq(Copies) /\ w \in Seq(Copies) /\ x \in Copies /\ delivered \in Seq(Copies)
    BY <1>1, <1>2, TaskFacts DEF TypeInv, DaemonTyped
  <1> HIDE DEF c, b, x, w
  <1>5. OpenInv'
    BY <1>1, <1>3, OpenKept
  <1>6. LinksInv'
    <2>1. \A d \in Conns : conns'[d].up => conns[d].up /\ d = ws'
      BY <1>1 DEF LinksInv
    <2>2. \A d \in Conns : conns'[d].handler \in {"none", "new"} => wire'[d] = wire[d]
      BY <1>1, <1>2
    <2>3. \A u \in Tasks : OnLink(task'[u]) => OnLink(task[u]) /\ task'[u].conn = task[u].conn
      BY <1>1, <1>3 DEF c
    <2> QED  BY <1>1, <2>1, <2>2, <2>3, LinksKept
  <1>7. \A d : Sending(d) => Sending(d)'
    BY <1>1, <1>3 DEF Sending, c
  <1>8. CASE ~conns[c].up
    <2>1. wire' = wire
      BY <1>1, <1>8
    <2>2. \A u \in Tasks :
               \/ task'[u] = task[u]
               \/ OnLink(task'[u]) =>
                      /\ task'[u].conn \in Conns
                      /\ conns[task'[u].conn].up =>
                             TaskFollows(Log', task'[u], Sent(wire[task'[u].conn], delivered))
      BY <1>2, <1>3, <1>8
    <2>3. TaskInv' /\ WireInv' /\ DaemonInv' /\ NewInv'
      BY <1>1, <1>g, <2>1, <2>2, CoverKept
    <2>4. HubInv'
      BY <1>1, <1>g, <1>7, <2>1, HubKept
    <2> QED  BY <1>5, <1>6, <2>3, <2>4 DEF CoverInv
  <1>9. CASE conns[c].up
    <2> DEFINE v == Append(w, x)
               S == Sent(w, delivered)
               T == Sent(v, delivered)
               B == ToSet(b)
    <2>1. c = ws /\ ws # 0 /\ \A d \in Conns : conns[d].up => d = c
      BY <1>2, <1>9, Bounds DEF LinksInv
    <2>2. wire'[c] = v /\ \A d \in Conns : d # c => wire'[d] = wire[d]
      BY <1>1, <1>2, <1>9
    <2>3. T = S \cup {x} /\ S \subseteq T /\ S = ToSet(delivered) \cup ToSet(w)
      BY <1>4, SentFacts DEF Sent
    <2>4. B = {x} \cup ToSet(Tail(b))
      BY <1>1, <1>4, SentFacts DEF x
    <2>5. TaskFollows(Log, task[t], S) /\ Follows(Log, ToSet(delivered), w)
      BY <1>1, <1>2, <1>9, <2>1 DEF CoverInv, TaskInv, WireInv, c, w
    <2>6. Follows(Log, S, b) /\ Complete(Log, task[t].scanned, S \cup B)
      BY <1>1, <2>5 DEF TaskFollows, b
    <2> HIDE DEF v, S, T, B
    <2>7. Fits(Log, S, x) /\ Follows(Log, T, Tail(b))
      BY <1>1, <1>4, <2>3, <2>6, FollowsHead DEF x
    <2>8. T \cup ToSet(Tail(b)) = S \cup B
      BY <2>3, <2>4
    <2>9. TaskInv'
      <3> SUFFICES ASSUME NEW u \in Tasks, OnLink(task'[u]), conns'[task'[u].conn].up
                   PROVE  TaskFollows(Log', task'[u], Sent(wire'[task'[u].conn], delivered'))
        BY DEF TaskInv
      <3>1. CASE u = t
        <4>1. TaskFollows(Log, task'[t], T)
          BY <1>3, <2>6, <2>7, <2>8 DEF TaskFollows
        <4> QED  BY <1>1, <1>3, <1>g, <2>2, <3>1, <4>1 DEF T
      <3>2. CASE u # t
        <4>1. task'[u] = task[u] /\ OnLink(task[u])
          BY <1>3, <3>2
        <4>2. task[u].conn \in Conns /\ conns[task[u].conn].up
          BY <1>1, <4>1, TaskFacts
        <4>3. task[u].conn = c
          BY <2>1, <4>2
        <4>4. TaskFollows(Log, task[u], S)
          BY <4>1, <4>2, <4>3 DEF CoverInv, TaskInv, S, w
        <4>5. ~OneAtATime
          BY <3>2 DEF OneAtATime
        <4>6. TaskFollows(Log, task[u], T)
          BY <1>g, <2>3, <4>4, <4>5, TaskStays
        <4> QED  BY <1>1, <1>g, <2>2, <4>1, <4>3, <4>6 DEF T
      <3> QED  BY <3>1, <3>2
    <2>10. WireInv'
      <3> DEFINE D == ToSet(delivered)
      <3>1. Follows(Log, D, w) /\ Fits(Log, D \cup ToSet(w), x)
        BY <2>3, <2>5, <2>7
      <3> HIDE DEF D
      <3>2. Follows(Log, D, v)
        BY <1>4, <3>1, FollowsAppend DEF v
      <3> QED  BY <1>1, <1>g, <2>1, <2>2, <3>2 DEF WireInv, D
    <2>11. DaemonInv'
      BY <1>1, <1>g DEF DaemonInv, CoverInv
    <2>12. NewInv'
      BY <1>1, <1>g DEF NewInv, CoverInv
    <2>13. HubInv'
      <3> SUFFICES ASSUME hub # 0, conns[hub].up
                   PROVE  HubFollows(Log, cursors[hub], Sent(wire'[hub], delivered), Sending(hub)')
        BY <1>1, <1>g DEF HubInv
      <3>1. hub = c
        BY <2>1, Bounds DEF TypeInv, HubTyped
      <3>2. HubFollows(Log, cursors[hub], S, Sending(hub))
        BY <3>1 DEF CoverInv, HubInv, S, w
      <3>3. Covered(Log, cursors[hub], T)
        BY <1>g, <2>3, <3>2, CoveredStays DEF HubFollows
      <3>4. Sending(hub)'
        BY <1>1, <1>3, <3>1 DEF Sending
      <3>5. HubFollows(Log, cursors[hub], T, Sending(hub)')
        BY <3>2, <3>3, <3>4 DEF HubFollows
      <3> QED  BY <2>2, <3>1, <3>5 DEF T
    <2> QED  BY <1>5, <1>6, <2>9, <2>10, <2>11, <2>12, <2>13 DEF CoverInv
  <1> QED  BY <1>8, <1>9

---------------------------------------------------------------------------
\* A copy arrives: it is the next of what the websocket was sent.
LEMMA ReceiveKeeps ==
    ASSUME TypeInv, OpenInv, LinksInv, CoverInv, Receive
    PROVE  OpenInv' /\ LinksInv' /\ CoverInv' /\ Fits(Log, ToSet(delivered), Head(wire[ws]))
  <1> DEFINE w == wire[ws]
             x == Head(w)
             v == Tail(w)
             D == ToSet(delivered)
  <1>1. /\ UNCHANGED <<records, task, hub, cursors, conns, ws, base, excused>> /\ ws \in Conns /\ w # <<>>
        /\ lastEventCursor' = IF x[1] > lastEventCursor THEN x[1] ELSE lastEventCursor
        /\ delivered' = Append(delivered, x)
        /\ wire' = [wire EXCEPT ![ws] = v] /\ wire \in [Conns -> Seq(Copies)]
    <2>1. ws \in Conns
      BY Bounds DEF Receive, TypeInv, DaemonTyped
    <2> QED  BY <2>1 DEF Receive, hubVars, TypeInv, LinksTyped
  <1>g. Log' = Log /\ Grown(Log, Log) /\ Grown(Log, Log')
    BY <1>1, LogKept
  <1>2. w \in Seq(Copies) /\ delivered \in Seq(Copies)
    BY <1>1 DEF TypeInv, DaemonTyped
  <1>3. wire'[ws] = v /\ \A d \in Conns : d # ws => wire'[d] = wire[d]
    BY <1>1
  <1>4. x \in Copies /\ ToSet(w) = {x} \cup ToSet(v)
    BY <1>1, <1>2, SentFacts
  <1>5. Follows(Log, D, w)
    BY <1>1, Bounds DEF CoverInv, WireInv
  <1>6. Fits(Log, D, x) /\ Follows(Log, D \cup {x}, v)
    <2> HIDE DEF D, w
    <2> QED  BY <1>1, <1>2, <1>5, FollowsHead
  <1> HIDE DEF v, x, D
  <1>7. ToSet(delivered') = D \cup {x} /\ delivered' # <<>>
    BY <1>1, <1>2, <1>4, SentFacts DEF D
  <1>8. Sent(wire'[ws], delivered') = Sent(w, delivered)
    BY <1>3, <1>4, <1>7 DEF Sent, D
  <1>9. \A d \in Conns : conns[d].up => d = ws
    BY DEF LinksInv
  <1>10. conns[ws].handler \notin {"none", "new"}
    BY <1>1 DEF LinksInv, w
  <1> HIDE DEF w
  <1>11. OpenInv'
    BY <1>1 DEF OpenInv
  <1>12. LinksInv'
    <2>1. \A d \in Conns : conns'[d].up => conns[d].up /\ d = ws'
      BY <1>1 DEF LinksInv
    <2>2. \A d \in Conns : conns'[d].handler \in {"none", "new"} => wire'[d] = wire[d]
      BY <1>1, <1>3, <1>10
    <2> QED  BY <1>1, <2>1, <2>2, LinksKept
  <1>13. TaskInv'
    <2> SUFFICES ASSUME NEW u \in Tasks, OnLink(task[u]), conns[task[u].conn].up
                 PROVE  TaskFollows(Log, task[u], Sent(wire'[task[u].conn], delivered'))
      BY <1>1, <1>g DEF TaskInv
    <2>1. task[u].conn = ws
      BY <1>9, TaskFacts
    <2> QED  BY <1>8, <2>1 DEF CoverInv, TaskInv, w
  <1>14. HubInv'
    <2> SUFFICES ASSUME hub # 0, conns[hub].up
                 PROVE  HubFollows(Log, cursors[hub], Sent(wire'[hub], delivered'), Sending(hub)')
      BY <1>1, <1>g DEF HubInv
    <2>1. hub = ws
      BY <1>9, Bounds DEF TypeInv, HubTyped
    <2>2. Sending(hub)' <=> Sending(hub)
      BY <1>1 DEF Sending
    <2>3. HubFollows(Log, cursors[hub], Sent(wire[hub], delivered), Sending(hub))
      BY DEF CoverInv, HubInv
    <2> QED  BY <1>8, <2>1, <2>2, <2>3 DEF w, HubFollows
  <1>15. WireInv'
    BY <1>1, <1>3, <1>6, <1>7, <1>g DEF WireInv
  <1>16. DaemonInv'
    <2>1. DaemonFollows(Log, lastEventCursor, delivered)
      BY DEF CoverInv, DaemonInv
    <2>2. x \in Log.entries /\ \A d \in Log.owed : d[1] < x[1] => d \in D
      BY <1>6 DEF Fits
    <2>3. /\ LatestSeq \in Nat /\ base \in Nat /\ Log.entries = Entries /\ Log.owed \subseteq Entries
          /\ \A e \in Entries : base < e[1] /\ e[1] \in 0 .. LatestSeq
      BY LogFacts DEF Log
    <2>4. x[1] \in Nat /\ 0 < x[1] /\ lastEventCursor \in Nat /\ \A e \in D : e[1] \in Nat
      <3>1. \A e \in Copies : e[1] \in Nat
        BY Bounds
      <3>2. D \subseteq Copies
        BY <1>2, SentFacts DEF D
      <3>3. lastEventCursor \in Nat
        BY Bounds DEF TypeInv, DaemonTyped
      <3> QED  BY <2>2, <2>3, <3>1, <3>2, <3>3
    <2>5. ToSet(delivered') \subseteq Log.entries
      BY <1>7, <2>1, <2>2 DEF DaemonFollows, D
    <2>6. \E e \in ToSet(delivered') : e[1] = lastEventCursor'
      <3>1. CASE x[1] > lastEventCursor
        BY <3>1, <1>1, <1>7
      <3>2. CASE ~(x[1] > lastEventCursor)
        <4>1. delivered # <<>>
          BY <2>1, <2>4, <3>2 DEF DaemonFollows
        <4>2. PICK e \in D : e[1] = lastEventCursor
          BY <2>1, <4>1 DEF DaemonFollows, D
        <4> QED  BY <3>2, <4>2, <1>1, <1>7
      <3> QED  BY <3>1, <3>2
    <2>7. \A e \in ToSet(delivered') : e[1] <= lastEventCursor'
      <3>1. \A e \in D : e[1] <= lastEventCursor
        BY <2>1 DEF DaemonFollows, D
      <3>2. lastEventCursor <= lastEventCursor' /\ x[1] <= lastEventCursor' /\ lastEventCursor' \in Nat
        BY <2>4, <1>1
      <3> QED  BY <1>7, <2>4, <3>1, <3>2
    <2>8. \A e \in Log.owed : e[1] < lastEventCursor' => e \in ToSet(delivered')
      <3>1. \A e \in Log.owed : e[1] < lastEventCursor => e \in D
        BY <2>1 DEF DaemonFollows, D
      <3> QED  BY <3>1, <2>2, <1>1, <1>7
    <2>9. DaemonFollows(Log, lastEventCursor', delivered')
      BY <1>7, <2>5, <2>6, <2>7, <2>8 DEF DaemonFollows
    <2> QED  BY <1>g, <2>9 DEF DaemonInv
  <1>17. NewInv'
    <2> SUFFICES ASSUME NEW c \in Conns, conns[c].handler = "new", conns[c].up PROVE FALSE
      BY <1>1 DEF NewInv
    <2> QED  BY <1>9, <1>10
  <1> QED  BY <1>6, <1>11, <1>12, <1>13, <1>14, <1>15, <1>16, <1>17 DEF CoverInv, x, D, w

---------------------------------------------------------------------------
\* A websocket is accepted: a resumed cursor is the daemon's, a new one is the newest row.
LEMMA AcceptKeeps ==
    ASSUME TypeInv, OpenInv, LinksInv, CoverInv, NEW t \in Tasks, AcceptWs(t)
    PROVE  /\ OpenInv' /\ LinksInv' /\ CoverInv'
           /\ \/ base' = base
              \/ delivered = <<>> /\ base' = LatestSeq
  <1>1. PICK c \in Conns :
            /\ task[t].pc = "idle"
            /\ conns[c].handler = "new"
            /\ conns' = [conns EXCEPT ![c].handler = "accepted"]
            /\ task' = [task EXCEPT ![t] = [Idle EXCEPT !.pc = "register", !.conn = c,
                            !.cursor = IF conns[c].raw > 0 THEN conns[c].raw ELSE LatestSeq]]
            /\ base' = IF conns[c].raw > 0 \/ c # ws THEN base
                       ELSE IF conns[c].raw > 0 THEN conns[c].raw ELSE LatestSeq
            /\ UNCHANGED <<records, hubVars, wire, daemonVars, excused>>
    BY DEF AcceptWs
  <1>2. UNCHANGED <<records, hub, cursors, wire, ws, lastEventCursor, delivered, excused>>
    BY <1>1 DEF hubVars, daemonVars
  <1> DEFINE k == IF conns[c].raw > 0 THEN conns[c].raw ELSE LatestSeq
             D == ToSet(delivered)
  <1>3. DOMAIN task = Tasks /\ conns \in [Conns -> Links] /\ conns[c] \in Links
    BY TaskFacts DEF TypeInv, LinksTyped
  <1>4. \A d \in Conns : /\ conns'[d].up = conns[d].up /\ conns'[d].raw = conns[d].raw
                         /\ d # c => conns'[d].handler = conns[d].handler
                         /\ d = c => conns'[d].handler = "accepted"
    <2>1. \A q \in Links : LET r == [q EXCEPT !.handler = "accepted"] IN
              r.up = q.up /\ r.raw = q.raw /\ r.handler = "accepted"
      BY DEF Links
    <2> QED  BY <1>1, <1>3, <2>1
  <1>5. /\ task'[t].pc = "register" /\ task'[t].conn = c /\ task'[t].cursor = k
        /\ \A u \in Tasks : u # t => task'[u] = task[u]
    <2>1. [Idle EXCEPT !.pc = "register", !.conn = c, !.cursor = k].pc = "register"
      BY DEF Idle
    <2>2. [Idle EXCEPT !.pc = "register", !.conn = c, !.cursor = k].conn = c
      BY DEF Idle
    <2>3. [Idle EXCEPT !.pc = "register", !.conn = c, !.cursor = k].cursor = k
      BY DEF Idle
    <2> HIDE DEF k
    <2>4. task'[t] = [Idle EXCEPT !.pc = "register", !.conn = c, !.cursor = k]
      BY <1>1, <1>3 DEF k
    <2>5. \A u \in Tasks : u # t => task'[u] = task[u]
      BY <1>1, <1>3
    <2> QED  BY <2>1, <2>2, <2>3, <2>4, <2>5
  <1> HIDE DEF k
  <1>6. \A d : Sending(d) => Sending(d)'
    BY <1>1, <1>5 DEF Sending
  <1>7. OpenInv'
    BY <1>2, <1>5, OpenKept
  <1>8. LinksInv'
    <2>1. \A d \in Conns : conns'[d].up => conns[d].up /\ d = ws'
      BY <1>2, <1>4 DEF LinksInv
    <2>2. \A d \in Conns : conns'[d].handler \in {"none", "new"} => conns[d].handler = conns'[d].handler
      BY <1>4
    <2>3. \A u \in Tasks : OnLink(task'[u]) =>
               \/ OnLink(task[u]) /\ task'[u].conn = task[u].conn
               \/ \A d \in Conns : task'[u].conn = d => conns'[d].handler \notin {"none", "new"}
      BY <1>4, <1>5
    <2> QED  BY <1>2, <1>4, <2>1, <2>2, <2>3, LinksKept
  <1>9. /\ wire[c] = <<>> /\ c # hub /\ \A u \in Tasks : OnLink(task[u]) => task[u].conn # c
        /\ \A d \in Conns : conns[d].up => d = ws
    BY <1>1 DEF LinksInv
  <1>10. Sent(wire[c], delivered) = D
    <2>1. ToSet(<<>>) = {}
      BY DEF ToSet
    <2> QED  BY <1>9, <2>1 DEF Sent
  <1>11. /\ LatestSeq \in Nat /\ base \in Nat /\ Log.entries = Entries /\ Log.owed \subseteq Entries
         /\ Log.last = LatestSeq /\ Log.base = base
         /\ \A e \in Entries : base < e[1] /\ e[1] \in 0 .. LatestSeq
         /\ lastEventCursor \in Nat /\ conns[c].raw \in Nat
    <2>1. lastEventCursor \in Nat /\ conns[c].raw \in Nat
      BY <1>3, Bounds DEF TypeInv, DaemonTyped, Links
    <2> QED  BY <2>1, LogFacts DEF Log
  <1>12. DaemonFollows(Log, lastEventCursor, delivered)
    BY DEF CoverInv, DaemonInv
  <1>13. CASE conns[c].raw > 0 \/ c # ws
    <2>1. base' = base
      BY <1>1, <1>13
    <2>2. Log' = Log /\ Grown(Log, Log) /\ Grown(Log, Log')
      BY <1>2, <2>1, LogKept
    <2>3. conns[c].up => Complete(Log, k, D)
      <3> SUFFICES ASSUME conns[c].up PROVE Complete(Log, k, D)
        OBVIOUS
      <3>1. conns[c].raw > 0 /\ k = conns[c].raw
        BY <1>9, <1>13 DEF k
      <3>2. k = lastEventCursor /\ Covered(Log, k, D)
        BY <1>1, <3>1 DEF CoverInv, NewInv
      <3>3. Reached(k, D)
        BY <1>12, <3>2 DEF DaemonFollows, Reached
      <3>4. base <= k
        <4>1. delivered # <<>>
          BY <1>11, <1>12, <3>1, <3>2 DEF DaemonFollows
        <4>2. PICK e \in D : e[1] = k /\ e \in Log.entries
          BY <1>12, <3>2, <4>1 DEF DaemonFollows
        <4> QED  BY <1>11, <4>2
      <3> QED  BY <1>11, <3>2, <3>3, <3>4 DEF Complete
    <2>4. TaskInv' /\ WireInv' /\ DaemonInv' /\ NewInv'
      <3>1. \A u \in Tasks :
               \/ task'[u] = task[u]
               \/ OnLink(task'[u]) =>
                      /\ task'[u].conn \in Conns
                      /\ conns[task'[u].conn].up =>
                             TaskFollows(Log', task'[u], Sent(wire[task'[u].conn], delivered))
        BY <1>5, <1>10, <2>2, <2>3 DEF TaskFollows
      <3>2. \A d \in Conns : conns'[d].up =>
               /\ conns[d].up /\ wire'[d] = wire[d]
               /\ conns'[d].handler = "new" => conns[d].handler = "new" /\ conns'[d].raw = conns[d].raw
        BY <1>2, <1>4
      <3> QED  BY <1>2, <2>2, <3>1, <3>2, CoverKept
    <2>5. HubInv'
      <3>1. hub' # 0 /\ conns'[hub'].up => hub' = hub /\ conns[hub].up
        BY <1>2, <1>4, Bounds DEF TypeInv, HubTyped
      <3> QED  BY <1>2, <1>6, <2>2, <3>1, HubKept
    <2> QED  BY <1>7, <1>8, <2>1, <2>4, <2>5 DEF CoverInv
  <1>14. CASE ~(conns[c].raw > 0 \/ c # ws)
    <2>1. base' = LatestSeq /\ k = LatestSeq /\ c = ws /\ conns[c].raw = 0
      BY <1>1, <1>11, <1>14 DEF k
    <2>2. /\ Log'.last = LatestSeq /\ Log'.base = LatestSeq /\ Log'.entries = {} /\ Log'.owed = {}
      <3>1. Published' = Published /\ LatestSeq' = LatestSeq
        <4>1. Committed' = Committed /\ Copies' = Copies
          BY <1>2 DEF Committed, Copies, Seqs
        <4>2. LatestSeq' = LatestSeq
          BY <4>1 DEF LatestSeq
        <4>3. Published' = Published
          BY <1>2, <4>1 DEF Published, VisibleTo
        <4> QED  BY <4>2, <4>3
      <3>2. \A e \in Published : ~(LatestSeq < e[1])
        <4>1. \A e \in Published : e[1] \in Nat /\ e[1] <= LatestSeq
          BY LogFacts
        <4> QED  BY <4>1, <1>11
      <3>3. Entries' = {}
        BY <2>1, <3>1, <3>2 DEF Entries
      <3> QED  BY <2>1, <3>1, <3>3 DEF Log
    <2>3. conns[c].up
      BY <1>1, <2>1 DEF LinksInv
    <2>4. lastEventCursor = 0
      BY <1>1, <2>1, <2>3 DEF CoverInv, NewInv
    <2>5. D = {} /\ delivered = <<>>
      <3>1. ASSUME NEW e \in D PROVE FALSE
        <4>1. e[1] <= 0 /\ e \in Entries
          BY <1>11, <1>12, <2>4 DEF DaemonFollows
        <4> QED  BY <1>11, <4>1
      <3>2. delivered # <<>> => \E e \in D : TRUE
        BY <1>12 DEF DaemonFollows
      <3> QED  BY <3>1, <3>2
    <2> HIDE DEF D
    <2>6. \A d \in Conns : d # c => ~conns'[d].up
      BY <1>4, <1>9, <2>1
    <2>7. TaskInv'
      <3> SUFFICES ASSUME NEW u \in Tasks, OnLink(task'[u]), conns'[task'[u].conn].up
                   PROVE  TaskFollows(Log', task'[u], Sent(wire'[task'[u].conn], delivered'))
        BY DEF TaskInv
      <3>1. u = t
        <4> SUFFICES ASSUME u # t PROVE FALSE
          OBVIOUS
        <4>1. task'[u] = task[u] /\ task[u].conn \in Conns /\ task[u].conn # c
          BY <1>5, <1>9, TaskFacts
        <4> QED  BY <2>6, <4>1
      <3>2. Complete(Log', LatestSeq, {})
        BY <1>11, <2>2 DEF Complete, Covered, Reached
      <3>3. Sent(wire'[c], delivered') = {}
        BY <1>2, <1>10, <2>5
      <3> QED  BY <1>5, <2>1, <3>1, <3>2, <3>3 DEF TaskFollows
    <2>8. HubInv'
      <3>1. hub' # 0 => hub' \in Conns /\ hub' # c
        BY <1>2, <1>9, Bounds DEF TypeInv, HubTyped
      <3> QED  BY <2>6, <3>1 DEF HubInv
    <2>9. WireInv'
      <3>1. wire'[ws'] = <<>>
        BY <1>2, <1>9, <2>1
      <3>2. Len(<<>>) = 0 /\ 1 .. 0 = {}
        OBVIOUS
      <3> QED  BY <3>1, <3>2 DEF WireInv, Follows
    <2>10. DaemonInv'
      <3>1. ToSet(delivered) = {}
        BY <2>5 DEF D
      <3>2. DaemonFollows(Log', 0, <<>>)
        BY <2>2, <2>5, <3>1 DEF DaemonFollows
      <3> QED  BY <1>2, <2>4, <2>5, <3>2 DEF DaemonInv
    <2>11. NewInv'
      BY <1>4, <2>6 DEF NewInv
    <2> QED  BY <1>7, <1>8, <2>1, <2>5, <2>7, <2>8, <2>9, <2>10, <2>11 DEF CoverInv
  <1> QED  BY <1>13, <1>14

---------------------------------------------------------------------------
\* It is registered: its cursor is the coroutine's, the one it replaces is closed.
LEMMA RegisterKeeps ==
    ASSUME TypeInv, OpenInv, LinksInv, CoverInv, NEW t \in Tasks, RegisterWs(t) \/ RegisterFails(t)
    PROVE  OpenInv' /\ LinksInv' /\ CoverInv'
  <1> DEFINE c == task[t].conn
  <1>1. /\ UNCHANGED <<records, wire, lastEventCursor, delivered, base, excused>> /\ hub' = c
        /\ DOMAIN task = Tasks /\ conns \in [Conns -> Links] /\ OnLink(task[t]) /\ task[t].pc = "register"
    BY TaskFacts DEF RegisterWs, RegisterFails, daemonVars, TypeInv, LinksTyped, OnLink
  <1>g. Log' = Log /\ Grown(Log, Log) /\ Grown(Log, Log')
    BY <1>1, LogKept
  <1>2. c \in Conns /\ conns[c].handler \notin {"none", "new"}
    BY <1>1, TaskFacts DEF LinksInv
  <1>3. \A d \in Conns :
            /\ conns'[d].up => conns[d].up /\ d = ws'
            /\ conns'[d].raw = conns[d].raw
            /\ d = c => conns'[d].handler \notin {"none", "new"}
            /\ d # c => conns'[d].handler = conns[d].handler
            /\ d # c /\ d # hub => conns'[d] = conns[d]
    <2>1. \A q \in Links : LET r == [q EXCEPT !.handler = "live"]
                               f == [q EXCEPT !.up = FALSE, !.handler = "gone"]
                               o == [q EXCEPT !.up = FALSE] IN
              /\ r.up = q.up /\ r.raw = q.raw /\ r.handler = "live"
              /\ ~f.up /\ f.raw = q.raw /\ f.handler = "gone"
              /\ ~o.up /\ o.raw = q.raw /\ o.handler = q.handler
      BY DEF Links
    <2> SUFFICES ASSUME NEW d \in Conns
                 PROVE  /\ conns'[d].up => conns[d].up /\ d = ws'
                        /\ conns'[d].raw = conns[d].raw
                        /\ d = c => conns'[d].handler \notin {"none", "new"}
                        /\ d # c => conns'[d].handler = conns[d].handler
                        /\ d # c /\ d # hub => conns'[d] = conns[d]
      OBVIOUS
    <2>2. CASE d = c /\ RegisterWs(t)
      <3>1. conns'[d] = [conns[d] EXCEPT !.handler = "live"]
        BY <2>2 DEF RegisterWs
      <3>2. conns'[d].up = conns[d].up /\ conns'[d].raw = conns[d].raw /\ conns'[d].handler = "live"
        BY <1>1, <2>1, <3>1
      <3>3. ws' = ws
        BY <2>2 DEF RegisterWs, daemonVars
      <3>4. conns[d].up => d = ws
        BY DEF LinksInv
      <3> QED  BY <2>2, <3>2, <3>3, <3>4
    <2>3. CASE d = c /\ RegisterFails(t)
      <3>1. conns'[d] = [conns[d] EXCEPT !.up = FALSE, !.handler = "gone"]
        BY <2>3 DEF RegisterFails
      <3>2. ~conns'[d].up /\ conns'[d].raw = conns[d].raw /\ conns'[d].handler = "gone"
        BY <1>1, <2>1, <3>1
      <3> QED  BY <2>3, <3>2
    <2>4. CASE d = hub /\ d # c
      <3>1. conns'[d] = [conns[d] EXCEPT !.up = FALSE]
        BY <2>4 DEF RegisterWs, RegisterFails
      <3>2. ~conns'[d].up /\ conns'[d].raw = conns[d].raw /\ conns'[d].handler = conns[d].handler
        BY <1>1, <2>1, <3>1
      <3> QED  BY <2>4, <3>2
    <2>5. CASE d # hub /\ d # c
      <3>1. conns'[d] = conns[d]
        BY <2>5 DEF RegisterWs, RegisterFails
      <3>2. ws' = ws \/ ws = c
        BY DEF RegisterWs, RegisterFails, daemonVars
      <3>3. conns[d].up => d = ws
        BY DEF LinksInv
      <3> QED  BY <2>5, <3>1, <3>2, <3>3
    <2> QED  BY <2>2, <2>3, <2>4, <2>5
  <1>4. cursors'[c] = task[t].cursor
    BY <1>2 DEF RegisterWs, RegisterFails
  <1>5. task'[t].pc # "open" /\ ~OnLink(task'[t]) /\ \A u \in Tasks : u # t => task'[u] = task[u]
    <2>1. /\ Idle.pc = "idle" /\ [Idle EXCEPT !.pc = "push"].pc = "push"
      BY DEF Idle
    <2>2. task'[t] \in {Idle, [Idle EXCEPT !.pc = "push"]} /\ \A u \in Tasks : u # t => task'[u] = task[u]
      BY <1>1 DEF RegisterWs, RegisterFails
    <2> QED  BY <2>1, <2>2 DEF OnLink
  <1>6. ws' \in {ws, 0}
    BY DEF RegisterWs, RegisterFails, daemonVars
  <1> HIDE DEF c
  <1>7. OpenInv'
    BY <1>1, <1>5, OpenKept
  <1>8. LinksInv'
    <2>1. \A d \in Conns : conns'[d].up => conns[d].up /\ d = ws'
      BY <1>3
    <2>2. \A d \in Conns : conns'[d].handler \in {"none", "new"} =>
              conns[d].handler = conns'[d].handler /\ wire'[d] = wire[d]
      BY <1>1, <1>3
    <2>3. \A d \in Conns : d = hub' => conns'[d].handler \notin {"none", "new"}
      BY <1>1, <1>3
    <2>4. ASSUME NEW d \in Conns, conns'[d].handler = "new", d = ws'
          PROVE  d = ws /\ (conns[d].up => conns'[d].up)
      <3>1. d = ws
        BY <1>6, <2>4, Bounds
      <3>2. d # c /\ conns[d].handler = "new"
        BY <1>3, <2>4
      <3>3. d # hub
        BY <3>2 DEF LinksInv
      <3> QED  BY <1>3, <3>1, <3>2, <3>3
    <2>5. \A u \in Tasks : OnLink(task'[u]) => OnLink(task[u]) /\ task'[u].conn = task[u].conn
      BY <1>5
    <2> QED  BY <2>1, <2>2, <2>3, <2>4, <2>5, LinksKept
  <1>9. TaskInv' /\ WireInv' /\ DaemonInv' /\ NewInv'
    <2>1. \A d \in Conns : conns'[d].up =>
              /\ conns[d].up /\ wire'[d] = wire[d]
              /\ conns'[d].handler = "new" => conns[d].handler = "new" /\ conns'[d].raw = conns[d].raw
      BY <1>1, <1>3
    <2>2. ws' # 0 => ws' = ws /\ wire'[ws] = wire[ws]
      BY <1>1, <1>6
    <2>3. \A u \in Tasks : task'[u] = task[u] \/ ~OnLink(task'[u])
      BY <1>5
    <2> QED  BY <1>1, <1>g, <2>1, <2>2, <2>3, CoverKept
  <1>10. HubInv'
    <2>1. conns[c].up => Complete(Log, task[t].cursor, Sent(wire[c], delivered))
      BY <1>1 DEF CoverInv, TaskInv, TaskFollows, c
    <2>2. conns'[hub'].up => Complete(Log', cursors'[hub'], Sent(wire'[hub'], delivered))
      BY <1>1, <1>2, <1>3, <1>4, <1>g, <2>1
    <2> QED  BY <1>1, <1>g, <2>2, HubKept
  <1> QED  BY <1>7, <1>8, <1>9, <1>10 DEF CoverInv

\* The ends of a websocket: the handler's, the network's and the daemon's.
LEMMA EndKeeps ==
    ASSUME TypeInv, OpenInv, LinksInv, CoverInv, (\E c \in Conns : HandlerExit(c)) \/ Drop \/ Revoke
    PROVE  OpenInv' /\ LinksInv' /\ CoverInv'
  <1>1. UNCHANGED <<records, task, lastEventCursor, delivered, base, excused>> /\ conns \in [Conns -> Links]
        /\ wire \in [Conns -> Seq(Copies)]
    BY DEF HandlerExit, Drop, Revoke, daemonVars, hubVars, TypeInv, LinksTyped
  <1>g. Log' = Log /\ Grown(Log, Log) /\ Grown(Log, Log')
    BY <1>1, LogKept
  <1>2. \A q \in Links : LET r == [q EXCEPT !.handler = "gone"]
                             o == [q EXCEPT !.up = FALSE] IN
              /\ r.up = q.up /\ r.raw = q.raw /\ r.handler = "gone"
              /\ ~o.up /\ o.raw = q.raw /\ o.handler = q.handler
    BY DEF Links
  <1>3. OpenInv'
    BY <1>1 DEF OpenInv
  <1>4. \A d : Sending(d)' <=> Sending(d)
    BY <1>1 DEF Sending
  <1>5. ASSUME ws' = 0, \A d \in Conns : ~conns'[d].up, hub' = hub,
               \A d \in Conns : conns'[d].handler = conns[d].handler /\ wire'[d] \in {wire[d], <<>>}
        PROVE  LinksInv' /\ CoverInv'
    <2>1. LinksInv'
      <3>1. \A d \in Conns : d # ws'
        BY <1>5, Bounds
      <3>2. \A u \in Tasks : OnLink(task'[u]) => OnLink(task[u]) /\ task'[u].conn = task[u].conn
        BY <1>1
      <3> QED  BY <1>5, <3>1, <3>2, LinksKept
    <2>2. \A u \in Tasks : task'[u] = task[u]
      BY <1>1
    <2>3. TaskInv' /\ WireInv' /\ DaemonInv' /\ NewInv'
      BY <1>1, <1>5, <1>g, <2>2, CoverKept
    <2>4. HubInv'
      BY <1>5, Bounds DEF HubInv, TypeInv, HubTyped
    <2> QED  BY <2>1, <2>3, <2>4 DEF CoverInv
  <1>6. ASSUME NEW c \in Conns, HandlerExit(c) PROVE LinksInv' /\ CoverInv'
    <2>1. /\ UNCHANGED <<wire, ws>> /\ hub' = (IF hub = c THEN 0 ELSE hub) /\ cursors' = [cursors EXCEPT ![c] = 0]
          /\ conns' = [conns EXCEPT ![c].handler = "gone"] /\ conns[c].handler = "live"
          /\ DOMAIN cursors = Conns
      BY <1>6 DEF HandlerExit, daemonVars, TypeInv, HubTyped
    <2>2. \A d \in Conns : /\ conns'[d].up = conns[d].up /\ conns'[d].raw = conns[d].raw
                           /\ conns'[d].handler \in {"none", "new"} => conns'[d].handler = conns[d].handler
      BY <1>1, <1>2, <2>1
    <2>3. \A d \in Conns : conns'[d].up => conns[d].up /\ d = ws'
      BY <2>1, <2>2 DEF LinksInv
    <2>4. \A d \in Conns : d = hub' => d = hub
      BY <2>1, Bounds
    <2>5. \A u \in Tasks : task'[u] = task[u]
      BY <1>1
    <2>6. LinksInv'
      BY <2>1, <2>2, <2>3, <2>4, <2>5, LinksKept
    <2>7. TaskInv' /\ WireInv' /\ DaemonInv' /\ NewInv'
      BY <1>1, <1>g, <2>1, <2>2, <2>5, CoverKept
    <2>8. HubInv'
      <3>1. hub' # 0 /\ conns'[hub'].up => hub' = hub /\ conns[hub].up /\ cursors'[hub] = cursors[hub]
        BY <2>1, <2>2, Bounds DEF TypeInv, HubTyped
      <3> QED  BY <1>1, <1>4, <1>g, <2>1, <3>1, HubKept
    <2> QED  BY <2>6, <2>7, <2>8 DEF CoverInv
  <1>7. CASE Drop
    <2>1. /\ hub' = hub /\ ws \in Conns /\ ws' = 0
          /\ conns' = [conns EXCEPT ![ws].up = FALSE] /\ wire' = [wire EXCEPT ![ws] = <<>>]
      BY <1>7 DEF Drop, hubVars
    <2>2. \A d \in Conns : /\ conns'[d].up => conns[d].up /\ d # ws
                           /\ conns'[d].handler = conns[d].handler
                           /\ wire'[d] \in {wire[d], <<>>}
      BY <1>1, <1>2, <2>1
    <2>3. \A d \in Conns : ~conns'[d].up
      BY <2>2 DEF LinksInv
    <2> QED  BY <1>3, <1>5, <2>1, <2>2, <2>3
  <1>8. CASE Revoke
    <2>1. UNCHANGED <<hub, conns, wire>> /\ ~conns[ws].up /\ ws' = 0
      BY <1>8 DEF Revoke, hubVars
    <2>2. \A d \in Conns : ~conns'[d].up
      BY <2>1 DEF LinksInv
    <2> QED  BY <1>3, <1>5, <2>1, <2>2
  <1> QED  BY <1>3, <1>6, <1>7, <1>8

\* The daemon opens a websocket: nothing was sent on it, and it asks for what follows
\* the daemon's own cursor; what is missing of the row at the cursor is excused.
LEMMA ConnectKeeps ==
    ASSUME TypeInv, OpenInv, LinksInv, CoverInv, DaemonConnect
    PROVE  OpenInv' /\ LinksInv' /\ CoverInv'
  <1>1. PICK c \in Conns :
            /\ conns[c].handler = "none"
            /\ conns' = [conns EXCEPT ![c] = [raw |-> lastEventCursor, up |-> TRUE, handler |-> "new"]]
            /\ ws' = c
    BY DEF DaemonConnect
  <1>2. /\ UNCHANGED <<records, task, hub, cursors, wire, lastEventCursor, delivered, base>> /\ ws = 0
        /\ conns \in [Conns -> Links]
        /\ excused' = excused \cup (RestOf(lastEventCursor) \ ToSet(delivered))
    BY DEF DaemonConnect, hubVars, TypeInv, LinksTyped
  <1>3. /\ wire[c] = <<>> /\ c # 0 /\ c # hub
        /\ \A t \in Tasks : OnLink(task[t]) => task[t].conn # c
        /\ \A d \in Conns : ~conns[d].up
    BY <1>1, <1>2, Bounds DEF LinksInv
  <1>4. /\ conns'[c].raw = lastEventCursor /\ conns'[c].up /\ conns'[c].handler = "new"
        /\ \A d \in Conns : d # c => conns'[d] = conns[d]
    BY <1>1, <1>2
  <1>5. Grown(Log, Log') /\ Published' = Published /\ LatestSeq' = LatestSeq
    <2>1. Committed' = Committed /\ \A s \in Committed : records'[s].visible = records[s].visible
      BY <1>2 DEF Committed
    <2> QED  BY <1>2, <2>1, SameLog
  <1>6. OpenInv'
    BY <1>2 DEF OpenInv
  <1>7. LinksInv'
    <2>1. \A d \in Conns : conns'[d].up => d = ws'
      BY <1>1, <1>3, <1>4
    <2>2. ASSUME NEW d \in Conns, conns'[d].handler \in {"none", "new"}
          PROVE  /\ wire'[d] = <<>> /\ d # hub'
                 /\ \A t \in Tasks : OnLink(task'[t]) => task'[t].conn # d
                 /\ conns'[d].handler = "none" => ~conns'[d].up
                 /\ conns'[d].handler = "new" /\ d = ws' => conns'[d].up
      <3>1. CASE d = c
        BY <3>1, <1>2, <1>3, <1>4
      <3>2. CASE d # c
        BY <3>2, <2>2, <1>1, <1>2, <1>4 DEF LinksInv
      <3> QED  BY <3>1, <3>2
    <2> QED  BY <2>1, <2>2 DEF LinksInv
  <1>8. TaskInv'
    <2> SUFFICES ASSUME NEW t \in Tasks, OnLink(task[t]), conns'[task[t].conn].up PROVE FALSE
      BY <1>2 DEF TaskInv
    <2>1. task[t].conn \in Conns /\ task[t].conn # c
      BY <1>3, TaskFacts
    <2> QED  BY <1>3, <1>4, <2>1
  <1>9. HubInv'
    <2>1. hub' # 0 => hub' \in Conns /\ hub' # c
      BY <1>2, <1>3, Bounds DEF TypeInv, HubTyped
    <2> QED  BY <1>3, <1>4, <2>1 DEF HubInv
  <1>10. WireInv'
    <2>1. wire'[ws'] = <<>>
      BY <1>1, <1>2, <1>3
    <2>2. Len(<<>>) = 0 /\ 1 .. 0 = {}
      OBVIOUS
    <2> QED  BY <2>1, <2>2 DEF WireInv, Follows
  <1>11. DaemonFollows(Log, lastEventCursor, delivered) /\ lastEventCursor \in 0 .. LatestSeq
    <2>1. DaemonFollows(Log, lastEventCursor, delivered)
      BY DEF CoverInv, DaemonInv
    <2>2. Log.last = LatestSeq
      BY DEF Log
    <2> QED  BY <1>5, <2>1, <2>2, DaemonStays
  <1>12. DaemonInv'
    <2>1. DaemonFollows(Log', lastEventCursor, delivered)
      BY <1>5, <1>11, DaemonStays
    <2> QED  BY <1>2, <2>1 DEF DaemonInv
  <1>13. NewInv'
    <2> SUFFICES ASSUME NEW d \in Conns, conns'[d].up
                 PROVE  conns'[d].raw = lastEventCursor /\ Covered(Log', lastEventCursor, ToSet(delivered))
      BY <1>2 DEF NewInv
    <2>1. d = c
      BY <1>3, <1>4
    <2>2. ASSUME NEW e \in Log'.owed, e[1] <= lastEventCursor PROVE e \in ToSet(delivered)
      <3>1. e \in Published /\ base < e[1] /\ e \notin excused /\ e \notin RestOf(lastEventCursor) \ ToSet(delivered)
        BY <1>2, <1>5 DEF Log, Entries
      <3>2. e \in Log.owed
        BY <3>1 DEF Log, Entries
      <3>3. e[1] \in Nat /\ lastEventCursor \in Nat
        BY <1>11, <3>1, LogFacts
      <3>4. CASE e[1] < lastEventCursor
        BY <1>11, <3>2, <3>4 DEF DaemonFollows
      <3>5. CASE e[1] = lastEventCursor
        BY <3>1, <3>5 DEF RestOf
      <3> QED  BY <2>2, <3>3, <3>4, <3>5
    <2>3. Log'.last = LatestSeq
      BY <1>5 DEF Log
    <2> QED  BY <1>4, <1>11, <2>1, <2>2, <2>3 DEF Covered
  <1> QED  BY <1>6, <1>7, <1>8, <1>9, <1>10, <1>12, <1>13 DEF CoverInv

---------------------------------------------------------------------------
\* Nothing is promised initially.
LEMMA InitPromise == Init => PromiseInv
  <1> SUFFICES ASSUME Init PROVE PromiseInv
    OBVIOUS
  <1>1. TypeInv
    BY InitTypes
  <1>2. /\ lastEventCursor = 0 /\ hub = 0 /\ ws = 0 /\ delivered = <<>>
        /\ \A t \in Tasks : task[t].pc = "idle"
        /\ \A c \in Conns : ~conns[c].up /\ conns[c].handler = "none" /\ wire[c] = <<>> /\ c # 0
    <2>1. \A c \in Conns : conns[c] = [raw |-> 0, up |-> FALSE, handler |-> "none"]
      BY DEF Init
    <2>2. \A c \in Conns : ~conns[c].up /\ conns[c].handler = "none"
      BY <2>1
    <2> QED  BY <2>2, Bounds DEF Init, Idle
  <1>3. OpenInv
    BY <1>2 DEF OpenInv
  <1>4. LinksInv
    BY <1>2 DEF LinksInv, OnLink
  <1>5. DaemonInv
    <2>1. ToSet(<<>>) = {}
      BY DEF ToSet
    <2>2. \A e \in Log.owed : ~(e[1] < 0)
      BY <1>1, LogFacts DEF Log
    <2>3. DaemonFollows(Log, 0, <<>>)
      BY <2>1, <2>2 DEF DaemonFollows
    <2> QED  BY <1>2, <2>3 DEF DaemonInv
  <1>6. CoverInv
    BY <1>2, <1>5 DEF CoverInv, TaskInv, HubInv, WireInv, NewInv, OnLink
  <1> QED  BY <1>1, <1>3, <1>4, <1>6 DEF PromiseInv

\* Every step keeps the promise.
LEMMA StepPromise == PromiseInv /\ [Next]_vars => PromiseInv'
  <1> SUFFICES ASSUME PromiseInv, [Next]_vars PROVE PromiseInv'
    OBVIOUS
  <1>1. TypeInv /\ OpenInv /\ LinksInv /\ CoverInv /\ TypeInv'
    BY StepTypes DEF PromiseInv
  <1> SUFFICES OpenInv' /\ LinksInv' /\ CoverInv'
    BY <1>1 DEF PromiseInv
  <1>2. CASE UNCHANGED vars
    <2>1. UNCHANGED <<records, task, hub, cursors, conns, wire, ws, lastEventCursor, delivered, base, excused>>
      BY <1>2 DEF vars
    <2>2. Log' = Log /\ \A c : Sending(c)' <=> Sending(c)
      BY <1>1, <2>1, LogKept DEF Sending
    <2>3. OpenInv' /\ LinksInv'
      BY <1>1, <2>1 DEF OpenInv, LinksInv
    <2>4. TaskInv' /\ WireInv' /\ DaemonInv' /\ NewInv'
      BY <1>1, <2>1, <2>2 DEF CoverInv, TaskInv, WireInv, DaemonInv, NewInv
    <2>5. HubInv'
      BY <1>1, <2>1, <2>2, LogKept, HubKept
    <2> QED  BY <2>3, <2>4, <2>5 DEF CoverInv
  <1>3. ASSUME NEW t \in Tasks, InsertEvent(t) \/ CommitEvent(t) \/ RollbackEvent(t)
        PROVE  OpenInv' /\ LinksInv' /\ CoverInv'
    BY <1>1, <1>3, RequestKeeps
  <1>4. ASSUME NEW t \in Tasks,
               \/ StartPush(t) \/ ScanNothingVisible(t) \/ ScanVisible(t) \/ SendFails(t) \/ FinishBatch(t)
        PROVE  OpenInv' /\ LinksInv' /\ CoverInv'
    BY <1>1, <1>4, PushKeeps
  <1>5. ASSUME NEW t \in Tasks, SendCopy(t) PROVE OpenInv' /\ LinksInv' /\ CoverInv'
    BY <1>1, <1>5, SendKeeps
  <1>6. ASSUME NEW t \in Tasks, RegisterWs(t) \/ RegisterFails(t) PROVE OpenInv' /\ LinksInv' /\ CoverInv'
    BY <1>1, <1>6, RegisterKeeps
  <1>7. ASSUME NEW t \in Tasks, AcceptWs(t) PROVE OpenInv' /\ LinksInv' /\ CoverInv'
    BY <1>1, <1>7, AcceptKeeps
  <1>8. CASE (\E c \in Conns : HandlerExit(c)) \/ Drop \/ Revoke
    BY <1>1, <1>8, EndKeeps
  <1>9. CASE DaemonConnect
    BY <1>1, <1>9, ConnectKeeps
  <1>10. CASE Receive
    BY <1>1, <1>10, ReceiveKeeps
  <1> QED
    BY <1>2, <1>3, <1>4, <1>5, <1>6, <1>7, <1>8, <1>9, <1>10 DEF Next, TaskStep

\* What the promise says of the daemon's cursor and of the hub's.
LEMMA PromiseIsKept == PromiseInv => OnlyExcusedSkipped /\ CursorCoversSent
  <1> SUFFICES ASSUME PromiseInv PROVE OnlyExcusedSkipped /\ CursorCoversSent
    OBVIOUS
  <1>1. TypeInv /\ CoverInv
    BY DEF PromiseInv
  <1>2. ASSUME NEW a \in Agents, NEW s \in VisibleTo(a), base < s, <<s, a>> \notin excused
        PROVE  <<s, a>> \in Log.owed /\ <<s, a>>[1] = s
    <2>1. s \in Committed /\ a \in records[s].visible
      BY DEF VisibleTo
    <2>2. <<s, a>> \in Published
      BY <1>1, <2>1, LogFacts
    <2> QED  BY <1>2, <2>2 DEF Log, Entries
  <1>3. OnlyExcusedSkipped
    <2> SUFFICES ASSUME NEW a \in Agents, NEW s \in VisibleTo(a), base < s, s < lastEventCursor,
                        <<s, a>> \notin excused
                 PROVE  <<s, a>> \in ToSet(delivered)
      BY DEF OnlyExcusedSkipped
    <2>1. <<s, a>> \in Log.owed /\ <<s, a>>[1] = s
      BY <1>2
    <2> QED  BY <1>1, <2>1 DEF CoverInv, DaemonInv, DaemonFollows
  <1>4. CursorCoversSent
    <2> SUFFICES ASSUME hub # 0, conns[hub].up, NEW a \in Agents, NEW s \in VisibleTo(a),
                        base < s, s <= cursors[hub], <<s, a>> \notin excused
                 PROVE  <<s, a>> \in Sent(wire[hub], delivered)
      BY DEF CursorCoversSent, Sent
    <2>1. <<s, a>> \in Log.owed /\ <<s, a>>[1] = s
      BY <1>2
    <2>2. Covered(Log, cursors[hub], Sent(wire[hub], delivered))
      BY <1>1 DEF CoverInv, HubInv, HubFollows
    <2> QED  BY <2>1, <2>2 DEF Covered
  <1> QED  BY <1>3, <1>4

\* The daemon's cursor is a promise that nothing behind it is missing but what committed
\* late or was cut off by a drop: for every number of agents, rows, websockets, coroutines,
\* transactions open at once, concurrent pushes and drops.
THEOREM NothingIsSkipped == Spec => []OnlyExcusedSkipped
  <1>1. Init => PromiseInv
    BY InitPromise
  <1>2. PromiseInv /\ [Next]_vars => PromiseInv'
    BY StepPromise
  <1>3. PromiseInv => OnlyExcusedSkipped
    BY PromiseIsKept
  <1> QED  BY <1>1, <1>2, <1>3, PTL DEF Spec

\* The hub's cursor never runs ahead of what was sent, however the pushes of any number of
\* handlers overwrite it.
THEOREM CursorIsCovered == Spec => []CursorCoversSent
  <1>1. Init => PromiseInv
    BY InitPromise
  <1>2. PromiseInv /\ [Next]_vars => PromiseInv'
    BY StepPromise
  <1>3. PromiseInv => CursorCoversSent
    BY PromiseIsKept
  <1> QED  BY <1>1, <1>2, <1>3, PTL DEF Spec

---------------------------------------------------------------------------
\* The feed's set of a sequence is the module's.
LEMMA FeedSets == \A s : Feed!ToSet(s) = ToSet(s)
  BY DEF Feed!ToSet, ToSet

\* The feed has nothing initially.
LEMMA InitFeed == Init => Feed!Init
  <1> SUFFICES ASSUME Init PROVE Feed!Init
    OBVIOUS
  <1>1. records = <<>> /\ base = 0 /\ excused = {} /\ delivered = <<>>
    BY DEF Init
  <1>2. Committed = {}
    BY <1>1 DEF Committed
  <1>3. Published = {} /\ LatestSeq = 0
    BY <1>2 DEF Published, VisibleTo, LatestSeq
  <1> QED  BY <1>1, <1>3 DEF Feed!Init

\* A commit publishes the copies of its row.
LEMMA CommitPublishes ==
    ASSUME TypeInv, OpenInv, NEW t \in Tasks, CommitEvent(t)
    PROVE  Feed!Publish
  <1> DEFINE s == task[t].seq
             who == records[s].visible
  <1>1. /\ s \in 1 .. MaxEvents /\ s \notin Committed /\ who \subseteq Agents
        /\ Published' = Published \cup ({s} \X who)
        /\ LatestSeq' = IF s > LatestSeq THEN s ELSE LatestSeq
        /\ excused' = IF s > LatestSeq THEN excused ELSE excused \cup ({s} \X who)
    BY CommitLog
  <1>2. base' = base /\ delivered' = delivered
    BY DEF CommitEvent, daemonVars
  <1>3. \A e \in Published : e[1] # s
    BY <1>1, LogFacts
  <1> HIDE DEF s, who
  <1>4. s \in Seqs /\ who \in SUBSET Agents
    BY <1>1 DEF Seqs
  <1> QED  BY <1>1, <1>2, <1>3, <1>4 DEF Feed!Publish

\* A new websocket resumes behind the last row the daemon has a copy of.
LEMMA ConnectResumes ==
    ASSUME TypeInv, CoverInv, DaemonConnect
    PROVE  Feed!Resume
  <1> DEFINE D == ToSet(delivered)
             k == lastEventCursor
             IsLast(place) == (\E e \in D : e[1] = place) /\ \A e \in D : e[1] <= place
  <1>1. /\ UNCHANGED <<records, base, delivered>>
        /\ excused' = excused \cup (RestOf(k) \ D)
    BY DEF DaemonConnect
  <1>2. Published' = Published /\ LatestSeq' = LatestSeq
    <2>1. Committed' = Committed /\ \A s \in Committed : records'[s].visible = records[s].visible
      BY <1>1 DEF Committed
    <2> QED  BY <1>1, <2>1, SameLog
  <1>3. DaemonFollows(Log, k, delivered) /\ k \in Nat
    BY Bounds DEF CoverInv, DaemonInv, TypeInv, DaemonTyped
  <1>4. \A e \in Published : e[1] \in Nat /\ e[1] # 0
    BY LogFacts
  <1>5. ASSUME NEW e \in Published, e \notin D PROVE e[1] = k <=> IsLast(e[1])
    <2>1. CASE delivered = <<>>
      <3>1. k = 0 /\ D = {}
        <4>1. ToSet(<<>>) = {}
          BY DEF ToSet
        <4> QED  BY <1>3, <2>1, <4>1 DEF DaemonFollows
      <3> QED  BY <1>4, <3>1
    <2>2. CASE delivered # <<>>
      <3>1. IsLast(k)
        BY <1>3, <2>2 DEF DaemonFollows
      <3>2. ASSUME IsLast(e[1]) PROVE e[1] = k
        <4>1. k <= e[1] /\ e[1] <= k
          BY <3>1, <3>2
        <4> QED  BY <1>3, <1>4, <4>1
      <3> QED  BY <3>1, <3>2
    <2> QED  BY <2>1, <2>2
  <1>6. RestOf(k) \ D = {e \in Published : IsLast(e[1]) /\ e \notin D}
    BY <1>5 DEF RestOf
  <1>7. excused' = excused \cup {e \in Published : IsLast(e[1]) /\ e \notin D}
    BY <1>1, <1>6
  <1> QED  BY <1>1, <1>2, <1>7, FeedSets DEF Feed!Resume

\* A copy is consumed behind the earlier ones.
LEMMA ReceiveConsumes ==
    ASSUME TypeInv, OpenInv, LinksInv, CoverInv, Receive
    PROVE  Feed!Consume
  <1> DEFINE x == Head(wire[ws])
             D == ToSet(delivered)
  <1>1. Fits(Log, D, x)
    BY ReceiveKeeps
  <1>2. UNCHANGED <<records, base, excused>> /\ delivered' = Append(delivered, x)
    BY DEF Receive
  <1>3. Published' = Published /\ LatestSeq' = LatestSeq
    BY <1>2, LogKept
  <1> HIDE DEF x
  <1>4. x \in Published /\ base < x[1]
    BY <1>1 DEF Fits, Log, Entries
  <1>5. \A d \in Published : base < d[1] /\ d[1] < x[1] => d \in excused \cup D
    BY <1>1 DEF Fits, Log, Entries
  <1>6. (\E t, u \in Tasks : t # u) \/ \A d \in D : d[1] <= x[1] /\ d # x
    BY <1>1 DEF Fits, OneAtATime
  <1> QED  BY <1>2, <1>3, <1>4, <1>5, <1>6, FeedSets DEF Feed!Consume

\* Every step is one of the ordered feed or leaves it alone.
LEMMA StepFeed == PromiseInv /\ [Next]_vars => [Feed!Next]_(Feed!vars)
  <1> SUFFICES ASSUME PromiseInv, [Next]_vars PROVE [Feed!Next]_(Feed!vars)
    OBVIOUS
  <1>1. TypeInv /\ OpenInv /\ LinksInv /\ CoverInv
    BY DEF PromiseInv
  <1>2. ASSUME UNCHANGED <<records, base, excused, delivered>> PROVE UNCHANGED Feed!vars
    BY <1>1, <1>2, LogKept DEF Feed!vars
  <1>3. CASE UNCHANGED vars
    BY <1>2, <1>3 DEF vars
  <1>4. ASSUME NEW t \in Tasks, CommitEvent(t) PROVE Feed!Next
    BY <1>1, <1>4, CommitPublishes DEF Feed!Next
  <1>5. ASSUME NEW t \in Tasks, InsertEvent(t) \/ RollbackEvent(t) PROVE UNCHANGED Feed!vars
    <2>1. Committed' = Committed /\ \A s \in Committed : records'[s].visible = records[s].visible
      BY <1>1, <1>5, NothingCommitted
    <2>2. base' = base /\ excused' = excused /\ delivered' = delivered
      BY <1>5 DEF InsertEvent, RollbackEvent, daemonVars
    <2>3. Published' = Published /\ LatestSeq' = LatestSeq
      BY <1>1, <2>1, <2>2, SameLog
    <2> QED  BY <2>2, <2>3 DEF Feed!vars
  <1>6. ASSUME NEW t \in Tasks,
               \/ StartPush(t) \/ ScanNothingVisible(t) \/ ScanVisible(t) \/ SendCopy(t) \/ SendFails(t)
               \/ FinishBatch(t) \/ RegisterWs(t) \/ RegisterFails(t)
        PROVE  UNCHANGED Feed!vars
    <2>1. UNCHANGED <<records, base, excused, delivered>>
      BY <1>6 DEF StartPush, ScanNothingVisible, ScanVisible, SendCopy, SendFails, FinishBatch, RegisterWs,
                  RegisterFails, daemonVars
    <2> QED  BY <1>2, <2>1
  <1>7. ASSUME NEW t \in Tasks, AcceptWs(t) PROVE Feed!Next \/ UNCHANGED Feed!vars
    <2>1. base' = base \/ (delivered = <<>> /\ base' = LatestSeq)
      BY <1>1, <1>7, AcceptKeeps
    <2>2. UNCHANGED <<records, excused, delivered>>
      BY <1>7 DEF AcceptWs, daemonVars
    <2>3. Published' = Published /\ LatestSeq' = LatestSeq
      <3>1. Committed' = Committed /\ Copies' = Copies
        BY <2>2 DEF Committed, Copies, Seqs
      <3> QED  BY <2>2, <3>1 DEF Published, VisibleTo, LatestSeq
    <2>4. CASE base' = base
      BY <1>2, <2>2, <2>4
    <2>5. CASE delivered = <<>> /\ base' = LatestSeq
      BY <2>2, <2>3, <2>5 DEF Feed!Next, Feed!Subscribe
    <2> QED  BY <2>1, <2>4, <2>5
  <1>8. CASE (\E c \in Conns : HandlerExit(c)) \/ Drop \/ Revoke
    <2>1. UNCHANGED <<records, base, excused, delivered>>
      BY <1>8 DEF HandlerExit, Drop, Revoke, daemonVars
    <2> QED  BY <1>2, <2>1
  <1>9. CASE DaemonConnect
    BY <1>1, <1>9, ConnectResumes DEF Feed!Next
  <1>10. CASE Receive
    BY <1>1, <1>10, ReceiveConsumes DEF Feed!Next
  <1> QED
    BY <1>3, <1>4, <1>5, <1>6, <1>7, <1>8, <1>9, <1>10 DEF Next, TaskStep

\* The daemon processes the log of the rows its agents may see in order, and leaves out
\* none but what committed late or was cut off by a drop; with one coroutine at a time it
\* processes each copy once.  Nothing is assumed of the requests, pushes and websockets.
THEOREM FeedIsOrdered == Spec => FeedSpec
  <1>1. Init => PromiseInv /\ Feed!Init
    BY InitPromise, InitFeed
  <1>2. PromiseInv /\ [Next]_vars => PromiseInv' /\ [Feed!Next]_(Feed!vars)
    BY StepPromise, StepFeed
  <1> QED  BY <1>1, <1>2, PTL DEF Spec, FeedSpec, Feed!Spec
=============================================================================
