------------------------- MODULE DaemonLeaseProofs -------------------------
(* Theorems about DaemonLease, for every set of daemons, every length of   *)
(* the lease and every number of drops.                                    *)
EXTENDS DaemonLease, TLAPS

\* A handler that has entered the hub and was not displaced is still in it.  The
\* property speaks of handlers that read; the step before, in which a handler is
\* registered and has not claimed the lease, is needed for the induction.
InHub(d) == ws[d] \in {"registered", "live"} /\ link[d] /\ ~evicted[d]
HubInv == \A d \in Daemons : InHub(d) => hub = d

IInv == TypeOK /\ HubInv

\* What a commit writes has its type.
LEMMA CommitTyped ==
    ASSUME TypeOK,
           NEW loaded \in Rows, NEW h \in Daemons \cup {None}, NEW o \in BOOLEAN,
           NEW l \in 0 .. LeaseTicks, Commit(loaded, h, o, l)
    PROVE  /\ holder' \in Daemons \cup {None}
           /\ online' \in BOOLEAN
           /\ left' \in 0 .. LeaseTicks
  BY DEF TypeOK, Commit, Rows

\* The invariant holds initially.
LEMMA InitIInv == Init => IInv
  <1> SUFFICES ASSUME Init PROVE IInv
    OBVIOUS
  <1>1. Blank \in Rows /\ NoRequest \in [pc : {"idle", "sent", "loaded"}, row : Rows]
    BY DEF Blank, NoRequest, Rows
  <1>2. TypeOK
    <2>1. left \in 0 .. LeaseTicks /\ drops \in 0 .. MaxDrops
      BY DaemonLeaseAssumption DEF DaemonLeaseAssumption, Init
    <2>2. /\ http \in [Daemons -> [pc : {"idle", "sent", "loaded"}, row : Rows]]
          /\ down \in [Daemons -> [pc : {"idle", "sent", "loaded"}, row : Rows]]
          /\ copy \in [Daemons -> Rows]
      BY <1>1 DEF Init
    <2>3. /\ proc \in [Daemons -> {"off", "starting", "running", "stopping", "gone"}]
          /\ ws \in [Daemons -> {"none", "accepted", "registered", "live"}]
      BY DEF Init
    <2>4. link \in [Daemons -> BOOLEAN] /\ evicted \in [Daemons -> BOOLEAN]
      BY DEF Init
    <2>5. /\ online \in BOOLEAN
          /\ holder \in Daemons \cup {None} /\ hub \in Daemons \cup {None}
      BY DEF Init
    <2> QED
      BY <2>1, <2>2, <2>3, <2>4, <2>5 DEF TypeOK
  <1>3. HubInv
    BY DEF Init, HubInv, InHub
  <1> QED
    BY <1>2, <1>3 DEF IInv

\* Every step keeps the types.
LEMMA StepTyped == TypeOK /\ [Next]_vars => TypeOK'
  <1> SUFFICES ASSUME TypeOK, [Next]_vars PROVE TypeOK'
    OBVIOUS
  <1> USE DaemonLeaseAssumption DEF DaemonLeaseAssumption
  <1>r. TheRow \in Rows /\ NoRequest \in [pc : {"idle", "sent", "loaded"}, row : Rows]
    BY DEF TheRow, Rows, NoRequest, Blank, TypeOK
  <1>l. LeaseTicks \in 0 .. LeaseTicks /\ 0 \in 0 .. LeaseTicks
    OBVIOUS
  <1>1. ASSUME NEW d \in Daemons, Start(d) PROVE TypeOK'
    BY <1>1 DEF Start, TypeOK, row, sockets, Rows
  <1>2. ASSUME NEW d \in Daemons, Heartbeat(d) PROVE TypeOK'
    BY <1>2 DEF Heartbeat, TypeOK, row, sockets, Rows
  <1>3. ASSUME NEW d \in Daemons, Refuse(d) PROVE TypeOK'
    BY <1>3, <1>r DEF Refuse, Answered, TypeOK, row, sockets
  <1>4. ASSUME NEW d \in Daemons, Load(d) PROVE TypeOK'
    BY <1>4, <1>r DEF Load, TypeOK, row, sockets
  <1>5. ASSUME NEW d \in Daemons, Grant(d) PROVE TypeOK'
    <2>1. http[d].row \in Rows
      BY DEF TypeOK
    <2>2. /\ holder' \in Daemons \cup {None}
          /\ online' \in BOOLEAN
          /\ left' \in 0 .. LeaseTicks
      BY <1>5, <1>l, <2>1, CommitTyped DEF Grant
    <2> QED
      BY <1>5, <1>r, <2>2 DEF Grant, Answered, TypeOK, sockets
  <1>6. ASSUME NEW d \in Daemons, Open(d) PROVE TypeOK'
    BY <1>6, <1>r DEF Open, TypeOK, row
  <1>7. ASSUME NEW d \in Daemons, TakeOver(d) PROVE TypeOK'
    BY <1>7 DEF TakeOver, TypeOK, row
  <1>8. ASSUME NEW d \in Daemons, Claim(d) PROVE TypeOK'
    <2>1. copy[d] \in Rows /\ [holder |-> d, online |-> TRUE] \in Rows
      BY DEF TypeOK, Rows
    <2>2. /\ holder' \in Daemons \cup {None}
          /\ online' \in BOOLEAN
          /\ left' \in 0 .. LeaseTicks
      BY <1>8, <1>l, <2>1, CommitTyped DEF Claim
    <2> QED
      BY <1>8, <2>1, <2>2 DEF Claim, TypeOK
  <1>9. ASSUME NEW d \in Daemons, HandlerExit(d) PROVE TypeOK'
    BY <1>9 DEF HandlerExit, TypeOK, row
  <1>10. ASSUME NEW d \in Daemons, Ack(d) PROVE TypeOK'
    <2>1. copy[d] \in Rows
      BY DEF TypeOK
    <2>2. /\ holder' \in Daemons \cup {None}
          /\ online' \in BOOLEAN
          /\ left' \in 0 .. LeaseTicks
      BY <1>10, <1>l, <2>1, CommitTyped DEF Ack
    <2> QED
      BY <1>10, <2>2 DEF Ack, TypeOK, sockets
  <1>11. ASSUME NEW d \in Daemons, Drop(d) PROVE TypeOK'
    BY <1>11 DEF Drop, TypeOK, row
  <1>12. ASSUME NEW d \in Daemons, Revoke(d) \/ Stop(d) PROVE TypeOK'
    <2>1. /\ proc' = [proc EXCEPT ![d] = "stopping"]
          /\ down' = [down EXCEPT ![d].pc = "sent"]
          /\ link' = [link EXCEPT ![d] = FALSE]
          /\ evicted' = [evicted EXCEPT ![d] = FALSE]
          /\ UNCHANGED <<holder, left, online, http, ws, copy, hub, drops>>
      BY <1>12 DEF Revoke, Stop, Disconnect, row
    <2>2. down' \in [Daemons -> [pc : {"idle", "sent", "loaded"}, row : Rows]]
      BY <2>1 DEF TypeOK
    <2> QED
      BY <2>1, <2>2 DEF TypeOK
  <1>13. ASSUME NEW d \in Daemons, Crash(d) PROVE TypeOK'
    BY <1>13 DEF Crash, Disconnect, TypeOK, row
  <1>14. ASSUME NEW d \in Daemons, IgnoreShutdown(d) PROVE TypeOK'
    BY <1>14, <1>r DEF IgnoreShutdown, TypeOK, row, sockets
  <1>15. ASSUME NEW d \in Daemons, LoadShutdown(d) PROVE TypeOK'
    BY <1>15, <1>r DEF LoadShutdown, TypeOK, row, sockets
  <1>16. ASSUME NEW d \in Daemons, Release(d) PROVE TypeOK'
    <2>1. down[d].row \in Rows
      BY DEF TypeOK
    <2>2. /\ holder' \in Daemons \cup {None}
          /\ online' \in BOOLEAN
          /\ left' \in 0 .. LeaseTicks
      BY <1>16, <1>l, <2>1, CommitTyped DEF Release
    <2> QED
      BY <1>16, <1>r, <2>2 DEF Release, TypeOK, sockets
  <1>17. CASE Tick
    BY <1>17 DEF Tick, TypeOK, sockets
  <1>18. CASE UNCHANGED vars
    BY <1>18 DEF TypeOK, vars, row, sockets
  <1> QED
    BY <1>1, <1>2, <1>3, <1>4, <1>5, <1>6, <1>7, <1>8, <1>9, <1>10, <1>11, <1>12,
       <1>13, <1>14, <1>15, <1>16, <1>17, <1>18
       DEF Next, Request, Socket, Shutdown

\* Every step keeps the hub right.
LEMMA StepHub == TypeOK /\ HubInv /\ [Next]_vars => HubInv'
  <1> SUFFICES ASSUME TypeOK, HubInv, [Next]_vars, NEW e \in Daemons, InHub(e)'
               PROVE  hub' = e
    BY DEF HubInv
  \* Requests, shutdowns and the clock do not touch the sockets.
  <1>1. CASE UNCHANGED sockets
    BY <1>1 DEF sockets, HubInv, InHub
  <1>2. ASSUME NEW d \in Daemons,
               Start(d) \/ Heartbeat(d) \/ Request(d) \/ Ack(d) \/ Shutdown(d)
        PROVE  UNCHANGED sockets
    BY <1>2 DEF Start, Heartbeat, Request, Refuse, Load, Grant, Ack, Shutdown,
                IgnoreShutdown, LoadShutdown, Release
  <1>3. ASSUME NEW d \in Daemons, Open(d) PROVE hub' = e
    <2>1. e # d
      BY <1>3 DEF Open, TypeOK, InHub
    <2> QED
      BY <1>3, <2>1 DEF Open, TypeOK, HubInv, InHub
  \* Whoever was in the hub is displaced.
  <1>4. ASSUME NEW d \in Daemons, TakeOver(d) PROVE hub' = e
    <2>1. CASE e = d
      BY <1>4, <2>1 DEF TakeOver
    <2>2. CASE e # d
      <3>1. InHub(e)
        BY <1>4, <2>2 DEF TakeOver, TypeOK, InHub
      <3>2. hub = e
        BY <3>1 DEF HubInv
      <3>3. evicted'[e]
        BY <1>4, <2>2, <3>1, <3>2 DEF TakeOver, InHub
      <3> QED
        BY <3>3 DEF InHub
    <2> QED
      BY <2>1, <2>2
  <1>5. ASSUME NEW d \in Daemons, Claim(d) PROVE hub' = e
    <2>1. InHub(e)
      BY <1>5 DEF Claim, TypeOK, InHub
    <2> QED
      BY <1>5, <2>1 DEF Claim, HubInv
  \* A handler that ends takes out only itself.
  <1>6. ASSUME NEW d \in Daemons, HandlerExit(d) PROVE hub' = e
    <2>1. e # d /\ InHub(e)
      BY <1>6 DEF HandlerExit, TypeOK, InHub
    <2> QED
      BY <1>6, <2>1 DEF HandlerExit, HubInv
  <1>7. ASSUME NEW d \in Daemons, Drop(d) \/ Revoke(d) \/ Stop(d) \/ Crash(d)
        PROVE  hub' = e
    <2>1. /\ link' = [link EXCEPT ![d] = FALSE]
          /\ evicted' = [evicted EXCEPT ![d] = FALSE]
          /\ UNCHANGED <<ws, hub>>
      BY <1>7 DEF Drop, Revoke, Stop, Crash, Disconnect
    <2>2. e # d /\ InHub(e)
      BY <2>1 DEF TypeOK, InHub
    <2> QED
      BY <2>1, <2>2 DEF HubInv
  <1>8. CASE Tick
    BY <1>1, <1>8 DEF Tick
  <1>9. CASE UNCHANGED vars
    BY <1>1, <1>9 DEF vars
  <1> QED
    BY <1>1, <1>2, <1>3, <1>4, <1>5, <1>6, <1>7, <1>8, <1>9 DEF Next, Socket

\* The invariant always holds.
LEMMA SpecIInv == Spec => []IInv
  <1>1. IInv /\ [Next]_vars => IInv'
    BY StepTyped, StepHub DEF IInv
  <1> QED
    BY InitIInv, <1>1, PTL DEF Spec

\* Each variable of the lease and of the websockets keeps its type.
THEOREM TypeCorrectness == Spec => []TypeOK
  <1>1. IInv => TypeOK
    BY DEF IInv
  <1> QED
    BY SpecIInv, <1>1, PTL

\* However takeovers, drops and handlers that end overlap, no two daemons are fed
\* and no connected daemon is missing in the hub (add_exclusive and remove).
THEOREM HubIsExclusive == Spec => []OnlyHubConnected
  <1>1. IInv => OnlyHubConnected
    BY DEF IInv, HubInv, InHub, OnlyHubConnected, Connected
  <1> QED
    BY SpecIInv, <1>1, PTL
=============================================================================
