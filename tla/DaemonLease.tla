---------------------------- MODULE DaemonLease ----------------------------
(***************************************************************************)
(* Which of several daemon processes of one computer is the active one.    *)
(*                                                                         *)
(* The computer's row names the holder of a lease and its expiry.  HTTP    *)
(* requests (register, heartbeat, shutdown) respect another holder; a      *)
(* websocket takes the lease over unconditionally, its connection replaces *)
(* the one in the hub, and the displaced daemon is closed with 4001 and    *)
(* shuts itself down.                                                      *)
(*                                                                         *)
(* Each handler loads the row into its own session and later writes only   *)
(* the attributes it has changed, as SQLAlchemy does; what another handler *)
(* wrote in between stays in the other attributes.  A websocket handler    *)
(* keeps its copy of the row for as long as the websocket lives.           *)
(*                                                                         *)
(* A daemon process has at most one websocket, and the next one is opened  *)
(* after the backend has let go of the one before (module EventDelivery    *)
(* treats the overlap).  Every daemon sends a daemonId, has one register   *)
(* or heartbeat request under way at a time, and gets its answer.          *)
(***************************************************************************)
EXTENDS Naturals, FiniteSets

CONSTANTS
    Daemons,        \* the daemon processes, each with a daemonId of its own
    Managed,        \* those that give up when their registration is refused
    None,           \* no daemon
    LeaseTicks,     \* DAEMON_LEASE_SECONDS
    MaxDrops,       \* bound: websockets the network drops
    Crashes         \* bound: may a daemon die without a shutdown request?

ASSUME DaemonLeaseAssumption ==
    /\ IsFiniteSet(Daemons)
    /\ Managed \subseteq Daemons
    /\ None \notin Daemons
    /\ LeaseTicks \in Nat \ {0}
    /\ MaxDrops \in Nat
    /\ Crashes \in BOOLEAN

VARIABLES
    holder,         \* computers.active_daemon_id
    left,           \* ticks until daemon_lease_expires_at
    online,         \* computers.status = "online"
    proc,           \* the life of each daemon process
    http,           \* its register or heartbeat request: where, and the row it loaded
    down,           \* its shutdown request: the same
    link,           \* the daemon's end of its websocket is open
    ws,             \* the handler of its websocket
    copy,           \* the row the websocket handler keeps
    evicted,        \* a close frame 4001 is on its way to the daemon
    hub,            \* whose websocket the hub holds
    drops           \* bound: drops so far

row == <<holder, left, online>>
sockets == <<link, ws, copy, evicted, hub, drops>>
vars == <<row, proc, http, down, sockets>>

---------------------------------------------------------------------------
Rows == [holder : Daemons \cup {None}, online : BOOLEAN]
TheRow == [holder |-> holder, online |-> online]
Blank == [holder |-> None, online |-> FALSE]
NoRequest == [pc |-> "idle", row |-> Blank]

\* _lease_active, of the row in the database.
LeaseActive == online /\ holder # None /\ left > 0

\* _daemon_lease_conflicts.
Conflicts(d) == LeaseActive /\ holder # d

\* A commit: the expiry, which always differs, and the attributes that differ
\* from what was loaded.
Commit(loaded, newHolder, newOnline, newLeft) ==
    /\ holder' = IF newHolder = loaded.holder THEN holder ELSE newHolder
    /\ online' = IF newOnline = loaded.online THEN online ELSE newOnline
    /\ left' = newLeft

Init ==
    /\ holder = None /\ left = 0 /\ online = FALSE
    /\ proc = [d \in Daemons |-> "off"]
    /\ http = [d \in Daemons |-> NoRequest]
    /\ down = [d \in Daemons |-> NoRequest]
    /\ link = [d \in Daemons |-> FALSE]
    /\ ws = [d \in Daemons |-> "none"]
    /\ copy = [d \in Daemons |-> Blank]
    /\ evicted = [d \in Daemons |-> FALSE]
    /\ hub = None
    /\ drops = 0

---------------------------------------------------------------------------
(* Register and heartbeat.                                                 *)

\* Daemon.start: the first request is the registration.
Start(d) ==
    /\ proc[d] = "off"
    /\ proc' = [proc EXCEPT ![d] = "starting"]
    /\ http' = [http EXCEPT ![d].pc = "sent"]
    /\ UNCHANGED <<row, down, sockets>>

Heartbeat(d) ==
    /\ proc[d] = "running"
    /\ http[d].pc = "idle"
    /\ http' = [http EXCEPT ![d].pc = "sent"]
    /\ UNCHANGED <<row, proc, down, sockets>>

\* What the answer to a registration means for a daemon that waits for it: a
\* managed one needs it to be granted.
Answered(d, granted) ==
    proc' = [proc EXCEPT ![d] = IF @ # "starting" THEN @
                                ELSE IF granted \/ d \notin Managed THEN "running" ELSE "gone"]

\* resolve_machine loads the row, and another daemon's active lease refuses.
Refuse(d) ==
    /\ http[d].pc = "sent"
    /\ Conflicts(d)
    /\ http' = [http EXCEPT ![d] = NoRequest]
    /\ Answered(d, FALSE)
    /\ UNCHANGED <<row, down, sockets>>

Load(d) ==
    /\ http[d].pc = "sent"
    /\ ~Conflicts(d)
    /\ http' = [http EXCEPT ![d] = [pc |-> "loaded", row |-> TheRow]]
    /\ UNCHANGED <<row, proc, down, sockets>>

\* ... and after the workspaces are synchronised the row is written.
Grant(d) ==
    /\ http[d].pc = "loaded"
    /\ Commit(http[d].row, d, TRUE, LeaseTicks)
    /\ http' = [http EXCEPT ![d] = NoRequest]
    /\ Answered(d, TRUE)
    /\ UNCHANGED <<down, sockets>>

---------------------------------------------------------------------------
(* The websocket.                                                          *)

\* WebSocketManager.connect and daemon_websocket up to the loaded row.
Open(d) ==
    /\ proc[d] = "running"
    /\ ~link[d] /\ ws[d] = "none"
    /\ link' = [link EXCEPT ![d] = TRUE]
    /\ ws' = [ws EXCEPT ![d] = "accepted"]
    /\ copy' = [copy EXCEPT ![d] = TheRow]
    /\ evicted' = [evicted EXCEPT ![d] = FALSE]
    /\ UNCHANGED <<row, proc, http, down, hub, drops>>

\* add_exclusive, and the displaced websocket is closed with 4001.
TakeOver(d) ==
    /\ ws[d] = "accepted"
    /\ ws' = [ws EXCEPT ![d] = "registered"]
    /\ hub' = d
    /\ evicted' = [e \in Daemons |-> evicted[e] \/ (e = hub /\ e # d /\ link[e])]
    /\ UNCHANGED <<row, proc, http, down, link, copy, drops>>

\* The handler claims the lease and begins to read from the websocket.
Claim(d) ==
    /\ ws[d] = "registered"
    /\ Commit(copy[d], d, TRUE, LeaseTicks)
    /\ copy' = [copy EXCEPT ![d] = [holder |-> d, online |-> TRUE]]
    /\ ws' = [ws EXCEPT ![d] = "live"]
    /\ UNCHANGED <<proc, http, down, link, evicted, hub, drops>>

\* Mutant: the lease is prolonged by its length instead of renewed.
Ack_Prolongs(d) ==
    /\ ws[d] = "live" /\ link[d] /\ ~evicted[d]
    /\ copy[d].holder = d
    /\ Commit(copy[d], d, TRUE, left + LeaseTicks)
    /\ UNCHANGED <<proc, http, down, sockets>>

\* An ack or activity: the check for another holder looks at the handler's copy,
\* in which this daemon has been the holder since Claim, so that it never finds
\* one; only the expiry differs from the copy and is written.
Ack(d) ==
    /\ ws[d] = "live" /\ link[d] /\ ~evicted[d]
    /\ copy[d].holder = d
    /\ Commit(copy[d], d, TRUE, LeaseTicks)
    /\ UNCHANGED <<proc, http, down, sockets>>

\* Mutant: the hub is cleared whoever is in it.
HandlerExit_ClearsHub(d) ==
    /\ ws[d] = "live"
    /\ ~link[d] \/ evicted[d]
    /\ ws' = [ws EXCEPT ![d] = "none"]
    /\ hub' = None
    /\ UNCHANGED <<row, proc, http, down, link, copy, evicted, drops>>

\* The handler notices that its websocket is closed: finally hub.remove.
HandlerExit(d) ==
    /\ ws[d] = "live"
    /\ ~link[d] \/ evicted[d]
    /\ ws' = [ws EXCEPT ![d] = "none"]
    /\ hub' = IF hub = d THEN None ELSE hub
    /\ UNCHANGED <<row, proc, http, down, link, copy, evicted, drops>>

\* The network drops the websocket, with a close frame that is under way.
Drop(d) ==
    /\ link[d]
    /\ drops < MaxDrops
    /\ drops' = drops + 1
    /\ link' = [link EXCEPT ![d] = FALSE]
    /\ evicted' = [evicted EXCEPT ![d] = FALSE]
    /\ UNCHANGED <<row, proc, http, down, ws, copy, hub>>

---------------------------------------------------------------------------
(* The end of a daemon.                                                    *)

Disconnect(d) ==
    /\ link' = [link EXCEPT ![d] = FALSE]
    /\ evicted' = [evicted EXCEPT ![d] = FALSE]
    /\ UNCHANGED <<ws, copy, hub, drops>>

\* Mutant: a daemon that is closed with 4001 reconnects like after any close.
Revoke_Reconnects(d) ==
    /\ proc[d] = "running" /\ link[d] /\ evicted[d]
    /\ Disconnect(d)
    /\ UNCHANGED <<row, proc, http, down>>

\* 4001 arrives: handleLeaseRevoked stops the runtimes and the daemon.
Revoke(d) ==
    /\ proc[d] = "running" /\ link[d] /\ evicted[d]
    /\ proc' = [proc EXCEPT ![d] = "stopping"]
    /\ down' = [down EXCEPT ![d].pc = "sent"]
    /\ Disconnect(d)
    /\ UNCHANGED <<row, http>>

\* The user stops the daemon.
Stop(d) ==
    /\ proc[d] = "running"
    /\ proc' = [proc EXCEPT ![d] = "stopping"]
    /\ down' = [down EXCEPT ![d].pc = "sent"]
    /\ Disconnect(d)
    /\ UNCHANGED <<row, http>>

Crash(d) ==
    /\ Crashes
    /\ proc[d] \in {"starting", "running"}
    /\ proc' = [proc EXCEPT ![d] = "gone"]
    /\ Disconnect(d)
    /\ UNCHANGED <<row, http, down>>

\* daemon_shutdown: not the holder's, hence ignored.
IgnoreShutdown(d) ==
    /\ down[d].pc = "sent"
    /\ holder \notin {None, d}
    /\ down' = [down EXCEPT ![d] = NoRequest]
    /\ proc' = [proc EXCEPT ![d] = "gone"]
    /\ UNCHANGED <<row, http, sockets>>

LoadShutdown(d) ==
    /\ down[d].pc = "sent"
    /\ holder \in {None, d}
    /\ down' = [down EXCEPT ![d] = [pc |-> "loaded", row |-> TheRow]]
    /\ UNCHANGED <<row, proc, http, sockets>>

Release(d) ==
    /\ down[d].pc = "loaded"
    /\ Commit(down[d].row, None, FALSE, 0)
    /\ down' = [down EXCEPT ![d] = NoRequest]
    /\ proc' = [proc EXCEPT ![d] = "gone"]
    /\ UNCHANGED <<http, sockets>>

\* The clock: daemon_lease_expires_at comes nearer.
Tick ==
    /\ left > 0
    /\ left' = left - 1
    /\ UNCHANGED <<holder, online, proc, http, down, sockets>>

Request(d) == Refuse(d) \/ Load(d) \/ Grant(d)
Socket(d) == TakeOver(d) \/ Claim(d) \/ HandlerExit(d)
Shutdown(d) == IgnoreShutdown(d) \/ LoadShutdown(d) \/ Release(d)

Next ==
    \/ \E d \in Daemons :
        \/ Start(d) \/ Heartbeat(d) \/ Request(d)
        \/ Open(d) \/ Socket(d) \/ Ack(d) \/ Drop(d)
        \/ Revoke(d) \/ Stop(d) \/ Crash(d) \/ Shutdown(d)
    \/ Tick

Spec == Init /\ [][Next]_vars

\* The clock runs, each handler finishes, close frames arrive unless the
\* websocket drops first, a daemon heartbeats every 15 s, sends an activity every
\* 30 s and reconnects after 5 s.  Nobody has to start or stop a daemon.
Fairness ==
    /\ WF_vars(Tick)
    /\ \A d \in Daemons :
        /\ WF_vars(Request(d)) /\ WF_vars(Socket(d)) /\ WF_vars(Shutdown(d))
        /\ WF_vars(Heartbeat(d))
        /\ WF_vars(Open(d)) /\ WF_vars(Ack(d)) /\ WF_vars(Revoke(d))

FairSpec == Spec /\ Fairness

---------------------------------------------------------------------------
TypeOK ==
    /\ holder \in Daemons \cup {None}
    /\ left \in 0 .. LeaseTicks
    /\ online \in BOOLEAN
    /\ proc \in [Daemons -> {"off", "starting", "running", "stopping", "gone"}]
    /\ http \in [Daemons -> [pc : {"idle", "sent", "loaded"}, row : Rows]]
    /\ down \in [Daemons -> [pc : {"idle", "sent", "loaded"}, row : Rows]]
    /\ link \in [Daemons -> BOOLEAN]
    /\ ws \in [Daemons -> {"none", "accepted", "registered", "live"}]
    /\ copy \in [Daemons -> Rows]
    /\ evicted \in [Daemons -> BOOLEAN]
    /\ hub \in Daemons \cup {None}
    /\ drops \in 0 .. MaxDrops

Running == {d \in Daemons : proc[d] = "running"}

\* "后端已强制只剩一个，多余实例会自行退出" (docs/orphan-daemon-cleanup.md:21): of several
\* daemons of one computer all but one stop by themselves, through dropped
\* websockets, lost close frames and takeovers in any order.
EventuallyOneDaemon == Cardinality(Running) > 1 ~> Cardinality(Running) <= 1

Connected(d) == ws[d] = "live" /\ link[d] /\ ~evicted[d]

\* "此后控制命令与事件只投给本连接（唯一活跃实例）" (agent_api.py:2068): a websocket
\* that nobody has closed is the one in the hub, so that two daemons are never fed,
\* and a handler that ends never takes a later connection out of the hub.
OnlyHubConnected == \A d \in Daemons : Connected(d) => hub = d

\* "租约已被更新的实例接管：停止消费并断开，避免双投递" (agent_api.py:2113): a connected
\* daemon does not go on beside a lease that belongs to another one.
ConflictEnds == \A d \in Daemons : Connected(d) /\ Conflicts(d) ~> ~(Connected(d) /\ Conflicts(d))
=============================================================================
