--------------------------- MODULE EventDelivery ---------------------------
(***************************************************************************)
(* How a row of event_records reaches a daemon.                            *)
(*                                                                         *)
(* A request handler inserts a row (its seq is drawn from an identity      *)
(* sequence at INSERT and becomes visible at COMMIT), commits, and then    *)
(* pushes the log to the computer's websocket: push_events reads the       *)
(* connection's cursor, awaits a query for the rows behind it, sends one   *)
(* copy per agent that may see the row, and stores the new cursor.  The    *)
(* websocket handler does the same push when a daemon connects.  Each      *)
(* await lets another handler run: a Task below is one such coroutine.     *)
(*                                                                         *)
(* One computer and one daemon process are modelled; a second daemon that  *)
(* takes the computer over is the subject of the module DaemonLease.       *)
(***************************************************************************)
EXTENDS Naturals, Sequences, FiniteSets, SequencesExt

CONSTANTS
    Agents,         \* the agents bound to the computer
    Tasks,          \* coroutines of the backend that may run at once
    MaxEvents,      \* bound: rows inserted
    MaxConns,       \* bound: websockets the daemon opens
    MaxOpen,        \* bound: transactions open at once (1 = commits in seq order)
    BatchLimit,     \* rows one query returns (100 in the code)
    MaxBatches,     \* queries one push may issue (10 in the code)
    SlowHandshake   \* bound: may a handshake outlast the daemon's reconnect timer?

ASSUME EventDeliveryAssumption ==
    /\ IsFiniteSet(Agents) /\ Agents # {}
    /\ MaxEvents \in Nat /\ MaxConns \in Nat
    /\ MaxOpen \in Nat \ {0} /\ BatchLimit \in Nat \ {0} /\ MaxBatches \in Nat \ {0}
    /\ SlowHandshake \in BOOLEAN

VARIABLES
    records,        \* event_records: records[seq] = [visible, state]
    task,           \* the coroutines: where each one is and its locals
    hub,            \* DaemonControlHub._connections of the computer (0: none)
    cursors,        \* DaemonControlHub._event_cursors (0: no entry)
    conns,          \* the websockets: raw cursor, link, handler
    wire,           \* copies sent on a websocket and not yet received
    ws,             \* WebSocketManager.ws of the daemon (0: none)
    lastEventCursor,\* WebSocketManager.lastEventCursor
    revoked,        \* the daemon was closed with 4001: it stops and stays away
    delivered,      \* history: the copies the daemon processed, in order
    base,           \* history: where the daemon's last live subscription began
    excused         \* history: copies that no cursor promises (late or cut off)

daemonVars == <<ws, lastEventCursor, revoked, delivered>>
hubVars == <<hub, cursors>>
vars == <<records, task, hub, cursors, conns, wire, ws, lastEventCursor,
          revoked, delivered, base, excused>>

---------------------------------------------------------------------------
Seqs == 1 .. MaxEvents
Conns == 1 .. MaxConns
Copies == Seqs \X Agents

Idle == [pc |-> "idle", seq |-> 0, conn |-> 0, cursor |-> 0, scanned |-> 0,
         rounds |-> 0, batch |-> <<>>]

\* The rows a query sees, and those of them an agent may see.
Committed == {s \in DOMAIN records : records[s].state = "committed"}
OpenRows == {s \in DOMAIN records : records[s].state = "open"}
VisibleTo(a) == {s \in Committed : a \in records[s].visible}

\* The copies the committed rows have: one per agent that may see the row.
Published == {e \in Copies : e[1] \in VisibleTo(e[2])}

\* SELECT coalesce(max(seq), 0): the starting point of a live subscription.
LatestSeq == IF Committed = {} THEN 0 ELSE CHOOSE s \in Committed : \A r \in Committed : r <= s

\* ORDER BY seq LIMIT n over the rows behind the cursor.
Page(cursor) ==
    {s \in Committed : /\ s > cursor
                       /\ Cardinality({r \in Committed : cursor < r /\ r < s}) < BatchLimit}

\* One copy per row and per agent that may see it, in row order.
CopiesOf(s) == [i \in 1 .. Cardinality(records[s].visible) |->
                    <<s, SetToSeq(records[s].visible)[i]>>]
Expand(page) ==
    LET copies[s \in 0 .. Len(records)] ==
            IF s = 0 THEN <<>>
            ELSE IF s \in page THEN copies[s - 1] \o CopiesOf(s) ELSE copies[s - 1]
    IN  copies[Len(records)]
Scanned(cursor, page) == IF page = {} THEN cursor ELSE CHOOSE s \in page : \A r \in page : r <= s

Init ==
    /\ records = <<>>
    /\ task = [t \in Tasks |-> Idle]
    /\ hub = 0
    /\ cursors = [c \in Conns |-> 0]
    /\ conns = [c \in Conns |-> [raw |-> 0, up |-> FALSE, handler |-> "none"]]
    /\ wire = [c \in Conns |-> <<>>]
    /\ ws = 0
    /\ lastEventCursor = 0
    /\ revoked = FALSE
    /\ delivered = <<>>
    /\ base = 0
    /\ excused = {}

---------------------------------------------------------------------------
(* A request handler: INSERT, COMMIT or rollback, then the push.           *)

InsertEvent(t) ==
    /\ task[t].pc = "idle"
    /\ Len(records) < MaxEvents
    /\ Cardinality(OpenRows) < MaxOpen
    /\ \E visible \in SUBSET Agents :
           records' = Append(records, [visible |-> visible, state |-> "open"])
    /\ task' = [task EXCEPT ![t] = [Idle EXCEPT !.pc = "open", !.seq = Len(records) + 1]]
    /\ UNCHANGED <<hubVars, conns, wire, daemonVars, base, excused>>

\* A row that commits after one with a larger seq is late: the cursors may have
\* passed it already.
CommitEvent(t) ==
    LET s == task[t].seq IN
    /\ task[t].pc = "open"
    /\ records' = [records EXCEPT ![s].state = "committed"]
    /\ task' = [task EXCEPT ![t] = [Idle EXCEPT !.pc = "push"]]
    /\ excused' = IF LatestSeq > s THEN excused \cup ({s} \X records[s].visible) ELSE excused
    /\ UNCHANGED <<hubVars, conns, wire, daemonVars, base>>

RollbackEvent(t) ==
    /\ task[t].pc = "open"
    /\ records' = [records EXCEPT ![task[t].seq].state = "aborted"]
    /\ task' = [task EXCEPT ![t] = Idle]
    /\ UNCHANGED <<hubVars, conns, wire, daemonVars, base, excused>>

\* push_events up to its first await: the peers and the cursor are read here.
StartPush(t) ==
    /\ task[t].pc = "push"
    /\ task' = [task EXCEPT ![t] =
                   IF hub = 0 THEN Idle
                   ELSE [Idle EXCEPT !.pc = "scan", !.conn = hub,
                                     !.cursor = cursors[hub], !.rounds = MaxBatches]]
    /\ UNCHANGED <<records, hubVars, conns, wire, daemonVars, base, excused>>

\* A query whose rows concern no agent of the computer: the cursor moves over
\* them and another query follows; with no row at all the push ends.
ScanNothingVisible(t) ==
    LET page == Page(task[t].cursor)
        scanned == Scanned(task[t].cursor, page) IN
    /\ task[t].pc = "scan"
    /\ Expand(page) = <<>>
    /\ cursors' = IF page = {} THEN cursors ELSE [cursors EXCEPT ![task[t].conn] = scanned]
    /\ task' = [task EXCEPT ![t] =
                   IF page = {} \/ task[t].rounds = 1 THEN Idle
                   ELSE [task[t] EXCEPT !.cursor = scanned, !.rounds = @ - 1]]
    /\ UNCHANGED <<records, hub, conns, wire, daemonVars, base, excused>>

\* Mutant: the cursor is stored before the copies are sent.
ScanVisible_StoresCursorFirst(t) ==
    LET page == Page(task[t].cursor) IN
    /\ task[t].pc = "scan"
    /\ Expand(page) # <<>>
    /\ cursors' = [cursors EXCEPT ![task[t].conn] = Scanned(task[t].cursor, page)]
    /\ task' = [task EXCEPT ![t].pc = "send", ![t].batch = Expand(page),
                            ![t].scanned = Scanned(task[t].cursor, page)]
    /\ UNCHANGED <<records, hub, conns, wire, daemonVars, base, excused>>

\* A query with something to send.
ScanVisible(t) ==
    LET page == Page(task[t].cursor) IN
    /\ task[t].pc = "scan"
    /\ Expand(page) # <<>>
    /\ task' = [task EXCEPT ![t].pc = "send", ![t].batch = Expand(page),
                            ![t].scanned = Scanned(task[t].cursor, page)]
    /\ UNCHANGED <<records, hubVars, conns, wire, daemonVars, base, excused>>

\* await websocket.send_json(event).  On a link that is down the copy is lost.
SendCopy(t) ==
    LET c == task[t].conn IN
    /\ task[t].pc = "send"
    /\ task[t].batch # <<>>
    /\ wire' = IF conns[c].up THEN [wire EXCEPT ![c] = Append(@, Head(task[t].batch))] ELSE wire
    /\ task' = [task EXCEPT ![t].batch = Tail(@)]
    /\ UNCHANGED <<records, hubVars, conns, daemonVars, base, excused>>

\* send_json raises: the connection leaves the hub and the push ends.
SendFails(t) ==
    LET c == task[t].conn IN
    /\ task[t].pc = "send"
    /\ task[t].batch # <<>>
    /\ ~conns[c].up
    /\ hub' = IF hub = c THEN 0 ELSE hub
    /\ cursors' = [cursors EXCEPT ![c] = 0]
    /\ task' = [task EXCEPT ![t] = Idle]
    /\ UNCHANGED <<records, conns, wire, daemonVars, base, excused>>

\* Mutant: the cursor is not stored after the sends.
FinishBatch_CursorNotStored(t) ==
    /\ task[t].pc = "send"
    /\ task[t].batch = <<>>
    /\ task' = [task EXCEPT ![t] = Idle]
    /\ UNCHANGED <<records, hubVars, conns, wire, daemonVars, base, excused>>

\* Mutant: the cursor is stored one row too far.
FinishBatch_OneTooFar(t) ==
    /\ task[t].pc = "send"
    /\ task[t].batch = <<>>
    /\ cursors' = [cursors EXCEPT ![task[t].conn] = task[t].scanned + 1]
    /\ task' = [task EXCEPT ![t] = Idle]
    /\ UNCHANGED <<records, hub, conns, wire, daemonVars, base, excused>>

\* Every copy of the page is sent: the cursor is stored and the push ends,
\* also when more rows are waiting than one page holds.
FinishBatch(t) ==
    /\ task[t].pc = "send"
    /\ task[t].batch = <<>>
    /\ cursors' = [cursors EXCEPT ![task[t].conn] = task[t].scanned]
    /\ task' = [task EXCEPT ![t] = Idle]
    /\ UNCHANGED <<records, hub, conns, wire, daemonVars, base, excused>>

---------------------------------------------------------------------------
(* The websocket: the daemon connects, the backend registers it.           *)

\* The copies of the row a cursor is at.
RestOf(cursor) == {e \in Published : e[1] = cursor}

\* Mutant: the daemon reconnects at once.
DaemonConnect_AtOnce ==
    /\ ws = 0
    /\ ~revoked
    /\ \E c \in Conns :
        /\ conns[c].handler = "none"
        /\ \A d \in Conns : d < c => conns[d].handler # "none"
        /\ conns' = [conns EXCEPT ![c] = [raw |-> lastEventCursor, up |-> TRUE,
                                          handler |-> "new"]]
        /\ ws' = c
    /\ excused' = excused \cup (RestOf(lastEventCursor) \ ToSet(delivered))
    /\ UNCHANGED <<records, task, hubVars, wire, lastEventCursor, revoked, delivered, base>>

\* WebSocketManager.connect: the daemon asks to resume behind what it has.  The
\* copies of one row share its seq: those still missing of the last row it has
\* will not be sent again.  A handler that is still accepting an earlier
\* websocket may be overtaken only under SlowHandshake: the daemon waits five
\* seconds before it reconnects.
DaemonConnect ==
    /\ ws = 0
    /\ ~revoked
    /\ SlowHandshake \/ \A d \in Conns : conns[d].handler \notin {"new", "accepted"}
    /\ \E c \in Conns :
        /\ conns[c].handler = "none"
        /\ \A d \in Conns : d < c => conns[d].handler # "none"
        /\ conns' = [conns EXCEPT ![c] = [raw |-> lastEventCursor, up |-> TRUE,
                                          handler |-> "new"]]
        /\ ws' = c
    /\ excused' = excused \cup (RestOf(lastEventCursor) \ ToSet(delivered))
    /\ UNCHANGED <<records, task, hubVars, wire, lastEventCursor, revoked, delivered, base>>

\* Mutant: a subscription is always live, whatever cursor the daemon sent.
AcceptWs_IgnoresRawCursor(t) ==
    \E c \in Conns :
        /\ task[t].pc = "idle"
        /\ conns[c].handler = "new"
        /\ conns' = [conns EXCEPT ![c].handler = "accepted"]
        /\ task' = [task EXCEPT ![t] = [Idle EXCEPT !.pc = "register", !.conn = c,
                                                    !.cursor = LatestSeq]]
        /\ base' = IF conns[c].raw > 0 \/ c # ws THEN base ELSE LatestSeq
        /\ UNCHANGED <<records, hubVars, wire, daemonVars, excused>>

\* daemon_websocket up to initial_daemon_event_cursor: a positive cursor is
\* resumed, otherwise the subscription starts at the newest row.
AcceptWs(t) ==
    \E c \in Conns :
        /\ task[t].pc = "idle"
        /\ conns[c].handler = "new"
        /\ conns' = [conns EXCEPT ![c].handler = "accepted"]
        /\ LET cursor == IF conns[c].raw > 0 THEN conns[c].raw ELSE LatestSeq IN
            /\ task' = [task EXCEPT ![t] = [Idle EXCEPT !.pc = "register", !.conn = c,
                                                        !.cursor = cursor]]
            /\ base' = IF conns[c].raw > 0 \/ c # ws THEN base ELSE cursor
        /\ UNCHANGED <<records, hubVars, wire, daemonVars, excused>>

\* Mutant: the handler registers and reads, without the push of its own.
RegisterWs_WithoutPush(t) ==
    LET c == task[t].conn IN
    /\ task[t].pc = "register"
    /\ hub' = c
    /\ cursors' = [d \in Conns |-> CASE d = c -> task[t].cursor
                                     [] d = hub /\ d # c -> 0
                                     [] OTHER -> cursors[d]]
    /\ conns' = [d \in Conns |-> CASE d = c -> [conns[d] EXCEPT !.handler = "live"]
                                   [] d = hub /\ d # c -> [conns[d] EXCEPT !.up = FALSE]
                                   [] OTHER -> conns[d]]
    /\ task' = [task EXCEPT ![t] = Idle]
    /\ UNCHANGED <<records, wire, daemonVars, base, excused>>

\* add_exclusive: this connection replaces the one the hub holds, whose cursor
\* is dropped and which is closed with 4001 behind what is already in flight;
\* the handler then pushes before it reads from the websocket.
RegisterWs(t) ==
    LET c == task[t].conn IN
    /\ task[t].pc = "register"
    /\ hub' = c
    /\ cursors' = [d \in Conns |-> CASE d = c -> task[t].cursor
                                     [] d = hub /\ d # c -> 0
                                     [] OTHER -> cursors[d]]
    /\ conns' = [d \in Conns |-> CASE d = c -> [conns[d] EXCEPT !.handler = "live"]
                                   [] d = hub /\ d # c -> [conns[d] EXCEPT !.up = FALSE]
                                   [] OTHER -> conns[d]]
    /\ task' = [task EXCEPT ![t] = [Idle EXCEPT !.pc = "push"]]
    /\ UNCHANGED <<records, wire, daemonVars, base, excused>>

\* The commit that claims the lease fails behind add_exclusive and before the
\* try whose finally would take the connection out of the hub: the handler is
\* gone, its dead connection stays registered.  Bound: as for Drop.
RegisterFails(t) ==
    LET c == task[t].conn IN
    /\ task[t].pc = "register"
    /\ c # MaxConns
    /\ hub' = c
    /\ cursors' = [d \in Conns |-> CASE d = c -> task[t].cursor
                                     [] d = hub /\ d # c -> 0
                                     [] OTHER -> cursors[d]]
    /\ conns' = [d \in Conns |-> CASE d = c -> [conns[d] EXCEPT !.up = FALSE, !.handler = "gone"]
                                   [] d = hub /\ d # c -> [conns[d] EXCEPT !.up = FALSE]
                                   [] OTHER -> conns[d]]
    /\ task' = [task EXCEPT ![t] = Idle]
    /\ ws' = IF ws = c THEN 0 ELSE ws
    /\ UNCHANGED <<records, wire, lastEventCursor, revoked, delivered, base, excused>>

\* The handler notices that its websocket is gone: finally hub.remove.
HandlerExit(c) ==
    /\ conns[c].handler = "live"
    /\ ~conns[c].up
    /\ hub' = IF hub = c THEN 0 ELSE hub
    /\ cursors' = [cursors EXCEPT ![c] = 0]
    /\ conns' = [conns EXCEPT ![c].handler = "gone"]
    /\ UNCHANGED <<records, task, wire, daemonVars, base, excused>>

\* The network drops the daemon's websocket with whatever it carries.  Bound:
\* the last websocket stays up.
Drop ==
    /\ ws \in Conns \ {MaxConns}
    /\ conns' = [conns EXCEPT ![ws].up = FALSE]
    /\ wire' = [wire EXCEPT ![ws] = <<>>]
    /\ ws' = 0
    /\ UNCHANGED <<records, task, hubVars, lastEventCursor, revoked, delivered, base, excused>>

\* The close frame 4001 arrives behind the last copy: lease-revoked, no reconnect.
Revoke ==
    /\ ws # 0
    /\ ~conns[ws].up
    /\ wire[ws] = <<>>
    /\ revoked' = TRUE
    /\ ws' = 0
    /\ UNCHANGED <<records, task, hubVars, conns, wire, lastEventCursor, delivered, base, excused>>

\* The daemon's message listener: the cursor first, then the event.
Receive ==
    /\ ws # 0
    /\ wire[ws] # <<>>
    /\ LET copy == Head(wire[ws]) IN
        /\ lastEventCursor' = IF copy[1] > lastEventCursor THEN copy[1] ELSE lastEventCursor
        /\ delivered' = Append(delivered, copy)
    /\ wire' = [wire EXCEPT ![ws] = Tail(@)]
    /\ UNCHANGED <<records, task, hubVars, conns, ws, revoked, base, excused>>

TaskStep(t) ==
    \/ CommitEvent(t) \/ StartPush(t) \/ ScanNothingVisible(t) \/ ScanVisible(t)
    \/ SendCopy(t) \/ SendFails(t) \/ FinishBatch(t) \/ RegisterWs(t)

Next ==
    \/ \E t \in Tasks : TaskStep(t) \/ InsertEvent(t) \/ RollbackEvent(t)
                         \/ AcceptWs(t) \/ RegisterFails(t)
    \/ \E c \in Conns : HandlerExit(c)
    \/ DaemonConnect \/ Drop \/ Revoke \/ Receive

Spec == Init /\ [][Next]_vars

\* The event loop runs every ready coroutine, the daemon's reconnect timer
\* fires, a coroutine is found for a websocket that was opened, and a frame on
\* a link that stays up arrives.  Nothing forces a request or a network drop.
\* Within the bounds each of them takes finitely many steps, so that one
\* condition says of all of them that they go on until nothing is left to do.
Fairness ==
    WF_vars(\/ \E t \in Tasks : TaskStep(t) \/ AcceptWs(t)
            \/ \E c \in Conns : HandlerExit(c)
            \/ DaemonConnect \/ Revoke \/ Receive)

FairSpec == Spec /\ Fairness

---------------------------------------------------------------------------
TypeOK ==
    /\ records \in Seq([visible : SUBSET Agents, state : {"open", "committed", "aborted"}])
    /\ Len(records) <= MaxEvents
    /\ task \in [Tasks -> [pc : {"idle", "open", "push", "scan", "send", "register"},
                           seq : 0 .. MaxEvents, conn : 0 .. MaxConns,
                           cursor : 0 .. MaxEvents, scanned : 0 .. MaxEvents,
                           rounds : 0 .. MaxBatches, batch : Seq(Copies)]]
    /\ hub \in 0 .. MaxConns
    /\ cursors \in [Conns -> 0 .. MaxEvents]
    /\ conns \in [Conns -> [raw : 0 .. MaxEvents, up : BOOLEAN,
                            handler : {"none", "new", "accepted", "live", "gone"}]]
    /\ wire \in [Conns -> Seq(Copies)]
    /\ ws \in 0 .. MaxConns
    /\ lastEventCursor \in 0 .. MaxEvents
    /\ revoked \in BOOLEAN
    /\ delivered \in Seq(Copies)
    /\ base \in 0 .. MaxEvents
    /\ excused \in SUBSET Copies

\* The cursor the daemon resumes from is a promise that nothing behind it is
\* missing: every committed row between the start of its subscription and its
\* cursor was processed for every agent that may see it.  parse_positive_
\* event_cursor calls it "resumable".
NothingSkipped ==
    \A a \in Agents : \A s \in VisibleTo(a) :
        base < s /\ s < lastEventCursor => <<s, a>> \in ToSet(delivered)

\* What the promise is worth: nothing behind the daemon's cursor is missing but
\* rows that committed late and, of a row whose copies were cut off by a drop,
\* the rest.  What could break it is a cursor stored before the sends, a resume
\* from the wrong place, or a page and a push that disagree.
OnlyExcusedSkipped ==
    \A a \in Agents : \A s \in VisibleTo(a) :
        base < s /\ s < lastEventCursor => <<s, a>> \in ToSet(delivered) \cup excused

\* The hub's cursor never runs ahead of what was sent: while the registered
\* websocket is up, each copy behind its cursor is in flight or processed (or
\* excused), however the pushes of several handlers overwrite the cursor of
\* each other.
CursorCoversSent ==
    hub # 0 /\ conns[hub].up =>
        \A a \in Agents : \A s \in VisibleTo(a) :
            base < s /\ s <= cursors[hub] =>
                <<s, a>> \in ToSet(wire[hub]) \cup ToSet(delivered) \cup excused

\* Every row that commits in order for an agent after its daemon subscribed is
\* processed in the end, through drops and reconnects, with nothing but the
\* pushes that follow a commit and a connect.
EventuallyDelivered ==
    []<>(\A a \in Agents : \A s \in VisibleTo(a) :
            base < s => <<s, a>> \in ToSet(delivered) \cup excused)

\* 4001 means that another daemon took the computer over (websocket.ts:100,
\* "单活跃租约被新实例接管"): a daemon without a rival is never sent away.
NeverEvictedByItself == ~revoked

\* Refinement: what the daemon processes is the log of the rows its agents may
\* see, in the order of the log and, as long as one push runs at a time, in one
\* pass.  Concurrent pushes may send a row again.
Feed == INSTANCE OrderedFeed WITH
    Places <- Seqs, Readers <- Agents, Repeats <- (\E t, u \in Tasks : t # u),
    published <- Published, latest <- LatestSeq, start <- base, consumed <- delivered

FeedSpec == Feed!Spec
=============================================================================
