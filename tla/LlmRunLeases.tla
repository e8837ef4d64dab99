---------------------------- MODULE LlmRunLeases ----------------------------
(***************************************************************************)
(* The capacity leases for turns of the built-in Pi runtime.               *)
(*                                                                         *)
(* A driver acquires a lease for a run, polling while it waits, keeps it   *)
(* alive with heartbeats and releases it when the turn ends.  acquire and  *)
(* release run under one advisory lock and end with a reconciliation that  *)
(* expires stale owners and promotes waiters in the order they came.  The  *)
(* heartbeat takes no lock, and release decides on a row it read before it *)
(* took the lock: both are split into what they read and what they write.  *)
(*                                                                         *)
(* Time is counted down: left is the number of ticks until expires_at, so  *)
(* that the clock needs no bound.                                          *)
(***************************************************************************)
EXTENDS Naturals, FiniteSets

CONSTANTS
    Runs,           \* run ids; a run id is used for one turn
    Abandoned,      \* runs whose driver dies after it first asked
    Capacity,       \* pi_llm_max_active_runs
    LeaseTicks      \* pi_llm_lease_seconds

ASSUME LlmRunLeasesAssumption ==
    /\ IsFiniteSet(Runs)
    /\ Abandoned \subseteq Runs
    /\ Capacity \in Nat
    /\ LeaseTicks \in Nat \ {0}

VARIABLES
    status,         \* llm_run_leases.status of each run ("none": no row)
    left,           \* ticks until expires_at
    order,          \* created_at: the how-manieth row of the table
    heartbeat,      \* a heartbeat handler: what it is about to write
    release         \* a release handler: the status it read

vars == <<status, left, order, heartbeat, release>>

---------------------------------------------------------------------------
Terminal == {"released", "expired", "failed"}
Statuses == {"none", "waiting", "active"} \cup Terminal

WithStatus(st, s) == {r \in Runs : st[r] = s}
Minus(a, b) == IF a > b THEN a - b ELSE 0
Least(a, b) == IF a < b THEN a ELSE b

\* Mutant: an owner keeps its place although its time is up.
ExpireStale_Keep(st, l) == st

\* Mutant: an owner expires one tick before its time is up.
ExpireStale_OneEarly(st, l) ==
    [r \in Runs |-> IF st[r] = "active" /\ l[r] <= 1 THEN "expired" ELSE st[r]]

\* The first half of reconcile_run_leases: owners whose time is up expire.
ExpireStale(st, l) ==
    [r \in Runs |-> IF st[r] = "active" /\ l[r] = 0 THEN "expired" ELSE st[r]]

\* Mutant: the newest waiters are promoted.
Promotions_NewestFirst(st, ord) ==
    LET waiting == WithStatus(st, "waiting")
        free == Minus(Capacity, Cardinality(WithStatus(st, "active"))) IN
    {P \in SUBSET waiting :
        /\ Cardinality(P) = Least(free, Cardinality(waiting))
        /\ \A p \in P, q \in waiting \ P : ord[q] < ord[p]}

\* Mutant: the capacity is offered without the active leases taken off.
Promotions_IgnoreActive(st, ord) ==
    LET waiting == WithStatus(st, "waiting") IN
    {P \in SUBSET waiting :
        /\ Cardinality(P) = Least(Capacity, Cardinality(waiting))
        /\ \A p \in P, q \in waiting \ P : ord[p] < ord[q]}

\* Mutant: one waiter less than there is room for.
Promotions_OneLess(st, ord) ==
    LET waiting == WithStatus(st, "waiting")
        free == Minus(Capacity, Cardinality(WithStatus(st, "active")) + 1) IN
    {P \in SUBSET waiting :
        /\ Cardinality(P) = Least(free, Cardinality(waiting))
        /\ \A p \in P, q \in waiting \ P : ord[p] < ord[q]}

\* The second half: as many waiters as there is room for, the oldest first.
Promotions(st, ord) ==
    LET waiting == WithStatus(st, "waiting")
        free == Minus(Capacity, Cardinality(WithStatus(st, "active"))) IN
    {P \in SUBSET waiting :
        /\ Cardinality(P) = Least(free, Cardinality(waiting))
        /\ \A p \in P, q \in waiting \ P : ord[p] < ord[q]}

\* reconcile_run_leases on the rows st.
Reconcile(st, ord) ==
    LET kept == ExpireStale(st, left) IN
    \E P \in Promotions(kept, ord) :
        /\ status' = [r \in Runs |-> IF r \in P THEN "active" ELSE kept[r]]
        /\ left' = [r \in Runs |-> IF r \in P THEN LeaseTicks ELSE left[r]]

Init ==
    /\ status = [r \in Runs |-> "none"]
    /\ left = [r \in Runs |-> 0]
    /\ order = [r \in Runs |-> 0]
    /\ heartbeat = [r \in Runs |-> [busy |-> FALSE, left |-> 0]]
    /\ release = [r \in Runs |-> "none"]

---------------------------------------------------------------------------
\* acquire_run_lease of a new run: a row that waits, then the reconciliation.  The
\* expires_at of a row that waits is read by nobody and left out.
AcquireNew(r) ==
    LET order2 == [order EXCEPT ![r] = Cardinality(Runs \ WithStatus(status, "none")) + 1] IN
    /\ status[r] = "none"
    /\ order' = order2
    /\ Reconcile([status EXCEPT ![r] = "waiting"], order2)
    /\ UNCHANGED <<heartbeat, release>>

\* acquire_run_lease of a known run, whatever its status: a poll while it waits.
AcquireAgain(r) ==
    /\ status[r] # "none" /\ r \notin Abandoned
    /\ Reconcile(status, order)
    /\ UNCHANGED <<order, heartbeat, release>>

\* Mutant: the heartbeat adds to the time that is left.
HeartbeatRead_Adds(r) ==
    /\ r \notin Abandoned
    /\ ~heartbeat[r].busy
    /\ status[r] = "active" /\ left[r] > 0
    /\ heartbeat' = [heartbeat EXCEPT ![r] = [busy |-> TRUE, left |-> left[r] + LeaseTicks]]
    /\ UNCHANGED <<status, left, order, release>>

\* The heartbeat handler reads the row and decides; a lease that is not active
\* or whose time is up is answered 409 and nothing is kept of it.
HeartbeatRead(r) ==
    /\ r \notin Abandoned
    /\ ~heartbeat[r].busy
    /\ status[r] = "active" /\ left[r] > 0
    /\ heartbeat' = [heartbeat EXCEPT ![r] = [busy |-> TRUE, left |-> LeaseTicks]]
    /\ UNCHANGED <<status, left, order, release>>

\* Mutant: the heartbeat writes the status it read as well.
HeartbeatWrite_WritesStatus(r) ==
    /\ heartbeat[r].busy
    /\ left' = [left EXCEPT ![r] = heartbeat[r].left]
    /\ status' = [status EXCEPT ![r] = "active"]
    /\ heartbeat' = [heartbeat EXCEPT ![r] = [busy |-> FALSE, left |-> 0]]
    /\ UNCHANGED <<order, release>>

\* ... and writes the new expiry only, also to a row that is over by now.
HeartbeatWrite(r) ==
    /\ heartbeat[r].busy
    /\ left' = [left EXCEPT ![r] = heartbeat[r].left]
    /\ heartbeat' = [heartbeat EXCEPT ![r] = [busy |-> FALSE, left |-> 0]]
    /\ UNCHANGED <<status, order, release>>

\* The release handler reads the row ...
ReleaseRead(r) ==
    /\ r \notin Abandoned
    /\ release[r] = "none" /\ status[r] # "none"
    /\ release' = [release EXCEPT ![r] = status[r]]
    /\ UNCHANGED <<status, left, order, heartbeat>>

\* ... takes the lock, ends the lease unless it was over when it was read, and
\* reconciles.
ReleaseWrite(r, outcome) ==
    /\ release[r] # "none"
    /\ release' = [release EXCEPT ![r] = "none"]
    /\ Reconcile(IF release[r] \in Terminal THEN status ELSE [status EXCEPT ![r] = outcome], order)
    /\ UNCHANGED <<order, heartbeat>>

\* Time passes, for the rows and for the expiry a heartbeat has computed.
Tick ==
    /\ \E r \in Runs : left[r] > 0 \/ heartbeat[r].left > 0
    /\ left' = [r \in Runs |-> Minus(left[r], 1)]
    /\ heartbeat' = [r \in Runs |-> [heartbeat[r] EXCEPT !.left = Minus(@, 1)]]
    /\ UNCHANGED <<status, order, release>>

Next ==
    \/ \E r \in Runs :
        \/ AcquireNew(r) \/ AcquireAgain(r)
        \/ HeartbeatRead(r) \/ HeartbeatWrite(r) \/ ReleaseRead(r)
        \/ \E outcome \in {"released", "failed"} : ReleaseWrite(r, outcome)
    \/ Tick

Spec == Init /\ [][Next]_vars

\* A waiting driver polls every 1.5 s, the turn of a driver that lives ends and
\* releases its lease, handlers finish, and the clock runs.
Poll(r) == status[r] = "waiting" /\ AcquireAgain(r)
TurnEnds(r) == status[r] = "active" /\ ReleaseRead(r)

Fairness ==
    /\ WF_vars(Tick)
    /\ \A r \in Runs :
        /\ WF_vars(Poll(r))
        /\ WF_vars(TurnEnds(r))
        /\ WF_vars(HeartbeatWrite(r))
        /\ WF_vars(ReleaseWrite(r, "released"))

FairSpec == Spec /\ Fairness

---------------------------------------------------------------------------
TypeOK ==
    /\ status \in [Runs -> Statuses]
    /\ left \in [Runs -> 0 .. LeaseTicks]
    /\ order \in [Runs -> Nat]
    /\ heartbeat \in [Runs -> [busy : BOOLEAN, left : 0 .. LeaseTicks]]
    /\ release \in [Runs -> Statuses]

\* Never more active leases than the capacity, with heartbeats and releases that
\* work on rows they read before another handler changed them.
CapacityRespected == Cardinality(WithStatus(status, "active")) <= Capacity

\* "without reviving terminals" (reconcile_run_leases): a run that is over stays
\* over, although late heartbeats and releases still write to its row.
TerminalStays ==
    [][\A r \in Runs : status[r] \in Terminal => status'[r] \in Terminal]_vars

\* A lease that is alive is not taken away: only its own release ends it before
\* its time is up.
LeaseIsHonoured ==
    [][\A r \in Runs : status[r] = "active" /\ left[r] > 0 /\ status'[r] # "active" =>
            release[r] \in {"waiting", "active"} /\ release'[r] = "none"]_vars

\* First come, first served: nobody is promoted past an older waiter.
OldestFirst ==
    [][\A r, q \in Runs :
            status[r] # "active" /\ status'[r] = "active" /\ status'[q] = "waiting"
            => order'[r] < order'[q]]_vars

\* No room is left unused when a handler has reconciled: as long as somebody
\* waits all of the capacity is taken, also by owners whose drivers died.
NoIdleCapacity ==
    WithStatus(status, "waiting") # {} =>
        Cardinality(WithStatus(status, "active")) = Capacity

\* Whoever waits is served in the end, behind owners and waiters that died too.
EventuallyServed == \A r \in Runs \ Abandoned : status[r] = "waiting" ~> status[r] # "waiting"
=============================================================================
