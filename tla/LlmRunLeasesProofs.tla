------------------------ MODULE LlmRunLeasesProofs ------------------------
(* Theorems about LlmRunLeases, for every finite set of runs, every        *)
(* capacity and every length of the lease.                                 *)
EXTENDS LlmRunLeases, FiniteSetTheorems, TLAPS

Active(st) == WithStatus(st, "active")
Waiting(st) == WithStatus(st, "waiting")

\* The capacity is respected only if it was before (Minus stops at zero), so the
\* properties about it are proved together.
IInv == TypeOK /\ CapacityRespected /\ NoIdleCapacity

\* The leases that are active, and those that wait, can be counted.
LEMMA Sizes ==
    ASSUME NEW st
    PROVE  /\ IsFiniteSet(Active(st)) /\ Cardinality(Active(st)) \in Nat
           /\ IsFiniteSet(Waiting(st)) /\ Cardinality(Waiting(st)) \in Nat
  <1>1. Active(st) \subseteq Runs /\ Waiting(st) \subseteq Runs
    BY DEF Active, Waiting, WithStatus
  <1>2. IsFiniteSet(Active(st)) /\ IsFiniteSet(Waiting(st))
    BY <1>1, LlmRunLeasesAssumption, FS_Subset DEF LlmRunLeasesAssumption
  <1> QED
    BY <1>2, FS_CardinalityType

\* What one reconciliation does to the rows st it is called with.
LEMMA ReconcileRows ==
    ASSUME TypeOK, NEW st \in [Runs -> Statuses], NEW ord, Reconcile(st, ord)
    PROVE  /\ status' \in [Runs -> Statuses]
           /\ left' \in [Runs -> 0 .. LeaseTicks]
           \* a row stays, expires as a stale owner or is promoted as a waiter
           /\ \A r \in Runs : \/ status'[r] = st[r]
                              \/ st[r] = "active" /\ left[r] = 0 /\ status'[r] = "expired"
                              \/ st[r] = "waiting" /\ status'[r] = "active"
           \* before everyone who waits on
           /\ \A r, q \in Runs : st[r] # "active" /\ status'[r] = "active" /\ status'[q] = "waiting"
                                 => ord[r] < ord[q]
  <1> DEFINE kept == ExpireStale(st, left)
  <1>1. PICK P \in Promotions(kept, ord) :
            /\ status' = [r \in Runs |-> IF r \in P THEN "active" ELSE kept[r]]
            /\ left' = [r \in Runs |-> IF r \in P THEN LeaseTicks ELSE left[r]]
    BY DEF Reconcile
  <1>2. /\ P \subseteq Waiting(kept)
        /\ \A p \in P, q \in Waiting(kept) \ P : ord[p] < ord[q]
    BY <1>1 DEF Promotions, Waiting
  <1>3. kept = [r \in Runs |-> IF st[r] = "active" /\ left[r] = 0 THEN "expired" ELSE st[r]]
    BY DEF ExpireStale
  <1>4. \A r \in Waiting(kept) : r \in Runs /\ st[r] = "waiting"
    BY <1>3 DEF Waiting, WithStatus
  <1> HIDE DEF kept
  <1>5. status' \in [Runs -> Statuses]
    BY <1>1, <1>3 DEF Statuses, Terminal
  <1>6. left' \in [Runs -> 0 .. LeaseTicks]
    BY <1>1, LlmRunLeasesAssumption DEF TypeOK, LlmRunLeasesAssumption
  <1>7. \A r \in Runs : \/ status'[r] = st[r]
                        \/ st[r] = "active" /\ left[r] = 0 /\ status'[r] = "expired"
                        \/ st[r] = "waiting" /\ status'[r] = "active"
    BY <1>1, <1>2, <1>3, <1>4
  <1>8. ASSUME NEW r \in Runs, NEW q \in Runs,
               st[r] # "active", status'[r] = "active", status'[q] = "waiting"
        PROVE  ord[r] < ord[q]
    <2>1. r \in P
      BY <1>1, <1>3, <1>8
    <2>2. q \in Waiting(kept) \ P
      BY <1>1, <1>8 DEF Waiting, WithStatus
    <2> QED
      BY <1>2, <2>1, <2>2
  <1> QED
    BY <1>5, <1>6, <1>7, <1>8

\* A reconciliation fills the capacity and not more, if the rows it is called with
\* do not exceed it.
LEMMA ReconcileCapacity ==
    ASSUME TypeOK, NEW st \in [Runs -> Statuses], NEW ord, Reconcile(st, ord),
           Cardinality(Active(st)) <= Capacity
    PROVE  CapacityRespected' /\ NoIdleCapacity'
  <1> DEFINE kept == ExpireStale(st, left)
  <1>1. PICK P \in Promotions(kept, ord) :
            status' = [r \in Runs |-> IF r \in P THEN "active" ELSE kept[r]]
    BY DEF Reconcile
  <1>2. /\ P \subseteq Waiting(kept)
        /\ Cardinality(P) = Least(Minus(Capacity, Cardinality(Active(kept))),
                                  Cardinality(Waiting(kept)))
    BY <1>1 DEF Promotions, Waiting, Active
  <1>3. Active(kept) \subseteq Active(st)
    BY DEF Active, WithStatus, ExpireStale
  <1>4. Waiting(kept) \subseteq Runs /\ Active(kept) \cap Waiting(kept) = {}
    BY DEF Active, Waiting, WithStatus
  <1> HIDE DEF kept
  <1>5. Cardinality(Active(kept)) <= Capacity
    BY <1>3, Sizes, FS_Subset, LlmRunLeasesAssumption DEF LlmRunLeasesAssumption
  <1>6. IsFiniteSet(P) /\ Cardinality(P) \in Nat
    BY <1>2, Sizes, FS_Subset, FS_CardinalityType
  <1>7. WithStatus(status, "active")' = Active(kept) \cup P
    BY <1>1, <1>2, <1>4 DEF Active, WithStatus
  <1>8. WithStatus(status, "waiting")' = Waiting(kept) \ P
    BY <1>1, <1>2 DEF Waiting, WithStatus
  <1>9. Cardinality(Active(kept) \cup P) = Cardinality(Active(kept)) + Cardinality(P)
    <2>1. Active(kept) \cap P = {}
      BY <1>2, <1>4
    <2> QED
      <3>1. IsFiniteSet(Active(kept)) /\ Cardinality(Active(kept)) \in Nat
        BY Sizes
      <3>2. Cardinality(Active(kept) \cup P)
              = Cardinality(Active(kept)) + Cardinality(P) - Cardinality(Active(kept) \cap P)
        BY <3>1, <1>6, FS_Union
      <3>3. Cardinality(Active(kept) \cap P) = 0
        BY <2>1, FS_EmptySet
      <3> QED
        BY <3>1, <3>2, <3>3, <1>6
  <1>n. /\ Cardinality(Active(kept)) \in Nat /\ Cardinality(Waiting(kept)) \in Nat
        /\ Capacity \in Nat
    BY Sizes, LlmRunLeasesAssumption DEF LlmRunLeasesAssumption
  <1>10. CapacityRespected'
    <2>1. Cardinality(P) <= Capacity - Cardinality(Active(kept))
      BY <1>2, <1>5, <1>6, <1>n DEF Least, Minus
    <2>2. Cardinality(WithStatus(status, "active")') = Cardinality(Active(kept)) + Cardinality(P)
      BY <1>7, <1>9
    <2>3. Cardinality(WithStatus(status, "active")') <= Capacity
      BY <2>1, <2>2, <1>6, <1>n
    <2> QED
      BY <2>3 DEF CapacityRespected
  <1>11. ASSUME Waiting(kept) \ P # {} PROVE Cardinality(P) < Cardinality(Waiting(kept))
    <2>1. P # Waiting(kept)
      BY <1>11
    <2> QED
      BY <1>2, <1>6, <2>1, Sizes, FS_Subset
  <1>12. NoIdleCapacity'
    <2> SUFFICES ASSUME WithStatus(status, "waiting")' # {}
                 PROVE  Cardinality(WithStatus(status, "active")') = Capacity
      BY DEF NoIdleCapacity
    <2>1. Cardinality(P) < Cardinality(Waiting(kept))
      BY <1>8, <1>11
    <2>2. Cardinality(P) = Capacity - Cardinality(Active(kept))
      BY <2>1, <1>2, <1>5, <1>6, <1>n DEF Least, Minus
    <2>3. Cardinality(WithStatus(status, "active")') = Cardinality(Active(kept)) + Cardinality(P)
      BY <1>7, <1>9
    <2> QED
      BY <2>2, <2>3, <1>n
  <1> QED
    BY <1>10, <1>12

---------------------------------------------------------------------------
\* Which rows a handler reconciles: those of the table, with one run new or over.
Rows(r, s) == [status EXCEPT ![r] = s]

\* A row that becomes anything but active keeps the capacity respected.
LEMMA RowsKeepCapacity ==
    ASSUME TypeOK, CapacityRespected, NEW r \in Runs, NEW s \in Statuses \ {"active"}
    PROVE  /\ Rows(r, s) \in [Runs -> Statuses]
           /\ Cardinality(Active(Rows(r, s))) <= Capacity
  <1>1. Rows(r, s) \in [Runs -> Statuses]
    BY DEF Rows, TypeOK
  <1>2. Active(Rows(r, s)) \subseteq WithStatus(status, "active")
    BY DEF Rows, Active, WithStatus, TypeOK
  <1>3. Cardinality(Active(Rows(r, s))) <= Cardinality(WithStatus(status, "active"))
    BY <1>2, Sizes, FS_Subset DEF Active
  <1> QED
    BY <1>1, <1>3, Sizes, LlmRunLeasesAssumption DEF CapacityRespected, Active, LlmRunLeasesAssumption

\* The invariant holds initially.
LEMMA InitIInv == Init => IInv
  <1> SUFFICES ASSUME Init PROVE IInv
    OBVIOUS
  <1>1. TypeOK
    BY LlmRunLeasesAssumption DEF Init, TypeOK, Statuses, LlmRunLeasesAssumption
  <1>2. WithStatus(status, "active") = {} /\ WithStatus(status, "waiting") = {}
    BY DEF Init, WithStatus
  <1> QED
    BY <1>1, <1>2, FS_EmptySet, LlmRunLeasesAssumption
       DEF IInv, CapacityRespected, NoIdleCapacity, LlmRunLeasesAssumption

\* Handlers that change no status: heartbeats, reads and the clock.
Quiet ==
    \/ \E r \in Runs : HeartbeatRead(r) \/ HeartbeatWrite(r) \/ ReleaseRead(r)
    \/ Tick

\* A quiet step keeps the types and changes no lease and no order.
LEMMA QuietStep == TypeOK /\ Quiet => TypeOK' /\ status' = status /\ order' = order
  <1> SUFFICES ASSUME TypeOK, Quiet PROVE TypeOK' /\ status' = status /\ order' = order
    OBVIOUS
  <1>l. LeaseTicks \in 0 .. LeaseTicks /\ 0 \in 0 .. LeaseTicks
    BY LlmRunLeasesAssumption DEF LlmRunLeasesAssumption
  <1>m. \A n \in 0 .. LeaseTicks : Minus(n, 1) \in 0 .. LeaseTicks
    BY LlmRunLeasesAssumption DEF Minus, LlmRunLeasesAssumption
  <1>1. ASSUME NEW r \in Runs, HeartbeatRead(r) PROVE TypeOK' /\ status' = status /\ order' = order
    BY <1>1, <1>l DEF HeartbeatRead, TypeOK
  <1>2. ASSUME NEW r \in Runs, HeartbeatWrite(r) PROVE TypeOK' /\ status' = status /\ order' = order
    BY <1>2, <1>l DEF HeartbeatWrite, TypeOK
  <1>3. ASSUME NEW r \in Runs, ReleaseRead(r) PROVE TypeOK' /\ status' = status /\ order' = order
    BY <1>3 DEF ReleaseRead, TypeOK
  <1>4. CASE Tick
    BY <1>4, <1>m DEF Tick, TypeOK
  <1> QED
    BY <1>1, <1>2, <1>3, <1>4 DEF Quiet

\* What a handler changes before it reconciles the rows st: a new run waits, or a
\* release ends a run that was not over when the release read it.
Prepared(st) ==
    \A q \in Runs :
        \/ st[q] = status[q]
        \/ status[q] = "none" /\ st[q] = "waiting"
        \/ release[q] \in {"waiting", "active"} /\ release'[q] = "none" /\ st[q] \in Terminal

Reconciling ==
    \E st \in [Runs -> Statuses] :
        Prepared(st) /\ Cardinality(Active(st)) <= Capacity /\ Reconcile(st, order')

\* A step is quiet or a reconciliation, which leaves no heartbeat in between.
LEMMA StepShape ==
    IInv /\ [Next]_vars =>
        \/ Quiet \/ UNCHANGED vars
        \/ /\ Reconciling
           /\ order' \in [Runs -> Nat]
           /\ heartbeat' = heartbeat
           /\ release' \in [Runs -> Statuses]
  <1> SUFFICES ASSUME IInv, Next, ~Quiet
               PROVE  /\ Reconciling
                      /\ order' \in [Runs -> Nat]
                      /\ heartbeat' = heartbeat
                      /\ release' \in [Runs -> Statuses]
    BY DEF Quiet
  <1> USE DEF IInv
  <1>1. ASSUME NEW r \in Runs, AcquireNew(r)
        PROVE  Reconciling /\ order' \in [Runs -> Nat] /\ UNCHANGED <<heartbeat, release>>
    <2>1. "waiting" \in Statuses \ {"active"}
      BY DEF Statuses
    <2>2. /\ Rows(r, "waiting") \in [Runs -> Statuses]
          /\ Cardinality(Active(Rows(r, "waiting"))) <= Capacity
      BY <2>1, RowsKeepCapacity
    <2>3. Reconcile(Rows(r, "waiting"), order') /\ UNCHANGED <<heartbeat, release>>
      BY <1>1 DEF AcquireNew, Rows
    <2>4. Prepared(Rows(r, "waiting"))
      BY <1>1 DEF AcquireNew, Prepared, Rows, TypeOK
    <2>5. Runs \ WithStatus(status, "none") \subseteq Runs
      OBVIOUS
    <2>6. Cardinality(Runs \ WithStatus(status, "none")) \in Nat
      BY <2>5, FS_Subset, FS_CardinalityType, LlmRunLeasesAssumption DEF LlmRunLeasesAssumption
    <2>7. order' \in [Runs -> Nat]
      BY <1>1, <2>6 DEF AcquireNew, TypeOK
    <2> QED
      BY <2>2, <2>3, <2>4, <2>7 DEF Reconciling
  <1>2. ASSUME NEW r \in Runs, AcquireAgain(r)
        PROVE  Reconciling /\ UNCHANGED <<order, heartbeat, release>>
    <2>1. status \in [Runs -> Statuses] /\ Prepared(status) /\ Cardinality(Active(status)) <= Capacity
      BY DEF TypeOK, Prepared, CapacityRespected, Active
    <2> QED
      BY <1>2, <2>1 DEF AcquireAgain, Reconciling
  <1>3. ASSUME NEW r \in Runs, NEW outcome \in {"released", "failed"}, ReleaseWrite(r, outcome)
        PROVE  Reconciling /\ UNCHANGED <<order, heartbeat>> /\ release' \in [Runs -> Statuses]
    <2>1. release' = [release EXCEPT ![r] = "none"] /\ UNCHANGED <<order, heartbeat>>
      BY <1>3 DEF ReleaseWrite
    <2>2. release' \in [Runs -> Statuses]
      BY <2>1 DEF TypeOK, Statuses
    <2>3. CASE release[r] \in Terminal
      <3>1. status \in [Runs -> Statuses] /\ Prepared(status) /\ Cardinality(Active(status)) <= Capacity
        BY DEF TypeOK, Prepared, CapacityRespected, Active
      <3>2. Reconcile(status, order')
        BY <1>3, <2>1, <2>3 DEF ReleaseWrite
      <3> QED
        BY <3>1, <3>2, <2>1, <2>2 DEF Reconciling
    <2>4. CASE release[r] \notin Terminal
      <3>1. outcome \in Statuses \ {"active"} /\ outcome \in Terminal
        BY DEF Statuses, Terminal
      <3>2. /\ Rows(r, outcome) \in [Runs -> Statuses]
            /\ Cardinality(Active(Rows(r, outcome))) <= Capacity
        BY <3>1, RowsKeepCapacity
      <3>3. Reconcile(Rows(r, outcome), order')
        BY <1>3, <2>1, <2>4 DEF ReleaseWrite, Rows
      <3>4. release[r] \in {"waiting", "active"}
        BY <1>3, <2>4 DEF ReleaseWrite, TypeOK, Statuses
      <3>5. Prepared(Rows(r, outcome))
        BY <2>1, <3>1, <3>4 DEF Prepared, Rows, TypeOK
      <3> QED
        BY <3>2, <3>3, <3>5, <2>1, <2>2 DEF Reconciling
    <2> QED
      BY <2>3, <2>4
  <1> QED
    BY <1>1, <1>2, <1>3 DEF Next, Quiet, TypeOK

\* Every step keeps the invariant.
LEMMA StepIInv == IInv /\ [Next]_vars => IInv'
  <1> SUFFICES ASSUME IInv, [Next]_vars PROVE IInv'
    OBVIOUS
  <1>1. CASE Quiet
    BY <1>1, QuietStep DEF IInv, CapacityRespected, NoIdleCapacity, WithStatus
  <1>2. CASE UNCHANGED vars
    BY <1>2 DEF IInv, TypeOK, CapacityRespected, NoIdleCapacity, WithStatus, vars
  <1>3. ASSUME Reconciling, order' \in [Runs -> Nat], heartbeat' = heartbeat,
               release' \in [Runs -> Statuses]
        PROVE  IInv'
    <2>1. PICK st \in [Runs -> Statuses] :
              Cardinality(Active(st)) <= Capacity /\ Reconcile(st, order')
      BY <1>3 DEF Reconciling
    <2>2. status' \in [Runs -> Statuses] /\ left' \in [Runs -> 0 .. LeaseTicks]
      BY <2>1, ReconcileRows DEF IInv
    <2>3. CapacityRespected' /\ NoIdleCapacity'
      BY <2>1, ReconcileCapacity DEF IInv
    <2> QED
      BY <1>3, <2>2, <2>3 DEF IInv, TypeOK
  <1> QED
    BY <1>1, <1>2, <1>3, StepShape

\* The invariant always holds.
LEMMA SpecIInv == Spec => []IInv
  BY InitIInv, StepIInv, PTL DEF Spec

---------------------------------------------------------------------------
\* Each column and each handler's memory keeps its type.
THEOREM TypeCorrectness == Spec => []TypeOK
  <1>1. IInv => TypeOK
    BY DEF IInv
  <1> QED
    BY SpecIInv, <1>1, PTL

\* reconcile_run_leases never hands out more than pi_llm_max_active_runs, although
\* heartbeats take no lock and releases decide on an old row.
THEOREM CapacityIsRespected == Spec => []CapacityRespected
  <1>1. IInv => CapacityRespected
    BY DEF IInv
  <1> QED
    BY SpecIInv, <1>1, PTL

\* ... and leaves no place free while a run waits.
THEOREM CapacityIsUsed == Spec => []NoIdleCapacity
  <1>1. IInv => NoIdleCapacity
    BY DEF IInv
  <1> QED
    BY SpecIInv, <1>1, PTL

\* A run that was released, failed or expired is never waiting or active again.
THEOREM TerminalsStay == Spec => TerminalStays
  <1>1. IInv /\ [Next]_vars => [\A r \in Runs : status[r] \in Terminal => status'[r] \in Terminal]_vars
    <2> SUFFICES ASSUME IInv, [Next]_vars, NEW r \in Runs, status[r] \in Terminal
                 PROVE  status'[r] \in Terminal
      OBVIOUS
    <2>1. CASE Quiet \/ UNCHANGED vars
      BY <2>1, QuietStep DEF IInv, vars
    <2>2. CASE Reconciling
      <3>1. PICK st \in [Runs -> Statuses] : Prepared(st) /\ Reconcile(st, order')
        BY <2>2 DEF Reconciling
      <3>2. st[r] \in Terminal
        BY <3>1 DEF Prepared, Terminal
      <3> QED
        BY <3>1, <3>2, ReconcileRows DEF IInv, Terminal
    <2> QED
      BY <2>1, <2>2, StepShape
  <1> QED
    BY SpecIInv, <1>1, PTL DEF Spec, TerminalStays

\* A lease with time left ends only by a release of its own run that found it
\* waiting or active.
THEOREM LivingLeasesStay == Spec => LeaseIsHonoured
  <1> DEFINE Honoured ==
        \A r \in Runs : status[r] = "active" /\ left[r] > 0 /\ status'[r] # "active" =>
            release[r] \in {"waiting", "active"} /\ release'[r] = "none"
  <1>1. IInv /\ [Next]_vars => [Honoured]_vars
    <2> SUFFICES ASSUME IInv, [Next]_vars, NEW r \in Runs,
                        status[r] = "active", left[r] > 0, status'[r] # "active"
                 PROVE  release[r] \in {"waiting", "active"} /\ release'[r] = "none"
      OBVIOUS
    <2>1. ~(Quiet \/ UNCHANGED vars)
      BY QuietStep DEF IInv, vars
    <2>2. PICK st \in [Runs -> Statuses] : Prepared(st) /\ Reconcile(st, order')
      BY <2>1, StepShape DEF Reconciling
    <2>3. left[r] # 0
      BY LlmRunLeasesAssumption DEF IInv, TypeOK, LlmRunLeasesAssumption
    <2>4. st[r] # "active"
      BY <2>2, <2>3, ReconcileRows DEF IInv
    <2> QED
      BY <2>2, <2>4 DEF Prepared
  <1> QED
    BY SpecIInv, <1>1, PTL DEF Spec, LeaseIsHonoured

\* Nobody is promoted past a run that came earlier and still waits.
THEOREM ServedInOrder == Spec => OldestFirst
  <1> DEFINE InOrder ==
        \A r, q \in Runs :
            status[r] # "active" /\ status'[r] = "active" /\ status'[q] = "waiting"
            => order'[r] < order'[q]
  <1>1. IInv /\ [Next]_vars => [InOrder]_vars
    <2> SUFFICES ASSUME IInv, [Next]_vars, NEW r \in Runs, NEW q \in Runs,
                        status[r] # "active", status'[r] = "active", status'[q] = "waiting"
                 PROVE  order'[r] < order'[q]
      OBVIOUS
    <2>1. ~(Quiet \/ UNCHANGED vars)
      BY QuietStep DEF IInv, vars
    <2>2. PICK st \in [Runs -> Statuses] : Prepared(st) /\ Reconcile(st, order')
      BY <2>1, StepShape DEF Reconciling
    <2>3. st[r] # "active"
      BY <2>2 DEF Prepared, Terminal
    <2> QED
      BY <2>2, <2>3, ReconcileRows DEF IInv
  <1> QED
    BY SpecIInv, <1>1, PTL DEF Spec, OldestFirst
=============================================================================
