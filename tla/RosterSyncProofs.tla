-------------------------- MODULE RosterSyncProofs --------------------------
(***************************************************************************)
(* What RosterSync guarantees for every set of members and every number of *)
(* changes, provided that membership requests do not overlap between       *)
(* loading the channel and locking it (~Overlap).                          *)
(***************************************************************************)
EXTENDS RosterSync, TLAPS

---------------------------------------------------------------------------
(* The inductive invariant.                                                *)

\* At most one request is in flight, and the revision it loaded is current.
LoadedIsCurrent ==
    /\ \A g, h \in Handlers : handler[g].pc = "loaded" /\ handler[h].pc = "loaded" => g = h
    /\ \A h \in Handlers : handler[h].pc = "loaded" => handler[h].revision = revision

\* What a change says of the rosters before and after it.
Describes(c, before) ==
    /\ c.joined <=> c.after[c.member] # "absent"
    /\ \A m \in c.updates : m # c.member /\ c.after[m] # "absent" /\ before[m] # "absent"
    /\ \A m \in Members \ (c.updates \cup {c.member}) : c.after[m] = before[m]

\* The log is numbered without gaps and each entry describes its step.
LogIsHistory ==
    /\ revision = Len(log)
    /\ roster = RosterAt(Len(log))
    /\ \A i \in 1 .. Len(log) : log[i].revision = i /\ Describes(log[i], RosterAt(i - 1))

\* A fetch in flight saw at least what made the daemon ask, and at least what
\* the view already shows.
FetchIsRecent ==
    /\ fetch.pc # "idle" /\ fetch.why = "change" => fetch.change \in 1 .. Len(log)
    /\ fetch.pc = "reading" =>
        /\ fetch.revision <= Len(log)
        /\ fetch.why = "change" => fetch.change <= fetch.revision
        /\ known => view.revision <= fetch.revision

ViewIsBounded == known => view.revision <= Len(log) /\ asOf <= Len(log)

Mixed == known => \A m \in Members :
            view.members[m] \in {RosterAt(view.revision)[m], RosterAt(asOf)[m]}

IInv ==
    /\ TypeOK
    /\ LoadedIsCurrent
    /\ LogIsHistory
    /\ FetchIsRecent
    /\ ViewIsBounded
    /\ Mixed
    /\ ViewIsRosterOfRevision

---------------------------------------------------------------------------
(* Lemmas about the operators.                                             *)

\* Projecting a set of members yields a roster in which exactly they appear.
LEMMA ProjectIsRoster ==
    ASSUME NEW S \in SUBSET Members
    PROVE  /\ Project(S) \in Rosters
           /\ \A m \in Members : Project(S)[m] # "absent" <=> m \in S
BY DEF Project, Rosters, References

\* A change computed from two rosters that differ in the presence of one member
\* describes that step.
LEMMA ChangeDescribes ==
    ASSUME NEW rev \in Nat, NEW m \in Members, NEW before \in Rosters, NEW after \in Rosters,
           \A n \in Members \ {m} : after[n] # "absent" <=> before[n] # "absent"
    PROVE  /\ Change(rev, m, before, after) \in Changes
           /\ Change(rev, m, before, after).revision = rev
           /\ Change(rev, m, before, after).after = after
           /\ Describes(Change(rev, m, before, after), before)
<1> DEFINE c == Change(rev, m, before, after)
<1>1. /\ c.revision = rev /\ c.member = m /\ c.after = after
      /\ c.joined = (after[m] # "absent")
      /\ c.updates = {n \in Members : after[n] # "absent" /\ after[n] # before[n]} \ {m}
    BY DEF Change, ReferenceUpdates
<1>2. c \in Changes
    BY DEF Change, Changes, ReferenceUpdates
<1>3. Describes(c, before)
    BY <1>1 DEF Describes, Rosters, References
<1> QED
    BY <1>1, <1>2, <1>3

\* Applying the change of a step to a view that shows each member as of before
\* the step or as of some other roster shows each as of after it or as of that
\* other roster; and a view that was exact stays exact.
LEMMA MembersAfterStep ==
    ASSUME NEW members \in Rosters, NEW c \in Changes, NEW before \in Rosters,
           NEW other \in Rosters, Describes(c, before)
    PROVE  /\ MembersAfter(members, c) \in Rosters
           /\ (\A m \in Members : members[m] \in {before[m], other[m]}) =>
                \A m \in Members : MembersAfter(members, c)[m] \in {c.after[m], other[m]}
           /\ members = before => MembersAfter(members, c) = c.after
<1> DEFINE new == MembersAfter(members, c)
<1>1. /\ c.member \in Members /\ c.after \in Rosters /\ c.updates \in SUBSET Members
      /\ c.joined \in BOOLEAN
    BY DEF Changes
<1>2. new \in Rosters
    BY <1>1 DEF MembersAfter, Rosters, References
<1>3. ASSUME \A m \in Members : members[m] \in {before[m], other[m]}, NEW m \in Members
      PROVE  new[m] \in {c.after[m], other[m]}
    <2>1. CASE m = c.member
        BY <2>1, <1>1 DEF MembersAfter, Describes
    <2>2. CASE m # c.member /\ m \in c.updates
        BY <2>2, <1>1, <1>3 DEF MembersAfter, Describes
    <2>3. CASE m # c.member /\ m \notin c.updates
        BY <2>3, <1>1, <1>3 DEF MembersAfter, Describes
    <2> QED
        BY <2>1, <2>2, <2>3
<1>4. ASSUME members = before, NEW m \in Members
      PROVE  new[m] = c.after[m]
    <2>1. CASE m = c.member
        BY <2>1, <1>1 DEF MembersAfter, Describes
    <2>2. CASE m # c.member /\ m \in c.updates
        BY <2>2, <1>1, <1>4 DEF MembersAfter, Describes
    <2>3. CASE m # c.member /\ m \notin c.updates
        BY <2>3, <1>1, <1>4 DEF MembersAfter, Describes
    <2> QED
        BY <2>1, <2>2, <2>3
<1>5. members = before => new = c.after
    BY <1>1, <1>2, <1>4 DEF Rosters
<1> QED
    BY <1>2, <1>3, <1>5

\* The entries of the log give a roster for every revision up to the last.
LEMMA RosterAtIsRoster ==
    ASSUME TypeOK, NEW n \in 0 .. Len(log)
    PROVE  RosterAt(n) \in Rosters
<1>1. Empty \in Rosters
    BY DEF Empty, Rosters, References
<1>2. n # 0 => log[n] \in Changes
    BY DEF TypeOK
<1>3. n # 0 => log[n].after \in Rosters
    BY <1>2 DEF Changes
<1> QED
    BY <1>1, <1>3 DEF RosterAt

---------------------------------------------------------------------------
(* The initial states and the steps of the backend.                        *)

\* Nothing has happened yet, and there is no view to be wrong.
LEMMA InitIInv == Init => IInv
<1> SUFFICES ASSUME Init PROVE IInv
    OBVIOUS
<1>1. Empty \in Rosters
    BY DEF Empty, Rosters, References
<1>2. TypeOK
    <2>1. revision \in Nat /\ roster \in Rosters /\ known \in BOOLEAN /\ asOf \in Nat
        BY <1>1 DEF Init
    <2>2. log \in Seq(Changes)
        BY DEF Init
    <2>3. handler \in [Handlers -> [pc : {"idle", "loaded"}, revision : Nat]]
        BY DEF Init
    <2>4. view \in [revision : Nat, members : Rosters, recent : SUBSET Nat]
        BY <1>1 DEF Init, NoView
    <2>5. fetch \in [pc : {"idle", "request", "reading"},
                     why : {"none", "entry", "change", "gap"}, change : Nat, revision : Nat]
        BY DEF Init, NoFetch
    <2> QED
        BY <2>1, <2>2, <2>3, <2>4, <2>5 DEF TypeOK
<1>3. LoadedIsCurrent
    BY DEF Init, LoadedIsCurrent
<1>4. LogIsHistory
    BY DEF Init, LogIsHistory, RosterAt
<1>5. FetchIsRecent /\ ViewIsBounded /\ Mixed /\ ViewIsRosterOfRevision
    BY DEF Init, NoFetch, FetchIsRecent, ViewIsBounded, Mixed, ViewIsRosterOfRevision
<1> QED
    BY <1>2, <1>3, <1>4, <1>5 DEF IInv

\* A step that leaves the log and the daemon alone keeps what is said of them.
LEMMA LogAndDaemonUnchanged ==
    ASSUME IInv, UNCHANGED <<revision, roster, log, daemonVars>>
    PROVE  /\ LogIsHistory' /\ FetchIsRecent' /\ ViewIsBounded'
           /\ Mixed' /\ ViewIsRosterOfRevision'
<1>1. \A n : RosterAt(n)' = RosterAt(n)
    BY DEF RosterAt, Empty
<1> QED
    BY <1>1 DEF IInv, LogIsHistory, FetchIsRecent, ViewIsBounded, Mixed,
                ViewIsRosterOfRevision, daemonVars

\* Loading the channel, when no other request is in flight.
LEMMA LoadChannelKeepsIInv ==
    ASSUME IInv, ~Overlap, NEW h \in Handlers, LoadChannel(h)
    PROVE  IInv'
<1>1. TypeOK'
    BY DEF IInv, TypeOK, LoadChannel, daemonVars
<1>2. LoadedIsCurrent'
    BY DEF IInv, TypeOK, LoadedIsCurrent, LoadChannel
<1>3. UNCHANGED <<revision, roster, log, daemonVars>>
    BY DEF LoadChannel
<1> QED
    BY <1>1, <1>2, <1>3, LogAndDaemonUnchanged DEF IInv

\* A request that finds nothing to change.
LEMMA LeaveUnchangedKeepsIInv ==
    ASSUME IInv, NEW h \in Handlers, LeaveUnchanged(h)
    PROVE  IInv'
<1>1. TypeOK'
    BY DEF IInv, TypeOK, LeaveUnchanged, daemonVars
<1>2. LoadedIsCurrent'
    BY DEF IInv, TypeOK, LoadedIsCurrent, LeaveUnchanged
<1>3. UNCHANGED <<revision, roster, log, daemonVars>>
    BY DEF LeaveUnchanged
<1> QED
    BY <1>1, <1>2, <1>3, LogAndDaemonUnchanged DEF IInv

\* A change of the roster: the log grows by one entry that describes it.
LEMMA MutateKeepsIInv ==
    ASSUME IInv, NEW h \in Handlers, NEW m \in Members, NEW after \in Rosters,
           \A n \in Members \ {m} : after[n] # "absent" <=> roster[n] # "absent",
           Mutate(h, m, after)
    PROVE  IInv'
<1> DEFINE next == handler[h].revision + 1
           c == Change(next, m, roster, after)
           len == Len(log)
<1>1. /\ revision \in Nat /\ roster \in Rosters /\ log \in Seq(Changes)
      /\ handler \in [Handlers -> [pc : {"idle", "loaded"}, revision : Nat]]
    BY DEF IInv, TypeOK
<1>2. /\ handler[h].pc = "loaded" /\ revision' = next /\ roster' = after
      /\ log' = Append(log, c)
      /\ handler' = [handler EXCEPT ![h] = [pc |-> "idle", revision |-> 0]]
      /\ UNCHANGED daemonVars
    BY DEF Mutate
<1>3. next = len + 1 /\ len = revision /\ next \in Nat /\ len \in Nat
    BY <1>1, <1>2 DEF IInv, LoadedIsCurrent, LogIsHistory
<1>4. /\ c \in Changes /\ c.revision = next /\ c.after = after /\ Describes(c, roster)
    <2>1. next \in Nat
        BY <1>3
    <2> QED
        BY <2>1, <1>1, ChangeDescribes
<1>5. /\ log' \in Seq(Changes) /\ Len(log') = len + 1 /\ log'[len + 1] = c
      /\ \A i \in 1 .. len : log'[i] = log[i]
    BY <1>1, <1>2, <1>4
<1>6. /\ \A n \in 0 .. len : RosterAt(n)' = RosterAt(n)
      /\ \A n \in Nat : n = len + 1 => RosterAt(n)' = after
    BY <1>3, <1>4, <1>5 DEF RosterAt, Empty
<1>7. TypeOK'
    BY <1>1, <1>2, <1>3, <1>5 DEF IInv, TypeOK, daemonVars
<1>8. LoadedIsCurrent'
    BY <1>1, <1>2 DEF IInv, LoadedIsCurrent
<1>9. LogIsHistory'
    <2>1. revision' = Len(log')
        BY <1>2, <1>3, <1>5
    <2>2. roster' = RosterAt(Len(log))'
        <3>1. Len(log') \in Nat /\ Len(log') = len + 1
            BY <1>3, <1>5
        <3>2. \A n \in Nat : n = Len(log') => RosterAt(n)' = after
            BY <3>1, <1>6
        <3> QED
            BY <3>1, <3>2, <1>2 DEF RosterAt
    <2>3. ASSUME NEW i \in 1 .. Len(log')
          PROVE  log'[i].revision = i /\ Describes(log'[i], RosterAt(i - 1)')
        <3>1. CASE i \in 1 .. len
            <4>1. i - 1 \in 0 .. len
                BY <3>1, <1>3
            <4>2. log'[i] = log[i] /\ RosterAt(i - 1)' = RosterAt(i - 1)
                BY <3>1, <4>1, <1>5, <1>6
            <4> QED
                BY <3>1, <4>2 DEF IInv, LogIsHistory
        <3>2. CASE i = len + 1
            <4>1. RosterAt(i - 1)' = roster
                BY <3>2, <1>3, <1>6 DEF IInv, LogIsHistory
            <4> QED
                BY <3>2, <4>1, <1>3, <1>4, <1>5
        <3> QED
            BY <3>1, <3>2, <1>3, <1>5
    <2>4. \A i \in 1 .. Len(log') :
            log'[i].revision = i /\ Describes(log'[i], RosterAt(i - 1)')
        BY <2>3
    <2> QED
        BY <2>1, <2>2, <2>4 DEF LogIsHistory, Describes
<1>10. FetchIsRecent' /\ ViewIsBounded'
    BY <1>1, <1>2, <1>3, <1>5 DEF IInv, TypeOK, FetchIsRecent, ViewIsBounded, daemonVars
<1>11. Mixed' /\ ViewIsRosterOfRevision'
    BY <1>1, <1>2, <1>3, <1>6
       DEF IInv, TypeOK, ViewIsBounded, Mixed, ViewIsRosterOfRevision, daemonVars
<1> QED
    BY <1>7, <1>8, <1>9, <1>10, <1>11 DEF IInv

\* The two mutations differ in one member's presence.
LEMMA AddMemberKeepsIInv ==
    ASSUME IInv, NEW h \in Handlers, NEW m \in Members, AddMember(h, m)
    PROVE  IInv'
<1> DEFINE S == Present(roster) \cup {m}
<1>1. S \in SUBSET Members
    BY DEF Present
<1>2. /\ Project(S) \in Rosters
      /\ \A n \in Members : Project(S)[n] # "absent" <=> n \in S
    BY <1>1, ProjectIsRoster
<1>3. \A n \in Members \ {m} : Project(S)[n] # "absent" <=> roster[n] # "absent"
    BY <1>2 DEF Present
<1>4. Mutate(h, m, Project(S))
    BY DEF AddMember
<1> QED
    BY <1>2, <1>3, <1>4, MutateKeepsIInv

\* Removing a member keeps the invariant.
LEMMA RemoveMemberKeepsIInv ==
    ASSUME IInv, NEW h \in Handlers, NEW m \in Members, RemoveMember(h, m)
    PROVE  IInv'
<1> DEFINE S == Present(roster) \ {m}
<1>1. S \in SUBSET Members
    BY DEF Present
<1>2. /\ Project(S) \in Rosters
      /\ \A n \in Members : Project(S)[n] # "absent" <=> n \in S
    BY <1>1, ProjectIsRoster
<1>3. \A n \in Members \ {m} : Project(S)[n] # "absent" <=> roster[n] # "absent"
    BY <1>2 DEF Present
<1>4. Mutate(h, m, Project(S))
    BY DEF RemoveMember
<1> QED
    BY <1>2, <1>3, <1>4, MutateKeepsIInv

---------------------------------------------------------------------------
(* The steps of the daemon.                                                *)

\* A step of the daemon leaves the backend, its log and its rosters alone.
LEMMA ServerUnchanged ==
    ASSUME IInv, UNCHANGED serverVars
    PROVE  /\ LoadedIsCurrent' /\ LogIsHistory'
           /\ \A n : RosterAt(n)' = RosterAt(n)
<1>1. \A n : RosterAt(n)' = RosterAt(n)
    BY DEF RosterAt, Empty, serverVars
<1> QED
    BY <1>1 DEF IInv, LoadedIsCurrent, LogIsHistory, serverVars

\* Forgetting the view: the agent's removal, and a restart of its runtime.
LEMMA ForgetKeepsIInv ==
    ASSUME IInv, UNCHANGED serverVars, known' = FALSE, view' = NoView, asOf' = 0,
           fetch' = fetch \/ fetch' = NoFetch
    PROVE  IInv'
<1>1. LoadedIsCurrent' /\ LogIsHistory'
    BY ServerUnchanged
<1>2. NoView \in [revision : Nat, members : Rosters, recent : SUBSET Nat]
    BY DEF NoView, Empty, Rosters, References
<1>3. NoFetch \in [pc : {"idle", "request", "reading"}, why : {"none", "entry", "change", "gap"},
                   change : Nat, revision : Nat]
    BY DEF NoFetch
<1>4. TypeOK'
    BY <1>2, <1>3 DEF IInv, TypeOK, serverVars
<1>5. FetchIsRecent'
    BY DEF IInv, FetchIsRecent, NoFetch, serverVars
<1>6. ViewIsBounded' /\ Mixed' /\ ViewIsRosterOfRevision'
    BY DEF ViewIsBounded, Mixed, ViewIsRosterOfRevision
<1> QED
    BY <1>1, <1>4, <1>5, <1>6 DEF IInv

\* Steps that change nothing of the view but the keys it remembers, and start,
\* advance or end a fetch.
LEMMA FetchStepKeepsIInv ==
    ASSUME IInv, UNCHANGED <<serverVars, known, asOf>>,
           view' \in [revision : Nat, members : Rosters, recent : SUBSET Nat],
           view'.revision = view.revision, view'.members = view.members,
           fetch' \in [pc : {"idle", "request", "reading"},
                       why : {"none", "entry", "change", "gap"}, change : Nat, revision : Nat],
           FetchIsRecent'
    PROVE  IInv'
<1>1. /\ LoadedIsCurrent' /\ LogIsHistory'
      /\ \A n : RosterAt(n)' = RosterAt(n)
    BY ServerUnchanged
<1>2. TypeOK'
    BY DEF IInv, TypeOK, serverVars
<1>3. ViewIsBounded' /\ Mixed' /\ ViewIsRosterOfRevision'
    BY <1>1 DEF IInv, ViewIsBounded, Mixed, ViewIsRosterOfRevision, serverVars
<1> QED
    BY <1>1, <1>2, <1>3 DEF IInv

\* An event that fits the view keeps the invariant.
LEMMA DeliverMessageKeepsIInv ==
    ASSUME IInv, DeliverMessage PROVE IInv'
<1>1. /\ UNCHANGED <<serverVars, known, view, asOf>>
      /\ fetch' = [pc |-> "request", why |-> "entry", change |-> 0, revision |-> 0]
    BY DEF DeliverMessage, NoFetch
<1>2. FetchIsRecent'
    BY <1>1 DEF FetchIsRecent
<1> QED
    BY <1>1, <1>2, FetchStepKeepsIInv DEF IInv, TypeOK

\* An event without a view to fit keeps the invariant.
LEMMA DeliverWithoutViewKeepsIInv ==
    ASSUME IInv, NEW i \in DOMAIN log, DeliverWithoutView(i) PROVE IInv'
<1>1. i \in 1 .. Len(log) /\ i \in Nat
    BY DEF IInv, TypeOK
<1>2. /\ UNCHANGED <<serverVars, known, view, asOf>>
      /\ fetch' = [pc |-> "request", why |-> "change", change |-> i, revision |-> 0]
    BY DEF DeliverWithoutView, NoFetch
<1>3. FetchIsRecent'
    BY <1>1, <1>2 DEF FetchIsRecent, serverVars
<1> QED
    BY <1>1, <1>2, <1>3, FetchStepKeepsIInv DEF IInv, TypeOK

\* Remembering a key changes nothing else of the view.
LEMMA RememberView ==
    ASSUME IInv, NEW i \in DOMAIN log
    PROVE  /\ Remember(view, i) \in [revision : Nat, members : Rosters, recent : SUBSET Nat]
           /\ Remember(view, i).revision = view.revision
           /\ Remember(view, i).members = view.members
BY DEF IInv, TypeOK, Remember

\* An event behind the view keeps the invariant.
LEMMA DeliverOldKeepsIInv ==
    ASSUME IInv, NEW i \in DOMAIN log, DeliverOld(i) PROVE IInv'
<1>1. UNCHANGED <<serverVars, known, fetch, asOf>> /\ view' = Remember(view, i)
    BY DEF DeliverOld
<1>2. FetchIsRecent'
    BY <1>1, RememberView DEF IInv, FetchIsRecent, serverVars
<1> QED
    BY <1>1, <1>2, RememberView, FetchStepKeepsIInv DEF IInv, TypeOK

\* An event behind a gap keeps the invariant.
LEMMA DeliverBehindGapKeepsIInv ==
    ASSUME IInv, NEW i \in DOMAIN log, DeliverBehindGap(i) PROVE IInv'
<1>1. i \in 1 .. Len(log) /\ i \in Nat
    BY DEF IInv, TypeOK
<1>2. /\ UNCHANGED <<serverVars, known, asOf>> /\ view' = Remember(view, i)
      /\ fetch' = [pc |-> "request", why |-> "gap", change |-> i, revision |-> 0]
    BY DEF DeliverBehindGap, NoFetch
<1>3. FetchIsRecent'
    BY <1>2 DEF FetchIsRecent
<1> QED
    BY <1>1, <1>2, <1>3, RememberView, FetchStepKeepsIInv

\* Fetching the revision keeps the invariant.
LEMMA FetchRevisionKeepsIInv ==
    ASSUME IInv, FetchRevision PROVE IInv'
<1>1. /\ UNCHANGED <<serverVars, known, view, asOf>> /\ fetch.pc = "request"
      /\ fetch' = [fetch EXCEPT !.pc = "reading", !.revision = revision]
    BY DEF FetchRevision
<1>2. revision = Len(log) /\ revision \in Nat /\ view.revision \in Nat
    BY DEF IInv, TypeOK, LogIsHistory
<1>3. /\ fetch'.pc = "reading" /\ fetch'.revision = revision
      /\ fetch'.why = fetch.why /\ fetch'.change = fetch.change
    BY <1>1 DEF IInv, TypeOK
<1>4. FetchIsRecent'
    BY <1>1, <1>2, <1>3 DEF IInv, FetchIsRecent, ViewIsBounded, serverVars
<1> QED
    BY <1>1, <1>2, <1>4, FetchStepKeepsIInv DEF IInv, TypeOK

\* A fetch that fails keeps the invariant.
LEMMA FetchFailsKeepsIInv ==
    ASSUME IInv, FetchFails PROVE IInv'
<1>1. /\ UNCHANGED <<serverVars, known, view, asOf>>
      /\ fetch' = [pc |-> "idle", why |-> "none", change |-> 0, revision |-> 0]
    BY DEF FetchFails, NoFetch
<1>2. FetchIsRecent'
    BY <1>1 DEF FetchIsRecent
<1> QED
    BY <1>1, <1>2, FetchStepKeepsIInv DEF IInv, TypeOK

\* The contiguous change: the view moves from one revision to the next.
LEMMA DeliverNextKeepsIInv ==
    ASSUME IInv, NEW i \in DOMAIN log, DeliverNext(i)
    PROVE  IInv' /\ view.revision <= view'.revision
<1> DEFINE c == log[i]
           r == view.revision
           before == RosterAt(r)
           other == RosterAt(asOf)
           new == MembersAfter(view.members, c)
<1>1. /\ UNCHANGED <<serverVars, known, fetch, asOf>>
      /\ known /\ c.revision = r + 1 /\ fetch.pc = "idle"
      /\ view' = [revision |-> c.revision, members |-> new, recent |-> view.recent \cup {i}]
    BY DEF DeliverNext, Delivers, Contiguous, Applied
<1>2. /\ i \in 1 .. Len(log) /\ i \in Nat /\ c \in Changes
      /\ r \in Nat /\ view.members \in Rosters /\ view.recent \in SUBSET Nat
      /\ asOf \in Nat /\ Len(log) \in Nat
    BY DEF IInv, TypeOK
<1>3. i = r + 1 /\ c.revision = i /\ Describes(c, RosterAt(i - 1))
    BY <1>1, <1>2 DEF IInv, LogIsHistory
<1>4. Describes(c, before) /\ r \in 0 .. Len(log) /\ asOf \in 0 .. Len(log)
    <2>1. i - 1 = r
        BY <1>2, <1>3
    <2> QED
        BY <2>1, <1>1, <1>2, <1>3 DEF IInv, ViewIsBounded
<1>5. before \in Rosters /\ other \in Rosters
    BY <1>4, RosterAtIsRoster DEF IInv
<1>6. RosterAt(i) = c.after
    BY <1>2 DEF RosterAt
<1>7. /\ new \in Rosters
      /\ \A m \in Members : new[m] \in {RosterAt(i)[m], other[m]}
      /\ view.members = before => new = RosterAt(i)
    <2>1. \A m \in Members : view.members[m] \in {before[m], other[m]}
        BY <1>1 DEF IInv, Mixed
    <2>2. Describes(c, before)
        BY <1>4
    <2> HIDE DEF c, before, other
    <2>3. /\ new \in Rosters
          /\ \A m \in Members : new[m] \in {c.after[m], other[m]}
          /\ view.members = before => new = c.after
        BY <2>1, <2>2, <1>2, <1>5, MembersAfterStep
    <2> QED
        BY <2>3, <1>6 DEF c
<1>8. /\ view'.revision = i /\ view'.members = new /\ known' /\ asOf' = asOf /\ log' = log
      /\ \A n : RosterAt(n)' = RosterAt(n)
    BY <1>1, <1>3, ServerUnchanged DEF serverVars
<1>9. TypeOK'
    BY <1>1, <1>2, <1>3, <1>7 DEF IInv, TypeOK, serverVars
<1>10. FetchIsRecent' /\ ViewIsBounded'
    BY <1>1, <1>2, <1>8 DEF IInv, FetchIsRecent, ViewIsBounded
<1>11. Mixed'
    BY <1>7, <1>8 DEF Mixed
<1>12. ViewIsRosterOfRevision'
    <2>1. CASE asOf <= r
        BY <2>1, <1>1, <1>7, <1>8 DEF IInv, ViewIsRosterOfRevision
    <2>2. CASE asOf = i
        <3>1. \A m \in Members : new[m] = RosterAt(i)[m]
            BY <2>2, <1>7
        <3>2. RosterAt(i) \in Rosters
            BY <1>2, RosterAtIsRoster DEF IInv
        <3>3. new = RosterAt(i)
            BY <3>1, <3>2, <1>7 DEF Rosters
        <3> QED
            BY <3>3, <1>8 DEF ViewIsRosterOfRevision
    <2>3. CASE asOf > i
        BY <2>3, <1>2, <1>8 DEF ViewIsRosterOfRevision
    <2> QED
        BY <2>1, <2>2, <2>3, <1>2, <1>3
<1>13. LoadedIsCurrent' /\ LogIsHistory'
    BY <1>1, ServerUnchanged
<1> QED
    BY <1>2, <1>3, <1>8, <1>9, <1>10, <1>11, <1>12, <1>13 DEF IInv

\* The snapshot: the members as they are, the revision as it was.
LEMMA FetchRosterKeepsIInv ==
    ASSUME IInv, FetchRoster
    PROVE  IInv' /\ (known => view.revision <= view'.revision)
<1> DEFINE entry == [revision |-> fetch.revision, members |-> roster, recent |-> {}]
           i == fetch.change
<1>1. /\ UNCHANGED serverVars /\ fetch.pc = "reading" /\ known' = TRUE /\ asOf' = Len(log)
      /\ fetch' = [pc |-> "idle", why |-> "none", change |-> 0, revision |-> 0]
      /\ view' = IF fetch.why # "change" THEN entry
                 ELSE IF Contiguous(entry, log[i]) THEN Applied(entry, i)
                 ELSE Remember(entry, i)
    BY DEF FetchRoster, NoFetch
<1>2. /\ fetch.revision \in Nat /\ roster \in Rosters /\ Len(log) \in Nat /\ i \in Nat
      /\ fetch.revision <= Len(log)
    BY <1>1 DEF IInv, TypeOK, FetchIsRecent
<1>3. fetch.why = "change" => ~Contiguous(entry, log[i])
    <2> SUFFICES ASSUME fetch.why = "change" PROVE ~Contiguous(entry, log[i])
        OBVIOUS
    <2>1. i \in 1 .. Len(log) /\ i <= fetch.revision
        BY <1>1 DEF IInv, FetchIsRecent
    <2>2. log[i].revision = i
        BY <2>1 DEF IInv, LogIsHistory
    <2> QED
        BY <2>1, <2>2, <1>2 DEF Contiguous
<1>4. view' = entry \/ view' = [revision |-> fetch.revision, members |-> roster, recent |-> {i}]
    BY <1>1, <1>3 DEF Remember
<1>5. /\ view'.revision = fetch.revision /\ view'.members = roster
      /\ view' \in [revision : Nat, members : Rosters, recent : SUBSET Nat]
    BY <1>2, <1>4
<1>6. /\ LoadedIsCurrent' /\ LogIsHistory'
      /\ \A n : RosterAt(n)' = RosterAt(n)
    BY <1>1, ServerUnchanged
<1>7. view'.members = RosterAt(Len(log))
    BY <1>5 DEF IInv, LogIsHistory
<1>8. TypeOK'
    BY <1>1, <1>2, <1>5 DEF IInv, TypeOK, serverVars
<1>9. FetchIsRecent' /\ ViewIsBounded'
    BY <1>1, <1>2, <1>5 DEF FetchIsRecent, ViewIsBounded, serverVars
<1>10. Mixed'
    BY <1>1, <1>6, <1>7 DEF Mixed
<1>11. ViewIsRosterOfRevision'
    <2>1. asOf' <= view'.revision => view'.revision = Len(log)
        BY <1>1, <1>2, <1>5
    <2> QED
        BY <2>1, <1>6, <1>7 DEF ViewIsRosterOfRevision
<1>12. known => view.revision <= view'.revision
    BY <1>1, <1>5 DEF IInv, FetchIsRecent
<1> QED
    BY <1>6, <1>8, <1>9, <1>10, <1>11, <1>12 DEF IInv

---------------------------------------------------------------------------
(* The theorems.                                                           *)

\* The invariant is inductive when requests do not overlap, and no step takes
\* the revision of a living view back.
LEMMA StepKeepsIInv ==
    ASSUME ~Overlap, IInv, [Next]_vars
    PROVE  IInv' /\ (known /\ known' => view.revision <= view'.revision)
<1>1. view.revision \in Nat
    BY DEF IInv, TypeOK
<1>2. ASSUME NEW h \in Handlers, LoadChannel(h) \/ LeaveUnchanged(h)
      PROVE  IInv' /\ view' = view
    BY <1>2, LoadChannelKeepsIInv, LeaveUnchangedKeepsIInv
       DEF LoadChannel, LeaveUnchanged, daemonVars
<1>3. ASSUME NEW h \in Handlers, NEW m \in Members, AddMember(h, m) \/ RemoveMember(h, m)
      PROVE  IInv' /\ view' = view
    BY <1>3, AddMemberKeepsIInv, RemoveMemberKeepsIInv
       DEF AddMember, RemoveMember, Mutate, daemonVars
<1>4. ASSUME NEW i \in DOMAIN log, DeliverRemoval(i)
      PROVE  IInv' /\ ~known'
    BY <1>4, ForgetKeepsIInv DEF DeliverRemoval
<1>5. ASSUME NEW i \in DOMAIN log, DeliverWithoutView(i)
      PROVE  IInv' /\ view' = view
    BY <1>5, DeliverWithoutViewKeepsIInv DEF DeliverWithoutView
<1>6. ASSUME NEW i \in DOMAIN log, DeliverOld(i) \/ DeliverBehindGap(i)
      PROVE  IInv' /\ view'.revision = view.revision
    BY <1>6, DeliverOldKeepsIInv, DeliverBehindGapKeepsIInv, RememberView
       DEF DeliverOld, DeliverBehindGap
<1>7. ASSUME NEW i \in DOMAIN log, DeliverNext(i)
      PROVE  IInv' /\ view.revision <= view'.revision
    BY <1>7, DeliverNextKeepsIInv
<1>8. ASSUME DeliverMessage \/ FetchRevision \/ FetchFails
      PROVE  IInv' /\ view' = view
    BY <1>8, DeliverMessageKeepsIInv, FetchRevisionKeepsIInv, FetchFailsKeepsIInv
       DEF DeliverMessage, FetchRevision, FetchFails
<1>9. ASSUME FetchRoster
      PROVE  IInv' /\ (known => view.revision <= view'.revision)
    BY <1>9, FetchRosterKeepsIInv
<1>10. ASSUME Restart
      PROVE  IInv' /\ ~known'
    BY <1>10, ForgetKeepsIInv DEF Restart
<1>11. ASSUME UNCHANGED vars
      PROVE  IInv' /\ view' = view
    <2>1. UNCHANGED <<revision, roster, log, daemonVars>> /\ UNCHANGED handler
        BY <1>11 DEF vars, serverVars, daemonVars
    <2>2. TypeOK' /\ LoadedIsCurrent'
        BY <2>1 DEF IInv, TypeOK, LoadedIsCurrent, daemonVars
    <2> QED
        BY <2>1, <2>2, LogAndDaemonUnchanged DEF IInv, daemonVars
<1> QED
    BY <1>1, <1>2, <1>3, <1>4, <1>5, <1>6, <1>7, <1>8, <1>9, <1>10, <1>11 DEF Next

\* Every reachable state satisfies the inductive invariant.
THEOREM Invariance ==
    ASSUME ~Overlap
    PROVE  Spec => []IInv
<1>1. IInv /\ [Next]_vars => IInv'
    BY StepKeepsIInv
<1> QED
    BY <1>1, InitIInv, PTL DEF Spec

\* Every variable keeps its type (channels.membership_revision, the event log,
\* the registry entry and the fetch in flight).
THEOREM TypeCorrectness ==
    ASSUME ~Overlap
    PROVE  Spec => []TypeOK
<1>1. IInv => TypeOK
    BY DEF IInv
<1> QED
    BY <1>1, Invariance, PTL

\* Once it has caught up with its snapshot, the registry's view is the roster of
\* the revision it carries, references included.
THEOREM ViewIsExact ==
    ASSUME ~Overlap
    PROVE  Spec => []ViewIsRosterOfRevision
<1>1. IInv => ViewIsRosterOfRevision
    BY DEF IInv
<1> QED
    BY <1>1, Invariance, PTL

\* Before that it mixes the roster of its revision with the one of its snapshot.
THEOREM ViewIsMixture ==
    ASSUME ~Overlap
    PROVE  Spec => []ViewMixesTwoRosters
<1>1. IInv => ViewMixesTwoRosters
    BY DEF IInv, Mixed, ViewMixesTwoRosters
<1> QED
    BY <1>1, Invariance, PTL

\* The revision of a living view never goes back.
THEOREM ViewIsMonotone ==
    ASSUME ~Overlap
    PROVE  Spec => ViewNeverGoesBack
<1>1. IInv /\ [Next]_vars => [known /\ known' => view.revision <= view'.revision]_vars
    BY StepKeepsIInv
<1> QED
    BY <1>1, Invariance, PTL DEF Spec, ViewNeverGoesBack

\* A view that claims the current revision is the current roster: what the run
\* with overlapping requests refutes holds for every instance without overlap.
THEOREM CurrentViewIsCurrent ==
    ASSUME ~Overlap
    PROVE  Spec => []CurrentRevisionIsCurrentRoster
<1>1. IInv => CurrentRevisionIsCurrentRoster
    BY DEF IInv, LogIsHistory, ViewIsRosterOfRevision, CurrentRevisionIsCurrentRoster
<1> QED
    BY <1>1, Invariance, PTL
=============================================================================
