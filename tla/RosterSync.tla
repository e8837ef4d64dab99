----------------------------- MODULE RosterSync -----------------------------
(***************************************************************************)
(* One channel's member roster, from the rows in the database to the view  *)
(* a daemon keeps of it for one agent's runtime.                           *)
(*                                                                         *)
(* The backend changes the roster under a row lock and numbers each change *)
(* (rosterRevision); the change travels as an event that may be delivered  *)
(* late, twice, out of order or not at all (module EventDelivery).  The    *)
(* daemon's RuntimeChannelContextRegistry applies a change that extends    *)
(* its revision by one, ignores what it already has, and fetches a         *)
(* snapshot when it has no view or finds a gap.  The snapshot is not one   *)
(* read: the handler loads the channel (the revision) and then the members.*)
(***************************************************************************)
EXTENDS Naturals, Sequences, FiniteSets

CONSTANTS
    Members,        \* who can be in the channel
    Agent,          \* the member whose runtime keeps the view
    Handle,         \* Handle[m]: members with one handle need qualified references
    Handlers,       \* membership requests that may be in flight
    Overlap,        \* bound: may requests overlap between loading and locking?
    MaxMutations    \* bound: changes of the roster

ASSUME RosterSyncAssumption ==
    /\ Agent \in Members
    /\ Handle \in [Members -> Members]
    /\ Overlap \in BOOLEAN
    /\ MaxMutations \in Nat

VARIABLES
    revision,       \* channels.membership_revision
    roster,         \* the members, each with the reference it is addressed by
    log,            \* the committed channel.member_joined / member_left events
    handler,        \* the membership requests in flight
    known,          \* registry: is there an entry for the channel?
    view,           \* registry: the entry, [revision, members, recent]
    fetch,          \* the delivery that awaits a snapshot
    asOf            \* history: how much of the log the view's last snapshot had seen

serverVars == <<revision, roster, log, handler>>
daemonVars == <<known, view, fetch, asOf>>
vars == <<serverVars, daemonVars>>

---------------------------------------------------------------------------
References == {"absent", "plain", "qualified"}
Rosters == [Members -> References]
Empty == [m \in Members |-> "absent"]
Present(r) == {m \in Members : r[m] # "absent"}

\* project_channel_roster: a handle that two present members share is qualified
\* by the server it comes from.
Project(present) ==
    [m \in Members |->
        IF m \notin present THEN "absent"
        ELSE IF \E n \in present \ {m} : Handle[n] = Handle[m] THEN "qualified"
        ELSE "plain"]

\* Mutant: no updates for the members whose reference the change affects.
ReferenceUpdates_None(before, after) == {m \in Members : FALSE}

\* reference_updates: who is addressed differently after the change.
ReferenceUpdates(before, after) == {m \in Members : after[m] # "absent" /\ after[m] # before[m]}

\* The event a change writes: its number, who came or went, and the references
\* that change with it (read from after).
Change(rev, m, before, after) ==
    [revision |-> rev, member |-> m, joined |-> after[m] # "absent",
     updates |-> ReferenceUpdates(before, after) \ {m}, after |-> after]
Changes == [revision : Nat, member : Members, joined : BOOLEAN,
            updates : SUBSET Members, after : Rosters]

\* The roster after the first n changes.
RosterAt(n) == IF n = 0 THEN Empty ELSE log[n].after

NoView == [revision |-> 0, members |-> Empty, recent |-> {}]
NoFetch == [pc |-> "idle", why |-> "none", change |-> 0, revision |-> 0]

Init ==
    /\ revision = 0
    /\ roster = Empty
    /\ log = <<>>
    /\ handler = [h \in Handlers |-> [pc |-> "idle", revision |-> 0]]
    /\ known = FALSE
    /\ view = NoView
    /\ fetch = NoFetch
    /\ asOf = 0

---------------------------------------------------------------------------
(* The backend.                                                            *)

\* A membership request loads the channel row to authorise the request.  The
\* session keeps that object: the locking SELECT that follows does not refresh it.
LoadChannel(h) ==
    /\ handler[h].pc = "idle"
    /\ Len(log) < MaxMutations
    /\ Overlap \/ \A g \in Handlers : handler[g].pc = "idle"
    /\ handler' = [handler EXCEPT ![h] = [pc |-> "loaded", revision |-> revision]]
    /\ UNCHANGED <<revision, roster, log, daemonVars>>

\* Mutant: the change is written with the number the channel already had.
Mutate_KeepsRevision(h, m, after) ==
    LET next == handler[h].revision IN
    /\ handler[h].pc = "loaded"
    /\ revision' = next
    /\ roster' = after
    /\ log' = Append(log, Change(next, m, roster, after))
    /\ handler' = [handler EXCEPT ![h] = [pc |-> "idle", revision |-> 0]]
    /\ UNCHANGED daemonVars

\* SELECT ... FOR UPDATE, the row, the revision and the event, COMMIT: the lock
\* orders the requests, and nobody sees the parts before the commit.
Mutate(h, m, after) ==
    LET next == handler[h].revision + 1 IN
    /\ handler[h].pc = "loaded"
    /\ revision' = next
    /\ roster' = after
    /\ log' = Append(log, Change(next, m, roster, after))
    /\ handler' = [handler EXCEPT ![h] = [pc |-> "idle", revision |-> 0]]
    /\ UNCHANGED daemonVars

AddMember(h, m) ==
    /\ m \notin Present(roster)
    /\ Mutate(h, m, Project(Present(roster) \cup {m}))

RemoveMember(h, m) ==
    /\ m \in Present(roster)
    /\ Mutate(h, m, Project(Present(roster) \ {m}))

\* The member is already there, or not there at all: nothing changes.
LeaveUnchanged(h) ==
    /\ handler[h].pc = "loaded"
    /\ handler' = [handler EXCEPT ![h] = [pc |-> "idle", revision |-> 0]]
    /\ UNCHANGED <<revision, roster, log, daemonVars>>

---------------------------------------------------------------------------
(* The registry.                                                           *)

\* A contiguous change: the references of members the view has, then the member.
MembersAfter(members, c) ==
    [m \in Members |->
        IF m = c.member THEN (IF c.joined THEN c.after[m] ELSE "absent")
        ELSE IF m \in c.updates /\ members[m] # "absent" THEN c.after[m]
        ELSE members[m]]

\* Mutant: a change is applied whatever revision the view is at.
Contiguous_Any(v, c) == c.revision > v.revision

Contiguous(v, c) == c.revision = v.revision + 1

Remember(v, i) == [v EXCEPT !.recent = @ \cup {i}]
Applied(v, i) == [revision |-> log[i].revision, members |-> MembersAfter(v.members, log[i]),
                  recent |-> v.recent \cup {i}]

OwnRemoval(i) == log[i].member = Agent /\ ~log[i].joined

\* The hub sends membership events to agents that are in the channel, and the
\* final leave to the agent that left.
VisibleToAgent(i) == Agent \in Present(roster) \/ OwnRemoval(i)

\* The runtime's delivery chain takes one delivery at a time.
Delivers(i) == fetch.pc = "idle" /\ i \in DOMAIN log /\ VisibleToAgent(i)

\* A message of a channel without a view: ensureRuntimeChannelSnapshot.
DeliverMessage ==
    /\ fetch.pc = "idle"
    /\ ~known
    /\ fetch' = [NoFetch EXCEPT !.pc = "request", !.why = "entry"]
    /\ UNCHANGED <<serverVars, known, view, asOf>>

\* The agent itself was removed: the entry goes, whatever its revision.
DeliverRemoval(i) ==
    /\ Delivers(i) /\ OwnRemoval(i)
    /\ known' = FALSE
    /\ view' = NoView
    /\ asOf' = 0
    /\ UNCHANGED <<serverVars, fetch>>

DeliverWithoutView(i) ==
    /\ Delivers(i) /\ ~OwnRemoval(i)
    /\ ~known
    /\ fetch' = [NoFetch EXCEPT !.pc = "request", !.why = "change", !.change = i]
    /\ UNCHANGED <<serverVars, known, view, asOf>>

\* A change the view already has: only its key is remembered.
DeliverOld(i) ==
    /\ Delivers(i) /\ ~OwnRemoval(i)
    /\ known /\ i \notin view.recent
    /\ log[i].revision <= view.revision
    /\ view' = Remember(view, i)
    /\ UNCHANGED <<serverVars, known, fetch, asOf>>

DeliverNext(i) ==
    /\ Delivers(i) /\ ~OwnRemoval(i)
    /\ known /\ i \notin view.recent
    /\ Contiguous(view, log[i])
    /\ view' = Applied(view, i)
    /\ UNCHANGED <<serverVars, known, fetch, asOf>>

\* Mutant: a gap resets the entry's revision while the snapshot is fetched.
DeliverBehindGap_Resets(i) ==
    /\ Delivers(i) /\ ~OwnRemoval(i)
    /\ known /\ i \notin view.recent
    /\ log[i].revision > view.revision
    /\ ~Contiguous(view, log[i])
    /\ view' = [Remember(view, i) EXCEPT !.revision = 0]
    /\ fetch' = [NoFetch EXCEPT !.pc = "request", !.why = "gap", !.change = i]
    /\ UNCHANGED <<serverVars, known, asOf>>

\* A gap: the key is remembered, the view stays, a snapshot is fetched.
DeliverBehindGap(i) ==
    /\ Delivers(i) /\ ~OwnRemoval(i)
    /\ known /\ i \notin view.recent
    /\ log[i].revision > view.revision
    /\ ~Contiguous(view, log[i])
    /\ view' = Remember(view, i)
    /\ fetch' = [NoFetch EXCEPT !.pc = "request", !.why = "gap", !.change = i]
    /\ UNCHANGED <<serverVars, known, asOf>>

\* list_channel_members, first read: the channel row, for members only.
FetchRevision ==
    /\ fetch.pc = "request"
    /\ Agent \in Present(roster)
    /\ fetch' = [fetch EXCEPT !.pc = "reading", !.revision = revision]
    /\ UNCHANGED <<serverVars, known, view, asOf>>

\* Mutant: a failed request leaves the delivery chain where it is.
FetchFails_Stuck ==
    /\ fetch.pc # "idle"
    /\ fetch' = [fetch EXCEPT !.pc = "failed"]
    /\ UNCHANGED <<serverVars, known, view, asOf>>

\* The request fails: no entry is made, and after a gap the old one stays.
FetchFails ==
    /\ fetch.pc # "idle"
    /\ fetch' = NoFetch
    /\ UNCHANGED <<serverVars, known, view, asOf>>

\* Mutant: the snapshot is merged into the entry, so that members who left stay.
FetchRoster_Merges ==
    LET merged == [m \in Members |-> IF roster[m] = "absent" THEN view.members[m] ELSE roster[m]]
        entry == [revision |-> fetch.revision, members |-> merged, recent |-> {}]
        i == fetch.change IN
    /\ fetch.pc = "reading"
    /\ known' = TRUE
    /\ view' = IF fetch.why # "change" THEN entry
               ELSE IF Contiguous(entry, log[i]) THEN Applied(entry, i)
               ELSE Remember(entry, i)
    /\ asOf' = Len(log)
    /\ fetch' = NoFetch
    /\ UNCHANGED serverVars

\* Second read, the members; the registry starts a new entry from both, and a
\* change that found no entry is applied to it.
FetchRoster ==
    LET entry == [revision |-> fetch.revision, members |-> roster, recent |-> {}]
        i == fetch.change IN
    /\ fetch.pc = "reading"
    /\ known' = TRUE
    /\ view' = IF fetch.why # "change" THEN entry
               ELSE IF Contiguous(entry, log[i]) THEN Applied(entry, i)
               ELSE Remember(entry, i)
    /\ asOf' = Len(log)
    /\ fetch' = NoFetch
    /\ UNCHANGED serverVars

\* A new runtime generation starts with no entry and an empty delivery chain.
Restart ==
    /\ known' = FALSE
    /\ view' = NoView
    /\ fetch' = NoFetch
    /\ asOf' = 0
    /\ UNCHANGED serverVars

Next ==
    \/ \E h \in Handlers :
        \/ LoadChannel(h) \/ LeaveUnchanged(h)
        \/ \E m \in Members : AddMember(h, m) \/ RemoveMember(h, m)
    \/ \E i \in DOMAIN log :
        \/ DeliverRemoval(i) \/ DeliverWithoutView(i)
        \/ DeliverOld(i) \/ DeliverNext(i) \/ DeliverBehindGap(i)
    \/ DeliverMessage \/ FetchRevision \/ FetchFails \/ FetchRoster \/ Restart

Spec == Init /\ [][Next]_vars

---------------------------------------------------------------------------
TypeOK ==
    /\ revision \in Nat
    /\ roster \in Rosters
    /\ log \in Seq(Changes)
    /\ handler \in [Handlers -> [pc : {"idle", "loaded"}, revision : Nat]]
    /\ known \in BOOLEAN
    /\ view \in [revision : Nat, members : Rosters, recent : SUBSET Nat]
    /\ fetch \in [pc : {"idle", "request", "reading"}, why : {"none", "entry", "change", "gap"},
                  change : Nat, revision : Nat]
    /\ asOf \in Nat

\* The registry's revision means something: once it has caught up with the
\* moment its snapshot was read, the view is the roster of that revision,
\* references included, although changes come late, twice, out of order or not
\* at all, and although the snapshot was put together from two reads.
ViewIsRosterOfRevision ==
    known /\ asOf <= view.revision => view.members = RosterAt(view.revision)

\* Before it has caught up the view is a mixture of two rosters and nothing
\* else: each member is shown as of the view's revision or as of the snapshot.
ViewMixesTwoRosters ==
    known /\ view.revision < asOf =>
        \A m \in Members : view.members[m] \in {RosterAt(view.revision)[m], RosterAt(asOf)[m]}

\* A view that claims the current revision is the current roster: nothing else
\* would tell the agent that it addresses the wrong members.
CurrentRevisionIsCurrentRoster ==
    known /\ view.revision = revision /\ asOf <= view.revision => view.members = roster

\* While an entry lives its revision never goes back: a snapshot that was
\* fetched for a gap cannot undo what was applied before it.
ViewNeverGoesBack == [][known /\ known' => view.revision <= view'.revision]_vars
=============================================================================
