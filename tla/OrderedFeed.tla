---------------------------- MODULE OrderedFeed ----------------------------
(***************************************************************************)
(* What the event path promises a daemon that is the only consumer of a    *)
(* computer.  The log has places; an entry is a place and one of the       *)
(* readers the daemon consumes for.  An entry is consumed only when every  *)
(* earlier one has been: none is left out but the excused, which are the   *)
(* entries published behind the end of the log and, when the daemon        *)
(* resumes, the rest of the place it had reached.  Unless Repeats, the log *)
(* is read in one pass and no entry is consumed twice.                     *)
(***************************************************************************)
EXTENDS Naturals, Sequences, SequencesExt

CONSTANTS
    Places,             \* where an entry may be in the log
    Readers,            \* for whom it may be there
    Repeats             \* may the daemon be given an entry again?

VARIABLES
    published,          \* the entries of the log
    latest,             \* its last place (0: none)
    start,              \* the place behind which the subscription begins
    excused,            \* the entries that may be left out
    consumed            \* what the daemon has processed, in order

vars == <<published, latest, start, excused, consumed>>

Init ==
    /\ published = {}
    /\ latest = 0
    /\ start = 0
    /\ excused = {}
    /\ consumed = <<>>

\* A transaction commits: a place of the log gets its entries.
Publish ==
    \E place \in Places, who \in SUBSET Readers :
        /\ \A e \in published : e[1] # place
        /\ published' = published \cup ({place} \X who)
        /\ latest' = IF place > latest THEN place ELSE latest
        /\ excused' = IF place > latest THEN excused ELSE excused \cup ({place} \X who)
        /\ UNCHANGED <<start, consumed>>

\* The daemon processes an entry, the earlier ones behind it.
Consume ==
    \E e \in published :
        /\ start < e[1]
        /\ \A d \in published : start < d[1] /\ d[1] < e[1] => d \in excused \cup ToSet(consumed)
        /\ Repeats \/ \A d \in ToSet(consumed) : d[1] <= e[1] /\ d # e
        /\ consumed' = Append(consumed, e)
        /\ UNCHANGED <<published, latest, start, excused>>

\* The daemon goes on behind the last place it consumed an entry of.
Resume ==
    LET isLast(place) == /\ \E e \in ToSet(consumed) : e[1] = place
                         /\ \A e \in ToSet(consumed) : e[1] <= place
    IN  /\ excused' = excused \cup {e \in published : isLast(e[1]) /\ e \notin ToSet(consumed)}
        /\ UNCHANGED <<published, latest, start, consumed>>

\* A subscription that never consumed anything starts again, live ("live
\* subscription" in initial_daemon_event_cursor).
Subscribe ==
    /\ consumed = <<>>
    /\ start' = latest
    /\ UNCHANGED <<published, latest, excused, consumed>>

Next == Publish \/ Consume \/ Resume \/ Subscribe

Spec == Init /\ [][Next]_vars
=============================================================================
