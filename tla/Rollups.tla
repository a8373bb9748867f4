------------------------------ MODULE Rollups ------------------------------
(***************************************************************************)
(* The daily heatmap rollups (rollups.py): the counts the collector flushes *)
(* with every poll, the one-time backfill of the days that were recorded    *)
(* before rollups existed, and the retention purge that waits for it.       *)
(*                                                                          *)
(* The backfill runs in the background-migrations thread on a connection of *)
(* its own, one transaction per day, while polls commit in between; the     *)
(* process may die, the thread may fail, and the next start resumes.        *)
(*                                                                          *)
(* Abstracted: one grid cell per day (grid_daily at the coarse, permanent   *)
(* scale); a poll contributes one fix.                                      *)
(***************************************************************************)
EXTENDS Integers

CONSTANTS
    Deploy,      \* the day on which the version with rollups is first started
    LastDay,     \* bound: the last day of a behaviour
    MaxPerDay,   \* bound: fixes recorded on one day after deployment
    MaxOld,      \* bound: fixes recorded on one day before deployment
    Retention,   \* RETENTION_DAYS; 0 disables the purge
    MaxCrashes,  \* bound: crashes of the process
    MaxFailures  \* bound: failures of the backfill thread

ASSUME RollupsAssumption ==
    /\ Deploy \in 0..LastDay /\ LastDay \in Nat /\ MaxPerDay \in Nat /\ MaxOld \in Nat
    /\ Retention \in Nat /\ MaxCrashes \in Nat /\ MaxFailures \in Nat

VARIABLES
    today,      \* UTC day of the wall clock
    old,        \* old[d]: fixes of day d recorded before deployment (constant)
    live,       \* live[d]: fixes of day d recorded with rollups
    stored,     \* stored[d]: fixes of day d now in positions
    weight,     \* weight[d]: w of the cell in grid_daily
    mark,       \* meta rollups_backfill_done_through, -1 when absent
    ready,      \* meta rollups_ready
    up,         \* is the collector running?
    thread,     \* the backfill: "off", "indexing", "filling"
    next, last, \* the loop variable and bound of the backfill's range
    crashes, failures

vars == <<today, old, live, stored, weight, mark, ready, up, thread, next, last, crashes, failures>>
database == <<live, stored, weight, mark, ready>>
loop == <<thread, next, last>>
bounds == <<crashes, failures>>

Days == 0..LastDay
Recorded(d) == old[d] + live[d]
StoredDays == {d \in Days : stored[d] > 0}
Least(S) == CHOOSE d \in S : \A e \in S : d <= e
Greatest(S) == CHOOSE d \in S : \A e \in S : e <= d
Smaller(m, n) == IF m <= n THEN m ELSE n
Larger(m, n) == IF m >= n THEN m ELSE n

TypeOK ==
    /\ today \in Days
    /\ old \in [Days -> 0..MaxOld] /\ live \in [Days -> 0..MaxPerDay]
    /\ stored \in [Days -> 0..(MaxOld + MaxPerDay)]
    /\ weight \in [Days -> 0..(2 * (MaxOld + MaxPerDay))]
    /\ mark \in -1..LastDay /\ ready \in BOOLEAN /\ up \in BOOLEAN
    /\ thread \in {"off", "indexing", "filling"}
    /\ next \in 0..(LastDay + 1) /\ last \in -1..LastDay
    /\ crashes \in 0..MaxCrashes /\ failures \in 0..MaxFailures

\* The database of an earlier version: positions without rollups, up to Deploy.
Init ==
    /\ today = Deploy
    /\ old \in {o \in [Days -> 0..MaxOld] : \A d \in Days : d > Deploy => o[d] = 0}
    /\ live = [d \in Days |-> 0]
    /\ stored = old
    /\ weight = [d \in Days |-> 0]
    /\ mark = -1 /\ ready = FALSE
    /\ up = FALSE /\ thread = "off" /\ next = 0 /\ last = -1
    /\ crashes = 0 /\ failures = 0

\* main(): the migrations thread is started before the first poll and builds the
\* position indexes first, however long that takes.
Start ==
    /\ ~up
    /\ up' = TRUE
    /\ thread' = "indexing"
    /\ UNCHANGED <<today, old, database, next, last, bounds>>

\* RollupAccumulator.add and flush inside the poll's transaction: a fix of today,
\* or, just after midnight, one of yesterday.
Poll(d) ==
    /\ up
    /\ d \in {today, today - 1} \cap Days
    /\ d >= Deploy
    /\ live[d] < MaxPerDay
    /\ live' = [live EXCEPT ![d] = @ + 1]
    /\ stored' = [stored EXCEPT ![d] = @ + 1]
    /\ weight' = [weight EXCEPT ![d] = @ + 1]
    /\ UNCHANGED <<today, old, mark, ready, up, loop, bounds>>

\* backfill_and_finalize up to the loop: nothing to do, or the range of days.
BackfillSkipped ==
    /\ thread = "indexing"
    /\ ready
    /\ thread' = "off"
    /\ UNCHANGED <<today, old, database, up, next, last, bounds>>

\* Mutant: resumes with the day of the watermark instead of the day after it.
BackfillBeginsAtMark ==
    /\ thread = "indexing"
    /\ ~ready
    /\ thread' = "filling"
    /\ IF StoredDays = {}
         THEN next' = 0 /\ last' = -1
         ELSE /\ last' = Smaller(Greatest(StoredDays), today - 1)
              /\ next' = Larger(Least(StoredDays), mark)
    /\ UNCHANGED <<today, old, database, up, bounds>>

BackfillBegins ==
    /\ thread = "indexing"
    /\ ~ready
    /\ thread' = "filling"
    /\ IF StoredDays = {}
         THEN next' = 0 /\ last' = -1
         ELSE /\ last' = Smaller(Greatest(StoredDays), today - 1)
              /\ next' = IF mark = -1 THEN Least(StoredDays)
                                      ELSE Larger(Least(StoredDays), mark + 1)
    /\ UNCHANGED <<today, old, database, up, bounds>>

\* Mutant: the watermark is not written with the day.
BackfillDayUnmarked ==
    /\ thread = "filling"
    /\ next <= last
    /\ weight' = [weight EXCEPT ![next] = @ + stored[next]]
    /\ next' = next + 1
    /\ UNCHANGED <<today, old, live, stored, mark, ready, up, thread, last, bounds>>

\* One transaction: the day's counts are merged and the watermark moves.
BackfillDay ==
    /\ thread = "filling"
    /\ next <= last
    /\ weight' = [weight EXCEPT ![next] = @ + stored[next]]
    /\ mark' = next
    /\ next' = next + 1
    /\ UNCHANGED <<today, old, live, stored, ready, up, thread, last, bounds>>

\* Mutant: an empty table returns early and leaves rollups_ready unset.
BackfillDoneIfAny ==
    /\ thread = "filling"
    /\ next > last
    /\ ready' = (last >= 0)
    /\ thread' = "off"
    /\ UNCHANGED <<today, old, live, stored, weight, mark, up, next, last, bounds>>

\* Without stored days too: a fresh database is ready at once.
BackfillDone ==
    /\ thread = "filling"
    /\ next > last
    /\ ready' = TRUE
    /\ thread' = "off"
    /\ UNCHANGED <<today, old, live, stored, weight, mark, up, next, last, bounds>>

\* "rollup backfill failed": logged; only the next start tries again.
BackfillFails ==
    /\ thread \in {"indexing", "filling"}
    /\ failures < MaxFailures
    /\ failures' = failures + 1
    /\ thread' = "off"
    /\ UNCHANGED <<today, old, database, up, next, last, crashes>>

Crash ==
    /\ up
    /\ crashes < MaxCrashes
    /\ crashes' = crashes + 1
    /\ up' = FALSE
    /\ thread' = "off"
    /\ UNCHANGED <<today, old, database, next, last, failures>>

\* Mutant: the purge does not wait for rollups_ready.
PurgeAtOnce ==
    /\ up
    /\ Retention > 0
    /\ stored' = [d \in Days |-> IF d < today - Retention THEN 0 ELSE stored[d]]
    /\ UNCHANGED <<today, old, live, weight, mark, ready, up, loop, bounds>>

\* _purge, step 1, as one step: polls on the same thread do not interleave with it,
\* and the thread that could is finished once ready is set.
Purge ==
    /\ up
    /\ Retention > 0
    /\ ready
    /\ stored' = [d \in Days |-> IF d < today - Retention THEN 0 ELSE stored[d]]
    /\ UNCHANGED <<today, old, live, weight, mark, ready, up, loop, bounds>>

Midnight ==
    /\ today < LastDay
    /\ today' = today + 1
    /\ UNCHANGED <<old, database, up, loop, bounds>>

Next ==
    \/ Start
    \/ \E d \in Days : Poll(d)
    \/ BackfillSkipped \/ BackfillBegins \/ BackfillDay \/ BackfillDone \/ BackfillFails
    \/ Crash
    \/ Purge
    \/ Midnight

\* The service is restarted by systemd and its thread runs; nothing obliges it to
\* crash, to fail or to receive fixes.
Spec == Init /\ [][Next]_vars
FairSpec ==
    /\ Spec
    /\ WF_vars(Start)
    /\ WF_vars(BackfillSkipped \/ BackfillBegins \/ BackfillDay \/ BackfillDone)

-----------------------------------------------------------------------------
(* Properties *)

\* No fix is lost from the permanent rollups: a fix that is no longer, or will not
\* be, read again by a backfill is counted.  The fixes recorded on the day of
\* deployment before the restart are the loss the docstring of
\* backfill_and_finalize admits.
NoFixLost == \A d \in Days :
    /\ d # Deploy /\ ready => weight[d] >= Recorded(d)
    /\ d # Deploy /\ stored[d] < Recorded(d) => weight[d] >= Recorded(d)
    /\ weight[d] >= live[d]

\* However often the backfill is interrupted and resumed, no fix is counted more
\* than twice, and one recorded before deployment never more than once.
AtMostTwice == \A d \in Days : weight[d] <= Recorded(d) + live[d]

\* The three together: the permanent counts are neither short of a fix nor inflated
\* beyond the one recount that the resumable backfill cannot avoid.
EveryFixCounted == TypeOK /\ NoFixLost /\ AtMostTwice

\* Docstring of backfill_and_finalize (rollups.py:130-132): the merge double-counts
\* at most the fixes of one poll.
AtMostOnePollTwice == \A d \in Days : weight[d] <= Recorded(d) + 1

\* The rollups become ready, and with them the purge possible, while polls keep
\* writing and in spite of crashes, unless a statement of the thread raises.
EventuallyReady == <>[](ready \/ failures > 0)
=============================================================================
