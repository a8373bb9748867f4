----------------------------- MODULE MapViews -----------------------------
(***************************************************************************)
(* What the map shows of the recorded fixes: the heatmap and the coverage   *)
(* polygon of a window, read from positions or from the daily rollups, the  *)
(* snapshot of a moment with its trails, and the live list.                 *)
(*                                                                          *)
(* The collector accumulates the rollups of a poll beside the rows it       *)
(* inserts (rollups.py), purges old rows and prunes the fine grid once an   *)
(* hour; requests compute their cutoff first and read the tables later, and *)
(* a snapshot reads them twice.  The collector compares a fix with the time *)
(* of aircraft.json alone: it also reads a file that is long out of date,   *)
(* once more after each of its restarts.                                    *)
(*                                                                          *)
(* Abstracted: one coordinate instead of two; a place determines distance   *)
(* and bearing; a flight stands for its aircraft; the clock of              *)
(* aircraft.json is the host's; the database is fresh, so the rollups are   *)
(* ready (the backfill is Rollups).                                         *)
(***************************************************************************)
EXTENDS Integers, FiniteSetsExt

CONSTANTS
    Flights,          \* ids of flights
    Places,           \* coordinates in the feed, Unit to the degree
    Step,             \* Step of these to the unit of posenc.enc5
    Short,            \* coordinates at a cell's edge that floats put below it, by scale
    Unit, Fine, Coarse, \* cells to the degree at the two scales
    DistNm,           \* DistNm[p]: distance of a coordinate from the receiver
    Bearing,          \* Bearing[p]: tenths of a degree, Circle to the circle
    Circle, BucketDeg, \* degrees of the circle; degrees of a display bucket
    Day,              \* 86400
    Week, Month,      \* days of the windows "7d" and "30d"
    FineRetention,    \* GRID_FINE_RETENTION_DAYS
    Retention,        \* RETENTION_DAYS
    FlightGap, MinKeep, MaxSeen, \* FLIGHT_GAP_SEC, MIN_POSITIONS_KEEP, MAX_SEEN_POS_SEC
    MapWindow,        \* _MAP_WINDOW_SEC
    TrailWindow,      \* MAP_TRAIL_WINDOW_SECONDS
    History,          \* MAP_HISTORY_HOURS
    LiveSlack,        \* how far from now a snapshot still counts as live (30 s)
    Lead,            \* how far in the future one may be asked for (60 s)
    Trail,            \* trail positions asked for
    LastMoment,       \* bound: the clock
    MaxFixes          \* bound: fixes recorded

\* config.py's floor of 8 days keeps a day more than the week; TrailWindow is the
\* default's: the floor of 60 s would allow an aircraft without a trail.  A bearing is
\* in [0, 360) (rollups.py:60).
Scales == {Fine, Coarse}

\* enc5, half to even, and its inverse: what positions keeps of a coordinate.
Decoded(p) ==
    LET low == p \div Step
        rest == 2 * (p % Step)
    IN  Step * (IF rest < Step \/ (rest = Step /\ low % 2 = 0) THEN low ELSE low + 1)

Coordinates == Places \cup {Decoded(p) : p \in Places}

ASSUME MapViewsAssumption ==
    /\ {Unit, Step, Fine, Coarse, Circle, BucketDeg, Day, Trail} \subseteq Nat \ {0} /\ Fine # Coarse
    /\ {Week, Month, FineRetention, Retention} \subseteq Nat /\ Month > Week /\ FineRetention > Week
    /\ {FlightGap, MinKeep, MaxSeen, History, LiveSlack, Lead, LastMoment, MaxFixes} \subseteq Nat
    /\ {MapWindow, TrailWindow} \subseteq Nat /\ TrailWindow >= MapWindow
    /\ Places \subseteq Int /\ Short \subseteq Int \X Scales
    /\ DistNm \in [Coordinates -> Nat] /\ Bearing \in [Coordinates -> 0..(10 * Circle - 1)]

VARIABLES
    now,
    feed,        \* the time "now" of aircraft.json
    recorded,    \* every fix ever committed (history)
    positions,   \* the rows of positions
    active,      \* active_flights
    poll, acc,   \* the open transaction of a poll: its fixes, its accumulator
    grid,        \* grid_daily: the weight of scale, day and cell
    coverage,    \* coverage_daily: the maximum of its days and degrees
    asked, askedAt, \* a request: for a window, with its cutoff's base, or for a moment
    seen         \* the rows of positions when the snapshot read its aircraft

stored == <<recorded, positions, active, grid, coverage>>
request == <<asked, askedAt, seen>>
mapVars == <<now, feed, stored, poll, acc, request>>

Top(S) == Max(S \cup {0})
DayOf(t) == t \div Day
Days == 0..DayOf(LastMoment)
Degrees == 0..(Circle - 1)
NoRequest == "none"
HeatmapWindows == {"24h", "7d", "30d", "all"}
Snapshots == {"live", "replay"}

\* Half-up: FLOOR(value * scale + 0.5), the product a float: that of a value at an
\* edge may fall short of it (81.865 * 100 < 8186.5).
BucketTruncated(v, scale) == (v * scale) \div Unit
Bucket(v, scale) ==
    LET twice == 2 * v * scale + Unit
        edge == twice % (2 * Unit) = 0
    IN  IF edge /\ <<v, scale>> \in Short THEN (twice \div (2 * Unit)) - 1 ELSE twice \div (2 * Unit)

Cells == {Bucket(p, s) : p \in Coordinates, s \in Scales}
GridKeys == Scales \X Days \X Cells
NoCounts == [grid |-> <<>>, cov |-> <<>>]
Get(counts, key) == IF key \in DOMAIN counts THEN counts[key] ELSE 0

MapTypeOK ==
    /\ now \in 0..LastMoment /\ feed \in 0..now
    /\ recorded \subseteq [ts : 0..LastMoment, flight : Flights, place : Places]
    /\ positions \subseteq recorded /\ seen \subseteq recorded
    /\ active \subseteq Flights
    /\ grid \in [DOMAIN grid -> Nat \ {0}] /\ DOMAIN grid \subseteq GridKeys /\ DOMAIN coverage \subseteq Days \X Degrees
    /\ asked \in {NoRequest} \cup HeatmapWindows \cup Snapshots /\ askedAt \in 0..(LastMoment + Lead)

MapInit ==
    /\ now = 0 /\ feed = 0
    /\ recorded = {} /\ positions = {} /\ active = {}
    /\ poll = {} /\ acc = NoCounts
    /\ grid = NoCounts.grid /\ coverage = NoCounts.cov
    /\ asked = NoRequest /\ askedAt = 0 /\ seen = {}

-----------------------------------------------------------------------------
(* The collector *)

FixesOf(f, fixes) == {x \in fixes : x.flight = f}
LastSeen(f) == Max({x.ts : x \in FixesOf(f, recorded)})

CellsOf(fix) == {<<s, DayOf(fix.ts), Bucket(fix.place, s)>> : s \in Scales}
Plus(counts, fix) == [k \in DOMAIN counts \cup CellsOf(fix) |->
    Get(counts, k) + (IF k \in CellsOf(fix) THEN 1 ELSE 0)]

\* Mutant: the first fix of a direction stays.
AddedFirst(a, fix) ==
    LET day == DayOf(fix.ts)
        key == <<day, (Bearing[fix.place] \div 10) % Circle>>
    IN  [grid |-> Plus(a.grid, fix),
         cov |-> [k \in DOMAIN a.cov \cup {key} |-> IF k \in DOMAIN a.cov THEN a.cov[k] ELSE DistNm[fix.place]]]

\* RollupAccumulator.add
Added(a, fix) ==
    LET day == DayOf(fix.ts)
        key == <<day, (Bearing[fix.place] \div 10) % Circle>>
        farther == DistNm[fix.place] > Get(a.cov, key)
    IN  [grid |-> Plus(a.grid, fix),
         cov |-> IF farther THEN [k \in DOMAIN a.cov \cup {key} |-> IF k = key THEN DistNm[fix.place] ELSE a.cov[k]]
                            ELSE a.cov]

\* Mutant: a stale seen_pos is not skipped.
AddStale(f, p, t) ==
    /\ Cardinality(recorded \cup poll) < MaxFixes
    /\ FixesOf(f, poll) = {}
    /\ t <= feed
    /\ IF f \in active
         THEN t > LastSeen(f) /\ t - LastSeen(f) <= FlightGap
         ELSE FixesOf(f, recorded) = {}
    /\ poll' = poll \cup {[ts |-> t, flight |-> f, place |-> p]}
    /\ acc' = Added(acc, [ts |-> t, flight |-> f, place |-> p])
    /\ UNCHANGED <<now, feed, stored, request>>

\* One aircraft of a poll: a fix seen at t, of a flight that continues or is new.
\* Whether the file is new is not asked: its time was forgotten by a restart.
Add(f, p, t) ==
    /\ Cardinality(recorded \cup poll) < MaxFixes
    /\ FixesOf(f, poll) = {}
    /\ t <= feed /\ feed - t <= MaxSeen
    /\ IF f \in active
         THEN t > LastSeen(f) /\ t - LastSeen(f) <= FlightGap
         ELSE FixesOf(f, recorded) = {}
    /\ poll' = poll \cup {[ts |-> t, flight |-> f, place |-> p]}
    /\ acc' = Added(acc, [ts |-> t, flight |-> f, place |-> p])
    /\ UNCHANGED <<now, feed, stored, request>>

\* readsb writes aircraft.json.
Written ==
    /\ poll = {} /\ feed < now /\ feed' = now
    /\ UNCHANGED <<now, stored, poll, acc, request>>

\* Mutant: the upsert of the coverage replaces the row.
FlushOverwrites ==
    /\ grid' = [k \in DOMAIN grid \cup DOMAIN acc.grid |-> Get(grid, k) + Get(acc.grid, k)]
    /\ coverage' = [k \in DOMAIN coverage \cup DOMAIN acc.cov |-> IF k \in DOMAIN acc.cov THEN acc.cov[k] ELSE coverage[k]]

\* rollups.flush: the upserts, without clearing the accumulator.
Flush ==
    /\ grid' = [k \in DOMAIN grid \cup DOMAIN acc.grid |-> Get(grid, k) + Get(acc.grid, k)]
    /\ coverage' = [k \in DOMAIN coverage \cup DOMAIN acc.cov |-> Max({Get(coverage, k), Get(acc.cov, k)})]

\* The end of the poll: rows and rollups in one transaction.
Commit ==
    /\ poll # {}
    /\ recorded' = recorded \cup poll
    /\ positions' = positions \cup poll
    /\ active' = active \cup {x.flight : x \in poll}
    /\ Flush
    /\ poll' = {} /\ acc' = NoCounts
    /\ UNCHANGED <<now, feed, request>>

\* Mutant: the accumulator is shared by the polls.
AbortKeepsCounts ==
    /\ poll # {}
    /\ poll' = {}
    /\ UNCHANGED <<now, feed, stored, acc, request>>

\* A statement of the poll raises, or the process ends: rolled back, and the next poll
\* starts with an accumulator of its own.
Abort ==
    /\ poll # {}
    /\ poll' = {} /\ acc' = NoCounts
    /\ UNCHANGED <<now, feed, stored, request>>

\* _close_flight of a silent flight, as a poll of its own: one with too few fixes is deleted with its
\* rows unless it is flagged; the rollups keep its counts.
Close(f, flagged) ==
    /\ f \in active
    /\ poll = {}
    /\ now - LastSeen(f) > FlightGap
    /\ active' = active \ {f}
    /\ positions' = IF Cardinality(FixesOf(f, recorded)) < MinKeep /\ ~flagged
                      THEN positions \ FixesOf(f, positions)
                      ELSE positions
    /\ UNCHANGED <<now, feed, recorded, grid, coverage, poll, acc, request>>

ExpiredRows == {x \in positions : Retention > 0 /\ x.ts < now - Retention * Day}

\* Mutant: both scales are pruned.
PrunedBoth == [k \in {k \in DOMAIN grid : k[2] >= DayOf(now) - Max({1, FineRetention})} |-> grid[k]]

\* rollups.prune_fine; the coarse rows are permanent.
Pruned ==
    LET kept == {k \in DOMAIN grid : k[1] = Fine => k[2] >= DayOf(now) - Max({1, FineRetention})}
    IN  [k \in kept |-> grid[k]]

\* _run_maintenance: expired rows go in batches that commit on their own, the fine
\* grid is pruned after the last of them; a failure ends it in between.
Maintenance(gone) ==
    /\ poll = {}
    /\ gone \subseteq ExpiredRows
    /\ positions' = positions \ gone
    /\ \/ gone = ExpiredRows /\ grid' = Pruned
       \/ UNCHANGED grid
    /\ UNCHANGED <<now, feed, recorded, active, coverage, poll, acc, request>>

-----------------------------------------------------------------------------
(* The requests *)

\* _HEATMAP_WINDOWS and _HEATMAP_PRECISION
WindowDays == [w \in {"24h", "7d", "30d"} |-> CASE w = "24h" -> 1 [] w = "7d" -> Week [] w = "30d" -> Month]
Scale(w) == IF w \in {"24h", "7d"} THEN Fine ELSE Coarse
Cutoff(w) == askedAt - WindowDays[w] * Day
FirstDay(w) == IF w = "all" THEN 0 ELSE DayOf(Cutoff(w))

\* The cutoff is taken before the query runs.
Ask(w) ==
    /\ asked = NoRequest
    /\ asked' = w /\ askedAt' = now /\ seen' = {}
    /\ UNCHANGED <<now, feed, stored, poll, acc>>

Moments == {at \in 0..(now + Lead) : at >= now - History}

\* api_map_snapshot reads its aircraft, and later (TrailOf) their trails.
AskMap(at) ==
    /\ asked = NoRequest
    /\ asked' = IF now - at <= LiveSlack /\ at - now <= LiveSlack THEN "live" ELSE "replay"
    /\ askedAt' = at /\ seen' = positions
    /\ UNCHANGED <<now, feed, stored, poll, acc>>

Answered ==
    /\ asked # NoRequest
    /\ asked' = NoRequest /\ askedAt' = 0 /\ seen' = {}
    /\ UNCHANGED <<now, feed, stored, poll, acc>>

\* The days the rollups are read from.
DaysOf(w) == {d \in Days : d >= FirstDay(w)}
\* SUM(weight): a row stands for as many fixes of its day and cell as it says.
WeightOf(scale, days, c) == Cardinality(UNION {{d} \X (1..Get(grid, <<scale, d, c>>)) : d \in days})

\* The window of a day, by the coordinates that positions keeps.
RawRows(w) == {x \in positions : x.ts > Cutoff(w)}

\* Mutant: the day of the cutoff is left out.
HeatmapAfter(w) == [c \in Cells |->
    IF w = "24h"
      THEN Cardinality({x \in RawRows(w) : Bucket(Decoded(x.place), Scale(w)) = c})
      ELSE WeightOf(Scale(w), DaysOf(w) \ {FirstDay(w)}, c)]

\* _compute_heatmap_sync: weight by cell.
Heatmap(w) == [c \in Cells |->
    IF w = "24h"
      THEN Cardinality({x \in RawRows(w) : Bucket(Decoded(x.place), Scale(w)) = c})
      ELSE WeightOf(Scale(w), DaysOf(w), c)]

Buckets == {d \div BucketDeg : d \in Degrees}

\* _compute_coverage_sync: maximum by display bucket, from the rows or from the
\* rollups.
Coverage(w) == [b \in Buckets |->
    IF w = "24h"
      THEN Top({DistNm[Decoded(x.place)] : x \in {x \in RawRows(w) :
                (Bearing[Decoded(x.place)] \div (10 * BucketDeg)) % Cardinality(Buckets) = b}})
      ELSE Top({Get(coverage, k) : k \in DaysOf(w) \X {d \in Degrees : d \div BucketDeg = b}})]

Newest(fixes) == CHOOSE x \in fixes : \A y \in fixes : y.ts <= x.ts

\* The aircraft of a snapshot: the newest fix of every flight heard of shortly before.
Recent(f, rows, at) == {x \in FixesOf(f, rows) : at - MapWindow <= x.ts /\ x.ts <= at}
Shown(rows, at) == {Newest(Recent(f, rows, at)) : f \in {f \in Flights : Recent(f, rows, at) # {}}}

\* Mutant: the trail of a replay runs on to the present.
TrailToNow(f) ==
    LET reach == {x \in FixesOf(f, positions) : asked = "live" => x.ts >= askedAt - TrailWindow}
    IN  {x \in reach : Cardinality({y \in reach : y.ts > x.ts}) < Trail}

\* Its trail, read later: the last fixes up to the moment, of a live view within the
\* trail's window.
TrailOf(f) ==
    LET reach == {x \in FixesOf(f, positions) :
                    x.ts <= askedAt /\ (asked = "live" => x.ts >= askedAt - TrailWindow)}
    IN  {x \in reach : Cardinality({y \in reach : y.ts > x.ts}) < Trail}

\* api_live: the newest fix of an active flight, a set of one or none.
LiveFix(f) == {x \in FixesOf(f, positions) : \A y \in FixesOf(f, positions) : y.ts <= x.ts}

-----------------------------------------------------------------------------
\* A poll takes less than a unit of the clock, a request less than a day.
TimePasses ==
    /\ now < LastMoment
    /\ poll = {}
    /\ asked \in HeatmapWindows => now + 1 - askedAt < Day
    /\ now' = now + 1
    /\ UNCHANGED <<feed, stored, poll, acc, request>>

MapNext ==
    \/ \E f \in Flights, p \in Places, t \in 0..LastMoment : Add(f, p, t)
    \/ Written
    \/ Commit
    \/ Abort
    \/ \E f \in Flights, flagged \in BOOLEAN : Close(f, flagged)
    \/ \E gone \in SUBSET ExpiredRows : Maintenance(gone)
    \/ \E w \in HeatmapWindows : Ask(w)
    \/ \E at \in Moments : AskMap(at)
    \/ Answered
    \/ TimePasses

MapSpec == MapInit /\ [][MapNext]_mapVars

-----------------------------------------------------------------------------
(* Properties *)

\* A cell whose centre is nearest to a coordinate, or nearer by slack than one that is.
NearestCell(p, s, c, slack) ==
    2 * p * s - Unit - slack <= 2 * c * Unit /\ 2 * c * Unit <= 2 * p * s + Unit + slack
InWindow(w) == {x \in recorded : DayOf(x.ts) >= FirstDay(w)}

\* However polls abort, short flights vanish and rows are purged and the grid is
\* pruned, also between the cutoff and the query of a request: the heatmap of a week,
\* of a month and of all time counts each fix recorded in the days of the window once,
\* in a cell nearest to it, and no other; that of a day counts none that was not
\* recorded, in a cell that may be half a stored unit less near (rollups.py:3-9 and
\* 34-37, config.py:173-175).
HeatmapFaithful == MapTypeOK /\ (asked \in HeatmapWindows =>
    /\ \A c \in Cells :
         IF asked = "24h"
           THEN Heatmap(asked)[c] <= Cardinality({x \in InWindow(asked) : Bucket(Decoded(x.place), Fine) = c})
           ELSE Heatmap(asked)[c] = Cardinality({x \in InWindow(asked) : Bucket(x.place, Scale(asked)) = c})
    /\ \A x \in InWindow(asked) :
         IF asked = "24h"
           THEN NearestCell(x.place, Fine, Bucket(Decoded(x.place), Fine), Step * Fine)
           ELSE NearestCell(x.place, Scale(asked), Bucket(x.place, Scale(asked)), 0))

\* The polygon's bucket is as far as the farthest fix recorded in that direction in
\* the days of the window, whatever was purged since; that of a day is as far as a
\* stored fix of the day, and no farther than one recorded, by the coordinates that
\* positions keeps (api/map.py:123-133).
CoverageFaithful == asked \in HeatmapWindows => \A b \in Buckets :
    LET there == {x \in InWindow(asked) : Bearing[x.place] \div (10 * BucketDeg) = b}
        near == {x \in InWindow(asked) : Bearing[Decoded(x.place)] \div (10 * BucketDeg) = b}
        day == {x \in near \cap positions : x.ts > askedAt - Day}
    IN  IF asked = "24h"
          THEN /\ Coverage(asked)[b] >= Top({DistNm[Decoded(x.place)] : x \in day})
               /\ Coverage(asked)[b] <= Top({DistNm[Decoded(x.place)] : x \in near})
          ELSE Coverage(asked)[b] = Top({DistNm[x.place] : x \in there})

\* An aircraft on the map stands at the end of its trail, now and in a replay: while its
\* row is stored the trail ends there, or at a later fix that was committed after the
\* aircraft were read.  The live list has an active flight at the same place.
TrailEndsAtAircraft ==
    /\ asked \in Snapshots => \A x \in Shown(seen, askedAt) \cap positions :
         LET end == Newest(TrailOf(x.flight))
         IN  TrailOf(x.flight) # {} /\ end.ts <= askedAt
             /\ (end = x \/ (end \in positions \ seen /\ end.ts > x.ts))
    /\ \A x \in Shown(positions, now) : x.flight \in active => LiveFix(x.flight) = {x}

\* What the map shows is what was recorded: counts, extent and places.
MapFaithful == HeatmapFaithful /\ CoverageFaithful /\ TrailEndsAtAircraft

\* The past does not change: once aircraft.json has left a moment behind, the replay of
\* the moment shows an aircraft where it showed it before, or misses a row that is no
\* longer stored.  (A file that stays, read again by a restarted collector, may still
\* add to the moments it is about.)
ReplayIsStable == [][positions' # positions => \A at \in Moments' : at < feed - MaxSeen =>
    \A x \in Shown(positions', at) : x \in Shown(positions, at)
        \/ \E y \in Shown(positions, at) : y.flight = x.flight /\ y \notin positions']_positions
=============================================================================
