# readsbstats: models, checks and proofs

TLA+ modules for readsbstats, the program that turns the `aircraft.json` of an
ADS-B receiver into a flight history. They are written from the source (paths below
are relative to `src/readsbstats/` unless they say otherwise) and are checked with
TLC; the safety properties are also proved with TLAPS, in eight modules of proofs.

## 1. The system

| part | state it keeps | operations | talks to |
|---|---|---|---|
| collector (`collector.py`) | `_active`, `_notified_icao`, `_squawk_notified`, the dispatch queue; tables `flights`, `positions`, `active_flights` | one `_poll` per interval in one transaction; `_load_active`, `_load_notified` at start; `_shutdown` at SIGTERM; `_purge` and maintenance once an hour | `aircraft.json` (file), SQLite, the notifier through a queue |
| rollups (`rollups.py`) | `grid_daily` (two scales), `coverage_daily`, two keys of `meta` | accumulate and flush with each poll; one-time backfill in the migrations thread; pruning of the fine scale | the poll's transaction, `_purge` (gate `rollups_ready`), the map |
| database (`database.py`) | schema, background migrations, swap recovery, the legacy layout of `positions` | `init_db`, `ensure_base_schema`, `run_background_migrations` | every process |
| start and stop (`collector.py`, `startup_check.py`, `web.py`) | the dirty sentinel, `quick_check` | check, migrate, poll, clean stop; systemd restarts | the file, the other processes |
| retention and purge scripts (`collector.py`, `scripts/purge_*.py`) | none of their own | delete, repair the aggregates of shortened flights, drop; delete ghosts, blank bad speeds | the tables the polls write |
| dispatch (`collector.py`, `notifier.py`) | bounded queue, daemon thread; the day of the last summary | `_enqueue_alert`, `_notification_consumer`, `_check_daily_summary` | Telegram |
| bot, watchlist, MCP tools (`notifier.py`, `api/watchlist.py`, `mcp_server/`) | table `watchlist`, the offset of the updates, slots of the limiter | list, add, delete; the listener's loop | Telegram, the web API |
| updater (`db_updater.py`) | `aircraft_db`, `airlines`, staging tables | download, fill staging, swap by rename, backfill of flights | the database while others read it |
| airframe enricher (`adsbx_enricher.py`, `enrichment.py`) | `adsbx_overrides`, in-memory look-up caches | poll, upsert, expiry, invalidation | HTTP service |
| route enricher (`route_enricher.py`) | `callsign_routes`, the routes in `flights`, cooldowns in memory | one batch per interval: query, ask, store and apply in one transaction | adsbdb.com, the collector's tables |
| photos (`photo_sources.py`, `api/_photos.py`) | `photos`, `type_photos`, a bounded dictionary of locks | one ladder of sources, run by requests and by the notifier | several HTTP sources |
| receiver metrics and health (`metrics_collector.py`, `health.py`) | `receiver_stats`, the thread's connection and pause | poll, insert, back off, reconnect; judge the rows | `stats.json` (file), the web |
| web (`web.py`, `api/`, `cache.py`) | response cache, per-key locks, prewarmer | read-only queries, writes of watchlist and settings | the committed tables |
| VDL2 ingest (`vdl2_collector.py`, `vdl2/`) | a second database with a search index, a batch buffer, a sentinel file | check, migrate, receive, flush, prune | a UDP feed, the web as a reader |
| VDL2 views (`api/vdl2.py`) | none | block times, positions, rates, series, lists, search | the VDL2 tables |
| frontend, imports, units | none of the server's | | |

Hard behaviours, each at its line, are the `hazards` of `PROJECT.json`. They come
from a few sources: one transaction that changes both a database that rolls back and a
dictionary that does not; process death between the two; statements that commit on
their own where the reader expects a transaction; a second thread or process that writes
the same tables between polls; values read before a lock, a network call or a commit and
used after it; fixes and messages that arrive late or twice.

## 2. The modules

| module | models | depends on |
|---|---|---|
| `Collector` | the flight bookkeeping: `_poll`, `_open_flight`, `_close_flight`, `_load_active`, shutdown, the `primary_source` backfill | |
| `FlightLog` | abstract: what a reader of the committed tables may rely on | |
| `CollectorLog` | the refinement: `Collector` with its `disk` seen as a `FlightLog` | `Collector`, `FlightLog` |
| `Rollups` | the live flush, the backfill, the gate of the purge | |
| `Retention` | `_purge` in its batches, beside polls and purge scripts | |
| `Startup` | sentinel, check, migration of the legacy layout by three processes, kills and power cuts | |
| `Alerts` | the alert decision in the poll, queue, dispatch thread, shutdown | |
| `RouteEnricher` | batches, cooldown, cache and back-filled flights of the route look-up | |
| `RefData` | updater's swap and its recovery, airframe overrides, look-up caches of every process | |
| `Vdl2Ingest` | the VDL2 service: start, batched flush, hiding of covered blocks, pruning, stop, crash | |
| `ResponseCache` | look-up, compute, store, eviction, prewarmer | |
| `MapViews` | the map's answers against polls, purges and prunings | |
| `Vdl2Views` | block times, overlay, rates and series of the VDL2 messages | |
| `Photos`, `DailySummary`, `Watchlist`, `Metrics`, `Tracks` | pictures and their locks; the gate of the summary; writers of the watchlist; metrics thread and health report; what scripts and charts compute over a track | |
| `CollectorProofs`, `RollupsProofs`, `RetentionProofs`, `ThreadProofs`, `RefDataProofs`, `Vdl2Proofs`, `WebProofs`, `ServicesProofs` | the theorems of section 4 | the module of the name (`CollectorProofs`: `CollectorLog`; `ThreadProofs`: `Alerts` and `RouteEnricher`; `Vdl2Proofs`: `Vdl2Ingest` and `Vdl2Views`; `WebProofs`: `ResponseCache` and `MapViews`; `ServicesProofs`: `Startup` and the small modules), `TLAPS` |
| `Option` | `None` | |
| `MC*` | instances for TLC | |

`MCWeb` and `MCServices` put machines that share no state into one run: a variable
`part` says which of them moves while the others rest in one initial state. Their
states add, they do not multiply, and no property speaks of two of them.

### Collector

`db` is what the collector's own connection sees, `disk` what is committed. A poll is
`BeginPoll`, then one step per record and statement group (`Detect`, `OpenFlight`,
`Record`), `EndOfReports`, one `ExpireFlight` per silent aircraft and `Commit`. Any
statement may raise (`PollFails`): `db` returns to `disk`, `_active` does not change,
which is exactly what `with conn:` and the `except` of `main()` do. `Crash` may come
at every point and loses `_active`; `Start` rebuilds it with `_load_active`.
`_close_flight` is one operator, `CloseFlight`, used by the three callers (gap,
expiry, shutdown). A record that validation, the time filter or the ghost filter
skips changes nothing, so it is no step; what those filters admit is in the guards of
`NewAircraft`, `AfterGap` and `SameFlight`.

Two history variables serve the properties only: `dirty` (a poll has raised since the
start) and `cut` (flights open when a process ended).

Abstractions: places are points on a line and the ghost filter compares distances
with speed times time; callsign, squawk, altitude and extents are no part of any
decision modelled here; the purge is `Retention`. Assumptions: the
feed's clock is the wall clock and `seen_pos` is not negative, so a fix is never
from the future; a committed transaction survives (loss of the last transactions at
a power cut under `synchronous=NORMAL` is in `Startup` only).

### FlightLog and CollectorLog

`FlightLog` is the promise to readers: an id is given out once, an open flight only
grows, a flight is either finalised, after which it never changes, or dropped
together with its positions. `CollectorLog` maps `disk` to it. The refinement holds
without database errors (`MayFail = FALSE`); finding 1 is why it cannot with them.

### Rollups

Days are small integers, one grid cell per day. `Init` is the database of an earlier
version with fixes of some days up to the deployment. `Poll` flushes one fix of today
or yesterday; the backfill thread is `BackfillBegins` (the range of days from the
watermark), one `BackfillDay` per transaction, `BackfillDone`. `Purge` waits for
`rollups_ready`. Cells, both scales and the coverage maxima are in `MapViews`.

### Retention

A state is the committed database and a step is one transaction, or one read outside
of a transaction. `_purge` is `DeleteBatch` until nothing is left, then for each
flight that crosses the cutoff a read (`rows`) and, in a later transaction, its repair
(`UpdateCrossing`), `RecountBatch`, `DropFlights`; any commit may be its last. The cleaning
scripts read and write the same way (`Apply...`), so their writes fall between a
purge's read and its repair. Every fix has one number for distance and ground speed.

### Startup

`tables` is the committed file: layout, rows, the spare table, the version. Python's
`sqlite3` opens a transaction for INSERT only, so `DROP`, `CREATE` and `RENAME` of the
rebuild before the copy commit one by one; collector, web server and the migration
script may each be in the middle of it. `durable` is what a power cut cannot take.
The sentinel is a file of its own; the check runs in pieces and may be interrupted,
and `conn.interrupt()` is lost between statements, so a stop asks again.
Assumptions: the file operations on the sentinel succeed and are durable; systemd's
pause before a restart is longer than two DDL statements; `StartLimitBurst` is not
modelled.

### Alerts

Keeps of the flight bookkeeping only what the decision reads: flights, owners and
which flight is open. The alerts of a poll are collected in `pending` and enqueued
after the commit; the queue sheds alerts when full, but the shutdown's sentinel
waits. `given` counts what reached the notifier. Draining and join have a time limit: that a stop leaves
nothing queued is said of a stop whose dispatch thread has ended, not of one that gave up waiting for it.

A poll that raises leaves `_active` ahead of the tables (finding 1), so an id that was
rolled back can be handed out again while an older entry still names it: a flight with two
entries. Two aircraft then share one place in `_squawk_notified`, and the close of one
makes the other's alert possible again. `shared` remembers these flights; `AlertedOnce`
excepts the alerts on them and nothing else, and `NothingSharedAlways` says that there
are none while no poll fails.

### RouteEnricher

`BeginBatch` is the query of `_enrich_batch` and the cooldown test, whose clock is read
once; `Ask` sends one request, and until it is answered the collector opens and closes
flights. `Answer` is one transaction of `_store_route` and `_apply_to_flights`; the
three kinds of failure are actions of their own. Time is what is left of it: days for
cached rows (`Day`), minutes for the cooldown (`Minute`). A route is two sides, each
known or not, because merging them one by one is what the code takes care of.
A reply distinguishes a miss from a route both of whose sides validation removed: the
first replaces the cached row, the second does not.

### RefData

`store` has for each table its base, its new and its old copy, so that a swap or its
recovery can be cut after every statement; `index` says which copy has the index,
which follows a rename. Every process has a program counter: recovery, then its work.
The collector opens flights and looks airframes up in its bounded cache (read, then
put); the web process and the enricher have caches of their own. `Upsert` commits a
poll of the area, `invalidate_adsbx` follows key by key. Flags are present or absent; an explicit 0
of the service is a value like any other, so it replaces flags stored before, and what is never taken back is that a value is known. The updater's unit stops the
collector first and starts it again, however it ended.

### Vdl2Ingest

`db` and `disk` are again the connection's view and the committed tables. A flush is
`Insert`, `Mark`, `Commit`, each of which may raise: `Busy` keeps the buffer, `Poison`
drops it, both roll back. `copies` counts how often a message is in the table, since
nothing in the schema forbids twice. `Prune` works on a second connection and waits
while a flush holds the write lock. The start is `Start`, the check if the sentinel is
there, `Schema`, `Rebuild` if the index is new and rows are old, `Listen`. `given`
holds what was given up (dropped, or in memory at the end of the process). The script
that creates the index table and its triggers is one step; ordinary indexes, added
columns, counters and the watchdog are left out. `line` says that datagrams without a
record arrive, at least one a second: they store nothing, but `recvfrom` does not time
out, so `IdleFlush` needs a line without them and `EmptyDatagram` flushes only a buffer
that is full. Nothing makes `line` come to rest.

### ResponseCache

An answer is the time its data was read. A request looks up, waits for the lock of its
key (`LockOf`: all statistics share one), looks up again, computes and stores; an entry
expires when it is read, and the eviction spares the named targets. The prewarmer takes
the lock of the statistics only, wakes at half the time to live and pauses after a
failure. It is on time: the clock does not pass a moment at which it has something to do.
`last`, a history variable, is when each warm target was last stored. `SingleFlight` uses it to
say what a thundering herd costs: not only that computations under a lock exclude each other, but
that none begins for a target whose last answer still lives, which without the second look-up under
the lock the next in line would.

### MapViews

A poll adds fixes to its transaction and to an accumulator (`Added`, the weights of cells and
the farthest distance by direction), `Commit` upserts both, `Abort` drops both. Beside
it flights close, short ones with their rows, `Maintenance` deletes expired rows and
prunes the fine scale, and a request has taken its cutoff (`Ask`) before its query runs.
A snapshot reads twice, on a connection without a transaction: `AskMap` its aircraft (`seen`),
`TrailOf`, in any later state, their trails. Heatmap, coverage and live list are functions of the tables.

`feed` is the time in `aircraft.json`, which `Written` renews. A fix is compared with it alone
(`Add`), as `_poll` does: a collector that restarts while the file stays as it is reads it again
and may add fixes to a moment long past. A replay is therefore stable once the *file* has left the
moment behind.

One coordinate stands for two; a place determines distance and bearing. What `positions` keeps of
a coordinate is `Decoded` (`enc5`, half to even), what the accumulator adds is the coordinate of the
feed, so the answers for 24 hours and for longer windows may put one fix into different cells, as
`rollups.py:34-37` says; each is compared with its own. `Short` are the edges of cells where the product of floats
falls below the integer and `Bucket` with it.

Assumptions: the fine scale is kept longer than the week it serves (the floor of 8 days in `config.py`: with
7 the run finds a request that loses the week's first day); the window of trails is not
shorter than that of aircraft (the default; the floor of 60 s would show an aircraft
without a trail); the query of a heatmap or of the coverage runs less than a day after its cutoff was
taken and a poll takes less than a tick; the clock of `aircraft.json` is the host's; the
database is fresh, so the rollups are ready.

### Vdl2Views

`messages` is the table, one row per report, in order of arrival; `view` says for which
of the three answers rows arrive. A body is what the parsers find in it. `Summary` is
`_compute_oooi` with its scan of bounded length and early exit (`Scanned`), the phases
put together from Q reports (`DominantPhases`, `Synthesized`) and the route that fills
gaps; `Overlay` is `_compute_positions` with its five capped scans; `Rates`, `Series` count.
A time series is a request of several steps: `AskSeries` reads the total and `ReadOn` the frequencies, the
rate and the columns, each by a SELECT of its own on a connection without a transaction, and messages arrive
and `Expire` deletes in between. `SeriesAddsUp` says what is left of adding up then; the newest
time of the table, which the request also reads, is no part of the sums and left out. The five scans
of the overlay are separate SELECTs in the code as well and one state here: a row committed
between them may be shown as coarse until the next refresh.
The early exit ends the scan once both events and the destination are known; against the scan
of everything it may cost airports only, those that no report of the event names
(`EarlyExitHarmless`, finding 18). What counts add up to is the size of a disjoint union.
Limits found while modelling and left out of the properties, because the code promises
nothing there: an event that a report states outright may be of another leg than the
one synthesised for its other end, and a message of exactly the first second of a rate's
window has no slot.

### Photos, DailySummary, Watchlist, Metrics, Tracks

`Photos`: a row without a picture is a remembered miss. A job reads the tables, asks the chain
of sources (hit, miss or error), then for a type Wikipedia, and writes. Only an error of the chain is a failure: the code
takes an exception of Wikipedia for a miss and stores it (finding 19), and so does `Wiki`; requests for one type take turns
at a lock out of a dictionary with a cap, the notifier takes none. A lock that was released
counts as free until the next waiter has woken, so it may be evicted under the waiter; `lost`
holds the types whose lock was evicted under somebody, and `PicturesShared` excepts them. `DailySummary`: the
gate in memory, its row in `meta` written before the sending, starts that can or cannot
read the row. `Watchlist`: calls of the API, tools that list and then write, and the bot,
whose offset both acknowledges and continues. `Metrics`: the loop with its doubling pauses
and its connection (`PollStats` stores one sample); `Report` is the nine checks of `health.py`
over the stored rows, whose sums are sizes of unions. `Config` are the thresholds, `Readings`
what a sample may say, `Good` the one that stays when nothing is wrong.
`Tracks`: a track grows fix by fix and may be cleaned at any time; `Trusted`, `Ghosts` and the
speed tests are the scripts', `Lttb` is `downsample.py`. What a pass over fixes flags is stated
as the code's loop decides it, without the loop: `Pass` is the set in which a fix is exactly if
it misfits its `Anchor`, the last fix before it outside of the set. An aircraft moves on a line and arithmetic is exact, but for the strides of
a chart, which are `int(k * bucket_size)` in floats: `Below` are the products that fall short of the integer they
are (a float that is no integer is too far from the next one to reach it), and `Skipped` the last inner point, which
is then in no bucket (finding 20).

## 3. The runs

| run | asks | bounds |
|---|---|---|
| `collector_faults` | do the tables stay consistent with each other, and `_active` with them, under failing statements, crashes and stops? | 2 aircraft, 1 place, 2 flight ids, 4 instants, gap 1, 1 late |
| `collector_log` | is every commit a step of `FlightLog`; are tracks flyable and flights split only by silence? | 2 aircraft, 2 places, 2 ids, 5 instants, no errors |
| `collector_phantom` | violated: finding 1 | 1 aircraft, 2 ids |
| `rollups_days` | is every fix counted, none three times, and are the rollups ready in the end? | 4 days, deployed on the second, 2 fixes a day, 1 crash, 1 failure |
| `retention` | are stored maxima never too small, is what the purge shortened repaired, and nothing fresh lost? | 2 flights, 3 instants, values 1 and 2, batches of 1, 1 abort, 1 script |
| `startup` | is a damaged file never written unchecked, is no history lost between three migrating processes, and does everything get ready? | 3 faults, 3 starts of each process |
| `alerts` | is no alert repeated, every queued one given, and does a stop end? | 1 aircraft, 3 ids, 2 starts, queue of 2 |
| `routes` | is a route ever taken back or kept from a flight; is every callsign asked in the end? | 3 flights, 3 callsigns, batches of 2, 1 fault |
| `refdata` | do the reference tables survive every crash, are caches at most one poll behind, is nothing confirmed erased? | 2 airframes, 1 registration, caches of 1, 2 flights, 2 polls, 1 update, 1 crash |
| `vdl2` | is every message stored once or given up, nothing hidden without its text, nothing written unchecked? | 3 messages, 3 instants, batches of 2, 2 pending, 2 faults |
| `web` | one computation at a time and none of what still lives, no stale answer, warm targets warm? Does the map show what was recorded, and is the past stable? | cache: 2 threads, cap 2, 7 instants, 1 failing pass; map: 2 flights, 2 places, 3 fixes, 7 instants, days of 2, a snapshot within an instant, `aircraft.json` at most one old |
| `services` | summary, watchlist, photos, metrics and health, tracks, VDL2 views | summary 3 days, 4 starts; watchlist 2 calls, 2 slots, 2 ids, 1 update, 1 fault; photos 3 types, 2 locks, 2 sources, 4 days, 4 requests; metrics 14 instants, 2 faults; tracks of 5 fixes; VDL2 4 messages (positions and series 3), 1 superseded, in a series 1 arrival and 1 deletion between its SELECTs |

Eight configurations beside them are counterexamples a reader may replay:
`collector_restart`, `rollups_double`, `alerts_realert`, `routes_missing`, `vdl2_search`,
`retention_orphans` and `metrics_reconnect` each show one finding of section 5, and
`alerts_shared` the repeated squawk alert of a flight with two entries; each ends with a
violation. `alerts_two` is the run `alerts` with two aircraft (6.6 million states)
and passes.

A module's type invariant is a conjunct of one of its properties, so a run that checks
the property checks the type: `TypeOK` is in `CountsMatchPositions`,
`EveryFixCounted`, `MessagesAccounted`, `FarCoversFixes`, `HistoryKept`,
`WarmAndFresh` and `LookUpsTrue`, `MapTypeOK` in `MapFaithful`, `ViewsTypeOK` in
`BlockTimesRight`, `AlertsTypeOK` in `AlertedOnce`, `DailyTypeOK` in `SummaryOnTime`, `WatchTypeOK` in
`CallersHeeded`, `PhotosTypeOK` in `PicturesShared`, `MetricsTypeOK` in `OutagesSeenAndOver`, `TracksTypeOK` in
`TracksKept`; of `RouteEnricher` the types of the tables are proved (`Shape`). Several properties are conjunctions of named parts that stand above them in
the module:
`LookUpsTrue` (`TablesSurvive`, `OneUpsertBehind`, `NoBlankWhenKnown`), `MapFaithful`
(`HeatmapFaithful`, `CoverageFaithful`, `TrailEndsAtAircraft`), `BlockTimesRight`
(`EarlyExitHarmless`, `OneLeg`), `CountsAddUp` (`RecentRates`, `SeriesAddsUp`); each part
has a mutant of its own.

### Why the bounds are enough

Two aircraft are the least for an id to pass from one to
the other, and the aircraft are interchangeable, so the symmetry set is sound for the
safety runs that use it (`collector_*`, `refdata`, `web`, `services`; no liveness is checked under
symmetry). Two ids let a rolled
back id be given out again; a gap of one instant with four instants lets a flight
end by a gap, by expiry at exactly the gap and one beyond. `MinKeep` of 2 gives
flights on both sides of it. Two places at a distance of 2 with speed 1 make a jump
admissible after two instants and not after one. A queue of two holds the two alerts
one record can cause, so the sentinel meets a full queue.

In `routes` three callsigns exceed a batch of two while one of them never gets an
answer, and two flights may share a callsign. In `vdl2` three messages are one more
than the buffer may keep after a failed flush and than the oldest the pruning takes at
once; the shorter text is contained in the longer one and not the other way round.

`retention`: with two flights, three instants and a cutoff one instant back, one flight
crosses the cutoff while the other is wholly before it, at it or after it; batches of one
make every statement group a loop; values of 1 and 2 tell a maximum from the rest.
`startup`: three faults are a cut in a run, a cut in the check of the next start and one
in the migration. `refdata`: a cache of one place evicts with the second airframe; a
second poll finds what the first left; one crash may hit any statement of swap or
recovery, and `Init` holds every leftover of an older version, so a swap cut before and a
recovery cut now meet.

`web`: at the cap of two a window's entry evicts with both named ones present; seven
instants outlast a time to live of five and six; with two threads one can wait while the other stores. In the map's part four days hold a week of one, a month of two and
what lies before, three fixes can be two in one cell and one late, and six instants reach
the first pruned day. Coordinates come in twelfths of a degree of which `positions` keeps every third: of the two
places, in one direction, one lies before the edge of a cell and of a direction, beyond which rounding takes it, the
other on an edge where floats fall short (`MCShort`). `MapBounded` bounds two things the module leaves open: a snapshot takes less
than an instant, with all commits that fall into one between its two queries, and `aircraft.json` stays
at most one instant behind, which with `MaxSeen` of one gives fixes older than a fix may be by the clock; the theorems have neither bound. `services`: three types are one more than the dictionary of locks holds; four
messages give two legs of two reports with the next leg's report between them; two instants
of the VDL2 views let each message come before, with or after each other; windows of two buckets, the last one partial or whole, three messages with and without a frequency
of which one is listed, and one arrival and one deletion between any two SELECTs (`SeriesBounded`; without it the run passes
as well, with 1.5 million states). Fourteen instants hold an outage longer than the
longest pause and the return from it. Five fixes make charts of three and of four points, and a
ghost with two neighbours on each side. So few points never meet the rounding of floats: `MCBelow` makes the last
stride of a chart of four out of five fall short, as that of 500 out of 505 does in the code.

`alerts` uses one aircraft, which keeps its liveness check small; the safety property is
checked with two by `alerts_two`, where ids are handed out again and shared, and proved for any number.
`services` assumes that connecting to the database succeeds (`ConnectMayFail = FALSE`);
finding 13 is what happens otherwise.

### Fairness

Safety runs use none. `rollups_days` assumes that systemd restarts the
service (`Restart=` of the unit) and that its thread runs; crashes and failures are
bounded by constants and never forced. `alerts` assumes that the dispatch thread runs
(each HTTP call has a timeout) and that the main thread goes on inside a poll and
inside the shutdown; no fairness for fixes, starts or the operator.

`routes` assumes that the thread runs (each request has a timeout), that both clocks go
on, and that rows, which live for days, do not expire faster than the answerable
callsigns are worked through (guard of `Day`). Its liveness property also needs
that fewer callsigns than fit in a batch fail for ever: `Unavailable` is smaller
than `BatchSize`. The query has no order (`route_enricher.py:288`), so with more of them the
rest may wait as long as they fail. `vdl2` assumes that the main thread goes on: `recvfrom` returns after a second at the
latest, with a datagram or a timeout. That it ever times out is not assumed: `Drained` asks for an empty buffer, in the end, if
the line has come to carry nothing but records, and without that condition only when the buffer is full or the service stops.
`startup` assumes that each process goes on and that systemd restarts the services; a
check ends by itself while no stop is requested, and after that nothing is assumed of how
long it takes, so that the stop has to reach it.

Deadlock is off because a behaviour ends at the last instant or the last id.

## 4. What is proved

All theorems hold for every value of the constants that the modules' named assumptions
admit, so for any number of processes' starts, faults, aircraft, flights and messages.

| module | theorems | what they say |
|---|---|---|
| `CollectorProofs` | `TypeCorrect`, `RowsNameOwnFlightsAlways`, `MemoryMirrorsTableAlways`, `OwnFlightOnlyAlways` | a row of `active_flights` names an existing flight of its own aircraft; until a poll raises, `_active` is `active_flights` with the time of the newest stored fix, and no fix is stored under another aircraft's flight |
| | `CountsMatchPositionsAlways` | the counters of a flight are what its stored fixes add up to, through every failure and restart |
| | `FinishedFlightsFrozenAlways`, `NoOrphanCommittedAlways` | until a poll raises, a finished flight never changes and no commit leaves a flight that nobody will finish |
| | `PlausibleTrackAlways`, `SplitOnlyOnSilenceAlways` | when no statement raises, a track can be flown at the filter's speed from any fix to any later one, and flights are split by silence or the end of a process only |
| | `CollectorImplementsFlightLog` | when no statement raises, the committed tables are a `FlightLog` |
| `RollupsProofs` | `EveryFixCountedAlways` | a fix is in the counts before a purge deletes it and once the rollups are ready, none is there three times |
| `RetentionProofs` | `FarCoversFixesAlways`, `FreshFixesKeptAlways`, `RepairedByPurgeAlways` | no stored distance is too small; no fix from the cutoff on is purged; when the purge comes to drop flights, nothing expired is left and each flight it shortened has the aggregates of the fixes it still has |
| `ServicesProofs` | `HistoryKeptAlways`, `DamageIsCheckedAlways` | the rows stay readable through every step of the rebuild; the collector never writes to a file damaged in one of its runs |
| | `SummaryOnTimeAlways` | no day has two summaries but those with a start that could not read the gate's row, and who polled before the time of a day gives its summary |
| | `CallersHeededAlways` | a delete takes only what its caller found under the value, no entry id is given twice, the tools hold no more slots than there are, and the bot's listener begins no command twice in a life and loses none |
| | `PicturesSharedAlways`, `OutageKeepsPhotosAlways` | one request at a time asks the sources for a type, unless its lock was evicted; a remembered miss hides no picture; a picture goes only in a look-up in which no source of the chain failed, by a request the airframe's only past its time and grace; Wikipedia's failure is not covered, and does remove a type's picture (finding 19) |
| | `OutagesSeenAndOverAlways` | the health report is critical when the receiver has been stuck or without aircraft for too long, and calm once nothing has been wrong for long enough, in every run in which a reconnect succeeds |
| | `TracksKeptAlways` | the ghost script deletes exactly a lone ghost, wherever it stands; a second run of it, or of the one for bad speeds, finds nothing; a chart has the size asked for, the order of time, both ends and a lone spike, but for the one point that rounding may leave out of every bucket (finding 20) |
| `ThreadProofs` | `AlertedOnceAlways`, `NothingSharedAlways` | no first sighting is given twice, no squawk twice in one life of the process, and a stop leaves nothing queued, flights with two entries excepted, of which there are none while no poll fails |
| | `RouteNeverForgottenAlways`, `NoFlightLeftOutAlways` | a known side of a route is never taken back; what a cached row learns, its flights learn in the same step |
| `RefDataProofs` | `ConfirmedKeptAlways`, `LookUpsTrueAlways` | no answer takes back what an earlier one confirmed; the reference tables survive every cut swap and recovery, who is past its start finds them whole, caches are at most one poll behind, and no back-filled flight is blank where a registration is known |
| `Vdl2Proofs` | `MessagesAccountedAlways`, `HiddenIsCoveredAlways`, `NoWriteUncheckedAlways` | every message is in the table once, waits, was given up or expired; a hidden block is covered by a later one; nothing is written before a check after an unclean end |
| | `BlockTimesRightAlways` | the early exit of the block times loses no event, time or destination and changes no airport that a report names; what is put together from Q reports is of one leg |
| | `NewestFixesShownAlways` | the overlay shows each row once and misses none of the newest fixes that its capped scans reach |
| | `CountsAddUpAlways` | the slots of the rates add up to the messages of their window; total, rate and columns of a series, read by separate SELECTs, each count what was there all along once and nothing that never was, the columns of a bucket exceed its rate by no more than the rows that came or went meanwhile, and a frequency left out was no busier than those shown |
| `WebProofs` | `SingleFlightAlways`, `WarmAndFreshAlways` | at most one of threads and prewarmer computes under a lock, and no request begins to compute a warm target whose last answer still lives; no answer is older than its time to live and a computation, and a warm target stays warm while no pass fails or waits, whatever fills the cache |
| | `MapFaithfulAlways`, `ReplayIsStableAlways` | heatmap and coverage of a week and longer show exactly the fixes recorded in the days of their window, whatever aborts, vanishes, is purged or pruned, also under a request, and those of 24 hours none but recorded ones; an aircraft whose row is still there stands at the end of its trail, or before a fix committed between the two queries; once `aircraft.json` has left a moment behind, its replay does not change but for rows no longer stored |

The assumptions on constants, beyond numbers being numbers and `None` being no datum:

- `UpstreamAssumption` of `RefData`: a download holds no row or two and more. The guard
  of the swap compares with `int(prev * 0.8)`, which for one previous row is zero, so with
  a table of one row an empty download would pass; the real tables have thousands.
- `MapViewsAssumption`: the fine scale is kept longer than a week (floor of 8 days), a bearing is in [0, 360)
  (precondition stated at `rollups.py:60`), trails reach back at least as far as aircraft (the default).
- `PaceAssumption` of `ResponseCache`: half a time to live is longer than a pass over each
  of the other warm targets with the pause after it, and one pass more. With the nine
  targets of the code, its pauses of 10 s and the shortest time to live of 300 s that
  allows passes of up to 7 s. A slower host loses the guarantee of `Pace`, not `SingleFlight`
  or the age of answers. `CacheAssumption` has the cap at least as large as the number of warm targets.
- `PhotosAssumption` of `Photos`: the dictionary has room for a lock, and web threads are no bots.
- `Vdl2ViewsAssumption`: a Q report names both airports (its pattern demands them), a text
  that parses as a position matches the scan it came by, and a scan reads at least as many
  rows as positions are shown (`_POS_SCAN_CAP`, `_POS_CAP`).
- `MetricsAssumption`: the sampling interval is shorter than the heartbeat limits, a critical
  heartbeat is due before a gap makes itself felt, the windows are no longer than the
  longest pause and the window of comparison together; all hold of the defaults.
  `GoodAssumption`: a receiver in good order exists, whose reading is within every limit and no
  drop below any other. `OutagesSeenAndOverAlways` has the hypothesis `~ConnectMayFail` (finding 13).
- The theorems about `Collector` whose text says "when no statement raises" have the
  hypothesis `~MayFail`; `collector_phantom` shows that they need it. Crashes,
  restarts and stops are never excluded.

The inductive invariants and why they are needed:

- `Collector`, `IInv`: every id in a table is at most the
  sequence number (so a new id is new); `last` of a flight is the time of one of its
  stored fixes and none is later (so `_load_active` finds the fix it restores); every
  flight except the one just opened has a fix (`NonEmpty`); at rest `db = disk`
  (`Quiet`); the record being processed belongs to the step that is next (`CurOk`) and
  does not precede the last known fix (`InOrder`).
- On top of it, each for one theorem: `Counting` (the counters in both views, and that the
  record being processed is newer than every fix of its flight, so that an insertion
  raises the cardinality by one); `Kept` (what is finished on disk is untouched in the
  open transaction, and a transaction has no orphans the disk has not); `Tracks` (a
  flight's fixes reach each other, and its entry and the record are reached from all of them:
  the filter compares neighbours, and reaching is transitive); `Split` (an unlisted flight
  that was not cut has been silent for the gap); `Lives` (for the refinement: in which of
  the stages of its life a flight is on disk, and what the open transaction has done with it).
- `Rollups`, `TypeOK /\ Progress`: watermark and position of the thread say of each day
  whether its old fixes are counted, and bound its counts from both sides.
- `Retention`, `RInv`: `Bookkeeping` (ids not yet given out have no row), `Snapshot` (what the
  purge read of a crossing flight holds every fix that is still stored, with its distance,
  whatever a script deleted meanwhile) and `Covers` (a row reaches as far as its fixes).
  `Progress` for the loop over crossing flights: past the deletion nothing is expired, a flight
  that crosses is exact or still to be repaired, and what was read is what is stored.
- `Startup`, `SInv` with `Layouts` (the file, what a cut would leave of it and the backup each
  hold rows in the format they say; who stamps the version has rebuilt the table) and, separately, `Gate`
  (the sentinel is there while the collector runs and after damage in its runs, and a check
  that passed excludes such damage).
- `ResponseCache`, `CacheInv`: `Jobs` (who computes holds the lock of its key), `Passes`
  (passes and pauses last as long as they may), `Entries` (a key has one entry, stored soon after its data was
  read; so by counting a full cache holds a key that is no warm target, which is what the
  eviction needs) and `Pace`: a warm entry expires no sooner than the prewarmer can be
  through with whatever is due before it. This is the argument of a schedulability test: a target
  waits for the pass in progress and for those with an earlier time, each of which is
  then due half a time to live later and cannot come before it again.
  Beside it `Remembered`: the last answer to a warm target is in the cache for as long as it lives, because
  nothing but its expiry or a newer one takes it out.
- `MapViews`, `MapInv`: `RecordsOk` (a fix of a poll is later than those of its flight, no two fixes of a flight
  have one time, a poll holds nothing older than the file by more than `MaxSeen`), `RollupsOk` (the accumulator counts
  the open poll; the tables count all that was ever committed, a fine day only as long as no
  pruning can have reached it) and `AskedOk` (a request is younger than a day, which is why a
  week's first day is still in the grid). A sum of weights is the size of a disjoint union, so that
  what a `GROUP BY` adds up is a bijection and no recursion.
- `Alerts`, `AlertsInv`: a first sighting that is on its way or was given has its flight in the
  tables, for the next start, and its aircraft in `_notified_icao` (`FirstsOk`); a squawk
  given in this life has its flight in `_squawk_notified`, or no entry names that flight any more
  (`SquawksOk`); an entry that names another's flight is of a shared one (`EntriesOk`); no two
  alerts on their way are the same (`Apart`), none was given before (`NotYetGiven`), and the sentinel
  is last (`EndOk`).
- `RefData`, `Typed` for single steps; `TablesInv` (each table's rows are in one of its three copies; a plan
  of recovery made from a reading still fits what it will find; the index is on a copy
  that becomes the table) and `CacheInv` (an entry is what the table says or said before the
  last poll, and then waits for its invalidation).
- `RouteEnricher`, `Shape`: the types suffice; the theorems are about single steps.
- `Vdl2Ingest`, `VInv`: beside `MessagesAccounted`, `Contents` (buffer, connection's view and
  committed table agree about which messages there are) and `Gate` (while the file is suspect the sentinel is there and the process is down or checking).

- `Vdl2Views`, `ViewsInv`: what arrived is in the table, typed, and each SELECT of a request has found what was there
  from its start to now and nothing that arrived or was deleted outside of it (`ReadsInv`). The theorems are about functions of
  it: that a scan cut short sees all that decides, that dominant phases come from one
  report set, that a rank by busyness is a strict order with a least element.
- `DailySummary`, `DailyInv`: beside the property, `NothingAhead`: gate, row and summaries are of
  no later day, the day's only once it is due, and a sending behind an open gate is one of a
  start that could not read.
- `Watchlist`, `WatchInv`: entries have values and ids once each and below `lastId` (`EntriesOK`), a call
  holds what the table held (`CallsOK`), and the listener's batch continues what was begun (`ListenerOK`, `BotOK`).
- `Photos`, `PhotoInv`: who asks the sources for a type holds the lock that the dictionary has for it,
  or the type is lost (`LocksOK`); a look-up remembers whether a source of the chain failed (`FailuresKept`). The
  ids of locks are enough for the dictionary and all requests, so a new one is unused.
- `Metrics`, `MetricsInv`: since something was last wrong the figures are fresh and good, and either the
  thread has not woken since or it has stored one of them, which bounds its pause by the interval.
- `Tracks`, `TracksInv`: the type invariant and `PurgedClean`; the rest follows from the types. That a
  pass has an outcome (`PassIs`), that who was kept fits who was kept before (`KeptFit`), that the
  strides of the buckets are strictly increasing (`StridesAre`) and that the recursion over the buckets has a
  solution (`PicksIs`) are lemmas; each replaces an induction by the first case that would fail.

Each action has a lemma and one step lemma puts them together; every invariant was
checked with TLC before it was proved. `OwnFlightOnly` speaks of insertions: positions that
reappear in `db` because a rollback restores `disk` are not insertions. Where an induction over
naturals was needed (the first entry of a cache, the first of a ranking), it comes from the
well-foundedness of finite sets under inclusion (`LeastElement`, `FirstOf`).

Only model-checked are the liveness properties (`EventuallyReady`, `QueuedIsGiven`,
`EventuallyLookedUp`, `Drained`): liveness and `ENABLED`, induction over data and recursive operators are
outside what TLAPS can do here; the modules with theorems use none.

## 5. Findings

What the code does and a comment, docstring or document denies. The first has a
run; a configuration or a named operator states each of the others that is a matter of
behaviour.

1. `collector_phantom`: a poll that raises after `_open_flight` leaves its entry in
   `_active`, naming a flight that was rolled back. By the same cause a poll that raises
   keeps the aircraft in `_notified_icao` although its alert was dropped.
2. `collector_restart`: `active_flights.last_seen` is written when a flight is opened
   only, so a restart splits a flight older than the gap without any silence.
3. `rollups_double`: a backfill that reaches or resumes on a later day counts whole
   days twice, not the one fix its docstring admits.
4. `alerts_realert`: a restart forgets `_squawk_notified`.
5. `routes_missing`: a flight whose callsign is cached when it is opened gets no
   route until the cached row expires; only a fetch writes routes to flights.
6. `vdl2_search`: a start that ends between the creation of the VDL2 search index and
   its rebuild (`vdl2/db.py:251`) leaves the old rows out of every later search.
7. `retention_orphans`: `purge_mlat_gs_spikes.py:218` writes maxima computed while
   scanning, over what the collector raised since.
8. `cache.py:41` calls filtered statistics lock-free; they take the lock.
9. `photo_sources.py:634`: a miss overwrites a picture stored meanwhile
   (`Photos.FreshPhotoKept`).
10. `api/_photos.py:80`: when all locks are held the newcomer's own is evicted, and two
    requests for its type ask at once; so does the next request when the lock is evicted
    between its release and the waking of the waiter (`_photos.py:72` asks `locked()` only).
11. `collector.py:1328`: a start that cannot read the row of `meta` sends the summary again.
12. `mcp_server/server.py:449`: two writers at once go past the limit of the watchlist
    (`Watchlist.AdditionsStop`).
13. `metrics_reconnect`: a reconnect that fails leaves the closed connection in place,
    and no sample is stored until a restart (`metrics_collector.py:257`).
14. `purge_mlat_gs_spikes.py:195` is not idempotent (`Tracks.SpikesClean`).
15. `db_updater.py:245`: `clear_cache` empties the caches of the updater's own process;
    the web process keeps its own (`RefData.AirlineFresh`).
16. `database.py:907`: the web process migrates a file nobody has checked, against
    ADR 0007 (`Startup.MigratesOnlyChecked`).
17. `collector.py:392`: ids of positions are given out again after a short flight is
    dropped, which `database.py:205-206` excludes. Nothing modelled relies on it.
18. `api/vdl2.py:563`: the scan for block times ends once slash-TEI reports gave both events and
    the destination, whatever routes it has met, so a newer label-49 route is returned where the
    docstring prefers an older CM logon.
19. `photo_sources.py:661`: an exception of Wikipedia does not set `chain_errored`, so a miss is
    written over an older picture of the type, while the comment at 585-588 says that no flaky source
    poisons the cache. `OutageKeepsPhotos` speaks of the sources of the chain.
20. `downsample.py:42`: the last stride may fall short of its integer in floats, so that the last inner
    point is in no bucket: 505 fixes and 500 points (the default of the charts), 66 and 51. A lone spike there is
    lost, where `tests/test_downsample.py:72-73` says a spike is picked in whichever bucket it lands (`Tracks.Skipped`).
21. `vdl2_collector.py:297`: datagrams that carry no record keep the idle flush from happening, although the
    comment at line 53 calls the timeout its cadence; up to 49 rows wait until 50 are buffered or the service stops.

## 6. Plan

Every safety property that a passing run checks is proved. Models to add: `Collector` and
`Retention` in one composition, with `FlightLog` extended by the purge, whose refinement would then
cover a flight's whole life; the list and search queries of the VDL2 API; the queries of the statistics.

## 7. Not modelled, and why

- The parsers of VDL2 message texts (`vdl2/normalize.py`, `oooi.py`, `adsc.py` and others):
  functions of one string, tested value by value; what is made of their results is `Vdl2Views`.
- Lists, search and signal statistics of the VDL2 API, flight lists, airspace, feeders
  and the statistics pages: single queries over committed tables; what they rely on is `FlightLog`.
- `http_safe.py`: no state between calls. `config.py`, `schemas.py`: constants and types.
- MCP tools that read, tokens and rates: the tools shape answers of the API; the limiter's
  slots are in `Watchlist`.
- The frontend has state of its own only. Imports and installation run with the services
  stopped.
- SQLite itself is modelled by its transactions, its foreign keys, its id sequence and, in
  `Startup`, its autocommit of DDL and the checkpoint; busy timeouts appear as statements that raise.
