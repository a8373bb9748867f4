----------------------------- MODULE Collector -----------------------------
(***************************************************************************)
(* The flight bookkeeping of the collector daemon (collector.py): how the  *)
(* fixes of successive polls become rows of flights, positions and         *)
(* active_flights, how the in-memory dictionary _active follows them, and  *)
(* what a failing poll, a crash, a restart and a graceful stop do to both. *)
(*                                                                         *)
(* db is the database as the collector's own connection sees it, with the  *)
(* writes of the transaction in progress; disk is what is committed: what  *)
(* every reader sees and what survives a crash.  They differ only inside   *)
(* the `with conn:` block of a poll or of the shutdown.                    *)
(*                                                                         *)
(* Abstracted: a fix is an aircraft, a time, a point on a line and a       *)
(* source class; callsigns, altitudes, ground speed and rollups are left   *)
(* to other modules.  A record that validation skips is no step at all.    *)
(***************************************************************************)
EXTENDS Integers, FiniteSets

CONSTANTS
    Aircraft,    \* the ICAO addresses in the feed
    Places,      \* where an aircraft can be: points of a line
    Sources,     \* source classes of a fix: "adsb", "mlat", "other"
    None,        \* SQL NULL, Python None, no such row
    Gap,         \* FLIGHT_GAP_SEC
    MaxSeen,     \* MAX_SEEN_POS_SEC: the oldest fix a poll accepts
    MinKeep,     \* MIN_POSITIONS_KEEP
    MaxSpeed,    \* MAX_SPEED_KTS, as distance per unit of time
    MaxFlights,  \* bound: flight ids ever handed out
    MaxClock,    \* bound: the last instant of a behaviour
    MayFail,     \* may a database statement raise inside a transaction?
    MayCrash,    \* may the process die at any point?
    MayStop      \* may the operator stop the service gracefully?

ASSUME BoundsAssumption ==
    /\ Gap \in Nat /\ MaxSeen \in Nat /\ MinKeep \in Nat /\ MaxSpeed \in Nat
    /\ MaxFlights \in Nat /\ MaxClock \in Nat
ASSUME FlagsAssumption == MayFail \in BOOLEAN /\ MayCrash \in BOOLEAN /\ MayStop \in BOOLEAN
ASSUME DataAssumption == Places \subseteq Int /\ Sources \subseteq {"adsb", "mlat", "other"}

VARIABLES
    clock,       \* wall clock; constant during one poll
    pc,          \* where the main thread is
    cur,         \* the aircraft.json record being processed, or None
    active,      \* _active
    db,          \* the database inside the transaction
    disk,        \* the database as committed
    dirty,       \* history: has a poll raised since the process started?
    cut          \* history: flights that were open when a process ended

vars == <<clock, pc, cur, active, db, disk, dirty, cut>>

FlightIds == 1..MaxFlights
Fix == [icao: Aircraft, ts: Nat, place: Places, source: Sources]
ActiveState == [flight: FlightIds, seen: Nat, posTs: Nat, place: Places \cup {None}]
FlightRow == [icao: Aircraft, first: Nat, last: Nat, total: Nat, adsb: Nat, mlat: Nat,
              primary: {"adsb", "mlat", "mixed", "other", None}]
ActiveRow == [flight: FlightIds, seen: Nat]
PositionRow == [flight: FlightIds, icao: Aircraft, ts: Nat, place: Places, source: Sources]
Database == [flights: [FlightIds -> FlightRow \cup {None}],
             rows: [Aircraft -> ActiveRow \cup {None}],
             positions: SUBSET PositionRow,
             seq: 0..MaxFlights]

\* NULL is none of the rows and records it stands in for.
ASSUME NoneAssumption ==
    /\ None \notin Fix /\ None \notin ActiveState
    /\ None \notin FlightRow /\ None \notin ActiveRow
    /\ None \notin Places /\ None \notin {"adsb", "mlat", "mixed", "other"}

Up == {"idle", "poll", "opening", "recording", "expire", "stop"}

TypeOK ==
    /\ clock \in Nat
    /\ pc \in Up \cup {"down"}
    /\ cur \in Fix \cup {None}
    /\ active \in [Aircraft -> ActiveState \cup {None}]
    /\ db \in Database /\ disk \in Database
    /\ dirty \in BOOLEAN /\ cut \subseteq FlightIds

NoActive == [a \in Aircraft |-> None]
EmptyDb == [flights |-> [f \in FlightIds |-> None], rows |-> [a \in Aircraft |-> None],
            positions |-> {}, seq |-> 0]

Init ==
    /\ clock = 0 /\ pc = "down" /\ cur = None /\ active = NoActive
    /\ db = EmptyDb /\ disk = EmptyDb /\ dirty = FALSE /\ cut = {}

-----------------------------------------------------------------------------
(* Helpers *)

PositionsOf(d, f) == {p \in d.positions : p.flight = f}
Later(m, n) == IF m >= n THEN m ELSE n
Distance(p, q) == IF p >= q THEN p - q ELSE q - p

\* _primary_source: the shares are compared without dividing.
PrimarySource(adsb, mlat, total) ==
    IF total = 0 THEN "other"
    ELSE IF 5 * adsb >= 4 * total THEN "adsb"
    ELSE IF 5 * mlat >= 4 * total THEN "mlat"
    ELSE IF 2 * (adsb + mlat) >= total THEN "mixed"
    ELSE "other"

\* Mutant: the positions' foreign key without ON DELETE CASCADE.
WithoutFlightRow(d, f) == [d EXCEPT !.flights[f] = None]

\* DELETE FROM flights WHERE id = f: the positions go by ON DELETE CASCADE.
WithoutFlight(d, f) ==
    [d EXCEPT !.flights[f] = None, !.positions = {p \in @ : p.flight # f}]

\* _load_active picks the newest fix of the flight.  Two fixes of one flight share
\* a time only after a misattribution; the choice is then arbitrary.
NewestFix(d, f) ==
    CHOOSE p \in PositionsOf(d, f) : \A q \in PositionsOf(d, f) : q.ts <= p.ts

\* Mutant: the defect "Audit 17" repaired: last_pos_ts taken from active_flights.
RestoredFromRow(d, row) ==
    [flight |-> row.flight, seen |-> row.seen, posTs |-> row.seen,
     place |-> IF PositionsOf(d, row.flight) = {} THEN None ELSE NewestFix(d, row.flight).place]

\* Mutant: the last point is not restored.
RestoredWithoutPlace(d, row) ==
    [flight |-> row.flight, seen |-> row.seen, place |-> None,
     posTs |-> IF PositionsOf(d, row.flight) = {} THEN row.seen ELSE NewestFix(d, row.flight).ts]

Restored(d, row) ==
    IF PositionsOf(d, row.flight) = {}
      THEN [flight |-> row.flight, seen |-> row.seen, posTs |-> row.seen, place |-> None]
      ELSE [flight |-> row.flight, seen |-> row.seen,
            posTs |-> NewestFix(d, row.flight).ts, place |-> NewestFix(d, row.flight).place]

LoadActive(d) ==
    [a \in Aircraft |-> IF d.rows[a] = None THEN None ELSE Restored(d, d.rows[a])]

\* The foreign key of active_flights forbids deleting a flight a row still names.
Referenced(d, f) == \E b \in Aircraft : d.rows[b] # None /\ d.rows[b].flight = f

\* _close_flight.  The entry leaves _active before any statement runs.  Whether a
\* flight with too few positions is flagged (military, interesting, anonymous) is
\* an input: enrichment may learn it at any time.
CloseFlight(a) ==
    LET f == active[a].flight
        rec == db.flights[f]
        unlinked == [db EXCEPT !.rows[a] = None]
    IN  /\ active' = [active EXCEPT ![a] = None]
        /\ \/ /\ rec = None
              /\ db' = unlinked
           \/ /\ rec # None
              /\ rec.total < MinKeep
              /\ ~Referenced(unlinked, f)
              /\ db' = WithoutFlight(unlinked, f)
           \/ /\ rec # None
              /\ db' = [unlinked EXCEPT
                          !.flights[f].primary = PrimarySource(rec.adsb, rec.mlat, rec.total)]

\* Mutant: off by one at exactly FLIGHT_GAP_SEC.
SilentEarly(a) == active[a] # None /\ clock - active[a].seen >= Gap

Silent(a) == active[a] # None /\ clock - active[a].seen > Gap

-----------------------------------------------------------------------------
(* One poll *)

\* A new aircraft.json is read and the `with conn:` block entered.
BeginPoll ==
    /\ pc = "idle"
    /\ pc' = "poll"
    /\ UNCHANGED <<clock, cur, active, db, disk, dirty, cut>>

\* The next valid record.  A fix older than the one known, a fix that brings no
\* new time and a fix too far to be reached are skipped: no step.
NewAircraft(x) ==
    /\ active[x.icao] = None
    /\ pc' = "opening"
    /\ UNCHANGED <<active, db>>

\* Mutant: the flight before the gap is replaced but not closed.
AfterGapNotClosed(x) ==
    /\ active[x.icao] # None
    /\ x.ts >= active[x.icao].posTs
    /\ x.ts - active[x.icao].seen > Gap
    /\ pc' = "opening"
    /\ UNCHANGED <<active, db>>

AfterGap(x) ==
    /\ active[x.icao] # None
    /\ x.ts >= active[x.icao].posTs
    /\ x.ts - active[x.icao].seen > Gap
    /\ CloseFlight(x.icao)
    /\ pc' = "opening"

SameFlight(x) ==
    /\ active[x.icao] # None
    /\ x.ts >= active[x.icao].posTs
    /\ x.ts - active[x.icao].seen <= Gap
    /\ active[x.icao].place # None =>
         /\ x.ts > active[x.icao].posTs
         /\ Distance(x.place, active[x.icao].place) <= MaxSpeed * (x.ts - active[x.icao].posTs)
    /\ pc' = "recording"
    /\ UNCHANGED <<active, db>>

Detect(x) ==
    /\ pc = "poll"
    /\ x.ts <= clock /\ clock - x.ts <= MaxSeen
    /\ NewAircraft(x) \/ AfterGap(x) \/ SameFlight(x)
    /\ cur' = x
    /\ UNCHANGED <<clock, disk, dirty, cut>>

\* Mutant: an id without AUTOINCREMENT, one more than the largest in the table.
LargestPlusOne(d) ==
    CHOOSE f \in 1..(MaxFlights + 1) :
        /\ \A g \in FlightIds : d.flights[g] # None => g < f
        /\ f = 1 \/ d.flights[f - 1] # None

\* AUTOINCREMENT: sqlite_sequence, which a rollback resets too.
NextId(d) == d.seq + 1

\* _open_flight.
OpenFlight ==
    LET f == NextId(db)
    IN  /\ pc = "opening"
        /\ f \in FlightIds
        /\ db' = [db EXCEPT
                    !.flights[f] = [icao |-> cur.icao, first |-> cur.ts, last |-> cur.ts,
                                    total |-> 0, adsb |-> 0, mlat |-> 0, primary |-> None],
                    !.rows[cur.icao] = [flight |-> f, seen |-> cur.ts],
                    !.seq = f]
        /\ active' = [active EXCEPT ![cur.icao] =
                        [flight |-> f, seen |-> cur.ts, posTs |-> cur.ts, place |-> cur.place]]
        /\ pc' = "recording"
        /\ UNCHANGED <<clock, cur, disk, dirty, cut>>

\* Mutant: the last inserted row id instead of the flight of the aircraft.
LastOpened(a) == Later(1, db.seq)

FlightOf(a) == active[a].flight

\* The row _insert_position writes.
PositionOf(x, f) ==
    [flight |-> f, icao |-> x.icao, ts |-> x.ts, place |-> x.place, source |-> x.source]

\* _update_flight_agg.
Counted(rec, x) ==
    [rec EXCEPT !.last = Later(@, x.ts),
                !.total = @ + 1,
                !.adsb = IF x.source = "adsb" THEN @ + 1 ELSE @,
                !.mlat = IF x.source = "mlat" THEN @ + 1 ELSE @]

\* The insertion, the aggregates and the updates of _active that follow.
\* The foreign key of positions needs the flight to exist.
Record ==
    LET f == FlightOf(cur.icao)
        rec == db.flights[f]
    IN  /\ pc = "recording"
        /\ rec # None
        /\ db' = [db EXCEPT
                    !.positions = @ \cup {PositionOf(cur, f)},
                    !.flights[f] = Counted(rec, cur)]
        /\ active' = [active EXCEPT ![cur.icao] =
                        [flight |-> f, seen |-> cur.ts, posTs |-> cur.ts, place |-> cur.place]]
        /\ pc' = "poll"
        /\ cur' = None
        /\ UNCHANGED <<clock, disk, dirty, cut>>

EndOfReports ==
    /\ pc = "poll"
    /\ pc' = "expire"
    /\ UNCHANGED <<clock, cur, active, db, disk, dirty, cut>>

ExpireFlight(a) ==
    /\ pc = "expire"
    /\ Silent(a)
    /\ CloseFlight(a)
    /\ UNCHANGED <<clock, pc, cur, disk, dirty, cut>>

Commit ==
    /\ pc = "expire"
    /\ \A a \in Aircraft : ~Silent(a)
    /\ disk' = db
    /\ pc' = "idle"
    /\ UNCHANGED <<clock, cur, active, db, dirty, cut>>

\* A statement raises: a value SQLite cannot bind, a broken foreign key, a lock
\* held for longer than the busy timeout, a full disk.  `with conn:` rolls the
\* database back and main() logs "Poll error"; nothing restores _active.
PollFails ==
    /\ MayFail
    /\ pc \in {"poll", "opening", "recording", "expire"}
    /\ db' = disk
    /\ pc' = "idle"
    /\ cur' = None
    /\ dirty' = TRUE
    /\ UNCHANGED <<clock, active, disk, cut>>

-----------------------------------------------------------------------------
(* The process around the polls *)

\* main() after the integrity check: _load_active.
Start ==
    /\ pc = "down"
    /\ active' = LoadActive(disk)
    /\ pc' = "idle"
    /\ dirty' = FALSE
    /\ cut' = cut \cup {f \in FlightIds : Referenced(disk, f)}
    /\ UNCHANGED <<clock, cur, db, disk>>

Crash ==
    /\ MayCrash
    /\ pc \in Up
    /\ pc' = "down"
    /\ cur' = None
    /\ active' = NoActive
    /\ db' = disk
    /\ UNCHANGED <<clock, disk, dirty, cut>>

\* SIGTERM between polls: the loop ends and every active flight is finalised.
BeginStop ==
    /\ MayStop
    /\ pc = "idle"
    /\ pc' = "stop"
    /\ cut' = cut \cup {f \in FlightIds : \E a \in Aircraft : active[a] # None /\ active[a].flight = f}
    /\ UNCHANGED <<clock, cur, active, db, disk, dirty>>

StopClose(a) ==
    /\ pc = "stop"
    /\ active[a] # None
    /\ CloseFlight(a)
    /\ UNCHANGED <<clock, pc, cur, disk, dirty, cut>>

StopCommit ==
    /\ pc = "stop"
    /\ active = NoActive
    /\ disk' = db
    /\ pc' = "down"
    /\ UNCHANGED <<clock, cur, active, db, dirty, cut>>

\* main() logs "Error during shutdown finalisation" and exits all the same.
StopFails ==
    /\ MayFail
    /\ pc = "stop"
    /\ db' = disk
    /\ active' = NoActive
    /\ pc' = "down"
    /\ UNCHANGED <<clock, cur, disk, dirty, cut>>

\* Closed flights without a primary_source: what a collector that died, or a poll
\* that raised, has left behind.
Unfinalised(d) == {f \in FlightIds :
    d.flights[f] # None /\ d.flights[f].primary = None /\ ~Referenced(d, f)}

WithPrimary(d, S, p) ==
    [d EXCEPT !.flights = [f \in FlightIds |->
        IF f \in S THEN [d.flights[f] EXCEPT !.primary = p] ELSE d.flights[f]]]

\* Mutant: the update without its "primary_source IS NULL".
BackfilledAll(d) ==
    WithPrimary(d, {f \in FlightIds : d.flights[f] # None /\ ~Referenced(d, f)}, "other")

Backfilled(d) == WithPrimary(d, Unfinalised(d), "other")

\* The background thread of each start, on a connection of its own: it waits for
\* the write lock, so it never sees a poll's transaction half way.
BackfillPrimarySource ==
    /\ pc = "idle"
    /\ disk' = Backfilled(disk)
    /\ disk' # disk
    /\ db' = disk'
    /\ UNCHANGED <<clock, pc, cur, active, dirty, cut>>

Tick ==
    /\ pc \in {"idle", "down"}
    /\ clock < MaxClock
    /\ clock' = clock + 1
    /\ UNCHANGED <<pc, cur, active, db, disk, dirty, cut>>

Next ==
    \/ BeginPoll
    \/ \E x \in [icao: Aircraft, ts: 0..MaxClock, place: Places, source: Sources] : Detect(x)
    \/ OpenFlight
    \/ Record
    \/ EndOfReports
    \/ \E a \in Aircraft : ExpireFlight(a)
    \/ Commit
    \/ PollFails
    \/ Start
    \/ Crash
    \/ BeginStop
    \/ \E a \in Aircraft : StopClose(a)
    \/ StopCommit
    \/ StopFails
    \/ BackfillPrimarySource
    \/ Tick

Spec == Init /\ [][Next]_vars

-----------------------------------------------------------------------------
(* Properties *)

Listed(d, f) == \E a \in Aircraft : d.rows[a] # None /\ d.rows[a].flight = f
Finished(d, f) == d.flights[f] # None /\ d.flights[f].primary # None /\ ~Listed(d, f)
Orphans(d) == {f \in FlightIds :
    d.flights[f] # None /\ d.flights[f].primary = None /\ ~Listed(d, f)}

\* The incremental counters of a flight row (_update_flight_agg) agree with its
\* positions, and no position outlives its flight, at every statement and through
\* every rollback, crash and deletion.
CountOk(d, f) ==
    IF d.flights[f] = None
      THEN PositionsOf(d, f) = {}
      ELSE /\ d.flights[f].total = Cardinality(PositionsOf(d, f))
           /\ d.flights[f].adsb = Cardinality({p \in PositionsOf(d, f) : p.source = "adsb"})
           /\ d.flights[f].mlat = Cardinality({p \in PositionsOf(d, f) : p.source = "mlat"})
           /\ \A p \in PositionsOf(d, f) : p.ts <= d.flights[f].last
CountsOk(d) == \A f \in FlightIds : CountOk(d, f)
CountsMatchPositions == TypeOK /\ CountsOk(db) /\ CountsOk(disk)

\* A row of active_flights names an existing flight of the same aircraft, also when
\* a rolled-back id has been handed out a second time.
RowsOk(d) == \A a \in Aircraft : d.rows[a] # None =>
    /\ d.flights[d.rows[a].flight] # None
    /\ d.flights[d.rows[a].flight].icao = a
RowsNameOwnFlights == RowsOk(db) /\ RowsOk(disk)

\* Unless a poll has raised since the start, _active holds exactly the flights of
\* active_flights, and the time against which the ghost filter measures is that of
\* the newest position stored for the flight, also after a crash and restart.
Mirrors(a) ==
    IF db.rows[a] = None
      THEN active[a] = None
      ELSE /\ active[a] # None
           /\ active[a].flight = db.rows[a].flight
           /\ active[a].posTs = db.flights[db.rows[a].flight].last
MemoryMirrorsTable == pc \in Up /\ ~dirty => \A a \in Aircraft : Mirrors(a)

\* Unless a poll has raised since the start, a new position goes to a flight of the
\* aircraft that reported it.
InsertsOwn == \A p \in db'.positions \ (db.positions \cup disk.positions) :
    ~dirty => db'.flights[p.flight] # None /\ db'.flights[p.flight].icao = p.icao
OwnFlightOnly == [][InsertsOwn]_vars

\* Unless a poll has raised since the start, what is committed about a finished
\* flight is never touched again: neither its row nor its positions.
Untouched(f) ==
    /\ disk'.flights[f] = disk.flights[f]
    /\ PositionsOf(disk', f) = PositionsOf(disk, f)
FinishedFlightsFrozen ==
    [][\A f \in FlightIds : Finished(disk, f) /\ ~dirty => Untouched(f)]_vars

\* Unless a poll has raised since the start, no commit leaves behind a flight that
\* is neither finalised nor listed in active_flights.
NoOrphanCommitted == [][~dirty => Orphans(disk') \subseteq Orphans(disk)]_vars

\* The fixes stored for one flight form a track the aircraft can have flown: no two
\* at the same time, none further apart than MaxSpeed allows, across restarts too.
PlausibleTrack == \A p, q \in disk.positions : p.flight = q.flight /\ p # q =>
    /\ p.ts # q.ts
    /\ p.ts < q.ts => Distance(p.place, q.place) <= MaxSpeed * (q.ts - p.ts)

\* Two flights of one aircraft are separated by silence, unless the collector was
\* stopped or restarted during the first.  A fix may reach it MaxSeen late, so the
\* silence between stored fixes can be that much shorter than Gap.
Separated(p, q) ==
    p.icao = q.icao /\ p.flight < q.flight => q.ts - p.ts > Gap - MaxSeen
SplitOnlyOnSilence == \A p, q \in disk.positions : p.flight \notin cut => Separated(p, q)

\* README.md:42 and docs/api.md:125, read together: an open flight survives a
\* restart and only FLIGHT_GAP_SEC of silence ends it.
RestartKeepsFlight == \A p, q \in disk.positions : Separated(p, q)

\* collector.py:752-754: a record that makes the poll raise leaves no partial
\* flight behind.
NoPhantomFlight == pc = "idle" => \A a \in Aircraft :
    active[a] # None => disk.flights[active[a].flight] # None
=============================================================================
