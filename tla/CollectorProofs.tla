--------------------------- MODULE CollectorProofs ---------------------------
(***************************************************************************)
(* Proofs about Collector for every feed, every bound and every mixture of  *)
(* failing polls, crashes and stops.                                        *)
(*                                                                          *)
(* TypeOK is not inductive: OpenFlight and Record read cur and the entry of *)
(* its aircraft, and a restart picks the newest fix of a flight, which is a *)
(* fix only because the flight has one at its last_seen.  IInv adds what    *)
(* these steps rely on.                                                     *)
(*                                                                          *)
(* On top of IInv, one invariant per question:                              *)
(*   Counting  the counters of a flight row and its positions agree         *)
(*   Kept      what a transaction has not done to finished flights          *)
(*   Tracks    the fixes of a flight are a track an aircraft can fly        *)
(*   Split     flights of one aircraft are apart                            *)
(*   Lives     what a transaction may do to the life of a flight            *)
(* The last three hold when no statement raises inside a transaction: a     *)
(* poll that fails leaves _active ahead of the tables, and the next one may *)
(* then give a fix to another aircraft's flight.                            *)
(***************************************************************************)
EXTENDS CollectorLog, FiniteSetTheorems, TLAPS

\* A record is being processed exactly between its detection and its insertion; its
\* aircraft has no entry before _open_flight and has one after it.
CurOk ==
    /\ cur # None <=> pc \in {"opening", "recording"}
    /\ pc = "opening" => active[cur.icao] = None
    /\ pc = "recording" => active[cur.icao] # None

\* Outside a transaction there is nothing to commit.
Quiet == pc \in {"idle", "down"} => db = disk

\* Ids beyond sqlite_sequence are unused, and no position outlives its flight.
IdsOk(d) ==
    /\ \A f \in FlightIds : f > d.seq => d.flights[f] = None
    /\ \A p \in d.positions : d.flights[p.flight] # None

\* last_seen of a flight is the time of its newest position.
LastOk(d) == \A f \in FlightIds : d.flights[f] # None /\ PositionsOf(d, f) # {} =>
    /\ \E p \in PositionsOf(d, f) : p.ts = d.flights[f].last
    /\ \A p \in PositionsOf(d, f) : p.ts <= d.flights[f].last

\* Only the flight opened for the current record may still be without a position.
NewFlightOnly(f) ==
    /\ pc = "recording"
    /\ active[cur.icao].flight = f
    /\ db.flights[f].last = cur.ts
NonEmpty ==
    /\ \A f \in FlightIds : disk.flights[f] # None => PositionsOf(disk, f) # {}
    /\ \A f \in FlightIds :
         db.flights[f] # None /\ PositionsOf(db, f) = {} => NewFlightOnly(f)

TablesOk(d) == IdsOk(d) /\ RowsOk(d) /\ LastOk(d)

\* The fix about to be recorded is not older than the newest of its flight.
InOrder == pc = "recording" /\ ~dirty => cur.ts >= active[cur.icao].posTs

IInv ==
    /\ TypeOK /\ CurOk /\ Quiet
    /\ TablesOk(db) /\ TablesOk(disk)
    /\ NonEmpty
    /\ InOrder /\ MemoryMirrorsTable
-----------------------------------------------------------------------------
(* Lemmas about the helpers *)

\* _primary_source returns one of the four classes the readers know.
LEMMA PrimarySourceType ==
    ASSUME NEW adsb \in Nat, NEW mlat \in Nat, NEW total \in Nat
    PROVE  PrimarySource(adsb, mlat, total) \in {"adsb", "mlat", "mixed", "other"}
  BY DEF PrimarySource

\* The newest fix of a flight that has one is one of its fixes, at its last_seen.
LEMMA NewestFixIsLast ==
    ASSUME NEW d \in Database, LastOk(d), NEW f \in FlightIds,
           d.flights[f] # None, PositionsOf(d, f) # {}
    PROVE  /\ NewestFix(d, f) \in PositionsOf(d, f)
           /\ NewestFix(d, f).ts = d.flights[f].last
<1>1. PICK p \in PositionsOf(d, f) : p.ts = d.flights[f].last
  BY DEF LastOk
<1>2. \A q \in PositionsOf(d, f) : q.ts <= d.flights[f].last
  BY DEF LastOk
<1>3. \A q \in PositionsOf(d, f) : q.ts <= p.ts
  BY <1>1, <1>2
<1>4. /\ NewestFix(d, f) \in PositionsOf(d, f)
      /\ \A q \in PositionsOf(d, f) : q.ts <= NewestFix(d, f).ts
  BY <1>3, Zenon DEF NewestFix
<1>5. \A q \in PositionsOf(d, f) : q.ts \in Nat
  BY DEF PositionsOf, Database, PositionRow
<1>6. d.flights[f].last \in Nat
  BY DEF Database, FlightRow
<1> QED
  BY <1>1, <1>2, <1>4, <1>5, <1>6

\* _load_active restores a state for every row and nothing else.
LEMMA LoadActiveMirrors ==
    ASSUME NEW d \in Database, LastOk(d), RowsOk(d),
           \A f \in FlightIds : d.flights[f] # None => PositionsOf(d, f) # {}
    PROVE  /\ LoadActive(d) \in [Aircraft -> ActiveState \cup {None}]
           /\ \A a \in Aircraft :
                IF d.rows[a] = None
                  THEN LoadActive(d)[a] = None
                  ELSE /\ LoadActive(d)[a] # None
                       /\ LoadActive(d)[a].flight = d.rows[a].flight
                       /\ LoadActive(d)[a].posTs = d.flights[d.rows[a].flight].last
<1>1. ASSUME NEW a \in Aircraft, d.rows[a] # None
      PROVE  /\ Restored(d, d.rows[a]) \in ActiveState
             /\ Restored(d, d.rows[a]).flight = d.rows[a].flight
             /\ Restored(d, d.rows[a]).posTs = d.flights[d.rows[a].flight].last
  <2> DEFINE f == d.rows[a].flight
  <2>1. d.rows[a] \in ActiveRow
    BY <1>1 DEF Database
  <2>2. f \in FlightIds /\ d.rows[a].seen \in Nat
    BY <2>1 DEF ActiveRow
  <2>3. d.flights[f] # None
    BY <1>1 DEF RowsOk
  <2>4. PositionsOf(d, f) # {}
    BY <2>2, <2>3
  <2>5. NewestFix(d, f) \in PositionsOf(d, f) /\ NewestFix(d, f).ts = d.flights[f].last
    BY <2>2, <2>3, <2>4, NewestFixIsLast
  <2>6. NewestFix(d, f).ts \in Nat /\ NewestFix(d, f).place \in Places
    BY <2>5 DEF PositionsOf, Database, PositionRow
  <2>7. Restored(d, d.rows[a]) =
          [flight |-> f, seen |-> d.rows[a].seen,
           posTs |-> NewestFix(d, f).ts, place |-> NewestFix(d, f).place]
    BY <2>4 DEF Restored
  <2> QED
    BY <2>2, <2>5, <2>6, <2>7 DEF ActiveState
<1>2. \A a \in Aircraft : d.rows[a] # None => Restored(d, d.rows[a]) # None
  BY <1>1, NoneAssumption
<1> QED
  BY <1>1, <1>2 DEF LoadActive

\* What _close_flight leaves behind: the row and the entry of the aircraft are gone,
\* the flight is finalised or deleted with its positions, everything else is kept.
LEMMA CloseEffect ==
    ASSUME TypeOK, TablesOk(db), NEW a \in Aircraft, active[a] # None, CloseFlight(a)
    PROVE  /\ active' = [active EXCEPT ![a] = None]
           /\ active' \in [Aircraft -> ActiveState \cup {None}]
           /\ db' \in Database
           /\ db'.rows = [db.rows EXCEPT ![a] = None]
           /\ \A f \in FlightIds : db'.flights[f] # None =>
                /\ db.flights[f] # None
                /\ db'.flights[f].last = db.flights[f].last
                /\ PositionsOf(db', f) = PositionsOf(db, f)
           /\ TablesOk(db')
<1> DEFINE f == active[a].flight
           rec == db.flights[f]
           unlinked == [db EXCEPT !.rows[a] = None]
<1>1. f \in FlightIds /\ rec \in FlightRow \cup {None}
  BY DEF TypeOK, ActiveState, Database
<1>2. active' = [active EXCEPT ![a] = None] /\ active' \in [Aircraft -> ActiveState \cup {None}]
  BY DEF CloseFlight, TypeOK
<1>3. /\ unlinked \in Database
      /\ unlinked.flights = db.flights /\ unlinked.positions = db.positions
      /\ unlinked.seq = db.seq /\ unlinked.rows = [db.rows EXCEPT ![a] = None]
  BY DEF TypeOK, Database
<1>4. CASE rec = None /\ db' = unlinked
  <2>1. \A g \in FlightIds : PositionsOf(db', g) = PositionsOf(db, g)
    BY <1>3, <1>4 DEF PositionsOf
  <2>2. IdsOk(db')
    BY <1>3, <1>4 DEF IdsOk, TablesOk
  <2>3. RowsOk(db')
    BY <1>3, <1>4 DEF RowsOk, TablesOk, TypeOK, Database
  <2>4. LastOk(db')
    BY <1>3, <1>4, <2>1 DEF LastOk, TablesOk
  <2> QED
    BY <1>2, <1>3, <1>4, <2>1, <2>2, <2>3, <2>4 DEF TablesOk
<1>5. CASE rec # None /\ ~Referenced(unlinked, f) /\ db' = WithoutFlight(unlinked, f)
  <2>1. /\ db' \in Database
        /\ db'.flights = [db.flights EXCEPT ![f] = None]
        /\ db'.positions = {p \in db.positions : p.flight # f}
        /\ db'.seq = db.seq /\ db'.rows = [db.rows EXCEPT ![a] = None]
    BY <1>1, <1>3, <1>5 DEF WithoutFlight, Database
  <2>2. \A g \in FlightIds : g # f => PositionsOf(db', g) = PositionsOf(db, g)
    BY <2>1 DEF PositionsOf
  <2>3. \A g \in FlightIds : db'.flights[g] # None =>
          g # f /\ db'.flights[g] = db.flights[g]
    BY <1>1, <2>1 DEF TypeOK, Database
  <2>4. IdsOk(db')
    BY <2>1, <1>1 DEF IdsOk, TablesOk, TypeOK, Database, PositionRow
  <2>5. RowsOk(db')
    <3> SUFFICES ASSUME NEW b \in Aircraft, db'.rows[b] # None
                 PROVE  /\ db'.flights[db'.rows[b].flight] # None
                        /\ db'.flights[db'.rows[b].flight].icao = b
      BY DEF RowsOk
    <3>1. b # a /\ db'.rows[b] = db.rows[b] /\ unlinked.rows[b] = db.rows[b]
      BY <1>3, <2>1 DEF TypeOK, Database
    <3>2. db.rows[b].flight # f
      BY <1>5, <3>1 DEF Referenced
    <3>3. db.rows[b].flight \in FlightIds
      BY <3>1 DEF TypeOK, Database, ActiveRow
    <3> QED
      BY <2>1, <3>1, <3>2, <3>3 DEF TablesOk, RowsOk, TypeOK, Database
  <2>6. LastOk(db')
    BY <2>2, <2>3 DEF LastOk, TablesOk
  <2> QED
    BY <1>2, <2>1, <2>2, <2>3, <2>4, <2>5, <2>6 DEF TablesOk
<1>6. CASE /\ rec # None
           /\ db' = [unlinked EXCEPT
                       !.flights[f].primary = PrimarySource(rec.adsb, rec.mlat, rec.total)]
  <2> DEFINE c == PrimarySource(rec.adsb, rec.mlat, rec.total)
  <2>1. rec \in FlightRow /\ c \in {"adsb", "mlat", "mixed", "other"}
    BY <1>1, <1>6, PrimarySourceType DEF FlightRow
  <2>2. [rec EXCEPT !.primary = c] \in FlightRow
    BY <2>1 DEF FlightRow
  <2>3. /\ db'.flights = [db.flights EXCEPT ![f] = [rec EXCEPT !.primary = c]]
        /\ db'.positions = db.positions
        /\ db'.seq = db.seq /\ db'.rows = [db.rows EXCEPT ![a] = None]
        /\ db' \in Database
    BY <1>1, <1>3, <1>6, <2>2 DEF Database
  <2>4. \A g \in FlightIds : PositionsOf(db', g) = PositionsOf(db, g)
    BY <2>3 DEF PositionsOf
  <2>5. \A g \in FlightIds :
          /\ db'.flights[g] # None <=> db.flights[g] # None
          /\ db.flights[g] # None =>
               /\ db'.flights[g].last = db.flights[g].last
               /\ db'.flights[g].icao = db.flights[g].icao
    BY <1>1, <1>6, <2>1, <2>2, <2>3, NoneAssumption DEF TypeOK, Database, FlightRow
  <2>6. IdsOk(db')
    BY <2>3, <2>5 DEF IdsOk, TablesOk, TypeOK, Database, PositionRow
  <2>7. RowsOk(db')
    <3> SUFFICES ASSUME NEW b \in Aircraft, db'.rows[b] # None
                 PROVE  /\ db'.flights[db'.rows[b].flight] # None
                        /\ db'.flights[db'.rows[b].flight].icao = b
      BY DEF RowsOk
    <3>1. b # a /\ db'.rows[b] = db.rows[b] /\ db.rows[b] # None
      BY <2>3 DEF TypeOK, Database
    <3>2. db.rows[b].flight \in FlightIds
      BY <3>1 DEF TypeOK, Database, ActiveRow
    <3>3. db.flights[db.rows[b].flight] # None /\ db.flights[db.rows[b].flight].icao = b
      BY <3>1 DEF TablesOk, RowsOk
    <3> QED
      BY <2>5, <3>1, <3>2, <3>3
  <2>8. LastOk(db')
    BY <2>4, <2>5 DEF LastOk, TablesOk
  <2> QED
    BY <1>2, <2>3, <2>4, <2>5, <2>6, <2>7, <2>8 DEF TablesOk
<1> QED
  BY <1>4, <1>5, <1>6 DEF CloseFlight

-----------------------------------------------------------------------------
(* The inductive invariant *)

LEMMA InitOk == Init => IInv
<1> SUFFICES ASSUME Init PROVE IInv
  OBVIOUS
<1>1. EmptyDb \in Database
  BY BoundsAssumption DEF EmptyDb, Database, FlightIds
<1>2. TypeOK
  BY <1>1 DEF Init, TypeOK, NoActive
<1>3. TablesOk(EmptyDb)
  BY DEF TablesOk, IdsOk, RowsOk, LastOk, EmptyDb
<1>4. NonEmpty
  BY DEF Init, NonEmpty, EmptyDb
<1>5. CurOk /\ Quiet /\ InOrder /\ MemoryMirrorsTable
  BY DEF Init, CurOk, Quiet, InOrder, MemoryMirrorsTable, Up
<1> QED
  BY <1>2, <1>3, <1>4, <1>5 DEF IInv, Init

\* The steps that only move the control or the clock.
LEMMA ControlStep ==
    ASSUME IInv, UNCHANGED <<cur, active, db, disk, dirty>>, cut' \subseteq FlightIds,
           clock' \in Nat, pc' \in Up \cup {"down"},
           pc \notin {"opening", "recording"}, pc' \notin {"opening", "recording"},
           pc = "down" => pc' = "down", pc' \in {"idle", "down"} => pc \in {"idle", "down"}
    PROVE  IInv'
<1>1. TypeOK'
  BY DEF IInv, TypeOK
<1>2. CurOk' /\ Quiet' /\ InOrder'
  BY DEF IInv, CurOk, Quiet, InOrder
<1>3. TablesOk(db)' /\ TablesOk(disk)'
  BY DEF IInv
<1>4. NonEmpty'
  BY DEF IInv, NonEmpty, NewFlightOnly, PositionsOf
<1>5. MemoryMirrorsTable'
  BY DEF IInv, MemoryMirrorsTable, Mirrors, TypeOK, Up
<1> QED
  BY <1>1, <1>2, <1>3, <1>4, <1>5 DEF IInv

\* The steps that close the flight of a: at expiry, at the stop, and after a gap,
\* when a's new record is kept for _open_flight.
LEMMA CloseStep ==
    ASSUME IInv, NEW a \in Aircraft, active[a] # None, CloseFlight(a),
           UNCHANGED <<clock, disk, dirty, cut>>,
           pc \in {"poll", "expire", "stop"},
           \/ pc' = pc /\ cur' = cur
           \/ pc = "poll" /\ pc' = "opening" /\ cur' \in Fix /\ cur'.icao = a
    PROVE  IInv'
<1>1. /\ active' = [active EXCEPT ![a] = None]
      /\ active' \in [Aircraft -> ActiveState \cup {None}]
      /\ db' \in Database
      /\ db'.rows = [db.rows EXCEPT ![a] = None]
      /\ TablesOk(db')
  BY CloseEffect DEF IInv
<1>2. \A f \in FlightIds : db'.flights[f] # None =>
        /\ db.flights[f] # None
        /\ db'.flights[f].last = db.flights[f].last
        /\ PositionsOf(db', f) = PositionsOf(db, f)
  BY CloseEffect DEF IInv
<1>3. TypeOK'
  BY <1>1 DEF IInv, TypeOK, Up
<1>4. CurOk'
  BY <1>1, NoneAssumption DEF IInv, CurOk, TypeOK
<1>5. Quiet' /\ InOrder'
  BY DEF Quiet, InOrder
<1>6. TablesOk(db)' /\ TablesOk(disk)'
  BY <1>1 DEF IInv
<1>7. NonEmpty'
  <2>1. \A f \in FlightIds : disk'.flights[f] # None => PositionsOf(disk', f) # {}
    BY DEF IInv, NonEmpty
  <2>2. \A f \in FlightIds : db'.flights[f] # None => PositionsOf(db', f) # {}
    BY <1>2 DEF IInv, NonEmpty, NewFlightOnly
  <2> QED
    BY <2>1, <2>2 DEF NonEmpty
<1>8. MemoryMirrorsTable'
  <2> SUFFICES ASSUME ~dirty, NEW b \in Aircraft
               PROVE  Mirrors(b)'
    BY DEF MemoryMirrorsTable
  <2>1. Mirrors(b)
    BY DEF IInv, MemoryMirrorsTable, Up
  <2>2. CASE b = a
    BY <1>1, <2>2 DEF Mirrors, IInv, TypeOK, Database
  <2>3. CASE b # a
    <3>1. db'.rows[b] = db.rows[b] /\ active'[b] = active[b]
      BY <1>1, <2>3 DEF IInv, TypeOK, Database
    <3>2. CASE db.rows[b] = None
      BY <2>1, <3>1, <3>2 DEF Mirrors
    <3>3. CASE db.rows[b] # None
      <4>1. db.rows[b].flight \in FlightIds
        BY <3>3 DEF IInv, TypeOK, Database, ActiveRow
      <4>2. db'.flights[db.rows[b].flight] # None
        BY <1>1, <3>1, <3>3 DEF TablesOk, RowsOk
      <4> QED
        BY <1>2, <2>1, <3>1, <3>3, <4>1, <4>2 DEF Mirrors
    <3> QED
      BY <3>2, <3>3
  <2> QED
    BY <2>2, <2>3
<1> QED
  BY <1>3, <1>4, <1>5, <1>6, <1>7, <1>8 DEF IInv

LEMMA DetectStep ==
    ASSUME IInv, NEW x \in [icao: Aircraft, ts: 0..MaxClock, place: Places, source: Sources],
           Detect(x)
    PROVE  IInv'
<1>1. x \in Fix /\ x.icao \in Aircraft
  BY BoundsAssumption DEF Fix
<1>2. cur' = x /\ pc = "poll" /\ UNCHANGED <<clock, disk, dirty, cut>>
  BY DEF Detect
<1>3. CASE AfterGap(x)
  BY <1>1, <1>2, <1>3, CloseStep DEF AfterGap
<1>4. CASE NewAircraft(x) \/ SameFlight(x)
  <2>1. UNCHANGED <<active, db>> /\ pc' \in {"opening", "recording"}
    BY <1>4 DEF NewAircraft, SameFlight
  <2>2. TypeOK'
    BY <1>1, <1>2, <2>1 DEF IInv, TypeOK, Up
  <2>3. CurOk'
    BY <1>1, <1>2, <1>4, <2>1, NoneAssumption DEF CurOk, NewAircraft, SameFlight
  <2>4. Quiet'
    BY <2>1 DEF Quiet
  <2>5. TablesOk(db)' /\ TablesOk(disk)'
    BY <1>2, <2>1 DEF IInv
  <2>6. NonEmpty'
    BY <1>2, <2>1 DEF IInv, NonEmpty, NewFlightOnly, PositionsOf
  <2>7. InOrder'
    BY <1>2, <1>4, <2>1 DEF InOrder, NewAircraft, SameFlight
  <2>8. MemoryMirrorsTable'
    BY <1>2, <2>1 DEF IInv, MemoryMirrorsTable, Mirrors, Up
  <2> QED
    BY <2>2, <2>3, <2>4, <2>5, <2>6, <2>7, <2>8 DEF IInv
<1> QED
  BY <1>3, <1>4 DEF Detect

LEMMA OpenStep ==
    ASSUME IInv, OpenFlight
    PROVE  IInv'
<1> DEFINE f == NextId(db)
           a == cur.icao
           row == [icao |-> a, first |-> cur.ts, last |-> cur.ts,
                   total |-> 0, adsb |-> 0, mlat |-> 0, primary |-> None]
           entry == [flight |-> f, seen |-> cur.ts]
           state == [flight |-> f, seen |-> cur.ts, posTs |-> cur.ts, place |-> cur.place]
<1>1. /\ pc = "opening" /\ pc' = "recording" /\ f \in FlightIds
      /\ db' = [db EXCEPT !.flights[f] = row, !.rows[a] = entry, !.seq = f]
      /\ active' = [active EXCEPT ![a] = state]
      /\ UNCHANGED <<clock, cur, disk, dirty, cut>>
  BY DEF OpenFlight
<1>2. cur \in Fix /\ a \in Aircraft /\ cur.ts \in Nat /\ cur.place \in Places
  BY <1>1 DEF IInv, CurOk, TypeOK, Fix
<1>3. row \in FlightRow /\ entry \in ActiveRow /\ state \in ActiveState
  BY <1>1, <1>2 DEF FlightRow, ActiveRow, ActiveState
<1>4. f = db.seq + 1 /\ f \in 0..MaxFlights /\ db.seq \in Nat
  BY <1>1, BoundsAssumption DEF NextId, FlightIds, IInv, TypeOK, Database
<1>5. /\ db' \in Database
      /\ db'.flights = [db.flights EXCEPT ![f] = row]
      /\ db'.rows = [db.rows EXCEPT ![a] = entry]
      /\ db'.positions = db.positions
      /\ db'.seq = f
  BY <1>1, <1>2, <1>3, <1>4 DEF IInv, TypeOK, Database
<1>6. db.flights[f] = None
  BY <1>1, <1>4 DEF IInv, TablesOk, IdsOk, FlightIds
<1>7. \A g \in FlightIds : PositionsOf(db', g) = PositionsOf(db, g)
  BY <1>5 DEF PositionsOf
<1>8. PositionsOf(db, f) = {}
  BY <1>6 DEF PositionsOf, IInv, TablesOk, IdsOk
<1>9. /\ db'.flights[f] = row
      /\ \A g \in FlightIds : g # f => db'.flights[g] = db.flights[g]
  BY <1>1, <1>5 DEF IInv, TypeOK, Database
<1>10. TypeOK'
  BY <1>1, <1>2, <1>3, <1>5 DEF IInv, TypeOK, Up
<1>11. CurOk'
  BY <1>1, <1>2, <1>3, NoneAssumption DEF IInv, CurOk, TypeOK
<1>12. Quiet'
  BY <1>1 DEF Quiet
<1>13. TablesOk(db')
  <2>1. IdsOk(db')
    <3>1. \A g \in FlightIds : g > f => db'.flights[g] = None
      BY <1>4, <1>9 DEF IInv, TablesOk, IdsOk, FlightIds
    <3>2. \A p \in db.positions : p.flight \in FlightIds /\ p.flight # f
      BY <1>6 DEF IInv, TablesOk, IdsOk, TypeOK, Database, PositionRow
    <3>3. \A p \in db'.positions : db'.flights[p.flight] # None
      BY <1>5, <1>9, <3>2 DEF IInv, TablesOk, IdsOk
    <3> QED
      BY <1>5, <3>1, <3>3 DEF IdsOk
  <2>2. RowsOk(db')
    <3> SUFFICES ASSUME NEW b \in Aircraft, db'.rows[b] # None
                 PROVE  /\ db'.flights[db'.rows[b].flight] # None
                        /\ db'.flights[db'.rows[b].flight].icao = b
      BY DEF RowsOk
    <3>1. CASE b = a
      <4>1. db'.rows[b].flight = f
        BY <1>5, <3>1 DEF IInv, TypeOK, Database
      <4>2. row # None /\ row.icao = b
        BY <1>3, <3>1, NoneAssumption
      <4> QED
        BY <1>9, <4>1, <4>2
    <3>2. CASE b # a
      <4>1. db'.rows[b] = db.rows[b] /\ db.rows[b].flight \in FlightIds
        BY <1>5, <3>2 DEF IInv, TypeOK, Database, ActiveRow
      <4>2. db.rows[b].flight # f
        BY <1>6, <4>1 DEF IInv, TablesOk, RowsOk
      <4> QED
        BY <1>9, <4>1, <4>2 DEF IInv, TablesOk, RowsOk
    <3> QED
      BY <3>1, <3>2
  <2>3. LastOk(db')
    BY <1>7, <1>8, <1>9 DEF IInv, TablesOk, LastOk
  <2> QED
    BY <2>1, <2>2, <2>3 DEF TablesOk
<1>14. TablesOk(db)' /\ TablesOk(disk)'
  BY <1>1, <1>13 DEF IInv
<1>15. active'[a] = state
  BY <1>1, <1>2 DEF IInv, TypeOK
<1>16. NonEmpty'
  <2>1. \A g \in FlightIds : disk'.flights[g] # None => PositionsOf(disk', g) # {}
    BY <1>1 DEF IInv, NonEmpty
  <2>2. \A g \in FlightIds :
          db'.flights[g] # None /\ PositionsOf(db', g) = {} => g = f
    BY <1>1, <1>7, <1>9 DEF IInv, NonEmpty, NewFlightOnly
  <2>3. pc' = "recording" /\ active'[cur'.icao].flight = f /\ db'.flights[f].last = cur'.ts
    BY <1>1, <1>9, <1>15
  <2> QED
    BY <2>1, <2>2, <2>3 DEF NonEmpty, NewFlightOnly
<1>17. InOrder'
  BY <1>1, <1>2, <1>15 DEF InOrder
<1>18. MemoryMirrorsTable'
  <2> SUFFICES ASSUME ~dirty, NEW b \in Aircraft
               PROVE  Mirrors(b)'
    BY <1>1 DEF MemoryMirrorsTable
  <2>1. CASE b = a
    <3>1. db'.rows[b] = entry
      BY <1>5, <2>1 DEF IInv, TypeOK, Database
    <3> QED
      BY <1>3, <1>9, <1>15, <2>1, <3>1, NoneAssumption DEF Mirrors
  <2>2. CASE b # a
    <3>1. Mirrors(b)
      BY <1>1 DEF IInv, MemoryMirrorsTable, Up
    <3>2. db'.rows[b] = db.rows[b] /\ active'[b] = active[b]
      BY <1>1, <1>5, <2>2 DEF IInv, TypeOK, Database
    <3>3. CASE db.rows[b] = None
      BY <3>1, <3>2, <3>3 DEF Mirrors
    <3>4. CASE db.rows[b] # None
      <4>1. db.rows[b].flight \in FlightIds
        BY <3>4 DEF IInv, TypeOK, Database, ActiveRow
      <4>2. db.rows[b].flight # f
        BY <1>6, <3>4 DEF IInv, TablesOk, RowsOk
      <4> QED
        BY <1>9, <3>1, <3>2, <3>4, <4>1, <4>2 DEF Mirrors
    <3> QED
      BY <3>3, <3>4
  <2> QED
    BY <2>1, <2>2
<1> QED
  BY <1>10, <1>11, <1>12, <1>14, <1>16, <1>17, <1>18 DEF IInv

\* _update_flight_agg keeps the type of the row and its aircraft.
LEMMA CountedRow ==
    ASSUME NEW rec \in FlightRow, NEW x \in Fix
    PROVE  /\ Counted(rec, x) \in FlightRow
           /\ Counted(rec, x).last = Later(rec.last, x.ts)
           /\ Counted(rec, x).icao = rec.icao
<1>1. rec.last \in Nat /\ rec.total \in Nat /\ rec.adsb \in Nat /\ rec.mlat \in Nat
  BY DEF FlightRow
<1>2. Later(rec.last, x.ts) \in Nat
  BY <1>1 DEF Later, Fix
<1>3. \E t, m, n \in Nat : Counted(rec, x) =
        [icao |-> rec.icao, first |-> rec.first, last |-> Later(rec.last, x.ts),
         total |-> t, adsb |-> m, mlat |-> n, primary |-> rec.primary]
  <2> DEFINE m == IF x.source = "adsb" THEN rec.adsb + 1 ELSE rec.adsb
             n == IF x.source = "mlat" THEN rec.mlat + 1 ELSE rec.mlat
  <2>1. m \in Nat /\ n \in Nat /\ rec.total + 1 \in Nat
    BY <1>1
  <2>2. Counted(rec, x) =
          [icao |-> rec.icao, first |-> rec.first, last |-> Later(rec.last, x.ts),
           total |-> rec.total + 1, adsb |-> m, mlat |-> n, primary |-> rec.primary]
    <3>1. Counted(rec, x) = [rec EXCEPT !.last = Later(rec.last, x.ts),
                                        !.total = rec.total + 1, !.adsb = m, !.mlat = n]
      BY Zenon DEF Counted
    <3> HIDE DEF m, n
    <3> QED
      BY <3>1 DEF FlightRow
  <2> HIDE DEF m, n
  <2> QED
    BY <2>1, <2>2
<1> QED
  BY <1>2, <1>3 DEF FlightRow

LEMMA RecordStep ==
    ASSUME IInv, Record
    PROVE  IInv'
<1> DEFINE a == cur.icao
           f == active[a].flight
           rec == db.flights[f]
           pos == PositionOf(cur, f)
           upd == Counted(rec, cur)
           state == [flight |-> f, seen |-> cur.ts, posTs |-> cur.ts, place |-> cur.place]
<1>1. /\ pc = "recording" /\ pc' = "poll" /\ rec # None /\ cur' = None
      /\ db' = [db EXCEPT !.positions = @ \cup {pos}, !.flights[f] = upd]
      /\ active' = [active EXCEPT ![a] = state]
      /\ UNCHANGED <<clock, disk, dirty, cut>>
  BY DEF Record, FlightOf
<1>2. cur \in Fix /\ a \in Aircraft /\ cur.ts \in Nat /\ cur.place \in Places
      /\ cur.source \in Sources
  BY <1>1 DEF IInv, CurOk, TypeOK, Fix
<1>3. active[a] \in ActiveState /\ f \in FlightIds
  BY <1>1, <1>2 DEF IInv, CurOk, TypeOK, ActiveState
<1>4. rec \in FlightRow /\ rec.last \in Nat
  BY <1>1, <1>3 DEF IInv, TypeOK, Database, FlightRow
<1>5. Later(rec.last, cur.ts) \in Nat
  BY <1>2, <1>4 DEF Later
<1>6. upd \in FlightRow /\ upd.last = Later(rec.last, cur.ts) /\ upd.icao = rec.icao
  BY <1>2, <1>4, CountedRow
<1>7. /\ pos \in PositionRow /\ pos.flight = f /\ pos.ts = cur.ts
      /\ state \in ActiveState
  BY <1>2, <1>3 DEF PositionOf, PositionRow, ActiveState
<1>8. /\ db' \in Database
      /\ db'.flights = [db.flights EXCEPT ![f] = upd]
      /\ db'.positions = db.positions \cup {pos}
      /\ db'.rows = db.rows /\ db'.seq = db.seq
  BY <1>1, <1>3, <1>6, <1>7 DEF IInv, TypeOK, Database
<1>9. /\ db'.flights[f] = upd /\ upd # None
      /\ \A g \in FlightIds : g # f => db'.flights[g] = db.flights[g]
  BY <1>3, <1>6, <1>8, NoneAssumption DEF IInv, TypeOK, Database
<1> HIDE DEF pos
<1>10. /\ PositionsOf(db', f) = PositionsOf(db, f) \cup {pos}
       /\ \A g \in FlightIds : g # f => PositionsOf(db', g) = PositionsOf(db, g)
  BY <1>7, <1>8 DEF PositionsOf
<1>11. active'[a] = state /\ \A b \in Aircraft : b # a => active'[b] = active[b]
  BY <1>1, <1>2 DEF IInv, TypeOK
<1>12. TypeOK'
  BY <1>1, <1>7, <1>8 DEF IInv, TypeOK, Up
<1>13. CurOk' /\ Quiet' /\ InOrder'
  BY <1>1 DEF CurOk, Quiet, InOrder
<1>14. IdsOk(db')
  <2>1. \A g \in FlightIds : g > db'.seq => db'.flights[g] = None
    BY <1>1, <1>3, <1>8, <1>9 DEF IInv, TablesOk, IdsOk
  <2>2. \A p \in db.positions : p.flight \in FlightIds
    BY DEF IInv, TypeOK, Database, PositionRow
  <2>3. \A p \in db'.positions : db'.flights[p.flight] # None
    BY <1>3, <1>7, <1>8, <1>9, <2>2 DEF IInv, TablesOk, IdsOk
  <2> QED
    BY <2>1, <2>3 DEF IdsOk
<1>15. RowsOk(db')
  <2> SUFFICES ASSUME NEW b \in Aircraft, db'.rows[b] # None
               PROVE  /\ db'.flights[db'.rows[b].flight] # None
                      /\ db'.flights[db'.rows[b].flight].icao = b
    BY DEF RowsOk
  <2>1. db'.rows[b] = db.rows[b] /\ db.rows[b].flight \in FlightIds
    BY <1>8 DEF IInv, TypeOK, Database, ActiveRow
  <2>2. db.flights[db.rows[b].flight] # None /\ db.flights[db.rows[b].flight].icao = b
    BY <2>1 DEF IInv, TablesOk, RowsOk
  <2> QED
    BY <1>6, <1>9, <2>1, <2>2
<1>16. LastOk(db')
  <2> SUFFICES ASSUME NEW g \in FlightIds, db'.flights[g] # None, PositionsOf(db', g) # {}
               PROVE  /\ \E p \in PositionsOf(db', g) : p.ts = db'.flights[g].last
                      /\ \A p \in PositionsOf(db', g) : p.ts <= db'.flights[g].last
    BY DEF LastOk
  <2>1. CASE g # f
    BY <1>9, <1>10, <2>1 DEF IInv, TablesOk, LastOk
  <2>2. CASE g = f /\ PositionsOf(db, f) = {}
    <3>1. rec.last = cur.ts
      BY <1>1, <1>3, <2>2 DEF IInv, NonEmpty, NewFlightOnly
    <3>2. db'.flights[g].last = cur.ts
      BY <1>2, <1>6, <1>9, <2>2, <3>1 DEF Later
    <3> QED
      BY <1>2, <1>7, <1>10, <2>2, <3>2
  <2>3. CASE g = f /\ PositionsOf(db, f) # {}
    <3>1. /\ \E p \in PositionsOf(db, f) : p.ts = rec.last
          /\ \A p \in PositionsOf(db, f) : p.ts <= rec.last
      BY <1>1, <1>3, <2>3 DEF IInv, TablesOk, LastOk
    <3>2. \A p \in PositionsOf(db, f) : p.ts \in Nat
      BY DEF PositionsOf, IInv, TypeOK, Database, PositionRow
    <3>3. db'.flights[g].last = Later(rec.last, cur.ts)
      BY <1>6, <1>9, <2>3
    <3>4. Later(rec.last, cur.ts) >= rec.last /\ Later(rec.last, cur.ts) >= cur.ts
      BY <1>2, <1>4 DEF Later
    <3>5. pos.ts = cur.ts
      BY <1>7
    <3>6. \A p \in PositionsOf(db', g) : p.ts <= db'.flights[g].last
      <4> SUFFICES ASSUME NEW p \in PositionsOf(db', g) PROVE p.ts <= Later(rec.last, cur.ts)
        BY <3>3
      <4>1. CASE p \in PositionsOf(db, f)
        <5>1. p.ts \in Nat /\ p.ts <= rec.last
          BY <3>1, <3>2, <4>1
        <5> QED
          BY <1>2, <1>4, <5>1 DEF Later
      <4>2. CASE p = pos
        BY <3>4, <3>5, <4>2
      <4> QED
        BY <1>10, <2>3, <4>1, <4>2
    <3>7. \E p \in PositionsOf(db', g) : p.ts = db'.flights[g].last
      <4>1. CASE rec.last >= cur.ts
        BY <1>10, <2>3, <3>1, <3>3, <4>1 DEF Later
      <4>2. CASE ~(rec.last >= cur.ts)
        BY <1>10, <2>3, <3>3, <3>5, <4>2 DEF Later
      <4> QED
        BY <4>1, <4>2
    <3> QED
      BY <3>6, <3>7
  <2> QED
    BY <2>1, <2>2, <2>3
<1>17. TablesOk(db)' /\ TablesOk(disk)'
  BY <1>1, <1>14, <1>15, <1>16 DEF IInv, TablesOk
<1>18. NonEmpty'
  <2>1. \A g \in FlightIds : disk'.flights[g] # None => PositionsOf(disk', g) # {}
    BY <1>1 DEF IInv, NonEmpty
  <2>2. \A g \in FlightIds : db'.flights[g] # None => PositionsOf(db', g) # {}
    BY <1>1, <1>9, <1>10 DEF IInv, NonEmpty, NewFlightOnly
  <2> QED
    BY <2>1, <2>2 DEF NonEmpty
<1>19. MemoryMirrorsTable'
  <2> SUFFICES ASSUME ~dirty, NEW b \in Aircraft
               PROVE  Mirrors(b)'
    BY <1>1 DEF MemoryMirrorsTable
  <2>1. Mirrors(b) /\ Mirrors(a)
    BY <1>1, <1>2 DEF IInv, MemoryMirrorsTable, Up
  <2>2. db.rows[a] # None /\ db.rows[a].flight = f /\ active[a].posTs = rec.last
    BY <1>1, <2>1 DEF Mirrors, IInv, CurOk
  <2>3. CASE b = a
    <3>1. cur.ts >= rec.last
      BY <1>1, <2>2 DEF IInv, InOrder
    <3>2. upd.last = cur.ts
      BY <1>2, <1>4, <1>6, <3>1 DEF Later
    <3> QED
      BY <1>7, <1>8, <1>9, <1>11, <2>2, <2>3, <3>2, NoneAssumption DEF Mirrors
  <2>4. CASE b # a
    <3>1. CASE db.rows[b] = None
      BY <1>8, <1>11, <2>1, <2>4, <3>1 DEF Mirrors
    <3>2. CASE db.rows[b] # None
      <4>1. db.rows[b].flight \in FlightIds
        BY <3>2 DEF IInv, TypeOK, Database, ActiveRow
      <4>2. rec.icao = a /\ db.flights[db.rows[b].flight].icao = b
        BY <1>2, <2>2, <3>2 DEF IInv, TablesOk, RowsOk
      <4>3. db.rows[b].flight # f
        BY <2>4, <4>2
      <4> QED
        BY <1>8, <1>9, <1>11, <2>1, <2>4, <3>2, <4>1, <4>3 DEF Mirrors
    <3> QED
      BY <3>1, <3>2
  <2> QED
    BY <2>3, <2>4
<1> QED
  BY <1>12, <1>13, <1>17, <1>18, <1>19 DEF IInv

LEMMA CommitStep ==
    ASSUME IInv, pc \in {"expire", "stop"}, pc' \in {"idle", "down"},
           disk' = db, UNCHANGED <<clock, cur, active, db, dirty, cut>>
    PROVE  IInv'
<1>1. TypeOK' /\ CurOk' /\ Quiet' /\ InOrder'
  BY DEF IInv, TypeOK, CurOk, Quiet, InOrder, Up
<1>2. TablesOk(db)' /\ TablesOk(disk)'
  BY DEF IInv
<1>3. NonEmpty'
  BY DEF IInv, NonEmpty, NewFlightOnly, PositionsOf
<1>4. MemoryMirrorsTable'
  BY DEF IInv, MemoryMirrorsTable, Mirrors, Up
<1> QED
  BY <1>1, <1>2, <1>3, <1>4 DEF IInv

\* The steps that end in a rollback: a failing poll keeps _active and becomes dirty,
\* the death of the process loses _active.
LEMMA RollbackStep ==
    ASSUME IInv, db' = disk, cur' = None, UNCHANGED <<clock, disk, cut>>,
           \/ pc' = "idle" /\ dirty' = TRUE /\ active' = active
           \/ pc' = "down" /\ dirty' = dirty /\ active' = NoActive
    PROVE  IInv'
<1>1. TypeOK' /\ CurOk' /\ Quiet' /\ InOrder'
  BY DEF IInv, TypeOK, CurOk, Quiet, InOrder, Up, NoActive
<1>2. TablesOk(db)' /\ TablesOk(disk)'
  BY DEF IInv
<1>3. NonEmpty'
  BY DEF IInv, NonEmpty, PositionsOf
<1>4. MemoryMirrorsTable'
  BY DEF MemoryMirrorsTable, Up
<1> QED
  BY <1>1, <1>2, <1>3, <1>4 DEF IInv

LEMMA StartStep ==
    ASSUME IInv, Start
    PROVE  IInv'
<1>1. /\ pc = "down" /\ pc' = "idle" /\ dirty' = FALSE /\ active' = LoadActive(disk)
      /\ cut' \subseteq FlightIds
      /\ UNCHANGED <<clock, cur, db, disk>> /\ db = disk
  BY DEF Start, IInv, Quiet, TypeOK
<1>2. /\ LoadActive(disk) \in [Aircraft -> ActiveState \cup {None}]
      /\ \A a \in Aircraft :
           IF disk.rows[a] = None
             THEN LoadActive(disk)[a] = None
             ELSE /\ LoadActive(disk)[a] # None
                  /\ LoadActive(disk)[a].flight = disk.rows[a].flight
                  /\ LoadActive(disk)[a].posTs = disk.flights[disk.rows[a].flight].last
  BY LoadActiveMirrors DEF IInv, TypeOK, TablesOk, NonEmpty
<1>3. TypeOK' /\ CurOk' /\ Quiet' /\ InOrder'
  BY <1>1, <1>2 DEF IInv, TypeOK, CurOk, Quiet, InOrder, Up
<1>4. TablesOk(db)' /\ TablesOk(disk)'
  BY <1>1 DEF IInv
<1>5. NonEmpty'
  BY <1>1 DEF IInv, NonEmpty, PositionsOf
<1>6. MemoryMirrorsTable'
  BY <1>1, <1>2 DEF MemoryMirrorsTable, Mirrors
<1> QED
  BY <1>3, <1>4, <1>5, <1>6 DEF IInv

LEMMA BackfillStep ==
    ASSUME IInv, BackfillPrimarySource
    PROVE  IInv'
<1>1. /\ pc = "idle" /\ db = disk /\ disk' = Backfilled(disk) /\ db' = Backfilled(disk)
      /\ UNCHANGED <<clock, pc, cur, active, dirty, cut>>
  BY DEF BackfillPrimarySource, IInv, Quiet
<1>2. disk \in Database
  BY DEF IInv, TypeOK
<1>3. \A f \in FlightIds : f \in Unfinalised(disk) =>
        /\ disk.flights[f] \in FlightRow
        /\ [disk.flights[f] EXCEPT !.primary = "other"] \in FlightRow
        /\ [disk.flights[f] EXCEPT !.primary = "other"].last = disk.flights[f].last
        /\ [disk.flights[f] EXCEPT !.primary = "other"].icao = disk.flights[f].icao
  BY <1>2 DEF Unfinalised, Database, FlightRow
<1>4. /\ disk'.flights = [f \in FlightIds |->
            IF f \in Unfinalised(disk) THEN [disk.flights[f] EXCEPT !.primary = "other"]
                                       ELSE disk.flights[f]]
      /\ disk'.positions = disk.positions
      /\ disk'.rows = disk.rows /\ disk'.seq = disk.seq
      /\ disk' \in Database
  <2> DEFINE fl == [f \in FlightIds |->
            IF f \in Unfinalised(disk) THEN [disk.flights[f] EXCEPT !.primary = "other"]
                                       ELSE disk.flights[f]]
  <2>1. fl \in [FlightIds -> FlightRow \cup {None}]
    BY <1>2, <1>3 DEF Database
  <2>2. disk' = [disk EXCEPT !.flights = fl]
    BY <1>1, Zenon DEF Backfilled, WithPrimary
  <2> HIDE DEF fl
  <2>3. /\ disk'.flights = fl /\ disk'.positions = disk.positions
        /\ disk'.rows = disk.rows /\ disk'.seq = disk.seq /\ disk' \in Database
    BY <1>2, <2>1, <2>2 DEF Database
  <2> QED
    BY <2>3 DEF fl
<1>5. \A f \in FlightIds :
        /\ disk'.flights[f] # None <=> disk.flights[f] # None
        /\ disk.flights[f] # None =>
             /\ disk'.flights[f].last = disk.flights[f].last
             /\ disk'.flights[f].icao = disk.flights[f].icao
  <2> SUFFICES ASSUME NEW f \in FlightIds
               PROVE  /\ disk'.flights[f] # None <=> disk.flights[f] # None
                      /\ disk.flights[f] # None =>
                           /\ disk'.flights[f].last = disk.flights[f].last
                           /\ disk'.flights[f].icao = disk.flights[f].icao
    OBVIOUS
  <2>1. CASE f \in Unfinalised(disk)
    <3>1. disk'.flights[f] = [disk.flights[f] EXCEPT !.primary = "other"]
      BY <1>4, <2>1
    <3> QED
      BY <1>3, <2>1, <3>1, NoneAssumption
  <2>2. CASE f \notin Unfinalised(disk)
    BY <1>4, <2>2
  <2> QED
    BY <2>1, <2>2
<1>6. \A f \in FlightIds : PositionsOf(disk', f) = PositionsOf(disk, f)
  BY <1>4 DEF PositionsOf
<1>7. TypeOK' /\ CurOk' /\ Quiet' /\ InOrder'
  BY <1>1, <1>4 DEF IInv, TypeOK, CurOk, Quiet, InOrder
<1>8. IdsOk(disk')
  BY <1>2, <1>4, <1>5 DEF IInv, TablesOk, IdsOk, Database, PositionRow
<1>9. RowsOk(disk')
  BY <1>2, <1>4, <1>5 DEF IInv, TablesOk, RowsOk, Database, ActiveRow
<1>10. LastOk(disk')
  BY <1>5, <1>6 DEF IInv, TablesOk, LastOk
<1>11. TablesOk(db)' /\ TablesOk(disk)'
  BY <1>1, <1>8, <1>9, <1>10 DEF TablesOk
<1>12. NonEmpty'
  BY <1>1, <1>5, <1>6 DEF IInv, NonEmpty
<1>13. MemoryMirrorsTable'
  <2> SUFFICES ASSUME ~dirty, NEW a \in Aircraft
               PROVE  Mirrors(a)'
    BY <1>1 DEF MemoryMirrorsTable
  <2>1. Mirrors(a) /\ db'.rows = db.rows /\ active' = active
    BY <1>1, <1>4 DEF IInv, MemoryMirrorsTable, Up
  <2>2. CASE db.rows[a] = None
    BY <2>1, <2>2 DEF Mirrors
  <2>3. CASE db.rows[a] # None
    <3>1. db.rows[a].flight \in FlightIds /\ db.flights[db.rows[a].flight] # None
      BY <2>3 DEF IInv, TypeOK, TablesOk, RowsOk, Database, ActiveRow
    <3> QED
      BY <1>1, <1>5, <2>1, <2>3, <3>1 DEF Mirrors
  <2> QED
    BY <2>2, <2>3
<1> QED
  BY <1>7, <1>11, <1>12, <1>13 DEF IInv

LEMMA NextStep == IInv /\ [Next]_vars => IInv'
<1> SUFFICES ASSUME IInv, [Next]_vars PROVE IInv'
  OBVIOUS
<1>1. CASE BeginPoll
  BY <1>1, ControlStep DEF BeginPoll, Up, IInv, TypeOK
<1>2. CASE \E x \in [icao: Aircraft, ts: 0..MaxClock, place: Places, source: Sources] : Detect(x)
  BY <1>2, DetectStep
<1>3. CASE OpenFlight
  BY <1>3, OpenStep
<1>4. CASE Record
  BY <1>4, RecordStep
<1>5. CASE EndOfReports
  BY <1>5, ControlStep DEF EndOfReports, Up, IInv, TypeOK
<1>6. CASE \E a \in Aircraft : ExpireFlight(a)
  BY <1>6, CloseStep DEF ExpireFlight, Silent
<1>7. CASE Commit
  BY <1>7, CommitStep DEF Commit
<1>8. CASE PollFails
  BY <1>8, RollbackStep DEF PollFails
<1>9. CASE Start
  BY <1>9, StartStep
<1>10. CASE Crash
  BY <1>10, RollbackStep DEF Crash
<1>11. CASE BeginStop
  BY <1>11, ControlStep DEF BeginStop, Up, IInv, TypeOK
<1>12. CASE \E a \in Aircraft : StopClose(a)
  BY <1>12, CloseStep DEF StopClose
<1>13. CASE StopCommit
  BY <1>13, CommitStep DEF StopCommit
<1>14. CASE StopFails
  <2>1. cur = None
    BY <1>14 DEF StopFails, IInv, CurOk
  <2> QED
    BY <1>14, <2>1, RollbackStep DEF StopFails
<1>15. CASE BackfillPrimarySource
  BY <1>15, BackfillStep
<1>16. CASE Tick
  BY <1>16, ControlStep DEF Tick, Up, IInv, TypeOK
<1>17. CASE UNCHANGED vars
  <2>1. TypeOK' /\ CurOk' /\ Quiet' /\ InOrder'
    BY <1>17 DEF vars, IInv, TypeOK, CurOk, Quiet, InOrder
  <2>2. TablesOk(db)' /\ TablesOk(disk)'
    BY <1>17 DEF vars, IInv
  <2>3. NonEmpty' /\ MemoryMirrorsTable'
    BY <1>17 DEF vars, IInv, NonEmpty, NewFlightOnly, PositionsOf, MemoryMirrorsTable, Mirrors
  <2> QED
    BY <2>1, <2>2, <2>3 DEF IInv
<1> QED
  BY <1>1, <1>2, <1>3, <1>4, <1>5, <1>6, <1>7, <1>8, <1>9, <1>10, <1>11, <1>12, <1>13,
     <1>14, <1>15, <1>16, <1>17 DEF Next

-----------------------------------------------------------------------------
(* The theorems *)

\* The inductive invariant holds throughout every behaviour of the collector.
THEOREM Inductive == Spec => []IInv
  BY InitOk, NextStep, PTL DEF Spec

\* The tables and _active keep their types in every behaviour: in particular a
\* restart always finds the fix it restores, and an insertion its flight's entry.
THEOREM TypeCorrect == Spec => []TypeOK
<1>1. IInv => TypeOK
  BY DEF IInv
<1> QED
  BY <1>1, Inductive, PTL

\* A row of active_flights always names a flight of its own aircraft, through every
\* rollback and every id handed out again.
THEOREM RowsNameOwnFlightsAlways == Spec => []RowsNameOwnFlights
<1>1. IInv => RowsNameOwnFlights
  BY DEF IInv, TablesOk, RowsNameOwnFlights
<1> QED
  BY <1>1, Inductive, PTL

\* Until a poll raises, _active is the table active_flights, with the time of the
\* newest stored fix of each flight; every restart establishes it anew.
THEOREM MemoryMirrorsTableAlways == Spec => []MemoryMirrorsTable
<1>1. IInv => MemoryMirrorsTable
  BY DEF IInv
<1> QED
  BY <1>1, Inductive, PTL

\* Closing a flight inserts no position.
LEMMA CloseInsertsNothing ==
    ASSUME TypeOK, NEW a \in Aircraft, active[a] # None, CloseFlight(a)
    PROVE  db'.positions \subseteq db.positions
<1> DEFINE f == active[a].flight
           rec == db.flights[f]
           unlinked == [db EXCEPT !.rows[a] = None]
<1>1. unlinked.positions = db.positions /\ unlinked \in Database
  BY DEF TypeOK, Database
<1>2. CASE db' = unlinked
  BY <1>1, <1>2
<1>3. CASE db' = WithoutFlight(unlinked, f)
  BY <1>1, <1>3 DEF WithoutFlight, Database
<1>4. CASE db' = [unlinked EXCEPT
                    !.flights[f].primary = PrimarySource(rec.adsb, rec.mlat, rec.total)]
  BY <1>1, <1>4 DEF Database
<1> QED
  BY <1>2, <1>3, <1>4 DEF CloseFlight

\* As long as no poll has raised since the start, a fix is never stored under
\* another aircraft's flight.
THEOREM OwnFlightOnlyAlways == Spec => OwnFlightOnly
<1>1. IInv /\ [Next]_vars => [InsertsOwn]_vars
  <2> SUFFICES ASSUME IInv, Next PROVE InsertsOwn
    OBVIOUS
  <2> SUFFICES ASSUME NEW p \in db'.positions, p \notin db.positions, p \notin disk.positions,
                      ~dirty
               PROVE  db'.flights[p.flight] # None /\ db'.flights[p.flight].icao = p.icao
    BY DEF InsertsOwn
  <2>1. CASE Record
    <3> DEFINE a == cur.icao
               f == active[a].flight
               rec == db.flights[f]
               pos == PositionOf(cur, f)
    <3>1. /\ pc = "recording" /\ rec # None
          /\ db' = [db EXCEPT !.positions = @ \cup {pos}, !.flights[f] = Counted(rec, cur)]
      BY <2>1 DEF Record, FlightOf
    <3>2. cur \in Fix /\ a \in Aircraft
      BY <3>1 DEF IInv, CurOk, TypeOK, Fix
    <3>3. active[a] # None /\ f \in FlightIds
      BY <3>1, <3>2 DEF IInv, CurOk, TypeOK, ActiveState
    <3>4. rec \in FlightRow
      BY <3>1, <3>3 DEF IInv, TypeOK, Database
    <3>5. Counted(rec, cur) \in FlightRow /\ Counted(rec, cur).icao = rec.icao
      BY <3>2, <3>4, CountedRow
    <3>6. db'.positions = db.positions \cup {pos} /\ db'.flights[f] = Counted(rec, cur)
      BY <3>1, <3>3, <3>5 DEF IInv, TypeOK, Database
    <3>7. p.flight = f /\ p.icao = a
      BY <3>6 DEF PositionOf
    <3>8. Mirrors(a)
      BY <3>1, <3>2 DEF IInv, MemoryMirrorsTable, Up
    <3>9. rec.icao = a
      BY <3>2, <3>3, <3>8 DEF Mirrors, IInv, TablesOk, RowsOk
    <3> QED
      BY <3>5, <3>6, <3>7, <3>9, NoneAssumption
  <2>2. CASE \/ BeginPoll \/ EndOfReports \/ Commit \/ Start \/ BeginStop \/ StopCommit \/ Tick
    BY <2>2 DEF BeginPoll, EndOfReports, Commit, Start, BeginStop, StopCommit, Tick
  <2>3. CASE PollFails \/ Crash \/ StopFails
    BY <2>3 DEF PollFails, Crash, StopFails
  <2>4. CASE \E x \in [icao: Aircraft, ts: 0..MaxClock, place: Places, source: Sources] : Detect(x)
    BY <2>4, CloseInsertsNothing DEF Detect, NewAircraft, AfterGap, SameFlight, IInv
  <2>5. CASE \E a \in Aircraft : ExpireFlight(a) \/ StopClose(a)
    BY <2>5, CloseInsertsNothing DEF ExpireFlight, StopClose, Silent, IInv
  <2>6. CASE OpenFlight
    <3>1. db'.positions = db.positions
      BY <2>6 DEF OpenFlight, IInv, TypeOK, Database
    <3> QED
      BY <3>1
  <2>7. CASE BackfillPrimarySource
    <3>1. db'.positions = disk.positions
      BY <2>7 DEF BackfillPrimarySource, Backfilled, WithPrimary, IInv, TypeOK, Database
    <3> QED
      BY <3>1
  <2> QED
    BY <2>1, <2>2, <2>3, <2>4, <2>5, <2>6, <2>7 DEF Next
<1> QED
  BY <1>1, Inductive, PTL DEF Spec, OwnFlightOnly
-----------------------------------------------------------------------------
(* What each step does to the tables, flight by flight *)

SameFlightIn(d, e, f) == e.flights[f] = d.flights[f] /\ PositionsOf(e, f) = PositionsOf(d, f)

\* The row with the primary_source p; everything else as it was.
Finalised(d, e, f, p) ==
    /\ d.flights[f] # None /\ e.flights[f] # None
    /\ e.flights[f].icao = d.flights[f].icao /\ e.flights[f].last = d.flights[f].last
    /\ e.flights[f].total = d.flights[f].total
    /\ e.flights[f].adsb = d.flights[f].adsb /\ e.flights[f].mlat = d.flights[f].mlat
    /\ e.flights[f].primary = p
    /\ PositionsOf(e, f) = PositionsOf(d, f)

DroppedFlight(d, e, f) ==
    /\ d.flights[f] # None /\ e.flights[f] = None
    /\ d.flights[f].total < MinKeep
    /\ PositionsOf(e, f) = {}

LEMMA CloseFields ==
    ASSUME TypeOK, NEW a \in Aircraft, active[a] # None, CloseFlight(a)
    PROVE  /\ active[a].flight \in FlightIds
           /\ active'[a] = None /\ \A b \in Aircraft \ {a} : active'[b] = active[b]
           /\ db'.rows[a] = None /\ \A b \in Aircraft \ {a} : db'.rows[b] = db.rows[b]
           /\ db'.seq = db.seq /\ db'.positions \subseteq db.positions
           /\ \A g \in FlightIds \ {active[a].flight} : SameFlightIn(db, db', g)
           /\ \/ db.flights[active[a].flight] = None /\ SameFlightIn(db, db', active[a].flight)
              \/ DroppedFlight(db, db', active[a].flight)
              \/ \E p \in {"adsb", "mlat", "mixed", "other"} :
                   Finalised(db, db', active[a].flight, p)
<1> DEFINE f == active[a].flight
           rec == db.flights[f]
           unlinked == [db EXCEPT !.rows[a] = None]
<1>1. f \in FlightIds /\ rec \in FlightRow \cup {None}
  BY DEF TypeOK, ActiveState, Database
<1>2. active'[a] = None /\ \A b \in Aircraft \ {a} : active'[b] = active[b]
  BY DEF CloseFlight, TypeOK
<1>3. /\ unlinked \in Database
      /\ unlinked.flights = db.flights /\ unlinked.positions = db.positions
      /\ unlinked.seq = db.seq /\ unlinked.rows = [db.rows EXCEPT ![a] = None]
      /\ unlinked.rows[a] = None /\ \A b \in Aircraft \ {a} : unlinked.rows[b] = db.rows[b]
  BY DEF TypeOK, Database
<1>4. CASE rec = None /\ db' = unlinked
  BY <1>1, <1>2, <1>3, <1>4 DEF SameFlightIn, PositionsOf
<1>5. CASE rec # None /\ rec.total < MinKeep /\ db' = WithoutFlight(unlinked, f)
  <2>1. /\ db'.flights = [db.flights EXCEPT ![f] = None]
        /\ db'.positions = {p \in db.positions : p.flight # f}
        /\ db'.seq = db.seq /\ db'.rows = unlinked.rows
    BY <1>1, <1>3, <1>5 DEF WithoutFlight, Database
  <2>2. db'.flights[f] = None /\ \A g \in FlightIds \ {f} : db'.flights[g] = db.flights[g]
    BY <1>1, <2>1 DEF TypeOK, Database
  <2>3. PositionsOf(db', f) = {} /\ \A g \in FlightIds \ {f} : PositionsOf(db', g) = PositionsOf(db, g)
    BY <2>1 DEF PositionsOf
  <2> QED
    BY <1>1, <1>2, <1>3, <1>5, <2>1, <2>2, <2>3 DEF SameFlightIn, DroppedFlight
<1>6. CASE /\ rec # None
           /\ db' = [unlinked EXCEPT
                       !.flights[f].primary = PrimarySource(rec.adsb, rec.mlat, rec.total)]
  <2> DEFINE c == PrimarySource(rec.adsb, rec.mlat, rec.total)
  <2>1. rec \in FlightRow /\ c \in {"adsb", "mlat", "mixed", "other"}
    BY <1>1, <1>6, PrimarySourceType DEF FlightRow
  <2>2. [rec EXCEPT !.primary = c] \in FlightRow /\ [rec EXCEPT !.primary = c].primary = c
    BY <2>1 DEF FlightRow
  <2>3. /\ db'.flights = [db.flights EXCEPT ![f] = [rec EXCEPT !.primary = c]]
        /\ db'.positions = db.positions
        /\ db'.seq = db.seq /\ db'.rows = unlinked.rows
    BY <1>1, <1>3, <1>6, <2>2 DEF Database
  <2>4. \A g \in FlightIds : PositionsOf(db', g) = PositionsOf(db, g)
    BY <2>3 DEF PositionsOf
  <2>5. db'.flights[f] = [rec EXCEPT !.primary = c]
        /\ \A g \in FlightIds \ {f} : db'.flights[g] = db.flights[g]
    BY <1>1, <2>3 DEF TypeOK, Database
  <2>6. Finalised(db, db', f, c)
    <3>1. /\ [rec EXCEPT !.primary = c].icao = rec.icao /\ [rec EXCEPT !.primary = c].last = rec.last
          /\ [rec EXCEPT !.primary = c].total = rec.total
          /\ [rec EXCEPT !.primary = c].adsb = rec.adsb /\ [rec EXCEPT !.primary = c].mlat = rec.mlat
      BY <2>1 DEF FlightRow
    <3> HIDE DEF c
    <3> QED
      BY <1>6, <2>2, <2>4, <2>5, <3>1, NoneAssumption, <1>1 DEF Finalised
  <2> QED
    BY <1>1, <1>2, <1>3, <2>1, <2>3, <2>4, <2>5, <2>6 DEF SameFlightIn
<1> QED
  BY <1>4, <1>5, <1>6 DEF CloseFlight

LEMMA OpenFields ==
    ASSUME IInv, OpenFlight
    PROVE  /\ cur \in Fix /\ cur.icao \in Aircraft /\ active[cur.icao] = None
           /\ db.seq + 1 \in FlightIds /\ db'.seq = db.seq + 1
           /\ db.flights[db.seq + 1] = None /\ PositionsOf(db, db.seq + 1) = {}
           /\ active'[cur.icao] = [flight |-> db.seq + 1, seen |-> cur.ts,
                                   posTs |-> cur.ts, place |-> cur.place]
           /\ \A b \in Aircraft \ {cur.icao} : active'[b] = active[b]
           /\ db'.rows[cur.icao] = [flight |-> db.seq + 1, seen |-> cur.ts]
           /\ \A b \in Aircraft \ {cur.icao} : db'.rows[b] = db.rows[b]
           /\ db'.flights[db.seq + 1] =
                [icao |-> cur.icao, first |-> cur.ts, last |-> cur.ts,
                 total |-> 0, adsb |-> 0, mlat |-> 0, primary |-> None]
           /\ db'.flights[db.seq + 1] # None
           /\ db'.positions = db.positions
           /\ \A g \in FlightIds : PositionsOf(db', g) = PositionsOf(db, g)
           /\ \A g \in FlightIds \ {db.seq + 1} : db'.flights[g] = db.flights[g]
<1> DEFINE f == db.seq + 1
           a == cur.icao
           row == [icao |-> a, first |-> cur.ts, last |-> cur.ts,
                   total |-> 0, adsb |-> 0, mlat |-> 0, primary |-> None]
           entry == [flight |-> f, seen |-> cur.ts]
           state == [flight |-> f, seen |-> cur.ts, posTs |-> cur.ts, place |-> cur.place]
<1>1. /\ pc = "opening" /\ f \in FlightIds
      /\ db' = [db EXCEPT !.flights[f] = row, !.rows[a] = entry, !.seq = f]
      /\ active' = [active EXCEPT ![a] = state]
  BY DEF OpenFlight, NextId
<1>2. cur \in Fix /\ a \in Aircraft /\ cur.ts \in Nat /\ cur.place \in Places /\ active[a] = None
  BY <1>1 DEF IInv, CurOk, TypeOK, Fix
<1>3. row \in FlightRow
  BY <1>1, <1>2 DEF FlightRow
<1>4. f > db.seq
  BY DEF IInv, TypeOK, Database
<1>5. /\ db'.flights = [db.flights EXCEPT ![f] = row]
      /\ db'.rows = [db.rows EXCEPT ![a] = entry]
      /\ db'.positions = db.positions
      /\ db'.seq = f
  BY <1>1 DEF IInv, TypeOK, Database
<1>6. db.flights[f] = None
  BY <1>1, <1>4 DEF IInv, TablesOk, IdsOk, FlightIds
<1>7. PositionsOf(db, f) = {}
  BY <1>6 DEF PositionsOf, IInv, TablesOk, IdsOk
<1>8. /\ db'.flights[f] = row
      /\ \A g \in FlightIds \ {f} : db'.flights[g] = db.flights[g]
      /\ db'.rows[a] = entry /\ \A b \in Aircraft \ {a} : db'.rows[b] = db.rows[b]
  BY <1>1, <1>2, <1>5 DEF IInv, TypeOK, Database
<1>9. active'[a] = state /\ \A b \in Aircraft \ {a} : active'[b] = active[b]
  BY <1>1, <1>2 DEF IInv, TypeOK
<1>10. \A g \in FlightIds : PositionsOf(db', g) = PositionsOf(db, g)
  BY <1>5 DEF PositionsOf
<1>11. row # None
  BY <1>3, NoneAssumption
<1> QED
  BY <1>1, <1>2, <1>5, <1>6, <1>7, <1>8, <1>9, <1>10, <1>11

LEMMA RecordFields ==
    ASSUME IInv, Record
    PROVE  /\ cur \in Fix /\ cur.icao \in Aircraft /\ active[cur.icao] # None
           /\ active[cur.icao].flight \in FlightIds
           /\ db.flights[active[cur.icao].flight] \in FlightRow
           /\ db.flights[active[cur.icao].flight] # None
           /\ PositionOf(cur, active[cur.icao].flight) \in PositionRow
           /\ active'[cur.icao] = [flight |-> active[cur.icao].flight, seen |-> cur.ts,
                                   posTs |-> cur.ts, place |-> cur.place]
           /\ active'[cur.icao] # None
           /\ \A b \in Aircraft \ {cur.icao} : active'[b] = active[b]
           /\ db'.rows = db.rows /\ db'.seq = db.seq
           /\ db'.flights[active[cur.icao].flight] =
                Counted(db.flights[active[cur.icao].flight], cur)
           /\ db'.flights[active[cur.icao].flight] # None
           /\ db'.positions = db.positions \cup {PositionOf(cur, active[cur.icao].flight)}
           /\ PositionsOf(db', active[cur.icao].flight) =
                PositionsOf(db, active[cur.icao].flight)
                  \cup {PositionOf(cur, active[cur.icao].flight)}
           /\ \A g \in FlightIds \ {active[cur.icao].flight} : SameFlightIn(db, db', g)
<1> DEFINE a == cur.icao
           f == active[a].flight
           rec == db.flights[f]
           pos == PositionOf(cur, f)
           upd == Counted(rec, cur)
           state == [flight |-> f, seen |-> cur.ts, posTs |-> cur.ts, place |-> cur.place]
<1>1. /\ pc = "recording" /\ rec # None
      /\ db' = [db EXCEPT !.positions = @ \cup {pos}, !.flights[f] = upd]
      /\ active' = [active EXCEPT ![a] = state]
  BY DEF Record, FlightOf
<1>2. cur \in Fix /\ a \in Aircraft /\ cur.ts \in Nat /\ cur.place \in Places
      /\ cur.source \in Sources /\ active[a] # None
  BY <1>1 DEF IInv, CurOk, TypeOK, Fix
<1>3. active[a] \in ActiveState /\ f \in FlightIds
  BY <1>2 DEF IInv, TypeOK, ActiveState
<1>4. rec \in FlightRow
  BY <1>1, <1>3 DEF IInv, TypeOK, Database
<1>5. upd \in FlightRow /\ upd # None
  BY <1>2, <1>4, CountedRow, NoneAssumption
<1>6. pos \in PositionRow /\ pos.flight = f /\ state \in ActiveState /\ state # None
  BY <1>2, <1>3, NoneAssumption DEF PositionOf, PositionRow, ActiveState
<1>7. /\ db'.flights = [db.flights EXCEPT ![f] = upd]
      /\ db'.positions = db.positions \cup {pos}
      /\ db'.rows = db.rows /\ db'.seq = db.seq
  BY <1>1 DEF IInv, TypeOK, Database
<1>8. db'.flights[f] = upd /\ \A g \in FlightIds \ {f} : db'.flights[g] = db.flights[g]
  BY <1>3, <1>7 DEF IInv, TypeOK, Database
<1> HIDE DEF pos
<1>9. /\ PositionsOf(db', f) = PositionsOf(db, f) \cup {pos}
      /\ \A g \in FlightIds \ {f} : PositionsOf(db', g) = PositionsOf(db, g)
  BY <1>6, <1>7 DEF PositionsOf
<1>10. active'[a] = state /\ \A b \in Aircraft \ {a} : active'[b] = active[b]
  BY <1>1, <1>2 DEF IInv, TypeOK
<1> QED
  BY <1>1, <1>2, <1>3, <1>4, <1>5, <1>6, <1>7, <1>8, <1>9, <1>10 DEF pos, SameFlightIn

\* The backfill finalises orphans and touches nothing else.
LEMMA BackfillFields ==
    ASSUME IInv, BackfillPrimarySource
    PROVE  /\ db = disk /\ db' = disk'
           /\ disk'.rows = disk.rows /\ disk'.seq = disk.seq /\ disk'.positions = disk.positions
           /\ \A f \in FlightIds : IF f \in Orphans(disk)
                                     THEN Finalised(disk, disk', f, "other")
                                     ELSE SameFlightIn(disk, disk', f)
<1>1. db = disk /\ disk' = Backfilled(disk) /\ db' = disk' /\ disk \in Database
  BY DEF BackfillPrimarySource, IInv, Quiet, TypeOK
<1>2. \A f \in FlightIds : f \in Unfinalised(disk) <=> f \in Orphans(disk)
  BY DEF Unfinalised, Orphans, Referenced, Listed
<1> DEFINE fl == [f \in FlightIds |->
            IF f \in Unfinalised(disk) THEN [disk.flights[f] EXCEPT !.primary = "other"]
                                       ELSE disk.flights[f]]
<1>3. disk' = [disk EXCEPT !.flights = fl]
  BY <1>1, Zenon DEF Backfilled, WithPrimary
<1>4. \A f \in FlightIds : fl[f] = IF f \in Orphans(disk)
                                     THEN [disk.flights[f] EXCEPT !.primary = "other"]
                                     ELSE disk.flights[f]
  BY <1>2
<1> HIDE DEF fl
<1>5. /\ disk'.flights = fl /\ disk'.positions = disk.positions
      /\ disk'.rows = disk.rows /\ disk'.seq = disk.seq
  BY <1>1, <1>3 DEF Database
<1>6. \A f \in FlightIds : PositionsOf(disk', f) = PositionsOf(disk, f)
  BY <1>5 DEF PositionsOf
<1>7. ASSUME NEW f \in FlightIds, f \in Orphans(disk)
      PROVE  Finalised(disk, disk', f, "other")
  <2>1. disk.flights[f] \in FlightRow /\ disk.flights[f] # None
    BY <1>1, <1>7 DEF Orphans, Database
  <2>2. [disk.flights[f] EXCEPT !.primary = "other"] \in FlightRow
    BY <2>1 DEF FlightRow
  <2>3. disk'.flights[f] = [disk.flights[f] EXCEPT !.primary = "other"]
    BY <1>4, <1>5, <1>7
  <2> QED
    BY <1>6, <2>1, <2>2, <2>3, NoneAssumption DEF Finalised, FlightRow
<1>8. ASSUME NEW f \in FlightIds, f \notin Orphans(disk)
      PROVE  SameFlightIn(disk, disk', f)
  BY <1>4, <1>5, <1>6, <1>8 DEF SameFlightIn
<1> QED
  BY <1>1, <1>5, <1>7, <1>8
-----------------------------------------------------------------------------
(* The counters of a flight and its positions *)

\* An entry of _active has a last point.
PlacesKnown == \A a \in Aircraft : active[a] # None => active[a].place # None

\* No fix an aircraft has stored under the flight of its entry is later than the entry,
\* wherever rollbacks have left the flight.
NoneNewer(d) == \A a \in Aircraft : active[a] # None =>
    \A p \in PositionsOf(d, active[a].flight) : p.icao = a => p.ts <= active[a].posTs

\* The fix about to be recorded is later than all the aircraft has stored there, so it
\* is not among the positions yet and counts as one more.
CurNewer(d) == pc = "recording" =>
    \A p \in PositionsOf(d, active[cur.icao].flight) : p.icao = cur.icao => p.ts < cur.ts

Counting ==
    /\ CountsOk(db) /\ CountsOk(disk)
    /\ IsFiniteSet(db.positions) /\ IsFiniteSet(disk.positions)
    /\ disk.seq <= db.seq
    /\ PlacesKnown
    /\ NoneNewer(db) /\ NoneNewer(disk)
    /\ CurNewer(db) /\ CurNewer(disk)

LEMMA CountKept ==
    ASSUME NEW d, NEW e, NEW f, CountOk(d, f), SameFlightIn(d, e, f) \/ \E p : Finalised(d, e, f, p)
    PROVE  CountOk(e, f)
  BY DEF CountOk, SameFlightIn, Finalised

LEMMA CountingInit == Init => Counting
<1> SUFFICES ASSUME Init PROVE Counting
  OBVIOUS
<1>1. \A f \in FlightIds : EmptyDb.flights[f] = None /\ PositionsOf(EmptyDb, f) = {}
  BY DEF EmptyDb, PositionsOf
<1>2. CountsOk(EmptyDb) /\ EmptyDb.positions = {} /\ EmptyDb.seq = 0
  BY <1>1 DEF CountsOk, CountOk, EmptyDb
<1>3. PlacesKnown /\ NoneNewer(EmptyDb) /\ CurNewer(EmptyDb)
  BY DEF Init, NoActive, PlacesKnown, NoneNewer, CurNewer
<1> QED
  BY <1>2, <1>3, FS_EmptySet DEF Init, Counting

\* Steps that leave the tables and _active alone and begin no insertion.
LEMMA CountingRest ==
    ASSUME Counting, UNCHANGED <<active, db, disk>>,
           pc' = "recording" => pc = "recording" /\ cur' = cur
    PROVE  Counting'
  BY DEF Counting, CountsOk, CountOk, PlacesKnown, NoneNewer, CurNewer, PositionsOf

\* A record of an open flight is later than the entry, which is later than the rest.
LEMMA CountingSame ==
    ASSUME IInv, Counting, NEW x \in Fix, SameFlight(x), cur' = x, disk' = disk
    PROVE  Counting'
<1>1. /\ active[x.icao] # None /\ x.icao \in Aircraft /\ x.ts > active[x.icao].posTs
      /\ UNCHANGED <<active, db, disk>>
  BY DEF SameFlight, Counting, PlacesKnown, Fix
<1>2. active[x.icao].posTs \in Nat /\ x.ts \in Nat
  BY <1>1 DEF IInv, TypeOK, ActiveState, Fix
<1>3. ASSUME NEW d \in Database, NoneNewer(d), NEW p \in PositionsOf(d, active[x.icao].flight),
             p.icao = x.icao
      PROVE  p.ts < x.ts
  <2>1. p.ts \in Nat /\ p.ts <= active[x.icao].posTs
    BY <1>1, <1>3 DEF Database, PositionRow, PositionsOf, NoneNewer
  <2> QED
    BY <1>1, <1>2, <2>1
<1>4. db \in Database /\ disk \in Database /\ NoneNewer(db) /\ NoneNewer(disk)
  BY DEF IInv, TypeOK, Counting
<1>5. CurNewer(db)' /\ CurNewer(disk)'
  BY <1>1, <1>3, <1>4 DEF CurNewer, PositionsOf
<1> QED
  BY <1>1, <1>5 DEF Counting, CountsOk, CountOk, PlacesKnown, NoneNewer, PositionsOf

LEMMA CountingClose ==
    ASSUME IInv, Counting, NEW a \in Aircraft, active[a] # None, CloseFlight(a), disk' = disk,
           pc' # "recording"
    PROVE  Counting'
<1> DEFINE f == active[a].flight
<1>1. /\ f \in FlightIds
      /\ active'[a] = None /\ \A b \in Aircraft \ {a} : active'[b] = active[b]
      /\ db'.seq = db.seq /\ db'.positions \subseteq db.positions
      /\ \A g \in FlightIds \ {f} : SameFlightIn(db, db', g)
      /\ \/ SameFlightIn(db, db', f)
         \/ DroppedFlight(db, db', f)
         \/ \E p : Finalised(db, db', f, p)
  BY CloseFields DEF IInv
<1>2. CountsOk(db)'
  <2> SUFFICES ASSUME NEW g \in FlightIds PROVE CountOk(db', g)
    BY DEF CountsOk
  <2>1. CountOk(db, g)
    BY DEF Counting, CountsOk
  <2>2. CASE g = f /\ DroppedFlight(db, db', f)
    BY <2>2 DEF CountOk, DroppedFlight
  <2>3. CASE g # f \/ ~DroppedFlight(db, db', f)
    BY <1>1, <2>1, <2>3, CountKept
  <2> QED
    BY <2>2, <2>3
<1>3. IsFiniteSet(db'.positions)
  BY <1>1, FS_Subset DEF Counting
<1>4. PlacesKnown'
  BY <1>1 DEF Counting, PlacesKnown
<1>5. NoneNewer(db)' /\ NoneNewer(disk)'
  <2>1. \A b \in Aircraft : active'[b] # None => active'[b] = active[b]
    BY <1>1
  <2>2. \A g : PositionsOf(db', g) \subseteq PositionsOf(db, g)
    BY <1>1 DEF PositionsOf
  <2> QED
    BY <2>1, <2>2 DEF Counting, NoneNewer
<1>6. CountsOk(disk)'
  BY DEF Counting
<1> QED
  BY <1>1, <1>2, <1>3, <1>4, <1>5, <1>6 DEF Counting, CurNewer

LEMMA CountingOpen ==
    ASSUME IInv, Counting, OpenFlight
    PROVE  Counting'
<1> DEFINE a == cur.icao
           f == db.seq + 1
<1>1. /\ a \in Aircraft /\ f \in FlightIds /\ db'.seq = f
      /\ PositionsOf(db, f) = {}
      /\ active'[a] = [flight |-> f, seen |-> cur.ts, posTs |-> cur.ts, place |-> cur.place]
      /\ \A b \in Aircraft \ {a} : active'[b] = active[b]
      /\ db'.flights[f] = [icao |-> cur.icao, first |-> cur.ts, last |-> cur.ts,
                           total |-> 0, adsb |-> 0, mlat |-> 0, primary |-> None]
      /\ db'.flights[f] # None
      /\ db'.positions = db.positions
      /\ \A g \in FlightIds : PositionsOf(db', g) = PositionsOf(db, g)
      /\ \A g \in FlightIds \ {f} : db'.flights[g] = db.flights[g]
      /\ disk' = disk /\ cur' = cur
  BY OpenFields DEF OpenFlight
<1>2. disk.seq \in Nat /\ db.seq \in Nat /\ disk.seq <= db.seq /\ cur.place # None
  BY OpenFields, NoneAssumption DEF IInv, TypeOK, Database, Counting, Fix
<1>3. disk.flights[f] = None
  BY <1>1, <1>2 DEF IInv, TablesOk, IdsOk, FlightIds
<1>4. PositionsOf(disk, f) = {}
  BY <1>3 DEF IInv, TablesOk, IdsOk, PositionsOf
<1>5. CountsOk(db)'
  <2> SUFFICES ASSUME NEW g \in FlightIds PROVE CountOk(db', g)
    BY DEF CountsOk
  <2>1. CASE g = f
    <3>1. PositionsOf(db', f) = {}
      BY <1>1
    <3>2. {p \in PositionsOf(db', f) : p.source = "adsb"} = {}
          /\ {p \in PositionsOf(db', f) : p.source = "mlat"} = {}
      BY <3>1
    <3>3. /\ db'.flights[f].total = 0 /\ db'.flights[f].adsb = 0 /\ db'.flights[f].mlat = 0
          /\ db'.flights[f] # None
      BY <1>1
    <3>4. Cardinality({}) = 0
      BY FS_EmptySet
    <3> QED
      BY <2>1, <3>1, <3>2, <3>3, <3>4 DEF CountOk
  <2>2. CASE g # f
    BY <1>1, <2>2, CountKept DEF Counting, CountsOk, SameFlightIn
  <2> QED
    BY <2>1, <2>2
<1>6. PlacesKnown'
  BY <1>1, <1>2 DEF Counting, PlacesKnown
<1>7. ASSUME NEW d, NEW b \in Aircraft, NoneNewer(d), PositionsOf(d, f) = {}, active'[b] # None,
             NEW p \in PositionsOf(d, active'[b].flight), p.icao = b
      PROVE  b # a /\ p.ts <= active'[b].posTs
  BY <1>1, <1>7 DEF NoneNewer
<1>8. NoneNewer(disk)' /\ CurNewer(disk)'
  BY <1>1, <1>4, <1>7 DEF Counting, NoneNewer, CurNewer
<1>9. NoneNewer(db)' /\ CurNewer(db)'
  <2>1. \A g : PositionsOf(db', g) = PositionsOf(db, g)
    BY <1>1 DEF PositionsOf
  <2> QED
    BY <1>1, <1>7, <2>1 DEF Counting, NoneNewer, CurNewer
<1> QED
  BY <1>1, <1>2, <1>5, <1>6, <1>8, <1>9 DEF Counting

\* _update_flight_agg counts one fix more, in the class of its source.
LEMMA CountedTotals ==
    ASSUME NEW rec \in FlightRow, NEW x \in Fix
    PROVE  /\ Counted(rec, x).total = rec.total + 1
           /\ Counted(rec, x).adsb = IF x.source = "adsb" THEN rec.adsb + 1 ELSE rec.adsb
           /\ Counted(rec, x).mlat = IF x.source = "mlat" THEN rec.mlat + 1 ELSE rec.mlat
           /\ Counted(rec, x).primary = rec.primary
<1> DEFINE m == IF x.source = "adsb" THEN rec.adsb + 1 ELSE rec.adsb
           n == IF x.source = "mlat" THEN rec.mlat + 1 ELSE rec.mlat
<1>1. Counted(rec, x) = [rec EXCEPT !.last = Later(rec.last, x.ts),
                                    !.total = rec.total + 1, !.adsb = m, !.mlat = n]
  BY Zenon DEF Counted
<1>2. Counted(rec, x).adsb = m /\ Counted(rec, x).mlat = n
      /\ Counted(rec, x).total = rec.total + 1 /\ Counted(rec, x).primary = rec.primary
  <2> HIDE DEF m, n
  <2> QED
    BY <1>1 DEF FlightRow
<1> QED
  BY <1>2

LEMMA CountingRecord ==
    ASSUME IInv, Counting, Record
    PROVE  Counting'
<1> DEFINE a == cur.icao
           f == active[a].flight
           rec == db.flights[f]
           pos == PositionOf(cur, f)
           old == PositionsOf(db, f)
<1>1. /\ cur \in Fix /\ a \in Aircraft /\ active[a] # None /\ f \in FlightIds
      /\ rec \in FlightRow /\ rec # None
      /\ active'[a] = [flight |-> f, seen |-> cur.ts, posTs |-> cur.ts, place |-> cur.place]
      /\ \A b \in Aircraft \ {a} : active'[b] = active[b]
      /\ db'.seq = db.seq
      /\ db'.flights[f] = Counted(rec, cur) /\ db'.flights[f] # None
      /\ db'.positions = db.positions \cup {pos}
      /\ PositionsOf(db', f) = old \cup {pos}
      /\ \A g \in FlightIds \ {f} : SameFlightIn(db, db', g)
  BY RecordFields
<1>2. pc = "recording" /\ pc' = "poll" /\ disk' = disk
  BY DEF Record
<1>3. pos.flight = f /\ pos.icao = a /\ pos.ts = cur.ts /\ pos.source = cur.source
      /\ cur.ts \in Nat /\ cur.place # None
  BY <1>1, NoneAssumption DEF PositionOf, Fix
<1>4. IsFiniteSet(db'.positions) /\ IsFiniteSet(old)
  BY <1>1, FS_AddElement, FS_Subset DEF Counting, PositionsOf
<1>5. \A p \in PositionsOf(db, f) \cup PositionsOf(disk, f) : p.icao = a => p.ts < cur.ts
  BY <1>2 DEF Counting, CurNewer
<1>6. pos \notin old
  BY <1>3, <1>5
<1> HIDE DEF pos
<1>7. CountOk(db', f)
  <2>1. /\ rec.total = Cardinality(old)
        /\ rec.adsb = Cardinality({p \in old : p.source = "adsb"})
        /\ rec.mlat = Cardinality({p \in old : p.source = "mlat"})
        /\ \A p \in old : p.ts <= rec.last
    BY <1>1 DEF Counting, CountsOk, CountOk
  <2>2. Cardinality(old \cup {pos}) = rec.total + 1
    <3> HIDE DEF old
    <3>1. Cardinality(old \cup {pos}) = Cardinality(old) + 1
      BY <1>4, <1>6, FS_AddElement
    <3> QED
      BY <2>1, <3>1
  <2>3. ASSUME NEW s \in {"adsb", "mlat"}
        PROVE  Cardinality({p \in old \cup {pos} : p.source = s}) =
                 IF cur.source = s THEN Cardinality({p \in old : p.source = s}) + 1
                                   ELSE Cardinality({p \in old : p.source = s})
    <3> DEFINE part == {p \in old : p.source = s}
               more == {p \in old \cup {pos} : p.source = s}
    <3>1. IsFiniteSet(part) /\ pos \notin part
      BY <1>4, <1>6, FS_Subset
    <3>2. CASE cur.source = s
      <4>1. more = part \cup {pos}
        BY <1>3, <3>2
      <4> QED
        BY <3>1, <3>2, <4>1, FS_AddElement
    <3>3. CASE cur.source # s
      <4>1. more = part
        BY <1>3, <3>3
      <4> QED
        BY <3>3, <4>1
    <3> QED
      BY <3>2, <3>3
  <2>4. /\ db'.flights[f].total = rec.total + 1
        /\ db'.flights[f].adsb = IF cur.source = "adsb" THEN rec.adsb + 1 ELSE rec.adsb
        /\ db'.flights[f].mlat = IF cur.source = "mlat" THEN rec.mlat + 1 ELSE rec.mlat
        /\ db'.flights[f].last = Later(rec.last, cur.ts)
    BY <1>1, CountedTotals, CountedRow
  <2>5. \A p \in old \cup {pos} : p.ts <= db'.flights[f].last
    <3>1. \A p \in old : p.ts \in Nat
      BY DEF PositionsOf, IInv, TypeOK, Database, PositionRow
    <3>2. rec.last \in Nat
      BY <1>1 DEF FlightRow
    <3>3. Later(rec.last, cur.ts) >= rec.last /\ Later(rec.last, cur.ts) >= cur.ts
          /\ Later(rec.last, cur.ts) \in Nat
      BY <1>3, <3>2 DEF Later
    <3>4. ASSUME NEW p \in old PROVE p.ts <= Later(rec.last, cur.ts)
      <4>1. p.ts \in Nat /\ p.ts <= rec.last
        BY <2>1, <3>1
      <4> QED
        BY <3>2, <3>3, <4>1
    <3> QED
      BY <1>3, <2>4, <3>3, <3>4
  <2> HIDE DEF old
  <2> QED
    BY <1>1, <2>1, <2>2, <2>3, <2>4, <2>5 DEF CountOk
<1>8. CountsOk(db)'
  <2> SUFFICES ASSUME NEW g \in FlightIds, g # f PROVE CountOk(db', g)
    BY <1>7 DEF CountsOk
  <2> QED
    BY <1>1, CountKept DEF Counting, CountsOk
<1>9. PlacesKnown'
  BY <1>1, <1>3 DEF Counting, PlacesKnown
<1>10. ASSUME NEW d, NEW e, d \in {db, disk}, e.positions \subseteq d.positions \cup {pos},
              NEW b \in Aircraft, active'[b] # None,
              NEW p \in PositionsOf(e, active'[b].flight), p.icao = b
       PROVE  p.ts <= active'[b].posTs
  <2>1. CASE b = a
    <3>1. active'[b].posTs = cur.ts /\ active'[b].flight = f
      BY <1>1, <2>1
    <3>2. p = pos \/ p \in PositionsOf(d, f)
      BY <1>10, <3>1 DEF PositionsOf
    <3>3. p \in PositionsOf(d, f) => p.ts \in Nat
      BY <1>10 DEF PositionsOf, IInv, TypeOK, Database, PositionRow
    <3> QED
      BY <1>3, <1>5, <1>10, <2>1, <3>1, <3>2, <3>3
  <2>2. CASE b # a
    <3>1. p # pos /\ active'[b] = active[b]
      BY <1>1, <1>3, <1>10, <2>2
    <3>2. p \in PositionsOf(d, active[b].flight)
      BY <1>10, <3>1 DEF PositionsOf
    <3> QED
      BY <1>10, <3>1, <3>2 DEF Counting, NoneNewer
  <2> QED
    BY <2>1, <2>2
<1>11. NoneNewer(db)' /\ NoneNewer(disk)'
  BY <1>1, <1>2, <1>10 DEF NoneNewer
<1>12. CurNewer(db)' /\ CurNewer(disk)'
  BY <1>2 DEF CurNewer
<1> QED
  BY <1>1, <1>2, <1>4, <1>8, <1>9, <1>11, <1>12 DEF Counting

\* A commit, a rollback and the loss of _active.
LEMMA CountingSettle ==
    ASSUME Counting, IInv, pc' # "recording",
           \/ disk' = db /\ db' = db /\ active' = active
           \/ disk' = disk /\ db' = disk /\ active' \in {active, NoActive}
    PROVE  Counting'
<1>1. CurNewer(db)' /\ CurNewer(disk)'
  BY DEF CurNewer
<1>2. PlacesKnown' /\ NoneNewer(db)' /\ NoneNewer(disk)'
  BY DEF Counting, PlacesKnown, NoneNewer, NoActive
<1> QED
  BY <1>1, <1>2 DEF Counting, IInv, TypeOK, Database

\* _load_active takes time and place of the newest fix of each flight.
LEMMA CountingStart ==
    ASSUME IInv, Counting, Start
    PROVE  Counting'
<1>1. /\ db = disk /\ db' = disk /\ disk' = disk /\ pc' = "idle"
      /\ active' = LoadActive(disk) /\ disk \in Database
  BY DEF Start, IInv, Quiet, TypeOK
<1>2. ASSUME NEW a \in Aircraft, active'[a] # None
      PROVE  /\ active'[a].place # None
             /\ \A p \in PositionsOf(disk, active'[a].flight) : p.ts <= active'[a].posTs
  <2> DEFINE f == disk.rows[a].flight
  <2>1. disk.rows[a] # None /\ active'[a] = Restored(disk, disk.rows[a])
    BY <1>1, <1>2 DEF LoadActive
  <2>2. f \in FlightIds /\ disk.flights[f] # None /\ LastOk(disk)
    BY <1>1, <2>1 DEF Database, ActiveRow, IInv, TablesOk, RowsOk
  <2>3. PositionsOf(disk, f) # {}
    BY <2>2 DEF IInv, NonEmpty
  <2>4. NewestFix(disk, f) \in PositionsOf(disk, f) /\ NewestFix(disk, f).ts = disk.flights[f].last
    BY <1>1, <2>2, <2>3, NewestFixIsLast
  <2>5. NewestFix(disk, f).place # None
    BY <1>1, <2>4, NoneAssumption DEF PositionsOf, Database, PositionRow
  <2>6. /\ active'[a].flight = f /\ active'[a].posTs = NewestFix(disk, f).ts
        /\ active'[a].place = NewestFix(disk, f).place
    BY <2>1, <2>3 DEF Restored
  <2> QED
    BY <2>2, <2>3, <2>4, <2>5, <2>6 DEF LastOk
<1>3. PlacesKnown' /\ NoneNewer(db)' /\ NoneNewer(disk)' /\ CurNewer(db)' /\ CurNewer(disk)'
  BY <1>1, <1>2 DEF PlacesKnown, NoneNewer, CurNewer
<1> QED
  BY <1>1, <1>3 DEF Counting

LEMMA CountingBackfill ==
    ASSUME IInv, Counting, BackfillPrimarySource
    PROVE  Counting'
<1>1. /\ db = disk /\ db' = disk'
      /\ disk'.seq = disk.seq /\ disk'.positions = disk.positions
      /\ \A f \in FlightIds : SameFlightIn(disk, disk', f) \/ Finalised(disk, disk', f, "other")
  BY BackfillFields
<1>2. active' = active /\ pc' = "idle"
  BY DEF BackfillPrimarySource
<1>3. CountsOk(disk)'
  <2> SUFFICES ASSUME NEW f \in FlightIds PROVE CountOk(disk', f)
    BY DEF CountsOk
  <2> QED
    BY <1>1, CountKept DEF Counting, CountsOk
<1>4. NoneNewer(disk)' /\ CurNewer(disk)' /\ PlacesKnown'
  BY <1>1, <1>2 DEF Counting, NoneNewer, CurNewer, PlacesKnown, PositionsOf
<1>5. CountsOk(db)' /\ NoneNewer(db)' /\ CurNewer(db)'
  BY <1>1, <1>3, <1>4 DEF CountsOk, NoneNewer, CurNewer
<1> QED
  BY <1>1, <1>3, <1>4, <1>5 DEF Counting, IInv, TypeOK, Database

LEMMA CountingStep == IInv /\ Counting /\ [Next]_vars => Counting'
<1> SUFFICES ASSUME IInv, Counting, [Next]_vars PROVE Counting'
  OBVIOUS
<1>1. CASE BeginPoll \/ EndOfReports \/ BeginStop \/ Tick \/ UNCHANGED vars
  BY <1>1, CountingRest DEF BeginPoll, EndOfReports, BeginStop, Tick, vars
<1>2. ASSUME NEW x \in [icao: Aircraft, ts: 0..MaxClock, place: Places, source: Sources], Detect(x)
      PROVE  Counting'
  <2>1. x \in Fix /\ x.icao \in Aircraft /\ cur' = x /\ disk' = disk
    BY <1>2, BoundsAssumption DEF Fix, Detect
  <2>2. CASE NewAircraft(x)
    BY <2>1, <2>2, CountingRest DEF NewAircraft
  <2>3. CASE AfterGap(x)
    BY <2>1, <2>3, CountingClose DEF AfterGap
  <2>4. CASE SameFlight(x)
    BY <2>1, <2>4, CountingSame
  <2> QED
    BY <1>2, <2>2, <2>3, <2>4 DEF Detect
<1>3. CASE OpenFlight
  BY <1>3, CountingOpen
<1>4. CASE Record
  BY <1>4, CountingRecord
<1>5. CASE \E a \in Aircraft : ExpireFlight(a) \/ StopClose(a)
  BY <1>5, CountingClose DEF ExpireFlight, StopClose, Silent
<1>6. CASE Commit \/ StopCommit \/ PollFails \/ Crash \/ StopFails
  BY <1>6, CountingSettle DEF Commit, StopCommit, PollFails, Crash, StopFails
<1>7. CASE Start
  BY <1>7, CountingStart
<1>8. CASE BackfillPrimarySource
  BY <1>8, CountingBackfill
<1> QED
  BY <1>1, <1>2, <1>3, <1>4, <1>5, <1>6, <1>7, <1>8 DEF Next

\* The counters of a flight and its positions hold throughout every behaviour.
THEOREM CountingAlways == Spec => []Counting
  BY CountingInit, CountingStep, Inductive, PTL DEF Spec

\* The counters of every flight row agree with its positions, and none is left of a
\* deleted flight, at every statement and through every rollback, crash and deletion.
THEOREM CountsMatchPositionsAlways == Spec => []CountsMatchPositions
<1>1. IInv /\ Counting => CountsMatchPositions
  BY DEF IInv, Counting, CountsMatchPositions
<1> QED
  BY <1>1, Inductive, CountingAlways, PTL
-----------------------------------------------------------------------------
(* What a transaction may do to finished flights *)

\* Until a poll raises, the transaction in progress has not touched a flight that is
\* finished on disk, and leaves no flight unlisted that is not finalised.
Kept == ~dirty => \A f \in FlightIds :
    /\ Finished(disk, f) => ~Listed(db, f) /\ SameFlightIn(disk, db, f)
    /\ f \in Orphans(db) => f \in Orphans(disk)

LEMMA KeptSettle ==
    ASSUME db' = disk'
    PROVE  Kept'
  BY DEF Kept, Finished, SameFlightIn

LEMMA KeptClose ==
    ASSUME IInv, Kept, NEW a \in Aircraft, active[a] # None, CloseFlight(a), pc \in Up,
           disk' = disk, dirty' = dirty
    PROVE  Kept'
<1> SUFFICES ASSUME ~dirty, NEW g \in FlightIds
             PROVE  /\ Finished(disk, g) => ~Listed(db', g) /\ SameFlightIn(disk, db', g)
                    /\ g \in Orphans(db') => g \in Orphans(disk)
  BY DEF Kept, Finished, SameFlightIn, Orphans, PositionsOf, Listed
<1> DEFINE f == active[a].flight
<1>1. /\ f \in FlightIds
      /\ db'.rows[a] = None /\ \A b \in Aircraft \ {a} : db'.rows[b] = db.rows[b]
      /\ \A h \in FlightIds \ {f} : SameFlightIn(db, db', h)
      /\ \/ db.flights[f] = None /\ SameFlightIn(db, db', f)
         \/ DroppedFlight(db, db', f)
         \/ \E p \in {"adsb", "mlat", "mixed", "other"} : Finalised(db, db', f, p)
  BY CloseFields DEF IInv
<1>2. db.rows[a] # None /\ db.rows[a].flight = f
  BY DEF IInv, MemoryMirrorsTable, Mirrors
<1>3. Listed(db', g) => Listed(db, g)
  BY <1>1 DEF Listed
<1>4. CASE g = f
  <2>1. Listed(db, f)
    BY <1>2 DEF Listed
  <2>2. db'.flights[f] = None \/ db'.flights[f].primary # None
    BY <1>1, NoneAssumption DEF SameFlightIn, DroppedFlight, Finalised
  <2> QED
    BY <1>1, <1>4, <2>1, <2>2 DEF Kept, Orphans
<1>5. CASE g # f
  <2>1. SameFlightIn(db, db', g)
    BY <1>1, <1>5
  <2>2. Listed(db, g) => Listed(db', g)
    BY <1>1, <1>2, <1>5 DEF Listed
  <2> QED
    BY <1>3, <2>1, <2>2 DEF Kept, Orphans, SameFlightIn
<1> QED
  BY <1>4, <1>5

LEMMA KeptOpen ==
    ASSUME IInv, Counting, Kept, OpenFlight
    PROVE  Kept'
<1> DEFINE a == cur.icao
           f == db.seq + 1
<1>1. pc = "opening" /\ disk' = disk /\ dirty' = dirty
  BY DEF OpenFlight
<1> SUFFICES ASSUME ~dirty, NEW g \in FlightIds
             PROVE  /\ Finished(disk, g) => ~Listed(db', g) /\ SameFlightIn(disk, db', g)
                    /\ g \in Orphans(db') => g \in Orphans(disk)
  BY <1>1 DEF Kept, Finished, SameFlightIn, Orphans, PositionsOf, Listed
<1>2. /\ a \in Aircraft /\ active[a] = None /\ f \in FlightIds
      /\ db'.rows[a] = [flight |-> f, seen |-> cur.ts]
      /\ \A b \in Aircraft \ {a} : db'.rows[b] = db.rows[b]
      /\ \A h \in FlightIds : PositionsOf(db', h) = PositionsOf(db, h)
      /\ \A h \in FlightIds \ {f} : db'.flights[h] = db.flights[h]
  BY OpenFields
<1>3. db'.rows[a] # None
  <2>1. [flight |-> f, seen |-> cur.ts] \in ActiveRow
    BY <1>2, OpenFields DEF ActiveRow, Fix
  <2> QED
    BY <1>2, <2>1, NoneAssumption
<1>4. db.rows[a] = None
  BY <1>1, <1>2 DEF IInv, MemoryMirrorsTable, Mirrors, Up
<1>5. CASE g = f
  <2>1. Listed(db', f)
    BY <1>2, <1>3 DEF Listed
  <2>2. disk.flights[f] = None
    BY <1>2 DEF Counting, IInv, TypeOK, Database, TablesOk, IdsOk, FlightIds
  <2> QED
    BY <1>5, <2>1, <2>2 DEF Finished, Orphans
<1>6. CASE g # f
  <2>1. Listed(db', g) <=> Listed(db, g)
    BY <1>2, <1>3, <1>4, <1>6 DEF Listed
  <2> QED
    BY <1>2, <1>6, <2>1 DEF Kept, Orphans, SameFlightIn
<1> QED
  BY <1>5, <1>6

LEMMA KeptRecord ==
    ASSUME IInv, Kept, Record
    PROVE  Kept'
<1> DEFINE f == active[cur.icao].flight
<1>1. pc = "recording" /\ disk' = disk /\ dirty' = dirty
  BY DEF Record
<1> SUFFICES ASSUME ~dirty, NEW g \in FlightIds
             PROVE  /\ Finished(disk, g) => ~Listed(db', g) /\ SameFlightIn(disk, db', g)
                    /\ g \in Orphans(db') => g \in Orphans(disk)
  BY <1>1 DEF Kept, Finished, SameFlightIn, Orphans, PositionsOf, Listed
<1>2. /\ cur.icao \in Aircraft /\ active[cur.icao] # None /\ db'.rows = db.rows
      /\ \A h \in FlightIds \ {f} : SameFlightIn(db, db', h)
  BY RecordFields
<1>3. Listed(db, f)
  BY <1>1, <1>2 DEF IInv, MemoryMirrorsTable, Mirrors, Up, Listed
<1>4. Listed(db', g) <=> Listed(db, g)
  BY <1>2 DEF Listed
<1>5. CASE g = f
  BY <1>3, <1>4, <1>5 DEF Kept, Orphans
<1>6. CASE g # f
  BY <1>2, <1>4, <1>6 DEF Kept, Orphans, SameFlightIn
<1> QED
  BY <1>5, <1>6

LEMMA KeptStep == IInv /\ Counting /\ Kept /\ [Next]_vars => Kept'
<1> SUFFICES ASSUME IInv, Counting, Kept, [Next]_vars PROVE Kept'
  OBVIOUS
<1>1. CASE UNCHANGED <<db, disk, dirty>>
  BY <1>1 DEF Kept, Finished, SameFlightIn, Orphans, PositionsOf, Listed
<1>2. CASE BeginPoll \/ EndOfReports \/ BeginStop \/ Tick \/ UNCHANGED vars
  BY <1>1, <1>2 DEF BeginPoll, EndOfReports, BeginStop, Tick, vars
<1>3. ASSUME NEW x \in [icao: Aircraft, ts: 0..MaxClock, place: Places, source: Sources], Detect(x)
      PROVE  Kept'
  <2>1. CASE AfterGap(x)
    BY <1>3, <2>1, KeptClose DEF AfterGap, Detect, Up
  <2>2. CASE NewAircraft(x) \/ SameFlight(x)
    BY <1>1, <1>3, <2>2 DEF NewAircraft, SameFlight, Detect
  <2> QED
    BY <1>3, <2>1, <2>2 DEF Detect
<1>4. CASE OpenFlight
  BY <1>4, KeptOpen
<1>5. CASE Record
  BY <1>5, KeptRecord
<1>6. CASE \E a \in Aircraft : ExpireFlight(a) \/ StopClose(a)
  BY <1>6, KeptClose DEF ExpireFlight, StopClose, Silent, Up
<1>7. CASE Commit \/ StopCommit \/ PollFails \/ Crash \/ StopFails
  BY <1>7, KeptSettle DEF Commit, StopCommit, PollFails, Crash, StopFails
<1>8. CASE Start
  BY <1>8, KeptSettle DEF Start, IInv, Quiet
<1>9. CASE BackfillPrimarySource
  BY <1>9, KeptSettle DEF BackfillPrimarySource
<1> QED
  BY <1>2, <1>3, <1>4, <1>5, <1>6, <1>7, <1>8, <1>9 DEF Next

\* Finished flights and orphans are as Kept says in every state.
THEOREM KeptAlways == Spec => []Kept
<1>1. Init => Kept
  BY DEF Init, Kept, Finished, SameFlightIn
<1> QED
  BY <1>1, KeptStep, Inductive, CountingAlways, PTL DEF Spec

\* What a step leaves on disk: what was there, what the transaction has made of it, or
\* the orphans finalised.
LEMMA DiskStep ==
    ASSUME IInv, [Next]_vars
    PROVE  disk' \in {disk, db} \/ BackfillPrimarySource
  BY DEF Next, BeginPoll, Detect, OpenFlight, Record, EndOfReports, ExpireFlight, Commit, PollFails,
         Start, Crash, BeginStop, StopClose, StopCommit, StopFails, Tick, vars

\* Until a poll raises, neither the row nor a position of a flight that is finished on
\* disk ever changes again: closing, expiry, the stop and the backfill pass it by.
THEOREM FinishedFlightsFrozenAlways == Spec => FinishedFlightsFrozen
<1>1. IInv /\ Kept /\ [Next]_vars =>
        [\A f \in FlightIds : Finished(disk, f) /\ ~dirty => Untouched(f)]_vars
  <2> SUFFICES ASSUME IInv, Kept, [Next]_vars, NEW f \in FlightIds, Finished(disk, f), ~dirty
               PROVE  Untouched(f)
    OBVIOUS
  <2>1. CASE disk' \in {disk, db}
    BY <2>1 DEF Kept, SameFlightIn, Untouched
  <2>2. CASE BackfillPrimarySource
    BY <2>2, BackfillFields DEF Finished, Orphans, SameFlightIn, Untouched
  <2> QED
    BY <2>1, <2>2, DiskStep
<1> QED
  BY <1>1, Inductive, KeptAlways, PTL DEF Spec, FinishedFlightsFrozen

\* Until a poll raises, a commit adds no flight that is neither finalised nor listed
\* in active_flights, so no reader waits for the end of a flight nobody tracks.
THEOREM NoOrphanCommittedAlways == Spec => NoOrphanCommitted
<1>1. IInv /\ Kept /\ [Next]_vars => [~dirty => Orphans(disk') \subseteq Orphans(disk)]_vars
  <2> SUFFICES ASSUME IInv, Kept, [Next]_vars, ~dirty, NEW f \in FlightIds, f \in Orphans(disk')
               PROVE  f \in Orphans(disk)
    BY DEF Orphans
  <2>1. CASE disk' \in {disk, db}
    BY <2>1 DEF Kept
  <2>2. CASE BackfillPrimarySource
    <3>1. disk'.rows = disk.rows /\ (f \notin Orphans(disk) => disk'.flights[f] = disk.flights[f])
      BY <2>2, BackfillFields DEF SameFlightIn
    <3> QED
      BY <3>1 DEF Orphans, Listed
  <2> QED
    BY <2>1, <2>2, DiskStep
<1> QED
  BY <1>1, Inductive, KeptAlways, PTL DEF Spec, NoOrphanCommitted
-----------------------------------------------------------------------------
(* Tracks, when no statement raises inside a transaction *)

\* A position was reported by the aircraft of its flight.
Own(d) == \A p \in d.positions : d.flights[p.flight].icao = p.icao

\* From the place pl at time s the aircraft can be at qu at time t.
Reaches(pl, s, qu, t) == s <= t /\ Distance(pl, qu) <= MaxSpeed * (t - s)

\* Every stored fix of an open flight reaches the entry in _active, and from there the
\* record in hand, which is later than all of them.
EntryReached == \A a \in Aircraft : active[a] # None =>
    \A p \in PositionsOf(db, active[a].flight) :
        Reaches(p.place, p.ts, active[a].place, active[a].posTs)
CurReached == pc = "recording" => \A p \in PositionsOf(db, active[cur.icao].flight) :
    p.ts < cur.ts /\ Reaches(p.place, p.ts, cur.place, cur.ts)

Flyable(p, q) ==
    /\ p.ts # q.ts
    /\ p.ts < q.ts => Distance(p.place, q.place) <= MaxSpeed * (q.ts - p.ts)
TrackOk(d) == \A f \in FlightIds : \A p, q \in PositionsOf(d, f) : p # q => Flyable(p, q)

Tracks ==
    /\ ~dirty
    /\ Own(db) /\ Own(disk)
    /\ EntryReached /\ CurReached
    /\ TrackOk(db) /\ TrackOk(disk)

\* The ghost filter measures from fix to fix; what it admits adds up.
LEMMA Onward ==
    ASSUME NEW p \in Int, NEW q \in Int, NEW r \in Int, NEW s \in Nat, NEW t \in Nat, NEW u \in Nat,
           Reaches(p, s, q, t), Reaches(q, t, r, u)
    PROVE  Reaches(p, s, r, u)
<1>1. MaxSpeed \in Nat
  BY BoundsAssumption
<1>2. MaxSpeed * (t - s) + MaxSpeed * (u - t) = MaxSpeed * (u - s)
  BY <1>1
<1>3. MaxSpeed * (t - s) \in Int /\ MaxSpeed * (u - t) \in Int /\ MaxSpeed * (u - s) \in Int
  BY <1>1
<1>4. Distance(p, r) <= Distance(p, q) + Distance(q, r)
  BY DEF Distance
<1>5. Distance(p, r) \in Int /\ Distance(p, q) \in Int /\ Distance(q, r) \in Int
  BY DEF Distance
<1>6. Distance(p, q) <= MaxSpeed * (t - s) /\ Distance(q, r) <= MaxSpeed * (u - t) /\ s <= t /\ t <= u
  BY DEF Reaches
<1> HIDE DEF Distance
<1>7. Distance(p, r) <= MaxSpeed * (u - s)
  BY <1>2, <1>3, <1>4, <1>5, <1>6
<1> QED
  BY <1>6, <1>7 DEF Reaches

LEMMA FixTypes ==
    ASSUME NEW d \in Database, NEW p \in d.positions
    PROVE  /\ p.flight \in FlightIds /\ p.icao \in Aircraft
           /\ p.ts \in Nat /\ p.place \in Int /\ p.place \in Places
           /\ p \in PositionsOf(d, p.flight)
  BY DataAssumption DEF Database, PositionRow, PositionsOf

\* In a database whose newest fixes are known, an entry as _load_active restores it
\* is reached by every fix of its flight.
LEMMA NewestReached ==
    ASSUME NEW d \in Database, LastOk(d), TrackOk(d), NEW f \in FlightIds,
           d.flights[f] # None, NEW p \in PositionsOf(d, f)
    PROVE  Reaches(p.place, p.ts, NewestFix(d, f).place, NewestFix(d, f).ts)
<1> DEFINE n == NewestFix(d, f)
<1>1. n \in PositionsOf(d, f) /\ n.ts = d.flights[f].last
  BY NewestFixIsLast
<1> HIDE DEF n
<1>2. p.ts <= n.ts
  BY <1>1 DEF LastOk
<1>3. p \in d.positions /\ n \in d.positions
  BY <1>1 DEF PositionsOf
<1>4. p.ts \in Nat /\ n.ts \in Nat /\ p.place \in Int /\ MaxSpeed \in Nat
  BY <1>3, FixTypes, BoundsAssumption
<1>5. p = n => Reaches(p.place, p.ts, n.place, n.ts)
  BY <1>4 DEF Reaches, Distance
<1>6. ASSUME p # n
      PROVE  Reaches(p.place, p.ts, n.place, n.ts)
  <2>1. p.ts # n.ts /\ (p.ts < n.ts => Distance(p.place, n.place) <= MaxSpeed * (n.ts - p.ts))
    BY <1>1, <1>6 DEF TrackOk, Flyable
  <2>2. p.ts < n.ts
    BY <1>2, <1>4, <2>1
  <2> QED
    BY <1>2, <2>1, <2>2 DEF Reaches
<1> QED
  BY <1>5, <1>6 DEF n

LEMMA TracksInit == Init => Tracks
  BY DEF Init, Tracks, Own, EntryReached, CurReached, TrackOk, EmptyDb, NoActive, PositionsOf

LEMMA TracksRest ==
    ASSUME Tracks, UNCHANGED <<active, db, disk, dirty>>,
           pc' = "recording" => pc = "recording" /\ cur' = cur
    PROVE  Tracks'
  BY DEF Tracks, Own, EntryReached, CurReached, TrackOk, PositionsOf

LEMMA TracksSame ==
    ASSUME IInv, Counting, Tracks, NEW x \in Fix, SameFlight(x), cur' = x,
           disk' = disk, dirty' = dirty
    PROVE  Tracks'
<1> DEFINE act == active[x.icao]
<1>1. /\ act # None /\ x.icao \in Aircraft /\ act.place # None
      /\ UNCHANGED <<active, db, disk>>
  BY DEF SameFlight, Counting, PlacesKnown, Fix
<1>2. /\ x.ts > act.posTs
      /\ Distance(x.place, act.place) <= MaxSpeed * (x.ts - act.posTs)
  BY <1>1 DEF SameFlight
<1>3. /\ act.posTs \in Nat /\ x.ts \in Nat /\ act.place \in Int /\ x.place \in Int
      /\ db \in Database
  BY <1>1, DataAssumption DEF IInv, TypeOK, ActiveState, Fix
<1>4. Reaches(act.place, act.posTs, x.place, x.ts)
  <2>1. Distance(act.place, x.place) = Distance(x.place, act.place)
    BY <1>3 DEF Distance
  <2> QED
    BY <1>2, <1>3, <2>1 DEF Reaches
<1>5. ASSUME NEW p \in PositionsOf(db, act.flight)
      PROVE  p.ts < x.ts /\ Reaches(p.place, p.ts, x.place, x.ts)
  <2>1. p \in db.positions /\ Reaches(p.place, p.ts, act.place, act.posTs)
    BY <1>1 DEF Tracks, EntryReached, PositionsOf
  <2>2. p.ts \in Nat /\ p.place \in Int
    BY <1>3, <2>1, FixTypes
  <2>3. p.ts <= act.posTs
    BY <2>1 DEF Reaches
  <2> HIDE DEF act
  <2>4. Reaches(p.place, p.ts, x.place, x.ts)
    BY <1>3, <1>4, <2>1, <2>2, Onward
  <2> QED
    BY <1>2, <1>3, <2>2, <2>3, <2>4
<1>6. CurReached'
  BY <1>1, <1>5 DEF CurReached, PositionsOf
<1> QED
  BY <1>1, <1>6 DEF Tracks, Own, EntryReached, TrackOk, PositionsOf

LEMMA TracksClose ==
    ASSUME IInv, Tracks, NEW a \in Aircraft, active[a] # None, CloseFlight(a),
           UNCHANGED <<disk, dirty>>, pc' # "recording"
    PROVE  Tracks'
<1> DEFINE f == active[a].flight
<1>1. /\ f \in FlightIds
      /\ active'[a] = None /\ \A b \in Aircraft \ {a} : active'[b] = active[b]
      /\ db'.positions \subseteq db.positions
      /\ \A g \in FlightIds \ {f} : SameFlightIn(db, db', g)
      /\ \/ SameFlightIn(db, db', f)
         \/ DroppedFlight(db, db', f)
         \/ \E p : Finalised(db, db', f, p)
  BY CloseFields DEF IInv
<1>2. Own(db')
  <2> SUFFICES ASSUME NEW p \in db'.positions PROVE db'.flights[p.flight].icao = p.icao
    BY DEF Own
  <2>1. p \in db.positions /\ p.flight \in FlightIds /\ p \in PositionsOf(db', p.flight)
    BY <1>1, FixTypes DEF IInv, TypeOK, PositionsOf
  <2>2. db'.flights[p.flight].icao = db.flights[p.flight].icao
    BY <1>1, <2>1 DEF SameFlightIn, DroppedFlight, Finalised
  <2> QED
    BY <2>1, <2>2 DEF Tracks, Own
<1>3. \A g : PositionsOf(db', g) \subseteq PositionsOf(db, g)
  BY <1>1 DEF PositionsOf
<1>4. EntryReached'
  BY <1>1, <1>3 DEF Tracks, EntryReached
<1>5. TrackOk(db')
  BY <1>3 DEF Tracks, TrackOk
<1> QED
  BY <1>2, <1>4, <1>5 DEF Tracks, Own, TrackOk, CurReached

LEMMA TracksOpen ==
    ASSUME IInv, Tracks, OpenFlight
    PROVE  Tracks'
<1> DEFINE a == cur.icao
           f == db.seq + 1
<1>1. /\ a \in Aircraft /\ f \in FlightIds /\ PositionsOf(db, f) = {}
      /\ active'[a] = [flight |-> f, seen |-> cur.ts, posTs |-> cur.ts, place |-> cur.place]
      /\ \A b \in Aircraft \ {a} : active'[b] = active[b]
      /\ db'.positions = db.positions
      /\ \A g \in FlightIds \ {f} : db'.flights[g] = db.flights[g]
      /\ UNCHANGED <<cur, disk, dirty>>
  BY OpenFields DEF OpenFlight
<1>2. \A g : PositionsOf(db', g) = PositionsOf(db, g)
  BY <1>1 DEF PositionsOf
<1>3. Own(db')
  <2> SUFFICES ASSUME NEW p \in db.positions PROVE db'.flights[p.flight].icao = p.icao
    BY <1>1 DEF Own
  <2>1. p.flight \in FlightIds /\ p \in PositionsOf(db, p.flight)
    BY FixTypes DEF IInv, TypeOK
  <2> QED
    BY <1>1, <2>1 DEF Tracks, Own
<1>4. EntryReached' /\ CurReached'
  BY <1>1, <1>2 DEF Tracks, EntryReached, CurReached
<1>5. TrackOk(db')
  BY <1>2 DEF Tracks, TrackOk
<1> QED
  BY <1>1, <1>3, <1>4, <1>5 DEF Tracks, Own, TrackOk

\* Until a poll raises, the flight an aircraft's entry names is its own and no other's.
LEMMA OwnEntry ==
    ASSUME IInv, ~dirty, pc \in Up, NEW a \in Aircraft, active[a] # None
    PROVE  /\ active[a].flight \in FlightIds
           /\ db.rows[a] # None /\ db.rows[a].flight = active[a].flight
           /\ db.flights[active[a].flight] # None
           /\ db.flights[active[a].flight].icao = a
           /\ active[a].posTs = db.flights[active[a].flight].last
<1>1. Mirrors(a)
  BY DEF IInv, MemoryMirrorsTable
<1> QED
  BY <1>1 DEF Mirrors, IInv, TablesOk, RowsOk, TypeOK, ActiveState

LEMMA TracksRecord ==
    ASSUME IInv, Tracks, Record
    PROVE  Tracks'
<1> DEFINE a == cur.icao
           f == active[a].flight
           rec == db.flights[f]
           pos == PositionOf(cur, f)
<1>1. /\ cur \in Fix /\ a \in Aircraft /\ active[a] # None /\ f \in FlightIds
      /\ rec \in FlightRow
      /\ active'[a] = [flight |-> f, seen |-> cur.ts, posTs |-> cur.ts, place |-> cur.place]
      /\ \A b \in Aircraft \ {a} : active'[b] = active[b]
      /\ db'.flights[f] = Counted(rec, cur)
      /\ db'.positions = db.positions \cup {pos}
      /\ PositionsOf(db', f) = PositionsOf(db, f) \cup {pos}
      /\ \A g \in FlightIds \ {f} : SameFlightIn(db, db', g)
  BY RecordFields
<1>2. pc = "recording" /\ pc' = "poll" /\ disk' = disk /\ dirty' = dirty /\ db \in Database
  BY DEF Record, IInv, TypeOK
<1>3. /\ pos.flight = f /\ pos.icao = a /\ pos.ts = cur.ts /\ pos.place = cur.place
      /\ cur.ts \in Nat /\ cur.place \in Int
  BY <1>1, DataAssumption DEF PositionOf, Fix
<1>4. db'.flights[f].icao = a
  <2>1. rec.icao = a
    BY <1>1, <1>2, OwnEntry DEF Tracks, Up
  <2> QED
    BY <1>1, <2>1, CountedRow
<1>5. \A p \in PositionsOf(db, f) : p.ts < cur.ts /\ Reaches(p.place, p.ts, cur.place, cur.ts)
  BY <1>2 DEF Tracks, CurReached
<1> HIDE DEF pos
<1>6. Own(db')
  <2> SUFFICES ASSUME NEW p \in db'.positions PROVE db'.flights[p.flight].icao = p.icao
    BY DEF Own
  <2>1. CASE p = pos
    BY <1>3, <1>4, <2>1
  <2>2. CASE p \in db.positions
    <3>1. p.flight \in FlightIds /\ db.flights[p.flight].icao = p.icao
      BY <1>2, <2>2, FixTypes DEF Tracks, Own
    <3>2. db'.flights[p.flight].icao = db.flights[p.flight].icao
      BY <1>1, <3>1, CountedRow DEF SameFlightIn
    <3> QED
      BY <3>1, <3>2
  <2> QED
    BY <1>1, <2>1, <2>2
<1>7. Reaches(pos.place, pos.ts, cur.place, cur.ts)
  BY <1>3, BoundsAssumption DEF Reaches, Distance
<1>8. EntryReached'
  <2> SUFFICES ASSUME NEW b \in Aircraft, active'[b] # None,
                      NEW p \in PositionsOf(db', active'[b].flight)
               PROVE  Reaches(p.place, p.ts, active'[b].place, active'[b].posTs)
    BY DEF EntryReached
  <2>1. CASE b = a
    BY <1>1, <1>5, <1>7, <2>1
  <2>2. CASE b # a
    <3>1. active'[b] = active[b]
      BY <1>1, <2>2
    <3>2. active[b].flight \in FlightIds /\ active[b].flight # f
      BY <1>1, <1>2, <2>2, <3>1, OwnEntry DEF Tracks, Up
    <3> QED
      BY <1>1, <3>1, <3>2 DEF Tracks, EntryReached, SameFlightIn
  <2> QED
    BY <2>1, <2>2
<1>9. TrackOk(db')
  <2> SUFFICES ASSUME NEW g \in FlightIds, NEW p \in PositionsOf(db', g), NEW q \in PositionsOf(db', g),
                      p # q
               PROVE  Flyable(p, q)
    BY DEF TrackOk
  <2>1. CASE p \in PositionsOf(db, g) /\ q \in PositionsOf(db, g)
    BY <2>1 DEF Tracks, TrackOk
  <2>2. CASE p \notin PositionsOf(db, g) \/ q \notin PositionsOf(db, g)
    <3>1. g = f /\ (p = pos \/ q = pos)
      BY <1>1, <2>2 DEF SameFlightIn
    <3>2. \A r \in PositionsOf(db, f) : r.ts \in Nat
      BY <1>2, FixTypes DEF PositionsOf
    <3>3. CASE p = pos
      <4>1. q \in PositionsOf(db, f)
        BY <1>1, <3>1, <3>3
      <4> QED
        BY <1>3, <1>5, <3>2, <3>3, <4>1 DEF Flyable
    <3>4. CASE q = pos
      <4>1. p \in PositionsOf(db, f)
        BY <1>1, <3>1, <3>4
      <4> QED
        BY <1>3, <1>5, <3>2, <3>4, <4>1 DEF Flyable, Reaches
    <3> QED
      BY <3>1, <3>3, <3>4
  <2> QED
    BY <2>1, <2>2
<1> QED
  BY <1>2, <1>6, <1>8, <1>9 DEF Tracks, Own, TrackOk, CurReached

\* Commits, and the death of the process.
LEMMA TracksSettle ==
    ASSUME Tracks, pc' # "recording", dirty' = dirty,
           \/ disk' = db /\ db' = db /\ active' = active
           \/ disk' = disk /\ db' = disk /\ active' = NoActive
    PROVE  Tracks'
<1>1. CurReached' /\ EntryReached'
  BY DEF Tracks, CurReached, EntryReached, NoActive
<1> QED
  BY <1>1 DEF Tracks, Own, TrackOk

LEMMA TracksStart ==
    ASSUME IInv, Tracks, Start
    PROVE  Tracks'
<1>1. /\ db = disk /\ db' = disk /\ disk' = disk /\ pc' = "idle" /\ dirty' = FALSE
      /\ active' = LoadActive(disk) /\ disk \in Database
  BY DEF Start, IInv, Quiet, TypeOK
<1>2. ASSUME NEW a \in Aircraft, active'[a] # None, NEW p \in PositionsOf(disk, active'[a].flight)
      PROVE  Reaches(p.place, p.ts, active'[a].place, active'[a].posTs)
  <2> DEFINE f == disk.rows[a].flight
  <2>1. disk.rows[a] # None /\ active'[a] = Restored(disk, disk.rows[a])
    BY <1>1, <1>2 DEF LoadActive
  <2>2. f \in FlightIds /\ disk.flights[f] # None /\ LastOk(disk)
    BY <1>1, <2>1 DEF Database, ActiveRow, IInv, TablesOk, RowsOk
  <2>3. PositionsOf(disk, f) # {}
    BY <2>2 DEF IInv, NonEmpty
  <2>4. /\ active'[a].flight = f /\ active'[a].posTs = NewestFix(disk, f).ts
        /\ active'[a].place = NewestFix(disk, f).place
    BY <2>1, <2>3 DEF Restored
  <2> QED
    BY <1>1, <1>2, <2>2, <2>4, NewestReached DEF Tracks
<1>3. EntryReached' /\ CurReached'
  BY <1>1, <1>2 DEF EntryReached, CurReached
<1> QED
  BY <1>1, <1>3 DEF Tracks, Own, TrackOk

LEMMA TracksBackfill ==
    ASSUME IInv, Tracks, BackfillPrimarySource
    PROVE  Tracks'
<1>1. /\ db = disk /\ db' = disk' /\ disk'.positions = disk.positions
      /\ \A f \in FlightIds : SameFlightIn(disk, disk', f) \/ Finalised(disk, disk', f, "other")
      /\ pc' = "idle" /\ UNCHANGED <<active, dirty>>
  BY BackfillFields DEF BackfillPrimarySource
<1>2. \A f : PositionsOf(disk', f) = PositionsOf(disk, f)
  BY <1>1 DEF PositionsOf
<1>3. Own(disk')
  <2> SUFFICES ASSUME NEW p \in disk.positions PROVE disk'.flights[p.flight].icao = p.icao
    BY <1>1 DEF Own
  <2>1. p.flight \in FlightIds
    BY FixTypes DEF IInv, TypeOK
  <2> QED
    BY <1>1, <2>1 DEF Tracks, Own, SameFlightIn, Finalised
<1>4. EntryReached' /\ CurReached' /\ TrackOk(disk')
  BY <1>1, <1>2 DEF Tracks, EntryReached, CurReached, TrackOk
<1> QED
  BY <1>1, <1>3, <1>4 DEF Tracks, Own, TrackOk

LEMMA TracksStep ==
    ASSUME ~MayFail, IInv, Counting, Tracks, [Next]_vars
    PROVE  Tracks'
<1>1. CASE BeginPoll \/ EndOfReports \/ BeginStop \/ Tick \/ UNCHANGED vars
  BY <1>1, TracksRest DEF BeginPoll, EndOfReports, BeginStop, Tick, vars
<1>2. ASSUME NEW x \in [icao: Aircraft, ts: 0..MaxClock, place: Places, source: Sources], Detect(x)
      PROVE  Tracks'
  <2>1. x \in Fix /\ x.icao \in Aircraft /\ cur' = x /\ disk' = disk /\ dirty' = dirty
    BY <1>2, BoundsAssumption DEF Fix, Detect
  <2>2. CASE NewAircraft(x)
    BY <2>1, <2>2, TracksRest DEF NewAircraft
  <2>3. CASE AfterGap(x)
    BY <2>1, <2>3, TracksClose DEF AfterGap
  <2>4. CASE SameFlight(x)
    BY <2>1, <2>4, TracksSame
  <2> QED
    BY <1>2, <2>2, <2>3, <2>4 DEF Detect
<1>3. CASE OpenFlight
  BY <1>3, TracksOpen
<1>4. CASE Record
  BY <1>4, TracksRecord
<1>5. CASE \E a \in Aircraft : ExpireFlight(a) \/ StopClose(a)
  BY <1>5, TracksClose DEF ExpireFlight, StopClose, Silent
<1>6. CASE Commit \/ StopCommit \/ PollFails \/ Crash \/ StopFails
  BY <1>6, TracksSettle DEF Commit, StopCommit, PollFails, Crash, StopFails
<1>7. CASE Start
  BY <1>7, TracksStart
<1>8. CASE BackfillPrimarySource
  BY <1>8, TracksBackfill
<1> QED
  BY <1>1, <1>2, <1>3, <1>4, <1>5, <1>6, <1>7, <1>8 DEF Next

LEMMA TracksAlways ==
    ASSUME ~MayFail
    PROVE  Spec => []Tracks
<1>1. IInv /\ Counting /\ Tracks /\ [Next]_vars => Tracks'
  BY TracksStep
<1> QED
  BY <1>1, TracksInit, Inductive, CountingAlways, PTL DEF Spec

\* When no statement raises, the fixes stored for one flight form a track the aircraft
\* can have flown, across every gap, crash, stop and restart: pairs the ghost filter
\* never compared included.
THEOREM PlausibleTrackAlways ==
    ASSUME ~MayFail
    PROVE  Spec => []PlausibleTrack
<1>1. IInv /\ Tracks => PlausibleTrack
  <2> SUFFICES ASSUME IInv, Tracks, NEW p \in disk.positions, NEW q \in disk.positions,
                      p.flight = q.flight, p # q
               PROVE  Flyable(p, q)
    BY DEF PlausibleTrack, Flyable
  <2>1. p.flight \in FlightIds /\ p \in PositionsOf(disk, p.flight) /\ q \in PositionsOf(disk, p.flight)
    BY FixTypes DEF IInv, TypeOK
  <2> QED
    BY <2>1 DEF Tracks, TrackOk
<1> QED
  BY <1>1, Inductive, TracksAlways, PTL
-----------------------------------------------------------------------------
(* Why two flights of one aircraft are apart, when no statement raises *)

\* Every fix of a flight that is over, and was not cut by a restart, is Gap old.
Silence(d) == \A p \in d.positions :
    p.flight \notin cut /\ ~Listed(d, p.flight) => clock - p.ts > Gap

\* The row of active_flights names the newest flight of the aircraft.
LastOpen(d) == \A p \in d.positions :
    d.rows[p.icao] # None => p.flight <= d.rows[p.icao].flight

SplitOk(d) == \A p, q \in d.positions : p.flight \notin cut => Separated(p, q)

\* The silence of a flight not cut is measured from its newest fix.
SeenOk == \A a \in Aircraft : active[a] # None /\ active[a].flight \notin cut =>
    active[a].seen = active[a].posTs

CurRecent == cur # None => cur.ts <= clock /\ clock - cur.ts <= MaxSeen

\* A graceful stop cuts every flight it closes.
StopCuts == pc = "stop" => \A a \in Aircraft : active[a] # None => active[a].flight \in cut

Split ==
    /\ Silence(db) /\ LastOpen(db) /\ SplitOk(db)
    /\ Silence(disk) /\ LastOpen(disk) /\ SplitOk(disk)
    /\ SeenOk /\ CurRecent /\ StopCuts

LEMMA SplitInit == Init => Split
  BY DEF Init, Split, Silence, LastOpen, SplitOk, SeenOk, CurRecent, StopCuts, EmptyDb, NoActive

\* Time passes and flights are cut; neither breaks what is known of a table.
LEMMA SplitAges ==
    ASSUME NEW d \in Database, Silence(d), LastOpen(d), SplitOk(d),
           clock \in Nat, clock' \in Nat, clock <= clock', cut \subseteq cut'
    PROVE  Silence(d)' /\ LastOpen(d)' /\ SplitOk(d)'
<1>1. Silence(d)'
  <2> SUFFICES ASSUME NEW p \in d.positions, p.flight \notin cut, ~Listed(d, p.flight)
               PROVE  clock' - p.ts > Gap
    BY DEF Silence
  <2>1. clock - p.ts > Gap /\ p.ts \in Nat /\ Gap \in Nat
    BY FixTypes, BoundsAssumption DEF Silence
  <2> QED
    BY <2>1
<1> QED
  BY <1>1 DEF LastOpen, SplitOk

LEMMA SplitRest ==
    ASSUME IInv, Split, UNCHANGED <<active, db, disk>>, clock' \in Nat, clock <= clock',
           cut \subseteq cut', CurRecent', StopCuts'
    PROVE  Split'
<1>1. db \in Database /\ disk \in Database /\ clock \in Nat
  BY DEF IInv, TypeOK
<1>2. Silence(db)' /\ LastOpen(db)' /\ SplitOk(db)'
  BY <1>1, SplitAges DEF Split, Silence, LastOpen, SplitOk, Listed
<1>3. Silence(disk)' /\ LastOpen(disk)' /\ SplitOk(disk)'
  BY <1>1, SplitAges DEF Split, Silence, LastOpen, SplitOk, Listed
<1>4. SeenOk'
  BY DEF Split, SeenOk
<1> QED
  BY <1>2, <1>3, <1>4 DEF Split

\* A flight that is closed has been silent for Gap, or was cut.
LEMMA SplitClose ==
    ASSUME IInv, Tracks, Split, pc \in Up, NEW a \in Aircraft, active[a] # None, CloseFlight(a),
           clock - active[a].seen > Gap \/ active[a].flight \in cut,
           UNCHANGED <<clock, disk, cut>>, CurRecent', pc' = "stop" => pc = "stop"
    PROVE  Split'
<1> DEFINE f == active[a].flight
<1>1. /\ f \in FlightIds
      /\ active'[a] = None /\ \A b \in Aircraft \ {a} : active'[b] = active[b]
      /\ db'.rows[a] = None /\ \A b \in Aircraft \ {a} : db'.rows[b] = db.rows[b]
      /\ db'.positions \subseteq db.positions
  BY CloseFields DEF IInv
<1>2. db \in Database /\ clock \in Nat /\ active[a].seen \in Nat /\ active[a].posTs \in Nat
  BY DEF IInv, TypeOK, ActiveState
<1>3. db.rows[a].flight = f /\ active[a].posTs = db.flights[f].last
  BY OwnEntry DEF Tracks
<1>4. Silence(db)'
  <2> SUFFICES ASSUME NEW p \in db'.positions, p.flight \notin cut, ~Listed(db', p.flight)
               PROVE  clock - p.ts > Gap
    BY DEF Silence
  <2>1. p \in db.positions /\ p.ts \in Nat /\ Gap \in Nat /\ p \in PositionsOf(db, p.flight)
    BY <1>1, <1>2, FixTypes, BoundsAssumption
  <2>2. CASE p.flight = f
    <3>1. Reaches(p.place, p.ts, active[a].place, active[a].posTs)
      BY <2>1, <2>2 DEF Tracks, EntryReached
    <3>2. p.ts <= active[a].posTs /\ active[a].seen = active[a].posTs
      BY <2>2, <3>1 DEF Reaches, Split, SeenOk
    <3> QED
      BY <1>2, <2>1, <2>2, <3>2
  <2>3. CASE p.flight # f
    <3>1. ~Listed(db, p.flight)
      BY <1>1, <1>3, <2>3 DEF Listed
    <3> QED
      BY <2>1, <3>1 DEF Split, Silence
  <2> QED
    BY <2>2, <2>3
<1>5. LastOpen(db)' /\ SplitOk(db)'
  <2>1. \A p \in db'.positions : p \in db.positions /\ p.icao \in Aircraft
    BY <1>1, <1>2, FixTypes
  <2> QED
    BY <1>1, <2>1 DEF Split, LastOpen, SplitOk
<1>6. Silence(disk)' /\ LastOpen(disk)' /\ SplitOk(disk)'
  BY DEF Split, Silence, LastOpen, SplitOk, Listed
<1>7. SeenOk' /\ StopCuts'
  BY <1>1 DEF Split, SeenOk, StopCuts
<1> QED
  BY <1>4, <1>5, <1>6, <1>7 DEF Split, LastOpen, SplitOk, Silence

LEMMA SplitOpen ==
    ASSUME IInv, Tracks, Split, OpenFlight
    PROVE  Split'
<1> DEFINE a == cur.icao
           f == db.seq + 1
<1>1. /\ a \in Aircraft /\ f \in FlightIds
      /\ active'[a] = [flight |-> f, seen |-> cur.ts, posTs |-> cur.ts, place |-> cur.place]
      /\ \A b \in Aircraft \ {a} : active'[b] = active[b]
      /\ active[a] = None
      /\ db'.rows[a] = [flight |-> f, seen |-> cur.ts]
      /\ \A b \in Aircraft \ {a} : db'.rows[b] = db.rows[b]
      /\ db'.positions = db.positions
  BY OpenFields
<1>2. pc' = "recording" /\ UNCHANGED <<clock, cur, disk, cut>> /\ pc = "opening"
  BY DEF OpenFlight
<1>3. db \in Database /\ db.seq \in Nat
  BY DEF IInv, TypeOK, Database
<1>4. db.rows[a] = None
  BY <1>1, <1>2, NoneAssumption DEF IInv, MemoryMirrorsTable, Mirrors, Up, Tracks
<1>5. ASSUME NEW p \in db.positions
      PROVE  p.flight <= f /\ p.icao \in Aircraft
  <2>1. p.flight \in FlightIds /\ p.flight \in Nat /\ p.icao \in Aircraft
    BY <1>3, FixTypes DEF FlightIds
  <2>2. ~(p.flight > db.seq)
    BY <2>1 DEF IInv, TablesOk, IdsOk
  <2> QED
    BY <1>3, <2>1, <2>2
<1>6. LastOpen(db)'
  BY <1>1, <1>5 DEF Split, LastOpen
<1>7. Silence(db)'
  <2>1. \A g : Listed(db, g) => Listed(db', g)
    BY <1>1, <1>4 DEF Listed
  <2> QED
    BY <1>1, <1>2, <2>1 DEF Split, Silence
<1>8. SplitOk(db)' /\ Silence(disk)' /\ LastOpen(disk)' /\ SplitOk(disk)'
  BY <1>1, <1>2 DEF Split, Silence, LastOpen, SplitOk, Listed
<1>9. SeenOk' /\ StopCuts' /\ CurRecent'
  BY <1>1, <1>2 DEF Split, SeenOk, StopCuts, CurRecent
<1> QED
  BY <1>6, <1>7, <1>8, <1>9 DEF Split

LEMMA SplitRecord ==
    ASSUME IInv, Tracks, Split, Record
    PROVE  Split'
<1> DEFINE a == cur.icao
           f == active[a].flight
           pos == PositionOf(cur, f)
<1>1. /\ cur \in Fix /\ a \in Aircraft /\ active[a] # None /\ f \in FlightIds
      /\ active'[a] = [flight |-> f, seen |-> cur.ts, posTs |-> cur.ts, place |-> cur.place]
      /\ \A b \in Aircraft \ {a} : active'[b] = active[b]
      /\ db'.rows = db.rows /\ db'.positions = db.positions \cup {pos}
  BY RecordFields
<1>2. pc = "recording" /\ pc' = "poll" /\ cur' = None /\ UNCHANGED <<clock, disk, cut>>
      /\ db \in Database /\ clock \in Nat
  BY DEF Record, IInv, TypeOK
<1>3. db.rows[a] # None /\ db.rows[a].flight = f
  BY <1>1, <1>2, OwnEntry DEF Tracks, Up
<1>4. pos.flight = f /\ pos.icao = a /\ pos.ts = cur.ts /\ cur.ts \in Nat /\ cur # None
  BY <1>1, NoneAssumption DEF PositionOf, Fix
<1>5. cur.ts <= clock /\ clock - cur.ts <= MaxSeen /\ MaxSeen \in Nat /\ Gap \in Nat /\ f \in Nat
  BY <1>1, <1>4, BoundsAssumption DEF Split, CurRecent, FlightIds
<1>6. \A g : Listed(db', g) <=> Listed(db, g)
  BY <1>1 DEF Listed
<1>7. Listed(db, f)
  BY <1>1, <1>3 DEF Listed
<1> HIDE DEF pos, a, f
<1>8. Silence(db)'
  BY <1>1, <1>2, <1>4, <1>6, <1>7 DEF Split, Silence
<1>9. LastOpen(db)'
  BY <1>1, <1>3, <1>4, <1>5 DEF Split, LastOpen
<1>10. SplitOk(db)'
  <2> SUFFICES ASSUME NEW p \in db'.positions, NEW q \in db'.positions, p.flight \notin cut,
                      p.icao = q.icao, p.flight < q.flight
               PROVE  q.ts - p.ts > Gap - MaxSeen
    BY <1>2 DEF SplitOk, Separated
  <2>1. CASE p \in db.positions /\ q \in db.positions
    BY <2>1 DEF Split, SplitOk, Separated
  <2>2. CASE p = pos /\ q = pos
    BY <1>4, <1>5, <2>2
  <2>3. CASE p = pos /\ q \in db.positions
    <3>1. q.flight <= f /\ q.flight \in Nat
      BY <1>2, <1>3, <1>4, <2>3, FixTypes DEF Split, LastOpen, FlightIds
    <3> QED
      BY <1>4, <1>5, <2>3, <3>1
  <2>4. CASE p \in db.positions /\ q = pos
    <3>1. p.flight \in FlightIds /\ p.flight \in Nat /\ p.ts \in Nat /\ p.icao = a
          /\ p.flight # f
      BY <1>2, <1>4, <1>5, <2>4, FixTypes DEF FlightIds
    <3>2. ~Listed(db, p.flight)
      <4> SUFFICES ASSUME NEW b \in Aircraft, db.rows[b] # None, db.rows[b].flight = p.flight
                   PROVE  FALSE
        BY DEF Listed
      <4>1. db.flights[p.flight].icao = b /\ db.flights[p.flight].icao = a
        BY <2>4, <3>1 DEF IInv, TablesOk, RowsOk, Tracks, Own
      <4> QED
        BY <1>3, <3>1, <4>1
    <3>3. clock - p.ts > Gap
      BY <2>4, <3>2 DEF Split, Silence
    <3> QED
      BY <1>2, <1>4, <1>5, <2>4, <3>1, <3>3
  <2> QED
    BY <1>1, <2>1, <2>2, <2>3, <2>4
<1>11. Silence(disk)' /\ LastOpen(disk)' /\ SplitOk(disk)'
  BY <1>2 DEF Split, Silence, LastOpen, SplitOk, Listed
<1>12. SeenOk' /\ StopCuts' /\ CurRecent'
  BY <1>1, <1>2 DEF Split, SeenOk, StopCuts, CurRecent, a, f
<1> QED
  BY <1>8, <1>9, <1>10, <1>11, <1>12 DEF Split

\* Commits, deaths and restarts: whichever database remains, it was split well.
LEMMA SplitSettle ==
    ASSUME IInv, Split, clock' = clock, cut \subseteq cut', CurRecent', StopCuts', SeenOk',
           \/ disk' = db /\ db' = db
           \/ disk' = disk /\ db' = disk
           \/ /\ db = disk /\ db' = disk'
              /\ disk'.rows = disk.rows /\ disk'.positions = disk.positions
    PROVE  Split'
<1>1. clock \in Nat /\ db \in Database /\ disk \in Database
  BY DEF IInv, TypeOK
<1>2. /\ db' = disk'
      /\ \/ disk'.rows = db.rows /\ disk'.positions = db.positions
         \/ disk'.rows = disk.rows /\ disk'.positions = disk.positions
  OBVIOUS
<1>3. Silence(disk)' /\ LastOpen(disk)' /\ SplitOk(disk)'
  BY <1>1, <1>2 DEF Split, Silence, LastOpen, SplitOk, Listed
<1> QED
  BY <1>2, <1>3 DEF Split, Silence, LastOpen, SplitOk, Listed

LEMMA SplitStep ==
    ASSUME ~MayFail, IInv, Tracks, Split, [Next]_vars
    PROVE  Split'
<1>0. clock \in Nat /\ (cur # None <=> pc \in {"opening", "recording"})
  BY DEF IInv, TypeOK, CurOk
<1>1. CASE BeginPoll \/ EndOfReports \/ BeginStop \/ UNCHANGED vars
  <2>1. UNCHANGED <<clock, cur, active, db, disk>> /\ cut \subseteq cut'
    BY <1>1 DEF BeginPoll, EndOfReports, BeginStop, vars
  <2>2. CurRecent'
    BY <2>1 DEF Split, CurRecent
  <2>3. StopCuts'
    <3>1. CASE BeginStop
      BY <3>1 DEF BeginStop, StopCuts, IInv, TypeOK, ActiveState
    <3>2. CASE BeginPoll \/ EndOfReports \/ UNCHANGED vars
      BY <3>2 DEF BeginPoll, EndOfReports, vars, Split, StopCuts
    <3> QED
      BY <1>1, <3>1, <3>2
  <2> QED
    BY <1>0, <2>1, <2>2, <2>3, SplitRest
<1>2. ASSUME NEW x \in [icao: Aircraft, ts: 0..MaxClock, place: Places, source: Sources], Detect(x)
      PROVE  Split'
  <2>1. /\ x \in Fix /\ x.icao \in Aircraft /\ x.ts \in Nat /\ cur' = x /\ pc = "poll"
        /\ UNCHANGED <<clock, disk, dirty, cut>> /\ pc' # "stop"
        /\ x.ts <= clock /\ clock - x.ts <= MaxSeen
    BY <1>2, BoundsAssumption DEF Fix, Detect, NewAircraft, AfterGap, SameFlight
  <2>2. CurRecent' /\ StopCuts'
    BY <2>1 DEF CurRecent, StopCuts
  <2>3. CASE NewAircraft(x) \/ SameFlight(x)
    BY <1>0, <2>1, <2>2, <2>3, SplitRest DEF NewAircraft, SameFlight
  <2>4. CASE AfterGap(x)
    <3>1. active[x.icao] # None /\ x.ts - active[x.icao].seen > Gap /\ CloseFlight(x.icao)
      BY <2>4 DEF AfterGap
    <3>2. active[x.icao].seen \in Nat
      BY <2>1, <3>1 DEF IInv, TypeOK, ActiveState
    <3>3. clock - active[x.icao].seen > Gap
      BY <1>0, <2>1, <3>1, <3>2, BoundsAssumption
    <3> QED
      BY <2>1, <2>2, <3>1, <3>3, SplitClose DEF Up
  <2> QED
    BY <1>2, <2>3, <2>4 DEF Detect
<1>3. CASE OpenFlight
  BY <1>3, SplitOpen
<1>4. CASE Record
  BY <1>4, SplitRecord
<1>5. ASSUME NEW a \in Aircraft, ExpireFlight(a) \/ StopClose(a)
      PROVE  Split'
  <2>1. /\ active[a] # None /\ CloseFlight(a) /\ pc \in Up /\ pc' = pc
        /\ UNCHANGED <<clock, cur, disk, cut>>
        /\ clock - active[a].seen > Gap \/ active[a].flight \in cut
    BY <1>5 DEF ExpireFlight, StopClose, Silent, Up, Split, StopCuts
  <2>2. CurRecent'
    BY <2>1 DEF Split, CurRecent
  <2> QED
    BY <2>1, <2>2, SplitClose
<1>6. CASE Commit \/ StopCommit \/ Crash
  <2>1. /\ pc' # "stop" /\ UNCHANGED <<clock, cut>>
        /\ active' = active \/ active' = NoActive
        /\ cur' = cur \/ cur' = None
        /\ \/ disk' = db /\ db' = db
           \/ disk' = disk /\ db' = disk
    BY <1>6 DEF Commit, StopCommit, Crash
  <2>2. CurRecent' /\ StopCuts' /\ SeenOk'
    BY <2>1 DEF Split, CurRecent, StopCuts, SeenOk, NoActive
  <2> QED
    BY <2>1, <2>2, SplitSettle
<1>7. CASE Start
  <2>1. /\ pc' = "idle" /\ clock' = clock /\ cur' = cur /\ db' = db /\ disk' = disk /\ db = disk
        /\ cut \subseteq cut' /\ active' = LoadActive(disk)
        /\ \A f \in FlightIds : Referenced(disk, f) => f \in cut'
    BY <1>7 DEF Start, IInv, Quiet
  <2>2. ASSUME NEW a \in Aircraft, active'[a] # None
        PROVE  active'[a].flight \in cut'
    <3>1. disk.rows[a] # None /\ active'[a].flight = disk.rows[a].flight
      BY <2>1, <2>2 DEF LoadActive, Restored
    <3>2. disk.rows[a].flight \in FlightIds
      BY <3>1 DEF IInv, TypeOK, Database, ActiveRow
    <3> QED
      BY <2>1, <3>1, <3>2 DEF Referenced
  <2>3. CurRecent' /\ StopCuts' /\ SeenOk'
    BY <2>1, <2>2 DEF Split, CurRecent, StopCuts, SeenOk
  <2> QED
    BY <2>1, <2>3, SplitSettle
<1>8. CASE BackfillPrimarySource
  <2>1. /\ db = disk /\ db' = disk'
        /\ disk'.rows = disk.rows /\ disk'.positions = disk.positions
        /\ UNCHANGED <<clock, pc, cur, active, cut>>
    BY <1>8, BackfillFields DEF BackfillPrimarySource
  <2>2. CurRecent' /\ StopCuts' /\ SeenOk'
    BY <2>1 DEF Split, CurRecent, StopCuts, SeenOk
  <2> QED
    BY <2>1, <2>2, SplitSettle
<1>9. CASE Tick
  <2>1. /\ clock' = clock + 1 /\ UNCHANGED <<pc, cur, active, db, disk, cut>>
        /\ pc \in {"idle", "down"}
    BY <1>9 DEF Tick
  <2>2. CurRecent' /\ StopCuts'
    BY <1>0, <2>1 DEF Split, CurRecent, StopCuts
  <2> QED
    BY <1>0, <2>1, <2>2, SplitRest
<1>10. ~PollFails /\ ~StopFails
  BY DEF PollFails, StopFails
<1> QED
  BY <1>1, <1>2, <1>3, <1>4, <1>5, <1>6, <1>7, <1>8, <1>9, <1>10 DEF Next

\* When no statement raises, two flights of one aircraft are separated by a silence of
\* FLIGHT_GAP_SEC, less what a fix may come late, unless the collector was stopped or
\* restarted during the first.
THEOREM SplitOnlyOnSilenceAlways ==
    ASSUME ~MayFail
    PROVE  Spec => []SplitOnlyOnSilence
<1>1. IInv /\ Tracks /\ Split /\ [Next]_vars => Split'
  BY SplitStep
<1>2. Split => SplitOnlyOnSilence
  BY DEF Split, SplitOk, SplitOnlyOnSilence
<1> QED
  BY <1>1, <1>2, SplitInit, Inductive, TracksAlways, PTL DEF Spec
-----------------------------------------------------------------------------
(* The collector implements FlightLog, when no statement raises *)

\* What the transaction in progress may have made of the flight f: the dead stay dead;
\* an open or new one has gained later fixes, or is dropped for having too few.
Lived(f) ==
    /\ disk.flights[f] = None /\ f <= disk.seq => db.flights[f] = None
    /\ Listed(disk, f) \/ f > disk.seq =>
         IF db.flights[f] # None
           THEN /\ PositionsOf(disk, f) \subseteq PositionsOf(db, f)
                /\ \A p \in PositionsOf(disk, f), q \in PositionsOf(db, f) \ PositionsOf(disk, f) :
                     p.ts < q.ts
                /\ Listed(disk, f) => db.flights[f].icao = disk.flights[f].icao
           ELSE f <= db.seq => Cardinality(PositionsOf(disk, f)) < MinKeep

Lives == Orphans(disk) = {} /\ \A f \in FlightIds : Lived(f)

\* A listed flight exists; one beyond sqlite_sequence does not.
LEMMA ListedExists ==
    ASSUME NEW d \in Database, TablesOk(d), NEW f \in FlightIds
    PROVE  /\ f \in Nat /\ d.seq \in Nat
           /\ Listed(d, f) => d.flights[f] # None
           /\ d.flights[f] # None => f <= d.seq
  BY DEF Database, TablesOk, RowsOk, IdsOk, Listed, FlightIds

\* Between transactions nothing is pending.
LEMMA LivesSettled ==
    ASSUME IInv', (db = disk)', (Orphans(disk) = {})'
    PROVE  Lives'
<1> SUFFICES ASSUME NEW f \in FlightIds PROVE Lived(f)'
  BY DEF Lives
<1>1. disk' \in Database /\ db' = disk' /\ TablesOk(disk)'
  BY DEF IInv, TypeOK
<1>2. Listed(disk, f)' => disk'.flights[f] # None
  BY <1>1 DEF TablesOk, RowsOk, Listed
<1>3. f \in Nat /\ disk'.seq \in Nat
  BY <1>1 DEF Database, FlightIds
<1> QED
  BY <1>1, <1>2, <1>3 DEF Lived

LEMMA LivesRest ==
    ASSUME Lives, UNCHANGED <<db, disk>>
    PROVE  Lives'
  BY DEF Lives, Lived, Orphans, Listed, PositionsOf

LEMMA LivesClose ==
    ASSUME IInv, Counting, Lives, NEW a \in Aircraft, active[a] # None, CloseFlight(a), disk' = disk
    PROVE  Lives'
<1> DEFINE f == active[a].flight
<1>1. /\ f \in FlightIds /\ db'.seq = db.seq
      /\ \A g \in FlightIds \ {f} : SameFlightIn(db, db', g)
      /\ \/ SameFlightIn(db, db', f)
         \/ DroppedFlight(db, db', f)
         \/ \E p : Finalised(db, db', f, p)
  BY CloseFields DEF IInv
<1>2. ASSUME NEW g \in FlightIds, SameFlightIn(db, db', g) \/ \E p : Finalised(db, db', g, p)
      PROVE  Lived(g)'
  <2>1. /\ PositionsOf(db', g) = PositionsOf(db, g)
        /\ db'.flights[g] = None <=> db.flights[g] = None
        /\ db'.flights[g] # None => db'.flights[g].icao = db.flights[g].icao
    BY <1>2 DEF SameFlightIn, Finalised
  <2> QED
    BY <1>1, <2>1 DEF Lives, Lived, Listed, PositionsOf
<1>3. ASSUME NEW g \in FlightIds, g = f, DroppedFlight(db, db', f)
      PROVE  Lived(g)'
  <2>1. /\ db.flights[f] # None /\ db'.flights[f] = None
        /\ db.flights[f].total = Cardinality(PositionsOf(db, f))
        /\ db.flights[f].total < MinKeep
    BY <1>1, <1>3 DEF DroppedFlight, Counting, CountsOk, CountOk
  <2>2. ASSUME Listed(disk, f) \/ f > disk.seq
        PROVE  Cardinality(PositionsOf(disk, f)) < MinKeep
    <3>1. PositionsOf(disk, f) \subseteq PositionsOf(db, f)
      BY <1>1, <2>1, <2>2 DEF Lives, Lived
    <3>2. IsFiniteSet(PositionsOf(db, f))
      <4>1. PositionsOf(db, f) \subseteq db.positions
        BY DEF PositionsOf
      <4> HIDE DEF f
      <4> QED
        BY <4>1, FS_Subset DEF Counting
    <3>3. /\ Cardinality(PositionsOf(disk, f)) <= Cardinality(PositionsOf(db, f))
          /\ IsFiniteSet(PositionsOf(disk, f))
      BY <3>1, <3>2, FS_Subset
    <3>4. Cardinality(PositionsOf(disk, f)) \in Nat /\ Cardinality(PositionsOf(db, f)) \in Nat
      BY <3>2, <3>3, FS_CardinalityType
    <3> HIDE DEF f
    <3> QED
      BY <2>1, <3>3, <3>4, BoundsAssumption
  <2> QED
    BY <1>1, <1>3, <2>1, <2>2 DEF Lived, Listed, PositionsOf
<1> QED
  BY <1>1, <1>2, <1>3 DEF Lives, Orphans, Listed

LEMMA LivesOpen ==
    ASSUME IInv, Counting, Lives, OpenFlight
    PROVE  Lives'
<1> DEFINE f == db.seq + 1
<1>1. /\ f \in FlightIds /\ db'.seq = f /\ db'.flights[f] # None
      /\ \A g \in FlightIds : PositionsOf(db', g) = PositionsOf(db, g)
      /\ \A g \in FlightIds \ {f} : db'.flights[g] = db.flights[g]
      /\ disk' = disk
  BY OpenFields DEF OpenFlight
<1>2. /\ disk \in Database /\ db.seq \in Nat /\ disk.seq \in Nat /\ disk.seq <= db.seq
      /\ TablesOk(disk)
  BY DEF IInv, TypeOK, Database, Counting
<1>3. disk.flights[f] = None /\ PositionsOf(disk, f) = {} /\ ~Listed(disk, f)
  BY <1>1, <1>2 DEF TablesOk, IdsOk, RowsOk, PositionsOf, Listed
<1>4. ASSUME NEW g \in FlightIds, g = f PROVE Lived(g)'
  BY <1>1, <1>2, <1>3, <1>4 DEF Lived, Listed, PositionsOf
<1>5. ASSUME NEW g \in FlightIds \ {f} PROVE Lived(g)'
  <2>1. g \in Nat /\ (g <= f => g <= db.seq)
    BY <1>2 DEF FlightIds
  <2> QED
    BY <1>1, <2>1 DEF Lives, Lived, Listed, PositionsOf
<1> QED
  BY <1>1, <1>4, <1>5 DEF Lives, Orphans, Listed

LEMMA LivesRecord ==
    ASSUME IInv, Tracks, Lives, Record
    PROVE  Lives'
<1> DEFINE f == active[cur.icao].flight
           pos == PositionOf(cur, f)
<1>1. /\ cur \in Fix /\ f \in FlightIds /\ db.flights[f] \in FlightRow
      /\ db.flights[f] # None /\ db'.flights[f] # None
      /\ db'.flights[f] = Counted(db.flights[f], cur)
      /\ db'.seq = db.seq
      /\ PositionsOf(db', f) = PositionsOf(db, f) \cup {pos}
      /\ \A g \in FlightIds \ {f} : SameFlightIn(db, db', g)
  BY RecordFields
<1>2. pc = "recording" /\ disk' = disk
  BY DEF Record
<1>3. db'.flights[f].icao = db.flights[f].icao /\ pos.ts = cur.ts
  BY <1>1, CountedRow DEF PositionOf
<1>4. \A p \in PositionsOf(db, f) : p.ts < cur.ts
  BY <1>2 DEF Tracks, CurReached
<1>5. ASSUME NEW g \in FlightIds, g = f PROVE Lived(g)'
  <2> SUFFICES ASSUME Listed(disk, f) \/ f > disk.seq
               PROVE  /\ PositionsOf(disk, f) \subseteq PositionsOf(db', f)
                      /\ \A p \in PositionsOf(disk, f), q \in PositionsOf(db', f) \ PositionsOf(disk, f) :
                           p.ts < q.ts
                      /\ Listed(disk, f) => db'.flights[f].icao = disk.flights[f].icao
    BY <1>1, <1>2, <1>5 DEF Lives, Lived, Listed, PositionsOf
  <2>1. Lived(f)
    BY <1>1 DEF Lives
  <2> HIDE DEF pos, f
  <2> QED
    BY <1>1, <1>3, <1>4, <2>1 DEF Lived
<1>6. ASSUME NEW g \in FlightIds \ {f} PROVE Lived(g)'
  BY <1>1, <1>2 DEF Lives, Lived, SameFlightIn, Listed, PositionsOf
<1> QED
  BY <1>1, <1>2, <1>5, <1>6 DEF Lives, Orphans, Listed

LEMMA LivesStep ==
    ASSUME ~MayFail, IInv, IInv', Counting, Kept, Tracks, Lives, [Next]_vars
    PROVE  Lives'
<1>1. CASE BeginPoll \/ EndOfReports \/ BeginStop \/ Tick \/ UNCHANGED vars
  BY <1>1, LivesRest DEF BeginPoll, EndOfReports, BeginStop, Tick, vars
<1>2. ASSUME NEW x \in [icao: Aircraft, ts: 0..MaxClock, place: Places, source: Sources], Detect(x)
      PROVE  Lives'
  BY <1>2, LivesRest, LivesClose DEF Detect, NewAircraft, AfterGap, SameFlight
<1>3. CASE OpenFlight
  BY <1>3, LivesOpen
<1>4. CASE Record
  BY <1>4, LivesRecord
<1>5. CASE \E a \in Aircraft : ExpireFlight(a) \/ StopClose(a)
  BY <1>5, LivesClose DEF ExpireFlight, StopClose, Silent
<1>6. CASE Commit \/ StopCommit \/ Start \/ Crash
  <2>1. db' = disk' /\ disk' \in {disk, db}
    BY <1>6 DEF Commit, StopCommit, Start, Crash, IInv, Quiet
  <2>2. (Orphans(disk) = {})'
    BY <2>1 DEF Lives, Kept, Tracks, Orphans
  <2> QED
    BY <2>1, <2>2, LivesSettled
<1>7. CASE BackfillPrimarySource
  <2>1. /\ db' = disk' /\ disk'.rows = disk.rows
        /\ \A f \in FlightIds : disk'.flights[f] = disk.flights[f]
    BY <1>7, BackfillFields DEF Lives, SameFlightIn
  <2>2. (Orphans(disk) = {})'
    BY <2>1 DEF Lives, Orphans, Listed
  <2> QED
    BY <2>1, <2>2, LivesSettled
<1>8. ~PollFails /\ ~StopFails
  BY DEF PollFails, StopFails
<1> QED
  BY <1>1, <1>2, <1>3, <1>4, <1>5, <1>6, <1>7, <1>8 DEF Next

LEMMA LivesAlways ==
    ASSUME ~MayFail
    PROVE  Spec => []Lives
<1>1. Init => Lives
  BY DEF Init, Lives, Lived, Orphans, Listed, EmptyDb, FlightIds
<1>2. IInv /\ IInv' /\ Counting /\ Kept /\ Tracks /\ Lives /\ [Next]_vars => Lives'
  BY LivesStep
<1> QED
  BY <1>1, <1>2, Inductive, CountingAlways, KeptAlways, TracksAlways, PTL DEF Spec
-----------------------------------------------------------------------------
(* One step of the collector is one step in the lives of flights, or none *)

\* Everything the refinement relies on.
Faithful == IInv /\ Counting /\ Kept /\ Tracks /\ Lives

LEMMA SameLives ==
    ASSUME NEW f \in FlightIds, UNCHANGED disk
    PROVE  LifeOf(f)' = LifeOf(f)
  BY DEF LifeOf, Listed, PositionsOf

LEMMA BackfillSameLives ==
    ASSUME IInv, BackfillPrimarySource, NEW f \in FlightIds
    PROVE  LifeOf(f)' = LifeOf(f)
<1>1. /\ disk'.rows = disk.rows /\ disk'.seq = disk.seq
      /\ PositionsOf(disk', f) = PositionsOf(disk, f)
      /\ disk'.flights[f] = None <=> disk.flights[f] = None
      /\ disk'.flights[f] # None => disk'.flights[f].icao = disk.flights[f].icao
  BY BackfillFields DEF SameFlightIn, Finalised
<1>2. Listed(disk', f) <=> Listed(disk, f)
  BY <1>1 DEF Listed
<1> QED
  BY <1>1, <1>2 DEF LifeOf

\* FlightLog counts as Collector does.
LEMMA SameCardinality == \A S : Log!Cardinality(S) = Cardinality(S)
  BY Zenon DEF Log!Cardinality, Cardinality

\* What a commit makes of the life of one flight.
LEMMA CommitLives ==
    ASSUME Faithful, pc # "recording", disk' = db, NEW f \in FlightIds
    PROVE  Log!Lives(f)
<1> DEFINE old == LifeOf(f)
           new == LifeOf(f)'
<1>1. f \in Nat /\ disk \in Database /\ db \in Database /\ disk.seq \in Nat /\ db.seq \in Nat
      /\ disk.seq <= db.seq
  BY DEF Faithful, IInv, TypeOK, Database, Counting, FlightIds
<1>2. /\ Listed(disk, f) => disk.flights[f] # None
      /\ disk.flights[f] # None => f <= disk.seq
      /\ db.flights[f] # None => f <= db.seq
  BY <1>1, ListedExists DEF Faithful, IInv
<1>3. /\ old.state = IF disk.flights[f] = None
                       THEN IF f <= disk.seq THEN "gone" ELSE "unborn"
                       ELSE IF Listed(disk, f) THEN "open" ELSE "finished"
      /\ old.icao = IF disk.flights[f] = None THEN None ELSE disk.flights[f].icao
      /\ old.fixes = IF disk.flights[f] = None THEN {} ELSE PositionsOf(disk, f)
  BY DEF LifeOf
<1>4. /\ new.state = IF db.flights[f] = None
                       THEN IF f <= db.seq THEN "gone" ELSE "unborn"
                       ELSE IF Listed(db, f) THEN "open" ELSE "finished"
      /\ new.icao = IF db.flights[f] = None THEN None ELSE db.flights[f].icao
      /\ new.fixes = IF db.flights[f] = None THEN {} ELSE PositionsOf(db, f)
  BY DEF LifeOf
<1>5. Lived(f)
  BY DEF Faithful, Lives
<1>6. CASE disk.flights[f] = None /\ f <= disk.seq
  <2>1. db.flights[f] = None /\ f <= db.seq
    BY <1>1, <1>5, <1>6 DEF Lived
  <2>2. new = old
    BY <1>6, <2>1 DEF LifeOf
  <2> QED
    BY <2>2 DEF Log!Lives
<1>7. CASE disk.flights[f] # None /\ ~Listed(disk, f)
  <2>1. Finished(disk, f)
    BY <1>7 DEF Finished, Faithful, Lives, Orphans
  <2>2. ~Listed(db, f) /\ SameFlightIn(disk, db, f)
    BY <2>1 DEF Faithful, Kept, Tracks
  <2>3. new = old
    BY <1>7, <2>2 DEF LifeOf, SameFlightIn
  <2> QED
    BY <2>3 DEF Log!Lives
<1>8. CASE Listed(disk, f) \/ f > disk.seq
  <2>1. old.state \in {"unborn", "open"}
    BY <1>1, <1>2, <1>3, <1>8
  <2>2. PositionsOf(disk, f) = old.fixes
    BY <1>1, <1>2, <1>3, <1>8 DEF Faithful, IInv, TablesOk, IdsOk, PositionsOf
  <2>3. CASE db.flights[f] # None
    <3>1. new.state \in {"open", "finished"} /\ new.fixes = PositionsOf(db, f)
          /\ new.icao = db.flights[f].icao
      BY <1>4, <2>3
    <3>2. new.fixes # {}
      BY <2>3, <3>1 DEF Faithful, IInv, NonEmpty, NewFlightOnly
    <3>3. \A p \in new.fixes : p.icao = new.icao
      BY <3>1 DEF Faithful, Tracks, Own, PositionsOf
    <3>4. /\ old.fixes \subseteq new.fixes
          /\ \A p \in old.fixes, q \in new.fixes \ old.fixes : p.ts < q.ts
      BY <1>5, <1>8, <2>2, <2>3, <3>1 DEF Lived
    <3>5. old.state = "open" => new.icao = old.icao
      BY <1>3, <1>5, <2>3, <3>1 DEF Lived
    <3> HIDE DEF old, new
    <3> QED
      BY <2>1, <3>1, <3>2, <3>3, <3>4, <3>5 DEF Log!Lives, Log!Grows, old, new
  <2>4. CASE db.flights[f] = None /\ f <= db.seq
    <3>1. new.state = "gone"
      BY <1>4, <2>4
    <3>2. Cardinality(old.fixes) < MinKeep
      BY <1>5, <1>8, <2>2, <2>4 DEF Lived
    <3> HIDE DEF old, new
    <3> QED
      BY <2>1, <3>1, <3>2, SameCardinality DEF Log!Lives, old, new
  <2>5. CASE db.flights[f] = None /\ ~(f <= db.seq)
    <3>1. disk.flights[f] = None /\ ~(f <= disk.seq)
      BY <1>1, <1>2, <2>5
    <3>2. new = old
      BY <2>5, <3>1 DEF LifeOf
    <3> QED
      BY <3>2 DEF Log!Lives
  <2> QED
    BY <2>3, <2>4, <2>5
<1> QED
  BY <1>1, <1>6, <1>7, <1>8

LEMMA InitialLives == Init => Log!Init
<1> SUFFICES ASSUME Init PROVE Log!Init
  OBVIOUS
<1>1. ASSUME NEW f \in FlightIds
      PROVE  LifeOf(f) = [state |-> "unborn", icao |-> None, fixes |-> {}]
  <2>1. disk.flights[f] = None /\ disk.seq = 0 /\ ~(f <= 0)
    BY DEF Init, EmptyDb, FlightIds
  <2> QED
    BY <2>1 DEF LifeOf
<1> QED
  BY <1>1 DEF Log!Init, Log!Unborn

\* An aircraft has one row in active_flights, and ids are handed out in order.
LEMMA LivesInOrder ==
    ASSUME IInv
    PROVE  /\ Log!OneOpenEach([f \in FlightIds |-> LifeOf(f)])
           /\ Log!BornInOrder([f \in FlightIds |-> LifeOf(f)])
<1>1. disk \in Database /\ TablesOk(disk)
  BY DEF IInv, TypeOK
<1>2. ASSUME NEW f \in FlightIds, LifeOf(f).state = "open"
      PROVE  /\ LifeOf(f).icao \in Aircraft
             /\ disk.rows[LifeOf(f).icao] # None /\ disk.rows[LifeOf(f).icao].flight = f
  <2>1. disk.flights[f] # None /\ Listed(disk, f) /\ LifeOf(f).icao = disk.flights[f].icao
    BY <1>2 DEF LifeOf
  <2>2. PICK a \in Aircraft : disk.rows[a] # None /\ disk.rows[a].flight = f
    BY <2>1 DEF Listed
  <2>3. disk.flights[f].icao = a
    BY <1>1, <2>2 DEF TablesOk, RowsOk
  <2> QED
    BY <2>1, <2>2, <2>3
<1>3. ASSUME NEW f \in FlightIds
      PROVE  LifeOf(f).state # "unborn" <=> f <= disk.seq
  BY <1>1, ListedExists DEF LifeOf
<1>4. \A f, g \in FlightIds : f < g /\ g <= disk.seq => f <= disk.seq
  BY <1>1 DEF FlightIds, Database
<1> QED
  BY <1>2, <1>3, <1>4 DEF Log!OneOpenEach, Log!BornInOrder

LEMMA StepOfLives ==
    ASSUME Faithful, IInv', [Next]_vars
    PROVE  [Log!Next]_([f \in FlightIds |-> LifeOf(f)])
<1>1. CASE disk' = disk
  BY <1>1, SameLives
<1>2. CASE BackfillPrimarySource
  BY <1>2, BackfillSameLives DEF Faithful
<1>3. CASE disk' = db /\ disk' # disk
  <2>1. pc # "recording"
    BY <1>3 DEF Next, BeginPoll, Detect, OpenFlight, Record, EndOfReports, ExpireFlight, Commit,
                PollFails, Start, Crash, BeginStop, StopClose, StopCommit, StopFails,
                BackfillPrimarySource, Tick, vars
  <2>2. \A f \in FlightIds : Log!Lives(f)
    BY <1>3, <2>1, CommitLives
  <2>3. /\ Log!OneOpenEach([f \in FlightIds |-> LifeOf(f)])'
        /\ Log!BornInOrder([f \in FlightIds |-> LifeOf(f)])'
    BY LivesInOrder, PTL
  <2> QED
    BY <2>2, <2>3 DEF Log!Next
<1> QED
  BY <1>1, <1>2, <1>3, DiskStep DEF Faithful

\* Without database errors inside transactions, the committed tables follow FlightLog:
\* each flight is opened once, gains later and later fixes of its one aircraft, and is
\* finished for good or dropped; through crashes, restarts and stops at any point.
THEOREM CollectorImplementsFlightLog ==
    ASSUME ~MayFail
    PROVE  Spec => ImplementsFlightLog
<1>1. IInv /\ IInv' /\ Counting /\ Kept /\ Tracks /\ Lives /\ [Next]_vars =>
        [Log!Next]_([f \in FlightIds |-> LifeOf(f)])
  BY StepOfLives DEF Faithful
<1> QED
  BY <1>1, InitialLives, Inductive, CountingAlways, KeptAlways, TracksAlways, LivesAlways, PTL
     DEF Spec, ImplementsFlightLog, Log!Spec
=============================================================================
