---------------------------- MODULE CollectorLog ----------------------------
(***************************************************************************)
(* The collector implements FlightLog: the committed tables, read as the   *)
(* lives of flights.                                                       *)
(***************************************************************************)
EXTENDS Collector

\* A flight id is dead once sqlite_sequence has passed it and its row is gone.
LifeOf(f) ==
    LET rec == disk.flights[f]
    IN  IF rec = None
          THEN [state |-> IF f <= disk.seq THEN "gone" ELSE "unborn",
                icao |-> None, fixes |-> {}]
          ELSE [state |-> IF Listed(disk, f) THEN "open" ELSE "finished",
                icao |-> rec.icao, fixes |-> PositionsOf(disk, f)]

Log == INSTANCE FlightLog WITH log <- [f \in FlightIds |-> LifeOf(f)]

\* Without database errors inside transactions, every commit of the collector, and
\* nothing it does between commits, is a step in the lives of flights; crashes,
\* restarts and graceful stops at any point included.
ImplementsFlightLog == Log!Spec
=============================================================================
