----------------------------- MODULE FlightLog -----------------------------
(***************************************************************************)
(* What the history database promises to everything that reads it (the web *)
(* API, the MCP server, the scripts): each flight has one life.  It is     *)
(* opened for one aircraft, gains later and later fixes, and then is       *)
(* either finished and never changes again, or dropped because it had too  *)
(* few fixes; its id is never given to another flight.  An aircraft has at *)
(* most one open flight.  One step is whatever one transaction commits.    *)
(***************************************************************************)
EXTENDS Integers, FiniteSets

CONSTANTS Aircraft, FlightIds, MinKeep, None

VARIABLE log   \* log[f]: the life of flight f

Unborn == [state |-> "unborn", icao |-> None, fixes |-> {}]

Init == log = [f \in FlightIds |-> Unborn]

\* New fixes are later than all the flight had.
Grows(f) ==
    /\ log[f].fixes \subseteq log'[f].fixes
    /\ \A p \in log[f].fixes, q \in log'[f].fixes \ log[f].fixes : p.ts < q.ts
    /\ log[f].state = "open" => log'[f].icao = log[f].icao

Lives(f) ==
    \/ log'[f] = log[f]
    \/ /\ log[f].state \in {"unborn", "open"}
       /\ log'[f].state \in {"open", "finished"}
       /\ log'[f].fixes # {}
       /\ \A p \in log'[f].fixes : p.icao = log'[f].icao
       /\ Grows(f)
    \/ /\ log[f].state \in {"unborn", "open"}
       /\ log'[f].state = "gone"
       /\ Cardinality(log[f].fixes) < MinKeep

OneOpenEach(l) == \A f, g \in FlightIds :
    l[f].state = "open" /\ l[g].state = "open" /\ l[f].icao = l[g].icao => f = g

BornInOrder(l) == \A f, g \in FlightIds :
    f < g /\ l[g].state # "unborn" => l[f].state # "unborn"

Next ==
    /\ \A f \in FlightIds : Lives(f)
    /\ OneOpenEach(log')
    /\ BornInOrder(log')

Spec == Init /\ [][Next]_log
=============================================================================
