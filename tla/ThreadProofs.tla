---------------------------- MODULE ThreadProofs ----------------------------
(***************************************************************************)
(* Theorems about the two daemon threads the collector feeds.               *)
(*                                                                          *)
(* RouteEnricher: for every set of callsigns, every number of flights and   *)
(* faults, and every expiry, no known side of a route is taken back.        *)
(*                                                                          *)
(* Alerts: for every set of aircraft, every queue, and every number of      *)
(* flights, starts, failing polls and crashes, no alert is given twice.     *)
(***************************************************************************)
EXTENDS RouteEnricher, Alerts, SequenceTheorems, TLAPS

-----------------------------------------------------------------------------
(* The route enricher *)

(* The part of TypeOK the action properties need. *)
Shape ==
    /\ flights \in [Flights -> [callsign: Callsigns \cup {0}, route: Route]]
    /\ routes \in [Callsigns -> Route]
    /\ batch \subseteq Callsigns
    /\ asking \in Callsigns \cup {0}

(* Merging two routes gives a route that knows what either of them knows. *)
LEMMA BothMerges ==
    ASSUME NEW r \in Route, NEW s \in Route
    PROVE  /\ Both(r, s) \in Route
           /\ r.origin \/ s.origin <=> Both(r, s).origin
           /\ r.dest \/ s.dest <=> Both(r, s).dest
<1>1. r.origin \in BOOLEAN /\ r.dest \in BOOLEAN /\ s.origin \in BOOLEAN /\ s.dest \in BOOLEAN
  BY DEF Route
<1>2. (r.origin \/ s.origin) \in BOOLEAN /\ (r.dest \/ s.dest) \in BOOLEAN
  OBVIOUS
<1> QED
  BY <1>1, <1>2 DEF Both, Route

(* What an answer leaves in the cache. *)
LEMMA StoredRouteType ==
    ASSUME Shape, NEW c \in Callsigns,
           NEW reply, reply.found => reply.route \in Route
    PROVE  StoredRoute(c, reply) \in [Callsigns -> Route]
<1>1. Nothing \in Route
  BY DEF Nothing, Route
<1>2. reply.found => Both(reply.route, routes[c]) \in Route
  BY BothMerges DEF Shape
<1> QED
  BY <1>1, <1>2 DEF StoredRoute, Shape

(* What an answer leaves on a flight: its callsign, and what was known or is new. *)
LEMMA AppliedMerges ==
    ASSUME Shape, NEW c \in Callsigns, NEW reply \in Replies
    PROVE  /\ Applied(c, reply) \in [Flights -> [callsign: Callsigns \cup {0}, route: Route]]
           /\ \A f \in Flights :
                 LET new == Applied(c, reply)[f]
                 IN  /\ new.callsign = flights[f].callsign
                     /\ flights[f].route.origin => new.route.origin
                     /\ flights[f].route.dest => new.route.dest
                     /\ flights[f].callsign = c /\ reply.found =>
                           /\ reply.route.origin => new.route.origin
                           /\ reply.route.dest => new.route.dest
<1> DEFINE Flight == [callsign: Callsigns \cup {0}, route: Route]
           new(f) == Applied(c, reply)[f]
<1>1. reply.route \in Route
  BY DEF Replies
<1>2. ASSUME NEW f \in Flights
      PROVE  /\ new(f) \in Flight
             /\ new(f).callsign = flights[f].callsign
             /\ flights[f].route.origin => new(f).route.origin
             /\ flights[f].route.dest => new(f).route.dest
             /\ flights[f].callsign = c /\ reply.found =>
                   /\ reply.route.origin => new(f).route.origin
                   /\ reply.route.dest => new(f).route.dest
  <2>1. flights[f] \in Flight /\ flights[f].route \in Route
    BY DEF Shape
  <2>2. CASE flights[f].callsign = c /\ reply.found
    <3>1. new(f) = [flights[f] EXCEPT !.route = Both(reply.route, flights[f].route)]
      BY <2>2 DEF Applied
    <3>2. /\ new(f).callsign = flights[f].callsign
          /\ new(f).route = Both(reply.route, flights[f].route)
      BY <2>1, <3>1
    <3>3. Both(reply.route, flights[f].route) \in Route
      BY <1>1, <2>1, BothMerges
    <3>4. new(f) \in Flight
      BY <2>1, <3>1, <3>3
    <3> HIDE DEF new
    <3> QED
      BY <1>1, <2>1, <3>2, <3>4, BothMerges
  <2>3. CASE ~(flights[f].callsign = c /\ reply.found)
    <3>1. new(f) = flights[f]
      BY <2>3 DEF Applied
    <3> HIDE DEF new
    <3> QED
      BY <2>1, <2>3, <3>1
  <2> QED
    BY <2>2, <2>3
<1>3. Applied(c, reply) = [f \in Flights |-> new(f)]
  BY DEF Applied
<1> QED
  BY <1>2, <1>3

LEMMA InitShape == Init => Shape
<1>1. Nothing \in Route
  BY DEF Nothing, Route
<1> QED
  BY <1>1 DEF Init, Shape

LEMMA NextShape == Shape /\ [Next]_vars => Shape'
<1> SUFFICES ASSUME Shape, [Next]_vars
             PROVE  Shape'
  OBVIOUS
<1>1. CASE UNCHANGED vars
  BY <1>1 DEF vars, Shape
<1>2. ASSUME NEW c \in Callsigns, OpenFlight(c)
      PROVE  Shape'
  BY <1>2 DEF OpenFlight, Shape, thread
<1>3. ASSUME NEW f \in Flights, CloseFlight(f)
      PROVE  Shape'
  BY <1>3 DEF CloseFlight, Shape, thread
<1>4. CASE BeginBatch
  BY <1>4 DEF BeginBatch, FirstOf, Unresolved, Shape, tables
<1>5. ASSUME NEW c \in Callsigns, Ask(c)
      PROVE  Shape'
  BY <1>5 DEF Ask, Shape, tables
<1>6. ASSUME NEW reply \in Replies, Answer(reply)
      PROVE  Shape'
  <2>1. asking \in Callsigns /\ asking' = 0 /\ batch' = batch
    BY <1>6 DEF Answer, Shape
  <2>2. reply.route \in Route
    BY DEF Replies
  <2>3. routes' \in [Callsigns -> Route]
    BY <1>6, <2>1, <2>2, StoredRouteType DEF Answer
  <2>4. flights' \in [Flights -> [callsign: Callsigns \cup {0}, route: Route]]
    BY <1>6, <2>1, AppliedMerges DEF Answer
  <2> QED
    BY <2>1, <2>3, <2>4 DEF Shape
<1>7. CASE TransientError
  BY <1>7 DEF TransientError, Shape, tables
<1>8. CASE PermanentError
  <2>1. asking \in Callsigns /\ asking' = 0 /\ batch' = batch /\ flights' = flights
    BY <1>8 DEF PermanentError, Shape
  <2>2. StoredRoute(asking, [found |-> FALSE]) \in [Callsigns -> Route]
    BY <2>1, StoredRouteType
  <2>3. routes' \in [Callsigns -> Route]
    BY <1>8, <2>2 DEF PermanentError, Shape
  <2> QED
    BY <2>1, <2>3 DEF Shape
<1>9. CASE DatabaseError
  BY <1>9 DEF DatabaseError, Shape, tables
<1>10. CASE EndBatch
  BY <1>10 DEF EndBatch, Shape, tables
<1>11. CASE Restart
  BY <1>11 DEF Restart, Shape, tables
<1>12. CASE Minute
  BY <1>12 DEF Minute, Shape, tables, thread
<1>13. CASE Day
  BY <1>13 DEF Day, Shape, thread
<1> QED
  BY <1>1, <1>2, <1>3, <1>4, <1>5, <1>6, <1>7, <1>8, <1>9, <1>10, <1>11, <1>12, <1>13
     DEF Next, Step

LEMMA ShapeAlways == Spec => []Shape
BY InitShape, NextShape, PTL DEF Spec

(* A step that leaves flights and routes alone, or gives a flight its callsign. *)
LEMMA OtherSteps ==
    ASSUME Shape, [Next]_vars, \A reply \in Replies : ~Answer(reply)
    PROVE  /\ \A f \in Flights : flights'[f].route = flights[f].route
           /\ \A c \in Callsigns : routes'[c] = routes[c] \/ routes'[c] = Nothing
<1> USE DEF Shape
<1>1. CASE \E c \in Callsigns : OpenFlight(c)
  <2>1. PICK c \in Callsigns : OpenFlight(c)
    BY <1>1
  <2>2. PICK g \in Flights : flights' = [flights EXCEPT ![g].callsign = c]
    BY <2>1 DEF OpenFlight
  <2>3. \A f \in Flights : flights'[f].route = flights[f].route
    BY <2>2
  <2> QED
    BY <2>1, <2>3 DEF OpenFlight
<1>2. CASE PermanentError
  <2>1. flights' = flights /\ asking \in Callsigns
    BY <1>2 DEF PermanentError
  <2>2. routes' = StoredRoute(asking, [found |-> FALSE]) \/ routes' = routes
    BY <1>2 DEF PermanentError
  <2>3. StoredRoute(asking, [found |-> FALSE]) = [routes EXCEPT ![asking] = Nothing]
    BY DEF StoredRoute
  <2> QED
    BY <2>1, <2>2, <2>3
<1>3. ASSUME ~(\E c \in Callsigns : OpenFlight(c)), ~PermanentError
      PROVE  flights' = flights /\ routes' = routes
  BY <1>3 DEF Next, Step, vars, tables, CloseFlight, BeginBatch, Ask, TransientError,
      DatabaseError, EndBatch, Restart, Minute, Day
<1> QED
  BY <1>1, <1>2, <1>3

(* No step takes a known side of a flight's route back: a later answer that knows less, *)
(* a 404, a permanent error, a rolled back transaction or a restart.                    *)
THEOREM RouteNeverForgottenAlways == Spec => RouteNeverForgotten
<1>1. ASSUME Shape, [Next]_vars
      PROVE  \A f \in Flights :
                /\ flights[f].route.origin => flights'[f].route.origin
                /\ flights[f].route.dest => flights'[f].route.dest
  <2>1. CASE \E reply \in Replies : Answer(reply)
    <3>1. PICK reply \in Replies : Answer(reply)
      BY <2>1
    <3>2. asking \in Callsigns /\ flights' = Applied(asking, reply)
      BY <1>1, <3>1 DEF Answer, Shape
    <3> QED
      BY <1>1, <3>2, AppliedMerges
  <2>2. CASE \A reply \in Replies : ~Answer(reply)
    BY <1>1, <2>2, OtherSteps
  <2> QED
    BY <2>1, <2>2
<1> QED
  BY <1>1, ShapeAlways, PTL DEF Spec, RouteNeverForgotten

(* What the cached row of a callsign learns in a step, all its flights learn in it. *)
THEOREM NoFlightLeftOutAlways == Spec => NoFlightLeftOut
<1> DEFINE Told == \A f \in Flights, c \in Callsigns :
              LET new == flights'[f].route
              IN  flights[f].callsign = c =>
                      /\ routes'[c].origin => routes[c].origin \/ new.origin
                      /\ routes'[c].dest => routes[c].dest \/ new.dest
<1>1. ASSUME Shape, [Next]_vars
      PROVE  Told
  <2>1. CASE \E reply \in Replies : Answer(reply)
    <3>1. PICK reply \in Replies : Answer(reply)
      BY <2>1
    <3>2. /\ asking \in Callsigns /\ reply.route \in Route
          /\ flights' = Applied(asking, reply) /\ routes' = StoredRoute(asking, reply)
      BY <1>1, <3>1 DEF Answer, Shape, Replies
    <3> SUFFICES ASSUME NEW f \in Flights, NEW c \in Callsigns, flights[f].callsign = c
                 PROVE  /\ routes'[c].origin => routes[c].origin \/ flights'[f].route.origin
                        /\ routes'[c].dest => routes[c].dest \/ flights'[f].route.dest
      OBVIOUS
    <3>3. CASE c # asking
      <4>1. routes'[c] = routes[c]
        BY <1>1, <3>2, <3>3 DEF StoredRoute, Shape
      <4> QED
        BY <4>1
    <3>4. CASE c = asking /\ reply.found
      <4>1. routes'[c] = Both(reply.route, routes[c]) /\ routes[c] \in Route
        BY <1>1, <3>2, <3>4 DEF StoredRoute, Shape
      <4>2. /\ routes'[c].origin <=> reply.route.origin \/ routes[c].origin
            /\ routes'[c].dest <=> reply.route.dest \/ routes[c].dest
        BY <3>2, <4>1, BothMerges
      <4>3. /\ reply.route.origin => flights'[f].route.origin
            /\ reply.route.dest => flights'[f].route.dest
        BY <1>1, <3>2, <3>4, AppliedMerges
      <4> QED
        BY <4>2, <4>3
    <3>5. CASE c = asking /\ ~reply.found
      <4>1. routes'[c] = Nothing
        BY <1>1, <3>2, <3>5 DEF StoredRoute, Shape
      <4> QED
        BY <4>1 DEF Nothing
    <3> QED
      BY <3>3, <3>4, <3>5
  <2>2. CASE \A reply \in Replies : ~Answer(reply)
    <3>1. \A c \in Callsigns : routes'[c] = routes[c] \/ routes'[c] = Nothing
      BY <1>1, <2>2, OtherSteps
    <3> QED
      BY <3>1 DEF Nothing
  <2> QED
    BY <2>1, <2>2
<1> QED
  BY <1>1, ShapeAlways, PTL DEF Spec, NoFlightLeftOut

-----------------------------------------------------------------------------
(* The inductive invariant of the alerts *)

\* Where an alert can be between the decision and the notifier.
Pended(x) == \E i \in 1..Len(pending) : pending[i] = x
Held(x) == item = x \/ Queued(x)
Out(x) == Held(x) \/ Pended(x)

\* Alerts that must not be given both: the first sightings of one aircraft, and the
\* squawk alert of one flight, unless two entries of _active named the flight.
SameBut(x, y, excused) ==
    /\ x.kind = y.kind /\ x.icao = y.icao
    /\ x.kind = "sqk" => x.flight = y.flight /\ x.flight \notin excused
Same(x, y) == SameBut(x, y, shared)

\* The tables: ids come from the sequence, and active_flights refers to flights.
GoodTables(d) ==
    /\ \A f \in FlightIds : d.owner[f] # None => f <= d.seq
    /\ \A b \in Aircraft : d.open[b] # None => d.owner[d.open[b]] = b

\* Only a poll is ahead of the committed tables, and only it has pending alerts.
TablesOk ==
    /\ GoodTables(db) /\ GoodTables(disk)
    /\ disk.seq <= db.seq
    /\ main # "poll" => db = disk
    /\ main \notin {"poll", "enqueue"} => pending = <<>>
    /\ main = "down" => active = Nobody /\ queue = <<>> /\ item = None
    /\ main # "down" => starts > 0

\* An entry of _active that names another aircraft's flight, or a flight another
\* entry names too, was left behind by a failed poll, and its flight is shared.
EntriesOk ==
    /\ \A b \in Aircraft : active[b] # None =>
         /\ db.owner[active[b]] \in {None, b} \/ active[b] \in shared
         /\ disk.owner[active[b]] \in {None, b} \/ active[b] \in shared
    /\ \A a, b \in Aircraft :
         active[a] = active[b] /\ active[a] # None => a = b \/ active[a] \in shared

\* What keeps a first sighting from being decided again: the aircraft's flight is
\* stored, for the next start, and the aircraft is in _notified_icao, until then.
Stored(d, x) == d.owner[x.flight] = x.icao \/ x.flight \in shared
FirstOk(x) ==
    /\ Held(x) \/ given[x] > 0 =>
         x.flight <= disk.seq /\ x.icao \in flagged /\ Stored(disk, x) /\ Stored(db, x)
    /\ Pended(x) => x.flight <= db.seq /\ x.icao \in flagged /\ Stored(db, x)
    /\ Out(x) => x.icao \in notified
    /\ given[x] > 0 /\ main # "down" =>
         x.icao \in notified \/ (x.flight \in shared /\ active[x.icao] # x.flight)
FirstsOk == \A x \in Alert : x.kind = "first" => FirstOk(x)

\* What keeps a squawk alert of this life from being decided again: the flight is in
\* _squawk_notified, or no entry of _active names it and none ever will.
InThisLife(x) == Out(x) \/ (main # "down" /\ given[x] = starts)
SquawkOk(x) ==
    /\ Held(x) \/ given[x] > 0 => x.flight <= disk.seq
    /\ Pended(x) => x.flight <= db.seq
    /\ x.flight \notin shared =>
         /\ given[x] <= starts
         /\ Out(x) => given[x] < starts
         /\ InThisLife(x) =>
              \A b \in Aircraft : active[b] = x.flight => b = x.icao /\ x.flight \in squawked
SquawksOk == \A x \in Alert : x.kind = "sqk" => SquawkOk(x)

\* No two alerts on their way are the same.
Apart ==
    /\ \A i, j \in 1..Len(queue) :
         queue[i] \in Alert /\ queue[j] \in Alert /\ Same(queue[i], queue[j]) => i = j
    /\ \A i, j \in 1..Len(pending) : Same(pending[i], pending[j]) => i = j
    /\ \A i \in 1..Len(queue), j \in 1..Len(pending) :
         queue[i] \in Alert => ~Same(queue[i], pending[j])
    /\ item # None =>
         /\ \A i \in 1..Len(queue) : queue[i] \in Alert => ~Same(item, queue[i])
         /\ \A j \in 1..Len(pending) : ~Same(item, pending[j])

\* A first sighting on its way has not been given before.
NotYetGiven == \A x \in Alert : x.kind = "first" =>
    /\ given[x] <= 1
    /\ Out(x) => given[x] = 0
    /\ \A y \in Alert :
         /\ y.kind = "first" /\ y.icao = x.icao /\ given[y] > 0
         /\ Out(x) \/ given[x] > 0
         => x = y \/ {x.flight, y.flight} \cap shared # {}

\* The sentinel is last, and ends the thread.
EndOk ==
    /\ \A i \in 1..Len(queue) : queue[i] = Sentinel => main = "join" /\ i = Len(queue)
    /\ ~dispatcher => item = None
    /\ ~dispatcher /\ main # "down" => main = "join" /\ queue = <<>>

AlertsInv ==
    /\ AlertsTypeOK /\ TablesOk /\ EntriesOk /\ FirstsOk /\ SquawksOk
    /\ Apart /\ NotYetGiven /\ EndOk

LEMMA AlertsTypesInit == ASSUME AlertsInit PROVE AlertsTypeOK
<1> USE AlertsAssumption, AlertsNoneAssumption DEF AlertsInit, AlertsTypeOK
<1>1. db \in Tables /\ disk \in Tables
  BY DEF Tables, Nobody, FlightIds
<1>2. active \in [Aircraft -> FlightIds \cup {None}]
  BY DEF Nobody
<1>3. given \in [Alert -> 0..(MaxStarts + 1)]
  OBVIOUS
<1>4. Len(queue) <= QueueSize /\ pending \in Seq(Alert) /\ queue \in Seq(Alert \cup {Sentinel})
  OBVIOUS
<1>5. main \in Running \cup {"down"} /\ shared \subseteq FlightIds /\ starts \in 0..MaxStarts
  OBVIOUS
<1>6. notified \subseteq Aircraft /\ squawked \subseteq FlightIds /\ flagged \subseteq Aircraft
  OBVIOUS
<1> QED
  BY <1>1, <1>2, <1>3, <1>4, <1>5, <1>6

SightingOf(a, f) == [kind |-> "first", icao |-> a, flight |-> f]
SquawkOf(a, f) == [kind |-> "sqk", icao |-> a, flight |-> f]

\* What the notification block appends for a fix of flight f, and why.
Decision(a, f, new) ==
    /\ new \in Seq(Alert)
    /\ \A i \in 1..Len(new) :
         \/ /\ new[i] = SightingOf(a, f)
            /\ a \in flagged /\ a \notin notified /\ a \in notified'
         \/ /\ new[i] = SquawkOf(a, f)
            /\ f \notin squawked /\ f \in squawked'
    /\ \A i, j \in 1..Len(new) : new[i].kind = new[j].kind => i = j

LEMMA ShortConcat ==
    ASSUME NEW S, NEW s \in Seq(S), NEW t \in Seq(S), Len(s) \in 0..1, Len(t) \in 0..1,
           NEW i \in 1..Len(s \o t)
    PROVE  \/ i = 1 /\ Len(s) = 1 /\ (s \o t)[i] = s[1]
           \/ i = Len(s) + 1 /\ Len(t) = 1 /\ (s \o t)[i] = t[1]
<1>1. /\ Len(s \o t) = Len(s) + Len(t)
      /\ \A k \in 1..(Len(s) + Len(t)) : (s \o t)[k] = IF k <= Len(s) THEN s[k] ELSE t[k - Len(s)]
  BY ConcatProperties
<1>a. ASSUME NEW n \in 0..1, NEW m \in 0..1, NEW k \in 1..(n + m)
      PROVE  \/ k <= n /\ k = 1 /\ n = 1
             \/ ~(k <= n) /\ k = n + 1 /\ m = 1 /\ k - n = 1
  OBVIOUS
<1> QED
  BY <1>1, <1>a

LEMMA DecideOutcome ==
    ASSUME AlertsTypeOK, NEW a \in Aircraft, NEW f \in FlightIds, NEW e \in BOOLEAN,
           Decide(a, f, e)
    PROVE  \E new \in Seq(Alert) :
             /\ Decision(a, f, new)
             /\ pending' = pending \o new
             /\ notified \subseteq notified' /\ notified' \subseteq notified \cup {a}
             /\ squawked \subseteq squawked' /\ squawked' \subseteq squawked \cup {f}
<1>1. SightingOf(a, f) \in Alert /\ SquawkOf(a, f) \in Alert
  BY DEF SightingOf, SquawkOf, Alert
<1> DEFINE sighting == a \in flagged /\ a \notin notified
           known == FlightsOf(db', a) \ {f} # {}
           alarm == Alarm(f, e)
           one == IF sighting /\ ~known THEN <<SightingOf(a, f)>> ELSE <<>>
           two == IF alarm THEN <<SquawkOf(a, f)>> ELSE <<>>
<1>2. /\ notified' = IF sighting THEN notified \cup {a} ELSE notified
      /\ squawked' = IF alarm THEN squawked \cup {f} ELSE squawked
      /\ pending' = (pending \o one) \o two
  BY DEF Decide, SightingOf, SquawkOf
<1>3. alarm => f \notin squawked
  BY DEF Alarm
<1> HIDE DEF alarm, known
<1>4. one \in Seq(Alert) /\ two \in Seq(Alert) /\ pending \in Seq(Alert)
  BY <1>1 DEF AlertsTypeOK
<1>5. pending' = pending \o (one \o two) /\ one \o two \in Seq(Alert)
  <2> HIDE DEF one, two
  <2> QED BY <1>2, <1>4
<1>6. Decision(a, f, one \o two)
  <2>1. /\ Len(one) \in 0..1 /\ Len(two) \in 0..1
        /\ Len(one) = 1 => one[1] = SightingOf(a, f) /\ a \in flagged /\ a \notin notified /\ a \in notified'
        /\ Len(two) = 1 => two[1] = SquawkOf(a, f) /\ f \notin squawked /\ f \in squawked'
    BY <1>2, <1>3
  <2>3. ASSUME NEW i \in 1..Len(one \o two)
        PROVE  \/ i = 1 /\ Len(one) = 1 /\ (one \o two)[i] = one[1]
               \/ i = Len(one) + 1 /\ Len(two) = 1 /\ (one \o two)[i] = two[1]
    BY <1>4, <2>1, ShortConcat
  <2> HIDE DEF one, two, sighting
  <2>4. SightingOf(a, f).kind = "first" /\ SquawkOf(a, f).kind = "sqk"
    BY DEF SightingOf, SquawkOf
  <2>5. ASSUME NEW i \in 1..Len(one \o two)
        PROVE  \/ /\ (one \o two)[i] = SightingOf(a, f)
                  /\ a \in flagged /\ a \notin notified /\ a \in notified'
               \/ /\ (one \o two)[i] = SquawkOf(a, f)
                  /\ f \notin squawked /\ f \in squawked'
    BY <2>1, <2>3
  <2>6. ASSUME NEW i \in 1..Len(one \o two), NEW k \in 1..Len(one \o two),
               (one \o two)[i].kind = (one \o two)[k].kind
        PROVE  i = k
    BY <2>1, <2>3, <2>4, <2>6
  <2> QED
    BY <1>5, <2>5, <2>6 DEF Decision
<1>7. /\ notified \subseteq notified' /\ notified' \subseteq notified \cup {a}
      /\ squawked \subseteq squawked' /\ squawked' \subseteq squawked \cup {f}
  BY <1>2
<1> QED
  BY <1>5, <1>6, <1>7

LEMMA AlertsTypesKept == ASSUME AlertsTypeOK, [AlertsNext]_alertsVars PROVE AlertsTypeOK'
<1> USE AlertsAssumption, AlertsNoneAssumption DEF memory, consumer, history
<1>1. ASSUME BeginPoll \/ EndPoll \/ Drain \/ UNCHANGED alertsVars
      PROVE  AlertsTypeOK'
  BY <1>1 DEF AlertsTypeOK, BeginPoll, EndPoll, Drain, alertsVars, Running
<1>2. ASSUME NEW a \in Aircraft, NEW e \in BOOLEAN, NewFlightFix(a, e)
      PROVE  AlertsTypeOK'
  <2>0. PICK f : f = db.seq + 1
    OBVIOUS
  <2>1. f \in FlightIds /\ Decide(a, f, e) /\ f \in 1..MaxIds /\ f \in 0..MaxIds
    BY <1>2, <2>0 DEF AlertsTypeOK, NewFlightFix, FlightIds
  <2>2. db' \in Tables /\ disk' \in Tables
    BY <1>2, <2>0, <2>1 DEF AlertsTypeOK, NewFlightFix, Tables
  <2>3. active' \in [Aircraft -> FlightIds \cup {None}] /\ shared' \subseteq FlightIds
    BY <1>2, <2>0, <2>1 DEF AlertsTypeOK, NewFlightFix
  <2>4. PICK new \in Seq(Alert) : /\ pending' = pending \o new
                                  /\ notified' \subseteq notified \cup {a}
                                  /\ squawked' \subseteq squawked \cup {f}
    <3>1. f \in FlightIds /\ Decide(a, f, e)
      BY <2>1
    <3> QED BY <3>1, DecideOutcome
  <2>5. pending' \in Seq(Alert)
    BY <2>4 DEF AlertsTypeOK
  <2> QED
    BY <1>2, <2>1, <2>2, <2>3, <2>4, <2>5 DEF AlertsTypeOK, NewFlightFix
<1>3. ASSUME NEW a \in Aircraft, NEW e \in BOOLEAN, SameFlightFix(a, e)
      PROVE  AlertsTypeOK'
  <2>1. active[a] \in FlightIds /\ Decide(a, active[a], e)
    BY <1>3 DEF AlertsTypeOK, SameFlightFix
  <2>2. PICK new \in Seq(Alert) : /\ pending' = pending \o new
                                  /\ notified' \subseteq notified \cup {a}
                                  /\ squawked' \subseteq squawked \cup {active[a]}
    BY <2>1, DecideOutcome
  <2> QED
    BY <1>3, <2>1, <2>2 DEF AlertsTypeOK, SameFlightFix
<1>4. ASSUME NEW a \in Aircraft, Close(a)
      PROVE  AlertsTypeOK'
  <2>1. \A d \in Tables : [d EXCEPT !.open[a] = None] \in Tables
    BY DEF Tables
  <2>2. \A d \in Tables, f \in FlightIds : [d EXCEPT !.owner[f] = None] \in Tables
    BY DEF Tables
  <2>3. active[a] \in FlightIds
    BY <1>4 DEF AlertsTypeOK, Close
  <2>4. db' \in Tables
    <3>1. db' = [db EXCEPT !.open[a] = None]
            \/ db' = [[db EXCEPT !.open[a] = None] EXCEPT !.owner[active[a]] = None]
      BY <1>4 DEF Close
    <3>2. [db EXCEPT !.open[a] = None] \in Tables
      BY <2>1 DEF AlertsTypeOK
    <3> QED
      BY <3>1, <3>2, <2>2, <2>3
  <2> QED
    BY <1>4, <2>4 DEF AlertsTypeOK, Close
<1>5. ASSUME NEW a \in Aircraft, Flag(a)
      PROVE  AlertsTypeOK'
  BY <1>5 DEF AlertsTypeOK, Flag
<1>6. ASSUME Commit \/ PollFails
      PROVE  AlertsTypeOK'
  <2>1. <<>> \in Seq(Alert)
    OBVIOUS
  <2>2. CASE Commit
    BY <2>2 DEF AlertsTypeOK, Commit, Running
  <2>3. CASE PollFails
    BY <2>1, <2>3 DEF AlertsTypeOK, PollFails, Running
  <2> QED BY <1>6, <2>2, <2>3
<1>7. ASSUME Enqueue
      PROVE  AlertsTypeOK'
  <2>1. Head(pending) \in Alert /\ Tail(pending) \in Seq(Alert)
    BY <1>7, HeadTailProperties DEF AlertsTypeOK, Enqueue
  <2>2. CASE Len(queue) < QueueSize
    <3>1. /\ Append(queue, Head(pending)) \in Seq(Alert \cup {Sentinel})
          /\ Len(Append(queue, Head(pending))) = Len(queue) + 1
      BY <2>1, AppendProperties DEF AlertsTypeOK
    <3> QED BY <1>7, <2>1, <2>2, <3>1 DEF AlertsTypeOK, Enqueue
  <2>3. CASE ~(Len(queue) < QueueSize)
    BY <1>7, <2>1, <2>3 DEF AlertsTypeOK, Enqueue
  <2> QED BY <2>2, <2>3
<1>8. ASSUME Get
      PROVE  AlertsTypeOK'
  <2>1. Head(queue) \in Alert \cup {Sentinel} /\ Tail(queue) \in Seq(Alert \cup {Sentinel})
        /\ Len(Tail(queue)) = Len(queue) - 1
    BY <1>8, HeadTailProperties DEF AlertsTypeOK, Get
  <2>2. Len(queue) - 1 <= QueueSize /\ Len(queue) - 1 \in Int
    BY DEF AlertsTypeOK
  <2>3. CASE Head(queue) = Sentinel
    BY <1>8, <2>1, <2>2, <2>3 DEF AlertsTypeOK, Get
  <2>4. CASE Head(queue) # Sentinel
    BY <1>8, <2>1, <2>2, <2>4 DEF AlertsTypeOK, Get
  <2> QED BY <2>3, <2>4
<1>9. ASSUME Dispatch
      PROVE  AlertsTypeOK'
  <2>1. \A n \in 0..(MaxStarts + 1) : Again(n) \in 0..(MaxStarts + 1)
    BY DEF Again
  <2> QED
    BY <1>9, <2>1 DEF AlertsTypeOK, Dispatch
<1>10. ASSUME Start
       PROVE  AlertsTypeOK'
  <2>1. disk.open \in [Aircraft -> FlightIds \cup {None}]
    BY DEF AlertsTypeOK, Tables
  <2>2. LoadNotified(disk) \subseteq Aircraft
    BY DEF AlertsTypeOK, LoadNotified
  <2> QED
    BY <1>10, <2>1, <2>2 DEF AlertsTypeOK, Start, Running
<1>11. ASSUME Crash \/ Exit
       PROVE  AlertsTypeOK'
  <2>1. Nobody \in [Aircraft -> FlightIds \cup {None}]
    BY DEF Nobody
  <2>2. <<>> \in Seq(Alert) /\ <<>> \in Seq(Alert \cup {Sentinel}) /\ Len(<<>>) = 0
    OBVIOUS
  <2>3. /\ Down /\ db' \in Tables /\ disk' \in Tables
        /\ UNCHANGED <<flagged, given, starts, shared>>
    BY <1>11 DEF AlertsTypeOK, Crash, Exit
  <2>4. /\ Len(queue') <= QueueSize
        /\ pending' \in Seq(Alert) /\ queue' \in Seq(Alert \cup {Sentinel})
    BY <2>2, <2>3 DEF Down
  <2> QED BY <2>1, <2>3, <2>4 DEF AlertsTypeOK, Down
<1>12. ASSUME Stop
       PROVE  AlertsTypeOK'
  <2>1. Nobody \in [Aircraft -> FlightIds \cup {None}]
    BY DEF Nobody
  <2>a. \A d \in Tables : \A o, w :
           o \in [Aircraft -> FlightIds \cup {None}] /\ w \in [FlightIds -> Aircraft \cup {None}]
             => [d EXCEPT !.open = o, !.owner = w] \in Tables
    BY DEF Tables
  <2>b. /\ db.owner \in [FlightIds -> Aircraft \cup {None}]
        /\ db.open \in [Aircraft -> FlightIds \cup {None}]
    BY DEF AlertsTypeOK, Tables
  <2>2. db' \in Tables
    <3>1. CASE db' = db
      BY <3>1 DEF AlertsTypeOK
    <3>2. CASE db' # db
      <4>1. PICK dropped : db' = [db EXCEPT
              !.open = [a \in Aircraft |-> IF active[a] = None THEN db.open[a] ELSE None],
              !.owner = [f \in FlightIds |-> IF f \in dropped THEN None ELSE @[f]]]
        BY <1>12, <3>2 DEF Stop
      <4> DEFINE o == [a \in Aircraft |-> IF active[a] = None THEN db.open[a] ELSE None]
                 w == [f \in FlightIds |-> IF f \in dropped THEN None ELSE db.owner[f]]
      <4>2. o \in [Aircraft -> FlightIds \cup {None}] /\ w \in [FlightIds -> Aircraft \cup {None}]
        BY <2>b
      <4>3. db' = [db EXCEPT !.open = o, !.owner = w]
        BY <4>1
      <4> QED
        BY <4>2, <4>3, <2>a DEF AlertsTypeOK
    <3> QED BY <3>1, <3>2
  <2> QED
    BY <1>12, <2>1, <2>2 DEF AlertsTypeOK, Stop, Running
<1>13. ASSUME Post
       PROVE  AlertsTypeOK'
  <2>1. /\ Append(queue, Sentinel) \in Seq(Alert \cup {Sentinel})
        /\ Len(Append(queue, Sentinel)) = Len(queue) + 1
    BY AppendProperties DEF AlertsTypeOK
  <2> QED
    BY <1>13, <2>1 DEF AlertsTypeOK, Post, Running
<1> QED
  BY <1>1, <1>2, <1>3, <1>4, <1>5, <1>6, <1>7, <1>8, <1>9, <1>10, <1>11, <1>12, <1>13
     DEF AlertsNext

Opened(d, a, f) == [d EXCEPT !.owner[f] = a, !.open[a] = f, !.seq = f]

LEMMA GoodTablesNew ==
    ASSUME NEW d \in Tables, GoodTables(d), NEW a \in Aircraft, NEW f \in FlightIds, f = d.seq + 1
    PROVE  LET e == Opened(d, a, f)
           IN  /\ GoodTables(e) /\ e.seq = f /\ d.seq < f
               /\ \A g \in FlightIds : e.owner[g] = IF g = f THEN a ELSE d.owner[g]
<1> USE AlertsAssumption, AlertsNoneAssumption
<1> DEFINE e == Opened(d, a, f)
<1>1. /\ d.owner \in [FlightIds -> Aircraft \cup {None}]
      /\ d.open \in [Aircraft -> FlightIds \cup {None}]
      /\ d.seq \in Int /\ f \in Int
  BY DEF Tables, FlightIds
<1>2. /\ e.owner = [d.owner EXCEPT ![f] = a]
      /\ e.open = [d.open EXCEPT ![a] = f]
      /\ e.seq = f
  BY DEF Tables, Opened
<1> HIDE DEF e
<1>3. \A g \in FlightIds : e.owner[g] = IF g = f THEN a ELSE d.owner[g]
  BY <1>1, <1>2
<1>4. \A b \in Aircraft : e.open[b] = IF b = a THEN f ELSE d.open[b]
  BY <1>1, <1>2
<1>5. d.owner[f] = None
  BY <1>1 DEF GoodTables
<1>6. ASSUME NEW g \in FlightIds, e.owner[g] # None
      PROVE  g <= e.seq
  BY <1>1, <1>2, <1>3, <1>6 DEF GoodTables, FlightIds
<1>7. ASSUME NEW b \in Aircraft, e.open[b] # None
      PROVE  e.owner[e.open[b]] = b
  <2>1. CASE b = a
    BY <2>1, <1>3, <1>4
  <2>2. CASE b # a
    <3>1. d.open[b] \in FlightIds /\ d.owner[d.open[b]] = b /\ e.open[b] = d.open[b]
      BY <2>2, <1>1, <1>4, <1>7 DEF GoodTables
    <3> QED BY <3>1, <1>3, <1>5
  <2> QED BY <2>1, <2>2
<1> QED
  BY <1>1, <1>2, <1>3, <1>6, <1>7 DEF GoodTables, e

\* What closing a flight, or finishing all of them, does to the tables: entries
\* disappear, and a flight only when no entry refers to it.
Reduced(d, e) ==
    /\ e \in Tables /\ e.seq = d.seq
    /\ \A g \in FlightIds : e.owner[g] \in {None, d.owner[g]}
    /\ \A b \in Aircraft : e.open[b] \in {None, d.open[b]}
    /\ \A b \in Aircraft : e.open[b] # None => e.owner[e.open[b]] = d.owner[e.open[b]]

LEMMA GoodTablesReduced ==
    ASSUME NEW d \in Tables, GoodTables(d), NEW e, Reduced(d, e)
    PROVE  GoodTables(e)
  BY DEF GoodTables, Reduced

LEMMA CloseReduces ==
    ASSUME AlertsTypeOK, TablesOk, NEW a \in Aircraft, Close(a)
    PROVE  /\ Reduced(db, db')
           /\ \A g \in FlightIds : db'.owner[g] # db.owner[g] => g = active[a] /\ a \notin flagged
<1> USE AlertsAssumption, AlertsNoneAssumption
<1>1. active[a] \in FlightIds /\ db \in Tables /\ db' \in Tables
  BY AlertsTypesKept DEF AlertsTypeOK, Close, AlertsNext
<1>2. /\ db.owner \in [FlightIds -> Aircraft \cup {None}]
      /\ db.open \in [Aircraft -> FlightIds \cup {None}]
  BY <1>1 DEF Tables
<1> DEFINE one == [db EXCEPT !.open[a] = None]
<1>3. one.owner = db.owner /\ one.seq = db.seq /\ one.open = [db.open EXCEPT ![a] = None]
  BY <1>1 DEF Tables
<1>4. \/ db' = one
      \/ /\ a \notin flagged
         /\ \A b \in Aircraft : one.open[b] # active[a]
         /\ db' = [one EXCEPT !.owner[active[a]] = None]
  BY DEF Close
<1>5. CASE db' = one
  BY <1>5, <1>1, <1>2, <1>3 DEF Reduced
<1>6. CASE /\ a \notin flagged
           /\ \A b \in Aircraft : one.open[b] # active[a]
           /\ db' = [one EXCEPT !.owner[active[a]] = None]
  <2>1. /\ db'.owner = [db.owner EXCEPT ![active[a]] = None]
        /\ db'.seq = db.seq /\ db'.open = one.open
    BY <1>1, <1>3, <1>6 DEF Tables
  <2> HIDE DEF one
  <2>2. \A g \in FlightIds : db'.owner[g] = IF g = active[a] THEN None ELSE db.owner[g]
    BY <2>1, <1>2
  <2>3. \A b \in Aircraft : db'.open[b] = IF b = a THEN None ELSE db.open[b]
    BY <2>1, <1>2, <1>3
  <2>4. \A b \in Aircraft : db'.open[b] # active[a]
    BY <2>1, <1>6
  <2>5. \A b \in Aircraft : db'.open[b] # None => db'.open[b] \in FlightIds
    BY <2>3, <1>2
  <2> QED
    BY <1>1, <1>6, <2>1, <2>2, <2>3, <2>4, <2>5 DEF Reduced
<1> QED
  BY <1>4, <1>5, <1>6

LEMMA StopReduces ==
    ASSUME AlertsTypeOK, TablesOk, Stop
    PROVE  /\ Reduced(db, db')
           /\ \A g \in FlightIds : db'.owner[g] # db.owner[g] =>
                \E b \in Aircraft \ flagged : active[b] = g
<1> USE AlertsAssumption, AlertsNoneAssumption
<1>1. db \in Tables /\ db' \in Tables
  BY AlertsTypesKept DEF AlertsTypeOK, AlertsNext
<1>2. /\ db.owner \in [FlightIds -> Aircraft \cup {None}]
      /\ db.open \in [Aircraft -> FlightIds \cup {None}]
  BY <1>1 DEF Tables
<1>3. CASE db' = db
  BY <1>3, <1>1 DEF Reduced
<1>4. CASE db' # db
  <2> DEFINE left == [a \in Aircraft |-> IF active[a] = None THEN db.open[a] ELSE None]
  <2>1. PICK dropped \in SUBSET {active[a] : a \in {b \in Aircraft \ flagged : active[b] # None}} :
          /\ \A a \in Aircraft : left[a] \notin dropped
          /\ db' = [db EXCEPT !.open = left,
                !.owner = [f \in FlightIds |-> IF f \in dropped THEN None ELSE @[f]]]
    BY <1>4 DEF Stop
  <2>2. /\ db'.owner = [f \in FlightIds |-> IF f \in dropped THEN None ELSE db.owner[f]]
        /\ db'.open = left /\ db'.seq = db.seq
    <3> HIDE DEF left
    <3> QED BY <2>1, <1>1 DEF Tables
  <2>3. \A g \in FlightIds : db'.owner[g] = IF g \in dropped THEN None ELSE db.owner[g]
    BY <2>2
  <2>4. \A b \in Aircraft : /\ db'.open[b] \in {None, db.open[b]}
                            /\ db'.open[b] \notin dropped
    BY <2>1, <2>2
  <2>5. \A b \in Aircraft : db'.open[b] # None => db'.open[b] \in FlightIds
    BY <2>4, <1>2
  <2>6. ASSUME NEW g \in FlightIds, db'.owner[g] # db.owner[g]
        PROVE  \E b \in Aircraft \ flagged : active[b] = g
    BY <2>1, <2>3, <2>6
  <2> QED
    BY <1>1, <2>2, <2>3, <2>4, <2>5, <2>6 DEF Reduced
<1> QED
  BY <1>3, <1>4

LEMMA TablesOkKept ==
    ASSUME AlertsTypeOK, TablesOk, [AlertsNext]_alertsVars
    PROVE  TablesOk'
<1> USE AlertsAssumption, AlertsNoneAssumption DEF memory, consumer, history
<1>0. db \in Tables /\ disk \in Tables /\ db.seq \in Int /\ disk.seq \in Int /\ starts \in Nat
  BY DEF AlertsTypeOK, Tables
<1>1. ASSUME BeginPoll \/ EndPoll \/ Drain \/ Post \/ UNCHANGED alertsVars
      PROVE  TablesOk'
  BY <1>1 DEF BeginPoll, EndPoll, Drain, Post, alertsVars, TablesOk
<1>2. ASSUME NEW a \in Aircraft, NEW e \in BOOLEAN, NewFlightFix(a, e)
      PROVE  TablesOk'
  <2>1. /\ db.seq + 1 \in FlightIds /\ main = "poll" /\ main' = main
        /\ db' = [db EXCEPT !.owner[db.seq + 1] = a, !.open[a] = db.seq + 1, !.seq = db.seq + 1]
        /\ UNCHANGED <<disk, starts>>
    BY <1>2 DEF NewFlightFix
  <2>2. GoodTables(db)
    BY DEF TablesOk
  <2>3. GoodTables(db') /\ db'.seq = db.seq + 1 /\ db.seq < db.seq + 1
    <3>1. PICK f : f = db.seq + 1
      OBVIOUS
    <3>2. db' = Opened(db, a, f) /\ f \in FlightIds
      BY <2>1, <3>1 DEF Opened
    <3> QED BY <2>2, <1>0, <3>1, <3>2, GoodTablesNew
  <2> QED
    BY <2>1, <2>3, <1>0 DEF TablesOk
<1>3. ASSUME NEW a \in Aircraft, NEW e \in BOOLEAN, SameFlightFix(a, e)
      PROVE  TablesOk'
  BY <1>3 DEF SameFlightFix, TablesOk
<1>4. ASSUME NEW a \in Aircraft, Close(a)
      PROVE  TablesOk'
  <2>1. GoodTables(db') /\ db'.seq = db.seq
    BY <1>0, <1>4, CloseReduces, GoodTablesReduced DEF TablesOk, Reduced
  <2> QED
    BY <1>4, <2>1 DEF Close, TablesOk
<1>5. ASSUME NEW a \in Aircraft, Flag(a)
      PROVE  TablesOk'
  BY <1>5 DEF Flag, TablesOk
<1>6. ASSUME Commit \/ PollFails \/ Enqueue
      PROVE  TablesOk'
  BY <1>0, <1>6 DEF Commit, PollFails, Enqueue, TablesOk
<1>7. ASSUME Get \/ Dispatch
      PROVE  TablesOk'
  BY <1>7 DEF Get, Dispatch, TablesOk
<1>8. ASSUME Start
      PROVE  TablesOk'
  BY <1>0, <1>8 DEF Start, TablesOk
<1>9. ASSUME Crash \/ Exit
      PROVE  TablesOk'
  BY <1>0, <1>9 DEF Crash, Exit, Down, TablesOk
<1>10. ASSUME Stop
       PROVE  TablesOk'
  <2>1. GoodTables(db') /\ db'.seq = db.seq
    BY <1>0, <1>10, StopReduces, GoodTablesReduced DEF TablesOk, Reduced
  <2> QED
    BY <1>0, <1>10, <2>1 DEF Stop, TablesOk
<1> QED
  BY <1>1, <1>2, <1>3, <1>4, <1>5, <1>6, <1>7, <1>8, <1>9, <1>10 DEF AlertsNext

LEMMA EntriesOkKept ==
    ASSUME AlertsTypeOK, TablesOk, EntriesOk, [AlertsNext]_alertsVars
    PROVE  EntriesOk'
<1> USE AlertsAssumption, AlertsNoneAssumption DEF memory, consumer, history
<1>0. /\ db \in Tables /\ disk \in Tables /\ db.seq \in Int /\ disk.seq \in Int
      /\ active \in [Aircraft -> FlightIds \cup {None}]
  BY DEF AlertsTypeOK, Tables
<1>1. ASSUME UNCHANGED <<db, disk, active, shared>>
      PROVE  EntriesOk'
  BY <1>1 DEF EntriesOk
<1>2. ASSUME NEW a \in Aircraft, NEW e \in BOOLEAN, NewFlightFix(a, e)
      PROVE  EntriesOk'
  <2>0. PICK f : f = db.seq + 1
    OBVIOUS
  <2>1. /\ f \in FlightIds
        /\ db' = [db EXCEPT !.owner[f] = a, !.open[a] = f, !.seq = f]
        /\ active' = [active EXCEPT ![a] = f]
        /\ shared \subseteq shared'
        /\ \A b \in Aircraft : active[b] = f => f \in shared'
        /\ disk' = disk
    BY <1>2, <2>0 DEF NewFlightFix
  <2>2. GoodTables(db) /\ GoodTables(disk) /\ disk.seq <= db.seq
    BY DEF TablesOk
  <2>3. \A g \in FlightIds : db'.owner[g] = IF g = f THEN a ELSE db.owner[g]
    <3>1. db' = Opened(db, a, f) /\ f \in FlightIds
      BY <2>1 DEF Opened
    <3> QED BY <2>2, <1>0, <2>0, <3>1, GoodTablesNew
  <2>4. disk.owner[f] = None
    BY <2>0, <2>1, <2>2, <1>0 DEF GoodTables, FlightIds
  <2>5. \A b \in Aircraft : active'[b] = IF b = a THEN f ELSE active[b]
    BY <2>1, <1>0
  <2>6. ASSUME NEW b \in Aircraft, active'[b] # None
        PROVE  /\ db'.owner[active'[b]] \in {None, b} \/ active'[b] \in shared'
               /\ disk'.owner[active'[b]] \in {None, b} \/ active'[b] \in shared'
    <3>1. CASE b = a
      BY <3>1, <2>1, <2>3, <2>4, <2>5
    <3>2. CASE b # a /\ active[b] = f
      BY <3>2, <2>1, <2>5
    <3>3. CASE b # a /\ active[b] # f
      <4>1. active'[b] = active[b] /\ active[b] \in FlightIds /\ db'.owner[active[b]] = db.owner[active[b]]
        BY <3>3, <2>6, <2>3, <2>5, <1>0
      <4> QED BY <4>1, <2>1, <2>6 DEF EntriesOk
    <3> QED BY <3>1, <3>2, <3>3
  <2>7. ASSUME NEW b \in Aircraft, NEW c \in Aircraft, active'[b] = active'[c], active'[b] # None
        PROVE  b = c \/ active'[b] \in shared'
    BY <2>7, <2>1, <2>5 DEF EntriesOk
  <2> QED
    BY <2>6, <2>7 DEF EntriesOk
<1>3. ASSUME NEW a \in Aircraft, NEW e \in BOOLEAN, SameFlightFix(a, e)
      PROVE  EntriesOk'
  BY <1>1, <1>3 DEF SameFlightFix
<1>4. ASSUME NEW a \in Aircraft, Close(a)
      PROVE  EntriesOk'
  <2>1. /\ \A g \in FlightIds : db'.owner[g] \in {None, db.owner[g]}
        /\ active' = [active EXCEPT ![a] = None] /\ UNCHANGED <<disk, shared>>
    BY <1>4, CloseReduces DEF Reduced, Close
  <2>2. \A b \in Aircraft : active'[b] # None => active'[b] = active[b] /\ active[b] \in FlightIds
    BY <2>1, <1>0
  <2> QED
    BY <2>1, <2>2 DEF EntriesOk
<1>6. ASSUME Commit
      PROVE  EntriesOk'
  BY <1>6 DEF Commit, EntriesOk
<1>7. ASSUME PollFails
      PROVE  EntriesOk'
  BY <1>7 DEF PollFails, EntriesOk
<1>8. ASSUME Start
      PROVE  EntriesOk'
  <2>1. db' = disk /\ disk' = disk /\ active' = disk.open /\ GoodTables(disk)
    BY <1>8 DEF Start, TablesOk
  <2>2. \A b \in Aircraft : disk.open[b] # None => disk.owner[disk.open[b]] = b
    BY <2>1 DEF GoodTables
  <2> QED
    BY <2>1, <2>2 DEF EntriesOk
<1>9. ASSUME Crash \/ Exit
      PROVE  EntriesOk'
  <2>1. \A b \in Aircraft : active'[b] = None
    BY <1>9 DEF Crash, Exit, Down, Nobody
  <2> QED BY <2>1 DEF EntriesOk
<1>10. ASSUME Stop
       PROVE  EntriesOk'
  <2>1. \A b \in Aircraft : active'[b] = None
    BY <1>10 DEF Stop, Nobody
  <2> QED BY <2>1 DEF EntriesOk
<1>11. ASSUME NEW a \in Aircraft, Flag(a)
       PROVE  EntriesOk'
  BY <1>1, <1>11 DEF Flag
<1>12. ASSUME BeginPoll \/ EndPoll \/ Drain \/ Post \/ Enqueue \/ Get \/ Dispatch \/ UNCHANGED alertsVars
       PROVE  EntriesOk'
  BY <1>1, <1>12 DEF BeginPoll, EndPoll, Drain, Post, Enqueue, Get, Dispatch, alertsVars
<1> QED
  BY <1>2, <1>3, <1>4, <1>6, <1>7, <1>8, <1>9, <1>10, <1>11, <1>12 DEF AlertsNext

\* Steps other than a fix put no new alert on its way.
LEMMA LinesShrink ==
    ASSUME AlertsTypeOK, TablesOk, NEW x \in Alert,
           \/ \E a \in Aircraft : Close(a) \/ Flag(a)
           \/ BeginPoll \/ Commit \/ PollFails \/ Enqueue \/ EndPoll \/ Get \/ Dispatch
           \/ Start \/ Crash \/ Stop \/ Drain \/ Post \/ Exit
           \/ UNCHANGED alertsVars
    PROVE  /\ Held(x)' => Held(x) \/ (main = "enqueue" /\ Pended(x))
           /\ Pended(x)' => Pended(x) /\ main' # "idle"
<1> USE AlertsAssumption, AlertsNoneAssumption DEF memory, consumer, history
<1>1. ASSUME UNCHANGED <<queue, item>>, UNCHANGED pending, main' # "idle" \/ pending = <<>>
      PROVE  /\ Held(x)' => Held(x)
             /\ Pended(x)' => Pended(x) /\ main' # "idle"
  BY <1>1 DEF Held, Queued, Pended
<1>2. CASE \/ \E a \in Aircraft : Close(a)
           \/ BeginPoll \/ Commit \/ EndPoll \/ Start \/ Stop \/ Drain
  <2>1. UNCHANGED <<queue, item, pending>> /\ (main' # "idle" \/ pending = <<>>)
    BY <1>2 DEF Close, BeginPoll, Commit, EndPoll, Start, Stop, Drain, TablesOk
  <2> QED BY <1>1, <2>1
<1>3. CASE \/ \E a \in Aircraft : Flag(a)
           \/ UNCHANGED alertsVars
  <2>1. UNCHANGED <<queue, item, pending, main>>
    BY <1>3 DEF Flag, alertsVars
  <2> QED BY <1>1, <2>1 DEF TablesOk
<1>4. CASE PollFails
  BY <1>4 DEF PollFails, Held, Queued, Pended
<1>5. CASE Crash \/ Exit
  BY <1>5 DEF Crash, Exit, Down, Held, Queued, Pended
<1>6. CASE Dispatch
  BY <1>6 DEF Dispatch, Held, Queued, Pended, TablesOk
<1>7. CASE Get
  <2>1. /\ Len(Tail(queue)) = Len(queue) - 1 /\ Len(queue) \in Nat
        /\ \A i \in 1..Len(Tail(queue)) : Tail(queue)[i] = queue[i + 1]
        /\ Len(queue) > 0 /\ Head(queue) = queue[1]
    BY <1>7, HeadTailProperties DEF Get, AlertsTypeOK
  <2>2. item' = x => Queued(x) \/ item = x
    <3>1. item' = item \/ item' = Head(queue)
      BY <1>7 DEF Get
    <3>2. 1 \in 1..Len(queue) /\ Head(queue) = queue[1]
      BY <2>1
    <3> QED BY <3>1, <3>2 DEF Queued
  <2>3. ASSUME NEW i \in 1..Len(queue'), queue'[i] = x
        PROVE  Queued(x)
    <3>1. i + 1 \in 1..Len(queue) /\ queue[i + 1] = x
      BY <1>7, <2>1, <2>3 DEF Get
    <3> QED BY <3>1 DEF Queued
  <2>4. Held(x)' => Held(x)
    BY <2>2, <2>3 DEF Held, Queued
  <2> QED BY <1>7, <2>4 DEF Get, Pended, TablesOk
<1>8. CASE Enqueue
  <2>1. /\ pending \in Seq(Alert) /\ Len(pending) \in Nat /\ Len(pending) > 0
        /\ Len(Tail(pending)) = Len(pending) - 1
        /\ \A i \in 1..Len(Tail(pending)) : Tail(pending)[i] = pending[i + 1]
        /\ Head(pending) = pending[1] /\ Head(pending) \in Alert
    BY <1>8, HeadTailProperties DEF Enqueue, AlertsTypeOK
  <2>2. /\ pending' = Tail(pending) /\ main = "enqueue" /\ main' = main /\ item' = item
        /\ queue' = queue \/ queue' = Append(queue, Head(pending))
    BY <1>8 DEF Enqueue
  <2>3. ASSUME NEW i \in 1..Len(pending'), pending'[i] = x
        PROVE  Pended(x)
    <3>1. i + 1 \in 1..Len(pending) /\ pending[i + 1] = x
      BY <2>1, <2>2, <2>3
    <3> QED BY <3>1 DEF Pended
  <2>4. /\ Len(Append(queue, Head(pending))) = Len(queue) + 1 /\ Len(queue) \in Nat
        /\ \A i \in 1..Len(queue) : Append(queue, Head(pending))[i] = queue[i]
        /\ Append(queue, Head(pending))[Len(queue) + 1] = pending[1]
    BY <2>1, AppendProperties DEF AlertsTypeOK
  <2>5. ASSUME NEW i \in 1..Len(queue'), queue'[i] = x
        PROVE  Queued(x) \/ Pended(x)
    <3>1. \/ i \in 1..Len(queue) /\ queue'[i] = queue[i]
          \/ queue'[i] = pending[1]
      BY <2>2, <2>4, <2>5
    <3>2. 1 \in 1..Len(pending)
      BY <2>1
    <3> QED BY <3>1, <3>2, <2>5 DEF Queued, Pended
  <2> QED BY <2>2, <2>3, <2>5 DEF Held, Queued, Pended
<1>9. CASE Post
  <2>1. /\ Len(Append(queue, Sentinel)) = Len(queue) + 1 /\ Len(queue) \in Nat
        /\ \A i \in 1..Len(queue) : Append(queue, Sentinel)[i] = queue[i]
        /\ Append(queue, Sentinel)[Len(queue) + 1] = Sentinel
    BY AppendProperties DEF AlertsTypeOK
  <2>2. ASSUME NEW i \in 1..Len(queue'), queue'[i] = x
        PROVE  Queued(x)
    BY <1>9, <2>1, <2>2 DEF Post, Queued
  <2> QED BY <1>9, <2>2 DEF Post, Held, Queued, Pended
<1> QED
  BY <1>2, <1>3, <1>4, <1>5, <1>6, <1>7, <1>8, <1>9

\* A fix appends its decision.
LEMMA LinesGrow ==
    ASSUME AlertsTypeOK, NEW new \in Seq(Alert), pending' = pending \o new,
           UNCHANGED <<queue, item>>, NEW x \in Alert
    PROVE  /\ Held(x)' <=> Held(x)
           /\ Pended(x)' => Pended(x) \/ \E i \in 1..Len(new) : new[i] = x
<1>1. /\ Len(pending \o new) = Len(pending) + Len(new)
      /\ \A i \in 1..(Len(pending) + Len(new)) :
           (pending \o new)[i] = IF i <= Len(pending) THEN pending[i] ELSE new[i - Len(pending)]
      /\ Len(pending) \in Nat /\ Len(new) \in Nat
  BY ConcatProperties DEF AlertsTypeOK
<1>2. ASSUME NEW i \in 1..Len(pending'), pending'[i] = x
      PROVE  Pended(x) \/ \E k \in 1..Len(new) : new[k] = x
  <2>1. CASE i <= Len(pending)
    BY <1>1, <1>2, <2>1 DEF Pended
  <2>2. CASE ~(i <= Len(pending))
    <3>1. i - Len(pending) \in 1..Len(new) /\ new[i - Len(pending)] = x
      BY <1>1, <1>2, <2>2
    <3> QED BY <3>1
  <2> QED BY <2>1, <2>2
<1>3. Held(x)' <=> Held(x)
  BY DEF Held, Queued
<1> QED
  BY <1>2, <1>3 DEF Pended

\* A flight that is stored stays so: only its own aircraft's entry, or a phantom one,
\* could delete it, and a flagged aircraft's flights are kept.
LEMMA StoredKept ==
    ASSUME AlertsTypeOK, TablesOk, EntriesOk, NEW x \in Alert, x.icao \in flagged,
           Stored(db, x), shared' = shared,
           \A g \in FlightIds : db'.owner[g] # db.owner[g] =>
              \E b \in Aircraft \ flagged : active[b] = g
    PROVE  Stored(db', x)
<1>1. x.flight \in FlightIds /\ x.icao \in Aircraft
  BY DEF Alert
<1>2. CASE x.flight \in shared
  BY <1>2 DEF Stored
<1>3. CASE x.flight \notin shared
  <2>1. SUFFICES ASSUME db'.owner[x.flight] # db.owner[x.flight]
                 PROVE  FALSE
    BY <1>3 DEF Stored
  <2>2. PICK b \in Aircraft \ flagged : active[b] = x.flight
    BY <1>1, <2>1
  <2> QED
    BY <1>1, <1>3, <2>2, AlertsNoneAssumption DEF EntriesOk, Stored
<1> QED
  BY <1>2, <1>3

LEMMA FirstsOkFix ==
    ASSUME AlertsTypeOK, TablesOk, EntriesOk, FirstsOk, AlertsTypeOK',
           NEW a \in Aircraft, NEW f \in FlightIds, NEW new \in Seq(Alert),
           Decision(a, f, new), pending' = pending \o new,
           notified \subseteq notified',
           UNCHANGED <<disk, flagged, queue, item, given, main>>, main = "poll",
           shared \subseteq shared',
           \/ /\ db' = db /\ active' = active /\ f <= db.seq
              /\ db.owner[f] = a \/ f \in shared'
           \/ /\ db' = Opened(db, a, f) /\ f = db.seq + 1
              /\ active' = [active EXCEPT ![a] = f]
    PROVE  FirstsOk'
<1> USE AlertsAssumption, AlertsNoneAssumption
<1>0. /\ db \in Tables /\ disk \in Tables /\ db.seq \in Int /\ disk.seq \in Int /\ f \in Int
      /\ disk.seq <= db.seq
      /\ active \in [Aircraft -> FlightIds \cup {None}]
  BY DEF AlertsTypeOK, Tables, FlightIds, TablesOk
<1>1. /\ \A g \in FlightIds : g <= db.seq => db'.owner[g] = db.owner[g]
      /\ db.seq <= db'.seq /\ f <= db'.seq /\ db'.seq \in Int
      /\ db'.owner[f] = a \/ f \in shared'
      /\ active'[a] # active[a] => active'[a] > db.seq
      /\ \A b \in Aircraft : b # a => active'[b] = active[b]
  <2>1. CASE /\ db' = db /\ active' = active /\ f <= db.seq
             /\ db.owner[f] = a \/ f \in shared'
    BY <2>1, <1>0
  <2>2. CASE db' = Opened(db, a, f) /\ f = db.seq + 1 /\ active' = [active EXCEPT ![a] = f]
    <3>1. /\ db'.seq = f /\ db.seq < f
          /\ \A g \in FlightIds : db'.owner[g] = IF g = f THEN a ELSE db.owner[g]
      BY <1>0, <2>2, GoodTablesNew DEF TablesOk
    <3> QED BY <1>0, <2>2, <3>1
  <2> QED BY <2>1, <2>2
<1> SUFFICES ASSUME NEW x \in Alert, x.kind = "first"
             PROVE  FirstOk(x)'
  BY DEF FirstsOk
<1>2. x.flight \in FlightIds /\ x.icao \in Aircraft /\ x.flight \in Int /\ FirstOk(x)
  BY DEF Alert, FlightIds, FirstsOk
<1>3. /\ Held(x)' <=> Held(x)
      /\ Pended(x)' => Pended(x) \/ (x = SightingOf(a, f) /\ a \in flagged /\ a \in notified')
  <2>1. \A i \in 1..Len(new) : new[i] = x => x = SightingOf(a, f) /\ a \in flagged /\ a \in notified'
    BY DEF Decision, SquawkOf
  <2> QED BY <2>1, LinesGrow
<1>4. Stored(db, x) /\ x.flight <= db.seq => Stored(db, x)'
  BY <1>1, <1>2 DEF Stored
<1>5. Held(x)' \/ given'[x] > 0 =>
        x.flight <= disk'.seq /\ x.icao \in flagged' /\ Stored(disk, x)' /\ Stored(db, x)'
  BY <1>0, <1>2, <1>3, <1>4 DEF FirstOk, Stored
<1>6. Pended(x)' => x.flight <= db'.seq /\ x.icao \in flagged' /\ Stored(db, x)'
  <2>1. CASE Pended(x)
    BY <2>1, <1>0, <1>1, <1>2, <1>4 DEF FirstOk
  <2>2. CASE x = SightingOf(a, f) /\ a \in flagged /\ a \in notified'
    BY <2>2, <1>1 DEF SightingOf, Stored
  <2> QED BY <2>1, <2>2, <1>3
<1>7. Out(x)' => x.icao \in notified'
  BY <1>2, <1>3 DEF Out, FirstOk, SightingOf
<1>8. given'[x] > 0 /\ main' # "down" =>
        x.icao \in notified' \/ (x.flight \in shared' /\ active'[x.icao] # x.flight)
  <2>1. SUFFICES ASSUME given[x] > 0, x.icao \notin notified
                 PROVE  x.flight \in shared' /\ active'[x.icao] # x.flight
    OBVIOUS
  <2>2. x.flight \in shared /\ active[x.icao] # x.flight /\ x.flight <= db.seq
    BY <2>1, <1>0, <1>2 DEF FirstOk
  <2> QED
    BY <2>2, <1>0, <1>1, <1>2
<1> QED
  BY <1>5, <1>6, <1>7, <1>8 DEF FirstOk

LEMMA NewFlightOutcome ==
    ASSUME AlertsTypeOK, NEW a \in Aircraft, NEW e \in BOOLEAN, NewFlightFix(a, e)
    PROVE  \E f \in FlightIds, new \in Seq(Alert) :
             /\ f = db.seq + 1 /\ db' = Opened(db, a, f)
             /\ active' = [active EXCEPT ![a] = f]
             /\ Decision(a, f, new) /\ pending' = pending \o new
             /\ notified \subseteq notified' /\ squawked \subseteq squawked'
             /\ squawked' \subseteq squawked \cup {f}
<1>1. PICK f : f = db.seq + 1
  OBVIOUS
<1>2. /\ f \in FlightIds /\ db' = Opened(db, a, f) /\ active' = [active EXCEPT ![a] = f]
  BY <1>1 DEF NewFlightFix, Opened
<1>3. Decide(a, f, e)
  BY <1>1 DEF NewFlightFix
<1>4. \E new \in Seq(Alert) :
             /\ Decision(a, f, new)
             /\ pending' = pending \o new
             /\ notified \subseteq notified' /\ notified' \subseteq notified \cup {a}
             /\ squawked \subseteq squawked' /\ squawked' \subseteq squawked \cup {f}
  BY <1>2, <1>3, DecideOutcome
<1> QED
  BY <1>1, <1>2, <1>4

LEMMA SameFlightOutcome ==
    ASSUME AlertsTypeOK, TablesOk, EntriesOk, NEW a \in Aircraft, NEW e \in BOOLEAN,
           SameFlightFix(a, e)
    PROVE  \E f \in FlightIds, new \in Seq(Alert) :
             /\ f = active[a] /\ f <= db.seq /\ (db.owner[f] = a \/ f \in shared)
             /\ Decision(a, f, new) /\ pending' = pending \o new
             /\ notified \subseteq notified' /\ squawked \subseteq squawked'
             /\ squawked' \subseteq squawked \cup {f}
<1>1. PICK f : f = active[a]
  OBVIOUS
<1>2. f \in FlightIds /\ Decide(a, f, e) /\ db.owner[f] # None
  BY <1>1 DEF SameFlightFix, AlertsTypeOK
<1>3. f <= db.seq /\ (db.owner[f] = a \/ f \in shared)
  BY <1>1, <1>2, AlertsNoneAssumption DEF TablesOk, GoodTables, EntriesOk
<1>4. \E new \in Seq(Alert) :
             /\ Decision(a, f, new)
             /\ pending' = pending \o new
             /\ notified \subseteq notified' /\ notified' \subseteq notified \cup {a}
             /\ squawked \subseteq squawked' /\ squawked' \subseteq squawked \cup {f}
  BY <1>2, DecideOutcome
<1> QED
  BY <1>1, <1>2, <1>3, <1>4

\* The steps that are not a fix.
Other ==
    \/ \E a \in Aircraft : Close(a) \/ Flag(a)
    \/ BeginPoll \/ Commit \/ PollFails \/ Enqueue \/ EndPoll \/ Get \/ Dispatch
    \/ Start \/ Crash \/ Stop \/ Drain \/ Post \/ Exit
    \/ UNCHANGED alertsVars

LEMMA FirstsOkOther ==
    ASSUME AlertsTypeOK, TablesOk, EntriesOk, FirstsOk, AlertsTypeOK', TablesOk', Other
    PROVE  FirstsOk'
<1> USE AlertsAssumption, AlertsNoneAssumption DEF memory, consumer, history
<1>0. /\ db \in Tables /\ disk \in Tables /\ db.seq \in Int /\ disk.seq \in Int
      /\ disk.seq <= db.seq /\ (main # "poll" => db = disk)
  <2>1. db \in Tables /\ disk \in Tables
    BY DEF AlertsTypeOK
  <2>2. db.seq \in Int /\ disk.seq \in Int
    BY <2>1 DEF Tables
  <2> QED BY <2>1, <2>2 DEF TablesOk
<1>a. active \in [Aircraft -> FlightIds \cup {None}]
  BY DEF AlertsTypeOK
<1> SUFFICES ASSUME NEW x \in Alert, x.kind = "first"
             PROVE  FirstOk(x)'
  BY DEF FirstsOk
<1>1. x.flight \in FlightIds /\ x.icao \in Aircraft /\ x.flight \in Int /\ FirstOk(x)
  BY DEF Alert, FlightIds, FirstsOk
<1>2. /\ Held(x)' => Held(x) \/ (main = "enqueue" /\ Pended(x))
      /\ Pended(x)' => Pended(x) /\ main' # "idle"
  BY LinesShrink DEF Other
<1>3. shared' = shared /\ flagged \subseteq flagged'
  BY DEF Other, Close, Flag, BeginPoll, Commit, PollFails, Enqueue, EndPoll, Get, Dispatch,
         Start, Crash, Stop, Drain, Post, Exit, alertsVars
<1>4. given'[x] > 0 => given[x] > 0 \/ Held(x)
  <2>1. CASE Dispatch
    <3>1. given' = [given EXCEPT ![item] = Again(@)] /\ given \in [Alert -> 0..(MaxStarts + 1)]
      BY <2>1 DEF Dispatch, AlertsTypeOK
    <3> QED BY <3>1 DEF Held
  <2>2. CASE ~Dispatch
    <3>1. given' = given
      BY <2>2 DEF Other, Close, Flag, BeginPoll, Commit, PollFails, Enqueue, EndPoll, Get,
             Start, Crash, Stop, Drain, Post, Exit, alertsVars
    <3> QED BY <3>1
  <2> QED BY <2>1, <2>2
<1>5. x.icao \in flagged /\ Stored(db, x) => Stored(db', x) \/ db' = disk
  <2>1. CASE \E a \in Aircraft : Close(a)
    BY <2>1, <1>3, CloseReduces, StoredKept
  <2>2. CASE Stop
    BY <2>2, <1>3, StopReduces, StoredKept
  <2>3. CASE ~Stop /\ ~\E a \in Aircraft : Close(a)
    <3>1. db' = db \/ db' = disk
      BY <2>3 DEF Other, Flag, BeginPoll, Commit, PollFails, Enqueue, EndPoll, Get, Dispatch,
             Start, Crash, Drain, Post, Exit, alertsVars
    <3> QED BY <3>1
  <2> QED BY <2>1, <2>2, <2>3
<1>6. /\ disk.seq <= disk'.seq
      /\ x.icao \in flagged /\ Stored(disk, x) /\ Stored(db, x) => Stored(disk', x)
  <2>1. CASE Commit
    BY <2>1, <1>0, <1>3 DEF Commit, Stored
  <2>2. CASE Stop
    <3>1. disk' = db' /\ db'.seq = db.seq /\ main # "poll"
      BY <2>2, StopReduces DEF Stop, Reduced
    <3>2. x.icao \in flagged /\ Stored(db, x) => Stored(db', x)
      BY <2>2, <1>3, StopReduces, StoredKept
    <3> QED BY <3>1, <3>2, <1>0
  <2>3. CASE ~Commit /\ ~Stop
    <3>1. disk' = disk
      BY <2>3 DEF Other, Close, Flag, BeginPoll, PollFails, Enqueue, EndPoll, Get, Dispatch,
             Start, Crash, Drain, Post, Exit, alertsVars
    <3> QED BY <3>1, <1>0, <1>3 DEF Stored
  <2> QED BY <2>1, <2>2, <2>3
<1>7. Held(x)' \/ given'[x] > 0 =>
        /\ x.flight <= disk.seq /\ x.icao \in flagged /\ Stored(disk, x) /\ Stored(db, x)
  <2>1. CASE Held(x) \/ given[x] > 0
    BY <2>1, <1>1 DEF FirstOk
  <2>2. CASE main = "enqueue" /\ Pended(x)
    BY <2>2, <1>0, <1>1 DEF FirstOk
  <2> QED BY <2>1, <2>2, <1>2, <1>4
<1>8. Held(x)' \/ given'[x] > 0 =>
        /\ x.flight <= disk'.seq /\ x.icao \in flagged' /\ Stored(disk, x)' /\ Stored(db, x)'
  <2>1. SUFFICES ASSUME Held(x)' \/ given'[x] > 0
                 PROVE  /\ x.flight <= disk'.seq /\ x.icao \in flagged'
                        /\ Stored(disk', x) /\ Stored(db', x)
    BY <1>3 DEF Stored
  <2>2. x.flight <= disk.seq /\ x.icao \in flagged /\ Stored(disk, x) /\ Stored(db, x)
    BY <2>1, <1>7
  <2>3. Stored(disk, x) /\ db' = disk => Stored(db', x)
    BY <1>3 DEF Stored
  <2>4. disk'.seq \in Int
    BY DEF AlertsTypeOK, Tables
  <2> QED BY <2>2, <2>3, <2>4, <1>0, <1>1, <1>3, <1>5, <1>6
<1>9. Pended(x)' => x.flight <= db'.seq /\ x.icao \in flagged' /\ Stored(db, x)'
  <2>1. SUFFICES ASSUME Pended(x)'
                 PROVE  x.flight <= db'.seq /\ x.icao \in flagged' /\ Stored(db', x)
    BY <1>3 DEF Stored
  <2>2. x.flight <= db.seq /\ x.icao \in flagged /\ Stored(db, x)
    BY <2>1, <1>1, <1>2 DEF FirstOk
  <2>3. main' \in {"poll", "enqueue"}
    BY <2>1 DEF TablesOk, Pended
  <2>4. CASE \E a \in Aircraft : Close(a)
    <3>1. db'.seq = db.seq /\ Stored(db', x)
      BY <2>2, <2>4, <1>3, CloseReduces, StoredKept DEF Reduced
    <3> QED BY <3>1, <2>2, <1>3
  <2>5. CASE ~\E a \in Aircraft : Close(a)
    <3>1. db' = db
      BY <2>3, <2>5, <2>1, <1>2 DEF Other, Flag, BeginPoll, Commit, PollFails, Enqueue, EndPoll, Get,
             Dispatch, Start, Crash, Stop, Down, Drain, Post, Exit, alertsVars
    <3> QED BY <3>1, <2>2, <1>3 DEF Stored
  <2> QED BY <2>4, <2>5
<1>10. CASE main' = "down"
  <2>1. ~Out(x)'
    BY <1>10, AlertsNoneAssumption DEF TablesOk, Out, Held, Pended, Queued
  <2> QED BY <1>10, <2>1, <1>8, <1>9 DEF FirstOk, Out
<1>11. CASE main' # "down" /\ Start
  <2>1. ~Out(x)'
    <3>1. ~Out(x)
      BY <1>11 DEF Start, TablesOk, Out, Held, Pended, Queued
    <3> QED BY <3>1, <1>2 DEF Out
  <2>2. /\ given' = given /\ active' = disk.open /\ notified' = LoadNotified(disk)
    BY <1>11 DEF Start
  <2>3. given[x] > 0 => x.icao \in flagged /\ Stored(disk, x)
    BY <1>1 DEF FirstOk
  <2>4. GoodTables(disk)
    BY DEF TablesOk
  <2>5. given[x] > 0 => x.icao \in notified' \/ (x.flight \in shared' /\ active'[x.icao] # x.flight)
    <3>1. SUFFICES ASSUME given[x] > 0
                   PROVE  x.icao \in notified' \/ (x.flight \in shared' /\ active'[x.icao] # x.flight)
      OBVIOUS
    <3>2. CASE disk.owner[x.flight] = x.icao
      BY <3>1, <3>2, <2>2, <2>3, <1>1 DEF LoadNotified, FlightsOf
    <3>3. CASE disk.owner[x.flight] # x.icao
      BY <3>1, <3>3, <2>2, <2>3, <2>4, <1>1, <1>3 DEF Stored, GoodTables
    <3> QED BY <3>2, <3>3
  <2> QED BY <2>1, <2>2, <2>5, <1>8, <1>9 DEF FirstOk, Out
<1>12. CASE main' # "down" /\ ~Start
  <2>1. /\ notified' = notified /\ main # "down"
        /\ \A b \in Aircraft : active'[b] \in {None, active[b]}
    BY <1>12, <1>a DEF Other, Close, Flag, BeginPoll, Commit, PollFails, Enqueue, EndPoll, Get,
             Dispatch, Crash, Stop, Down, Drain, Post, Exit, alertsVars, Nobody
  <2>2. Out(x)' => x.icao \in notified'
    BY <2>1, <1>1, <1>2 DEF Out, FirstOk
  <2>3. given'[x] > 0 => x.icao \in notified' \/ (x.flight \in shared' /\ active'[x.icao] # x.flight)
    <3>1. CASE given[x] > 0
      BY <3>1, <2>1, <1>1, <1>3 DEF FirstOk
    <3>2. CASE Held(x)
      BY <3>2, <2>1, <1>1 DEF FirstOk, Out
    <3> QED BY <3>1, <3>2, <1>4
  <2> QED BY <2>2, <2>3, <1>8, <1>9 DEF FirstOk
<1> QED
  BY <1>10, <1>11, <1>12

LEMMA SquawksOkFix ==
    ASSUME AlertsTypeOK, TablesOk, EntriesOk, SquawksOk, AlertsTypeOK',
           NEW a \in Aircraft, NEW f \in FlightIds, NEW new \in Seq(Alert),
           Decision(a, f, new), pending' = pending \o new,
           squawked \subseteq squawked',
           UNCHANGED <<disk, queue, item, given, starts, main>>, main = "poll",
           shared \subseteq shared',
           \/ /\ db' = db /\ active' = active /\ f <= db.seq /\ active[a] = f
           \/ /\ db' = Opened(db, a, f) /\ f = db.seq + 1
              /\ active' = [active EXCEPT ![a] = f]
              /\ \A b \in Aircraft : active[b] = f => f \in shared'
    PROVE  SquawksOk'
<1> USE AlertsAssumption, AlertsNoneAssumption
<1>0. /\ db \in Tables /\ disk \in Tables /\ db.seq \in Int /\ disk.seq \in Int /\ f \in Int
      /\ disk.seq <= db.seq /\ starts \in Nat /\ starts > 0
  <2>1. db \in Tables /\ disk \in Tables /\ starts \in Nat
    BY DEF AlertsTypeOK
  <2>2. db.seq \in Int /\ disk.seq \in Int
    BY <2>1 DEF Tables
  <2> QED BY <2>1, <2>2 DEF TablesOk, FlightIds
<1>a. active \in [Aircraft -> FlightIds \cup {None}]
  BY DEF AlertsTypeOK
<1>1. /\ db.seq <= db'.seq /\ f <= db'.seq /\ db'.seq \in Int
      /\ \A b \in Aircraft : active'[b] = active[b] \/ (b = a /\ active'[b] = f /\ f > db.seq)
      /\ active'[a] = f
      /\ \A b \in Aircraft : active'[b] = f => b = a \/ f \in shared'
  <2>1. CASE db' = db /\ active' = active /\ f <= db.seq /\ active[a] = f
    BY <2>1, <1>0 DEF EntriesOk
  <2>2. CASE /\ db' = Opened(db, a, f) /\ f = db.seq + 1 /\ active' = [active EXCEPT ![a] = f]
             /\ \A b \in Aircraft : active[b] = f => f \in shared'
    <3>1. db'.seq = f /\ db.seq < f
      BY <1>0, <2>2, GoodTablesNew DEF TablesOk
    <3> QED BY <1>0, <1>a, <2>2, <3>1
  <2> QED BY <2>1, <2>2
<1> SUFFICES ASSUME NEW x \in Alert, x.kind = "sqk"
             PROVE  SquawkOk(x)'
  BY DEF SquawksOk
<1>2. x.flight \in FlightIds /\ x.icao \in Aircraft /\ x.flight \in Int /\ SquawkOk(x)
      /\ given[x] \in Nat
  <2>1. given[x] \in 0..(MaxStarts + 1)
    BY DEF AlertsTypeOK
  <2>2. given[x] \in Nat
    BY <2>1
  <2> QED BY <2>2 DEF Alert, FlightIds, SquawksOk
<1> DEFINE newly == x = SquawkOf(a, f) /\ f \notin squawked /\ f \in squawked'
<1>3. /\ Held(x)' <=> Held(x)
      /\ Pended(x)' => Pended(x) \/ newly
  <2>1. \A i \in 1..Len(new) : new[i] = x => newly
    BY DEF Decision, SightingOf
  <2> HIDE DEF newly
  <2> QED BY <2>1, LinesGrow
<1>4. Held(x)' \/ given'[x] > 0 => x.flight <= disk'.seq
  BY <1>2, <1>3 DEF SquawkOk
<1>5. Pended(x)' => x.flight <= db'.seq
  BY <1>0, <1>1, <1>2, <1>3 DEF SquawkOk, SquawkOf
<1>6. InThisLife(x) => x.flight <= db.seq
  BY <1>0, <1>2 DEF SquawkOk, InThisLife, Out
<1>7. ASSUME x.flight \notin shared'
      PROVE  /\ given'[x] <= starts'
             /\ Out(x)' => given'[x] < starts'
             /\ InThisLife(x)' =>
                  \A b \in Aircraft : active'[b] = x.flight => b = x.icao /\ x.flight \in squawked'
  <2>1. x.flight \notin shared
    BY <1>7
  <2>2. newly => ~InThisLife(x)
    <3>1. SUFFICES ASSUME newly, InThisLife(x)
                   PROVE  FALSE
      OBVIOUS
    <3>2. x.flight = f /\ x.icao = a /\ f \notin squawked
      BY <3>1 DEF SquawkOf
    <3>3. active[a] = f
      BY <3>1, <3>2, <1>6, <1>1, <1>0
    <3> QED BY <3>1, <3>2, <3>3, <2>1, <1>2 DEF SquawkOk
  <2>3. given[x] <= starts /\ (Out(x) => given[x] < starts)
    BY <2>1, <1>2 DEF SquawkOk
  <2>4. Out(x)' => given'[x] < starts'
    BY <2>2, <2>3, <1>0, <1>2, <1>3 DEF Out, InThisLife
  <2>5. InThisLife(x)' => InThisLife(x) \/ newly
    BY <1>3 DEF InThisLife, Out
  <2>6. ASSUME InThisLife(x)', NEW b \in Aircraft, active'[b] = x.flight
        PROVE  b = x.icao /\ x.flight \in squawked'
    <3>1. CASE InThisLife(x)
      <4>1. active'[b] = active[b]
        BY <3>1, <2>6, <1>0, <1>1, <1>2, <1>6
      <4> QED BY <4>1, <3>1, <2>1, <2>6, <1>2 DEF SquawkOk
    <3>2. CASE newly
      BY <3>2, <2>6, <1>1, <1>7 DEF SquawkOf
    <3> QED BY <3>1, <3>2, <2>5, <2>6
  <2> QED BY <2>3, <2>4, <2>6
<1> QED
  BY <1>4, <1>5, <1>7 DEF SquawkOk

LEMMA ItemApart ==
    ASSUME AlertsTypeOK, Apart, NEW x \in Alert, x.kind = "sqk" => x.flight \notin shared,
           item # None, Same(item, x)
    PROVE  ~Queued(x) /\ ~Pended(x)
  BY DEF Apart, Queued, Pended

LEMMA SquawksOkOther ==
    ASSUME AlertsTypeOK, TablesOk, EntriesOk, SquawksOk, Apart, AlertsTypeOK', TablesOk', Other
    PROVE  SquawksOk'
<1> USE AlertsAssumption, AlertsNoneAssumption DEF memory, consumer, history
<1>0. /\ db \in Tables /\ disk \in Tables /\ db.seq \in Int /\ disk.seq \in Int
      /\ disk.seq <= db.seq /\ (main # "poll" => db = disk) /\ starts \in Nat
      /\ disk'.seq \in Int
  <2>1. db \in Tables /\ disk \in Tables /\ disk' \in Tables /\ starts \in Nat
    BY DEF AlertsTypeOK
  <2>2. db.seq \in Int /\ disk.seq \in Int /\ disk'.seq \in Int
    BY <2>1 DEF Tables
  <2> QED BY <2>1, <2>2 DEF TablesOk
<1>a. active \in [Aircraft -> FlightIds \cup {None}] /\ given \in [Alert -> 0..(MaxStarts + 1)]
  BY DEF AlertsTypeOK
<1> SUFFICES ASSUME NEW x \in Alert, x.kind = "sqk"
             PROVE  SquawkOk(x)'
  BY DEF SquawksOk
<1>1. x.flight \in FlightIds /\ x.icao \in Aircraft /\ x.flight \in Int /\ SquawkOk(x)
      /\ given[x] \in Nat
  <2>1. given[x] \in 0..(MaxStarts + 1)
    BY DEF AlertsTypeOK
  <2>2. given[x] \in Nat
    BY <2>1
  <2> QED BY <2>2 DEF Alert, FlightIds, SquawksOk
<1>2. /\ Held(x)' => Held(x) \/ (main = "enqueue" /\ Pended(x))
      /\ Pended(x)' => Pended(x) /\ main' # "idle"
  BY LinesShrink DEF Other
<1>3. shared' = shared
  BY DEF Other, Close, Flag, BeginPoll, Commit, PollFails, Enqueue, EndPoll, Get, Dispatch,
         Start, Crash, Stop, Drain, Post, Exit, alertsVars
<1>4. /\ item # x \/ ~Dispatch => given'[x] = given[x]
      /\ item = x /\ Dispatch => given'[x] = Again(given[x])
  <2>1. CASE Dispatch
    BY <2>1, <1>a DEF Dispatch
  <2>2. CASE ~Dispatch
    <3>1. given' = given
      BY <2>2 DEF Other, Close, Flag, BeginPoll, Commit, PollFails, Enqueue, EndPoll, Get,
             Start, Crash, Stop, Drain, Post, Exit, alertsVars
    <3> QED BY <3>1, <2>2
  <2> QED BY <2>1, <2>2
<1>5. given'[x] > 0 => given[x] > 0 \/ Held(x)
  BY <1>4 DEF Held
<1>6. disk.seq <= disk'.seq
  <2>1. CASE Commit
    BY <2>1, <1>0 DEF Commit
  <2>2. CASE Stop
    BY <2>2, <1>0, StopReduces DEF Stop, Reduced
  <2>3. CASE ~Commit /\ ~Stop
    <3>1. disk' = disk
      BY <2>3 DEF Other, Close, Flag, BeginPoll, PollFails, Enqueue, EndPoll, Get, Dispatch,
             Start, Crash, Drain, Post, Exit, alertsVars
    <3> QED BY <3>1, <1>0
  <2> QED BY <2>1, <2>2, <2>3
<1>7. Held(x)' \/ given'[x] > 0 => x.flight <= disk'.seq
  <2>1. CASE Held(x) \/ given[x] > 0
    BY <2>1, <1>0, <1>1, <1>6 DEF SquawkOk
  <2>2. CASE main = "enqueue" /\ Pended(x)
    BY <2>2, <1>0, <1>1, <1>6 DEF SquawkOk
  <2> QED BY <2>1, <2>2, <1>2, <1>5
<1>8. Pended(x)' => x.flight <= db'.seq
  <2>1. SUFFICES ASSUME Pended(x)'
                 PROVE  x.flight <= db'.seq
    OBVIOUS
  <2>2. x.flight <= db.seq
    BY <2>1, <1>1, <1>2 DEF SquawkOk
  <2>3. main' \in {"poll", "enqueue"}
    BY <2>1 DEF TablesOk, Pended
  <2>4. CASE \E a \in Aircraft : Close(a)
    BY <2>2, <2>4, CloseReduces DEF Reduced
  <2>5. CASE ~\E a \in Aircraft : Close(a)
    <3>1. db' = db
      BY <2>3, <2>5, <2>1, <1>2 DEF Other, Flag, BeginPoll, Commit, PollFails, Enqueue, EndPoll, Get,
             Dispatch, Start, Crash, Stop, Down, Drain, Post, Exit, alertsVars
    <3> QED BY <3>1, <2>2
  <2> QED BY <2>4, <2>5
<1>9. ASSUME x.flight \notin shared'
      PROVE  /\ given'[x] <= starts'
             /\ Out(x)' => given'[x] < starts'
             /\ InThisLife(x)' =>
                  \A b \in Aircraft : active'[b] = x.flight => b = x.icao /\ x.flight \in squawked'
  <2>1. /\ x.flight \notin shared /\ given[x] <= starts
        /\ Out(x) => given[x] < starts
        /\ InThisLife(x) =>
             \A b \in Aircraft : active[b] = x.flight => b = x.icao /\ x.flight \in squawked
    BY <1>1, <1>3, <1>9 DEF SquawkOk
  <2>2. Out(x)' => Out(x)
    BY <1>2 DEF Out
  <2>3. CASE Start
    <3>1. starts' = starts + 1 /\ given'[x] = given[x] /\ main = "down"
      BY <2>3, <1>4 DEF Start, Dispatch, TablesOk
    <3>2. ~Out(x)
      BY <3>1 DEF TablesOk, Out, Held, Pended, Queued
    <3> QED BY <3>1, <3>2, <2>1, <2>2, <1>0, <1>1 DEF InThisLife
  <2>4. CASE Dispatch /\ item = x
    <3>1. /\ starts' = starts /\ active' = active /\ squawked' = squawked
          /\ item' = None /\ queue' = queue /\ pending' = pending
      BY <2>4 DEF Dispatch
    <3>2. ~Out(x)'
      <4>1. item # None /\ Same(item, x)
        BY <2>4, <1>3, <1>9 DEF Same, SameBut
      <4>2. ~Queued(x) /\ ~Pended(x)
        BY <4>1, <2>1, ItemApart
      <4> QED BY <3>1, <4>2 DEF Out, Held, Queued, Pended
    <3>3. Out(x)
      BY <2>4 DEF Out, Held
    <3>4. given'[x] <= starts
      BY <2>1, <2>4, <3>3, <1>0, <1>1, <1>4 DEF Again
    <3> QED BY <3>1, <3>2, <3>3, <3>4, <2>1 DEF InThisLife
  <2>5. CASE ~Start /\ ~(Dispatch /\ item = x)
    <3>1. given'[x] = given[x] /\ starts' = starts
      BY <2>5, <1>4 DEF Other, Close, Flag, BeginPoll, Commit, PollFails, Enqueue, EndPoll, Get,
             Dispatch, Crash, Stop, Drain, Post, Exit, alertsVars
    <3>2. main' # "down" => main # "down"
      BY <2>5 DEF Other, Close, Flag, BeginPoll, Commit, PollFails, Enqueue, EndPoll, Get,
             Dispatch, Crash, Stop, Down, Drain, Post, Exit, alertsVars
    <3>3. InThisLife(x)' => InThisLife(x)
      BY <3>1, <3>2, <2>2 DEF InThisLife
    <3>4. \/ \A b \in Aircraft : active'[b] = None
          \/ \E a \in Aircraft : Close(a)
          \/ active' = active /\ squawked' = squawked
      BY <2>5 DEF Other, Close, Flag, BeginPoll, Commit, PollFails, Enqueue, EndPoll, Get,
             Dispatch, Crash, Stop, Down, Drain, Post, Exit, alertsVars, Nobody
    <3>5. CASE \E a \in Aircraft : Close(a)
      <4>1. PICK a \in Aircraft : Close(a)
        BY <3>5
      <4>2. active' = [active EXCEPT ![a] = None] /\ squawked' = squawked \ {active[a]}
        BY <4>1 DEF Close
      <4>3. ASSUME InThisLife(x)', NEW b \in Aircraft, active'[b] = x.flight
            PROVE  b = x.icao /\ x.flight \in squawked'
        <5>1. b # a /\ active[b] = x.flight
          BY <4>2, <4>3, <1>a, <1>1
        <5>2. b = x.icao /\ x.flight \in squawked
          BY <5>1, <4>3, <3>3, <2>1
        <5>3. active[a] # x.flight
          BY <5>1, <5>2, <4>3, <3>3, <2>1
        <5> QED BY <5>2, <5>3, <4>2
      <4> QED BY <4>3, <3>1, <2>1, <2>2
    <3> QED BY <3>1, <3>3, <3>4, <3>5, <2>1, <2>2, <1>1
  <2> QED BY <2>3, <2>4, <2>5
<1> QED
  BY <1>7, <1>8, <1>9 DEF SquawkOk

\* A decision repeats nothing that is on its way.
LEMMA FreshDecision ==
    ASSUME AlertsTypeOK, TablesOk, FirstsOk, SquawksOk,
           NEW a \in Aircraft, NEW f \in FlightIds, NEW new \in Seq(Alert),
           Decision(a, f, new), shared \subseteq shared',
           active[a] = f \/ f = db.seq + 1,
           NEW y \in Alert, Out(y), NEW i \in 1..Len(new)
    PROVE  ~SameBut(y, new[i], shared')
<1>1. /\ y.flight \in Int /\ f \in Int /\ y.icao \in Aircraft
      /\ db.seq \in Int /\ disk.seq \in Int /\ disk.seq <= db.seq
  <2>1. db \in Tables /\ disk \in Tables
    BY DEF AlertsTypeOK
  <2>2. db.seq \in Int /\ disk.seq \in Int
    BY <2>1, AlertsAssumption DEF Tables
  <2> QED BY <2>2, AlertsAssumption DEF Alert, FlightIds, TablesOk
<1>2. CASE new[i] = SightingOf(a, f) /\ a \notin notified
  BY <1>2 DEF SightingOf, SameBut, FirstsOk, FirstOk
<1>3. CASE new[i] = SquawkOf(a, f) /\ f \notin squawked
  <2>1. SUFFICES ASSUME SameBut(y, new[i], shared')
                 PROVE  FALSE
    OBVIOUS
  <2>2. y.kind = "sqk" /\ y.icao = a /\ y.flight = f /\ y.flight \notin shared
    BY <2>1, <1>3 DEF SameBut, SquawkOf
  <2>3. SquawkOk(y) /\ InThisLife(y)
    BY <2>2 DEF SquawksOk, InThisLife
  <2>4. active[a] # f
    BY <2>2, <2>3, <1>3 DEF SquawkOk
  <2>5. y.flight <= db.seq
    BY <2>3, <1>1 DEF SquawkOk, Out
  <2> QED BY <2>2, <2>4, <2>5, <1>1
<1> QED
  BY <1>2, <1>3 DEF Decision

LEMMA ApartFix ==
    ASSUME AlertsTypeOK, Apart, NEW a \in Aircraft, NEW f \in FlightIds,
           NEW new \in Seq(Alert), Decision(a, f, new), pending' = pending \o new,
           UNCHANGED <<queue, item>>, shared \subseteq shared',
           \A y \in Alert : Out(y) => \A i \in 1..Len(new) : ~SameBut(y, new[i], shared')
    PROVE  Apart'
<1>1. /\ Len(pending') = Len(pending) + Len(new)
      /\ \A i \in 1..(Len(pending) + Len(new)) :
           pending'[i] = IF i <= Len(pending) THEN pending[i] ELSE new[i - Len(pending)]
      /\ Len(pending) \in Nat /\ Len(new) \in Nat
      /\ \A i \in 1..Len(pending) : pending[i] \in Alert
      /\ item \in Alert \cup {None}
  BY ConcatProperties, ElementOfSeq DEF AlertsTypeOK
<1>2. ASSUME NEW i \in 1..Len(pending')
      PROVE  \/ i \in 1..Len(pending) /\ pending'[i] = pending[i] /\ Out(pending[i])
             \/ \E k \in 1..Len(new) : i = Len(pending) + k /\ pending'[i] = new[k]
  <2>1. i \in Int /\ 1 <= i /\ i <= Len(pending) + Len(new)
    BY <1>1
  <2>2. CASE i <= Len(pending)
    BY <2>1, <2>2, <1>1 DEF Out, Pended
  <2>3. CASE ~(i <= Len(pending))
    <3>1. /\ i - Len(pending) \in 1..Len(new) /\ i = Len(pending) + (i - Len(pending))
          /\ pending'[i] = new[i - Len(pending)]
      BY <2>1, <2>3, <1>1
    <3> QED BY <3>1
  <2> QED BY <2>2, <2>3
<1>3. \A x, y : SameBut(x, y, shared') => Same(x, y) /\ SameBut(y, x, shared')
  BY DEF Same, SameBut
<1>4. \A i \in 1..Len(queue) : queue[i] \in Alert => Out(queue[i])
  BY DEF Out, Held, Queued
<1>5. item # None => Out(item) /\ item \in Alert
  BY <1>1 DEF Out, Held
<1>6. ASSUME NEW i \in 1..Len(queue'), NEW j \in 1..Len(queue'),
             queue'[i] \in Alert, queue'[j] \in Alert, SameBut(queue'[i], queue'[j], shared')
      PROVE  i = j
  BY <1>3, <1>6 DEF Apart
<1>7. ASSUME NEW i \in 1..Len(pending'), NEW j \in 1..Len(pending'),
             SameBut(pending'[i], pending'[j], shared')
      PROVE  i = j
  <2>0. SameBut(pending'[j], pending'[i], shared') /\ pending'[i].kind = pending'[j].kind
    BY <1>7 DEF SameBut
  <2>1. CASE /\ i \in 1..Len(pending) /\ pending'[i] = pending[i]
             /\ j \in 1..Len(pending) /\ pending'[j] = pending[j]
    BY <2>1, <1>3, <1>7 DEF Apart
  <2>2. CASE /\ i \in 1..Len(pending) /\ pending'[i] = pending[i] /\ Out(pending[i])
             /\ \E k \in 1..Len(new) : j = Len(pending) + k /\ pending'[j] = new[k]
    BY <2>2, <1>1, <1>7
  <2>3. CASE /\ j \in 1..Len(pending) /\ pending'[j] = pending[j] /\ Out(pending[j])
             /\ \E k \in 1..Len(new) : i = Len(pending) + k /\ pending'[i] = new[k]
    BY <2>0, <2>3, <1>1
  <2>4. CASE /\ \E k \in 1..Len(new) : i = Len(pending) + k /\ pending'[i] = new[k]
             /\ \E k \in 1..Len(new) : j = Len(pending) + k /\ pending'[j] = new[k]
    BY <2>0, <2>4 DEF Decision
  <2> QED BY <1>2, <2>1, <2>2, <2>3, <2>4
<1>8. ASSUME NEW x \in Alert, Out(x), NEW j \in 1..Len(pending'), SameBut(x, pending'[j], shared')
      PROVE  j \in 1..Len(pending) /\ Same(x, pending[j])
  BY <1>2, <1>3, <1>8
<1>9. ASSUME NEW i \in 1..Len(queue'), NEW j \in 1..Len(pending'), queue'[i] \in Alert
      PROVE  ~SameBut(queue'[i], pending'[j], shared')
  BY <1>4, <1>8, <1>9 DEF Apart
<1>10. ASSUME item' # None
       PROVE  /\ \A i \in 1..Len(queue') : queue'[i] \in Alert => ~SameBut(item', queue'[i], shared')
              /\ \A j \in 1..Len(pending') : ~SameBut(item', pending'[j], shared')
  BY <1>3, <1>5, <1>8, <1>10 DEF Apart
<1> QED
  BY <1>6, <1>7, <1>9, <1>10 DEF Apart, Same

LEMMA ApartOther ==
    ASSUME AlertsTypeOK, TablesOk, Apart, AlertsTypeOK', TablesOk', Other
    PROVE  Apart'
<1> USE AlertsAssumption, AlertsNoneAssumption DEF memory, consumer, history
<1>1. shared' = shared
  BY DEF Other, Close, Flag, BeginPoll, Commit, PollFails, Enqueue, EndPoll, Get, Dispatch,
         Start, Crash, Stop, Drain, Post, Exit, alertsVars
<1>2. /\ queue \in Seq(Alert \cup {Sentinel}) /\ pending \in Seq(Alert)
      /\ Len(queue) \in Nat /\ Len(pending) \in Nat
  BY DEF AlertsTypeOK
<1>3. CASE UNCHANGED <<queue, pending, item>>
  BY <1>1, <1>3 DEF Apart, Same
<1>4. CASE PollFails \/ Crash \/ Exit
  <2>1. pending' = <<>> /\ ((queue' = queue /\ item' = item) \/ (queue' = <<>> /\ item' = None))
    BY <1>4 DEF PollFails, Crash, Exit, Down
  <2> QED BY <1>1, <2>1 DEF Apart, Same
<1>5. CASE Dispatch
  BY <1>1, <1>5 DEF Dispatch, Apart, Same
<1>6. CASE Get
  <2>1. /\ Len(queue') = Len(queue) - 1 /\ Len(queue) > 0 /\ pending' = pending /\ item = None
        /\ \A i \in 1..Len(queue') : i + 1 \in 1..Len(queue) /\ queue'[i] = queue[i + 1]
        /\ 1 \in 1..Len(queue)
        /\ item' = None \/ (item' = queue[1] /\ queue[1] \in Alert)
    <3>1. /\ Len(Tail(queue)) = Len(queue) - 1 /\ Len(queue) > 0 /\ Head(queue) = queue[1]
          /\ \A i \in 1..Len(Tail(queue)) : Tail(queue)[i] = queue[i + 1]
          /\ Head(queue) \in Alert \cup {Sentinel}
      BY <1>2, <1>6, HeadTailProperties DEF Get
    <3>2. queue' = Tail(queue) /\ pending' = pending /\ item = None
          /\ (item' = None \/ (item' = Head(queue) /\ Head(queue) # Sentinel))
      BY <1>6 DEF Get
    <3> QED BY <3>1, <3>2, <1>2
  <2>2. ASSUME NEW i \in 1..Len(queue'), NEW j \in 1..Len(queue'),
               queue'[i] \in Alert, queue'[j] \in Alert, SameBut(queue'[i], queue'[j], shared)
        PROVE  i = j
    <3>1. i + 1 \in 1..Len(queue) /\ j + 1 \in 1..Len(queue) /\ i + 1 = j + 1
      BY <2>1, <2>2 DEF Apart, Same
    <3> QED BY <3>1, <1>2, <2>1
  <2>3. \A i \in 1..Len(queue'), j \in 1..Len(pending) :
          queue'[i] \in Alert => ~SameBut(queue'[i], pending[j], shared)
    BY <2>1 DEF Apart, Same
  <2>4. ASSUME item' # None
        PROVE  /\ \A i \in 1..Len(queue') : queue'[i] \in Alert => ~SameBut(item', queue'[i], shared)
               /\ \A j \in 1..Len(pending) : ~SameBut(item', pending[j], shared)
    <3>1. item' = queue[1] /\ queue[1] \in Alert
      BY <2>1, <2>4
    <3>2. ASSUME NEW i \in 1..Len(queue'), queue'[i] \in Alert, SameBut(item', queue'[i], shared)
          PROVE  FALSE
      <4>1. i + 1 \in 1..Len(queue) /\ 1 = i + 1
        BY <2>1, <3>1, <3>2 DEF Apart, Same
      <4> QED BY <4>1, <1>2, <2>1
    <3> QED BY <3>1, <3>2, <2>1 DEF Apart, Same
  <2> QED BY <1>1, <2>1, <2>2, <2>3, <2>4 DEF Apart, Same
<1>7. CASE Enqueue
  <2>1. /\ Len(pending') = Len(pending) - 1 /\ item' = item
        /\ \A i \in 1..Len(pending') : i + 1 \in 1..Len(pending) /\ pending'[i] = pending[i + 1]
        /\ 1 \in 1..Len(pending)
        /\ \/ queue' = queue
           \/ /\ Len(queue') = Len(queue) + 1 /\ queue'[Len(queue) + 1] = pending[1]
              /\ \A i \in 1..Len(queue) : queue'[i] = queue[i]
    <3>1. /\ Len(Tail(pending)) = Len(pending) - 1 /\ Len(pending) > 0 /\ Head(pending) = pending[1]
          /\ \A i \in 1..Len(Tail(pending)) : Tail(pending)[i] = pending[i + 1]
          /\ Head(pending) \in Alert
      BY <1>2, <1>7, HeadTailProperties DEF Enqueue
    <3>2. /\ Len(Append(queue, Head(pending))) = Len(queue) + 1
          /\ \A i \in 1..Len(queue) : Append(queue, Head(pending))[i] = queue[i]
          /\ Append(queue, Head(pending))[Len(queue) + 1] = Head(pending)
      BY <1>2, <3>1, AppendProperties
    <3>3. /\ pending' = Tail(pending) /\ item' = item
          /\ queue' = queue \/ queue' = Append(queue, Head(pending))
      BY <1>7 DEF Enqueue
    <3>4. /\ \A i \in 1..Len(pending') : i + 1 \in 1..Len(pending) /\ pending'[i] = pending[i + 1]
          /\ 1 \in 1..Len(pending)
      BY <3>1, <3>3, <1>2
    <3> QED BY <3>1, <3>2, <3>3, <3>4
  <2>2. ASSUME NEW i \in 1..Len(queue')
        PROVE  \/ i \in 1..Len(queue) /\ queue'[i] = queue[i]
               \/ i = Len(queue) + 1 /\ queue'[i] = pending[1]
    BY <2>1, <1>2
  <2>3. ASSUME NEW i \in 1..Len(queue'), NEW j \in 1..Len(queue'),
               queue'[i] \in Alert, queue'[j] \in Alert, SameBut(queue'[i], queue'[j], shared)
        PROVE  i = j
    <3>1. SameBut(queue'[j], queue'[i], shared)
      BY <2>3 DEF SameBut
    <3> QED BY <2>1, <2>2, <2>3, <3>1 DEF Apart, Same
  <2>4. ASSUME NEW i \in 1..Len(pending'), NEW j \in 1..Len(pending'),
               SameBut(pending'[i], pending'[j], shared)
        PROVE  i = j
    <3>1. i + 1 \in 1..Len(pending) /\ j + 1 \in 1..Len(pending) /\ i + 1 = j + 1
      BY <2>1, <2>4 DEF Apart, Same
    <3> QED BY <3>1, <1>2, <2>1
  <2>5. ASSUME NEW i \in 1..Len(queue'), NEW j \in 1..Len(pending'), queue'[i] \in Alert,
               SameBut(queue'[i], pending'[j], shared)
        PROVE  FALSE
    <3>1. j + 1 \in 1..Len(pending) /\ pending'[j] = pending[j + 1] /\ j \in Int /\ j >= 1
      BY <2>1, <1>2
    <3>2. CASE queue'[i] = pending[1]
      <4>1. 1 = j + 1
        BY <3>1, <3>2, <2>1, <2>5 DEF Apart, Same
      <4> QED BY <4>1, <3>1
    <3>3. CASE i \in 1..Len(queue) /\ queue'[i] = queue[i]
      BY <3>1, <3>3, <2>5 DEF Apart, Same
    <3> QED BY <2>2, <3>2, <3>3
  <2>6. ASSUME item' # None
        PROVE  /\ \A i \in 1..Len(queue') : queue'[i] \in Alert => ~SameBut(item', queue'[i], shared)
               /\ \A j \in 1..Len(pending') : ~SameBut(item', pending'[j], shared)
    BY <2>1, <2>2, <2>6 DEF Apart, Same
  <2> QED BY <1>1, <2>3, <2>4, <2>5, <2>6 DEF Apart, Same
<1>8. CASE Post
  <2>1. /\ Len(queue') = Len(queue) + 1 /\ queue'[Len(queue) + 1] = Sentinel
        /\ \A i \in 1..Len(queue) : queue'[i] = queue[i]
        /\ pending' = pending /\ item' = item
    BY <1>2, <1>8, AppendProperties DEF Post
  <2>2. \A i \in 1..Len(queue') : queue'[i] \in Alert => i \in 1..Len(queue) /\ queue'[i] = queue[i]
    BY <2>1, <1>2
  <2> QED BY <1>1, <2>1, <2>2 DEF Apart, Same
<1> QED
  BY <1>3, <1>4, <1>5, <1>6, <1>7, <1>8
     DEF Other, Close, Flag, BeginPoll, Commit, EndPoll, Start, Stop, Drain, alertsVars

LEMMA NotYetGivenFix ==
    ASSUME AlertsTypeOK, TablesOk, FirstsOk, NotYetGiven,
           NEW a \in Aircraft, NEW f \in FlightIds, NEW new \in Seq(Alert),
           Decision(a, f, new), pending' = pending \o new,
           UNCHANGED <<queue, item, given>>, main = "poll", shared \subseteq shared',
           active[a] = f \/ f = db.seq + 1
    PROVE  NotYetGiven'
<1>1. /\ f \in Int /\ db.seq \in Int /\ disk.seq \in Int /\ disk.seq <= db.seq
  <2>1. db \in Tables /\ disk \in Tables
    BY DEF AlertsTypeOK
  <2>2. db.seq \in Int /\ disk.seq \in Int
    BY <2>1, AlertsAssumption DEF Tables
  <2> QED BY <2>2, AlertsAssumption DEF FlightIds, TablesOk
<1> SUFFICES ASSUME NEW x \in Alert, x.kind = "first"
             PROVE  /\ given'[x] <= 1
                    /\ Out(x)' => given'[x] = 0
                    /\ \A y \in Alert :
                         /\ y.kind = "first" /\ y.icao = x.icao /\ given'[y] > 0
                         /\ Out(x)' \/ given'[x] > 0
                         => x = y \/ {x.flight, y.flight} \cap shared' # {}
  BY DEF NotYetGiven
<1> DEFINE newly == x = SightingOf(a, f) /\ a \notin notified
<1>2. Out(x)' => Out(x) \/ newly
  <2>1. \A i \in 1..Len(new) : new[i] = x => newly
    BY DEF Decision, SquawkOf
  <2> HIDE DEF newly
  <2> QED BY <2>1, LinesGrow DEF Out
<1>3. given[x] \in Nat /\ x.flight \in Int
  <2>1. given[x] \in 0..(MaxStarts + 1)
    BY DEF AlertsTypeOK
  <2> QED BY <2>1, AlertsAssumption DEF Alert, FlightIds
<1>4. newly => given[x] = 0
  <2>1. SUFFICES ASSUME newly, given[x] > 0
                 PROVE  FALSE
    BY <1>3
  <2>2. FirstOk(x) /\ x.icao = a /\ x.flight = f
    BY <2>1 DEF FirstsOk, SightingOf
  <2> QED BY <2>1, <2>2, <1>1 DEF FirstOk
<1>5. ASSUME NEW y \in Alert, y.kind = "first", y.icao = x.icao, given'[y] > 0,
             Out(x)' \/ given'[x] > 0
      PROVE  x = y \/ {x.flight, y.flight} \cap shared' # {}
  <2>1. CASE newly
    <3>1. FirstOk(y) /\ y.icao = a
      BY <2>1, <1>5 DEF FirstsOk, SightingOf
    <3>2. y.flight \in shared
      BY <2>1, <3>1, <1>5 DEF FirstOk
    <3> QED BY <3>2
  <2>2. CASE Out(x) \/ given[x] > 0
    <3>1. x = y \/ {x.flight, y.flight} \cap shared # {}
      BY <2>2, <1>5 DEF NotYetGiven
    <3> QED BY <3>1
  <2> QED BY <2>1, <2>2, <1>2, <1>5
<1>6. given'[x] <= 1 /\ (Out(x)' => given'[x] = 0)
  BY <1>2, <1>4 DEF NotYetGiven
<1> QED
  BY <1>5, <1>6

LEMMA NotYetGivenOther ==
    ASSUME AlertsTypeOK, TablesOk, NotYetGiven, Apart, Other
    PROVE  NotYetGiven'
<1> USE AlertsAssumption, AlertsNoneAssumption DEF memory, consumer, history
<1>1. shared' = shared
  BY DEF Other, Close, Flag, BeginPoll, Commit, PollFails, Enqueue, EndPoll, Get, Dispatch,
         Start, Crash, Stop, Drain, Post, Exit, alertsVars
<1>2. \A x \in Alert : Out(x)' => Out(x)
  BY LinesShrink DEF Out, Other
<1>3. CASE ~Dispatch
  <2>1. given' = given
    BY <1>3 DEF Other, Close, Flag, BeginPoll, Commit, PollFails, Enqueue, EndPoll, Get,
         Start, Crash, Stop, Drain, Post, Exit, alertsVars
  <2> QED BY <2>1, <1>1, <1>2 DEF NotYetGiven
<1>4. CASE Dispatch
  <2>1. /\ item \in Alert /\ Out(item)
        /\ given' = [given EXCEPT ![item] = Again(@)] /\ given \in [Alert -> 0..(MaxStarts + 1)]
        /\ item' = None /\ queue' = queue /\ pending' = pending
    BY <1>4 DEF Dispatch, AlertsTypeOK, Out, Held
  <2>2. \A x \in Alert : x # item => given'[x] = given[x]
    BY <2>1
  <2>3. item.kind = "first" => given[item] = 0 /\ given'[item] = 1
    <3>1. item.kind = "first" => given[item] = 0
      BY <2>1 DEF NotYetGiven
    <3>2. Again(0) = 1
      BY DEF Again
    <3> QED BY <3>1, <3>2, <2>1
  <2>4. \A x \in Alert : x.kind = "first" /\ item.kind = "first" /\ x.icao = item.icao => ~Out(x)'
    <3>1. SUFFICES ASSUME NEW x \in Alert, x.kind = "first", item.kind = "first",
                          x.icao = item.icao, Out(x)'
                   PROVE  FALSE
      OBVIOUS
    <3>2. Queued(x) \/ Pended(x)
      BY <2>1, <3>1 DEF Out, Held, Queued, Pended
    <3>3. item # None /\ Same(item, x)
      BY <2>1, <3>1 DEF Same, SameBut
    <3> QED BY <3>1, <3>2, <3>3, ItemApart
  <2>5. ASSUME NEW x \in Alert, x.kind = "first"
        PROVE  given'[x] <= 1 /\ (Out(x)' => given'[x] = 0)
    BY <2>2, <2>3, <2>4, <2>5, <1>2 DEF NotYetGiven
  <2>6. ASSUME NEW x \in Alert, x.kind = "first", NEW y \in Alert, y.kind = "first",
               y.icao = x.icao, given'[y] > 0, Out(x)' \/ given'[x] > 0
        PROVE  x = y \/ {x.flight, y.flight} \cap shared # {}
    <3>1. CASE y # item
      <4>1. given[y] > 0 /\ (Out(x) \/ given[x] > 0)
        BY <3>1, <2>1, <2>2, <2>6, <1>2
      <4> QED BY <4>1, <2>6 DEF NotYetGiven
    <3>2. CASE y = item /\ x # item
      <4>1. given[x] > 0 /\ Out(y)
        BY <3>2, <2>1, <2>2, <2>4, <2>6
      <4>2. y = x \/ {y.flight, x.flight} \cap shared # {}
        BY <4>1, <2>6 DEF NotYetGiven
      <4> QED BY <4>2
    <3> QED BY <3>1, <3>2
  <2> QED BY <2>5, <2>6, <1>1 DEF NotYetGiven
<1> QED
  BY <1>3, <1>4

LEMMA EndOkKept ==
    ASSUME AlertsTypeOK, TablesOk, EndOk, AlertsTypeOK', [AlertsNext]_alertsVars
    PROVE  EndOk'
<1> USE AlertsAssumption, AlertsNoneAssumption DEF memory, consumer, history
<1>1. queue \in Seq(Alert \cup {Sentinel}) /\ pending \in Seq(Alert) /\ Len(queue) \in Nat
  BY DEF AlertsTypeOK
<1>2. CASE UNCHANGED <<queue, item, dispatcher, main>>
  BY <1>2 DEF EndOk
<1>3. CASE Get
  <2>1. /\ Len(queue') = Len(queue) - 1 /\ Len(queue) > 0 /\ main' = main /\ dispatcher
        /\ \A i \in 1..Len(queue') : i + 1 \in 1..Len(queue) /\ queue'[i] = queue[i + 1]
        /\ Head(queue) = queue[1] /\ 1 \in 1..Len(queue)
    BY <1>1, <1>3, HeadTailProperties DEF Get
  <2>2. ASSUME NEW i \in 1..Len(queue'), queue'[i] = Sentinel
        PROVE  main' = "join" /\ i = Len(queue')
    <3>1. i + 1 \in 1..Len(queue) /\ queue[i + 1] = Sentinel
      BY <2>1, <2>2
    <3>2. main = "join" /\ i + 1 = Len(queue)
      BY <3>1 DEF EndOk
    <3> QED BY <3>2, <2>1, <1>1
  <2>3. ASSUME ~dispatcher'
        PROVE  item' = None /\ main' = "join" /\ queue' = <<>>
    <3>1. queue[1] = Sentinel /\ item' = item /\ item = None
      BY <1>3, <2>1, <2>3 DEF Get
    <3>2. main = "join" /\ 1 = Len(queue)
      BY <2>1, <3>1 DEF EndOk
    <3>3. Len(queue') = 0 /\ queue' \in Seq(Alert \cup {Sentinel})
      <4>1. Len(queue') = 1 - 1
        BY <2>1, <3>2
      <4> QED BY <4>1 DEF AlertsTypeOK
    <3> QED BY <3>1, <3>2, <3>3, <2>1, EmptySeq
  <2> QED BY <2>2, <2>3 DEF EndOk
<1>4. CASE Enqueue
  <2>1. /\ main = "enqueue" /\ main' = main /\ dispatcher' = dispatcher /\ item' = item
        /\ dispatcher
        /\ \/ queue' = queue
           \/ /\ Len(queue') = Len(queue) + 1 /\ queue'[Len(queue) + 1] \in Alert
              /\ \A i \in 1..Len(queue) : queue'[i] = queue[i]
    <3>1. Head(pending) \in Alert
      BY <1>1, <1>4, HeadTailProperties DEF Enqueue
    <3>2. /\ Len(Append(queue, Head(pending))) = Len(queue) + 1
          /\ \A i \in 1..Len(queue) : Append(queue, Head(pending))[i] = queue[i]
          /\ Append(queue, Head(pending))[Len(queue) + 1] = Head(pending)
      BY <1>1, <3>1, AppendProperties
    <3>3. /\ main = "enqueue" /\ main' = main /\ dispatcher' = dispatcher /\ item' = item
          /\ queue' = queue \/ queue' = Append(queue, Head(pending))
      BY <1>4 DEF Enqueue
    <3>4. dispatcher
      BY <3>3 DEF EndOk
    <3> QED BY <3>1, <3>2, <3>3, <3>4
  <2>2. ASSUME NEW i \in 1..Len(queue')
        PROVE  queue'[i] # Sentinel
    <3>1. \A k \in 1..Len(queue) : queue[k] # Sentinel
      BY <2>1 DEF EndOk
    <3> QED BY <3>1, <2>1, <1>1
  <2> QED BY <2>1, <2>2 DEF EndOk
<1>5. CASE Dispatch
  BY <1>5 DEF Dispatch, EndOk
<1>6. CASE Start
  BY <1>6 DEF Start, EndOk, TablesOk
<1>7. CASE Crash \/ Exit
  BY <1>7 DEF Crash, Exit, Down, EndOk
<1>8. CASE Post
  <2>1. /\ Len(queue') = Len(queue) + 1 /\ main' = "join" /\ item' = item
        /\ \A i \in 1..Len(queue) : queue'[i] = queue[i]
        /\ dispatcher' = dispatcher /\ main = "post"
    BY <1>1, <1>8, AppendProperties DEF Post
  <2>2. dispatcher /\ \A k \in 1..Len(queue) : queue[k] # Sentinel
    BY <2>1 DEF EndOk
  <2> QED BY <2>1, <2>2, <1>1 DEF EndOk
<1>9. CASE \/ BeginPoll \/ Commit \/ PollFails \/ EndPoll \/ Stop \/ Drain
  <2>1. /\ UNCHANGED <<queue, item, dispatcher>>
        /\ main \notin {"join", "down"} /\ main' # "down"
    BY <1>9 DEF BeginPoll, Commit, PollFails, EndPoll, Stop, Drain
  <2> QED BY <2>1 DEF EndOk
<1> QED
  BY <1>2, <1>3, <1>4, <1>5, <1>6, <1>7, <1>8, <1>9
     DEF AlertsNext, NewFlightFix, SameFlightFix, Close, Flag, alertsVars

LEMMA AlertsInvInit == ASSUME AlertsInit PROVE AlertsInv
<1> USE AlertsAssumption, AlertsNoneAssumption DEF AlertsInit
<1>1. AlertsTypeOK
  BY AlertsTypesInit
<1>2. TablesOk
  BY DEF TablesOk, GoodTables, Nobody
<1>3. EntriesOk
  BY DEF EntriesOk, Nobody
<1>4. \A x \in Alert : ~Out(x) /\ given[x] = 0
  BY DEF Out, Held, Queued, Pended
<1>5. FirstsOk
  BY <1>4 DEF FirstsOk, FirstOk, Out
<1>6. SquawksOk
  BY <1>4 DEF SquawksOk, SquawkOk, Out, InThisLife
<1>7. Apart
  BY DEF Apart
<1>8. NotYetGiven
  BY <1>4 DEF NotYetGiven
<1>9. EndOk
  BY DEF EndOk
<1> QED
  BY <1>1, <1>2, <1>3, <1>5, <1>6, <1>7, <1>8, <1>9 DEF AlertsInv

LEMMA AlertsInvKept == ASSUME AlertsInv, [AlertsNext]_alertsVars PROVE AlertsInv'
<1> USE DEF AlertsInv
<1>1. AlertsTypeOK' /\ TablesOk' /\ EntriesOk' /\ EndOk'
  BY AlertsTypesKept, TablesOkKept, EntriesOkKept, EndOkKept
<1>2. ASSUME NEW a \in Aircraft, NEW e \in BOOLEAN, NewFlightFix(a, e)
      PROVE  FirstsOk' /\ SquawksOk' /\ Apart' /\ NotYetGiven'
  <2>1. PICK f \in FlightIds, new \in Seq(Alert) :
             /\ f = db.seq + 1 /\ db' = Opened(db, a, f)
             /\ active' = [active EXCEPT ![a] = f]
             /\ Decision(a, f, new) /\ pending' = pending \o new
             /\ notified \subseteq notified' /\ squawked \subseteq squawked'
    BY <1>2, NewFlightOutcome
  <2>2. /\ UNCHANGED <<disk, flagged, queue, item, given, starts, main>> /\ main = "poll"
        /\ shared \subseteq shared'
        /\ \A b \in Aircraft : active[b] = f => f \in shared'
    BY <1>2, <2>1 DEF NewFlightFix, consumer
  <2>3. FirstsOk'
    BY <1>1, <2>1, <2>2, FirstsOkFix
  <2>4. SquawksOk'
    BY <1>1, <2>1, <2>2, SquawksOkFix
  <2>5. \A y \in Alert : Out(y) => \A i \in 1..Len(new) : ~SameBut(y, new[i], shared')
    BY <2>1, <2>2, FreshDecision
  <2>6. Apart'
    BY <2>1, <2>2, <2>5, ApartFix
  <2>7. NotYetGiven'
    BY <2>1, <2>2, NotYetGivenFix
  <2> QED BY <2>3, <2>4, <2>6, <2>7
<1>3. ASSUME NEW a \in Aircraft, NEW e \in BOOLEAN, SameFlightFix(a, e)
      PROVE  FirstsOk' /\ SquawksOk' /\ Apart' /\ NotYetGiven'
  <2>1. PICK f \in FlightIds, new \in Seq(Alert) :
             /\ f = active[a] /\ f <= db.seq /\ (db.owner[f] = a \/ f \in shared)
             /\ Decision(a, f, new) /\ pending' = pending \o new
             /\ notified \subseteq notified' /\ squawked \subseteq squawked'
    BY <1>3, SameFlightOutcome
  <2>2. /\ UNCHANGED <<db, active, disk, flagged, queue, item, given, starts, main>>
        /\ main = "poll" /\ shared' = shared
    BY <1>3 DEF SameFlightFix, consumer, history
  <2>3. FirstsOk'
    BY <1>1, <2>1, <2>2, FirstsOkFix
  <2>4. SquawksOk'
    BY <1>1, <2>1, <2>2, SquawksOkFix
  <2>5. \A y \in Alert : Out(y) => \A i \in 1..Len(new) : ~SameBut(y, new[i], shared')
    BY <2>1, <2>2, FreshDecision
  <2>6. Apart'
    BY <2>1, <2>2, <2>5, ApartFix
  <2>7. NotYetGiven'
    BY <2>1, <2>2, NotYetGivenFix
  <2> QED BY <2>3, <2>4, <2>6, <2>7
<1>4. ASSUME Other
      PROVE  FirstsOk' /\ SquawksOk' /\ Apart' /\ NotYetGiven'
  BY <1>1, <1>4, FirstsOkOther, SquawksOkOther, ApartOther, NotYetGivenOther
<1> QED
  BY <1>1, <1>2, <1>3, <1>4 DEF AlertsNext, Other

LEMMA AlertsInvEnough == AlertsInv => AlertedOnce
<1> SUFFICES ASSUME AlertsInv PROVE AlertedOnce
  OBVIOUS
<1> USE DEF AlertsInv
<1>1. FirstSightingOnce
  BY DEF FirstSightingOnce, NotYetGiven
<1>2. SquawkOncePerLife
  BY DEF SquawkOncePerLife, SquawksOk, SquawkOk
<1>3. StoppedEmpty
  BY DEF StoppedEmpty, EndOk, TablesOk
<1> QED
  BY <1>1, <1>2, <1>3 DEF AlertedOnce

\* Whatever fails, whatever is rolled back and whenever the process dies: an
\* aircraft's first sighting is given to the notifier at most once, a flight's squawk
\* at most once in a life of the process, and a graceful stop leaves nothing queued.
\* The alerts on a flight that two entries of _active have named are excepted.
THEOREM AlertedOnceAlways == AlertsSpec => []AlertedOnce
<1>1. AlertsSpec => []AlertsInv
  BY AlertsInvInit, AlertsInvKept, PTL DEF AlertsSpec
<1> QED
  BY <1>1, AlertsInvEnough, PTL

\* Without a failing poll _active is never ahead of the tables, so no flight is shared.
NothingShared ==
    /\ shared = {}
    /\ \A b \in Aircraft : active[b] # None => active[b] <= db.seq

LEMMA NothingSharedKept ==
    ASSUME ~MayFail, AlertsInv, NothingShared, [AlertsNext]_alertsVars
    PROVE  NothingShared'
<1> USE AlertsAssumption, AlertsNoneAssumption DEF memory, consumer, history
<1>1. /\ db \in Tables /\ disk \in Tables /\ GoodTables(db) /\ GoodTables(disk)
      /\ active \in [Aircraft -> FlightIds \cup {None}]
      /\ main # "poll" => db = disk
  BY DEF AlertsInv, AlertsTypeOK, TablesOk
<1>2. db.seq \in Int /\ disk.open \in [Aircraft -> FlightIds \cup {None}] /\ \A f \in FlightIds : f \in Int
  BY <1>1 DEF Tables, FlightIds
<1>3. ASSUME NEW a \in Aircraft, NEW e \in BOOLEAN, NewFlightFix(a, e)
      PROVE  NothingShared'
  <2>1. PICK f \in FlightIds : f = db.seq + 1 /\ f = db.seq + 1
    BY <1>3 DEF NewFlightFix
  <2>2. /\ db' = Opened(db, a, f) /\ active' = [active EXCEPT ![a] = f]
        /\ shared' = IF \E b \in Aircraft : active[b] = f THEN shared \cup {f} ELSE shared
    BY <1>3, <2>1 DEF NewFlightFix, Opened
  <2>3. db'.seq = f
    BY <1>1, <2>1, <2>2, GoodTablesNew
  <2>4. \A b \in Aircraft : active[b] # f
    BY <1>2, <2>1 DEF NothingShared
  <2>5. \A b \in Aircraft : active'[b] = IF b = a THEN f ELSE active[b]
    BY <1>1, <2>2
  <2>6. \A b \in Aircraft : active[b] # None => active[b] \in Int /\ active[b] <= db.seq
    BY <1>1, <1>2 DEF NothingShared
  <2>7. \A b \in Aircraft : active'[b] # None => active'[b] <= db'.seq
    BY <1>2, <2>1, <2>3, <2>5, <2>6
  <2> QED BY <2>2, <2>4, <2>7 DEF NothingShared
<1>4. ASSUME NEW a \in Aircraft, Close(a)
      PROVE  NothingShared'
  <2>1. db'.seq = db.seq /\ active' = [active EXCEPT ![a] = None] /\ shared' = shared
    BY <1>4, CloseReduces DEF AlertsInv, Reduced, Close
  <2> QED BY <1>1, <2>1 DEF NothingShared
<1>5. ASSUME Start
      PROVE  NothingShared'
  <2>1. db' = db /\ db = disk /\ active' = disk.open /\ shared' = shared
    BY <1>1, <1>5 DEF Start
  <2>2. \A b \in Aircraft : disk.open[b] # None => disk.open[b] <= disk.seq
    BY <1>1, <1>2 DEF GoodTables
  <2> QED BY <2>1, <2>2 DEF NothingShared
<1>6. ASSUME Stop \/ Crash \/ Exit
      PROVE  NothingShared'
  BY <1>6 DEF Stop, Crash, Exit, Down, Nobody, NothingShared
<1>7. ASSUME \/ \E a \in Aircraft, e \in BOOLEAN : SameFlightFix(a, e)
             \/ \E a \in Aircraft : Flag(a)
             \/ BeginPoll \/ Commit \/ Enqueue \/ EndPoll \/ Get \/ Dispatch \/ Drain \/ Post
             \/ UNCHANGED alertsVars
      PROVE  NothingShared'
  <2>1. UNCHANGED <<db, active, shared>>
    BY <1>7 DEF SameFlightFix, Flag, BeginPoll, Commit, Enqueue, EndPoll, Get, Dispatch, Drain, Post,
       alertsVars
  <2> QED BY <2>1 DEF NothingShared
<1> QED
  BY <1>3, <1>4, <1>5, <1>6, <1>7 DEF AlertsNext, PollFails

\* When no poll fails there is nothing to except.
THEOREM NothingSharedAlways == ~MayFail /\ AlertsSpec => [](shared = {})
<1>1. AlertsSpec => []AlertsInv
  BY AlertsInvInit, AlertsInvKept, PTL DEF AlertsSpec
<1>2. AlertsInit => NothingShared
  BY DEF AlertsInit, NothingShared, Nobody
<1>3. NothingShared => shared = {}
  BY DEF NothingShared
<1>4. ~MayFail /\ AlertsInv /\ NothingShared /\ [AlertsNext]_alertsVars => NothingShared'
  BY NothingSharedKept
<1>5. CASE MayFail
  BY <1>5
<1>6. CASE ~MayFail
  BY <1>1, <1>2, <1>3, <1>4, <1>6, PTL DEF AlertsSpec
<1> QED
  BY <1>5, <1>6

=============================================================================
