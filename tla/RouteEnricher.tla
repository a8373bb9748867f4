--------------------------- MODULE RouteEnricher ---------------------------
(***************************************************************************)
(* The route enricher (route_enricher.py): a thread of the collector looks  *)
(* up the origin and destination of the callsigns of closed flights, caches *)
(* the answer per callsign for ROUTE_CACHE_DAYS and writes it to every      *)
(* flight with that callsign, while the collector opens and closes flights. *)
(*                                                                          *)
(* Times are kept as what is left of them: fresh[c] days until the cached   *)
(* row expires, cool[c] minutes until a callsign may be asked again.        *)
(*                                                                          *)
(* Abstracted: one side of a route is known or NULL; which airport it is,   *)
(* the airports table and the shape of a callsign are left out.             *)
(***************************************************************************)
EXTENDS Integers, FiniteSets

CONSTANTS
    Callsigns,    \* well-formed callsigns, numbered in the order of the query
    Unavailable,  \* those for which the service never answers in time
    MaxFlights,   \* bound: flights ever opened
    BatchSize,    \* ROUTE_BATCH_SIZE
    CacheTime,    \* ROUTE_CACHE_DAYS
    Cooldown,     \* _TRANSIENT_COOLDOWN_S
    MaxFaults     \* bound: restarts, and failed requests and transactions of the others

ASSUME RoutesAssumption ==
    /\ Callsigns \subseteq Nat \ {0} /\ IsFiniteSet(Callsigns) /\ Unavailable \subseteq Callsigns
    /\ MaxFlights \in Nat /\ BatchSize \in Nat \ {0} /\ CacheTime \in Nat \ {0}
    /\ Cooldown \in Nat \ {0} /\ MaxFaults \in Nat

VARIABLES
    flights,   \* flights[i]: callsign and route of the i-th flight; 0 is no flight yet
    open,      \* the flights listed in active_flights
    routes,    \* callsign_routes: origin and dest; nothing is known if there is no row
    fresh,     \* fresh[c]: time until the row of c expires
    cool,      \* _transient_failure_at
    batch,     \* callsigns the running batch has still to ask for
    asking,    \* callsign whose answer is awaited, 0 for none
    pc,        \* "sleep" or "batch"
    faults,    \* of MaxFaults
    late       \* history: flights that have their callsign since the row was last stored

vars == <<flights, open, routes, fresh, cool, batch, asking, pc, faults, late>>
tables == <<flights, open, routes, fresh>>
thread == <<batch, asking, pc>>

Flights == 1..MaxFlights
Route == [origin: BOOLEAN, dest: BOOLEAN]
Nothing == [origin |-> FALSE, dest |-> FALSE]

TypeOK ==
    /\ flights \in [Flights -> [callsign: Callsigns \cup {0}, route: Route]]
    /\ open \subseteq Flights /\ late \subseteq Flights
    /\ routes \in [Callsigns -> Route]
    /\ fresh \in [Callsigns -> 0..CacheTime]
    /\ cool \in [Callsigns -> 0..Cooldown]
    /\ batch \subseteq Callsigns
    /\ Cardinality(batch) <= BatchSize
    /\ asking \in Callsigns \cup {0} /\ pc \in {"sleep", "batch"}
    /\ faults \in 0..MaxFaults

Init ==
    /\ flights = [f \in Flights |-> [callsign |-> 0, route |-> Nothing]]
    /\ open = {} /\ late = {}
    /\ routes = [c \in Callsigns |-> Nothing]
    /\ fresh = [c \in Callsigns |-> 0] /\ cool = [c \in Callsigns |-> 0]
    /\ batch = {} /\ asking = 0 /\ pc = "sleep"
    /\ faults = 0

-----------------------------------------------------------------------------
(* The collector *)

\* A flight row gets its callsign, once (COALESCE(callsign, ?)): flights of which none
\* has been received are left out, the query ignores them.
OpenFlight(c) == \E f \in Flights :
    /\ flights[f].callsign = 0
    /\ \A g \in Flights : g < f => flights[g].callsign # 0
    /\ flights' = [flights EXCEPT ![f].callsign = c]
    /\ open' = open \cup {f}
    /\ late' = late \cup {f}
    /\ UNCHANGED <<routes, fresh, cool, thread, faults>>

CloseFlight(f) ==
    /\ f \in open
    /\ open' = open \ {f}
    /\ UNCHANGED <<flights, routes, fresh, cool, thread, faults, late>>

-----------------------------------------------------------------------------
(* _enrich_batch *)

\* Callsigns of closed flights without a row younger than ROUTE_CACHE_DAYS.
Unresolved == {c \in Callsigns :
    /\ \E f \in Flights \ open : flights[f].callsign = c
    /\ fresh[c] = 0}

\* The query has no ORDER BY; SQLite reads the callsigns in an order that does not
\* depend on earlier batches.
FirstOf(S) == {c \in S : Cardinality({d \in S : d < c}) < BatchSize}

\* The time is read once, here: the loop skips those in cooldown now.
BeginBatch ==
    /\ pc = "sleep"
    /\ pc' = "batch"
    /\ batch' = {c \in FirstOf(Unresolved) : cool[c] = 0}
    /\ UNCHANGED <<tables, cool, asking, faults, late>>

\* The request is sent; nothing is locked while it is under way.
Ask(c) ==
    /\ asking = 0 /\ c \in batch
    /\ asking' = c
    /\ batch' = batch \ {c}
    /\ UNCHANGED <<tables, cool, pc, faults, late>>

Both(r, s) == [origin |-> r.origin \/ s.origin, dest |-> r.dest \/ s.dest]

\* _parse_response and _fetch_route: no route (a 404 or an empty payload), or one whose
\* sides survive validation or not; both may be lost to it.
Replies == [found: BOOLEAN, route: Route] \ [found: {FALSE}, route: Route \ {Nothing}]

\* _store_route: a found route is merged side by side, a miss replaces the row.
StoredRoute(c, reply) ==
    [routes EXCEPT ![c] = IF reply.found THEN Both(reply.route, @) ELSE Nothing]

\* Mutant: the defect "A13-003" repaired: an unknown answer clears the flights.
AppliedAlways(c, reply) == [f \in Flights |->
    IF flights[f].callsign = c THEN [flights[f] EXCEPT !.route = reply.route] ELSE flights[f]]

\* Mutant: open flights are left out.
AppliedToClosed(c, reply) == [f \in Flights |->
    IF flights[f].callsign = c /\ reply.found /\ f \notin open
      THEN [flights[f] EXCEPT !.route = Both(reply.route, @)] ELSE flights[f]]

\* _apply_to_flights: every flight with the callsign, open ones too.
Applied(c, reply) == [f \in Flights |->
    IF flights[f].callsign = c /\ reply.found
      THEN [flights[f] EXCEPT !.route = Both(reply.route, @)] ELSE flights[f]]

\* A route, a part of one, or a 404, stored and applied in one transaction.
Answer(reply) ==
    /\ asking # 0 /\ asking \notin Unavailable
    /\ routes' = StoredRoute(asking, reply)
    /\ fresh' = [fresh EXCEPT ![asking] = CacheTime]
    /\ flights' = Applied(asking, reply)
    /\ cool' = [cool EXCEPT ![asking] = 0]
    /\ late' = late \ {f \in Flights : flights[f].callsign = asking}
    /\ asking' = 0
    /\ UNCHANGED <<open, batch, pc, faults>>

\* A transient failure: nothing is stored.
TransientError ==
    /\ asking # 0
    /\ IF asking \in Unavailable THEN UNCHANGED faults
                                 ELSE faults < MaxFaults /\ faults' = faults + 1
    /\ cool' = [cool EXCEPT ![asking] = Cooldown]
    /\ asking' = 0
    /\ UNCHANGED <<tables, batch, pc, late>>

\* A policy error or a 4xx: cached as a miss, unless the database refuses that too.
PermanentError ==
    /\ asking # 0 /\ asking \notin Unavailable
    /\ faults < MaxFaults /\ faults' = faults + 1
    /\ \/ /\ routes' = StoredRoute(asking, [found |-> FALSE])
          /\ fresh' = [fresh EXCEPT ![asking] = CacheTime]
       \/ UNCHANGED <<routes, fresh>>
    /\ asking' = 0
    /\ UNCHANGED <<flights, open, cool, batch, pc, late>>

\* Mutant: the exception ends the thread.
DatabaseErrorEnds ==
    /\ asking # 0 /\ asking \notin Unavailable
    /\ faults < MaxFaults /\ faults' = faults + 1
    /\ asking' = 0 /\ pc' = "ended"
    /\ UNCHANGED <<tables, cool, batch, late>>

\* The transaction of an answer raises: rolled back and logged.
DatabaseError ==
    /\ asking # 0 /\ asking \notin Unavailable
    /\ faults < MaxFaults /\ faults' = faults + 1
    /\ asking' = 0
    /\ UNCHANGED <<tables, cool, batch, pc, late>>

EndBatch ==
    /\ pc = "batch" /\ batch = {} /\ asking = 0
    /\ pc' = "sleep"
    /\ UNCHANGED <<tables, cool, batch, asking, faults, late>>

\* The collector is restarted: the cooldowns are lost, by design.
Restart ==
    /\ faults < MaxFaults /\ faults' = faults + 1
    /\ batch' = {} /\ asking' = 0 /\ pc' = "sleep"
    /\ cool' = [c \in Callsigns |-> 0]
    /\ UNCHANGED <<tables, late>>

Less(n) == IF n > 0 THEN n - 1 ELSE 0

Minute ==
    /\ \E c \in Callsigns : cool[c] > 0
    /\ cool' = [c \in Callsigns |-> Less(cool[c])]
    /\ UNCHANGED <<tables, thread, faults, late>>

\* A row lives for days, a batch takes minutes: rows do not expire faster than the
\* callsigns that get an answer are worked through.
Day ==
    /\ \E c \in Callsigns : fresh[c] > 0
    /\ Unresolved \subseteq Unavailable
    /\ fresh' = [c \in Callsigns |-> Less(fresh[c])]
    /\ cool' = [c \in Callsigns |-> 0]
    /\ UNCHANGED <<flights, open, routes, thread, faults, late>>

Step ==
    \/ BeginBatch
    \/ \E c \in Callsigns : Ask(c)
    \/ \E reply \in Replies : Answer(reply)
    \/ TransientError \/ PermanentError \/ DatabaseError
    \/ EndBatch

Next ==
    \/ \E c \in Callsigns : OpenFlight(c)
    \/ \E f \in Flights : CloseFlight(f)
    \/ Step
    \/ Restart
    \/ Minute
    \/ Day

Spec == Init /\ [][Next]_vars

\* The thread runs, each request has a timeout, and time passes.
FairSpec == Spec /\ WF_vars(Step) /\ WF_vars(Minute) /\ WF_vars(Day)

-----------------------------------------------------------------------------
(* Properties *)

\* What a flight shows of its route is never taken back: not by a later answer that
\* knows less, nor by a 404, a permanent error, a rollback or a restart.
RouteNeverForgotten == [][\A f \in Flights :
    /\ flights[f].route.origin => flights'[f].route.origin
    /\ flights[f].route.dest => flights'[f].route.dest]_vars

\* What the row of a callsign learns, every flight with that callsign, open or closed,
\* learns in the same step: the two are one transaction, so no crash or error leaves a
\* callsign resolved and its flights without the route until the row expires.
NoFlightLeftOut == [][\A f \in Flights, c \in Callsigns :
    LET new == flights'[f].route
    IN  flights[f].callsign = c =>
            /\ routes'[c].origin => routes[c].origin \/ new.origin
            /\ routes'[c].dest => routes[c].dest \/ new.dest]_vars

\* The route of every closed flight is looked up after the flight has its callsign, at
\* the latest when the row that was there before has expired, also when fewer callsigns
\* than fit in one batch fail for ever.
EventuallyLookedUp == \A f \in Flights :
    f \notin open /\ flights[f].callsign \in Callsigns \ Unavailable ~> f \notin late

\* README.md:47: origin/destination airport per flight.
RoutePerFlight == pc = "sleep" => \A f \in Flights \ open : flights[f].callsign # 0 =>
    LET r == routes[flights[f].callsign]
    IN  (r.origin => flights[f].route.origin) /\ (r.dest => flights[f].route.dest)
=============================================================================
