------------------------------- MODULE Alerts -------------------------------
(***************************************************************************)
(* Telegram alerts of the collector: the decision taken inside the poll's   *)
(* transaction, the hand-over after the commit through a bounded queue, the *)
(* dispatch thread, and what crashes, failing polls and a graceful stop do. *)
(*                                                                          *)
(* Two kinds are modelled: "first", once per flagged aircraft (mil, int and *)
(* anon exclude each other), and "sqk", once per flight.  Of the flight     *)
(* bookkeeping (module Collector) only what the decisions read is kept:     *)
(* which flights exist, whose they are, and which is open.                  *)
(*                                                                          *)
(* A failed poll leaves _active ahead of the tables, so that one id can end *)
(* in two entries: `shared' remembers these flights, the only ones whose     *)
(* alerts can be repeated.                                                  *)
(*                                                                          *)
(* Abstracted: a dispatch may or may not reach Telegram; the messages'      *)
(* texts, photos and the watchlist, whose alerts have no memory of their    *)
(* own, are left out.                                                       *)
(***************************************************************************)
EXTENDS Integers, Sequences

CONSTANTS
    Aircraft,
    None,
    Sentinel,    \* the None that ends the consumer
    QueueSize,   \* _NOTIFICATION_QUEUE_MAXSIZE
    MaxIds,      \* bound: flight ids ever handed out
    MaxStarts,   \* bound: starts of the process
    MayFail,     \* may a statement raise inside a transaction?
    MayCrash     \* may the process die at any point?

ASSUME AlertsAssumption ==
    /\ QueueSize \in Nat \ {0} /\ MaxIds \in Nat /\ MaxStarts \in Nat
    /\ MayFail \in BOOLEAN /\ MayCrash \in BOOLEAN

FlightIds == 1..MaxIds
Alert == [kind: {"first", "sqk"}, icao: Aircraft, flight: FlightIds]

\* Python's None is no aircraft, no flight id and no alert.
ASSUME AlertsNoneAssumption ==
    /\ None \notin Aircraft /\ None \notin FlightIds /\ None \notin Alert
    /\ Sentinel \notin Alert

VARIABLES
    db, disk,     \* flights and active_flights, inside the transaction and committed
    flagged,      \* aircraft_db and adsbx_overrides: military, interesting
    active,       \* _active
    notified,     \* _notified_icao
    squawked,     \* _squawk_notified
    pending,      \* _pending of the current poll
    queue,        \* _notification_queue
    dispatcher,   \* is the dispatch thread alive?
    item,         \* the alert it is dispatching, or None
    main,         \* where the main thread is
    given,        \* history: how often each alert went to the notifier
    starts,       \* history: how often the process was started
    shared        \* history: flights that two entries of _active have named at once

alertsVars == <<db, disk, flagged, active, notified, squawked, pending, queue, dispatcher,
                item, main, given, starts, shared>>
history == <<given, starts, shared>>
consumer == <<dispatcher, item>>
memory == <<active, notified, squawked>>

Tables == [owner: [FlightIds -> Aircraft \cup {None}],
           open: [Aircraft -> FlightIds \cup {None}],
           seq: 0..MaxIds]
Running == {"idle", "poll", "enqueue", "drain", "post", "join"}

AlertsTypeOK ==
    /\ db \in Tables /\ disk \in Tables
    /\ flagged \subseteq Aircraft
    /\ active \in [Aircraft -> FlightIds \cup {None}]
    /\ notified \subseteq Aircraft /\ squawked \subseteq FlightIds
    /\ pending \in Seq(Alert) /\ queue \in Seq(Alert \cup {Sentinel})
    /\ Len(queue) <= QueueSize
    /\ dispatcher \in BOOLEAN /\ item \in Alert \cup {None}
    /\ main \in Running \cup {"down"}
    /\ given \in [Alert -> 0..(MaxStarts + 1)] /\ starts \in 0..MaxStarts
    /\ shared \subseteq FlightIds

Nobody == [a \in Aircraft |-> None]
AlertsInit ==
    /\ db = [owner |-> [f \in FlightIds |-> None], open |-> Nobody, seq |-> 0]
    /\ disk = db
    /\ flagged \in SUBSET Aircraft
    /\ active = Nobody /\ notified = {} /\ squawked = {}
    /\ pending = <<>> /\ queue = <<>> /\ main = "down"
    /\ dispatcher = FALSE /\ item = None
    /\ given = [x \in Alert |-> 0] /\ starts = 0 /\ shared = {}

Again(n) == IF n > MaxStarts THEN n ELSE n + 1
FlightsOf(d, a) == {f \in FlightIds : d.owner[f] = a}

-----------------------------------------------------------------------------
(* One poll *)

BeginPoll ==
    /\ main = "idle"
    /\ main' = "poll"
    /\ UNCHANGED <<db, disk, flagged, memory, pending, queue, consumer, history>>

\* Mutant: the flight is not looked up in _squawk_notified.
AlarmEachFix(f, emergency) == emergency

Alarm(f, emergency) == emergency /\ f \notin squawked

\* The notification block, reached once the fix is stored for flight f.
Decide(a, f, emergency) ==
    LET sighting == a \in flagged /\ a \notin notified
        known == FlightsOf(db', a) \ {f} # {}
        alarm == Alarm(f, emergency)
    IN  /\ notified' = IF sighting THEN notified \cup {a} ELSE notified
        /\ squawked' = IF alarm THEN squawked \cup {f} ELSE squawked
        /\ pending' = pending
             \o (IF sighting /\ ~known
                   THEN <<[kind |-> "first", icao |-> a, flight |-> f]>> ELSE <<>>)
             \o (IF alarm THEN <<[kind |-> "sqk", icao |-> a, flight |-> f]>> ELSE <<>>)

NewFlightFix(a, emergency) ==
    LET f == db.seq + 1
    IN  /\ main = "poll"
        /\ active[a] = None
        /\ f \in FlightIds
        /\ db' = [db EXCEPT !.owner[f] = a, !.open[a] = f, !.seq = f]
        /\ active' = [active EXCEPT ![a] = f]
        /\ shared' = IF \E b \in Aircraft : active[b] = f THEN shared \cup {f} ELSE shared
        /\ Decide(a, f, emergency)
        /\ UNCHANGED <<disk, flagged, queue, consumer, main, given, starts>>

SameFlightFix(a, emergency) ==
    /\ main = "poll"
    /\ active[a] # None
    /\ db.owner[active[a]] # None
    /\ db' = db
    /\ Decide(a, active[a], emergency)
    /\ UNCHANGED <<disk, flagged, active, queue, consumer, main, history>>

\* _close_flight, for a gap or for silence: a flight of a flagged aircraft is kept,
\* another one may be too short to be.
Close(a) ==
    LET f == active[a]
        unlinked == [db EXCEPT !.open[a] = None]
    IN  /\ main = "poll"
        /\ f # None
        /\ active' = [active EXCEPT ![a] = None]
        /\ squawked' = squawked \ {f}
        /\ \/ db' = unlinked
           \/ /\ a \notin flagged
              /\ \A b \in Aircraft : unlinked.open[b] # f
              /\ db' = [unlinked EXCEPT !.owner[f] = None]
        /\ UNCHANGED <<disk, flagged, notified, pending, queue, consumer, main, history>>

Commit ==
    /\ main = "poll"
    /\ disk' = db
    /\ main' = "enqueue"
    /\ UNCHANGED <<db, flagged, memory, pending, queue, consumer, history>>

PollFails ==
    /\ MayFail
    /\ main = "poll"
    /\ db' = disk
    /\ pending' = <<>>
    /\ main' = "idle"
    /\ UNCHANGED <<disk, flagged, memory, queue, consumer, history>>

\* _enqueue_alert never blocks: when the queue is full the alert is shed.
Enqueue ==
    LET x == Head(pending)
    IN  /\ main = "enqueue"
        /\ pending # <<>>
        /\ queue' = IF Len(queue) < QueueSize THEN Append(queue, x) ELSE queue
        /\ pending' = Tail(pending)
        /\ UNCHANGED <<db, disk, flagged, memory, consumer, main, history>>

EndPoll ==
    /\ main = "enqueue"
    /\ pending = <<>>
    /\ main' = "idle"
    /\ UNCHANGED <<db, disk, flagged, memory, pending, queue, consumer, history>>

-----------------------------------------------------------------------------
(* The dispatch thread *)

Get ==
    /\ dispatcher /\ item = None
    /\ queue # <<>>
    /\ queue' = Tail(queue)
    /\ IF Head(queue) = Sentinel
         THEN dispatcher' = FALSE /\ UNCHANGED item
         ELSE item' = Head(queue) /\ UNCHANGED dispatcher
    /\ UNCHANGED <<db, disk, flagged, memory, pending, main, history>>

\* Mutant: an exception of the notifier ends the thread.
DispatchMayEnd ==
    /\ item # None
    /\ given' = [given EXCEPT ![item] = Again(@)]
    /\ item' = None
    /\ dispatcher' \in BOOLEAN
    /\ UNCHANGED <<db, disk, flagged, memory, pending, queue, main, starts, shared>>

\* _dispatch_one hands the alert to the notifier.  Sent or "Notification dispatch
\* error": the thread goes on in both cases.
Dispatch ==
    /\ item # None
    /\ given' = [given EXCEPT ![item] = Again(@)]
    /\ item' = None
    /\ UNCHANGED <<db, disk, flagged, memory, pending, queue, dispatcher, main, starts, shared>>

-----------------------------------------------------------------------------
(* The process *)

\* Mutant: only aircraft with a finished flight.
LoadNotifiedFinished(d) ==
    {a \in flagged : \E f \in FlightsOf(d, a) : d.open[a] # f}

\* _load_notified: every flagged aircraft with a stored flight.
LoadNotified(d) == {a \in flagged : FlightsOf(d, a) # {}}

\* _load_active, _load_notified, start_notification_consumer.
Start ==
    /\ main = "down"
    /\ starts < MaxStarts
    /\ starts' = starts + 1
    /\ active' = disk.open
    /\ notified' = LoadNotified(disk)
    /\ squawked' = {}
    /\ dispatcher' = TRUE
    /\ main' = "idle"
    /\ UNCHANGED <<db, disk, flagged, pending, queue, item, given, shared>>

Down ==
    /\ main' = "down"
    /\ active' = Nobody /\ notified' = {} /\ squawked' = {}
    /\ pending' = <<>> /\ queue' = <<>> /\ dispatcher' = FALSE /\ item' = None

Crash ==
    /\ MayCrash
    /\ main \in Running
    /\ db' = disk
    /\ Down
    /\ UNCHANGED <<disk, flagged, history>>

\* Shutdown: every open flight is finalised in one transaction, those not worth
\* keeping are deleted; when the transaction fails it is only logged.
Stop ==
    /\ main = "idle"
    /\ active' = Nobody
    /\ squawked' = {}
    /\ \/ \E dropped \in SUBSET {active[a] : a \in {b \in Aircraft \ flagged : active[b] # None}} :
            LET open == [a \in Aircraft |-> IF active[a] = None THEN db.open[a] ELSE None]
            IN  /\ \A a \in Aircraft : open[a] \notin dropped
                /\ db' = [db EXCEPT !.open = open,
                             !.owner = [f \in FlightIds |-> IF f \in dropped THEN None ELSE @[f]]]
       \/ MayFail /\ db' = db
    /\ disk' = db'
    /\ main' = "drain"
    /\ UNCHANGED <<flagged, notified, pending, queue, consumer, history>>

\* stop_notification_consumer drains, posts the sentinel and joins.  The draining
\* and the join have a time limit; the put has none.
Drain ==
    /\ main = "drain"
    /\ main' = "post"
    /\ UNCHANGED <<db, disk, flagged, memory, pending, queue, consumer, history>>

\* Mutant: the sentinel overtakes the alerts.
PostFirst ==
    /\ main = "post"
    /\ Len(queue) < QueueSize
    /\ queue' = <<Sentinel>> \o queue
    /\ main' = "join"
    /\ UNCHANGED <<db, disk, flagged, memory, pending, consumer, history>>

Post ==
    /\ main = "post"
    /\ Len(queue) < QueueSize
    /\ queue' = Append(queue, Sentinel)
    /\ main' = "join"
    /\ UNCHANGED <<db, disk, flagged, memory, pending, consumer, history>>

Exit ==
    /\ main = "join"
    /\ Down
    /\ UNCHANGED <<db, disk, flagged, history>>

\* The enrichers learn that an aircraft is military or interesting.
Flag(a) ==
    /\ a \notin flagged
    /\ flagged' = flagged \cup {a}
    /\ UNCHANGED <<db, disk, memory, pending, queue, consumer, main, history>>

AlertsNext ==
    \/ BeginPoll
    \/ \E a \in Aircraft, e \in BOOLEAN : NewFlightFix(a, e) \/ SameFlightFix(a, e)
    \/ \E a \in Aircraft : Close(a) \/ Flag(a)
    \/ Commit \/ PollFails \/ Enqueue \/ EndPoll
    \/ Get \/ Dispatch
    \/ Start \/ Crash \/ Stop \/ Drain \/ Post \/ Exit

AlertsSpec == AlertsInit /\ [][AlertsNext]_alertsVars

\* The dispatch thread runs and every HTTP call it makes has a timeout; the main
\* thread goes on inside a poll and inside the shutdown.
AlertsFairSpec ==
    /\ AlertsSpec
    /\ WF_alertsVars(Get) /\ WF_alertsVars(Dispatch)
    /\ WF_alertsVars(Commit) /\ WF_alertsVars(Enqueue) /\ WF_alertsVars(EndPoll)
    /\ WF_alertsVars(Drain) /\ WF_alertsVars(Post) /\ WF_alertsVars(Exit)

-----------------------------------------------------------------------------
(* Properties *)

\* An aircraft's first-sighting alert goes to the notifier at most once, whenever
\* the process dies and whichever polls fail: _notified_icao, and what
\* _load_notified rebuilds of it, never forget an alert that was given.  The
\* exception is an alert on a shared flight: closing the entry that a failed poll
\* left behind may delete the flight, with it the trace of the aircraft.
FirstSightingOnce == \A x, y \in Alert :
    /\ x.kind = "first" => given[x] <= 1
    /\ x.kind = "first" /\ y.kind = "first" /\ x.icao = y.icao /\ given[x] > 0 /\ given[y] > 0
         => x = y \/ {x.flight, y.flight} \cap shared # {}

\* While one process lives, a flight's emergency squawk goes to the notifier at most
\* once, whichever polls fail and whatever they roll back, unless the flight is
\* shared: closing the other entry makes _squawk_notified forget the flight.
SquawkOncePerLife == \A x \in Alert :
    x.kind = "sqk" /\ x.flight \notin shared => given[x] <= starts

\* docs/integrations.md:37: an emergency squawk is alerted once per flight.
SquawkOncePerFlight == \A x \in Alert : x.kind = "sqk" => given[x] <= 1

\* When the dispatch thread has ended on the sentinel, nothing that was queued
\* before the shutdown is left behind.
StoppedEmpty == main = "join" /\ ~dispatcher => queue = <<>> /\ pending = <<>>

\* The three together: no alert is given twice to the notifier or lost by a
\* graceful stop.
AlertedOnce == AlertsTypeOK /\ FirstSightingOnce /\ SquawkOncePerLife /\ StoppedEmpty

\* An alert in the queue is handed to the notifier unless the process ends first,
\* and a graceful stop ends, also when it finds the queue full.
Queued(x) == \E i \in 1..Len(queue) : queue[i] = x
QueuedIsGiven ==
    /\ \A x \in Alert : Queued(x) ~> (given[x] > 0 \/ main = "down")
    /\ main = "drain" ~> main = "down"

=============================================================================
