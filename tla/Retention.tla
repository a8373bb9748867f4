----------------------------- MODULE Retention -----------------------------
(***************************************************************************)
(* The retention purge (_purge, hourly, in the poll thread) beside the      *)
(* three cleaning scripts, which the operator may run while the collector   *)
(* works: purge_ghosts deletes fixes, purge_bad_gs and purge_mlat_gs_spikes *)
(* blank ground speeds, and all repair the maxima of the flights they touch.*)
(*                                                                          *)
(* A state is the committed database: one step of a process is one          *)
(* transaction or one read outside of a transaction. The purge reads the    *)
(* rows of a crossing flight and writes its aggregates in two steps, so a   *)
(* script may write in between. Polls are whole steps (Collector has them   *)
(* in detail) and happen only while the thread does not purge.              *)
(*                                                                          *)
(* Abstracted: one number per fix stands for its distance and its ground    *)
(* speed; total stands for the three counts. What a scan flags is any set   *)
(* of fixes (Tracks has the filters); purge_bad_gs is the case of           *)
(* "spikes" without orphans. The gate rollups.ready is in Rollups.           *)
(***************************************************************************)
EXTENDS Integers, FiniteSets, FiniteSetsExt

CONSTANTS
    MaxFlights,   \* bound: flight ids handed out
    Values,       \* distances and ground speeds
    None,
    Keep,         \* RETENTION_DAYS, in units of the clock
    Batch,        \* _PURGE_BATCH
    IdBatch,      \* batch_size of the recount
    MinKeep,      \* MIN_POSITIONS_KEEP
    MaxClock, MaxFaults, MaxScripts   \* bounds

ASSUME RetentionAssumption ==
    /\ Values \subseteq Nat /\ None \notin Nat
    /\ Keep \in Nat \ {0} /\ Batch \in Nat \ {0} /\ IdBatch \in Nat \ {0} /\ MinKeep \in Nat
    /\ MaxFlights \in Nat /\ MaxClock \in Nat /\ MaxFaults \in Nat /\ MaxScripts \in Nat

VARIABLES
    clock,
    flights,     \* the flights rows
    pos,         \* pos[f][t]: the fix of flight f at t
    open,        \* active_flights
    opened,      \* the last id handed out
    pc,          \* "poll", or the step of _purge the thread is at
    cutoff,
    todo,        \* crossing_ids not yet repaired
    rows,        \* prows: the flight being repaired and the fixes read
    lastId,      \* last_id of the recount
    script,      \* the running script: kind, fixes flagged, orphan maxima found
    wrote,       \* history: flights a script wrote since the purge began
    faults, scripts

vars == <<clock, flights, pos, open, opened, pc, cutoff, todo, rows, lastId, script, wrote,
          faults, scripts>>
database == <<flights, pos, open, opened>>
purge == <<pc, cutoff, todo, rows, lastId>>
bounds == <<faults, scripts>>

Ids == 1..MaxFlights
Times == 0..MaxClock
Fix == [dist: Values, gs: Values \cup {None}]
Flight == [first: Times, last: Times, total: Nat, far: Values \cup {None}, gs: Values \cup {None}]
Kinds == {"ghosts", "spikes"}
ASSUME RowAssumption == None \notin Fix \cup Flight

TypeOK ==
    /\ flights \in [Ids -> Flight \cup {None}] /\ pos \in [Ids -> [Times -> Fix \cup {None}]]
    /\ open \subseteq Ids /\ clock \in Times
    /\ pc \in {"poll", "delete", "cross", "repair", "recount", "drop"}
    /\ todo \subseteq Ids /\ (rows # None => rows.flight \in todo)
    /\ \A f \in Ids : flights[f] = None => f \notin open /\ \A t \in Times : pos[f][t] = None

FixTimes(track) == {t \in Times : track[t] # None}
Count(track) == Cardinality(FixTimes(track))
Largest(S) == IF S \subseteq {None} THEN None ELSE Max(S \ {None})
Far(track) == Largest({track[t].dist : t \in FixTimes(track)})
MaxGs(track) == Largest({track[t].gs : t \in FixTimes(track)})
Raised(old, new) == IF old = None \/ new > old THEN new ELSE old

Init ==
    /\ clock = 0 /\ flights = [f \in Ids |-> None] /\ pos = [f \in Ids |-> [t \in Times |-> None]]
    /\ open = {} /\ opened = 0
    /\ pc = "poll" /\ cutoff = 0 /\ todo = {} /\ rows = None /\ lastId = 0
    /\ script = None /\ wrote = {} /\ faults = 0 /\ scripts = 0

\* Only the first step of a purge reads the clock.
Tick ==
    /\ pc = "poll" /\ clock < MaxClock /\ clock' = clock + 1
    /\ UNCHANGED <<database, purge, script, wrote, bounds>>

-----------------------------------------------------------------------------
(* What the polls do to the tables *)

OpenFlight ==
    /\ pc = "poll" /\ opened < MaxFlights /\ opened' = opened + 1
    /\ \E v \in Values :
         /\ flights' = [flights EXCEPT ![opened'] =
                          [first |-> clock, last |-> clock, total |-> 1, far |-> v, gs |-> v]]
         /\ pos' = [pos EXCEPT ![opened'][clock] = [dist |-> v, gs |-> v]]
    /\ open' = open \cup {opened'}
    /\ UNCHANGED <<clock, purge, script, wrote, bounds>>

InsertFix ==
    /\ pc = "poll"
    /\ \E f \in open, v \in Values :
         /\ pos[f][clock] = None /\ flights[f].last < clock
         /\ pos' = [pos EXCEPT ![f][clock] = [dist |-> v, gs |-> v]]
         /\ flights' = [flights EXCEPT ![f].last = clock, ![f].total = @ + 1,
                                       ![f].far = Raised(@, v), ![f].gs = Raised(@, v)]
    /\ UNCHANGED <<clock, open, opened, purge, script, wrote, bounds>>

\* _close_flight: a flight with few fixes is dropped (ON DELETE CASCADE) unless
\* its aircraft is flagged.
CloseFlight ==
    /\ pc = "poll"
    /\ \E f \in open :
         /\ open' = open \ {f}
         /\ \/ UNCHANGED <<flights, pos>>
            \/ /\ flights[f].total < MinKeep
               /\ flights' = [flights EXCEPT ![f] = None]
               /\ pos' = [pos EXCEPT ![f] = [t \in Times |-> None]]
    /\ UNCHANGED <<clock, opened, purge, script, wrote, bounds>>

-----------------------------------------------------------------------------
(* _purge *)

Closed(f) == flights[f] # None /\ f \notin open
Expired == {ft \in Ids \X Times : pos[ft[1]][ft[2]] # None /\ ft[2] < cutoff}

BeginPurge ==
    /\ pc = "poll"
    /\ cutoff' = clock - Keep /\ pc' = "delete"
    /\ UNCHANGED <<clock, database, todo, rows, lastId, script, wrote, bounds>>

\* DELETE .. LIMIT without an order: any Batch of the expired fixes.
DeleteBatch ==
    /\ pc = "delete"
    /\ \E S \in SUBSET Expired :
         /\ Cardinality(S) = Min({Batch, Cardinality(Expired)})
         /\ pos' = [f \in Ids |-> [t \in Times |-> IF <<f, t>> \in S THEN None ELSE pos[f][t]]]
         /\ pc' = IF Cardinality(S) < Batch THEN "cross" ELSE "delete"
    /\ UNCHANGED <<clock, flights, open, opened, cutoff, todo, rows, lastId, script, wrote, bounds>>

\* Mutant: a flight that ends on the cutoff is taken for an old one.
CrossingIdsAfter == {f \in Ids : Closed(f) /\ flights[f].first < cutoff /\ flights[f].last > cutoff}

CrossingIds == {f \in Ids : Closed(f) /\ flights[f].first < cutoff /\ flights[f].last >= cutoff}

SelectCrossing ==
    /\ pc = "cross" /\ todo' = CrossingIds /\ lastId' = 0 /\ pc' = "repair"
    /\ UNCHANGED <<clock, database, cutoff, rows, script, wrote, bounds>>

ReadCrossing ==
    /\ pc = "repair" /\ rows = None
    /\ \E f \in todo : rows' = [flight |-> f, track |-> pos[f]]
    /\ UNCHANGED <<clock, database, pc, cutoff, todo, lastId, script, wrote, bounds>>

\* Mutant: the comparison of the distances the wrong way round.
RepairedNearest(row, track) ==
    IF Count(track) = 0 THEN [row EXCEPT !.total = 0]
    ELSE [row EXCEPT !.total = Count(track), !.gs = MaxGs(track),
                     !.far = Min({track[t].dist : t \in FixTimes(track)})]

\* total == 0 writes the count only.
Repaired(row, track) ==
    IF Count(track) = 0 THEN [row EXCEPT !.total = 0]
    ELSE [row EXCEPT !.total = Count(track), !.far = Far(track), !.gs = MaxGs(track)]

UpdateCrossing ==
    /\ pc = "repair" /\ rows # None
    /\ flights' = [flights EXCEPT ![rows.flight] = IF @ = None THEN None ELSE Repaired(@, rows.track)]
    /\ todo' = todo \ {rows.flight} /\ rows' = None
    /\ UNCHANGED <<clock, pos, open, opened, pc, cutoff, lastId, script, wrote, bounds>>

EndRepair ==
    /\ pc = "repair" /\ todo = {} /\ pc' = "recount"
    /\ UNCHANGED <<clock, database, cutoff, todo, rows, lastId, script, wrote, bounds>>

OldIds == {f \in Ids : f > lastId /\ Closed(f) /\ flights[f].last < cutoff}

RecountBatch ==
    /\ pc = "recount"
    /\ LET batch == {f \in OldIds : Cardinality({g \in OldIds : g < f}) < IdBatch}
       IN  /\ flights' = [f \in Ids |-> IF f \in batch THEN [flights[f] EXCEPT !.total = Count(pos[f])]
                                        ELSE flights[f]]
           /\ lastId' = IF batch = {} THEN lastId ELSE Max(batch)
           /\ pc' = IF batch = {} THEN "drop" ELSE "recount"
    /\ UNCHANGED <<clock, pos, open, opened, cutoff, todo, rows, script, wrote, bounds>>

\* Mutant: off by one at the cutoff.
TooSmallOnCutoff(f) == Closed(f) /\ flights[f].total < MinKeep /\ flights[f].last <= cutoff

TooSmall(f) == Closed(f) /\ flights[f].total < MinKeep /\ flights[f].last < cutoff

DropFlights ==
    /\ pc = "drop" /\ pc' = "poll" /\ cutoff' = 0 /\ lastId' = 0 /\ wrote' = {}
    /\ flights' = [f \in Ids |-> IF TooSmall(f) THEN None ELSE flights[f]]
    /\ pos' = [f \in Ids |-> IF TooSmall(f) THEN [t \in Times |-> None] ELSE pos[f]]
    /\ UNCHANGED <<clock, open, opened, todo, rows, script, bounds>>

\* A crash and restart, or a locked database: the next hour begins again.
PurgeAborted ==
    /\ pc # "poll" /\ faults < MaxFaults /\ faults' = faults + 1
    /\ pc' = "poll" /\ cutoff' = 0 /\ todo' = {} /\ rows' = None /\ lastId' = 0 /\ wrote' = {}
    /\ UNCHANGED <<clock, database, script, scripts>>

-----------------------------------------------------------------------------
(* The scripts *)

\* scan_orphan_max_gs, for every flight with a maximum above its stored fixes.
OrphanMaxima == {f \in Ids : flights[f] # None /\ flights[f].gs # None /\ flights[f].gs # MaxGs(pos[f])}

\* Fixes of one flight are flagged; the scan of the ghosts leaves at least half
\* of them, that of the speeds sees only fixes that have one.
MayFlag(kind, f, S) ==
    /\ S \subseteq FixTimes(pos[f]) /\ S # {}
    /\ IF kind = "ghosts" THEN 2 * Cardinality(S) <= Count(pos[f])
                          ELSE \A t \in S : pos[f][t].gs # None

Scan(kind) ==
    /\ script = None /\ scripts < MaxScripts /\ scripts' = scripts + 1
    /\ \E f \in Ids, S \in SUBSET Times :
         /\ S = {} \/ MayFlag(kind, f, S)
         /\ script' = [kind |-> kind, flight |-> f, ids |-> S,
              orphans |-> IF kind = "spikes"
                          THEN [g \in OrphanMaxima \ (IF S = {} THEN {} ELSE {f}) |-> MaxGs(pos[g])]
                          ELSE <<>>]
    /\ UNCHANGED <<clock, database, purge, wrote, faults>>

Blanked(fix) == IF fix = None THEN None ELSE [fix EXCEPT !.gs = None]

ApplyGhosts ==
    /\ script # None /\ script.kind = "ghosts" /\ script.ids # {}
    /\ LET f == script.flight
           track == [t \in Times |-> IF t \in script.ids THEN None ELSE pos[f][t]]
       IN  /\ pos' = [pos EXCEPT ![f] = track]
           /\ flights' = [flights EXCEPT ![f] = IF @ = None THEN None ELSE [@ EXCEPT !.far = Far(track)]]
           /\ wrote' = IF pc = "poll" THEN {} ELSE wrote \cup {f}
    /\ script' = [script EXCEPT !.ids = {}]
    /\ UNCHANGED <<clock, open, opened, purge, bounds>>

ApplySpeeds ==
    /\ script # None /\ script.kind # "ghosts" /\ script.ids # {}
    /\ LET f == script.flight
           track == [t \in Times |-> IF t \in script.ids THEN Blanked(pos[f][t]) ELSE pos[f][t]]
       IN  /\ pos' = [pos EXCEPT ![f] = track]
           /\ flights' = [flights EXCEPT ![f] = IF @ = None THEN None ELSE [@ EXCEPT !.gs = MaxGs(track)]]
           /\ wrote' = IF pc = "poll" THEN {} ELSE wrote \cup {f}
    /\ script' = [script EXCEPT !.ids = {}]
    /\ UNCHANGED <<clock, open, opened, purge, bounds>>

\* The maxima found by the scan are written as they were then.
ApplyOrphans ==
    /\ script # None /\ script.ids = {} /\ DOMAIN script.orphans # {}
    /\ flights' = [f \in Ids |-> IF f \in DOMAIN script.orphans /\ flights[f] # None
                                 THEN [flights[f] EXCEPT !.gs = script.orphans[f]] ELSE flights[f]]
    /\ wrote' = IF pc = "poll" THEN {} ELSE wrote \cup DOMAIN script.orphans
    /\ script' = None
    /\ UNCHANGED <<clock, pos, open, opened, purge, bounds>>

\* The script is done, or killed between two commits.
EndScript ==
    /\ script # None /\ script' = None
    /\ UNCHANGED <<clock, database, purge, wrote, bounds>>

PurgeStep ==
    \/ DeleteBatch \/ SelectCrossing \/ ReadCrossing \/ UpdateCrossing \/ EndRepair
    \/ RecountBatch \/ DropFlights

Next ==
    \/ Tick \/ OpenFlight \/ InsertFix \/ CloseFlight
    \/ BeginPurge \/ PurgeStep \/ PurgeAborted
    \/ \E k \in Kinds : Scan(k)
    \/ ApplyGhosts \/ ApplySpeeds \/ ApplyOrphans \/ EndScript

Spec == Init /\ [][Next]_vars

-----------------------------------------------------------------------------
(* Properties *)

\* Aggregates never fall behind the data: the farthest distance of a flight is
\* at least that of each of its fixes, between any two commits of the purge,
\* a script and the polls.
FarCoversFixes == TypeOK /\
    \A f \in Ids : flights[f] # None => \A t \in FixTimes(pos[f]) :
        flights[f].far # None /\ flights[f].far >= pos[f][t].dist

\* The same for max_gs, which purge_mlat_gs_spikes promises to recompute "from
\* surviving gs values".
GsCoversFixes ==
    \A f \in Ids : flights[f] # None => \A t \in FixTimes(pos[f]) :
        pos[f][t].gs # None => flights[f].gs # None /\ flights[f].gs >= pos[f][t].gs

\* A purge that gets to its end has deleted what expired and repaired every flight that crosses the
\* cutoff, whatever earlier purges left half done: the count and the maxima are
\* those of the stored fixes (of flights no script wrote meanwhile).
RepairedByPurge ==
    pc = "drop" => Expired = {} /\ \A f \in Ids \ (open \cup wrote) :
        flights[f] # None /\ flights[f].first < cutoff /\ flights[f].last >= cutoff =>
        /\ flights[f].total = Count(pos[f])
        /\ Count(pos[f]) > 0 => flights[f].far = Far(pos[f]) /\ flights[f].gs = MaxGs(pos[f])

\* No fix within the retention is lost to the purge, neither by the deletion of
\* fixes nor by the cascade from a dropped flight.
FreshFixesKept ==
    [][pc # "poll" => \A f \in Ids : \A t \in FixTimes(pos[f]) :
         pos'[f][t] = None => t < cutoff \/ (script # None /\ f = script.flight /\ t \in script.ids)]_vars
=============================================================================
