------------------------------ MODULE RefData ------------------------------
(***************************************************************************)
(* Reference data: the aircraft and airline tables that db_updater replaces *)
(* once a week, the recovery of a staging swap that an older version left   *)
(* half done, the airframe overrides polled by adsbx_enricher, and the      *)
(* in-process caches of enrichment through which collector and web read.    *)
(*                                                                          *)
(* Every process starts with the recovery, statement by statement (DDL is   *)
(* committed one by one), so two processes may recover at the same time.    *)
(* The updater's unit stops the collector before it runs and starts it      *)
(* after, whatever happened.                                                *)
(*                                                                          *)
(* Abstracted: a row holds its registration (an airline's its name); type   *)
(* and description take the same path. The builds of the staging tables are *)
(* inside one transaction, so only their commit shows.                      *)
(***************************************************************************)
EXTENDS Integers, Sequences, FiniteSets

CONSTANTS
    Airframes, Regs, None,
    Tables,      \* aircraft_db and airlines
    Upstream,    \* Upstream[t]: contents a download may parse to, truncated ones too
    Codes,       \* airline codes of the callsigns that are asked for
    CacheSize,   \* _MAX_AIRCRAFT, _MAX_ADSBX, _MAX_AIRLINE
    TTL,         \* ADSBX_OVERRIDES_TTL_DAYS, in updater runs
    MaxFlights, MaxPolls, MaxUpdates, MaxCrashes   \* bounds

ASSUME RefDataAssumption ==
    /\ None \notin Regs /\ CacheSize \in Nat \ {0} /\ TTL \in Nat \ {0}
    /\ MaxFlights \in Nat /\ MaxPolls \in Nat /\ MaxUpdates \in Nat /\ MaxCrashes \in Nat

\* A download parses to nothing or to two rows and more: of a table with a single row
\* int(prev * 0.8) is zero, and the min-ratio guard lets an empty one replace it.
ASSUME UpstreamAssumption ==
    /\ Tables = {"aircraft_db", "airlines"}
    /\ None \notin UNION {Upstream[t] : t \in Tables} /\ None # <<>> /\ None \notin {"base", "old"}
    /\ \A t \in Tables : \A c \in Upstream[t] : c = <<>> \/ Cardinality(DOMAIN c) \in Nat \ {0, 1}

VARIABLES
    store,      \* store[t].base, .new, .old: contents of the table and its staging copies
    index,      \* which copy of aircraft_db idx_aircraft_db_type_code belongs to
    overrides,  \* adsbx_overrides: a row per airframe or None
    flights,    \* the flights opened
    pc, plan,   \* where each process is, and the recovery statements it has yet to run
    aircraft, adsbx, airline,   \* the caches: collector, collector, web
    look,       \* the look-up of _open_flight between its read and its put
    bust,       \* airframes committed by _upsert_overrides and not yet invalidated
    before,     \* history: the override before the last poll that wrote it
    filled,     \* history: no change of aircraft_db since flights were backfilled
    polls, updates, crashes

vars == <<store, index, overrides, flights, pc, plan, aircraft, adsbx, airline, look, bust,
          before, filled, polls, updates, crashes>>
tables == <<store, index>>
caches == <<aircraft, adsbx, airline>>
threads == <<look, bust>>
history == <<before, filled>>
bounds == <<polls, updates, crashes>>

Procs == {"collector", "web", "updater"}
Flags == {None, 1}
Row == [flags: Flags, reg: Regs \cup {None}, age: 0..TTL]
Contents == UNION {Upstream[t] : t \in Tables}
Copies == [base: Contents \cup {None}, new: Contents \cup {None, <<>>}, old: Contents \cup {None}]

TypeOK ==
    /\ store \in [Tables -> Copies] /\ index \in {"base", "old", None}
    /\ overrides \in [Airframes -> Row \cup {None}] /\ before \in [Airframes -> Row \cup {None}]
    /\ pc \in [Procs -> {"down", "recover", "up", "aircraft_db", "airlines", "backfill", "purge"}]
    /\ \A p \in Procs : pc[p] # "recover" => plan[p] = <<>>
    /\ \A c \in {aircraft, adsbx, airline} :
           Len(c) <= CacheSize /\ \A i, j \in DOMAIN c : c[i].key = c[j].key => i = j
    /\ bust \subseteq Airframes /\ filled \in BOOLEAN

-----------------------------------------------------------------------------
(* _LRUDict: the entries, oldest first *)

Hit(c, k) == \E i \in DOMAIN c : c[i].key = k
Place(c, k) == CHOOSE i \in DOMAIN c : c[i].key = k
Cached(c, k) == c[Place(c, k)].val
Drop(c, k) ==
    IF Hit(c, k) THEN SubSeq(c, 1, Place(c, k) - 1) \o SubSeq(c, Place(c, k) + 1, Len(c)) ELSE c
Put(c, k, v) ==
    LET d == Append(Drop(c, k), [key |-> k, val |-> v])
    IN  IF Len(d) > CacheSize THEN Tail(d) ELSE d

Value(t, k) == IF k \in DOMAIN store[t].base THEN store[t].base[k] ELSE None
Or(a, b) == IF a # None THEN a ELSE b
Shown(row) == IF row = None THEN None ELSE [flags |-> row.flags, reg |-> row.reg]

Whole(t) == {c \in Upstream[t] : c # <<>>}
\* What an interrupted swap leaves: nothing or an empty staging copy, the table
\* only under its old name, or the new table beside the old one.
Leftover(t) ==
    {[base |-> b, new |-> n, old |-> None] : b \in Whole(t), n \in {None, <<>>}}
    \cup {[base |-> None, new |-> n, old |-> o] : n \in Whole(t), o \in Whole(t)}
    \cup {[base |-> b, new |-> None, old |-> o] : b \in Whole(t), o \in Whole(t)}

Plain(t) == {[base |-> b, new |-> None, old |-> None] : b \in Whole(t)}

\* At most one swap was interrupted.
Init ==
    /\ \E t \in Tables : store \in {s \in [Tables -> UNION {Leftover(u) : u \in Tables}] :
                    \A u \in Tables : s[u] \in IF u = t THEN Leftover(u) ELSE Plain(u)}
    /\ index = IF store["aircraft_db"].old # None THEN "old" ELSE "base"
    /\ overrides = [x \in Airframes |-> None] /\ before = overrides
    /\ flights = <<>> /\ filled = FALSE
    /\ pc = [p \in Procs |-> "down"] /\ plan = [p \in Procs |-> <<>>]
    /\ aircraft = <<>> /\ adsbx = <<>> /\ airline = <<>> /\ look = None /\ bust = {}
    /\ polls = 0 /\ updates = 0 /\ crashes = 0

-----------------------------------------------------------------------------
(* Recovery of an interrupted swap, at the start of every process *)

Begin == << <<"read", "aircraft_db">>, <<"read", "airlines">> >>

\* Mutant: whether the table itself is there is not asked.
StatementsDropOld(t) ==
    (IF store[t].old = None THEN <<>> ELSE << <<"drop_old", t>> >>)
    \o (IF store[t].new = None THEN <<>> ELSE << <<"drop_new", t>> >>)
    \o (IF t = "aircraft_db" THEN << <<"index", t>> >> ELSE <<>>)

Statements(t) ==
    (IF store[t].old = None THEN <<>>
     ELSE IF store[t].base = None THEN << <<"restore", t>> >> ELSE << <<"drop_old", t>> >>)
    \o (IF store[t].new = None THEN <<>> ELSE << <<"drop_new", t>> >>)
    \o (IF t = "aircraft_db" THEN << <<"index", t>> >> ELSE <<>>)

\* What the process loses when it ends.
Forget(p) ==
    /\ IF p = "collector" THEN aircraft' = <<>> /\ adsbx' = <<>> /\ look' = None /\ bust' = {}
                          ELSE UNCHANGED <<aircraft, adsbx, look, bust>>
    /\ airline' = IF p = "web" THEN <<>> ELSE airline

Start(p) ==
    /\ p # "updater" /\ pc[p] = "down" /\ pc["updater"] \in {"down"} \cup
           (IF p = "web" THEN {"recover", "aircraft_db", "airlines", "backfill", "purge"} ELSE {})
    /\ pc' = [pc EXCEPT ![p] = "recover"] /\ plan' = [plan EXCEPT ![p] = Begin]
    /\ UNCHANGED <<tables, overrides, flights, caches, threads, history, bounds>>

\* A statement whose table is gone (another process was faster) raises, and
\* the process ends; systemd starts it again.
Exec(stmt, t) ==
    CASE stmt = "restore" ->
           /\ store[t].old # None /\ store[t].base = None
           /\ store' = [store EXCEPT ![t].base = store[t].old, ![t].old = None]
           /\ index' = IF t = "aircraft_db" /\ index = "old" THEN "base" ELSE index
      [] stmt = "drop_old" ->
           /\ store[t].old # None
           /\ store' = [store EXCEPT ![t].old = None]
           /\ index' = IF t = "aircraft_db" /\ index = "old" THEN None ELSE index
      [] stmt = "drop_new" ->
           store[t].new # None /\ store' = [store EXCEPT ![t].new = None] /\ UNCHANGED index
      [] stmt = "index" ->
           index' = Or(index, "base") /\ UNCHANGED store

RecoverStep(p) ==
    /\ pc[p] = "recover" /\ plan[p] # <<>>
    /\ LET stmt == Head(plan[p])[1]  t == Head(plan[p])[2]  rest == Tail(plan[p])
       IN  IF stmt = "read"
           THEN plan' = [plan EXCEPT ![p] = Statements(t) \o rest] /\ UNCHANGED tables
           ELSE Exec(stmt, t) /\ plan' = [plan EXCEPT ![p] = rest]
    /\ UNCHANGED <<overrides, flights, pc, caches, threads, history, bounds>>

RecoverFails(p) ==
    /\ pc[p] = "recover" /\ plan[p] # <<>>
    /\ LET stmt == Head(plan[p])[1]  t == Head(plan[p])[2]
       IN  \/ stmt = "restore" /\ (store[t].old = None \/ store[t].base # None)
           \/ stmt = "drop_old" /\ store[t].old = None
           \/ stmt = "drop_new" /\ store[t].new = None
    /\ pc' = [pc EXCEPT ![p] = "down"] /\ plan' = [plan EXCEPT ![p] = <<>>]
    /\ UNCHANGED <<tables, overrides, flights, caches, threads, history, bounds>>

\* Mutant: the recovery is left to the updater.
ReadyUnrecovered(p) ==
    /\ pc[p] = "recover" /\ (p = "updater" => plan[p] = <<>>)
    /\ store' = IF p = "web" THEN store
                ELSE [t \in Tables |-> [store[t] EXCEPT !.base = Or(store[t].base, <<>>)]]
    /\ index' = Or(index, "base")
    /\ pc' = [pc EXCEPT ![p] = IF p = "updater" THEN "aircraft_db" ELSE "up"]
    /\ plan' = [plan EXCEPT ![p] = <<>>]
    /\ UNCHANGED <<overrides, flights, caches, threads, history, bounds>>

\* init_db and ensure_base_schema, after the recovery: the DDL creates what is
\* missing (not in the web process), _migrate creates the index.
Ready(p) ==
    /\ pc[p] = "recover" /\ plan[p] = <<>>
    /\ store' = IF p = "web" THEN store
                ELSE [t \in Tables |-> [store[t] EXCEPT !.base = Or(store[t].base, <<>>)]]
    /\ index' = Or(index, "base")
    /\ pc' = [pc EXCEPT ![p] = IF p = "updater" THEN "aircraft_db" ELSE "up"]
    /\ UNCHANGED <<plan, overrides, flights, caches, threads, history, bounds>>

Crash(p) ==
    /\ crashes < MaxCrashes /\ pc[p] # "down" /\ crashes' = crashes + 1
    /\ pc' = [pc EXCEPT ![p] = "down"] /\ plan' = [plan EXCEPT ![p] = <<>>] /\ Forget(p)
    /\ UNCHANGED <<tables, overrides, flights, history, polls, updates>>

-----------------------------------------------------------------------------
(* db_updater.main, run by its unit *)

\* Mutant: the collector runs on, with the aircraft it has cached.
UpdaterStartBeside ==
    /\ updates < MaxUpdates /\ updates' = updates + 1
    /\ pc["updater"] = "down" /\ pc["collector"] # "recover"
    /\ pc' = [pc EXCEPT !["updater"] = "recover"]
    /\ plan' = [plan EXCEPT !["updater"] = Begin]
    /\ UNCHANGED <<tables, overrides, flights, caches, threads, history, polls, crashes>>

\* ExecCondition, ExecStartPre: skipped while the collector is starting, and
\* the collector is stopped first.
UpdaterStart ==
    /\ updates < MaxUpdates /\ updates' = updates + 1
    /\ pc["updater"] = "down" /\ pc["collector"] # "recover"
    /\ pc' = [pc EXCEPT !["updater"] = "recover", !["collector"] = "down"]
    /\ plan' = [plan EXCEPT !["updater"] = Begin] /\ Forget("collector")
    /\ UNCHANGED <<tables, overrides, flights, history, polls, crashes>>

\* The min-ratio guard, int(prev * 0.8).
Refused(t, c) ==
    LET prev == Cardinality(DOMAIN store[t].base) IN prev > 0 /\ Cardinality(DOMAIN c) < (prev * 4) \div 5

Swap(t, next) ==
    /\ pc["updater"] = t
    /\ \E c \in Upstream[t] :
         /\ ~Refused(t, c)
         /\ store' = [store EXCEPT ![t] = [base |-> c, new |-> None, old |-> None]]
    /\ index' = IF t = "aircraft_db" THEN "base" ELSE index
    /\ filled' = (filled /\ t # "aircraft_db")
    /\ pc' = [pc EXCEPT !["updater"] = next]
    /\ UNCHANGED <<plan, overrides, flights, caches, threads, before, bounds>>

update_aircraft_db == Swap("aircraft_db", "airlines")
update_airlines_db == Swap("airlines", "backfill")

\* A download that fails or is refused, a locked database: main logs and exits.
UpdateFails ==
    /\ pc["updater"] \in {"aircraft_db", "airlines", "backfill", "purge"}
    /\ pc' = [pc EXCEPT !["updater"] = "down"]
    /\ UNCHANGED <<tables, overrides, flights, plan, caches, threads, history, bounds>>

Filled == [i \in DOMAIN flights |->
             [flights[i] EXCEPT !.reg = Or(flights[i].reg, Value("aircraft_db", flights[i].air))]]

backfill_flights ==
    /\ pc["updater"] = "backfill" /\ flights' = Filled /\ filled' = TRUE
    /\ pc' = [pc EXCEPT !["updater"] = "purge"]
    /\ UNCHANGED <<tables, overrides, plan, caches, threads, before, bounds>>

\* purge_stale_overrides; a run is a week, and the rows grow older with it.
PurgeOverrides ==
    /\ pc["updater"] = "purge"
    /\ overrides' = [x \in Airframes |->
           IF overrides[x] = None \/ overrides[x].age = TTL THEN None
           ELSE [overrides[x] EXCEPT !.age = @ + 1]]
    /\ before' = overrides'
    /\ pc' = [pc EXCEPT !["updater"] = "down"]
    /\ UNCHANGED <<tables, flights, plan, caches, threads, filled, bounds>>

-----------------------------------------------------------------------------
(* The collector: _poll_area in a thread of its own, _enrich in the poll *)

Entries == [flags: Flags, reg: Regs \cup {None}] \ {[flags |-> None, reg |-> None]}

\* Mutant: excluded.flags and excluded.registration without COALESCE.
UpsertPlain ==
    /\ pc["collector"] = "up" /\ bust = {} /\ polls < MaxPolls /\ polls' = polls + 1
    /\ look # None => look.polls = polls
    /\ \E xs \in SUBSET Airframes \ {{}} : \E e \in [xs -> Entries] :
         /\ overrides' = [x \in Airframes |->
              IF x \in xs THEN [flags |-> e[x].flags, reg |-> e[x].reg, age |-> 0] ELSE overrides[x]]
         /\ before' = [x \in Airframes |-> IF x \in xs THEN overrides[x] ELSE before[x]]
         /\ bust' = xs
    /\ UNCHANGED <<tables, flights, pc, plan, caches, look, filled, updates, crashes>>

\* _upsert_overrides commits a poll's entries: absent values keep the stored ones.
Upsert ==
    /\ pc["collector"] = "up" /\ bust = {} /\ polls < MaxPolls /\ polls' = polls + 1
    /\ look # None => look.polls = polls   \* ADSBX_POLL_INTERVAL is longer than a look-up
    /\ \E xs \in SUBSET Airframes \ {{}} : \E e \in [xs -> Entries] :
         /\ overrides' = [x \in Airframes |->
              IF x \notin xs THEN overrides[x]
              ELSE [flags |-> Or(e[x].flags, IF overrides[x] = None THEN None ELSE overrides[x].flags),
                    reg |-> Or(e[x].reg, IF overrides[x] = None THEN None ELSE overrides[x].reg),
                    age |-> 0]]
         /\ before' = [x \in Airframes |-> IF x \in xs THEN overrides[x] ELSE before[x]]
         /\ bust' = xs
    /\ UNCHANGED <<tables, flights, pc, plan, caches, look, filled, updates, crashes>>

\* Mutant: the caches are left to expire.
invalidate_nothing ==
    /\ \E x \in bust : bust' = bust \ {x} /\ UNCHANGED adsbx
    /\ UNCHANGED <<tables, overrides, flights, pc, plan, aircraft, airline, look, history, bounds>>

invalidate_adsbx ==
    /\ \E x \in bust : adsbx' = Drop(adsbx, x) /\ bust' = bust \ {x}
    /\ UNCHANGED <<tables, overrides, flights, pc, plan, aircraft, airline, look, history, bounds>>

Open(x, reg, row) == flights' = Append(flights, [air |-> x, reg |-> Or(reg, IF row = None THEN None ELSE row.reg)])

\* _open_flight: lookup_aircraft (only this thread uses that cache), then
\* lookup_adsbx, which reads on a miss and stores in a later step. The aircraft
\* is one for which readsb itself sends no registration.
Lookup ==
    /\ pc["collector"] = "up" /\ look = None /\ Len(flights) < MaxFlights
    /\ \E x \in Airframes :
         LET reg == IF Hit(aircraft, x) THEN Cached(aircraft, x) ELSE Value("aircraft_db", x)
         IN  /\ aircraft' = Put(aircraft, x, reg)
             /\ IF Hit(adsbx, x)
                THEN adsbx' = Put(adsbx, x, Cached(adsbx, x)) /\ Open(x, reg, Cached(adsbx, x)) /\ UNCHANGED look
                ELSE look' = [air |-> x, reg |-> reg, row |-> Shown(overrides[x]), polls |-> polls]
                     /\ UNCHANGED <<adsbx, flights>>
    /\ UNCHANGED <<tables, overrides, pc, plan, airline, bust, history, bounds>>

LookupStores ==
    /\ look # None /\ look' = None
    /\ adsbx' = Put(adsbx, look.air, look.row) /\ Open(look.air, look.reg, look.row)
    /\ UNCHANGED <<tables, overrides, pc, plan, aircraft, airline, bust, history, bounds>>

\* _backfill_flights_enrichment, in the background after the start.
BackgroundBackfill ==
    /\ pc["collector"] = "up" /\ ~filled /\ flights' = Filled /\ filled' = TRUE
    /\ UNCHANGED <<tables, overrides, pc, plan, caches, threads, before, bounds>>

\* /api/flights/{id} in the web process: lookup_airline.
lookup_airline ==
    /\ pc["web"] = "up"
    /\ \E k \in Codes :
         airline' = Put(airline, k, IF Hit(airline, k) THEN Cached(airline, k) ELSE Value("airlines", k))
    /\ UNCHANGED <<tables, overrides, flights, pc, plan, aircraft, adsbx, threads, history, bounds>>

Next ==
    \/ \E p \in Procs : Start(p) \/ RecoverStep(p) \/ RecoverFails(p) \/ Ready(p) \/ Crash(p)
    \/ UpdaterStart \/ update_aircraft_db \/ update_airlines_db \/ UpdateFails
    \/ backfill_flights \/ PurgeOverrides
    \/ Upsert \/ invalidate_adsbx \/ Lookup \/ LookupStores \/ BackgroundBackfill
    \/ lookup_airline

Spec == Init /\ [][Next]_vars

-----------------------------------------------------------------------------
(* Properties *)

\* The data are never lost: at every moment, in whatever step of two
\* recoveries and a swap the processes die, the table or its old copy holds
\* rows (_recover_swap, the swap transactions and their min-ratio guard).
CopyKept ==
    \A t \in Tables : \E c \in {store[t].base, store[t].old} : c # None /\ c # <<>>

\* Readers find the table, whole and indexed: once a process is past its start
\* the table exists, no staging copy of it is left, and the type index is on it.
ServedWhole ==
    \A p \in Procs : pc[p] \notin {"down", "recover"} =>
        /\ index = "base"
        /\ \A t \in Tables : store[t].base # None /\ store[t].old = None /\ store[t].new = None

\* Both: however the processes die, the reference tables survive, and whoever is past
\* its start finds them whole.
TablesSurvive == TypeOK /\ CopyKept /\ ServedWhole

\* The read-then-put of lookup_adsbx against the commit-then-invalidate of
\* _upsert_overrides: a value that the cache keeps (that is not about to be
\* invalidated) is never more than one poll behind.
OneUpsertBehind ==
    \A i \in DOMAIN adsbx : LET x == adsbx[i].key IN
        x \in bust \/ adsbx[i].val \in {Shown(overrides[x]), Shown(before[x])}

\* The backfills and the look-ups of new flights together leave no flight
\* without a registration that aircraft_db has.
NoBlankWhenKnown ==
    filled => \A i \in DOMAIN flights :
                flights[i].reg = None => Value("aircraft_db", flights[i].air) = None

\* What the look-ups answer is what the tables hold, or held a poll ago.
LookUpsTrue == TablesSurvive /\ OneUpsertBehind /\ NoBlankWhenKnown

\* A poll that lacks a value never erases a confirmed one; only the weekly
\* expiry does (the COALESCE of _upsert_overrides).
ConfirmedKept ==
    [][\A x \in Airframes : overrides[x] # None =>
          \/ overrides'[x] = None /\ overrides[x].age = TTL /\ pc["updater"] = "purge"
          \/ /\ overrides[x].flags # None => overrides'[x].flags # None
             /\ overrides[x].reg # None => overrides'[x].reg # None]_vars

\* clear_cache "so readers don't serve pre-refresh data": the web process never
\* answers with an airline name that the table no longer has.
AirlineFresh ==
    \A i \in DOMAIN airline : airline[i].val = Value("airlines", airline[i].key)
=============================================================================
