----------------------------- MODULE Vdl2Views -----------------------------
(***************************************************************************)
(* What api/vdl2.py computes from the messages the ingest stored: the block *)
(* times of a flight (OOOI) from several kinds of reports, the positions    *)
(* for the map from five scans with caps of their own, the message rates in *)
(* buckets and the time series by frequency.                                *)
(*                                                                          *)
(* Messages arrive one at a time, some late, a reassembled message          *)
(* supersedes its blocks, and the retention deletes the oldest rows.  The   *)
(* state is the table; the views are functions of it, compared below with   *)
(* what they should show.  The time series reads the table four times, and  *)
(* the web's connection sees every commit in between: its request is state. *)
(*                                                                          *)
(* Abstracted: bodies are what the parsers find in them; one airframe; a    *)
(* time is the id of the report that gives it; counts are not normalised to *)
(* a minute.                                                                *)
(***************************************************************************)
EXTENDS Integers, SequencesExt, Option

CONSTANTS
    OooiReports,     \* what a message may say: kind, dep, dest, dsta, echo
    PositionReports, \* scans that find it, scans whose parser finds a fix, coarse
    SeriesReports,   \* freq
    ScanLimit,       \* _OOOI_SCAN_LIMIT
    ScanCap,         \* the cap of the over-fetching scans
    PosCap,          \* _POSITIONS_CAP
    TopFreqs,        \* _TIMESERIES_TOP_FREQS
    Width,           \* Width[span]: _timeseries_bucket
    Unit, Slots,     \* width and number of the buckets of a rate
    MaxTs, MaxRows, MaxSuperseded, MaxPruned, \* bounds by view: time, rows, superseded and deleted rows
    MaxLate          \* bound: lateness of a message

Reports == [oooi |-> OooiReports, positions |-> PositionReports, series |-> SeriesReports]
QPhases == {"out", "off", "on", "in"}
ScanOrder == <<"label", "m1bpos", "59g", "adsc">>

\* The airports a report may name, and what an event is put together from.
Airports == {r.dep : r \in OooiReports} \cup {r.dest : r \in OooiReports}
Event == [dep : Airports, dest : Airports, start : Nat \cup {None}, end : Nat \cup {None}]

ASSUME Vdl2ViewsAssumption ==
    /\ ScanLimit \in Nat /\ TopFreqs \in Nat /\ Unit \in Nat \ {0} /\ Slots \in Nat \ {0}
    /\ PosCap \in Nat /\ ScanCap \in Nat /\ PosCap <= ScanCap
    /\ MaxTs \in [DOMAIN Reports -> Nat] /\ MaxRows \in [DOMAIN Reports -> Nat]
    /\ MaxPruned \in [DOMAIN Reports -> Nat]
    /\ \A span \in 1..(MaxTs.series + 1) : Width[span] \in Nat \ {0}
    /\ None \notin Nat \cup Event \cup OooiReports
    /\ \A r \in OooiReports : r.kind \in QPhases => r.dep # None /\ r.dest # None   \* _QSERIES_RE
    /\ \A r \in SeriesReports : r.freq \in Nat \cup {None}
    /\ \A r \in PositionReports : r.parsed \subseteq r.scans /\ r.scans \subseteq ToSet(ScanOrder)

VARIABLES
    view,       \* which of the three kinds of messages arrive (constant)
    messages,   \* every row ever inserted, the one with id i is messages[i] (history of vdl2_messages)
    pruned,     \* the ids prune has deleted
    series      \* the request for a time series: its window, the rows inserted when it
                \* began (history), what its SELECTs found; None before there is one

viewVars == <<view, messages, pruned, series>>

Times == 0..MaxTs[view]
Ids == DOMAIN messages \ pruned
Selects == 4

ViewsTypeOK ==
    /\ view \in DOMAIN Reports
    /\ Len(messages) <= MaxRows[view] /\ pruned \subseteq DOMAIN messages
    /\ series # None => Len(series.reads) \in 1..Selects /\ \A rows \in ToSet(series.reads) : rows \subseteq DOMAIN messages
    /\ \A i \in Ids : /\ messages[i].ts \in Times
                      /\ messages[i].superseded \in BOOLEAN
                      /\ messages[i].report \in Reports[view]

ViewsInit == view \in DOMAIN Reports /\ messages = <<>> /\ pruned = {} /\ series = None

Inserted(report, t) ==
    /\ Len(messages) < MaxRows[view]
    /\ \A i \in Ids : t >= messages[i].ts - MaxLate
    /\ messages' = Append(messages, [ts |-> t, report |-> report, superseded |-> FALSE])
    /\ UNCHANGED <<view, pruned, series>>

\* A later row is the whole of which row i was a block (Vdl2Ingest says when).
Supersede(i) ==
    /\ i < Len(messages)
    /\ ~messages[i].superseded
    /\ Cardinality({j \in Ids : messages[j].superseded}) < MaxSuperseded[view]
    /\ messages' = [messages EXCEPT ![i].superseded = TRUE]
    /\ UNCHANGED <<view, pruned, series>>

\* A batch of prune: the oldest rows, by their time.
Expire(gone) ==
    /\ gone # {} /\ \A i \in gone, j \in Ids \ gone : messages[i].ts <= messages[j].ts
    /\ Cardinality(pruned \cup gone) <= MaxPruned[view]
    /\ pruned' = pruned \cup gone
    /\ UNCHANGED <<view, messages, series>>

\* What one SELECT finds in a window.
In(from, to) == {i \in Ids : from <= messages[i].ts /\ messages[i].ts < to}

Windows == {w \in Times \X (1..(MaxTs[view] + 1)) : w[1] < w[2]}

\* A request for a time series, once the last one is answered; the total is read first.
AskSeries(from, to) ==
    /\ view = "series" /\ (series # None => Len(series.reads) = Selects)
    /\ series' = [from |-> from, to |-> to, begun |-> Len(messages), reads |-> <<In(from, to)>>]
    /\ UNCHANGED <<view, messages, pruned>>

\* The frequencies, the rate, the columns: a SELECT each, in a transaction of its own.
ReadOn ==
    /\ series # None /\ Len(series.reads) < Selects
    /\ series' = [series EXCEPT !.reads = Append(@, In(series.from, series.to))]
    /\ UNCHANGED <<view, messages, pruned>>

ViewsNext ==
    \/ \E report \in Reports[view], t \in Times : Inserted(report, t)
    \/ \E i \in Ids : Supersede(i)
    \/ \E gone \in SUBSET Ids : Expire(gone)
    \/ \E w \in Windows : AskSeries(w[1], w[2])
    \/ ReadOn

ViewsSpec == ViewsInit /\ [][ViewsNext]_viewVars

-----------------------------------------------------------------------------
(* Block times: _compute_oooi *)

Said(i) == messages[i].report

\* The rows of a window: those with the highest ids, up to the limit. The loop meets
\* them by descending id, so that what it keeps first is the newest.
Rows(since, until) ==
    LET found == {i \in Ids : since <= messages[i].ts /\ messages[i].ts < until /\ ~messages[i].superseded}
    IN  {i \in found : Cardinality({j \in found : j > i}) < ScanLimit}

Newest(ids) == IF ids = {} THEN None ELSE Max(ids)
NewestKind(rows, kind) == Newest({i \in rows : Said(i).kind = kind})
NewestDsta(rows) == Newest({i \in rows : Said(i).dsta # None})

\* Mutant: the scan ends with both events, without the destination.
ScannedToEvents(rows) ==
    LET complete(met) == NewestKind(met, "DEP") # None /\ NewestKind(met, "ARR") # None
    IN  {i \in rows : ~complete({j \in rows : j > i})}

\* The loop over the rows ends as soon as both events and the destination are known.
Scanned(rows) ==
    LET complete(met) == /\ NewestKind(met, "DEP") # None /\ NewestKind(met, "ARR") # None
                         /\ NewestDsta(met) # None
    IN  {i \in rows : ~complete({j \in rows : j > i})}

Pair(i) == <<Said(i).dep, Said(i).dest>>

\* Mutant: the newest partial of every phase, whatever its city pair.
NewestPhases(rows) == [phase \in QPhases |-> NewestKind(rows, phase)]

\* _dominant_q_phases: the newest partial of every phase of the city pair with the
\* most phases, ties to the one whose newest partial is later, then to the first met.
DominantPhases(rows) ==
    LET partials == {i \in rows : Said(i).kind \in QPhases}
        of(pair) == {i \in partials : Pair(i) = pair}
        phases(pair) == {Said(i).kind : i \in of(pair)}
        key(pair) == <<Cardinality(phases(pair)), messages[Newest(of(pair))].ts, Newest(of(pair))>>
        beats(k, l) == \/ k[1] > l[1]
                       \/ k[1] = l[1] /\ k[2] > l[2]
                       \/ k[1] = l[1] /\ k[2] = l[2] /\ k[3] >= l[3]
        pairs == {Pair(i) : i \in partials}
        best == CHOOSE pair \in pairs : \A other \in pairs : beats(key(pair), key(other))
    IN  [phase \in QPhases |-> IF partials = {} THEN None ELSE NewestKind(of(best), phase)]

\* An event as a report of the aircraft's own states it.
Stated(i) == [dep |-> Said(i).dep, dest |-> Said(i).dest, start |-> i, end |-> i]

\* _synth_q_event: the two phases of an event, the OFF report echoing the OUT time;
\* the names are the newer one's.
Synthesized(first, second) ==
    IF first = None /\ second = None THEN None
    ELSE LET newer == IF second = None THEN first
                      ELSE IF first = None THEN second
                      ELSE IF messages[second].ts > messages[first].ts THEN second ELSE first
         IN  [dep |-> Said(newer).dep, dest |-> Said(newer).dest,
              start |-> IF first = None /\ Said(second).echo THEN second ELSE first,
              end |-> second]

\* The aircraft's logon before the three reports.
RouteOrder == <<"cm", "label26", "label20", "label49">>
RouteOf(rows) ==
    LET known == {n \in DOMAIN RouteOrder : NewestKind(rows, RouteOrder[n]) # None}
    IN  IF known = {} THEN None ELSE Said(NewestKind(rows, RouteOrder[Min(known)]))

\* Mutant: the route replaces what the event says.
FilledOver(event, route) ==
    IF event = None \/ route = None THEN event
    ELSE [event EXCEPT !.dep = route.dep, !.dest = route.dest]

Filled(event, route) ==
    IF event = None \/ route = None THEN event
    ELSE [event EXCEPT !.dep = IF @ = None THEN route.dep ELSE @,
                       !.dest = IF @ = None THEN route.dest ELSE @]

Summary(rows) ==
    LET stated(kind) == IF NewestKind(rows, kind) = None THEN None ELSE Stated(NewestKind(rows, kind))
        q == DominantPhases(rows)
        dep == IF stated("DEP") # None THEN stated("DEP") ELSE Synthesized(q["out"], q["off"])
        arr == IF stated("ARR") # None THEN stated("ARR") ELSE Synthesized(q["on"], q["in"])
        route == RouteOf(rows)
        dsta == NewestDsta(rows)
    IN  [dep |-> Filled(dep, route), arr |-> Filled(arr, route),
         dsta |-> IF dsta # None THEN Said(dsta).dsta ELSE IF route = None THEN None ELSE route.dest]

-----------------------------------------------------------------------------
(* Positions: _compute_positions *)

Later(i, j) ==
    \/ messages[i].ts > messages[j].ts
    \/ messages[i].ts = messages[j].ts /\ i > j
NewestIds(ids, cap) == {i \in ids : Cardinality({j \in ids : Later(j, i)}) < cap}
Current(cutoff) == {i \in Ids : messages[i].ts >= cutoff /\ ~messages[i].superseded}

\* Mutant: the scans are capped like the answer.
ScanTight(s, cutoff) == NewestIds({i \in Current(cutoff) : s \in Said(i).scans}, PosCap)

\* One over-fetching query; the coarse one fetches no more than is shown.
Scan(s, cutoff) == NewestIds({i \in Current(cutoff) : s \in Said(i).scans}, ScanCap)
CoarseScan(cutoff) == NewestIds({i \in Current(cutoff) : Said(i).coarse}, PosCap)
ParsedBy(s, cutoff) == {i \in Scan(s, cutoff) : s \in Said(i).parsed}

\* Mutant: a row that gave a precise fix gives a coarse one too.
PointsTwice(cutoff) ==
    {[id |-> i, via |-> "coarse"] : i \in CoarseScan(cutoff)}
    \cup UNION {{[id |-> i, via |-> ScanOrder[n]] :
                    i \in ParsedBy(ScanOrder[n], cutoff) \ UNION {ParsedBy(ScanOrder[m], cutoff) : m \in 1..(n - 1)}}
                : n \in DOMAIN ScanOrder}

\* Each row once, by the first scan whose parser finds a fix, coarse as a fallback.
Points(cutoff) ==
    LET before(n) == UNION {ParsedBy(ScanOrder[m], cutoff) : m \in 1..(n - 1)}
        precise == UNION {{[id |-> i, via |-> ScanOrder[n]] : i \in ParsedBy(ScanOrder[n], cutoff) \ before(n)}
                          : n \in DOMAIN ScanOrder}
        coarse == {[id |-> i, via |-> "coarse"] : i \in CoarseScan(cutoff) \ before(Len(ScanOrder) + 1)}
    IN  precise \cup coarse

\* The newest of them.
Overlay(cutoff) ==
    LET points == Points(cutoff)
    IN  {p \in points : Cardinality({q \in points : Later(q.id, p.id)}) < PosCap}

-----------------------------------------------------------------------------
(* Rates and series *)

\* Mutant: the slots are counted from the start of the window.
RatesFromStart(now) ==
    LET since == now - Unit * Slots
        slot(i) == (messages[i].ts - since) \div Unit
    IN  [n \in 1..Slots |-> Cardinality({i \in Ids : messages[i].ts >= since /\ slot(i) = n - 1})]

\* _rate_buckets: by age, the slot of the current bucket last.
Rates(now) ==
    LET since == now - Unit * Slots
        ago(i) == (now - messages[i].ts) \div Unit
    IN  [n \in 1..Slots |-> Cardinality({i \in Ids : messages[i].ts >= since /\ ago(i) = Slots - n})]

Channel(i) == Said(i).freq
Heard(f, rows) == {i \in rows : Channel(i) = f}

\* The busiest frequencies, ties to the lower one.
TopOf(rows) ==
    LET heard == {Channel(i) : i \in rows} \ {None}
        busier(f, g) == \/ Cardinality(Heard(f, rows)) > Cardinality(Heard(g, rows))
                        \/ Cardinality(Heard(f, rows)) = Cardinality(Heard(g, rows)) /\ f < g
    IN  {f \in heard : Cardinality({g \in heard : busier(g, f)}) < TopFreqs}

\* Mutant: the last, partial bucket is cut off.
BucketsWhole(from, to) == Max({1, (to - from) \div Width[to - from]})
Buckets(from, to) == Max({1, (to - from + Width[to - from] - 1) \div Width[to - from]})

\* _bucket_fill over the grouped rows.
Fill(rows, from, to) == [n \in 1..Buckets(from, to) |->
    Cardinality({i \in rows : (messages[i].ts - from) \div Width[to - from] = n - 1})]

\* The answer: _compute_timeseries over what its SELECTs found.
Series(s) ==
    [total |-> Cardinality(s.reads[1]),
     rate |-> Fill(s.reads[3], s.from, s.to),
     columns |-> [f \in TopOf(s.reads[2]) |-> Fill(Heard(f, s.reads[4]), s.from, s.to)]]

-----------------------------------------------------------------------------
(* Properties *)

\* The sum of some counts: as many things of each, together.
SumOf(counts) == Cardinality(UNION {{n} \X (1..counts[n]) : n \in DOMAIN counts})

\* Ending the scan early loses neither event, nor a time of one, nor the destination,
\* and changes no airport a report of the event names. What it may cost is the airports
\* a route adds where it names none: they may stay away (the accepted trade-off of
\* api/vdl2.py:559-562) or come from another route than the preferred one.
EarlyExitHarmless == ViewsTypeOK /\ (view = "oooi" => \A w \in Windows :
    LET rows == Rows(w[1], w[2])
        short == Summary(Scanned(rows))
        long == Summary(rows)
        Same(a, b) == \/ a = None /\ b = None
                      \/ /\ a # None /\ b # None
                         /\ a.start = b.start /\ a.end = b.end
                         /\ a.dep = b.dep \/ Said(a.end).dep = None
                         /\ a.dest = b.dest \/ Said(a.end).dest = None
    IN  Same(short.dep, long.dep) /\ Same(short.arr, long.arr) /\ short.dsta = long.dsta)

\* Departure and arrival put together from partial reports are of one leg: one city
\* pair, and no time from a report of another pair, however the reports of the next
\* leg fall into the window (api/vdl2.py:601-606), and whatever the route says.
OneLeg == view = "oooi" => \A w \in Windows :
    LET rows == Rows(w[1], w[2])
        s == Summary(Scanned(rows))
        own == {e \in {s.dep, s.arr} : e # None /\ \A i \in {e.start, e.end} \ {None} : Said(i).kind \in QPhases}
    IN  \A e \in own :
            /\ \A i \in {e.start, e.end} \ {None} : Pair(i) = <<e.dep, e.dest>>
            /\ \A other \in own : other.dep = e.dep /\ other.dest = e.dest

\* Block times: nothing is lost to the early exit, and no two legs are mixed.
BlockTimesRight == EarlyExitHarmless /\ OneLeg

\* The overlay shows every row once, precisely where a parser finds a fix, and misses
\* none of the newest fixes: a burst of rows without a fix starves neither coarse nor
\* older precise ones while it is shorter than the scan (api/vdl2.py:971-973).
NewestFixesShown == view = "positions" => \A cutoff \in Times :
    LET shown == Overlay(cutoff)
        fixes == {i \in Current(cutoff) : Said(i).parsed # {} \/ Said(i).coarse}
        Reached(i) == \A s \in Said(i).parsed :
            Cardinality({j \in Current(cutoff) : s \in Said(j).scans /\ Later(j, i)}) < ScanCap
    IN  /\ \A p, q \in shown : p.id = q.id => p = q
        /\ \A i \in NewestIds(fixes, PosCap) :
              /\ Reached(i) => \E p \in shown : p.id = i /\ (p.via = "coarse" <=> Said(i).parsed = {})
              /\ Said(i).coarse => \E p \in shown : p.id = i

\* The rate of the last Slots units counts every message younger than the window in
\* the slot of its age, the newest slot being the one that has just begun.
RecentRates == view = "series" => \A now \in 0..(MaxTs[view] + Unit * Slots) :
    (\A i \in Ids : messages[i].ts <= now) =>
        /\ SumOf(Rates(now)) = Cardinality({i \in Ids : messages[i].ts > now - Unit * Slots})
        /\ Rates(now)[Slots] = Cardinality({i \in Ids : messages[i].ts > now - Unit})

\* The rows of a request's window that were there all along, and those that were there
\* at some time of it.
Kept(s) == s.reads[1] \ pruned
Ever(s) == s.reads[1] \cup {i \in DOMAIN messages : i > s.begun /\ s.from <= messages[i].ts /\ messages[i].ts < s.to}

\* The columns add up, but for the rows that came or went between the SELECTs: total,
\* rate and columns count every message that was there all along once and none that
\* never was, the frequencies of a bucket exceed its rate by no more than what came or
\* went, and none left out was busier than one listed.
SeriesAddsUp == series # None /\ Len(series.reads) = Selects =>
    LET s == Series(series)
        Between(n, low, high) == Cardinality(low) <= n /\ n <= Cardinality(high)
        changed == Ever(series) \ Kept(series)
        listed == DOMAIN s.columns
    IN  /\ Between(s.total, Kept(series), Ever(series))
        /\ Between(SumOf(s.rate), Kept(series), Ever(series))
        /\ \A f \in listed : Between(SumOf(s.columns[f]), Heard(f, Kept(series)), Heard(f, Ever(series)))
        /\ \A n \in DOMAIN s.rate :
              SumOf([f \in listed |-> s.columns[f][n]]) <= s.rate[n] + Cardinality(changed)
        /\ \A i \in Kept(series) : Channel(i) \notin listed \cup {None} =>
              /\ Cardinality(listed) = TopFreqs
              /\ \A f \in listed : Cardinality(Heard(f, Ever(series))) >= Cardinality(Heard(Channel(i), Kept(series)))

\* Each of a window's messages is counted once, by age and by time.
CountsAddUp == RecentRates /\ SeriesAddsUp
=============================================================================
