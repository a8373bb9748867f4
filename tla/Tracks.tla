------------------------------- MODULE Tracks -------------------------------
(***************************************************************************)
(* What is computed over the fixes of one flight: the purge scripts, which  *)
(* delete ghosts and blank bad speeds, and the downsampling of a track for  *)
(* a chart (downsample.py). A track grows fix by fix; a script may be run   *)
(* on it at any time. Its writes to one flight are one transaction, so that *)
(* an interrupted run leaves each flight as it was or as it should be.      *)
(*                                                                          *)
(* Abstracted: an aircraft moves along a line, and arithmetic is exact but  *)
(* for the strides of a chart. The flight is one of a civil aircraft.       *)
(***************************************************************************)
EXTENDS Integers, Sequences, FiniteSets, SequencesExt, Option

CONSTANTS
    FixReports,   \* what a fix may say: place, gs (or None), adsb
    Gaps,         \* ticks between two fixes
    Limits,       \* a record: config.py and the constants of the scripts
    MaxFixes,
    Below         \* <<k, n, target>>: k * bucket_size in floats is less than the integer it is

\* A float can fall short of an integer only: between two integers it is too far from
\* either. A bucket_size that is an integer is exact.
ShortProducts == {b \in (Nat \ {0}) \X Nat \X Nat :
    LET inner == b[2] - 2  buckets == b[3] - 2
    IN  /\ 1 <= buckets /\ buckets < inner
        /\ buckets * ((b[1] * inner) \div buckets) = b[1] * inner
        /\ buckets * (inner \div buckets) # inner}

ASSUME TracksAssumption ==
    /\ FixReports \subseteq [place : Int, gs : Nat \cup {None}, adsb : BOOLEAN]
    /\ Gaps \subseteq Nat \ {0} /\ MaxFixes \in Nat /\ Below \subseteq ShortProducts /\ None \notin Nat \cup {"ghosts", "gs", "spikes"}

VARIABLES
    track,     \* the rows of positions, by id
    cleaned    \* which script was run last

tracks == <<track, cleaned>>

Position == [ts : Nat, place : Int, gs : Nat \cup {None}, adsb : BOOLEAN]

TracksInit == track = <<>> /\ cleaned = None

TracksTypeOK ==
    /\ cleaned \in {None, "ghosts", "gs", "spikes"} /\ (cleaned = None => track \in Seq(Position))
    /\ DOMAIN track \subseteq 1..MaxFixes /\ \A i \in DOMAIN track : track[i] \in Position
    /\ \A i, k \in DOMAIN track : i < k => track[i].ts < track[k].ts

Abs(x) == IF x < 0 THEN -x ELSE x

-----------------------------------------------------------------------------
(* A pass flags what does not fit the last fix that it kept. at[i] is when  *)
(* it comes to fix i; what is in alone does not fit whatever was kept, and  *)
(* e[2] does not fit e[1] if e is in misfits.                               *)

\* Mutant: a fix that is flagged is what the next one is compared with.
AnchorAny(at, bad, i) ==
    {j \in DOMAIN at : at[j] < at[i] /\ ~\E k \in DOMAIN at : at[j] < at[k] /\ at[k] < at[i]}

\* The last fix before i that was kept, if there is one.
Anchor(at, bad, i) ==
    {j \in (DOMAIN at) \ bad : at[j] < at[i] /\ \A k \in DOMAIN at : at[j] < at[k] /\ at[k] < at[i] => k \in bad}

Flags(at, alone, misfits, bad) ==
    \A i \in DOMAIN at : i \in bad <=> i \in alone \/ \E j \in Anchor(at, bad, i) : <<j, i>> \in misfits

Pass(at, alone, misfits) == CHOOSE bad \in SUBSET DOMAIN at : Flags(at, alone, misfits, bad)

\* ORDER BY ts.
ByTime(fixes, ids) == [i \in ids |-> fixes[i].ts]
Backwards(at) == [i \in DOMAIN at |-> -at[i]]

-----------------------------------------------------------------------------
(* purge_ghosts: fixes too far from the one before *)

TooFast(p, q) == p.ts # q.ts /\ Abs(p.place - q.place) > Limits.maxSpeed * Abs(p.ts - q.ts)

\* _velocity_pass
VelocityPass(fixes, at) ==
    Pass(at, {}, {e \in (DOMAIN at) \X (DOMAIN at) : TooFast(fixes[e[1]], fixes[e[2]])})

\* Mutant: the first pass is trusted.
TrustedAlways(bad, fixes) == TRUE

\* Less than half of the fixes survived: the anchor was the ghost.
Trusted(bad, fixes) == 2 * (Cardinality(DOMAIN fixes) - Cardinality(bad)) >= Cardinality(DOMAIN fixes)

\* find_ghost_ids: forwards, else backwards, else hands off.
Ghosts(fixes) ==
    LET at == ByTime(fixes, DOMAIN fixes)
        forward == VelocityPass(fixes, at)
        backward == VelocityPass(fixes, Backwards(at))
    IN  IF Trusted(forward, fixes) THEN forward
        ELSE IF Trusted(backward, fixes) THEN backward ELSE {}

-----------------------------------------------------------------------------
(* purge_bad_gs: speeds above a limit, or at odds with the distance flown *)

Deviates(prev, p) ==
    LET dt == p.ts - prev.ts
    IN  /\ p.gs >= Limits.minCompared
        /\ dt >= (IF p.adsb THEN Limits.minDtAdsb ELSE Limits.minDtOther) /\ dt <= Limits.maxDt
        /\ Abs(p.gs * dt - Abs(p.place - prev.place)) > Limits.deviation * dt

WithGs(fixes) == {i \in DOMAIN fixes : fixes[i].gs # None}

\* scan_flights
BadGs(fixes) ==
    LET T == WithGs(fixes)
    IN  Pass(ByTime(fixes, T), {i \in T : fixes[i].gs > Limits.civil}, {e \in T \X T : Deviates(fixes[e[1]], fixes[e[2]])})

-----------------------------------------------------------------------------
(* purge_mlat_gs_spikes: jumps of the speed, and speeds unlike the others *)

Jumps(prev, p) == ~p.adsb /\ p.ts > prev.ts /\ Abs(p.gs - prev.gs) > Limits.accel * (p.ts - prev.ts)

\* scan_mlat_spikes
Spikes(fixes) ==
    LET T == WithGs(fixes)
    IN  Pass(ByTime(fixes, T), {}, {e \in T \X T : Jumps(fixes[e[1]], fixes[e[2]])})

\* Four times the upper quartile of sorted values, as the library interpolates it.
Quartile(sorted) ==
    LET n == Len(sorted)
        at == (3 * (n + 1)) \div 4
        j == IF at > n - 1 THEN n - 1 ELSE at
        delta == 3 * (n + 1) - 4 * j
    IN  sorted[j] * (4 - delta) + sorted[j + 1] * delta

\* scan_statistical_outliers
Outliers(fixes) ==
    LET mlat == {i \in WithGs(fixes) : ~fixes[i].adsb}
        order == SetToSeq(mlat)
        speeds == SortSeq([n \in DOMAIN order |-> fixes[order[n]].gs], LAMBDA a, b : a < b)
    IN  IF Cardinality(mlat) < Limits.minReadings THEN {}
        ELSE {i \in mlat : 4 * fixes[i].gs > Limits.outlierFactor * Quartile(speeds) /\ fixes[i].gs > Limits.floor}

-----------------------------------------------------------------------------

RecordFix == \E r \in FixReports, gap \in Gaps :
    /\ cleaned = None /\ Len(track) < MaxFixes
    /\ track' = Append(track, [ts |-> gap + (IF track = <<>> THEN 0 ELSE track[Len(track)].ts),
                               place |-> r.place, gs |-> r.gs, adsb |-> r.adsb])
    /\ UNCHANGED cleaned

Without(fixes, bad) == [i \in (DOMAIN fixes) \ bad |-> fixes[i]]
Blanked(fixes, bad) == [i \in DOMAIN fixes |-> IF i \in bad THEN [fixes[i] EXCEPT !.gs = None] ELSE fixes[i]]

Script(name, left) == cleaned = None /\ cleaned' = name /\ track' = left

PurgeGhosts == Script("ghosts", Without(track, Ghosts(track)))
PurgeBadGs == Script("gs", Blanked(track, BadGs(track)))
PurgeSpikes == Script("spikes", Blanked(track, Spikes(track) \cup Outliers(track)))

TracksNext == RecordFix \/ PurgeGhosts \/ PurgeBadGs \/ PurgeSpikes

TracksSpec == TracksInit /\ [][TracksNext]_tracks

-----------------------------------------------------------------------------
(* lttb_indices: points is a function on 0..(n - 1), as in the code *)

\* int(k * bucket_size) + 1: where the bucket begins that comes after k of them.
Stride(k, n, target) ==
    (k * (n - 2)) \div (target - 2) + (IF <<k, n, target>> \in Below THEN 0 ELSE 1)

\* Mutant: a bucket also holds the first point of the next.
BucketWide(k, n, target) == Stride(k, n, target)..Stride(k + 1, n, target)

Bucket(k, n, target) == Stride(k, n, target)..(Stride(k + 1, n, target) - 1)

\* The points of the bucket after the one of stride k: the last one is alone.
NextBucket(k, n, target) == {i \in Bucket(k + 1, n, target) : i < n}

\* A sum of naturals, as the size of a disjoint union.
SumAlong(values) == Cardinality(UNION {{i} \X (1..values[i]) : i \in DOMAIN values})

\* The triangle of points a and i and the centroid of a bucket, times its size.
Area(points, a, i, next) ==
    LET m == Cardinality(next)
        cx == SumAlong([k \in next |-> points[k].x])
        cy == SumAlong([k \in next |-> points[k].y])
    IN  Abs((m * points[a].x - cx) * (points[i].y - points[a].y) - (points[a].x - points[i].x) * (cy - m * points[a].y))

\* The first of the largest triangles of a bucket.
Best(points, target, a, k) ==
    LET n == Cardinality(DOMAIN points)
        B == Bucket(k, n, target)
        area == [i \in B |-> Area(points, a, i, NextBucket(k, n, target))]
    IN  CHOOSE i \in B : \A j \in B : area[j] < area[i] \/ (area[j] = area[i] /\ i <= j)

\* What is picked of one bucket after the other, from the first point on.
Picks(points, target) ==
    LET pick[k \in 0..(target - 2)] == IF k = 0 THEN 0 ELSE Best(points, target, pick[k - 1], k - 1) IN pick

Lttb(points, target) ==
    LET n == Cardinality(DOMAIN points)
        picked == Picks(points, target)
    IN  IF target >= n \/ target <= 2 THEN [i \in 1..n |-> i - 1]
        ELSE [i \in 1..target |-> IF i < target THEN picked[i - 1] ELSE n - 1]

-----------------------------------------------------------------------------
(* Properties *)

Alone(fixes, g) ==
    /\ \A i \in (DOMAIN fixes) \ {g} : TooFast(fixes[i], fixes[g])
    /\ \A i, k \in (DOMAIN fixes) \ {g} : ~TooFast(fixes[i], fixes[k])

\* "a single ghost does not cascade and mark the next real position bad", nor
\* does it when it comes first or last: of three fixes or more, the one that fits
\* none of the others, which all fit each other, is what the script deletes.
GhostAlone ==
    Cardinality(DOMAIN track) >= 3 => \A g \in DOMAIN track : Alone(track, g) => Ghosts(track) = {g}

\* "The script is idempotent": after a purge of ghosts or of bad speeds, the same
\* script finds nothing more, though the fixes are now compared with others.
PurgedClean ==
    /\ cleaned = "ghosts" => Ghosts(track) = {}
    /\ cleaned = "gs" => BadGs(track) = {}

\* The same words of the third script.
SpikesClean == cleaned = "spikes" => Spikes(track) \cup Outliers(track) = {}

\* The speeds of a flight as points of a chart.
Chart == [i \in 0..(Len(track) - 1) |-> [x |-> track[i + 1].ts, y |-> IF track[i + 1].gs = None THEN 0 ELSE track[i + 1].gs]]

\* The last inner point is in no bucket when the last stride falls short.
Skipped(s, n, target) == s = n - 2 /\ <<target - 2, n, target>> \in Below

\* A chart has as many points as asked for, in the order of time, with the first
\* and the last, and a lone spike on a level line is among them, unless it is the one
\* point that rounding leaves out of every bucket: 505 fixes and 500 points do so.
ChartFaithful == cleaned = None => \A target \in 3..(Len(track) - 1) :
    LET out == Lttb(Chart, target)
        Level(s) == \A i, j \in (DOMAIN Chart) \ {s} : Chart[i].y = Chart[j].y /\ Chart[i].y # Chart[s].y
    IN  /\ DOMAIN out = 1..target /\ out[1] = 0 /\ out[target] = Len(track) - 1
        /\ \A i \in 2..target : out[i - 1] < out[i]
        /\ \A s \in DOMAIN Chart : Level(s) /\ ~Skipped(s, Len(track), target) => \E i \in 1..target : out[i] = s

\* A lone ghost is what the script deletes, and a second run finds nothing; a chart
\* keeps order, ends, length and spikes of a track.
TracksKept == TracksTypeOK /\ GhostAlone /\ PurgedClean /\ ChartFaithful
=============================================================================
