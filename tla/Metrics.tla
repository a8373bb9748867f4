------------------------------- MODULE Metrics -------------------------------
(***************************************************************************)
(* The receiver's metrics (metrics_collector.py) and the health report made *)
(* of them (health.py). readsb writes the figures of its last minute to a   *)
(* file; a thread of the collector stores them under the end of that        *)
(* minute, backing off while it cannot; the web process judges the rows.    *)
(*                                                                          *)
(* The thread is on time: the clock does not pass the moment it wakes at.   *)
(*                                                                          *)
(* Abstracted: of the 43 figures those the report reads. A percentage is    *)
(* compared without dividing. The local clock has no summer time.           *)
(***************************************************************************)
EXTENDS Integers, FiniteSets, FiniteSetsExt, Option

CONSTANTS
    Config,          \* a record: config.py, in ticks of the clock
    Readings,        \* what readsb may measure; None is a figure it leaves out
    Good,            \* what it measures when all is well
    ConnectMayFail,  \* whether a reconnect may fail while the database does
    MaxClock, MaxTroubles   \* bounds

Figures == {"aircraft", "messages", "strong", "signal", "noise", "cpu", "range"}

\* As by default the heartbeat is judged by limits longer than the interval, and the
\* windows are no longer than the longest pause and the window of the message rate.
ASSUME MetricsAssumption ==
    /\ Config.interval \in Nat \ {0} /\ Config.maxSleep \in Nat /\ Config.interval <= Config.maxSleep
    /\ {Config.heartbeatWarn, Config.heartbeatCrit, Config.gap, Config.short, Config.long, Config.cpuWindow} \subseteq Nat
    /\ Config.interval < Config.heartbeatWarn /\ Config.interval < Config.heartbeatCrit
    /\ Config.heartbeatCrit <= Config.gap + 1
    /\ \A w \in {Config.gap, Config.short, Config.cpuWindow} : w <= Config.maxSleep + Config.long
    /\ {Config.noiseWarn, Config.noiseCrit, Config.cpuWarn, Config.cpuCrit, Config.strong} \subseteq Int
    /\ {Config.messageDrop, Config.signalDrop, Config.aircraftDrop} \subseteq Nat
    /\ Config.minSamples \in Nat \ {0} /\ {MaxClock, MaxTroubles} \subseteq Nat /\ None \notin Int
    /\ \A r \in Readings : r \in [Figures -> Int \cup {None}] /\ (r.aircraft # None => r.aircraft >= 0)

\* All is well: within the limits, and not so far below any reading that it is a drop.
ASSUME GoodAssumption ==
    /\ Good \in Readings /\ (\A c \in Figures : Good[c] # None) /\ Good.aircraft > 0
    /\ Good.noise < Config.noiseWarn /\ Good.noise < Config.noiseCrit
    /\ Good.cpu < Config.cpuWarn /\ Good.cpu < Config.cpuCrit
    /\ 100 * Good.strong <= Config.strong * Good.messages
    /\ \A r \in Readings :
         /\ r.messages # None => Config.messageDrop * r.messages <= 100 * Good.messages
         /\ r.signal # None => r.signal <= Good.signal + Config.signalDrop
         /\ r.aircraft # None => Config.aircraftDrop * r.aircraft <= 100 * Good.aircraft

VARIABLES
    clock,
    receiver, \* what readsb measures
    feed,     \* stats.json: "fresh", no longer written, without last1min, or not there
    lastMin,  \* its last1min: end, and the reading
    db,       \* the database works
    handle,   \* the thread's connection is open
    rows,     \* receiver_stats: the reading of a ts
    sleep,    \* sleep_time
    wake,     \* when the thread wakes
    good,     \* history: when something was last wrong
    heard,    \* history: when readsb last had an aircraft to write
    troubles

metrics == <<clock, receiver, feed, lastMin, db, handle, rows, sleep, wake, good, heard, troubles>>
thread == <<handle, rows, sleep, wake>>

MetricsTypeOK ==
    /\ clock \in Nat /\ {good, heard, lastMin.end, wake} \subseteq Nat /\ db \in BOOLEAN /\ handle \in BOOLEAN
    /\ feed \in {"fresh", "stuck", "bare", "gone"} /\ {receiver, lastMin.reading} \subseteq Readings
    /\ DOMAIN rows \subseteq 1..lastMin.end /\ \A t \in DOMAIN rows : rows[t] \in Readings
    /\ sleep \in Config.interval..Config.maxSleep /\ wake - clock \in 0..sleep /\ troubles \in 0..MaxTroubles

MetricsInit ==
    /\ clock = 1 /\ receiver = Good /\ feed = "fresh" /\ lastMin = [end |-> 1, reading |-> Good]
    /\ db = TRUE /\ handle = TRUE /\ rows = <<>> /\ sleep = Config.interval /\ wake = 1
    /\ good = 1 /\ heard = 1 /\ troubles = 0

-----------------------------------------------------------------------------
(* run_metrics_loop *)

\* Mutant: the pause grows without limit.
DoubledAgain(s) == 2 * s

Doubled(s) == Min({2 * s, Config.maxSleep})

\* Mutant: what is stored carries the time of the poll.
StampedNow(t) == clock

\* The primary key of a row.
Stamped(t) == t

\* INSERT OR IGNORE.
InsertRow ==
    rows' = [t \in DOMAIN rows \cup {Stamped(lastMin.end)} |-> IF t \in DOMAIN rows THEN rows[t] ELSE lastMin.reading]

\* close and connect.
Reconnect == handle' = (db \/ ~ConnectMayFail)

Sleeps(s) == sleep' = s /\ wake' = clock + s

\* A poll reads the file, then its last1min, which is no error to be without, then
\* writes the row.
PollStats ==
    LET read == feed \notin {"gone", "bare"}
        stored == read /\ handle /\ db
    IN  /\ wake = clock
        /\ Sleeps(IF stored \/ feed = "bare" THEN Config.interval ELSE Doubled(sleep))
        /\ IF stored THEN InsertRow ELSE UNCHANGED rows
        /\ IF read /\ handle /\ ~db THEN Reconnect ELSE UNCHANGED handle
        /\ UNCHANGED <<clock, receiver, feed, lastMin, db, good, heard, troubles>>

Fine == feed = "fresh" /\ db /\ receiver = Good

\* A minute of readsb ends: new figures, unless it is stuck.
Tick ==
    /\ clock < MaxClock /\ wake > clock /\ clock' = clock + 1
    /\ lastMin' = IF feed = "stuck" THEN lastMin ELSE [end |-> clock', reading |-> receiver]
    /\ heard' = IF feed # "stuck" /\ receiver.aircraft \notin {0, None} THEN clock' ELSE heard
    /\ good' = IF Fine THEN good ELSE clock'
    /\ UNCHANGED <<receiver, feed, db, thread, troubles>>

\* Something breaks, and is put right again.
Break ==
    /\ Fine /\ troubles < MaxTroubles /\ troubles' = troubles + 1 /\ good' = clock
    /\ \/ feed' \in {"stuck", "bare", "gone"} /\ UNCHANGED <<receiver, db>>
       \/ db' = FALSE /\ UNCHANGED <<feed, receiver>>
       \/ receiver' \in Readings \ {Good} /\ UNCHANGED <<feed, db>>
    /\ UNCHANGED <<clock, lastMin, thread, heard>>

Repair ==
    /\ ~Fine /\ good' = clock
    /\ feed' = "fresh" /\ db' = TRUE /\ receiver' = Good
    /\ UNCHANGED <<clock, lastMin, thread, heard, troubles>>

MetricsNext == PollStats \/ Tick \/ Break \/ Repair

MetricsSpec == MetricsInit /\ [][MetricsNext]_metrics

-----------------------------------------------------------------------------
(* The checks *)

Since(w) == {t \in DOMAIN rows : t >= clock - w}
Known(T, col) == {t \in T : rows[t][col] # None}
Count(T, col) == Cardinality(Known(T, col))

\* SUM: what there is above zero, one by one, less what there is below.
Total(T, col) ==
    LET Ones(sign) == Cardinality(UNION {{t} \X (1..(sign * rows[t][col])) : t \in Known(T, col)})
    IN  Ones(1) - Ones(-1)
Peak(T, col) == Max({0} \cup {rows[t][col] : t \in Known(T, col)})

\* "critical" from one limit on, "warn" from another.
Judged(is(_), warn, critical) == IF is(critical) THEN "critical" ELSE IF is(warn) THEN "warn" ELSE "ok"

Heartbeat ==
    IF rows = <<>> THEN "info"
    ELSE LET old(limit) == clock - Max(DOMAIN rows) >= limit IN Judged(old, Config.heartbeatWarn, Config.heartbeatCrit)

\* Mutant: a sample in the window will do.
SeenAny(T) == T # {}

Seen(T) == Peak(T, "aircraft") > 0

AircraftVisibility ==
    IF Since(Config.gap) = {} THEN "info" ELSE IF Seen(Since(Config.gap)) THEN "ok" ELSE "critical"

\* The average of a column over a window, against two limits.
Level(col, window, warn, critical) ==
    LET T == Since(window)
        high(limit) == Total(T, col) >= limit * Count(T, col)
    IN  IF Count(T, col) = 0 THEN "info" ELSE Judged(high, warn, critical)

\* The hours of earlier weeks at the hour of now, both ends included.
Baseline ==
    LET hour == Config.hour * (clock \div Config.hour)
    IN  {t \in DOMAIN rows : \E w \in 1..Config.weeks : t - (hour - w * Config.week) \in 0..Config.hour}

\* The recent average is low(sum, n, base sum, base n) against the baseline.
Drop(col, window, low(_, _, _, _), degenerate(_, _), quiet) ==
    LET T == Since(window)
        m == Count(Baseline, col)
        b == Total(Baseline, col)
    IN  IF Count(T, col) = 0 \/ m < Config.minSamples THEN "info"
        ELSE IF degenerate(b, m) THEN quiet
        ELSE IF low(Total(T, col), Count(T, col), b, m) THEN "warn" ELSE "ok"

MessageRate ==
    LET low(c, n, b, m) == 100 * c * m < Config.messageDrop * b * n
        idle(b, m) == b <= 0
    IN  Drop("messages", Config.long, low, idle, "info")

SignalDrop ==
    LET low(c, n, b, m) == c * m - b * n < -(Config.signalDrop * n * m)
        zero(b, m) == b >= 0
    IN  Drop("signal", Config.short, low, zero, "info")

AircraftDrop ==
    LET low(c, n, b, m) == 100 * c * m < Config.aircraftDrop * b * n
        few(b, m) == b < m
    IN  Drop("aircraft", Config.short, low, few, "ok")

GainSaturation ==
    LET T == Since(Config.short)
    IN  IF Total(T, "messages") = 0 THEN "info"
        ELSE IF 100 * Total(T, "strong") > Config.strong * Total(T, "messages") THEN "warn" ELSE "ok"

\* Drift is no more than a note.
RangeDegradation ==
    LET far == Peak(Since(Config.rangeLong), "range")
        near == Peak(Since(Config.rangeShort), "range")
    IN  IF near = 0 \/ clock - Min(Since(Config.rangeLong)) < 2 * Config.rangeShort \/ 100 * near < Config.rangeRatio * far
        THEN "info" ELSE "ok"

Severity == [
    heartbeat |-> Heartbeat,
    aircraft  |-> AircraftVisibility,
    noise     |-> Level("noise", Config.short, Config.noiseWarn, Config.noiseCrit),
    cpu       |-> Level("cpu", Config.cpuWindow, Config.cpuWarn, Config.cpuCrit),
    messages  |-> MessageRate,
    signal    |-> SignalDrop,
    drop      |-> AircraftDrop,
    gain      |-> GainSaturation,
    range     |-> RangeDegradation]

Rank == [info |-> 0, ok |-> 1, warn |-> 2, critical |-> 3]

\* compute_health: the worst of the checks, of which those that fail are notes.
Overall(shown) == Max({Rank[shown[c]] : c \in DOMAIN shown})

Report(failing) ==
    LET checks == Severity
    IN  Overall([c \in DOMAIN checks |-> IF c \in failing THEN "info" ELSE checks[c]])

-----------------------------------------------------------------------------
(* Properties *)

\* Once there are samples, a receiver that is stuck, or that has had no aircraft
\* for the gap, is reported as critical, whatever the collector missed meanwhile
\* and even if all the other checks fail.
OutageIsCritical ==
    rows # <<>> /\ (clock - lastMin.end >= Config.heartbeatCrit \/ clock - heard > Config.gap) =>
      Report({"noise", "cpu", "messages", "signal", "drop", "gain", "range"}) = Rank["critical"]

\* "will retry next cycle": when nothing has been wrong for the longest pause the
\* samples are fresh again, and once what was wrong has left the windows the
\* report is calm.
MetricsRecover ==
    /\ clock - good > Config.maxSleep + Config.interval => Heartbeat = "ok"
    /\ clock - good > Config.maxSleep + Config.long => Report({}) <= Rank["ok"]

\* An outage of the receiver is reported as critical, and samples and report recover
\* from what was wrong.
OutagesSeenAndOver == MetricsTypeOK /\ OutageIsCritical /\ MetricsRecover
=============================================================================
