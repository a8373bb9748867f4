----------------------------- MODULE MCServices -----------------------------
(***************************************************************************)
(* Machines that share no state, in one run: the daily summary, the         *)
(* watchlist and its writers, the photos, metrics and health report, what   *)
(* is computed over tracks, and the views of the VDL2 messages. part says   *)
(* which of them moves, the others rest where they began. Their states add, *)
(* they do not multiply.                                                    *)
(***************************************************************************)
EXTENDS DailySummary, Watchlist, Photos, Metrics, Tracks, Vdl2Views

CONSTANT TypeA    \* the type of the airframe

VARIABLE part

\* One airframe of a known type; the flight may give another one.
MCTypeOf == [h \in Hexes |-> TypeA]
MCAsks == Hexes \X Types

MCConfig == [interval |-> 1, maxSleep |-> 4, heartbeatWarn |-> 2, heartbeatCrit |-> 3, gap |-> 4,
    short |-> 3, long |-> 4, cpuWindow |-> 2, hour |-> 2, week |-> 6, weeks |-> 2, minSamples |-> 2,
    noiseWarn |-> -28, noiseCrit |-> -25, cpuWarn |-> 80, cpuCrit |-> 90, messageDrop |-> 50,
    signalDrop |-> 3, aircraftDrop |-> 25, strong |-> 5, rangeShort |-> 3, rangeLong |-> 9, rangeRatio |-> 85]

\* All is well; nothing is received; the gain is too high and a figure is missing.
MCGood == [aircraft |-> 4, messages |-> 40, strong |-> 1, signal |-> -20, noise |-> -35, cpu |-> 50, range |-> 90]
MCDeaf == [MCGood EXCEPT !.aircraft = 0, !.messages = 0, !.strong = 0, !.signal = None, !.range = None]
MCLoud == [MCGood EXCEPT !.aircraft = None, !.messages = 30, !.strong = 9, !.signal = -40, !.noise = -20, !.cpu = 95]

MCReadings == {MCGood, MCDeaf, MCLoud}

\* A cruise, a climb, a ghost and two speeds nobody flies.
MCReports == {
    [place |-> 0, gs |-> 8, adsb |-> TRUE], [place |-> 2, gs |-> 8, adsb |-> FALSE],
    [place |-> 4, gs |-> 2, adsb |-> FALSE], [place |-> 20, gs |-> None, adsb |-> TRUE],
    [place |-> 2, gs |-> 13, adsb |-> FALSE], [place |-> 9, gs |-> 30, adsb |-> FALSE]}
MCLimits == [maxSpeed |-> 4, civil |-> 15, deviation |-> 5, minCompared |-> 5, minDtAdsb |-> 1, minDtOther |-> 3,
    maxDt |-> 5, accel |-> 4, minReadings |-> 3, outlierFactor |-> 2, floor |-> 10]

OooiReport(kind, dep, dest, dsta) == [kind |-> kind, dep |-> dep, dest |-> dest, dsta |-> dsta, echo |-> kind = "off"]

\* The leg from A to B and the next one back, with and without airports.
MCOooi == {
    OooiReport("DEP", "A", None, None), OooiReport("ARR", None, None, None), OooiReport("off", "A", "B", "B"),
    OooiReport("out", "A", "B", None), OooiReport("on", "B", "A", None), OooiReport("out", "B", "A", None),
    OooiReport("cm", "A", "B", None), OooiReport("label49", "B", "A", None)}

Fix(scans, parsed, coarse) == [scans |-> scans, parsed |-> parsed, coarse |-> coarse]
MCPositions == {
    Fix({"label"}, {"label"}, FALSE), Fix({"label"}, {}, FALSE), Fix({"label"}, {}, TRUE), Fix({"adsc"}, {"adsc"}, FALSE),
    Fix({"label", "m1bpos"}, {"m1bpos"}, TRUE), Fix({"label", "59g"}, {"label", "59g"}, FALSE), Fix({}, {}, TRUE)}

MCSeries == {[freq |-> f] : f \in {None, 1, 2}}
MCWidth == 1 :> 1 @@ 2 :> 1 @@ 3 :> 2
MCTimes == [oooi |-> 1, positions |-> 1, series |-> 2]
MCRows == [oooi |-> 4, positions |-> 3, series |-> 3]

\* A superseded report counts in the positions only: the block times do not see it, the
\* series does not ask.
MCSuperseded == [oooi |-> 0, positions |-> 1, series |-> 0]
MCPruned == [oooi |-> 0, positions |-> 0, series |-> 1]

\* So few points never fall short: 2 strides of 3/2 stand for 498 of 503/498.
MCBelow == {<<2, 5, 4>>}

otherVars == <<metrics, tracks>>

\* Bounds of a time series: once answered it is judged before rows come and go again; one
\* row comes during it, and the deletion does: before it, it would leave a shorter table;
\* its window has more than one bucket.
SeriesBounded ==
    /\ series # None /\ Len(series.reads) = Selects => UNCHANGED <<messages, pruned>>
    /\ series # None /\ messages' # messages => Len(messages) = series.begun
    /\ series' # series /\ Len(series'.reads) = 1 => pruned = {} /\ series'.to - series'.from > 1

ServicesInit ==
    /\ part \in {"summary", "watchlist", "photos", "metrics", "tracks", "vdl2"}
    /\ DailyInit /\ WatchInit /\ PhotosInit /\ MetricsInit /\ TracksInit /\ ViewsInit
    /\ part # "photos" => \A h \in Hexes : photos[h] = None
    /\ part # "vdl2" => view = "positions"

ServicesNext ==
    \/ part = "summary" /\ DailyNext /\ UNCHANGED <<part, watch, pictureVars, viewVars, otherVars>>
    \/ part = "watchlist" /\ WatchNext /\ UNCHANGED <<part, daily, pictureVars, viewVars, otherVars>>
    \/ part = "photos" /\ PhotosNext /\ UNCHANGED <<part, daily, watch, viewVars, otherVars>>
    \/ part = "vdl2" /\ ViewsNext /\ SeriesBounded /\ UNCHANGED <<part, daily, watch, pictureVars, otherVars>>
    \/ part = "metrics" /\ MetricsNext /\ UNCHANGED <<part, daily, watch, pictureVars, viewVars, tracks>>
    \/ part = "tracks" /\ TracksNext /\ UNCHANGED <<part, daily, watch, pictureVars, viewVars, metrics>>

ServicesSpec ==
    ServicesInit /\ [][ServicesNext]_<<part, daily, watch, pictureVars, viewVars, otherVars>>

MCSymmetry == Permutations(Calls) \cup Permutations(Web) \cup Permutations(Types \ {TypeA})

=============================================================================
