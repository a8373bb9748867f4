------------------------------- MODULE MCWeb -------------------------------
(***************************************************************************)
(* The web server's answers, in one run: the response cache with its       *)
(* prewarmer, and what the requests behind it compute for the map. They     *)
(* share no state: part says which of them moves, the other rests.          *)
(***************************************************************************)
EXTENDS ResponseCache, MapViews, TLC

VARIABLE part

MCTtl == [k \in Keys |-> IF k = Stats THEN 6 ELSE 5]

\* Two places in one direction: one before a cell's edge, beyond
\* which and into another direction positions moves it, one on an edge where floats fall
\* short.
MCDist == 2 :> 3 @@ 3 :> 4 @@ 9 :> 5
MCBearing == 2 :> 19 @@ 3 :> 21 @@ 9 :> 15
MCShort == {<<9, 2>>}

\* Bounds: a snapshot takes less than a unit of the clock, aircraft.json is at most one old.
MapBounded == now' # now => asked \notin Snapshots /\ now' - feed <= 1

WebInit == part \in {"cache", "map"} /\ Init /\ MapInit

WebNext ==
    \/ part = "cache" /\ Next /\ UNCHANGED <<part, mapVars>>
    \/ part = "map" /\ MapNext /\ MapBounded /\ UNCHANGED <<part, vars>>

WebSpec == WebInit /\ [][WebNext]_<<part, vars, mapVars>>

MCSymmetry == Permutations(Threads) \cup Permutations(Windows) \cup Permutations(Flights)
=============================================================================
