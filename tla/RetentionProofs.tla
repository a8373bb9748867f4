-------------------------- MODULE RetentionProofs --------------------------
(***************************************************************************)
(* For any number of flights, values, batch sizes and faults: the purge,    *)
(* the polls and the cleaning scripts never leave a flight whose farthest   *)
(* distance is below that of one of its fixes; the purge loses no fix that  *)
(* is within the retention, and has repaired every flight that crosses the  *)
(* cutoff by the time it drops flights.                                     *)
(***************************************************************************)
EXTENDS Retention, FiniteSetTheorems, WellFoundedInduction, TLAPS

-----------------------------------------------------------------------------
(* The largest of finitely many numbers *)

\* A smallest set without a largest element would have a smaller one.
LEMMA MaxOfFinite ==
  ASSUME NEW S, IsFiniteSet(S), S \subseteq Int, S # {}
  PROVE  Max(S) \in S /\ \A y \in S : y <= Max(S)
<1> DEFINE Topped(T) == \E x \in T : \A y \in T : x >= y
           Untopped == {T \in SUBSET S : T # {} /\ ~Topped(T)}
<1>1. Untopped = {}
  <2>1. SUFFICES ASSUME Untopped # {} PROVE FALSE
    OBVIOUS
  <2>2. IsWellFoundedOn(StrictSubsetOrdering(S), SUBSET S)
    BY FS_StrictSubsetOrderingWellFounded, FS_FiniteSubsetsOfFinite
  <2>3. PICK T \in Untopped : \A U \in Untopped : <<U, T>> \notin StrictSubsetOrdering(S)
    BY <2>1, <2>2, WFMin
  <2>4. PICK x \in T : TRUE
    BY <2>3
  <2>5. <<T \ {x}, T>> \in StrictSubsetOrdering(S)
    BY <2>3, <2>4 DEF StrictSubsetOrdering
  <2>6. T \ {x} \notin Untopped
    BY <2>3, <2>5
  <2>7. CASE T = {x}
    BY <2>3, <2>7
  <2>8. CASE T # {x}
    <3>1. PICK m \in T \ {x} : \A y \in T \ {x} : m >= y
      BY <2>3, <2>4, <2>6, <2>8
    <3>2. IF m >= x THEN \A y \in T : m >= y ELSE \A y \in T : x >= y
      BY <2>3, <2>4, <3>1
    <3> QED BY <2>3, <2>4, <3>1, <3>2
  <2> QED BY <2>7, <2>8
<1>2. Topped(S)
  BY <1>1
<1>3. \E x \in S : \A y \in S : x >= y
  BY <1>2
<1>4. Max(S) \in S /\ \A y \in S : Max(S) >= y
  BY <1>3 DEF Max
<1> QED BY <1>4

-----------------------------------------------------------------------------
(* What the aggregates of a track are *)

Speeds == Values \cup {None}
Tracks == [Times -> Fix \cup {None}]

LEMMA FixTimesFinite == ASSUME NEW track PROVE IsFiniteSet(FixTimes(track)) /\ FixTimes(track) \subseteq Times
<1>1. IsFiniteSet(Times)
  BY RetentionAssumption, FS_Interval DEF Times
<1> QED BY <1>1, FS_Subset DEF FixTimes

LEMMA CountIs == ASSUME NEW track
                 PROVE  Count(track) \in Nat /\ (Count(track) = 0 <=> FixTimes(track) = {})
  BY FixTimesFinite, FS_CardinalityType, FS_EmptySet DEF Count

LEMMA LargestIs ==
  ASSUME NEW S, IsFiniteSet(S), S \subseteq Speeds
  PROVE  /\ Largest(S) \in Speeds
         /\ \A y \in S : y # None => Largest(S) # None /\ Largest(S) >= y
<1>1. CASE S \subseteq {None}
  BY <1>1 DEF Largest, Speeds
<1>2. CASE ~(S \subseteq {None})
  <2>1. IsFiniteSet(S \ {None}) /\ S \ {None} \subseteq Int /\ S \ {None} # {}
    <3>1. IsFiniteSet(S \ {None})
      BY FS_RemoveElement
    <3>2. \A y \in S : y # None => y \in Nat
      BY RetentionAssumption DEF Speeds
    <3>3. S \ {None} # {}
      BY <1>2
    <3> QED BY <3>1, <3>2, <3>3
  <2>2. Max(S \ {None}) \in S \ {None} /\ \A y \in S \ {None} : y <= Max(S \ {None})
    BY <2>1, MaxOfFinite
  <2>3. Largest(S) = Max(S \ {None})
    BY <1>2 DEF Largest
  <2>4. \A y \in S \ {None} : y \in Int
    BY <2>1
  <2> QED BY <2>2, <2>3, <2>4
<1> QED BY <1>1, <1>2

LEMMA RaisedIs ==
  ASSUME NEW old \in Speeds, NEW v \in Values
  PROVE  /\ Raised(old, v) \in Values /\ Raised(old, v) >= v
         /\ old # None => Raised(old, v) >= old
<1>1. v \in Nat /\ (old # None => old \in Nat)
  BY RetentionAssumption DEF Speeds
<1> QED BY <1>1 DEF Raised, Speeds

LEMMA ImageFinite ==
  ASSUME NEW S, IsFiniteSet(S), NEW f, DOMAIN f = S PROVE IsFiniteSet({f[x] : x \in S})
<1> DEFINE T == {f[x] : x \in S}
           g == [x \in S |-> f[x]]
<1>1. g \in Surjection(S, T)
  BY DEF Surjection
<1>2. IsFiniteSet(T)
  <2> HIDE DEF g, T
  <2> QED BY <1>1, FS_Surjection
<1> QED BY <1>2

LEMMA FarIs ==
  ASSUME NEW track \in Tracks
  PROVE  /\ Far(track) \in Speeds
         /\ \A t \in FixTimes(track) : Far(track) # None /\ Far(track) >= track[t].dist
<1> DEFINE f == [t \in FixTimes(track) |-> track[t].dist]
           S == {track[t].dist : t \in FixTimes(track)}
<1>1. \A t \in FixTimes(track) : track[t].dist \in Values
  BY DEF FixTimes, Tracks, Fix
<1>2. S = {f[t] : t \in FixTimes(track)} /\ DOMAIN f = FixTimes(track)
  OBVIOUS
<1>3. IsFiniteSet(S)
  <2> HIDE DEF f, S
  <2> QED BY <1>2, FixTimesFinite, ImageFinite
<1>4. S \subseteq Speeds
  BY <1>1 DEF Speeds
<1>5. Far(track) = Largest(S)
  BY DEF Far
<1>6. \A y \in S : y # None
  BY <1>1, RetentionAssumption
<1> HIDE DEF S
<1>7. \A y \in S : Largest(S) # None /\ Largest(S) >= y
  BY <1>3, <1>4, <1>6, LargestIs
<1>8. Far(track) \in Speeds /\ \A y \in S : Far(track) # None /\ Far(track) >= y
  BY <1>3, <1>4, <1>5, <1>7, LargestIs
<1> QED BY <1>8 DEF S

LEMMA MaxGsIs == ASSUME NEW track \in Tracks PROVE MaxGs(track) \in Speeds
<1> DEFINE f == [t \in FixTimes(track) |-> track[t].gs]
           S == {track[t].gs : t \in FixTimes(track)}
<1>1. S = {f[t] : t \in FixTimes(track)} /\ DOMAIN f = FixTimes(track)
  OBVIOUS
<1>2. IsFiniteSet(S)
  <2> HIDE DEF f, S
  <2> QED BY <1>1, FixTimesFinite, ImageFinite
<1>3. S \subseteq Speeds
  BY DEF FixTimes, Tracks, Fix, Speeds
<1>4. MaxGs(track) = Largest(S)
  BY DEF MaxGs
<1> HIDE DEF S
<1> QED BY <1>2, <1>3, <1>4, LargestIs

-----------------------------------------------------------------------------
(* The inductive invariant *)

\* scan results; orphans holds a maximum for each flight found.
Scripts == [kind: Kinds, flight: Ids, ids: SUBSET Times, orphans: UNION {[D -> Speeds] : D \in SUBSET Ids}]

\* The rows read for a repair may have lost fixes since, never gained one.
Snapshot ==
    rows # None =>
      /\ pc = "repair" /\ rows \in [flight: Ids, track: Tracks]
      /\ \A t \in Times : pos[rows.flight][t] # None =>
           rows.track[t] # None /\ rows.track[t].dist = pos[rows.flight][t].dist

\* A row reaches as far as its fixes, in time and in space.
Covers ==
    \A f \in Ids : \A t \in Times : pos[f][t] # None =>
      /\ flights[f] # None /\ t <= flights[f].last
      /\ flights[f].far # None /\ flights[f].far >= pos[f][t].dist

Bookkeeping ==
    /\ opened \in 0..MaxFlights /\ cutoff \in Int
    /\ \A f \in Ids : f > opened => flights[f] = None
    /\ script # None => script \in Scripts

RInv == TypeOK /\ Bookkeeping /\ Snapshot /\ Covers

LEMMA InitR == ASSUME Init PROVE RInv
<1> USE RetentionAssumption, RowAssumption DEF Init
<1>1. TypeOK BY DEF TypeOK, Ids, Times
<1>2. Bookkeeping BY DEF Bookkeeping
<1>3. Snapshot /\ Covers BY DEF Snapshot, Covers
<1> QED BY <1>1, <1>2, <1>3 DEF RInv

\* Steps that write neither flights nor fixes.
LEMMA QuietSteps ==
  ASSUME RInv, Tick \/ BeginPurge \/ SelectCrossing \/ ReadCrossing \/ EndRepair \/ PurgeAborted
               \/ EndScript \/ (\E k \in Kinds : Scan(k)) \/ UNCHANGED vars
  PROVE  RInv'
<1> USE RetentionAssumption, RowAssumption DEF RInv, TypeOK, Bookkeeping, Snapshot, Covers, database, purge, bounds
<1>1. CASE Tick BY <1>1 DEF Tick, Times
<1>2. CASE BeginPurge BY <1>2 DEF BeginPurge, Times
<1>3. CASE SelectCrossing BY <1>3 DEF SelectCrossing, CrossingIds
<1>4. CASE ReadCrossing
  <2>1. PICK f \in todo : rows' = [flight |-> f, track |-> pos[f]]
    BY <1>4 DEF ReadCrossing
  <2>2. pc' = "repair" /\ UNCHANGED <<clock, flights, pos, open, opened, pc, cutoff, todo, script>>
    BY <1>4 DEF ReadCrossing
  <2> QED BY <2>1, <2>2 DEF Tracks
<1>5. CASE EndRepair BY <1>5 DEF EndRepair
<1>6. CASE PurgeAborted BY <1>6 DEF PurgeAborted
<1>7. CASE EndScript BY <1>7 DEF EndScript
<1>8. ASSUME NEW k \in Kinds, Scan(k) PROVE RInv'
  <2>1. PICK f \in Ids, S \in SUBSET Times :
          script' = [kind |-> k, flight |-> f, ids |-> S,
              orphans |-> IF k = "spikes"
                          THEN [g \in OrphanMaxima \ (IF S = {} THEN {} ELSE {f}) |-> MaxGs(pos[g])]
                          ELSE <<>>]
    BY <1>8 DEF Scan
  <2>2. script'.orphans \in UNION {[D -> Speeds] : D \in SUBSET Ids}
    <3>1. CASE k = "spikes"
      <4> DEFINE D == OrphanMaxima \ (IF S = {} THEN {} ELSE {f})
      <4>1. D \in SUBSET Ids
        BY DEF OrphanMaxima
      <4>2. \A g \in D : MaxGs(pos[g]) \in Speeds
        BY <4>1, MaxGsIs DEF Tracks
      <4>3. script'.orphans = [g \in D |-> MaxGs(pos[g])]
        BY <2>1, <3>1
      <4> HIDE DEF D
      <4>4. script'.orphans \in [D -> Speeds]
        BY <4>2, <4>3
      <4> QED BY <4>1, <4>4
    <3>2. CASE k # "spikes"
      <4>1. script'.orphans = <<>>
        BY <2>1, <3>2
      <4>2. <<>> \in [{} -> Speeds]
        OBVIOUS
      <4>3. \E D \in SUBSET Ids : script'.orphans \in [D -> Speeds]
        BY <4>1, <4>2
      <4> QED BY <4>3
    <3> QED BY <3>1, <3>2
  <2>3. script' \in Scripts
    BY <2>1, <2>2 DEF Scripts
  <2>4. UNCHANGED <<clock, flights, pos, open, opened, pc, cutoff, todo, rows>>
    BY <1>8 DEF Scan
  <2> QED BY <2>3, <2>4
<1>9. CASE UNCHANGED vars BY <1>9 DEF vars
<1> QED BY <1>1, <1>2, <1>3, <1>4, <1>5, <1>6, <1>7, <1>8, <1>9

\* Steps that lose fixes or write rows, and hand out no id: types and cover
\* are what is left to show.
LEMMA Assemble ==
  ASSUME RInv, flights' \in [Ids -> Flight \cup {None}], pos' \in [Ids -> Tracks], Covers',
         \A f \in Ids : \A t \in Times : pos'[f][t] # None =>
            pos[f][t] # None /\ pos'[f][t].dist = pos[f][t].dist,
         \A f \in Ids : flights[f] = None => flights'[f] = None,
         \A f \in open' : flights'[f] # None, open' \subseteq open,
         rows' \in {None, rows}, rows' # None => todo' = todo /\ pc' = pc, todo' \subseteq todo,
         pc' \in {"poll", "delete", "cross", "repair", "recount", "drop"},
         cutoff' \in {0, cutoff}, UNCHANGED <<clock, opened>>, script' # None => script' \in Scripts
  PROVE  RInv'
<1> USE RetentionAssumption DEF RInv
<1>1. TypeOK'
  <2>1. \A f \in Ids : flights'[f] = None => f \notin open' /\ \A t \in Times : pos'[f][t] = None
    BY DEF Covers
  <2> QED BY <2>1 DEF TypeOK, Tracks
<1>2. Bookkeeping'
  BY DEF Bookkeeping
<1>3. Snapshot'
  BY DEF Snapshot, TypeOK
<1> QED BY <1>1, <1>2, <1>3

LEMMA OpenR == ASSUME RInv, OpenFlight PROVE RInv'
<1> USE RetentionAssumption, RowAssumption DEF RInv
<1> DEFINE f == opened + 1
<1>1. PICK v \in Values :
        /\ flights' = [flights EXCEPT ![f] = [first |-> clock, last |-> clock, total |-> 1, far |-> v, gs |-> v]]
        /\ pos' = [pos EXCEPT ![f][clock] = [dist |-> v, gs |-> v]]
  BY DEF OpenFlight
<1>2. /\ opened' = f /\ open' = open \cup {f} /\ pc = "poll" /\ opened < MaxFlights
      /\ UNCHANGED <<clock, pc, cutoff, todo, rows, script>>
  BY DEF OpenFlight, purge
<1>3. f \in Ids /\ clock \in Times /\ flights[f] = None /\ \A t \in Times : pos[f][t] = None
  BY <1>2 DEF Bookkeeping, TypeOK, Ids
<1>4. rows = None
  BY <1>2 DEF Snapshot
<1>5. flights' \in [Ids -> Flight \cup {None}] /\ flights'[f] # None
  BY <1>1, <1>3 DEF TypeOK, Flight
<1>6. /\ pos'[f] = [pos[f] EXCEPT ![clock] = [dist |-> v, gs |-> v]]
      /\ \A g \in Ids \ {f} : pos'[g] = pos[g] /\ flights'[g] = flights[g]
  BY <1>1, <1>3 DEF TypeOK
<1>7. pos' \in [Ids -> [Times -> Fix \cup {None}]]
  BY <1>1, <1>3 DEF TypeOK, Fix
<1>8. Covers'
  <2>1. ASSUME NEW g \in Ids, NEW t \in Times, pos'[g][t] # None
        PROVE  /\ flights'[g] # None /\ t <= flights'[g].last
               /\ flights'[g].far # None /\ flights'[g].far >= pos'[g][t].dist
    <3>1. CASE g # f
      BY <1>6, <2>1, <3>1 DEF Covers
    <3>2. CASE g = f
      <4>1. t = clock
        BY <1>3, <1>6, <2>1, <3>2 DEF TypeOK
      <4>2. pos'[f][clock].dist = v
        BY <1>3, <1>6 DEF TypeOK
      <4>3. flights'[f].last = clock /\ flights'[f].far = v
        BY <1>1, <1>3 DEF TypeOK
      <4> QED BY <1>3, <1>5, <3>2, <4>1, <4>2, <4>3 DEF Times
    <3> QED BY <3>1, <3>2
  <2> QED BY <2>1 DEF Covers
<1>9. Bookkeeping'
  BY <1>2, <1>3, <1>6 DEF Bookkeeping, Ids
<1>10. TypeOK'
  <2>1. \A g \in Ids : flights'[g] = None => g \notin open' /\ \A t \in Times : pos'[g][t] = None
    BY <1>2, <1>5, <1>6 DEF TypeOK
  <2> QED BY <1>2, <1>3, <1>5, <1>7, <2>1 DEF TypeOK
<1> QED BY <1>2, <1>4, <1>8, <1>9, <1>10 DEF Snapshot

LEMMA InsertR == ASSUME RInv, InsertFix PROVE RInv'
<1> USE RetentionAssumption, RowAssumption DEF RInv
<1>1. PICK f \in open, v \in Values :
         /\ pos[f][clock] = None /\ flights[f].last < clock
         /\ pos' = [pos EXCEPT ![f][clock] = [dist |-> v, gs |-> v]]
         /\ flights' = [flights EXCEPT ![f].last = clock, ![f].total = @ + 1,
                                       ![f].far = Raised(@, v), ![f].gs = Raised(@, v)]
  BY DEF InsertFix
<1>2. pc = "poll" /\ UNCHANGED <<clock, open, opened, pc, cutoff, todo, rows, script>>
  BY DEF InsertFix, purge
<1>3. f \in Ids /\ clock \in Times /\ flights[f] \in Flight
  BY DEF TypeOK
<1>4. rows = None
  BY <1>2 DEF Snapshot
<1> DEFINE far == Raised(flights[f].far, v)
           row == [first |-> flights[f].first, last |-> clock, total |-> flights[f].total + 1,
                   far |-> far, gs |-> Raised(flights[f].gs, v)]
<1>5. /\ flights[f].first \in Times /\ flights[f].total \in Nat
      /\ flights[f].far \in Speeds /\ flights[f].gs \in Speeds
  BY <1>3 DEF Flight, Speeds
<1>6. /\ far \in Values /\ Raised(flights[f].gs, v) \in Values /\ far >= v
      /\ flights[f].far # None => far >= flights[f].far
  BY <1>5, RaisedIs
<1>7. flights'[f] = row
  <2>1. flights'[f] = [flights[f] EXCEPT !.last = clock, !.total = flights[f].total + 1,
                         !.far = Raised(flights[f].far, v), !.gs = Raised(flights[f].gs, v)]
    BY <1>1, <1>3 DEF TypeOK
  <2> QED BY <1>3, <2>1 DEF Flight
<1> HIDE DEF far
<1>8. /\ flights' \in [Ids -> Flight \cup {None}] /\ flights'[f] # None
      /\ flights'[f].last = clock /\ flights'[f].far = far
  <2>1. row \in Flight
    BY <1>3, <1>5, <1>6 DEF Flight, Speeds
  <2>2. flights' = [g \in Ids |-> flights'[g]] /\ \A g \in Ids \ {f} : flights'[g] = flights[g]
    BY <1>1, <1>3 DEF TypeOK
  <2>3. \A g \in Ids : flights'[g] \in Flight \cup {None}
    BY <1>7, <2>1, <2>2 DEF TypeOK
  <2>4. flights' \in [Ids -> Flight \cup {None}]
    BY <2>2, <2>3
  <2> QED BY <1>7, <2>1, <2>4
<1>9. /\ pos'[f] = [pos[f] EXCEPT ![clock] = [dist |-> v, gs |-> v]]
      /\ \A g \in Ids \ {f} : pos'[g] = pos[g] /\ flights'[g] = flights[g]
  BY <1>1, <1>3 DEF TypeOK
<1>10. pos' \in [Ids -> [Times -> Fix \cup {None}]]
  BY <1>1, <1>3 DEF TypeOK, Fix
<1>11. Covers'
  <2>1. ASSUME NEW g \in Ids, NEW t \in Times, pos'[g][t] # None
        PROVE  /\ flights'[g] # None /\ t <= flights'[g].last
               /\ flights'[g].far # None /\ flights'[g].far >= pos'[g][t].dist
    <3>1. CASE g # f
      BY <1>9, <2>1, <3>1 DEF Covers
    <3>2. CASE g = f /\ t = clock
      <4>1. pos'[f][clock].dist = v
        BY <1>3, <1>9 DEF TypeOK
      <4>2. clock \in Int
        BY <1>3 DEF Times
      <4>3. far # None
        BY <1>6
      <4> QED BY <1>6, <1>8, <3>2, <4>1, <4>2, <4>3
    <3>3. CASE g = f /\ t # clock
      <4>1. pos'[f][t] = pos[f][t] /\ pos[f][t] # None
        BY <1>3, <1>9, <2>1, <3>3 DEF TypeOK
      <4>2. t <= flights[f].last /\ flights[f].far # None /\ flights[f].far >= pos[f][t].dist
        BY <1>3, <4>1 DEF Covers
      <4>3. pos[f][t] \in Fix
        BY <1>3, <4>1 DEF TypeOK
      <4>4. pos[f][t].dist \in Nat /\ flights[f].far \in Nat /\ far \in Nat
        BY <1>5, <1>6, <4>2, <4>3 DEF Fix, Speeds
      <4>5. flights[f].last \in Int /\ t \in Int /\ clock \in Int
        BY <1>3 DEF Flight, Times
      <4> QED BY <1>1, <1>6, <1>8, <3>3, <4>1, <4>2, <4>4, <4>5
    <3> QED BY <3>1, <3>2, <3>3
  <2> QED BY <2>1 DEF Covers
<1>12. Bookkeeping'
  BY <1>2, <1>3, <1>9 DEF Bookkeeping, TypeOK
<1>13. TypeOK'
  <2>1. \A g \in Ids : flights'[g] = None => g \notin open' /\ \A t \in Times : pos'[g][t] = None
    BY <1>2, <1>8, <1>9 DEF TypeOK
  <2> QED BY <1>2, <1>8, <1>10, <2>1 DEF TypeOK
<1> QED BY <1>2, <1>4, <1>11, <1>12, <1>13 DEF Snapshot

\* _close_flight and the end of the purge: whole flights go, with their fixes.
LEMMA DropR ==
  ASSUME RInv, NEW Gone \in SUBSET Ids, Gone \cap open' = {}, open' \subseteq open,
         flights' = [f \in Ids |-> IF f \in Gone THEN None ELSE flights[f]],
         pos' = [f \in Ids |-> IF f \in Gone THEN [t \in Times |-> None] ELSE pos[f]],
         rows = None, rows' = None, UNCHANGED <<clock, opened, todo, script>>,
         pc' = "poll", cutoff' \in {0, cutoff}
  PROVE  RInv'
<1>1. flights' \in [Ids -> Flight \cup {None}] /\ pos' \in [Ids -> Tracks]
  BY DEF RInv, TypeOK, Tracks
<1>2. \A f \in Ids : \A t \in Times : pos'[f][t] # None => f \notin Gone
  OBVIOUS
<1>3. Covers'
  BY <1>2 DEF RInv, Covers
<1>4. \A f \in open' : flights'[f] # None
  BY DEF RInv, TypeOK
<1>5. script' # None => script' \in Scripts
  BY DEF RInv, Bookkeeping
<1> QED BY <1>1, <1>2, <1>3, <1>4, <1>5, Assemble

LEMMA CloseR == ASSUME RInv, CloseFlight PROVE RInv'
<1>1. PICK f \in open :
         /\ open' = open \ {f}
         /\ \/ UNCHANGED <<flights, pos>>
            \/ /\ flights[f].total < MinKeep
               /\ flights' = [flights EXCEPT ![f] = None]
               /\ pos' = [pos EXCEPT ![f] = [t \in Times |-> None]]
  BY DEF CloseFlight
<1>2. f \in Ids /\ open \subseteq Ids /\ flights = [g \in Ids |-> flights[g]] /\ pos = [g \in Ids |-> pos[g]]
  BY DEF RInv, TypeOK
<1>3. pc = "poll" /\ UNCHANGED <<clock, opened, pc, cutoff, todo, rows, script>>
  BY DEF CloseFlight, purge
<1>4. rows = None
  BY <1>3 DEF RInv, Snapshot
<1>5. CASE UNCHANGED <<flights, pos>>
  <2>1. /\ flights' = [g \in Ids |-> IF g \in {} THEN None ELSE flights[g]]
        /\ pos' = [g \in Ids |-> IF g \in {} THEN [t \in Times |-> None] ELSE pos[g]]
    BY <1>2, <1>5
  <2>2. {} \in SUBSET Ids /\ {} \cap open' = {} /\ open' \subseteq open
    BY <1>1, <1>2
  <2>3. rows' = None /\ UNCHANGED <<clock, opened, todo, script>> /\ pc' = "poll" /\ cutoff' \in {0, cutoff}
    BY <1>3, <1>4
  <2> QED BY <1>4, <2>1, <2>2, <2>3, DropR
<1>6. CASE flights' = [flights EXCEPT ![f] = None] /\ pos' = [pos EXCEPT ![f] = [t \in Times |-> None]]
  <2>1. /\ flights' = [g \in Ids |-> IF g \in {f} THEN None ELSE flights[g]]
        /\ pos' = [g \in Ids |-> IF g \in {f} THEN [t \in Times |-> None] ELSE pos[g]]
    BY <1>2, <1>6
  <2>2. {f} \in SUBSET Ids /\ {f} \cap open' = {} /\ open' \subseteq open
    BY <1>1, <1>2
  <2>3. rows' = None /\ UNCHANGED <<clock, opened, todo, script>> /\ pc' = "poll" /\ cutoff' \in {0, cutoff}
    BY <1>3, <1>4
  <2> QED BY <1>4, <2>1, <2>2, <2>3, DropR
<1> QED BY <1>1, <1>5, <1>6

LEMMA EndR == ASSUME RInv, DropFlights PROVE RInv'
<1> DEFINE Gone == {f \in Ids : TooSmall(f)}
<1>1. /\ flights' = [f \in Ids |-> IF f \in Gone THEN None ELSE flights[f]]
      /\ pos' = [f \in Ids |-> IF f \in Gone THEN [t \in Times |-> None] ELSE pos[f]]
  BY DEF DropFlights
<1>2. /\ pc = "drop" /\ pc' = "poll" /\ cutoff' = 0
      /\ UNCHANGED <<clock, open, opened, todo, rows, script>>
  BY DEF DropFlights
<1>3. Gone \cap open = {}
  BY DEF TooSmall, Closed
<1>4. rows = None
  BY <1>2 DEF RInv, Snapshot
<1> HIDE DEF Gone
<1>5. Gone \in SUBSET Ids
  BY DEF Gone
<1> QED BY <1>1, <1>2, <1>3, <1>4, <1>5, DropR

LEMMA DeleteR == ASSUME RInv, DeleteBatch PROVE RInv'
<1>1. PICK S \in SUBSET Expired :
         pos' = [f \in Ids |-> [t \in Times |-> IF <<f, t>> \in S THEN None ELSE pos[f][t]]]
  BY DEF DeleteBatch
<1>2. /\ pc = "delete" /\ pc' \in {"cross", "delete"}
      /\ UNCHANGED <<clock, flights, open, opened, cutoff, todo, rows, script>>
  BY DEF DeleteBatch
<1>3. \A f \in Ids : \A t \in Times : pos'[f][t] # None => pos'[f][t] = pos[f][t]
  BY <1>1
<1>4. pos' \in [Ids -> Tracks]
  BY <1>1 DEF RInv, TypeOK, Tracks
<1>5. Covers'
  BY <1>2, <1>3 DEF RInv, Covers
<1>6. rows = None
  BY <1>2 DEF RInv, Snapshot
<1>7. flights' \in [Ids -> Flight \cup {None}] /\ \A f \in open : flights'[f] # None
  BY <1>2 DEF RInv, TypeOK
<1>8. script' # None => script' \in Scripts
  BY <1>2 DEF RInv, Bookkeeping
<1> QED BY <1>2, <1>3, <1>4, <1>5, <1>6, <1>7, <1>8, Assemble

\* Rows are rewritten: each keeps its end, and its distance or takes one that
\* covers the fixes that are left.
LEMMA RewriteR ==
  ASSUME RInv, flights' \in [Ids -> Flight \cup {None}], pos' \in [Ids -> Tracks],
         \A f \in Ids : \A t \in Times : pos'[f][t] # None =>
            pos[f][t] # None /\ pos'[f][t].dist = pos[f][t].dist,
         \A f \in Ids : flights[f] = None => flights'[f] = None,
         \A f \in Ids : flights[f] # None =>
            /\ flights'[f] # None /\ flights'[f].last = flights[f].last
            /\ \/ flights'[f].far = flights[f].far
               \/ \A t \in Times : pos'[f][t] # None =>
                     flights'[f].far # None /\ flights'[f].far >= pos'[f][t].dist,
         rows' \in {None, rows}, rows' # None => todo' = todo /\ pc' = pc, todo' \subseteq todo,
         pc' \in {"poll", "delete", "cross", "repair", "recount", "drop"},
         cutoff' = cutoff, UNCHANGED <<clock, open, opened>>, script' # None => script' \in Scripts
  PROVE  RInv'
<1>1. Covers'
  BY DEF RInv, Covers
<1>2. \A f \in open' : flights'[f] # None
  BY DEF RInv, TypeOK
<1> QED BY <1>1, <1>2, Assemble

\* total, far and gs of a row may be rewritten with what the fixes give.
LEMMA RowTyped ==
  ASSUME NEW row \in Flight
  PROVE  /\ \A n \in Nat : [row EXCEPT !.total = n] \in Flight
         /\ \A g \in Speeds : [row EXCEPT !.gs = g] \in Flight
         /\ \A d \in Speeds : [row EXCEPT !.far = d] \in Flight
         /\ \A n \in Nat, d, g \in Speeds : [row EXCEPT !.total = n, !.far = d, !.gs = g] \in Flight
  BY DEF Flight, Speeds

LEMMA RepairR == ASSUME RInv, UpdateCrossing PROVE RInv'
<1> DEFINE f == rows.flight
           new == Repaired(flights[f], rows.track)
<1>1. /\ pc = "repair" /\ rows # None /\ rows' = None /\ todo' = todo \ {f}
      /\ flights' = [flights EXCEPT ![f] = IF flights[f] = None THEN None ELSE new]
      /\ UNCHANGED <<clock, pos, open, opened, pc, cutoff, script>>
  BY DEF UpdateCrossing
<1>2. /\ f \in Ids /\ rows.track \in Tracks
      /\ \A t \in Times : pos[f][t] # None => rows.track[t] # None /\ rows.track[t].dist = pos[f][t].dist
  BY <1>1 DEF RInv, Snapshot
<1>3. /\ flights \in [Ids -> Flight \cup {None}] /\ pos \in [Ids -> Tracks]
      /\ script # None => script \in Scripts
  BY DEF RInv, TypeOK, Bookkeeping, Tracks
<1>4. ASSUME flights[f] # None
      PROVE  /\ new \in Flight /\ new.last = flights[f].last
             /\ \A t \in Times : pos[f][t] # None => new.far # None /\ new.far >= pos[f][t].dist
  <2>1. flights[f] \in Flight
    BY <1>2, <1>3, <1>4
  <2>2. CASE Count(rows.track) = 0
    <3>1. new = [flights[f] EXCEPT !.total = 0]
      BY <2>2 DEF Repaired
    <3>2. \A t \in Times : pos[f][t] = None
      BY <1>2, <2>2, CountIs DEF FixTimes
    <3>3. new \in Flight /\ new.last = flights[f].last
      BY <2>1, <3>1 DEF Flight
    <3> QED BY <3>2, <3>3
  <2>3. CASE Count(rows.track) # 0
    <3>1. new = [flights[f] EXCEPT !.total = Count(rows.track), !.far = Far(rows.track), !.gs = MaxGs(rows.track)]
      BY <2>3 DEF Repaired
    <3>2. /\ Count(rows.track) \in Nat /\ Far(rows.track) \in Speeds /\ MaxGs(rows.track) \in Speeds
          /\ \A t \in FixTimes(rows.track) :
               Far(rows.track) # None /\ Far(rows.track) >= rows.track[t].dist
      BY <1>2, CountIs, FarIs, MaxGsIs
    <3>3. new \in Flight
      <4>1. \A n \in Nat, d, g \in Speeds : [flights[f] EXCEPT !.total = n, !.far = d, !.gs = g] \in Flight
        BY <2>1, RowTyped
      <4> QED BY <3>1, <3>2, <4>1
    <3>4. new.last = flights[f].last /\ new.far = Far(rows.track)
      BY <2>1, <3>1 DEF Flight
    <3>5. \A t \in Times : pos[f][t] # None => t \in FixTimes(rows.track)
      BY <1>2 DEF FixTimes
    <3> QED BY <1>2, <3>2, <3>3, <3>4, <3>5
  <2> QED BY <2>2, <2>3
<1> HIDE DEF new, f
<1>5. flights' \in [Ids -> Flight \cup {None}]
  BY <1>1, <1>2, <1>3, <1>4
<1>6. \A g \in Ids : flights[g] = None => flights'[g] = None
  BY <1>1, <1>2, <1>3
<1>7. \A g \in Ids : flights[g] # None =>
            /\ flights'[g] # None /\ flights'[g].last = flights[g].last
            /\ \/ flights'[g].far = flights[g].far
               \/ \A t \in Times : pos'[g][t] # None =>
                     flights'[g].far # None /\ flights'[g].far >= pos'[g][t].dist
  <2>1. ASSUME NEW g \in Ids \ {f} PROVE flights'[g] = flights[g]
    BY <1>1, <1>2, <1>3, <2>1
  <2>2. flights[f] # None => flights'[f] = new /\ new # None
    BY <1>1, <1>2, <1>3, <1>4, RowAssumption
  <2> QED BY <1>1, <1>4, <2>1, <2>2
<1>8. /\ pos' \in [Ids -> Tracks] /\ (script' # None => script' \in Scripts)
      /\ \A g \in Ids : \A t \in Times : pos'[g][t] # None =>
            pos[g][t] # None /\ pos'[g][t].dist = pos[g][t].dist
  BY <1>1, <1>3
<1>9. /\ rows' \in {None, rows} /\ (rows' # None => todo' = todo /\ pc' = pc) /\ todo' \subseteq todo
      /\ pc' \in {"poll", "delete", "cross", "repair", "recount", "drop"}
      /\ cutoff' = cutoff /\ UNCHANGED <<clock, open, opened>>
  BY <1>1
<1> QED BY <1>5, <1>6, <1>7, <1>8, <1>9, RewriteR

LEMMA RecountR == ASSUME RInv, RecountBatch PROVE RInv'
<1>1. PICK batch \in SUBSET OldIds :
        /\ flights' = [f \in Ids |-> IF f \in batch THEN [flights[f] EXCEPT !.total = Count(pos[f])]
                                     ELSE flights[f]]
        /\ pc' \in {"drop", "recount"}
  BY DEF RecountBatch
<1>2. pc = "recount" /\ UNCHANGED <<clock, pos, open, opened, cutoff, todo, rows, script>>
  BY DEF RecountBatch
<1>3. rows = None
  BY <1>2 DEF RInv, Snapshot
<1>4. /\ flights \in [Ids -> Flight \cup {None}] /\ pos \in [Ids -> Tracks]
      /\ script # None => script \in Scripts
  BY DEF RInv, TypeOK, Bookkeeping, Tracks
<1>5. ASSUME NEW f \in batch
      PROVE  /\ f \in Ids /\ flights[f] # None /\ flights'[f] \in Flight
             /\ flights'[f].last = flights[f].last /\ flights'[f].far = flights[f].far
  <2>1. f \in Ids /\ flights[f] # None
    BY <1>5 DEF OldIds, Closed
  <2>2. flights[f] \in Flight
    BY <1>4, <2>1
  <2>3. flights'[f] = [flights[f] EXCEPT !.total = Count(pos[f])] /\ Count(pos[f]) \in Nat
    BY <1>1, <1>5, <2>1, CountIs
  <2> QED BY <2>1, <2>2, <2>3 DEF Flight
<1>6. \A f \in Ids \ batch : flights'[f] = flights[f]
  BY <1>1
<1>7. flights' \in [Ids -> Flight \cup {None}]
  BY <1>1, <1>4, <1>5, <1>6
<1>8. \A f \in Ids : flights[f] = None => flights'[f] = None
  BY <1>5, <1>6
<1>9. \A f \in Ids : flights[f] # None =>
        flights'[f] # None /\ flights'[f].last = flights[f].last /\ flights'[f].far = flights[f].far
  BY <1>5, <1>6, RowAssumption
<1>10. pc' \in {"poll", "delete", "cross", "repair", "recount", "drop"}
  BY <1>1
<1> QED BY <1>2, <1>3, <1>4, <1>7, <1>8, <1>9, <1>10, RewriteR

LEMMA ScriptR == ASSUME RInv, ApplyGhosts \/ ApplySpeeds \/ ApplyOrphans PROVE RInv'
<1>1. /\ flights \in [Ids -> Flight \cup {None}] /\ pos \in [Ids -> Tracks] /\ script \in Scripts
      /\ UNCHANGED <<clock, open, opened, pc, cutoff, todo, rows>>
      /\ pc \in {"poll", "delete", "cross", "repair", "recount", "drop"}
  BY DEF ApplyGhosts, ApplySpeeds, ApplyOrphans, purge, RInv, TypeOK, Bookkeeping, Tracks
<1> DEFINE f == script.flight
<1>2. f \in Ids
  BY <1>1 DEF Scripts
<1>3. CASE ApplyGhosts
  <2> DEFINE track == [t \in Times |-> IF t \in script.ids THEN None ELSE pos[f][t]]
  <2>1. /\ pos' = [pos EXCEPT ![f] = track]
        /\ flights' = [flights EXCEPT ![f] = IF flights[f] = None THEN None ELSE [flights[f] EXCEPT !.far = Far(track)]]
        /\ script' = [script EXCEPT !.ids = {}]
    BY <1>3 DEF ApplyGhosts
  <2>2. track \in Tracks
    BY <1>1, <1>2 DEF Tracks
  <2>3. \A t \in Times : track[t] # None => track[t] = pos[f][t]
    OBVIOUS
  <2>4. /\ Far(track) \in Speeds
        /\ \A t \in Times : track[t] # None => Far(track) # None /\ Far(track) >= track[t].dist
    BY <2>2, FarIs DEF FixTimes
  <2> HIDE DEF track
  <2>5. /\ pos'[f] = track /\ \A g \in Ids \ {f} : pos'[g] = pos[g] /\ flights'[g] = flights[g]
        /\ pos' \in [Ids -> Tracks] /\ script' \in Scripts
    <3>1. script' \in Scripts
      BY <1>1, <2>1 DEF Scripts
    <3> QED BY <1>1, <1>2, <2>1, <2>2, <3>1
  <2>6. flights[f] = None => flights'[f] = None
    BY <1>1, <1>2, <2>1
  <2>7. ASSUME flights[f] # None
        PROVE  /\ flights'[f] \in Flight /\ flights'[f] # None
               /\ flights'[f].last = flights[f].last /\ flights'[f].far = Far(track)
    <3>1. flights[f] \in Flight
      BY <1>1, <1>2, <2>7
    <3>2. flights'[f] = [flights[f] EXCEPT !.far = Far(track)]
      BY <1>1, <1>2, <2>1, <2>7
    <3>3. flights'[f] \in Flight
      <4>1. \A d \in Speeds : [flights[f] EXCEPT !.far = d] \in Flight
        BY <3>1, RowTyped
      <4> QED BY <2>4, <3>2, <4>1
    <3> QED BY <3>1, <3>2, <3>3, RowAssumption DEF Flight
  <2>8. flights' \in [Ids -> Flight \cup {None}]
    BY <1>1, <1>2, <2>1, <2>5, <2>6, <2>7
  <2>9. \A g \in Ids : \A t \in Times : pos'[g][t] # None =>
            pos[g][t] # None /\ pos'[g][t].dist = pos[g][t].dist
    BY <2>3, <2>5
  <2>10. \A g \in Ids : flights[g] # None =>
            /\ flights'[g] # None /\ flights'[g].last = flights[g].last
            /\ \/ flights'[g].far = flights[g].far
               \/ \A t \in Times : pos'[g][t] # None =>
                     flights'[g].far # None /\ flights'[g].far >= pos'[g][t].dist
    BY <2>4, <2>5, <2>7
  <2>11. \A g \in Ids : flights[g] = None => flights'[g] = None
    BY <2>5, <2>6
  <2> QED BY <1>1, <2>5, <2>8, <2>9, <2>10, <2>11, RewriteR
<1>4. CASE ApplySpeeds
  <2> DEFINE track == [t \in Times |-> IF t \in script.ids THEN Blanked(pos[f][t]) ELSE pos[f][t]]
  <2>1. /\ pos' = [pos EXCEPT ![f] = track]
        /\ flights' = [flights EXCEPT ![f] = IF flights[f] = None THEN None ELSE [flights[f] EXCEPT !.gs = MaxGs(track)]]
        /\ script' = [script EXCEPT !.ids = {}]
    BY <1>4 DEF ApplySpeeds
  <2>2. \A t \in Times : /\ track[t] \in Fix \cup {None}
                         /\ track[t] # None => pos[f][t] # None /\ track[t].dist = pos[f][t].dist
    BY <1>1, <1>2 DEF Tracks, Blanked, Fix
  <2>3. track \in Tracks
    BY <2>2 DEF Tracks
  <2>4. MaxGs(track) \in Speeds
    BY <2>3, MaxGsIs
  <2> HIDE DEF track
  <2>5. /\ pos'[f] = track /\ \A g \in Ids \ {f} : pos'[g] = pos[g] /\ flights'[g] = flights[g]
        /\ pos' \in [Ids -> Tracks] /\ script' \in Scripts
    <3>1. script' \in Scripts
      BY <1>1, <2>1 DEF Scripts
    <3> QED BY <1>1, <1>2, <2>1, <2>3, <3>1
  <2>6. flights[f] = None => flights'[f] = None
    BY <1>1, <1>2, <2>1
  <2>7. ASSUME flights[f] # None
        PROVE  /\ flights'[f] \in Flight /\ flights'[f] # None
               /\ flights'[f].last = flights[f].last /\ flights'[f].far = flights[f].far
    <3>1. flights[f] \in Flight
      BY <1>1, <1>2, <2>7
    <3>2. flights'[f] = [flights[f] EXCEPT !.gs = MaxGs(track)]
      BY <1>1, <1>2, <2>1, <2>7
    <3>3. flights'[f] \in Flight
      <4>1. \A d \in Speeds : [flights[f] EXCEPT !.gs = d] \in Flight
        BY <3>1, RowTyped
      <4> QED BY <2>4, <3>2, <4>1
    <3> QED BY <3>1, <3>2, <3>3, RowAssumption DEF Flight
  <2>8. flights' \in [Ids -> Flight \cup {None}]
    BY <1>1, <1>2, <2>1, <2>5, <2>6, <2>7
  <2>9. \A g \in Ids : \A t \in Times : pos'[g][t] # None =>
            pos[g][t] # None /\ pos'[g][t].dist = pos[g][t].dist
    BY <2>2, <2>5
  <2>10. \A g \in Ids : flights[g] # None =>
            flights'[g] # None /\ flights'[g].last = flights[g].last /\ flights'[g].far = flights[g].far
    BY <2>5, <2>7
  <2>11. \A g \in Ids : flights[g] = None => flights'[g] = None
    BY <2>5, <2>6
  <2> QED BY <1>1, <2>5, <2>8, <2>9, <2>10, <2>11, RewriteR
<1>5. CASE ApplyOrphans
  <2> DEFINE found == DOMAIN script.orphans
  <2>1. /\ flights' = [g \in Ids |-> IF g \in found /\ flights[g] # None
                                     THEN [flights[g] EXCEPT !.gs = script.orphans[g]] ELSE flights[g]]
        /\ script' = None /\ pos' = pos
    BY <1>5 DEF ApplyOrphans
  <2>2. \A g \in found : script.orphans[g] \in Speeds
    BY <1>1 DEF Scripts
  <2>3. ASSUME NEW g \in Ids, flights[g] # None
        PROVE  /\ flights'[g] \in Flight /\ flights'[g] # None
               /\ flights'[g].last = flights[g].last /\ flights'[g].far = flights[g].far
    <3>1. flights[g] \in Flight
      BY <1>1, <2>3
    <3>2. CASE g \in found
      <4>1. flights'[g] = [flights[g] EXCEPT !.gs = script.orphans[g]]
        BY <2>1, <2>3, <3>2
      <4>2. \A d \in Speeds : [flights[g] EXCEPT !.gs = d] \in Flight
        BY <3>1, RowTyped
      <4>3. flights'[g] \in Flight
        BY <2>2, <3>2, <4>1, <4>2
      <4> QED BY <3>1, <4>1, <4>3, RowAssumption DEF Flight
    <3>3. CASE g \notin found
      BY <2>1, <2>3, <3>1, <3>3
    <3> QED BY <3>2, <3>3
  <2>4. \A g \in Ids : flights[g] = None => flights'[g] = None
    BY <2>1
  <2>5. flights' \in [Ids -> Flight \cup {None}]
    BY <2>1, <2>3, <2>4
  <2> QED BY <1>1, <2>1, <2>3, <2>4, <2>5, RewriteR
<1> QED BY <1>3, <1>4, <1>5

LEMMA NextR == ASSUME RInv, [Next]_vars PROVE RInv'
  BY QuietSteps, OpenR, InsertR, CloseR, DeleteR, RepairR, RecountR, EndR, ScriptR DEF Next, PurgeStep

-----------------------------------------------------------------------------
\* Aggregates never fall behind the data: whatever the purge, a script and the
\* polls commit between each other's steps, a flight's farthest distance is at
\* least that of each of its fixes (_purge, max_distance_after_purge).
THEOREM FarCoversFixesAlways == Spec => []FarCoversFixes
<1>1. RInv => FarCoversFixes
  BY DEF RInv, Covers, FarCoversFixes, FixTimes
<1> QED BY InitR, NextR, <1>1, PTL DEF Spec

\* The purge loses no fix within the retention, neither by the deletion of
\* fixes nor by the cascade from a dropped flight (_purge).
THEOREM FreshFixesKeptAlways == Spec => FreshFixesKept
<1> DEFINE Kept == pc # "poll" => \A f \in Ids : \A t \in FixTimes(pos[f]) :
         pos'[f][t] = None => t < cutoff \/ (script # None /\ f = script.flight /\ t \in script.ids)
<1>1. ASSUME RInv, Next PROVE Kept
  <2>1. CASE DeleteBatch
    BY <2>1 DEF DeleteBatch, Expired, FixTimes
  <2>2. CASE DropFlights
    <3>1. ASSUME NEW f \in Ids, NEW t \in FixTimes(pos[f]), pos'[f][t] = None PROVE t < cutoff
      <4>1. t \in Times /\ pos[f][t] # None
        BY DEF FixTimes
      <4>2. TooSmall(f)
        BY <2>2, <3>1, <4>1 DEF DropFlights
      <4>3. flights[f] \in Flight /\ t <= flights[f].last /\ cutoff \in Int
        BY <1>1, <4>1 DEF RInv, Covers, TypeOK, Bookkeeping
      <4> QED BY <4>1, <4>2, <4>3, RetentionAssumption DEF TooSmall, Flight, Times
    <3> QED BY <3>1
  <2>3. CASE ApplyGhosts
    BY <1>1, <2>3 DEF ApplyGhosts, RInv, TypeOK, FixTimes
  <2>4. CASE ApplySpeeds
    BY <1>1, <2>4 DEF ApplySpeeds, RInv, TypeOK, FixTimes
  <2>5. CASE pos' = pos \/ pc = "poll"
    BY <2>5 DEF FixTimes
  <2> QED
    BY <1>1, <2>1, <2>2, <2>3, <2>4, <2>5
       DEF Next, PurgeStep, Tick, OpenFlight, InsertFix, CloseFlight, BeginPurge, SelectCrossing, ReadCrossing,
           UpdateCrossing, EndRepair, RecountBatch, PurgeAborted, Scan, ApplyOrphans, EndScript, database
<1>2. ASSUME RInv, [Next]_vars PROVE [Kept]_vars
  BY <1>1, <1>2
<1> QED BY InitR, NextR, <1>2, PTL DEF Spec, FreshFixesKept

-----------------------------------------------------------------------------
(* What a purge has done by the time it drops flights *)

Crossing(f) == flights[f] # None /\ flights[f].first < cutoff /\ flights[f].last >= cutoff

Exact(f) ==
    /\ flights[f].total = Count(pos[f])
    /\ Count(pos[f]) > 0 => flights[f].far = Far(pos[f]) /\ flights[f].gs = MaxGs(pos[f])

\* The expired fixes are gone; a crossing flight waits for its repair, is repaired, or
\* was written by a script; what was read for a repair is still what is stored.
Progress ==
    /\ pc \in {"cross", "repair", "recount", "drop"} => Expired = {}
    /\ pc \in {"repair", "recount", "drop"} =>
         \A f \in Ids \ (open \cup wrote) :
            Crossing(f) => Exact(f) \/ (pc = "repair" /\ f \in todo)
    /\ rows # None /\ rows.flight \notin wrote => rows.track = pos[rows.flight]

LEMMA ExpiredFinite == IsFiniteSet(Expired)
<1>1. IsFiniteSet(Ids) /\ IsFiniteSet(Times)
  BY RetentionAssumption, FS_Interval DEF Ids, Times
<1>2. IsFiniteSet(Ids \X Times)
  BY <1>1, FS_Product
<1> QED BY <1>2, FS_Subset DEF Expired

\* A batch that is not full is all there was.
LEMMA DeleteP == ASSUME RInv, Progress, DeleteBatch PROVE Progress'
<1>1. PICK S \in SUBSET Expired :
        /\ Cardinality(S) = Min({Batch, Cardinality(Expired)})
        /\ pos' = [f \in Ids |-> [t \in Times |-> IF <<f, t>> \in S THEN None ELSE pos[f][t]]]
        /\ pc' = IF Cardinality(S) < Batch THEN "cross" ELSE "delete"
  BY DEF DeleteBatch
<1>2. pc = "delete" /\ rows = None /\ rows' = None /\ cutoff' = cutoff
  BY DEF DeleteBatch, RInv, Snapshot
<1>3. Cardinality(Expired) \in Nat /\ Batch \in Nat
  BY ExpiredFinite, FS_CardinalityType, RetentionAssumption
<1>4. Cardinality(S) \in {Batch, Cardinality(Expired)}
  <2> DEFINE n == Cardinality(Expired)
  <2> HIDE DEF n
  <2>1. \E x \in {Batch, n} : \A y \in {Batch, n} : x <= y
    BY <1>3 DEF n
  <2>2. Min({Batch, n}) \in {Batch, n}
    BY <2>1 DEF Min
  <2> QED BY <1>1, <2>2 DEF n
<1>5. ASSUME pc' = "cross" PROVE Expired' = {}
  <2>1. Cardinality(S) = Cardinality(Expired)
    BY <1>1, <1>3, <1>4, <1>5
  <2>2. S = Expired
    BY <1>1, <2>1, ExpiredFinite, FS_Subset
  <2> QED BY <1>1, <1>2, <2>2 DEF Expired
<1> QED BY <1>1, <1>2, <1>5 DEF Progress

\* Steps that write neither flights nor fixes.
LEMMA QuietP ==
  ASSUME RInv, Progress,
         SelectCrossing \/ ReadCrossing \/ EndRepair \/ EndScript \/ (\E k \in Kinds : Scan(k)) \/ UNCHANGED vars
  PROVE  Progress'
<1>1. UNCHANGED <<flights, pos, open, cutoff, wrote>>
  BY DEF SelectCrossing, ReadCrossing, EndRepair, EndScript, Scan, database, purge, vars
<1>2. /\ Expired' = Expired
      /\ \A f \in Ids : (Crossing(f)' <=> Crossing(f)) /\ (Exact(f)' <=> Exact(f))
  BY <1>1 DEF Expired, Crossing, Exact
<1>3. CASE SelectCrossing
  <2>1. \A f \in Ids \ (open \cup wrote) : Crossing(f) => f \in todo'
    BY <1>3 DEF SelectCrossing, CrossingIds, Closed, Crossing
  <2> QED BY <1>1, <1>2, <1>3, <2>1 DEF SelectCrossing, Progress, RInv, Snapshot
<1>4. CASE ReadCrossing
  BY <1>1, <1>2, <1>4 DEF ReadCrossing, Progress
<1>5. CASE EndRepair
  BY <1>1, <1>2, <1>5 DEF EndRepair, Progress
<1>6. CASE EndScript \/ (\E k \in Kinds : Scan(k)) \/ UNCHANGED vars
  <2>1. UNCHANGED <<pc, todo, rows>>
    BY <1>6 DEF EndScript, Scan, purge, vars
  <2> QED BY <1>1, <1>2, <2>1 DEF Progress
<1> QED BY <1>3, <1>4, <1>5, <1>6

LEMMA RepairP == ASSUME RInv, Progress, UpdateCrossing PROVE Progress'
<1> DEFINE f == rows.flight
           new == Repaired(flights[f], rows.track)
<1>1. /\ pc = "repair" /\ rows # None /\ rows' = None /\ todo' = todo \ {f}
      /\ flights' = [flights EXCEPT ![f] = IF flights[f] = None THEN None ELSE new]
      /\ UNCHANGED <<pos, open, pc, cutoff, wrote>>
  BY DEF UpdateCrossing
<1>2. f \in Ids /\ flights \in [Ids -> Flight \cup {None}]
  BY <1>1 DEF RInv, Snapshot, TypeOK
<1>3. Expired' = Expired
  BY <1>1 DEF Expired
<1>4. ASSUME NEW g \in Ids, g # f
      PROVE  (Crossing(g)' <=> Crossing(g)) /\ (Exact(g)' <=> Exact(g))
  <2>1. flights'[g] = flights[g]
    BY <1>1, <1>2, <1>4
  <2> QED BY <1>1, <2>1 DEF Crossing, Exact
<1>5. ASSUME NEW g \in Ids, g = f, f \notin wrote, Crossing(g)' PROVE Exact(g)'
  <2>1. flights[f] # None /\ flights'[f] = new
    BY <1>1, <1>2, <1>5 DEF Crossing
  <2>2. flights[f] \in Flight
    BY <1>2, <2>1
  <2>3. rows.track = pos[f]
    BY <1>1, <1>5 DEF Progress
  <2>4. Count(pos[f]) \in Nat
    BY CountIs
  <2>5. CASE Count(pos[f]) = 0
    <3>1. new = [flights[f] EXCEPT !.total = 0]
      BY <2>3, <2>5 DEF Repaired
    <3>2. new.total = 0
      BY <2>2, <3>1 DEF Flight
    <3> HIDE DEF f, new
    <3> QED BY <1>1, <1>5, <2>1, <2>5, <3>2 DEF Exact
  <2>6. CASE Count(pos[f]) # 0
    <3>1. new = [flights[f] EXCEPT !.total = Count(pos[f]), !.far = Far(pos[f]), !.gs = MaxGs(pos[f])]
      BY <2>3, <2>6 DEF Repaired
    <3>2. new.total = Count(pos[f]) /\ new.far = Far(pos[f]) /\ new.gs = MaxGs(pos[f])
      BY <2>2, <3>1 DEF Flight
    <3> HIDE DEF f, new
    <3> QED BY <1>1, <1>5, <2>1, <3>2 DEF Exact
  <2> QED BY <2>5, <2>6
<1> HIDE DEF f, new
<1> QED BY <1>1, <1>3, <1>4, <1>5 DEF Progress

\* The recount passes crossing flights by.
LEMMA RecountP == ASSUME RInv, Progress, RecountBatch PROVE Progress'
<1>1. PICK batch \in SUBSET OldIds :
        flights' = [f \in Ids |-> IF f \in batch THEN [flights[f] EXCEPT !.total = Count(pos[f])]
                                  ELSE flights[f]]
  BY DEF RecountBatch
<1>2. pc = "recount" /\ pc' \in {"drop", "recount"}
      /\ UNCHANGED <<pos, open, cutoff, todo, rows, wrote>>
  BY DEF RecountBatch
<1>3. flights \in [Ids -> Flight \cup {None}] /\ cutoff \in Int
  BY DEF RInv, TypeOK, Bookkeeping
<1>4. ASSUME NEW f \in batch PROVE f \in Ids /\ ~Crossing(f)' /\ ~Crossing(f)
  <2>1. f \in Ids /\ flights[f] # None /\ flights[f].last < cutoff
    BY <1>4 DEF OldIds, Closed
  <2>2. flights[f] \in Flight /\ flights'[f] = [flights[f] EXCEPT !.total = Count(pos[f])]
    BY <1>1, <1>3, <1>4, <2>1
  <2>3. flights'[f].last = flights[f].last /\ flights[f].last \in Int
    BY <2>2 DEF Flight, Times
  <2> QED BY <1>2, <1>3, <2>1, <2>3 DEF Crossing
<1>5. ASSUME NEW f \in Ids \ batch
      PROVE  (Crossing(f)' <=> Crossing(f)) /\ (Exact(f)' <=> Exact(f))
  BY <1>1, <1>2 DEF Crossing, Exact
<1>6. Expired' = Expired
  BY <1>2 DEF Expired
<1> QED BY <1>2, <1>4, <1>5, <1>6 DEF Progress

\* A script writes the flights it leaves in wrote, and adds no fix.
LEMMA ScriptP == ASSUME RInv, Progress, ApplyGhosts \/ ApplySpeeds \/ ApplyOrphans PROVE Progress'
<1>1. /\ flights \in [Ids -> Flight \cup {None}] /\ pos \in [Ids -> Tracks] /\ script \in Scripts
      /\ script.flight \in Ids
      /\ UNCHANGED <<open, pc, cutoff, todo, rows>>
      /\ pc \in {"poll", "delete", "cross", "repair", "recount", "drop"}
  BY DEF ApplyGhosts, ApplySpeeds, ApplyOrphans, purge, RInv, TypeOK, Bookkeeping, Tracks, Scripts
<1>2. CASE pc = "poll"
  BY <1>1, <1>2 DEF Progress, RInv, Snapshot
<1>3. CASE pc # "poll"
  <2>1. /\ wrote \subseteq wrote'
        /\ \A g \in Ids \ wrote' : flights'[g] = flights[g] /\ pos'[g] = pos[g]
    <3>1. CASE ApplyGhosts \/ ApplySpeeds
      <4>1. wrote' = wrote \cup {script.flight}
        BY <1>3, <3>1 DEF ApplyGhosts, ApplySpeeds
      <4> QED BY <1>1, <3>1, <4>1 DEF ApplyGhosts, ApplySpeeds
    <3>2. CASE ApplyOrphans
      BY <1>1, <1>3, <3>2 DEF ApplyOrphans
    <3> QED BY <3>1, <3>2
  <2>2. \A g \in Ids : \A t \in Times : pos'[g][t] # None => pos[g][t] # None
    BY <1>1 DEF ApplyGhosts, ApplySpeeds, ApplyOrphans, Blanked
  <2>3. Expired' \subseteq Expired
    BY <1>1, <2>2 DEF Expired
  <2>4. \A g \in Ids \ wrote' : (Crossing(g)' <=> Crossing(g)) /\ (Exact(g)' <=> Exact(g))
    BY <1>1, <2>1 DEF Crossing, Exact
  <2>5. rows # None => rows.flight \in Ids
    BY DEF RInv, Snapshot
  <2> QED BY <1>1, <2>1, <2>3, <2>4, <2>5 DEF Progress
<1> QED BY <1>2, <1>3

LEMMA NextP == ASSUME RInv, Progress, [Next]_vars PROVE Progress'
<1>1. CASE Tick \/ OpenFlight \/ InsertFix \/ CloseFlight \/ BeginPurge \/ DropFlights \/ PurgeAborted
  <2>1. pc' \in {"poll", "delete"} /\ rows' = None
    BY <1>1 DEF Tick, OpenFlight, InsertFix, CloseFlight, BeginPurge, DropFlights, PurgeAborted, purge,
                RInv, Snapshot
  <2> QED BY <2>1 DEF Progress
<1> QED BY <1>1, DeleteP, QuietP, RepairP, RecountP, ScriptP DEF Next, PurgeStep

\* A purge that gets to its end has deleted what expired and repaired every flight that
\* crosses the cutoff, in however many batches and whatever an earlier purge left half
\* done; only flights a script wrote meanwhile may be left with other aggregates (_purge).
THEOREM RepairedByPurgeAlways == Spec => []RepairedByPurge
<1>1. ASSUME Init PROVE Progress
  BY <1>1 DEF Init, Progress
<1>2. ASSUME Progress PROVE RepairedByPurge
  BY <1>2 DEF Progress, RepairedByPurge, Crossing, Exact
<1> QED BY <1>1, <1>2, InitR, NextR, NextP, PTL DEF Spec
=============================================================================
