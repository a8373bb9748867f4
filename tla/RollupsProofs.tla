--------------------------- MODULE RollupsProofs ---------------------------
(***************************************************************************)
(* For any number of days, fixes, crashes and failures: the rollups miss no *)
(* fix and count none more than twice.                                      *)
(***************************************************************************)
EXTENDS Rollups, WellFoundedInduction, TLAPS

\* Some day is the first of a set of days, and some day the last.
LEMMA LeastIs ==
  ASSUME NEW S \in SUBSET Nat, S # {}
  PROVE  Least(S) \in S /\ \A e \in S : Least(S) <= e
<1>1. PICK d \in S : \A e \in S : <<e, d>> \notin OpToRel(<, Nat)
  BY NatLessThanWellFounded, WFMin
<1>2. \A e \in S : ~(e < d)
  <2>1. SUFFICES ASSUME NEW e \in S, e < d PROVE FALSE
    OBVIOUS
  <2>2. <<e, d>> \in OpToRel(<, Nat)
    BY <2>1 DEF OpToRel
  <2> QED BY <1>1, <2>2
<1>3. \E x \in S : \A e \in S : x <= e
  BY <1>2
<1> QED BY <1>3 DEF Least

LEMMA GreatestIs ==
  ASSUME NEW S \in SUBSET Days, S # {}
  PROVE  Greatest(S) \in S /\ \A e \in S : e <= Greatest(S)
<1> DEFINE T == {LastDay - d : d \in S}
<1>1. LastDay \in Nat /\ \A d \in S : d \in Nat /\ d <= LastDay
  BY RollupsAssumption DEF Days
<1>2. T \in SUBSET Nat /\ T # {}
  BY <1>1
<1>3. Least(T) \in T /\ \A u \in T : Least(T) <= u
  <2> HIDE DEF T
  <2> QED BY <1>2, LeastIs
<1>4. PICK d \in S : Least(T) = LastDay - d
  BY <1>3
<1>5. \A e \in S : LastDay - d <= LastDay - e
  BY <1>3, <1>4
<1>6. \E x \in S : \A e \in S : e <= x
  BY <1>1, <1>5
<1> QED BY <1>6 DEF Greatest

-----------------------------------------------------------------------------
\* Until the rollups are ready every fix is still stored; days after the
\* watermark have been counted by the polls only, and no other twice; what
\* lies behind the loop of the backfill has been merged, and before the
\* deployment nothing lies beyond it.
Progress ==
    /\ today >= Deploy
    /\ \A d \in Days :
         /\ d < Deploy => live[d] = 0
         /\ d > Deploy => old[d] = 0
         /\ stored[d] <= old[d] + live[d]
         /\ ~ready => stored[d] = old[d] + live[d]
         /\ weight[d] >= live[d] /\ weight[d] <= old[d] + live[d] + live[d]
         /\ d > mark => weight[d] = live[d]
         /\ d < Deploy /\ (ready \/ d <= mark \/ (thread = "filling" /\ d < next)) => weight[d] >= old[d]
         /\ thread = "filling" /\ d < Deploy /\ d > last => old[d] = 0
    /\ thread = "filling" => ~ready /\ (next > last \/ next > mark)

IInv == TypeOK /\ Progress

LEMMA InitI == ASSUME Init PROVE IInv
<1> USE RollupsAssumption DEF Init, Days
<1>1. old \in [Days -> 0..MaxOld] /\ \A d \in Days : d > Deploy => old[d] = 0
  OBVIOUS
<1>2. \A n \in 0..MaxOld : n \in 0..(MaxOld + MaxPerDay)
  OBVIOUS
<1>3. stored \in [Days -> 0..(MaxOld + MaxPerDay)]
  BY <1>1, <1>2
<1>4. TypeOK
  <2>1. 0 \in 0..MaxPerDay /\ 0 \in 0..(2 * (MaxOld + MaxPerDay)) /\ -1 \in -1..LastDay
    OBVIOUS
  <2>2. live \in [Days -> 0..MaxPerDay] /\ weight \in [Days -> 0..(2 * (MaxOld + MaxPerDay))]
    BY <2>1
  <2>3. ready \in BOOLEAN /\ up \in BOOLEAN
    OBVIOUS
  <2>4. today \in Days /\ next \in 0..(LastDay + 1) /\ crashes \in 0..MaxCrashes /\ failures \in 0..MaxFailures
    OBVIOUS
  <2> QED BY <1>1, <1>3, <2>1, <2>2, <2>3, <2>4 DEF TypeOK
<1>5. Progress
  BY <1>1 DEF Progress
<1> QED BY <1>4, <1>5 DEF IInv

\* What the types say of a day's counts.
LEMMA Counts ==
  ASSUME TypeOK, NEW d \in Days
  PROVE  /\ d \in Nat /\ old[d] \in Nat /\ live[d] \in Nat /\ stored[d] \in Nat /\ weight[d] \in Nat
         /\ old[d] <= MaxOld /\ live[d] <= MaxPerDay
         /\ today \in Nat /\ mark \in Int /\ next \in Int /\ last \in Int
  BY RollupsAssumption DEF TypeOK, Days

LEMMA PollI == ASSUME IInv, NEW d \in Days, Poll(d) PROVE IInv'
<1> USE RollupsAssumption DEF IInv
<1>1. /\ d >= Deploy /\ live[d] < MaxPerDay
      /\ live' = [live EXCEPT ![d] = @ + 1] /\ stored' = [stored EXCEPT ![d] = @ + 1]
      /\ weight' = [weight EXCEPT ![d] = @ + 1]
      /\ UNCHANGED <<today, old, mark, ready, up, thread, next, last, crashes, failures>>
  BY DEF Poll, loop, bounds
<1>2. /\ live'[d] = live[d] + 1 /\ stored'[d] = stored[d] + 1 /\ weight'[d] = weight[d] + 1
      /\ \A e \in Days \ {d} : live'[e] = live[e] /\ stored'[e] = stored[e] /\ weight'[e] = weight[e]
  BY <1>1 DEF TypeOK
<1>3. stored[d] + 1 <= MaxOld + MaxPerDay /\ weight[d] + 1 <= 2 * (MaxOld + MaxPerDay)
  BY <1>1, Counts DEF Progress
<1>4. TypeOK'
  BY <1>1, <1>3, Counts DEF TypeOK
<1>5. Progress'
  BY <1>1, <1>2, Counts DEF Progress
<1> QED BY <1>4, <1>5

LEMMA BeginI == ASSUME IInv, BackfillBegins PROVE IInv'
<1> USE RollupsAssumption DEF IInv
<1>1. /\ ~ready /\ thread' = "filling"
      /\ UNCHANGED <<today, old, live, stored, weight, mark, ready, up, crashes, failures>>
  BY DEF BackfillBegins, database, bounds
<1>2. StoredDays \in SUBSET Days /\ StoredDays \in SUBSET Nat
  BY DEF StoredDays, Days
<1>3. \A d \in Days : d \notin StoredDays => old[d] = 0
  BY <1>1, Counts DEF Progress, StoredDays
<1>4. today \in Days /\ today >= Deploy /\ mark \in -1..LastDay
  BY DEF TypeOK, Progress
<1>5. CASE StoredDays = {}
  <2>1. next' = 0 /\ last' = -1
    BY <1>5 DEF BackfillBegins
  <2>2. TypeOK'
    BY <1>1, <2>1 DEF TypeOK
  <2> QED BY <1>1, <1>3, <1>5, <2>1, <2>2, Counts DEF Progress
<1>6. CASE StoredDays # {}
  <2>1. /\ last' = Smaller(Greatest(StoredDays), today - 1)
        /\ next' = IF mark = -1 THEN Least(StoredDays) ELSE Larger(Least(StoredDays), mark + 1)
    BY <1>6 DEF BackfillBegins
  <2> DEFINE lo == Least(StoredDays)
             hi == Greatest(StoredDays)
  <2>2. /\ lo \in Days /\ hi \in Days
        /\ \A d \in StoredDays : lo <= d /\ d <= hi
    BY <1>2, <1>6, LeastIs, GreatestIs
  <2> HIDE DEF lo, hi
  <2>3. /\ last' \in -1..LastDay /\ (last' = hi \/ last' = today - 1)
        /\ next' \in 0..(LastDay + 1) /\ next' > mark /\ (next' = lo \/ next' = mark + 1)
    BY <1>4, <2>1, <2>2 DEF Smaller, Larger, Days, lo, hi
  <2>4. TypeOK'
    BY <1>1, <2>3 DEF TypeOK
  <2>5. \A d \in Days : d < Deploy /\ d > last' => old[d] = 0
    BY <1>3, <1>4, <2>2, <2>3 DEF Days
  <2>6. \A d \in Days : d < Deploy /\ d < next' => weight[d] >= old[d]
    BY <1>3, <1>4, <2>2, <2>3, Counts DEF Progress
  <2> QED BY <1>1, <2>3, <2>4, <2>5, <2>6 DEF Progress
<1> QED BY <1>5, <1>6

LEMMA DayI == ASSUME IInv, BackfillDay PROVE IInv'
<1> USE RollupsAssumption DEF IInv
<1>1. /\ thread = "filling" /\ next <= last /\ ~ready /\ next > mark
      /\ weight' = [weight EXCEPT ![next] = @ + stored[next]] /\ mark' = next /\ next' = next + 1
      /\ UNCHANGED <<today, old, live, stored, ready, up, thread, last, crashes, failures>>
  BY DEF BackfillDay, Progress, TypeOK, bounds
<1>2. next \in Days
  BY <1>1 DEF TypeOK, Days
<1>3. /\ weight'[next] = weight[next] + stored[next]
      /\ \A e \in Days \ {next} : weight'[e] = weight[e]
  BY <1>1, <1>2 DEF TypeOK
<1>4. weight[next] = live[next] /\ stored[next] = old[next] + live[next]
  BY <1>1, <1>2 DEF Progress
<1>5. weight[next] + stored[next] \in 0..(2 * (MaxOld + MaxPerDay))
  BY <1>2, <1>4, Counts
<1>6. TypeOK'
  <2>1. weight' \in [Days -> 0..(2 * (MaxOld + MaxPerDay))]
    BY <1>1, <1>5 DEF TypeOK
  <2>2. next' \in 0..(LastDay + 1) /\ mark' \in -1..LastDay
    BY <1>1, <1>2 DEF TypeOK, Days
  <2> QED BY <1>1, <2>1, <2>2 DEF TypeOK
<1>7. Progress'
  BY <1>1, <1>2, <1>3, <1>4, Counts DEF Progress
<1> QED BY <1>6, <1>7

LEMMA OthersI ==
  ASSUME IInv, Start \/ BackfillSkipped \/ BackfillDone \/ BackfillFails \/ Crash \/ Purge \/ Midnight
               \/ UNCHANGED vars
  PROVE  IInv'
<1> USE RollupsAssumption, Counts DEF IInv, TypeOK, Progress, database, loop, bounds
<1>1. CASE Start BY <1>1 DEF Start
<1>2. CASE BackfillSkipped BY <1>2 DEF BackfillSkipped
<1>3. CASE BackfillDone BY <1>3 DEF BackfillDone
<1>4. CASE BackfillFails BY <1>4 DEF BackfillFails
<1>5. CASE Crash
  <2>1. up' = FALSE /\ crashes < MaxCrashes /\ crashes' = crashes + 1 /\ thread' = "off"
    BY <1>5 DEF Crash
  <2>2. UNCHANGED <<today, old, live, stored, weight, mark, ready, next, last, failures>>
    BY <1>5 DEF Crash
  <2>3. up' \in BOOLEAN
    BY <2>1
  <2>4. crashes' \in 0..MaxCrashes
    BY <2>1
  <2> QED BY <2>1, <2>2, <2>3, <2>4
<1>6. CASE Purge BY <1>6 DEF Purge
<1>7. CASE Midnight
  <2>1. today' \in Days /\ today' >= Deploy
    BY <1>7 DEF Midnight, Days
  <2>2. UNCHANGED <<old, live, stored, weight, mark, ready, up, thread, next, last, crashes, failures>>
    BY <1>7 DEF Midnight
  <2> QED BY <2>1, <2>2
<1>8. CASE UNCHANGED vars BY <1>8 DEF vars
<1> QED BY <1>1, <1>2, <1>3, <1>4, <1>5, <1>6, <1>7, <1>8

-----------------------------------------------------------------------------
\* No fix is missing from the permanent counts, and the recount of a resumed
\* backfill counts none a third time (flush, backfill_and_finalize, _purge).
THEOREM EveryFixCountedAlways == Spec => []EveryFixCounted
<1>1. IInv => EveryFixCounted
  BY Counts, RollupsAssumption DEF IInv, Progress, EveryFixCounted, NoFixLost, AtMostTwice, Recorded
<1>2. IInv /\ [Next]_vars => IInv'
  BY PollI, BeginI, DayI, OthersI DEF Next
<1> QED BY InitI, <1>1, <1>2, PTL DEF Spec
=============================================================================
