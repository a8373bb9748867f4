----------------------------- MODULE WebProofs -----------------------------
(***************************************************************************)
(* The web server.  For any number of request threads, maps and windows:     *)
(* the locks of cache.py let one computation run at a time, no answer is    *)
(* too old, and the prewarmer's pace keeps warm targets warm.  For any      *)
(* flights, places, windows and order of polls, purges and requests: what   *)
(* the map shows is what was recorded, and a replay does not change.        *)
(***************************************************************************)
EXTENDS ResponseCache, MapViews, FiniteSetTheorems, SequenceTheorems, TLAPS

\* Every set of naturals has a least element: the segments 1..i of its elements have
\* a smallest one.
LEMMA LeastElement ==
  ASSUME NEW S, S \subseteq Nat, S # {}
  PROVE  Min(S) \in S /\ \A n \in S : Min(S) <= n
<1> DEFINE T == {1..i : i \in S}
<1>1. T \subseteq FiniteSubsetsOf(Nat) /\ T # {}
  <2>1. \A i \in S : IsFiniteSet(1..i) /\ 1..i \subseteq Nat
    BY FS_Interval
  <2> QED BY <2>1 DEF FiniteSubsetsOf
<1>2. PICK s \in T : \A t \in T : <<t, s>> \notin StrictSubsetOrdering(Nat)
  <2> HIDE DEF T
  <2> QED BY <1>1, WFMin, FS_StrictSubsetOrderingWellFounded
<1>3. PICK i \in S : s = 1..i
  BY <1>2
<1>4. \A n \in S : i <= n
  <2> SUFFICES ASSUME NEW n \in S, n < i PROVE FALSE
    OBVIOUS
  <2>1. 1..n \in T /\ 1..n \subseteq 1..i /\ 1..n # 1..i /\ 1..n \subseteq Nat /\ 1..i \subseteq Nat
    <3>1. i \in 1..i /\ i \notin 1..n
      OBVIOUS
    <3> QED BY <3>1
  <2>2. <<1..n, s>> \in StrictSubsetOrdering(Nat)
    BY <1>3, <2>1 DEF StrictSubsetOrdering
  <2> QED BY <1>2, <2>1, <2>2
<1> QED BY <1>4 DEF Min

-----------------------------------------------------------------------------
(* The entries of the cache *)

Stores == [key : Keys, at : Nat, asOf : Nat]
Caches == {c \in Seq(Stores) : \A i, j \in DOMAIN c : c[i].key = c[j].key => i = j}

LEMMA CacheEntries == ASSUME NEW c \in Caches PROVE ToSet(c) \subseteq Stores
<1>1. c \in Seq(Stores) /\ DOMAIN c = 1..Len(c)
  BY DEF Caches
<1>2. \A i \in 1..Len(c) : c[i] \in Stores
  BY <1>1, ElementOfSeq
<1> QED BY <1>1, <1>2 DEF ToSet

LEMMA FirstIsThere ==
  ASSUME NEW c \in Caches, NEW K, K \cap KeysOf(ToSet(c)) # {}
  PROVE  First(c, K) \in DOMAIN c /\ c[First(c, K)].key \in K
<1> DEFINE P == {i \in DOMAIN c : c[i].key \in K}
<1>1. P # {}
  BY DEF KeysOf, ToSet
<1>2. P \subseteq Nat
  BY DEF Caches
<1> HIDE DEF P
<1>3. Min(P) \in P
  BY <1>1, <1>2, LeastElement
<1> QED BY <1>3 DEF P, First

\* What is left when the entry at a place goes.
LEMMA RemoveAtGood ==
  ASSUME NEW c \in Caches, NEW i \in DOMAIN c
  PROVE  /\ RemoveAt(c, i) \in Caches /\ Len(RemoveAt(c, i)) = Len(c) - 1
         /\ ToSet(RemoveAt(c, i)) = {entry \in ToSet(c) : entry.key # c[i].key}
<1>1. c \in Seq(Stores) /\ DOMAIN c = 1..Len(c) /\ Len(c) \in Nat /\ i \in 1..Len(c)
      /\ \A n \in 1..Len(c) : c[n] \in Stores
  BY ElementOfSeq DEF Caches
<1> DEFINE front == SubSeq(c, 1, i - 1)
           back == SubSeq(c, i + 1, Len(c))
<1>2. front \in Seq(Stores) /\ Len(front) = i - 1 /\ \A n \in 1..(i - 1) : front[n] = c[n]
  <2>1. i - 1 \in Int /\ \A n \in 1..(i - 1) : n \in 1..Len(c)
    BY <1>1
  <2>2. /\ front \in Seq(Stores)
        /\ Len(front) = IF 1 <= i - 1 THEN (i - 1) - 1 + 1 ELSE 0
        /\ \A n \in 1..(i - 1) - 1 + 1 : front[n] = c[1 + n - 1]
    BY <1>1, <2>1, SubSeqProperties
  <2> HIDE DEF front
  <2>3. Len(front) = i - 1
    BY <1>1, <2>2
  <2>4. \A n \in 1..(i - 1) : n \in 1..(i - 1) - 1 + 1 /\ 1 + n - 1 = n
    BY <1>1
  <2> QED BY <2>2, <2>3, <2>4
<1>3. back \in Seq(Stores) /\ Len(back) = Len(c) - i /\ \A n \in 1..Len(c) - i : back[n] = c[i + n]
  <2>1. i + 1 \in Int /\ Len(c) \in Int /\ \A n \in i + 1..Len(c) : n \in 1..Len(c)
    BY <1>1
  <2>2. /\ back \in Seq(Stores)
        /\ Len(back) = IF i + 1 <= Len(c) THEN Len(c) - (i + 1) + 1 ELSE 0
        /\ \A n \in 1..Len(c) - (i + 1) + 1 : back[n] = c[i + 1 + n - 1]
    BY <1>1, <2>1, SubSeqProperties
  <2> HIDE DEF back
  <2>3. Len(back) = Len(c) - i
    BY <1>1, <2>2
  <2>4. \A n \in 1..Len(c) - i : n \in 1..Len(c) - (i + 1) + 1 /\ i + 1 + n - 1 = i + n
    BY <1>1
  <2> QED BY <2>2, <2>3, <2>4
<1> HIDE DEF front, back
<1> DEFINE d == RemoveAt(c, i)
<1>3a. d = front \o back
  BY DEF RemoveAt, front, back
<1>3b. d \in Seq(Stores) /\ Len(d) = Len(front) + Len(back)
       /\ \A n \in 1..Len(front) + Len(back) : d[n] = IF n <= Len(front) THEN front[n] ELSE back[n - Len(front)]
  <2> HIDE DEF d
  <2> QED BY <1>2, <1>3, <1>3a, ConcatProperties
<1> HIDE DEF d
<1>4. d \in Seq(Stores) /\ Len(d) = Len(c) - 1
  BY <1>1, <1>2, <1>3, <1>3b
<1>5. \A n \in 1..Len(d) : d[n] = IF n < i THEN c[n] ELSE c[n + 1]
  <2>1. ASSUME NEW n \in 1..Len(d), n < i PROVE d[n] = c[n]
    <3>1. n \in 1..Len(front) + Len(back) /\ n <= Len(front) /\ n \in 1..(i - 1)
      BY <1>1, <1>2, <1>3, <1>4, <2>1
    <3> QED BY <1>2, <1>3b, <3>1
  <2>2. ASSUME NEW n \in 1..Len(d), ~(n < i) PROVE d[n] = c[n + 1]
    <3>1. n - (i - 1) \in 1..Len(c) - i /\ n \in 1..Len(front) + Len(back) /\ ~(n <= Len(front))
      BY <1>1, <1>2, <1>3, <1>4, <2>2
    <3>2. i + (n - (i - 1)) = n + 1
      BY <1>1, <2>2
    <3> QED BY <1>2, <1>3, <1>3b, <3>1, <3>2
  <2> QED BY <2>1, <2>2
<1>6. d \in Caches
  <2>1. \A m, n \in 1..Len(d) : d[m].key = d[n].key => m = n
    <3> SUFFICES ASSUME NEW m \in 1..Len(d), NEW n \in 1..Len(d), d[m].key = d[n].key PROVE m = n
      OBVIOUS
    <3>1. \A a, b \in 1..Len(c) : c[a].key = c[b].key => a = b
      BY <1>1 DEF Caches
    <3> QED BY <1>1, <1>4, <1>5, <3>1
  <2>2. DOMAIN d = 1..Len(d)
    BY <1>4
  <2> QED BY <1>4, <2>1, <2>2 DEF Caches
<1>7. ToSet(d) = {entry \in ToSet(c) : entry.key # c[i].key}
  <2>1. ToSet(d) = {d[n] : n \in 1..Len(d)} /\ ToSet(c) = {c[n] : n \in 1..Len(c)}
    BY <1>1, <1>4 DEF ToSet
  <2>2. \A a, b \in 1..Len(c) : c[a].key = c[b].key => a = b
    BY <1>1 DEF Caches
  <2>3. ASSUME NEW n \in 1..Len(d) PROVE d[n] \in ToSet(c) /\ d[n].key # c[i].key
    BY <1>1, <1>4, <1>5, <2>1, <2>2
  <2>4. ASSUME NEW n \in 1..Len(c), c[n].key # c[i].key PROVE c[n] \in ToSet(d)
    <3>1. CASE n < i
      <4>1. n \in 1..Len(d) /\ d[n] = c[n]
        BY <1>1, <1>4, <1>5, <3>1
      <4> QED BY <2>1, <4>1
    <3>2. CASE n > i
      <4>1. (n - 1) \in 1..Len(d) /\ d[n - 1] = c[n]
        BY <1>1, <1>4, <1>5, <3>2
      <4> QED BY <2>1, <4>1
    <3> QED BY <1>1, <2>4, <3>1, <3>2
  <2> QED BY <2>1, <2>3, <2>4
<1> QED BY <1>4, <1>6, <1>7 DEF d

LEMMA WithoutGood ==
  ASSUME NEW c \in Caches, NEW k
  PROVE  /\ Without(c, k) \in Caches
         /\ Len(Without(c, k)) = IF k \in KeysOf(ToSet(c)) THEN Len(c) - 1 ELSE Len(c)
         /\ ToSet(Without(c, k)) = {entry \in ToSet(c) : entry.key # k}
<1>1. CASE k \in KeysOf(ToSet(c))
  <2>1. First(c, {k}) \in DOMAIN c /\ c[First(c, {k})].key \in {k}
    BY <1>1, FirstIsThere
  <2> DEFINE i == First(c, {k})
  <2> HIDE DEF i
  <2>2. i \in DOMAIN c /\ c[i].key = k /\ Without(c, k) = RemoveAt(c, i)
    BY <1>1, <2>1 DEF Without, i
  <2> QED BY <1>1, <2>2, RemoveAtGood
<1>2. CASE k \notin KeysOf(ToSet(c))
  BY <1>2 DEF Without, KeysOf
<1> QED BY <1>1, <1>2

LEMMA NamedFinite == IsFiniteSet(Named) /\ Cardinality(Named) \in Nat \ {0}
<1>1. IsFiniteSet(Named)
  BY CacheAssumption, FS_AddElement DEF Named
<1>2. Stats \in Named
  BY DEF Named
<1> QED BY <1>1, <1>2, FS_CardinalityType, FS_EmptySet

\* Over the cap there is a key that is not one of the named ones.
LEMMA ForeignKey ==
  ASSUME NEW c \in Caches, Len(c) > Cap, Cap \in Nat PROVE KeysOf(ToSet(c)) \ Named # {}
<1> SUFFICES ASSUME \A i \in DOMAIN c : c[i].key \in Named PROVE FALSE
  BY DEF KeysOf, ToSet
<1>1. DOMAIN c = 1..Len(c) /\ Len(c) \in Nat
  BY DEF Caches
<1> DEFINE f == [i \in 1..Len(c) |-> c[i].key]
<1>2. f \in [1..Len(c) -> Named]
  BY <1>1
<1>3. IsFiniteSet(1..Len(c)) /\ Cardinality(1..Len(c)) = Len(c)
  <2>1. IsFiniteSet(1..Len(c)) /\ Cardinality(1..Len(c)) = IF 1 > Len(c) THEN 0 ELSE Len(c) - 1 + 1
    BY <1>1, FS_Interval
  <2> QED BY <1>1, <2>1
<1>4. Cardinality(Named) < Cardinality(1..Len(c))
  BY <1>1, <1>3, NamedFinite, CacheAssumption
<1> HIDE DEF f
<1>5. \E i, j \in 1..Len(c) : i # j /\ f[i] = f[j]
  BY <1>2, <1>3, <1>4, NamedFinite, FS_PigeonHole
<1> QED BY <1>1, <1>5 DEF f, Caches

\* Eviction takes one entry, and never a named one that has not expired.
LEMMA EvictedGood ==
  ASSUME NEW c \in Caches, Cap \in Nat, Len(c) <= Cap + 1
  PROVE  /\ Evicted(c) \in Caches /\ Len(Evicted(c)) <= Cap /\ ToSet(Evicted(c)) \subseteq ToSet(c)
         /\ \A entry \in ToSet(c) : entry.key \in Named /\ ~Expired(entry) => entry \in ToSet(Evicted(c))
<1>1. c \in Seq(Stores) /\ DOMAIN c = 1..Len(c) /\ Len(c) \in Nat
  BY DEF Caches
<1>2. CASE Len(c) <= Cap
  BY <1>2 DEF Evicted
<1>3. CASE ~(Len(c) <= Cap)
  <2> DEFINE old == KeysOf({entry \in ToSet(c) : Expired(entry)})
             k == IF old = {} THEN Victim(c) ELSE c[First(c, old)].key
  <2>1. k \in KeysOf(ToSet(c)) /\ \A entry \in ToSet(c) : entry.key = k => entry.key \notin Named \/ Expired(entry)
    <3>1. CASE old = {}
      <4>1. KeysOf(ToSet(c)) \ Named # {}
        BY <1>1, <1>3, ForeignKey
      <4> DEFINE free == KeysOf(ToSet(c)) \ Named
      <4>2. First(c, free) \in DOMAIN c /\ c[First(c, free)].key \in free
        <5>1. free \cap KeysOf(ToSet(c)) # {}
          BY <4>1
        <5> HIDE DEF free
        <5> QED BY <5>1, FirstIsThere
      <4>3. k \in free
        BY <3>1, <4>1, <4>2 DEF Victim
      <4> QED BY <4>3
    <3>2. CASE old # {}
      <4>1. old \subseteq KeysOf(ToSet(c))
        BY DEF KeysOf
      <4>2. First(c, old) \in DOMAIN c /\ c[First(c, old)].key \in old
        <5> HIDE DEF old
        <5> QED BY <3>2, <4>1, FirstIsThere
      <4>3. k \in old
        BY <3>2, <4>2
      <4>4. PICK entry \in ToSet(c) : Expired(entry) /\ entry.key = k
        <5> HIDE DEF k
        <5> QED BY <4>3 DEF KeysOf
      <4> HIDE DEF k, old
      <4>5. \A other \in ToSet(c) : other.key = k => other = entry
        BY <4>4 DEF ToSet, Caches
      <4> QED BY <4>1, <4>3, <4>4, <4>5
    <3> QED BY <3>1, <3>2
  <2>2. Evicted(c) = Without(c, k)
    BY <1>3 DEF Evicted
  <2> HIDE DEF k, old
  <2>3. Len(c) - 1 <= Cap
    BY <1>1
  <2> QED BY <2>1, <2>2, <2>3, WithoutGood
<1> QED BY <1>2, <1>3

\* What a store keeps: the new entry of a named key, and whoever is named and fresh.
LEMMA StoredGood ==
  ASSUME cache \in Caches, Len(cache) <= Cap, Cap \in Nat, clock \in Nat,
         NEW k \in Keys, NEW asOf \in Nat
  PROVE  LET new == [key |-> k, at |-> clock, asOf |-> asOf]
         IN  /\ Stored(k, asOf) \in Caches /\ Len(Stored(k, asOf)) <= Cap
             /\ ToSet(Stored(k, asOf)) \subseteq {entry \in ToSet(cache) : entry.key # k} \cup {new}
             /\ k \in Named => new \in ToSet(Stored(k, asOf))
             /\ \A entry \in ToSet(cache) :
                  entry.key \in Named \ {k} /\ ~Expired(entry) => entry \in ToSet(Stored(k, asOf))
<1> DEFINE new == [key |-> k, at |-> clock, asOf |-> asOf]
           w == Without(cache, k)
           c == Append(w, new)
<1>1. new \in Stores /\ new.key = k /\ ~Expired(new)
  BY CacheAssumption DEF Stores, Expired
<1>2. w \in Caches /\ Len(w) <= Len(cache) /\ ToSet(w) = {entry \in ToSet(cache) : entry.key # k}
  <2>1. Len(cache) \in Nat
    BY DEF Caches
  <2> QED BY <2>1, WithoutGood
<1> HIDE DEF new, w
<1>3. /\ w \in Seq(Stores) /\ DOMAIN w = 1..Len(w) /\ Len(w) \in Nat
      /\ \A i, j \in 1..Len(w) : w[i].key = w[j].key => i = j
  BY <1>2 DEF Caches
<1>4. /\ c \in Seq(Stores) /\ Len(c) = Len(w) + 1 /\ DOMAIN c = 1..Len(w) + 1
      /\ c[Len(w) + 1] = new /\ \A i \in 1..Len(w) : c[i] = w[i]
  BY <1>1, <1>3, AppendProperties
<1> HIDE DEF c
<1>5. ToSet(c) = ToSet(w) \cup {new}
  BY <1>3, <1>4 DEF ToSet
<1>6. c \in Caches
  <2>1. \A i \in 1..Len(w) : w[i].key # new.key
    BY <1>1, <1>2, <1>3 DEF ToSet
  <2> QED BY <1>3, <1>4, <2>1 DEF Caches
<1>7. Len(c) <= Cap + 1 /\ Len(cache) \in Nat
  BY <1>2, <1>3, <1>4 DEF Caches
<1>8. Stored(k, asOf) = Evicted(c)
  BY DEF Stored, c, w, new
<1>9. ToSet(Stored(k, asOf)) \subseteq {entry \in ToSet(cache) : entry.key # k} \cup {new}
  BY <1>2, <1>5, <1>6, <1>7, <1>8, EvictedGood
<1>10. k \in Named => new \in ToSet(Stored(k, asOf))
  BY <1>1, <1>5, <1>6, <1>7, <1>8, EvictedGood
<1>11. \A entry \in ToSet(cache) :
         entry.key \in Named \ {k} /\ ~Expired(entry) => entry \in ToSet(Stored(k, asOf))
  BY <1>2, <1>5, <1>6, <1>7, <1>8, EvictedGood
<1> QED BY <1>6, <1>7, <1>8, <1>9, <1>10, <1>11, EvictedGood DEF new

LEMMA LookedGood ==
  ASSUME cache \in Caches, NEW k
  PROVE  /\ Looked(k) \in Caches /\ Len(Looked(k)) <= Len(cache) /\ ToSet(Looked(k)) \subseteq ToSet(cache)
         /\ \A entry \in ToSet(cache) : ~Expired(entry) => entry \in ToSet(Looked(k))
<1>1. CASE Fresh(k)
  <2>1. Len(cache) \in Nat
    BY DEF Caches
  <2> QED BY <1>1, <2>1 DEF Looked
<1>2. CASE ~Fresh(k)
  <2>1. Len(cache) \in Nat /\ Looked(k) = Without(cache, k)
    BY <1>2 DEF Caches, Looked
  <2>2. \A entry \in ToSet(cache) : ~Expired(entry) => entry.key # k
    BY <1>2 DEF Fresh, Entry
  <2> QED BY <2>1, <2>2, WithoutGood
<1> QED BY <1>1, <1>2

-----------------------------------------------------------------------------
(* The invariant *)

Work == [key : Keys, at : {"wait", "compute"}, asOf : Nat]

\* Who computes holds the lock of its key, and whoever holds a lock computes; nobody
\* computes for longer than MaxCompute.
Jobs ==
    /\ clock \in 0..MaxClock /\ DOMAIN job = Threads /\ lock \in [Named -> Threads \cup {None, "prewarm"}]
    /\ \A t \in Threads : job[t] # None =>
         /\ job[t] \in Work
         /\ job[t].at = "compute" => /\ lock[LockOf(job[t].key)] = t
                                     /\ job[t].asOf <= clock /\ clock <= job[t].asOf + MaxCompute
    /\ \A k \in Named, t \in Threads : lock[k] = t =>
         job[t] # None /\ job[t].at = "compute" /\ LockOf(job[t].key) = k

\* The prewarmer's passes and pauses are as long as they may be.
Passes ==
    /\ warm \in [at : {"idle", "wait", "compute", "cool", "ended"}, target : Named \cup {None}, since : Nat]
    /\ nextAt \in [Named -> Nat] /\ stop \in BOOLEAN /\ kept \subseteq Named /\ failures \in 0..MaxFailures
    /\ warm.at = "compute" =>
         warm.target \in Named /\ warm.since <= clock /\ clock <= warm.since + MaxCompute
    /\ warm.at = "compute" /\ warm.target = Stats => lock[Stats] = "prewarm"
    /\ warm.at = "cool" => warm.since <= clock /\ clock <= warm.since + Cool
    /\ warm.at = "wait" => warm.target = Stats
    /\ warm.at \in {"wait", "ended"} \/ stop => kept = {}

\* The entries were stored soon after their data was read; an answer is one of them.
Entries ==
    /\ cache \in Caches /\ Len(cache) <= Cap
    /\ \A entry \in ToSet(cache) :
         entry.asOf <= entry.at /\ entry.at <= entry.asOf + MaxCompute /\ entry.at <= clock
    /\ answer # None => answer \in [key : Keys, age : Nat] /\ answer.age < Ttl[answer.key] + MaxCompute

\* When the prewarmer is free for its next target at the latest, which targets may
\* come before k, and what one of them takes.
FreeAt == CASE warm.at = "idle" -> clock
            [] warm.at = "compute" -> warm.since + MaxCompute + Cool
            [] OTHER -> warm.since + Cool
Computing(k) == warm.at = "compute" /\ warm.target = k
Ahead(k) == {l \in Named \ {k} : nextAt[l] <= nextAt[k] /\ ~Computing(l)}
Load(n) == n * (MaxCompute + Cool)

\* A target that is kept warm comes to its turn before its entry expires: from when the
\* prewarmer is free, and from when the target is due, there is time for all that may
\* come before it and for its own pass.
InTime(k, deadline) ==
    IF Computing(k) THEN warm.since + MaxCompute < deadline
    ELSE /\ FreeAt + Load(Cardinality(Ahead(k))) + MaxCompute < deadline
         /\ nextAt[k] + Load(Cardinality(Named) - 1) + MaxCompute < deadline
Pace == \A k \in kept : \E entry \in ToSet(cache) : entry.key = k /\ InTime(k, entry.at + Ttl[k])

CacheInv == Jobs /\ Passes /\ Entries /\ Pace

\* A named key's last answer is in the cache for as long as it lives.
Remembered ==
    /\ last \in [Named -> Nat \cup {None}]
    /\ \A k \in Named : last[k] # None =>
         \/ \E entry \in ToSet(cache) : entry.key = k /\ entry.at = last[k]
         \/ clock - last[k] >= Ttl[k]

LEMMA Constants ==
  /\ Cap \in Nat /\ Cool \in Nat /\ Retry \in Nat /\ MaxCompute \in Nat /\ MaxClock \in Nat /\ MaxFailures \in Nat
  /\ \A k \in Keys : Ttl[k] \in Nat \ {0}
  /\ Named \subseteq Keys /\ Stats \in Named /\ None \notin Threads /\ "prewarm" \notin Threads /\ None # "prewarm"
  /\ \A k \in Keys : LockOf(k) \in Named
  /\ \A k \in Named : LockOf(k) = k
  /\ None \notin Work
<1>1. Cap \in Nat
  BY CacheAssumption, NamedFinite
<1> QED BY <1>1, CacheAssumption DEF Keys, Named, LockOf, Work

LEMMA LoadFacts ==
  /\ \A n \in Nat : Load(n) \in Nat
  /\ \A n \in Nat : Load(n + 1) = Load(n) + MaxCompute + Cool
  /\ \A m, n \in Nat : m <= n => Load(m) <= Load(n)
<1> PICK b \in Nat : b = MaxCompute + Cool
  BY Constants
<1>1. \A n \in Nat : Load(n) = n * b
  BY DEF Load
<1>2. \A n \in Nat : n * b \in Nat
  OBVIOUS
<1>3. \A n \in Nat : (n + 1) * b = n * b + b
  OBVIOUS
<1>4. \A m, n \in Nat : m <= n => m * b <= n * b
  OBVIOUS
<1> QED BY <1>1, <1>2, <1>3, <1>4, Constants

\* Never more targets can come before one than there are others.
LEMMA OthersBound ==
  ASSUME NEW k \in Named, NEW S, S \subseteq Named \ {k}
  PROVE  /\ IsFiniteSet(S) /\ Cardinality(S) \in Nat /\ Cardinality(Named) - 1 \in Nat
         /\ Load(Cardinality(S)) <= Load(Cardinality(Named) - 1)
         /\ Load(Cardinality(S)) \in Nat /\ Load(Cardinality(Named) - 1) \in Nat
<1>1. IsFiniteSet(Named \ {k}) /\ Cardinality(Named \ {k}) = Cardinality(Named) - 1
  BY NamedFinite, FS_RemoveElement
<1>2. IsFiniteSet(S) /\ Cardinality(S) <= Cardinality(Named \ {k})
  BY <1>1, FS_Subset
<1>3. Cardinality(S) \in Nat
  BY <1>2, FS_CardinalityType
<1> QED BY <1>1, <1>2, <1>3, NamedFinite, LoadFacts

LEMMA AheadBound ==
  ASSUME NEW k \in Named
  PROVE  /\ IsFiniteSet(Ahead(k)) /\ Cardinality(Ahead(k)) \in Nat
         /\ Cardinality(Named) - 1 \in Nat
         /\ Load(Cardinality(Ahead(k))) <= Load(Cardinality(Named) - 1)
<1>1. Ahead(k) \subseteq Named \ {k}
  BY DEF Ahead
<1> QED BY <1>1, OthersBound

\* Nothing gets later by a later deadline.
LEMMA InTimeMonotone ==
  ASSUME Jobs, Passes, NEW k \in Named, NEW d \in Nat, NEW e \in Nat, d <= e, InTime(k, d)
  PROVE  InTime(k, e)
<1>1. Computing(k) => warm.since \in Nat
  BY DEF Passes
<1>2. ~Computing(k) => FreeAt \in Int /\ Load(Cardinality(Ahead(k))) \in Nat /\ nextAt[k] \in Nat
                       /\ Load(Cardinality(Named) - 1) \in Nat
  BY AheadBound, LoadFacts, Constants DEF Passes, Jobs, FreeAt
<1> QED BY <1>1, <1>2, Constants DEF InTime

LEMMA InTimeSame ==
  ASSUME UNCHANGED <<clock, warm, nextAt>> PROVE \A k, d : InTime(k, d)' <=> InTime(k, d)
BY DEF InTime, FreeAt, Ahead, Computing

\* The entry of a target in time has not expired.
LEMMA InTimeFresh ==
  ASSUME CacheInv, NEW k \in kept, NEW entry \in ToSet(cache), entry.key = k, InTime(k, entry.at + Ttl[k])
  PROVE  ~Expired(entry)
<1>1. k \in Named /\ kept # {} /\ clock \in Nat /\ warm.since \in Nat
  BY Constants DEF CacheInv, Jobs, Passes
<1>2. entry \in Stores
  BY CacheEntries DEF CacheInv, Entries
<1>3. entry.at \in Nat /\ Ttl[k] \in Nat
  BY <1>1, <1>2, Constants DEF Stores
<1>4. CASE Computing(k)
  <2>1. clock <= warm.since + MaxCompute /\ warm.since + MaxCompute < entry.at + Ttl[k]
    BY <1>4 DEF CacheInv, Passes, Computing, InTime
  <2> QED BY <1>1, <1>3, <2>1, Constants DEF Expired
<1>5. CASE ~Computing(k)
  <2>1. warm.at \in {"idle", "compute", "cool"}
    BY <1>1 DEF CacheInv, Passes
  <2>2. FreeAt \in Int /\ clock <= FreeAt
    BY <1>1, <2>1, Constants DEF FreeAt, CacheInv, Passes
  <2>3. Load(Cardinality(Ahead(k))) \in Nat
    BY <1>1, AheadBound, LoadFacts DEF CacheInv
  <2>4. FreeAt + Load(Cardinality(Ahead(k))) + MaxCompute < entry.at + Ttl[k]
    BY <1>5 DEF InTime
  <2> QED BY <1>1, <1>3, <2>2, <2>3, <2>4, Constants DEF Expired
<1> QED BY <1>4, <1>5

LEMMA InvGives == ASSUME CacheInv, Remembered PROVE Alone /\ WarmAndFresh
<1>1. Alone
  BY Constants DEF CacheInv, Jobs, Passes, Alone, Computes
<1>2. FreshEnough
  BY DEF CacheInv, Entries, FreshEnough
<1>3. WarmKept
  <2> SUFFICES ASSUME NEW k \in kept PROVE Fresh(k)
    BY DEF WarmKept
  <2>1. PICK entry \in ToSet(cache) : entry.key = k /\ InTime(k, entry.at + Ttl[k])
    BY DEF CacheInv, Pace
  <2> QED BY <2>1, InTimeFresh DEF Fresh, Entry
<1>4. TypeOK
  <2>1. cache \in Seq([key : Keys, at : Nat, asOf : Nat])
        /\ \A i, j \in DOMAIN cache : i # j => cache[i].key # cache[j].key
    BY DEF CacheInv, Entries, Caches, Stores
  <2>2. \A t \in Threads : job[t] # None =>
          /\ job[t] \in [key : Keys, at : {"wait", "compute"}, asOf : Nat]
          /\ (job[t].at = "compute") <=> lock[LockOf(job[t].key)] = t
    BY Constants DEF CacheInv, Jobs, Work
  <2> QED BY <2>1, <2>2 DEF CacheInv, Remembered, Jobs, Passes, Entries, TypeOK
<1> QED BY <1>1, <1>2, <1>3, <1>4 DEF WarmAndFresh

LEMMA CacheInit == ASSUME Init PROVE CacheInv
<1> USE DEF Init
<1>1. Jobs
  BY Constants DEF Jobs
<1>2. Passes
  <2>1. nextAt \in [Named -> 0..(Cardinality(Named) - 1)]
    OBVIOUS
  <2>2. nextAt \in [Named -> Nat]
    <3>1. 0..(Cardinality(Named) - 1) \subseteq Nat
      BY NamedFinite
    <3> QED BY <2>1, <3>1
  <2>3. warm.at = "idle" /\ warm \in [at : {"idle", "wait", "compute", "cool", "ended"}, target : Named \cup {None}, since : Nat]
    BY DEF Idle
  <2>4. stop \in BOOLEAN /\ kept = {} /\ warm.at = "idle"
    BY DEF Idle
  <2>5. failures \in 0..MaxFailures
    BY Constants
  <2> HIDE DEF Init
  <2> QED BY <2>2, <2>3, <2>4, <2>5 DEF Passes
<1>3. Entries
  <2>1. ToSet(cache) = {} /\ Len(cache) = 0
    BY DEF ToSet
  <2> QED BY <2>1, Constants DEF Entries, Caches
<1>4. Pace
  BY DEF Pace
<1> QED BY <1>1, <1>2, <1>3, <1>4 DEF CacheInv

-----------------------------------------------------------------------------
(* The steps *)

\* Whatever the prewarmer does not take part in keeps its targets in time, when their
\* entries stay or are replaced by later ones.
LEMMA PaceKept ==
  ASSUME CacheInv, UNCHANGED <<clock, warm, nextAt>>, kept' \subseteq kept, Entries',
         \A k \in kept : \A entry \in ToSet(cache) : entry.key = k /\ ~Expired(entry) =>
           \E later \in ToSet(cache') : later.key = k /\ entry.at <= later.at
  PROVE  Pace'
<1> SUFFICES ASSUME NEW k \in kept'
             PROVE  \E entry \in ToSet(cache') : entry.key = k /\ InTime(k, entry.at + Ttl[k])'
  BY DEF Pace
<1>1. k \in kept /\ k \in Named /\ k \in Keys
  BY Constants DEF CacheInv, Passes
<1>2. PICK entry \in ToSet(cache) : entry.key = k /\ InTime(k, entry.at + Ttl[k])
  BY <1>1 DEF CacheInv, Pace
<1>3. PICK later \in ToSet(cache') : later.key = k /\ entry.at <= later.at
  BY <1>1, <1>2, InTimeFresh
<1>4. entry.at \in Nat /\ later.at \in Nat
  BY CacheEntries DEF CacheInv, Entries, Stores
<1>5. entry.at + Ttl[k] \in Nat /\ later.at + Ttl[k] \in Nat /\ entry.at + Ttl[k] <= later.at + Ttl[k]
  BY <1>1, <1>3, <1>4, Constants
<1> DEFINE d == later.at + Ttl[k]
<1> HIDE DEF d
<1>6. InTime(k, d)
  BY <1>1, <1>2, <1>5, InTimeMonotone DEF CacheInv, d
<1>7. InTime(k, d)'
  BY <1>6, InTimeSame
<1> QED BY <1>3, <1>7 DEF d

\* A look-up only takes away what has expired, and answers with what has not.
LEMMA LookedEntries ==
  ASSUME CacheInv, NEW k \in Keys, cache' = Looked(k), clock' = clock,
         answer' = None \/ \E entry \in Entry(cache, k) : Fresh(k) /\ answer' = [key |-> k, age |-> clock - entry.asOf]
  PROVE  Entries'
<1> USE DEF CacheInv
<1>1. cache \in Caches /\ Len(cache) <= Cap /\ Len(cache) \in Nat
  BY DEF Entries, Caches
<1>2. cache' \in Caches /\ Len(cache') <= Cap /\ ToSet(cache') \subseteq ToSet(cache)
  <2>1. Len(Looked(k)) \in Nat
    BY <1>1, LookedGood DEF Caches
  <2> QED BY <1>1, <2>1, LookedGood, Constants
<1>3. answer' # None => answer' \in [key : Keys, age : Nat] /\ answer'.age < Ttl[answer'.key] + MaxCompute
  <2> SUFFICES ASSUME NEW entry \in Entry(cache, k), Fresh(k), answer' = [key |-> k, age |-> clock - entry.asOf]
               PROVE  answer' \in [key : Keys, age : Nat] /\ answer'.age < Ttl[answer'.key] + MaxCompute
    OBVIOUS
  <2>1. \A one, other \in Entry(cache, k) : one = other
    BY <1>1 DEF Entry, ToSet, Caches
  <2>2. ~Expired(entry) /\ entry \in ToSet(cache) /\ entry.key = k
    BY <2>1 DEF Fresh, Entry
  <2>3. entry \in Stores
    BY <1>1, <2>2, CacheEntries
  <2>4. /\ entry.at \in Nat /\ entry.asOf \in Nat /\ clock \in Nat /\ Ttl[k] \in Nat
        /\ entry.asOf <= entry.at /\ entry.at <= entry.asOf + MaxCompute /\ entry.at <= clock
        /\ clock - entry.at < Ttl[k]
    BY <2>2, <2>3, Constants DEF Stores, Entries, Jobs, Expired
  <2>5. clock - entry.asOf \in Nat /\ clock - entry.asOf < Ttl[k] + MaxCompute
    BY <2>4, Constants
  <2> QED BY <2>5
<1>4. \A entry \in ToSet(cache') :
        entry.asOf <= entry.at /\ entry.at <= entry.asOf + MaxCompute /\ entry.at <= clock'
  BY <1>2 DEF Entries
<1> QED BY <1>2, <1>3, <1>4 DEF Entries

LEMMA StoredEntries ==
  ASSUME CacheInv, NEW k \in Keys, NEW asOf \in Nat, asOf <= clock, clock <= asOf + MaxCompute,
         cache' = Stored(k, asOf), clock' = clock,
         answer' = None \/ answer' = [key |-> k, age |-> clock - asOf]
  PROVE  /\ Entries'
         /\ \A n \in Named : \A entry \in ToSet(cache) : entry.key = n /\ ~Expired(entry) =>
              \E later \in ToSet(cache') : later.key = n /\ entry.at <= later.at
         /\ k \in Named => \E entry \in ToSet(cache') : entry.key = k /\ entry.at = clock
<1> USE DEF CacheInv
<1>1. cache \in Caches /\ Len(cache) <= Cap /\ clock \in Nat /\ Cap \in Nat
  BY Constants DEF Entries, Jobs
<1> DEFINE new == [key |-> k, at |-> clock, asOf |-> asOf]
<1>2. /\ cache' \in Caches /\ Len(cache') <= Cap
      /\ ToSet(cache') \subseteq {entry \in ToSet(cache) : entry.key # k} \cup {new}
      /\ k \in Named => new \in ToSet(cache')
      /\ \A entry \in ToSet(cache) : entry.key \in Named \ {k} /\ ~Expired(entry) => entry \in ToSet(cache')
  BY <1>1, StoredGood
<1>3. new.key = k /\ new.at = clock /\ new.asOf = asOf
  OBVIOUS
<1> HIDE DEF new
<1>4. \A entry \in ToSet(cache') :
        entry.asOf <= entry.at /\ entry.at <= entry.asOf + MaxCompute /\ entry.at <= clock'
  BY <1>1, <1>2, <1>3 DEF Entries
<1>5. answer' # None => answer' \in [key : Keys, age : Nat] /\ answer'.age < Ttl[answer'.key] + MaxCompute
  <2>1. clock - asOf \in Nat /\ clock - asOf < Ttl[k] + MaxCompute
    BY <1>1, Constants
  <2> QED BY <2>1
<1>6. Entries'
  BY <1>2, <1>4, <1>5 DEF Entries
<1>7. ASSUME NEW n \in Named, NEW entry \in ToSet(cache), entry.key = n, ~Expired(entry)
      PROVE  \E later \in ToSet(cache') : later.key = n /\ entry.at <= later.at
  <2>1. entry.at \in Nat /\ entry.at <= clock
    BY <1>1, CacheEntries DEF Entries, Stores
  <2>2. CASE n = k
    BY <1>2, <1>3, <1>7, <2>1, <2>2
  <2>3. CASE n # k
    BY <1>2, <1>7, <2>1, <2>3
  <2> QED BY <2>2, <2>3
<1> QED BY <1>2, <1>3, <1>6, <1>7

\* A step of a thread leaves the prewarmer alone.
LEMMA ThreadJobs ==
  ASSUME CacheInv, NEW t \in Threads, Acquire(t) \/ Finish(t) \/ Error(t) \/ \E k \in Keys : Request(t, k)
  PROVE  Jobs'
<1> USE Constants DEF CacheInv, Jobs
<1>1. ASSUME NEW k \in Keys, Request(t, k) PROVE Jobs'
  <2>1. UNCHANGED <<clock, lock, warm>> /\ job[t] = None
    BY <1>1 DEF Request, prewarmer
  <2>2. \/ job' = [job EXCEPT ![t] = None]
        \/ job' = [job EXCEPT ![t] = [key |-> k, at |-> "wait", asOf |-> 0]]
    BY <1>1 DEF Request, AnswerFrom, Answer
  <2> QED BY <2>1, <2>2 DEF Work
<1>2. CASE Acquire(t)
  <2>1. /\ job[t] # None /\ job[t].at = "wait" /\ lock[LockOf(job[t].key)] = None
        /\ UNCHANGED <<clock, warm>>
    BY <1>2 DEF Acquire, prewarmer
  <2>2. \/ job' = [job EXCEPT ![t] = None] /\ lock' = lock
        \/ /\ job' = [job EXCEPT ![t].at = "compute", ![t].asOf = clock]
           /\ lock' = [lock EXCEPT ![LockOf(job[t].key)] = t]
    BY <1>2 DEF Acquire, AnswerFrom, Answer, Compute
  <2>3. CASE job' = [job EXCEPT ![t] = None] /\ lock' = lock
    BY <2>1, <2>3
  <2>4. CASE /\ job' = [job EXCEPT ![t].at = "compute", ![t].asOf = clock]
             /\ lock' = [lock EXCEPT ![LockOf(job[t].key)] = t]
    <3>1. job[t] \in Work /\ clock \in Nat
      BY <2>1
    <3>2. job'[t] = [[job[t] EXCEPT !.at = "compute"] EXCEPT !.asOf = clock]
      BY <2>4
    <3>3. /\ job'[t] \in Work /\ job'[t].key = job[t].key /\ job'[t].at = "compute" /\ job'[t].asOf = clock
          /\ job'[t] # None
      <4>1. /\ job'[t] \in Work /\ job'[t].key = job[t].key /\ job'[t].at = "compute" /\ job'[t].asOf = clock
        BY <3>1, <3>2 DEF Work
      <4> QED BY <4>1
    <3>4. DOMAIN job' = Threads /\ \A u \in Threads \ {t} : job'[u] = job[u]
      BY <2>4
    <3>5. LockOf(job[t].key) \in Named
      BY <3>1 DEF Work
    <3>6. \A u \in Threads : job[u] # None /\ job[u].at = "compute" => LockOf(job[u].key) # LockOf(job[t].key)
      BY <2>1
    <3>7. lock' \in [Named -> Threads \cup {None, "prewarm"}]
      BY <2>4, <3>5
    <3>8. \A u \in Threads : job'[u] # None =>
            /\ job'[u] \in Work
            /\ job'[u].at = "compute" => /\ lock'[LockOf(job'[u].key)] = u
                                         /\ job'[u].asOf <= clock /\ clock <= job'[u].asOf + MaxCompute
      BY <2>4, <3>1, <3>3, <3>4, <3>5, <3>6
    <3>9. \A k \in Named, u \in Threads : lock'[k] = u =>
            job'[u] # None /\ job'[u].at = "compute" /\ LockOf(job'[u].key) = k
      <4> SUFFICES ASSUME NEW k \in Named, NEW u \in Threads, lock'[k] = u
                   PROVE  job'[u] # None /\ job'[u].at = "compute" /\ LockOf(job'[u].key) = k
        OBVIOUS
      <4>1. CASE k = LockOf(job[t].key)
        BY <2>4, <3>3, <3>5, <4>1
      <4>2. CASE k # LockOf(job[t].key)
        <5>1. lock[k] = u
          BY <2>4, <4>2
        <5>2. u # t
          BY <2>1, <5>1
        <5> QED BY <3>4, <5>1, <5>2
      <4> QED BY <4>1, <4>2
    <3> QED BY <2>1, <3>4, <3>7, <3>8, <3>9
  <2> QED BY <2>2, <2>3, <2>4
<1>3. CASE Finish(t) \/ Error(t)
  <2>1. /\ job[t] # None /\ job[t].at = "compute" /\ UNCHANGED <<clock, warm>>
        /\ job' = [job EXCEPT ![t] = None]
        /\ lock' = [lock EXCEPT ![LockOf(job[t].key)] = None]
    BY <1>3 DEF Finish, Error, Answer, prewarmer
  <2>2. LockOf(job[t].key) \in Named
    BY <2>1 DEF Work
  <2> QED BY <2>1, <2>2
<1> QED BY <1>1, <1>2, <1>3

LEMMA ThreadStep ==
  ASSUME CacheInv, NEW t \in Threads, Acquire(t) \/ Finish(t) \/ Error(t) \/ \E k \in Keys : Request(t, k)
  PROVE  CacheInv'
<1>1. Jobs'
  BY ThreadJobs
<1>2. UNCHANGED <<clock, warm, nextAt, kept, stop, failures>>
  BY DEF Acquire, Finish, Error, Request, prewarmer
<1>3. job[t] # None => job[t] \in Work /\ job[t].key \in Keys /\ clock \in Nat
  BY Constants DEF CacheInv, Jobs, Work
<1>4. Passes'
  <2>1. warm.at = "compute" /\ warm.target = Stats => lock'[Stats] = "prewarm"
    <3> SUFFICES ASSUME warm.at = "compute", warm.target = Stats PROVE lock'[Stats] = "prewarm"
      OBVIOUS
    <3>1. lock[Stats] = "prewarm" /\ lock \in [Named -> Threads \cup {None, "prewarm"}]
      BY DEF CacheInv, Passes, Jobs
    <3>2. lock' = lock \/ (\E who : lock' = [lock EXCEPT ![LockOf(job[t].key)] = who] /\ lock[LockOf(job[t].key)] \in {t, None})
      <4>1. ASSUME Finish(t) \/ Error(t)
            PROVE  lock' = [lock EXCEPT ![LockOf(job[t].key)] = None] /\ lock[LockOf(job[t].key)] = t
        BY <4>1 DEF Finish, Error, CacheInv, Jobs
      <4>2. ASSUME Acquire(t)
            PROVE  lock[LockOf(job[t].key)] = None
                   /\ (lock' = lock \/ lock' = [lock EXCEPT ![LockOf(job[t].key)] = t])
        BY <4>2 DEF Acquire
      <4>3. ASSUME NEW k \in Keys, Request(t, k) PROVE lock' = lock
        BY <4>3 DEF Request
      <4> QED BY <4>1, <4>2, <4>3
    <3> QED BY <3>1, <3>2, Constants
  <2> QED BY <1>2, <2>1 DEF CacheInv, Passes
<1>5. Entries' /\ \A k \in kept : \A entry \in ToSet(cache) : entry.key = k /\ ~Expired(entry) =>
         \E later \in ToSet(cache') : later.key = k /\ entry.at <= later.at
  <2>0. \A entry \in ToSet(cache) : entry.at <= entry.at
    <3>1. \A entry \in ToSet(cache) : entry.at \in Nat
      BY CacheEntries DEF CacheInv, Entries, Stores
    <3> QED BY <3>1
  <2>1. ASSUME NEW k \in Keys, cache' = Looked(k),
               answer' = None \/ (Fresh(k) /\ AnswerFrom(t, k))
        PROVE  Entries' /\ \A entry \in ToSet(cache) : ~Expired(entry) => entry \in ToSet(cache')
    <3>1. answer' = None \/ \E entry \in Entry(cache, k) : Fresh(k) /\ answer' = [key |-> k, age |-> clock - entry.asOf]
      BY <2>1 DEF AnswerFrom, Answer
    <3>2. Entries'
      BY <1>2, <2>1, <3>1, LookedEntries
    <3>3. cache \in Caches
      BY DEF CacheInv, Entries
    <3> QED BY <2>1, <3>2, <3>3, LookedGood
  <2>2. ASSUME NEW k \in Keys, Request(t, k)
        PROVE  cache' = Looked(k) /\ (answer' = None \/ (Fresh(k) /\ AnswerFrom(t, k)))
    <3>1. CASE Fresh(k)
      BY <2>2, <3>1 DEF Request
    <3>2. CASE ~Fresh(k)
      BY <2>2, <3>2 DEF Request
    <3> QED BY <3>1, <3>2
  <2>3. ASSUME Acquire(t)
        PROVE  job[t].key \in Keys /\ cache' = Looked(job[t].key)
               /\ (answer' = None \/ (Fresh(job[t].key) /\ AnswerFrom(t, job[t].key)))
    <3> DEFINE k == job[t].key
    <3>1. k \in Keys /\ cache' = Looked(k)
          /\ IF Fresh(k) THEN AnswerFrom(t, k) /\ UNCHANGED lock ELSE Compute(t) /\ lock' = [lock EXCEPT ![LockOf(k)] = t]
      BY <1>3, <2>3 DEF Acquire
    <3> HIDE DEF k
    <3>2. CASE Fresh(k)
      BY <3>1, <3>2 DEF k
    <3>3. CASE ~Fresh(k)
      BY <3>1, <3>3 DEF k, Compute
    <3> QED BY <3>2, <3>3
  <2>4. CASE Finish(t)
    <3>1. /\ job[t] # None /\ job[t].at = "compute"
          /\ cache' = Stored(job[t].key, job[t].asOf)
          /\ answer' = [key |-> job[t].key, age |-> clock - job[t].asOf]
      BY <2>4 DEF Finish, Answer, Store
    <3>2. job[t].asOf \in Nat /\ job[t].asOf <= clock /\ clock <= job[t].asOf + MaxCompute
      BY <1>3, <3>1 DEF CacheInv, Jobs, Work
    <3>3. kept \subseteq Named
      BY DEF CacheInv, Passes
    <3> QED BY <1>2, <1>3, <3>1, <3>2, <3>3, StoredEntries
  <2>5. CASE Error(t)
    <3>1. UNCHANGED <<cache, clock>> /\ answer' = None
      BY <2>5 DEF Error
    <3> QED BY <2>0, <3>1 DEF CacheInv, Entries
  <2> QED BY <2>0, <2>1, <2>2, <2>3, <2>4, <2>5
<1>6. Pace'
  BY <1>2, <1>5, PaceKept
<1> QED BY <1>1, <1>4, <1>5, <1>6 DEF CacheInv

\* The other entries, jobs and locks rest.
LEMMA RestEntries ==
  ASSUME CacheInv, cache' = cache, clock' \in Nat, clock <= clock', answer' = None PROVE Entries'
<1>1. \A entry \in ToSet(cache) : entry.at \in Nat /\ entry.at <= clock
  BY CacheEntries DEF CacheInv, Entries, Stores
<1>2. clock \in Nat
  BY DEF CacheInv, Jobs
<1> QED BY <1>1, <1>2 DEF CacheInv, Entries

\* The clock only goes on when nothing is due.
LEMMA TickStep == ASSUME CacheInv, Tick PROVE CacheInv'
<1>1. /\ ~stop /\ clock < MaxClock /\ ~Overdue /\ clock' = clock + 1 /\ answer' = None
      /\ UNCHANGED <<cache, lock, job, warm, nextAt, kept, stop, failures>>
  BY DEF Tick, prewarmer
<1>2. clock \in Nat /\ clock' \in 0..MaxClock /\ clock <= clock'
  BY <1>1, Constants DEF CacheInv, Jobs
<1>3. Jobs'
  <2>1. \A t \in Threads : job[t] # None /\ job[t].at = "compute" =>
          job[t].asOf \in Nat /\ job[t].asOf <= clock' /\ clock' <= job[t].asOf + MaxCompute
    <3> SUFFICES ASSUME NEW t \in Threads, job[t] # None, job[t].at = "compute"
                 PROVE  job[t].asOf \in Nat /\ job[t].asOf <= clock' /\ clock' <= job[t].asOf + MaxCompute
      OBVIOUS
    <3>1. job[t].asOf \in Nat /\ job[t].asOf <= clock
      BY DEF CacheInv, Jobs, Work
    <3>2. ~(clock - job[t].asOf >= MaxCompute)
      BY <1>1 DEF Overdue
    <3> QED BY <1>1, <1>2, <3>1, <3>2, Constants
  <2> QED BY <1>1, <1>2, <2>1 DEF CacheInv, Jobs
<1>4. Passes'
  <2>1. warm.since \in Nat
    BY DEF CacheInv, Passes
  <2>2. warm.at = "compute" => warm.since <= clock' /\ clock' <= warm.since + MaxCompute
    <3>1. warm.at = "compute" => warm.since <= clock /\ ~(clock - warm.since >= MaxCompute)
      BY <1>1 DEF CacheInv, Passes, Overdue
    <3> QED BY <1>1, <1>2, <2>1, <3>1, Constants
  <2>3. warm.at = "cool" => warm.since <= clock' /\ clock' <= warm.since + Cool
    <3>1. warm.at = "cool" => warm.since <= clock /\ ~(clock - warm.since >= Cool)
      BY <1>1 DEF CacheInv, Passes, Overdue
    <3> QED BY <1>1, <1>2, <2>1, <3>1, Constants
  <2> QED BY <1>1, <2>2, <2>3 DEF CacheInv, Passes
<1>5. Entries'
  BY <1>1, <1>2, RestEntries
<1>6. Pace'
  <2> SUFFICES ASSUME NEW k \in kept
               PROVE  \E entry \in ToSet(cache) : entry.key = k /\ InTime(k, entry.at + Ttl[k])'
    BY <1>1 DEF Pace
  <2>1. k \in Named /\ k \in Keys
    BY Constants DEF CacheInv, Passes
  <2>2. PICK entry \in ToSet(cache) : entry.key = k /\ InTime(k, entry.at + Ttl[k])
    BY DEF CacheInv, Pace
  <2>3. entry.at \in Nat /\ Ttl[k] \in Nat
    BY <2>1, CacheEntries, Constants DEF CacheInv, Entries, Stores
  <2> DEFINE d == entry.at + Ttl[k]
  <2>4. d \in Nat /\ InTime(k, d)
    BY <2>2, <2>3
  <2> HIDE DEF d
  <2>5. warm.at \in {"idle", "compute", "cool"}
    BY DEF CacheInv, Passes
  <2>6. Computing(k)' = Computing(k) /\ Ahead(k)' = Ahead(k)
    BY <1>1 DEF Computing, Ahead
  <2>7. CASE warm.at # "idle"
    <3>1. FreeAt' = FreeAt
      BY <1>1, <2>5, <2>7 DEF FreeAt
    <3> QED BY <1>1, <2>2, <2>4, <2>6, <3>1 DEF InTime, d
  <2>8. CASE warm.at = "idle"
    <3>1. clock + 1 <= nextAt[k]
      <4> DEFINE S == {nextAt[l] : l \in Named}
      <4>1. S \subseteq Nat /\ S # {} /\ nextAt[k] \in S
        BY <2>1 DEF CacheInv, Passes
      <4> HIDE DEF S
      <4>2. Min(S) \in S /\ \A n \in S : Min(S) <= n
        BY <4>1, LeastElement
      <4>3. PICK l \in Named : nextAt[l] = Min(S)
        BY <4>2 DEF S
      <4>4. \A m \in Named : nextAt[l] <= nextAt[m]
        BY <4>2, <4>3 DEF S
      <4>5. ~(nextAt[l] <= clock)
        BY <1>1, <2>8, <4>4 DEF Overdue, Due
      <4>6. nextAt[l] \in Nat /\ nextAt[k] \in Nat /\ nextAt[l] <= nextAt[k]
        BY <2>1, <4>4 DEF CacheInv, Passes
      <4> QED BY <1>2, <4>5, <4>6
    <3>2. FreeAt' = clock + 1 /\ ~Computing(k)
      BY <1>1, <2>8 DEF FreeAt, Computing
    <3>3. nextAt[k] \in Nat /\ nextAt[k] + Load(Cardinality(Named) - 1) + MaxCompute < d
      BY <2>1, <2>4, <3>2 DEF InTime, CacheInv, Passes
    <3>4. /\ Load(Cardinality(Ahead(k))) <= Load(Cardinality(Named) - 1)
          /\ Load(Cardinality(Ahead(k))) \in Nat /\ Load(Cardinality(Named) - 1) \in Nat
      BY <2>1, AheadBound, LoadFacts DEF CacheInv
    <3>5. (clock + 1) + Load(Cardinality(Ahead(k))) + MaxCompute < d
      BY <1>2, <2>4, <3>1, <3>3, <3>4, Constants
    <3>6. InTime(k, d)'
      BY <1>1, <2>6, <3>2, <3>3, <3>5 DEF InTime
    <3> QED BY <2>2, <3>6 DEF d
  <2> QED BY <2>7, <2>8
<1> QED BY <1>3, <1>4, <1>5, <1>6 DEF CacheInv

\* A target keeps the time it has while the prewarmer goes from one thing to the next,
\* unless another comes before it.
LEMMA InTimeCarries ==
  ASSUME CacheInv, Passes', NEW k \in Named, NEW d \in Nat, InTime(k, d), ~Computing(k), ~Computing(k)',
         nextAt'[k] = nextAt[k], NEW n \in Nat, Cardinality(Ahead(k)') = n,
         FreeAt' \in Int, FreeAt' + Load(n) <= FreeAt + Load(Cardinality(Ahead(k)))
  PROVE  InTime(k, d)'
<1>1. /\ FreeAt + Load(Cardinality(Ahead(k))) + MaxCompute < d
      /\ nextAt[k] + Load(Cardinality(Named) - 1) + MaxCompute < d
  BY DEF InTime
<1>2. Load(Cardinality(Ahead(k))) \in Nat /\ Load(n) \in Nat
  BY AheadBound, LoadFacts DEF CacheInv
<1>3. FreeAt \in Int
  BY Constants DEF FreeAt, CacheInv, Jobs, Passes
<1>4. FreeAt' + Load(n) + MaxCompute < d
  BY <1>1, <1>2, <1>3, Constants
<1> QED BY <1>1, <1>4 DEF InTime

\* The prewarmer takes a lock that is free, or gives its own back.
LEMMA LockTaken ==
  ASSUME CacheInv, UNCHANGED <<clock, job>>,
         \/ lock' = lock
         \/ lock[Stats] = None /\ lock' = [lock EXCEPT ![Stats] = "prewarm"]
         \/ lock[Stats] = "prewarm" /\ lock' = [lock EXCEPT ![Stats] = None]
  PROVE  Jobs'
<1>1. lock \in [Named -> Threads \cup {None, "prewarm"}] /\ Stats \in Named
  BY Constants DEF CacheInv, Jobs
<1>2. /\ lock' \in [Named -> Threads \cup {None, "prewarm"}]
      /\ \A k \in Named, t \in Threads : lock'[k] = t <=> lock[k] = t
  BY <1>1, Constants
<1>3. \A t \in Threads : job[t] # None => LockOf(job[t].key) \in Named
  BY Constants DEF CacheInv, Jobs, Work
<1> QED BY <1>2, <1>3 DEF CacheInv, Jobs

\* The prewarmer takes the target that is due first.
LEMMA BeginStep == ASSUME CacheInv, WarmBegins PROVE CacheInv'
<1>1. /\ warm.at = "idle" /\ ~stop /\ answer' = None
      /\ UNCHANGED <<clock, cache, job, nextAt, stop, failures>>
  BY DEF WarmBegins
<1>2. PICK k \in Due :
        \/ /\ warm' = [at |-> "compute", target |-> k, since |-> clock] /\ kept' = kept
           /\ IF k # Stats THEN lock' = lock ELSE lock[Stats] = None /\ lock' = [lock EXCEPT ![Stats] = "prewarm"]
        \/ warm' = [at |-> "wait", target |-> k, since |-> 0] /\ k = Stats /\ kept' = {} /\ lock' = lock
  BY DEF WarmBegins
<1>3. k \in Named /\ nextAt[k] <= clock /\ \A l \in Named : nextAt[k] <= nextAt[l]
  BY DEF Due
<1>4. clock \in Nat
  BY Constants DEF CacheInv, Jobs
<1>5. Jobs'
  <2>1. lock' = lock \/ (lock[Stats] = None /\ lock' = [lock EXCEPT ![Stats] = "prewarm"])
    BY <1>2
  <2> QED BY <1>1, <2>1, LockTaken
<1>6. Passes'
  <2>1. lock \in [Named -> Threads \cup {None, "prewarm"}]
    BY DEF CacheInv, Jobs
  <2>2. CASE kept' = {}
    <3>1. \/ warm' = [at |-> "wait", target |-> k, since |-> 0] /\ k = Stats
          \/ warm' = [at |-> "compute", target |-> k, since |-> clock]
      BY <1>2
    <3> QED BY <1>1, <1>2, <1>3, <1>4, <2>1, <2>2, Constants DEF CacheInv, Passes
  <2>3. CASE kept' # {}
    <3>1. /\ warm' = [at |-> "compute", target |-> k, since |-> clock] /\ kept' = kept
          /\ IF k # Stats THEN lock' = lock ELSE lock[Stats] = None /\ lock' = [lock EXCEPT ![Stats] = "prewarm"]
      BY <1>2, <2>3
    <3> QED BY <1>1, <1>3, <1>4, <2>1, <3>1, Constants DEF CacheInv, Passes
  <2> QED BY <2>2, <2>3
<1>7. Entries'
  BY <1>1, <1>4, RestEntries
<1>8. Pace'
  <2> SUFFICES ASSUME NEW m \in kept'
               PROVE  \E entry \in ToSet(cache) : entry.key = m /\ InTime(m, entry.at + Ttl[m])'
    BY <1>1 DEF Pace
  <2>1. warm' = [at |-> "compute", target |-> k, since |-> clock] /\ m \in kept
    BY <1>2
  <2>2. m \in Named /\ m \in Keys
    BY <2>1, Constants DEF CacheInv, Passes
  <2>3. PICK entry \in ToSet(cache) : entry.key = m /\ InTime(m, entry.at + Ttl[m])
    BY <2>1 DEF CacheInv, Pace
  <2> DEFINE d == entry.at + Ttl[m]
  <2>4. d \in Nat /\ InTime(m, d)
    BY <2>2, <2>3, CacheEntries, Constants DEF CacheInv, Entries, Stores
  <2> HIDE DEF d
  <2>5. ~Computing(m) /\ FreeAt = clock /\ FreeAt' = clock + MaxCompute + Cool
    BY <1>1, <2>1 DEF Computing, FreeAt
  <2>6. Load(Cardinality(Ahead(m))) \in Nat /\ Cardinality(Ahead(m)) \in Nat
    BY <2>2, AheadBound, LoadFacts DEF CacheInv
  <2>7. CASE m = k
    <3>1. Computing(m)' /\ warm'.since = clock
      BY <2>1, <2>7 DEF Computing
    <3>2. clock + MaxCompute < d
      BY <1>4, <2>4, <2>5, <2>6, Constants DEF InTime
    <3>3. InTime(m, d)'
      BY <3>1, <3>2 DEF InTime
    <3> QED BY <2>3, <3>3 DEF d
  <2>8. CASE m # k
    <3>1. ~Computing(m)' /\ nextAt'[m] = nextAt[m]
      BY <1>1, <2>1, <2>8 DEF Computing
    <3>2. Ahead(m)' = Ahead(m) \ {k} /\ k \in Ahead(m)
      BY <1>1, <1>3, <2>1, <2>2, <2>8 DEF Ahead, Computing
    <3> DEFINE n == Cardinality(Ahead(m)')
    <3>3. n \in Nat /\ Cardinality(Ahead(m)) = n + 1
      <4>1. IsFiniteSet(Ahead(m))
        BY <2>2, AheadBound DEF CacheInv
      <4>2. Cardinality(Ahead(m) \ {k}) = Cardinality(Ahead(m)) - 1 /\ IsFiniteSet(Ahead(m) \ {k})
        BY <3>2, <4>1, FS_RemoveElement
      <4>3. Cardinality(Ahead(m) \ {k}) \in Nat
        BY <4>2, FS_CardinalityType
      <4> QED BY <2>6, <3>2, <4>2, <4>3
    <3> HIDE DEF n
    <3>4. FreeAt' \in Int /\ FreeAt' + Load(n) <= FreeAt + Load(Cardinality(Ahead(m)))
      BY <1>4, <2>5, <3>3, LoadFacts, Constants
    <3>5. InTime(m, d)'
      BY <1>6, <2>2, <2>4, <2>5, <3>1, <3>3, <3>4, InTimeCarries DEF n
    <3> QED BY <2>3, <3>5 DEF d
  <2> QED BY <2>7, <2>8
<1> QED BY <1>5, <1>6, <1>7, <1>8 DEF CacheInv

\* What ends a pass: the store with the next turn half a time to live later.
LEMMA EndStep == ASSUME CacheInv, WarmEnds PROVE CacheInv'
<1>0. PICK k : k = warm.target
  OBVIOUS
<1>1. /\ warm.at = "compute" /\ cache' = Stored(k, warm.since) /\ answer' = None
      /\ warm' = [at |-> "cool", target |-> None, since |-> clock]
      /\ kept' = IF stop THEN {} ELSE kept \cup {k}
      /\ nextAt' = [nextAt EXCEPT ![k] = clock + Pause(k)]
      /\ lock' = IF k = Stats THEN [lock EXCEPT ![k] = None] ELSE lock
      /\ UNCHANGED <<clock, job, stop, failures>>
  BY <1>0 DEF WarmEnds, Store
<1>2. /\ k \in Named /\ k \in Keys /\ warm.since \in Nat /\ clock \in Nat
      /\ warm.since <= clock /\ clock <= warm.since + MaxCompute
      /\ k = Stats => lock[Stats] = "prewarm"
  BY <1>0, <1>1, Constants DEF CacheInv, Passes, Jobs
<1>3. Pause(k) \in Nat /\ Cool <= Pause(k) /\ Ttl[k] \in Nat
      /\ Pause(k) + Load(Cardinality(Named) - 1) + MaxCompute < Ttl[k]
  <2>1. Ttl[k] \in Nat
    BY <1>2, Constants
  <2> QED BY <1>2, <2>1, PaceAssumption, Constants DEF Pause, Load
<1>4. Jobs'
  <2>1. \/ lock' = lock
        \/ lock[Stats] = "prewarm" /\ lock' = [lock EXCEPT ![Stats] = None]
    BY <1>1, <1>2
  <2> QED BY <1>1, <2>1, LockTaken
<1>5. nextAt' \in [Named -> Nat] /\ nextAt'[k] = clock + Pause(k)
      /\ \A l \in Named \ {k} : nextAt'[l] = nextAt[l] /\ nextAt[l] \in Nat
  BY <1>1, <1>2, <1>3 DEF CacheInv, Passes
<1>6. Passes'
  <2>1. warm'.at = "cool" /\ warm'.since = clock
        /\ warm' \in [at : {"idle", "wait", "compute", "cool", "ended"}, target : Named \cup {None}, since : Nat]
    BY <1>1, <1>2
  <2> QED BY <1>1, <1>2, <1>5, <2>1, Constants DEF CacheInv, Passes
<1>7. /\ Entries'
      /\ \A n \in Named : \A entry \in ToSet(cache) : entry.key = n /\ ~Expired(entry) =>
           \E later \in ToSet(cache') : later.key = n /\ entry.at <= later.at
      /\ \E entry \in ToSet(cache') : entry.key = k /\ entry.at = clock
  BY <1>1, <1>2, StoredEntries
<1>8. FreeAt' = clock + Cool /\ FreeAt = warm.since + MaxCompute + Cool
  BY <1>1 DEF FreeAt
<1>9. \A l \in Named : ~Computing(l)'
  BY <1>1 DEF Computing
<1>10. Pace'
  <2> SUFFICES ASSUME NEW m \in kept'
               PROVE  \E entry \in ToSet(cache') : entry.key = m /\ InTime(m, entry.at + Ttl[m])'
    BY DEF Pace
  <2>1. m \in Named /\ m \in Keys /\ (m # k => m \in kept)
    BY <1>1, <1>2, Constants DEF CacheInv, Passes
  <2>2. /\ Cardinality(Ahead(m)') \in Nat /\ Cardinality(Named) - 1 \in Nat
        /\ Load(Cardinality(Ahead(m)')) <= Load(Cardinality(Named) - 1)
    <3>1. Ahead(m)' \subseteq Named \ {m}
      BY DEF Ahead
    <3> QED BY <2>1, <3>1, OthersBound
  <2>3. Load(Cardinality(Ahead(m)')) \in Nat /\ Load(Cardinality(Named) - 1) \in Nat
    BY <2>2, LoadFacts
  \* Whoever comes to his turn no earlier than the prewarmer is free has the time he
  \* had when his entry was stored.
  <2>4. ASSUME NEW d \in Nat, nextAt'[m] + Load(Cardinality(Named) - 1) + MaxCompute < d,
               clock + Cool <= nextAt'[m]
        PROVE  InTime(m, d)'
    <3>1. (clock + Cool) + Load(Cardinality(Ahead(m)')) + MaxCompute < d
      <4>1. nextAt'[m] \in Nat
        BY <1>5, <2>1
      <4> QED BY <1>2, <2>2, <2>3, <2>4, <4>1, Constants
    <3> QED BY <1>8, <1>9, <2>1, <2>4, <3>1 DEF InTime
  <2>5. CASE m = k
    <3>1. PICK entry \in ToSet(cache') : entry.key = k /\ entry.at = clock
      BY <1>7
    <3> DEFINE d == entry.at + Ttl[k]
    <3>2. d \in Nat /\ d = clock + Ttl[k]
      BY <1>2, <1>3, <3>1
    <3> HIDE DEF d
    <3>3. nextAt'[m] + Load(Cardinality(Named) - 1) + MaxCompute < d
      BY <1>2, <1>3, <1>5, <2>3, <2>5, <3>2, Constants
    <3>4. clock + Cool <= nextAt'[m]
      BY <1>2, <1>3, <1>5, <2>5, Constants
    <3>5. InTime(m, d)'
      BY <2>4, <3>2, <3>3, <3>4
    <3> QED BY <2>5, <3>1, <3>5 DEF d
  <2>6. CASE m # k
    <3>1. PICK old \in ToSet(cache) : old.key = m /\ InTime(m, old.at + Ttl[m])
      BY <2>1, <2>6 DEF CacheInv, Pace
    <3>2. ~Expired(old)
      BY <2>1, <2>6, <3>1, InTimeFresh
    <3>3. PICK entry \in ToSet(cache') : entry.key = m /\ old.at <= entry.at
      BY <1>7, <2>1, <3>1, <3>2
    <3> DEFINE d == entry.at + Ttl[m]
               e == old.at + Ttl[m]
    <3>4. d \in Nat /\ e \in Nat /\ e <= d
      <4>1. old.at \in Nat
        BY CacheEntries DEF CacheInv, Entries, Stores
      <4>2. entry.at \in Nat
        BY <1>7, CacheEntries DEF Entries, Stores
      <4> QED BY <2>1, <3>3, <4>1, <4>2, Constants
    <3>5. InTime(m, d)
      <4> HIDE DEF d
      <4> QED BY <2>1, <3>1, <3>4, InTimeMonotone DEF CacheInv
    <3> HIDE DEF d, e
    <3>6. ~Computing(m) /\ nextAt'[m] = nextAt[m] /\ nextAt[m] \in Nat
      BY <1>0, <1>5, <2>1, <2>6 DEF Computing
    <3>7. nextAt[m] + Load(Cardinality(Named) - 1) + MaxCompute < d
      BY <3>5, <3>6 DEF InTime
    <3>8. CASE clock + Cool <= nextAt[m]
      <4>1. InTime(m, d)'
        BY <2>4, <3>4, <3>6, <3>7, <3>8
      <4> QED BY <3>3, <4>1 DEF d
    <3>9. CASE ~(clock + Cool <= nextAt[m])
      <4>1. ~(nextAt'[k] <= nextAt'[m])
        BY <1>2, <1>3, <1>5, <3>6, <3>9, Constants
      <4>2. Ahead(m)' = Ahead(m)
        <5>1. Computing(k) /\ \A l \in Named \ {k} : ~Computing(l)
          BY <1>0, <1>1 DEF Computing
        <5> QED BY <1>5, <1>9, <2>1, <3>6, <4>1, <5>1 DEF Ahead
      <4>3. Cardinality(Ahead(m)) \in Nat
        BY <2>1, AheadBound DEF CacheInv
      <4>4. FreeAt' \in Int /\ FreeAt' + Load(Cardinality(Ahead(m))) <= FreeAt + Load(Cardinality(Ahead(m)))
        <5>1. Load(Cardinality(Ahead(m))) \in Nat
          BY <4>3, LoadFacts
        <5>2. clock + Cool <= warm.since + MaxCompute + Cool
          BY <1>2, Constants
        <5> QED BY <1>2, <1>8, <5>1, <5>2, Constants
      <4> DEFINE n == Cardinality(Ahead(m))
      <4>5. n \in Nat /\ Cardinality(Ahead(m)') = n /\ FreeAt' + Load(n) <= FreeAt + Load(n)
        BY <4>2, <4>3, <4>4
      <4> HIDE DEF n
      <4>6. InTime(m, d)'
        BY <1>6, <1>9, <2>1, <3>4, <3>5, <3>6, <4>4, <4>5, InTimeCarries DEF n
      <4> QED BY <3>3, <4>6 DEF d
    <3> QED BY <3>8, <3>9
  <2> QED BY <2>5, <2>6
<1> QED BY <1>4, <1>6, <1>7, <1>10 DEF CacheInv

\* While no target is kept warm there is nothing to be in time for.
LEMMA NoPace == ASSUME kept' = {} PROVE Pace'
BY DEF Pace

LEMMA FailStep == ASSUME CacheInv, WarmFails PROVE CacheInv'
<1>1. /\ warm.at = "compute" /\ answer' = None /\ kept' = {}
      /\ warm' = [at |-> "cool", target |-> None, since |-> clock]
      /\ nextAt' = [nextAt EXCEPT ![warm.target] = clock + Retry]
      /\ lock' = IF warm.target = Stats THEN [lock EXCEPT ![warm.target] = None] ELSE lock
      /\ failures < MaxFailures /\ failures' = failures + 1
      /\ UNCHANGED <<clock, cache, job, stop>>
  BY DEF WarmFails
<1>2. /\ warm.target \in Named /\ clock \in Nat /\ clock + Retry \in Nat /\ failures' \in 0..MaxFailures
      /\ warm.target = Stats => lock[Stats] = "prewarm"
  BY <1>1, Constants DEF CacheInv, Passes, Jobs
<1>3. Jobs'
  <2>1. \/ lock' = lock
        \/ lock[Stats] = "prewarm" /\ lock' = [lock EXCEPT ![Stats] = None]
    BY <1>1, <1>2
  <2> QED BY <1>1, <2>1, LockTaken
<1>4. Passes'
  <2>1. nextAt' \in [Named -> Nat]
    BY <1>1, <1>2 DEF CacheInv, Passes
  <2>2. warm'.at = "cool" /\ warm'.since = clock
        /\ warm' \in [at : {"idle", "wait", "compute", "cool", "ended"}, target : Named \cup {None}, since : Nat]
    BY <1>1, <1>2
  <2> QED BY <1>1, <1>2, <2>1, <2>2, Constants DEF CacheInv, Passes
<1>5. Entries'
  BY <1>1, <1>2, RestEntries
<1> QED BY <1>1, <1>3, <1>4, <1>5, NoPace DEF CacheInv

LEMMA AcquireStep == ASSUME CacheInv, WarmAcquires PROVE CacheInv'
<1>1. /\ warm.at = "wait" /\ lock[Stats] = None /\ answer' = None
      /\ warm' = [warm EXCEPT !.at = "compute", !.since = clock]
      /\ lock' = [lock EXCEPT ![Stats] = "prewarm"]
      /\ UNCHANGED <<clock, cache, job, nextAt, kept, stop, failures>>
  BY DEF WarmAcquires
<1>2. warm.target = Stats /\ kept = {} /\ clock \in Nat
  BY <1>1, Constants DEF CacheInv, Passes, Jobs
<1>3. Jobs'
  BY <1>1, LockTaken
<1>4. Passes'
  <2>1. warm'.at = "compute" /\ warm'.since = clock /\ warm'.target = Stats
        /\ warm' \in [at : {"idle", "wait", "compute", "cool", "ended"}, target : Named \cup {None}, since : Nat]
    BY <1>1, <1>2 DEF CacheInv, Passes
  <2>2. lock'[Stats] = "prewarm"
    BY <1>1, Constants DEF CacheInv, Jobs
  <2> QED BY <1>1, <1>2, <2>1, <2>2, Constants DEF CacheInv, Passes
<1>5. Entries'
  BY <1>1, <1>2, RestEntries
<1> QED BY <1>1, <1>2, <1>3, <1>4, <1>5, NoPace DEF CacheInv

\* The end of a pause comes no later than the prewarmer was to be free.
LEMMA RestStep == ASSUME CacheInv, WarmRests PROVE CacheInv'
<1>1. /\ warm.at = "cool" /\ ~stop /\ clock - warm.since >= Cool /\ answer' = None
      /\ warm' = Idle /\ UNCHANGED <<clock, cache, lock, job, nextAt, kept, stop, failures>>
  BY DEF WarmRests
<1>2. clock \in Nat /\ warm.since \in Nat
  BY Constants DEF CacheInv, Passes, Jobs
<1>3. Jobs'
  BY <1>1, LockTaken
<1>4. Passes'
  <2>1. warm'.at = "idle" /\ warm' \in [at : {"idle", "wait", "compute", "cool", "ended"}, target : Named \cup {None}, since : Nat]
    BY <1>1 DEF Idle
  <2> QED BY <1>1, <2>1 DEF CacheInv, Passes
<1>5. Entries'
  BY <1>1, <1>2, RestEntries
<1>6. Pace'
  <2> SUFFICES ASSUME NEW k \in kept
               PROVE  \E entry \in ToSet(cache) : entry.key = k /\ InTime(k, entry.at + Ttl[k])'
    BY <1>1 DEF Pace
  <2>1. k \in Named /\ k \in Keys
    BY Constants DEF CacheInv, Passes
  <2>2. PICK entry \in ToSet(cache) : entry.key = k /\ InTime(k, entry.at + Ttl[k])
    BY DEF CacheInv, Pace
  <2> DEFINE d == entry.at + Ttl[k]
  <2>3. d \in Nat /\ InTime(k, d)
    BY <2>1, <2>2, CacheEntries, Constants DEF CacheInv, Entries, Stores
  <2> HIDE DEF d
  <2>4. warm'.at = "idle"
    BY <1>1 DEF Idle
  <2>5. Ahead(k)' = Ahead(k) /\ ~Computing(k) /\ ~Computing(k)'
    BY <1>1, <2>4 DEF Ahead, Computing
  <2>6. FreeAt' = clock /\ FreeAt = warm.since + Cool /\ FreeAt' <= FreeAt
    <3>1. FreeAt' = clock /\ FreeAt = warm.since + Cool
      BY <1>1, <2>4 DEF FreeAt
    <3>2. clock <= warm.since + Cool
      BY <1>1 DEF CacheInv, Passes
    <3> QED BY <3>1, <3>2
  <2>7. Cardinality(Ahead(k)) \in Nat /\ Load(Cardinality(Ahead(k))) \in Nat
    BY <2>1, AheadBound, LoadFacts
  <2>8. PICK n \in Nat : n = Cardinality(Ahead(k)) /\ Load(n) \in Nat
    BY <2>7
  <2>9. FreeAt' \in Int /\ FreeAt' + Load(n) <= FreeAt + Load(n)
    BY <1>2, <2>6, <2>8, Constants
  <2>10. InTime(k, d)'
    BY <1>1, <1>4, <2>1, <2>3, <2>5, <2>8, <2>9, InTimeCarries
  <2> QED BY <2>2, <2>10 DEF d
<1> QED BY <1>3, <1>4, <1>5, <1>6 DEF CacheInv

LEMMA StopSteps == ASSUME CacheInv, StopPrewarmer \/ WarmLeaves PROVE CacheInv'
<1>1. /\ answer' = None /\ UNCHANGED <<clock, cache, lock, job, nextAt, failures>>
      /\ \/ stop' = TRUE /\ kept' = {} /\ warm' = warm
         \/ stop /\ stop' = stop /\ kept' = kept /\ warm' = [Idle EXCEPT !.at = "ended"]
  BY DEF StopPrewarmer, WarmLeaves
<1>2. clock \in Nat /\ (stop => kept = {})
  BY Constants DEF CacheInv, Jobs, Passes
<1>3. kept' = {}
  BY <1>1, <1>2
<1>4. Jobs'
  BY <1>1, LockTaken
<1>5. Passes'
  <2>1. [Idle EXCEPT !.at = "ended"] \in [at : {"idle", "wait", "compute", "cool", "ended"}, target : Named \cup {None}, since : Nat]
        /\ [Idle EXCEPT !.at = "ended"].at = "ended"
    BY DEF Idle
  <2>2. stop' \in BOOLEAN
    BY <1>1 DEF CacheInv, Passes
  <2>3. CASE warm' = warm
    BY <1>1, <1>3, <2>2, <2>3 DEF CacheInv, Passes
  <2>4. CASE warm' = [Idle EXCEPT !.at = "ended"]
    <3>1. warm'.at = "ended" /\ warm' \in [at : {"idle", "wait", "compute", "cool", "ended"}, target : Named \cup {None}, since : Nat]
      BY <2>1, <2>4
    <3> QED BY <1>1, <1>3, <2>2, <3>1 DEF CacheInv, Passes
  <2> QED BY <1>1, <2>3, <2>4
<1>6. Entries'
  BY <1>1, <1>2, RestEntries
<1> QED BY <1>3, <1>4, <1>5, <1>6, NoPace DEF CacheInv

LEMMA StutterStep == ASSUME CacheInv, UNCHANGED vars PROVE CacheInv'
<1>1. UNCHANGED <<clock, cache, last, lock, job, answer, warm, nextAt, kept, stop, failures>>
  BY DEF vars
<1>2. Entries' /\ Jobs' /\ Passes'
  BY <1>1 DEF CacheInv, Entries, Jobs, Passes
<1>3. Pace'
  <2>1. \A k, d : InTime(k, d)' <=> InTime(k, d)
    BY <1>1, InTimeSame
  <2> QED BY <1>1, <2>1 DEF CacheInv, Pace
<1> QED BY <1>2, <1>3 DEF CacheInv

LEMMA CacheStep == CacheInv /\ [Next]_vars => CacheInv'
<1> SUFFICES ASSUME CacheInv, [Next]_vars PROVE CacheInv'
  OBVIOUS
<1>1. CASE Tick \/ WarmFails \/ StopPrewarmer \/ UNCHANGED vars
  BY <1>1, TickStep, FailStep, StopSteps, StutterStep
<1>2. CASE WarmStep
  BY <1>2, BeginStep, AcquireStep, EndStep, RestStep, StopSteps DEF WarmStep
<1>3. ASSUME NEW t \in Threads, Acquire(t) \/ Finish(t) \/ Error(t) \/ \E k \in Keys : Request(t, k) PROVE CacheInv'
  BY <1>3, ThreadStep
<1> QED BY <1>1, <1>2, <1>3 DEF Next

-----------------------------------------------------------------------------
\* What a step does to the cache: a look-up, a store, or nothing.
LEMMA CacheKinds ==
  ASSUME CacheInv, [Next]_vars
  PROVE  \/ \E k \in Keys : cache' = Looked(k) /\ last' = last /\ clock' = clock
         \/ \E k \in Keys, asOf \in Nat : Store(k, asOf) /\ clock' = clock
         \/ cache' = cache /\ last' = last /\ (clock' = clock \/ clock' = clock + 1)
<1>1. \A t \in Threads : job[t] # None => job[t].key \in Keys /\ job[t].asOf \in Nat
  BY DEF CacheInv, Jobs, Work
<1>2. warm.at = "compute" => warm.target \in Keys /\ warm.since \in Nat
  BY Constants DEF CacheInv, Passes
<1>3. ASSUME NEW t \in Threads, Acquire(t) \/ \E k \in Keys : Request(t, k)
      PROVE  \E k \in Keys : cache' = Looked(k) /\ last' = last /\ clock' = clock
  BY <1>1, <1>3 DEF Acquire, Request
<1>4. ASSUME NEW t \in Threads, Finish(t)
      PROVE  \E k \in Keys, asOf \in Nat : Store(k, asOf) /\ clock' = clock
  BY <1>1, <1>4 DEF Finish
<1>5. ASSUME WarmEnds PROVE \E k \in Keys, asOf \in Nat : Store(k, asOf) /\ clock' = clock
  BY <1>2, <1>5 DEF WarmEnds
<1>6. ASSUME NEW t \in Threads, Error(t) PROVE UNCHANGED <<cache, last, clock>>
  BY <1>6 DEF Error
<1>7. CASE Tick \/ WarmFails \/ StopPrewarmer \/ UNCHANGED vars
  BY <1>7 DEF Tick, WarmFails, StopPrewarmer, vars
<1>8. CASE WarmBegins \/ WarmAcquires \/ WarmRests \/ WarmLeaves
  BY <1>8 DEF WarmBegins, WarmAcquires, WarmRests, WarmLeaves
<1> QED BY <1>3, <1>4, <1>5, <1>6, <1>7, <1>8 DEF Next, WarmStep

LEMMA RememberedStep ==
  ASSUME CacheInv, Remembered, [Next]_vars
  PROVE  Remembered'
<1>1. cache \in Caches /\ Len(cache) <= Cap /\ Cap \in Nat /\ clock \in Nat
  BY Constants DEF CacheInv, Jobs, Entries
<1>2. \A k \in Named : Ttl[k] \in Nat /\ (last[k] # None => last[k] \in Nat)
  BY Constants DEF Remembered
<1>3. ASSUME NEW c \in Keys, cache' = Looked(c), last' = last, clock' = clock PROVE Remembered'
  <2>1. \A entry \in ToSet(cache) : ~Expired(entry) => entry \in ToSet(cache')
    BY <1>1, <1>3, LookedGood
  <2>2. ASSUME NEW k \in Named, last[k] # None
        PROVE  \/ \E entry \in ToSet(cache') : entry.key = k /\ entry.at = last[k]
               \/ clock - last[k] >= Ttl[k]
    BY <2>1, <2>2 DEF Remembered, Expired
  <2> QED BY <1>3, <2>2 DEF Remembered
<1>4. ASSUME NEW c \in Keys, NEW asOf \in Nat, Store(c, asOf), clock' = clock PROVE Remembered'
  <2> DEFINE new == [key |-> c, at |-> clock, asOf |-> asOf]
  <2>1. /\ c \in Named => new \in ToSet(cache')
        /\ \A entry \in ToSet(cache) : entry.key \in Named \ {c} /\ ~Expired(entry) => entry \in ToSet(cache')
    BY <1>1, <1>4, StoredGood DEF Store
  <2>2. /\ last' \in [Named -> Nat \cup {None}]
        /\ \A k \in Named : last'[k] = IF k = c THEN clock ELSE last[k]
    BY <1>1, <1>4 DEF Store, Remembered
  <2>3. new.key = c /\ new.at = clock
    OBVIOUS
  <2> HIDE DEF new
  <2>4. ASSUME NEW k \in Named, last'[k] # None
        PROVE  \/ \E entry \in ToSet(cache') : entry.key = k /\ entry.at = last'[k]
               \/ clock - last'[k] >= Ttl[k]
    <3>1. CASE k = c
      BY <2>1, <2>2, <2>3, <3>1
    <3>2. CASE k # c
      BY <2>1, <2>2, <2>4, <3>2 DEF Remembered, Expired
    <3> QED BY <3>1, <3>2
  <2> QED BY <1>4, <2>2, <2>4 DEF Remembered
<1>5. CASE cache' = cache /\ last' = last /\ (clock' = clock \/ clock' = clock + 1)
  BY <1>1, <1>2, <1>5 DEF Remembered
<1> QED BY <1>3, <1>4, <1>5, CacheKinds

LEMMA CacheAlways == Spec => [](CacheInv /\ Remembered)
<1>1. Init => CacheInv /\ Remembered
  BY CacheInit DEF Init, Remembered
<1>2. CacheInv /\ Remembered /\ [Next]_vars => (CacheInv /\ Remembered)'
  BY CacheStep, RememberedStep
<1> QED BY <1>1, <1>2, PTL DEF Spec

\* Who begins to compute has got the lock and found nothing under it.
LEMMA BeginsOnMiss ==
  ASSUME CacheInv, [Next]_vars, NEW t \in Threads, Computes(job'[t]), ~Computes(job[t])
  PROVE  job[t] # None /\ job'[t].key = job[t].key /\ ~Fresh(job[t].key)
<1>1. DOMAIN job = Threads /\ \A u \in Threads : job[u] # None => job[u] \in Work
  BY DEF CacheInv, Jobs
<1>2. job' # job
  OBVIOUS
<1>3. CASE \E u \in Threads : Acquire(u)
  <2>1. PICK u \in Threads : Acquire(u)
    BY <1>3
  <2>2. job[u] # None
        /\ (IF Fresh(job[u].key) THEN job' = [job EXCEPT ![u] = None]
            ELSE job' = [job EXCEPT ![u].at = "compute", ![u].asOf = clock])
    BY <2>1 DEF Acquire, AnswerFrom, Answer, Compute
  <2>3. u = t /\ ~Fresh(job[t].key)
    BY <1>1, <2>2 DEF Computes
  <2>4. job'[t] = [[job[t] EXCEPT !.at = "compute"] EXCEPT !.asOf = clock]
    BY <1>1, <2>2, <2>3
  <2>5. job'[t].key = job[t].key
    BY <1>1, <2>2, <2>3, <2>4 DEF Work
  <2> QED BY <2>2, <2>3, <2>5
<1>4. ASSUME NEW u \in Threads, NEW k \in Keys, Request(u, k) PROVE FALSE
  <2>1. \/ job' = [job EXCEPT ![u] = None]
        \/ job' = [job EXCEPT ![u] = [key |-> k, at |-> "wait", asOf |-> 0]]
    BY <1>4 DEF Request, AnswerFrom, Answer
  <2> QED BY <1>1, <2>1 DEF Computes
<1>5. ASSUME NEW u \in Threads, Finish(u) \/ Error(u) PROVE FALSE
  <2>1. job' = [job EXCEPT ![u] = None]
    BY <1>5 DEF Finish, Error, Answer
  <2> QED BY <1>1, <2>1 DEF Computes
<1>6. CASE Tick \/ WarmStep \/ WarmFails \/ StopPrewarmer \/ UNCHANGED vars
  <2>1. job' = job
    BY <1>6 DEF Tick, WarmStep, WarmBegins, WarmAcquires, WarmEnds, WarmRests, WarmLeaves, WarmFails, StopPrewarmer, vars
  <2> QED BY <1>2, <2>1
<1> QED BY <1>3, <1>4, <1>5, <1>6 DEF Next

\* However many requests meet a missing entry, one of them computes
\* (_stats_compute_lock and the locks per window; _prewarm_loop takes that of
\* the stats), and none does while the last answer to a named key still lives: the
\* look-up under the lock finds it, and no flood of other keys has evicted it.
THEOREM SingleFlightAlways == Spec => SingleFlight
<1> DEFINE Missed == \A t \in Threads : Computes(job'[t]) /\ ~Computes(job[t]) =>
             LET k == job'[t].key
             IN  k \in Named /\ last[k] # None => clock - last[k] >= Ttl[k]
<1>1. CacheInv /\ Remembered /\ (CacheInv /\ Remembered)' /\ [Next]_vars => [Alone' /\ Missed]_vars
  <2> SUFFICES ASSUME CacheInv, Remembered, CacheInv', Remembered', [Next]_vars PROVE Alone' /\ Missed
    OBVIOUS
  <2>1. Alone'
    BY InvGives, Constants DEF CacheInv, Jobs, Passes, Alone, Computes
  <2>2. ASSUME NEW t \in Threads, Computes(job'[t]), ~Computes(job[t]),
               job'[t].key \in Named, last[job'[t].key] # None
        PROVE  clock - last[job'[t].key] >= Ttl[job'[t].key]
    <3> DEFINE k == job[t].key
    <3>1. job'[t].key = k /\ ~Fresh(k)
      BY <2>2, BeginsOnMiss
    <3> HIDE DEF k
    <3>2. \A entry \in ToSet(cache) : entry.key = k => clock - entry.at >= Ttl[k]
      BY <3>1 DEF Fresh, Entry, Expired
    <3> QED BY <2>2, <3>1, <3>2 DEF Remembered
  <2> QED BY <2>1, <2>2
<1> HIDE DEF Missed
<1>2. Spec => [][Alone' /\ Missed]_vars
  BY <1>1, CacheAlways, PTL DEF Spec
<1> QED BY <1>2 DEF SingleFlight, Missed

\* For any number of threads, targets and windows: no answer is older than its time to
\* live and a computation, and as long as the prewarmer's passes neither fail nor wait,
\* each target that was warm is still there when it is computed again, however many
\* windows fill the cache (_prewarm_loop's next_at, _set_cache's choice of a victim).
THEOREM WarmAndFreshAlways == Spec => []WarmAndFresh
<1>1. CacheInv /\ Remembered => WarmAndFresh
  BY InvGives
<1> QED BY <1>1, CacheAlways, PTL

-----------------------------------------------------------------------------
(* The map.  Numbers: division, and the greatest element of a finite set *)

LEMMA DivIs ==
  ASSUME NEW n \in Int, NEW m \in Nat \ {0}
  PROVE  /\ n \div m \in Int
         /\ m * (n \div m) <= n /\ n < m * (n \div m) + m
         /\ \A c \in Int : m * c <= n /\ n < m * c + m => n \div m = c
<1>1. n \div m \in Int /\ m * (n \div m) <= n /\ n < m * (n \div m) + m
  OBVIOUS
<1>2. ASSUME NEW c \in Int, m * c <= n, n < m * c + m PROVE n \div m = c
  <2> DEFINE q == n \div m
  <2>1. q \in Int /\ m * q <= n /\ n < m * q + m
    BY <1>1
  <2> HIDE DEF q
  <2>2. m * (c - q) < m /\ m * (q - c) < m
    BY <1>2, <2>1
  <2>3. \A k \in Int : k >= 1 => m * k >= m
    OBVIOUS
  <2>4. c - q < 1 /\ q - c < 1
    BY <2>1, <2>2, <2>3
  <2> QED BY <2>1, <2>4 DEF q
<1> QED BY <1>1, <1>2

LEMMA DivNat ==
  ASSUME NEW n \in Nat, NEW m \in Nat \ {0}
  PROVE  n \div m \in Nat
<1> DEFINE q == n \div m
<1>1. q \in Int /\ n < m * q + m
  BY DivIs
<1> HIDE DEF q
<1>2. ASSUME q <= -1 PROVE FALSE
  <2>1. \A k \in Int : k <= -1 => m * k <= -m
    OBVIOUS
  <2> QED BY <1>1, <1>2, <2>1
<1> QED BY <1>1, <1>2 DEF q

LEMMA DivMonotone ==
  ASSUME NEW a \in Int, NEW b \in Int, NEW m \in Nat \ {0}, a <= b
  PROVE  a \div m <= b \div m
<1> DEFINE p == a \div m
           q == b \div m
<1>1. p \in Int /\ q \in Int /\ m * p <= a /\ b < m * q + m
  BY DivIs
<1> HIDE DEF p, q
<1>2. m * (p - q) < m
  BY <1>1
<1>3. \A k \in Int : k >= 1 => m * k >= m
  OBVIOUS
<1>4. p - q < 1
  BY <1>1, <1>2, <1>3
<1> QED BY <1>1, <1>4 DEF p, q

\* Days before: a multiple of the divisor comes out.
LEMMA DivShift ==
  ASSUME NEW a \in Int, NEW k \in Int, NEW m \in Nat \ {0}
  PROVE  (a - k * m) \div m = (a \div m) - k
<1> DEFINE q == a \div m
<1>1. q \in Int /\ m * q <= a /\ a < m * q + m
  BY DivIs
<1> HIDE DEF q
<1>2. a - k * m \in Int /\ q - k \in Int /\ m * (q - k) = m * q - k * m
  BY <1>1
<1>3. m * (q - k) <= a - k * m /\ a - k * m < m * (q - k) + m
  BY <1>1, <1>2
<1>4. (a - k * m) \div m = q - k
  BY <1>2, <1>3, DivIs
<1> QED BY <1>4 DEF q

\* A bucket of ten times as many tenths.
LEMMA DivTwice ==
  ASSUME NEW a \in Nat, NEW k \in Nat \ {0}
  PROVE  (a \div 10) \div k = a \div (10 * k)
<1> DEFINE p == a \div 10
           q == p \div k
<1>1. p \in Nat /\ 10 * p <= a /\ a < 10 * p + 10
  BY DivIs, DivNat
<1>2. q \in Nat /\ k * q <= p /\ p < k * q + k
  <2> HIDE DEF p
  <2> QED BY <1>1, DivIs, DivNat
<1> HIDE DEF p, q
<1>3. k * q \in Int /\ 10 * (k * q) <= a /\ a < 10 * (k * q) + 10 * k
  BY <1>1, <1>2
<1>4. 10 * k \in Nat \ {0} /\ (10 * k) * q = 10 * (k * q)
  BY <1>2
<1>5. a \div (10 * k) = q
  BY <1>2, <1>3, <1>4, DivIs
<1> QED BY <1>5 DEF p, q

LEMMA GreatestElement ==
  ASSUME NEW S, S \subseteq Nat, S # {}, IsFiniteSet(S)
  PROVE  Max(S) \in S /\ \A n \in S : n <= Max(S)
<1> DEFINE Above(n) == {m \in S : m > n}
           T == {Above(n) : n \in S}
<1>1. T \subseteq FiniteSubsetsOf(Nat) /\ T # {}
  <2>1. \A n \in S : IsFiniteSet(Above(n)) /\ Above(n) \subseteq Nat
    BY FS_Subset
  <2> QED BY <2>1 DEF FiniteSubsetsOf
<1>2. PICK s \in T : \A t \in T : <<t, s>> \notin StrictSubsetOrdering(Nat)
  <2> HIDE DEF T
  <2> QED BY <1>1, WFMin, FS_StrictSubsetOrderingWellFounded
<1>3. PICK n \in S : s = Above(n)
  BY <1>2
<1>4. ASSUME NEW m \in S, m > n PROVE FALSE
  <2>1. Above(m) \in T /\ Above(m) \subseteq Above(n) /\ m \in Above(n) /\ m \notin Above(m)
    <3>1. m \in Nat /\ n \in Nat /\ \A k \in S : k \in Nat
      OBVIOUS
    <3>2. \A k \in S : k > m => k > n
      BY <1>4, <3>1
    <3>3. Above(m) \in T
      OBVIOUS
    <3>4. Above(m) \subseteq Above(n)
      BY <3>2
    <3>5. m \in Above(n)
      BY <1>4
    <3>6. m \notin Above(m)
      BY <3>1
    <3> QED BY <3>3, <3>4, <3>5, <3>6
  <2>2. <<Above(m), s>> \in StrictSubsetOrdering(Nat)
    BY <1>3, <2>1 DEF StrictSubsetOrdering
  <2> QED BY <1>2, <2>1, <2>2
<1>5. \A m \in S : n >= m
  BY <1>4
<1> QED BY <1>5 DEF Max

LEMMA TopIs ==
  ASSUME NEW S, S \subseteq Nat, IsFiniteSet(S)
  PROVE  /\ Top(S) \in S \cup {0} /\ Top(S) \in Nat /\ \A y \in S : y <= Top(S)
         /\ \A n \in S \cup {0} : (\A y \in S : y <= n) => n = Top(S)
<1>1. S \cup {0} \subseteq Nat /\ IsFiniteSet(S \cup {0}) /\ S \cup {0} # {}
  BY FS_AddElement
<1>2. Top(S) \in S \cup {0} /\ \A y \in S \cup {0} : y <= Top(S)
  BY <1>1, GreatestElement DEF Top
<1>3. ASSUME NEW n \in S \cup {0}, \A y \in S : y <= n PROVE n = Top(S)
  <2>1. n \in Nat /\ Top(S) \in Nat /\ n <= Top(S)
    BY <1>1, <1>2
  <2>2. Top(S) <= n
    BY <1>2, <1>3, <2>1
  <2> QED BY <2>1, <2>2
<1> QED BY <1>1, <1>2, <1>3

-----------------------------------------------------------------------------
(* Cells, days and directions of a fix *)

Fixes == [ts : 0..LastMoment, flight : Flights, place : Places]
Direction(x) == (Bearing[x.place] \div 10) % Circle

LEMMA MapConstants ==
  /\ Unit \in Nat \ {0} /\ Step \in Nat \ {0} /\ Fine \in Nat \ {0} /\ Coarse \in Nat \ {0} /\ Fine # Coarse
  /\ Circle \in Nat \ {0} /\ BucketDeg \in Nat \ {0} /\ Day \in Nat \ {0} /\ Trail \in Nat \ {0}
  /\ Week \in Nat /\ Month \in Nat /\ FineRetention \in Nat /\ Month > Week /\ FineRetention > Week
  /\ MaxSeen \in Nat /\ LastMoment \in Nat /\ MapWindow \in Nat /\ TrailWindow \in Nat /\ TrailWindow >= MapWindow
  /\ MinKeep \in Nat /\ FlightGap \in Nat /\ LiveSlack \in Nat /\ History \in Nat /\ Retention \in Nat
  /\ Lead \in Nat /\ Places \subseteq Int /\ DistNm \in [Coordinates -> Nat] /\ Bearing \in [Coordinates -> 0..(10 * Circle - 1)]
  BY MapViewsAssumption

\* What is stored of a coordinate is the nearest multiple of a step.
LEMMA DecodedIs ==
  ASSUME NEW p \in Places
  PROVE  p \in Coordinates /\ Decoded(p) \in Coordinates /\ Decoded(p) \in Int
         /\ 2 * Decoded(p) - 2 * p <= Step /\ 2 * p - 2 * Decoded(p) <= Step
<1> DEFINE low == p \div Step
           r == p % Step
           up == r + r < Step \/ (r + r = Step /\ low % 2 = 0)
<1>1. p \in Int /\ Step \in Nat \ {0}
  BY MapConstants
<1>2. low \in Int /\ r \in Int /\ 0 <= r /\ r < Step /\ p = Step * low + r
  BY <1>1
<1>3. Decoded(p) = Step * (IF up THEN low ELSE low + 1)
  <2>1. 2 * r = r + r
    BY <1>2
  <2> QED BY <2>1 DEF Decoded
<1>4. (up => r + r <= Step) /\ (~up => r + r >= Step)
  <2> HIDE DEF r, low
  <2> QED BY <1>1, <1>2
<1> HIDE DEF low, r, up
<1>5. Step * (low + 1) = Step * low + Step /\ Step * low \in Int
  BY <1>1, <1>2
<1>6. CASE up
  <2>1. Decoded(p) = Step * low
    BY <1>3, <1>6
  <2> QED BY <1>1, <1>2, <1>4, <1>5, <1>6, <2>1 DEF Coordinates
<1>7. CASE ~up
  <2>1. Decoded(p) = Step * low + Step
    BY <1>3, <1>5, <1>7
  <2> QED BY <1>1, <1>2, <1>4, <1>5, <1>7, <2>1 DEF Coordinates
<1> QED BY <1>6, <1>7

LEMMA CoordinatesAre == Coordinates \subseteq Int /\ Places \subseteq Coordinates
  BY MapConstants, DecodedIs DEF Coordinates

\* A bucket's centre is nearest, that of a float short of its edge too.
LEMMA BucketIs ==
  ASSUME NEW p \in Coordinates, NEW s \in Scales
  PROVE  Bucket(p, s) \in Cells /\ Cells \subseteq Int /\ NearestCell(p, s, Bucket(p, s), 0)
<1> DEFINE n(q, r) == 2 * q * r + Unit
           m == 2 * Unit
           edge(q, r) == n(q, r) % m = 0
<1>0. ASSUME NEW q \in Coordinates, NEW r \in Scales PROVE n(q, r) \in Int /\ q \in Int /\ r \in Nat
  BY CoordinatesAre, MapConstants DEF Scales
<1>1. m \in Nat \ {0} /\ p \in Int /\ s \in Nat /\ Unit \in Nat
  BY <1>0, MapConstants
<1>2. ASSUME NEW q \in Coordinates, NEW r \in Scales
      PROVE  \/ Bucket(q, r) = n(q, r) \div m
             \/ edge(q, r) /\ Bucket(q, r) = (n(q, r) \div m) - 1
  BY DEF Bucket
<1>3. Cells \subseteq Int
  <2>1. ASSUME NEW q \in Coordinates, NEW r \in Scales PROVE Bucket(q, r) \in Int
    <3>1. n(q, r) \div m \in Int
      <4>1. n(q, r) \in Int
        BY <1>0
      <4> HIDE DEF n, m
      <4> QED BY <1>1, <4>1, DivIs
    <3> HIDE DEF n, m, edge
    <3> QED BY <1>2, <3>1
  <2> QED BY <2>1 DEF Cells
<1>4. Bucket(p, s) \in Cells
  BY DEF Cells
<1> DEFINE c == Bucket(p, s)
           v == n(p, s)
<1>5. v \in Int
  BY <1>0
<1>6. m * c <= v /\ v <= m * c + m
  <2> DEFINE q == v \div m
  <2>1. q \in Int /\ m * q <= v /\ v < m * q + m
    <3> HIDE DEF v, m
    <3> QED BY <1>1, <1>5, DivIs
  <2>2. CASE c = q
    <3> HIDE DEF v, m, q, c
    <3> QED BY <1>1, <1>5, <2>1, <2>2
  <2>3. CASE v % m = 0 /\ c = q - 1
    <3>1. v = m * q
      <4> HIDE DEF v, m
      <4> QED BY <1>1, <1>5, <2>3
    <3>2. m * (q - 1) = m * q - m /\ m * q \in Int
      <4> HIDE DEF v, m, q
      <4> QED BY <1>1, <2>1
    <3> HIDE DEF v, m, q, c
    <3> QED BY <1>1, <1>5, <2>3, <3>1, <3>2
  <2> QED BY <1>2, <2>2, <2>3
<1>7. NearestCell(p, s, c, 0)
  <2>1. c \in Int
    BY <1>3, <1>4
  <2> HIDE DEF c
  <2> DEFINE w == 2 * p * s
             u == c * Unit
  <2>2. w \in Int /\ u \in Int
    BY <1>1, <2>1
  <2>3. 2 * c * Unit = 2 * u /\ m * c = 2 * u /\ v = w + Unit
    BY <1>1, <2>1
  <2>4. 2 * u <= w + Unit /\ w + Unit <= 2 * u + 2 * Unit
    BY <1>6, <2>3
  <2>5. w - Unit - 0 <= 2 * u /\ 2 * u <= w + Unit + 0
    <3> HIDE DEF w, u
    <3> QED BY <1>1, <2>2, <2>4
  <2> QED BY <2>3, <2>5 DEF NearestCell
<1> QED BY <1>3, <1>4, <1>7

\* By the stored coordinate: half a step less near.
LEMMA DecodedBucket ==
  ASSUME NEW p \in Places
  PROVE  NearestCell(p, Fine, Bucket(Decoded(p), Fine), Step * Fine)
<1> DEFINE q == Decoded(p)
           c == Bucket(q, Fine)
<1>1. /\ q \in Coordinates /\ q \in Int /\ p \in Int /\ Step \in Nat /\ Fine \in Nat /\ Unit \in Nat
      /\ 2 * q - 2 * p <= Step /\ 2 * p - 2 * q <= Step
  BY DecodedIs, MapConstants
<1>2. c \in Int /\ NearestCell(q, Fine, c, 0)
  BY <1>1, BucketIs DEF Scales
<1> HIDE DEF q, c
<1>3. (2 * q - 2 * p) * Fine <= Step * Fine /\ (2 * p - 2 * q) * Fine <= Step * Fine
  BY <1>1
<1> DEFINE u == 2 * c * Unit
           v == 2 * q * Fine
           w == 2 * p * Fine
           z == Step * Fine
<1>4. u \in Int /\ v \in Int /\ w \in Int /\ z \in Int
  BY <1>1, <1>2
<1>5. (2 * q - 2 * p) * Fine = v - w /\ (2 * p - 2 * q) * Fine = w - v
  BY <1>1
<1>6. v - Unit <= u /\ u <= v + Unit
  <2>1. v - Unit - 0 <= u /\ u <= v + Unit + 0
    BY <1>2 DEF NearestCell
  <2> HIDE DEF u, v
  <2> QED BY <1>1, <1>4, <2>1
<1>7. v - w <= z /\ w - v <= z
  BY <1>3, <1>5
<1>8. w - Unit - z <= u /\ u <= w + Unit + z
  <2> HIDE DEF u, v, w, z
  <2> QED BY <1>1, <1>4, <1>6, <1>7
<1> QED BY <1>8 DEF NearestCell, q, c

LEMMA DayIs ==
  /\ Days \subseteq Nat
  /\ \A t \in 0..LastMoment : DayOf(t) \in Days
<1>1. LastMoment \div Day \in Nat
  BY MapConstants, DivNat
<1>2. ASSUME NEW t \in 0..LastMoment PROVE t \div Day \in Nat /\ t \div Day <= LastMoment \div Day
  <2>1. t \in Nat /\ t \in Int /\ LastMoment \in Int /\ t <= LastMoment
    BY MapConstants
  <2> QED BY <2>1, MapConstants, DivNat, DivMonotone
<1> QED BY <1>1, <1>2 DEF Days, DayOf

LEMMA BearingIs ==
  ASSUME NEW place \in Coordinates
  PROVE  /\ (Bearing[place] \div 10) % Circle \in Degrees /\ Degrees \subseteq Nat
         /\ ((Bearing[place] \div 10) % Circle) \div BucketDeg = Bearing[place] \div (10 * BucketDeg)
         /\ (Bearing[place] \div (10 * BucketDeg)) % Cardinality(Buckets) = Bearing[place] \div (10 * BucketDeg)
<1> DEFINE a == Bearing[place]
           p == a \div 10
           b == a \div (10 * BucketDeg)
           top == (Circle - 1) \div BucketDeg
<1>1. a \in Nat /\ a <= 10 * Circle - 1 /\ Circle \in Nat \ {0} /\ BucketDeg \in Nat \ {0}
  <2>1. Circle \in Nat \ {0} /\ BucketDeg \in Nat \ {0} /\ a \in 0..(10 * Circle - 1)
    BY MapConstants
  <2> HIDE DEF a
  <2> QED BY <2>1
<1> HIDE DEF a
<1>2. p \in Nat /\ 10 * p <= a
  BY <1>1, DivIs, DivNat
<1>3. b = p \div BucketDeg
  BY <1>1, DivTwice
<1> HIDE DEF p, b
<1>4. p <= Circle - 1 /\ p % Circle = p
  <2>1. p < Circle
    BY <1>1, <1>2
  <2> QED BY <1>1, <1>2, <2>1
<1>5. top \in Nat /\ b \in Nat /\ b <= top
  <2>1. Circle - 1 \in Nat /\ Circle - 1 \in Int /\ p \in Int
    BY <1>1, <1>2
  <2> QED BY <1>1, <1>2, <1>3, <1>4, <2>1, DivNat, DivMonotone
<1>6. Buckets = 0..top
  <2>1. ASSUME NEW d \in Degrees PROVE d \div BucketDeg \in 0..top
    <3>1. d \in Nat /\ d \in Int /\ Circle - 1 \in Int /\ d <= Circle - 1
      BY <1>1 DEF Degrees
    <3>2. d \div BucketDeg \in Nat /\ d \div BucketDeg <= top
      BY <1>1, <3>1, DivNat, DivMonotone
    <3> QED BY <1>5, <3>2
  <2>2. ASSUME NEW e \in 0..top PROVE \E d \in Degrees : e = d \div BucketDeg
    <3>1. e * BucketDeg \in Nat /\ Circle - 1 \in Int
      BY <1>1, <1>5
    <3>2. BucketDeg * top <= Circle - 1
      BY <1>1, <3>1, DivIs
    <3>3. e * BucketDeg <= Circle - 1
      <4> HIDE DEF top
      <4>1. e \in Nat /\ e <= top /\ top \in Nat
        BY <1>5
      <4>2. BucketDeg * e <= BucketDeg * top
        BY <1>1, <4>1
      <4>3. BucketDeg * e = e * BucketDeg
        BY <1>1, <4>1
      <4> QED BY <1>1, <3>1, <3>2, <4>1, <4>2, <4>3
    <3>4. e * BucketDeg \in Degrees
      BY <1>1, <3>1, <3>3 DEF Degrees
    <3>5. (e * BucketDeg) \div BucketDeg = e
      <4>1. e \in Int /\ BucketDeg * e = e * BucketDeg /\ e * BucketDeg < e * BucketDeg + BucketDeg
        BY <1>1, <3>1
      <4> QED BY <1>1, <3>1, <4>1, DivIs
    <3> QED BY <3>4, <3>5
  <2> QED BY <2>1, <2>2 DEF Buckets
<1>7. Cardinality(Buckets) = top + 1
  <2> HIDE DEF top
  <2> QED BY <1>5, <1>6, FS_Interval
<1>8. b % Cardinality(Buckets) = b
  <2> HIDE DEF top
  <2> QED BY <1>5, <1>7
<1> QED BY <1>1, <1>2, <1>3, <1>4, <1>8 DEF Degrees, a, p, b

LEMMA DirectionIs ==
  ASSUME NEW x \in Fixes
  PROVE  Direction(x) \in Degrees /\ Degrees \subseteq Nat
         /\ Direction(x) \div BucketDeg = Bearing[x.place] \div (10 * BucketDeg)
<1>1. x.place \in Coordinates
  BY CoordinatesAre DEF Fixes
<1> QED BY <1>1, BearingIs DEF Direction

-----------------------------------------------------------------------------
(* What a table of counts says about a set of fixes *)

Grids == UNION {[D -> Nat \ {0}] : D \in SUBSET GridKeys}
At(S, s, d, c) == {x \in S : DayOf(x.ts) = d /\ Bucket(x.place, s) = c}
Toward(S, d, e) == {x \in S : DayOf(x.ts) = d /\ Direction(x) = e}
Reach(S) == Top({DistNm[x.place] : x \in S})
Extent(cov, S) ==
    /\ DOMAIN cov \subseteq Days \X Degrees
    /\ \A d \in Days, e \in Degrees : Get(cov, <<d, e>>) = Reach(Toward(S, d, e))
Counted(g, S) == \A s \in Scales, d \in Days, c \in Cells : Get(g, <<s, d, c>>) = Cardinality(At(S, s, d, c))

Sum(g, h) == [k \in DOMAIN g \cup DOMAIN h |-> Get(g, k) + Get(h, k)]

LEMMA GetNat == ASSUME NEW g \in Grids, NEW k PROVE Get(g, k) \in Nat
  BY DEF Grids, Get

LEMMA GridIs == ASSUME NEW g PROVE g \in Grids <=> g \in [DOMAIN g -> Nat \ {0}] /\ DOMAIN g \subseteq GridKeys
  BY DEF Grids

LEMMA SumIs ==
  ASSUME NEW g \in Grids, NEW h \in Grids
  PROVE  Sum(g, h) \in Grids /\ \A k : Get(Sum(g, h), k) = Get(g, k) + Get(h, k)
<1> DEFINE D == DOMAIN g \cup DOMAIN h
<1>1. D \subseteq GridKeys /\ g \in [DOMAIN g -> Nat \ {0}] /\ h \in [DOMAIN h -> Nat \ {0}]
  BY GridIs
<1>2. \A k \in D : Get(g, k) + Get(h, k) \in Nat \ {0}
  BY <1>1 DEF Get
<1>3. Sum(g, h) \in [D -> Nat \ {0}]
  BY <1>2 DEF Sum
<1>4. Sum(g, h) \in Grids
  BY <1>1, <1>3 DEF Grids
<1>5. \A k : Get(Sum(g, h), k) = Get(g, k) + Get(h, k)
  BY DEF Sum, Get
<1> QED BY <1>4, <1>5

LEMMA PlusIs ==
  ASSUME NEW g \in Grids, NEW x \in Fixes
  PROVE  /\ Plus(g, x) \in Grids
         /\ \A s \in Scales : \A d, c : Get(Plus(g, x), <<s, d, c>>) =
              Get(g, <<s, d, c>>) + IF d = DayOf(x.ts) /\ c = Bucket(x.place, s) THEN 1 ELSE 0
<1> DEFINE D == DOMAIN g \cup CellsOf(x)
           P == Plus(g, x)
<1>1. CellsOf(x) \subseteq GridKeys
  <2>1. x.place \in Places /\ x.ts \in 0..LastMoment
    BY DEF Fixes
  <2>2. \A s \in Scales : <<s, DayOf(x.ts), Bucket(x.place, s)>> \in GridKeys
    BY <2>1, DayIs, BucketIs, CoordinatesAre DEF GridKeys
  <2> QED BY <2>2 DEF CellsOf
<1>2. D \subseteq GridKeys /\ g \in [DOMAIN g -> Nat \ {0}]
  BY <1>1, GridIs
<1>3. \A k \in D : Get(g, k) + (IF k \in CellsOf(x) THEN 1 ELSE 0) \in Nat \ {0}
  BY <1>2 DEF Get
<1>4. P = [k \in D |-> Get(g, k) + (IF k \in CellsOf(x) THEN 1 ELSE 0)]
  BY DEF Plus
<1>5. P \in Grids
  BY <1>2, <1>3, <1>4 DEF Grids
<1>6. \A k : Get(P, k) = Get(g, k) + (IF k \in CellsOf(x) THEN 1 ELSE 0)
  <2> HIDE DEF P
  <2> SUFFICES ASSUME NEW k PROVE Get(P, k) = Get(g, k) + (IF k \in CellsOf(x) THEN 1 ELSE 0)
    OBVIOUS
  <2>1. CASE k \in D
    BY <1>4, <2>1 DEF Get
  <2>2. CASE k \notin D
    BY <1>4, <2>2 DEF Get
  <2> QED BY <2>1, <2>2
<1>7. \A s \in Scales : \A d, c : <<s, d, c>> \in CellsOf(x) <=> (d = DayOf(x.ts) /\ c = Bucket(x.place, s))
  BY DEF CellsOf
<1> HIDE DEF P
<1>8. \A s \in Scales : \A d, c : Get(P, <<s, d, c>>) =
              Get(g, <<s, d, c>>) + IF d = DayOf(x.ts) /\ c = Bucket(x.place, s) THEN 1 ELSE 0
  BY <1>6, <1>7
<1> QED BY <1>5, <1>8 DEF P

\* One fix more, and the fixes of a poll more.
LEMMA CountedPlus ==
  ASSUME NEW S, IsFiniteSet(S), NEW x \in Fixes, x \notin S, NEW g \in Grids, Counted(g, S)
  PROVE  Plus(g, x) \in Grids /\ Counted(Plus(g, x), S \cup {x})
<1>1. ASSUME NEW s \in Scales, NEW d \in Days, NEW c \in Cells
      PROVE  Get(Plus(g, x), <<s, d, c>>) = Cardinality(At(S \cup {x}, s, d, c))
  <2> DEFINE A == At(S, s, d, c)
  <2>1. IsFiniteSet(A) /\ x \notin A /\ Get(g, <<s, d, c>>) = Cardinality(A)
    BY FS_Subset DEF At, Counted
  <2>2. Get(Plus(g, x), <<s, d, c>>) = Cardinality(A) + IF d = DayOf(x.ts) /\ c = Bucket(x.place, s) THEN 1 ELSE 0
    BY <2>1, PlusIs
  <2>3. Cardinality(A) \in Nat
    BY <2>1, FS_CardinalityType
  <2>4. CASE d = DayOf(x.ts) /\ c = Bucket(x.place, s)
    <3>1. At(S \cup {x}, s, d, c) = A \cup {x}
      BY <2>4 DEF At
    <3>2. Cardinality(A \cup {x}) = Cardinality(A) + 1
      <4> HIDE DEF A
      <4> QED BY <2>1, FS_AddElement
    <3> QED BY <2>2, <2>4, <3>1, <3>2
  <2>5. CASE ~(d = DayOf(x.ts) /\ c = Bucket(x.place, s))
    <3>1. At(S \cup {x}, s, d, c) = A
      BY <2>5 DEF At
    <3> HIDE DEF A
    <3> QED BY <2>2, <2>3, <2>5, <3>1
  <2> QED BY <2>4, <2>5
<1> QED BY <1>1, PlusIs DEF Counted

LEMMA AtUnion ==
  ASSUME NEW S, IsFiniteSet(S), NEW T, IsFiniteSet(T), S \cap T = {}, NEW s, NEW d, NEW c
  PROVE  Cardinality(At(S \cup T, s, d, c)) = Cardinality(At(S, s, d, c)) + Cardinality(At(T, s, d, c))
<1> DEFINE A == At(S, s, d, c)
           B == At(T, s, d, c)
<1>1. IsFiniteSet(A) /\ IsFiniteSet(B)
  BY FS_Subset DEF At
<1>2. A \cap B = {} /\ At(S \cup T, s, d, c) = A \cup B
  BY DEF At
<1> HIDE DEF A, B
<1>3. Cardinality(A \cup B) = Cardinality(A) + Cardinality(B) - Cardinality({})
  BY <1>1, <1>2, FS_Union
<1>4. Cardinality(A) \in Nat /\ Cardinality(B) \in Nat /\ Cardinality({}) = 0
  BY <1>1, FS_CardinalityType, FS_EmptySet
<1>5. Cardinality(A \cup B) = Cardinality(A) + Cardinality(B)
  BY <1>3, <1>4
<1> QED BY <1>2, <1>5 DEF A, B

\* How far the farthest of some fixes is.
LEMMA ReachIs ==
  ASSUME NEW S, IsFiniteSet(S), S \subseteq Fixes
  PROVE  /\ Reach(S) \in Nat /\ (Reach(S) = 0 \/ \E x \in S : Reach(S) = DistNm[x.place])
         /\ \A x \in S : DistNm[x.place] \in Nat /\ DistNm[x.place] <= Reach(S)
         /\ \A n \in Nat : (n = 0 \/ \E x \in S : n = DistNm[x.place]) /\ (\A x \in S : DistNm[x.place] <= n)
              => n = Reach(S)
<1> DEFINE A == {DistNm[x.place] : x \in S}
           f == [x \in S |-> DistNm[x.place]]
<1>1. \A x \in S : DistNm[x.place] \in Nat
  BY MapConstants, CoordinatesAre DEF Fixes
<1>2. A \subseteq Nat
  BY <1>1
<1>3. f \in Surjection(S, A)
  BY DEF Surjection
<1>4. IsFiniteSet(A)
  BY <1>3, FS_Surjection
<1>5. \A y : y \in A <=> \E x \in S : y = DistNm[x.place]
  OBVIOUS
<1>6. Reach(S) = Top(A)
  BY DEF Reach
<1> HIDE DEF A, f
<1>7. /\ Top(A) \in A \cup {0} /\ Top(A) \in Nat /\ \A y \in A : y <= Top(A)
      /\ \A n \in A \cup {0} : (\A y \in A : y <= n) => n = Top(A)
  BY <1>2, <1>4, TopIs
<1>8. Top(A) = 0 \/ \E x \in S : Top(A) = DistNm[x.place]
  BY <1>5, <1>7
<1>9. \A x \in S : DistNm[x.place] <= Top(A)
  BY <1>5, <1>7
<1>10. ASSUME NEW n \in Nat, n = 0 \/ \E x \in S : n = DistNm[x.place], \A x \in S : DistNm[x.place] <= n
       PROVE  n = Top(A)
  <2>1. n \in A \cup {0} /\ \A y \in A : y <= n
    BY <1>5, <1>10
  <2> QED BY <1>7, <2>1
<1> QED BY <1>1, <1>6, <1>7, <1>8, <1>9, <1>10

LEMMA ReachUnion ==
  ASSUME NEW S, IsFiniteSet(S), S \subseteq Fixes, NEW T, IsFiniteSet(T), T \subseteq Fixes
  PROVE  Reach(S \cup T) = Max({Reach(S), Reach(T)})
<1> DEFINE n == IF Reach(S) >= Reach(T) THEN Reach(S) ELSE Reach(T)
<1>1. IsFiniteSet(S \cup T) /\ S \cup T \subseteq Fixes
  BY FS_Union
<1>2. n \in Nat /\ Reach(S) <= n /\ Reach(T) <= n
  BY ReachIs
<1>3. n = 0 \/ \E x \in S \cup T : n = DistNm[x.place]
  <2>1. Reach(S) = 0 \/ \E x \in S : Reach(S) = DistNm[x.place]
    BY ReachIs
  <2>2. Reach(T) = 0 \/ \E x \in T : Reach(T) = DistNm[x.place]
    BY ReachIs
  <2> QED BY <2>1, <2>2
<1>4. ASSUME NEW x \in S \cup T PROVE DistNm[x.place] <= n
  <2>1. Reach(S) \in Nat /\ Reach(T) \in Nat /\ DistNm[x.place] \in Nat
        /\ (DistNm[x.place] <= Reach(S) \/ DistNm[x.place] <= Reach(T))
    BY ReachIs
  <2> QED BY <2>1
<1> HIDE DEF n
<1>5. n = Reach(S \cup T)
  BY <1>1, <1>2, <1>3, <1>4, ReachIs
<1>6. n = Max({Reach(S), Reach(T)})
  <2>1. Reach(S) \in Nat /\ Reach(T) \in Nat
    BY ReachIs
  <2>2. \E m \in {Reach(S), Reach(T)} : \A k \in {Reach(S), Reach(T)} : m >= k
    BY <2>1
  <2>3. Max({Reach(S), Reach(T)}) \in {Reach(S), Reach(T)} /\ \A k \in {Reach(S), Reach(T)} : Max({Reach(S), Reach(T)}) >= k
    BY <2>2 DEF Max
  <2> QED BY <2>1, <2>3 DEF n
<1> QED BY <1>5, <1>6

LEMMA TowardIs ==
  ASSUME NEW S, IsFiniteSet(S), S \subseteq Fixes, NEW d, NEW e
  PROVE  IsFiniteSet(Toward(S, d, e)) /\ Toward(S, d, e) \subseteq Fixes
  BY FS_Subset DEF Toward

LEMMA ExtentUnion ==
  ASSUME NEW S, IsFiniteSet(S), S \subseteq Fixes, NEW T, IsFiniteSet(T), T \subseteq Fixes,
         NEW cov, Extent(cov, S), NEW more, Extent(more, T)
  PROVE  Extent([k \in DOMAIN cov \cup DOMAIN more |-> Max({Get(cov, k), Get(more, k)})], S \cup T)
<1> DEFINE both == [k \in DOMAIN cov \cup DOMAIN more |-> Max({Get(cov, k), Get(more, k)})]
<1>1. DOMAIN both \subseteq Days \X Degrees
  BY DEF Extent
<1>2. ASSUME NEW d \in Days, NEW e \in Degrees PROVE Get(both, <<d, e>>) = Reach(Toward(S \cup T, d, e))
  <2>1. Toward(S \cup T, d, e) = Toward(S, d, e) \cup Toward(T, d, e)
    BY DEF Toward
  <2>2. Reach(Toward(S \cup T, d, e)) = Max({Reach(Toward(S, d, e)), Reach(Toward(T, d, e))})
    BY <2>1, TowardIs, ReachUnion
  <2>3. Get(cov, <<d, e>>) = Reach(Toward(S, d, e)) /\ Get(more, <<d, e>>) = Reach(Toward(T, d, e))
    BY DEF Extent
  <2>4. CASE <<d, e>> \in DOMAIN both
    <3>1. Get(both, <<d, e>>) = Max({Get(cov, <<d, e>>), Get(more, <<d, e>>)})
      BY <2>4 DEF Get
    <3> QED BY <2>2, <2>3, <3>1
  <2>5. CASE <<d, e>> \notin DOMAIN both
    <3>1. Get(both, <<d, e>>) = 0 /\ Get(cov, <<d, e>>) = 0 /\ Get(more, <<d, e>>) = 0
      BY <2>5 DEF Get
    <3>2. Max({0, 0}) = 0
      BY DEF Max
    <3> QED BY <2>2, <2>3, <3>1, <3>2
  <2> QED BY <2>4, <2>5
<1> HIDE DEF both
<1>3. Extent(both, S \cup T)
  BY <1>1, <1>2 DEF Extent
<1> QED BY <1>3 DEF both

\* RollupAccumulator.add counts the fix and keeps the farthest.
LEMMA AddedIs ==
  ASSUME NEW S, IsFiniteSet(S), S \subseteq Fixes, NEW x \in Fixes, x \notin S,
         NEW a, a.grid \in Grids, Counted(a.grid, S), Extent(a.cov, S)
  PROVE  /\ Added(a, x).grid \in Grids
         /\ Counted(Added(a, x).grid, S \cup {x}) /\ Extent(Added(a, x).cov, S \cup {x})
<1> DEFINE key == <<DayOf(x.ts), Direction(x)>>
           far == DistNm[x.place]
           cov == a.cov
           new == Added(a, x).cov
<1>1. Added(a, x).grid = Plus(a.grid, x)
  BY DEF Added
<1>2. new = IF far > Get(cov, key) THEN [k \in DOMAIN cov \cup {key} |-> IF k = key THEN far ELSE cov[k]] ELSE cov
  BY DEF Added, Direction
<1>3. key \in Days \X Degrees /\ far \in Nat
  <2>1. x.ts \in 0..LastMoment /\ x.place \in Places
    BY DEF Fixes
  <2> QED BY <2>1, DayIs, DirectionIs, MapConstants, CoordinatesAre
<1>4. DOMAIN new \subseteq Days \X Degrees
  BY <1>2, <1>3 DEF Extent
<1> HIDE DEF new
<1>5. ASSUME NEW d \in Days, NEW e \in Degrees PROVE Get(new, <<d, e>>) = Reach(Toward(S \cup {x}, d, e))
  <2> DEFINE A == Toward(S, d, e)
  <2>1. IsFiniteSet(A) /\ A \subseteq Fixes /\ Get(cov, <<d, e>>) = Reach(A)
    BY TowardIs DEF Extent
  <2>2. CASE <<d, e>> = key
    <3>1. Toward(S \cup {x}, d, e) = A \cup {x}
      BY <2>2 DEF Toward
    <3>2. IsFiniteSet(A \cup {x}) /\ A \cup {x} \subseteq Fixes
      <4> HIDE DEF A
      <4> QED BY <2>1, FS_AddElement
    <3> DEFINE n == IF far > Reach(A) THEN far ELSE Reach(A)
    <3>3. Get(new, <<d, e>>) = n
      BY <1>2, <2>1, <2>2 DEF Get
    <3>4. n = Reach(A \cup {x})
      <4> HIDE DEF A
      <4>1. Reach(A) \in Nat /\ (Reach(A) = 0 \/ \E y \in A : Reach(A) = DistNm[y.place])
            /\ \A y \in A : DistNm[y.place] \in Nat /\ DistNm[y.place] <= Reach(A)
        BY <2>1, ReachIs
      <4>2. n \in Nat /\ (n = 0 \/ \E y \in A \cup {x} : n = DistNm[y.place])
        BY <1>3, <4>1
      <4>3. far <= n /\ Reach(A) <= n
        BY <1>3, <4>1
      <4> HIDE DEF n
      <4>4. \A y \in A \cup {x} : DistNm[y.place] <= n
        BY <1>3, <4>1, <4>2, <4>3
      <4> QED BY <3>2, <4>2, <4>4, ReachIs
    <3> QED BY <3>1, <3>3, <3>4
  <2>3. CASE <<d, e>> # key
    <3>1. Toward(S \cup {x}, d, e) = A
      BY <2>3 DEF Toward
    <3>2. Get(new, <<d, e>>) = Get(cov, <<d, e>>)
      BY <1>2, <2>3 DEF Get
    <3> QED BY <2>1, <3>1, <3>2
  <2> QED BY <2>2, <2>3
<1>6. Extent(new, S \cup {x})
  BY <1>4, <1>5 DEF Extent
<1> QED BY <1>1, <1>6, CountedPlus DEF new

\* Nothing is counted of no fixes.
LEMMA NothingCounted ==
  NoCounts.grid \in Grids /\ Counted(NoCounts.grid, {}) /\ Extent(NoCounts.cov, {})
<1>1. NoCounts.grid = <<>> /\ NoCounts.cov = <<>> /\ DOMAIN <<>> = {}
  BY DEF NoCounts
<1>2. \A k : Get(<<>>, k) = 0
  BY <1>1 DEF Get
<1>3. <<>> \in Grids
  <2>1. <<>> \in [{} -> Nat \ {0}]
    BY <1>1
  <2> QED BY <2>1 DEF Grids
<1>4. \A s, d, c : At({}, s, d, c) = {} /\ Toward({}, d, c) = {}
  BY DEF At, Toward
<1>5. Cardinality({}) = 0
  BY FS_EmptySet
<1>6. Reach({}) = 0
  <2>1. IsFiniteSet({}) /\ {} \subseteq Fixes
    BY FS_EmptySet
  <2> QED BY <2>1, ReachIs
<1>7. Counted(<<>>, {})
  BY <1>2, <1>4, <1>5 DEF Counted
<1>8. Extent(<<>>, {})
  BY <1>1, <1>2, <1>4, <1>6 DEF Extent
<1> QED BY <1>1, <1>3, <1>7, <1>8

\* The weights of some days add up to the fixes of these days.
LEMMA WeightIs ==
  ASSUME NEW S, IsFiniteSet(S), NEW s, NEW c, NEW D,
         \A d \in D : Get(grid, <<s, d, c>>) = Cardinality(At(S, s, d, c))
  PROVE  WeightOf(s, D, c) = Cardinality({x \in S : DayOf(x.ts) \in D /\ Bucket(x.place, s) = c})
<1> DEFINE n(d) == Get(grid, <<s, d, c>>)
           A(d) == At(S, s, d, c)
           V == {x \in S : DayOf(x.ts) \in D /\ Bucket(x.place, s) = c}
           U == UNION {{d} \X (1..n(d)) : d \in D}
           b == [d \in D |-> CHOOSE f : f \in Bijection(1..n(d), A(d))]
           F == [u \in U |-> b[u[1]][u[2]]]
<1>1. ASSUME NEW d \in D PROVE b[d] \in Bijection(1..n(d), A(d))
  <2>1. IsFiniteSet(A(d)) /\ n(d) = Cardinality(A(d))
    BY FS_Subset DEF At
  <2>2. ExistsBijection(1..n(d), A(d))
    <3> HIDE DEF A, n
    <3> QED BY <2>1, FS_CardinalityType
  <2> QED BY <2>2 DEF ExistsBijection
<1>2. \A d \in D : \A x : x \in A(d) <=> x \in V /\ DayOf(x.ts) = d
  BY DEF At
<1>3. \A u : u \in U <=> \E d \in D : \E i \in 1..n(d) : u = <<d, i>>
  <2> HIDE DEF n
  <2>1. ASSUME NEW u, NEW d \in D, u \in {d} \X (1..n(d)) PROVE \E i \in 1..n(d) : u = <<d, i>>
    BY <2>1
  <2>2. ASSUME NEW d \in D, NEW i \in 1..n(d) PROVE <<d, i>> \in {d} \X (1..n(d))
    OBVIOUS
  <2> QED BY <2>1, <2>2
<1>4. IsFiniteSet(V)
  BY FS_Subset
<1>5. \A x \in V : DayOf(x.ts) \in D
  OBVIOUS
<1>6. \A d \in D : \A i \in 1..n(d) : <<d, i>> \in U /\ F[<<d, i>>] = b[d][i]
  <2> HIDE DEF U, b, n
  <2> SUFFICES ASSUME NEW d \in D, NEW i \in 1..n(d) PROVE <<d, i>> \in U /\ F[<<d, i>>] = b[d][i]
    OBVIOUS
  <2>1. <<d, i>> \in U
    BY <1>3
  <2>2. F[<<d, i>>] = b[d][i]
    BY <2>1
  <2> QED BY <2>1, <2>2
<1> HIDE DEF n, A, V, U, b, F
<1>7. \A d \in D : \A i \in 1..n(d) : b[d][i] \in A(d)
  BY <1>1 DEF Bijection, Injection
<1>8. \A d \in D : \A i, j \in 1..n(d) : b[d][i] = b[d][j] => i = j
  BY <1>1 DEF Bijection, Injection, IsInjective
<1>9. \A d \in D : \A x \in A(d) : \E i \in 1..n(d) : b[d][i] = x
  BY <1>1 DEF Bijection, Surjection
<1>10. F \in [U -> V]
  <2>1. \A u \in U : F[u] \in V
    BY <1>2, <1>3, <1>6, <1>7
  <2>2. F = [u \in U |-> F[u]]
    BY DEF F
  <2> QED BY <2>1, <2>2
<1>11. ASSUME NEW u \in U, NEW v \in U, F[u] = F[v] PROVE u = v
  <2>1. PICK d \in D : \E i \in 1..n(d) : u = <<d, i>>
    BY <1>3
  <2>2. PICK e \in D : \E j \in 1..n(e) : v = <<e, j>>
    BY <1>3
  <2>3. PICK i \in 1..n(d) : u = <<d, i>>
    BY <2>1
  <2>4. PICK j \in 1..n(e) : v = <<e, j>>
    BY <2>2
  <2>5. F[u] = b[d][i] /\ F[v] = b[e][j]
    BY <1>6, <2>3, <2>4
  <2>6. d = e
    BY <1>2, <1>7, <1>11, <2>5
  <2> QED BY <1>8, <1>11, <2>3, <2>4, <2>5, <2>6
<1>12. ASSUME NEW x \in V PROVE \E u \in U : F[u] = x
  <2>1. DayOf(x.ts) \in D /\ x \in A(DayOf(x.ts))
    BY <1>2, <1>5
  <2>2. PICK i \in 1..n(DayOf(x.ts)) : b[DayOf(x.ts)][i] = x
    BY <1>9, <2>1
  <2> QED BY <1>6, <2>1, <2>2
<1>13. F \in Injection(U, V) /\ F \in Surjection(U, V)
  BY <1>10, <1>11, <1>12 DEF Injection, IsInjective, Surjection
<1>14. Cardinality(U) = Cardinality(V)
  BY <1>4, <1>13, FS_Injection
<1> QED BY <1>14 DEF WeightOf, U, V, n

-----------------------------------------------------------------------------
(* The inductive invariant of the map *)

\* A fix is committed while the file it was read from is the newest, and each flight's
\* in their order.
RecordsOk ==
    /\ recorded \subseteq Fixes /\ IsFiniteSet(recorded) /\ poll \subseteq Fixes /\ IsFiniteSet(poll)
    /\ \A x \in poll : x.ts <= feed /\ feed - x.ts <= MaxSeen
    /\ \A x \in recorded : x.ts <= now
    /\ \A f \in active : FixesOf(f, recorded) # {}
    /\ \A x \in poll, y \in recorded : x.flight = y.flight => y.ts < x.ts
    /\ \A x, y \in recorded : x.flight = y.flight /\ x.ts = y.ts => x = y
    /\ \A x, y \in poll : x.flight = y.flight => x = y

\* The accumulator counts the open poll, the tables all that was ever committed,
\* except for the days that may have been pruned.
Kept(s, d) == s = Coarse \/ d >= DayOf(now) - FineRetention
RollupsOk ==
    /\ acc.grid \in Grids /\ Counted(acc.grid, poll) /\ Extent(acc.cov, poll)
    /\ Extent(coverage, recorded)
    /\ \A s \in Scales, d \in Days, c \in Cells :
         Kept(s, d) => Get(grid, <<s, d, c>>) = Cardinality(At(recorded, s, d, c))

AskedOk == asked \in HeatmapWindows => askedAt <= now /\ now - askedAt < Day

MapInv == MapTypeOK /\ RecordsOk /\ RollupsOk /\ AskedOk

LEMMA TypeIs ==
  MapTypeOK => /\ now \in Nat /\ feed \in Nat /\ feed <= now /\ askedAt \in Nat /\ grid \in Grids
               /\ positions \subseteq recorded /\ seen \subseteq recorded
  BY MapConstants, GridIs DEF MapTypeOK

LEMMA MapInvInit == MapInit => MapInv
<1> SUFFICES ASSUME MapInit PROVE MapInv
  OBVIOUS
<1> USE DEF MapInit
<1>0. 0 \in 0..LastMoment /\ 0 \in 0..now /\ 0 \in 0..(LastMoment + Lead) /\ IsFiniteSet({})
  BY MapConstants, FS_EmptySet
<1>1. grid \in Grids
  BY NothingCounted
<1>2. Extent(coverage, {}) /\ Extent(acc.cov, {}) /\ Counted(acc.grid, {}) /\ Counted(grid, {}) /\ acc.grid \in Grids
  BY NothingCounted
<1>3. MapTypeOK
  BY <1>0, <1>1, <1>2, GridIs DEF MapTypeOK, Extent
<1>4. RecordsOk
  BY <1>0 DEF RecordsOk
<1>5. RollupsOk
  BY <1>2 DEF RollupsOk, Counted
<1>6. AskedOk
  BY DEF AskedOk, NoRequest, HeatmapWindows
<1> QED BY <1>3, <1>4, <1>5, <1>6 DEF MapInv

LEMMA LastSeenIs ==
  ASSUME RecordsOk, MapTypeOK, NEW f, f \in active
  PROVE  LastSeen(f) \in Nat /\ \A y \in FixesOf(f, recorded) : y.ts <= LastSeen(f)
<1> DEFINE R == FixesOf(f, recorded)
           T == {x.ts : x \in R}
           g == [x \in R |-> x.ts]
<1>1. IsFiniteSet(R) /\ R # {}
  BY FS_Subset DEF FixesOf, RecordsOk
<1>2. \A x \in R : x.ts \in Nat
  BY MapConstants DEF FixesOf, RecordsOk, Fixes
<1>3. g \in Surjection(R, T)
  BY DEF Surjection
<1>4. T \subseteq Nat /\ T # {}
  BY <1>1, <1>2
<1>5. \A x \in R : x.ts \in T
  OBVIOUS
<1>6. IsFiniteSet(T)
  <2> HIDE DEF g, R, T
  <2> QED BY <1>1, <1>3, FS_Surjection
<1>7. LastSeen(f) = Max(T)
  BY DEF LastSeen
<1> HIDE DEF T, g
<1>8. Max(T) \in T /\ \A n \in T : n <= Max(T)
  BY <1>4, <1>6, GreatestElement
<1> QED BY <1>4, <1>5, <1>7, <1>8

LEMMA AddStep ==
  ASSUME MapInv, NEW f \in Flights, NEW p \in Places, NEW t \in 0..LastMoment, Add(f, p, t)
  PROVE  MapInv'
<1> DEFINE x == [ts |-> t, flight |-> f, place |-> p]
<1>0. /\ poll' = poll \cup {x} /\ acc' = Added(acc, x)
      /\ UNCHANGED <<now, feed, recorded, positions, active, grid, coverage, asked, askedAt, seen>>
      /\ FixesOf(f, poll) = {} /\ t <= feed /\ feed - t <= MaxSeen
      /\ IF f \in active THEN t > LastSeen(f) ELSE FixesOf(f, recorded) = {}
  BY DEF Add, stored, request
<1>1. x \in Fixes /\ x.ts = t /\ x.flight = f /\ t \in Nat
  BY MapConstants DEF Fixes
<1> HIDE DEF x
<1>2. MapTypeOK' /\ AskedOk'
  BY <1>0 DEF MapInv, MapTypeOK, AskedOk
<1>3. x \notin poll
  BY <1>0, <1>1 DEF FixesOf
<1>4. ASSUME NEW y \in recorded, y.flight = f PROVE y.ts < t
  <2>1. y \in FixesOf(f, recorded) /\ y.ts \in Nat
    BY <1>4, MapConstants DEF FixesOf, MapInv, RecordsOk, Fixes
  <2>2. f \in active /\ t > LastSeen(f)
    BY <1>0, <2>1
  <2>3. LastSeen(f) \in Nat /\ y.ts <= LastSeen(f)
    BY <2>1, <2>2, LastSeenIs DEF MapInv
  <2> QED BY <1>1, <2>1, <2>2, <2>3
<1>5. RecordsOk'
  <2> USE DEF MapInv, RecordsOk
  <2>1. poll' \subseteq Fixes /\ IsFiniteSet(poll')
    BY <1>0, <1>1, FS_AddElement
  <2>2. \A z \in poll' : z.ts <= feed /\ feed - z.ts <= MaxSeen
    BY <1>0, <1>1
  <2>3. \A z \in poll', y \in recorded : z.flight = y.flight => y.ts < z.ts
    BY <1>0, <1>1, <1>4
  <2>4. \A y, z \in poll' : y.flight = z.flight => y = z
    BY <1>0, <1>1 DEF FixesOf
  <2> QED BY <1>0, <2>1, <2>2, <2>3, <2>4
<1>6. RollupsOk'
  <2>1. /\ acc'.grid \in Grids
        /\ Counted(acc'.grid, poll') /\ Extent(acc'.cov, poll')
    BY <1>0, <1>1, <1>3, AddedIs DEF MapInv, RecordsOk, RollupsOk
  <2>2. Extent(coverage', recorded')
    BY <1>0 DEF MapInv, RollupsOk
  <2>3. \A s \in Scales, d \in Days, c \in Cells :
          Kept(s, d)' => Get(grid', <<s, d, c>>) = Cardinality(At(recorded', s, d, c))
    BY <1>0 DEF MapInv, RollupsOk, Kept
  <2> QED BY <2>1, <2>2, <2>3 DEF RollupsOk
<1> QED BY <1>2, <1>5, <1>6 DEF MapInv

LEMMA CommitStep == ASSUME MapInv, Commit PROVE MapInv'
<1>0. /\ recorded' = recorded \cup poll /\ positions' = positions \cup poll
      /\ active' = active \cup {x.flight : x \in poll}
      /\ poll' = {} /\ acc' = NoCounts /\ UNCHANGED <<now, feed, asked, askedAt, seen>>
      /\ grid' = Sum(grid, acc.grid)
      /\ coverage' = [k \in DOMAIN coverage \cup DOMAIN acc.cov |-> Max({Get(coverage, k), Get(acc.cov, k)})]
  BY DEF Commit, Flush, Sum, request
<1> USE DEF MapInv
<1>1. recorded \subseteq Fixes /\ IsFiniteSet(recorded) /\ poll \subseteq Fixes /\ IsFiniteSet(poll)
  BY DEF RecordsOk
<1>2. recorded' \subseteq Fixes /\ IsFiniteSet(recorded')
  BY <1>0, <1>1, FS_Union
<1>3. \A x \in poll \cup recorded : x.ts \in Nat
  BY <1>1, MapConstants DEF Fixes
<1>4. recorded \cap poll = {}
  BY <1>3 DEF RecordsOk
<1>5. grid' \in Grids
  BY <1>0, TypeIs, SumIs DEF RollupsOk
<1>6. Extent(coverage', recorded')
  BY <1>0, <1>1, ExtentUnion DEF RollupsOk
<1>7. MapTypeOK'
  <2>1. active' \subseteq Flights
    BY <1>0, <1>1 DEF MapTypeOK, Fixes
  <2>2. recorded' \subseteq [ts : 0..LastMoment, flight : Flights, place : Places]
    BY <1>2 DEF Fixes
  <2>3. positions' \subseteq recorded' /\ seen' \subseteq recorded'
    BY <1>0 DEF MapTypeOK
  <2>4. grid' \in [DOMAIN grid' -> Nat \ {0}] /\ DOMAIN grid' \subseteq GridKeys
    BY <1>5, GridIs
  <2>5. DOMAIN coverage' \subseteq Days \X Degrees
    BY <1>6 DEF Extent
  <2> QED BY <1>0, <2>1, <2>2, <2>3, <2>4, <2>5 DEF MapTypeOK
<1>8. RecordsOk'
  <2>1. \A x \in recorded' : x.ts <= now
    <3>1. \A x \in poll : x.ts <= feed /\ feed <= now /\ feed \in Nat /\ now \in Nat
      BY TypeIs DEF RecordsOk
    <3> QED BY <1>0, <1>3, <3>1 DEF RecordsOk
  <2>2. \A f \in active' : FixesOf(f, recorded') # {}
    BY <1>0 DEF RecordsOk, FixesOf
  <2>3. \A x, y \in recorded' : x.flight = y.flight /\ x.ts = y.ts => x = y
    BY <1>0, <1>3 DEF RecordsOk
  <2> QED BY <1>0, <1>2, <2>1, <2>2, <2>3, FS_EmptySet DEF RecordsOk
<1>9. RollupsOk'
  <2>1. ASSUME NEW s \in Scales, NEW d \in Days, NEW c \in Cells, Kept(s, d)
        PROVE  Get(grid', <<s, d, c>>) = Cardinality(At(recorded', s, d, c))
    <3>1. Get(grid', <<s, d, c>>) = Get(grid, <<s, d, c>>) + Get(acc.grid, <<s, d, c>>)
      BY <1>0, TypeIs, SumIs DEF RollupsOk
    <3>2. Get(grid, <<s, d, c>>) = Cardinality(At(recorded, s, d, c))
          /\ Get(acc.grid, <<s, d, c>>) = Cardinality(At(poll, s, d, c))
      BY <2>1 DEF RollupsOk, Counted
    <3> QED BY <1>0, <1>1, <1>4, <3>1, <3>2, AtUnion
  <2>2. \A s, d : Kept(s, d)' <=> Kept(s, d)
    BY <1>0 DEF Kept
  <2>3. acc'.grid \in Grids /\ Counted(acc'.grid, poll') /\ Extent(acc'.cov, poll')
    BY <1>0, NothingCounted
  <2> QED BY <1>6, <2>1, <2>2, <2>3 DEF RollupsOk
<1>10. AskedOk'
  BY <1>0 DEF AskedOk
<1> QED BY <1>7, <1>8, <1>9, <1>10

LEMMA AbortStep == ASSUME MapInv, Abort PROVE MapInv'
<1>0. poll' = {} /\ acc' = NoCounts /\ UNCHANGED <<now, feed, recorded, positions, active, grid, coverage, asked, askedAt, seen>>
  BY DEF Abort, stored, request
<1>1. MapTypeOK' /\ AskedOk'
  BY <1>0 DEF MapInv, MapTypeOK, AskedOk
<1>2. RecordsOk'
  BY <1>0, FS_EmptySet DEF MapInv, RecordsOk
<1>3. RollupsOk'
  <2>1. acc'.grid \in Grids /\ Counted(acc'.grid, poll') /\ Extent(acc'.cov, poll')
    BY <1>0, NothingCounted
  <2> QED BY <1>0, <2>1 DEF MapInv, RollupsOk, Kept
<1> QED BY <1>1, <1>2, <1>3 DEF MapInv

LEMMA CloseStep ==
  ASSUME MapInv, NEW f \in Flights, NEW flagged \in BOOLEAN, Close(f, flagged)
  PROVE  MapInv' /\ positions' \subseteq positions
<1>0. /\ active' = active \ {f} /\ positions' \subseteq positions
      /\ UNCHANGED <<now, feed, recorded, grid, coverage, poll, acc, asked, askedAt, seen>>
  BY DEF Close, request
<1>1. MapTypeOK' /\ AskedOk'
  BY <1>0 DEF MapInv, MapTypeOK, AskedOk
<1>2. RecordsOk'
  BY <1>0 DEF MapInv, RecordsOk
<1>3. RollupsOk'
  BY <1>0 DEF MapInv, RollupsOk, Kept
<1> QED BY <1>0, <1>1, <1>2, <1>3 DEF MapInv

LEMMA PrunedIs ==
  ASSUME MapInv
  PROVE  /\ Pruned \in Grids
         /\ \A s, d, c : Kept(s, d) => Get(Pruned, <<s, d, c>>) = Get(grid, <<s, d, c>>)
<1> DEFINE days == Max({1, FineRetention})
           stay == {k \in DOMAIN grid : k[1] = Fine => k[2] >= DayOf(now) - days}
<1>1. days = FineRetention
  <2>1. FineRetention \in Nat /\ FineRetention >= 1
    BY MapConstants
  <2>2. \E m \in {1, FineRetention} : \A k \in {1, FineRetention} : m >= k
    BY <2>1
  <2>3. days \in {1, FineRetention} /\ \A k \in {1, FineRetention} : days >= k
    BY <2>2 DEF Max
  <2> QED BY <2>1, <2>3
<1>2. Pruned = [k \in stay |-> grid[k]]
  BY DEF Pruned
<1>3. grid \in [DOMAIN grid -> Nat \ {0}] /\ DOMAIN grid \subseteq GridKeys
  BY DEF MapInv, MapTypeOK
<1>4. stay \subseteq GridKeys /\ stay \subseteq DOMAIN grid
  BY <1>3
<1> HIDE DEF days
<1>5. ASSUME NEW s, NEW d, NEW c, Kept(s, d), <<s, d, c>> \in DOMAIN grid PROVE <<s, d, c>> \in stay
  BY <1>1, <1>5, MapConstants DEF Kept
<1> HIDE DEF stay
<1>6. Pruned \in [stay -> Nat \ {0}]
  BY <1>2, <1>3, <1>4
<1>7. Pruned \in Grids
  BY <1>4, <1>6 DEF Grids
<1>8. \A s, d, c : Kept(s, d) => Get(Pruned, <<s, d, c>>) = Get(grid, <<s, d, c>>)
  BY <1>2, <1>4, <1>5 DEF Get
<1> QED BY <1>7, <1>8

LEMMA MaintenanceStep ==
  ASSUME MapInv, NEW gone \in SUBSET ExpiredRows, Maintenance(gone)
  PROVE  MapInv' /\ positions' \subseteq positions
<1>0. /\ positions' \subseteq positions /\ grid' \in {grid, Pruned}
      /\ UNCHANGED <<now, feed, recorded, active, coverage, poll, acc, asked, askedAt, seen>>
  BY DEF Maintenance, request
<1>1. grid' \in Grids /\ \A s, d, c : Kept(s, d) => Get(grid', <<s, d, c>>) = Get(grid, <<s, d, c>>)
  BY <1>0, PrunedIs, TypeIs DEF MapInv
<1>2. MapTypeOK' /\ AskedOk'
  BY <1>0, <1>1, GridIs DEF MapInv, MapTypeOK, AskedOk
<1>3. RecordsOk'
  BY <1>0 DEF MapInv, RecordsOk
<1>4. \A s, d : Kept(s, d)' <=> Kept(s, d)
  BY <1>0 DEF Kept
<1>5. RollupsOk'
  BY <1>0, <1>1, <1>4 DEF MapInv, RollupsOk
<1> QED BY <1>0, <1>2, <1>3, <1>5 DEF MapInv

LEMMA WrittenStep == ASSUME MapInv, Written PROVE MapInv' /\ positions' = positions
<1>0. /\ poll = {} /\ feed' = now
      /\ UNCHANGED <<now, recorded, positions, active, grid, coverage, poll, acc, asked, askedAt, seen>>
  BY DEF Written, stored, request
<1>1. MapTypeOK'
  <2>1. now \in 0..now
    BY TypeIs DEF MapInv
  <2> QED BY <1>0, <2>1 DEF MapInv, MapTypeOK
<1>2. AskedOk'
  BY <1>0 DEF MapInv, AskedOk
<1>3. RecordsOk'
  BY <1>0 DEF MapInv, RecordsOk
<1>4. RollupsOk'
  BY <1>0 DEF MapInv, RollupsOk, Kept
<1> QED BY <1>0, <1>1, <1>2, <1>3, <1>4 DEF MapInv

Requests == Answered \/ (\E w \in HeatmapWindows : Ask(w)) \/ (\E at \in Moments : AskMap(at))

LEMMA RequestSteps ==
  ASSUME MapInv, Requests \/ UNCHANGED mapVars
  PROVE  MapInv' /\ positions' = positions
<1>0. UNCHANGED <<now, feed, recorded, positions, active, grid, coverage, poll, acc>>
  BY DEF Requests, Answered, Ask, AskMap, mapVars, stored, request
<1>1. \/ asked' \in HeatmapWindows /\ askedAt' = now /\ seen' = {}
      \/ asked' \in Snapshots /\ askedAt' \in Moments /\ seen' = positions
      \/ asked' = NoRequest /\ askedAt' = 0 /\ seen' = {}
      \/ asked' = asked /\ askedAt' = askedAt /\ seen' = seen
  <2>1. ASSUME NEW at \in Moments, AskMap(at)
        PROVE  asked' \in Snapshots /\ askedAt' \in Moments /\ seen' = positions
    BY <2>1 DEF AskMap, Snapshots
  <2> QED BY <2>1 DEF Requests, Answered, Ask, mapVars, stored, request
<1>2. now \in Nat /\ now <= LastMoment /\ LastMoment \in Nat /\ Lead \in Nat /\ Day \in Nat \ {0}
  BY MapConstants, TypeIs DEF MapInv, MapTypeOK
<1>3. MapTypeOK'
  <2>1. Moments \subseteq 0..(LastMoment + Lead) /\ 0 \in 0..(LastMoment + Lead) /\ now \in 0..(LastMoment + Lead)
    BY <1>2 DEF Moments
  <2>2. asked' \in {NoRequest} \cup HeatmapWindows \cup Snapshots /\ askedAt' \in 0..(LastMoment + Lead)
        /\ seen' \subseteq recorded
    BY <1>1, <2>1, TypeIs DEF MapInv, MapTypeOK
  <2> QED BY <1>0, <2>2 DEF MapInv, MapTypeOK
<1>4. AskedOk'
  <2>1. NoRequest \notin HeatmapWindows /\ \A v \in Snapshots : v \notin HeatmapWindows
    BY DEF NoRequest, HeatmapWindows, Snapshots
  <2> QED BY <1>0, <1>1, <1>2, <2>1 DEF MapInv, AskedOk
<1>5. RecordsOk'
  BY <1>0 DEF MapInv, RecordsOk
<1>6. RollupsOk'
  BY <1>0 DEF MapInv, RollupsOk, Kept
<1> QED BY <1>0, <1>3, <1>4, <1>5, <1>6 DEF MapInv

LEMMA TimeStep == ASSUME MapInv, TimePasses PROVE MapInv' /\ positions' = positions
<1>0. /\ now < LastMoment /\ poll = {} /\ (asked \in HeatmapWindows => now + 1 - askedAt < Day) /\ now' = now + 1
      /\ UNCHANGED <<feed, recorded, positions, active, grid, coverage, poll, acc, asked, askedAt, seen>>
  BY DEF TimePasses, stored, request
<1>1. now \in Nat /\ askedAt \in Nat /\ LastMoment \in Nat /\ Day \in Nat \ {0} /\ FineRetention \in Nat
  BY MapConstants, TypeIs DEF MapInv
<1>2. MapTypeOK'
  <2>1. now' \in 0..LastMoment /\ feed \in 0..now'
    BY <1>0, <1>1 DEF MapInv, MapTypeOK
  <2> QED BY <1>0, <2>1 DEF MapInv, MapTypeOK
<1>3. AskedOk'
  BY <1>0, <1>1 DEF MapInv, AskedOk
<1>4. RecordsOk'
  <2>1. \A x \in recorded : x.ts \in Nat
    BY MapConstants DEF MapInv, RecordsOk, Fixes
  <2> QED BY <1>0, <1>1, <2>1 DEF MapInv, RecordsOk
<1>5. ASSUME NEW s, NEW d \in Days, Kept(s, d)' PROVE Kept(s, d)
  <2>1. DayOf(now) <= DayOf(now + 1) /\ DayOf(now) \in Nat /\ DayOf(now + 1) \in Nat /\ d \in Nat
    <3>1. now \in Int /\ now + 1 \in Int /\ now <= now + 1 /\ now + 1 \in Nat
      BY <1>1
    <3> QED BY <1>1, <3>1, DivMonotone, DivNat, DayIs DEF DayOf
  <2>2. s = Coarse \/ d >= DayOf(now + 1) - FineRetention
    BY <1>0, <1>5 DEF Kept
  <2> QED BY <1>1, <2>1, <2>2 DEF Kept
<1>6. RollupsOk'
  BY <1>0, <1>5 DEF MapInv, RollupsOk
<1> QED BY <1>0, <1>2, <1>3, <1>4, <1>6 DEF MapInv

LEMMA MapInvAlways == MapSpec => []MapInv
<1>1. MapInv /\ [MapNext]_mapVars => MapInv'
  <2> SUFFICES ASSUME MapInv, [MapNext]_mapVars PROVE MapInv'
    OBVIOUS
  <2>1. CASE \E f \in Flights, p \in Places, t \in 0..LastMoment : Add(f, p, t)
    BY <2>1, AddStep
  <2>2. CASE Commit
    BY <2>2, CommitStep
  <2>3. CASE Abort
    BY <2>3, AbortStep
  <2>4. CASE \E f \in Flights, flagged \in BOOLEAN : Close(f, flagged)
    BY <2>4, CloseStep
  <2>5. CASE \E gone \in SUBSET ExpiredRows : Maintenance(gone)
    BY <2>5, MaintenanceStep
  <2>6. CASE Requests \/ UNCHANGED mapVars
    BY <2>6, RequestSteps
  <2>7. CASE TimePasses
    BY <2>7, TimeStep
  <2>8. CASE Written
    BY <2>8, WrittenStep
  <2> QED BY <2>1, <2>2, <2>3, <2>4, <2>5, <2>6, <2>7, <2>8 DEF MapNext, Requests
<1> QED BY <1>1, MapInvInit, PTL DEF MapSpec

-----------------------------------------------------------------------------
(* What the map shows *)

\* The days of a window are still in the fine grid when it is read.
LEMMA WindowKept ==
  ASSUME MapInv, NEW w \in {"7d", "30d", "all"}, asked = w, NEW d \in DaysOf(w)
  PROVE  Scale(w) \in Scales /\ d \in Days /\ Kept(Scale(w), d)
<1>1. d \in Days /\ d \in Nat /\ d >= FirstDay(w)
  BY DayIs DEF DaysOf
<1>2. Scale(w) \in Scales /\ (w # "7d" => Scale(w) = Coarse)
  BY DEF Scale, Scales
<1>3. CASE w # "7d"
  BY <1>1, <1>2, <1>3 DEF Kept
<1>4. CASE w = "7d"
  <2>1. FirstDay(w) = (askedAt - Week * Day) \div Day
    <3>1. WindowDays["7d"] = Week
      BY DEF WindowDays
    <3>2. FirstDay("7d") = DayOf(Cutoff("7d")) /\ Cutoff("7d") = askedAt - WindowDays["7d"] * Day
      BY DEF FirstDay, Cutoff
    <3> QED BY <1>4, <3>1, <3>2 DEF DayOf
  <2>2. askedAt \in Nat /\ now \in Nat /\ Week \in Nat /\ Day \in Nat \ {0} /\ FineRetention \in Nat /\ FineRetention > Week
        /\ askedAt <= now /\ now - askedAt < Day
    BY MapConstants, TypeIs, <1>4 DEF MapInv, AskedOk, HeatmapWindows
  <2>3. FirstDay(w) = DayOf(askedAt) - Week
    <3>1. askedAt \in Int /\ Week \in Int /\ Day \in Nat \ {0}
      BY <2>2
    <3>2. (askedAt - Week * Day) \div Day = (askedAt \div Day) - Week
      BY <3>1, DivShift
    <3> QED BY <2>1, <3>2 DEF DayOf
  <2>4. DayOf(now) <= DayOf(askedAt) + 1
    <3>1. now \in Int /\ 1 \in Int /\ Day \in Nat \ {0} /\ askedAt \in Int
      BY <2>2
    <3>2. (now - 1 * Day) \div Day = (now \div Day) - 1
      BY <3>1, DivShift
    <3>3. PICK before : before = now - 1 * Day
      OBVIOUS
    <3>4. before \in Int /\ before <= askedAt
      BY <2>2, <3>3
    <3>5. before \div Day <= askedAt \div Day
      BY <3>1, <3>4, DivMonotone
    <3>6. now \div Day \in Nat /\ askedAt \div Day \in Nat
      BY <2>2, DivNat
    <3>7. before \div Day = (now \div Day) - 1
      BY <3>2, <3>3
    <3> QED BY <3>5, <3>6, <3>7 DEF DayOf
  <2>5. DayOf(now) \in Nat /\ DayOf(askedAt) \in Nat
    BY <2>2, DivNat DEF DayOf
  <2>6. d >= DayOf(now) - FineRetention
    BY <1>1, <2>2, <2>3, <2>4, <2>5
  <2> QED BY <1>1, <1>2, <2>6 DEF Kept
<1> QED BY <1>3, <1>4

\* A fix after the cutoff is of a day of the window.
LEMMA AfterCutoff ==
  ASSUME MapInv, asked \in {"24h", "7d", "30d"}, NEW t \in 0..LastMoment, t > Cutoff(asked)
  PROVE  DayOf(t) >= FirstDay(asked)
<1>1. Cutoff(asked) \in Int
  <2>1. WindowDays[asked] \in Nat /\ askedAt \in Nat /\ Day \in Nat
    BY MapConstants, TypeIs DEF MapInv, WindowDays
  <2> QED BY <2>1 DEF Cutoff
<1>2. t \in Int /\ Cutoff(asked) <= t
  BY <1>1, MapConstants
<1>3. Cutoff(asked) \div Day <= t \div Day /\ Cutoff(asked) \div Day \in Int /\ t \div Day \in Int
  BY <1>1, <1>2, MapConstants, DivMonotone, DivIs
<1> QED BY <1>3 DEF FirstDay, DayOf

LEMMA HeatmapIs == MapInv => HeatmapFaithful
<1> SUFFICES ASSUME MapInv, asked \in HeatmapWindows
             PROVE  /\ \A c \in Cells :
                         IF asked = "24h"
                           THEN Heatmap(asked)[c] <= Cardinality({x \in InWindow(asked) : Bucket(Decoded(x.place), Fine) = c})
                           ELSE Heatmap(asked)[c] = Cardinality({x \in InWindow(asked) : Bucket(x.place, Scale(asked)) = c})
                    /\ \A x \in InWindow(asked) :
                         IF asked = "24h"
                           THEN NearestCell(x.place, Fine, Bucket(Decoded(x.place), Fine), Step * Fine)
                           ELSE NearestCell(x.place, Scale(asked), Bucket(x.place, Scale(asked)), 0)
  BY DEF HeatmapFaithful, MapInv
<1> DEFINE s == Scale(asked)
<1>1. asked \in {"24h", "7d", "30d", "all"} /\ s \in Scales /\ (asked = "24h" => s = Fine)
  BY DEF HeatmapWindows, Scale, Scales
<1>2. IsFiniteSet(recorded) /\ \A x \in recorded : x.place \in Places /\ x.ts \in 0..LastMoment
  BY DEF MapInv, RecordsOk, Fixes
<1>3. ASSUME NEW x \in InWindow(asked)
      PROVE  IF asked = "24h"
               THEN NearestCell(x.place, Fine, Bucket(Decoded(x.place), Fine), Step * Fine)
               ELSE NearestCell(x.place, Scale(asked), Bucket(x.place, Scale(asked)), 0)
  <2>1. x.place \in Places /\ x.place \in Coordinates
    BY <1>2, CoordinatesAre DEF InWindow
  <2> QED BY <1>1, <2>1, BucketIs, DecodedBucket
<1>4. ASSUME asked = "24h", NEW c \in Cells
      PROVE  Heatmap(asked)[c] <= Cardinality({x \in InWindow(asked) : Bucket(Decoded(x.place), Fine) = c})
  <2> DEFINE raw == {x \in RawRows(asked) : Bucket(Decoded(x.place), Scale(asked)) = c}
             near == {x \in InWindow(asked) : Bucket(Decoded(x.place), Fine) = c}
  <2>1. Heatmap(asked)[c] = Cardinality(raw)
    BY <1>4 DEF Heatmap
  <2>2. raw \subseteq near
    <3>1. ASSUME NEW x \in positions, x.ts > Cutoff(asked) PROVE x \in InWindow(asked)
      <4>1. x \in recorded /\ x.ts \in 0..LastMoment
        BY <1>2, TypeIs DEF MapInv
      <4> QED BY <1>4, <3>1, <4>1, AfterCutoff DEF InWindow
    <3> QED BY <1>1, <1>4, <3>1 DEF RawRows
  <2>3. IsFiniteSet(near)
    BY <1>2, FS_Subset DEF InWindow
  <2>4. Cardinality(raw) <= Cardinality(near)
    <3> HIDE DEF raw, near
    <3> QED BY <2>2, <2>3, FS_Subset
  <2> QED BY <2>1, <2>4
<1>5. ASSUME asked # "24h", NEW c \in Cells
      PROVE  Heatmap(asked)[c] = Cardinality({x \in InWindow(asked) : Bucket(x.place, Scale(asked)) = c})
  <2>1. Heatmap(asked)[c] = WeightOf(s, DaysOf(asked), c)
    BY <1>5 DEF Heatmap
  <2>2. ASSUME NEW d \in DaysOf(asked) PROVE Get(grid, <<s, d, c>>) = Cardinality(At(recorded, s, d, c))
    <3>1. d \in Days /\ Kept(s, d)
      BY <1>1, <1>5, WindowKept
    <3> QED BY <1>1, <3>1 DEF MapInv, RollupsOk
  <2>3. WeightOf(s, DaysOf(asked), c) = Cardinality({x \in recorded : DayOf(x.ts) \in DaysOf(asked) /\ Bucket(x.place, s) = c})
    <3> HIDE DEF s
    <3> QED BY <1>2, <2>2, WeightIs
  <2>4. {x \in recorded : DayOf(x.ts) \in DaysOf(asked) /\ Bucket(x.place, s) = c}
          = {x \in InWindow(asked) : Bucket(x.place, Scale(asked)) = c}
    BY <1>2, DayIs DEF DaysOf, InWindow
  <2> QED BY <2>1, <2>3, <2>4
<1> QED BY <1>3, <1>4, <1>5

\* The distances of fixes by the coordinates that positions keeps.
StoredReach(S) == {DistNm[Decoded(x.place)] : x \in S}

LEMMA StoredReachNat == ASSUME NEW S, IsFiniteSet(S), S \subseteq Fixes PROVE Top(StoredReach(S)) \in Nat
<1> DEFINE f == [x \in S |-> DistNm[Decoded(x.place)]]
<1>1. \A x \in S : DistNm[Decoded(x.place)] \in Nat
  BY DecodedIs, MapConstants DEF Fixes
<1>2. StoredReach(S) \subseteq Nat
  BY <1>1 DEF StoredReach
<1>3. f \in Surjection(S, StoredReach(S))
  BY DEF Surjection, StoredReach
<1> HIDE DEF f
<1>4. IsFiniteSet(StoredReach(S))
  BY <1>3, FS_Surjection
<1> QED BY <1>2, <1>4, TopIs

LEMMA StoredReachIs ==
  ASSUME NEW S, IsFiniteSet(S), S \subseteq Fixes, NEW T, T \subseteq S
  PROVE  Top(StoredReach(T)) <= Top(StoredReach(S))
<1> DEFINE f == [x \in S |-> DistNm[Decoded(x.place)]]
<1>1. \A x \in S : DistNm[Decoded(x.place)] \in Nat
  BY DecodedIs, MapConstants DEF Fixes
<1>2. StoredReach(S) \subseteq Nat /\ StoredReach(T) \subseteq StoredReach(S)
  BY <1>1 DEF StoredReach
<1>3. f \in Surjection(S, StoredReach(S))
  BY DEF Surjection, StoredReach
<1> HIDE DEF f
<1>4. IsFiniteSet(StoredReach(S))
  BY <1>3, FS_Surjection
<1>5. IsFiniteSet(StoredReach(T)) /\ StoredReach(T) \subseteq Nat
  BY <1>2, <1>4, FS_Subset
<1>6. Top(StoredReach(T)) \in StoredReach(T) \cup {0}
  BY <1>5, TopIs
<1>7. Top(StoredReach(S)) \in Nat /\ \A y \in StoredReach(S) : y <= Top(StoredReach(S))
  BY <1>2, <1>4, TopIs
<1> QED BY <1>2, <1>6, <1>7

LEMMA CoverageIs == MapInv => CoverageFaithful
<1> SUFFICES ASSUME MapInv, asked \in HeatmapWindows, NEW b \in Buckets
             PROVE  LET there == {x \in InWindow(asked) : Bearing[x.place] \div (10 * BucketDeg) = b}
                        near == {x \in InWindow(asked) : Bearing[Decoded(x.place)] \div (10 * BucketDeg) = b}
                        day == {x \in near \cap positions : x.ts > askedAt - Day}
                    IN  IF asked = "24h"
                          THEN /\ Coverage(asked)[b] >= Top({DistNm[Decoded(x.place)] : x \in day})
                               /\ Coverage(asked)[b] <= Top({DistNm[Decoded(x.place)] : x \in near})
                          ELSE Coverage(asked)[b] = Top({DistNm[x.place] : x \in there})
  BY DEF CoverageFaithful
<1> DEFINE there == {x \in InWindow(asked) : Bearing[x.place] \div (10 * BucketDeg) = b}
           near == {x \in InWindow(asked) : Bearing[Decoded(x.place)] \div (10 * BucketDeg) = b}
           day == {x \in near \cap positions : x.ts > askedAt - Day}
<1>1. asked \in {"24h", "7d", "30d", "all"}
  BY DEF HeatmapWindows
<1>2. IsFiniteSet(recorded) /\ recorded \subseteq Fixes /\ positions \subseteq recorded
  BY TypeIs DEF MapInv, RecordsOk
<1>3. there \subseteq recorded /\ IsFiniteSet(there) /\ there \subseteq Fixes
  BY <1>2, FS_Subset DEF InWindow
<1>4. near \subseteq recorded /\ IsFiniteSet(near) /\ near \subseteq Fixes
  BY <1>2, FS_Subset DEF InWindow
<1>5. CASE asked = "24h"
  <2> DEFINE raw == {x \in RawRows(asked) : (Bearing[Decoded(x.place)] \div (10 * BucketDeg)) % Cardinality(Buckets) = b}
  <2>1. Coverage(asked)[b] = Top(StoredReach(raw))
    BY <1>5 DEF Coverage, StoredReach
  <2>2. Cutoff(asked) = askedAt - Day
    BY <1>5, MapConstants, TypeIs DEF Cutoff, WindowDays, MapInv
  <2>3. \A x \in recorded :
          (Bearing[Decoded(x.place)] \div (10 * BucketDeg)) % Cardinality(Buckets) = Bearing[Decoded(x.place)] \div (10 * BucketDeg)
    <3>1. \A x \in recorded : Decoded(x.place) \in Coordinates
      BY <1>2, DecodedIs DEF Fixes
    <3> QED BY <3>1, BearingIs
  <2>4. day \subseteq raw
    BY <1>4, <2>2, <2>3 DEF RawRows
  <2>5. raw \subseteq near
    <3>1. ASSUME NEW x \in positions, x.ts > Cutoff(asked) PROVE x \in InWindow(asked)
      <4>1. x \in recorded /\ x.ts \in 0..LastMoment
        BY <1>2 DEF Fixes
      <4> QED BY <1>5, <3>1, <4>1, AfterCutoff DEF InWindow
    <3> QED BY <1>2, <2>3, <3>1 DEF RawRows
  <2> HIDE DEF raw, near, day
  <2>6. IsFiniteSet(raw) /\ raw \subseteq Fixes
    BY <1>4, <2>5, FS_Subset
  <2>7. Top(StoredReach(day)) <= Top(StoredReach(raw)) /\ Top(StoredReach(raw)) <= Top(StoredReach(near))
    BY <1>4, <2>4, <2>5, <2>6, StoredReachIs
  <2>8. Top(StoredReach(day)) \in Nat /\ Top(StoredReach(raw)) \in Nat
    BY StoredReachNat, <2>4, <2>6, FS_Subset
  <2> QED BY <1>5, <2>1, <2>7, <2>8 DEF StoredReach, near, day
<1>6. CASE asked # "24h"
  <2> DEFINE K == DaysOf(asked) \X {e \in Degrees : e \div BucketDeg = b}
             A == {Get(coverage, k) : k \in K}
             B == {DistNm[x.place] : x \in there}
  <2>1. Coverage(asked)[b] = Top(A)
    BY <1>6 DEF Coverage
  <2>2. ASSUME NEW d \in DaysOf(asked), NEW e \in Degrees, e \div BucketDeg = b
        PROVE  /\ Get(coverage, <<d, e>>) = Reach(Toward(recorded, d, e))
               /\ Toward(recorded, d, e) \subseteq there
    <3>1. d \in Days /\ d >= FirstDay(asked)
      BY DEF DaysOf
    <3>2. Get(coverage, <<d, e>>) = Reach(Toward(recorded, d, e))
      BY <3>1 DEF MapInv, RollupsOk, Extent
    <3>3. ASSUME NEW x \in recorded, DayOf(x.ts) = d, Direction(x) = e PROVE x \in there
      <4>1. Bearing[x.place] \div (10 * BucketDeg) = b
        BY <1>2, <2>2, <3>3, DirectionIs
      <4> QED BY <3>1, <3>3, <4>1 DEF InWindow
    <3> QED BY <3>2, <3>3 DEF Toward
  <2>3. ASSUME NEW x \in there
        PROVE  /\ DayOf(x.ts) \in DaysOf(asked) /\ Direction(x) \in Degrees /\ Direction(x) \div BucketDeg = b
               /\ x \in Toward(recorded, DayOf(x.ts), Direction(x))
    <3>1. x \in recorded /\ x \in Fixes /\ DayOf(x.ts) >= FirstDay(asked) /\ Bearing[x.place] \div (10 * BucketDeg) = b
      BY <1>3 DEF InWindow
    <3>2. DayOf(x.ts) \in Days
      BY <3>1, DayIs DEF Fixes
    <3> QED BY <3>1, <3>2, DirectionIs DEF DaysOf, Toward
  <2>4. \A y : y \in A <=> \E d \in DaysOf(asked), e \in Degrees : e \div BucketDeg = b /\ y = Get(coverage, <<d, e>>)
    <3>1. \A k : k \in K <=> \E d \in DaysOf(asked), e \in Degrees : e \div BucketDeg = b /\ k = <<d, e>>
      <4>1. ASSUME NEW k \in K PROVE \E d \in DaysOf(asked), e \in Degrees : e \div BucketDeg = b /\ k = <<d, e>>
        OBVIOUS
      <4>2. ASSUME NEW d \in DaysOf(asked), NEW e \in Degrees, e \div BucketDeg = b PROVE <<d, e>> \in K
        BY <4>2
      <4> QED BY <4>1, <4>2
    <3>2. \A y : y \in A <=> \E k \in K : y = Get(coverage, k)
      OBVIOUS
    <3> HIDE DEF K, A
    <3>3. ASSUME NEW y \in A
          PROVE  \E d \in DaysOf(asked), e \in Degrees : e \div BucketDeg = b /\ y = Get(coverage, <<d, e>>)
      <4>1. PICK k \in K : y = Get(coverage, k)
        BY <3>2
      <4> QED BY <3>1, <4>1
    <3>4. ASSUME NEW d \in DaysOf(asked), NEW e \in Degrees, e \div BucketDeg = b
          PROVE  Get(coverage, <<d, e>>) \in A
      <4>1. <<d, e>> \in K
        BY <3>1, <3>4
      <4> QED BY <3>2, <4>1
    <3> QED BY <3>3, <3>4
  <2>5. Reach(there) = Top(B)
    BY DEF Reach
  <2> HIDE DEF there, A, B, K
  <2>6. /\ Reach(there) \in Nat /\ (Reach(there) = 0 \/ \E x \in there : Reach(there) = DistNm[x.place])
        /\ \A x \in there : DistNm[x.place] \in Nat /\ DistNm[x.place] <= Reach(there)
    BY <1>3, ReachIs
  <2>7. ASSUME NEW y \in A PROVE y \in Nat /\ y <= Reach(there)
    <3>1. PICK d \in DaysOf(asked), e \in Degrees : e \div BucketDeg = b /\ y = Get(coverage, <<d, e>>)
      BY <2>4
    <3>2. y = Reach(Toward(recorded, d, e)) /\ Toward(recorded, d, e) \subseteq there
      BY <2>2, <3>1
    <3>3. y \in Nat /\ (y = 0 \/ \E x \in Toward(recorded, d, e) : y = DistNm[x.place])
      BY <1>2, <3>2, TowardIs, ReachIs
    <3> QED BY <2>6, <3>2, <3>3
  <2>8. ASSUME NEW x \in there, Reach(there) = DistNm[x.place] PROVE Reach(there) \in A
    <3> DEFINE d == DayOf(x.ts)
               e == Direction(x)
               y == Get(coverage, <<d, e>>)
    <3>1. d \in DaysOf(asked) /\ e \in Degrees /\ e \div BucketDeg = b /\ x \in Toward(recorded, d, e)
      BY <2>3
    <3>2. y \in A
      BY <2>4, <3>1
    <3>3. y = Reach(Toward(recorded, d, e))
      BY <2>2, <3>1
    <3> HIDE DEF d, e, y
    <3>4. DistNm[x.place] <= y
      BY <1>2, <3>1, <3>3, TowardIs, ReachIs
    <3>5. y \in Nat /\ y <= Reach(there)
      BY <2>7, <3>2
    <3> QED BY <2>6, <2>8, <3>2, <3>4, <3>5
  <2>9. IsFiniteSet(A) /\ A \subseteq Nat
    <3>1. A \in SUBSET Nat /\ \A y \in A : y <= Reach(there)
      BY <2>7
    <3> QED BY <2>6, <3>1, FS_BoundedSetOfNaturals
  <2>10. Top(A) = Reach(there)
    <3>1. Reach(there) \in A \cup {0}
      BY <2>6, <2>8
    <3> QED BY <2>7, <2>9, <3>1, TopIs
  <2> QED BY <1>6, <2>1, <2>5, <2>10 DEF B, there
<1> QED BY <1>5, <1>6

\* Of fixes seen one after the other one is the newest.
LEMMA NewestIs ==
  ASSUME NEW R, IsFiniteSet(R), R \subseteq Fixes, R # {},
         \A x, y \in R : x.ts = y.ts => x = y
  PROVE  Newest(R) \in R /\ (\A y \in R : y.ts <= Newest(R).ts)
         /\ \A x \in R : (\A y \in R : y.ts <= x.ts) => x = Newest(R)
<1> DEFINE T == {x.ts : x \in R}
           g == [x \in R |-> x.ts]
<1>1. \A x \in R : x.ts \in Nat
  BY MapConstants DEF Fixes
<1>2. g \in Surjection(R, T)
  BY DEF Surjection
<1>3. T \subseteq Nat /\ T # {}
  BY <1>1
<1>4. \A x \in R : x.ts \in T
  OBVIOUS
<1>5. \A t \in T : \E x \in R : t = x.ts
  OBVIOUS
<1> HIDE DEF g, T
<1>6. Max(T) \in T /\ \A n \in T : n <= Max(T)
  BY <1>1, <1>2, <1>3, FS_Surjection, GreatestElement
<1>7. \E x \in R : \A y \in R : y.ts <= x.ts
  BY <1>4, <1>5, <1>6
<1>8. Newest(R) \in R /\ \A y \in R : y.ts <= Newest(R).ts
  BY <1>7 DEF Newest
<1>9. ASSUME NEW x \in R, \A y \in R : y.ts <= x.ts PROVE x = Newest(R)
  <2>1. x.ts \in Nat /\ Newest(R).ts \in Nat /\ x.ts <= Newest(R).ts /\ Newest(R).ts <= x.ts
    BY <1>1, <1>8, <1>9
  <2>2. x.ts = Newest(R).ts
    BY <2>1
  <2> QED BY <1>8, <2>2
<1> QED BY <1>8, <1>9

\* A set of rows of one flight, as every view reads them.
OfOne(R) == IsFiniteSet(R) /\ R \subseteq Fixes /\ \A x, y \in R : x.ts = y.ts => x = y

LEMMA OneFlight ==
  ASSUME MapInv, NEW f
  PROVE  OfOne(FixesOf(f, recorded)) /\ FixesOf(f, positions) \subseteq FixesOf(f, recorded)
         /\ \A R : R \subseteq FixesOf(f, recorded) => OfOne(R)
<1>1. IsFiniteSet(FixesOf(f, recorded))
  BY FS_Subset DEF MapInv, RecordsOk, FixesOf
<1>2. OfOne(FixesOf(f, recorded))
  BY <1>1 DEF MapInv, RecordsOk, FixesOf, OfOne
<1>3. \A R : R \subseteq FixesOf(f, recorded) => OfOne(R)
  BY <1>2, FS_Subset DEF OfOne
<1> QED BY <1>2, <1>3, TypeIs DEF MapInv, FixesOf

Ordered(rows) == \A f \in Flights : OfOne(FixesOf(f, rows))

LEMMA RowsAre == ASSUME MapInv, NEW rows, rows \subseteq recorded PROVE Ordered(rows)
<1>1. \A f : FixesOf(f, rows) \subseteq FixesOf(f, recorded)
  BY DEF FixesOf
<1> QED BY <1>1, OneFlight DEF Ordered

\* What a snapshot of some rows shows.
LEMMA ShownIs ==
  ASSUME NEW rows, Ordered(rows), NEW at, NEW x \in Shown(rows, at)
  PROVE  /\ x.flight \in Flights /\ x \in rows /\ at - MapWindow <= x.ts /\ x.ts <= at
         /\ \A y \in Recent(x.flight, rows, at) : y.ts <= x.ts
<1>1. PICK f \in Flights : Recent(f, rows, at) # {} /\ x = Newest(Recent(f, rows, at))
  BY DEF Shown
<1>2. PICK R : R = Recent(f, rows, at)
  OBVIOUS
<1>3. R = {y \in FixesOf(f, rows) : at - MapWindow <= y.ts /\ y.ts <= at}
  BY <1>2 DEF Recent
<1>4. OfOne(R)
  <2>1. R \subseteq FixesOf(f, rows) /\ OfOne(FixesOf(f, rows))
    BY <1>3 DEF Ordered
  <2> QED BY <2>1, FS_Subset DEF OfOne
<1>5. x \in R /\ \A y \in R : y.ts <= x.ts
  BY <1>1, <1>2, <1>4, NewestIs DEF OfOne
<1>6. x.flight = f /\ x \in rows
  BY <1>3, <1>5 DEF FixesOf
<1> QED BY <1>2, <1>3, <1>5, <1>6

\* The trail of an aircraft that the snapshot has read.
LEMMA TrailIs ==
  ASSUME MapInv, asked \in Snapshots, NEW x \in Shown(seen, askedAt), x \in positions
  PROVE  /\ TrailOf(x.flight) # {} /\ Newest(TrailOf(x.flight)).ts <= askedAt
         /\ \/ Newest(TrailOf(x.flight)) = x
            \/ Newest(TrailOf(x.flight)) \in positions \ seen /\ Newest(TrailOf(x.flight)).ts > x.ts
<1> DEFINE f == x.flight
           reach == {y \in FixesOf(f, positions) :
                       y.ts <= askedAt /\ (asked = "live" => y.ts >= askedAt - TrailWindow)}
           end == Newest(reach)
<1>1. /\ x \in seen /\ askedAt - MapWindow <= x.ts /\ x.ts <= askedAt
      /\ \A y \in Recent(f, seen, askedAt) : y.ts <= x.ts
  <2>1. Ordered(seen)
    BY RowsAre, TypeIs DEF MapInv
  <2> QED BY <2>1, ShownIs
<1>2. /\ askedAt \in Nat /\ MapWindow \in Nat /\ TrailWindow \in Nat /\ TrailWindow >= MapWindow
      /\ Trail \in Nat \ {0}
  BY MapConstants, TypeIs DEF MapInv
<1>3. \A y \in positions : y \in recorded /\ y.ts \in Nat
  BY MapConstants, TypeIs DEF MapInv, RecordsOk, Fixes
<1>4. x \in reach
  BY <1>1, <1>2, <1>3 DEF FixesOf
<1>5. \A y \in reach : y \in positions /\ y.flight = f /\ y.ts \in Nat /\ y.ts <= askedAt
  BY <1>3 DEF FixesOf
<1>6. OfOne(reach)
  <2>1. reach \subseteq FixesOf(f, recorded)
    BY <1>3 DEF FixesOf
  <2> QED BY <2>1, OneFlight
<1>7. TrailOf(f) = {z \in reach : Cardinality({y \in reach : y.ts > z.ts}) < Trail}
  BY DEF TrailOf
<1> HIDE DEF reach
<1>8. end \in reach /\ \A y \in reach : y.ts <= end.ts
  BY <1>4, <1>6, NewestIs DEF OfOne
<1> HIDE DEF end, f
<1>9. end \in TrailOf(f)
  <2>1. {y \in reach : y.ts > end.ts} = {}
    BY <1>5, <1>8
  <2> QED BY <1>2, <1>7, <1>8, <2>1, FS_EmptySet
<1>10. Newest(TrailOf(f)) = end
  <2>1. TrailOf(f) \subseteq reach
    BY <1>7
  <2>2. OfOne(TrailOf(f))
    BY <1>6, <2>1, FS_Subset DEF OfOne
  <2> QED BY <1>8, <1>9, <2>1, <2>2, NewestIs DEF OfOne
<1>11. ASSUME end # x PROVE end \in positions \ seen /\ end.ts > x.ts
  <2>1. x.ts \in Nat /\ end.ts \in Nat /\ x.ts <= end.ts /\ x.ts # end.ts /\ end.ts <= askedAt
    BY <1>4, <1>5, <1>6, <1>8, <1>11 DEF OfOne
  <2>2. end.ts > x.ts
    BY <2>1
  <2>3. ASSUME end \in seen PROVE FALSE
    <3>1. askedAt - MapWindow <= end.ts
      BY <1>1, <1>2, <2>1
    <3>2. end \in Recent(f, seen, askedAt)
      BY <1>5, <1>8, <2>1, <2>3, <3>1 DEF Recent, FixesOf
    <3> QED BY <1>1, <2>1, <2>2, <3>2 DEF f
  <2> QED BY <1>5, <1>8, <2>2, <2>3
<1> QED BY <1>5, <1>8, <1>9, <1>10, <1>11 DEF f

LEMMA LiveIs ==
  ASSUME MapInv, NEW x \in Shown(positions, now)
  PROVE  LiveFix(x.flight) = {x}
<1> DEFINE f == x.flight
<1>1. x \in positions /\ now - MapWindow <= x.ts /\ x.ts <= now /\ \A y \in Recent(f, positions, now) : y.ts <= x.ts
  <2>1. Ordered(positions)
    BY RowsAre, TypeIs DEF MapInv
  <2> QED BY <2>1, ShownIs
<1>2. now \in Nat /\ MapWindow \in Nat
  BY MapConstants, TypeIs DEF MapInv
<1>3. \A y \in positions : y \in recorded /\ y.ts \in Nat /\ y.ts <= now
  BY MapConstants, TypeIs DEF MapInv, RecordsOk, Fixes
<1>4. ASSUME NEW y \in FixesOf(f, positions) PROVE y.ts <= x.ts
  <2>1. y \in positions /\ y.ts \in Nat /\ x.ts \in Nat /\ y.ts <= now
    BY <1>1, <1>3 DEF FixesOf
  <2>2. CASE now - MapWindow <= y.ts
    BY <1>1, <1>4, <2>1, <2>2 DEF Recent
  <2>3. CASE ~(now - MapWindow <= y.ts)
    BY <1>1, <1>2, <2>1, <2>3
  <2> QED BY <2>2, <2>3
<1>5. x \in FixesOf(f, positions) /\ \A y \in FixesOf(f, positions) : y.ts <= x.ts /\ y \in recorded /\ y.ts \in Nat
  BY <1>1, <1>3, <1>4 DEF FixesOf
<1>6. ASSUME NEW y \in LiveFix(f) PROVE y = x
  <2>1. y \in FixesOf(f, positions) /\ x.ts <= y.ts
    BY <1>5 DEF LiveFix
  <2>2. x.ts = y.ts
    BY <1>5, <2>1
  <2> QED BY <1>5, <2>1, <2>2 DEF MapInv, RecordsOk, FixesOf
<1>7. x \in LiveFix(f)
  BY <1>5 DEF LiveFix
<1> QED BY <1>6, <1>7

LEMMA TrailsAre == MapInv => TrailEndsAtAircraft
  BY TrailIs, LiveIs DEF TrailEndsAtAircraft

\* Whatever aborts, vanishes, is purged or pruned, also between the cutoff and the
\* query of a request: heatmap, polygon and trails show what was recorded.
THEOREM MapFaithfulAlways == MapSpec => []MapFaithful
<1>1. MapInv => MapFaithful
  BY HeatmapIs, CoverageIs, TrailsAre DEF MapFaithful
<1> QED BY <1>1, MapInvAlways, PTL

-----------------------------------------------------------------------------
\* The replay of a moment that aircraft.json has left behind shows an aircraft where it
\* was shown before, or misses a row that is no longer stored.
THEOREM ReplayIsStableAlways == MapSpec => ReplayIsStable
<1> DEFINE Stable == positions' # positions => \A at \in Moments' : at < feed - MaxSeen =>
             \A x \in Shown(positions', at) : x \in Shown(positions, at)
                 \/ \E y \in Shown(positions, at) : y.flight = x.flight /\ y \notin positions'
<1>1. MapInv /\ MapInv' /\ [MapNext]_mapVars => [Stable]_positions
  <2> SUFFICES ASSUME MapInv, MapInv', [MapNext]_mapVars, positions' # positions,
                      NEW at \in Moments', at < feed - MaxSeen, NEW x \in Shown(positions', at)
               PROVE  x \in Shown(positions, at)
                        \/ \E y \in Shown(positions, at) : y.flight = x.flight /\ y \notin positions'
    OBVIOUS
  <2> DEFINE f == x.flight
             was == Recent(f, positions, at)
  <2>0. at \in Nat /\ feed \in Nat /\ MaxSeen \in Nat
    <3>1. now' \in Nat
      BY MapConstants DEF MapInv, MapTypeOK
    <3> QED BY <3>1, MapConstants, TypeIs DEF MapInv, Moments
  <2>1. /\ f \in Flights /\ x \in positions' /\ at - MapWindow <= x.ts /\ x.ts <= at
        /\ \A y \in Recent(f, positions', at) : y.ts <= x.ts
    <3>1. positions' \subseteq recorded'
      BY DEF MapInv, MapTypeOK
    <3>2. Ordered(positions')
      <4>1. recorded' \subseteq Fixes /\ IsFiniteSet(recorded')
            /\ \A u, v \in recorded' : u.flight = v.flight /\ u.ts = v.ts => u = v
        BY DEF MapInv, RecordsOk
      <4>2. ASSUME NEW g \in Flights PROVE OfOne(FixesOf(g, positions'))
        <5>1. FixesOf(g, positions') \subseteq recorded' /\ \A u \in FixesOf(g, positions') : u.flight = g
          BY <3>1 DEF FixesOf
        <5>2. IsFiniteSet(FixesOf(g, positions'))
          BY <4>1, <5>1, FS_Subset
        <5> QED BY <4>1, <5>1, <5>2 DEF OfOne
      <4> QED BY <4>2 DEF Ordered
    <3> QED BY <3>2, ShownIs
  <2>2. \A y \in positions' : y.ts <= at => y \in positions
    <3>1. CASE positions' \subseteq positions
      BY <3>1
    <3>2. CASE Commit
      <4>1. \A y \in poll : y.ts \in Nat /\ feed - y.ts <= MaxSeen
        BY MapConstants DEF MapInv, RecordsOk, Fixes
      <4>2. positions' = positions \cup poll
        BY <3>2 DEF Commit
      <4> QED BY <2>0, <4>1, <4>2
    <3>3. CASE \E g \in Flights, p \in Places, t \in 0..LastMoment : Add(g, p, t)
      BY <3>3 DEF Add, stored
    <3>4. CASE Abort
      BY <3>4 DEF Abort, stored
    <3>5. CASE \E g \in Flights, flagged \in BOOLEAN : Close(g, flagged)
      BY <3>1, <3>5, CloseStep
    <3>6. CASE \E gone \in SUBSET ExpiredRows : Maintenance(gone)
      BY <3>1, <3>6, MaintenanceStep
    <3>7. CASE Requests \/ UNCHANGED mapVars
      BY <3>7, RequestSteps
    <3>8. CASE TimePasses
      BY <3>8, TimeStep
    <3>9. CASE Written
      BY <3>9, WrittenStep
    <3> QED BY <3>2, <3>3, <3>4, <3>5, <3>6, <3>7, <3>8, <3>9 DEF MapNext, Requests
  <2>3. x \in was
    BY <2>1, <2>2 DEF Recent, FixesOf
  <2>4. was \subseteq FixesOf(f, recorded)
    BY TypeIs DEF MapInv, Recent, FixesOf
  <2>5. Newest(was) \in was /\ (\A y \in was : y.ts <= Newest(was).ts)
        /\ \A z \in was : (\A y \in was : y.ts <= z.ts) => z = Newest(was)
    <3> HIDE DEF was, f
    <3>1. OfOne(was)
      BY <2>4, OneFlight
    <3> QED BY <2>3, <3>1, NewestIs DEF OfOne
  <2>6. Newest(was) \in Shown(positions, at) /\ Newest(was).flight = f
    BY <2>1, <2>3, <2>4, <2>5 DEF Shown, FixesOf
  <2>7. CASE Newest(was) \in positions'
    <3>1. Newest(was) \in Recent(f, positions', at)
      BY <2>5, <2>7 DEF Recent, FixesOf
    <3>2. Newest(was).ts <= x.ts /\ \A y \in was : y.ts \in Nat
      BY <2>1, <2>4, <3>1, MapConstants DEF FixesOf, MapInv, RecordsOk, Fixes
    <3>3. \A y \in was : y.ts <= x.ts
      <4> HIDE DEF was
      <4> QED BY <2>3, <2>5, <3>2
    <3> QED BY <2>3, <2>5, <2>6, <3>3
  <2>8. CASE Newest(was) \notin positions'
    BY <2>6, <2>8
  <2> QED BY <2>7, <2>8
<1> HIDE DEF Stable
<1>2. MapSpec => [][Stable]_positions
  BY <1>1, MapInvAlways, PTL DEF MapSpec
<1> QED BY <1>2 DEF ReplayIsStable, Stable
=============================================================================
