--------------------------- MODULE ResponseCache ---------------------------
(***************************************************************************)
(* The response cache of the web process (cache.py): handlers that look up, *)
(* wait for a lock, look up again and compute; expiry when an entry is      *)
(* read; eviction at the cap; and the prewarmer thread that refreshes the   *)
(* named targets at half their time to live.                                *)
(*                                                                          *)
(* _CACHE_LOCK makes a look-up and a store one step each. A computation     *)
(* reads the database when it begins and stores its answer when it ends, at *)
(* most MaxCompute ticks later. The prewarmer is on time: the clock does    *)
(* not pass a moment at which it has something to do.                       *)
(*                                                                          *)
(* Abstracted: an answer is the time its data was read. Stats keys (the     *)
(* bare one, which is prewarmed, and those of a window, which a caller      *)
(* names) share a lock, every other target has its own, which the           *)
(* prewarmer does not take.                                                 *)
(***************************************************************************)
EXTENDS Integers, Sequences, FiniteSets, SequencesExt

CONSTANTS
    Threads,      \* request threads
    Stats,        \* the bare key of the stats
    Maps,         \* heatmap and coverage keys
    Windows,      \* keys of the stats of a window
    Ttl,          \* _CACHE_TTLS, in ticks
    Cap,          \* _CACHE_MAX_ENTRIES
    Cool, Retry,  \* pauses of the prewarmer after a pass and after a failure
    MaxCompute, MaxClock, MaxFailures,   \* bounds (of failing passes)
    None

Named == Maps \cup {Stats}
Keys == Named \cup Windows

ASSUME CacheAssumption ==
    /\ None \notin Threads \cup {"prewarm"} /\ "prewarm" \notin Threads
    /\ None \notin [key : Keys, at : {"wait", "compute"}, asOf : Nat]
    /\ Ttl \in [Keys -> Nat \ {0}] /\ Cap \in Nat /\ Cap >= Cardinality(Named)
    /\ IsFiniteSet(Maps) /\ Stats \notin Maps /\ Named \cap Windows = {}
    /\ {Cool, Retry, MaxCompute, MaxClock, MaxFailures} \subseteq Nat

\* What the pace of the prewarmer relies on: an entry outlives the half of its time
\* to live with the passes over all other targets and the pauses between them (nine
\* targets, pauses of 10 s, 300 s at least: passes of up to 7 s).
ASSUME PaceAssumption == \A k \in Named :
    /\ Cool <= Ttl[k] \div 2
    /\ (Ttl[k] \div 2) + (Cardinality(Named) - 1) * (MaxCompute + Cool) + MaxCompute < Ttl[k]

VARIABLES
    clock,
    cache,      \* _cache in its order: key, time of the store, time of the data
    last,       \* history: when an answer to a named key was last stored
    lock,       \* _stats_compute_lock and the locks of the windows: who holds it
    job,        \* job[t]: the request of a thread, None when it has none
    answer,     \* key and age of the answer this step gave, None otherwise
    warm,       \* the prewarmer: what it does, its target, until when
    nextAt,     \* next_at
    kept,       \* history: targets warm since no pass failed or had to wait
    stop,       \* _prewarmer_stop
    failures

vars == <<clock, cache, last, lock, job, answer, warm, nextAt, kept, stop, failures>>
prewarmer == <<warm, nextAt, kept, stop, failures>>

LockOf(k) == IF k \in Maps THEN k ELSE Stats
Idle == [at |-> "idle", target |-> None, since |-> 0]

TypeOK ==
    /\ clock \in 0..MaxClock /\ failures \in 0..MaxFailures /\ stop \in BOOLEAN /\ kept \subseteq Named
    /\ cache \in Seq([key : Keys, at : Nat, asOf : Nat]) /\ last \in [Named -> Nat \cup {None}]
    /\ Len(cache) <= Cap /\ \A i, j \in DOMAIN cache : i # j => cache[i].key # cache[j].key
    /\ lock \in [Named -> Threads \cup {None, "prewarm"}]
    /\ answer \in [key : Keys, age : Nat] \cup {None} /\ nextAt \in [Named -> Nat]
    /\ warm \in [at : {"idle", "wait", "compute", "cool", "ended"}, target : Named \cup {None}, since : Nat]
    /\ \A t \in Threads : job[t] # None =>
         /\ job[t] \in [key : Keys, at : {"wait", "compute"}, asOf : Nat]
         /\ (job[t].at = "compute") <=> lock[LockOf(job[t].key)] = t

\* Targets are due one after the other, the stats first.
Init ==
    /\ clock = 0 /\ cache = <<>> /\ last = [k \in Named |-> None] /\ lock = [k \in Named |-> None]
    /\ job = [t \in Threads |-> None] /\ answer = None
    /\ warm = Idle /\ kept = {} /\ stop = FALSE /\ failures = 0
    /\ nextAt \in {f \in [Named -> 0..(Cardinality(Named) - 1)] :
                     f[Stats] = 0 /\ \A k, l \in Named : f[k] = f[l] => k = l}

-----------------------------------------------------------------------------
(* _get_cache and _set_cache *)

Expired(entry) == clock - entry.at >= Ttl[entry.key]
Entry(c, k) == {entry \in ToSet(c) : entry.key = k}
\* Mutant: what is stored is served until it is evicted.
FreshEver(k) == Entry(cache, k) # {}

Fresh(k) == \E entry \in Entry(cache, k) : ~Expired(entry)
KeysOf(entries) == {entry.key : entry \in entries}
\* The place in the order of the first entry of one of some keys.
First(c, keys) == Min({i \in DOMAIN c : c[i].key \in keys})
Without(c, k) == IF k \in KeysOf(ToSet(c)) THEN RemoveAt(c, First(c, {k})) ELSE c
\* A look-up deletes what has expired.
Looked(k) == IF Fresh(k) THEN cache ELSE Without(cache, k)

\* Mutant: the oldest entry goes, whatever its key.
VictimOldest(c) == c[1].key

Victim(c) ==
    LET free == KeysOf(ToSet(c)) \ Named
    IN  IF free = {} THEN c[1].key ELSE c[First(c, free)].key

\* One entry too many: one that has expired, or else the victim.
Evicted(c) ==
    LET old == KeysOf({entry \in ToSet(c) : Expired(entry)})
    IN  IF Len(c) <= Cap THEN c ELSE Without(c, IF old = {} THEN Victim(c) ELSE c[First(c, old)].key)

Stored(k, asOf) == Evicted(Append(Without(cache, k), [key |-> k, at |-> clock, asOf |-> asOf]))
Store(k, asOf) == cache' = Stored(k, asOf) /\ last' = [l \in Named |-> IF l = k THEN clock ELSE last[l]]

-----------------------------------------------------------------------------
(* A request *)

Answer(t, k, asOf) ==
    job' = [job EXCEPT ![t] = None] /\ answer' = [key |-> k, age |-> clock - asOf]
AnswerFrom(t, k) == \E entry \in Entry(cache, k) : Answer(t, k, entry.asOf)

Request(t, k) ==
    /\ job[t] = None /\ ~stop /\ cache' = Looked(k)
    /\ IF Fresh(k) THEN AnswerFrom(t, k)
       ELSE /\ job' = [job EXCEPT ![t] = [key |-> k, at |-> "wait", asOf |-> 0]]
            /\ answer' = None
    /\ UNCHANGED <<clock, last, lock, prewarmer>>

Compute(t) ==
    /\ job' = [job EXCEPT ![t].at = "compute", ![t].asOf = clock] /\ answer' = None

\* Mutant: the lock does not exclude anyone.
AcquireFreely(t) ==
    /\ job[t] # None /\ job[t].at = "wait"
    /\ LET k == job[t].key
       IN  /\ cache' = Looked(k)
           /\ IF Fresh(k) THEN AnswerFrom(t, k) /\ UNCHANGED lock
              ELSE Compute(t) /\ lock' = [lock EXCEPT ![LockOf(k)] = t]
    /\ UNCHANGED <<clock, last, prewarmer>>

\* Mutant: whoever got the lock computes, without a second look-up.
AcquireOnce(t) ==
    /\ job[t] # None /\ job[t].at = "wait" /\ lock[LockOf(job[t].key)] = None
    /\ Compute(t) /\ lock' = [lock EXCEPT ![LockOf(job[t].key)] = t]
    /\ UNCHANGED <<clock, cache, last, prewarmer>>

\* The second look-up, under the lock.
Acquire(t) ==
    /\ job[t] # None /\ job[t].at = "wait" /\ lock[LockOf(job[t].key)] = None
    /\ LET k == job[t].key
       IN  /\ cache' = Looked(k)
           /\ IF Fresh(k) THEN AnswerFrom(t, k) /\ UNCHANGED lock
              ELSE Compute(t) /\ lock' = [lock EXCEPT ![LockOf(k)] = t]
    /\ UNCHANGED <<clock, last, prewarmer>>

Finish(t) ==
    /\ job[t] # None /\ job[t].at = "compute"
    /\ Store(job[t].key, job[t].asOf) /\ Answer(t, job[t].key, job[t].asOf)
    /\ lock' = [lock EXCEPT ![LockOf(job[t].key)] = None]
    /\ UNCHANGED <<clock, prewarmer>>

\* The request fails (500) and leaves the lock.
Error(t) ==
    /\ job[t] # None /\ job[t].at = "compute"
    /\ job' = [job EXCEPT ![t] = None]
    /\ lock' = [lock EXCEPT ![LockOf(job[t].key)] = None]
    /\ UNCHANGED <<clock, cache, last, prewarmer>> /\ answer' = None

-----------------------------------------------------------------------------
(* _prewarm_loop *)

Due == {k \in Named : nextAt[k] <= clock /\ \A l \in Named : nextAt[k] <= nextAt[l]}

WarmBegins ==
    /\ warm.at = "idle" /\ ~stop
    /\ \E k \in Due :
         IF k # Stats THEN warm' = [at |-> "compute", target |-> k, since |-> clock] /\ UNCHANGED <<lock, kept>>
         ELSE IF lock[Stats] = None
         THEN /\ warm' = [at |-> "compute", target |-> k, since |-> clock]
              /\ lock' = [lock EXCEPT ![Stats] = "prewarm"] /\ UNCHANGED kept
         ELSE warm' = [at |-> "wait", target |-> k, since |-> 0] /\ kept' = {} /\ UNCHANGED lock
    /\ UNCHANGED <<clock, cache, last, job, nextAt, stop, failures>> /\ answer' = None

WarmAcquires ==
    /\ warm.at = "wait" /\ lock[Stats] = None
    /\ warm' = [warm EXCEPT !.at = "compute", !.since = clock]
    /\ lock' = [lock EXCEPT ![Stats] = "prewarm"]
    /\ UNCHANGED <<clock, cache, last, job, nextAt, kept, stop, failures>> /\ answer' = None

\* Mutant: the next pass when the entry expires.
PauseTtl(k) == Ttl[k]

Pause(k) == Ttl[k] \div 2

WarmEnds ==
    /\ warm.at = "compute"
    /\ LET k == warm.target
       IN  /\ Store(k, warm.since) /\ kept' = IF stop THEN {} ELSE kept \cup {k}
           /\ nextAt' = [nextAt EXCEPT ![k] = clock + Pause(k)]
           /\ lock' = IF k = Stats THEN [lock EXCEPT ![k] = None] ELSE lock
    /\ warm' = [at |-> "cool", target |-> None, since |-> clock]
    /\ UNCHANGED <<clock, job, stop, failures>> /\ answer' = None

WarmFails ==
    /\ warm.at = "compute" /\ failures < MaxFailures /\ failures' = failures + 1
    /\ LET k == warm.target
       IN  /\ kept' = {} /\ nextAt' = [nextAt EXCEPT ![k] = clock + Retry]
           /\ lock' = IF k = Stats THEN [lock EXCEPT ![k] = None] ELSE lock
    /\ warm' = [at |-> "cool", target |-> None, since |-> clock]
    /\ UNCHANGED <<clock, cache, last, job, stop>> /\ answer' = None

WarmRests ==
    /\ warm.at = "cool" /\ ~stop /\ clock - warm.since >= Cool
    /\ warm' = Idle /\ UNCHANGED <<clock, cache, last, lock, job, nextAt, kept, stop, failures>> /\ answer' = None

\* The lifespan ends; the thread sees it between two passes.
StopPrewarmer ==
    /\ ~stop /\ stop' = TRUE /\ kept' = {}
    /\ UNCHANGED <<clock, cache, last, lock, job, warm, nextAt, failures>> /\ answer' = None

WarmLeaves ==
    /\ stop /\ warm.at \in {"idle", "cool"} /\ warm' = [Idle EXCEPT !.at = "ended"]
    /\ UNCHANGED <<clock, cache, last, lock, job, nextAt, kept, stop, failures>> /\ answer' = None

WarmStep == WarmBegins \/ WarmAcquires \/ WarmEnds \/ WarmRests \/ WarmLeaves

-----------------------------------------------------------------------------

\* Nothing that must happen now is put off.
Overdue ==
    \/ \E t \in Threads : job[t] # None /\ job[t].at = "compute" /\ clock - job[t].asOf >= MaxCompute
    \/ \E t \in Threads : job[t] # None /\ job[t].at = "wait" /\ lock[LockOf(job[t].key)] = None
    \/ warm.at = "compute" /\ clock - warm.since >= MaxCompute
    \/ warm.at = "idle" /\ ~stop /\ Due # {}
    \/ warm.at = "wait" /\ lock[Stats] = None
    \/ warm.at = "cool" /\ clock - warm.since >= Cool

Tick ==
    /\ ~stop /\ clock < MaxClock /\ ~Overdue /\ clock' = clock + 1
    /\ answer' = None
    /\ UNCHANGED <<cache, last, lock, job, prewarmer>>

Next ==
    \/ Tick \/ WarmStep \/ WarmFails \/ StopPrewarmer
    \/ \E t \in Threads : Acquire(t) \/ Finish(t) \/ Error(t) \/ \E k \in Keys : Request(t, k)

Spec == Init /\ [][Next]_vars

-----------------------------------------------------------------------------
(* Properties *)

Computes(work) == work # None /\ work.at = "compute"

\* Nobody computes under a lock beside another, the prewarmer's pass over the stats
\* included.
Alone ==
    /\ \A t, u \in Threads : Computes(job[t]) /\ Computes(job[u]) /\ LockOf(job[t].key) = LockOf(job[u].key) => t = u
    /\ warm.at = "compute" /\ warm.target = Stats => \A t \in Threads : Computes(job[t]) => LockOf(job[t].key) # Stats

\* A thundering herd costs one computation: nobody computes under a lock beside
\* another, and a request begins to compute a prewarmed key only when no answer to it
\* was stored for as long as one lives, by whomever, however many asked before it was
\* and whatever filled the cache to its cap meanwhile.
SingleFlight == [][Alone' /\ \A t \in Threads : Computes(job'[t]) /\ ~Computes(job[t]) =>
    LET k == job'[t].key
    IN  k \in Named /\ last[k] # None => clock - last[k] >= Ttl[k]]_vars

\* An answer is never older than its time to live and the computation it came
\* from, also when a slow pass of the prewarmer stores its older data over that
\* of a request.
FreshEnough ==
    answer # None => answer.age < Ttl[answer.key] + MaxCompute

\* "the cache is renewed well before users could see an expiry": a named
\* target that is warm stays warm, through a flood of windows at the cap as
\* well, while no pass fails or has to wait for the lock of the stats.
WarmKept == \A k \in kept : Fresh(k)

\* What users get: answers that are fresh enough, and named ones without a wait.
WarmAndFresh == TypeOK /\ FreshEnough /\ WarmKept
=============================================================================
