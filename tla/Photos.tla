------------------------------- MODULE Photos -------------------------------
(***************************************************************************)
(* Where the picture of an aircraft comes from (api/_photos.py,             *)
(* photo_sources.py): the pictures photos and type_photos, where a row        *)
(* without a picture is a remembered miss; the requests of the web process, *)
(* whose look-ups of one type take turns at a lock out of a bounded         *)
(* dictionary; and the notifier, in the process of the collector, which     *)
(* runs the same ladder without a lock.                                     *)
(*                                                                          *)
(* Network calls take time: a look-up reads the pictures, waits for the       *)
(* sources and writes what came of it. A call ends in a hit, a miss or an   *)
(* error, one source after the other.                                       *)
(*                                                                          *)
(* A lock that is released is free until one of those waiting wakes up, but *)
(* who comes meanwhile has to wait behind them.                             *)
(*                                                                          *)
(* Abstracted: pictures are all alike.                                      *)
(***************************************************************************)
EXTENDS Integers, Sequences, FiniteSets, SequencesExt, Option

CONSTANTS
    Web, Bots,    \* requests of the web process, notifiers
    Hexes, Types,
    TypeOf,       \* aircraft_db: the type of an airframe
    Asks,         \* airframe and type of a flight
    LocksMax,     \* _TYPE_LOCKS_MAX
    Ttl, Grace,   \* PHOTO_CACHE_DAYS, and the grace of the web process
    Sources,      \* how many sources there are
    MaxNow, MaxAsks    \* bounds

Jobs == Web \cup Bots
LockIds == 1..(LocksMax + Cardinality(Web) + 1)

VARIABLES
    now,
    photos,      \* photos[h] and typePhotos[t]: a row, or None
    typePhotos,
    typeLocks,   \* _type_fetch_locks, the least recently used first
    job,         \* job[j]: the look-up under way, or None (raised: history, a source
                 \* of the chain failed in this call)
    shown,       \* the answer this step gave, None otherwise
    asks,        \* look-ups so far
    lost         \* history: types whose lock was evicted when someone was about to take it

pictureVars == <<now, photos, typePhotos, typeLocks, job, shown, asks, lost>>
pictures == <<photos, typePhotos>>

Row == [pic : BOOLEAN, at : 0..MaxNow]
LookUp ==
    [at : {"fetch", "types", "wait", "look", "specific", "probe", "wiki"}, hex : Hexes \cup {None},
     type : Types, since : 0..MaxNow, errored : BOOLEAN, raised : BOOLEAN, lock : LockIds \cup {None}]

ASSUME PhotosAssumption ==
    /\ IsFiniteSet(Web) /\ Web \cap Bots = {} /\ Asks \subseteq Hexes \X Types /\ TypeOf \in [Hexes -> Types \cup {None}]
    /\ LocksMax \in Nat \ {0} /\ {Ttl, Grace, Sources, MaxNow, MaxAsks} \subseteq Nat /\ Ttl + Grace <= MaxNow
    /\ None \notin Row \cup LookUp \cup Hexes \cup Types \cup LockIds \cup [type : Types, pic : BOOLEAN]

PhotosTypeOK ==
    /\ now \in 0..MaxNow /\ asks \in 0..MaxAsks
    /\ photos \in [Hexes -> Row \cup {None}] /\ typePhotos \in [Types -> Row \cup {None}]
    /\ typeLocks \in Seq([type : Types, id : LockIds]) /\ Len(typeLocks) <= LocksMax
    /\ \A i, k \in DOMAIN typeLocks : i # k =>
         typeLocks[i].type # typeLocks[k].type /\ typeLocks[i].id # typeLocks[k].id
    /\ shown \in [type : Types, pic : BOOLEAN] \cup {None}
    /\ job \in [Jobs -> {None} \cup LookUp] /\ lost \subseteq Types

PhotosInit ==
    /\ now = Ttl + Grace /\ asks = 0 /\ typeLocks = <<>> /\ shown = None /\ job = [j \in Jobs |-> None] /\ lost = {}
    /\ photos \in [Hexes -> {None, [pic |-> TRUE, at |-> now - Ttl], [pic |-> FALSE, at |-> now]}]
    /\ typePhotos = [t \in Types |-> None]

Pic(row) == row # None /\ row.pic
\* "fetched_at > cutoff", of a cutoff taken at a time.
RecentAt(row, at) == row # None /\ row.at > at - Ttl
Recent(row) == RecentAt(row, now)

-----------------------------------------------------------------------------
(* The chain of sources *)

Outcomes == [1..Sources -> {"hit", "miss", "error"}]

\* _fetch_photo_with_status: the first hit ends it.
Status(o) ==
    IF \E i \in DOMAIN o : o[i] = "hit" THEN "hit"
    ELSE IF \E i \in DOMAIN o : o[i] = "error" THEN "error" ELSE "miss"

-----------------------------------------------------------------------------
(* Locks of the types *)

Holds(j) == job[j] # None /\ job[j].lock # None /\ job[j].at \in {"look", "probe", "wiki"}
Locked(id) == \E j \in Web : Holds(j) /\ job[j].lock = id
Waiting(id) == {j \in Web : job[j] # None /\ job[j].at = "wait" /\ job[j].lock = id}

Unused == CHOOSE id \in LockIds :
    /\ \A i \in DOMAIN typeLocks : typeLocks[i].id # id
    /\ \A j \in Jobs : job[j] # None => job[j].lock # id

\* Mutant: the oldest lock goes, held or not.
CappedBlindly(d) == IF Len(d) <= LocksMax THEN d ELSE Tail(d)

\* One lock too many: those that are held rotate to the end, and the first that
\* is not goes, the new one if it comes to that.
Capped(d) ==
    LET free == CHOOSE i \in DOMAIN d : ~Locked(d[i].id) /\ \A k \in 1..(i - 1) : Locked(d[k].id)
    IN  IF Len(d) <= LocksMax THEN d ELSE SubSeq(d, free + 1, Len(d)) \o SubSeq(d, 1, free - 1)

\* _type_lock: the lock, moved to the end or new, and the dictionary after it.
TypeLock(t) ==
    IF \E i \in DOMAIN typeLocks : typeLocks[i].type = t
    THEN LET i == CHOOSE i \in DOMAIN typeLocks : typeLocks[i].type = t
         IN  [lock |-> typeLocks[i], after |-> Append(RemoveAt(typeLocks, i), typeLocks[i])]
    ELSE LET lock == [type |-> t, id |-> Unused]
         IN  [lock |-> lock, after |-> Capped(Append(typeLocks, lock))]

\* What this evicts of the locks that are free but spoken for.
Evicted(got) == {e \in ToSet(typeLocks) \cup {got.lock} :
    e \notin ToSet(got.after) /\ ~Locked(e.id) /\ (e = got.lock \/ Waiting(e.id) # {})}

-----------------------------------------------------------------------------
(* The look-ups *)

Idle(j) == job[j] = None
At(j, step) == job[j] # None /\ job[j].at = step
Goes(j, step) == job' = [job EXCEPT ![j].at = step] /\ shown' = None
Shows(j, t, pic) == job' = [job EXCEPT ![j] = None] /\ shown' = [type |-> t, pic |-> pic]

\* The type photo of a request, on the event loop: the row, or the lock and then
\* a worker, or the lock's queue. r is the job as it is so far.
TypePhoto(w, r) ==
    IF Recent(typePhotos[r.type])
    THEN Shows(w, r.type, Pic(typePhotos[r.type])) /\ UNCHANGED <<typeLocks, lost>>
    ELSE LET got == TypeLock(r.type)
             taken == Locked(got.lock.id) \/ Waiting(got.lock.id) # {}
         IN  /\ typeLocks' = got.after /\ lost' = lost \cup {e.type : e \in Evicted(got)} /\ shown' = None
             /\ job' = [job EXCEPT ![w] = [r EXCEPT !.hex = None, !.since = now, !.raised = FALSE, !.lock = got.lock.id,
                            !.at = IF taken THEN "wait" ELSE "look"]]

NewJob(h, t) == [at |-> "look", hex |-> h, type |-> t, since |-> 0, errored |-> FALSE, raised |-> FALSE, lock |-> None]

Ask(w) == \E a \in Asks :
    /\ Idle(w) /\ asks < MaxAsks /\ asks' = asks + 1
    /\ LET row == photos[a[1]]  r == NewJob(a[1], a[2])
       IN  IF ~Recent(row) THEN job' = [job EXCEPT ![w] = [r EXCEPT !.at = "fetch"]] /\ shown' = None /\ UNCHANGED <<typeLocks, lost>>
           ELSE IF row.pic THEN Shows(w, a[2], TRUE) /\ UNCHANGED <<typeLocks, lost>>
           ELSE TypePhoto(w, r)
    /\ UNCHANGED <<now, pictures>>

\* Mutant: a miss is written whatever the row holds.
MissedAnyway(row) == [pic |-> FALSE, at |-> now]

\* A miss keeps a picture that is not long past its time.
Missed(row) == IF Pic(row) /\ row.at > now - Ttl - Grace THEN row ELSE [pic |-> FALSE, at |-> now]

\* _resolve_and_cache_photo_miss.
Fetched(w) == \E o \in Outcomes :
    LET h == job[w].hex
    IN  /\ At(w, "fetch")
        /\ photos' = CASE Status(o) = "hit" -> [photos EXCEPT ![h] = [pic |-> TRUE, at |-> now]]
                       [] Status(o) = "miss" -> [photos EXCEPT ![h] = Missed(photos[h])]
                       [] OTHER -> photos
        /\ IF Status(o) = "hit" \/ (Status(o) = "error" /\ Pic(photos[h]))
           THEN Shows(w, job[w].type, TRUE)
           ELSE /\ job' = [job EXCEPT ![w].at = "types", ![w].hex = None, ![w].raised = (Status(o) = "error")]
                /\ shown' = None
        /\ UNCHANGED <<asks, now, typePhotos, typeLocks, lost>>

TypeAsked(w) == At(w, "types") /\ TypePhoto(w, job[w]) /\ UNCHANGED <<asks, now, pictures>>

\* A waiter gets the lock: the second look, with the cutoff of the first.
Granted(w) ==
    /\ At(w, "wait") /\ ~Locked(job[w].lock)
    /\ LET row == typePhotos[job[w].type]
       IN  IF RecentAt(row, job[w].since) THEN Shows(w, job[w].type, row.pic) ELSE Goes(w, "look")
    /\ UNCHANGED <<asks, now, pictures, typeLocks, lost>>

-----------------------------------------------------------------------------
(* resolve_photo: of a type for a request, of an airframe for a notifier *)

\* A notifier's look-up counts for two in the bound.
Notify(b) == \E a \in Asks :
    /\ Idle(b) /\ asks + 2 <= MaxAsks /\ asks' = asks + 2
    /\ job' = [job EXCEPT ![b] = NewJob(a[1], a[2])] /\ shown' = None
    /\ UNCHANGED <<now, pictures, typeLocks, lost>>

\* A picture of any airframe of the type.
Sibling(t) == \E h \in Hexes : TypeOf[h] = t /\ Pic(photos[h])

\* Mutant: a remembered miss of the airframe is the answer.
ClosedByMiss(j) == j \in Bots /\ Recent(photos[job[j].hex])

\* Steps 1: what closes the look-up at the row of the airframe.
Closed(j) == j \in Bots /\ Recent(photos[job[j].hex]) /\ Pic(photos[job[j].hex])

\* Steps 1 to 3, without a call.
Look(j) ==
    LET t == job[j].type  h == job[j].hex
    IN  /\ At(j, "look")
        /\ IF Closed(j) THEN Shows(j, t, Pic(photos[h])) /\ UNCHANGED typePhotos
           ELSE IF Recent(typePhotos[t]) THEN Shows(j, t, Pic(typePhotos[t])) /\ UNCHANGED typePhotos
           ELSE IF Sibling(t)
           THEN Shows(j, t, TRUE) /\ typePhotos' = [typePhotos EXCEPT ![t] = [pic |-> TRUE, at |-> now]]
           ELSE /\ job' = [job EXCEPT ![j].since = now,
                             ![j].at = IF j \in Bots /\ ~Recent(photos[h]) THEN "specific" ELSE "probe"]
                /\ shown' = None /\ UNCHANGED typePhotos
        /\ UNCHANGED <<asks, now, photos, typeLocks, lost>>

\* Mutant: a chain that failed counts as a miss.
FailedNever(j, s) == FALSE

\* chain_errored.
Failed(j, s) == job[j].errored \/ s = "error"

\* Mutant: no answer is a miss.
AnsweredNever(row, s, at) == [pic |-> s = "hit", at |-> at]

\* What the chain's answer makes of a row: a miss is written over whatever it holds by
\* now, an error over nothing.
Answered(row, s, at) == IF s = "error" THEN row ELSE [pic |-> s = "hit", at |-> at]

\* Step 4.
Specific(b) == \E o \in Outcomes :
    LET h == job[b].hex  r == job[b]
    IN  /\ At(b, "specific")
        /\ photos' = [photos EXCEPT ![h] = Answered(@, Status(o), r.since)]
        /\ IF Status(o) = "hit" \/ (Status(o) = "error" /\ Pic(photos[h])) THEN Shows(b, r.type, TRUE)
           ELSE /\ job' = [job EXCEPT ![b].at = "probe", ![b].errored = Failed(b, Status(o)), ![b].raised = (Status(o) = "error")]
                /\ shown' = None
        /\ UNCHANGED <<asks, now, typePhotos, typeLocks, lost>>

\* Step 5: an airframe of the type, if aircraft_db has one.
Probe(j) ==
    LET t == job[j].type
        found == [pic |-> TRUE, at |-> job[j].since]
    IN  /\ At(j, "probe")
        /\ IF ~\E h \in Hexes : TypeOf[h] = t THEN Goes(j, "wiki") /\ UNCHANGED pictures
           ELSE \E h \in {g \in Hexes : TypeOf[g] = t}, o \in Outcomes :
             IF Status(o) = "hit"
             THEN /\ Shows(j, t, TRUE)
                  /\ photos' = [photos EXCEPT ![h] = found] /\ typePhotos' = [typePhotos EXCEPT ![t] = found]
             ELSE /\ job' = [job EXCEPT ![j].at = "wiki", ![j].errored = Failed(j, Status(o)),
                                    ![j].raised = (@ \/ Status(o) = "error")]
                  /\ shown' = None /\ UNCHANGED pictures
        /\ UNCHANGED <<asks, now, typeLocks, lost>>

\* Step 6: Wikipedia. An exception of it is swallowed: it is a miss, not a failure of
\* the chain. When it has nothing either, the old picture serves after a failure of the
\* chain, else the miss is written over it, after Wikipedia's own failure too.
Wiki(j) ==
    LET t == job[j].type
    IN  /\ At(j, "wiki")
        /\ \/ /\ \E h \in Hexes : TypeOf[h] = t
              /\ Shows(j, t, TRUE) /\ typePhotos' = [typePhotos EXCEPT ![t] = [pic |-> TRUE, at |-> job[j].since]]
           \/ IF job[j].errored THEN Shows(j, t, Pic(typePhotos[t])) /\ UNCHANGED typePhotos
              ELSE /\ Shows(j, t, FALSE)
                   /\ typePhotos' = [typePhotos EXCEPT ![t] = [pic |-> FALSE, at |-> job[j].since]]
        /\ UNCHANGED <<asks, now, photos, typeLocks, lost>>

PhotoClock ==
    /\ now < MaxNow /\ now' = now + 1 /\ shown' = None
    /\ UNCHANGED <<asks, pictures, typeLocks, job, lost>>

PhotosNext ==
    \/ \E w \in Web : Ask(w) \/ Fetched(w) \/ TypeAsked(w) \/ Granted(w)
    \/ \E b \in Bots : Notify(b) \/ Specific(b)
    \/ \E j \in Jobs : Look(j) \/ Probe(j) \/ Wiki(j)
    \/ PhotoClock

PhotosSpec == PhotosInit /\ [][PhotosNext]_pictureVars

-----------------------------------------------------------------------------
(* Properties *)

\* A "Per-type asyncio.Lock serialises concurrent gallery requests": no two
\* requests ask the sources for the same type, also when locks have come and
\* gone at the cap, unless a lock was evicted that was free but spoken for.
TypeSingleFlight ==
    \A v, w \in Web : v # w /\ Holds(v) /\ Holds(w) => job[v].type # job[w].type \/ job[v].type \in lost

\* An aircraft is shown without a picture only when its type has none that is
\* fresh: a remembered miss of the airframe never hides the type's.
NoBlank ==
    shown # None /\ ~shown.pic => ~(Recent(typePhotos[shown.type]) /\ Pic(typePhotos[shown.type]))

\* One request at a time asks the sources for a type, and no remembered miss of an
\* airframe hides the picture of its type.
PicturesShared == PhotosTypeOK /\ TypeSingleFlight /\ NoBlank

\* An outage of the sources of the chain takes no picture away: a row loses its picture
\* only in a look-up whose call of the chain brought no failure, an airframe's right after
\* the answer, a type's at the end of the ladder; and a request takes an airframe's only
\* past its time and the grace. Wikipedia, which is not of the chain, is no part of this.
OutageKeepsPhotos == [][
    /\ \A h \in Hexes, j \in Jobs : Pic(photos[h]) /\ ~Pic(photos'[h]) /\ job'[j] # job[j] =>
         /\ job'[j] # None /\ ~job'[j].raised
         /\ j \in Web => photos[h].at <= now - Ttl - Grace
    /\ \A t \in Types, j \in Jobs :
         Pic(typePhotos[t]) /\ ~Pic(typePhotos'[t]) /\ job'[j] # job[j] => ~job[j].raised]_pictureVars

\* "don't overwrite a previously-resolved positive row": a picture that is fresh
\* is not replaced by a miss.
FreshPhotoKept == [][
    /\ \A h \in Hexes : Pic(photos[h]) /\ Recent(photos[h]) => Pic(photos'[h])
    /\ \A t \in Types : Pic(typePhotos[t]) /\ Recent(typePhotos[t]) => Pic(typePhotos'[t])]_pictureVars
=============================================================================
