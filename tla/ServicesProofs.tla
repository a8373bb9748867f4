--------------------------- MODULE ServicesProofs ---------------------------
(***************************************************************************)
(* For every value of the constants, of what runs beside collector and web  *)
(* views. The start: no run of the collector writes to a file that was      *)
(* damaged in one of its runs, and no start, rebuild or cut loses a row or  *)
(* scales one twice. The daily summary goes out once. The watchlist: what a *)
(* caller deletes is what it found, and commands are begun once. The        *)
(* photos: look-ups of a type take turns, and an outage takes none away.    *)
(* The metrics: an outage is reported, and report and samples recover. The  *)
(* tracks: scripts delete a lone ghost and are through after one run, and   *)
(* a chart keeps what a track shows.                                        *)
(***************************************************************************)
EXTENDS Startup, DailySummary, Watchlist, Photos, Metrics, Tracks, SequenceTheorems, FiniteSetTheorems, WellFoundedInduction, TLAPS

-----------------------------------------------------------------------------
(* The start *)

\* The format of the rows is the one the columns and the version say.
Faithful(t) ==
    /\ t.rows = "raw" => t.layout = "v5"
    /\ t.rows = "scaled" => t.layout = "v6"
    /\ t.version = 6 => t.layout = "v6"

Database ==
    [layout: {"v5", "v6", "none"}, rows: {"raw", "scaled", "none"}, spare: BOOLEAN, version: {0, 5, 6}]
Steps == Down \cup Rebuild \cup {"check", "ddl", "inspect", "stamp", "up", "end"}

\* What the rebuild relies on: one transaction, over a legacy table with its
\* copy beside it, and nobody stamps a layout that is not there.
Layouts ==
    /\ writer \in Procs \cup {None}
    /\ Faithful(tables) /\ Faithful(durable) /\ Faithful(backup)
    /\ backup.rows # "none" => tables.rows # "none" /\ durable.rows # "none"
    /\ \A p \in Procs : pc[p] = "stamp" => tables.layout = "v6"

\* What the sentinel remembers.
Gate ==
    /\ Running("collector") => sentinel
    /\ damage = "collector" => sentinel
    /\ worker = "ok" => damage # "collector"
    /\ DamageIsChecked

SInv == TypeOK /\ Layouts

LEMMA InitS == ASSUME Init PROVE SInv /\ Gate
<1> USE DEF Init, Procs, Services
<1>1. {Legacy, Slim, Fresh} \subseteq Database /\ \A t \in {Legacy, Slim, Fresh} : Faithful(t)
  BY DEF Legacy, Slim, Fresh, Database, Faithful
<1>2. TypeOK
  <2>1. pc \in [Procs -> Down \cup Rebuild \cup {"check", "ddl", "inspect", "stamp", "up", "end"}]
    BY DEF Down
  <2>2. {tables, durable, backup} \subseteq Database
    BY <1>1
  <2>3. \A p \in Procs : (pc[p] = "replace") <=> (writer = p)
    BY StartupAssumption
  <2> QED BY <2>1, <2>2, <2>3 DEF TypeOK, Database
<1>3. Layouts
  BY <1>1 DEF Layouts
<1>4. Gate
  BY StartupAssumption DEF Gate, Running, Writing, DamageIsChecked, Down
<1> QED BY <1>2, <1>3, <1>4 DEF SInv

LEMMA StepS == ASSUME SInv, NEW p \in Procs, Step(p) \/ Abandon(p) PROVE SInv'
<1> USE StartupAssumption DEF SInv, TypeOK, Layouts, Faithful, Procs, Services, Down, Rebuild, system, Go, Fail, Free
<1>1. CASE Ddl(p)
  <2>1. tables' \in Database /\ Faithful(tables)' /\ (tables.rows # "none" => tables'.rows # "none")
    BY <1>1 DEF Ddl, Database
  <2>2. /\ durable' = durable /\ backup' = backup /\ writer' = writer /\ writer' = None
        /\ \E s \in {"off", "failed", "inspect", "create", "copy"} : pc' = [pc EXCEPT ![p] = s]
    BY <1>1 DEF Ddl
  <2>3. TypeOK'
    BY <1>1, <2>1, <2>2 DEF Ddl, Database
  <2> QED BY <1>1, <2>1, <2>2, <2>3 DEF Ddl
<1>2. CASE Inspect(p) BY <1>2 DEF Inspect
<1>3. CASE DropSpare(p)
  <2>1. tables' \in Database /\ Faithful(tables)' /\ (tables.rows # "none" => tables'.rows # "none")
    BY <1>3 DEF DropSpare, Database
  <2>2. /\ durable' = durable /\ backup' = backup /\ writer' = writer /\ writer' = None
        /\ \E s \in {"off", "failed", "inspect", "create", "copy"} : pc' = [pc EXCEPT ![p] = s]
    BY <1>3 DEF DropSpare
  <2>3. TypeOK'
    BY <1>3, <2>1, <2>2 DEF DropSpare, Database
  <2> QED BY <1>3, <2>1, <2>2, <2>3 DEF DropSpare
<1>4. CASE CreateSpare(p)
  <2>1. tables' \in Database /\ Faithful(tables)' /\ (tables.rows # "none" => tables'.rows # "none")
    BY <1>4 DEF CreateSpare, Database
  <2>2. /\ durable' = durable /\ backup' = backup /\ writer' = writer /\ writer' = None
        /\ \E s \in {"off", "failed", "inspect", "create", "copy"} : pc' = [pc EXCEPT ![p] = s]
    BY <1>4 DEF CreateSpare
  <2>3. TypeOK'
    BY <1>4, <2>1, <2>2 DEF CreateSpare, Database
  <2> QED BY <1>4, <2>1, <2>2, <2>3 DEF CreateSpare
<1>5. CASE Copy(p) BY <1>5 DEF Copy
<1>6. CASE Replace(p) BY <1>6 DEF Replace
<1>7. CASE Stamp(p) BY <1>7 DEF Stamp
<1>8. CASE Abandon(p) BY <1>8 DEF Abandon
<1> QED BY <1>1, <1>2, <1>3, <1>4, <1>5, <1>6, <1>7, <1>8 DEF Step

LEMMA BootS == ASSUME SInv, NEW p \in Procs, Start(p) \/ Kill(p) \/ (p \in Services /\ Restart(p)) PROVE SInv'
<1> USE StartupAssumption DEF SInv, TypeOK, Layouts, Faithful, Procs, Services, Down, Rebuild, Go, Fail, Boot, CollectorBegin, Running
<1>1. CASE Start(p)
  <2>1. /\ sentinel' \in BOOLEAN /\ stopping' \in BOOLEAN
        /\ worker' \in {"none", "idle", "running", "ok", "issues", "raised"}
    BY <1>1 DEF Start
  <2>2. /\ \E s \in {"check", "ddl", "inspect"} : pc' = [pc EXCEPT ![p] = s]
        /\ pc[p] \in Down /\ UNCHANGED <<damage, tables, durable, backup, big, writer>>
    BY <1>1 DEF Start
  <2> QED BY <2>1, <2>2
<1>2. CASE Restart(p)
  <2>1. /\ sentinel' \in BOOLEAN /\ stopping' \in BOOLEAN
        /\ worker' \in {"none", "idle", "running", "ok", "issues", "raised"}
    BY <1>2 DEF Restart
  <2>2. /\ \E s \in {"check", "ddl", "inspect"} : pc' = [pc EXCEPT ![p] = s]
        /\ pc[p] \in Down /\ UNCHANGED <<damage, tables, durable, backup, big, writer>>
    BY <1>2 DEF Restart
  <2> QED BY <2>1, <2>2
<1>3. CASE Kill(p) BY <1>3 DEF Kill
<1> QED BY <1>1, <1>2, <1>3

LEMMA OtherS ==
  ASSUME SInv,
         CollectorStep \/ CheckEnds \/ CheckBreaks \/ Sigterm \/ Poll
                          \/ StopWeb \/ Checkpoint \/ PowerCut \/ Recover \/ UNCHANGED vars
                PROVE SInv'
<1> USE StartupAssumption DEF SInv, TypeOK, Layouts, Faithful, Procs, Services, Down, Rebuild, system, Go, Free
<1>1. CASE Judge BY <1>1 DEF Judge
<1>2. CASE SkipCheck BY <1>2 DEF SkipCheck
<1>3. CASE CheckBegins \/ Interrupt \/ CheckEnds BY <1>3 DEF CheckBegins, Interrupt, CheckEnds, CheckStep
<1>4. CASE CheckBreaks BY <1>4 DEF CheckBreaks
<1>5. CASE Finalise BY <1>5 DEF Finalise
<1>6. CASE Unlink
  <2>1. sentinel' \in BOOLEAN BY <1>6 DEF Unlink
  <2>2. /\ pc' = [pc EXCEPT !["collector"] = "off"] /\ pc["collector"] = "end"
        /\ UNCHANGED <<damage, tables, durable, backup, big, writer, worker, stopping, faults, starts>>
    BY <1>6 DEF Unlink
  <2> QED BY <2>1, <2>2
<1>7. CASE Sigterm BY <1>7 DEF Sigterm
<1>8. CASE Poll BY <1>8 DEF Poll
<1>9. CASE StopWeb BY <1>9 DEF StopWeb
<1>10. CASE Checkpoint BY <1>10 DEF Checkpoint
<1>11. CASE PowerCut BY <1>11 DEF PowerCut
<1>12. CASE Recover
  <2>1. sentinel' \in BOOLEAN /\ damage' \in {None, "collector", "others"} BY <1>12 DEF Recover
  <2>2. writer = None BY <1>12 DEF Recover, Running
  <2>3. /\ tables' \in {tables, backup} /\ durable' = tables'
        /\ UNCHANGED <<backup, big, writer, pc, worker, stopping>> /\ \A p \in Procs : pc[p] \in Down
    BY <1>12 DEF Recover, Running
  <2> QED BY <2>1, <2>2, <2>3
<1>13. CASE UNCHANGED vars BY <1>13 DEF vars
<1> QED BY <1>1, <1>2, <1>3, <1>4, <1>5, <1>6, <1>7, <1>8, <1>9, <1>10, <1>11, <1>12, <1>13 DEF CollectorStep

LEMMA GateKept == ASSUME SInv, Gate, [Next]_vars PROVE Gate'
<1> USE StartupAssumption DEF Gate, DamageIsChecked, Writing, Running, Procs, Services, Down, SInv, TypeOK, system, Go, Fail
<1>1. ASSUME NEW p \in Procs, Step(p) \/ Abandon(p) PROVE Gate'
  BY <1>1 DEF Step, Ddl, Inspect, DropSpare, CreateSpare, Copy, Replace, Stamp, Abandon, Rebuild
<1>2. ASSUME NEW p \in Procs, Start(p) \/ (p \in Services /\ Restart(p)) PROVE Gate'
  BY <1>2 DEF Start, Restart, Boot, CollectorBegin
<1>3. ASSUME NEW p \in Procs, Kill(p) PROVE Gate'
  BY <1>3 DEF Kill
<1>4. CASE Judge \/ SkipCheck BY <1>4 DEF Judge, SkipCheck
<1>5. CASE CheckBegins \/ Interrupt \/ CheckEnds BY <1>5 DEF CheckBegins, Interrupt, CheckEnds, CheckStep
<1>6. CASE CheckBreaks BY <1>6 DEF CheckBreaks
<1>7. CASE Finalise BY <1>7 DEF Finalise
<1>8. CASE Unlink BY <1>8 DEF Unlink
<1>9. CASE Sigterm \/ Poll \/ StopWeb \/ Checkpoint BY <1>9 DEF Sigterm, Poll, StopWeb, Checkpoint
<1>10. CASE PowerCut BY <1>10 DEF PowerCut
<1>11. CASE Recover BY <1>11 DEF Recover
<1>12. CASE UNCHANGED vars BY <1>12 DEF vars
<1> QED
  BY <1>1, <1>2, <1>3, <1>4, <1>5, <1>6, <1>7, <1>8, <1>9, <1>10, <1>11, <1>12 DEF Next, CollectorStep

LEMMA SNext == ASSUME SInv, [Next]_vars PROVE SInv'
  BY StepS, BootS, OtherS DEF Next, Procs

-----------------------------------------------------------------------------
\* Rows survive every start, rebuild, kill and power cut, in the format the
\* columns and the version say (rebuild_positions_v6, _migrate, migrate_v6.py).
THEOREM HistoryKeptAlways == Spec => []HistoryKept
<1>1. SInv => HistoryKept
  BY DEF SInv, Layouts, HistoryKept, Faithful
<1> QED BY InitS, SNext, <1>1, PTL DEF Spec

\* A file damaged in a run of the collector is not written to by it before
\* an operator recovered it (main, _startup_integrity_check).
THEOREM DamageIsCheckedAlways == Spec => []DamageIsChecked
<1>1. Gate => DamageIsChecked
  BY DEF Gate
<1> QED BY InitS, SNext, GateKept, <1>1, PTL DEF Spec

-----------------------------------------------------------------------------
(* The daily summary *)

\* What gate and row remember is no later than today, and today's only once the
\* summary is due; a collector that could send a second one could not read the row.
NothingAhead ==
    /\ \A d \in Days : d > day => gate # d /\ meta # d /\ sent[d] = 0
    /\ ~due => gate # day /\ meta # day /\ sent[day] = 0
    /\ ~running => gate = None /\ through = None
    /\ running /\ gate # day /\ sent[day] > 0 => day \in unread
DailyInv == SummaryOnTime /\ NothingAhead

LEMMA DailyInitOK == DailyInit => DailyInv
<1> SUFFICES ASSUME DailyInit PROVE DailyInv
  OBVIOUS
<1>1. sent \in [Days -> Nat] /\ \A d \in Days : sent[d] = 0
  BY DEF DailyInit
<1>2. 1 \in Days /\ None \notin Days
  BY DailyAssumption DEF Days
<1>3. DailyTypeOK
  <2>1. lives \in 0..MaxLives
    BY DailyAssumption DEF DailyInit
  <2> QED BY <1>1, <1>2, <2>1 DEF DailyInit, DailyTypeOK
<1>4. SummaryOncePerDay /\ SummaryFires
  BY <1>1 DEF DailyInit, SummaryOncePerDay, SummaryFires
<1>5. NothingAhead
  BY <1>1, <1>2 DEF DailyInit, NothingAhead
<1> QED BY <1>3, <1>4, <1>5 DEF DailyInv, SummaryOnTime

LEMMA DailyStepOK == DailyInv /\ [DailyNext]_daily => DailyInv'
<1> SUFFICES ASSUME DailyInv, [DailyNext]_daily PROVE DailyInv'
  OBVIOUS
<1> USE DailyAssumption DEF DailyInv, NothingAhead, SummaryOnTime, DailyTypeOK, SummaryOncePerDay, SummaryFires, Days
<1>1. CASE LoadGate
  <2>1. CASE gate' = Seeded(meta) /\ UNCHANGED unread
    BY <1>1, <2>1 DEF LoadGate, Seeded
  <2>2. CASE gate' = None /\ unread' = unread \cup {day}
    BY <1>1, <2>2 DEF LoadGate
  <2> QED BY <1>1, <2>1, <2>2 DEF LoadGate
<1>2. CASE NotDue
  BY <1>2 DEF NotDue
<1>3. CASE SendSummary
  <2>1. PICK saved, out, dies \in BOOLEAN :
          /\ meta' = IF saved THEN day ELSE meta
          /\ out => ~dies
          /\ sent' = IF out THEN [sent EXCEPT ![day] = @ + 1] ELSE sent
          /\ running' = ~dies /\ gate' = (IF dies THEN None ELSE day)
    BY <1>3 DEF SendSummary
  <2>2. sent[day] > 0 => day \in unread
    BY <1>3 DEF SendSummary
  <2>3. sent' \in [1..LastDay -> Nat] /\ \A d \in 1..LastDay : d # day => sent'[d] = sent[d]
    BY <2>1
  <2>4. sent'[day] <= 1 \/ day \in unread
    BY <2>1, <2>2
  <2>5. UNCHANGED <<day, due, lives, unread>> /\ through' = None /\ due
    BY <1>3 DEF SendSummary
  <2>6. DailyTypeOK'
    BY <2>1, <2>3, <2>5
  <2>7. SummaryOncePerDay' /\ SummaryFires'
    BY <2>3, <2>4, <2>5
  <2>8. NothingAhead'
    <3>1. \A d \in Days : d > day => gate' # d /\ meta' # d /\ sent'[d] = 0
      BY <2>1, <2>3
    <3>2. running' => gate' = day
      BY <2>1
    <3>3. ~running' => gate' = None
      BY <2>1
    <3> QED BY <2>5, <3>1, <3>2, <3>3
  <2> QED BY <2>6, <2>7, <2>8
<1>4. CASE StopPolls
  BY <1>4 DEF StopPolls
<1>5. CASE TimePasses
  BY <1>5 DEF TimePasses
<1>6. CASE UNCHANGED daily
  BY <1>6 DEF daily
<1> QED BY <1>1, <1>2, <1>3, <1>4, <1>5, <1>6 DEF DailyNext

\* No day has two summaries, over crashes, failed writes and restarts, but for days with a start
\* that could not read the row; and whoever polled before the time of a day is not kept from its
\* summary by the gate (_load_last_summary_date, _check_daily_summary in collector.py).
THEOREM SummaryOnTimeAlways == DailySpec => []SummaryOnTime
<1>1. DailyInv => SummaryOnTime
  BY DEF DailyInv
<1> QED BY <1>1, DailyInitOK, DailyStepOK, PTL DEF DailySpec

-----------------------------------------------------------------------------
(* The watchlist *)

LEMMA MaxOfTwo == ASSUME NEW a \in Nat, NEW b \in Nat PROVE Max({a, b}) = IF a >= b THEN a ELSE b
<1>1. \E x \in {a, b} : \A y \in {a, b} : x >= y
  OBVIOUS
<1>2. Max({a, b}) \in {a, b} /\ Max({a, b}) >= a /\ Max({a, b}) >= b
  BY <1>1 DEF Max
<1> QED BY <1>2

LEMMA ThreeTypes == Len(MatchTypes) = 3 /\ Keys = {"icao", "registration", "callsign_prefix"}
<1>1. Len(MatchTypes) = 3 /\ DOMAIN MatchTypes = 1..3
  BY DEF MatchTypes
<1>2. MatchTypes[1] = "icao" /\ MatchTypes[2] = "registration" /\ MatchTypes[3] = "callsign_prefix"
  BY DEF MatchTypes
<1> QED BY <1>1, <1>2 DEF Keys, ToSet

\* Where the listener has got to, in any life.
Reached == IF acked >= offset THEN acked ELSE offset

Tools(calls) == {c \in Calls : calls[c] # None /\ calls[c].tool}

EntriesOK(es, last) ==
    /\ es \subseteq [id : 1..MaxIds, key : Keys] /\ last \in 0..MaxIds
    /\ \A e, f \in es : e.id = f.id \/ e.key = f.key => e = f
    /\ \A e \in es : e.id <= last

\* An id is not given twice, so that a delete by id meets no other entry.
CallsOK(calls, es, last) ==
    /\ calls \in [Calls -> {None} \cup Requests]
    /\ Cardinality(Tools(calls)) <= Concurrency
    /\ \A c \in Calls : calls[c] # None /\ ~calls[c].add /\ calls[c].step \in {"write", "delete"} =>
         /\ calls[c].id <= last
         /\ \A e \in es : e.id = calls[c].id => e.key = calls[c].key
    /\ \A c \in Calls : calls[c] # None /\ calls[c].step = "delete" => ~calls[c].add

GoneOK == gone \in {None} \cup Deletes /\ DeletesWhatWasFound

BotOK == bot \in {None} \cup Commands /\ (bot # None => bot.update \in DOMAIN updates)

\* Updates are begun one after the other; what lies behind the listener was begun.
ListenerOK ==
    /\ updates \in Seq({"watch", "unwatch"}) /\ Len(updates) <= MaxUpdates
    /\ {acked, offset} \subseteq 0..Len(updates) /\ batch \in Seq(DOMAIN updates)
    /\ handled \in Seq(Nat) /\ Len(handled) = Len(updates)
    /\ \A i \in DOMAIN batch : batch[i] = Reached + i
    /\ 1..Reached \subseteq begun
    /\ \A u \in DOMAIN updates : handled[u] <= 1 /\ (u > offset => handled[u] = 0)

WatchInv ==
    /\ EntriesOK(entries, lastId) /\ CallsOK(call, entries, lastId) /\ GoneOK
    /\ ListenerOK /\ BotOK /\ slips \in 0..MaxSlips

LEMMA WatchInvIs == WatchInv => CallersHeeded
<1> SUFFICES ASSUME WatchInv PROVE CallersHeeded
  OBVIOUS
<1>1. WatchTypeOK
  BY DEF WatchInv, WatchTypeOK, EntriesOK, CallsOK, GoneOK, ListenerOK, BotOK, Tools
<1>2. DeletesWhatWasFound
  BY DEF WatchInv, GoneOK
<1>3. CommandsOnce
  <2>1. acked \in Nat /\ offset \in Nat /\ 1..acked \subseteq 1..Reached
    BY DEF WatchInv, ListenerOK, Reached
  <2> QED BY <2>1 DEF WatchInv, ListenerOK, CommandsOnce
<1> QED BY <1>1, <1>2, <1>3 DEF CallersHeeded

LEMMA WatchInitOK == WatchInit => WatchInv
<1> SUFFICES ASSUME WatchInit PROVE WatchInv
  OBVIOUS
<1>1. EntriesOK(entries, lastId) /\ GoneOK /\ BotOK /\ slips \in 0..MaxSlips
  BY WatchAssumption DEF WatchInit, EntriesOK, GoneOK, BotOK, DeletesWhatWasFound
<1>2. CallsOK(call, entries, lastId)
  <2>1. Tools(call) = {} /\ Cardinality(Tools(call)) = 0
    BY FS_EmptySet DEF Tools, WatchInit
  <2> QED BY <2>1, WatchAssumption DEF WatchInit, CallsOK
<1>3. ListenerOK
  BY WatchAssumption DEF WatchInit, ListenerOK, Reached
<1> QED BY <1>1, <1>2, <1>3 DEF WatchInv

-----------------------------------------------------------------------------
(* The table and its callers *)

LEMMA FoundIs ==
  ASSUME EntriesOK(entries, lastId), NEW k \in Keys
  PROVE  /\ IdOf(k) \in 0..MaxIds /\ IdOf(k) <= lastId
         /\ Has(k) => \A e \in entries : e.id = IdOf(k) => e.key = k
<1>1. CASE Has(k)
  <2>1. (CHOOSE e \in entries : e.key = k) \in entries /\ (CHOOSE e \in entries : e.key = k).key = k
    BY <1>1 DEF Has
  <2>2. IdOf(k) = (CHOOSE e \in entries : e.key = k).id
    BY <1>1 DEF IdOf
  <2> QED BY <2>1, <2>2, WatchAssumption DEF EntriesOK
<1>2. CASE ~Has(k)
  BY <1>2, WatchAssumption DEF IdOf, EntriesOK
<1> QED BY <1>1, <1>2

LEMMA InsertOK ==
  ASSUME EntriesOK(entries, lastId), NEW k \in Keys, Insert(k), lastId < MaxIds
  PROVE  /\ EntriesOK(entries', lastId') /\ lastId' >= lastId
         /\ \A e \in entries' : e \in entries \/ e.id > lastId
<1>1. CASE Has(k)
  BY <1>1, WatchAssumption DEF Insert, table, EntriesOK
<1>2. CASE ~Has(k)
  <2>1. entries' = entries \cup {[id |-> lastId + 1, key |-> k]} /\ lastId' = lastId + 1
    BY <1>2 DEF Insert, NextId
  <2>2. \A e \in entries : e.key # k /\ e.id # lastId + 1 /\ e.id \in Nat
    BY <1>2, WatchAssumption DEF Has, EntriesOK
  <2>3. lastId + 1 \in 1..MaxIds
    BY WatchAssumption DEF EntriesOK
  <2> QED BY <2>1, <2>2, <2>3, WatchAssumption DEF EntriesOK
<1> QED BY <1>1, <1>2

LEMMA FewerOK ==
  ASSUME EntriesOK(entries, lastId), entries' \subseteq entries, lastId' = lastId
  PROVE  EntriesOK(entries', lastId')
BY DEF EntriesOK

LEMMA CallsKept ==
  ASSUME CallsOK(call, entries, lastId), NEW es, NEW last \in Nat, lastId \in Nat, last >= lastId,
         es \subseteq [id : 1..MaxIds, key : Keys], \A e \in es : e \in entries \/ e.id > lastId
  PROVE  CallsOK(call, es, last)
<1>1. \A c \in Calls : call[c] # None => call[c].id \in Nat
  BY WatchAssumption DEF CallsOK, Requests
<1>2. \A e \in es : e.id \in Nat
  BY WatchAssumption
<1> QED BY <1>1, <1>2 DEF CallsOK

\* A request takes a step, or comes with a slot, or goes.
LEMMA CallChanged ==
  ASSUME CallsOK(call, entries, lastId), NEW c \in Calls, NEW r \in {None} \cup Requests,
         r # None /\ r.tool => SlotFree \/ (call[c] # None /\ call[c].tool),
         r # None /\ ~r.add /\ r.step \in {"write", "delete"} =>
           r.id <= lastId /\ \A e \in entries : e.id = r.id => e.key = r.key,
         r # None /\ r.step = "delete" => ~r.add
  PROVE  CallsOK([call EXCEPT ![c] = r], entries, lastId)
<1> DEFINE new == [call EXCEPT ![c] = r]
<1>1. new \in [Calls -> {None} \cup Requests] /\ new[c] = r /\ \A d \in Calls \ {c} : new[d] = call[d]
  BY DEF CallsOK
<1>2. IsFiniteSet(Tools(call)) /\ Cardinality(Tools(call)) \in Nat
  BY FS_Subset, FS_CardinalityType, WatchAssumption DEF Tools
<1>3. Cardinality(Tools(new)) <= Concurrency
  <2>1. CASE Tools(new) \subseteq Tools(call)
    <3> HIDE DEF new
    <3>1. Cardinality(Tools(new)) <= Cardinality(Tools(call))
      BY <1>2, <2>1, FS_Subset
    <3>2. Cardinality(Tools(new)) \in Nat /\ Cardinality(Tools(call)) <= Concurrency
      BY <1>2, <2>1, FS_Subset, FS_CardinalityType DEF CallsOK
    <3> QED BY <1>2, <3>1, <3>2, WatchAssumption
  <2>2. CASE ~(Tools(new) \subseteq Tools(call))
    <3>1. c \notin Tools(call) /\ r # None /\ r.tool
      BY <1>1, <2>2 DEF Tools
    <3>2. Tools(new) = Tools(call) \cup {c}
      BY <1>1, <3>1 DEF Tools
    <3>3. Cardinality(Tools(call)) < Concurrency
      BY <3>1 DEF SlotFree, Tools
    <3>4. Cardinality(Tools(new)) = Cardinality(Tools(call)) + 1
      BY <1>2, <3>1, <3>2, FS_AddElement
    <3> QED BY <1>2, <3>3, <3>4, WatchAssumption
  <2> QED BY <2>1, <2>2
<1> QED BY <1>1, <1>3 DEF CallsOK

-----------------------------------------------------------------------------
(* The steps *)

LEMMA ListenerKept == ListenerOK /\ BotOK /\ UNCHANGED listener => ListenerOK' /\ BotOK'
BY DEF ListenerOK, BotOK, Reached, listener

LEMMA RequestOK == ASSUME WatchInv, NEW c \in Calls, Request(c) PROVE WatchInv'
<1>1. PICK k \in Keys, tool \in BOOLEAN, add \in BOOLEAN :
        /\ tool => SlotFree
        /\ call' = [call EXCEPT ![c] = [tool |-> tool, add |-> add, key |-> k,
                      step |-> IF tool THEN "list" ELSE "write", id |-> IF tool THEN 0 ELSE IdOf(k)]]
        /\ call[c] = None
  BY DEF Request
<1> DEFINE r == [tool |-> tool, add |-> add, key |-> k,
                 step |-> IF tool THEN "list" ELSE "write", id |-> IF tool THEN 0 ELSE IdOf(k)]
<1>2. /\ IdOf(k) \in 0..MaxIds /\ IdOf(k) <= lastId
      /\ ~tool => \A e \in entries : e.id = IdOf(k) => e.key = k
  <2>1. Has(k) \/ IdOf(k) = 0
    BY DEF IdOf
  <2>2. \A e \in entries : e.id # 0
    BY DEF WatchInv, EntriesOK
  <2> QED BY <2>1, <2>2, FoundIs DEF WatchInv
<1>3. r \in Requests
  BY <1>2, WatchAssumption DEF Requests
<1>4. CallsOK(call', entries, lastId)
  BY <1>1, <1>2, <1>3, CallChanged DEF WatchInv
<1>5. UNCHANGED <<table, listener, slips>> /\ gone' = None
  BY DEF Request
<1> QED BY <1>4, <1>5, ListenerKept DEF WatchInv, GoneOK, DeletesWhatWasFound, table

\* Of a step that leaves the table, and of what such a step leaves.
LEMMA TableRests ==
  ASSUME WatchInv, UNCHANGED <<table, listener, slips>>, gone' = None, CallsOK(call', entries, lastId)
  PROVE  WatchInv'
BY ListenerKept DEF WatchInv, GoneOK, DeletesWhatWasFound, table

LEMMA DoneOK == ASSUME WatchInv, NEW c \in Calls, Done(c) PROVE CallsOK(call', entries, lastId)
BY CallChanged DEF WatchInv, Done

LEMMA ListedOK == ASSUME WatchInv, NEW c \in Calls, Listed(c) PROVE WatchInv'
<1> DEFINE k == call[c].key
           r == [call[c] EXCEPT !.step = "write", !.id = IdOf(k)]
<1>1. call[c] \in Requests /\ call[c] # None /\ k \in Keys
  BY DEF WatchInv, CallsOK, Listed, Requests
<1>2. UNCHANGED <<table, listener, slips>> /\ gone' = None
  BY DEF Listed
<1>3. CASE Done(c)
  BY <1>2, <1>3, DoneOK, TableRests
<1>4. CASE (~call[c].add => Has(k)) /\ call' = [call EXCEPT ![c].step = "write", ![c].id = IdOf(k)]
  <2>1. /\ IdOf(k) \in 0..MaxIds /\ IdOf(k) <= lastId
        /\ Has(k) => \A e \in entries : e.id = IdOf(k) => e.key = k
    BY <1>1, FoundIs DEF WatchInv
  <2>2. call' = [call EXCEPT ![c] = r]
    BY <1>4 DEF WatchInv, CallsOK
  <2>3. /\ r \in Requests /\ r.tool = call[c].tool /\ r.add = call[c].add /\ r.key = k
        /\ r.id = IdOf(k) /\ r.step = "write"
    BY <1>1, <2>1 DEF Requests
  <2> HIDE DEF r
  <2>4. ~r.add => r.id <= lastId /\ \A e \in entries : e.id = r.id => e.key = r.key
    BY <1>4, <2>1, <2>3
  <2>5. CallsOK([call EXCEPT ![c] = r], entries, lastId)
    BY <1>1, <2>3, <2>4, CallChanged DEF WatchInv
  <2> QED BY <1>2, <2>2, <2>5, TableRests
<1> QED BY <1>3, <1>4 DEF Listed

LEMMA PostOK == ASSUME WatchInv, NEW c \in Calls, Post(c) PROVE WatchInv'
<1>1. call[c] \in Requests /\ call[c] # None /\ call[c].add /\ call[c].key \in Keys
  BY DEF WatchInv, CallsOK, Post, Requests
<1>2. /\ EntriesOK(entries', lastId') /\ lastId' >= lastId
      /\ \A e \in entries' : e \in entries \/ e.id > lastId
  BY <1>1, InsertOK DEF Post, WatchInv
<1>3. CallsOK(call', entries, lastId)
  <2>1. CASE Done(c)
    BY <2>1, DoneOK
  <2>2. CASE call' = [call EXCEPT ![c].step = "reread"]
    <3> DEFINE r == [call[c] EXCEPT !.step = "reread"]
    <3>1. call' = [call EXCEPT ![c] = r]
      BY <2>2 DEF WatchInv, CallsOK
    <3>2. r \in Requests /\ r.tool = call[c].tool /\ r.add /\ r.step = "reread"
      BY <1>1 DEF Requests
    <3> HIDE DEF r
    <3> QED BY <1>1, <3>1, <3>2, CallChanged DEF WatchInv
  <2> QED BY <2>1, <2>2 DEF Post
<1>4. CallsOK(call', entries', lastId')
  <2>1. \A c2 \in Calls : call'[c2] # None => call'[c2].id \in Nat
    BY <1>3, WatchAssumption DEF CallsOK, Requests
  <2>2. lastId \in Nat /\ lastId' \in Nat /\ \A e \in entries' : e.id \in Nat
    BY <1>2, WatchAssumption DEF EntriesOK, WatchInv
  <2> QED BY <1>2, <1>3, <2>1, <2>2 DEF CallsOK
<1>5. UNCHANGED <<listener, slips>> /\ gone' = None
  BY DEF Post
<1> QED BY <1>2, <1>4, <1>5, ListenerKept DEF WatchInv, GoneOK, DeletesWhatWasFound

LEMMA RereadOK == ASSUME WatchInv, NEW c \in Calls, Reread(c) PROVE WatchInv'
BY DoneOK, TableRests DEF Reread

LEMMA CheckOK == ASSUME WatchInv, NEW c \in Calls, Check(c) PROVE WatchInv'
<1>1. call[c] \in Requests /\ call[c] # None /\ ~call[c].add /\ call[c].step = "write"
  BY DEF WatchInv, CallsOK, Check
<1>2. UNCHANGED <<table, listener, slips>> /\ gone' = None
  BY DEF Check
<1>3. CASE Done(c)
  BY <1>2, <1>3, DoneOK, TableRests
<1>4. CASE call' = [call EXCEPT ![c].step = "delete"]
  <2> DEFINE r == [call[c] EXCEPT !.step = "delete"]
  <2>1. call' = [call EXCEPT ![c] = r]
    BY <1>4 DEF WatchInv, CallsOK
  <2>2. /\ r \in Requests /\ r.tool = call[c].tool /\ ~r.add /\ r.step = "delete"
        /\ r.id = call[c].id /\ r.key = call[c].key
    BY <1>1 DEF Requests
  <2> HIDE DEF r
  <2>3. r.id <= lastId /\ \A e \in entries : e.id = r.id => e.key = r.key
    BY <1>1, <2>2 DEF WatchInv, CallsOK
  <2>4. r # None
    BY <2>2, WatchAssumption
  <2>5. CallsOK(call, entries, lastId)
    BY DEF WatchInv
  <2>6. CallsOK([call EXCEPT ![c] = r], entries, lastId)
    BY <1>1, <2>2, <2>3, <2>4, <2>5, CallChanged
  <2> QED BY <1>2, <2>1, <2>6, TableRests
<1> QED BY <1>3, <1>4 DEF Check

LEMMA DeleteOK == ASSUME WatchInv, NEW c \in Calls, Delete(c) PROVE WatchInv'
<1>1. /\ call[c] \in Requests /\ call[c] # None /\ ~call[c].add /\ call[c].key \in Keys
      /\ \A e \in entries : e.id = call[c].id => e.key = call[c].key
  BY DEF WatchInv, CallsOK, Delete, Requests
<1>2. entries' = {e \in entries : e.id # call[c].id} /\ lastId' = lastId
  BY DEF Delete
<1>3. EntriesOK(entries', lastId')
  BY <1>2, FewerOK DEF WatchInv
<1>4. CallsOK(call', entries', lastId')
  <2>1. CallsOK(call', entries, lastId)
    BY DoneOK DEF Delete
  <2> QED BY <1>2, <2>1 DEF CallsOK
<1>5. GoneOK'
  <2>1. gone' = [found |-> call[c].key, deleted |-> {e.key : e \in entries \ entries'}]
    BY DEF Delete
  <2>2. {e.key : e \in entries \ entries'} \subseteq {call[c].key}
    BY <1>1, <1>2
  <2> QED BY <1>1, <2>1, <2>2 DEF GoneOK, DeletesWhatWasFound, Deletes
<1> QED BY <1>3, <1>4, <1>5, ListenerKept DEF WatchInv, Delete

-----------------------------------------------------------------------------
(* The listener *)

\* Of a step that leaves table and requests.
LEMMA CallsRest ==
  ASSUME WatchInv, UNCHANGED <<table, call>>, gone' = None, ListenerOK', BotOK', slips' \in 0..MaxSlips
  PROVE  WatchInv'
BY DEF WatchInv, GoneOK, DeletesWhatWasFound, table

LEMMA SendOK == ASSUME WatchInv, NEW op \in {"watch", "unwatch"}, Send(op) PROVE WatchInv'
<1>1. /\ updates' = Append(updates, op) /\ handled' = Append(handled, 0) /\ Len(updates) < MaxUpdates
      /\ UNCHANGED <<table, call, acked, offset, batch, bot, begun, slips>> /\ gone' = None
  BY DEF Send
<1>2. ListenerOK
  BY DEF WatchInv
<1>3. /\ updates' \in Seq({"watch", "unwatch"}) /\ Len(updates') = Len(updates) + 1
      /\ handled' \in Seq(Nat) /\ Len(handled') = Len(handled) + 1
      /\ DOMAIN updates \subseteq DOMAIN updates' /\ DOMAIN updates' = 1..(Len(updates) + 1)
  <2>1. updates \in Seq({"watch", "unwatch"}) /\ handled \in Seq(Nat) /\ 0 \in Nat
    BY <1>2 DEF ListenerOK
  <2>2. updates' \in Seq({"watch", "unwatch"}) /\ Len(updates') = Len(updates) + 1
    BY <1>1, <2>1
  <2>3. handled' \in Seq(Nat) /\ Len(handled') = Len(handled) + 1
    BY <1>1, <2>1
  <2>4. DOMAIN updates = 1..Len(updates) /\ DOMAIN updates' = 1..Len(updates') /\ Len(updates) \in Nat
    BY <2>1, <2>2
  <2> QED BY <2>2, <2>3, <2>4
<1>4. \A u \in DOMAIN updates' : handled'[u] = IF u \in DOMAIN updates THEN handled[u] ELSE 0
  BY <1>1, <1>2, <1>3 DEF ListenerOK
<1>5. batch' \in Seq(DOMAIN updates')
  BY <1>1, <1>2, <1>3 DEF ListenerOK
<1>6. {acked', offset'} \subseteq 0..Len(updates') /\ Len(updates') <= MaxUpdates
  BY <1>1, <1>2, <1>3, WatchAssumption DEF ListenerOK
<1>7. ListenerOK'
  BY <1>1, <1>2, <1>3, <1>4, <1>5, <1>6 DEF ListenerOK, Reached
<1>8. BotOK'
  BY <1>1, <1>3 DEF WatchInv, BotOK
<1> QED BY <1>1, <1>7, <1>8, CallsRest DEF WatchInv

LEMMA AckedIs == ASSUME ListenerOK PROVE Max({acked, offset}) = Reached /\ Reached \in 0..Len(updates)
BY MaxOfTwo DEF ListenerOK, Reached

LEMMA FetchOK == ASSUME WatchInv, Fetch PROVE WatchInv'
<1>1. /\ acked' = Reached /\ batch' = [i \in 1..(Len(updates) - acked') |-> acked' + i]
      /\ UNCHANGED <<table, call, updates, offset, bot, handled, begun, slips>> /\ gone' = None
  BY AckedIs DEF Fetch, WatchInv
<1>2. ListenerOK /\ Reached \in 0..Len(updates)
  BY AckedIs DEF WatchInv
<1>3. Reached' = Reached
  BY <1>1, <1>2 DEF ListenerOK, Reached
<1>4. batch' \in Seq(DOMAIN updates) /\ \A i \in DOMAIN batch' : batch'[i] = Reached + i
  <2>1. \A i \in 1..(Len(updates) - Reached) : Reached + i \in DOMAIN updates
    BY <1>2 DEF ListenerOK
  <2>2. Len(updates) - Reached \in Nat
    BY <1>2 DEF ListenerOK
  <2> QED BY <1>1, <2>1, <2>2
<1>5. ListenerOK'
  BY <1>1, <1>2, <1>3, <1>4 DEF ListenerOK
<1>6. BotOK'
  BY <1>1 DEF WatchInv, BotOK
<1> QED BY <1>1, <1>5, <1>6, CallsRest DEF WatchInv

LEMMA FetchFailsOK == ASSUME WatchInv, FetchFails PROVE WatchInv'
<1>1. /\ acked' = Reached /\ batch = <<>> /\ slips < MaxSlips /\ slips' = slips + 1
      /\ UNCHANGED <<table, call, updates, offset, batch, bot, handled, begun>> /\ gone' = None
  BY AckedIs DEF FetchFails, WatchInv
<1>2. ListenerOK /\ Reached \in 0..Len(updates)
  BY AckedIs DEF WatchInv
<1>3. Reached' = Reached
  BY <1>1, <1>2 DEF ListenerOK, Reached
<1>4. ListenerOK'
  BY <1>1, <1>2, <1>3 DEF ListenerOK
<1>5. BotOK' /\ slips' \in 0..MaxSlips
  BY <1>1, WatchAssumption DEF WatchInv, BotOK
<1> QED BY <1>1, <1>4, <1>5, CallsRest

LEMMA BeginOK == ASSUME WatchInv, Begin PROVE WatchInv'
<1> DEFINE u == Head(batch)
<1>1. /\ batch # <<>> /\ batch' = Tail(batch) /\ offset' = u /\ bot' = [update |-> u, step |-> 0]
      /\ handled' = [handled EXCEPT ![u] = @ + 1] /\ begun' = begun \cup {u}
      /\ UNCHANGED <<table, call, updates, acked, slips>> /\ gone' = None
  BY DEF Begin, OffsetPast
<1>2. ListenerOK /\ Reached \in 0..Len(updates) /\ acked <= Reached /\ offset <= Reached
  BY AckedIs DEF WatchInv, ListenerOK, Reached
<1>3. batch \in Seq(DOMAIN updates) /\ DOMAIN updates = 1..Len(updates) /\ Len(updates) \in Nat
  BY <1>2 DEF ListenerOK
<1>4. u = Reached + 1 /\ u \in DOMAIN updates
  BY <1>1, <1>2, <1>3 DEF ListenerOK
<1>5. Reached' = Reached + 1
  BY <1>1, <1>2, <1>4 DEF Reached, ListenerOK
<1>6. batch' \in Seq(DOMAIN updates) /\ \A i \in DOMAIN batch' : batch'[i] = Reached' + i
  <2>1. /\ Tail(batch) \in Seq(DOMAIN updates) /\ DOMAIN Tail(batch) = 1..(Len(batch) - 1)
        /\ \A i \in 1..(Len(batch) - 1) : Tail(batch)[i] = batch[i + 1]
    BY <1>1, <1>3
  <2>2. \A i \in 1..(Len(batch) - 1) : batch[i + 1] = Reached + (i + 1)
    <3>1. \A i \in 1..(Len(batch) - 1) : i + 1 \in DOMAIN batch
      BY <1>3
    <3> QED BY <1>2, <3>1 DEF ListenerOK
  <2>3. \A i \in 1..(Len(batch) - 1) : Reached + (i + 1) = Reached' + i
    BY <1>2, <1>5
  <2> QED BY <1>1, <2>1, <2>2, <2>3
<1>7. 1..Reached' \subseteq begun'
  BY <1>1, <1>2, <1>4, <1>5 DEF ListenerOK
<1>8. handled' \in Seq(Nat) /\ Len(handled') = Len(updates')
  BY <1>1, <1>2, <1>4 DEF ListenerOK
<1>9. \A v \in DOMAIN updates' : handled'[v] <= 1 /\ (v > offset' => handled'[v] = 0)
  <2>1. handled[u] = 0 /\ u > offset
    BY <1>2, <1>3, <1>4 DEF ListenerOK
  <2> QED BY <1>1, <1>2, <1>3, <1>4, <2>1 DEF ListenerOK
<1>10. ListenerOK'
  <2>1. {acked', offset'} \subseteq 0..Len(updates')
    BY <1>1, <1>2, <1>3, <1>4 DEF ListenerOK
  <2>2. updates' \in Seq({"watch", "unwatch"}) /\ Len(updates') <= MaxUpdates
    BY <1>1, <1>2 DEF ListenerOK
  <2>3. batch' \in Seq(DOMAIN updates')
    BY <1>1, <1>6
  <2> QED BY <1>6, <1>7, <1>8, <1>9, <2>1, <2>2, <2>3 DEF ListenerOK
<1>11. BotOK'
  <2>1. u \in 1..MaxUpdates /\ 0 \in 0..(Len(MatchTypes) - 1)
    BY <1>2, <1>3, <1>4, ThreeTypes, WatchAssumption DEF ListenerOK
  <2> QED BY <1>1, <1>4, <2>1, WatchAssumption DEF BotOK, Commands
<1> QED BY <1>1, <1>10, <1>11, CallsRest DEF WatchInv

LEMMA ListenerRests ==
  ASSUME ListenerOK, UNCHANGED <<updates, acked, offset, batch, handled, begun>>
  PROVE  ListenerOK'
BY DEF ListenerOK, Reached

LEMMA WatchLooksOK == ASSUME WatchInv, WatchLooks PROVE WatchInv'
<1>1. ListenerOK'
  BY ListenerRests DEF WatchLooks, WatchInv
<1>2. BotOK'
  <2>1. CASE bot' = None
    BY <2>1 DEF BotOK
  <2>2. CASE bot # None /\ bot' = [bot EXCEPT !.step = 1]
    BY <2>2, ThreeTypes DEF BotOK, Commands, WatchInv, WatchLooks
  <2> QED BY <2>1, <2>2 DEF WatchLooks
<1> QED BY <1>1, <1>2, CallsRest DEF WatchLooks, WatchInv

LEMMA WatchInsertsOK == ASSUME WatchInv, WatchInserts PROVE WatchInv'
<1>1. /\ EntriesOK(entries', lastId') /\ lastId' >= lastId
      /\ \A e \in entries' : e \in entries \/ e.id > lastId
  BY ThreeTypes, InsertOK DEF WatchInserts, WatchInv
<1>2. CallsOK(call', entries', lastId')
  BY <1>1, CallsKept, WatchAssumption DEF WatchInv, EntriesOK, WatchInserts
<1>3. ListenerOK' /\ BotOK'
  BY ListenerRests DEF WatchInserts, WatchInv, BotOK
<1> QED BY <1>1, <1>2, <1>3 DEF WatchInv, WatchInserts, GoneOK, DeletesWhatWasFound

LEMMA UnwatchOK == ASSUME WatchInv, Unwatch PROVE WatchInv'
<1>1. EntriesOK(entries', lastId')
  BY FewerOK DEF Unwatch, WatchInv
<1>2. CallsOK(call', entries', lastId')
  BY DEF Unwatch, WatchInv, CallsOK
<1>3. ListenerOK'
  BY ListenerRests DEF Unwatch, WatchInv
<1>4. BotOK'
  <2>1. bot \in Commands /\ bot.step \in 0..2 /\ bot.update \in DOMAIN updates
    BY ThreeTypes DEF Unwatch, WatchInv, BotOK, Commands
  <2>2. CASE bot' = None
    BY <2>2 DEF BotOK
  <2>3. CASE bot.step + 1 # 3 /\ bot' = [bot EXCEPT !.step = @ + 1]
    BY <2>1, <2>3, ThreeTypes DEF BotOK, Commands, Unwatch
  <2> QED BY <2>2, <2>3, ThreeTypes DEF Unwatch
<1> QED BY <1>1, <1>2, <1>3, <1>4 DEF WatchInv, Unwatch, GoneOK, DeletesWhatWasFound

LEMMA HandlerFailsOK == ASSUME WatchInv, HandlerFails PROVE WatchInv'
<1>1. ListenerOK' /\ BotOK'
  BY ListenerRests DEF HandlerFails, WatchInv, BotOK
<1>2. slips' \in 0..MaxSlips
  BY WatchAssumption DEF HandlerFails, WatchInv
<1> QED BY <1>1, <1>2, CallsRest DEF HandlerFails, WatchInv

LEMMA ListenerRestartsOK == ASSUME WatchInv, ListenerRestarts PROVE WatchInv'
<1>1. /\ offset' = 0 /\ batch' = <<>> /\ bot' = None /\ handled' = [u \in DOMAIN updates |-> 0]
      /\ slips < MaxSlips /\ slips' = slips + 1
      /\ UNCHANGED <<table, call, updates, acked, begun>> /\ gone' = None
  BY DEF ListenerRestarts, StartOffset
<1>2. ListenerOK /\ DOMAIN updates = 1..Len(updates) /\ Len(updates) \in Nat
  BY DEF WatchInv, ListenerOK
<1>3. Reached' = acked /\ acked \in Nat /\ 1..acked \subseteq 1..Reached
  BY <1>1, <1>2 DEF Reached, ListenerOK
<1>4. handled' \in Seq(Nat) /\ Len(handled') = Len(updates)
  BY <1>1, <1>2
<1>5. ListenerOK'
  <2>1. {acked', offset'} \subseteq 0..Len(updates')
    BY <1>1, <1>2, <1>3 DEF ListenerOK
  <2>2. updates' \in Seq({"watch", "unwatch"}) /\ Len(updates') <= MaxUpdates
    BY <1>1, <1>2 DEF ListenerOK
  <2>3. batch' \in Seq(DOMAIN updates') /\ DOMAIN batch' = {}
    BY <1>1
  <2>4. 1..Reached' \subseteq begun'
    BY <1>1, <1>2, <1>3 DEF ListenerOK
  <2>5. \A u \in DOMAIN updates' : handled'[u] = 0
    BY <1>1
  <2> QED BY <1>1, <1>4, <2>1, <2>2, <2>3, <2>4, <2>5 DEF ListenerOK
<1>6. BotOK' /\ slips' \in 0..MaxSlips
  BY <1>1, WatchAssumption DEF BotOK, WatchInv
<1> QED BY <1>1, <1>5, <1>6, CallsRest

LEMMA WatchStepOK == WatchInv /\ [WatchNext]_watch => WatchInv'
<1>1. ASSUME WatchInv, UNCHANGED watch PROVE WatchInv'
  BY <1>1 DEF watch, WatchInv, GoneOK, DeletesWhatWasFound, BotOK, ListenerOK, Reached
<1> QED BY <1>1, RequestOK, ListedOK, PostOK, RereadOK, CheckOK, DeleteOK, SendOK, FetchOK, FetchFailsOK, BeginOK,
           WatchLooksOK, WatchInsertsOK, UnwatchOK, HandlerFailsOK, ListenerRestartsOK DEF WatchNext

\* A delete takes only what its caller found under the value, an id is never given twice, the
\* MCP tools never exceed their slots, and the listener begins no command twice in a life and
\* none behind its offset is lost (api/watchlist.py, mcp_server, notifier.py).
THEOREM CallersHeededAlways == WatchSpec => []CallersHeeded
BY WatchInitOK, WatchStepOK, WatchInvIs, PTL DEF WatchSpec

-----------------------------------------------------------------------------
(* Sequences without what is at a place *)

Entry == [type : Types, id : LockIds]

LEMMA PartsOf ==
  ASSUME NEW d \in Seq(Entry), NEW f \in 1..Len(d)
  PROVE  /\ SubSeq(d, 1, f - 1) \in Seq(Entry) /\ Len(SubSeq(d, 1, f - 1)) = f - 1
         /\ \A n \in 1..(f - 1) : SubSeq(d, 1, f - 1)[n] = d[n]
         /\ SubSeq(d, f + 1, Len(d)) \in Seq(Entry) /\ Len(SubSeq(d, f + 1, Len(d))) = Len(d) - f
         /\ \A n \in 1..(Len(d) - f) : SubSeq(d, f + 1, Len(d))[n] = d[f + n]
<1> DEFINE front == SubSeq(d, 1, f - 1)
           back == SubSeq(d, f + 1, Len(d))
<1>1. Len(d) \in Nat /\ DOMAIN d = 1..Len(d) /\ f \in 1..Len(d) /\ \A n \in 1..Len(d) : d[n] \in Entry
  BY ElementOfSeq
<1>2. front \in Seq(Entry) /\ Len(front) = f - 1 /\ \A n \in 1..(f - 1) : front[n] = d[n]
  <2>1. f - 1 \in Int /\ \A n \in 1..(f - 1) : n \in 1..Len(d)
    BY <1>1
  <2>2. /\ front \in Seq(Entry)
        /\ Len(front) = IF 1 <= f - 1 THEN (f - 1) - 1 + 1 ELSE 0
        /\ \A n \in 1..(f - 1) - 1 + 1 : front[n] = d[1 + n - 1]
    BY <1>1, <2>1, SubSeqProperties
  <2> HIDE DEF front
  <2>3. Len(front) = f - 1
    BY <1>1, <2>2
  <2>4. \A n \in 1..(f - 1) : n \in 1..(f - 1) - 1 + 1 /\ 1 + n - 1 = n
    BY <1>1
  <2> QED BY <2>2, <2>3, <2>4
<1>3. back \in Seq(Entry) /\ Len(back) = Len(d) - f /\ \A n \in 1..(Len(d) - f) : back[n] = d[f + n]
  <2>1. f + 1 \in Int /\ Len(d) \in Int /\ \A n \in f + 1..Len(d) : n \in 1..Len(d)
    BY <1>1
  <2>2. /\ back \in Seq(Entry)
        /\ Len(back) = IF f + 1 <= Len(d) THEN Len(d) - (f + 1) + 1 ELSE 0
        /\ \A n \in 1..Len(d) - (f + 1) + 1 : back[n] = d[f + 1 + n - 1]
    BY <1>1, <2>1, SubSeqProperties
  <2> HIDE DEF back
  <2>3. Len(back) = Len(d) - f
    <3>1. Len(back) = IF f + 1 <= Len(d) THEN Len(d) - (f + 1) + 1 ELSE 0
      BY <2>2
    <3>2. CASE f + 1 <= Len(d)
      BY <1>1, <3>1, <3>2
    <3>3. CASE ~(f + 1 <= Len(d))
      <4>1. f \in Nat /\ f <= Len(d) /\ Len(d) \in Nat
        OBVIOUS
      <4>2. f = Len(d) /\ Len(back) = 0
        BY <3>1, <3>3, <4>1
      <4> QED BY <4>1, <4>2
    <3> QED BY <3>2, <3>3
  <2>4. \A n \in 1..(Len(d) - f) : n \in 1..Len(d) - (f + 1) + 1 /\ f + 1 + n - 1 = f + n
    BY <1>1
  <2> QED BY <2>2, <2>3, <2>4
<1> QED BY <1>2, <1>3

\* The rest behind the front, as the dictionary is after a rotation.
LEMMA RotatedOut ==
  ASSUME NEW d \in Seq(Entry), NEW f \in 1..Len(d), NEW r, r = SubSeq(d, f + 1, Len(d)) \o SubSeq(d, 1, f - 1)
  PROVE  /\ r \in Seq(Entry) /\ Len(r) = Len(d) - 1
         /\ \A k \in 1..(Len(d) - 1) : r[k] = IF k <= Len(d) - f THEN d[f + k] ELSE d[k - (Len(d) - f)]
<1> DEFINE front == SubSeq(d, 1, f - 1)
           back == SubSeq(d, f + 1, Len(d))
           c == back \o front
<1>1. /\ front \in Seq(Entry) /\ Len(front) = f - 1 /\ (\A n \in 1..(f - 1) : front[n] = d[n])
      /\ back \in Seq(Entry) /\ Len(back) = Len(d) - f /\ (\A n \in 1..(Len(d) - f) : back[n] = d[f + n])
  BY PartsOf
<1>2. r = c /\ Len(d) \in Nat /\ f \in 1..Len(d)
  OBVIOUS
<1> HIDE DEF front, back
<1>3. /\ c \in Seq(Entry) /\ Len(c) = Len(back) + Len(front)
      /\ \A n \in 1..Len(back) + Len(front) : c[n] = IF n <= Len(back) THEN back[n] ELSE front[n - Len(back)]
  BY <1>1, ConcatProperties
<1> HIDE DEF c
<1>4. Len(c) = Len(d) - 1
  BY <1>1, <1>2, <1>3
<1>5. \A k \in 1..(Len(d) - 1) : c[k] = IF k <= Len(d) - f THEN d[f + k] ELSE d[k - (Len(d) - f)]
  <2> TAKE k \in 1..(Len(d) - 1)
  <2>1. c[k] = IF k <= Len(d) - f THEN back[k] ELSE front[k - (Len(d) - f)]
    <3>1. k \in 1..Len(back) + Len(front)
      BY <1>1, <1>2
    <3> QED BY <1>1, <1>3, <3>1
  <2>2. CASE k <= Len(d) - f
    BY <1>1, <1>2, <2>1, <2>2
  <2>3. CASE ~(k <= Len(d) - f)
    <3>1. k - (Len(d) - f) \in 1..(f - 1)
      BY <1>2, <2>3
    <3> QED BY <1>1, <2>1, <2>3, <3>1
  <2> QED BY <2>2, <2>3
<1> QED BY <1>2, <1>3, <1>4, <1>5

\* An entry moved to the end.
LEMMA MovedToEnd ==
  ASSUME NEW d \in Seq(Entry), NEW i \in 1..Len(d), NEW r, r = Append(RemoveAt(d, i), d[i])
  PROVE  /\ r \in Seq(Entry) /\ Len(r) = Len(d)
         /\ \A k \in 1..Len(d) : r[k] = IF k < i THEN d[k] ELSE IF k < Len(d) THEN d[k + 1] ELSE d[i]
<1> DEFINE front == SubSeq(d, 1, i - 1)
           back == SubSeq(d, i + 1, Len(d))
           c == front \o back
<1>1. /\ front \in Seq(Entry) /\ Len(front) = i - 1 /\ (\A n \in 1..(i - 1) : front[n] = d[n])
      /\ back \in Seq(Entry) /\ Len(back) = Len(d) - i /\ (\A n \in 1..(Len(d) - i) : back[n] = d[i + n])
  BY PartsOf
<1>2. r = Append(c, d[i]) /\ d[i] \in Entry /\ Len(d) \in Nat
  BY DEF RemoveAt
<1> HIDE DEF front, back
<1>3. /\ c \in Seq(Entry) /\ Len(c) = Len(front) + Len(back)
      /\ \A n \in 1..Len(front) + Len(back) : c[n] = IF n <= Len(front) THEN front[n] ELSE back[n - Len(front)]
  BY <1>1, ConcatProperties
<1> HIDE DEF c
<1>4. Len(c) = Len(d) - 1
  BY <1>1, <1>2, <1>3
<1>5. \A n \in 1..(Len(d) - 1) : c[n] = IF n < i THEN d[n] ELSE d[n + 1]
  <2> TAKE n \in 1..(Len(d) - 1)
  <2>1. CASE n < i
    <3>1. n \in 1..(i - 1) /\ n \in 1..(i - 1) + (Len(d) - i)
      BY <1>2, <2>1
    <3>2. c[n] = front[n]
      BY <1>1, <1>3, <3>1
    <3> QED BY <1>1, <2>1, <3>1, <3>2
  <2>2. CASE n >= i
    <3>1. n - (i - 1) \in 1..(Len(d) - i) /\ i + (n - (i - 1)) = n + 1 /\ n \in 1..(i - 1) + (Len(d) - i)
      BY <1>2, <2>2
    <3>2. c[n] = back[n - (i - 1)]
      BY <1>1, <1>3, <2>2, <3>1
    <3> QED BY <1>1, <2>2, <3>1, <3>2
  <2> QED BY <2>1, <2>2
<1>6. /\ r \in Seq(Entry) /\ Len(r) = Len(d) /\ r[Len(d)] = d[i]
      /\ \A n \in 1..(Len(d) - 1) : r[n] = c[n]
  BY <1>2, <1>3, <1>4
<1> QED BY <1>2, <1>5, <1>6

-----------------------------------------------------------------------------
(* The dictionary of the locks *)

Distinct(d) == \A i, k \in DOMAIN d : i # k => d[i].type # d[k].type /\ d[i].id # d[k].id

LEMMA Reordered ==
  ASSUME NEW d \in Seq(Entry), Distinct(d), NEW r \in Seq(Entry), NEW p \in [1..Len(r) -> 1..Len(d)],
         \A k, l \in 1..Len(r) : k # l => p[k] # p[l], \A k \in 1..Len(r) : r[k] = d[p[k]]
  PROVE  Distinct(r) /\ ToSet(r) = {d[n] : n \in {p[k] : k \in 1..Len(r)}}
<1>1. DOMAIN d = 1..Len(d) /\ DOMAIN r = 1..Len(r)
  OBVIOUS
<1>2. Distinct(r)
  BY <1>1 DEF Distinct
<1>3. ToSet(r) = {d[n] : n \in {p[k] : k \in 1..Len(r)}}
  BY <1>1 DEF ToSet
<1> QED BY <1>2, <1>3

LEMMA MovedLocks ==
  ASSUME NEW d \in Seq(Entry), Distinct(d), NEW i \in 1..Len(d), NEW r, r = Append(RemoveAt(d, i), d[i])
  PROVE  r \in Seq(Entry) /\ Len(r) = Len(d) /\ Distinct(r) /\ ToSet(r) = ToSet(d)
<1>1. /\ r \in Seq(Entry) /\ Len(r) = Len(d)
      /\ \A k \in 1..Len(d) : r[k] = IF k < i THEN d[k] ELSE IF k < Len(d) THEN d[k + 1] ELSE d[i]
  <2>1. r = Append(RemoveAt(d, i), d[i]) /\ d \in Seq(Entry) /\ i \in 1..Len(d)
    OBVIOUS
  <2> QED BY <2>1, MovedToEnd, ZenonT(20)
<1> DEFINE p == [k \in 1..Len(d) |-> IF k < i THEN k ELSE IF k < Len(d) THEN k + 1 ELSE i]
<1>2. i \in Nat /\ 1 <= i /\ i <= Len(d) /\ Len(d) \in Nat
  OBVIOUS
<1>3. p \in [1..Len(d) -> 1..Len(d)] /\ \A k, l \in 1..Len(d) : k # l => p[k] # p[l]
  BY <1>2
<1>4. \A k \in 1..Len(d) : r[k] = d[p[k]]
  BY <1>1
<1>5. {p[k] : k \in 1..Len(d)} = 1..Len(d)
  <2>1. \A n \in 1..Len(d) : \E k \in 1..Len(d) : p[k] = n
    <3> TAKE n \in 1..Len(d)
    <3>1. CASE n < i
      BY <1>2, <3>1
    <3>2. CASE n = i
      BY <1>2, <3>2
    <3>3. CASE n > i
      <4>1. n - 1 \in 1..Len(d) /\ p[n - 1] = n
        BY <1>2, <3>3
      <4> QED BY <4>1
    <3> QED BY <1>2, <3>1, <3>2, <3>3
  <2>2. \A k \in 1..Len(d) : p[k] \in 1..Len(d)
    BY <1>3
  <2> HIDE DEF p
  <2> QED BY <2>1, <2>2
<1> HIDE DEF p
<1>6. Distinct(r) /\ ToSet(r) = {d[n] : n \in {p[k] : k \in 1..Len(r)}}
  <2>1. /\ p \in [1..Len(r) -> 1..Len(d)] /\ \A k, l \in 1..Len(r) : k # l => p[k] # p[l]
        /\ \A k \in 1..Len(r) : r[k] = d[p[k]]
    BY <1>1, <1>3, <1>4
  <2> QED BY <1>1, <2>1, Reordered
<1>7. ToSet(r) = {d[n] : n \in 1..Len(d)}
  BY <1>1, <1>5, <1>6
<1>8. ToSet(d) = {d[n] : n \in 1..Len(d)}
  <2>1. DOMAIN d = 1..Len(d)
    OBVIOUS
  <2> QED BY <2>1, Zenon DEF ToSet
<1> QED BY <1>1, <1>6, <1>7, <1>8

LEMMA RotatedLocks ==
  ASSUME NEW d \in Seq(Entry), Distinct(d), NEW f \in 1..Len(d), NEW r, r = SubSeq(d, f + 1, Len(d)) \o SubSeq(d, 1, f - 1)
  PROVE  r \in Seq(Entry) /\ Len(r) = Len(d) - 1 /\ Distinct(r) /\ ToSet(r) = ToSet(d) \ {d[f]}
<1>1. /\ r \in Seq(Entry) /\ Len(r) = Len(d) - 1
      /\ \A k \in 1..(Len(d) - 1) : r[k] = IF k <= Len(d) - f THEN d[f + k] ELSE d[k - (Len(d) - f)]
  BY RotatedOut
<1> DEFINE m == Len(d) - f
           p == [k \in 1..(Len(d) - 1) |-> IF k <= m THEN f + k ELSE k - m]
<1>2. f \in Nat /\ 1 <= f /\ f <= Len(d) /\ Len(d) \in Nat
  OBVIOUS
<1>3. p \in [1..(Len(d) - 1) -> 1..Len(d)] /\ \A k, l \in 1..(Len(d) - 1) : k # l => p[k] # p[l]
  BY <1>2
<1>4. \A k \in 1..(Len(d) - 1) : r[k] = d[p[k]]
  BY <1>1
<1>5. {p[k] : k \in 1..(Len(d) - 1)} = 1..Len(d) \ {f}
  <2>1. \A n \in 1..Len(d) \ {f} : \E k \in 1..(Len(d) - 1) : p[k] = n
    <3> TAKE n \in 1..Len(d) \ {f}
    <3>1. CASE n < f
      <4>1. n + m \in 1..(Len(d) - 1) /\ p[n + m] = n
        BY <1>2, <3>1
      <4> QED BY <4>1
    <3>2. CASE n > f
      <4>1. n - f \in 1..(Len(d) - 1) /\ p[n - f] = n
        BY <1>2, <3>2
      <4> QED BY <4>1
    <3> QED BY <1>2, <3>1, <3>2
  <2>2. \A k \in 1..(Len(d) - 1) : p[k] # f
    BY <1>2
  <2>3. \A k \in 1..(Len(d) - 1) : p[k] \in 1..Len(d)
    BY <1>3
  <2> HIDE DEF p, m
  <2> QED BY <2>1, <2>2, <2>3
<1> HIDE DEF p
<1>6. Distinct(r) /\ ToSet(r) = {d[n] : n \in {p[k] : k \in 1..Len(r)}}
  <2>1. /\ p \in [1..Len(r) -> 1..Len(d)] /\ \A k, l \in 1..Len(r) : k # l => p[k] # p[l]
        /\ \A k \in 1..Len(r) : r[k] = d[p[k]]
    BY <1>1, <1>3, <1>4
  <2> QED BY <1>1, <2>1, Reordered
<1>7. ToSet(r) = {d[n] : n \in 1..Len(d) \ {f}}
  BY <1>1, <1>5, <1>6
<1>8. \A n \in 1..Len(d) : n # f => d[n] # d[f]
  BY DEF Distinct
<1>9. ToSet(d) = {d[n] : n \in 1..Len(d)}
  <2>1. DOMAIN d = 1..Len(d)
    OBVIOUS
  <2> QED BY <2>1, Zenon DEF ToSet
<1>10. ToSet(r) = ToSet(d) \ {d[f]}
  BY <1>7, <1>8, <1>9
<1> QED BY <1>1, <1>6, <1>10

LEMMA AddedLock ==
  ASSUME NEW d \in Seq(Entry), Distinct(d), NEW e \in Entry,
         \A i \in DOMAIN d : d[i].type # e.type /\ d[i].id # e.id
  PROVE  /\ Append(d, e) \in Seq(Entry) /\ Len(Append(d, e)) = Len(d) + 1 /\ Distinct(Append(d, e))
         /\ ToSet(Append(d, e)) = ToSet(d) \cup {e} /\ Append(d, e)[Len(d) + 1] = e
<1> DEFINE r == Append(d, e)
<1>1. /\ r \in Seq(Entry) /\ Len(r) = Len(d) + 1 /\ r[Len(d) + 1] = e
      /\ \A i \in 1..Len(d) : r[i] = d[i]
  OBVIOUS
<1>2. DOMAIN r = 1..(Len(d) + 1) /\ DOMAIN d = 1..Len(d) /\ Len(d) \in Nat
  BY <1>1
<1> HIDE DEF r
<1>3. Distinct(r)
  BY <1>1, <1>2 DEF Distinct
<1>4. ToSet(r) = ToSet(d) \cup {e}
  BY <1>1, <1>2 DEF ToSet
<1> QED BY <1>1, <1>3, <1>4 DEF r

\* A set of numbers has a smallest one.
LEMMA SmallestOf ==
  ASSUME NEW S, S \subseteq Nat, S # {}
  PROVE  \E i \in S : \A n \in S : i <= n
<1> DEFINE T == {1..i : i \in S}
<1>1. T \subseteq FiniteSubsetsOf(Nat) /\ T # {}
  <2>1. \A i \in S : IsFiniteSet(1..i) /\ 1..i \subseteq Nat
    BY FS_Interval
  <2> QED BY <2>1 DEF FiniteSubsetsOf
<1>2. PICK s \in T : \A t \in T : <<t, s>> \notin StrictSubsetOrdering(Nat)
  <2> HIDE DEF T
  <2> QED BY <1>1, WFMin, FS_StrictSubsetOrderingWellFounded
<1>3. PICK i \in S : s = 1..i
  BY <1>2
<1>4. \A n \in S : i <= n
  <2> SUFFICES ASSUME NEW n \in S, n < i PROVE FALSE
    OBVIOUS
  <2>1. 1..n \in T /\ 1..n \subseteq 1..i /\ 1..n # 1..i /\ 1..n \subseteq Nat /\ 1..i \subseteq Nat
    <3>1. i \in 1..i /\ i \notin 1..n
      OBVIOUS
    <3> QED BY <3>1
  <2>2. <<1..n, s>> \in StrictSubsetOrdering(Nat)
    BY <1>3, <2>1 DEF StrictSubsetOrdering
  <2> QED BY <1>2, <2>1, <2>2
<1> QED BY <1>4

-----------------------------------------------------------------------------
(* Locks and look-ups *)

Holding(r) == r # None /\ r.lock # None /\ r.at \in {"look", "probe", "wiki"}
Working(r) == r # None /\ r.lock # None /\ r.at \in {"wait", "look", "probe", "wiki"}

TableOK(d) == d \in Seq(Entry) /\ Len(d) <= LocksMax /\ Distinct(d)
JobsOK == job \in [Jobs -> {None} \cup LookUp]
BotsOK == \A b \in Bots : job[b] # None => job[b].lock = None

\* Who waits for a lock or holds it finds it in the dictionary, unless it was lost;
\* and a lock has one holder.
LocksOK ==
    /\ \A w \in Web : Working(job[w]) =>
         job[w].type \in lost \/ [type |-> job[w].type, id |-> job[w].lock] \in ToSet(typeLocks)
    /\ \A v, w \in Web : v # w /\ Holding(job[v]) /\ Holding(job[w]) => job[v].lock # job[w].lock

FailuresKept == \A j \in Jobs : job[j] # None /\ job[j].raised => job[j].errored \/ job[j].at = "types"

PicturesOK == photos \in [Hexes -> Row \cup {None}] /\ typePhotos \in [Types -> Row \cup {None}]
ShownOK == shown \in [type : Types, pic : BOOLEAN] \cup {None} /\ NoBlank
LookUpsOK == JobsOK /\ BotsOK /\ LocksOK /\ FailuresKept

PhotoInv ==
    /\ now \in 0..MaxNow /\ asks \in 0..MaxAsks /\ lost \subseteq Types
    /\ PicturesOK /\ ShownOK /\ TableOK(typeLocks) /\ LookUpsOK

\* More ids than locks in the dictionary and requests.
LEMMA UnusedIs ==
  ASSUME TableOK(typeLocks), JobsOK, BotsOK
  PROVE  /\ Unused \in LockIds /\ (\A i \in DOMAIN typeLocks : typeLocks[i].id # Unused)
         /\ \A j \in Jobs : job[j] # None => job[j].lock # Unused
<1> DEFINE n == Len(typeLocks)
           f == [i \in 1..n |-> typeLocks[i].id]
           A == {f[i] : i \in 1..n}
           g == [w \in Web |-> IF job[w] = None THEN None ELSE job[w].lock]
           B == {g[w] : w \in Web}
<1>1. n \in Nat /\ n <= LocksMax /\ LocksMax \in Nat /\ IsFiniteSet(Web) /\ Cardinality(Web) \in Nat
  BY PhotosAssumption, FS_CardinalityType DEF TableOK
<1>2. IsFiniteSet(A) /\ Cardinality(A) <= LocksMax /\ Cardinality(A) \in Nat
  <2>1. IsFiniteSet(1..n) /\ Cardinality(1..n) = n
    <3> HIDE DEF n
    <3>1. 1 \in Int /\ n \in Int
      BY <1>1
    <3>2. IsFiniteSet(1..n) /\ Cardinality(1..n) = IF 1 > n THEN 0 ELSE n - 1 + 1
      BY <3>1, FS_Interval
    <3> QED BY <1>1, <3>2
  <2>2. f \in Surjection(1..n, A)
    BY DEF Surjection
  <2> HIDE DEF A, f
  <2>3. IsFiniteSet(A) /\ Cardinality(A) <= Cardinality(1..n)
    BY <2>1, <2>2, FS_Surjection DEF ExistsSurjection
  <2> QED BY <1>1, <2>1, <2>3, FS_CardinalityType
<1>3. IsFiniteSet(B) /\ Cardinality(B) <= Cardinality(Web) /\ Cardinality(B) \in Nat
  <2>1. g \in Surjection(Web, B)
    BY DEF Surjection
  <2> HIDE DEF B, g
  <2>2. IsFiniteSet(B) /\ Cardinality(B) <= Cardinality(Web)
    BY <1>1, <2>1, FS_Surjection DEF ExistsSurjection
  <2> QED BY <2>2, FS_CardinalityType
<1>4. \E id \in LockIds : id \notin A \cup B
  <2> SUFFICES ASSUME LockIds \subseteq A \cup B PROVE FALSE
    OBVIOUS
  <2> HIDE DEF A, B
  <2>1. IsFiniteSet(A \cup B) /\ Cardinality(A \cup B) <= LocksMax + Cardinality(Web)
    <3>1. IsFiniteSet(A \cup B) /\ Cardinality(A \cup B) = Cardinality(A) + Cardinality(B) - Cardinality(A \cap B)
      BY <1>2, <1>3, FS_Union
    <3>2. Cardinality(A \cap B) \in Nat
      BY <1>2, FS_Subset, FS_CardinalityType
    <3> QED BY <1>1, <1>2, <1>3, <3>1, <3>2
  <2>2. Cardinality(LockIds) = LocksMax + Cardinality(Web) + 1
    BY <1>1, FS_Interval DEF LockIds
  <2>3. Cardinality(LockIds) <= Cardinality(A \cup B)
    BY <2>1, FS_Subset
  <2>4. Cardinality(A \cup B) \in Nat
    BY <2>1, FS_CardinalityType
  <2> QED BY <1>1, <2>1, <2>2, <2>3, <2>4
<1>5. PICK id \in LockIds : id \notin A /\ id \notin B
  BY <1>4
<1>6. \A i \in DOMAIN typeLocks : typeLocks[i].id # id
  BY <1>5 DEF TableOK
<1>7. \A j \in Jobs : job[j] # None => job[j].lock # id
  <2>1. None \notin LockIds
    BY PhotosAssumption
  <2>2. \A w \in Web : job[w] # None => g[w] = job[w].lock /\ g[w] \in B
    OBVIOUS
  <2> QED BY <1>5, <2>1, <2>2 DEF BotsOK, Jobs
<1>8. \E x \in LockIds :
        /\ \A i \in DOMAIN typeLocks : typeLocks[i].id # x
        /\ \A j \in Jobs : job[j] # None => job[j].lock # x
  BY <1>6, <1>7
<1> QED BY <1>8, Zenon DEF Unused

\* Of the locks in a dictionary that is one too long the first that is free goes.
LEMMA CappedOK ==
  ASSUME NEW d \in Seq(Entry), Distinct(d), Len(d) <= LocksMax + 1, Len(d) > 0, ~Locked(d[Len(d)].id)
  PROVE  /\ TableOK(Capped(d)) /\ ToSet(Capped(d)) \subseteq ToSet(d)
         /\ \A e \in ToSet(d) : e \notin ToSet(Capped(d)) => ~Locked(e.id)
<1>1. LocksMax \in Nat /\ Len(d) \in Nat /\ DOMAIN d = 1..Len(d)
  BY PhotosAssumption
<1>2. CASE Len(d) <= LocksMax
  BY <1>2 DEF Capped, TableOK
<1>3. CASE Len(d) > LocksMax
  <2> DEFINE F == {i \in DOMAIN d : ~Locked(d[i].id)}
             First(i) == ~Locked(d[i].id) /\ \A k \in 1..(i - 1) : Locked(d[k].id)
             f == CHOOSE i \in DOMAIN d : First(i)
  <2>1. F # {} /\ F \subseteq Nat
    BY <1>1
  <2>2. PICK i \in F : \A n \in F : i <= n
    BY <2>1, SmallestOf
  <2>3. First(i) /\ i \in DOMAIN d
    <3>1. \A k \in 1..(i - 1) : k \in DOMAIN d /\ k \notin F
      BY <1>1, <2>2
    <3> QED BY <2>2, <3>1
  <2>4. f \in 1..Len(d) /\ ~Locked(d[f].id)
    BY <1>1, <2>3
  <2>5. Capped(d) = SubSeq(d, f + 1, Len(d)) \o SubSeq(d, 1, f - 1)
    <3>1. ~(Len(d) <= LocksMax)
      BY <1>1, <1>3
    <3> QED BY <3>1, Zenon DEF Capped
  <2> HIDE DEF f
  <2>6. /\ Capped(d) \in Seq(Entry) /\ Len(Capped(d)) = Len(d) - 1 /\ Distinct(Capped(d))
        /\ ToSet(Capped(d)) = ToSet(d) \ {d[f]}
    BY <2>4, <2>5, RotatedLocks
  <2> QED BY <1>1, <2>4, <2>6 DEF TableOK
<1> QED BY <1>1, <1>2, <1>3

LEMMA TypeLockOK ==
  ASSUME TableOK(typeLocks), JobsOK, BotsOK, NEW t \in Types
  PROVE  LET got == TypeLock(t)
         IN  /\ got.lock \in Entry /\ got.lock.type = t /\ TableOK(got.after)
             /\ ToSet(got.after) \subseteq ToSet(typeLocks) \cup {got.lock}
             /\ \A e \in ToSet(typeLocks) \cup {got.lock} : e \notin ToSet(got.after) => ~Locked(e.id)
<1>1. DOMAIN typeLocks = 1..Len(typeLocks) /\ typeLocks \in Seq(Entry) /\ Len(typeLocks) \in Nat
  BY DEF TableOK
<1>2. CASE \E i \in DOMAIN typeLocks : typeLocks[i].type = t
  <2> DEFINE i == CHOOSE i \in DOMAIN typeLocks : typeLocks[i].type = t
             r == Append(RemoveAt(typeLocks, i), typeLocks[i])
  <2>1. i \in 1..Len(typeLocks) /\ typeLocks[i].type = t
    BY <1>1, <1>2
  <2>2. TypeLock(t) = [lock |-> typeLocks[i], after |-> r]
    BY <1>2 DEF TypeLock
  <2> HIDE DEF i
  <2>3. r \in Seq(Entry) /\ Len(r) = Len(typeLocks) /\ Distinct(r) /\ ToSet(r) = ToSet(typeLocks)
    BY <1>1, <2>1, MovedLocks DEF TableOK
  <2>4. typeLocks[i] \in ToSet(typeLocks) /\ typeLocks[i] \in Entry
    BY <1>1, <2>1, ElementOfSeq DEF ToSet
  <2> HIDE DEF r
  <2> QED BY <2>1, <2>2, <2>3, <2>4 DEF TableOK
<1>3. CASE ~\E i \in DOMAIN typeLocks : typeLocks[i].type = t
  <2> DEFINE lock == [type |-> t, id |-> Unused]
             d == Append(typeLocks, lock)
  <2>1. lock \in Entry /\ \A i \in DOMAIN typeLocks : typeLocks[i].type # lock.type /\ typeLocks[i].id # lock.id
    BY <1>3, UnusedIs DEF Entry
  <2>2. ~Locked(lock.id)
    BY UnusedIs DEF Locked, Holds, Jobs
  <2>3. TypeLock(t) = [lock |-> lock, after |-> Capped(d)]
    BY <1>3 DEF TypeLock
  <2> HIDE DEF lock
  <2>4. /\ d \in Seq(Entry) /\ Len(d) = Len(typeLocks) + 1 /\ Distinct(d)
        /\ ToSet(d) = ToSet(typeLocks) \cup {lock} /\ d[Len(typeLocks) + 1] = lock
    BY <1>1, <2>1, AddedLock DEF TableOK
  <2> HIDE DEF d
  <2>5. Len(d) <= LocksMax + 1 /\ Len(d) > 0 /\ ~Locked(d[Len(d)].id)
    BY <1>1, <2>2, <2>4, PhotosAssumption DEF TableOK
  <2>6. /\ TableOK(Capped(d)) /\ ToSet(Capped(d)) \subseteq ToSet(d)
        /\ \A e \in ToSet(d) : e \notin ToSet(Capped(d)) => ~Locked(e.id)
    BY <2>4, <2>5, CappedOK
  <2>7. lock.type = t
    BY DEF lock
  <2> QED BY <2>1, <2>3, <2>4, <2>6, <2>7
<1> QED BY <1>2, <1>3

LEMMA PhotoInvIs == PhotoInv => PicturesShared
<1> SUFFICES ASSUME PhotoInv PROVE PicturesShared
  OBVIOUS
<1>1. PhotosTypeOK
  BY DEF PhotoInv, PhotosTypeOK, PicturesOK, ShownOK, TableOK, Distinct, Entry, LookUpsOK, JobsOK
<1>2. ASSUME NEW v \in Web, NEW w \in Web, v # w, Holds(v), Holds(w), job[v].type = job[w].type
      PROVE  job[v].type \in lost
  <2> SUFFICES ASSUME job[v].type \notin lost PROVE FALSE
    OBVIOUS
  <2>1. Holding(job[v]) /\ Holding(job[w]) /\ Working(job[v]) /\ Working(job[w])
    BY <1>2 DEF Holds, Holding, Working
  <2>2. /\ [type |-> job[v].type, id |-> job[v].lock] \in ToSet(typeLocks)
        /\ [type |-> job[w].type, id |-> job[w].lock] \in ToSet(typeLocks)
    BY <1>2, <2>1 DEF PhotoInv, LookUpsOK, LocksOK
  <2>3. job[v].lock # job[w].lock
    BY <1>2, <2>1 DEF PhotoInv, LookUpsOK, LocksOK
  <2>4. PICK i \in DOMAIN typeLocks, k \in DOMAIN typeLocks :
          /\ typeLocks[i] = [type |-> job[v].type, id |-> job[v].lock]
          /\ typeLocks[k] = [type |-> job[w].type, id |-> job[w].lock]
    BY <2>2 DEF ToSet
  <2>5. i # k /\ typeLocks[i].type = typeLocks[k].type
    BY <1>2, <2>3, <2>4
  <2> QED BY <2>5 DEF PhotoInv, TableOK, Distinct
<1>3. TypeSingleFlight
  BY <1>2 DEF TypeSingleFlight
<1> QED BY <1>1, <1>3 DEF PicturesShared, PhotoInv, ShownOK

\* A look-up goes on with the lock it has, takes a free one or ends.
LEMMA JobChanged ==
  ASSUME LookUpsOK, NEW j \in Jobs, NEW r \in {None} \cup LookUp,
         job' = [job EXCEPT ![j] = r], UNCHANGED <<typeLocks, lost>>,
         r # None => (r.raised => r.errored \/ r.at = "types") /\ (j \in Bots => r.lock = None),
         Working(r) => Working(job[j]) /\ r.type = job[j].type /\ r.lock = job[j].lock,
         Holding(r) => Holding(job[j]) \/ ~Locked(r.lock)
  PROVE  LookUpsOK'
<1>1. job' \in [Jobs -> {None} \cup LookUp] /\ job'[j] = r /\ \A k \in Jobs : k # j => job'[k] = job[k]
  BY DEF LookUpsOK, JobsOK
<1>2. JobsOK' /\ BotsOK' /\ FailuresKept'
  BY <1>1 DEF LookUpsOK, JobsOK, BotsOK, FailuresKept, Jobs
<1>3. ASSUME NEW w \in Web, Working(job'[w])
      PROVE  job'[w].type \in lost' \/ [type |-> job'[w].type, id |-> job'[w].lock] \in ToSet(typeLocks')
  <2>1. Working(job[w]) /\ job'[w].type = job[w].type /\ job'[w].lock = job[w].lock
    BY <1>1, <1>3 DEF Jobs
  <2> QED BY <2>1 DEF LookUpsOK, LocksOK
<1>4. ASSUME NEW v \in Web, NEW w \in Web, v # w, Holding(job'[v]), Holding(job'[w])
      PROVE  job'[v].lock # job'[w].lock
  <2>1. ASSUME NEW k \in Web, k # j, Holding(r), j \in Web, Holding(job[k]) PROVE job[k].lock # r.lock
    <3>1. CASE Holding(job[j])
      BY <2>1, <3>1 DEF LookUpsOK, LocksOK, Working, Holding
    <3>2. CASE ~Locked(r.lock)
      BY <2>1, <3>2 DEF Locked, Holds, Holding
    <3> QED BY <2>1, <3>1, <3>2
  <2>2. CASE v = j
    BY <1>1, <1>4, <2>1, <2>2 DEF Jobs
  <2>3. CASE w = j
    BY <1>1, <1>4, <2>1, <2>3 DEF Jobs
  <2>4. CASE v # j /\ w # j
    BY <1>1, <1>4, <2>4 DEF LookUpsOK, LocksOK, Jobs
  <2> QED BY <2>2, <2>3, <2>4
<1> QED BY <1>2, <1>3, <1>4 DEF LookUpsOK, LocksOK

\* An answer ends the look-up; without a picture it is no blank.
LEMMA AnswerOK ==
  ASSUME LookUpsOK, NEW j \in Jobs, NEW t \in Types, NEW pic \in BOOLEAN, Shows(j, t, pic),
         UNCHANGED <<typeLocks, lost>>, pic \/ ~Pic(typePhotos'[t])
  PROVE  LookUpsOK' /\ ShownOK'
<1>1. LookUpsOK'
  BY JobChanged DEF Shows, Working, Holding
<1>2. ShownOK'
  BY DEF Shows, ShownOK, NoBlank
<1> QED BY <1>1, <1>2

LEMMA QuietOK == shown' = None => ShownOK'
BY DEF ShownOK, NoBlank

LEMMA TypePhotoOK ==
  ASSUME PhotoInv, NEW w \in Web, NEW r \in LookUp, TypePhoto(w, r), ~Working(job[w]),
         UNCHANGED <<now, pictures>>, asks' \in 0..MaxAsks
  PROVE  PhotoInv'
<1> DEFINE t == r.type
           got == TypeLock(t)
<1>1. t \in Types /\ w \in Jobs /\ w \notin Bots /\ now \in 0..MaxNow /\ UNCHANGED <<photos, typePhotos, now>>
  BY PhotosAssumption DEF PhotoInv, LookUp, Jobs, pictures
<1>2. PicturesOK' /\ now' \in 0..MaxNow
  BY <1>1 DEF PhotoInv, PicturesOK
<1>3. CASE Recent(typePhotos[t])
  <2>1. Shows(w, t, Pic(typePhotos[t])) /\ UNCHANGED <<typeLocks, lost>>
    BY <1>3 DEF TypePhoto
  <2>2. Pic(typePhotos[t]) \in BOOLEAN
    BY <1>1 DEF PhotoInv, PicturesOK, Pic, Row
  <2>3. Pic(typePhotos'[t]) <=> Pic(typePhotos[t])
    BY <1>1
  <2>4. LookUpsOK' /\ ShownOK'
    BY <1>1, <2>1, <2>2, <2>3, AnswerOK DEF PhotoInv
  <2> QED BY <1>2, <2>1, <2>4 DEF PhotoInv
<1>4. CASE ~Recent(typePhotos[t])
  <2> DEFINE taken == Locked(got.lock.id) \/ Waiting(got.lock.id) # {}
             new == [r EXCEPT !.hex = None, !.since = now, !.raised = FALSE, !.lock = got.lock.id,
                              !.at = IF taken THEN "wait" ELSE "look"]
  <2>1. /\ typeLocks' = got.after /\ lost' = lost \cup {e.type : e \in Evicted(got)} /\ shown' = None
        /\ job' = [job EXCEPT ![w] = new]
    BY <1>4 DEF TypePhoto
  <2>2. /\ got.lock \in Entry /\ got.lock.type = t /\ TableOK(got.after)
        /\ ToSet(got.after) \subseteq ToSet(typeLocks) \cup {got.lock}
        /\ \A e \in ToSet(typeLocks) \cup {got.lock} : e \notin ToSet(got.after) => ~Locked(e.id)
    BY <1>1, TypeLockOK DEF PhotoInv, LookUpsOK
  <2>3. ToSet(typeLocks) \subseteq Entry
    <3>1. typeLocks \in Seq(Entry)
      BY DEF PhotoInv, TableOK
    <3> QED BY <3>1, ElementOfSeq DEF ToSet
  <2>4. got.lock = [type |-> t, id |-> got.lock.id] /\ got.lock.id \in LockIds
    BY <2>2 DEF Entry
  <2>5. /\ new \in LookUp /\ new.type = t /\ new.lock = got.lock.id /\ ~new.raised
        /\ (new.at = "look" => ~taken) /\ new.at \in {"wait", "look"} /\ new # None
    <3>1. new \in LookUp /\ new.type = t /\ new.lock = got.lock.id /\ new.raised = FALSE
      BY <1>1, <2>4 DEF LookUp
    <3>2. new.at = IF taken THEN "wait" ELSE "look"
      BY DEF LookUp
    <3>3. new # None
      BY <3>1, PhotosAssumption
    <3> QED BY <3>1, <3>2, <3>3
  <2> HIDE DEF new
  <2>6. lost' \subseteq Types
    BY <2>1, <2>2, <2>3 DEF PhotoInv, Evicted, Entry
  <2>7. job' \in [Jobs -> {None} \cup LookUp] /\ job'[w] = new /\ \A k \in Jobs : k # w => job'[k] = job[k]
    BY <1>1, <2>1, <2>5 DEF PhotoInv, LookUpsOK, JobsOK
  <2>8. JobsOK' /\ BotsOK' /\ FailuresKept'
    BY <1>1, <2>5, <2>7 DEF PhotoInv, LookUpsOK, JobsOK, BotsOK, FailuresKept, Jobs
  <2>9. ASSUME NEW e \in ToSet(typeLocks) \cup {got.lock}, e \notin ToSet(got.after), e = got.lock \/ Waiting(e.id) # {}
        PROVE  e.type \in lost'
    BY <2>1, <2>2, <2>9 DEF Evicted
  <2> HIDE DEF got
  <2>10. ASSUME NEW v \in Web, Working(job'[v])
         PROVE  job'[v].type \in lost' \/ [type |-> job'[v].type, id |-> job'[v].lock] \in ToSet(typeLocks')
    <3>1. CASE v = w
      BY <1>1, <2>1, <2>4, <2>5, <2>7, <2>9, <3>1
    <3>2. CASE v # w
      <4> DEFINE e == [type |-> job[v].type, id |-> job[v].lock]
      <4>1. job'[v] = job[v] /\ Working(job[v])
        BY <2>7, <2>10, <3>2 DEF Jobs
      <4>2. job[v].type \in lost \/ e \in ToSet(typeLocks)
        BY <4>1 DEF PhotoInv, LookUpsOK, LocksOK
      <4>3. CASE job[v].type \in lost
        BY <2>1, <4>1, <4>3
      <4>4. CASE e \in ToSet(got.after)
        BY <2>1, <4>1, <4>4
      <4>5. CASE e \in ToSet(typeLocks) /\ e \notin ToSet(got.after)
        <5>1. ~Locked(job[v].lock)
          BY <2>2, <4>5
        <5>2. v \in Waiting(job[v].lock)
          BY <4>1, <5>1 DEF Working, Waiting, Locked, Holds
        <5>3. e.type \in lost'
          BY <2>9, <4>5, <5>2
        <5> QED BY <4>1, <5>3
      <4> QED BY <4>2, <4>3, <4>4, <4>5
    <3> QED BY <3>1, <3>2
  <2>11. ASSUME NEW u \in Web, NEW v \in Web, u # v, Holding(job'[u]), Holding(job'[v])
         PROVE  job'[u].lock # job'[v].lock
    <3>1. ASSUME NEW k \in Web, k # w, Holding(job[k]), Holding(new) PROVE job[k].lock # new.lock
      BY <2>5, <3>1 DEF Holding, Locked, Holds
    <3>2. CASE u = w
      BY <2>7, <2>11, <3>1, <3>2 DEF Jobs
    <3>3. CASE v = w
      BY <2>7, <2>11, <3>1, <3>3 DEF Jobs
    <3>4. CASE u # w /\ v # w
      BY <2>7, <2>11, <3>4 DEF PhotoInv, LookUpsOK, LocksOK, Jobs
    <3> QED BY <3>2, <3>3, <3>4
  <2>12. LookUpsOK'
    BY <2>8, <2>10, <2>11 DEF LookUpsOK, LocksOK
  <2>13. ShownOK'
    BY <2>1, QuietOK
  <2> QED BY <1>2, <2>1, <2>2, <2>6, <2>12, <2>13 DEF PhotoInv
<1> QED BY <1>3, <1>4

-----------------------------------------------------------------------------
(* The steps of the photos *)

LEMMA PhotosInitOK == PhotosInit => PhotoInv
<1> SUFFICES ASSUME PhotosInit PROVE PhotoInv
  OBVIOUS
<1>1. now \in 0..MaxNow /\ asks \in 0..MaxAsks /\ lost \subseteq Types /\ now - Ttl \in 0..MaxNow
  BY PhotosAssumption DEF PhotosInit
<1>2. PicturesOK
  <2>1. {None, [pic |-> TRUE, at |-> now - Ttl], [pic |-> FALSE, at |-> now]} \subseteq Row \cup {None}
    BY <1>1 DEF Row
  <2> QED BY <2>1 DEF PhotosInit, PicturesOK
<1>3. ShownOK
  BY DEF PhotosInit, ShownOK, NoBlank
<1>4. TableOK(typeLocks)
  BY PhotosAssumption DEF PhotosInit, TableOK, Distinct
<1>5. LookUpsOK
  <2>1. \A j \in Jobs : job[j] = None
    BY DEF PhotosInit
  <2>2. JobsOK
    BY DEF PhotosInit, JobsOK
  <2>3. BotsOK /\ LocksOK /\ FailuresKept
    BY <2>1 DEF BotsOK, LocksOK, FailuresKept, Working, Holding, Jobs
  <2> QED BY <2>2, <2>3 DEF LookUpsOK
<1> QED BY <1>1, <1>2, <1>3, <1>4, <1>5 DEF PhotoInv

LEMMA NewJobOK ==
  ASSUME NEW h \in Hexes, NEW t \in Types
  PROVE  /\ NewJob(h, t) \in LookUp /\ NewJob(h, t).lock = None /\ NewJob(h, t).raised = FALSE
         /\ [NewJob(h, t) EXCEPT !.at = "fetch"] \in LookUp
         /\ [NewJob(h, t) EXCEPT !.at = "fetch"].lock = None /\ [NewJob(h, t) EXCEPT !.at = "fetch"].raised = FALSE
<1>1. 0 \in 0..MaxNow
  BY PhotosAssumption
<1>2. NewJob(h, t) \in LookUp /\ NewJob(h, t).lock = None /\ NewJob(h, t).raised = FALSE
  BY <1>1 DEF NewJob, LookUp
<1> DEFINE r == NewJob(h, t)
<1> HIDE DEF r
<1>3. r \in LookUp => [r EXCEPT !.at = "fetch"] \in LookUp
  BY DEF LookUp
<1>4. r \in LookUp => [r EXCEPT !.at = "fetch"].lock = r.lock /\ [r EXCEPT !.at = "fetch"].raised = r.raised
  BY DEF LookUp
<1> QED BY <1>2, <1>3, <1>4 DEF r

LEMMA AskOK == ASSUME PhotoInv, NEW w \in Web, Ask(w) PROVE PhotoInv'
<1>1. PICK a \in Asks :
        /\ job[w] = None /\ asks < MaxAsks /\ asks' = asks + 1 /\ UNCHANGED <<now, pictures>>
        /\ LET row == photos[a[1]]  r == NewJob(a[1], a[2])
           IN  IF ~Recent(row) THEN job' = [job EXCEPT ![w] = [r EXCEPT !.at = "fetch"]] /\ shown' = None /\ UNCHANGED <<typeLocks, lost>>
               ELSE IF row.pic THEN Shows(w, a[2], TRUE) /\ UNCHANGED <<typeLocks, lost>>
               ELSE TypePhoto(w, r)
  BY DEF Ask, Idle
<1> DEFINE r == NewJob(a[1], a[2])
<1>2. a[1] \in Hexes /\ a[2] \in Types /\ w \in Jobs /\ w \notin Bots
  BY PhotosAssumption DEF Jobs
<1>3. asks' \in 0..MaxAsks /\ PicturesOK' /\ now' \in 0..MaxNow
  BY <1>1, PhotosAssumption DEF PhotoInv, PicturesOK, pictures
<1>4. CASE job' = [job EXCEPT ![w] = [r EXCEPT !.at = "fetch"]] /\ shown' = None /\ UNCHANGED <<typeLocks, lost>>
  <2> DEFINE new == [r EXCEPT !.at = "fetch"]
  <2>1. new \in LookUp /\ new.lock = None /\ ~new.raised /\ job' = [job EXCEPT ![w] = new]
    BY <1>2, <1>4, NewJobOK
  <2> HIDE DEF new
  <2>2. ~Working(new) /\ ~Holding(new)
    BY <2>1 DEF Working, Holding
  <2>3. LookUpsOK'
    BY <1>2, <1>4, <2>1, <2>2, JobChanged DEF PhotoInv
  <2> QED BY <1>3, <1>4, <2>3, QuietOK DEF PhotoInv
<1>5. CASE Shows(w, a[2], TRUE) /\ UNCHANGED <<typeLocks, lost>>
  <2>1. LookUpsOK' /\ ShownOK'
    BY <1>2, <1>5, AnswerOK DEF PhotoInv
  <2> QED BY <1>3, <1>5, <2>1 DEF PhotoInv
<1>6. CASE TypePhoto(w, r)
  <2>1. r \in LookUp
    BY <1>2, PhotosAssumption DEF NewJob, LookUp
  <2> HIDE DEF r
  <2>2. ~Working(job[w])
    BY <1>1 DEF Working
  <2> QED BY <1>1, <1>3, <1>6, <2>1, <2>2, TypePhotoOK
<1> QED BY <1>1, <1>4, <1>5, <1>6

\* The look-up a step is of.
LEMMA JobIs ==
  ASSUME PhotoInv, NEW j \in Jobs, job[j] # None
  PROVE  /\ job[j] \in LookUp /\ job[j].type \in Types /\ job[j].since \in 0..MaxNow
         /\ job[j].errored \in BOOLEAN /\ job[j].raised \in BOOLEAN
         /\ (job[j].raised => job[j].errored \/ job[j].at = "types")
         /\ (j \in Bots => job[j].lock = None)
         /\ typePhotos[job[j].type] \in Row \cup {None}
BY DEF PhotoInv, LookUpsOK, JobsOK, BotsOK, FailuresKept, LookUp, PicturesOK

\* A step to another place of the ladder with the lock it has.
LEMMA GoesOnOK ==
  ASSUME PhotoInv, NEW j \in Jobs, job[j] # None, NEW r \in LookUp, job' = [job EXCEPT ![j] = r],
         r.type = job[j].type, r.lock = job[j].lock, r.raised => r.errored \/ r.at = "types", UNCHANGED <<typeLocks, lost>>,
         r.at \in {"fetch", "types", "specific"} \/ job[j].at \in {"look", "probe", "wiki"}
  PROVE  LookUpsOK'
<1>1. r # None /\ (j \in Bots => r.lock = None)
  BY PhotosAssumption, JobIs
<1>2. Working(r) => Working(job[j])
  BY DEF Working
<1>3. Holding(r) => Holding(job[j])
  BY DEF Holding
<1> QED BY <1>1, <1>2, <1>3, JobChanged DEF PhotoInv

LEMMA HitIs == ASSUME NEW at \in 0..MaxNow PROVE Pic([pic |-> TRUE, at |-> at])
<1>1. [pic |-> TRUE, at |-> at] \in Row
  BY DEF Row
<1>2. [pic |-> TRUE, at |-> at] # None
  BY <1>1, PhotosAssumption
<1> QED BY <1>2 DEF Pic

LEMMA PicIs == ASSUME NEW row \in Row \cup {None} PROVE Pic(row) \in BOOLEAN
BY DEF Pic, Row

LEMMA FetchedOK == ASSUME PhotoInv, NEW w \in Web, Fetched(w) PROVE PhotoInv'
<1>1. PICK o \in Outcomes :
        LET h == job[w].hex
        IN  /\ At(w, "fetch")
            /\ photos' = CASE Status(o) = "hit" -> [photos EXCEPT ![h] = [pic |-> TRUE, at |-> now]]
                           [] Status(o) = "miss" -> [photos EXCEPT ![h] = Missed(photos[h])]
                           [] OTHER -> photos
            /\ IF Status(o) = "hit" \/ (Status(o) = "error" /\ Pic(photos[h]))
               THEN Shows(w, job[w].type, TRUE)
               ELSE /\ job' = [job EXCEPT ![w].at = "types", ![w].hex = None, ![w].raised = (Status(o) = "error")]
                    /\ shown' = None
            /\ UNCHANGED <<asks, now, typePhotos, typeLocks, lost>>
  BY DEF Fetched
<1> DEFINE h == job[w].hex
           t == job[w].type
           failed == Status(o) = "error"
           r == [job[w] EXCEPT !.at = "types", !.hex = None, !.raised = failed]
<1>2. w \in Jobs /\ job[w] # None
  BY <1>1 DEF At, Jobs
<1>3. job[w] \in LookUp /\ t \in Types
  BY <1>2, JobIs
<1>4. PicturesOK'
  <2>1. h \in DOMAIN photos => Missed(photos[h]) \in Row \cup {None}
    BY DEF PhotoInv, PicturesOK, Missed, Row
  <2>2. [pic |-> TRUE, at |-> now] \in Row
    BY DEF PhotoInv, Row
  <2>3. photos' \in [Hexes -> Row \cup {None}]
    BY <1>1, <2>1, <2>2 DEF PhotoInv, PicturesOK
  <2> QED BY <1>1, <2>3 DEF PhotoInv, PicturesOK
<1>5. CASE Shows(w, t, TRUE)
  <2>1. LookUpsOK' /\ ShownOK'
    BY <1>1, <1>2, <1>3, <1>5, AnswerOK DEF PhotoInv
  <2> QED BY <1>1, <1>4, <2>1 DEF PhotoInv
<1>6. CASE job' = [job EXCEPT ![w].at = "types", ![w].hex = None, ![w].raised = failed] /\ shown' = None
  <2>0. failed \in BOOLEAN
    OBVIOUS
  <2> HIDE DEF failed
  <2>1. job' = [job EXCEPT ![w] = r]
    BY <1>2, <1>6 DEF PhotoInv, LookUpsOK, JobsOK
  <2>2. r \in LookUp /\ r.type = t /\ r.lock = job[w].lock /\ r.at = "types"
    BY <1>3, <2>0 DEF LookUp
  <2> HIDE DEF r
  <2>3. LookUpsOK'
    BY <1>1, <1>2, <2>1, <2>2, GoesOnOK
  <2> QED BY <1>1, <1>4, <1>6, <2>3, QuietOK DEF PhotoInv
<1> QED BY <1>1, <1>5, <1>6

LEMMA TypeAskedOK == ASSUME PhotoInv, NEW w \in Web, TypeAsked(w) PROVE PhotoInv'
<1>1. w \in Jobs /\ job[w] # None /\ job[w].at = "types" /\ TypePhoto(w, job[w]) /\ UNCHANGED <<asks, now, pictures>>
  BY DEF TypeAsked, At, Jobs
<1>2. job[w] \in LookUp /\ ~Working(job[w])
  BY <1>1, JobIs DEF Working
<1>3. asks' \in 0..MaxAsks
  BY <1>1 DEF PhotoInv
<1> QED BY <1>1, <1>2, <1>3, TypePhotoOK DEF pictures

LEMMA GrantedOK == ASSUME PhotoInv, NEW w \in Web, Granted(w) PROVE PhotoInv'
<1> DEFINE t == job[w].type
           row == typePhotos[t]
           r == [job[w] EXCEPT !.at = "look"]
<1>1. /\ w \in Jobs /\ job[w] # None /\ job[w].at = "wait" /\ ~Locked(job[w].lock)
      /\ IF RecentAt(row, job[w].since) THEN Shows(w, t, row.pic) ELSE Goes(w, "look")
      /\ UNCHANGED <<asks, now, photos, typePhotos, typeLocks, lost>>
  BY DEF Granted, At, Jobs, pictures
<1>2. job[w] \in LookUp /\ t \in Types /\ (job[w].raised => job[w].errored) /\ row \in Row \cup {None}
  BY <1>1, JobIs
<1>3. CASE row # None /\ Shows(w, t, row.pic)
  <2>1. row.pic \in BOOLEAN
    BY <1>2, <1>3 DEF Row
  <2>2. typePhotos'[t] = row
    BY <1>1
  <2>3. row.pic \/ ~Pic(typePhotos'[t])
    BY <1>1, <1>3 DEF Pic
  <2> HIDE DEF row, t
  <2>4. LookUpsOK' /\ ShownOK'
    BY <1>1, <1>2, <1>3, <2>1, <2>3, AnswerOK DEF PhotoInv
  <2> QED BY <1>1, <2>4 DEF PhotoInv, PicturesOK
<1>4. CASE Goes(w, "look")
  <2>1. job' = [job EXCEPT ![w] = r] /\ shown' = None
    BY <1>1, <1>4 DEF Goes, PhotoInv, LookUpsOK, JobsOK
  <2>2. r \in LookUp /\ r.type = t /\ r.lock = job[w].lock /\ (r.raised => r.errored) /\ r # None
    BY <1>2, PhotosAssumption DEF LookUp
  <2>3. w \notin Bots
    BY PhotosAssumption
  <2> HIDE DEF r
  <2>4. Working(r) => Working(job[w])
    BY <1>1, <2>2 DEF Working
  <2>5. LookUpsOK'
    BY <1>1, <2>1, <2>2, <2>3, <2>4, JobChanged DEF PhotoInv
  <2> QED BY <1>1, <2>1, <2>5, QuietOK DEF PhotoInv, PicturesOK
<1> QED BY <1>1, <1>3, <1>4 DEF RecentAt

LEMMA NotifyOK == ASSUME PhotoInv, NEW b \in Bots, Notify(b) PROVE PhotoInv'
<1>1. PICK a \in Asks :
        /\ job[b] = None /\ asks + 2 <= MaxAsks /\ asks' = asks + 2
        /\ job' = [job EXCEPT ![b] = NewJob(a[1], a[2])] /\ shown' = None
        /\ UNCHANGED <<now, photos, typePhotos, typeLocks, lost>>
  BY DEF Notify, Idle, pictures
<1>2. b \in Jobs /\ a[1] \in Hexes /\ a[2] \in Types
  BY PhotosAssumption DEF Jobs
<1> DEFINE r == NewJob(a[1], a[2])
<1>3. r \in LookUp /\ r.lock = None /\ ~r.raised
  BY <1>2, PhotosAssumption DEF NewJob, LookUp
<1> HIDE DEF r
<1>4. LookUpsOK'
  BY <1>1, <1>2, <1>3, JobChanged DEF PhotoInv, Working, Holding, r
<1>5. asks' \in 0..MaxAsks
  BY <1>1, PhotosAssumption DEF PhotoInv
<1> QED BY <1>1, <1>4, <1>5, QuietOK DEF PhotoInv, PicturesOK

\* A row of a type is written.
LEMMA TypeRowSet ==
  ASSUME PhotoInv, NEW t \in Types, NEW row \in Row, typePhotos' = [typePhotos EXCEPT ![t] = row]
  PROVE  typePhotos' \in [Types -> Row \cup {None}] /\ typePhotos'[t] = row
BY DEF PhotoInv, PicturesOK

LEMMA LookOK == ASSUME PhotoInv, NEW j \in Jobs, Look(j) PROVE PhotoInv'
<1> DEFINE t == job[j].type
           h == job[j].hex
           found == [pic |-> TRUE, at |-> now]
           next == IF j \in Bots /\ ~Recent(photos[h]) THEN "specific" ELSE "probe"
           r == [job[j] EXCEPT !.since = now, !.at = next]
<1>1. /\ job[j] # None /\ job[j].at = "look"
      /\ IF Closed(j) THEN Shows(j, t, Pic(photos[h])) /\ UNCHANGED typePhotos
         ELSE IF Recent(typePhotos[t]) THEN Shows(j, t, Pic(typePhotos[t])) /\ UNCHANGED typePhotos
         ELSE IF Sibling(t) THEN Shows(j, t, TRUE) /\ typePhotos' = [typePhotos EXCEPT ![t] = found]
         ELSE /\ job' = [job EXCEPT ![j].since = now, ![j].at = next]
              /\ shown' = None /\ UNCHANGED typePhotos
      /\ UNCHANGED <<asks, now, photos, typeLocks, lost>>
  BY DEF Look, At
<1>2. job[j] \in LookUp /\ t \in Types /\ (job[j].raised => job[j].errored) /\ typePhotos[t] \in Row \cup {None}
  BY <1>1, JobIs
<1>3. CASE UNCHANGED typePhotos /\ \E pic \in BOOLEAN : (pic \/ pic = Pic(typePhotos[t])) /\ Shows(j, t, pic)
  <2>1. PICK pic \in BOOLEAN : (pic \/ pic = Pic(typePhotos[t])) /\ Shows(j, t, pic)
    BY <1>3
  <2>2. pic \/ ~Pic(typePhotos'[t])
    BY <1>3, <2>1
  <2> HIDE DEF t
  <2>3. LookUpsOK' /\ ShownOK'
    BY <1>1, <1>2, <2>1, <2>2, AnswerOK DEF PhotoInv
  <2> QED BY <1>1, <1>3, <2>3 DEF PhotoInv, PicturesOK
<1>4. CASE Shows(j, t, TRUE) /\ typePhotos' = [typePhotos EXCEPT ![t] = found]
  <2>1. found \in Row
    BY DEF PhotoInv, Row
  <2>2. PicturesOK'
    BY <1>1, <1>2, <1>4, <2>1, TypeRowSet DEF PhotoInv, PicturesOK
  <2>3. LookUpsOK' /\ ShownOK'
    BY <1>1, <1>2, <1>4, AnswerOK DEF PhotoInv
  <2> QED BY <1>1, <2>2, <2>3 DEF PhotoInv
<1>5. CASE UNCHANGED typePhotos /\ job' = [job EXCEPT ![j].since = now, ![j].at = next] /\ shown' = None
  <2>1. next \in {"specific", "probe"}
    OBVIOUS
  <2> HIDE DEF next
  <2>2. job' = [job EXCEPT ![j] = r]
    BY <1>1, <1>5 DEF PhotoInv, LookUpsOK, JobsOK
  <2>3. r \in LookUp /\ r.type = job[j].type /\ r.lock = job[j].lock /\ (r.raised => r.errored)
    BY <1>2, <2>1 DEF LookUp, PhotoInv
  <2> HIDE DEF r
  <2>4. LookUpsOK'
    BY <1>1, <2>2, <2>3, GoesOnOK
  <2> QED BY <1>1, <1>5, <2>4, QuietOK DEF PhotoInv, PicturesOK
<1>6. CASE Closed(j)
  <2>1. Shows(j, t, TRUE) /\ UNCHANGED typePhotos
    BY <1>1, <1>6 DEF Closed, Pic
  <2> QED BY <1>3, <2>1
<1>7. CASE ~Closed(j) /\ Recent(typePhotos[t])
  <2>1. Pic(typePhotos[t]) \in BOOLEAN
    BY <1>2, PicIs
  <2> QED BY <1>1, <1>3, <1>7, <2>1
<1>8. CASE ~Closed(j) /\ ~Recent(typePhotos[t]) /\ Sibling(t)
  BY <1>1, <1>4, <1>8
<1>9. CASE ~Closed(j) /\ ~Recent(typePhotos[t]) /\ ~Sibling(t)
  BY <1>1, <1>5, <1>9
<1> QED BY <1>6, <1>7, <1>8, <1>9

LEMMA SpecificOK == ASSUME PhotoInv, NEW b \in Bots, Specific(b) PROVE PhotoInv'
<1> DEFINE t == job[b].type
           h == job[b].hex
<1>1. PICK o \in Outcomes :
        /\ job[b] # None /\ job[b].at = "specific"
        /\ photos' = [photos EXCEPT ![h] = Answered(@, Status(o), job[b].since)]
        /\ IF Status(o) = "hit" \/ (Status(o) = "error" /\ Pic(photos[h])) THEN Shows(b, t, TRUE)
           ELSE /\ job' = [job EXCEPT ![b].at = "probe", ![b].errored = Failed(b, Status(o)), ![b].raised = (Status(o) = "error")]
                /\ shown' = None
        /\ UNCHANGED <<asks, now, typePhotos, typeLocks, lost>>
  BY DEF Specific, At
<1> DEFINE failed == Status(o) = "error"
           r == [job[b] EXCEPT !.at = "probe", !.errored = Failed(b, Status(o)), !.raised = failed]
<1>2. /\ b \in Jobs /\ job[b] \in LookUp /\ t \in Types /\ job[b].since \in 0..MaxNow
      /\ job[b].errored \in BOOLEAN /\ job[b].lock = None
  BY <1>1, JobIs DEF Jobs
<1>3. PicturesOK'
  <2>1. [pic |-> Status(o) = "hit", at |-> job[b].since] \in Row
    BY <1>2 DEF Row
  <2>2. \A g \in Hexes : Answered(photos[g], Status(o), job[b].since) \in Row \cup {None}
    BY <2>1 DEF PhotoInv, PicturesOK, Answered
  <2>3. photos' \in [Hexes -> Row \cup {None}]
    BY <1>1, <2>2 DEF PhotoInv, PicturesOK
  <2> QED BY <1>1, <2>3 DEF PhotoInv, PicturesOK
<1>4. CASE Shows(b, t, TRUE)
  <2>1. LookUpsOK' /\ ShownOK'
    BY <1>1, <1>2, <1>4, AnswerOK DEF PhotoInv
  <2> QED BY <1>1, <1>3, <2>1 DEF PhotoInv
<1>5. CASE /\ job' = [job EXCEPT ![b].at = "probe", ![b].errored = Failed(b, Status(o)), ![b].raised = failed]
           /\ shown' = None
  <2>1. Failed(b, Status(o)) \in BOOLEAN /\ (failed => Failed(b, Status(o))) /\ failed \in BOOLEAN
    BY <1>2 DEF Failed
  <2> HIDE DEF failed
  <2>2. job' = [job EXCEPT ![b] = r]
    BY <1>2, <1>5 DEF PhotoInv, LookUpsOK, JobsOK
  <2>3. r \in LookUp /\ r.type = job[b].type /\ r.lock = job[b].lock
    BY <1>2, <2>1 DEF LookUp
  <2>4. r.raised => r.errored
    BY <1>2, <2>1 DEF LookUp
  <2> HIDE DEF r
  <2>5. r # None /\ ~Working(r) /\ ~Holding(r)
    BY <1>2, <2>3, PhotosAssumption DEF Working, Holding
  <2>6. LookUpsOK'
    BY <1>1, <1>2, <2>2, <2>3, <2>4, <2>5, JobChanged DEF PhotoInv
  <2> QED BY <1>1, <1>3, <1>5, <2>6, QuietOK DEF PhotoInv
<1> QED BY <1>1, <1>4, <1>5

LEMMA ProbeOK == ASSUME PhotoInv, NEW j \in Jobs, Probe(j) PROVE PhotoInv'
<1> DEFINE t == job[j].type
           found == [pic |-> TRUE, at |-> job[j].since]
<1>1. /\ job[j] # None /\ job[j].at = "probe" /\ UNCHANGED <<asks, now, typeLocks, lost>>
      /\ \/ Goes(j, "wiki") /\ UNCHANGED pictures
         \/ \E h \in Hexes :
              Shows(j, t, TRUE) /\ photos' = [photos EXCEPT ![h] = found] /\ typePhotos' = [typePhotos EXCEPT ![t] = found]
         \/ \E o \in Outcomes :
              /\ job' = [job EXCEPT ![j].at = "wiki", ![j].errored = Failed(j, Status(o)),
                                   ![j].raised = (@ \/ Status(o) = "error")]
              /\ shown' = None /\ UNCHANGED pictures
  BY DEF Probe, At
<1>2. /\ job[j] \in LookUp /\ t \in Types /\ job[j].since \in 0..MaxNow /\ (job[j].raised => job[j].errored)
      /\ job[j].errored \in BOOLEAN /\ job[j].raised \in BOOLEAN
  BY <1>1, JobIs
<1>3. CASE Goes(j, "wiki") /\ UNCHANGED pictures
  <2> DEFINE r == [job[j] EXCEPT !.at = "wiki"]
  <2>1. job' = [job EXCEPT ![j] = r] /\ shown' = None /\ UNCHANGED <<photos, typePhotos>>
    BY <1>3 DEF Goes, pictures, PhotoInv, LookUpsOK, JobsOK
  <2>2. r \in LookUp /\ r.type = job[j].type /\ r.lock = job[j].lock /\ (r.raised => r.errored)
    BY <1>2 DEF LookUp
  <2> HIDE DEF r
  <2>3. LookUpsOK'
    BY <1>1, <2>1, <2>2, GoesOnOK
  <2> QED BY <1>1, <2>1, <2>3, QuietOK DEF PhotoInv, PicturesOK
<1>4. ASSUME NEW h \in Hexes, Shows(j, t, TRUE), photos' = [photos EXCEPT ![h] = found],
             typePhotos' = [typePhotos EXCEPT ![t] = found]
      PROVE  PhotoInv'
  <2>1. found \in Row
    BY <1>2 DEF Row
  <2>2. photos' \in [Hexes -> Row \cup {None}]
    BY <1>4, <2>1 DEF PhotoInv, PicturesOK
  <2>3. PicturesOK'
    BY <1>2, <1>4, <2>1, <2>2, TypeRowSet DEF PicturesOK
  <2>4. LookUpsOK' /\ ShownOK'
    BY <1>1, <1>2, <1>4, AnswerOK DEF PhotoInv
  <2> QED BY <1>1, <2>3, <2>4 DEF PhotoInv
<1>5. ASSUME NEW o \in Outcomes, shown' = None, UNCHANGED pictures,
             job' = [job EXCEPT ![j].at = "wiki", ![j].errored = Failed(j, Status(o)),
                                ![j].raised = (@ \/ Status(o) = "error")]
      PROVE  PhotoInv'
  <2> DEFINE failed == Failed(j, Status(o))
             raised == job[j].raised \/ Status(o) = "error"
             r == [job[j] EXCEPT !.at = "wiki", !.errored = failed, !.raised = raised]
  <2>1. failed \in BOOLEAN /\ raised \in BOOLEAN /\ (raised => failed)
    BY <1>2 DEF Failed
  <2>2. job' = [job EXCEPT ![j] = r]
    BY <1>2, <1>5 DEF PhotoInv, LookUpsOK, JobsOK
  <2> HIDE DEF failed, raised
  <2>3. r \in LookUp /\ r.type = job[j].type /\ r.lock = job[j].lock
    BY <1>2, <2>1 DEF LookUp
  <2>4. r.raised => r.errored
    BY <1>2, <2>1 DEF LookUp
  <2> HIDE DEF r
  <2>5. LookUpsOK'
    BY <1>1, <2>2, <2>3, <2>4, GoesOnOK
  <2>6. UNCHANGED <<photos, typePhotos>>
    BY <1>5 DEF pictures
  <2> QED BY <1>1, <1>5, <2>5, <2>6, QuietOK DEF PhotoInv, PicturesOK
<1> QED BY <1>1, <1>3, <1>4, <1>5

LEMMA WikiOK == ASSUME PhotoInv, NEW j \in Jobs, Wiki(j) PROVE PhotoInv'
<1> DEFINE t == job[j].type
<1>1. /\ job[j] # None /\ UNCHANGED <<asks, now, photos, typeLocks, lost>>
      /\ \/ Shows(j, t, Pic(typePhotos[t])) /\ UNCHANGED typePhotos
         \/ \E pic \in BOOLEAN :
              Shows(j, t, pic) /\ typePhotos' = [typePhotos EXCEPT ![t] = [pic |-> pic, at |-> job[j].since]]
  BY DEF Wiki, At
<1>2. job[j] \in LookUp /\ t \in Types /\ job[j].since \in 0..MaxNow /\ typePhotos[t] \in Row \cup {None}
  BY <1>1, JobIs
<1>3. CASE Shows(j, t, Pic(typePhotos[t])) /\ UNCHANGED typePhotos
  <2>1. Pic(typePhotos[t]) \in BOOLEAN
    BY <1>2, PicIs
  <2>2. Pic(typePhotos[t]) \/ ~Pic(typePhotos'[t])
    BY <1>3 DEF Pic
  <2> HIDE DEF t
  <2>3. LookUpsOK' /\ ShownOK'
    BY <1>1, <1>2, <1>3, <2>1, <2>2, AnswerOK DEF PhotoInv
  <2> QED BY <1>1, <1>3, <2>3 DEF PhotoInv, PicturesOK
<1>4. ASSUME NEW pic \in BOOLEAN, Shows(j, t, pic), typePhotos' = [typePhotos EXCEPT ![t] = [pic |-> pic, at |-> job[j].since]]
      PROVE  PhotoInv'
  <2> DEFINE row == [pic |-> pic, at |-> job[j].since]
  <2>1. row \in Row /\ row.pic = pic
    BY <1>2 DEF Row
  <2> HIDE DEF row
  <2>2. typePhotos' \in [Types -> Row \cup {None}] /\ typePhotos'[t] = row
    BY <1>2, <1>4, <2>1, TypeRowSet DEF row
  <2>3. pic \/ ~Pic(typePhotos'[t])
    BY <1>1, <1>4, <2>1, <2>2 DEF Pic, Shows
  <2>4. LookUpsOK' /\ ShownOK'
    BY <1>1, <1>2, <1>4, <2>3, AnswerOK DEF PhotoInv
  <2> QED BY <1>1, <2>2, <2>4 DEF PhotoInv, PicturesOK
<1> QED BY <1>1, <1>3, <1>4

LEMMA PhotosStepOK == PhotoInv /\ [PhotosNext]_pictureVars => PhotoInv'
<1> SUFFICES ASSUME PhotoInv, [PhotosNext]_pictureVars PROVE PhotoInv'
  OBVIOUS
<1>1. CASE \E w \in Web : Ask(w) \/ Fetched(w) \/ TypeAsked(w) \/ Granted(w)
  BY <1>1, AskOK, FetchedOK, TypeAskedOK, GrantedOK
<1>2. CASE \E b \in Bots : Notify(b) \/ Specific(b)
  BY <1>2, NotifyOK, SpecificOK
<1>3. CASE \E j \in Jobs : Look(j) \/ Probe(j) \/ Wiki(j)
  BY <1>3, LookOK, ProbeOK, WikiOK
<1>4. CASE PhotoClock
  <2>1. /\ now < MaxNow /\ now' = now + 1 /\ shown' = None
        /\ UNCHANGED <<asks, photos, typePhotos, typeLocks, job, lost>>
    BY <1>4 DEF PhotoClock, pictures
  <2>2. now' \in 0..MaxNow
    BY <2>1, PhotosAssumption DEF PhotoInv
  <2>3. LookUpsOK'
    BY <2>1 DEF PhotoInv, LookUpsOK, JobsOK, BotsOK, LocksOK, FailuresKept
  <2> QED BY <2>1, <2>2, <2>3, QuietOK DEF PhotoInv, PicturesOK
<1>5. CASE UNCHANGED pictureVars
  <2>1. UNCHANGED <<now, photos, typePhotos, typeLocks, job, shown, asks, lost>>
    BY <1>5 DEF pictureVars
  <2>2. LookUpsOK'
    BY <2>1 DEF PhotoInv, LookUpsOK, JobsOK, BotsOK, LocksOK, FailuresKept
  <2>3. ShownOK'
    BY <2>1 DEF PhotoInv, ShownOK, NoBlank, Recent, RecentAt, Pic
  <2> QED BY <2>1, <2>2, <2>3 DEF PhotoInv, PicturesOK
<1> QED BY <1>1, <1>2, <1>3, <1>4, <1>5 DEF PhotosNext

\* One request at a time asks the sources for a type, unless its lock was evicted when someone
\* was about to take it, and no remembered miss hides a picture (api/_photos.py, photo_sources.py).
THEOREM PicturesSharedAlways == PhotosSpec => []PicturesShared
<1>1. PhotosSpec => []PhotoInv
  <2>1. PhotosInit => PhotoInv
    BY PhotosInitOK
  <2>2. PhotoInv /\ [PhotosNext]_pictureVars => PhotoInv'
    BY PhotosStepOK
  <2> QED BY <2>1, <2>2, PTL DEF PhotosSpec
<1>2. PhotoInv => PicturesShared
  BY PhotoInvIs
<1> QED BY <1>1, <1>2, PTL

-----------------------------------------------------------------------------
(* No picture is lost to an outage *)

LEMMA NoPictureLost ==
  ASSUME PhotoInv, PhotosNext
  PROVE  /\ \A h \in Hexes, j \in Jobs : Pic(photos[h]) /\ ~Pic(photos'[h]) /\ job'[j] # job[j] =>
              /\ job'[j] # None /\ ~job'[j].raised
              /\ j \in Web => photos[h].at <= now - Ttl - Grace
         /\ \A t \in Types, j \in Jobs :
              Pic(typePhotos[t]) /\ ~Pic(typePhotos'[t]) /\ job'[j] # job[j] => ~job[j].raised
<1>1. \A h \in Hexes : photos[h] \in Row \cup {None}
  BY DEF PhotoInv, PicturesOK
<1>2. now \in Int /\ Ttl \in Int /\ Grace \in Int /\ job \in [Jobs -> {None} \cup LookUp]
  BY PhotosAssumption DEF PhotoInv, LookUpsOK, JobsOK
<1>3. \A t \in Types : typePhotos[t] \in Row \cup {None}
  BY DEF PhotoInv, PicturesOK
<1>4. ASSUME NEW h \in Hexes, NEW j \in Jobs, Pic(photos[h]), ~Pic(photos'[h]), job'[j] # job[j]
      PROVE  /\ job'[j] # None /\ ~job'[j].raised
             /\ j \in Web => photos[h].at <= now - Ttl - Grace
  <2>1. photos[h] \in Row /\ photos[h].at \in Int /\ photos'[h] # photos[h]
    BY <1>1, <1>4 DEF Pic, Row
  <2>2. ASSUME NEW v \in Web, Fetched(v)
        PROVE  job'[j] # None /\ ~job'[j].raised /\ photos[h].at <= now - Ttl - Grace
    <3> DEFINE g == job[v].hex
    <3>1. PICK o \in Outcomes :
            /\ job[v] # None
            /\ photos' = CASE Status(o) = "hit" -> [photos EXCEPT ![g] = [pic |-> TRUE, at |-> now]]
                          [] Status(o) = "miss" -> [photos EXCEPT ![g] = Missed(photos[g])]
                          [] OTHER -> photos
            /\ IF Status(o) = "hit" \/ (Status(o) = "error" /\ Pic(photos[g]))
               THEN Shows(v, job[v].type, TRUE)
               ELSE job' = [job EXCEPT ![v].at = "types", ![v].hex = None, ![v].raised = (Status(o) = "error")]
      BY <2>2 DEF Fetched, At
    <3>2. photos'[h] # [pic |-> TRUE, at |-> now]
      <4> SUFFICES ASSUME photos'[h] = [pic |-> TRUE, at |-> now] PROVE Pic(photos'[h])
        BY <1>4
      <4>1. now \in 0..MaxNow
        BY DEF PhotoInv
      <4> QED BY <4>1, HitIs
    <3>3. CASE Status(o) = "miss"
      <4>1. photos'[h] = Missed(photos[h])
        BY <2>1, <3>1, <3>3 DEF PhotoInv, PicturesOK
      <4>2. ~(photos[h].at > now - Ttl - Grace)
        BY <1>4, <2>1, <4>1 DEF Missed
      <4>3. job' = [job EXCEPT ![v].at = "types", ![v].hex = None, ![v].raised = FALSE]
        BY <3>1, <3>3
      <4>4. v \in Jobs /\ j = v /\ job[v] \in LookUp
        BY <1>2, <1>4, <3>1, <4>3 DEF Jobs
      <4>5. job'[j] \in LookUp /\ ~job'[j].raised
        BY <1>2, <4>3, <4>4 DEF LookUp
      <4>6. job'[j] # None
        BY <4>5, PhotosAssumption
      <4> QED BY <1>2, <2>1, <4>2, <4>5, <4>6
    <3>4. CASE Status(o) # "miss"
      <4>1. photos'[h] = [pic |-> TRUE, at |-> now] \/ photos'[h] = photos[h]
        BY <3>1, <3>4 DEF PhotoInv, PicturesOK
      <4> QED BY <2>1, <3>2, <4>1
    <3> QED BY <3>3, <3>4
  <2>3. ASSUME NEW v \in Web, Ask(v) \/ TypeAsked(v) \/ Granted(v) PROVE FALSE
    BY <2>1, <2>3 DEF Ask, TypeAsked, Granted, pictures
  <2>4. ASSUME NEW b \in Bots, Notify(b) PROVE FALSE
    BY <2>1, <2>4 DEF Notify, pictures
  <2>5. ASSUME NEW b \in Bots, Specific(b)
        PROVE  job'[j] # None /\ ~job'[j].raised /\ j \notin Web
    <3> DEFINE g == job[b].hex
    <3>1. PICK o \in Outcomes :
            /\ job[b] # None
            /\ photos' = [photos EXCEPT ![g] = Answered(@, Status(o), job[b].since)]
            /\ IF Status(o) = "hit" \/ (Status(o) = "error" /\ Pic(photos[g])) THEN Shows(b, job[b].type, TRUE)
               ELSE job' = [job EXCEPT ![b].at = "probe", ![b].errored = Failed(b, Status(o)), ![b].raised = (Status(o) = "error")]
      BY <2>5 DEF Specific, At
    <3>2. b \in Jobs /\ b \notin Web /\ job[b] \in LookUp /\ job[b].since \in 0..MaxNow /\ job[b].errored \in BOOLEAN
      BY <3>1, PhotosAssumption, JobIs DEF Jobs
    <3>3. photos'[h] = Answered(photos[h], Status(o), job[b].since)
      BY <2>1, <3>1 DEF PhotoInv, PicturesOK
    <3>4. Status(o) # "error"
      BY <2>1, <3>3 DEF Answered
    <3>5. Status(o) # "hit"
      <4> SUFFICES ASSUME Status(o) = "hit" PROVE Pic(photos'[h])
        BY <1>4
      <4>1. photos'[h] = [pic |-> TRUE, at |-> job[b].since]
        BY <3>3 DEF Answered
      <4> QED BY <3>2, <4>1, HitIs
    <3> DEFINE failed == Failed(b, Status(o))
    <3>6. job' = [job EXCEPT ![b].at = "probe", ![b].errored = failed, ![b].raised = FALSE]
      BY <3>1, <3>4, <3>5
    <3>7. failed \in BOOLEAN
      BY <3>2 DEF Failed
    <3> HIDE DEF failed
    <3>8. j = b
      BY <1>2, <1>4, <3>2, <3>6
    <3>9. job'[j] \in LookUp /\ ~job'[j].raised
      BY <1>2, <3>2, <3>6, <3>7, <3>8 DEF LookUp
    <3>10. job'[j] # None
      BY <3>9, PhotosAssumption
    <3> QED BY <3>2, <3>8, <3>9, <3>10
  <2>6. ASSUME NEW k \in Jobs, Look(k) \/ Wiki(k) PROVE FALSE
    BY <2>1, <2>6 DEF Look, Wiki
  <2>7. ASSUME NEW k \in Jobs, Probe(k) PROVE FALSE
    <3>1. \/ UNCHANGED photos
          \/ \E g \in Hexes : photos' = [photos EXCEPT ![g] = [pic |-> TRUE, at |-> job[k].since]]
      BY <2>7 DEF Probe, pictures
    <3>2. photos'[h] = [pic |-> TRUE, at |-> job[k].since]
      BY <2>1, <3>1 DEF PhotoInv, PicturesOK
    <3>3. job[k].since \in 0..MaxNow
      <4>1. job[k] # None
        BY <2>7 DEF Probe, At
      <4> QED BY <4>1, JobIs
    <3> QED BY <1>4, <3>2, <3>3, HitIs
  <2>8. ~PhotoClock
    BY <2>1 DEF PhotoClock, pictures
  <2> QED BY <2>2, <2>3, <2>4, <2>5, <2>6, <2>7, <2>8 DEF PhotosNext
<1>5. ASSUME NEW t \in Types, NEW j \in Jobs, Pic(typePhotos[t]), ~Pic(typePhotos'[t]), job'[j] # job[j]
      PROVE  ~job[j].raised
  <2>1. typePhotos'[t] # typePhotos[t]
    BY <1>5
  <2>2. ASSUME NEW v \in Web, Ask(v) \/ Fetched(v) \/ TypeAsked(v) \/ Granted(v) PROVE FALSE
    BY <2>1, <2>2 DEF Ask, Fetched, TypeAsked, Granted, pictures
  <2>3. ASSUME NEW b \in Bots, Notify(b) \/ Specific(b) PROVE FALSE
    BY <2>1, <2>3 DEF Notify, Specific, pictures
  <2>4. ~PhotoClock
    BY <2>1 DEF PhotoClock, pictures
  <2>5. ASSUME NEW at \in 0..MaxNow, typePhotos'[t] = [pic |-> TRUE, at |-> at] PROVE FALSE
    <3>1. Pic([pic |-> TRUE, at |-> at])
      BY HitIs
    <3> QED BY <1>5, <2>5, <3>1
  <2>6. ASSUME NEW k \in Jobs, Look(k) PROVE FALSE
    <3>1. typePhotos' = typePhotos \/ typePhotos' = [typePhotos EXCEPT ![job[k].type] = [pic |-> TRUE, at |-> now]]
      BY <2>6 DEF Look
    <3>2. typePhotos'[t] = [pic |-> TRUE, at |-> now]
      BY <2>1, <3>1 DEF PhotoInv, PicturesOK
    <3> QED BY <2>5, <3>2 DEF PhotoInv
  <2>7. ASSUME NEW k \in Jobs, Probe(k) PROVE FALSE
    <3>1. typePhotos' = typePhotos \/ typePhotos' = [typePhotos EXCEPT ![job[k].type] = [pic |-> TRUE, at |-> job[k].since]]
      BY <2>7 DEF Probe, pictures
    <3>2. typePhotos'[t] = [pic |-> TRUE, at |-> job[k].since]
      BY <2>1, <3>1 DEF PhotoInv, PicturesOK
    <3>3. job[k] # None
      BY <2>7 DEF Probe, At
    <3> QED BY <2>5, <3>2, <3>3, JobIs
  <2>8. ASSUME NEW k \in Jobs, Wiki(k) PROVE ~job[j].raised
    <3>1. job[k] # None /\ job[k].at = "wiki"
      BY <2>8 DEF Wiki, At
    <3>2. k = j
      <4>1. \A i \in Jobs : i # k => job'[i] = job[i]
        BY <2>8 DEF Wiki, Shows, PhotoInv, LookUpsOK, JobsOK
      <4> QED BY <1>5, <4>1
    <3>3. CASE job[k].errored
      <4>1. typePhotos' = typePhotos \/ typePhotos' = [typePhotos EXCEPT ![job[k].type] = [pic |-> TRUE, at |-> job[k].since]]
        BY <2>8, <3>3 DEF Wiki
      <4>2. typePhotos'[t] = [pic |-> TRUE, at |-> job[k].since]
        BY <2>1, <4>1 DEF PhotoInv, PicturesOK
      <4> QED BY <2>5, <3>1, <4>2, JobIs
    <3>4. CASE ~job[k].errored
      BY <3>1, <3>2, <3>4, JobIs
    <3> QED BY <3>3, <3>4
  <2> QED BY <2>2, <2>3, <2>4, <2>6, <2>7, <2>8 DEF PhotosNext
<1> QED BY <1>4, <1>5

\* A row loses its picture only in a look-up whose call of the chain brought no failure, an airframe's
\* right after the answer, a type's at the end of the ladder (Wikipedia, which is not of the chain,
\* apart); in the web process the airframe's only past its time and the grace
\* (_resolve_and_cache_photo_miss, resolve_photo).
THEOREM OutageKeepsPhotosAlways == PhotosSpec => OutageKeepsPhotos
<1> DEFINE Kept ==
      /\ \A h \in Hexes, j \in Jobs : Pic(photos[h]) /\ ~Pic(photos'[h]) /\ job'[j] # job[j] =>
           /\ job'[j] # None /\ ~job'[j].raised
           /\ j \in Web => photos[h].at <= now - Ttl - Grace
      /\ \A t \in Types, j \in Jobs :
           Pic(typePhotos[t]) /\ ~Pic(typePhotos'[t]) /\ job'[j] # job[j] => ~job[j].raised
<1>1. PhotosInit => PhotoInv
  BY PhotosInitOK
<1>2. PhotoInv /\ [PhotosNext]_pictureVars => PhotoInv'
  BY PhotosStepOK
<1>3. PhotoInv /\ [PhotosNext]_pictureVars => [Kept]_pictureVars
  BY NoPictureLost
<1> QED BY <1>1, <1>2, <1>3, PTL DEF PhotosSpec, OutageKeepsPhotos

-----------------------------------------------------------------------------
(* Metrics and health: sums *)

Things(f, sign, K) == UNION {{t} \X (1..(sign * f[t])) : t \in K}
SumOver(f, K) == Cardinality(Things(f, 1, K)) - Cardinality(Things(f, -1, K))

LEMMA ThingsFinite ==
  ASSUME NEW K, IsFiniteSet(K), NEW f, \A t \in K : f[t] \in Int, NEW sign \in {1, -1}
  PROVE  IsFiniteSet(Things(f, sign, K)) /\ Cardinality(Things(f, sign, K)) \in Nat
<1> DEFINE part == [t \in K |-> {t} \X (1..(sign * f[t]))]
           P == {{t} \X (1..(sign * f[t])) : t \in K}
<1>1. IsFiniteSet(P)
  <2>1. part \in Surjection(K, P)
    <3>1. part \in [K -> P] /\ \A p \in P : \E t \in K : part[t] = p
      OBVIOUS
    <3> HIDE DEF part, P
    <3> QED BY <3>1 DEF Surjection
  <2> HIDE DEF part, P
  <2> QED BY <2>1, FS_Surjection
<1>2. ASSUME NEW p \in P PROVE IsFiniteSet(p)
  <2>1. PICK t \in K : p = {t} \X (1..(sign * f[t]))
    OBVIOUS
  <2>2. sign * f[t] \in Int /\ 1 \in Int
    OBVIOUS
  <2>3. IsFiniteSet(1..(sign * f[t])) /\ IsFiniteSet({t})
    BY <2>2, FS_Interval, FS_Singleton
  <2> QED BY <2>1, <2>3, FS_Product
<1>3. IsFiniteSet(UNION P)
  <2> HIDE DEF P
  <2> QED BY <1>1, <1>2, FS_UNION
<1>4. Things(f, sign, K) = UNION P
  BY DEF Things
<1> HIDE DEF P
<1> QED BY <1>3, <1>4, FS_CardinalityType

LEMMA ThingsAtMost ==
  ASSUME NEW K, IsFiniteSet(K), NEW f, \A t \in K : f[t] \in Int, NEW sign \in {1, -1},
         NEW v \in Nat, \A t \in K : sign * f[t] <= v
  PROVE  Cardinality(Things(f, sign, K)) <= v * Cardinality(K)
<1>1. Things(f, sign, K) \subseteq K \X (1..v)
  <2>1. \A t \in K : {t} \X (1..(sign * f[t])) \subseteq K \X (1..v)
    <3> TAKE t \in K
    <3>1. sign * f[t] \in Int /\ sign * f[t] <= v
      OBVIOUS
    <3>2. 1..(sign * f[t]) \subseteq 1..v
      BY <3>1
    <3> QED BY <3>2
  <2> QED BY <2>1 DEF Things
<1>2. IsFiniteSet(1..v) /\ Cardinality(1..v) = v
  <2>1. v \in Int /\ 1 \in Int
    OBVIOUS
  <2> QED BY <2>1, FS_Interval
<1>3. IsFiniteSet(K \X (1..v)) /\ Cardinality(K \X (1..v)) = Cardinality(K) * v
  BY <1>2, FS_Product
<1>4. Cardinality(Things(f, sign, K)) <= Cardinality(K \X (1..v))
  BY <1>1, <1>3, FS_Subset
<1>5. Cardinality(K) \in Nat
  BY FS_CardinalityType
<1> QED BY <1>3, <1>4, <1>5

LEMMA ThingsAtLeast ==
  ASSUME NEW K, IsFiniteSet(K), NEW f, \A t \in K : f[t] \in Int, NEW sign \in {1, -1},
         NEW v \in Nat, \A t \in K : sign * f[t] >= v
  PROVE  Cardinality(Things(f, sign, K)) >= v * Cardinality(K)
<1>1. K \X (1..v) \subseteq Things(f, sign, K)
  <2> SUFFICES ASSUME NEW t \in K, NEW n \in 1..v PROVE <<t, n>> \in Things(f, sign, K)
    OBVIOUS
  <2>1. sign * f[t] \in Int /\ sign * f[t] >= v
    OBVIOUS
  <2>2. n \in 1..(sign * f[t])
    BY <2>1
  <2>3. <<t, n>> \in {t} \X (1..(sign * f[t]))
    BY <2>2
  <2> QED BY <2>3 DEF Things
<1>2. IsFiniteSet(1..v) /\ Cardinality(1..v) = v
  <2>1. v \in Int /\ 1 \in Int
    OBVIOUS
  <2> QED BY <2>1, FS_Interval
<1>3. Cardinality(K \X (1..v)) = Cardinality(K) * v
  BY <1>2, FS_Product
<1>4. IsFiniteSet(Things(f, sign, K)) /\ Cardinality(Things(f, sign, K)) \in Nat
  BY ThingsFinite
<1>5. Cardinality(K \X (1..v)) <= Cardinality(Things(f, sign, K))
  BY <1>1, <1>4, FS_Subset
<1>6. Cardinality(K) \in Nat
  BY FS_CardinalityType
<1> QED BY <1>3, <1>4, <1>5, <1>6

LEMMA SumAtMost ==
  ASSUME NEW K, IsFiniteSet(K), NEW f, \A t \in K : f[t] \in Int, NEW v \in Int, \A t \in K : f[t] <= v
  PROVE  SumOver(f, K) <= v * Cardinality(K)
<1> DEFINE above == Cardinality(Things(f, 1, K))
           below == Cardinality(Things(f, -1, K))
           n == Cardinality(K)
<1>1. above \in Nat /\ below \in Nat /\ n \in Nat
  BY ThingsFinite, FS_CardinalityType
<1>2. CASE v >= 0
  <2>1. v \in Nat /\ \A t \in K : 1 * f[t] <= v
    BY <1>2
  <2>2. above <= v * n
    BY <2>1, ThingsAtMost
  <2> HIDE DEF above, below, n
  <2> QED BY <1>1, <2>2 DEF SumOver, above, below, n
<1>3. CASE v < 0
  <2> DEFINE u == -v
  <2>1. u \in Nat /\ (\A t \in K : -1 * f[t] >= u) /\ \A t \in K : 1 * f[t] <= 0
    BY <1>3
  <2>2. v * n = -(u * n)
    <3> HIDE DEF n
    <3> QED BY <1>1
  <2> HIDE DEF u
  <2>3. below >= u * n
    BY <2>1, ThingsAtLeast
  <2>4. above <= 0 * n
    BY <2>1, ThingsAtMost
  <2> HIDE DEF above, below, n
  <2>5. SumOver(f, K) = above - below
    BY DEF SumOver, above, below
  <2> QED BY <1>1, <2>1, <2>2, <2>3, <2>4, <2>5 DEF n
<1> QED BY <1>2, <1>3

LEMMA SumAtLeast ==
  ASSUME NEW K, IsFiniteSet(K), NEW f, \A t \in K : f[t] \in Int, NEW v \in Int, \A t \in K : f[t] >= v
  PROVE  SumOver(f, K) >= v * Cardinality(K)
<1> DEFINE above == Cardinality(Things(f, 1, K))
           below == Cardinality(Things(f, -1, K))
           n == Cardinality(K)
<1>1. above \in Nat /\ below \in Nat /\ n \in Nat
  BY ThingsFinite, FS_CardinalityType
<1>2. CASE v >= 0
  <2>1. v \in Nat /\ (\A t \in K : 1 * f[t] >= v) /\ \A t \in K : -1 * f[t] <= 0
    BY <1>2
  <2>2. above >= v * n
    BY <2>1, ThingsAtLeast
  <2>3. below <= 0 * n
    BY <2>1, ThingsAtMost
  <2> HIDE DEF above, below, n
  <2>4. SumOver(f, K) = above - below
    BY DEF SumOver, above, below
  <2>5. v * n \in Int
    BY <1>1
  <2> QED BY <1>1, <2>2, <2>3, <2>4, <2>5 DEF n
<1>3. CASE v < 0
  <2> DEFINE u == -v
  <2>1. u \in Nat /\ (\A t \in K : -1 * f[t] <= u)
    BY <1>3
  <2>2. v * n = -(u * n) /\ u * n \in Int
    <3> HIDE DEF n
    <3> QED BY <1>1
  <2> HIDE DEF u
  <2>3. below <= u * n
    BY <2>1, ThingsAtMost
  <2> HIDE DEF above, below, n
  <2>4. SumOver(f, K) = above - below
    BY DEF SumOver, above, below
  <2> QED BY <1>1, <2>2, <2>3, <2>4 DEF n
<1> QED BY <1>2, <1>3

-----------------------------------------------------------------------------
(* Metrics and health: the thread *)

\* What the report relies on: since something was last wrong the figures are fresh
\* and good, and either the thread has not woken since or it has stored one of them.
MetricsInv ==
    /\ MetricsTypeOK /\ rows \in [DOMAIN rows -> Readings]
    /\ lastMin.end \in 1..clock /\ good <= clock /\ heard <= clock /\ handle
    /\ lastMin.reading.aircraft \notin {0, None} => lastMin.end <= heard
    /\ \A t \in DOMAIN rows : rows[t].aircraft \notin {0, None} => t <= heard
    /\ ~Fine => good = clock
    /\ good < clock => lastMin.end = clock /\ lastMin.reading = Good
    /\ \A t \in DOMAIN rows : t > good => rows[t] = Good
    /\ wake <= good + Config.maxSleep \/ \E t \in DOMAIN rows : t > good /\ wake <= t + Config.interval

LEMMA MetricsInitOK == ASSUME MetricsInit PROVE MetricsInv
<1>1. rows = <<>> /\ DOMAIN rows = {}
  BY DEF MetricsInit
<1>2. rows \in [DOMAIN rows -> Readings]
  BY <1>1
<1>3. Config.interval \in Nat /\ Config.maxSleep \in Nat /\ Config.interval <= Config.maxSleep /\ MaxTroubles \in Nat
  BY MetricsAssumption
<1>4. Good \in Readings /\ Good.aircraft # None
  BY GoodAssumption DEF Figures
<1>5. clock = 1 /\ receiver = Good /\ feed = "fresh" /\ lastMin = [end |-> 1, reading |-> Good] /\ db = TRUE /\ handle = TRUE
      /\ sleep = Config.interval /\ wake = 1 /\ good = 1 /\ heard = 1 /\ troubles = 0
  BY DEF MetricsInit
<1>6. sleep \in Config.interval..Config.maxSleep /\ wake - clock \in 0..sleep /\ troubles \in 0..MaxTroubles
  BY <1>3, <1>5
<1>7. MetricsTypeOK
  BY <1>1, <1>4, <1>5, <1>6 DEF MetricsTypeOK
<1>8. lastMin.end \in 1..clock /\ good <= clock /\ heard <= clock /\ ~(good < clock) /\ lastMin.end <= heard /\ wake <= good + Config.maxSleep
  BY <1>3, <1>5
<1> QED BY <1>1, <1>2, <1>5, <1>7, <1>8 DEF MetricsInv, Fine

LEMMA DoubledIs == ASSUME NEW s \in Config.interval..Config.maxSleep PROVE Doubled(s) \in Config.interval..Config.maxSleep
<1>1. s \in Nat /\ 2 * s \in Nat /\ Config.maxSleep \in Nat /\ Config.interval \in Nat
  BY MetricsAssumption
<1>2. \E x \in {2 * s, Config.maxSleep} : \A y \in {2 * s, Config.maxSleep} : x <= y
  BY <1>1
<1>3. Doubled(s) \in {2 * s, Config.maxSleep} /\ Doubled(s) <= Config.maxSleep
  BY <1>2 DEF Min, Doubled
<1> QED BY <1>1, <1>3

\* Either a row is stored, or something is wrong.
LEMMA PollIs ==
  ASSUME MetricsInv, PollStats
  PROVE  (UNCHANGED rows /\ good = clock) \/ (InsertRow /\ sleep' = Config.interval)
<1> DEFINE stored == feed \notin {"gone", "bare"} /\ handle /\ db
<1>1. feed \in {"fresh", "stuck", "bare", "gone"} /\ db \in BOOLEAN
  BY DEF MetricsInv, MetricsTypeOK
<1>2. handle /\ (~Fine => good = clock)
  BY Zenon DEF MetricsInv
<1>3. stored \/ good = clock
  BY <1>1, <1>2 DEF Fine
<1>4. CASE stored
  BY <1>4, Zenon DEF PollStats, Sleeps
<1>5. CASE ~stored
  <2>1. IF stored THEN InsertRow ELSE UNCHANGED rows
    BY Zenon DEF PollStats
  <2>2. UNCHANGED rows
    BY <1>5, <2>1, Zenon
  <2>3. good = clock
    BY <1>3, <1>5
  <2> QED BY <2>2, <2>3, Zenon
<1> QED BY <1>4, <1>5

LEMMA PollStatsOK == ASSUME MetricsInv, ~ConnectMayFail, PollStats PROVE MetricsInv'
<1> USE MetricsAssumption, GoodAssumption
<1>1. wake = clock /\ UNCHANGED <<clock, receiver, feed, lastMin, db, good, heard, troubles>>
  BY DEF PollStats
<1>2. MetricsTypeOK /\ sleep \in Config.interval..Config.maxSleep /\ clock \in Nat /\ good \in Nat /\ lastMin.end \in Nat
  BY DEF MetricsInv, MetricsTypeOK
<1>3. handle'
  BY DEF PollStats, Reconnect, MetricsInv
<1>4. PICK s \in Config.interval..Config.maxSleep : sleep' = s /\ wake' = clock + s
  BY <1>2, DoubledIs DEF PollStats, Sleeps
<1>5. CASE UNCHANGED rows /\ good = clock
  <2>1. wake' <= good' + Config.maxSleep
    BY <1>1, <1>2, <1>4, <1>5
  <2>2. MetricsTypeOK'
    BY <1>1, <1>2, <1>3, <1>4, <1>5 DEF MetricsTypeOK
  <2> QED BY <1>1, <1>3, <1>5, <2>1, <2>2 DEF MetricsInv, Fine
<1>6. CASE InsertRow /\ sleep' = Config.interval
  <2> DEFINE e == lastMin.end
  <2>1. rows' = [t \in DOMAIN rows \cup {e} |-> IF t \in DOMAIN rows THEN rows[t] ELSE lastMin.reading]
    BY <1>6 DEF InsertRow, Stamped
  <2>2. DOMAIN rows' = DOMAIN rows \cup {e} /\ rows' \in [DOMAIN rows' -> Readings] /\ \A t \in DOMAIN rows' : rows'[t] \in Readings
    <3>1. lastMin.reading \in Readings /\ rows \in [DOMAIN rows -> Readings]
      BY <1>2 DEF MetricsTypeOK, MetricsInv
    <3> HIDE DEF e
    <3> QED BY <2>1, <3>1
  <2>3. e \in 1..clock /\ e \in 1..e
    BY <1>2 DEF MetricsInv
  <2>4. MetricsTypeOK'
    <3>1. DOMAIN rows' \subseteq 1..lastMin.end'
      BY <1>1, <1>2, <2>2, <2>3 DEF MetricsTypeOK
    <3>2. wake' \in Nat /\ wake' - clock' \in 0..sleep'
      BY <1>1, <1>2, <1>4
    <3> QED BY <1>1, <1>2, <1>3, <1>4, <2>2, <3>1, <3>2 DEF MetricsTypeOK
  <2>5. ASSUME NEW t \in DOMAIN rows'
        PROVE  (rows'[t].aircraft \notin {0, None} => t <= heard) /\ (t > good => rows'[t] = Good)
    <3>1. CASE t \in DOMAIN rows
      BY <2>1, <3>1 DEF MetricsInv
    <3>2. CASE t \notin DOMAIN rows
      <4>1. t = e /\ rows'[t] = lastMin.reading
        BY <2>1, <2>2, <3>2
      <4> QED BY <1>2, <2>3, <4>1 DEF MetricsInv
    <3> QED BY <3>1, <3>2
  <2>6. wake' <= good + Config.maxSleep \/ \E t \in DOMAIN rows' : t > good /\ wake' <= t + Config.interval
    <3>1. CASE good = clock
      BY <1>2, <1>4, <3>1
    <3>2. CASE good < clock
      <4>1. e > good /\ wake' = e + Config.interval
        BY <1>4, <1>6, <3>2 DEF MetricsInv
      <4>2. wake' \in Int
        BY <1>2, <1>4
      <4> HIDE DEF e
      <4> QED BY <2>2, <4>1, <4>2
    <3> QED BY <1>2, <3>1, <3>2 DEF MetricsInv
  <2> HIDE DEF e
  <2> QED BY <1>1, <1>3, <2>2, <2>4, <2>5, <2>6 DEF MetricsInv, Fine
<1>7. (UNCHANGED rows /\ good = clock) \/ (InsertRow /\ sleep' = Config.interval)
  BY PollIs
<1> QED BY <1>5, <1>6, <1>7

LEMMA TickOK == ASSUME MetricsInv, Tick PROVE MetricsInv'
<1> USE MetricsAssumption, GoodAssumption
<1>1. clock' = clock + 1 /\ wake > clock /\ clock < MaxClock /\ UNCHANGED <<receiver, feed, db, handle, rows, sleep, wake, troubles>>
  BY DEF Tick, thread
<1>2. MetricsTypeOK /\ sleep \in Config.interval..Config.maxSleep /\ {clock, good, heard, wake, lastMin.end} \subseteq Nat
  BY DEF MetricsInv, MetricsTypeOK
<1>3. lastMin' = lastMin \/ lastMin' = [end |-> clock', reading |-> receiver]
  BY DEF Tick
<1>4. lastMin'.end \in 1..clock' /\ lastMin.end <= lastMin'.end /\ lastMin'.reading \in Readings
  BY <1>1, <1>2, <1>3 DEF MetricsInv, MetricsTypeOK
<1>5. heard' \in Nat /\ heard <= heard' /\ heard' <= clock' /\ (lastMin'.reading.aircraft \notin {0, None} => lastMin'.end <= heard')
  BY <1>1, <1>2 DEF Tick, MetricsInv
<1>6. good' \in Nat /\ good <= good' /\ good' <= clock' /\ (~Fine' => good' = clock')
  BY <1>1, <1>2 DEF Tick, MetricsInv, Fine
<1>7. good' < clock' => lastMin'.end = clock' /\ lastMin'.reading = Good
  BY <1>1, <1>2 DEF Tick, Fine
<1>8. wake' - clock' \in 0..sleep' /\ clock' \in Nat /\ wake' \in Nat
  BY <1>1, <1>2 DEF MetricsTypeOK
<1>9. MetricsTypeOK'
  <2>1. DOMAIN rows' \subseteq 1..lastMin'.end
    BY <1>1, <1>2, <1>4 DEF MetricsTypeOK
  <2> QED BY <1>1, <1>4, <1>5, <1>6, <1>8, <2>1 DEF MetricsInv, MetricsTypeOK
<1>10. DOMAIN rows \subseteq Nat /\ rows \in [DOMAIN rows -> Readings]
  BY DEF MetricsInv, MetricsTypeOK
<1>11. \A t \in DOMAIN rows : (rows[t].aircraft \notin {0, None} => t <= heard') /\ (t > good' => rows[t] = Good)
  BY <1>2, <1>5, <1>6, <1>10 DEF MetricsInv
<1>12. wake <= good' + Config.maxSleep \/ \E t \in DOMAIN rows : t > good' /\ wake <= t + Config.interval
  <2>1. CASE good' = good
    BY <2>1 DEF MetricsInv
  <2>2. CASE good' = clock'
    BY <1>1, <1>2, <2>2 DEF MetricsTypeOK
  <2> QED BY <2>1, <2>2 DEF Tick
<1> QED BY <1>1, <1>4, <1>5, <1>6, <1>7, <1>9, <1>10, <1>11, <1>12 DEF MetricsInv

LEMMA TroubleOK == ASSUME MetricsInv, Break \/ Repair PROVE MetricsInv'
<1> USE MetricsAssumption, GoodAssumption
<1>1. good' = clock /\ UNCHANGED <<clock, lastMin, handle, rows, sleep, wake, heard>>
  BY DEF Break, Repair, thread
<1>2. MetricsTypeOK /\ sleep \in Config.interval..Config.maxSleep /\ {clock, good, heard, wake, lastMin.end} \subseteq Nat
  BY DEF MetricsInv, MetricsTypeOK
<1>3. db' \in BOOLEAN /\ feed' \in {"fresh", "stuck", "bare", "gone"} /\ receiver' \in Readings /\ troubles' \in 0..MaxTroubles
  <2>1. db \in BOOLEAN /\ feed \in {"fresh", "stuck", "bare", "gone"} /\ receiver \in Readings /\ troubles \in 0..MaxTroubles
    BY <1>2 DEF MetricsTypeOK
  <2>2. CASE Repair
    BY <2>1, <2>2 DEF Repair
  <2>3. CASE Break
    <3>1. troubles' \in 0..MaxTroubles
      BY <2>1, <2>3 DEF Break
    <3> QED BY <2>1, <2>3, <3>1 DEF Break
  <2> QED BY <2>2, <2>3
<1>4. MetricsTypeOK'
  BY <1>1, <1>2, <1>3 DEF MetricsTypeOK
<1>5. wake <= clock + Config.maxSleep
  BY <1>2 DEF MetricsTypeOK
<1>6. \A t \in DOMAIN rows : ~(t > clock)
  BY <1>2 DEF MetricsInv, MetricsTypeOK
<1> QED BY <1>1, <1>2, <1>4, <1>5, <1>6 DEF MetricsInv

LEMMA MetricsStepOK == ASSUME MetricsInv, ~ConnectMayFail, [MetricsNext]_metrics PROVE MetricsInv'
<1>1. ASSUME UNCHANGED metrics PROVE MetricsInv'
  BY <1>1 DEF metrics, MetricsInv, MetricsTypeOK, Fine
<1> QED BY <1>1, PollStatsOK, TickOK, TroubleOK DEF MetricsNext

-----------------------------------------------------------------------------
(* Metrics and health: the report *)

\* Of finitely many things one comes first: a set where each is preceded could be thinned out for ever.
LEMMA FirstOf ==
  ASSUME NEW D, IsFiniteSet(D), NEW at \in [D -> Int], NEW S, S \subseteq D, S # {}
  PROVE  \E p \in S : \A q \in S : at[p] <= at[q]
<1> DEFINE endless == {T \in SUBSET D : T # {} /\ \A x \in T : \E y \in T : at[y] < at[x]}
<1>1. endless = {}
  <2> SUFFICES ASSUME endless # {} PROVE FALSE
    OBVIOUS
  <2>1. IsWellFoundedOn(StrictSubsetOrdering(D), SUBSET D)
    BY FS_StrictSubsetOrderingWellFounded, FS_FiniteSubsetsOfFinite
  <2>2. PICK T \in endless : \A U \in endless : <<U, T>> \notin StrictSubsetOrdering(D)
    BY <2>1, WFMin
  <2>3. T \subseteq D /\ T # {} /\ \A x \in T : \E y \in T : at[y] < at[x]
    BY <2>2
  <2>4. PICK a \in T : TRUE
    BY <2>3
  <2>5. PICK b \in T : at[b] < at[a]
    BY <2>3
  <2> DEFINE U == T \ {a}
  <2>6. <<U, T>> \in StrictSubsetOrdering(D)
    BY <2>3 DEF StrictSubsetOrdering
  <2>7. U # {} /\ U \subseteq D
    BY <2>3, <2>4, <2>5
  <2>8. ASSUME NEW x \in U PROVE \E y \in U : at[y] < at[x]
    <3>1. PICK y \in T : at[y] < at[x]
      BY <2>3
    <3>2. at[a] \in Int /\ at[b] \in Int /\ at[x] \in Int /\ at[y] \in Int
      BY <2>3
    <3>3. CASE y = a
      BY <2>5, <3>1, <3>2, <3>3
    <3>4. CASE y # a
      BY <3>1, <3>4
    <3> QED BY <3>3, <3>4
  <2> QED BY <2>2, <2>6, <2>7, <2>8
<1>2. S \notin endless
  BY <1>1
<1>3. \E p \in S : \A q \in S : ~(at[q] < at[p])
  BY <1>2
<1> QED BY <1>3

LEMMA MaxOfFinite ==
  ASSUME NEW S, IsFiniteSet(S), S \subseteq Int, S # {}
  PROVE  Max(S) \in S /\ \A y \in S : Max(S) >= y
<1> DEFINE low == [x \in S |-> -x]
<1>1. low \in [S -> Int] /\ \A x \in S : low[x] = -x /\ x \in Int
  OBVIOUS
<1> HIDE DEF low
<1>2. PICK p \in S : \A q \in S : low[p] <= low[q]
  BY <1>1, FirstOf
<1>3. \A q \in S : p >= q
  BY <1>1, <1>2
<1> QED BY <1>3 DEF Max

Names == DOMAIN Severity
Severities == {"info", "ok", "warn", "critical"}

LEMMA NamesAre == Names = {"heartbeat", "aircraft", "noise", "cpu", "messages", "signal", "drop", "gain", "range"}
<1> QED BY DEF Names, Severity

LEMMA SeverityIs ==
    /\ Severity.heartbeat = Heartbeat /\ Severity.aircraft = AircraftVisibility
    /\ Severity.noise = Level("noise", Config.short, Config.noiseWarn, Config.noiseCrit)
    /\ Severity.cpu = Level("cpu", Config.cpuWindow, Config.cpuWarn, Config.cpuCrit)
    /\ Severity.messages = MessageRate /\ Severity.signal = SignalDrop /\ Severity.drop = AircraftDrop
    /\ Severity.gain = GainSaturation /\ Severity.range = RangeDegradation
<1> QED BY DEF Severity

LEMMA OverallIs ==
  ASSUME NEW sev, NEW D, D # {}, sev \in [D -> Severities]
  PROVE  /\ (\E c \in D : sev[c] = "critical") => Overall(sev) = Rank["critical"]
         /\ (\A c \in D : sev[c] \in {"info", "ok"}) => Overall(sev) <= Rank["ok"]
<1> DEFINE S == {Rank[sev[c]] : c \in D}
<1>1. Rank["info"] = 0 /\ Rank["ok"] = 1 /\ Rank["warn"] = 2 /\ Rank["critical"] = 3
  BY DEF Rank
<1>2. \A c \in D : Rank[sev[c]] \in 0..3
  BY <1>1 DEF Severities
<1>3. S \subseteq 0..3 /\ S # {}
  BY <1>2
<1>4. \E x \in S : \A y \in S : x >= y
  <2> HIDE DEF S
  <2>1. CASE 3 \in S
    BY <1>3, <2>1
  <2>2. CASE 3 \notin S /\ 2 \in S
    BY <1>3, <2>2
  <2>3. CASE 3 \notin S /\ 2 \notin S /\ 1 \in S
    BY <1>3, <2>3
  <2>4. CASE S \subseteq {0}
    <3>1. 0 \in S
      BY <1>3, <2>4
    <3> QED BY <2>4, <3>1
  <2> QED BY <1>3, <2>1, <2>2, <2>3, <2>4
<1>5. Max(S) \in S /\ \A y \in S : Max(S) >= y
  <2> HIDE DEF S
  <2> QED BY <1>4 DEF Max
<1>6. DOMAIN sev = D /\ Overall(sev) = Max(S)
  BY DEF Overall
<1>7. ASSUME NEW c \in D, sev[c] = "critical" PROVE Max(S) = 3
  <2>1. 3 \in S
    BY <1>1, <1>7
  <2>2. Max(S) \in 0..3 /\ Max(S) >= 3
    BY <1>3, <1>5, <2>1
  <2> QED BY <2>2
<1>8. ASSUME \A c \in D : sev[c] \in {"info", "ok"} PROVE Max(S) <= 1
  <2>1. S \subseteq {0, 1}
    BY <1>1, <1>8
  <2>2. Max(S) \in {0, 1}
    BY <1>5, <2>1
  <2> QED BY <2>2
<1> QED BY <1>1, <1>6, <1>7, <1>8

LEMMA WindowsAre ==
  ASSUME MetricsInv
  PROVE  /\ DOMAIN rows \subseteq Nat /\ IsFiniteSet(DOMAIN rows) /\ rows \in [DOMAIN rows -> Readings]
         /\ \A w : Since(w) \subseteq DOMAIN rows /\ IsFiniteSet(Since(w))
         /\ Baseline \subseteq DOMAIN rows /\ IsFiniteSet(Baseline)
<1>1. DOMAIN rows \subseteq 1..lastMin.end /\ lastMin.end \in Nat /\ rows \in [DOMAIN rows -> Readings]
  BY DEF MetricsInv, MetricsTypeOK
<1>2. IsFiniteSet(1..lastMin.end)
  <2>1. 1 \in Int /\ lastMin.end \in Int
    BY <1>1
  <2> QED BY <2>1, FS_Interval
<1>3. IsFiniteSet(DOMAIN rows)
  BY <1>1, <1>2, FS_Subset
<1>4. ASSUME NEW w PROVE Since(w) \subseteq DOMAIN rows /\ IsFiniteSet(Since(w))
  <2>1. Since(w) \subseteq DOMAIN rows
    BY DEF Since
  <2> QED BY <1>3, <2>1, FS_Subset
<1>5. Baseline \subseteq DOMAIN rows
  BY DEF Baseline
<1> QED BY <1>1, <1>3, <1>4, <1>5, FS_Subset

LEMMA ChecksAre == Severity \in [Names -> Severities]
<1> USE DEF Severities
<1>1. Heartbeat \in Severities /\ AircraftVisibility \in Severities
  BY DEF Heartbeat, AircraftVisibility, Judged
<1>2. ASSUME NEW col, NEW w, NEW a, NEW b PROVE Level(col, w, a, b) \in Severities
  BY DEF Level, Judged
<1>3. MessageRate \in Severities /\ SignalDrop \in Severities /\ AircraftDrop \in Severities
  BY DEF MessageRate, SignalDrop, AircraftDrop, Drop
<1>4. GainSaturation \in Severities /\ RangeDegradation \in {"info", "ok"}
  BY DEF GainSaturation, RangeDegradation
<1>5. Severity.noise \in Severities /\ Severity.cpu \in Severities
  BY <1>2, SeverityIs
<1>6. \A c \in Names : Severity[c] \in Severities
  BY <1>1, <1>3, <1>4, <1>5, NamesAre, SeverityIs
<1>7. Severity = [c \in Names |-> Severity[c]]
  BY DEF Severity, Names
<1> QED BY <1>6, <1>7

LEMMA ReportIs ==
  ASSUME NEW failing
  PROVE  /\ (\E c \in Names \ failing : Severity[c] = "critical") => Report(failing) = Rank["critical"]
         /\ (\A c \in Names : Severity[c] \in {"info", "ok"}) => Report(failing) <= Rank["ok"]
<1> DEFINE sev == [c \in Names |-> IF c \in failing THEN "info" ELSE Severity[c]]
<1>1. Names # {}
  BY NamesAre
<1>2. sev \in [Names -> Severities]
  BY ChecksAre DEF Severities
<1>3. Report(failing) = Overall(sev)
  BY DEF Report, Names
<1>4. (\A c \in Names : Severity[c] \in {"info", "ok"}) => \A c \in Names : sev[c] \in {"info", "ok"}
  OBVIOUS
<1>5. (\E c \in Names \ failing : Severity[c] = "critical") => \E c \in Names : sev[c] = "critical"
  OBVIOUS
<1> HIDE DEF sev
<1> QED BY <1>1, <1>2, <1>3, <1>4, <1>5, OverallIs

\* What a window holds when all of it is good: the figure, as often as there are samples.
LEMMA GoodSums ==
  ASSUME MetricsInv, NEW w \in Nat, clock - good > w, NEW col \in Figures
  PROVE  LET T == Since(w)
         IN  /\ Known(T, col) = T /\ Count(T, col) = Cardinality(T) /\ Cardinality(T) \in Nat
             /\ Total(T, col) = Good[col] * Cardinality(T) /\ Good[col] \in Int
             /\ \A t \in T : rows[t] = Good
<1> DEFINE T == Since(w)
           n == Cardinality(T)
           f == [t \in T |-> rows[t][col]]
<1>1. T \subseteq DOMAIN rows /\ IsFiniteSet(T) /\ DOMAIN rows \subseteq Nat /\ n \in Nat
  BY WindowsAre, FS_CardinalityType
<1>2. clock \in Nat /\ good \in Nat
  BY DEF MetricsInv, MetricsTypeOK
<1>3. \A t \in T : t > good
  BY <1>1, <1>2 DEF Since
<1>4. \A t \in T : rows[t] = Good
  BY <1>1, <1>3 DEF MetricsInv
<1>5. Good[col] \in Int /\ Good[col] # None
  <2>1. Good \in Readings /\ Good[col] # None
    BY GoodAssumption
  <2>2. Good \in [Figures -> Int \cup {None}]
    BY <2>1, MetricsAssumption
  <2> QED BY <2>1, <2>2
<1> HIDE DEF T
<1>6. Known(T, col) = T
  BY <1>4, <1>5 DEF Known
<1>7. \A t \in T : f[t] = Good[col]
  BY <1>4
<1>8. Total(T, col) = SumOver(f, T)
  <2>1. \A s : UNION {{t} \X (1..(s * rows[t][col])) : t \in T} = Things(f, s, T)
    BY DEF Things
  <2> QED BY <1>6, <2>1 DEF Total, SumOver
<1>9. SumOver(f, T) <= Good[col] * n /\ SumOver(f, T) >= Good[col] * n
  <2> HIDE DEF f
  <2> QED BY <1>1, <1>5, <1>7, SumAtMost, SumAtLeast
<1>10. SumOver(f, T) \in Int /\ Good[col] * n \in Int
  <2>1. \A t \in T : f[t] \in Int
    BY <1>5, <1>7
  <2> HIDE DEF f
  <2>2. Cardinality(Things(f, 1, T)) \in Nat /\ Cardinality(Things(f, -1, T)) \in Nat
    BY <1>1, <2>1, ThingsFinite
  <2> HIDE DEF n
  <2> QED BY <1>1, <1>5, <2>2 DEF SumOver
<1>11. Total(T, col) = Good[col] * n
  <2> HIDE DEF f, n
  <2> QED BY <1>8, <1>9, <1>10
<1> QED BY <1>1, <1>4, <1>5, <1>6, <1>11 DEF Count, T

\* The baseline holds no more than the largest figure a reading may have.
LEMMA BaselineSums ==
  ASSUME MetricsInv, NEW col \in Figures
  PROVE  /\ Total(Baseline, col) \in Int /\ Count(Baseline, col) \in Nat
         /\ \A v \in Int : (\A r \in Readings : r[col] # None => r[col] <= v) =>
              Total(Baseline, col) <= v * Count(Baseline, col)
<1> DEFINE K == Known(Baseline, col)
           f == [t \in K |-> rows[t][col]]
<1>1. Baseline \subseteq DOMAIN rows /\ IsFiniteSet(Baseline) /\ rows \in [DOMAIN rows -> Readings]
  BY WindowsAre
<1>2. K \subseteq Baseline /\ \A t \in K : rows[t][col] # None
  BY DEF Known
<1>3. IsFiniteSet(K)
  BY <1>1, <1>2, FS_Subset
<1>4. \A t \in K : rows[t] \in Readings /\ f[t] = rows[t][col] /\ f[t] # None /\ f[t] \in Int
  <2> TAKE t \in K
  <2>1. rows[t] \in Readings /\ f[t] = rows[t][col]
    BY <1>1, <1>2
  <2>2. rows[t] \in [Figures -> Int \cup {None}]
    BY <2>1, MetricsAssumption
  <2> QED BY <1>2, <2>1, <2>2
<1>5. Total(Baseline, col) = SumOver(f, K)
  <2>1. \A s : UNION {{t} \X (1..(s * rows[t][col])) : t \in K} = Things(f, s, K)
    BY DEF Things
  <2> QED BY <2>1 DEF Total, SumOver
<1> HIDE DEF f, K
<1>6. ASSUME NEW v \in Int, \A r \in Readings : r[col] # None => r[col] <= v
      PROVE  SumOver(f, K) <= v * Cardinality(K)
  <2>1. \A t \in K : f[t] <= v
    BY <1>4, <1>6
  <2> QED BY <1>3, <1>4, <2>1, SumAtMost
<1>7. Cardinality(Things(f, 1, K)) \in Nat /\ Cardinality(Things(f, -1, K)) \in Nat
  BY <1>3, <1>4, ThingsFinite
<1>8. Cardinality(K) \in Nat
  BY <1>3, FS_CardinalityType
<1> QED BY <1>5, <1>6, <1>7, <1>8 DEF SumOver, Count, K

\* A sum of at most v for each of m against n good figures of g.
LEMMA NoDrop ==
  ASSUME NEW g \in Int, NEW drop \in Nat, NEW n \in Nat, NEW m \in Nat, NEW b \in Int,
         drop > 0 => b <= ((100 * g) \div drop) * m, drop = 0 => g >= 0
  PROVE  ~(100 * (g * n) * m < drop * b * n)
<1> DEFINE v == (100 * g) \div drop
           gm == g * m
<1>0. gm \in Int /\ drop * b \in Int
  OBVIOUS
<1>1. drop * b <= 100 * gm
  <2>1. CASE drop = 0
    <3>1. gm >= 0
      BY <2>1
    <3>2. drop * b = 0
      BY <2>1
    <3> HIDE DEF gm
    <3> QED BY <1>0, <3>1, <3>2
  <2>2. CASE drop > 0
    <3>1. v \in Int /\ drop * v <= 100 * g
      BY <2>2
    <3>2. b <= v * m
      BY <2>2
    <3> HIDE DEF v
    <3>3. v * m \in Int /\ drop * b <= drop * (v * m)
      BY <3>1, <3>2
    <3>4. drop * (v * m) = (drop * v) * m /\ drop * v \in Int
      BY <3>1
    <3>5. (drop * v) * m <= (100 * g) * m
      BY <3>1, <3>4
    <3>6. (100 * g) * m = 100 * gm
      OBVIOUS
    <3> HIDE DEF gm
    <3> QED BY <1>0, <3>3, <3>4, <3>5, <3>6
  <2> QED BY <2>1, <2>2
<1>2. 100 * (g * n) * m = (100 * gm) * n
  OBVIOUS
<1>3. (drop * b) * n <= (100 * gm) * n
  <2> DEFINE x == drop * b
             y == 100 * gm
  <2>1. x \in Int /\ y \in Int /\ x <= y
    BY <1>0, <1>1
  <2> HIDE DEF x, y
  <2>2. x * n <= y * n
    BY <2>1
  <2> QED BY <2>2 DEF x, y
<1>4. (drop * b) * n \in Int /\ (100 * gm) * n \in Int
  <2> HIDE DEF gm
  <2> QED BY <1>0
<1> QED BY <1>2, <1>3, <1>4

\* Figures that are there, in a window that is all good.
LEMMA LevelIsCalm ==
  ASSUME MetricsInv, NEW w \in Nat, clock - good > w, NEW col \in Figures,
         NEW a \in Int, NEW b \in Int, Good[col] < a, Good[col] < b
  PROVE  Level(col, w, a, b) \in {"info", "ok"}
<1> DEFINE n == Count(Since(w), col)
           g == Good[col]
           x == Total(Since(w), col)
<1>1. n \in Nat /\ x = g * n /\ g \in Int
  BY GoodSums
<1>2. CASE n = 0
  BY <1>2 DEF Level
<1>3. CASE n > 0
  <2> HIDE DEF n, x, g
  <2>1. g * n < a * n /\ g * n < b * n
    <3>1. g < a /\ g < b
      BY DEF g
    <3> QED BY <1>1, <1>3, <3>1
  <2>2. ~(x >= a * n) /\ ~(x >= b * n)
    BY <1>1, <2>1
  <2> QED BY <1>3, <2>2 DEF Level, Judged, n, x
<1> QED BY <1>1, <1>2, <1>3

LEMMA DropIsCalm ==
  ASSUME MetricsInv, NEW w \in Nat, clock - good > w, NEW col \in Figures, NEW drop \in Nat,
         \A r \in Readings : r[col] # None => drop * r[col] <= 100 * Good[col]
  PROVE  LET T == Since(w)
         IN  ~(100 * Total(T, col) * Count(Baseline, col) < drop * Total(Baseline, col) * Count(T, col))
<1> DEFINE g == Good[col]
           v == (100 * g) \div drop
           n == Count(Since(w), col)
           m == Count(Baseline, col)
           b == Total(Baseline, col)
<1>1. n \in Nat /\ Total(Since(w), col) = g * n /\ g \in Int
  BY GoodSums
<1>2. Good \in Readings /\ g # None
  BY GoodAssumption
<1>3. \A r \in Readings : r[col] # None => r[col] \in Int
  BY MetricsAssumption
<1>4. m \in Nat /\ b \in Int
  BY BaselineSums
<1>5. drop > 0 => b <= v * m
  <2> SUFFICES ASSUME drop > 0 PROVE b <= v * m
    OBVIOUS
  <2>1. \A x \in Int : drop * x <= 100 * g => x <= v
    BY <1>1
  <2>2. v \in Int
    BY <1>1
  <2>3. \A r \in Readings : r[col] # None => r[col] <= v
    <3> HIDE DEF v
    <3> QED BY <1>3, <2>1
  <2> HIDE DEF v, m, b
  <2> QED BY <2>2, <2>3, BaselineSums DEF m, b
<1>6. drop = 0 => g >= 0
  BY <1>1, <1>2
<1>7. ~(100 * (g * n) * m < drop * b * n)
  <2> HIDE DEF n, m, b
  <2> QED BY <1>1, <1>4, <1>5, <1>6, NoDrop
<1> QED BY <1>1, <1>7

LEMMA SignalIsCalm ==
  ASSUME MetricsInv, clock - good > Config.short
  PROVE  SignalDrop \in {"info", "ok"}
<1> DEFINE g == Good.signal
           d == Config.signalDrop
           n == Count(Since(Config.short), "signal")
           m == Count(Baseline, "signal")
           b == Total(Baseline, "signal")
           c == Total(Since(Config.short), "signal")
<1>1. "signal" \in Figures /\ Config.short \in Nat /\ d \in Nat
  BY MetricsAssumption DEF Figures
<1>2. n \in Nat /\ c = g * n /\ g \in Int
  BY <1>1, GoodSums
<1>3. m \in Nat /\ b \in Int
  BY <1>1, BaselineSums
<1>4. b <= (g + d) * m
  <2>1. g + d \in Int
    BY <1>1, <1>2
  <2>2. \A r \in Readings : r["signal"] # None => r["signal"] <= g + d
    BY GoodAssumption
  <2> HIDE DEF g, d, m, b
  <2> QED BY <1>1, <2>1, <2>2, BaselineSums DEF m, b
<1>5. ~(c * m - b * n < -(d * n * m))
  <2> HIDE DEF g, d, n, m, b, c
  <2>1. (g + d) * m \in Int /\ b * n <= ((g + d) * m) * n
    BY <1>1, <1>2, <1>3, <1>4
  <2>2. ((g + d) * m) * n = (g * n) * m + d * n * m
    BY <1>1, <1>2, <1>3
  <2>3. (g * n) * m \in Int /\ d * n * m \in Int /\ b * n \in Int
    BY <1>1, <1>2, <1>3
  <2> QED BY <1>2, <2>1, <2>2, <2>3
<1> QED BY <1>5 DEF SignalDrop, Drop

LEMMA GainIsCalm ==
  ASSUME MetricsInv, clock - good > Config.short
  PROVE  GainSaturation \in {"info", "ok"}
<1> DEFINE n == Cardinality(Since(Config.short))
           x == Good.strong
           y == Good.messages
           k == Config.strong
<1>1. "strong" \in Figures /\ "messages" \in Figures /\ Config.short \in Nat /\ k \in Int
  BY MetricsAssumption DEF Figures
<1>2. n \in Nat /\ x \in Int /\ y \in Int
      /\ Total(Since(Config.short), "strong") = x * n /\ Total(Since(Config.short), "messages") = y * n
  BY <1>1, GoodSums
<1>3. 100 * x <= k * y
  BY GoodAssumption
<1>4. ~(100 * (x * n) > k * (y * n))
  <2> HIDE DEF n, x, y, k
  <2>1. (100 * x) * n <= (k * y) * n
    <3> DEFINE p == 100 * x
               q == k * y
    <3>1. p \in Int /\ q \in Int /\ p <= q
      BY <1>1, <1>2, <1>3
    <3> HIDE DEF p, q
    <3>2. p * n <= q * n
      BY <1>2, <3>1
    <3> QED BY <3>2 DEF p, q
  <2>2. (100 * x) * n = 100 * (x * n) /\ (k * y) * n = k * (y * n) /\ 100 * (x * n) \in Int /\ k * (y * n) \in Int
    BY <1>1, <1>2
  <2> QED BY <2>1, <2>2
<1> QED BY <1>2, <1>4 DEF GainSaturation

LEMMA HeartbeatIsFresh ==
  ASSUME MetricsInv, clock - good > Config.maxSleep
  PROVE  Heartbeat = "ok"
<1>1. DOMAIN rows \subseteq Nat /\ IsFiniteSet(DOMAIN rows)
  BY WindowsAre
<1>2. clock \in Nat /\ good \in Nat /\ wake \in Nat /\ wake >= clock
  <2>1. sleep \in Config.interval..Config.maxSleep /\ wake - clock \in 0..sleep /\ {clock, good, wake} \subseteq Nat
    BY DEF MetricsInv, MetricsTypeOK
  <2> QED BY <2>1
<1>3. Config.maxSleep \in Nat /\ Config.interval \in Nat /\ Config.heartbeatWarn \in Nat /\ Config.heartbeatCrit \in Nat
      /\ Config.interval < Config.heartbeatWarn /\ Config.interval < Config.heartbeatCrit
  BY MetricsAssumption
<1>4. ~(wake <= good + Config.maxSleep)
  BY <1>2, <1>3
<1>5. PICK t \in DOMAIN rows : t > good /\ wake <= t + Config.interval
  BY <1>4 DEF MetricsInv
<1>6. Max(DOMAIN rows) \in Nat /\ Max(DOMAIN rows) >= t
  <2>1. DOMAIN rows # {} /\ DOMAIN rows \subseteq Int
    BY <1>1, <1>5
  <2> QED BY <1>1, <1>5, <2>1, MaxOfFinite
<1>7. clock - Max(DOMAIN rows) <= Config.interval
  BY <1>1, <1>2, <1>3, <1>5, <1>6
<1>8. ~(clock - Max(DOMAIN rows) >= Config.heartbeatWarn) /\ ~(clock - Max(DOMAIN rows) >= Config.heartbeatCrit)
  BY <1>2, <1>3, <1>6, <1>7
<1>9. rows # <<>>
  <2>1. rows = <<>> => DOMAIN rows = {}
    OBVIOUS
  <2> QED BY <1>5, <2>1
<1> QED BY <1>8, <1>9 DEF Heartbeat, Judged

\* The peak of a window in which no reading has an aircraft, and of one that is good.
LEMMA PeakIs ==
  ASSUME MetricsInv, NEW T, T \subseteq DOMAIN rows
  PROVE  /\ (\A t \in T : rows[t].aircraft \in {0, None}) => ~Seen(T)
         /\ (\A t \in T : rows[t] = Good) /\ T # {} => Seen(T)
<1> DEFINE S == {0} \cup {rows[t]["aircraft"] : t \in Known(T, "aircraft")}
<1>1. Seen(T) <=> Max(S) > 0
  BY DEF Seen, Peak
<1>2. ASSUME \A t \in T : rows[t].aircraft \in {0, None} PROVE ~(Max(S) > 0)
  <2>1. S = {0}
    BY <1>2 DEF Known
  <2>2. Max({0}) = 0
    <3>1. \E x \in {0} : \A y \in {0} : x >= y
      OBVIOUS
    <3> QED BY <3>1 DEF Max
  <2> QED BY <2>1, <2>2
<1>3. ASSUME \A t \in T : rows[t] = Good, T # {} PROVE Max(S) > 0
  <2> DEFINE g == Good.aircraft
  <2>1. g \in Int /\ g > 0 /\ g # None
    <3>1. "aircraft" \in Figures /\ Good \in Readings /\ g # None /\ g > 0
      BY GoodAssumption DEF Figures
    <3>2. Good \in [Figures -> Int \cup {None}]
      BY <3>1, MetricsAssumption
    <3> QED BY <3>1, <3>2
  <2>2. S = {0, g}
    <3>1. Known(T, "aircraft") = T
      BY <1>3, <2>1 DEF Known
    <3> QED BY <1>3, <3>1
  <2> HIDE DEF g
  <2>3. Max({0, g}) \in {0, g} /\ Max({0, g}) >= g
    <3>1. \E x \in {0, g} : \A y \in {0, g} : x >= y
      BY <2>1
    <3> QED BY <3>1 DEF Max
  <2> HIDE DEF S
  <2> QED BY <2>1, <2>2, <2>3
<1> QED BY <1>1, <1>2, <1>3

LEMMA OutageOK == ASSUME MetricsInv PROVE OutageIsCritical
<1> SUFFICES ASSUME rows # <<>>, clock - lastMin.end >= Config.heartbeatCrit \/ clock - heard > Config.gap
             PROVE  Heartbeat = "critical" \/ AircraftVisibility = "critical"
  <2> DEFINE failing == {"noise", "cpu", "messages", "signal", "drop", "gain", "range"}
  <2>1. "heartbeat" \in Names \ failing /\ "aircraft" \in Names \ failing
    BY NamesAre
  <2>2. Heartbeat = "critical" \/ AircraftVisibility = "critical" => Report(failing) = Rank["critical"]
    <3> HIDE DEF failing
    <3> QED BY <2>1, SeverityIs, ReportIs
  <2> QED BY <2>2 DEF OutageIsCritical
<1>1. DOMAIN rows \subseteq 1..lastMin.end /\ {clock, heard, lastMin.end} \subseteq Nat /\ rows \in [DOMAIN rows -> Readings]
  BY DEF MetricsInv, MetricsTypeOK
<1>2. DOMAIN rows # {}
  <2>1. DOMAIN rows = {} => rows = <<>>
    BY <1>1
  <2> QED BY <2>1
<1>3. Max(DOMAIN rows) \in DOMAIN rows /\ \A t \in DOMAIN rows : Max(DOMAIN rows) >= t
  <2>1. DOMAIN rows \subseteq Int /\ IsFiniteSet(DOMAIN rows)
    BY WindowsAre
  <2> QED BY <1>2, <2>1, MaxOfFinite
<1>4. Config.heartbeatCrit \in Nat /\ Config.gap \in Nat /\ Config.heartbeatCrit <= Config.gap + 1
  BY MetricsAssumption
<1>5. clock - Max(DOMAIN rows) >= Config.heartbeatCrit => Heartbeat = "critical"
  BY DEF Heartbeat, Judged
<1>6. CASE clock - lastMin.end >= Config.heartbeatCrit
  BY <1>1, <1>3, <1>4, <1>5, <1>6
<1>7. CASE clock - heard > Config.gap
  <2> DEFINE T == Since(Config.gap)
  <2>1. CASE T = {}
    <3>1. ~(Max(DOMAIN rows) >= clock - Config.gap)
      BY <1>3, <2>1 DEF Since
    <3> QED BY <1>1, <1>3, <1>4, <1>5, <3>1
  <2>2. CASE T # {}
    <3>1. \A t \in T : t \in DOMAIN rows /\ ~(t <= heard)
      BY <1>1, <1>4, <1>7 DEF Since
    <3>2. \A t \in T : rows[t].aircraft \in {0, None}
      BY <3>1 DEF MetricsInv
    <3>3. ~Seen(T)
      <4> HIDE DEF T
      <4> QED BY <3>1, <3>2, PeakIs
    <3> QED BY <2>2, <3>3 DEF AircraftVisibility
  <2> QED BY <2>1, <2>2
<1> QED BY <1>6, <1>7

LEMMA CalmOK == ASSUME MetricsInv, clock - good > Config.maxSleep + Config.long PROVE Report({}) <= Rank["ok"]
<1>1. {Config.gap, Config.short, Config.long, Config.cpuWindow, Config.maxSleep} \subseteq Nat
      /\ \A w \in {Config.gap, Config.short, Config.cpuWindow} : w <= Config.maxSleep + Config.long
  BY MetricsAssumption
<1>2. clock \in Nat /\ good \in Nat
  BY DEF MetricsInv, MetricsTypeOK
<1>3. clock - good > Config.gap /\ clock - good > Config.short /\ clock - good > Config.cpuWindow
      /\ clock - good > Config.long /\ clock - good > Config.maxSleep
  <2>1. Config.gap <= Config.maxSleep + Config.long /\ Config.short <= Config.maxSleep + Config.long
        /\ Config.cpuWindow <= Config.maxSleep + Config.long
    BY <1>1
  <2> QED BY <1>1, <1>2, <2>1
<1>4. Heartbeat = "ok"
  BY <1>3, HeartbeatIsFresh
<1>5. AircraftVisibility \in {"info", "ok"}
  <2>1. Since(Config.gap) \subseteq DOMAIN rows
    BY WindowsAre
  <2>2. \A t \in Since(Config.gap) : rows[t] = Good
    <3>1. "noise" \in Figures
      BY DEF Figures
    <3> QED BY <1>1, <1>3, <3>1, GoodSums
  <2>3. Since(Config.gap) # {} => Seen(Since(Config.gap))
    BY <2>1, <2>2, PeakIs
  <2> QED BY <2>3 DEF AircraftVisibility
<1>6. Level("noise", Config.short, Config.noiseWarn, Config.noiseCrit) \in {"info", "ok"}
  <2>1. "noise" \in Figures /\ Config.noiseWarn \in Int /\ Config.noiseCrit \in Int
    BY MetricsAssumption DEF Figures
  <2>2. Good["noise"] < Config.noiseWarn /\ Good["noise"] < Config.noiseCrit
    BY GoodAssumption
  <2> QED BY <1>1, <1>3, <2>1, <2>2, LevelIsCalm
<1>7. Level("cpu", Config.cpuWindow, Config.cpuWarn, Config.cpuCrit) \in {"info", "ok"}
  <2>1. "cpu" \in Figures /\ Config.cpuWarn \in Int /\ Config.cpuCrit \in Int
    BY MetricsAssumption DEF Figures
  <2>2. Good["cpu"] < Config.cpuWarn /\ Good["cpu"] < Config.cpuCrit
    BY GoodAssumption
  <2> QED BY <1>1, <1>3, <2>1, <2>2, LevelIsCalm
<1>8. MessageRate \in {"info", "ok"}
  <2>1. "messages" \in Figures /\ Config.messageDrop \in Nat
    BY MetricsAssumption DEF Figures
  <2>2. \A r \in Readings : r["messages"] # None => Config.messageDrop * r["messages"] <= 100 * Good["messages"]
    BY GoodAssumption
  <2>3. ~(100 * Total(Since(Config.long), "messages") * Count(Baseline, "messages")
            < Config.messageDrop * Total(Baseline, "messages") * Count(Since(Config.long), "messages"))
    BY <1>1, <1>3, <2>1, <2>2, DropIsCalm
  <2> QED BY <2>3 DEF MessageRate, Drop
<1>9. AircraftDrop \in {"info", "ok"}
  <2>1. "aircraft" \in Figures /\ Config.aircraftDrop \in Nat
    BY MetricsAssumption DEF Figures
  <2>2. \A r \in Readings : r["aircraft"] # None => Config.aircraftDrop * r["aircraft"] <= 100 * Good["aircraft"]
    BY GoodAssumption
  <2>3. ~(100 * Total(Since(Config.short), "aircraft") * Count(Baseline, "aircraft")
            < Config.aircraftDrop * Total(Baseline, "aircraft") * Count(Since(Config.short), "aircraft"))
    BY <1>1, <1>3, <2>1, <2>2, DropIsCalm
  <2> QED BY <2>3 DEF AircraftDrop, Drop
<1>10. SignalDrop \in {"info", "ok"} /\ GainSaturation \in {"info", "ok"}
  BY <1>3, SignalIsCalm, GainIsCalm
<1>11. RangeDegradation \in {"info", "ok"}
  BY DEF RangeDegradation
<1>12. \A c \in Names : Severity[c] \in {"info", "ok"}
  BY <1>4, <1>5, <1>6, <1>7, <1>8, <1>9, <1>10, <1>11, NamesAre, SeverityIs
<1> QED BY <1>12, ReportIs

LEMMA RecoverOK == ASSUME MetricsInv PROVE MetricsRecover
<1>1. clock \in Nat /\ good \in Nat /\ Config.maxSleep \in Nat /\ Config.interval \in Nat
  BY MetricsAssumption DEF MetricsInv, MetricsTypeOK
<1>2. clock - good > Config.maxSleep + Config.interval => clock - good > Config.maxSleep
  BY <1>1
<1> QED BY <1>2, HeartbeatIsFresh, CalmOK DEF MetricsRecover

\* Once there are samples the report says critical when the receiver has been stuck or
\* without aircraft for too long, and when nothing has been wrong for long enough the
\* samples are fresh and the report is calm: of run_metrics_loop with compute_health, in
\* every run in which a reconnect succeeds.
THEOREM OutagesSeenAndOverAlways == ASSUME ~ConnectMayFail PROVE MetricsSpec => []OutagesSeenAndOver
<1>1. MetricsInit => MetricsInv
  BY MetricsInitOK
<1>2. MetricsInv /\ [MetricsNext]_metrics => MetricsInv'
  BY MetricsStepOK
<1>3. MetricsInv => OutagesSeenAndOver
  BY OutageOK, RecoverOK DEF OutagesSeenAndOver, MetricsInv
<1> QED BY <1>1, <1>2, <1>3, PTL DEF MetricsSpec

-----------------------------------------------------------------------------
(* Tracks: passes *)

\* What a pass goes through: finitely many fixes, no two at a time.
Timed(at) ==
    /\ IsFiniteSet(DOMAIN at) /\ at \in [DOMAIN at -> Int]
    /\ \A i, k \in DOMAIN at : at[i] = at[k] => i = k

\* Every pass has an outcome: if the fixes from some on were left to flag, the first of
\* them could be.
LEMMA PassIs ==
  ASSUME NEW at, Timed(at), NEW alone, NEW misfits
  PROVE  LET bad == Pass(at, alone, misfits) IN bad \subseteq DOMAIN at /\ Flags(at, alone, misfits, bad)
<1> DEFINE D == DOMAIN at
           Flagged(bad, i) == i \in alone \/ \E j \in Anchor(at, bad, i) : <<j, i>> \in misfits
           Left == {U \in SUBSET D :
                      /\ \A i \in D \ U : \A j \in U : ~(at[j] < at[i])
                      /\ \E bad \in SUBSET (D \ U) : \A i \in D \ U : i \in bad <=> Flagged(bad, i)}
<1>1. {} \in Left
  <2> SUFFICES ASSUME {} \notin Left PROVE FALSE
    OBVIOUS
  <2>1. D \in Left /\ Left \subseteq SUBSET D
    <3>1. \E bad \in SUBSET (D \ D) : \A i \in D \ D : i \in bad <=> Flagged(bad, i)
      OBVIOUS
    <3> QED BY <3>1
  <2>2. IsFiniteSet(D)
    BY DEF Timed
  <2>3. PICK U \in Left : \A V \in Left : <<V, U>> \notin StrictSubsetOrdering(D)
    <3> HIDE DEF Left, D
    <3>1. IsWellFoundedOn(StrictSubsetOrdering(D), SUBSET D)
      BY <2>2, FS_StrictSubsetOrderingWellFounded, FS_FiniteSubsetsOfFinite
    <3> QED BY <2>1, <3>1, WFMin
  <2>4. U \subseteq D /\ U # {} /\ \A i \in D \ U : \A j \in U : ~(at[j] < at[i])
    BY <2>3
  <2>5. PICK bad \in SUBSET (D \ U) : \A i \in D \ U : i \in bad <=> Flagged(bad, i)
    BY <2>3
  <2>6. PICK p \in U : \A q \in U : at[p] <= at[q]
    BY <2>4, FirstOf DEF Timed
  <2> DEFINE V == U \ {p}
             more == IF Flagged(bad, p) THEN bad \cup {p} ELSE bad
  <2>7. \A i \in D \ V : Anchor(at, more, i) = Anchor(at, bad, i)
    <3> TAKE i \in D \ V
    <3>1. ~(at[p] < at[i])
      <4>1. at[p] \in Int
        BY <2>4 DEF Timed
      <4> QED BY <2>4, <4>1
    <3>2. \A k : k # p => (k \in more <=> k \in bad)
      OBVIOUS
    <3> HIDE DEF more
    <3> QED BY <3>1, <3>2 DEF Anchor
  <2>8. \A i \in D \ V : i \in more <=> Flagged(more, i)
    <3> TAKE i \in D \ V
    <3>1. Flagged(more, i) <=> Flagged(bad, i)
      BY <2>7
    <3>2. i # p => (i \in more <=> i \in bad)
      OBVIOUS
    <3>3. p \in more <=> Flagged(bad, p)
      BY <2>5
    <3> HIDE DEF more, Flagged
    <3> QED BY <2>5, <3>1, <3>2, <3>3
  <2>9. V \in SUBSET D /\ \A i \in D \ V : \A j \in V : ~(at[j] < at[i])
    <3> SUFFICES ASSUME NEW i \in D \ V, NEW j \in V PROVE ~(at[j] < at[i])
      BY <2>4
    <3>1. CASE i = p
      <4>1. at[p] <= at[j] /\ at[p] \in Int /\ at[j] \in Int
        BY <2>4, <2>6 DEF Timed
      <4> QED BY <3>1, <4>1
    <3>2. CASE i # p
      BY <2>4, <3>2
    <3> QED BY <3>1, <3>2
  <2>10. more \in SUBSET (D \ V)
    BY <2>4
  <2>11. V \in Left
    <3> HIDE DEF V, more, Flagged
    <3> QED BY <2>8, <2>9, <2>10
  <2>12. <<V, U>> \in StrictSubsetOrdering(D)
    BY <2>4 DEF StrictSubsetOrdering
  <2> QED BY <2>3, <2>11, <2>12
<1>2. \E bad \in SUBSET D : Flags(at, alone, misfits, bad)
  BY <1>1 DEF Flags
<1> QED BY <1>2 DEF Pass

\* A pass flags nothing where nobody misfits the fix right before.
LEMMA PassEmpty ==
  ASSUME NEW at, Timed(at), NEW alone, NEW misfits,
         \A i \in DOMAIN at : i \notin alone,
         \A i, j \in DOMAIN at :
           at[j] < at[i] /\ <<j, i>> \in misfits => \E k \in DOMAIN at : at[j] < at[k] /\ at[k] < at[i]
  PROVE  Pass(at, alone, misfits) = {}
<1> DEFINE bad == Pass(at, alone, misfits)
<1>1. bad \subseteq DOMAIN at /\ Flags(at, alone, misfits, bad)
  BY PassIs
<1> HIDE DEF bad
<1>2. ASSUME bad # {} PROVE FALSE
  <2>1. PICK i \in bad : \A q \in bad : at[i] <= at[q]
    BY <1>1, <1>2, FirstOf DEF Timed
  <2>2. PICK j \in Anchor(at, bad, i) : <<j, i>> \in misfits
    BY <1>1, <2>1 DEF Flags
  <2>3. PICK k \in DOMAIN at : at[j] < at[k] /\ at[k] < at[i]
    BY <1>1, <2>1, <2>2 DEF Anchor
  <2>4. k \in bad /\ at[k] \in Int /\ at[i] \in Int
    BY <1>1, <2>1, <2>2, <2>3 DEF Anchor, Timed
  <2> QED BY <2>1, <2>3, <2>4
<1> QED BY <1>2 DEF bad

\* Who was kept fits who was kept right before.
LEMMA KeptFit ==
  ASSUME NEW at, Timed(at), NEW alone, NEW misfits,
         NEW i \in DOMAIN at, i \notin Pass(at, alone, misfits)
  PROVE  /\ i \notin alone
         /\ \A j \in DOMAIN at \ Pass(at, alone, misfits) : at[j] < at[i] /\ <<j, i>> \in misfits =>
              \E k \in DOMAIN at \ Pass(at, alone, misfits) : at[j] < at[k] /\ at[k] < at[i]
<1> DEFINE bad == Pass(at, alone, misfits)
<1>1. Flags(at, alone, misfits, bad)
  BY PassIs
<1> HIDE DEF bad
<1>2. i \notin bad
  BY DEF bad
<1>3. i \notin alone /\ \A j \in Anchor(at, bad, i) : <<j, i>> \notin misfits
  BY <1>1, <1>2 DEF Flags
<1>4. \A j \in DOMAIN at \ bad : at[j] < at[i] /\ <<j, i>> \in misfits =>
        \E k \in DOMAIN at \ bad : at[j] < at[k] /\ at[k] < at[i]
  BY <1>3 DEF Anchor
<1> QED BY <1>3, <1>4 DEF bad

\* The last that was kept before i, if any was.
LEMMA AnchorIs ==
  ASSUME NEW at, Timed(at), NEW bad, NEW i \in DOMAIN at, NEW j \in DOMAIN at, j \notin bad, at[j] < at[i]
  PROVE  \E a \in Anchor(at, bad, i) : at[j] <= at[a]
<1> DEFINE S == {k \in DOMAIN at : k \notin bad /\ at[k] < at[i]}
           back == [k \in DOMAIN at |-> -at[k]]
<1>1. \A k \in DOMAIN at : at[k] \in Int /\ back[k] = -at[k]
  BY DEF Timed
<1>2. IsFiniteSet(DOMAIN at) /\ back \in [DOMAIN at -> Int] /\ j \in S /\ S \subseteq DOMAIN at
  BY <1>1 DEF Timed
<1>3. PICK a \in S : \A k \in S : back[a] <= back[k]
  <2> HIDE DEF S, back
  <2> QED BY <1>2, FirstOf
<1>4. a \in DOMAIN at /\ a \notin bad /\ at[a] < at[i]
  OBVIOUS
<1>5. \A k \in S : at[k] <= at[a]
  <2> TAKE k \in S
  <2>1. k \in DOMAIN at /\ back[a] <= back[k]
    BY <1>3
  <2> HIDE DEF back
  <2> QED BY <1>1, <1>4, <2>1
<1>6. \A k \in DOMAIN at : at[a] < at[k] /\ at[k] < at[i] => k \in bad
  <2> SUFFICES ASSUME NEW k \in DOMAIN at, at[a] < at[k], at[k] < at[i], k \notin bad PROVE FALSE
    OBVIOUS
  <2>1. at[k] <= at[a]
    BY <1>5
  <2> HIDE DEF back, S
  <2> QED BY <1>1, <1>4, <2>1
<1> QED BY <1>2, <1>4, <1>5, <1>6 DEF Anchor

\* Rows of a flight, by id, in the order of time.
InOrder(fixes) ==
    /\ IsFiniteSet(DOMAIN fixes) /\ DOMAIN fixes \subseteq Nat /\ \A i \in DOMAIN fixes : fixes[i] \in Position
    /\ \A i, k \in DOMAIN fixes : i < k => fixes[i].ts < fixes[k].ts

LEMMA TimesAre ==
  ASSUME NEW fixes, InOrder(fixes), NEW ids, ids \subseteq DOMAIN fixes
  PROVE  /\ Timed(ByTime(fixes, ids)) /\ DOMAIN ByTime(fixes, ids) = ids
         /\ Timed(Backwards(ByTime(fixes, ids))) /\ DOMAIN Backwards(ByTime(fixes, ids)) = ids
         /\ \A i, k \in ids : (Backwards(ByTime(fixes, ids))[i] < Backwards(ByTime(fixes, ids))[k]) <=> fixes[k].ts < fixes[i].ts
<1> DEFINE at == ByTime(fixes, ids)
           back == Backwards(at)
<1>1. DOMAIN at = ids /\ \A i \in ids : at[i] = fixes[i].ts
  BY DEF ByTime
<1>2. DOMAIN back = ids /\ \A i \in ids : back[i] = -fixes[i].ts
  BY <1>1 DEF Backwards
<1>3. \A i \in ids : fixes[i].ts \in Nat /\ i \in Nat
  BY DEF InOrder, Position
<1>4. IsFiniteSet(ids)
  BY FS_Subset DEF InOrder
<1>5. at \in [ids -> Int]
  BY <1>1, <1>3 DEF ByTime
<1>6. back \in [ids -> Int]
  BY <1>2, <1>3 DEF Backwards
<1>7. ASSUME NEW i \in ids, NEW k \in ids, fixes[i].ts = fixes[k].ts PROVE i = k
  <2>1. ~(i < k) /\ ~(k < i)
    BY <1>3, <1>7 DEF InOrder
  <2> QED BY <1>3, <2>1
<1> HIDE DEF at, back
<1>8. Timed(at)
  BY <1>1, <1>4, <1>5, <1>7 DEF Timed
<1>9. \A i, k \in ids : back[i] = back[k] => i = k
  BY <1>2, <1>3, <1>7
<1>10. Timed(back)
  BY <1>2, <1>4, <1>6, <1>9 DEF Timed
<1>11. \A i, k \in ids : back[i] < back[k] <=> fixes[k].ts < fixes[i].ts
  BY <1>2, <1>3
<1> QED BY <1>1, <1>2, <1>8, <1>10, <1>11 DEF at, back

LEMMA AbsIs == \A x, y \in Int : Abs(x - y) = Abs(y - x) /\ Abs(x - y) \in Nat
<1> QED BY DEF Abs

LEMMA TooFastBoth ==
  ASSUME NEW p \in Position, NEW q \in Position
  PROVE  TooFast(p, q) <=> TooFast(q, p)
<1>1. Abs(p.place - q.place) = Abs(q.place - p.place) /\ Abs(p.ts - q.ts) = Abs(q.ts - p.ts)
  BY AbsIs DEF Position
<1> QED BY <1>1 DEF TooFast

\* What is left by a pass in one direction passes in the other.
LEMMA LeftFits ==
  ASSUME NEW fixes, InOrder(fixes), NEW at,
         at \in {ByTime(fixes, DOMAIN fixes), Backwards(ByTime(fixes, DOMAIN fixes))}
  PROVE  LET left == Without(fixes, VelocityPass(fixes, at))
         IN  InOrder(left) /\ VelocityPass(left, ByTime(left, DOMAIN left)) = {}
<1> DEFINE D == DOMAIN fixes
           bad == VelocityPass(fixes, at)
           left == Without(fixes, bad)
           kept == D \ bad
           misfits == {e \in D \X D : TooFast(fixes[e[1]], fixes[e[2]])}
           when == ByTime(left, kept)
           later == {e \in kept \X kept : TooFast(left[e[1]], left[e[2]])}
<1>1. Timed(at) /\ DOMAIN at = D
  BY TimesAre
<1>2. bad = Pass(at, {}, misfits)
  BY <1>1 DEF VelocityPass
<1>3. DOMAIN left = kept /\ \A i \in kept : left[i] = fixes[i]
  BY DEF Without
<1> HIDE DEF left, bad
<1>4. InOrder(left)
  <2>1. IsFiniteSet(kept)
    BY FS_Subset DEF InOrder
  <2> QED BY <1>3, <2>1 DEF InOrder
<1>5. ASSUME NEW i \in kept, NEW j \in kept, at[j] < at[i], TooFast(fixes[j], fixes[i])
      PROVE  \E k \in kept : at[j] < at[k] /\ at[k] < at[i]
  <2>1. <<j, i>> \in misfits /\ i \in DOMAIN at /\ i \notin Pass(at, {}, misfits) /\ j \in DOMAIN at \ Pass(at, {}, misfits)
    BY <1>1, <1>2, <1>5
  <2>2. \E k \in DOMAIN at \ Pass(at, {}, misfits) : at[j] < at[k] /\ at[k] < at[i]
    <3> HIDE DEF misfits
    <3> QED BY <1>1, <1>5, <2>1, KeptFit
  <2> QED BY <1>1, <1>2, <2>2
<1>6. \A i, j \in D : TooFast(fixes[j], fixes[i]) <=> TooFast(fixes[i], fixes[j])
  BY TooFastBoth DEF InOrder
<1>7. ASSUME NEW i \in kept, NEW j \in kept, fixes[j].ts < fixes[i].ts, TooFast(fixes[j], fixes[i])
      PROVE  \E k \in kept : fixes[j].ts < fixes[k].ts /\ fixes[k].ts < fixes[i].ts
  <2>1. CASE at = ByTime(fixes, D)
    <3>1. \A k \in D : at[k] = fixes[k].ts
      BY <2>1 DEF ByTime
    <3> QED BY <1>5, <1>7, <3>1
  <2>2. CASE at = Backwards(ByTime(fixes, D))
    <3>1. \A k, m \in D : at[k] < at[m] <=> fixes[m].ts < fixes[k].ts
      BY <2>2, TimesAre
    <3>2. \E k \in kept : at[i] < at[k] /\ at[k] < at[j]
      BY <1>5, <1>6, <1>7, <3>1
    <3> QED BY <3>1, <3>2
  <2> QED BY <2>1, <2>2
<1>8. Timed(when) /\ DOMAIN when = kept /\ \A i \in kept : when[i] = fixes[i].ts
  BY <1>3, <1>4, TimesAre DEF ByTime
<1>9. \A i, j \in kept : when[j] < when[i] /\ <<j, i>> \in later => \E k \in kept : when[j] < when[k] /\ when[k] < when[i]
  <2> TAKE i, j \in kept
  <2>1. <<j, i>> \in later => TooFast(fixes[j], fixes[i])
    BY <1>3
  <2> HIDE DEF when, later
  <2> QED BY <1>7, <1>8, <2>1
<1>10. Pass(when, {}, later) = {}
  <2> HIDE DEF when, later, kept
  <2>1. \A i \in DOMAIN when : i \notin {}
    OBVIOUS
  <2>2. \A i, j \in DOMAIN when :
          when[j] < when[i] /\ <<j, i>> \in later => \E k \in DOMAIN when : when[j] < when[k] /\ when[k] < when[i]
    BY <1>8, <1>9
  <2> QED BY <1>8, <2>1, <2>2, PassEmpty
<1>11. VelocityPass(left, ByTime(left, DOMAIN left)) = {}
  BY <1>3, <1>8, <1>10 DEF VelocityPass
<1> QED BY <1>4, <1>11 DEF left, bad

LEMMA TrustedNone ==
  ASSUME NEW fixes, IsFiniteSet(DOMAIN fixes)
  PROVE  Trusted({}, fixes)
<1>1. Cardinality(DOMAIN fixes) \in Nat /\ Cardinality({}) = 0
  BY FS_CardinalityType, FS_EmptySet
<1> QED BY <1>1 DEF Trusted

LEMMA GhostsTwice ==
  ASSUME NEW fixes, InOrder(fixes), fixes = [i \in DOMAIN fixes |-> fixes[i]]
  PROVE  Ghosts(Without(fixes, Ghosts(fixes))) = {}
<1> DEFINE at == ByTime(fixes, DOMAIN fixes)
           forward == VelocityPass(fixes, at)
           backward == VelocityPass(fixes, Backwards(at))
<1>1. ASSUME NEW bad, bad \in {forward, backward} PROVE Ghosts(Without(fixes, bad)) = {}
  <2> DEFINE left == Without(fixes, bad)
  <2>1. InOrder(left) /\ VelocityPass(left, ByTime(left, DOMAIN left)) = {}
    BY <1>1, LeftFits
  <2>2. Trusted({}, left)
    BY <2>1, TrustedNone DEF InOrder
  <2> QED BY <2>1, <2>2 DEF Ghosts
<1>2. CASE Ghosts(fixes) \in {forward, backward}
  BY <1>1, <1>2
<1>3. CASE Ghosts(fixes) = {}
  BY <1>3 DEF Without
<1> QED BY <1>2, <1>3 DEF Ghosts

LEMMA BadGsTwice ==
  ASSUME NEW fixes, InOrder(fixes)
  PROVE  BadGs(Blanked(fixes, BadGs(fixes))) = {}
<1> DEFINE T == WithGs(fixes)
           at == ByTime(fixes, T)
           alone == {i \in T : fixes[i].gs > Limits.civil}
           misfits == {e \in T \X T : Deviates(fixes[e[1]], fixes[e[2]])}
           bad == BadGs(fixes)
           left == Blanked(fixes, bad)
           kept == T \ bad
           when == ByTime(left, kept)
           still == {i \in kept : left[i].gs > Limits.civil}
           later == {e \in kept \X kept : Deviates(left[e[1]], left[e[2]])}
<1>1. Timed(at) /\ DOMAIN at = T /\ T \subseteq DOMAIN fixes
  <2>1. T \subseteq DOMAIN fixes
    BY DEF WithGs
  <2> QED BY <2>1, TimesAre
<1>2. bad = Pass(at, alone, misfits)
  BY DEF BadGs
<1>3. /\ DOMAIN left = DOMAIN fixes
      /\ \A i \in DOMAIN fixes : i \notin bad => left[i] = fixes[i]
      /\ \A i \in DOMAIN fixes : i \in bad => left[i] = [fixes[i] EXCEPT !.gs = None]
  BY DEF Blanked
<1> HIDE DEF left, bad
<1>4. \A i \in DOMAIN fixes : left[i].gs = (IF i \in bad THEN None ELSE fixes[i].gs) /\ left[i].ts = fixes[i].ts
  BY <1>3 DEF InOrder, Position
<1>5. WithGs(left) = kept
  BY <1>3, <1>4 DEF WithGs
<1>6. InOrder(left)
  <2>1. \A i \in DOMAIN fixes : left[i] \in Position
    BY <1>3 DEF InOrder, Position
  <2> QED BY <1>3, <1>4, <2>1 DEF InOrder
<1>7. Timed(when) /\ DOMAIN when = kept /\ \A i \in kept : when[i] = at[i]
  <2>1. kept \subseteq DOMAIN left
    BY <1>1, <1>3
  <2> QED BY <1>1, <1>4, <1>6, <2>1, TimesAre DEF ByTime
<1>8. ASSUME NEW i \in kept
      PROVE  i \notin alone /\ \A j \in kept : at[j] < at[i] /\ <<j, i>> \in misfits => \E k \in kept : at[j] < at[k] /\ at[k] < at[i]
  <2>1. i \in DOMAIN at /\ i \notin Pass(at, alone, misfits) /\ kept = DOMAIN at \ Pass(at, alone, misfits)
    BY <1>1, <1>2
  <2> HIDE DEF at, alone, misfits, kept
  <2> QED BY <1>1, <2>1, KeptFit
<1>9. \A i \in kept : i \notin still
  <2> TAKE i \in kept
  <2>1. i \notin alone /\ left[i] = fixes[i]
    BY <1>1, <1>3, <1>8
  <2> QED BY <2>1
<1>10. \A i, j \in kept : when[j] < when[i] /\ <<j, i>> \in later => \E k \in kept : when[j] < when[k] /\ when[k] < when[i]
  <2> TAKE i, j \in kept
  <2>1. <<j, i>> \in later => <<j, i>> \in misfits
    BY <1>1, <1>3
  <2> HIDE DEF when, at, later, misfits
  <2> QED BY <1>7, <1>8, <2>1
<1>11. Pass(when, still, later) = {}
  <2> HIDE DEF when, still, later, kept
  <2>1. \A i \in DOMAIN when : i \notin still
    BY <1>7, <1>9
  <2>2. \A i, j \in DOMAIN when :
          when[j] < when[i] /\ <<j, i>> \in later => \E k \in DOMAIN when : when[j] < when[k] /\ when[k] < when[i]
    BY <1>7, <1>10
  <2> QED BY <1>7, <2>1, <2>2, PassEmpty
<1>12. BadGs(left) = Pass(when, still, later)
  BY <1>5 DEF BadGs
<1> QED BY <1>11, <1>12 DEF left, bad

\* A lone misfit that is not the first is flagged, and nothing else.
LEMMA AloneLater ==
  ASSUME NEW at, Timed(at), NEW misfits, NEW g \in DOMAIN at,
         \A i \in DOMAIN at \ {g} : <<i, g>> \in misfits /\ <<g, i>> \in misfits,
         \A i, k \in DOMAIN at \ {g} : <<i, k>> \notin misfits,
         NEW j \in DOMAIN at, at[j] < at[g]
  PROVE  Pass(at, {}, misfits) = {g}
<1> DEFINE bad == Pass(at, {}, misfits)
<1>1. bad \subseteq DOMAIN at /\ Flags(at, {}, misfits, bad)
  BY PassIs
<1> HIDE DEF bad
<1>2. \A i \in DOMAIN at : i \in bad <=> \E k \in Anchor(at, bad, i) : <<k, i>> \in misfits
  BY <1>1 DEF Flags
<1>3. \A i \in DOMAIN at : at[i] \in Int
  BY DEF Timed
<1>4. ASSUME NEW i \in DOMAIN at, at[i] < at[g] PROVE i \notin bad
  <2> SUFFICES ASSUME i \in bad PROVE FALSE
    OBVIOUS
  <2>1. PICK k \in Anchor(at, bad, i) : <<k, i>> \in misfits
    BY <1>2
  <2>2. k \in DOMAIN at /\ at[k] < at[i]
    BY <2>1 DEF Anchor
  <2>3. k # g /\ i # g
    BY <1>3, <1>4, <2>2
  <2> QED BY <2>1, <2>2, <2>3
<1>5. g \in bad
  <2>1. PICK a \in Anchor(at, bad, g) : at[j] <= at[a]
    BY <1>4, AnchorIs
  <2>2. a \in DOMAIN at /\ at[a] < at[g]
    BY <2>1 DEF Anchor
  <2>3. a # g
    BY <1>3, <2>2
  <2> QED BY <1>2, <2>1, <2>2, <2>3
<1>6. ASSUME NEW i \in bad, i # g PROVE FALSE
  <2>1. PICK k \in Anchor(at, bad, i) : <<k, i>> \in misfits
    BY <1>1, <1>2, <1>6
  <2>2. k \in DOMAIN at /\ k \notin bad
    BY <2>1 DEF Anchor
  <2> QED BY <1>1, <1>5, <1>6, <2>1, <2>2
<1>7. bad = {g}
  BY <1>5, <1>6
<1> QED BY <1>7 DEF bad

\* A lone misfit that comes first makes all others look bad.
LEMMA AloneFirst ==
  ASSUME NEW at, Timed(at), NEW misfits, NEW g \in DOMAIN at,
         \A i \in DOMAIN at \ {g} : <<g, i>> \in misfits,
         \A i \in DOMAIN at \ {g} : at[g] < at[i]
  PROVE  Pass(at, {}, misfits) = DOMAIN at \ {g}
<1> DEFINE bad == Pass(at, {}, misfits)
           S == {i \in DOMAIN at \ {g} : i \notin bad}
<1>1. bad \subseteq DOMAIN at /\ Flags(at, {}, misfits, bad)
  BY PassIs
<1> HIDE DEF bad
<1>2. \A i \in DOMAIN at : i \in bad <=> \E k \in Anchor(at, bad, i) : <<k, i>> \in misfits
  BY <1>1 DEF Flags
<1>3. \A i \in DOMAIN at : at[i] \in Int
  BY DEF Timed
<1>4. g \notin bad
  <2> SUFFICES ASSUME g \in bad PROVE FALSE
    OBVIOUS
  <2>1. PICK k \in Anchor(at, bad, g) : TRUE
    BY <1>2
  <2>2. k \in DOMAIN at /\ at[k] < at[g]
    BY <2>1 DEF Anchor
  <2> QED BY <1>3, <2>2
<1>5. S = {}
  <2> SUFFICES ASSUME S # {} PROVE FALSE
    OBVIOUS
  <2>1. PICK p \in S : \A q \in S : at[p] <= at[q]
    <3>1. IsFiniteSet(DOMAIN at) /\ at \in [DOMAIN at -> Int] /\ S \subseteq DOMAIN at
      BY DEF Timed
    <3> HIDE DEF S
    <3> QED BY <3>1, FirstOf
  <2>2. p \in DOMAIN at /\ p # g /\ at[g] < at[p] /\ p \notin bad
    OBVIOUS
  <2>3. PICK a \in Anchor(at, bad, p) : at[g] <= at[a]
    BY <1>4, <2>2, AnchorIs
  <2>4. a \in DOMAIN at /\ a \notin bad /\ at[a] < at[p]
    BY <2>3 DEF Anchor
  <2>5. a = g
    <3> SUFFICES ASSUME a # g PROVE FALSE
      OBVIOUS
    <3>1. at[p] <= at[a]
      BY <2>1, <2>4
    <3> QED BY <1>3, <2>2, <2>4, <3>1
  <2> QED BY <1>2, <2>2, <2>3, <2>5
<1>6. bad = DOMAIN at \ {g}
  BY <1>1, <1>4, <1>5
<1> QED BY <1>6 DEF bad

LEMMA GhostAloneOK ==
  ASSUME NEW fixes, InOrder(fixes), Cardinality(DOMAIN fixes) >= 3,
         NEW g \in DOMAIN fixes, Alone(fixes, g)
  PROVE  Ghosts(fixes) = {g}
<1> DEFINE D == DOMAIN fixes
           at == ByTime(fixes, D)
           back == Backwards(at)
           misfits == {e \in D \X D : TooFast(fixes[e[1]], fixes[e[2]])}
<1>1. Timed(at) /\ DOMAIN at = D /\ Timed(back) /\ DOMAIN back = D /\ \A i, k \in D : back[i] < back[k] <=> at[k] < at[i]
  BY TimesAre DEF ByTime
<1>2. IsFiniteSet(D) /\ Cardinality(D) \in Nat /\ \A i \in D : fixes[i] \in Position
  BY FS_CardinalityType DEF InOrder
<1>3. Cardinality({g}) = 1 /\ Cardinality({}) = 0 /\ Cardinality(D \ {g}) = Cardinality(D) - 1
  BY <1>2, FS_Singleton, FS_EmptySet, FS_RemoveElement
<1>4. PICK j \in D \ {g} : TRUE
  <2>1. D \ {g} # {}
    BY <1>2, <1>3
  <2> QED BY <2>1
<1>5. /\ \A i \in D \ {g} : <<i, g>> \in misfits /\ <<g, i>> \in misfits
      /\ \A i, k \in D \ {g} : <<i, k>> \notin misfits
  <2>1. \A i \in D \ {g} : TooFast(fixes[i], fixes[g]) /\ TooFast(fixes[g], fixes[i])
    BY <1>2, TooFastBoth DEF Alone
  <2>2. \A i, k \in D \ {g} : ~TooFast(fixes[i], fixes[k])
    BY DEF Alone
  <2> QED BY <2>1, <2>2
<1>6. VelocityPass(fixes, at) = Pass(at, {}, misfits) /\ VelocityPass(fixes, back) = Pass(back, {}, misfits)
  BY <1>1 DEF VelocityPass
<1>7. Trusted({g}, fixes) /\ ~Trusted(D \ {g}, fixes)
  BY <1>2, <1>3 DEF Trusted
<1>8. Ghosts(fixes) = IF Trusted(VelocityPass(fixes, at), fixes) THEN VelocityPass(fixes, at)
                      ELSE IF Trusted(VelocityPass(fixes, back), fixes) THEN VelocityPass(fixes, back) ELSE {}
  BY DEF Ghosts
<1> HIDE DEF at, back, misfits, D
<1>9. \A i, k \in D : i # k => at[i] < at[k] \/ at[k] < at[i]
  <2>1. \A i, k \in D : at[i] \in Int /\ at[k] \in Int /\ (at[i] = at[k] => i = k)
    BY <1>1 DEF Timed
  <2> QED BY <2>1
<1>10. CASE \E i \in D : at[i] < at[g]
  <2>1. PICK i \in D : at[i] < at[g]
    BY <1>10
  <2>2. g \in D
    BY DEF D
  <2>3. Pass(at, {}, misfits) = {g}
    BY <1>1, <1>5, <2>1, <2>2, AloneLater
  <2> QED BY <1>6, <1>7, <1>8, <2>3
<1>11. CASE ~\E i \in D : at[i] < at[g]
  <2>1. g \in D
    BY DEF D
  <2>2. \A i \in D \ {g} : at[g] < at[i]
    BY <1>9, <1>11, <2>1
  <2>3. Pass(at, {}, misfits) = D \ {g}
    <3>1. DOMAIN at = D /\ g \in DOMAIN at
      BY <1>1, <2>1
    <3>2. Pass(at, {}, misfits) = DOMAIN at \ {g}
      <4>1. \A i \in DOMAIN at \ {g} : <<g, i>> \in misfits /\ at[g] < at[i]
        BY <1>5, <2>2, <3>1
      <4> QED BY <1>1, <3>1, <4>1, AloneFirst
    <3> QED BY <3>1, <3>2
  <2>4. j \in D /\ back[j] < back[g]
    BY <1>1, <1>4, <2>1, <2>2
  <2>5. Pass(back, {}, misfits) = {g}
    BY <1>1, <1>5, <2>1, <2>4, AloneLater
  <2> QED BY <1>6, <1>7, <1>8, <2>3, <2>5
<1> QED BY <1>10, <1>11

-----------------------------------------------------------------------------
(* Tracks: charts *)

LEMMA TimesGrows == ASSUME NEW m \in Nat, NEW x \in Nat, NEW y \in Nat, x <= y PROVE m * x <= m * y
<1> DEFINE d == y - x
<1>1. d \in Nat /\ y = x + d
  OBVIOUS
<1> HIDE DEF d
<1>2. m * y = m * x + m * d
  BY <1>1
<1>3. m * d \in Nat /\ m * x \in Nat
  BY <1>1
<1> QED BY <1>2, <1>3

LEMMA DivIs ==
  ASSUME NEW a \in Nat, NEW m \in Nat \ {0}
  PROVE  /\ a \div m \in Nat /\ m * (a \div m) <= a /\ a < m * (a \div m) + m
         /\ \A q \in Nat : (m * q <= a => q <= a \div m) /\ (a < m * q => a \div m < q)
<1> DEFINE d == a \div m
<1>1. d \in Nat /\ m * d <= a /\ a < m * d + m
  OBVIOUS
<1> HIDE DEF d
<1>2. ASSUME NEW q \in Nat, m * q <= a PROVE q <= d
  <2> SUFFICES ASSUME d + 1 <= q PROVE FALSE
    BY <1>1
  <2>1. m * (d + 1) <= m * q
    BY <1>1, TimesGrows
  <2>2. m * (d + 1) = m * d + m
    BY <1>1
  <2>3. m * d \in Nat /\ m * q \in Nat
    BY <1>1
  <2> QED BY <1>1, <1>2, <2>1, <2>2, <2>3
<1>3. ASSUME NEW q \in Nat, a < m * q PROVE d < q
  <2> SUFFICES ASSUME q <= d PROVE FALSE
    BY <1>1
  <2>1. m * q <= m * d
    BY <1>1, TimesGrows
  <2>2. m * d \in Nat /\ m * q \in Nat
    BY <1>1
  <2> QED BY <1>1, <1>3, <2>1, <2>2
<1> QED BY <1>1, <1>2, <1>3 DEF d

LEMMA StridesAre ==
  ASSUME NEW n \in Nat, NEW target \in Nat, 3 <= target, target < n
  PROVE  /\ Stride(0, n, target) = 1
         /\ Stride(target - 2, n, target) = IF <<target - 2, n, target>> \in Below THEN n - 2 ELSE n - 1
         /\ \A k \in Nat : Stride(k, n, target) \in Nat /\ Stride(k, n, target) < Stride(k + 1, n, target)
         /\ \A k \in 0..(target - 3) : 1 <= Stride(k, n, target) /\ Stride(k + 1, n, target) <= n - 1
<1> DEFINE m == target - 2
           w == n - 2
           d(k) == (k * w) \div m
           e(k) == IF <<k, n, target>> \in Below THEN 0 ELSE 1
<1>1. m \in Nat \ {0} /\ w \in Nat \ {0} /\ m < w /\ target - 2 = m /\ n - 2 = w /\ n - 1 = w + 1 /\ target - 3 = m - 1
  OBVIOUS
<1> HIDE DEF m, w
<1>2. \A k \in Nat : k * w \in Nat /\ d(k) \in Nat /\ Stride(k, n, target) = d(k) + e(k) /\ e(k) \in {0, 1}
  BY <1>1, DivIs DEF Stride
<1>10. \A k \in Nat : e(k) = 0 => k >= 1 /\ m * d(k) = k * w
  <2> SUFFICES ASSUME NEW k \in Nat, <<k, n, target>> \in Below PROVE k >= 1 /\ m * d(k) = k * w
    OBVIOUS
  <2>1. <<k, n, target>> \in ShortProducts
    BY TracksAssumption
  <2> QED BY <1>1, <2>1 DEF ShortProducts
<1>3. d(0) = 0
  <2>1. 0 * w = 0 /\ 0 < m * 1 /\ 0 * w \in Nat
    BY <1>1
  <2>2. d(0) < 1 /\ d(0) \in Nat
    BY <1>1, <2>1, DivIs
  <2> HIDE DEF d
  <2> QED BY <2>2
<1>4. d(m) = w
  <2>1. m * w \in Nat /\ m * w <= m * w /\ m * (w + 1) = m * w + m /\ w + 1 \in Nat
    BY <1>1
  <2>2. w <= d(m)
    BY <1>1, <2>1, DivIs
  <2>3. d(m) < w + 1
    <3>1. m * w < m * (w + 1)
      BY <1>1, <2>1
    <3> QED BY <1>1, <2>1, <3>1, DivIs
  <2> QED BY <1>1, <1>2, <2>2, <2>3
<1>5. ASSUME NEW k \in Nat PROVE d(k) < d(k + 1)
  <2>1. k * w \in Nat /\ (k + 1) * w \in Nat /\ (k + 1) * w = k * w + w
    BY <1>1
  <2>2. d(k) \in Nat /\ m * d(k) <= k * w
    BY <1>1, <2>1, DivIs
  <2>3. m * (d(k) + 1) = m * d(k) + m /\ m * d(k) \in Nat /\ d(k) + 1 \in Nat
    <3> HIDE DEF d
    <3> QED BY <1>1, <2>2
  <2>4. m * (d(k) + 1) <= (k + 1) * w
    <3> HIDE DEF d
    <3> QED BY <1>1, <2>1, <2>2, <2>3
  <2>5. d(k) + 1 <= d(k + 1) /\ d(k + 1) \in Nat
    BY <1>1, <2>1, <2>3, <2>4, DivIs
  <2> HIDE DEF d, e
  <2> QED BY <2>2, <2>5
<1>6. ASSUME NEW k \in 0..(m - 1) PROVE d(k + 1) <= w
  <2>1. k \in Nat /\ k + 1 \in Nat /\ k + 1 <= m
    BY <1>1
  <2>2. w * (k + 1) <= w * m
    BY <1>1, <2>1, TimesGrows
  <2>3. (k + 1) * w \in Nat /\ (k + 1) * w <= m * w /\ m * w < m * (w + 1) /\ m * w \in Nat /\ m * (w + 1) \in Nat
    <3>1. (k + 1) * w = w * (k + 1) /\ m * w = w * m /\ m * (w + 1) = m * w + m
      BY <1>1, <2>1
    <3>2. m * w \in Nat /\ w * (k + 1) \in Nat
      BY <1>1, <2>1
    <3> QED BY <1>1, <2>2, <3>1, <3>2
  <2>4. d(k + 1) < w + 1
    <3>1. (k + 1) * w < m * (w + 1)
      BY <2>3
    <3> QED BY <1>1, <2>3, <3>1, DivIs
  <2> QED BY <1>1, <1>2, <2>1, <2>4
<1>11. ASSUME NEW k \in Nat, k >= 1 PROVE d(k) >= 1
  <2>1. w * 1 <= w * k /\ w * k = k * w /\ m * 1 = m /\ k * w \in Nat /\ w * 1 = w
    BY <1>1, <1>11, TimesGrows
  <2>2. m * 1 <= k * w
    BY <1>1, <2>1
  <2> QED BY <1>1, <2>1, <2>2, DivIs
<1> HIDE DEF d, e
<1>7. \A k \in Nat : Stride(k, n, target) < Stride(k + 1, n, target)
  <2> TAKE k \in Nat
  <2>1. k + 1 \in Nat /\ d(k) \in Nat /\ d(k + 1) \in Nat /\ d(k) < d(k + 1)
        /\ e(k) \in {0, 1} /\ e(k + 1) \in {0, 1}
    BY <1>2, <1>5
  <2>2. CASE e(k + 1) = 1
    BY <1>2, <2>1, <2>2
  <2>3. CASE e(k + 1) = 0
    <3>1. m * d(k + 1) = k * w + w /\ k * w \in Nat
      <4>1. m * d(k + 1) = (k + 1) * w
        BY <1>10, <2>1, <2>3
      <4> QED BY <1>1, <4>1
    <3>2. m * d(k) <= k * w
      BY <1>1, <1>2, DivIs DEF d
    <3>3. m * (d(k) + 1) = m * d(k) + m /\ m * d(k) \in Nat /\ d(k) + 1 \in Nat
      BY <1>1, <2>1
    <3>4. m * (d(k) + 1) < m * d(k + 1)
      BY <1>1, <3>1, <3>2, <3>3
    <3>5. d(k) + 1 < d(k + 1)
      <4> SUFFICES ASSUME d(k + 1) <= d(k) + 1 PROVE FALSE
        BY <2>1
      <4>1. m * d(k + 1) <= m * (d(k) + 1)
        BY <1>1, <2>1, <3>3, TimesGrows
      <4>2. m * d(k + 1) \in Nat /\ m * (d(k) + 1) \in Nat
        BY <1>1, <2>1, <3>3
      <4> QED BY <3>4, <4>1, <4>2
    <3> QED BY <1>2, <2>1, <2>3, <3>5
  <2> QED BY <2>1, <2>2, <2>3
<1>8. ASSUME NEW k \in 0..(target - 3) PROVE 1 <= Stride(k, n, target) /\ Stride(k + 1, n, target) <= n - 1
  <2>1. k \in 0..(m - 1) /\ k \in Nat /\ k + 1 \in Nat
    BY <1>1
  <2>2. d(k) \in Nat /\ d(k + 1) \in Nat /\ d(k + 1) <= w /\ e(k) \in {0, 1} /\ e(k + 1) \in {0, 1}
    BY <1>2, <1>6, <2>1
  <2>3. Stride(k, n, target) >= 1
    <3>1. CASE k = 0
      <4>1. e(0) = 1
        BY <1>2, <1>10, <2>1, <3>1
      <4> QED BY <1>2, <1>3, <3>1, <4>1
    <3>2. CASE k >= 1
      BY <1>2, <1>11, <2>1, <2>2, <3>2
    <3> QED BY <2>1, <3>1, <3>2
  <2>4. Stride(k + 1, n, target) <= n - 1
    BY <1>1, <1>2, <2>1, <2>2
  <2> QED BY <2>3, <2>4
<1>9. Stride(0, n, target) = 1
  <2>1. e(0) = 1
    BY <1>2, <1>10
  <2> QED BY <1>2, <1>3, <2>1
<1>12. Stride(target - 2, n, target) = IF <<target - 2, n, target>> \in Below THEN n - 2 ELSE n - 1
  BY <1>1, <1>2, <1>4 DEF e
<1>13. \A k \in Nat : Stride(k, n, target) \in Nat
  BY <1>2
<1> QED BY <1>7, <1>8, <1>9, <1>12, <1>13

LEMMA StrideFrom ==
  ASSUME NEW n \in Nat, NEW target \in Nat, 3 <= target, target < n
  PROVE  Stride(0, n, target) = 1 /\ \A k \in Nat : Stride(k, n, target) \in Nat
<1>1. Stride(0, n, target) = 1
  BY StridesAre
<1>2. \A k \in Nat : Stride(k, n, target) \in Nat /\ Stride(k, n, target) < Stride(k + 1, n, target)
  BY StridesAre
<1> QED BY <1>1, <1>2

LEMMA BucketsAre ==
  ASSUME NEW n \in Nat, NEW target \in Nat, 3 <= target, target < n, NEW k \in 0..(target - 3)
  PROVE  LET B == Bucket(k, n, target)
             N == NextBucket(k, n, target)
         IN  /\ IsFiniteSet(B) /\ B # {} /\ B \subseteq 1..(n - 2)
             /\ IsFiniteSet(N) /\ N # {} /\ N \subseteq 1..(n - 1) /\ \A i \in B, j \in N : i < j
<1> DEFINE s == Stride(k, n, target)
           t == Stride(k + 1, n, target)
           u == Stride(k + 2, n, target)
<1>1. k \in Nat /\ k + 1 \in Nat /\ k + 2 = (k + 1) + 1
  OBVIOUS
<1>2. s \in Nat /\ t \in Nat /\ u \in Nat /\ 1 <= s /\ s < t /\ t < u /\ t <= n - 1
  <2>1. s \in Nat /\ s < t /\ 1 <= s /\ t <= n - 1
    BY <1>1, StridesAre
  <2>2. t \in Nat /\ t < u
    BY <1>1, StridesAre
  <2>3. u \in Nat
    BY StrideFrom
  <2> QED BY <2>1, <2>2, <2>3
<1>3. Bucket(k, n, target) = s..(t - 1) /\ NextBucket(k, n, target) = {i \in t..(u - 1) : i < n}
  BY <1>1 DEF Bucket, NextBucket
<1> HIDE DEF s, t, u
<1>4. IsFiniteSet(s..(t - 1)) /\ IsFiniteSet(t..(u - 1))
  <2>1. s \in Int /\ t - 1 \in Int /\ t \in Int /\ u - 1 \in Int
    BY <1>2
  <2> QED BY <2>1, FS_Interval
<1>5. IsFiniteSet({i \in t..(u - 1) : i < n})
  BY <1>4, FS_Subset
<1>6. s \in s..(t - 1) /\ t \in {i \in t..(u - 1) : i < n}
  BY <1>2
<1>7. s..(t - 1) \subseteq 1..(n - 2) /\ {i \in t..(u - 1) : i < n} \subseteq 1..(n - 1)
  BY <1>2
<1>8. \A i \in s..(t - 1), j \in {i \in t..(u - 1) : i < n} : i < j
  BY <1>2
<1> QED BY <1>3, <1>4, <1>5, <1>6, <1>7, <1>8

\* A sum of naturals is one, and is what its terms say when they are equal or bounded.
LEMMA SumAlongIs ==
  ASSUME NEW N, IsFiniteSet(N), NEW f \in [N -> Nat]
  PROVE  /\ SumAlong(f) \in Nat /\ Cardinality(N) \in Nat
         /\ \A v \in Nat : (\A t \in N : f[t] >= v) => SumAlong(f) >= v * Cardinality(N)
         /\ \A v \in Nat : (\A t \in N : f[t] <= v) => SumAlong(f) <= v * Cardinality(N)
<1>1. \A t \in N : f[t] \in Int /\ 1 * f[t] = f[t]
  OBVIOUS
<1>2. SumAlong(f) = Cardinality(Things(f, 1, N))
  <2>1. DOMAIN f = N
    OBVIOUS
  <2>2. {{i} \X (1..f[i]) : i \in N} = {{t} \X (1..(1 * f[t])) : t \in N}
    BY <1>1
  <2> QED BY <2>1, <2>2 DEF SumAlong, Things
<1>3. SumAlong(f) \in Nat
  BY <1>1, <1>2, ThingsFinite
<1>4. ASSUME NEW v \in Nat, \A t \in N : f[t] >= v PROVE SumAlong(f) >= v * Cardinality(N)
  BY <1>1, <1>2, <1>4, ThingsAtLeast
<1>5. ASSUME NEW v \in Nat, \A t \in N : f[t] <= v PROVE SumAlong(f) <= v * Cardinality(N)
  BY <1>1, <1>2, <1>5, ThingsAtMost
<1> QED BY <1>3, <1>4, <1>5, FS_CardinalityType

ChartPoint == [x : Nat, y : Nat]

LEMMA AreaIs ==
  ASSUME NEW D, NEW points \in [D -> ChartPoint], NEW a \in D, NEW i \in D, NEW next, next \subseteq D, IsFiniteSet(next)
  PROVE  LET m == Cardinality(next)
             cx == SumAlong([k \in next |-> points[k].x])
             cy == SumAlong([k \in next |-> points[k].y])
         IN  /\ m \in Nat /\ cx \in Nat /\ cy \in Nat
             /\ Area(points, a, i, next) = Abs((m * points[a].x - cx) * (points[i].y - points[a].y) - (points[a].x - points[i].x) * (cy - m * points[a].y))
             /\ Area(points, a, i, next) \in Nat
<1> DEFINE m == Cardinality(next)
           cx == SumAlong([k \in next |-> points[k].x])
           cy == SumAlong([k \in next |-> points[k].y])
           p == m * points[a].x - cx
           q == points[i].y - points[a].y
           r == points[a].x - points[i].x
           s == cy - m * points[a].y
<1>1. \A k \in D : points[k].x \in Nat /\ points[k].y \in Nat
  BY DEF ChartPoint
<1>2. m \in Nat /\ cx \in Nat /\ cy \in Nat
  <2>1. [k \in next |-> points[k].x] \in [next -> Nat] /\ [k \in next |-> points[k].y] \in [next -> Nat]
    BY <1>1
  <2> QED BY <2>1, SumAlongIs, FS_CardinalityType
<1>3. Area(points, a, i, next) = Abs(p * q - r * s)
  BY DEF Area
<1>4. p \in Int /\ q \in Int /\ r \in Int /\ s \in Int
  <2> HIDE DEF m, cx, cy
  <2>1. m * points[a].x \in Nat /\ m * points[a].y \in Nat
    BY <1>1, <1>2
  <2> QED BY <1>1, <1>2, <2>1
<1>5. Abs(p * q - r * s) \in Nat
  <2> HIDE DEF p, q, r, s
  <2>1. p * q \in Int /\ r * s \in Int
    BY <1>4
  <2> QED BY <2>1, AbsIs
<1> QED BY <1>2, <1>3, <1>5

\* The first of the largest.
LEMMA LargestIs ==
  ASSUME NEW B, IsFiniteSet(B), B # {}, B \subseteq Nat, NEW area \in [B -> Nat]
  PROVE  \E i \in B : \A j \in B : area[j] < area[i] \/ (area[j] = area[i] /\ i <= j)
<1> DEFINE low == [i \in B |-> -area[i]]
           id == [i \in B |-> i]
<1>1. \A i \in B : area[i] \in Nat /\ low[i] = -area[i] /\ id[i] = i /\ i \in Nat
  OBVIOUS
<1>2. low \in [B -> Int] /\ id \in [B -> Int]
  BY <1>1
<1> HIDE DEF low, id
<1>3. PICK p \in B : \A q \in B : low[p] <= low[q]
  BY <1>2, FirstOf
<1> DEFINE S == {i \in B : area[i] = area[p]}
<1>4. S \subseteq B /\ S # {}
  OBVIOUS
<1>5. PICK i \in S : \A j \in S : id[i] <= id[j]
  <2> HIDE DEF S
  <2> QED BY <1>2, <1>4, FirstOf
<1>6. i \in B /\ area[i] = area[p] /\ \A j \in B : area[j] = area[p] => i <= j
  BY <1>1, <1>5
<1>7. \A j \in B : area[j] <= area[p]
  BY <1>1, <1>3
<1>8. \A j \in B : area[j] < area[i] \/ (area[j] = area[i] /\ i <= j)
  BY <1>1, <1>6, <1>7
<1> QED BY <1>6, <1>8

LEMMA BestIs ==
  ASSUME NEW n \in Nat, NEW target \in Nat, 3 <= target, target < n, NEW k \in 0..(target - 3),
         NEW points \in [0..(n - 1) -> ChartPoint], NEW a \in 0..(n - 1)
  PROVE  LET B == Bucket(k, n, target)
             N == NextBucket(k, n, target)
             best == Best(points, target, a, k)
         IN  best \in B /\ \A j \in B : Area(points, a, j, N) <= Area(points, a, best, N)
<1> DEFINE D == 0..(n - 1)
           B == Bucket(k, n, target)
           N == NextBucket(k, n, target)
           area == [i \in B |-> Area(points, a, i, N)]
           best == Best(points, target, a, k)
<1>1. Cardinality(DOMAIN points) = n
  <2>1. DOMAIN points = D
    OBVIOUS
  <2>2. 0 \in Int /\ n - 1 \in Int
    OBVIOUS
  <2>3. Cardinality(D) = (n - 1) - 0 + 1
    BY <2>2, FS_Interval
  <2> QED BY <2>1, <2>3
<1>2. IsFiniteSet(B) /\ B # {} /\ B \subseteq 1..(n - 2) /\ IsFiniteSet(N) /\ N \subseteq 1..(n - 1)
  BY BucketsAre
<1>3. B \subseteq D /\ N \subseteq D /\ B \subseteq Nat
  BY <1>2
<1>4. best = CHOOSE i \in B : \A j \in B : area[j] < area[i] \/ (area[j] = area[i] /\ i <= j)
  BY <1>1 DEF Best
<1> HIDE DEF B, N, D, best
<1>5. area \in [B -> Nat]
  <2>1. \A i \in B : Area(points, a, i, N) \in Nat
    <3> TAKE i \in B
    <3>1. i \in 0..(n - 1) /\ N \subseteq 0..(n - 1)
      BY <1>3 DEF D
    <3> QED BY <1>2, <3>1, AreaIs
  <2> QED BY <2>1
<1>6. \A j \in B : area[j] = Area(points, a, j, N)
  OBVIOUS
<1> HIDE DEF area
<1>7. best \in B /\ \A j \in B : area[j] < area[best] \/ (area[j] = area[best] /\ best <= j)
  <2>1. \E i \in B : \A j \in B : area[j] < area[i] \/ (area[j] = area[i] /\ i <= j)
    BY <1>2, <1>3, <1>5, LargestIs
  <2> QED BY <1>4, <2>1
<1>8. \A j \in B : area[j] <= area[best]
  <2>1. \A j \in B : area[j] \in Nat
    BY <1>5
  <2> QED BY <1>7, <2>1
<1> QED BY <1>6, <1>7, <1>8 DEF B, N, best

\* On a level line with one spike the triangle of the spike is the only one with an area.
LEMMA SpikeIsBest ==
  ASSUME NEW n \in Nat, NEW target \in Nat, 3 <= target, target < n, NEW k \in 0..(target - 3),
         NEW points \in [0..(n - 1) -> ChartPoint], NEW a \in 0..(n - 1), NEW s \in Bucket(k, n, target),
         a < s, \A i, j \in 0..(n - 1) : i < j => points[i].x < points[j].x, \A j \in NextBucket(k, n, target) : a < j,
         \A i, j \in 0..(n - 1) \ {s} : points[i].y = points[j].y /\ points[i].y # points[s].y
  PROVE  Best(points, target, a, k) = s
<1> DEFINE D == 0..(n - 1)
           N == NextBucket(k, n, target)
           m == Cardinality(N)
           cx == SumAlong([i \in N |-> points[i].x])
           cy == SumAlong([i \in N |-> points[i].y])
           x == points[a].x
           y == points[a].y
<1>1. /\ Bucket(k, n, target) \subseteq D /\ N \subseteq D /\ IsFiniteSet(N) /\ N # {}
      /\ \A j \in N : s < j
  BY BucketsAre
<1>2. s \in D /\ a \in D /\ a # s /\ s \notin N /\ \A i \in D : points[i].x \in Nat /\ points[i].y \in Nat /\ i \in Int
  <2>1. s \in D
    BY <1>1
  <2>2. \A i \in D : points[i].x \in Nat /\ points[i].y \in Nat /\ i \in Int
    BY DEF ChartPoint
  <2> QED BY <1>1, <2>1, <2>2
<1>3. [i \in N |-> points[i].x] \in [N -> Nat] /\ [i \in N |-> points[i].y] \in [N -> Nat]
  BY <1>1, <1>2
<1>4. m \in Nat /\ m # 0 /\ cx \in Nat /\ cy \in Nat
  <2>1. m \in Nat /\ cx \in Nat /\ cy \in Nat
    BY <1>1, <1>3, SumAlongIs
  <2>2. m # 0
    BY <1>1, FS_EmptySet
  <2> QED BY <2>1, <2>2
<1>5. \A j \in N : points[j].x >= x + 1 /\ points[j].y = y
  <2> TAKE j \in N
  <2>1. j \in D /\ a < j /\ j # s
    BY <1>1, <1>2
  <2>2. points[a].x < points[j].x /\ points[j].y = points[a].y
    BY <1>2, <2>1
  <2> QED BY <1>1, <1>2, <2>1, <2>2
<1>6. cx >= (x + 1) * m /\ cy >= y * m /\ cy <= y * m
  <2>1. \A j \in N : [i \in N |-> points[i].x][j] >= x + 1
    BY <1>5
  <2>2. \A j \in N : [i \in N |-> points[i].y][j] >= y /\ [i \in N |-> points[i].y][j] <= y
    BY <1>2, <1>5
  <2>3. x + 1 \in Nat /\ y \in Nat
    BY <1>2
  <2> HIDE DEF x, y, N
  <2> QED BY <1>1, <1>3, <2>1, <2>2, <2>3, SumAlongIs
<1>7. \A i \in D : Area(points, a, i, N) = Abs((m * x - cx) * (points[i].y - y) - (x - points[i].x) * (cy - m * y))
  <2> TAKE i \in D
  <2> QED BY DEF Area
<1> DEFINE c == m * x - cx
<1>8. c \in Int /\ c < 0 /\ cy - m * y = 0
  <2> HIDE DEF m, cx, cy, x, y
  <2>1. x \in Nat /\ y \in Nat
    BY <1>2 DEF x, y
  <2>2. (x + 1) * m = m * x + m /\ y * m = m * y /\ m * x \in Nat /\ m * y \in Nat
    BY <1>4, <2>1
  <2> QED BY <1>4, <1>6, <2>1, <2>2
<1>9. \A i \in D : Area(points, a, i, N) = Abs(c * (points[i].y - y))
  <2> TAKE i \in D
  <2>1. points[i].y - y \in Int /\ x - points[i].x \in Int
    BY <1>2
  <2>2. Area(points, a, i, N) = Abs(c * (points[i].y - y) - (x - points[i].x) * 0)
    BY <1>7, <1>8
  <2> HIDE DEF c, x, y
  <2>3. (x - points[i].x) * 0 = 0 /\ c * (points[i].y - y) \in Int
    BY <1>8, <2>1
  <2> QED BY <2>2, <2>3
<1>10. \A i \in D \ {s} : Area(points, a, i, N) = 0
  <2> TAKE i \in D \ {s}
  <2>1. points[i].y - y = 0
    BY <1>2
  <2>2. c * 0 = 0
    <3> HIDE DEF c
    <3> QED BY <1>8
  <2> QED BY <1>9, <2>1, <2>2 DEF Abs
<1>11. Area(points, a, s, N) # 0
  <2> DEFINE d == points[s].y - y
  <2>1. d \in Int /\ d # 0
    <3>1. points[a].y # points[s].y
      BY <1>2
    <3> QED BY <1>2, <3>1
  <2>2. Area(points, a, s, N) = Abs(c * d)
    BY <1>2, <1>9
  <2> HIDE DEF c, d
  <2>3. c * d # 0 /\ c * d \in Int
    BY <1>8, <2>1
  <2> QED BY <2>2, <2>3 DEF Abs
<1> DEFINE best == Best(points, target, a, k)
<1>12. best \in Bucket(k, n, target) /\ Area(points, a, s, N) <= Area(points, a, best, N)
  BY BestIs
<1>13. Area(points, a, s, N) \in Nat
  BY <1>1, <1>2, AreaIs
<1>14. best \in D
  BY <1>1, <1>12
<1> HIDE DEF best, N, D
<1>15. best = s
  BY <1>10, <1>11, <1>12, <1>13, <1>14
<1> QED BY <1>15 DEF best

\* The recursion over the buckets has a solution: else there would be a first bucket up
\* to which it has none.
LEMMA PicksIs ==
  ASSUME NEW target \in Nat, 3 <= target, NEW points
  PROVE  LET pick == Picks(points, target)
         IN pick = [k \in 0..(target - 2) |-> IF k = 0 THEN 0 ELSE Best(points, target, pick[k - 1], k - 1)]
<1> DEFINE D == 0..(target - 2)
           Until(j, p) == p = [k \in 0..j |-> IF k = 0 THEN 0 ELSE Best(points, target, p[k - 1], k - 1)]
           S == {j \in D : ~\E p : Until(j, p)}
           id == [j \in D |-> j]
<1>1. target - 2 \in Nat /\ 0 \in Int /\ target - 2 \in Int /\ target - 2 \in D
  OBVIOUS
<1>2. S = {}
  <2> SUFFICES ASSUME S # {} PROVE FALSE
    OBVIOUS
  <2>1. PICK j \in S : \A q \in S : j <= q
    <3>1. IsFiniteSet(D) /\ id \in [D -> Int] /\ S \subseteq D /\ \A q \in S : id[q] = q
      BY <1>1, FS_Interval
    <3> HIDE DEF S, D, id
    <3>2. PICK j \in S : \A q \in S : id[j] <= id[q]
      BY <3>1, FirstOf
    <3> QED BY <3>1, <3>2
  <2>2. j \in D /\ j \in Nat /\ ~\E p : Until(j, p)
    BY <1>1
  <2>3. CASE j = 0
    <3> DEFINE p == [k \in 0..0 |-> 0]
    <3>1. p = [k \in 0..0 |-> IF k = 0 THEN 0 ELSE Best(points, target, p[k - 1], k - 1)]
      <4> HIDE DEF p
      <4>1. [k \in 0..0 |-> IF k = 0 THEN 0 ELSE Best(points, target, p[k - 1], k - 1)] = [k \in 0..0 |-> 0]
        OBVIOUS
      <4> QED BY <4>1 DEF p
    <3>2. Until(0, p)
      BY <3>1
    <3> QED BY <2>2, <2>3, <3>2
  <2>4. CASE j # 0
    <3>1. j - 1 \in D /\ j - 1 \notin S
      BY <2>1, <2>2, <2>4
    <3>2. PICK p : Until(j - 1, p)
      BY <3>1
    <3>3. DOMAIN p = 0..(j - 1) /\ \A k \in 0..(j - 1) : p[k] = IF k = 0 THEN 0 ELSE Best(points, target, p[k - 1], k - 1)
      BY <3>2
    <3> DEFINE found == Best(points, target, p[j - 1], j - 1)
               q == [k \in 0..j |-> IF k < j THEN p[k] ELSE found]
               r == [k \in 0..j |-> IF k = 0 THEN 0 ELSE Best(points, target, q[k - 1], k - 1)]
    <3>4. ASSUME NEW k \in 0..j PROVE q[k] = r[k]
      <4>1. CASE k < j
        <5>1. k \in 0..(j - 1) /\ q[k] = p[k]
          BY <2>2, <4>1
        <5>2. k # 0 => k - 1 \in 0..j /\ k - 1 < j /\ q[k - 1] = p[k - 1]
          BY <2>2, <4>1
        <5> HIDE DEF q
        <5> QED BY <3>3, <5>1, <5>2
      <4>2. CASE ~(k < j)
        <5>1. k = j /\ k # 0 /\ q[k] = found
          BY <2>2, <2>4, <4>2
        <5>2. q[k - 1] = p[j - 1]
          BY <2>2, <2>4, <5>1
        <5> HIDE DEF q
        <5> QED BY <5>1, <5>2
      <4> QED BY <4>1, <4>2
    <3>5. q = r
      <4>1. q = [k \in 0..j |-> q[k]] /\ r = [k \in 0..j |-> r[k]]
        OBVIOUS
      <4> HIDE DEF q, r
      <4> QED BY <3>4, <4>1
    <3>6. Until(j, q)
      <4> HIDE DEF q
      <4> QED BY <3>5
    <3> HIDE DEF Until
    <3> QED BY <2>2, <3>6
  <2> QED BY <2>3, <2>4
<1>3. \E p : Until(target - 2, p)
  <2>1. target - 2 \notin S
    BY <1>2
  <2> HIDE DEF Until
  <2> QED BY <1>1, <2>1
<1>4. Picks(points, target) = CHOOSE p : p = [k \in 0..(target - 2) |-> IF k = 0 THEN 0 ELSE Best(points, target, p[k - 1], k - 1)]
  BY DEF Picks
<1> QED BY <1>3, <1>4

LEMMA PickedInBuckets ==
  ASSUME NEW n \in Nat, NEW target \in Nat, 3 <= target, target < n, NEW points \in [0..(n - 1) -> ChartPoint]
  PROVE  LET pick == Picks(points, target)
         IN  /\ pick[0] = 0
             /\ \A k \in 0..(target - 3) :
                  /\ pick[k] \in 0..(n - 1) /\ pick[k] < Stride(k, n, target)
                  /\ pick[k + 1] \in Bucket(k, n, target) /\ pick[k + 1] = Best(points, target, pick[k], k)
<1> DEFINE pick == Picks(points, target)
           K == 0..(target - 3)
           Before(k) == pick[k] \in 0..(n - 1) /\ pick[k] < Stride(k, n, target)
           S == {k \in K : ~Before(k)}
           id == [k \in K |-> k]
<1>1. pick = [k \in 0..(target - 2) |-> IF k = 0 THEN 0 ELSE Best(points, target, pick[k - 1], k - 1)]
  BY PicksIs
<1> HIDE DEF pick
<1>2. pick[0] = 0
  <2>1. 0 \in 0..(target - 2)
    OBVIOUS
  <2> QED BY <1>1, <2>1
<1>3. ASSUME NEW k \in K PROVE pick[k + 1] = Best(points, target, pick[k], k)
  <2>1. k + 1 \in 0..(target - 2) /\ k + 1 # 0 /\ (k + 1) - 1 = k
    OBVIOUS
  <2> QED BY <1>1, <2>1
<1>4. ASSUME NEW k \in K, Before(k) PROVE pick[k + 1] \in Bucket(k, n, target)
  BY <1>3, <1>4, BestIs
<1>5. Before(0)
  <2>1. Stride(0, n, target) = 1
    BY StrideFrom
  <2>2. 0 \in 0..(n - 1)
    OBVIOUS
  <2> QED BY <1>2, <2>1, <2>2
<1>6. S = {}
  <2> SUFFICES ASSUME S # {} PROVE FALSE
    OBVIOUS
  <2>1. PICK k \in S : \A q \in S : k <= q
    <3>1. IsFiniteSet(K) /\ id \in [K -> Int] /\ S \subseteq K /\ \A q \in S : id[q] = q
      <4>1. 0 \in Int /\ target - 3 \in Int
        OBVIOUS
      <4> QED BY <4>1, FS_Interval
    <3> HIDE DEF S, K, id
    <3>2. PICK k \in S : \A q \in S : id[k] <= id[q]
      BY <3>1, FirstOf
    <3> QED BY <3>1, <3>2
  <2>2. k # 0
    BY <1>5
  <2>3. k - 1 \in K /\ k - 1 \notin S /\ (k - 1) + 1 = k /\ k - 1 \in Nat
    BY <2>1, <2>2
  <2>4. pick[k] \in Bucket(k - 1, n, target)
    <3>1. Before(k - 1)
      BY <2>3
    <3> HIDE DEF Before
    <3> QED BY <1>4, <2>3, <3>1
  <2>5. Bucket(k - 1, n, target) \subseteq 1..(n - 2)
    BY <2>3, BucketsAre
  <2>6. pick[k] \in Stride(k - 1, n, target)..(Stride(k, n, target) - 1)
    BY <2>3, <2>4 DEF Bucket
  <2>7. Stride(k - 1, n, target) \in Nat /\ Stride(k, n, target) \in Nat
    <3>1. k - 1 \in Nat /\ k \in Nat
      BY <2>1, <2>3
    <3> QED BY <3>1, StrideFrom
  <2>8. Before(k)
    BY <2>4, <2>5, <2>6, <2>7
  <2> QED BY <2>8
<1>7. ASSUME NEW k \in K PROVE Before(k)
  BY <1>6
<1> QED BY <1>2, <1>3, <1>4, <1>7 DEF pick

LEMMA BucketOf ==
  ASSUME NEW n \in Nat, NEW target \in Nat, 3 <= target, target < n,
         NEW s \in 1..(n - 2), s < Stride(target - 2, n, target)
  PROVE  \E k \in 0..(target - 3) : s \in Bucket(k, n, target)
<1> DEFINE K == 0..(target - 3)
           S == {k \in K : s < Stride(k + 1, n, target)}
           id == [k \in K |-> k]
<1>1. target - 3 \in S
  <2>1. target - 3 \in K /\ (target - 3) + 1 = target - 2
    OBVIOUS
  <2> QED BY <2>1
<1>2. PICK k \in S : \A q \in S : k <= q
  <2>1. IsFiniteSet(K) /\ id \in [K -> Int] /\ S \subseteq K /\ \A q \in S : id[q] = q
    <3>1. 0 \in Int /\ target - 3 \in Int
      OBVIOUS
    <3>2. IsFiniteSet(K)
      BY <3>1, FS_Interval
    <3>3. K \subseteq Int /\ S \subseteq K
      BY <3>1
    <3> HIDE DEF K, S
    <3> QED BY <3>2, <3>3
  <2> HIDE DEF S, K, id
  <2>2. PICK k \in S : \A q \in S : id[k] <= id[q]
    BY <1>1, <2>1, FirstOf
  <2> QED BY <2>1, <2>2
<1>3. k \in K /\ s < Stride(k + 1, n, target) /\ Stride(k, n, target) \in Nat /\ Stride(k + 1, n, target) \in Nat
  <2>1. k \in K /\ k \in Nat /\ k + 1 \in Nat /\ s < Stride(k + 1, n, target)
    OBVIOUS
  <2> QED BY <2>1, StridesAre
<1>4. Stride(k, n, target) <= s
  <2>1. CASE k = 0
    <3>1. Stride(0, n, target) = 1
      BY StridesAre
    <3> QED BY <2>1, <3>1
  <2>2. CASE k # 0
    <3>1. k - 1 \in K /\ k - 1 \notin S /\ (k - 1) + 1 = k
      BY <1>2, <1>3, <2>2
    <3>2. ~(s < Stride(k, n, target))
      BY <3>1
    <3> QED BY <1>3, <3>2
  <2> QED BY <2>1, <2>2
<1> QED BY <1>3, <1>4 DEF Bucket

LEMMA ChartIs ==
  ASSUME TracksTypeOK, cleaned = None
  PROVE  /\ Len(track) \in Nat /\ Chart \in [0..(Len(track) - 1) -> ChartPoint]
         /\ DOMAIN Chart = 0..(Len(track) - 1) /\ Cardinality(DOMAIN Chart) = Len(track)
         /\ \A i, j \in 0..(Len(track) - 1) : i < j => Chart[i].x < Chart[j].x
<1> DEFINE n == Len(track)
           D == 0..(n - 1)
<1>1. track \in Seq(Position) /\ n \in Nat /\ DOMAIN track = 1..n
  BY DEF TracksTypeOK
<1>2. \A i \in 1..n : track[i].ts \in Nat /\ track[i].gs \in Nat \cup {None}
  BY <1>1 DEF TracksTypeOK, Position
<1>3. \A i, k \in 1..n : i < k => track[i].ts < track[k].ts
  BY <1>1 DEF TracksTypeOK
<1> HIDE DEF n
<1>4. \A i \in D : i + 1 \in 1..n
  BY <1>1
<1>5. Chart = [i \in D |-> [x |-> track[i + 1].ts, y |-> IF track[i + 1].gs = None THEN 0 ELSE track[i + 1].gs]]
  BY DEF Chart, n
<1>6. Chart \in [D -> ChartPoint]
  <2>1. \A i \in D : [x |-> track[i + 1].ts, y |-> IF track[i + 1].gs = None THEN 0 ELSE track[i + 1].gs] \in ChartPoint
    BY <1>2, <1>4 DEF ChartPoint
  <2> HIDE DEF D
  <2> QED BY <1>5, <2>1
<1>7. DOMAIN Chart = D
  BY <1>5
<1>8. Cardinality(D) = n
  <2>1. 0 \in Int /\ n - 1 \in Int
    BY <1>1
  <2>2. Cardinality(D) = IF 0 > n - 1 THEN 0 ELSE (n - 1) - 0 + 1
    BY <2>1, FS_Interval
  <2> QED BY <1>1, <2>2
<1>9. \A i, j \in D : i < j => Chart[i].x < Chart[j].x
  <2> SUFFICES ASSUME NEW i \in D, NEW j \in D, i < j PROVE Chart[i].x < Chart[j].x
    OBVIOUS
  <2>1. i + 1 \in 1..n /\ j + 1 \in 1..n /\ i + 1 < j + 1
    BY <1>1, <1>4
  <2>2. track[i + 1].ts < track[j + 1].ts
    BY <1>3, <2>1
  <2> QED BY <1>5, <2>2
<1> QED BY <1>1, <1>6, <1>7, <1>8, <1>9 DEF n

LEMMA ChartOK == TracksTypeOK => ChartFaithful
<1> DEFINE n == Len(track)
           points == Chart
<1> SUFFICES ASSUME TracksTypeOK, cleaned = None, NEW target \in 3..(n - 1)
             PROVE  LET out == Lttb(points, target)
                        Flat(s) == \A i, j \in (DOMAIN points) \ {s} : points[i].y = points[j].y /\ points[i].y # points[s].y
                    IN  /\ DOMAIN out = 1..target /\ out[1] = 0 /\ out[target] = n - 1
                        /\ \A i \in 2..target : out[i - 1] < out[i]
                        /\ \A s \in DOMAIN points : Flat(s) /\ ~Skipped(s, n, target) => \E i \in 1..target : out[i] = s
  BY DEF ChartFaithful
<1> DEFINE pick == Picks(points, target)
           out == Lttb(points, target)
<1>1. /\ n \in Nat /\ points \in [0..(n - 1) -> ChartPoint]
      /\ DOMAIN points = 0..(n - 1) /\ Cardinality(DOMAIN points) = n
      /\ \A i, j \in 0..(n - 1) : i < j => points[i].x < points[j].x
  BY ChartIs
<1>2. out = [i \in 1..target |-> IF i < target THEN pick[i - 1] ELSE n - 1]
  <2>1. ~(target >= n \/ target <= 2)
    BY <1>1
  <2> QED BY <1>1, <2>1 DEF Lttb
<1> HIDE DEF n, points
<1>3. target \in Nat /\ 3 <= target /\ target < n
  BY <1>1
<1>4. /\ pick[0] = 0
      /\ \A k \in 0..(target - 3) :
           /\ pick[k] \in 0..(n - 1) /\ pick[k] < Stride(k, n, target)
           /\ pick[k + 1] \in Bucket(k, n, target) /\ pick[k + 1] = Best(points, target, pick[k], k)
  BY <1>1, <1>3, PickedInBuckets
<1> HIDE DEF pick, out
<1>5. DOMAIN out = 1..target /\ out[1] = 0 /\ out[target] = n - 1
  <2>1. 1 \in 1..target /\ 1 < target /\ target \in 1..target /\ 1 - 1 = 0
    BY <1>3
  <2> QED BY <1>2, <1>4, <2>1
<1>6. \A k \in 0..(target - 3) : out[k + 2] = IF k + 2 < target THEN pick[k + 1] ELSE n - 1
  BY <1>2, <1>3
<1>7. ASSUME NEW i \in 2..target PROVE out[i - 1] < out[i]
  <2> DEFINE k == i - 2
  <2>1. k \in 0..(target - 2) /\ i = k + 2 /\ i - 1 = k + 1 /\ k + 1 \in 1..target /\ k + 1 < target
    BY <1>3
  <2> HIDE DEF k
  <2>2. out[i - 1] = pick[k]
    BY <1>2, <2>1
  <2>3. CASE i < target
    <3>1. k \in 0..(target - 3) /\ k \in Nat /\ out[i] = pick[k + 1]
      BY <1>3, <1>6, <2>1, <2>3
    <3>2. pick[k] \in 0..(n - 1) /\ pick[k] < Stride(k, n, target) /\ pick[k + 1] \in Stride(k, n, target)..(Stride(k + 1, n, target) - 1)
      BY <1>4, <3>1 DEF Bucket
    <3>3. Stride(k, n, target) \in Nat /\ Stride(k + 1, n, target) \in Nat
      <4>1. k + 1 \in Nat
        BY <3>1
      <4> QED BY <1>1, <1>3, <3>1, <4>1, StridesAre
    <3> QED BY <2>2, <3>1, <3>2, <3>3
  <2>4. CASE i = target
    <3>1. target - 3 \in 0..(target - 3) /\ (target - 3) + 1 = k
      BY <1>3, <2>1, <2>4
    <3>2. pick[k] \in Bucket(target - 3, n, target)
      BY <1>4, <3>1
    <3>3. Bucket(target - 3, n, target) \subseteq 1..(n - 2)
      BY <1>1, <1>3, <3>1, BucketsAre
    <3>4. pick[k] \in 1..(n - 2)
      BY <3>2, <3>3
    <3> QED BY <1>1, <1>5, <2>2, <2>4, <3>4
  <2> QED BY <1>3, <2>3, <2>4
<1>8. ASSUME NEW s \in 0..(n - 1),
             \A i, j \in 0..(n - 1) \ {s} : points[i].y = points[j].y /\ points[i].y # points[s].y,
             ~Skipped(s, n, target)
      PROVE  \E i \in 1..target : out[i] = s
  <2>1. CASE s = 0
    <3>1. 1 \in 1..target
      BY <1>3
    <3> QED BY <1>5, <2>1, <3>1
  <2>2. CASE s = n - 1
    <3>1. target \in 1..target
      BY <1>3
    <3> QED BY <1>5, <2>2, <3>1
  <2>3. CASE s # 0 /\ s # n - 1
    <3>1. s \in 1..(n - 2)
      BY <1>1, <2>3
    <3>8. s < Stride(target - 2, n, target)
      <4>1. Stride(target - 2, n, target) = IF <<target - 2, n, target>> \in Below THEN n - 2 ELSE n - 1
        BY <1>1, <1>3, StridesAre
      <4>2. s = n - 2 => <<target - 2, n, target>> \notin Below
        BY <1>8 DEF Skipped
      <4> QED BY <1>1, <3>1, <4>1, <4>2
    <3>2. PICK k \in 0..(target - 3) : s \in Bucket(k, n, target)
      BY <1>1, <1>3, <3>1, <3>8, BucketOf
    <3>3. pick[k] \in 0..(n - 1) /\ pick[k] < Stride(k, n, target) /\ pick[k + 1] = Best(points, target, pick[k], k)
      BY <1>4
    <3>4. pick[k] < s
      <4>1. s \in Stride(k, n, target)..(Stride(k + 1, n, target) - 1)
        BY <3>2 DEF Bucket
      <4>2. Stride(k, n, target) \in Nat
        <5>1. k \in Nat
          OBVIOUS
        <5> QED BY <1>1, <1>3, <5>1, StridesAre
      <4> QED BY <3>1, <3>3, <4>1, <4>2
    <3>5. \A j \in NextBucket(k, n, target) : pick[k] < j
      <4> TAKE j \in NextBucket(k, n, target)
      <4>1. s < j /\ j \in 1..(n - 1)
        BY <1>1, <1>3, <3>2, BucketsAre
      <4> QED BY <3>1, <3>3, <3>4, <4>1
    <3>6. Best(points, target, pick[k], k) = s
      <4> DEFINE a == pick[k]
      <4>1. a \in 0..(n - 1) /\ a < s /\ \A j \in NextBucket(k, n, target) : a < j
        BY <3>3, <3>4, <3>5
      <4>2. \A i, j \in 0..(n - 1) \ {s} : points[i].y = points[j].y /\ points[i].y # points[s].y
        BY <1>8
      <4> HIDE DEF a
      <4>3. Best(points, target, a, k) = s
        BY <1>1, <1>3, <3>2, <4>1, <4>2, SpikeIsBest
      <4> QED BY <4>3 DEF a
    <3>7. k + 2 \in 1..target /\ k + 2 < target
      BY <1>3
    <3> QED BY <1>6, <3>3, <3>6, <3>7
  <2> QED BY <2>1, <2>2, <2>3
<1> QED BY <1>1, <1>5, <1>7, <1>8 DEF out, n

-----------------------------------------------------------------------------
(* Tracks: steps *)

TracksInv == TracksTypeOK /\ PurgedClean

LEMMA TrackInOrder == TracksTypeOK => InOrder(track)
<1> SUFFICES ASSUME TracksTypeOK PROVE InOrder(track)
  OBVIOUS
<1>1. 1 \in Int /\ MaxFixes \in Int
  BY TracksAssumption
<1>2. IsFiniteSet(1..MaxFixes)
  BY <1>1, FS_Interval
<1>3. IsFiniteSet(DOMAIN track) /\ DOMAIN track \subseteq Nat
  BY <1>2, FS_Subset, TracksAssumption DEF TracksTypeOK
<1> QED BY <1>3 DEF TracksTypeOK, InOrder

LEMMA TracksInvIs == TracksInv => TracksKept
<1> SUFFICES ASSUME TracksInv PROVE TracksKept
  OBVIOUS
<1>1. TracksTypeOK /\ PurgedClean /\ InOrder(track)
  BY TrackInOrder DEF TracksInv
<1>2. GhostAlone
  BY <1>1, GhostAloneOK DEF GhostAlone
<1> QED BY <1>1, <1>2, ChartOK DEF TracksKept

LEMMA TracksInitOK == TracksInit => TracksInv
<1> SUFFICES ASSUME TracksInit PROVE TracksInv
  OBVIOUS
<1>1. track = <<>> /\ cleaned = None /\ track \in Seq(Position) /\ DOMAIN track = {}
  BY DEF TracksInit
<1>2. None \notin {"ghosts", "gs", "spikes"}
  BY TracksAssumption
<1>3. TracksTypeOK
  BY <1>1 DEF TracksTypeOK
<1>4. PurgedClean
  BY <1>1, <1>2 DEF PurgedClean
<1> QED BY <1>3, <1>4 DEF TracksInv

LEMMA RecordFixOK == TracksInv /\ RecordFix => TracksInv'
<1> SUFFICES ASSUME TracksInv, RecordFix PROVE TracksInv'
  OBVIOUS
<1>1. PICK r \in FixReports, gap \in Gaps :
        /\ cleaned = None /\ Len(track) < MaxFixes
        /\ track' = Append(track, [ts |-> gap + (IF track = <<>> THEN 0 ELSE track[Len(track)].ts),
                                   place |-> r.place, gs |-> r.gs, adsb |-> r.adsb])
        /\ cleaned' = cleaned
  BY DEF RecordFix
<1> DEFINE n == Len(track)
           before == IF track = <<>> THEN 0 ELSE track[n].ts
           p == [ts |-> gap + before, place |-> r.place, gs |-> r.gs, adsb |-> r.adsb]
<1>2. track \in Seq(Position) /\ n \in Nat /\ DOMAIN track = 1..n
  BY <1>1 DEF TracksInv, TracksTypeOK
<1>3. \A i \in 1..n : track[i] \in Position /\ track[i].ts \in Nat
  BY <1>2 DEF TracksInv, TracksTypeOK, Position
<1>4. \A i, k \in 1..n : i < k => track[i].ts < track[k].ts
  BY <1>2 DEF TracksInv, TracksTypeOK
<1>5. before \in Nat /\ \A i \in 1..n : track[i].ts <= before
  <2>1. CASE track = <<>>
    <3>1. n = 0
      BY <2>1
    <3> QED BY <2>1, <3>1
  <2>2. CASE track # <<>>
    <3>1. n \in 1..n /\ before = track[n].ts
      BY <1>2, <2>2
    <3>2. \A i \in 1..n : i = n \/ track[i].ts < track[n].ts
      <4> HIDE DEF before, n
      <4>1. \A i \in 1..n : i = n \/ i < n
        BY <1>2
      <4> QED BY <1>4, <3>1, <4>1
    <3> HIDE DEF before, n
    <3> QED BY <1>3, <3>1, <3>2
  <2> QED BY <2>1, <2>2
<1>6. p \in Position /\ p.ts > before /\ p.ts \in Nat
  <2>1. r.place \in Int /\ r.gs \in Nat \cup {None} /\ r.adsb \in BOOLEAN /\ gap \in Nat \ {0}
    BY TracksAssumption
  <2> HIDE DEF before
  <2> QED BY <1>5, <2>1 DEF Position
<1>7. track' = Append(track, p)
  BY <1>1
<1> HIDE DEF n, before, p
<1>8. /\ track' \in Seq(Position) /\ DOMAIN track' = 1..(n + 1)
      /\ \A i \in 1..n : track'[i] = track[i]
      /\ track'[n + 1] = p
  BY <1>2, <1>6, <1>7 DEF n
<1>9. \A i \in 1..(n + 1) : i \in 1..n \/ i = n + 1
  BY <1>2
<1>10. \A i, k \in 1..(n + 1) : i < k => track'[i].ts < track'[k].ts
  <2> SUFFICES ASSUME NEW i \in 1..(n + 1), NEW k \in 1..(n + 1), i < k PROVE track'[i].ts < track'[k].ts
    OBVIOUS
  <2>1. i \in 1..n
    BY <1>2
  <2>2. CASE k \in 1..n
    BY <1>4, <1>8, <2>1, <2>2
  <2>3. CASE k = n + 1
    <3>1. track[i].ts <= before /\ track[i].ts \in Nat
      BY <1>3, <1>5, <2>1
    <3> QED BY <1>5, <1>6, <1>8, <2>1, <2>3, <3>1
  <2> QED BY <1>9, <2>2, <2>3
<1>11. \A i \in 1..(n + 1) : track'[i] \in Position
  BY <1>3, <1>6, <1>8, <1>9
<1>12. 1..(n + 1) \subseteq 1..MaxFixes
  <2>1. n < MaxFixes /\ MaxFixes \in Nat
    BY <1>1, TracksAssumption DEF n
  <2> QED BY <1>2, <2>1
<1>13. cleaned' = None /\ None \notin {"ghosts", "gs", "spikes"}
  BY <1>1, TracksAssumption
<1>14. TracksTypeOK'
  BY <1>8, <1>10, <1>11, <1>12, <1>13 DEF TracksTypeOK
<1>15. PurgedClean'
  BY <1>13 DEF PurgedClean
<1> QED BY <1>14, <1>15 DEF TracksInv

LEMMA WithoutTypeOK ==
  ASSUME TracksTypeOK, NEW bad, cleaned' \in {"ghosts", "gs", "spikes"}, track' = Without(track, bad)
  PROVE  TracksTypeOK'
<1>1. DOMAIN track' = DOMAIN track \ bad /\ \A i \in DOMAIN track \ bad : track'[i] = track[i]
  BY DEF Without
<1>2. None \notin {"ghosts", "gs", "spikes"}
  BY TracksAssumption
<1> QED BY <1>1, <1>2 DEF TracksTypeOK

LEMMA BlankedTypeOK ==
  ASSUME TracksTypeOK, NEW bad, cleaned' \in {"ghosts", "gs", "spikes"}, track' = Blanked(track, bad)
  PROVE  TracksTypeOK'
<1>1. DOMAIN track' = DOMAIN track
  BY DEF Blanked
<1>2. ASSUME NEW i \in DOMAIN track PROVE track'[i] \in Position /\ track'[i].ts = track[i].ts
  <2>1. track[i] \in Position
    BY DEF TracksTypeOK
  <2>2. track'[i] = IF i \in bad THEN [track[i] EXCEPT !.gs = None] ELSE track[i]
    BY DEF Blanked
  <2> QED BY <2>1, <2>2 DEF Position
<1>3. None \notin {"ghosts", "gs", "spikes"}
  BY TracksAssumption
<1> QED BY <1>1, <1>2, <1>3 DEF TracksTypeOK

LEMMA PurgeGhostsOK == TracksInv /\ PurgeGhosts => TracksInv'
<1> SUFFICES ASSUME TracksInv, PurgeGhosts PROVE TracksInv'
  OBVIOUS
<1>1. cleaned = None /\ cleaned' = "ghosts" /\ track' = Without(track, Ghosts(track))
  BY DEF PurgeGhosts, Script
<1>2. TracksTypeOK /\ InOrder(track)
  BY TrackInOrder DEF TracksInv
<1>3. track = [i \in DOMAIN track |-> track[i]]
  BY <1>1, <1>2 DEF TracksTypeOK
<1>4. Ghosts(track') = {}
  BY <1>1, <1>2, <1>3, GhostsTwice
<1>5. TracksTypeOK'
  BY <1>1, <1>2, WithoutTypeOK
<1>6. PurgedClean'
  BY <1>1, <1>4 DEF PurgedClean
<1> QED BY <1>5, <1>6 DEF TracksInv

LEMMA PurgeBadGsOK == TracksInv /\ PurgeBadGs => TracksInv'
<1> SUFFICES ASSUME TracksInv, PurgeBadGs PROVE TracksInv'
  OBVIOUS
<1>1. cleaned' = "gs" /\ track' = Blanked(track, BadGs(track))
  BY DEF PurgeBadGs, Script
<1>2. TracksTypeOK /\ InOrder(track)
  BY TrackInOrder DEF TracksInv
<1>3. BadGs(track') = {}
  BY <1>1, <1>2, BadGsTwice
<1>4. TracksTypeOK'
  BY <1>1, <1>2, BlankedTypeOK
<1>5. PurgedClean'
  BY <1>1, <1>3 DEF PurgedClean
<1> QED BY <1>4, <1>5 DEF TracksInv

LEMMA PurgeSpikesOK == TracksInv /\ PurgeSpikes => TracksInv'
<1> SUFFICES ASSUME TracksInv, PurgeSpikes PROVE TracksInv'
  OBVIOUS
<1>1. cleaned' = "spikes" /\ track' = Blanked(track, Spikes(track) \cup Outliers(track))
  BY DEF PurgeSpikes, Script
<1>2. TracksTypeOK'
  BY <1>1, BlankedTypeOK DEF TracksInv
<1>3. PurgedClean'
  BY <1>1 DEF PurgedClean
<1> QED BY <1>2, <1>3 DEF TracksInv

LEMMA TracksStutterOK == TracksInv /\ UNCHANGED tracks => TracksInv'
<1> QED BY DEF TracksInv, TracksTypeOK, PurgedClean, tracks

\* A lone ghost is what the script deletes and a second run of it, or of the one for bad
\* speeds, finds nothing; a chart keeps order, ends, length and a lone spike of any track
\* (purge_ghosts.py, purge_bad_gs.py, downsample.py).
THEOREM TracksKeptAlways == TracksSpec => []TracksKept
<1>1. TracksInit => TracksInv
  BY TracksInitOK
<1>2. TracksInv /\ [TracksNext]_tracks => TracksInv'
  BY RecordFixOK, PurgeGhostsOK, PurgeBadGsOK, PurgeSpikesOK, TracksStutterOK DEF TracksNext
<1>3. TracksInv => TracksKept
  BY TracksInvIs
<1> QED BY <1>1, <1>2, <1>3, PTL DEF TracksSpec
=============================================================================
