------------------------------ MODULE Startup ------------------------------
(***************************************************************************)
(* Starts and stops: the dirty sentinel and quick_check of the collector    *)
(* (main, startup_check), and the rebuild of the positions table from the   *)
(* legacy layout (v5) to scaled integers (v6), which the collector          *)
(* (init_db), the web server (ensure_base_schema) and scripts/migrate_v6.py *)
(* may all run, each in its own process, after a deployment.                *)
(*                                                                          *)
(* "tables" is the committed database. Python's sqlite3 opens a transaction *)
(* for INSERT but not for CREATE and DROP, so the steps of the rebuild up   *)
(* to the INSERT are commits of their own. With synchronous = NORMAL a      *)
(* power cut may lose the commits since the last checkpoint ("durable").    *)
(*                                                                          *)
(* Abstracted: the rows of positions are legacy or scaled or none; the file *)
(* operations on the sentinel succeed and last; the swap recovery of        *)
(* aircraft_db is in RefData and the polls are in Collector.                *)
(***************************************************************************)
EXTENDS Naturals, Option

CONSTANTS
    MaxFaults, MaxStarts   \* bounds: kills and power cuts; starts by the operator

VARIABLES
    sentinel,    \* .dirty_shutdown exists
    damage,      \* None, or what the power cut that damaged the file hit
    tables,      \* committed: layout, rows, spare (positions_v6), version
    durable,     \* a committed state that survives a power cut
    backup,      \* the copy update.sh took
    big,         \* more rows than _INLINE_REBUILD_MAX
    writer,      \* the process in a write transaction
    pc,
    worker,      \* the thread of run_quick_check
    stopping,    \* SIGTERM received: not _running
    faults, starts

vars == <<sentinel, damage, tables, durable, backup, big, writer, pc, worker, stopping, faults, starts>>
system == <<sentinel, damage, durable, backup, big, worker, stopping, faults, starts>>

Services == {"collector", "web"}
Procs == Services \cup {"script"}
ASSUME StartupAssumption == None \notin Procs
Down == {"off", "failed"}
Rebuild == {"drop", "create", "copy", "replace"}
Legacy == [layout |-> "v5", rows |-> "raw", spare |-> FALSE, version |-> 5]
Slim == [layout |-> "v6", rows |-> "scaled", spare |-> FALSE, version |-> 6]
Fresh == [layout |-> "none", rows |-> "none", spare |-> FALSE, version |-> 0]

Running(p) == pc[p] \notin Down
\* The collector has the sentinel on the disk and may write.
Writing == pc["collector"] \notin Down \cup {"check"}

TypeOK ==
    /\ sentinel \in BOOLEAN /\ big \in BOOLEAN /\ stopping \in BOOLEAN
    /\ damage \in {None, "collector", "others"}
    /\ {tables, durable, backup} \subseteq
         [layout: {"v5", "v6", "none"}, rows: {"raw", "scaled", "none"}, spare: BOOLEAN, version: {0, 5, 6}]
    /\ pc \in [Procs -> Down \cup Rebuild \cup {"check", "ddl", "inspect", "stamp", "up", "end"}]
    /\ worker \in {"none", "idle", "running", "ok", "issues", "raised"}
    /\ \A p \in Procs : (pc[p] = "replace") <=> (writer = p)
    /\ writer # None => tables.spare /\ tables.layout = "v5"

Init ==
    /\ sentinel = FALSE /\ damage = None
    /\ tables \in {Legacy, Slim, Fresh} /\ durable = tables /\ backup = tables
    /\ big \in BOOLEAN /\ (big => tables # Fresh)
    /\ writer = None /\ pc = [p \in Procs |-> "off"] /\ worker = "none" /\ stopping = FALSE
    /\ faults = 0 /\ starts = 0

Go(p, step) == pc' = [pc EXCEPT ![p] = step]
Fail(p) == Go(p, IF p = "script" THEN "off" ELSE "failed")
Free == writer = None

-----------------------------------------------------------------------------
(* The collector up to its first write, and its end *)

\* Sentinel first, then connect; a sentinel found means an unclean end.
CollectorBegin ==
    /\ sentinel' = TRUE /\ stopping' = FALSE
    /\ pc' = [pc EXCEPT !["collector"] = IF sentinel THEN "check" ELSE "ddl"]
    /\ worker' = IF sentinel THEN "idle" ELSE "none"

Sigterm ==
    /\ Running("collector") /\ ~stopping /\ stopping' = TRUE
    /\ UNCHANGED <<sentinel, damage, tables, durable, backup, big, writer, pc, worker, faults, starts>>

CheckStep(w) ==
    /\ pc["collector"] = "check" /\ worker' = w
    /\ UNCHANGED <<sentinel, damage, tables, durable, backup, big, writer, pc, stopping, faults, starts>>

CheckBegins == worker = "idle" /\ CheckStep("running")
CheckEnds ==
    /\ worker = "running"
    /\ IF damage = None THEN CheckStep("ok") ELSE \E w \in {"issues", "raised"} : CheckStep(w)

CheckBreaks ==
    /\ worker = "running" /\ pc["collector"] = "check" /\ worker' = "raised"
    /\ faults < MaxFaults /\ faults' = faults + 1
    /\ UNCHANGED <<sentinel, damage, tables, durable, backup, big, writer, pc, stopping, starts>>

\* Mutant: the shutdown is looked at only before the PRAGMA begins.
InterruptBefore == worker = "idle" /\ stopping /\ CheckStep("idle")

\* The main thread interrupts on every pass: a call before the statement
\* begins is lost.
Interrupt == stopping /\ worker = "running" /\ CheckStep("raised")

\* Mutant: the sentinel is deleted when the check passes (v2.31).
JudgeForgets ==
    /\ pc["collector"] = "check" /\ worker \in {"ok", "issues", "raised"} /\ worker' = "none"
    /\ pc' = [pc EXCEPT !["collector"] = IF worker = "ok" THEN "ddl"
                                         ELSE IF worker = "raised" /\ stopping THEN "off" ELSE "failed"]
    /\ sentinel' = (worker # "ok")
    /\ UNCHANGED <<damage, tables, durable, backup, big, writer, stopping, faults, starts>>

\* An interrupted check ends the process with 0, any other failure with 2; a
\* check that passes keeps the sentinel for this run.
Judge ==
    /\ pc["collector"] = "check" /\ worker \in {"ok", "issues", "raised"} /\ worker' = "none"
    /\ pc' = [pc EXCEPT !["collector"] = IF worker = "ok" THEN "ddl"
                                         ELSE IF worker = "raised" /\ stopping THEN "off" ELSE "failed"]
    /\ UNCHANGED <<sentinel, damage, tables, durable, backup, big, writer, stopping, faults, starts>>

\* A stop before the check began.
SkipCheck ==
    /\ pc["collector"] = "check" /\ worker = "idle" /\ stopping
    /\ worker' = "none" /\ pc' = [pc EXCEPT !["collector"] = "off"]
    /\ UNCHANGED <<sentinel, damage, tables, durable, backup, big, writer, stopping, faults, starts>>

\* A poll stores fixes (Collector has it in detail).
Poll ==
    /\ pc["collector"] = "up" /\ Free /\ tables.layout = "v6"
    /\ tables' = [tables EXCEPT !.rows = "scaled"] /\ UNCHANGED <<system, writer, pc>>

\* The loop is left, the flights are finalised (or that fails), the connection is closed.
Finalise ==
    /\ pc["collector"] = "up" /\ stopping
    /\ pc' = [pc EXCEPT !["collector"] = "end"] /\ UNCHANGED <<system, tables, writer>>

Unlink ==
    /\ pc["collector"] = "end" /\ sentinel' = FALSE
    /\ pc' = [pc EXCEPT !["collector"] = "off"]
    /\ UNCHANGED <<damage, tables, durable, backup, big, writer, worker, stopping, faults, starts>>

-----------------------------------------------------------------------------
(* The schema *)

\* init_db runs the whole DDL, ensure_base_schema only on a database without
\* tables, which it then stamps.
Ddl(p) ==
    /\ pc[p] = "ddl" /\ Free
    /\ tables' = IF tables.layout # "none" THEN tables
                 ELSE [tables EXCEPT !.layout = "v6", !.version = IF p = "web" THEN 6 ELSE @]
    /\ Go(p, "inspect") /\ UNCHANGED <<system, writer>>

\* _migrate looks at the columns, the script at the version.
Inspect(p) ==
    /\ pc[p] = "inspect"
    /\ IF p = "script" THEN Go(p, IF tables.version >= 6 THEN "off" ELSE "drop")
       ELSE IF tables.layout = "v6" THEN Go(p, "stamp")
       ELSE IF big THEN Fail(p) ELSE Go(p, "drop")
    /\ UNCHANGED <<system, tables, writer>>

\* Mutant: a leftover of an attempt that failed is not cleared.
DropSpareNever(p) == pc[p] = "drop" /\ Free /\ Go(p, "create") /\ UNCHANGED <<system, tables, writer>>

DropSpare(p) ==
    /\ pc[p] = "drop" /\ Free /\ tables' = [tables EXCEPT !.spare = FALSE]
    /\ Go(p, "create") /\ UNCHANGED <<system, writer>>

CreateSpare(p) ==
    /\ pc[p] = "create" /\ Free
    /\ IF tables.spare THEN Fail(p) /\ UNCHANGED tables
       ELSE Go(p, "copy") /\ tables' = [tables EXCEPT !.spare = TRUE]
    /\ UNCHANGED <<system, writer>>

\* INSERT .. SELECT opens the transaction. It fails without the spare table and
\* without the legacy columns.
Copy(p) ==
    /\ pc[p] = "copy" /\ Free
    /\ IF tables.spare /\ tables.layout = "v5" THEN writer' = p /\ Go(p, "replace")
       ELSE UNCHANGED writer /\ Fail(p)
    /\ UNCHANGED <<system, tables>>

\* Mutant: DROP TABLE positions is a commit of its own.
ReplaceByParts(p) ==
    /\ pc[p] = "replace" /\ writer' = None
    /\ tables' = [tables EXCEPT !.layout = "none", !.rows = "none"]
    /\ Go(p, "ddl") /\ UNCHANGED system

\* DROP, RENAME, the indexes, the stamp, COMMIT.
Replace(p) ==
    /\ pc[p] = "replace" /\ writer' = None
    /\ tables' = [layout |-> "v6", rows |-> IF tables.rows = "raw" THEN "scaled" ELSE tables.rows,
                  spare |-> FALSE, version |-> 6]
    /\ Go(p, IF p = "script" THEN "off" ELSE "stamp") /\ UNCHANGED system

\* The transaction fails (disk full, an orphan row) and is rolled back; or the
\* lock is not free within busy_timeout.
Abandon(p) ==
    /\ \/ pc[p] = "replace" /\ faults < MaxFaults /\ faults' = faults + 1 /\ writer' = None
       \/ pc[p] \in {"ddl", "drop", "create", "copy", "stamp"} /\ ~Free /\ UNCHANGED <<writer, faults>>
    /\ Fail(p)
    /\ UNCHANGED <<sentinel, damage, tables, durable, backup, big, worker, stopping, starts>>

\* Only init_db stamps a database that has tables.
Stamp(p) ==
    /\ pc[p] = "stamp" /\ Free
    /\ tables' = IF p = "collector" THEN [tables EXCEPT !.version = 6] ELSE tables
    /\ Go(p, "up") /\ UNCHANGED <<system, writer>>

-----------------------------------------------------------------------------
(* systemd, the operator, and faults *)

Boot(p) ==
    IF p = "collector" THEN CollectorBegin
    ELSE Go(p, IF p = "script" THEN "inspect" ELSE "ddl") /\ UNCHANGED <<sentinel, worker, stopping>>

\* Restart=on-failure. RestartSec is longer than two DDL statements take.
Restart(p) ==
    /\ pc[p] = "failed" /\ \A q \in Procs \ {p} : pc[q] \notin {"create", "copy"}
    /\ Boot(p) /\ UNCHANGED <<damage, tables, durable, backup, big, writer, faults, starts>>

\* update.sh stops both services before it runs the script.
Start(p) ==
    /\ pc[p] = "off" /\ starts < MaxStarts /\ starts' = starts + 1
    /\ p = "script" => tables.layout # "none" /\ \A q \in Services : pc[q] = "off"
    /\ Boot(p) /\ UNCHANGED <<damage, tables, durable, backup, big, writer, faults>>

StopWeb ==
    /\ Running("web") /\ pc["web"] # "replace" /\ Go("web", "off")
    /\ UNCHANGED <<system, tables, writer>>

Kill(p) ==
    /\ Running(p) /\ faults < MaxFaults /\ faults' = faults + 1
    /\ Fail(p) /\ writer' = (IF writer = p THEN None ELSE writer)
    /\ worker' = IF p = "collector" THEN "none" ELSE worker
    /\ UNCHANGED <<sentinel, damage, tables, durable, backup, big, stopping, starts>>

Checkpoint ==
    /\ durable # tables /\ Free /\ durable' = tables
    /\ UNCHANGED <<sentinel, damage, tables, backup, big, writer, pc, worker, stopping, faults, starts>>

\* A cut may damage a file that somebody has open; systemd starts the
\* services on the next boot.
PowerCut ==
    /\ \E p \in Procs : Running(p)
    /\ faults < MaxFaults /\ faults' = faults + 1
    /\ tables' \in {tables, durable} /\ durable' = tables'
    /\ \/ UNCHANGED damage
       \/ damage = None /\ damage' = IF Running("collector") THEN "collector" ELSE "others"
    /\ pc' = [p \in Procs |-> IF p = "script" THEN "off" ELSE "failed"]
    /\ writer' = None /\ worker' = "none"
    /\ UNCHANGED <<sentinel, backup, big, stopping, starts>>

\* docs/operations.md: stop, restore or .recover, delete the sentinel.
Recover ==
    /\ damage # None /\ \A p \in Procs : ~Running(p)
    /\ damage' = None /\ sentinel' = FALSE /\ tables' \in {tables, backup} /\ durable' = tables'
    /\ UNCHANGED <<backup, big, writer, pc, worker, stopping, faults, starts>>

Step(p) ==
    \/ Ddl(p) \/ Inspect(p) \/ DropSpare(p) \/ CreateSpare(p) \/ Copy(p) \/ Replace(p) \/ Stamp(p)
CollectorStep == Judge \/ SkipCheck \/ CheckBegins \/ Interrupt \/ Finalise \/ Unlink

Next ==
    \/ \E p \in Procs : Step(p) \/ Abandon(p) \/ Start(p) \/ Kill(p)
    \/ \E p \in Services : Restart(p)
    \/ CollectorStep \/ CheckEnds \/ CheckBreaks \/ Sigterm \/ Poll
    \/ StopWeb \/ Checkpoint \/ PowerCut \/ Recover

Spec == Init /\ [][Next]_vars

\* The processes run and systemd restarts them. Once a stop is requested
\* nothing is assumed of how long quick_check takes.
FairSpec ==
    /\ Spec /\ WF_vars(CollectorStep) /\ WF_vars(CheckEnds /\ ~stopping)
    /\ \A p \in Procs : WF_vars(Step(p))
    /\ \A p \in Services : WF_vars(Restart(p))

-----------------------------------------------------------------------------
(* Properties *)

\* A file damaged in a cut during a run of the collector is never written to
\* by the collector, in whatever run (the second and third crash included),
\* before an operator recovered it: "a corrupt DB is never written to".
DamageIsChecked == Writing => damage # "collector"

\* Kills, cuts that lose commits, and rebuilds in several processes lose no
\* row and scale none twice: whatever was there is there, in the format the
\* columns and the version say.
HistoryKept ==
    /\ TypeOK
    /\ backup.rows # "none" => tables.rows # "none" /\ durable.rows # "none"
    /\ \A t \in {tables, durable} :
         /\ t.rows = "raw" => t.layout = "v5"
         /\ t.rows = "scaled" => t.layout = "v6"
         /\ t.version = 6 => t.layout = "v6"

\* The collector gets up again whatever leftovers and rivals it meets, unless
\* the file is damaged, the table is too large, or it is told to stop; and a
\* stop that arrives during the check is honoured, however long the check
\* would take.
EventuallyReady ==
    /\ (pc["collector"] = "failed") ~>
        (pc["collector"] \in {"up", "off"} \/ damage # None \/ stopping
           \/ (big /\ tables.layout = "v5"))
    /\ (stopping /\ pc["collector"] = "check") ~> (pc["collector"] # "check")

\* ADR-0007: "schema migrations never write to a database that has not been
\* checked".
MigratesOnlyChecked ==
    \A p \in Procs : pc[p] \in Rebuild \cup {"inspect", "stamp"} => damage = None
=============================================================================
