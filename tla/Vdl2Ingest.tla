----------------------------- MODULE Vdl2Ingest -----------------------------
(***************************************************************************)
(* The VDL2 ingest service (vdl2_collector.py, vdl2/db.py): one thread       *)
(* receives datagrams and writes them in batches to a database of its own,   *)
(* another deletes old messages over a connection of its own. The start       *)
(* checks the database after an unclean end and builds the search index.     *)
(*                                                                           *)
(* Abstracted: all messages have the same aircraft, label and number, so that *)
(* a final block may cover any earlier one; a body is a set of words. Lines   *)
(* that do not parse change only a counter and are left out, except that such  *)
(* a datagram, as any other, ends the wait for a second of silence.            *)
(***************************************************************************)
EXTENDS Integers, FiniteSets

CONSTANTS
    Bodies,        \* the texts, as sets of words: contained is subset
    MaxMessages,   \* bound: messages ever received, those of the old version included
    OldMessages,   \* of these, rows written by a version without a search index
    MaxClock,      \* bound: instants
    Window,        \* SUPERSEDE_WINDOW_SEC
    Retention,     \* VDL2_RETENTION_DAYS
    PruneBatch,    \* batch of prune()
    Batch,         \* _BATCH
    MaxPending,    \* _MAX_PENDING
    MaxLines,      \* bound: messages in one datagram
    MaxFaults      \* bound: crashes, and failures of each other kind together

ASSUME Vdl2Assumption ==
    /\ {MaxMessages, OldMessages, MaxClock, Window, MaxPending, MaxFaults} \subseteq Nat
    /\ {Retention, PruneBatch, Batch, MaxLines} \subseteq Nat \ {0}
    /\ OldMessages <= MaxMessages /\ Batch <= MaxPending

VARIABLES
    message,   \* message[n]: the n-th one received: more, body, ts
    count,     \* messages received so far
    db,        \* what the ingest connection sees: copies, superseded, indexed
    disk,      \* what is committed
    fts,       \* the search index and its triggers exist
    pending,   \* the buffer of main()
    pc,        \* where main() is
    last,      \* main() is in its finally clause
    stop,      \* _stop
    sentinel,  \* the file .vdl2_dirty_shutdown exists
    clock, faults,
    line,      \* datagrams without a record arrive, at least one a second
    given,     \* history: messages dropped, or in memory when the process ended
    suspect    \* history: a marked run ended without clean-up and no check has passed since

run == <<pc, last, stop>>
store == <<db, disk, fts>>
world == <<clock, faults, given, suspect>>
vars == <<line, message, count, store, pending, run, sentinel, world>>

Messages == 1..MaxMessages
Message == [more: BOOLEAN, body: Bodies, ts: 0..MaxClock]
Table == [copies: [Messages -> 0..2], superseded: SUBSET Messages, indexed: SUBSET Messages]
Stored(t) == {n \in Messages : t.copies[n] > 0}
Listening == pc \in {"recv", "insert", "mark", "commit", "exit"}
Writing == pc \in {"mark", "commit"}
Fault == faults < MaxFaults /\ faults' = faults + 1

TypeOK ==
    /\ count \in 0..MaxMessages
    /\ message \in [1..count -> Message]
    /\ db \in Table /\ disk \in Table
    /\ \A t \in {db, disk} : t.superseded \cup t.indexed \subseteq Stored(t)
    /\ ~Writing => db = disk
    /\ pending \subseteq 1..count /\ given \subseteq 1..count
    /\ pc \in {"down", "check", "schema", "rebuild", "bind"} \/ Listening
    /\ {fts, last, stop, sentinel, suspect, line} \subseteq BOOLEAN
    /\ clock \in 0..MaxClock /\ faults \in 0..MaxFaults

\* A new database, or one with rows of a version that could not build the index.
Init ==
    /\ count \in 0..OldMessages
    /\ message \in [1..count -> {m \in Message : m.ts = 0 /\ m.more}]
    /\ db = [copies |-> [n \in Messages |-> IF n <= count THEN 1 ELSE 0],
             superseded |-> {}, indexed |-> {}]
    /\ disk = db /\ fts = FALSE
    /\ pending = {} /\ pc = "down" /\ last = FALSE /\ stop = FALSE
    /\ sentinel = FALSE /\ clock = 0 /\ faults = 0 /\ given = {} /\ suspect = FALSE
    /\ line \in BOOLEAN

-----------------------------------------------------------------------------
(* Start: main() up to READY *)

Start ==
    /\ pc = "down"
    /\ pc' = IF sentinel THEN "check" ELSE "schema"
    /\ stop' = FALSE /\ last' = FALSE
    /\ UNCHANGED <<line, message, count, store, pending, sentinel, world>>

CheckPassed ==
    /\ pc = "check"
    /\ pc' = "schema" /\ suspect' = FALSE
    /\ UNCHANGED <<line, message, count, store, pending, last, stop, sentinel, clock, faults, given>>

\* Corruption, or a check that could not run: the unit fails.
CheckFailed ==
    /\ pc = "check" /\ Fault
    /\ pc' = "down"
    /\ UNCHANGED <<line, message, count, store, pending, last, stop, sentinel, clock, given, suspect>>

\* Mutant: the interrupted start ends like a clean one.
CheckInterruptedClears ==
    /\ pc = "check" /\ stop
    /\ pc' = "down" /\ sentinel' = FALSE
    /\ UNCHANGED <<line, message, count, store, pending, last, stop, world>>

\* SIGTERM during the check: no verdict, the sentinel stays.
CheckInterrupted ==
    /\ pc = "check" /\ stop
    /\ pc' = "down"
    /\ UNCHANGED <<line, message, count, store, pending, last, stop, sentinel, world>>

\* migrate(build_fts=True): the script that creates the index and its triggers commits
\* by itself. Old rows are indexed by a statement of their own, and only if the index
\* was created just now.
Schema ==
    /\ pc = "schema"
    /\ fts' = TRUE
    /\ pc' = IF ~fts /\ Stored(disk) # {} THEN "rebuild" ELSE "bind"
    /\ UNCHANGED <<line, message, count, db, disk, pending, last, stop, sentinel, world>>

Rebuild ==
    /\ pc = "rebuild"
    /\ disk' = [disk EXCEPT !.indexed = Stored(disk)] /\ db' = disk'
    /\ pc' = "bind"
    /\ UNCHANGED <<line, message, count, fts, pending, last, stop, sentinel, world>>

\* The address is taken, or the schema statements raise.
StartFails ==
    /\ pc \in {"schema", "rebuild", "bind"} /\ Fault
    /\ pc' = "down"
    /\ UNCHANGED <<line, message, count, store, pending, last, stop, sentinel, clock, given, suspect>>

\* The run is marked once the socket is bound; if that fails it is only logged.
Listen ==
    /\ pc = "bind"
    /\ pc' = "recv"
    /\ \/ sentinel' = TRUE /\ UNCHANGED faults
       \/ UNCHANGED sentinel /\ Fault
    /\ UNCHANGED <<line, message, count, store, pending, last, stop, clock, given, suspect>>

\* The web opens the database: it creates the index only while there are no rows.
WebOpen ==
    /\ ~fts /\ Stored(disk) = {}
    /\ fts' = TRUE
    /\ UNCHANGED <<line, message, count, db, disk, pending, run, sentinel, world>>

-----------------------------------------------------------------------------
(* The receiving thread *)

\* _handle_datagram, and the flush of a full buffer.
Receive(lines) ==
    /\ pc = "recv" /\ ~stop
    /\ count + Cardinality(DOMAIN lines) <= MaxMessages
    /\ count' = count + Cardinality(DOMAIN lines)
    /\ message' = [n \in 1..count' |->
            IF n <= count THEN message[n]
            ELSE [more |-> lines[n - count].more, body |-> lines[n - count].body, ts |-> clock]]
    /\ pending' = pending \cup (count + 1)..count'
    /\ pc' = IF Cardinality(pending') >= Batch THEN "insert" ELSE "recv"
    /\ UNCHANGED <<line, store, last, stop, sentinel, world>>

\* Mutant: only full batches are written.
IdleFlushFull ==
    /\ pc = "recv" /\ ~stop /\ ~line /\ Cardinality(pending) >= Batch
    /\ pc' = "insert"
    /\ UNCHANGED <<line, message, count, store, pending, last, stop, sentinel, world>>

\* recvfrom times out: a second without a datagram of any kind.
IdleFlush ==
    /\ pc = "recv" /\ ~stop /\ ~line /\ pending # {}
    /\ pc' = "insert"
    /\ UNCHANGED <<line, message, count, store, pending, last, stop, sentinel, world>>

\* A datagram without a record adds nothing and ends the second of waiting: it makes
\* only a buffer flushed that is full, after a flush that failed.
EmptyDatagram ==
    /\ pc = "recv" /\ ~stop /\ line /\ Cardinality(pending) >= Batch
    /\ pc' = "insert"
    /\ UNCHANGED <<line, message, count, store, pending, last, stop, sentinel, world>>

\* Such datagrams begin or cease; only where main() waits is it of consequence.
LineChanges ==
    /\ pc = "recv" /\ ~stop
    /\ line' = ~line
    /\ UNCHANGED <<message, count, store, pending, run, sentinel, world>>

\* The loop has ended: the finally clause.
LastFlush ==
    /\ pc = "recv" /\ stop
    /\ last' = TRUE
    /\ pc' = IF pending = {} THEN "exit" ELSE "insert"
    /\ UNCHANGED <<line, message, count, store, pending, stop, sentinel, world>>

-----------------------------------------------------------------------------
(* _flush: one transaction *)

\* Where main() goes on after a flush.
Return == pc' = IF last THEN "exit" ELSE "recv"

\* insert_messages; the trigger indexes what is inserted.
Insert ==
    /\ pc = "insert"
    /\ db' = [db EXCEPT
            !.copies = [n \in Messages |-> IF n \in pending THEN @[n] + 1 ELSE @[n]],
            !.indexed = IF fts THEN @ \cup pending ELSE @]
    /\ pc' = "mark"
    /\ UNCHANGED <<line, message, count, disk, fts, pending, last, stop, sentinel, world>>

\* Mutant: the texts are not compared.
CoversAny(f, p) ==
    /\ ~message[f].more /\ message[p].more
    /\ message[p].ts \in (message[f].ts - Window)..message[f].ts

\* mark_superseded: f is a final block that carries the text of the earlier block p.
Covers(f, p) ==
    /\ ~message[f].more /\ message[p].more
    /\ message[p].ts \in (message[f].ts - Window)..message[f].ts
    /\ message[p].body \subseteq message[f].body

Mark ==
    /\ pc = "mark"
    /\ db' = [db EXCEPT !.superseded =
                @ \cup {p \in Stored(db) : \E f \in pending : Covers(f, p)}]
    /\ pc' = "commit"
    /\ UNCHANGED <<line, message, count, disk, fts, pending, last, stop, sentinel, world>>

Commit ==
    /\ pc = "commit"
    /\ disk' = db
    /\ pending' = {}
    /\ Return
    /\ UNCHANGED <<line, message, count, db, fts, last, stop, sentinel, world>>

\* Mutant: the rollback is forgotten.
BusyKeeps ==
    /\ pc \in {"insert", "mark", "commit"} /\ Fault
    /\ IF Cardinality(pending) > MaxPending
         THEN pending' = {} /\ given' = given \cup pending
         ELSE UNCHANGED <<pending, given>>
    /\ Return
    /\ UNCHANGED <<line, message, count, db, disk, fts, last, stop, sentinel, clock, suspect>>

\* Mutant: the buffer is not capped.
BusyUncapped ==
    /\ pc \in {"insert", "mark", "commit"} /\ Fault
    /\ db' = disk
    /\ Return
    /\ UNCHANGED <<line, message, count, disk, fts, pending, last, stop, sentinel, clock, given, suspect>>

\* The database is locked or raises: rolled back and kept for the next flush, unless
\* the buffer has grown too long.
Busy ==
    /\ pc \in {"insert", "mark", "commit"} /\ Fault
    /\ db' = disk
    /\ IF Cardinality(pending) > MaxPending
         THEN pending' = {} /\ given' = given \cup pending
         ELSE UNCHANGED <<pending, given>>
    /\ Return
    /\ UNCHANGED <<line, message, count, disk, fts, last, stop, sentinel, clock, suspect>>

\* A record that cannot be bound: the batch is given up.
Poison ==
    /\ pc \in {"insert", "mark", "commit"} /\ Fault
    /\ db' = disk
    /\ pending' = {} /\ given' = given \cup pending
    /\ Return
    /\ UNCHANGED <<line, message, count, disk, fts, last, stop, sentinel, clock, suspect>>

-----------------------------------------------------------------------------
(* The end of the process, the pruning thread, the clock *)

Signal ==
    /\ pc # "down" /\ ~stop
    /\ stop' = TRUE
    /\ UNCHANGED <<line, message, count, store, pending, pc, last, sentinel, world>>

Exit ==
    /\ pc = "exit"
    /\ pc' = "down" /\ sentinel' = FALSE
    /\ pending' = {} /\ given' = given \cup pending
    /\ UNCHANGED <<line, message, count, store, last, stop, clock, faults, suspect>>

\* The process is killed, or the machine stops.
Crash ==
    /\ pc # "down" /\ Fault
    /\ pc' = "down"
    /\ db' = disk
    /\ pending' = {} /\ given' = given \cup pending
    /\ suspect' = (suspect \/ (Listening /\ sentinel))
    /\ UNCHANGED <<line, message, count, disk, fts, last, stop, sentinel, clock>>

Expired(n) == message[n].ts < clock - Retention

\* The trigger removes deleted rows from the index.
Without(t, gone) == [t EXCEPT
    !.copies = [n \in Messages |-> IF n \in gone THEN 0 ELSE @[n]],
    !.superseded = @ \ gone,
    !.indexed = @ \ gone]

\* The next batch of prune: the oldest of S, at most PruneBatch.
Oldest(S) == {gone \in SUBSET S :
    /\ Cardinality(gone) = PruneBatch \/ (gone = S /\ Cardinality(S) < PruneBatch)
    /\ \A g \in gone, k \in S \ gone : message[g].ts <= message[k].ts}

\* One batch of prune(), waiting for the write lock while a flush holds it.
Prune ==
    /\ Listening /\ ~Writing
    /\ \E gone \in Oldest({n \in Stored(disk) : Expired(n)}) :
        /\ gone # {}
        /\ disk' = Without(disk, gone)
    /\ db' = disk'
    /\ UNCHANGED <<line, message, count, fts, pending, run, sentinel, world>>

Tick ==
    /\ clock < MaxClock
    /\ clock' = clock + 1
    /\ UNCHANGED <<line, message, count, store, pending, run, sentinel, faults, given, suspect>>

Step == IdleFlush \/ EmptyDatagram \/ LastFlush \/ Insert \/ Mark \/ Commit \/ Exit

Next ==
    \/ Start \/ CheckPassed \/ CheckFailed \/ CheckInterrupted
    \/ Schema \/ Rebuild \/ StartFails \/ Listen
    \/ WebOpen
    \/ \E k \in 1..MaxLines : \E lines \in [1..k -> [more: BOOLEAN, body: Bodies]] : Receive(lines)
    \/ Step
    \/ Busy \/ Poison
    \/ Signal \/ Crash
    \/ Prune
    \/ LineChanges \/ Tick

Spec == Init /\ [][Next]_vars

\* recvfrom returns after a second at the latest, with a datagram or a timeout, and no
\* statement blocks for ever. Nothing obliges the line to fall silent.
FairSpec == Spec /\ WF_vars(Step)

-----------------------------------------------------------------------------
(* Properties *)

\* Retries, rollbacks, dropped batches, crashes and the final flush lose and double
\* nothing: a message is in the table once, or waits, or was given up, or is expired.
EachMessageOnce == \A n \in 1..count :
    /\ n \in pending \cup given => disk.copies[n] = 0
    /\ n \notin pending \cup given => disk.copies[n] = 1 \/ message[n].ts < clock - Retention

\* A block is hidden only while the message that carries its whole text is there to be
\* shown: no rollback, drop, crash or pruning takes the final block away first.
HiddenIsCovered == \A p \in disk.superseded : message[p].ts >= clock - Retention =>
    \E f \in Stored(disk) :
        ~message[f].more /\ message[f].ts >= message[p].ts /\ message[p].body \subseteq message[f].body

\* A database that stays locked does not make the buffer grow.
PendingBounded == pc = "recv" => Cardinality(pending) <= MaxPending

\* The buffer is bounded and what is in it, in the table or given up is counted once.
MessagesAccounted == TypeOK /\ EachMessageOnce /\ PendingBounded

\* After a marked run that ended without clean-up nothing is written to the database
\* until a check has passed, however often starts fail or are interrupted.
NoWriteUnchecked == [][disk' # disk \/ fts' # fts => ~suspect]_vars

\* What was received does not stay in memory: the buffer gets empty, its messages stored,
\* given up or lost, once the line carries nothing but records, and on any line when it
\* is full or the service stops, however often flushes fail.
Drained ==
    /\ <>[]~line => (pending # {} ~> pending = {})
    /\ pending # {} /\ (stop \/ Cardinality(pending) >= Batch) ~> pending = {}

\* docstring of migrate (vdl2/db.py:241): the search never uses an index that misses
\* old rows.
SearchComplete == fts /\ pc = "recv" => Stored(disk) \subseteq disk.indexed
=============================================================================
