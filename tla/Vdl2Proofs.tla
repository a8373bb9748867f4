----------------------------- MODULE Vdl2Proofs -----------------------------
(***************************************************************************)
(* For any texts, batch sizes, windows and faults: the VDL2 ingest loses    *)
(* and doubles no message silently, hides none without its text, and writes *)
(* nothing to a database that has not been checked. For any reports and     *)
(* limits: block times lose nothing to the early exit and mix no two legs,  *)
(* the overlay misses none of the newest fixes, and the counts, rates and   *)
(* ranks of the frequencies add up to the messages there are.               *)
(***************************************************************************)
EXTENDS Vdl2Ingest, Vdl2Views, FiniteSetTheorems, SequenceTheorems, WellFoundedInduction, TLAPS

\* A hidden block that is not expired has the message that carries its text.
Hidden(t) == \A p \in t.superseded : message[p].ts >= clock - Retention =>
    \E f \in Stored(t) :
        ~message[f].more /\ message[f].ts >= message[p].ts /\ message[p].body \subseteq message[f].body

\* Inside the transaction of a flush each message of the buffer is there once,
\* and the others are as they are on disk.
Flushing == pc \in {"mark", "commit"} =>
    \A n \in Messages : db.copies[n] = IF n \in pending THEN 1 ELSE disk.copies[n]

Contents ==
    /\ \A n \in Messages : n > count => disk.copies[n] = 0
    /\ pending \cap given = {} /\ (~Listening => pending = {})
    /\ Flushing
    /\ Hidden(disk) /\ Hidden(db)

\* The sentinel outlives a run that ended without clean-up, and the index
\* exists in every run that is marked.
Gate ==
    /\ suspect => sentinel /\ pc \in {"down", "check"}
    /\ sentinel \/ pc \in {"rebuild", "bind"} \/ Listening => fts

VInv == MessagesAccounted /\ Contents /\ Gate

-----------------------------------------------------------------------------
(* Sizes, and what the types say *)

LEMMA PendingFinite ==
  ASSUME NEW S, NEW n \in Nat, S \subseteq 1..n PROVE IsFiniteSet(S) /\ Cardinality(S) \in Nat
<1>1. IsFiniteSet(1..n)
  BY FS_Interval
<1>2. IsFiniteSet(S)
  BY <1>1, FS_Subset
<1> QED BY <1>2, FS_CardinalityType

LEMMA StoredKnown ==
  ASSUME VInv, NEW t \in {db, disk}
  PROVE  /\ Stored(t) \subseteq 1..count /\ t.superseded \subseteq Stored(t)
         /\ \A n \in 1..count : message[n] \in Message
         /\ 1..count \subseteq Messages /\ count \in Nat
<1>1. count \in 0..MaxMessages /\ MaxMessages \in Nat
  BY Vdl2Assumption DEF VInv, MessagesAccounted, TypeOK
<1>2. db \in Table /\ disk \in Table /\ pending \subseteq 1..count
  BY DEF VInv, MessagesAccounted, TypeOK
<1>3. \A n \in Messages : n > count => disk.copies[n] = 0 /\ db.copies[n] = 0
  <2>1. \A n \in Messages : n > count => disk.copies[n] = 0
    BY DEF VInv, Contents
  <2>2. CASE Writing
    <3>1. \A n \in Messages : db.copies[n] = IF n \in pending THEN 1 ELSE disk.copies[n]
      BY <2>2 DEF VInv, Contents, Flushing, Writing
    <3>2. \A n \in Messages : n > count => n \notin pending
      BY <1>1, <1>2 DEF Messages
    <3> QED BY <2>1, <3>1, <3>2
  <2>3. CASE ~Writing
    BY <2>1, <2>3 DEF VInv, MessagesAccounted, TypeOK
  <2> QED BY <2>2, <2>3
<1>4. Stored(t) \subseteq 1..count
  BY <1>1, <1>2, <1>3 DEF Stored, Messages, Table
<1> QED BY <1>1, <1>4 DEF VInv, MessagesAccounted, TypeOK, Messages

LEMMA InitV == ASSUME Init PROVE VInv
<1> USE Vdl2Assumption DEF Init
<1>1. count \in 0..MaxMessages
  OBVIOUS
<1>2. message \in [1..count -> Message]
  OBVIOUS
<1>3. db \in Table /\ disk = db /\ db.superseded = {} /\ db.indexed = {}
      /\ db.copies = [n \in Messages |-> IF n <= count THEN 1 ELSE 0]
  BY DEF Table
<1>4. TypeOK
  <2>1. \A b \in {fts, last, stop, sentinel, suspect} : b \in BOOLEAN
    OBVIOUS
  <2> QED BY <1>1, <1>2, <1>3, <2>1 DEF TypeOK, Writing, Stored
<1>5. EachMessageOnce
  BY <1>1, <1>3 DEF EachMessageOnce, Messages
<1>6. PendingBounded
  BY DEF PendingBounded
<1>7. Contents
  BY <1>1, <1>3 DEF Contents, Flushing, Hidden, Messages, Listening
<1>8. Gate
  BY DEF Gate, Listening
<1> QED BY <1>4, <1>5, <1>6, <1>7, <1>8 DEF VInv, MessagesAccounted

-----------------------------------------------------------------------------
(* Steps *)

\* The tables and the buffer stay as they are, no transaction is open, and the
\* process is in a place where such a buffer may be.
LEMMA FrameV ==
  ASSUME VInv, UNCHANGED <<line, message, count, db, disk, pending, clock, given>>, db = disk,
         pc' \in {"down", "check", "schema", "rebuild", "bind", "recv", "insert", "exit"},
         pending # {} => Listening', PendingBounded',
         last' \in BOOLEAN, stop' \in BOOLEAN, sentinel' \in BOOLEAN, fts' \in BOOLEAN, suspect' \in BOOLEAN,
         faults' \in 0..MaxFaults, Gate'
  PROVE  VInv'
<1>1. ~Writing'
  BY DEF Writing
<1>2. TypeOK'
  <2>1. pc' \in {"down", "check", "schema", "rebuild", "bind"} \/ Listening'
    BY DEF Listening
  <2> QED BY <1>1, <2>1 DEF VInv, MessagesAccounted, TypeOK, Stored
<1>3. EachMessageOnce'
  BY DEF VInv, MessagesAccounted, EachMessageOnce
<1>4. Contents'
  BY <1>1 DEF VInv, Contents, Flushing, Writing, Hidden, Stored
<1> QED BY <1>2, <1>3, <1>4 DEF VInv, MessagesAccounted

LEMMA Flags ==
  ASSUME VInv
  PROVE  /\ last \in BOOLEAN /\ stop \in BOOLEAN /\ sentinel \in BOOLEAN /\ fts \in BOOLEAN /\ suspect \in BOOLEAN
         /\ line \in BOOLEAN /\ faults \in 0..MaxFaults /\ (~Writing => db = disk) /\ (pending # {} => Listening)
         /\ PendingBounded /\ Gate
         /\ (pc \in {"down", "check", "schema", "rebuild", "bind"} \/ Listening)
<1>1. {fts, last, stop, sentinel, suspect, line} \subseteq BOOLEAN
  BY DEF VInv, MessagesAccounted, TypeOK
<1>2. line \in BOOLEAN /\ last \in BOOLEAN /\ stop \in BOOLEAN /\ sentinel \in BOOLEAN /\ fts \in BOOLEAN /\ suspect \in BOOLEAN
  BY <1>1
<1>3. faults \in 0..MaxFaults /\ (~Writing => db = disk)
      /\ (pc \in {"down", "check", "schema", "rebuild", "bind"} \/ Listening)
  BY DEF VInv, MessagesAccounted, TypeOK
<1>4. (pending # {} => Listening) /\ PendingBounded /\ Gate
  BY DEF VInv, MessagesAccounted, Contents
<1> QED BY <1>2, <1>3, <1>4

LEMMA FaultIs == ASSUME VInv, Fault PROVE faults' \in 0..MaxFaults
  BY Vdl2Assumption DEF Fault, VInv, MessagesAccounted, TypeOK

\* Starts, checks, signals and the decision to flush move the process only.
LEMMA MoveV ==
  ASSUME VInv, Start \/ CheckPassed \/ CheckFailed \/ CheckInterrupted \/ Schema \/ StartFails \/ Listen
               \/ WebOpen \/ IdleFlush \/ EmptyDatagram \/ LastFlush
  PROVE  VInv'
<1> USE DEF store, world, run
<1>1. CASE Start
  <2>1. stop' = FALSE /\ last' = FALSE /\ pc = "down" /\ pc' = (IF sentinel THEN "check" ELSE "schema")
        /\ UNCHANGED <<line, message, count, db, disk, fts, pending, sentinel, clock, faults, given, suspect>>
    BY <1>1 DEF Start
  <2>2. stop' \in BOOLEAN /\ last' \in BOOLEAN
    BY <2>1
  <2>3. Gate' /\ PendingBounded' /\ pending = {} /\ db = disk
    BY <2>1, Flags DEF Gate, PendingBounded, Listening, Writing
  <2> QED BY <2>1, <2>2, <2>3, Flags, FrameV
<1>2. CASE CheckPassed
  <2>1. suspect' = FALSE /\ pc = "check" /\ pc' = "schema"
        /\ UNCHANGED <<line, message, count, db, disk, fts, pending, last, stop, sentinel, clock, faults, given>>
    BY <1>2 DEF CheckPassed
  <2>2. suspect' \in BOOLEAN
    BY <2>1
  <2>3. Gate' /\ PendingBounded' /\ pending = {} /\ db = disk
    BY <2>1, Flags DEF Gate, PendingBounded, Listening, Writing
  <2> QED BY <2>1, <2>2, <2>3, Flags, FrameV
<1>3. CASE CheckFailed \/ CheckInterrupted \/ StartFails
  <2>1. pc \in {"check", "schema", "rebuild", "bind"} /\ pc' = "down" /\ (Fault \/ faults' = faults)
        /\ UNCHANGED <<line, message, count, db, disk, fts, pending, last, stop, sentinel, clock, given, suspect>>
    BY <1>3 DEF CheckFailed, CheckInterrupted, StartFails
  <2>2. Gate' /\ PendingBounded' /\ pending = {} /\ db = disk
    BY <2>1, Flags DEF Gate, PendingBounded, Listening, Writing
  <2> QED BY <2>1, <2>2, Flags, FaultIs, FrameV
<1>4. CASE Schema
  <2>1. fts' = TRUE /\ pc = "schema" /\ pc' \in {"rebuild", "bind"}
        /\ UNCHANGED <<line, message, count, db, disk, pending, last, stop, sentinel, clock, faults, given, suspect>>
    BY <1>4 DEF Schema
  <2>2. fts' \in BOOLEAN
    BY <2>1
  <2>3. Gate' /\ PendingBounded' /\ pending = {} /\ db = disk
    BY <2>1, Flags DEF Gate, PendingBounded, Listening, Writing
  <2> QED BY <2>1, <2>2, <2>3, Flags, FrameV
<1>5. CASE Listen
  <2>1. pc = "bind" /\ pc' = "recv" /\ (sentinel' = TRUE \/ sentinel' = sentinel) /\ (Fault \/ faults' = faults)
        /\ UNCHANGED <<line, message, count, db, disk, fts, pending, last, stop, clock, given, suspect>>
    BY <1>5 DEF Listen
  <2>2. sentinel' \in BOOLEAN
    BY <2>1, Flags
  <2>3. Gate' /\ PendingBounded' /\ pending = {} /\ db = disk
    <3>1. pending = {} /\ db = disk /\ Gate'
      BY <2>1, Flags DEF Gate, Listening, Writing
    <3>2. Cardinality(pending') <= MaxPending
      BY <2>1, <3>1, FS_EmptySet, Vdl2Assumption
    <3> QED BY <3>1, <3>2 DEF PendingBounded
  <2> QED BY <2>1, <2>2, <2>3, Flags, FaultIs, FrameV
<1>6. CASE WebOpen
  <2>1. fts' = TRUE /\ ~fts
        /\ UNCHANGED <<line, message, count, db, disk, pending, pc, last, stop, sentinel, clock, faults, given, suspect>>
    BY <1>6 DEF WebOpen
  <2>2. fts' \in BOOLEAN
    BY <2>1
  <2>3. ~Listening /\ pc \in {"down", "check", "schema", "rebuild", "bind"}
    BY <2>1, Flags DEF Gate
  <2>4. Gate' /\ PendingBounded' /\ pending = {} /\ db = disk
    BY <2>1, <2>3, Flags DEF Gate, PendingBounded, Listening, Writing
  <2> QED BY <2>1, <2>2, <2>3, <2>4, Flags, FrameV
<1>7. CASE IdleFlush \/ EmptyDatagram \/ LastFlush
  <2>1. pc = "recv" /\ pc' \in {"insert", "exit"} /\ (last' = TRUE \/ last' = last)
        /\ UNCHANGED <<line, message, count, db, disk, fts, pending, stop, sentinel, clock, faults, given, suspect>>
    BY <1>7 DEF IdleFlush, EmptyDatagram, LastFlush
  <2>2. last' \in BOOLEAN
    BY <2>1, Flags
  <2>3. Gate' /\ PendingBounded' /\ Listening' /\ db = disk
    BY <2>1, Flags DEF Gate, PendingBounded, Listening, Writing
  <2> QED BY <2>1, <2>2, <2>3, Flags, FrameV
<1> QED BY <1>1, <1>2, <1>3, <1>4, <1>5, <1>6, <1>7

\* No transaction is open afterwards: the two connections agree.
LEMMA SettledV ==
  ASSUME VInv, UNCHANGED <<line, message, count, clock>>, db' = disk', disk' \in Table,
         disk'.superseded \cup disk'.indexed \subseteq Stored(disk'),
         \A n \in Messages : n > count => disk'.copies[n] = 0,
         pending' \subseteq 1..count, given' \subseteq 1..count, pending' \cap given' = {},
         pc' \in {"down", "bind", "recv", "insert", "exit"},
         pending' # {} => Listening', PendingBounded', EachMessageOnce', Hidden(disk)',
         last' \in BOOLEAN, stop' \in BOOLEAN, sentinel' \in BOOLEAN, fts' \in BOOLEAN, suspect' \in BOOLEAN,
         faults' \in 0..MaxFaults, Gate'
  PROVE  VInv'
<1>1. ~Writing'
  BY DEF Writing
<1>2. TypeOK'
  <2>1. pc' \in {"down", "check", "schema", "rebuild", "bind"} \/ Listening'
    BY DEF Listening
  <2>2. \A t \in {db', disk'} : t.superseded \cup t.indexed \subseteq Stored(t)
    OBVIOUS
  <2>3. {fts', last', stop', sentinel', suspect', line'} \subseteq BOOLEAN
    BY Flags
  <2>4. count' \in 0..MaxMessages /\ message' \in [1..count' -> Message] /\ clock' \in 0..MaxClock
    BY DEF VInv, MessagesAccounted, TypeOK
  <2> QED BY <1>1, <2>1, <2>2, <2>3, <2>4 DEF TypeOK, Stored
<1>3. Contents'
  <2>1. Flushing'
    BY <1>1 DEF Flushing, Writing
  <2>2. Hidden(db)'
    BY DEF Hidden, Stored
  <2> QED BY <2>1, <2>2 DEF Contents
<1> QED BY <1>2, <1>3 DEF VInv, MessagesAccounted

\* A flush that failed, a crash, the exit: the tables go back to what is committed,
\* and what is not kept in the buffer is given up.
LEMMA DroppedV ==
  ASSUME VInv, UNCHANGED <<line, message, count, disk, fts, clock>>, db' = disk,
         pending' \cup given' = pending \cup given, pending' \cap given' = {},
         pc' \in {"down", "recv", "exit"}, pending' # {} => Listening', PendingBounded',
         last' \in BOOLEAN, stop' \in BOOLEAN, sentinel' \in BOOLEAN, suspect' \in BOOLEAN,
         faults' \in 0..MaxFaults, Gate'
  PROVE  VInv'
<1>1. disk \in Table /\ disk.superseded \cup disk.indexed \subseteq Stored(disk)
      /\ pending \subseteq 1..count /\ given \subseteq 1..count
  BY DEF VInv, MessagesAccounted, TypeOK
<1>2. EachMessageOnce'
  BY DEF VInv, MessagesAccounted, EachMessageOnce
<1>3. Hidden(disk)' /\ \A n \in Messages : n > count => disk.copies[n] = 0
  BY DEF VInv, Contents, Hidden, Stored
<1>4. fts' \in BOOLEAN
  BY Flags
<1>5. pending' \subseteq 1..count /\ given' \subseteq 1..count
  BY <1>1
<1>6. disk' \in Table /\ disk'.superseded \cup disk'.indexed \subseteq Stored(disk')
      /\ \A n \in Messages : n > count => disk'.copies[n] = 0
  BY <1>1, <1>3 DEF Stored
<1> QED BY <1>2, <1>3, <1>4, <1>5, <1>6, SettledV

\* Only time, the line or the request to stop changes.
LEMMA SameV ==
  ASSUME VInv, UNCHANGED <<message, count, store, pending, pc, last, sentinel, faults, given, suspect>>,
         line' \in BOOLEAN, stop' \in BOOLEAN, clock' \in 0..MaxClock, clock' >= clock
  PROVE  VInv'
<1> USE DEF store
<1>1. Writing' = Writing /\ Listening' = Listening
  BY DEF Writing, Listening
<1>2. TypeOK'
  <2>1. {fts', last', stop', sentinel', suspect', line'} \subseteq BOOLEAN
    BY Flags
  <2> QED BY <1>1, <2>1 DEF VInv, MessagesAccounted, TypeOK, Stored
<1>3. clock \in Int /\ clock' \in Int /\ Retention \in Int
  BY Vdl2Assumption DEF VInv, MessagesAccounted, TypeOK
<1>4. \A n \in 1..count : message[n].ts \in Int
  BY StoredKnown DEF Message
<1>5. EachMessageOnce'
  BY <1>3, <1>4 DEF VInv, MessagesAccounted, EachMessageOnce
<1>6. Contents'
  <2>1. db.superseded \subseteq 1..count /\ disk.superseded \subseteq 1..count
    BY StoredKnown
  <2>2. Hidden(db) /\ Hidden(disk)
    BY DEF VInv, Contents
  <2>3. Hidden(db)' /\ Hidden(disk)'
    BY <1>3, <1>4, <2>1, <2>2 DEF Hidden, Stored
  <2> QED BY <1>1, <2>3 DEF VInv, Contents, Flushing
<1>7. Gate' /\ PendingBounded'
  BY <1>1 DEF VInv, MessagesAccounted, Gate, PendingBounded
<1> QED BY <1>2, <1>5, <1>6, <1>7 DEF VInv, MessagesAccounted

LEMMA RebuildV == ASSUME VInv, Rebuild PROVE VInv'
<1> USE DEF store, world
<1>1. pc = "rebuild" /\ pc' = "bind" /\ disk' = [disk EXCEPT !.indexed = Stored(disk)] /\ db' = disk'
      /\ UNCHANGED <<line, message, count, fts, pending, last, stop, sentinel, clock, faults, given, suspect>>
  BY DEF Rebuild
<1>2. disk \in Table /\ disk.superseded \subseteq Stored(disk) /\ Stored(disk) \subseteq Messages
  BY DEF VInv, MessagesAccounted, TypeOK, Stored
<1>3. disk' \in Table /\ disk'.copies = disk.copies /\ disk'.superseded = disk.superseded
      /\ disk'.indexed = Stored(disk)
  BY <1>1, <1>2 DEF Table
<1>4. pending = {} /\ Gate' /\ PendingBounded'
  BY <1>1, Flags DEF Gate, PendingBounded, Listening
<1>5. EachMessageOnce' /\ Hidden(disk)' /\ \A n \in Messages : n > count => disk'.copies[n] = 0
  BY <1>1, <1>3 DEF VInv, MessagesAccounted, Contents, EachMessageOnce, Hidden, Stored
<1>6. disk'.superseded \cup disk'.indexed \subseteq Stored(disk')
  BY <1>2, <1>3 DEF Stored
<1>7. pending' \subseteq 1..count /\ given' \subseteq 1..count /\ pending' \cap given' = {}
  BY <1>1 DEF VInv, MessagesAccounted, TypeOK, Contents
<1> QED BY <1>1, <1>3, <1>4, <1>5, <1>6, <1>7, Flags, SettledV

LEMMA InsertV == ASSUME VInv, Insert PROVE VInv'
<1> USE DEF store, world
<1>1. pc = "insert" /\ pc' = "mark"
      /\ UNCHANGED <<line, message, count, disk, fts, pending, last, stop, sentinel, clock, faults, given, suspect>>
  BY DEF Insert
<1>2. db = disk /\ db \in Table /\ db.superseded \cup db.indexed \subseteq Stored(db)
      /\ pending \subseteq 1..count /\ 1..count \subseteq Messages /\ pending \subseteq Messages
  BY <1>1, StoredKnown DEF VInv, MessagesAccounted, TypeOK, Writing
<1>3. \A n \in pending : db.copies[n] = 0
  BY <1>2 DEF VInv, MessagesAccounted, EachMessageOnce
<1>4. db' = [db EXCEPT
        !.copies = [n \in Messages |-> IF n \in pending THEN db.copies[n] + 1 ELSE db.copies[n]],
        !.indexed = IF fts THEN db.indexed \cup pending ELSE db.indexed]
  BY DEF Insert
<1>5. /\ db'.copies = [n \in Messages |-> IF n \in pending THEN 1 ELSE db.copies[n]]
      /\ db'.superseded = db.superseded /\ db'.indexed \subseteq db.indexed \cup pending
      /\ db'.copies \in [Messages -> 0..2] /\ db' \in Table
  <2>1. db'.copies = [n \in Messages |-> IF n \in pending THEN db.copies[n] + 1 ELSE db.copies[n]]
        /\ db'.superseded = db.superseded
        /\ db'.indexed = (IF fts THEN db.indexed \cup pending ELSE db.indexed)
        /\ db' = [copies |-> db'.copies, superseded |-> db'.superseded, indexed |-> db'.indexed]
    BY <1>2, <1>4 DEF Table
  <2>2. db'.copies = [n \in Messages |-> IF n \in pending THEN 1 ELSE db.copies[n]]
    BY <1>3, <2>1
  <2>3. db.copies \in [Messages -> 0..2] /\ db.superseded \subseteq Messages /\ db.indexed \subseteq Messages
    BY <1>2 DEF Table
  <2>4. db'.copies \in [Messages -> 0..2]
    BY <2>2, <2>3
  <2>5. db'.indexed \subseteq db.indexed \cup pending
    BY <2>1
  <2> QED BY <1>2, <2>1, <2>2, <2>3, <2>4, <2>5 DEF Table
<1>6. Stored(db) \subseteq Stored(db') /\ pending \subseteq Stored(db')
  BY <1>2, <1>5 DEF Stored, Table
<1>7. TypeOK'
  <2>1. {fts', last', stop', sentinel', suspect', line'} \subseteq BOOLEAN
    BY <1>1, Flags
  <2>2. db'.superseded \cup db'.indexed \subseteq Stored(db')
    BY <1>2, <1>5, <1>6
  <2>3. disk'.superseded \cup disk'.indexed \subseteq Stored(disk') /\ disk' \in Table
    BY <1>1, <1>2 DEF Stored
  <2>4. Writing' /\ Listening'
    BY <1>1 DEF Writing, Listening
  <2>5. \A t \in {db', disk'} : t.superseded \cup t.indexed \subseteq Stored(t)
    BY <2>2, <2>3
  <2> QED BY <1>1, <1>5, <2>1, <2>3, <2>4, <2>5 DEF VInv, MessagesAccounted, TypeOK, Stored
<1>8. EachMessageOnce'
  BY <1>1 DEF VInv, MessagesAccounted, EachMessageOnce
<1>9. Contents'
  <2>1. Flushing'
    BY <1>1, <1>2, <1>5 DEF Flushing
  <2>2. Hidden(db)'
    BY <1>1, <1>5, <1>6 DEF VInv, Contents, Hidden
  <2>3. Hidden(disk)' /\ Listening'
    BY <1>1 DEF VInv, Contents, Hidden, Stored, Listening
  <2> QED BY <1>1, <2>1, <2>2, <2>3 DEF VInv, Contents
<1>10. Gate' /\ PendingBounded'
  BY <1>1, Flags DEF Gate, PendingBounded, Listening
<1> QED BY <1>7, <1>8, <1>9, <1>10 DEF VInv, MessagesAccounted

LEMMA MarkV == ASSUME VInv, Mark PROVE VInv'
<1> USE DEF store, world
<1>1. pc = "mark" /\ pc' = "commit"
      /\ UNCHANGED <<line, message, count, disk, fts, pending, last, stop, sentinel, clock, faults, given, suspect>>
      /\ db' = [db EXCEPT !.superseded = db.superseded \cup {p \in Stored(db) : \E f \in pending : Covers(f, p)}]
  BY DEF Mark
<1>2. db \in Table /\ disk \in Table /\ db.superseded \cup db.indexed \subseteq Stored(db)
      /\ disk.superseded \cup disk.indexed \subseteq Stored(disk)
      /\ pending \subseteq 1..count /\ 1..count \subseteq Messages /\ pending \subseteq Messages
      /\ Stored(db) \subseteq 1..count
  BY <1>1, StoredKnown DEF VInv, MessagesAccounted, TypeOK
<1>3. /\ db'.copies = db.copies /\ db'.indexed = db.indexed /\ db' \in Table
      /\ db'.superseded = db.superseded \cup {p \in Stored(db) : \E f \in pending : Covers(f, p)}
  BY <1>1, <1>2 DEF Table
<1>4. Stored(db') = Stored(db)
  BY <1>3 DEF Stored
<1>5. pending \subseteq Stored(db)
  BY <1>1, <1>2 DEF VInv, Contents, Flushing, Stored
<1>6. TypeOK'
  <2>1. {fts', last', stop', sentinel', suspect', line'} \subseteq BOOLEAN
    BY <1>1, Flags
  <2>2. db'.superseded \cup db'.indexed \subseteq Stored(db')
    BY <1>2, <1>3, <1>4
  <2>3. disk'.superseded \cup disk'.indexed \subseteq Stored(disk') /\ disk' \in Table
    BY <1>1, <1>2 DEF Stored
  <2>4. Writing' /\ Listening'
    BY <1>1 DEF Writing, Listening
  <2>5. \A t \in {db', disk'} : t.superseded \cup t.indexed \subseteq Stored(t)
    BY <2>2, <2>3
  <2> QED BY <1>1, <1>3, <2>1, <2>3, <2>4, <2>5 DEF VInv, MessagesAccounted, TypeOK, Stored
<1>7. EachMessageOnce'
  BY <1>1 DEF VInv, MessagesAccounted, EachMessageOnce
<1>8. Contents'
  <2>1. Flushing'
    BY <1>1, <1>3 DEF VInv, Contents, Flushing
  <2>2. Hidden(db)'
    <3> SUFFICES ASSUME NEW p \in db'.superseded, message[p].ts >= clock - Retention
                 PROVE  \E f \in Stored(db) : ~message[f].more /\ message[f].ts >= message[p].ts
                                              /\ message[p].body \subseteq message[f].body
      BY <1>1, <1>4 DEF Hidden
    <3>1. CASE p \in db.superseded
      BY <3>1 DEF VInv, Contents, Hidden
    <3>2. CASE p \notin db.superseded
      <4>1. p \in Stored(db) /\ \E f \in pending : Covers(f, p)
        BY <1>3, <3>2
      <4>2. PICK f \in pending : Covers(f, p)
        BY <4>1
      <4>3. f \in Stored(db) /\ message[f].ts \in 0..MaxClock /\ message[p].ts \in 0..MaxClock
        BY <1>2, <1>5, <4>1, StoredKnown DEF Message
      <4>4. message[f].ts >= message[p].ts
        BY <4>2, <4>3, Vdl2Assumption DEF Covers
      <4> QED BY <4>2, <4>3, <4>4 DEF Covers
    <3> QED BY <3>1, <3>2
  <2>3. Hidden(disk)' /\ Listening'
    BY <1>1 DEF VInv, Contents, Hidden, Stored, Listening
  <2> QED BY <1>1, <2>1, <2>2, <2>3 DEF VInv, Contents
<1>9. Gate' /\ PendingBounded'
  BY <1>1, Flags DEF Gate, PendingBounded, Listening
<1> QED BY <1>6, <1>7, <1>8, <1>9 DEF VInv, MessagesAccounted

LEMMA CommitV == ASSUME VInv, Commit PROVE VInv'
<1> USE DEF store, world
<1>1. pc = "commit" /\ pc' \in {"recv", "exit"} /\ disk' = db /\ pending' = {}
      /\ UNCHANGED <<line, message, count, db, fts, last, stop, sentinel, clock, faults, given, suspect>>
  BY DEF Commit, Return
<1>2. db \in Table /\ db.superseded \cup db.indexed \subseteq Stored(db)
      /\ pending \subseteq 1..count /\ given \subseteq 1..count /\ 1..count \subseteq Messages
      /\ Stored(db) \subseteq 1..count
  BY <1>1, StoredKnown DEF VInv, MessagesAccounted, TypeOK
<1>3. \A n \in Messages : db.copies[n] = IF n \in pending THEN 1 ELSE disk.copies[n]
  BY <1>1 DEF VInv, Contents, Flushing
<1>4. EachMessageOnce'
  <2> SUFFICES ASSUME NEW n \in 1..count
               PROVE  /\ n \in given => db.copies[n] = 0
                      /\ n \notin given => db.copies[n] = 1 \/ message[n].ts < clock - Retention
    BY <1>1 DEF EachMessageOnce
  <2>1. n \in Messages /\ pending \cap given = {}
    BY <1>2 DEF VInv, Contents
  <2>2. n \in pending \cup given => disk.copies[n] = 0
    BY DEF VInv, MessagesAccounted, EachMessageOnce
  <2>3. n \notin pending \cup given => disk.copies[n] = 1 \/ message[n].ts < clock - Retention
    BY DEF VInv, MessagesAccounted, EachMessageOnce
  <2> QED BY <1>3, <2>1, <2>2, <2>3
<1>5. Hidden(disk)'
  BY <1>1 DEF VInv, Contents, Hidden, Stored
<1>6. \A n \in Messages : n > count => disk'.copies[n] = 0
  <2>1. \A n \in Messages : n > count => n \notin pending /\ disk.copies[n] = 0
    BY <1>2, Vdl2Assumption DEF VInv, Contents, MessagesAccounted, TypeOK, Messages
  <2> QED BY <1>1, <1>3, <2>1
<1>7. Gate'
  BY <1>1, Flags DEF Gate, Listening
<1>8. Cardinality(pending') <= MaxPending
  BY <1>1, FS_EmptySet, Vdl2Assumption
<1>9. db' = disk' /\ disk' \in Table /\ disk'.superseded \cup disk'.indexed \subseteq Stored(disk')
  BY <1>1, <1>2
<1>10. pending' \subseteq 1..count /\ given' \subseteq 1..count /\ pending' \cap given' = {}
       /\ (pending' # {} => Listening') /\ PendingBounded'
  BY <1>1, <1>2, <1>8 DEF PendingBounded
<1> QED BY <1>1, <1>4, <1>5, <1>6, <1>7, <1>9, <1>10, Flags, SettledV

\* Insert, mark or commit failed, or a record of the batch is refused.
LEMMA FailedV == ASSUME VInv, Busy \/ Poison PROVE VInv'
<1> USE DEF store, world
<1>1. /\ pc \in {"insert", "mark", "commit"} /\ pc' \in {"recv", "exit"} /\ db' = disk /\ Fault
      /\ \/ pending' = {} /\ given' = given \cup pending
         \/ Cardinality(pending) <= MaxPending /\ UNCHANGED <<pending, given>>
      /\ UNCHANGED <<line, message, count, disk, fts, last, stop, sentinel, clock, suspect>>
  <2>1. Cardinality(pending) \in Nat /\ MaxPending \in Nat
    BY StoredKnown, PendingFinite, Vdl2Assumption DEF VInv, MessagesAccounted, TypeOK
  <2> QED BY <2>1 DEF Busy, Poison, Return
<1>2. pending' \cup given' = pending \cup given /\ pending' \cap given' = {}
  BY <1>1 DEF VInv, Contents
<1>3. PendingBounded' /\ Listening'
  BY <1>1, FS_EmptySet, Vdl2Assumption DEF PendingBounded, Listening
<1>4. Gate'
  BY <1>1, Flags DEF Gate, Listening
<1> QED BY <1>1, <1>2, <1>3, <1>4, Flags, FaultIs, DroppedV

LEMMA EndV == ASSUME VInv, Exit \/ Crash PROVE VInv'
<1> USE DEF store, world
<1>1. CASE Exit
  <2>1. pc = "exit" /\ pc' = "down" /\ sentinel' = FALSE /\ pending' = {} /\ given' = given \cup pending
        /\ UNCHANGED <<line, message, count, db, disk, fts, last, stop, clock, faults, suspect>>
    BY <1>1 DEF Exit
  <2>2. sentinel' \in BOOLEAN /\ db = disk
    BY <2>1, Flags DEF Writing
  <2>3. Gate' /\ PendingBounded'
    BY <2>1, Flags DEF Gate, PendingBounded, Listening
  <2> QED BY <2>1, <2>2, <2>3, Flags, DroppedV
<1>2. CASE Crash
  <2>1. /\ pc' = "down" /\ db' = disk /\ pending' = {} /\ given' = given \cup pending /\ Fault
        /\ suspect' = (suspect \/ (Listening /\ sentinel))
        /\ UNCHANGED <<line, message, count, disk, fts, last, stop, sentinel, clock>>
    BY <1>2 DEF Crash
  <2>2. suspect' \in BOOLEAN
    BY <2>1, Flags, Zenon
  <2>3. Gate'
    BY <2>1, Flags DEF Gate, Listening
  <2>4. PendingBounded'
    BY <2>1 DEF PendingBounded
  <2> QED BY <2>1, <2>2, <2>3, <2>4, Flags, FaultIs, DroppedV
<1> QED BY <1>1, <1>2

\* The final block that covers a hidden one is not older, so it is not pruned first.
LEMMA PruneV == ASSUME VInv, Prune PROVE VInv'
<1> USE DEF store, world, run
<1>1. PICK gone \in Oldest({n \in Stored(disk) : Expired(n)}) : disk' = Without(disk, gone)
  BY DEF Prune
<1>2. Listening /\ ~Writing /\ db' = disk' /\ db = disk
      /\ UNCHANGED <<line, message, count, fts, pending, pc, last, stop, sentinel, clock, faults, given, suspect>>
  BY Flags DEF Prune
<1>3. gone \subseteq Stored(disk) /\ \A n \in gone : message[n].ts < clock - Retention
  BY DEF Oldest, Expired
<1>4. disk \in Table /\ disk.superseded \cup disk.indexed \subseteq Stored(disk)
      /\ pending \subseteq 1..count /\ given \subseteq 1..count
      /\ Stored(disk) \subseteq 1..count /\ 1..count \subseteq Messages
  BY StoredKnown DEF VInv, MessagesAccounted, TypeOK
<1>5. disk' = [disk EXCEPT !.copies = [n \in Messages |-> IF n \in gone THEN 0 ELSE disk.copies[n]],
                           !.superseded = disk.superseded \ gone, !.indexed = disk.indexed \ gone]
  BY <1>1 DEF Without
<1>6. /\ disk'.copies = [n \in Messages |-> IF n \in gone THEN 0 ELSE disk.copies[n]]
      /\ disk'.superseded = disk.superseded \ gone /\ disk'.indexed = disk.indexed \ gone
      /\ disk' = [copies |-> disk'.copies, superseded |-> disk'.superseded, indexed |-> disk'.indexed]
  BY <1>4, <1>5 DEF Table
<1>7. disk' \in Table
  <2>1. disk.copies \in [Messages -> 0..2] /\ disk.superseded \subseteq Messages /\ disk.indexed \subseteq Messages
    BY <1>4 DEF Table
  <2>2. disk'.copies \in [Messages -> 0..2]
    BY <1>6, <2>1
  <2> QED BY <1>6, <2>1, <2>2 DEF Table
<1>8. Stored(disk') = Stored(disk) \ gone
  BY <1>4, <1>6 DEF Stored
<1>9. disk'.superseded \cup disk'.indexed \subseteq Stored(disk')
  BY <1>4, <1>6, <1>8
<1>10. EachMessageOnce'
  BY <1>2, <1>3, <1>4, <1>6 DEF VInv, MessagesAccounted, EachMessageOnce
<1>11. Hidden(disk)'
  <2> SUFFICES ASSUME NEW p \in disk'.superseded, message[p].ts >= clock - Retention
               PROVE  \E f \in Stored(disk') : ~message[f].more /\ message[f].ts >= message[p].ts
                                             /\ message[p].body \subseteq message[f].body
    BY <1>2 DEF Hidden
  <2>1. p \in disk.superseded
    BY <1>6
  <2>2. PICK f \in Stored(disk) : ~message[f].more /\ message[f].ts >= message[p].ts
                                  /\ message[p].body \subseteq message[f].body
    BY <2>1 DEF VInv, Contents, Hidden
  <2>3. message[f].ts \in Int /\ message[p].ts \in Int /\ clock - Retention \in Int
    <3>1. f \in 1..count /\ p \in 1..count
      BY <1>4, <2>1
    <3>2. message[f] \in Message /\ message[p] \in Message
      BY <3>1, StoredKnown
    <3>3. clock \in Nat /\ Retention \in Nat
      BY Vdl2Assumption DEF VInv, MessagesAccounted, TypeOK
    <3> QED BY <3>2, <3>3 DEF Message
  <2>4. f \notin gone
    BY <1>3, <2>2, <2>3
  <2> QED BY <1>8, <2>2, <2>4
<1>12. \A n \in Messages : n > count => disk'.copies[n] = 0
  BY <1>6 DEF VInv, Contents
<1>13. Gate' /\ PendingBounded' /\ Listening' /\ pc \in {"recv", "insert", "exit"}
  BY <1>2, Flags DEF Gate, PendingBounded, Listening, Writing
<1>14. pending' \subseteq 1..count /\ given' \subseteq 1..count /\ pending' \cap given' = {}
  BY <1>2, <1>4 DEF VInv, Contents
<1> QED BY <1>2, <1>7, <1>9, <1>10, <1>11, <1>12, <1>13, <1>14, Flags, SettledV

LEMMA ReceiveV ==
  ASSUME VInv, NEW k \in 1..MaxLines, NEW lines \in [1..k -> [more: BOOLEAN, body: Bodies]], Receive(lines)
  PROVE  VInv'
<1> USE DEF store, world
<1>1. k \in Nat /\ count \in Nat /\ clock \in 0..MaxClock /\ message \in [1..count -> Message]
  BY Vdl2Assumption DEF VInv, MessagesAccounted, TypeOK
<1>2. Cardinality(DOMAIN lines) = k
  BY <1>1, FS_Interval
<1>3. count' = count + k /\ count' <= MaxMessages
      /\ message' = [n \in 1..count' |-> IF n <= count THEN message[n]
           ELSE [more |-> lines[n - count].more, body |-> lines[n - count].body, ts |-> clock]]
      /\ pending' = pending \cup (count + 1)..count'
      /\ pc = "recv" /\ pc' = (IF Cardinality(pending') >= Batch THEN "insert" ELSE "recv")
      /\ UNCHANGED <<line, db, disk, fts, last, stop, sentinel, clock, faults, given, suspect>>
  BY <1>2 DEF Receive
<1>4. count' \in 0..MaxMessages /\ count < count' /\ 1..count \subseteq 1..count' /\ 1..count' \subseteq Messages
  BY <1>1, <1>3, Vdl2Assumption DEF Messages
<1>5. message' \in [1..count' -> Message]
  <2>1. \A n \in 1..count' : n <= count => n \in 1..count
    BY <1>1, <1>4
  <2>2. \A n \in 1..count' : ~(n <= count) => n - count \in 1..k
    BY <1>1, <1>3, <1>4
  <2>3. \A n \in 1..count' : message'[n] \in Message
    BY <1>1, <1>3, <2>1, <2>2 DEF Message
  <2> QED BY <1>3, <2>3
<1>6. \A n \in 1..count : message'[n] = message[n]
  BY <1>1, <1>3, <1>4
<1>7. pending \subseteq 1..count /\ pending' \subseteq 1..count' /\ given \subseteq 1..count /\ given' \subseteq 1..count'
  <2>1. pending \subseteq 1..count /\ given \subseteq 1..count /\ given' = given
    BY <1>3 DEF VInv, MessagesAccounted, TypeOK
  <2>2. (count + 1)..count' \subseteq 1..count'
    BY <1>1, <1>3
  <2> QED BY <1>3, <1>4, <2>1, <2>2
<1>8. db = disk /\ ~Writing' /\ Listening'
  BY <1>3, Flags DEF Writing, Listening
<1>9. Stored(disk) \subseteq 1..count /\ disk.superseded \subseteq 1..count
  BY StoredKnown
<1>10. TypeOK'
  <2>1. {fts', last', stop', sentinel', suspect', line'} \subseteq BOOLEAN
    BY <1>3, Flags
  <2> QED BY <1>3, <1>4, <1>5, <1>7, <1>8, <2>1 DEF VInv, MessagesAccounted, TypeOK, Stored
<1>11. EachMessageOnce'
  <2> SUFFICES ASSUME NEW n \in 1..count'
               PROVE  /\ n \in pending' \cup given => disk.copies[n] = 0
                      /\ n \notin pending' \cup given => disk.copies[n] = 1 \/ message'[n].ts < clock - Retention
    BY <1>3 DEF EachMessageOnce
  <2>1. CASE n <= count
    <3>1. n \in 1..count /\ n \notin (count + 1)..count'
      BY <1>1, <1>4, <2>1
    <3> QED BY <1>3, <1>6, <3>1 DEF VInv, MessagesAccounted, EachMessageOnce
  <2>2. CASE ~(n <= count)
    <3>1. n \in (count + 1)..count' /\ n > count /\ n \in Messages
      BY <1>1, <1>4, <2>2
    <3> QED BY <1>3, <3>1 DEF VInv, Contents
  <2> QED BY <2>1, <2>2
<1>12. PendingBounded'
  <2>1. Cardinality(pending') \in Nat
    <3>1. count' \in Nat /\ pending' \subseteq 1..count'
      BY <1>4, <1>7, Vdl2Assumption
    <3> QED BY <3>1, PendingFinite
  <2> QED BY <1>3, <2>1, Vdl2Assumption DEF PendingBounded
<1>13. Contents'
  <2>1. \A n \in Messages : n > count' => disk'.copies[n] = 0
    BY <1>1, <1>3, <1>4 DEF VInv, Contents, Messages
  <2>2. pending' \cap given' = {}
    BY <1>1, <1>3, <1>7 DEF VInv, Contents
  <2>3. Flushing'
    BY <1>8 DEF Flushing, Writing
  <2>4. Hidden(disk)
    BY DEF VInv, Contents
  <2>5. Hidden(disk)'
    <3>1. disk' = disk /\ clock' = clock
      BY <1>3
    <3>2. Stored(disk)' = Stored(disk) /\ \A f \in Stored(disk) : message'[f] = message[f]
      BY <1>6, <1>9, <3>1 DEF Stored
    <3>3. \A n \in disk.superseded : message'[n] = message[n]
      BY <1>6, <1>9
    <3> QED BY <2>4, <3>1, <3>2, <3>3 DEF Hidden
  <2>6. Hidden(db)'
    BY <1>3, <1>8, <2>5 DEF Hidden, Stored
  <2> QED BY <1>8, <2>1, <2>2, <2>3, <2>5, <2>6 DEF Contents
<1>14. Gate'
  BY <1>3, Flags DEF Gate, Listening
<1> QED BY <1>10, <1>11, <1>12, <1>13, <1>14 DEF VInv, MessagesAccounted

LEMMA StepV == ASSUME VInv, [Next]_vars PROVE VInv'
<1> USE DEF store, world, run
<1>1. CASE Start \/ CheckPassed \/ CheckFailed \/ CheckInterrupted \/ Schema \/ StartFails \/ Listen
           \/ WebOpen \/ IdleFlush \/ EmptyDatagram \/ LastFlush
  BY <1>1, MoveV
<1>2. CASE Rebuild \/ Insert \/ Mark \/ Commit
  BY <1>2, RebuildV, InsertV, MarkV, CommitV
<1>3. CASE Busy \/ Poison \/ Exit \/ Crash \/ Prune
  BY <1>3, FailedV, EndV, PruneV
<1>4. CASE \E k \in 1..MaxLines : \E lines \in [1..k -> [more: BOOLEAN, body: Bodies]] : Receive(lines)
  BY <1>4, ReceiveV
<1>5. CASE Signal
  <2>1. stop' = TRUE /\ clock' = clock
        /\ UNCHANGED <<line, message, count, store, pending, pc, last, sentinel, faults, given, suspect>>
    BY <1>5 DEF Signal
  <2>2. line' \in BOOLEAN /\ stop' \in BOOLEAN /\ clock' \in 0..MaxClock /\ clock' >= clock
    BY <2>1, Flags, Vdl2Assumption DEF VInv, MessagesAccounted, TypeOK
  <2> QED BY <2>1, <2>2, SameV
<1>6. CASE Tick
  <2>1. clock < MaxClock /\ clock' = clock + 1
        /\ UNCHANGED <<line, message, count, store, pending, pc, last, stop, sentinel, faults, given, suspect>>
    BY <1>6 DEF Tick
  <2>2. line' \in BOOLEAN /\ stop' \in BOOLEAN /\ clock' \in 0..MaxClock /\ clock' >= clock
    BY <2>1, Flags, Vdl2Assumption DEF VInv, MessagesAccounted, TypeOK
  <2> QED BY <2>1, <2>2, SameV
<1>7. CASE UNCHANGED vars
  <2>1. line' \in BOOLEAN /\ stop' \in BOOLEAN /\ clock' \in 0..MaxClock /\ clock' >= clock
        /\ UNCHANGED <<line, message, count, store, pending, pc, last, sentinel, faults, given, suspect>>
    BY <1>7, Flags, Vdl2Assumption DEF vars, VInv, MessagesAccounted, TypeOK
  <2> QED BY <2>1, SameV
<1>8. CASE LineChanges
  <2>1. line' = ~line /\ stop' = stop /\ clock' = clock
        /\ UNCHANGED <<message, count, store, pending, pc, last, sentinel, faults, given, suspect>>
    BY <1>8 DEF LineChanges
  <2>2. line' \in BOOLEAN /\ stop' \in BOOLEAN /\ clock' \in 0..MaxClock /\ clock' >= clock
    BY <2>1, Flags, Vdl2Assumption DEF VInv, MessagesAccounted, TypeOK
  <2> QED BY <2>1, <2>2, SameV
<1> QED BY <1>1, <1>2, <1>3, <1>4, <1>5, <1>6, <1>7, <1>8 DEF Next, Step

\* What the invariant says of a step: the database changes only in a checked run.
LEMMA WriteChecked == ASSUME VInv, [Next]_vars PROVE disk' # disk \/ fts' # fts => ~suspect
<1> USE DEF store, world, run
<1>1. suspect => pc \in {"down", "check"} /\ fts
  BY Flags DEF Gate
<1>2. Schema \/ Rebuild \/ Commit \/ Prune \/ WebOpen => ~suspect
  BY <1>1 DEF Schema, Rebuild, Commit, Prune, WebOpen, Listening
<1>3. CASE Start \/ CheckPassed \/ CheckFailed \/ CheckInterrupted \/ StartFails \/ Listen \/ IdleFlush \/ EmptyDatagram \/ LastFlush
  BY <1>3 DEF Start, CheckPassed, CheckFailed, CheckInterrupted, StartFails, Listen, IdleFlush, EmptyDatagram, LastFlush
<1>4. CASE Insert \/ Mark \/ Busy \/ Poison \/ Signal \/ Exit \/ Crash \/ LineChanges \/ Tick
  BY <1>4 DEF Insert, Mark, Busy, Poison, Signal, Exit, Crash, LineChanges, Tick
<1>5. CASE \E k \in 1..MaxLines : \E lines \in [1..k -> [more: BOOLEAN, body: Bodies]] : Receive(lines)
  BY <1>5 DEF Receive
<1>6. CASE UNCHANGED vars
  BY <1>6 DEF vars
<1> QED BY <1>2, <1>3, <1>4, <1>5, <1>6 DEF Next, Step

-----------------------------------------------------------------------------
(* The theorems *)

LEMMA AlwaysV == Spec => []VInv
<1>1. Init => VInv
  BY InitV
<1>2. VInv /\ [Next]_vars => VInv'
  BY StepV
<1> QED BY <1>1, <1>2, PTL DEF Spec

\* For any batch size, cap and faults: a message is in the table once, or waits in
\* the buffer of main(), or was given up, or is expired; and the buffer is bounded
\* (_flush and _handle_datagram in vdl2_collector.py).
THEOREM MessagesAccountedAlways == Spec => []MessagesAccounted
<1>1. VInv => MessagesAccounted
  BY DEF VInv
<1> QED BY <1>1, AlwaysV, PTL

\* A block that mark_superseded hid keeps a later final block with its whole text for
\* as long as it is not expired, whatever is rolled back, dropped or pruned.
THEOREM HiddenIsCoveredAlways == Spec => []HiddenIsCovered
<1>1. VInv => HiddenIsCovered
  BY DEF VInv, Contents, Hidden, HiddenIsCovered
<1> QED BY <1>1, AlwaysV, PTL

\* After a marked run that ended without clean-up, main() and the web write nothing
\* before a check has passed, in whatever order starts fail and are interrupted.
THEOREM NoWriteUncheckedAlways == Spec => NoWriteUnchecked
<1>1. VInv /\ [Next]_vars => [disk' # disk \/ fts' # fts => ~suspect]_vars
  BY WriteChecked
<1> QED BY <1>1, AlwaysV, PTL DEF Spec, NoWriteUnchecked

-----------------------------------------------------------------------------
(* The views: the table *)

MessageRow == [ts : Times, report : Reports[view], superseded : BOOLEAN]

\* The rows of a window, those since deleted included.
There(from, to) == {i \in DOMAIN messages : from <= messages[i].ts /\ messages[i].ts < to}

\* Each SELECT of a request found what was there all along and nothing that never was.
ReadsInv == series # None =>
    /\ view = "series"
    /\ series \in [from : Nat, to : Nat, begun : Nat, reads : Seq(SUBSET Nat)]
    /\ series.from < series.to /\ series.to <= MaxTs.series + 1
    /\ series.begun <= Len(messages) /\ Len(series.reads) \in 1..Selects
    /\ series.reads[1] \subseteq There(series.from, series.to)
    /\ \A i \in There(series.from, series.to) \ pruned : i <= series.begun => i \in series.reads[1]
    /\ \A k \in 1..Len(series.reads) : Kept(series) \subseteq series.reads[k] /\ series.reads[k] \subseteq Ever(series)

\* The table holds what arrived.
ViewsInv ==
    /\ view \in DOMAIN Reports /\ messages \in Seq(MessageRow) /\ Len(messages) <= MaxRows[view]
    /\ pruned \subseteq DOMAIN messages
    /\ ReadsInv

LEMMA EverIs == ASSUME ViewsInv, series # None PROVE Ever(series) \subseteq There(series.from, series.to)
  BY DEF ViewsInv, ReadsInv, Ever, There

LEMMA ViewsInvIs == ViewsInv => ViewsTypeOK
<1> SUFFICES ASSUME ViewsInv PROVE ViewsTypeOK
  OBVIOUS
<1>1. \A i \in Ids : messages[i] \in MessageRow
  BY ElementOfSeq DEF ViewsInv, Ids
<1>2. ASSUME series # None PROVE Len(series.reads) \in 1..Selects /\ \A rows \in ToSet(series.reads) : rows \subseteq DOMAIN messages
  <2>1. DOMAIN series.reads = 1..Len(series.reads)
    BY <1>2 DEF ViewsInv, ReadsInv
  <2>2. \A k \in DOMAIN series.reads : series.reads[k] \subseteq There(series.from, series.to)
    BY <1>2, <2>1, EverIs DEF ViewsInv, ReadsInv
  <2>3. \A rows \in ToSet(series.reads) : \E k \in DOMAIN series.reads : rows = series.reads[k]
    BY DEF ToSet
  <2> QED BY <1>2, <2>2, <2>3 DEF There, ViewsInv, ReadsInv
<1> QED BY <1>1, <1>2 DEF ViewsTypeOK, ViewsInv, MessageRow

\* Rows only come, and keep their time.
LEMMA RowsGrow ==
  ASSUME ViewsInv, [ViewsNext]_viewVars
  PROVE  /\ view' = view /\ pruned \subseteq pruned' /\ messages' \in Seq(MessageRow) /\ Len(messages') <= MaxRows[view]
         /\ Len(messages) <= Len(messages') /\ pruned' \subseteq DOMAIN messages'
         /\ \A i \in DOMAIN messages : i \in DOMAIN messages' /\ messages'[i].ts = messages[i].ts
  <1>1. view' = view
    BY DEF ViewsNext, Inserted, Supersede, Expire, AskSeries, ReadOn, viewVars
  <1>2. messages \in Seq(MessageRow) /\ Len(messages) \in Nat /\ MaxRows[view] \in Nat /\ DOMAIN messages = 1..Len(messages)
    BY Vdl2ViewsAssumption DEF ViewsInv
  <1>3. pruned \subseteq DOMAIN messages /\ Len(messages) <= MaxRows[view]
    BY DEF ViewsInv
  <1>4. ASSUME NEW report \in Reports[view], NEW t \in Times, Inserted(report, t)
        PROVE  /\ pruned \subseteq pruned' /\ messages' \in Seq(MessageRow) /\ Len(messages') <= MaxRows[view]
               /\ Len(messages) <= Len(messages') /\ pruned' \subseteq DOMAIN messages'
               /\ \A i \in DOMAIN messages : i \in DOMAIN messages' /\ messages'[i].ts = messages[i].ts
    <2> DEFINE row == [ts |-> t, report |-> report, superseded |-> FALSE]
    <2>1. row \in MessageRow /\ messages' = Append(messages, row) /\ Len(messages) < MaxRows[view] /\ pruned' = pruned
      BY <1>4 DEF Inserted, MessageRow
    <2> HIDE DEF row
    <2>2. messages' \in Seq(MessageRow) /\ Len(messages') = Len(messages) + 1 /\ DOMAIN messages' = 1..Len(messages')
      BY <1>2, <2>1
    <2>3. \A i \in DOMAIN messages : i \in DOMAIN messages' /\ messages'[i] = messages[i]
      BY <1>2, <2>1, <2>2
    <2> QED BY <1>2, <1>3, <2>1, <2>2, <2>3
  <1>5. ASSUME NEW i \in Ids, Supersede(i)
        PROVE  /\ pruned \subseteq pruned' /\ messages' \in Seq(MessageRow) /\ Len(messages') <= MaxRows[view]
               /\ Len(messages) <= Len(messages') /\ pruned' \subseteq DOMAIN messages'
               /\ \A n \in DOMAIN messages : n \in DOMAIN messages' /\ messages'[n].ts = messages[n].ts
    <2>1. messages' = [messages EXCEPT ![i].superseded = TRUE] /\ i \in 1..Len(messages) /\ pruned' = pruned
      BY <1>2, <1>5 DEF Supersede, Ids
    <2>2. messages[i] \in MessageRow
      BY <1>2, <2>1, ElementOfSeq
    <2> DEFINE row == [messages[i] EXCEPT !.superseded = TRUE]
    <2>3. row \in MessageRow /\ row.ts = messages[i].ts
      BY <2>2 DEF MessageRow
    <2>4. messages' = [messages EXCEPT ![i] = row]
      BY <2>1
    <2> HIDE DEF row
    <2>5. /\ [messages EXCEPT ![i] = row] \in Seq(MessageRow)
          /\ Len([messages EXCEPT ![i] = row]) = Len(messages)
      <3>1. messages \in Seq(MessageRow) /\ i \in 1..Len(messages) /\ row \in MessageRow
        BY <1>2, <2>1, <2>3
      <3> HIDE DEF MessageRow
      <3> QED BY <3>1, ExceptSeq
    <2>6. DOMAIN messages' = DOMAIN messages /\ \A n \in DOMAIN messages : messages'[n] = IF n = i THEN row ELSE messages[n]
      BY <2>4
    <2>7. \A n \in DOMAIN messages : messages'[n].ts = messages[n].ts
      BY <2>3, <2>6
    <2>8. messages' \in Seq(MessageRow) /\ Len(messages') = Len(messages)
      BY <2>4, <2>5
    <2>9. \A n \in DOMAIN messages : n \in DOMAIN messages' /\ messages'[n].ts = messages[n].ts
      BY <2>6, <2>7
    <2> QED BY <1>2, <1>3, <2>1, <2>6, <2>8, <2>9
  <1>6. ASSUME NEW gone \in SUBSET Ids, Expire(gone)
        PROVE  messages' = messages /\ pruned \subseteq pruned' /\ pruned' \subseteq DOMAIN messages
    BY <1>3, <1>6 DEF Expire, Ids
  <1>7. ASSUME \/ \E w \in Windows : AskSeries(w[1], w[2])
               \/ ReadOn \/ UNCHANGED viewVars
        PROVE  messages' = messages /\ pruned' = pruned
    BY <1>7 DEF AskSeries, ReadOn, viewVars
  <1> QED BY <1>1, <1>2, <1>3, <1>4, <1>5, <1>6, <1>7 DEF ViewsNext

\* A SELECT finds the rows of its window that are not deleted.
LEMMA SelectIs == \A from, to : In(from, to) = There(from, to) \ pruned
  BY DEF In, There, Ids

LEMMA ReadsStep == ASSUME ViewsInv, [ViewsNext]_viewVars PROVE ReadsInv'
<1> SUFFICES ASSUME (series # None)' PROVE
      (/\ view = "series"
       /\ series \in [from : Nat, to : Nat, begun : Nat, reads : Seq(SUBSET Nat)]
       /\ series.from < series.to /\ series.to <= MaxTs.series + 1
       /\ series.begun <= Len(messages) /\ Len(series.reads) \in 1..Selects
       /\ series.reads[1] \subseteq There(series.from, series.to)
       /\ \A i \in There(series.from, series.to) \ pruned : i <= series.begun => i \in series.reads[1]
       /\ \A k \in 1..Len(series.reads) : Kept(series) \subseteq series.reads[k] /\ series.reads[k] \subseteq Ever(series))'
  BY DEF ReadsInv
<1>1. /\ Len(messages) \in Nat /\ DOMAIN messages = 1..Len(messages)
      /\ Len(messages') \in Nat /\ DOMAIN messages' = 1..Len(messages') /\ Len(messages) <= Len(messages')
      /\ view' = view /\ pruned \subseteq pruned'
      /\ \A i \in DOMAIN messages : i \in DOMAIN messages' /\ messages'[i].ts = messages[i].ts
  <2>1. messages \in Seq(MessageRow) /\ messages' \in Seq(MessageRow)
    BY RowsGrow DEF ViewsInv
  <2> QED BY <2>1, RowsGrow
<1>2. CASE series' = series
  <2>1. /\ series # None /\ view = "series"
        /\ series \in [from : Nat, to : Nat, begun : Nat, reads : Seq(SUBSET Nat)]
        /\ series.from < series.to /\ series.to <= MaxTs.series + 1
        /\ series.begun <= Len(messages) /\ Len(series.reads) \in 1..Selects
        /\ series.reads[1] \subseteq There(series.from, series.to)
        /\ \A i \in There(series.from, series.to) \ pruned : i <= series.begun => i \in series.reads[1]
        /\ \A k \in 1..Len(series.reads) : Kept(series) \subseteq series.reads[k] /\ series.reads[k] \subseteq Ever(series)
    BY <1>2 DEF ViewsInv, ReadsInv
  <2> DEFINE from == series.from
             to == series.to
  <2>2. There(from, to) \subseteq There(from, to)'
    BY <1>1, <1>2 DEF There
  <2>3. \A i \in There(from, to)' : i <= series.begun => i \in There(from, to)
    <3>1. series.begun \in Nat /\ \A i \in DOMAIN messages' : i <= series.begun => i \in DOMAIN messages
      BY <1>1, <2>1
    <3> QED BY <1>1, <1>2, <3>1 DEF There
  <2>4. Kept(series)' \subseteq Kept(series)
    BY <1>1, <1>2 DEF Kept
  <2>5. Ever(series) \subseteq Ever(series)'
    BY <1>1, <1>2 DEF Ever
  <2>6. (series.begun <= Len(messages))'
    BY <1>1, <1>2, <2>1
  <2>7. (series.reads[1] \subseteq There(series.from, series.to))'
    BY <1>2, <2>1, <2>2
  <2>8. (\A i \in There(series.from, series.to) \ pruned : i <= series.begun => i \in series.reads[1])'
    BY <1>1, <1>2, <2>1, <2>3
  <2>9. (\A k \in 1..Len(series.reads) : Kept(series) \subseteq series.reads[k] /\ series.reads[k] \subseteq Ever(series))'
    BY <1>2, <2>1, <2>4, <2>5
  <2> QED BY <1>1, <1>2, <2>1, <2>6, <2>7, <2>8, <2>9
<1>3. ASSUME NEW w \in Windows, AskSeries(w[1], w[2]) PROVE ReadsInv'
  <2> DEFINE I == In(w[1], w[2])
             begun == Len(messages)
  <2>1. /\ view = "series" /\ messages' = messages /\ pruned' = pruned
        /\ series' = [from |-> w[1], to |-> w[2], begun |-> begun, reads |-> <<I>>]
    BY <1>3 DEF AskSeries
  <2>2. w[1] \in Nat /\ w[2] \in Nat /\ w[1] < w[2] /\ w[2] <= MaxTs.series + 1
    <3>1. MaxTs.series \in Nat
      BY Vdl2ViewsAssumption DEF Reports
    <3> QED BY <2>1, <3>1 DEF Windows, Times
  <2>3. I = There(w[1], w[2]) \ pruned /\ I \in SUBSET Nat
    BY <1>1, SelectIs DEF There
  <2> HIDE DEF I
  <2>4. /\ series'.from = w[1] /\ series'.to = w[2] /\ series'.begun = begun /\ series'.reads = <<I>>
        /\ Len(<<I>>) = 1 /\ <<I>>[1] = I /\ <<I>> \in Seq(SUBSET Nat)
    BY <2>1, <2>3
  <2>5. series' \in [from : Nat, to : Nat, begun : Nat, reads : Seq(SUBSET Nat)]
    BY <1>1, <2>1, <2>2, <2>4
  <2>6. There(w[1], w[2])' = There(w[1], w[2])
    BY <2>1 DEF There
  <2>7. (series.reads[1] \subseteq There(series.from, series.to))'
    BY <2>3, <2>4, <2>6
  <2>8. (\A i \in There(series.from, series.to) \ pruned : i <= series.begun => i \in series.reads[1])'
    BY <2>1, <2>3, <2>4, <2>6
  <2>9. Kept(series)' \subseteq I /\ I \subseteq Ever(series)'
    BY <2>4 DEF Kept, Ever
  <2>10. (\A k \in 1..Len(series.reads) : Kept(series) \subseteq series.reads[k] /\ series.reads[k] \subseteq Ever(series))'
    <3>1. \A k \in 1..Len(series'.reads) : series'.reads[k] = I
      BY <2>4
    <3> QED BY <2>9, <3>1
  <2>11. (/\ series.from < series.to /\ series.to <= MaxTs.series + 1
          /\ series.begun <= Len(messages) /\ Len(series.reads) \in 1..Selects)'
    BY <1>1, <2>1, <2>2, <2>4 DEF Selects
  <2> QED BY <1>1, <2>1, <2>5, <2>7, <2>8, <2>10, <2>11 DEF ReadsInv
<1>4. ASSUME ReadOn PROVE ReadsInv'
  <2> DEFINE from == series.from
             to == series.to
             I == In(from, to)
             old == series.reads
             new == Append(old, I)
  <2>1. /\ messages' = messages /\ pruned' = pruned /\ series # None /\ Len(old) < Selects
        /\ series' = [series EXCEPT !.reads = new]
    BY <1>4 DEF ReadOn
  <2>2. /\ view = "series"
        /\ series \in [from : Nat, to : Nat, begun : Nat, reads : Seq(SUBSET Nat)]
        /\ series.from < series.to /\ series.to <= MaxTs.series + 1
        /\ series.begun <= Len(messages) /\ Len(old) \in 1..Selects
        /\ old[1] \subseteq There(from, to)
        /\ \A i \in There(from, to) \ pruned : i <= series.begun => i \in old[1]
        /\ \A k \in 1..Len(old) : Kept(series) \subseteq old[k] /\ old[k] \subseteq Ever(series)
    BY <2>1 DEF ViewsInv, ReadsInv
  <2>3. I = There(from, to) \ pruned /\ I \in SUBSET Nat
    BY <1>1, SelectIs DEF There
  <2>4. Kept(series) \subseteq I
    BY <2>2, <2>3 DEF Kept
  <2>5. I \subseteq Ever(series)
    <3>1. ASSUME NEW i \in I PROVE i \in Ever(series)
      <4>1. i \in DOMAIN messages /\ from <= messages[i].ts /\ messages[i].ts < to /\ i \in There(from, to) \ pruned
        BY <2>3 DEF There
      <4>2. CASE i <= series.begun
        BY <2>2, <4>1, <4>2 DEF Ever
      <4>3. CASE i > series.begun
        BY <4>1, <4>3 DEF Ever
      <4> QED BY <1>1, <2>2, <4>1, <4>2, <4>3
    <3> QED BY <3>1
  <2> HIDE DEF I
  <2>6. /\ old \in Seq(SUBSET Nat) /\ new \in Seq(SUBSET Nat) /\ Len(new) = Len(old) + 1 /\ Len(new) \in 1..Selects
        /\ new[Len(old) + 1] = I /\ \A k \in 1..Len(old) : new[k] = old[k]
    BY <2>1, <2>2, <2>3 DEF Selects
  <2> HIDE DEF new
  <2>7. /\ series'.from = from /\ series'.to = to /\ series'.begun = series.begun /\ series'.reads = new
        /\ series' \in [from : Nat, to : Nat, begun : Nat, reads : Seq(SUBSET Nat)]
    BY <2>1, <2>2, <2>6
  <2>8. new[1] = old[1]
    BY <2>2, <2>6
  <2>9. There(from, to)' = There(from, to)
    BY <2>1, <2>7 DEF There
  <2>10. Kept(series)' = Kept(series) /\ Ever(series)' = Ever(series)
    BY <2>1, <2>7, <2>8 DEF Kept, Ever
  <2>11. \A k \in 1..Len(new) : Kept(series) \subseteq new[k] /\ new[k] \subseteq Ever(series)
    <3>1. \A k \in 1..Len(new) : k = Len(old) + 1 \/ k \in 1..Len(old)
      BY <2>2, <2>6 DEF Selects
    <3> QED BY <2>2, <2>4, <2>5, <2>6, <3>1
  <2>12. (series.reads[1] \subseteq There(series.from, series.to))'
    BY <2>2, <2>7, <2>8, <2>9
  <2>13. (\A i \in There(series.from, series.to) \ pruned : i <= series.begun => i \in series.reads[1])'
    BY <2>1, <2>2, <2>7, <2>8, <2>9
  <2>14. (\A k \in 1..Len(series.reads) : Kept(series) \subseteq series.reads[k] /\ series.reads[k] \subseteq Ever(series))'
    BY <2>7, <2>10, <2>11
  <2> QED BY <1>1, <2>1, <2>2, <2>6, <2>7, <2>12, <2>13, <2>14 DEF ReadsInv
<1>5. series' = series \/ (\E w \in Windows : AskSeries(w[1], w[2])) \/ ReadOn
  BY DEF ViewsNext, Inserted, Supersede, Expire, viewVars
<1> QED BY <1>2, <1>3, <1>4, <1>5 DEF ReadsInv

LEMMA ViewsInvAlways == ViewsSpec => []ViewsInv
<1>1. ViewsInit => ViewsInv
  <2> SUFFICES ASSUME ViewsInit PROVE ViewsInv
    OBVIOUS
  <2>1. view \in DOMAIN Reports /\ messages = <<>> /\ pruned = {} /\ series = None /\ MaxRows[view] \in Nat
    BY Vdl2ViewsAssumption DEF ViewsInit
  <2> QED BY <2>1 DEF ViewsInv, ReadsInv
<1>2. ViewsInv /\ [ViewsNext]_viewVars => ViewsInv'
  <2> SUFFICES ASSUME ViewsInv, [ViewsNext]_viewVars PROVE ViewsInv'
    OBVIOUS
  <2>1. view' = view /\ MessageRow' = MessageRow
    BY RowsGrow DEF MessageRow, Times
  <2> QED BY <2>1, RowsGrow, ReadsStep DEF ViewsInv
<1> QED BY <1>1, <1>2, PTL DEF ViewsSpec

-----------------------------------------------------------------------------
(* Sets of rows *)

LEMMA IdsAre == ViewsInv => Ids \subseteq DOMAIN messages /\ IsFiniteSet(Ids) /\ Ids \subseteq Nat
<1> SUFFICES ASSUME ViewsInv PROVE Ids \subseteq DOMAIN messages /\ IsFiniteSet(Ids) /\ Ids \subseteq Nat
  OBVIOUS
<1>1. Ids \subseteq DOMAIN messages /\ DOMAIN messages = 1..Len(messages) /\ Len(messages) \in Int /\ 1 \in Int
  BY DEF ViewsInv, Ids
<1> QED BY <1>1, FS_Interval, FS_Subset

\* A set of numbers has a smallest one.
LEMMA SmallestOf ==
  ASSUME NEW S, S \subseteq Nat, S # {}
  PROVE  \E i \in S : \A n \in S : i <= n
<1> DEFINE T == {1..i : i \in S}
<1>1. T \subseteq FiniteSubsetsOf(Nat) /\ T # {}
  <2>1. \A i \in S : IsFiniteSet(1..i) /\ 1..i \subseteq Nat
    BY FS_Interval
  <2> QED BY <2>1 DEF FiniteSubsetsOf
<1>2. PICK s \in T : \A t \in T : <<t, s>> \notin StrictSubsetOrdering(Nat)
  <2> HIDE DEF T
  <2> QED BY <1>1, WFMin, FS_StrictSubsetOrderingWellFounded
<1>3. PICK i \in S : s = 1..i
  BY <1>2
<1>4. \A n \in S : i <= n
  <2> SUFFICES ASSUME NEW n \in S, n < i PROVE FALSE
    OBVIOUS
  <2>1. 1..n \in T /\ 1..n \subseteq 1..i /\ 1..n # 1..i /\ 1..n \subseteq Nat /\ 1..i \subseteq Nat
    <3>1. i \in 1..i /\ i \notin 1..n
      OBVIOUS
    <3> QED BY <3>1
  <2>2. <<1..n, s>> \in StrictSubsetOrdering(Nat)
    BY <1>3, <2>1 DEF StrictSubsetOrdering
  <2> QED BY <1>2, <2>1, <2>2
<1> QED BY <1>4

LEMMA NewestOf == ASSUME ViewsInv, NEW S, S \subseteq Ids, S # {} PROVE Newest(S) \in S /\ \A y \in S : y <= Newest(S)
<1> DEFINE n == Len(messages)
           T == {n - y : y \in S}
<1>1. S \subseteq 1..n /\ n \in Nat
  BY IdsAre DEF ViewsInv
<1>2. T \subseteq Nat /\ T # {}
  <2>1. \A y \in S : n - y \in Nat
    BY <1>1
  <2> HIDE DEF n
  <2> QED BY <2>1
<1>3. PICK k \in T : \A m \in T : k <= m
  <2> HIDE DEF T
  <2> QED BY <1>2, SmallestOf
<1>4. PICK x \in S : k = n - x
  BY <1>3
<1>5. \A y \in S : x >= y
  <2> TAKE y \in S
  <2>1. n - y \in T
    OBVIOUS
  <2>2. k <= n - y
    BY <1>3, <2>1
  <2> QED BY <1>1, <1>4, <2>2
<1>6. \E z \in S : \A y \in S : z >= y
  BY <1>5
<1>7. Max(S) \in S /\ \A y \in S : Max(S) >= y
  BY <1>6 DEF Max
<1>8. Newest(S) = Max(S)
  BY DEF Newest
<1>9. S \subseteq Int
  BY <1>1
<1> QED BY <1>7, <1>8, <1>9


LEMMA NewestIs ==
  ASSUME ViewsInv, NEW S, S \subseteq Ids
  PROVE  /\ Newest(S) = None <=> S = {}
         /\ S # {} => Newest(S) \in S /\ \A y \in S : y <= Newest(S)
<1>1. CASE S = {}
  BY <1>1 DEF Newest
<1>2. CASE S # {}
  <2>1. Newest(S) \in S /\ \A y \in S : y <= Newest(S)
    BY <1>2, NewestOf
  <2>2. None \notin S
    BY IdsAre, Vdl2ViewsAssumption
  <2> QED BY <1>2, <2>1, <2>2
<1> QED BY <1>1, <1>2

\* The newest of more is the newest of fewer, if it is among them.
LEMMA NewestOfFewer ==
  ASSUME ViewsInv, NEW S, S \subseteq Ids, NEW R, R \subseteq S, Newest(S) \in R
  PROVE  Newest(R) = Newest(S)
<1>1. S # {} /\ R # {} /\ R \subseteq Ids
  OBVIOUS
<1>2. Newest(S) \in S /\ (\A y \in S : y <= Newest(S)) /\ Newest(R) \in R /\ \A y \in R : y <= Newest(R)
  BY <1>1, NewestIs
<1>3. Newest(R) <= Newest(S) /\ Newest(S) <= Newest(R) /\ Newest(R) \in Nat /\ Newest(S) \in Nat
  BY <1>1, <1>2, IdsAre
<1> QED BY <1>3

-----------------------------------------------------------------------------
(* Block times *)

OfKind(rows, kind) == {i \in rows : Said(i).kind = kind}
WithDsta(rows) == {i \in rows : Said(i).dsta # None}

\* Ending early keeps all rows, or the newest row with each of the three.
LEMMA ScanKeeps ==
  ASSUME ViewsInv, NEW R, R \subseteq Ids
  PROVE  \/ Scanned(R) = R
         \/ /\ NewestKind(R, "DEP") # None /\ NewestKind(Scanned(R), "DEP") = NewestKind(R, "DEP")
            /\ NewestKind(R, "ARR") # None /\ NewestKind(Scanned(R), "ARR") = NewestKind(R, "ARR")
            /\ NewestDsta(R) # None /\ NewestDsta(Scanned(R)) = NewestDsta(R)
<1> DEFINE after(i) == {j \in R : j > i}
           complete(met) == OfKind(met, "DEP") # {} /\ OfKind(met, "ARR") # {} /\ WithDsta(met) # {}
           S == {i \in R : ~complete(after(i))}
<1>1. \A met \in SUBSET Ids : (/\ NewestKind(met, "DEP") # None /\ NewestKind(met, "ARR") # None
                                /\ NewestDsta(met) # None) <=> complete(met)
  <2> TAKE met \in SUBSET Ids
  <2>1. OfKind(met, "DEP") \subseteq Ids /\ OfKind(met, "ARR") \subseteq Ids /\ WithDsta(met) \subseteq Ids
    BY DEF OfKind, WithDsta
  <2>2. /\ NewestKind(met, "DEP") = Newest(OfKind(met, "DEP")) /\ NewestKind(met, "ARR") = Newest(OfKind(met, "ARR"))
        /\ NewestDsta(met) = Newest(WithDsta(met))
    BY DEF NewestKind, NewestDsta, OfKind, WithDsta
  <2> QED BY <2>1, <2>2, NewestIs
<1>2. Scanned(R) = S
  <2>1. \A i \in R : after(i) \in SUBSET Ids
    OBVIOUS
  <2>2. \A i \in R : (/\ NewestKind(after(i), "DEP") # None /\ NewestKind(after(i), "ARR") # None
                      /\ NewestDsta(after(i)) # None) <=> complete(after(i))
    BY <1>1, <2>1
  <2> HIDE DEF complete
  <2> QED BY <2>2 DEF Scanned
<1>3. CASE \A i \in R : ~complete(after(i))
  BY <1>2, <1>3
<1>4. CASE \E i \in R : complete(after(i))
  <2>1. complete(R)
    BY <1>4 DEF OfKind, WithDsta
  <2>2. ASSUME NEW Q, Q \subseteq R, Q # {}, \A i \in R : complete(after(i)) => Q \cap after(i) # {}
        PROVE  Newest(Q) # None /\ Newest(Q \cap S) = Newest(Q)
    <3>1. Newest(Q) \in Q /\ (\A y \in Q : y <= Newest(Q)) /\ Newest(Q) # None /\ Q \subseteq Ids /\ Q \subseteq Nat
      BY <2>2, NewestIs, IdsAre
    <3>2. Q \cap after(Newest(Q)) = {}
      <4> DEFINE m == Newest(Q)
      <4>1. m \in Nat /\ \A y \in Q : y \in Nat /\ y <= m
        BY <3>1
      <4> HIDE DEF m
      <4>2. \A y \in Q : ~(y > m)
        BY <4>1
      <4> QED BY <4>2 DEF m
    <3>3. Newest(Q) \in Q \cap S
      BY <2>2, <3>1, <3>2
    <3> HIDE DEF S
    <3>4. Newest(Q \cap S) = Newest(Q)
      BY <3>1, <3>3, NewestOfFewer
    <3> QED BY <3>1, <3>4
  <2>3. \A kind \in {"DEP", "ARR"} : Newest(OfKind(R, kind)) # None /\ Newest(OfKind(R, kind) \cap S) = Newest(OfKind(R, kind))
    <3> TAKE kind \in {"DEP", "ARR"}
    <3>1. OfKind(R, kind) \subseteq R /\ OfKind(R, kind) # {} /\ \A i \in R : complete(after(i)) => OfKind(R, kind) \cap after(i) # {}
      BY <2>1 DEF OfKind
    <3> HIDE DEF S, complete, after
    <3> QED BY <2>2, <3>1
  <2>4. Newest(WithDsta(R)) # None /\ Newest(WithDsta(R) \cap S) = Newest(WithDsta(R))
    <3>1. WithDsta(R) \subseteq R /\ WithDsta(R) # {} /\ \A i \in R : complete(after(i)) => WithDsta(R) \cap after(i) # {}
      BY <2>1 DEF WithDsta
    <3> HIDE DEF S, complete, after
    <3> QED BY <2>2, <3>1
  <2>5. S \subseteq R
    OBVIOUS
  <2> HIDE DEF S
  <2>6. WithDsta(R) \cap S = WithDsta(S) /\ \A kind \in {"DEP", "ARR"} : OfKind(R, kind) \cap S = OfKind(S, kind)
    BY <2>5 DEF OfKind, WithDsta
  <2>7. /\ \A T \in {R, S}, kind \in {"DEP", "ARR"} : NewestKind(T, kind) = Newest(OfKind(T, kind))
        /\ \A T \in {R, S} : NewestDsta(T) = Newest(WithDsta(T))
    BY DEF NewestKind, NewestDsta, OfKind, WithDsta
  <2> QED BY <1>2, <2>3, <2>4, <2>6, <2>7
<1> QED BY <1>3, <1>4

LEMMA SaidIs == ASSUME ViewsInv, NEW i \in Ids PROVE Said(i) \in Reports[view] /\ i \in Nat
<1>1. messages[i] \in MessageRow
  BY ElementOfSeq DEF ViewsInv, Ids
<1> QED BY <1>1, IdsAre DEF Said, MessageRow

LEMMA KindIs ==
  ASSUME ViewsInv, NEW R, R \subseteq Ids, NEW kind, NewestKind(R, kind) # None
  PROVE  NewestKind(R, kind) \in R /\ Said(NewestKind(R, kind)).kind = kind
<1>1. NewestKind(R, kind) = Newest(OfKind(R, kind)) /\ OfKind(R, kind) \subseteq Ids
  BY DEF NewestKind, OfKind
<1>2. Newest(OfKind(R, kind)) \in OfKind(R, kind)
  BY <1>1, NewestIs
<1> QED BY <1>1, <1>2 DEF OfKind

LEMMA RouteIs == ASSUME ViewsInv, view = "oooi", NEW R, R \subseteq Ids PROVE RouteOf(R) \in OooiReports \cup {None}
<1> DEFINE known == {n \in DOMAIN RouteOrder : NewestKind(R, RouteOrder[n]) # None}
<1>1. CASE known = {}
  BY <1>1 DEF RouteOf
<1>2. CASE known # {}
  <2>1. known \subseteq Nat
    BY DEF RouteOrder
  <2> HIDE DEF known
  <2>2. PICK n \in known : \A m \in known : n <= m
    BY <1>2, <2>1, SmallestOf
  <2>3. Min(known) \in known
    BY <2>2 DEF Min
  <2>4. NewestKind(R, RouteOrder[Min(known)]) \in R
    BY <2>3, KindIs DEF known
  <2>5. RouteOf(R) = Said(NewestKind(R, RouteOrder[Min(known)]))
    BY <1>2 DEF RouteOf, known
  <2> QED BY <2>4, <2>5, SaidIs DEF Reports
<1> QED BY <1>1, <1>2

\* A route adds airports and no more.
LEMMA FilledIs ==
  ASSUME NEW e \in Event, NEW route \in OooiReports \cup {None}
  PROVE  LET f == Filled(e, route)
         IN  /\ f \in Event /\ f # None /\ e # None /\ f.start = e.start /\ f.end = e.end
             /\ f.dep = e.dep \/ e.dep = None
             /\ f.dest = e.dest \/ e.dest = None
<1>1. \A x \in Event : x # None
  BY Vdl2ViewsAssumption
<1>2. CASE route = None
  BY <1>1, <1>2 DEF Filled
<1>3. CASE route # None
  <2>1. route.dep \in Airports /\ route.dest \in Airports
    BY <1>3 DEF Airports
  <2> DEFINE f == [e EXCEPT !.dep = IF e.dep = None THEN route.dep ELSE e.dep,
                            !.dest = IF e.dest = None THEN route.dest ELSE e.dest]
  <2>2. Filled(e, route) = f
    BY <1>1, <1>3 DEF Filled, Event
  <2>3. /\ f \in Event /\ f.start = e.start /\ f.end = e.end
        /\ f.dep = IF e.dep = None THEN route.dep ELSE e.dep
        /\ f.dest = IF e.dest = None THEN route.dest ELSE e.dest
    BY <2>1 DEF Event
  <2> HIDE DEF f
  <2> QED BY <1>1, <2>2, <2>3
<1> QED BY <1>2, <1>3

LEMMA StatedIs ==
  ASSUME ViewsInv, view = "oooi", NEW i \in Ids
  PROVE  /\ Stated(i) \in Event /\ Stated(i).start = i /\ Stated(i).end = i
         /\ Stated(i).dep = Said(i).dep /\ Stated(i).dest = Said(i).dest
<1>1. Said(i) \in OooiReports /\ i \in Nat
  BY SaidIs DEF Reports
<1>2. Said(i).dep \in Airports /\ Said(i).dest \in Airports
  BY <1>1 DEF Airports
<1> QED BY <1>1, <1>2 DEF Stated, Event

\* When both events are stated and the destination is known, nothing else counts
\* but a route for the airports that are missing.
LEMMA SummaryStated ==
  ASSUME ViewsInv, view = "oooi", NEW R, R \subseteq Ids,
         NewestKind(R, "DEP") # None, NewestKind(R, "ARR") # None, NewestDsta(R) # None
  PROVE  Summary(R) = [dep |-> Filled(Stated(NewestKind(R, "DEP")), RouteOf(R)),
                       arr |-> Filled(Stated(NewestKind(R, "ARR")), RouteOf(R)),
                       dsta |-> Said(NewestDsta(R)).dsta]
<1>1. Stated(NewestKind(R, "DEP")) \in Event /\ Stated(NewestKind(R, "ARR")) \in Event
  BY KindIs, StatedIs
<1>2. Stated(NewestKind(R, "DEP")) # None /\ Stated(NewestKind(R, "ARR")) # None
  BY <1>1, Vdl2ViewsAssumption
<1> QED BY <1>2 DEF Summary

LEMMA EarlyExitOK == ViewsInv => EarlyExitHarmless
<1> SUFFICES ASSUME ViewsInv PROVE EarlyExitHarmless
  OBVIOUS
<1> DEFINE Same(a, b) == \/ a = None /\ b = None
                         \/ /\ a # None /\ b # None
                            /\ a.start = b.start /\ a.end = b.end
                            /\ a.dep = b.dep \/ Said(a.end).dep = None
                            /\ a.dest = b.dest \/ Said(a.end).dest = None
<1>1. ASSUME view = "oooi", NEW R, R \subseteq Ids
      PROVE  /\ Same(Summary(Scanned(R)).dep, Summary(R).dep) /\ Same(Summary(Scanned(R)).arr, Summary(R).arr)
             /\ Summary(Scanned(R)).dsta = Summary(R).dsta
  <2>1. CASE Scanned(R) = R
    BY <2>1
  <2>2. CASE Scanned(R) # R
    <3> DEFINE S == Scanned(R)
               d == NewestKind(R, "DEP")
               a == NewestKind(R, "ARR")
    <3>1. /\ d # None /\ NewestKind(S, "DEP") = d
          /\ a # None /\ NewestKind(S, "ARR") = a
          /\ NewestDsta(R) # None /\ NewestDsta(S) = NewestDsta(R)
      BY <1>1, <2>2, ScanKeeps
    <3>2. S \subseteq Ids
      BY <1>1 DEF Scanned
    <3>3. d \in Ids /\ a \in Ids
      BY <1>1, <3>1, KindIs
    <3> HIDE DEF S
    <3>4. /\ Summary(S).dep = Filled(Stated(d), RouteOf(S)) /\ Summary(R).dep = Filled(Stated(d), RouteOf(R))
          /\ Summary(S).arr = Filled(Stated(a), RouteOf(S)) /\ Summary(R).arr = Filled(Stated(a), RouteOf(R))
          /\ Summary(S).dsta = Summary(R).dsta
      BY <1>1, <3>1, <3>2, SummaryStated
    <3>5. RouteOf(S) \in OooiReports \cup {None} /\ RouteOf(R) \in OooiReports \cup {None}
      BY <1>1, <3>2, RouteIs
    <3> HIDE DEF d, a
    <3>6. ASSUME NEW i \in Ids, NEW p \in OooiReports \cup {None}, NEW q \in OooiReports \cup {None}
          PROVE  Same(Filled(Stated(i), p), Filled(Stated(i), q))
      <4> DEFINE e == Stated(i)
      <4>1. e \in Event /\ e.start = i /\ e.end = i /\ e.dep = Said(i).dep /\ e.dest = Said(i).dest
        BY <1>1, StatedIs
      <4> HIDE DEF e
      <4>2. /\ Filled(e, p) # None /\ Filled(e, p).start = i /\ Filled(e, p).end = i
            /\ (Filled(e, p).dep = e.dep \/ e.dep = None) /\ (Filled(e, p).dest = e.dest \/ e.dest = None)
        BY <4>1, FilledIs
      <4>3. /\ Filled(e, q) # None /\ Filled(e, q).start = i /\ Filled(e, q).end = i
            /\ (Filled(e, q).dep = e.dep \/ e.dep = None) /\ (Filled(e, q).dest = e.dest \/ e.dest = None)
        BY <4>1, FilledIs
      <4>4. Same(Filled(e, p), Filled(e, q))
        BY <4>1, <4>2, <4>3
      <4> QED BY <4>4 DEF e
    <3>7. /\ Same(Filled(Stated(d), RouteOf(S)), Filled(Stated(d), RouteOf(R)))
          /\ Same(Filled(Stated(a), RouteOf(S)), Filled(Stated(a), RouteOf(R)))
      BY <3>3, <3>5, <3>6
    <3> HIDE DEF Same
    <3> QED BY <3>4, <3>7 DEF S
  <2> QED BY <2>1, <2>2
<1>2. \A w \in Windows : Rows(w[1], w[2]) \subseteq Ids
  BY DEF Rows
<1>3. ViewsTypeOK
  BY ViewsInvIs
<1> QED BY <1>1, <1>2, <1>3 DEF EarlyExitHarmless

\* The partial reports chosen name one city pair.
OfPair(i, pair) == i \in Ids /\ Said(i).kind \in QPhases /\ Pair(i) = pair

LEMMA PhasesOfOnePair ==
  ASSUME ViewsInv, NEW R, R \subseteq Ids
  PROVE  \E pair : \A phase \in QPhases :
           DominantPhases(R)[phase] = None \/ OfPair(DominantPhases(R)[phase], pair)
<1> DEFINE partials == {i \in R : Said(i).kind \in QPhases}
           of(pair) == {i \in partials : Pair(i) = pair}
<1>1. CASE partials = {}
  <2>1. \A phase \in QPhases : DominantPhases(R)[phase] = None
    BY <1>1 DEF DominantPhases
  <2> QED BY <2>1
<1>2. CASE partials # {}
  <2>1. \E pair : \A phase \in QPhases : DominantPhases(R)[phase] = NewestKind(of(pair), phase)
    BY <1>2, ZenonT(30) DEF DominantPhases
  <2>2. PICK pair : \A phase \in QPhases : DominantPhases(R)[phase] = NewestKind(of(pair), phase)
    BY <2>1
  <2>3. ASSUME NEW phase \in QPhases, DominantPhases(R)[phase] # None PROVE OfPair(DominantPhases(R)[phase], pair)
    <3>1. of(pair) \subseteq Ids /\ NewestKind(of(pair), phase) # None
      BY <2>2, <2>3
    <3>2. NewestKind(of(pair), phase) \in of(pair)
      <4> HIDE DEF of
      <4> QED BY <3>1, KindIs
    <3> QED BY <2>2, <3>1, <3>2 DEF OfPair
  <2> QED BY <2>3
<1> QED BY <1>1, <1>2

LEMMA SynthesizedIs ==
  ASSUME ViewsInv, view = "oooi", NEW pair, NEW first, first = None \/ OfPair(first, pair),
         NEW second, second = None \/ OfPair(second, pair), Synthesized(first, second) # None
  PROVE  LET e == Synthesized(first, second)
         IN  /\ e \in Event /\ pair = <<e.dep, e.dest>> /\ e.dep # None /\ e.dest # None
             /\ \A i \in {e.start, e.end} \ {None} : OfPair(i, pair)
<1> DEFINE newer == IF second = None THEN first
                    ELSE IF first = None THEN second
                    ELSE IF messages[second].ts > messages[first].ts THEN second ELSE first
           start == IF first = None /\ Said(second).echo THEN second ELSE first
           e == [dep |-> Said(newer).dep, dest |-> Said(newer).dest, start |-> start, end |-> second]
<1>1. ~(first = None /\ second = None) /\ Synthesized(first, second) = e
  BY DEF Synthesized
<1>2. OfPair(newer, pair)
  BY <1>1
<1>3. (start = None \/ OfPair(start, pair)) /\ (start = None \/ start \in Nat)
  BY SaidIs DEF OfPair
<1>4. second = None \/ second \in Nat
  BY SaidIs DEF OfPair
<1> HIDE DEF newer, start
<1>5. Said(newer) \in OooiReports /\ Said(newer).kind \in QPhases /\ pair = <<Said(newer).dep, Said(newer).dest>>
  BY <1>2, SaidIs DEF OfPair, Pair, Reports
<1>6. /\ Said(newer).dep \in Airports /\ Said(newer).dest \in Airports
      /\ Said(newer).dep # None /\ Said(newer).dest # None
  BY <1>5, Vdl2ViewsAssumption DEF Airports
<1>7. e \in Event
  BY <1>3, <1>4, <1>6 DEF Event
<1> QED BY <1>1, <1>3, <1>5, <1>6, <1>7

\* An event is a report of the aircraft's states, or put together from one pair.
LEMMA EventIs ==
  ASSUME ViewsInv, view = "oooi", NEW R, R \subseteq Ids
  PROVE  \E pair : \A f \in {Summary(R).dep, Summary(R).arr} : f # None =>
           \/ f.start \in Ids /\ Said(f.start).kind \notin QPhases
           \/ pair = <<f.dep, f.dest>> /\ \A i \in {f.start, f.end} \ {None} : OfPair(i, pair)
<1>1. PICK pair : \A phase \in QPhases :
        DominantPhases(R)[phase] = None \/ OfPair(DominantPhases(R)[phase], pair)
  BY PhasesOfOnePair
<1> DEFINE Fine(f) == \/ f.start \in Ids /\ Said(f.start).kind \notin QPhases
                      \/ pair = <<f.dep, f.dest>> /\ \A i \in {f.start, f.end} \ {None} : OfPair(i, pair)
           q == DominantPhases(R)
           Raw(kind, first, second) ==
             IF NewestKind(R, kind) # None THEN Stated(NewestKind(R, kind)) ELSE Synthesized(q[first], q[second])
<1>2. ASSUME NEW kind \in {"DEP", "ARR"}, NEW first \in QPhases, NEW second \in QPhases,
             Filled(Raw(kind, first, second), RouteOf(R)) # None
      PROVE  Fine(Filled(Raw(kind, first, second), RouteOf(R)))
  <2> DEFINE route == RouteOf(R)
  <2>1. route \in OooiReports \cup {None}
    BY RouteIs
  <2>2. CASE NewestKind(R, kind) # None
    <3> DEFINE i == NewestKind(R, kind)
    <3>1. i \in Ids /\ Said(i).kind = kind /\ kind \notin QPhases
      BY <2>2, KindIs DEF QPhases
    <3>2. Stated(i) \in Event /\ Stated(i).start = i
      BY <3>1, StatedIs
    <3> HIDE DEF route, i
    <3>3. Filled(Stated(i), route).start = i
      BY <2>1, <3>2, FilledIs
    <3>4. Fine(Filled(Stated(i), route))
      BY <3>1, <3>3
    <3> HIDE DEF Fine
    <3> QED BY <2>2, <3>4 DEF route, i
  <2>3. CASE NewestKind(R, kind) = None
    <3> DEFINE e == Synthesized(q[first], q[second])
    <3>1. Raw(kind, first, second) = e
      BY <2>3
    <3>2. e # None
      BY <1>2, <3>1 DEF Filled
    <3>3. /\ e \in Event /\ pair = <<e.dep, e.dest>> /\ e.dep # None /\ e.dest # None
          /\ \A i \in {e.start, e.end} \ {None} : OfPair(i, pair)
      <4>1. (q[first] = None \/ OfPair(q[first], pair)) /\ (q[second] = None \/ OfPair(q[second], pair))
        BY <1>1
      <4> HIDE DEF q
      <4> QED BY <3>2, <4>1, SynthesizedIs
    <3> HIDE DEF e, route
    <3>4. /\ Filled(e, route).start = e.start /\ Filled(e, route).end = e.end
          /\ Filled(e, route).dep = e.dep /\ Filled(e, route).dest = e.dest
      BY <2>1, <3>3, FilledIs
    <3>5. Fine(Filled(e, route))
      BY <3>3, <3>4
    <3> HIDE DEF Fine, Raw
    <3> QED BY <3>1, <3>5 DEF route
  <2> QED BY <2>2, <2>3
<1>3. \A kind \in {"DEP", "ARR"} : NewestKind(R, kind) # None => Stated(NewestKind(R, kind)) # None
  <2> TAKE kind \in {"DEP", "ARR"}
  <2> HAVE NewestKind(R, kind) # None
  <2>1. Stated(NewestKind(R, kind)) \in Event
    BY KindIs, StatedIs
  <2> QED BY <2>1, Vdl2ViewsAssumption
<1>4. /\ Summary(R).dep = Filled(Raw("DEP", "out", "off"), RouteOf(R))
      /\ Summary(R).arr = Filled(Raw("ARR", "on", "in"), RouteOf(R))
  BY <1>3 DEF Summary
<1>5. {"out", "off", "on", "in"} \subseteq QPhases
  BY DEF QPhases
<1> HIDE DEF Fine, Raw
<1>6. \A f \in {Summary(R).dep, Summary(R).arr} : f # None => Fine(f)
  BY <1>2, <1>4, <1>5
<1> QED BY <1>6 DEF Fine

Partial(e) == e # None /\ \A i \in {e.start, e.end} \ {None} : Said(i).kind \in QPhases

LEMMA OneLegOK == ViewsInv => OneLeg
<1> SUFFICES ASSUME ViewsInv, view = "oooi" PROVE OneLeg
  BY DEF OneLeg
<1> DEFINE s(w) == Summary(Scanned(Rows(w[1], w[2])))
<1>1. ASSUME NEW w \in Windows, NEW e \in {s(w).dep, s(w).arr}, Partial(e), NEW f \in {s(w).dep, s(w).arr}, Partial(f)
      PROVE  (\A i \in {e.start, e.end} \ {None} : Pair(i) = <<e.dep, e.dest>>) /\ f.dep = e.dep /\ f.dest = e.dest
  <2> DEFINE S == Scanned(Rows(w[1], w[2]))
  <2>1. S \subseteq Ids
    BY DEF Scanned, Rows
  <2>2. PICK pair : \A g \in {s(w).dep, s(w).arr} : g # None =>
             \/ g.start \in Ids /\ Said(g.start).kind \notin QPhases
             \/ pair = <<g.dep, g.dest>> /\ \A i \in {g.start, g.end} \ {None} : OfPair(i, pair)
    <3> HIDE DEF S
    <3>1. \E pair : \A g \in {Summary(S).dep, Summary(S).arr} : g # None =>
             \/ g.start \in Ids /\ Said(g.start).kind \notin QPhases
             \/ pair = <<g.dep, g.dest>> /\ \A i \in {g.start, g.end} \ {None} : OfPair(i, pair)
      BY <2>1, EventIs
    <3> QED BY <3>1 DEF S
  <2> HIDE DEF s
  <2>3. ASSUME NEW g \in {e, f} PROVE pair = <<g.dep, g.dest>> /\ \A i \in {g.start, g.end} \ {None} : Pair(i) = pair
    <3>1. g \in {s(w).dep, s(w).arr} /\ Partial(g)
      BY <1>1, <2>3
    <3>2. None \notin Ids
      BY IdsAre, Vdl2ViewsAssumption
    <3>3. ~(g.start \in Ids /\ Said(g.start).kind \notin QPhases)
      BY <3>1, <3>2 DEF Partial
    <3> QED BY <2>2, <3>1, <3>3 DEF OfPair, Partial
  <2>4. \A g \in {e, f} : g.dep = pair[1] /\ g.dest = pair[2]
    BY <2>3
  <2>5. f.dep = e.dep /\ f.dest = e.dest
    BY <2>4
  <2> QED BY <2>3, <2>5
<1> HIDE DEF s
<1>2. \A w \in Windows : \A e, f \in {s(w).dep, s(w).arr} : Partial(e) /\ Partial(f) =>
         (\A i \in {e.start, e.end} \ {None} : Pair(i) = <<e.dep, e.dest>>) /\ f.dep = e.dep /\ f.dest = e.dest
  BY <1>1
<1> QED BY <1>2 DEF OneLeg, Partial, s

\* Ending the scan early costs at most an airport no report of the event names, and what is put
\* together from partial reports is of one city pair (_compute_oooi, _dominant_q_phases).
THEOREM BlockTimesRightAlways == ViewsSpec => []BlockTimesRight
<1>1. ViewsInv => BlockTimesRight
  BY EarlyExitOK, OneLegOK DEF BlockTimesRight
<1> QED BY <1>1, ViewsInvAlways, PTL

-----------------------------------------------------------------------------
(* Positions *)

Fixes(cutoff) == {i \in Current(cutoff) : Said(i).parsed # {} \/ Said(i).coarse}
Before(n, cutoff) == UNION {ParsedBy(ScanOrder[m], cutoff) : m \in 1..(n - 1)}
Vias == ToSet(ScanOrder) \cup {"coarse"}

LEMMA ScansAre ==
  /\ DOMAIN ScanOrder = 1..4 /\ Len(ScanOrder) = 4 /\ ToSet(ScanOrder) = {"label", "m1bpos", "59g", "adsc"}
  /\ \A n \in 1..4 : ScanOrder[n] # "coarse"
  /\ \A s \in ToSet(ScanOrder) : \E n \in 1..4 : s = ScanOrder[n]
<1>1. DOMAIN ScanOrder = 1..4 /\ Len(ScanOrder) = 4
  BY DEF ScanOrder
<1>2. ScanOrder[1] = "label" /\ ScanOrder[2] = "m1bpos" /\ ScanOrder[3] = "59g" /\ ScanOrder[4] = "adsc"
  BY DEF ScanOrder
<1>3. ToSet(ScanOrder) = {ScanOrder[n] : n \in 1..4}
  BY <1>1 DEF ToSet
<1>4. 1..4 = {1, 2, 3, 4}
  OBVIOUS
<1> QED BY <1>1, <1>2, <1>3, <1>4

LEMMA ParsedIs ==
  ASSUME NEW cutoff, NEW s, NEW i \in ParsedBy(s, cutoff)
  PROVE  i \in Fixes(cutoff) /\ s \in Said(i).parsed
BY DEF ParsedBy, Scan, NewestIds, Fixes

\* A point is precise, by the first scan that gives its row a fix, or coarse.
LEMMA PointIs ==
  ASSUME NEW cutoff, NEW p
  PROVE  p \in Points(cutoff) <=>
           \/ \E n \in 1..4 : \E i \in ParsedBy(ScanOrder[n], cutoff) \ Before(n, cutoff) : p = [id |-> i, via |-> ScanOrder[n]]
           \/ \E i \in CoarseScan(cutoff) \ Before(5, cutoff) : p = [id |-> i, via |-> "coarse"]
<1>1. Len(ScanOrder) + 1 = 5
  BY ScansAre
<1> QED BY <1>1, ScansAre DEF Points, Before

LEMMA PointsOfFixes ==
  ASSUME NEW cutoff, NEW p \in Points(cutoff)
  PROVE  p.id \in Fixes(cutoff)
<1>1. CASE \E n \in 1..4 : \E i \in ParsedBy(ScanOrder[n], cutoff) : p = [id |-> i, via |-> ScanOrder[n]]
  BY <1>1, ParsedIs
<1>2. CASE \E i \in CoarseScan(cutoff) : p = [id |-> i, via |-> "coarse"]
  BY <1>2 DEF CoarseScan, NewestIds, Fixes
<1> QED BY <1>1, <1>2, PointIs

\* A row gives one point.
LEMMA OnePoint ==
  ASSUME NEW cutoff, NEW p \in Points(cutoff), NEW q \in Points(cutoff), p.id = q.id
  PROVE  p = q
<1>1. \A n \in 1..4, m \in 1..5 : n < m => ParsedBy(ScanOrder[n], cutoff) \subseteq Before(m, cutoff)
  <2> TAKE n \in 1..4, m \in 1..5
  <2> HAVE n < m
  <2>1. n \in 1..(m - 1)
    OBVIOUS
  <2> QED BY <2>1 DEF Before
<1> DEFINE Precise(r, n) == r.id \in ParsedBy(ScanOrder[n], cutoff) \ Before(n, cutoff) /\ r = [id |-> r.id, via |-> ScanOrder[n]]
           Coarse(r) == r.id \notin Before(5, cutoff) /\ r = [id |-> r.id, via |-> "coarse"]
<1>2. \A r \in Points(cutoff) : (\E n \in 1..4 : Precise(r, n)) \/ Coarse(r)
  BY PointIs
<1>3. ASSUME NEW n \in 1..4, NEW m \in 1..4, Precise(p, n), Precise(q, m) PROVE n = m
  <2>1. ~(n < m) /\ ~(m < n)
    BY <1>1, <1>3
  <2> QED BY <2>1
<1>4. ASSUME NEW n \in 1..4, NEW r \in Points(cutoff), NEW u \in Points(cutoff), r.id = u.id PROVE ~(Precise(r, n) /\ Coarse(u))
  <2>1. n < 5 /\ 5 \in 1..5
    OBVIOUS
  <2> QED BY <1>1, <1>4, <2>1
<1> QED BY <1>2, <1>3, <1>4

LEMMA CurrentIs == ASSUME ViewsInv, NEW cutoff PROVE Fixes(cutoff) \subseteq Ids /\ Current(cutoff) \subseteq Ids /\ IsFiniteSet(Current(cutoff))
<1>1. Fixes(cutoff) \subseteq Ids /\ Current(cutoff) \subseteq Ids
  BY DEF Fixes, Current
<1> QED BY <1>1, IdsAre, FS_Subset

\* A fix among the newest is among the newest points, if there is a point of it.
LEMMA PointShown ==
  ASSUME ViewsInv, NEW cutoff, NEW i \in NewestIds(Fixes(cutoff), PosCap), NEW p \in Points(cutoff), p.id = i
  PROVE  p \in Overlay(cutoff)
<1> DEFINE A == {q \in Points(cutoff) : Later(q.id, i)}
           B == {j \in Fixes(cutoff) : Later(j, i)}
           f == [q \in A |-> q.id]
<1>1. IsFiniteSet(B) /\ Cardinality(B) < PosCap
  <2>1. B \subseteq Current(cutoff)
    BY DEF Fixes
  <2>2. IsFiniteSet(B)
    BY <2>1, CurrentIs, FS_Subset
  <2> QED BY <2>2 DEF NewestIds
<1>2. f \in Injection(A, B)
  <2>1. f \in [A -> B]
    BY PointsOfFixes
  <2>2. \A x, y \in A : f[x] = f[y] => x = y
    BY OnePoint
  <2> HIDE DEF f, A, B
  <2> QED BY <2>1, <2>2 DEF Injection, IsInjective
<1>3. IsFiniteSet(A) /\ Cardinality(A) <= Cardinality(B)
  <2> HIDE DEF A, B, f
  <2> QED BY <1>1, <1>2, FS_Injection
<1>4. Cardinality(A) \in Nat /\ Cardinality(B) \in Nat /\ PosCap \in Nat
  <2> HIDE DEF A, B
  <2> QED BY <1>1, <1>3, FS_CardinalityType, Vdl2ViewsAssumption
<1>5. Cardinality(A) < PosCap
  BY <1>1, <1>3, <1>4
<1>6. A = {q \in Points(cutoff) : Later(q.id, p.id)}
  OBVIOUS
<1> QED BY <1>5, <1>6 DEF Overlay

\* A row some scan gives a fix has a point that is not coarse.
LEMMA PrecisePoint ==
  ASSUME NEW cutoff, NEW i \in Before(5, cutoff)
  PROVE  \E p \in Points(cutoff) : p.id = i /\ p.via # "coarse"
<1> DEFINE N == {n \in 1..4 : i \in ParsedBy(ScanOrder[n], cutoff)}
<1>1. N # {} /\ N \subseteq Nat
  <2>1. 5 - 1 = 4
    OBVIOUS
  <2> QED BY <2>1 DEF Before
<1>2. PICK n \in N : \A m \in N : n <= m
  <2> HIDE DEF N
  <2> QED BY <1>1, SmallestOf
<1>3. i \notin Before(n, cutoff)
  <2>1. \A m \in 1..(n - 1) : m \in 1..4 /\ ~(n <= m)
    OBVIOUS
  <2> QED BY <1>2, <2>1 DEF Before
<1> DEFINE p == [id |-> i, via |-> ScanOrder[n]]
<1>4. p \in Points(cutoff)
  BY <1>2, <1>3, PointIs
<1>5. p.id = i /\ p.via # "coarse"
  BY ScansAre
<1> QED BY <1>4, <1>5

LEMMA NewestFixesOK == ViewsInv => NewestFixesShown
<1> SUFFICES ASSUME ViewsInv, view = "positions", NEW cutoff \in Times
             PROVE  LET shown == Overlay(cutoff)
                        fixes == {i \in Current(cutoff) : Said(i).parsed # {} \/ Said(i).coarse}
                        Reached(i) == \A s \in Said(i).parsed :
                            Cardinality({j \in Current(cutoff) : s \in Said(j).scans /\ Later(j, i)}) < ScanCap
                    IN  /\ \A p, q \in shown : p.id = q.id => p = q
                        /\ \A i \in NewestIds(fixes, PosCap) :
                              /\ Reached(i) => \E p \in shown : p.id = i /\ (p.via = "coarse" <=> Said(i).parsed = {})
                              /\ Said(i).coarse => \E p \in shown : p.id = i
  BY DEF NewestFixesShown
<1> DEFINE shown == Overlay(cutoff)
           Reached(i) == \A s \in Said(i).parsed :
              Cardinality({j \in Current(cutoff) : s \in Said(j).scans /\ Later(j, i)}) < ScanCap
<1>1. \A p, q \in shown : p.id = q.id => p = q
  BY OnePoint DEF Overlay
<1>2. ASSUME NEW i \in NewestIds(Fixes(cutoff), PosCap)
      PROVE  /\ Reached(i) => \E p \in shown : p.id = i /\ (p.via = "coarse" <=> Said(i).parsed = {})
             /\ Said(i).coarse => \E p \in shown : p.id = i
  <2>1. i \in Fixes(cutoff) /\ i \in Current(cutoff) /\ i \in Ids
    BY CurrentIs DEF NewestIds, Fixes
  <2>2. /\ Said(i) \in PositionReports /\ Said(i).parsed \subseteq Said(i).scans
        /\ Said(i).scans \subseteq ToSet(ScanOrder)
    BY <2>1, SaidIs, Vdl2ViewsAssumption DEF Reports
  <2>3. ASSUME i \in Before(5, cutoff) PROVE \E p \in shown : p.id = i /\ p.via # "coarse"
    <3>1. PICK p \in Points(cutoff) : p.id = i /\ p.via # "coarse"
      BY <2>3, PrecisePoint
    <3>2. p \in shown
      BY <3>1, PointShown
    <3> QED BY <3>1, <3>2
  <2>4. ASSUME Said(i).coarse, i \notin Before(5, cutoff) PROVE \E p \in shown : p.id = i /\ p.via = "coarse"
    <3> DEFINE A == {j \in {k \in Current(cutoff) : Said(k).coarse} : Later(j, i)}
               B == {j \in Fixes(cutoff) : Later(j, i)}
               p == [id |-> i, via |-> "coarse"]
    <3>1. A \subseteq B /\ B \subseteq Current(cutoff)
      BY DEF Fixes
    <3>2. IsFiniteSet(B) /\ Cardinality(B) < PosCap
      <4>1. IsFiniteSet(B)
        BY <3>1, CurrentIs, FS_Subset
      <4> QED BY <4>1, <1>2 DEF NewestIds
    <3> HIDE DEF A, B
    <3>3. Cardinality(A) <= Cardinality(B) /\ Cardinality(A) \in Nat /\ Cardinality(B) \in Nat
      BY <3>1, <3>2, FS_Subset, FS_CardinalityType
    <3>4. Cardinality(A) < PosCap
      BY <3>2, <3>3, Vdl2ViewsAssumption
    <3>5. i \in CoarseScan(cutoff)
      BY <2>1, <2>4, <3>4 DEF CoarseScan, NewestIds, A
    <3>6. p \in Points(cutoff) /\ p.id = i /\ p.via = "coarse"
      BY <2>4, <3>5, PointIs
    <3>7. p \in shown
      BY <3>6, PointShown
    <3> QED BY <3>6, <3>7
  <2>5. ASSUME Reached(i), Said(i).parsed # {} PROVE i \in Before(5, cutoff)
    <3>1. PICK s \in Said(i).parsed : TRUE
      BY <2>5
    <3>2. PICK n \in 1..4 : s = ScanOrder[n]
      BY <2>2, ScansAre
    <3>3. Cardinality({j \in Current(cutoff) : s \in Said(j).scans /\ Later(j, i)}) < ScanCap
      BY <2>5
    <3>4. {j \in {k \in Current(cutoff) : s \in Said(k).scans} : Later(j, i)}
            = {j \in Current(cutoff) : s \in Said(j).scans /\ Later(j, i)}
      OBVIOUS
    <3>5. i \in Scan(s, cutoff)
      BY <2>1, <2>2, <3>3, <3>4 DEF Scan, NewestIds
    <3>6. i \in ParsedBy(ScanOrder[n], cutoff)
      BY <3>2, <3>5 DEF ParsedBy
    <3>7. n \in 1..(5 - 1)
      OBVIOUS
    <3> QED BY <3>6, <3>7 DEF Before
  <2>6. ASSUME Said(i).parsed = {} PROVE i \notin Before(5, cutoff) /\ Said(i).coarse
    BY <2>1, <2>6, ParsedIs DEF Before, Fixes
  <2> HIDE DEF Reached, shown
  <2>7. Said(i).coarse => \E p \in shown : p.id = i
    BY <2>3, <2>4
  <2>8. Reached(i) => \E p \in shown : p.id = i /\ (p.via = "coarse" <=> Said(i).parsed = {})
    <3>1. CASE Said(i).parsed = {}
      BY <2>4, <2>6, <3>1
    <3>2. CASE Said(i).parsed # {}
      BY <2>3, <2>5, <3>2
    <3> QED BY <3>1, <3>2
  <2> QED BY <2>7, <2>8
<1> QED BY <1>1, <1>2 DEF Fixes

\* The overlay shows a row once and misses none of the newest fixes a scan reaches, nor a coarse
\* one among them (_compute_positions).
THEOREM NewestFixesShownAlways == ViewsSpec => []NewestFixesShown
BY NewestFixesOK, ViewsInvAlways, PTL

-----------------------------------------------------------------------------
(* Sums and ranks *)

\* The sizes of the parts of a finite set add up to its size.
LEMMA SumOfParts ==
  ASSUME NEW S, IsFiniteSet(S), NEW D, NEW at \in [S -> D], NEW counts,
         DOMAIN counts = D, \A n \in D : counts[n] = Cardinality({i \in S : at[i] = n})
  PROVE  SumOf(counts) = Cardinality(S)
<1> DEFINE part(n) == {i \in S : at[i] = n}
           number == [n \in D |-> CHOOSE b : b \in Bijection(part(n), 1..counts[n])]
           U == UNION {{n} \X (1..counts[n]) : n \in D}
           f == [i \in S |-> <<at[i], number[at[i]][i]>>]
<1>1. ASSUME NEW n \in D PROVE number[n] \in Bijection(part(n), 1..counts[n])
  <2>1. part(n) \subseteq S /\ counts[n] = Cardinality(part(n))
    OBVIOUS
  <2> HIDE DEF part
  <2>2. IsFiniteSet(part(n)) /\ counts[n] \in Nat
    BY <2>1, FS_Subset, FS_CardinalityType
  <2> DEFINE m == counts[n]
  <2>6. IsFiniteSet(1..m) /\ Cardinality(1..m) = m
    <3>1. m \in Nat /\ m \in Int /\ 1 \in Int
      BY <2>2
    <3> HIDE DEF m
    <3> QED BY <3>1, FS_Interval
  <2>3. ExistsBijection(part(n), 1..counts[n])
    BY <2>1, <2>2, <2>6, FS_SameCardinalityBij
  <2>4. \E b : b \in Bijection(part(n), 1..counts[n])
    BY <2>3 DEF ExistsBijection
  <2>5. (CHOOSE b : b \in Bijection(part(n), 1..counts[n])) \in Bijection(part(n), 1..counts[n])
    BY <2>4, Zenon
  <2> QED BY <2>5
<1> HIDE DEF number
<1>2. \A n \in D : \A i \in part(n) : number[n][i] \in 1..counts[n]
  BY <1>1 DEF Bijection, Injection
<1>3. f \in [S -> U]
  <2> SUFFICES ASSUME NEW i \in S PROVE <<at[i], number[at[i]][i]>> \in U
    OBVIOUS
  <2>1. at[i] \in D /\ number[at[i]][i] \in 1..counts[at[i]]
    BY <1>2
  <2>2. <<at[i], number[at[i]][i]>> \in {at[i]} \X (1..counts[at[i]])
    BY <2>1
  <2> QED BY <2>1, <2>2
<1>4. \A i, j \in S : f[i] = f[j] => i = j
  <2> TAKE i, j \in S
  <2> HAVE f[i] = f[j]
  <2>1. at[i] = at[j] /\ number[at[i]][i] = number[at[i]][j]
    OBVIOUS
  <2>2. i \in part(at[i]) /\ j \in part(at[i]) /\ at[i] \in D
    BY <2>1
  <2> QED BY <1>1, <2>1, <2>2 DEF Bijection, Injection, IsInjective
<1>5. \A u \in U : \E i \in S : f[i] = u
  <2> TAKE u \in U
  <2>1. PICK n \in D : u \in {n} \X (1..counts[n])
    OBVIOUS
  <2>2. PICK m \in 1..counts[n] : u = <<n, m>>
    BY <2>1
  <2>3. PICK i \in part(n) : number[n][i] = m
    BY <1>1 DEF Bijection, Surjection
  <2> QED BY <2>2, <2>3
<1>6. ExistsBijection(S, U)
  <2> HIDE DEF f, U
  <2>1. f \in Bijection(S, U)
    BY <1>3, <1>4, <1>5 DEF Bijection, Injection, IsInjective, Surjection
  <2> QED BY <2>1 DEF ExistsBijection
<1>7. Cardinality(U) = Cardinality(S)
  <2> HIDE DEF U
  <2> QED BY <1>6, FS_Bijection
<1> QED BY <1>7 DEF SumOf

StrictOrder(R, T) ==
    /\ \A x \in T : <<x, x>> \notin R
    /\ \A x, y, z \in T : <<x, y>> \in R /\ <<y, z>> \in R => <<x, z>> \in R
    /\ \A x, y \in T : x = y \/ <<x, y>> \in R \/ <<y, x>> \in R

\* A finite set has a first element in an order.
LEMMA FirstOf ==
  ASSUME NEW T, IsFiniteSet(T), T # {}, NEW R, StrictOrder(R, T)
  PROVE  \E x \in T : \A y \in T : y # x => <<x, y>> \in R
<1> DEFINE before(x) == {y \in T : <<y, x>> \in R}
           B == {before(x) : x \in T}
<1>1. B \subseteq FiniteSubsetsOf(T) /\ B # {}
  <2>1. \A x \in T : before(x) \subseteq T /\ IsFiniteSet(before(x))
    BY FS_Subset
  <2> HIDE DEF before
  <2> QED BY <2>1 DEF FiniteSubsetsOf
<1>2. PICK s \in B : \A t \in B : <<t, s>> \notin StrictSubsetOrdering(T)
  <2> HIDE DEF B
  <2> QED BY <1>1, WFMin, FS_StrictSubsetOrderingWellFounded
<1>3. PICK x \in T : s = before(x)
  BY <1>2
<1>4. ASSUME NEW y \in T, <<y, x>> \in R PROVE FALSE
  <2>1. before(y) \subseteq before(x) /\ y \in before(x) /\ y \notin before(y)
    BY <1>4 DEF StrictOrder
  <2>2. <<before(y), s>> \in StrictSubsetOrdering(T)
    BY <1>3, <2>1 DEF StrictSubsetOrdering
  <2> QED BY <1>2, <2>2
<1> QED BY <1>4 DEF StrictOrder

\* The elements with fewer than k before them are k, if one has more, and all before that one.
LEMMA FirstElements ==
  ASSUME NEW T, IsFiniteSet(T), NEW R, StrictOrder(R, T), NEW k \in Nat,
         NEW c \in T, ~(Cardinality({y \in T : <<y, c>> \in R}) < k)
  PROVE  LET top == {x \in T : Cardinality({y \in T : <<y, x>> \in R}) < k}
         IN  Cardinality(top) = k /\ \A x \in top : <<x, c>> \in R
<1> DEFINE before(x) == {y \in T : <<y, x>> \in R}
           top == {x \in T : Cardinality(before(x)) < k}
           rest == T \ top
<1>1. \A x \in T : IsFiniteSet(before(x)) /\ Cardinality(before(x)) \in Nat
  BY FS_Subset, FS_CardinalityType
<1>2. IsFiniteSet(top) /\ Cardinality(top) \in Nat /\ IsFiniteSet(rest)
  BY FS_Subset, FS_CardinalityType
<1>3. ASSUME NEW x \in top, NEW y \in rest PROVE <<x, y>> \in R
  <2>1. x # y /\ x \in T /\ y \in T
    OBVIOUS
  <2>2. ASSUME <<y, x>> \in R PROVE FALSE
    <3>1. before(y) \subseteq before(x)
      BY <2>1, <2>2 DEF StrictOrder
    <3>2. Cardinality(before(x)) < k /\ ~(Cardinality(before(y)) < k)
      OBVIOUS
    <3> HIDE DEF before, top, rest
    <3>3. Cardinality(before(y)) <= Cardinality(before(x))
      BY <1>1, <2>1, <3>1, FS_Subset
    <3> QED BY <1>1, <2>1, <3>2, <3>3
  <2> QED BY <2>1, <2>2 DEF StrictOrder
<1>4. c \in rest
  OBVIOUS
<1>5. PICK l \in rest : \A y \in rest : y # l => <<l, y>> \in R
  <2>1. StrictOrder(R, rest)
    BY DEF StrictOrder
  <2> HIDE DEF rest
  <2> QED BY <1>2, <1>4, <2>1, FirstOf
<1>6. before(l) = top
  <2>1. \A y \in rest : <<y, l>> \notin R
    BY <1>5 DEF StrictOrder
  <2> QED BY <1>3, <2>1
<1>7. Cardinality(top) >= k
  <2>1. ~(Cardinality(before(l)) < k)
    OBVIOUS
  <2> HIDE DEF before, top, rest
  <2>2. ~(Cardinality(top) < k)
    BY <1>6, <2>1
  <2> QED BY <1>2, <2>2
<1>8. Cardinality(top) <= k
  <2>1. CASE top = {}
    <3>1. Cardinality(top) = 0
      BY <2>1, FS_EmptySet
    <3> QED BY <3>1
  <2>2. CASE top # {}
    <3> DEFINE Q == {p \in T \X T : <<p[2], p[1]>> \in R}
    <3>1. \A x, y \in T : <<x, y>> \in Q <=> <<y, x>> \in R
      OBVIOUS
    <3> HIDE DEF Q
    <3>2. StrictOrder(Q, top)
      <4>1. top \subseteq T
        OBVIOUS
      <4> HIDE DEF top
      <4> QED BY <3>1, <4>1 DEF StrictOrder
    <3>3. PICK m \in top : \A y \in top : y # m => <<m, y>> \in Q
      <4> HIDE DEF top
      <4>1. \E x \in top : \A y \in top : y # x => <<x, y>> \in Q
        BY <1>2, <2>2, <3>2, FirstOf
      <4> QED BY <4>1
    <3>4. top \subseteq before(m) \cup {m}
      BY <3>1, <3>3
    <3>5. Cardinality(before(m)) < k /\ m \in T
      OBVIOUS
    <3> DEFINE M == before(m)
               V == M \cup {m}
    <3>6. IsFiniteSet(M) /\ Cardinality(M) \in Nat /\ Cardinality(M) < k /\ top \subseteq V
      <4> HIDE DEF before, top
      <4> QED BY <1>1, <3>4, <3>5
    <3> HIDE DEF before, top, M
    <3>7. IsFiniteSet(V) /\ (Cardinality(V) = Cardinality(M) \/ Cardinality(V) = Cardinality(M) + 1)
      BY <3>6, FS_AddElement
    <3>8. top \subseteq V
      BY <3>6
    <3> HIDE DEF V
    <3>9. Cardinality(top) <= Cardinality(V)
      BY <3>7, <3>8, FS_Subset
    <3> QED BY <1>2, <3>6, <3>7, <3>9
  <2> QED BY <2>1, <2>2
<1>9. Cardinality(top) = k
  BY <1>2, <1>7, <1>8
<1> QED BY <1>3, <1>4, <1>9

-----------------------------------------------------------------------------
(* Rates and series *)

LEMMA MaxOfTwo == ASSUME NEW a \in Nat, NEW b \in Nat PROVE Max({a, b}) \in {a, b} /\ Max({a, b}) >= a /\ Max({a, b}) >= b
<1>1. \E x \in {a, b} : \A y \in {a, b} : x >= y
  <2>1. CASE a >= b
    BY <2>1
  <2>2. CASE b >= a
    BY <2>2
  <2> QED BY <2>1, <2>2
<1>2. Max({a, b}) \in {a, b} /\ \A y \in {a, b} : Max({a, b}) >= y
  BY <1>1 DEF Max
<1> QED BY <1>2

LEMMA StampsAre == ASSUME ViewsInv PROVE Times \subseteq Nat /\ (\A i \in DOMAIN messages : messages[i].ts \in Nat) /\ Ids \subseteq DOMAIN messages
<1>1. \A i \in DOMAIN messages : messages[i] \in MessageRow
  BY ElementOfSeq DEF ViewsInv
<1> QED BY <1>1, Vdl2ViewsAssumption DEF ViewsInv, MessageRow, Times, Ids

\* A slot of a rate is the age of its messages, and the window has no other ages.
LEMMA RatesOK == ViewsInv => RecentRates
<1> SUFFICES ASSUME ViewsInv, view = "series", NEW now \in 0..(MaxTs[view] + Unit * Slots), \A i \in Ids : messages[i].ts <= now
             PROVE  /\ SumOf(Rates(now)) = Cardinality({i \in Ids : messages[i].ts > now - Unit * Slots})
                    /\ Rates(now)[Slots] = Cardinality({i \in Ids : messages[i].ts > now - Unit})
  BY DEF RecentRates
<1> DEFINE since == now - Unit * Slots
           age(i) == now - messages[i].ts
           ago(i) == age(i) \div Unit
           S == {i \in Ids : messages[i].ts > since}
           at == [i \in S |-> Slots - ago(i)]
           counts == [n \in 1..Slots |-> Cardinality({i \in Ids : messages[i].ts >= since /\ ago(i) = Slots - n})]
<1>1. Unit \in Nat \ {0} /\ Slots \in Nat \ {0} /\ Unit * Slots \in Nat /\ Unit <= Unit * Slots /\ now \in Nat
  BY StampsAre, Vdl2ViewsAssumption
<1>2. Rates(now) = counts
  BY DEF Rates
<1>3. ASSUME NEW i \in Ids
      PROVE  /\ age(i) \in Nat /\ ago(i) \in Nat
             /\ messages[i].ts > since <=> age(i) < Unit * Slots
             /\ age(i) < Unit * Slots => ago(i) < Slots
             /\ messages[i].ts >= since /\ ago(i) < Slots => messages[i].ts > since
             /\ ago(i) = 0 <=> age(i) < Unit
  <2>1. messages[i].ts \in Nat /\ messages[i].ts <= now
    BY StampsAre
  <2>2. age(i) \in Nat
    BY <1>1, <2>1
  <2> DEFINE a == age(i)
             m == Unit * Slots
  <2>3. messages[i].ts > since <=> a < m
    BY <1>1, <2>1
  <2>4. messages[i].ts >= since => a <= m
    BY <1>1, <2>1
  <2>5. a \in Nat /\ m = Unit * Slots
    BY <2>2
  <2> HIDE DEF a
  <2>6. a \div Unit \in Nat /\ (a \div Unit = 0 <=> a < Unit)
    BY <1>1, <2>5
  <2>7. a < Unit * Slots => a \div Unit < Slots
    BY <1>1, <2>5
  <2>8. a = Unit * Slots => a \div Unit = Slots
    BY <1>1, <2>5
  <2>9. a <= m /\ a \div Unit < Slots => a < m
    <3> HIDE DEF m
    <3>1. m \in Nat /\ (a = m => a \div Unit = Slots)
      BY <1>1, <2>8 DEF m
    <3> QED BY <1>1, <2>5, <3>1
  <2> QED BY <2>2, <2>3, <2>4, <2>6, <2>7, <2>9 DEF a
<1>4. IsFiniteSet(S)
  BY IdsAre, FS_Subset
<1>5. at \in [S -> 1..Slots]
  <2>1. \A i \in S : ago(i) \in Nat /\ ago(i) < Slots
    BY <1>3
  <2> HIDE DEF ago, S
  <2> QED BY <1>1, <2>1
<1>6. \A n \in 1..Slots : counts[n] = Cardinality({i \in S : at[i] = n})
  <2> TAKE n \in 1..Slots
  <2>1. \A i \in Ids : messages[i].ts >= since /\ ago(i) = Slots - n <=> messages[i].ts > since /\ Slots - ago(i) = n
    <3> TAKE i \in Ids
    <3>1. /\ ago(i) \in Nat /\ messages[i].ts \in Nat /\ since \in Int
          /\ messages[i].ts >= since /\ ago(i) < Slots => messages[i].ts > since
      BY <1>1, <1>3, StampsAre
    <3> HIDE DEF ago, since
    <3> QED BY <1>1, <3>1
  <2>2. {i \in Ids : messages[i].ts >= since /\ ago(i) = Slots - n} = {i \in S : at[i] = n}
    <3> HIDE DEF ago, since
    <3> QED BY <2>1
  <2> QED BY <2>2
<1>7. SumOf(counts) = Cardinality(S)
  <2>1. DOMAIN counts = 1..Slots /\ IsFiniteSet(1..Slots)
    BY <1>1, FS_Interval
  <2> DEFINE D == 1..Slots
  <2>2. DOMAIN counts = D /\ at \in [S -> D] /\ \A n \in D : counts[n] = Cardinality({i \in S : at[i] = n})
    BY <1>5, <1>6, <2>1
  <2> HIDE DEF counts, S, at, D
  <2> QED BY <1>4, <2>2, SumOfParts
<1>8. counts[Slots] = Cardinality({i \in Ids : messages[i].ts > now - Unit})
  <2>1. Slots \in 1..Slots /\ Slots - Slots = 0
    BY <1>1
  <2>2. \A i \in Ids : messages[i].ts >= since /\ ago(i) = Slots - Slots <=> messages[i].ts > now - Unit
    <3> TAKE i \in Ids
    <3>1. messages[i].ts \in Nat /\ (ago(i) = 0 <=> age(i) < Unit) /\ since <= now - Unit
      BY <1>1, <1>3, StampsAre
    <3>2. age(i) < Unit <=> messages[i].ts > now - Unit
      BY <1>1, <3>1
    <3> HIDE DEF ago, age
    <3> QED BY <1>1, <2>1, <3>1, <3>2
  <2>3. {i \in Ids : messages[i].ts >= since /\ ago(i) = Slots - Slots} = {i \in Ids : messages[i].ts > now - Unit}
    <3> HIDE DEF ago, since
    <3> QED BY <2>2
  <2>4. counts[Slots] = Cardinality({i \in Ids : messages[i].ts >= since /\ ago(i) = Slots - Slots})
    BY <2>1
  <2> QED BY <2>3, <2>4
<1> QED BY <1>2, <1>7, <1>8

Slot(i, from, to) == (messages[i].ts - from) \div Width[to - from]

LEMMA ThereIs == ASSUME ViewsInv, NEW from, NEW to PROVE There(from, to) \subseteq DOMAIN messages /\ IsFiniteSet(There(from, to))
<1>1. DOMAIN messages = 1..Len(messages) /\ Len(messages) \in Int /\ 1 \in Int
  BY DEF ViewsInv
<1>2. IsFiniteSet(DOMAIN messages) /\ There(from, to) \subseteq DOMAIN messages
  BY <1>1, FS_Interval DEF There
<1> QED BY <1>2, FS_Subset

LEMMA SlotIs ==
  ASSUME ViewsInv, NEW from \in Nat, NEW to \in Nat, from < to, Width[to - from] \in Nat \ {0}, NEW i \in There(from, to)
  PROVE  Slot(i, from, to) + 1 \in 1..Buckets(from, to)
<1> DEFINE len == to - from
           a == messages[i].ts - from
           W == Width[len]
           b == (len + W - 1) \div W
<1>1. a \in Nat /\ len \in Nat /\ a < len /\ W \in Nat \ {0}
  BY StampsAre, ThereIs DEF There
<1>2. Buckets(from, to) = Max({1, b}) /\ Slot(i, from, to) = a \div W
  BY DEF Buckets, Slot
<1> HIDE DEF a, W, len
<1>3. a \div W \in Nat /\ b \in Nat /\ a \div W < b
  BY <1>1
<1> HIDE DEF b
<1>4. Max({1, b}) \in {1, b} /\ Max({1, b}) >= b
  BY <1>3, MaxOfTwo
<1> QED BY <1>2, <1>3, <1>4

\* Every row of the window is in one bucket.
LEMMA FillAddsUp ==
  ASSUME ViewsInv, NEW from \in Nat, NEW to \in Nat, from < to, Width[to - from] \in Nat \ {0},
         NEW ids, ids \subseteq There(from, to)
  PROVE  SumOf(Fill(ids, from, to)) = Cardinality(ids)
<1> DEFINE D == 1..Buckets(from, to)
           at == [i \in ids |-> Slot(i, from, to) + 1]
           counts == Fill(ids, from, to)
<1>1. at \in [ids -> D]
  BY SlotIs
<1>2. DOMAIN counts = D /\ \A n \in D : counts[n] = Cardinality({i \in ids : at[i] = n})
  <2>1. \A i \in ids : Slot(i, from, to) + 1 \in D
    BY SlotIs
  <2>2. \A i \in ids : Slot(i, from, to) \in Int
    <3> TAKE i \in ids
    <3>1. messages[i].ts \in Nat
      BY StampsAre, ThereIs
    <3>2. messages[i].ts - from \in Int
      BY <3>1
    <3> QED BY <3>2 DEF Slot
  <2>3. D \subseteq Int
    OBVIOUS
  <2>4. \A n \in D : {i \in ids : Slot(i, from, to) = n - 1} = {i \in ids : at[i] = n}
    <3> TAKE n \in D
    <3>1. \A i \in ids : Slot(i, from, to) = n - 1 <=> Slot(i, from, to) + 1 = n
      <4> HIDE DEF D
      <4> QED BY <2>2, <2>3
    <3> HIDE DEF D
    <3> QED BY <3>1
  <2> QED BY <2>4 DEF Fill, Slot
<1>3. IsFiniteSet(ids)
  BY ThereIs, FS_Subset
<1> HIDE DEF at, counts, D
<1> QED BY <1>1, <1>2, <1>3, SumOfParts DEF counts

Channels(rows) == {Channel(i) : i \in rows} \ {None}
Heards(f, rows) == Cardinality(Heard(f, rows))

\* The pairs of frequencies of which the first is listed before the second.
Busier(rows) == {p \in Channels(rows) \X Channels(rows) :
    \/ Heards(p[1], rows) > Heards(p[2], rows)
    \/ Heards(p[1], rows) = Heards(p[2], rows) /\ p[1] < p[2]}

\* What is heard in fewer rows is not more.
LEMMA HeardsGrow ==
  ASSUME ViewsInv, NEW R, R \subseteq DOMAIN messages, NEW S, S \subseteq R, NEW f
  PROVE  Heards(f, S) \in Nat /\ Heards(f, R) \in Nat /\ Heards(f, S) <= Heards(f, R)
<1>1. IsFiniteSet(DOMAIN messages)
  <2>1. DOMAIN messages = 1..Len(messages) /\ Len(messages) \in Int /\ 1 \in Int
    BY DEF ViewsInv
  <2> QED BY <2>1, FS_Interval
<1>2. Heard(f, R) \subseteq DOMAIN messages /\ Heard(f, S) \subseteq Heard(f, R)
  BY DEF Heard
<1>3. IsFiniteSet(Heard(f, R))
  BY <1>1, <1>2, FS_Subset
<1> QED BY <1>2, <1>3, FS_Subset, FS_CardinalityType DEF Heards

LEMMA ChannelsAre ==
  ASSUME ViewsInv, view = "series", NEW I, I \subseteq DOMAIN messages
  PROVE  /\ Channels(I) \subseteq Nat /\ IsFiniteSet(Channels(I))
         /\ StrictOrder(Busier(I), Channels(I))
         /\ TopOf(I) = {f \in Channels(I) : Cardinality({g \in Channels(I) : <<g, f>> \in Busier(I)}) < TopFreqs}
<1> DEFINE C == Channels(I)
           R == Busier(I)
           all == {Channel(i) : i \in I}
<1>1. C \subseteq Nat
  <2>1. \A i \in I : Channel(i) \in Nat \cup {None}
    <3> TAKE i \in I
    <3>1. Said(i) \in SeriesReports
      <4>1. messages[i] \in MessageRow
        BY ElementOfSeq DEF ViewsInv
      <4> QED BY <4>1 DEF MessageRow, Said, Reports
    <3> QED BY <3>1, Vdl2ViewsAssumption DEF Channel
  <2> QED BY <2>1 DEF Channels
<1>2. IsFiniteSet(C)
  <2> DEFINE f == [i \in I |-> Channel(i)]
  <2>1. f \in Surjection(I, all)
    <3>1. f \in [I -> all] /\ \A u \in all : \E i \in I : f[i] = u
      OBVIOUS
    <3> HIDE DEF f, all
    <3> QED BY <3>1 DEF Surjection
  <2>2. IsFiniteSet(all)
    <3>1. IsFiniteSet(I)
      <4>1. DOMAIN messages = 1..Len(messages) /\ Len(messages) \in Int /\ 1 \in Int
        BY DEF ViewsInv
      <4> QED BY <4>1, FS_Interval, FS_Subset
    <3> HIDE DEF f, all
    <3> QED BY <2>1, <3>1, FS_Surjection
  <2>3. C \subseteq all
    BY DEF Channels
  <2> QED BY <2>2, <2>3, FS_Subset
<1>3. \A f \in C : Heards(f, I) \in Nat
  BY HeardsGrow
<1>4. \A f, g \in C : <<f, g>> \in R <=> \/ Heards(f, I) > Heards(g, I)
                                         \/ Heards(f, I) = Heards(g, I) /\ f < g
  BY DEF Busier
<1>5. StrictOrder(R, C)
  <2> HIDE DEF R, C
  <2>1. \A x \in C : <<x, x>> \notin R
    BY <1>1, <1>3, <1>4
  <2>2. \A x, y, z \in C : <<x, y>> \in R /\ <<y, z>> \in R => <<x, z>> \in R
    BY <1>1, <1>3, <1>4
  <2>3. ASSUME NEW x \in C, NEW y \in C PROVE x = y \/ <<x, y>> \in R \/ <<y, x>> \in R
    <3> DEFINE a == Heards(x, I)
               b == Heards(y, I)
    <3>1. x \in Nat /\ y \in Nat /\ a \in Nat /\ b \in Nat
      BY <1>1, <1>3
    <3>2. x = y \/ a > b \/ (a = b /\ x < y) \/ b > a \/ (b = a /\ y < x)
      <4> HIDE DEF a, b
      <4> QED BY <3>1
    <3> QED BY <1>4, <3>2
  <2> QED BY <2>1, <2>2, <2>3 DEF StrictOrder
<1>6. TopOf(I) = {f \in C : Cardinality({g \in C : <<g, f>> \in R}) < TopFreqs}
  <2> DEFINE busier(f, g) == \/ Heards(f, I) > Heards(g, I)
                             \/ Heards(f, I) = Heards(g, I) /\ f < g
  <2>1. TopOf(I) = {f \in C : Cardinality({g \in C : busier(g, f)}) < TopFreqs}
    BY DEF TopOf, Channels, Heards
  <2>2. \A f \in C : {g \in C : busier(g, f)} = {g \in C : <<g, f>> \in R}
    <3> HIDE DEF R, C
    <3> QED BY <1>4
  <2> HIDE DEF busier, R, C
  <2> QED BY <2>1, <2>2
<1> QED BY <1>1, <1>2, <1>5, <1>6

\* A frequency left out is less busy than those listed, which are as many as may be.
LEMMA LeftOut ==
  ASSUME ViewsInv, view = "series", NEW I, I \subseteq DOMAIN messages, NEW c \in Channels(I), c \notin TopOf(I)
  PROVE  Cardinality(TopOf(I)) = TopFreqs /\ \A f \in TopOf(I) : Heards(f, I) >= Heards(c, I)
<1> DEFINE C == Channels(I)
           R == Busier(I)
           top == {f \in C : Cardinality({g \in C : <<g, f>> \in R}) < TopFreqs}
<1>1. TopOf(I) = top /\ IsFiniteSet(C) /\ StrictOrder(R, C) /\ TopFreqs \in Nat
  BY ChannelsAre, Vdl2ViewsAssumption
<1>2. c \in C /\ ~(Cardinality({g \in C : <<g, c>> \in R}) < TopFreqs)
  BY <1>1
<1>3. Cardinality(top) = TopFreqs /\ \A f \in top : <<f, c>> \in R
  <2> HIDE DEF C, R
  <2> QED BY <1>1, <1>2, FirstElements
<1>4. \A f \in top : Heards(f, I) >= Heards(c, I)
  <2> TAKE f \in top
  <2>1. <<f, c>> \in R
    BY <1>3
  <2>2. Heards(f, I) > Heards(c, I) \/ Heards(f, I) = Heards(c, I)
    BY <2>1 DEF Busier
  <2>3. \A g \in C : Heards(g, I) \in Nat
    BY HeardsGrow
  <2> QED BY <1>2, <2>2, <2>3
<1> QED BY <1>1, <1>3, <1>4

\* The rows of a bucket, and what the columns say of it.
Slotted(n, rows, from, to) == {i \in rows : Slot(i, from, to) = n - 1}
ColumnsAt(n, rows, top, from, to) == [f \in top |-> Fill(Heard(f, rows), from, to)[n]]

\* The columns of a bucket count rows of the bucket, each once.
LEMMA BucketOfColumns ==
  ASSUME ViewsInv, NEW from, NEW to, NEW I, I \subseteq There(from, to), NEW top, NEW n \in 1..Buckets(from, to)
  PROVE  /\ SumOf(ColumnsAt(n, I, top, from, to)) \in Nat
         /\ SumOf(ColumnsAt(n, I, top, from, to)) <= Cardinality(Slotted(n, I, from, to))
<1> DEFINE B == Slotted(n, I, from, to)
           S == {i \in B : Channel(i) \in top}
           at == [i \in S |-> Channel(i)]
           counts == ColumnsAt(n, I, top, from, to)
<1>1. IsFiniteSet(B) /\ IsFiniteSet(S) /\ Cardinality(S) <= Cardinality(B)
  <2>1. IsFiniteSet(B)
    <3>1. B \subseteq There(from, to)
      BY DEF Slotted
    <3> QED BY <3>1, ThereIs, FS_Subset
  <2>2. S \subseteq B
    OBVIOUS
  <2> HIDE DEF S, B
  <2> QED BY <2>1, <2>2, FS_Subset
<1>2. at \in [S -> top]
  OBVIOUS
<1>3. DOMAIN counts = top
  BY DEF ColumnsAt
<1>4. \A f \in top : counts[f] = Cardinality({i \in S : at[i] = f})
  <2> TAKE f \in top
  <2>1. counts[f] = Cardinality({i \in Heard(f, I) : Slot(i, from, to) = n - 1})
    BY DEF ColumnsAt, Fill, Slot
  <2>2. {i \in Heard(f, I) : Slot(i, from, to) = n - 1} = {i \in S : at[i] = f}
    BY DEF Heard, Slotted
  <2> QED BY <2>1, <2>2
<1> HIDE DEF S, at, counts, B
<1>5. SumOf(counts) = Cardinality(S)
  BY <1>1, <1>2, <1>3, <1>4, SumOfParts
<1>6. Cardinality(S) \in Nat
  BY <1>1, FS_CardinalityType
<1> QED BY <1>1, <1>5, <1>6 DEF counts, B

LEMMA SeriesOK == ViewsInv => SeriesAddsUp
<1> SUFFICES ASSUME ViewsInv, series # None, Len(series.reads) = Selects PROVE
    LET s == Series(series)
        Between(n, low, high) == Cardinality(low) <= n /\ n <= Cardinality(high)
        changed == Ever(series) \ Kept(series)
        listed == DOMAIN s.columns
    IN  /\ Between(s.total, Kept(series), Ever(series))
        /\ Between(SumOf(s.rate), Kept(series), Ever(series))
        /\ \A f \in listed : Between(SumOf(s.columns[f]), Heard(f, Kept(series)), Heard(f, Ever(series)))
        /\ \A n \in DOMAIN s.rate :
              SumOf([f \in listed |-> s.columns[f][n]]) <= s.rate[n] + Cardinality(changed)
        /\ \A i \in Kept(series) : Channel(i) \notin listed \cup {None} =>
              /\ Cardinality(listed) = TopFreqs
              /\ \A f \in listed : Cardinality(Heard(f, Ever(series))) >= Cardinality(Heard(Channel(i), Kept(series)))
  BY DEF SeriesAddsUp
<1> DEFINE from == series.from
           to == series.to
           s == Series(series)
           K == Kept(series)
           E == Ever(series)
           r1 == series.reads[1]
           r2 == series.reads[2]
           r3 == series.reads[3]
           r4 == series.reads[4]
           top == TopOf(r2)
<1>1. view = "series" /\ from \in Nat /\ to \in Nat /\ from < to /\ to <= MaxTs.series + 1
  BY DEF ViewsInv, ReadsInv
<1>2. Width[to - from] \in Nat \ {0}
  <2>1. MaxTs.series \in Nat
    BY Vdl2ViewsAssumption DEF Reports
  <2>2. to - from \in 1..(MaxTs.series + 1)
    BY <1>1, <2>1
  <2> QED BY <2>2, Vdl2ViewsAssumption
<1>3. E \subseteq There(from, to)
  BY EverIs
<1>4. \A k \in 1..4 : K \subseteq series.reads[k] /\ series.reads[k] \subseteq E
  BY DEF ViewsInv, ReadsInv, Selects
<1>5. /\ s.total = Cardinality(r1) /\ s.rate = Fill(r3, from, to)
      /\ DOMAIN s.columns = top /\ \A f \in top : s.columns[f] = Fill(Heard(f, r4), from, to)
  BY DEF Series
<1>6. /\ K \subseteq r1 /\ r1 \subseteq E /\ K \subseteq r2 /\ r2 \subseteq E
      /\ K \subseteq r3 /\ r3 \subseteq E /\ K \subseteq r4 /\ r4 \subseteq E
  BY <1>4
<1> HIDE DEF from, to, s, K, E, r1, r2, r3, r4, top
<1>7. E \subseteq DOMAIN messages /\ IsFiniteSet(E)
  BY <1>3, ThereIs, FS_Subset
<1>8. ASSUME NEW R, K \subseteq R, R \subseteq E
      PROVE  IsFiniteSet(R) /\ Cardinality(R) \in Nat /\ Cardinality(K) <= Cardinality(R) /\ Cardinality(R) <= Cardinality(E)
  BY <1>7, <1>8, FS_Subset, FS_CardinalityType
<1>9. SumOf(s.rate) = Cardinality(r3)
  <2>1. r3 \subseteq There(from, to)
    BY <1>3, <1>6
  <2> QED BY <1>1, <1>2, <1>5, <2>1, FillAddsUp
<1>10. ASSUME NEW f \in top
       PROVE  Cardinality(Heard(f, K)) <= SumOf(s.columns[f]) /\ SumOf(s.columns[f]) <= Cardinality(Heard(f, E))
  <2>1. Heard(f, r4) \subseteq There(from, to)
    BY <1>3, <1>6 DEF Heard
  <2>2. SumOf(s.columns[f]) = Heards(f, r4)
    BY <1>1, <1>2, <1>5, <2>1, FillAddsUp DEF Heards
  <2>3. Heards(f, K) <= Heards(f, r4) /\ Heards(f, r4) <= Heards(f, E)
    <3>1. r4 \subseteq DOMAIN messages
      BY <1>6, <1>7
    <3> QED BY <1>6, <1>7, <3>1, HeardsGrow
  <2> QED BY <2>2, <2>3 DEF Heards
<1>11. ASSUME NEW n \in DOMAIN s.rate
       PROVE  SumOf([f \in top |-> s.columns[f][n]]) <= s.rate[n] + Cardinality(E \ K)
  <2> DEFINE B == Slotted(n, r4, from, to)
             A == Slotted(n, r3, from, to)
             D == E \ K
             counts == [f \in top |-> s.columns[f][n]]
  <2>1. n \in 1..Buckets(from, to) /\ s.rate[n] = Cardinality(A)
    BY <1>5 DEF Fill, Slot, Slotted
  <2>2. r4 \subseteq There(from, to)
    BY <1>3, <1>6
  <2>3. SumOf(counts) \in Nat /\ SumOf(counts) <= Cardinality(B)
    <3>1. counts = ColumnsAt(n, r4, top, from, to)
      BY <1>5 DEF ColumnsAt
    <3> HIDE DEF counts
    <3> QED BY <2>1, <2>2, <3>1, BucketOfColumns
  <2>5. A \subseteq E /\ B \subseteq A \cup D /\ D \subseteq E /\ B \subseteq E
    BY <1>6 DEF Slotted
  <2> DEFINE U == A \cup D
  <2> HIDE DEF A, B, D, counts
  <2>6. IsFiniteSet(A) /\ IsFiniteSet(B) /\ IsFiniteSet(D)
    BY <1>7, <2>5, FS_Subset
  <2>7. /\ IsFiniteSet(U) /\ IsFiniteSet(A \cap D)
        /\ Cardinality(U) = Cardinality(A) + Cardinality(D) - Cardinality(A \cap D)
    <3>1. A \cap D \subseteq A
      OBVIOUS
    <3> QED BY <2>6, <3>1, FS_Union, FS_Subset
  <2>8. Cardinality(B) <= Cardinality(U)
    <3>1. B \subseteq U
      BY <2>5
    <3> HIDE DEF U
    <3> QED BY <2>7, <3>1, FS_Subset
  <2>9. Cardinality(A) \in Nat /\ Cardinality(D) \in Nat /\ Cardinality(A \cap D) \in Nat /\ Cardinality(B) \in Nat
    BY <2>6, <2>7, FS_CardinalityType
  <2>10. Cardinality(B) <= Cardinality(A) + Cardinality(D)
    BY <2>7, <2>8, <2>9
  <2>11. SumOf(counts) <= s.rate[n] + Cardinality(D)
    BY <2>1, <2>3, <2>9, <2>10 DEF A
  <2> QED BY <2>11 DEF D, counts
<1>12. ASSUME NEW i \in K, Channel(i) \notin top \cup {None}
       PROVE  /\ Cardinality(top) = TopFreqs
              /\ \A f \in top : Cardinality(Heard(f, E)) >= Cardinality(Heard(Channel(i), K))
  <2>1. Channel(i) \in Channels(r2) /\ r2 \subseteq DOMAIN messages
    BY <1>6, <1>7, <1>12 DEF Channels
  <2>2. Cardinality(top) = TopFreqs /\ \A f \in top : Heards(f, r2) >= Heards(Channel(i), r2)
    BY <1>1, <1>12, <2>1, LeftOut DEF top
  <2>3. \A f : /\ Heards(f, K) \in Nat /\ Heards(f, r2) \in Nat /\ Heards(f, E) \in Nat
               /\ Heards(f, K) <= Heards(f, r2) /\ Heards(f, r2) <= Heards(f, E)
    BY <1>6, <1>7, <2>1, HeardsGrow
  <2>4. \A f \in top : Heards(f, E) >= Heards(Channel(i), K)
    BY <2>2, <2>3
  <2> QED BY <2>2, <2>4 DEF Heards
<1>13. Cardinality(K) <= s.total /\ s.total <= Cardinality(E)
  BY <1>5, <1>6, <1>8
<1>14. Cardinality(K) <= SumOf(s.rate) /\ SumOf(s.rate) <= Cardinality(E)
  BY <1>6, <1>8, <1>9
<1> QED BY <1>5, <1>10, <1>11, <1>12, <1>13, <1>14 DEF s, K, E

\* The rates count each message of their window once; a time series does but for the rows that
\* came or went between its SELECTs, and leaves out no frequency busier than a listed one
\* (_rate_buckets, _compute_timeseries).
THEOREM CountsAddUpAlways == ViewsSpec => []CountsAddUp
<1>1. ViewsInv => CountsAddUp
  BY RatesOK, SeriesOK DEF CountsAddUp
<1> QED BY <1>1, ViewsInvAlways, PTL
=============================================================================
