--------------------------- MODULE RefDataProofs ---------------------------
(***************************************************************************)
(* For any airframes, registrations, downloads and bounds: what a poll has  *)
(* confirmed about an airframe only the weekly expiry takes back; however   *)
(* the processes die, the reference tables survive and whoever is past its  *)
(* start finds them whole; and what the look-ups answer is what the tables  *)
(* hold, or held a poll ago.                                                *)
(***************************************************************************)
EXTENDS RefData, SequenceTheorems, FiniteSetTheorems, TLAPS

\* The rows of adsbx_overrides.
Overrides == [Airframes -> Row \cup {None}]
Typed == overrides \in Overrides

LEMMA UpsertSets ==
  ASSUME Upsert
  PROVE  \E xs \in SUBSET Airframes : \E e \in [xs -> Entries] :
           overrides' = [x \in Airframes |->
              IF x \notin xs THEN overrides[x]
              ELSE [flags |-> Or(e[x].flags, IF overrides[x] = None THEN None ELSE overrides[x].flags),
                    reg |-> Or(e[x].reg, IF overrides[x] = None THEN None ELSE overrides[x].reg),
                    age |-> 0]]
  BY DEF Upsert

\* A poll's row has the stored values wherever its own are absent.
LEMMA UpsertKeeps ==
  ASSUME Typed, Upsert, NEW x \in Airframes
  PROVE  /\ overrides'[x] \in Row \cup {None}
         /\ overrides[x] # None =>
              /\ overrides[x].flags # None => overrides'[x].flags # None
              /\ overrides[x].reg # None => overrides'[x].reg # None
<1>1. PICK xs \in SUBSET Airframes : \E e \in [xs -> Entries] :
           overrides' = [y \in Airframes |->
              IF y \notin xs THEN overrides[y]
              ELSE [flags |-> Or(e[y].flags, IF overrides[y] = None THEN None ELSE overrides[y].flags),
                    reg |-> Or(e[y].reg, IF overrides[y] = None THEN None ELSE overrides[y].reg),
                    age |-> 0]]
  BY UpsertSets
<1>2. PICK e \in [xs -> Entries] :
           overrides' = [y \in Airframes |->
              IF y \notin xs THEN overrides[y]
              ELSE [flags |-> Or(e[y].flags, IF overrides[y] = None THEN None ELSE overrides[y].flags),
                    reg |-> Or(e[y].reg, IF overrides[y] = None THEN None ELSE overrides[y].reg),
                    age |-> 0]]
  BY <1>1
<1>3. overrides[x] \in Row \cup {None}
  BY DEF Typed, Overrides
<1>4. CASE x \notin xs
  BY <1>2, <1>3, <1>4
<1>5. CASE x \in xs
  <2>1. e[x].flags \in Flags /\ e[x].reg \in Regs \cup {None}
    BY <1>5 DEF Entries
  <2>2. overrides'[x] =
          [flags |-> Or(e[x].flags, IF overrides[x] = None THEN None ELSE overrides[x].flags),
           reg |-> Or(e[x].reg, IF overrides[x] = None THEN None ELSE overrides[x].reg), age |-> 0]
    BY <1>2, <1>5
  <2>3. CASE overrides[x] = None
    BY <2>1, <2>2, <2>3, RefDataAssumption DEF Or, Row, Flags
  <2>4. CASE overrides[x] # None
    <3>1. overrides[x].flags \in Flags /\ overrides[x].reg \in Regs \cup {None}
      BY <1>3, <2>4 DEF Row
    <3> QED BY <2>1, <2>2, <2>4, <3>1, RefDataAssumption DEF Or, Row, Flags
  <2> QED BY <2>3, <2>4
<1> QED BY <1>4, <1>5

LEMMA UpsertTyped == ASSUME Typed, Upsert PROVE Typed'
<1>1. overrides' = [x \in Airframes |-> overrides'[x]]
  BY UpsertSets
<1> QED BY <1>1, UpsertKeeps DEF Typed, Overrides

\* The weekly run of the updater takes whole rows that are old enough, and
\* nothing from the others.
LEMMA PurgeKeeps ==
  ASSUME Typed, PurgeOverrides
  PROVE  /\ Typed'
         /\ \A x \in Airframes : overrides[x] # None =>
              \/ overrides'[x] = None /\ overrides[x].age = TTL /\ pc["updater"] = "purge"
              \/ overrides'[x].flags = overrides[x].flags /\ overrides'[x].reg = overrides[x].reg
<1>1. /\ pc["updater"] = "purge"
      /\ overrides' = [x \in Airframes |->
           IF overrides[x] = None \/ overrides[x].age = TTL THEN None
           ELSE [overrides[x] EXCEPT !.age = @ + 1]]
  BY DEF PurgeOverrides
<1>2. ASSUME NEW x \in Airframes, overrides[x] # None, overrides[x].age # TTL
      PROVE  /\ overrides'[x] \in Row
             /\ overrides'[x].flags = overrides[x].flags /\ overrides'[x].reg = overrides[x].reg
  <2>1. overrides[x] \in Row
    BY <1>2 DEF Typed, Overrides
  <2>2. overrides'[x] = [overrides[x] EXCEPT !.age = overrides[x].age + 1]
    BY <1>1, <1>2
  <2> QED BY <1>2, <2>1, <2>2, RefDataAssumption DEF Row
<1>3. \A x \in Airframes : overrides'[x] \in Row \cup {None}
  BY <1>1, <1>2
<1> QED BY <1>1, <1>2, <1>3 DEF Typed, Overrides

\* Nothing else writes the table.
LEMMA OthersLeave ==
  ASSUME [Next]_vars, ~Upsert, ~PurgeOverrides PROVE overrides' = overrides
<1> USE DEF tables, caches, threads, history, bounds
<1>1. ASSUME NEW p \in Procs, Start(p) \/ RecoverStep(p) \/ RecoverFails(p) \/ Ready(p) \/ Crash(p)
      PROVE  overrides' = overrides
  BY <1>1 DEF Start, RecoverStep, RecoverFails, Ready, Crash
<1>2. CASE UpdaterStart \/ update_aircraft_db \/ update_airlines_db \/ UpdateFails \/ backfill_flights
  BY <1>2 DEF UpdaterStart, update_aircraft_db, update_airlines_db, Swap, UpdateFails, backfill_flights
<1>3. CASE invalidate_adsbx \/ Lookup \/ LookupStores \/ BackgroundBackfill \/ lookup_airline
  BY <1>3 DEF invalidate_adsbx, Lookup, LookupStores, BackgroundBackfill, lookup_airline
<1>4. CASE UNCHANGED vars
  BY <1>4 DEF vars
<1> QED BY <1>1, <1>2, <1>3, <1>4 DEF Next

-----------------------------------------------------------------------------
\* A poll that lacks a value never erases a confirmed one; only the weekly
\* expiry does (_upsert_overrides, purge_stale_overrides).
THEOREM ConfirmedKeptAlways == Spec => ConfirmedKept
<1> DEFINE Kept == \A x \in Airframes : overrides[x] # None =>
          \/ overrides'[x] = None /\ overrides[x].age = TTL /\ pc["updater"] = "purge"
          \/ /\ overrides[x].flags # None => overrides'[x].flags # None
             /\ overrides[x].reg # None => overrides'[x].reg # None
<1>1. Init => Typed
  BY DEF Init, Typed, Overrides
<1>2. Typed /\ [Next]_vars => Typed'
  BY UpsertTyped, PurgeKeeps, OthersLeave DEF Typed
<1>3. Typed /\ [Next]_vars => [Kept]_vars
  BY UpsertKeeps, PurgeKeeps, OthersLeave
<1> QED BY <1>1, <1>2, <1>3, PTL DEF Spec, ConfirmedKept

-----------------------------------------------------------------------------
(* The recovery statements that a process has yet to run *)

Stmts == {"read", "restore", "drop_old", "drop_new", "index"}
Todo == Stmts \X Tables
Past == {"aircraft_db", "airlines", "backfill", "purge", "up"}

In(x, s) == \E i \in 1..Len(s) : s[i] = x

Types ==
    /\ store \in [Tables -> Copies] /\ index \in {"base", "old", None}
    /\ pc \in [Procs -> {"down", "recover"} \cup Past]
    /\ plan \in [Procs -> Seq(Todo)]
    /\ \A p \in Procs : pc[p] # "recover" => plan[p] = <<>>

\* The table, or without it its old copy, is a whole download.
Safe == \A t \in Tables : IF store[t].base = None THEN store[t].old \in Whole(t) ELSE store[t].base \in Whole(t)

\* The index is on a table that there is.
IndexOk == index = "old" => store["aircraft_db"].old # None

\* What is left of a swap has been read by the process, and will be settled.
Known(p, t) ==
    /\ store[t].base = None => In(<<"restore", t>>, plan[p])
    /\ store[t].old # None => In(<<"restore", t>>, plan[p]) \/ In(<<"drop_old", t>>, plan[p])
    /\ store[t].new # None => In(<<"drop_new", t>>, plan[p])
Settling(p) == pc[p] = "recover" => \A t \in Tables :
    /\ In(<<"drop_old", t>>, plan[p]) => store[t].base # None
    /\ In(<<"read", t>>, plan[p]) \/ Known(p, t)

TablesInv == Types /\ Safe /\ IndexOk /\ ServedWhole /\ \A p \in Procs : Settling(p)

\* Membership in sequences.
LEMMA InEmpty == ASSUME NEW x PROVE ~In(x, <<>>)
  BY DEF In

LEMMA InTail ==
  ASSUME NEW S, NEW s \in Seq(S), s # <<>>, NEW x
  PROVE  /\ In(x, Tail(s)) => In(x, s)
         /\ In(x, s) => x = Head(s) \/ In(x, Tail(s))
<1>1. Len(s) \in Nat \ {0} /\ Tail(s) \in Seq(S) /\ Len(Tail(s)) = Len(s) - 1
  OBVIOUS
<1>2. \A i \in 1..Len(s) - 1 : Tail(s)[i] = s[i + 1]
  OBVIOUS
<1>3. Head(s) = s[1]
  OBVIOUS
<1>4. ASSUME In(x, Tail(s)) PROVE In(x, s)
  <2>1. PICK i \in 1..Len(s) - 1 : Tail(s)[i] = x
    BY <1>1, <1>4 DEF In
  <2>2. i + 1 \in 1..Len(s) /\ s[i + 1] = x
    BY <1>1, <1>2, <2>1
  <2> QED BY <2>2 DEF In
<1>5. ASSUME In(x, s), x # Head(s) PROVE In(x, Tail(s))
  <2>1. PICK i \in 1..Len(s) : s[i] = x
    BY <1>5 DEF In
  <2>2. i # 1
    BY <1>3, <1>5, <2>1
  <2>3. i - 1 \in 1..Len(s) - 1 /\ s[(i - 1) + 1] = x
    BY <1>1, <2>1, <2>2
  <2>4. Tail(s)[i - 1] = x
    BY <1>2, <2>3
  <2> QED BY <1>1, <2>3, <2>4 DEF In
<1> QED BY <1>4, <1>5

LEMMA InConcat ==
  ASSUME NEW S, NEW s \in Seq(S), NEW u \in Seq(S), NEW x
  PROVE  In(x, s \o u) <=> In(x, s) \/ In(x, u)
<1>1. Len(s) \in Nat /\ Len(u) \in Nat /\ Len(s \o u) = Len(s) + Len(u)
  OBVIOUS
<1>2. \A i \in 1..Len(s) : (s \o u)[i] = s[i]
  OBVIOUS
<1>3. \A i \in Len(s) + 1..Len(s) + Len(u) : (s \o u)[i] = u[i - Len(s)]
  OBVIOUS
<1>4. ASSUME In(x, s) PROVE In(x, s \o u)
  <2>1. PICK i \in 1..Len(s) : s[i] = x
    BY <1>4 DEF In
  <2> QED BY <1>1, <1>2, <2>1 DEF In
<1>5. ASSUME In(x, u) PROVE In(x, s \o u)
  <2>1. PICK i \in 1..Len(u) : u[i] = x
    BY <1>5 DEF In
  <2>2. Len(s) + i \in Len(s) + 1..Len(s) + Len(u) /\ (Len(s) + i) - Len(s) = i
    BY <1>1, <2>1
  <2>3. (s \o u)[Len(s) + i] = x
    BY <1>3, <2>1, <2>2
  <2>4. Len(s) + i \in 1..Len(s \o u)
    BY <1>1, <2>2
  <2> QED BY <2>3, <2>4 DEF In
<1>6. ASSUME In(x, s \o u) PROVE In(x, s) \/ In(x, u)
  <2>1. PICK i \in 1..Len(s) + Len(u) : (s \o u)[i] = x
    BY <1>1, <1>6 DEF In
  <2>2. CASE i \in 1..Len(s)
    BY <1>2, <2>1, <2>2 DEF In
  <2>3. CASE i \in Len(s) + 1..Len(s) + Len(u)
    <3>1. u[i - Len(s)] = x /\ i - Len(s) \in 1..Len(u)
      BY <1>1, <1>3, <2>1, <2>3
    <3> QED BY <3>1 DEF In
  <2> QED BY <1>1, <2>1, <2>2, <2>3
<1> QED BY <1>4, <1>5, <1>6

LEMMA InOne == ASSUME NEW x, NEW y PROVE In(x, <<y>>) <=> x = y
  BY DEF In

\* A recovery begins by reading both tables.
LEMMA BeginReads ==
  /\ Begin \in Seq(Todo)
  /\ \A t \in Tables : In(<<"read", t>>, Begin) /\ ~In(<<"drop_old", t>>, Begin)
<1>1. Begin \in Seq(Todo)
  BY UpstreamAssumption DEF Begin, Todo, Stmts
<1>2. Len(Begin) = 2 /\ Begin[1] = <<"read", "aircraft_db">> /\ Begin[2] = <<"read", "airlines">>
  BY DEF Begin
<1> QED BY <1>1, <1>2, UpstreamAssumption DEF In

\* The statements of a table restore it when it is gone, and drop what staging copies
\* it has, the old one only beside the table.
LEMMA StatementsSettle ==
  ASSUME NEW t \in Tables
  PROVE  /\ Statements(t) \in Seq(Todo)
         /\ store[t].old # None => In(<<"restore", t>>, Statements(t)) \/ In(<<"drop_old", t>>, Statements(t))
         /\ store[t].old # None /\ store[t].base = None => In(<<"restore", t>>, Statements(t))
         /\ store[t].new # None => In(<<"drop_new", t>>, Statements(t))
         /\ \A u \in Tables : In(<<"drop_old", u>>, Statements(t)) => u = t /\ store[t].base # None
<1> DEFINE A == IF store[t].old = None THEN <<>>
                ELSE IF store[t].base = None THEN << <<"restore", t>> >> ELSE << <<"drop_old", t>> >>
           B == IF store[t].new = None THEN <<>> ELSE << <<"drop_new", t>> >>
           C == IF t = "aircraft_db" THEN << <<"index", t>> >> ELSE <<>>
<1>1. A \in Seq(Todo) /\ B \in Seq(Todo) /\ C \in Seq(Todo) /\ B \o C \in Seq(Todo)
  BY DEF Todo, Stmts
<1>2. Statements(t) = A \o (B \o C)
  <2>1. (A \o B) \o C = A \o (B \o C)
    BY <1>1, ConcatAssociative
  <2> QED BY <2>1 DEF Statements
<1>3. ASSUME NEW x PROVE In(x, Statements(t)) <=> In(x, A) \/ In(x, B) \/ In(x, C)
  <2> HIDE DEF A, B, C
  <2>1. In(x, A \o (B \o C)) <=> In(x, A) \/ In(x, B \o C)
    BY <1>1, InConcat
  <2>2. In(x, B \o C) <=> In(x, B) \/ In(x, C)
    BY <1>1, InConcat
  <2> QED BY <1>2, <2>1, <2>2
<1>4. /\ store[t].old # None => In(<<"restore", t>>, A) \/ In(<<"drop_old", t>>, A)
      /\ store[t].old # None /\ store[t].base = None => In(<<"restore", t>>, A)
      /\ \A u \in Tables : In(<<"drop_old", u>>, A) => u = t /\ store[t].base # None
  BY InOne, InEmpty
<1>5. /\ store[t].new # None => In(<<"drop_new", t>>, B)
      /\ \A u \in Tables : ~In(<<"drop_old", u>>, B)
  BY InOne, InEmpty
<1>6. \A u \in Tables : ~In(<<"drop_old", u>>, C)
  BY InOne, InEmpty
<1> HIDE DEF A, B, C
<1> QED BY <1>1, <1>2, <1>3, <1>4, <1>5, <1>6

\* Steps that leave the tables alone, and in which no process gets further in its
\* recovery: it goes on, begins or ends.
LEMMA Moves ==
  ASSUME TablesInv, UNCHANGED tables,
         pc' \in [Procs -> {"down", "recover"} \cup Past],
         plan' \in [Procs -> Seq(Todo)],
         \A p \in Procs :
            /\ pc'[p] = "recover" => plan'[p] = Begin \/ (pc[p] = "recover" /\ plan'[p] = plan[p])
            /\ pc'[p] # "recover" => plan'[p] = <<>>
            /\ pc'[p] \in Past => pc[p] \in Past
  PROVE  TablesInv'
<1>1. store' = store /\ index' = index
  BY DEF tables
<1>2. Types' /\ Safe' /\ IndexOk'
  BY <1>1 DEF TablesInv, Types, Safe, IndexOk
<1>3. ServedWhole'
  <2>1. ASSUME NEW p \in Procs, pc'[p] \notin {"down", "recover"} PROVE pc[p] \notin {"down", "recover"}
    BY <2>1 DEF Past
  <2> QED BY <1>1, <2>1 DEF TablesInv, ServedWhole
<1>4. ASSUME NEW p \in Procs PROVE Settling(p)'
  <2>1. SUFFICES ASSUME pc'[p] = "recover", NEW t \in Tables
                 PROVE  /\ In(<<"drop_old", t>>, plan'[p]) => store'[t].base # None
                        /\ In(<<"read", t>>, plan'[p]) \/ Known(p, t)'
    BY DEF Settling
  <2>2. CASE plan'[p] = Begin
    BY <2>2, BeginReads
  <2>3. CASE pc[p] = "recover" /\ plan'[p] = plan[p]
    BY <1>1, <2>3 DEF TablesInv, Settling, Known
  <2> QED BY <2>1, <2>2, <2>3
<1> QED BY <1>2, <1>3, <1>4 DEF TablesInv

-----------------------------------------------------------------------------
(* The tables: initial states, the recovery, the swap *)

\* A whole download is neither missing nor empty.
LEMMA WholeSome == ASSUME NEW t \in Tables PROVE \A c \in Whole(t) : c # None /\ c # <<>> /\ c \in Upstream[t]
  BY UpstreamAssumption DEF Whole

\* What an interrupted swap leaves satisfies the invariant.
LEMMA TablesInit == Init => TablesInv
<1> SUFFICES ASSUME Init PROVE TablesInv
  OBVIOUS
<1>0. /\ pc = [p \in Procs |-> "down"] /\ plan = [p \in Procs |-> <<>>]
      /\ index = IF store["aircraft_db"].old # None THEN "old" ELSE "base"
  BY DEF Init
<1>1. store \in [Tables -> UNION {Leftover(u) : u \in Tables}] /\ \A u \in Tables : store[u] \in Leftover(u)
  <2>1. \A u \in Tables : Plain(u) \subseteq Leftover(u)
    BY DEF Plain, Leftover
  <2> QED BY <2>1 DEF Init
<1>2. ASSUME NEW u \in Tables
      PROVE  /\ store[u] \in Copies
             /\ IF store[u].base = None THEN store[u].old \in Whole(u) ELSE store[u].base \in Whole(u)
  <2>1. PICK b \in Whole(u) \cup {None}, n \in Whole(u) \cup {None, <<>>}, o \in Whole(u) \cup {None} :
          /\ store[u] = [base |-> b, new |-> n, old |-> o]
          /\ b = None => o \in Whole(u)
    BY <1>1 DEF Leftover
  <2>2. Whole(u) \subseteq Contents
    BY DEF Whole, Contents
  <2>5. store[u] \in Copies
    BY <2>1, <2>2 DEF Copies
  <2> QED BY <2>1, <2>5, WholeSome
<1>3. store \in [Tables -> Copies]
  BY <1>1, <1>2
<1> QED BY <1>0, <1>1, <1>2, <1>3 DEF TablesInv, Types, Safe, IndexOk, ServedWhole, Settling, Procs, Past

\* Two recoveries of the same leftover: a statement that finds its table does what the
\* reading process meant, whatever the other one has done since.
LEMMA RecoverStepKeeps ==
  ASSUME TablesInv, NEW p \in Procs, RecoverStep(p) PROVE TablesInv'
<1>z. PICK stmt, t, rest : stmt = Head(plan[p])[1] /\ t = Head(plan[p])[2] /\ rest = Tail(plan[p])
  OBVIOUS
<1>0. /\ pc[p] = "recover" /\ plan[p] # <<>> /\ pc' = pc
      /\ IF stmt = "read" THEN plan' = [plan EXCEPT ![p] = Statements(t) \o rest] /\ UNCHANGED tables
         ELSE Exec(stmt, t) /\ plan' = [plan EXCEPT ![p] = rest]
  BY <1>z DEF RecoverStep
<1>1. /\ plan \in [Procs -> Seq(Todo)] /\ pc \in [Procs -> {"down", "recover"} \cup Past]
      /\ store \in [Tables -> Copies] /\ index \in {"base", "old", None}
      /\ \A q \in Procs : pc[q] # "recover" => plan[q] = <<>>
  BY DEF TablesInv, Types
<1>2. stmt \in Stmts /\ t \in Tables /\ rest \in Seq(Todo) /\ Head(plan[p]) = <<stmt, t>>
  <2>1. Head(plan[p]) \in Todo /\ Tail(plan[p]) \in Seq(Todo)
    BY <1>0, <1>1
  <2> QED BY <1>z, <2>1 DEF Todo
<1>3. \A u \in Tables : IF store[u].base = None THEN store[u].old \in Whole(u) ELSE store[u].base \in Whole(u)
  BY DEF TablesInv, Safe
<1>4. /\ \A x : In(x, rest) => In(x, plan[p])
      /\ \A x : In(x, plan[p]) => x = <<stmt, t>> \/ In(x, rest)
  BY <1>0, <1>1, <1>2, <1>z, InTail
<1>4a. In(<<stmt, t>>, plan[p])
  <2>1. Head(plan[p]) = plan[p][1] /\ 1 \in 1..Len(plan[p])
    BY <1>0, <1>1
  <2> QED BY <1>2, <2>1 DEF In
<1>5. \A q \in Procs : pc[q] = "recover" => \A u \in Tables :
        /\ In(<<"drop_old", u>>, plan[q]) => store[u].base # None
        /\ In(<<"read", u>>, plan[q]) \/ Known(q, u)
  BY DEF TablesInv, Settling
<1>6. CASE stmt = "read"
  <2>1. store' = store /\ index' = index /\ plan' = [plan EXCEPT ![p] = Statements(t) \o rest]
    BY <1>0, <1>6 DEF tables
  <2>1a. Statements(t) \in Seq(Todo)
    BY <1>2, StatementsSettle
  <2>1b. Statements(t) \o rest \in Seq(Todo)
    BY <1>2, <2>1a
  <2>2. plan' \in [Procs -> Seq(Todo)] /\ plan'[p] = Statements(t) \o rest
    BY <1>1, <2>1, <2>1b
  <2>3. \A x : In(x, plan'[p]) <=> In(x, Statements(t)) \/ In(x, rest)
    BY <1>2, <2>1a, <2>2, InConcat
  <2>4. Types' /\ Safe' /\ IndexOk' /\ ServedWhole'
    BY <1>0, <1>1, <2>1, <2>2 DEF TablesInv, Types, Safe, IndexOk, ServedWhole
  <2>5. ASSUME NEW q \in Procs, pc'[q] = "recover", NEW u \in Tables
        PROVE  /\ In(<<"drop_old", u>>, plan'[q]) => store'[u].base # None
               /\ In(<<"read", u>>, plan'[q]) \/ Known(q, u)'
    <3>1. CASE q # p
      BY <1>0, <1>5, <2>1, <2>5, <3>1 DEF Known
    <3>2. CASE q = p /\ u = t
      <4>1. In(<<"drop_old", u>>, plan'[q]) => store'[u].base # None
        BY <1>0, <1>2, <1>4, <1>5, <2>1, <2>3, <3>2, StatementsSettle
      <4>2. store[t].base = None => store[t].old # None
        BY <1>2, <1>3, WholeSome
      <4>3. /\ store[t].base = None => In(<<"restore", t>>, plan'[p])
            /\ store[t].old # None => In(<<"restore", t>>, plan'[p]) \/ In(<<"drop_old", t>>, plan'[p])
            /\ store[t].new # None => In(<<"drop_new", t>>, plan'[p])
        BY <1>2, <2>3, <4>2, StatementsSettle
      <4>4. Known(p, t)'
        BY <2>1, <4>3 DEF Known
      <4> QED BY <3>2, <4>1, <4>4
    <3>3. CASE q = p /\ u # t
      <4>1. In(<<"drop_old", u>>, plan'[q]) => store'[u].base # None
        BY <1>0, <1>2, <1>4, <1>5, <2>1, <2>3, <3>3, StatementsSettle
      <4>2. \A s : In(<<s, u>>, plan[p]) => In(<<s, u>>, plan'[p])
        BY <1>4, <2>3, <3>3
      <4> QED BY <1>0, <1>5, <2>1, <3>3, <4>1, <4>2 DEF Known
    <3> QED BY <3>1, <3>2, <3>3
  <2> QED BY <2>4, <2>5 DEF TablesInv, Settling
<1>7. CASE stmt # "read"
  <2>1. Exec(stmt, t) /\ plan' = [plan EXCEPT ![p] = rest]
    BY <1>0, <1>7
  <2>2. plan' \in [Procs -> Seq(Todo)] /\ plan'[p] = rest /\ \A q \in Procs \ {p} : plan'[q] = plan[q]
    BY <1>1, <1>2, <2>1
  <2>3. stmt = "drop_old" => store[t].base # None
    BY <1>0, <1>2, <1>4a, <1>5
  <2>4. /\ store' \in [Tables -> Copies] /\ index' \in {"base", "old", None}
        /\ \A u \in Tables \ {t} : store'[u] = store[u]
        /\ store[t].base # None => store'[t].base = store[t].base
        /\ store[t].base = None /\ store'[t].base # None => store'[t].base = store[t].old
        /\ store'[t].base = None => store'[t].old = store[t].old
        /\ store[t].old = None => store'[t].old = None
        /\ store[t].new = None => store'[t].new = None
        /\ index = "base" => index' = "base"
        /\ stmt = "restore" => store'[t].base # None /\ store'[t].old = None
        /\ stmt = "drop_old" => store'[t].old = None
        /\ stmt = "drop_new" => store'[t].new = None
        /\ index' = "old" => index = "old" /\ ~(stmt \in {"restore", "drop_old"} /\ t = "aircraft_db")
    <3>0. stmt \in {"restore", "drop_old", "drop_new", "index"}
      BY <1>2, <1>7 DEF Stmts
    <3>1. CASE stmt = "restore"
      BY <1>1, <1>2, <2>1, <3>1 DEF Exec, Copies
    <3>2. CASE stmt = "drop_old"
      <4>1. store' = [store EXCEPT ![t].old = None]
            /\ index' = IF t = "aircraft_db" /\ index = "old" THEN None ELSE index
        BY <2>1, <3>2 DEF Exec
      <4>2. store' \in [Tables -> Copies] /\ store'[t] = [store[t] EXCEPT !.old = None]
        BY <1>1, <1>2, <4>1 DEF Copies
      <4>3. store'[t].base = store[t].base /\ store'[t].new = store[t].new /\ store'[t].old = None
        BY <1>1, <1>2, <4>2 DEF Copies
      <4>4. /\ index' \in {"base", "old", None} /\ (index = "base" => index' = "base")
            /\ index' = "old" => index = "old" /\ t # "aircraft_db"
        BY <1>1, <4>1, UpstreamAssumption
      <4>5. \A u \in Tables \ {t} : store'[u] = store[u]
        BY <1>1, <4>1
      <4>6. stmt # "restore" /\ stmt # "drop_new"
        BY <3>2
      <4> QED BY <2>3, <3>2, <4>2, <4>3, <4>4, <4>5, <4>6
    <3>3. CASE stmt = "drop_new"
      <4>1. store' = [store EXCEPT ![t].new = None] /\ index' = index
        BY <2>1, <3>3 DEF Exec
      <4>2. store' \in [Tables -> Copies] /\ store'[t] = [store[t] EXCEPT !.new = None]
        BY <1>1, <1>2, <4>1 DEF Copies
      <4>3. store'[t].base = store[t].base /\ store'[t].old = store[t].old /\ store'[t].new = None
        BY <1>1, <1>2, <4>2 DEF Copies
      <4> QED BY <1>1, <1>2, <3>3, <4>1, <4>2, <4>3
    <3>4. CASE stmt = "index"
      BY <1>1, <1>2, <2>1, <3>4 DEF Exec, Copies, Or
    <3> QED BY <3>0, <3>1, <3>2, <3>3, <3>4
  <2>5. /\ stmt \notin {"restore", "drop_old"} => store'[t].old = store[t].old
        /\ store'[t].base = None => store[t].base = None
    <3>0. stmt \in {"restore", "drop_old", "drop_new", "index"}
      BY <1>2, <1>7 DEF Stmts
    <3>1. CASE stmt \in {"restore", "drop_old"}
      BY <2>4, <3>1
    <3>3. CASE stmt = "drop_new"
      BY <1>1, <1>2, <2>1, <3>3 DEF Exec, Copies
    <3>4. CASE stmt = "index"
      BY <1>1, <1>2, <2>1, <3>4 DEF Exec
    <3> QED BY <3>0, <3>1, <3>3, <3>4
  <2>6. Types'
    BY <1>0, <1>1, <2>2, <2>4 DEF Types
  <2>7. Safe'
    BY <1>2, <1>3, <2>3, <2>4 DEF Safe
  <2>8. IndexOk'
    BY <1>2, <2>4, <2>5, UpstreamAssumption DEF TablesInv, IndexOk
  <2>9. ServedWhole'
    BY <1>0, <1>2, <2>4 DEF TablesInv, ServedWhole
  <2>10. ASSUME NEW q \in Procs, pc'[q] = "recover", NEW u \in Tables
        PROVE  /\ In(<<"drop_old", u>>, plan'[q]) => store'[u].base # None
               /\ In(<<"read", u>>, plan'[q]) \/ Known(q, u)'
    <3>1. store[u].base # None => store'[u].base # None
      BY <1>2, <2>4
    <3>2. /\ store'[u].base = None => store[u].base = None
          /\ store'[u].old # None => store[u].old # None
          /\ store'[u].new # None => store[u].new # None
      BY <1>2, <2>4
    <3>3. pc[q] = "recover"
      BY <1>0, <2>10
    <3>4. CASE q # p
      <4>1. plan'[q] = plan[q]
        BY <2>2, <3>4
      <4> QED BY <1>5, <3>1, <3>2, <3>3, <4>1 DEF Known
    <3>5. CASE q = p
      <4>1. In(<<"drop_old", u>>, plan'[q]) => store'[u].base # None
        BY <1>4, <1>5, <2>2, <3>1, <3>3, <3>5
      <4>2. CASE u # t
        <5>1. \A s : In(<<s, u>>, plan[p]) => In(<<s, u>>, plan'[p])
          BY <1>4, <2>2, <4>2
        <5> QED BY <1>5, <3>2, <3>3, <3>5, <4>1, <5>1 DEF Known
      <4>3. CASE u = t
        <5>1. In(<<"read", t>>, plan[p]) => In(<<"read", t>>, plan'[p])
          BY <1>4, <1>7, <2>2
        <5>1a. \A s : s # stmt /\ In(<<s, t>>, plan[p]) => In(<<s, t>>, plan'[p])
          BY <1>4, <2>2
        <5>2. ASSUME Known(p, t) PROVE Known(p, t)'
          <6>0. stmt = "restore" => store'[t].base # None /\ store'[t].old = None
            BY <2>4
          <6>1. store'[t].base = None => In(<<"restore", t>>, plan'[p])
            BY <1>4, <2>2, <2>4, <2>5, <5>2 DEF Known
          <6>2. store'[t].old # None => In(<<"restore", t>>, plan'[p]) \/ In(<<"drop_old", t>>, plan'[p])
            <7>1. SUFFICES ASSUME store'[t].old # None
                           PROVE  In(<<"restore", t>>, plan'[p]) \/ In(<<"drop_old", t>>, plan'[p])
              OBVIOUS
            <7>2. stmt # "restore" /\ stmt # "drop_old" /\ store[t].old # None
              BY <2>4, <7>1
            <7> QED BY <5>1a, <5>2, <7>2 DEF Known
          <6>3. store'[t].new # None => In(<<"drop_new", t>>, plan'[p])
            BY <1>4, <2>2, <2>4, <5>2 DEF Known
          <6> QED BY <6>1, <6>2, <6>3 DEF Known
        <5> QED BY <1>5, <3>3, <3>5, <4>1, <4>3, <5>1, <5>2
      <4> QED BY <4>2, <4>3
    <3> QED BY <3>4, <3>5
  <2> QED BY <2>6, <2>7, <2>8, <2>9, <2>10 DEF TablesInv, Settling
<1> QED BY <1>6, <1>7

\* A process past its recovery finds everything settled.
LEMMA SettledWhole ==
  ASSUME TablesInv, NEW p \in Procs, pc[p] = "recover", plan[p] = <<>>
  PROVE  index # "old" /\ \A t \in Tables : store[t].base # None /\ store[t].old = None /\ store[t].new = None
<1>1. \A t \in Tables : Known(p, t)
  BY InEmpty DEF TablesInv, Settling
<1>2. \A t \in Tables : store[t].base # None /\ store[t].old = None /\ store[t].new = None
  BY <1>1, InEmpty DEF Known
<1> QED BY <1>2, UpstreamAssumption DEF TablesInv, IndexOk

\* init_db finds nothing to create.
LEMMA ReadyKeeps ==
  ASSUME TablesInv, NEW p \in Procs, Ready(p)
  PROVE  TablesInv' /\ store' = store
<1>1. /\ pc[p] = "recover" /\ plan[p] = <<>> /\ plan' = plan /\ index' = Or(index, "base")
      /\ pc' = [pc EXCEPT ![p] = IF p = "updater" THEN "aircraft_db" ELSE "up"]
  BY DEF Ready
<1>2. index # "old" /\ \A t \in Tables : store[t].base # None /\ store[t].old = None /\ store[t].new = None
  BY <1>1, SettledWhole
<1>3. index' = "base"
  BY <1>1, <1>2 DEF Or, TablesInv, Types
<1>4. store' = store
  <2>1. store \in [Tables -> Copies]
    BY DEF TablesInv, Types
  <2>2. \A t \in Tables : [store[t] EXCEPT !.base = Or(store[t].base, <<>>)] = store[t]
    BY <1>2, <2>1 DEF Or, Copies
  <2>3. [t \in Tables |-> [store[t] EXCEPT !.base = Or(store[t].base, <<>>)]] = store
    BY <2>1, <2>2
  <2> QED BY <2>3 DEF Ready
<1>5. Types'
  BY <1>1, <1>3, <1>4 DEF TablesInv, Types, Past
<1>6. Safe' /\ IndexOk' /\ ServedWhole'
  BY <1>2, <1>3, <1>4 DEF TablesInv, Safe, IndexOk, ServedWhole
<1>7. \A q \in Procs : Settling(q)'
  BY <1>1, <1>4 DEF TablesInv, Types, Settling, Known
<1> QED BY <1>4, <1>5, <1>6, <1>7 DEF TablesInv

\* A refused download never empties a table.
LEMMA SwapKeeps ==
  ASSUME TablesInv, NEW t \in Tables, NEW next \in Past, Swap(t, next)
  PROVE  TablesInv'
<1>1. PICK c \in Upstream[t] :
        ~Refused(t, c) /\ store' = [store EXCEPT ![t] = [base |-> c, new |-> None, old |-> None]]
  BY DEF Swap
<1>2. /\ pc["updater"] = t /\ pc' = [pc EXCEPT !["updater"] = next] /\ plan' = plan
      /\ index' = IF t = "aircraft_db" THEN "base" ELSE index
  BY DEF Swap
<1>3. pc["updater"] \notin {"down", "recover"}
  BY <1>2, UpstreamAssumption
<1>4. index = "base" /\ \A u \in Tables : store[u].base # None /\ store[u].old = None /\ store[u].new = None
  BY <1>3 DEF TablesInv, ServedWhole, Procs
<1>5. c \in Whole(t)
  <2>1. store[t].base \in Whole(t)
    BY <1>4 DEF TablesInv, Safe
  <2>2. Cardinality(DOMAIN store[t].base) \in Nat \ {0, 1}
    BY <2>1, UpstreamAssumption DEF Whole
  <2>3. SUFFICES ASSUME c = <<>> PROVE FALSE
    BY DEF Whole
  <2>4. DOMAIN c = {}
    BY <2>3
  <2>5. Cardinality(DOMAIN c) = 0
    BY <2>4, FS_EmptySet
  <2>6. \A n \in Nat \ {0, 1} : 0 < (n * 4) \div 5 /\ n > 0
    OBVIOUS
  <2> QED BY <1>1, <2>2, <2>5, <2>6 DEF Refused
<1>6. c # None /\ c \in Upstream[t]
  BY <1>5, WholeSome
<1>7. Types'
  <2>0. c \in Contents
    BY <1>6 DEF Contents
  <2>1. [base |-> c, new |-> None, old |-> None] \in Copies
    BY <2>0 DEF Copies
  <2>2. store' \in [Tables -> Copies]
    BY <1>1, <2>1 DEF TablesInv, Types
  <2>3. pc' \in [Procs -> {"down", "recover"} \cup Past] /\ \A p \in Procs : pc'[p] # "recover" => plan'[p] = <<>>
    BY <1>2, <1>3 DEF TablesInv, Types, Past
  <2> QED BY <1>2, <1>4, <2>2, <2>3 DEF TablesInv, Types
<1>8. \A u \in Tables : store'[u].base # None /\ store'[u].old = None /\ store'[u].new = None
  BY <1>1, <1>4, <1>6 DEF TablesInv, Types
<1>9. Safe'
  BY <1>1, <1>4, <1>5, <1>6 DEF TablesInv, Types, Safe
<1>10. IndexOk' /\ ServedWhole'
  BY <1>2, <1>4, <1>8 DEF IndexOk, ServedWhole
<1>11. \A p \in Procs : Settling(p)'
  <2>1. \A p \in Procs : pc'[p] = "recover" => pc[p] = "recover"
    BY <1>2 DEF TablesInv, Types, Past
  <2> QED BY <1>2, <1>8, <2>1 DEF TablesInv, Settling, Known
<1> QED BY <1>7, <1>9, <1>10, <1>11 DEF TablesInv

-----------------------------------------------------------------------------
(* _LRUDict *)

\* What a look-up of a table or of an override may answer.
Answers == Regs \cup {None} \cup UNION {{c[k] : k \in DOMAIN c} : c \in Contents}
Shows == [flags: Flags, reg: Regs \cup {None}] \cup {None}
Opened == [air: Airframes, reg: Answers]
Lru(K, V) == {c \in Seq([key: K, val: V]) :
                Len(c) <= CacheSize /\ \A i, j \in DOMAIN c : c[i].key = c[j].key => i = j}

\* Dropping a key leaves the other entries, in their order.
LEMMA DropGood ==
  ASSUME NEW K, NEW V, NEW c \in Lru(K, V), NEW k
  PROVE  /\ Drop(c, k) \in Lru(K, V) /\ Len(Drop(c, k)) + (IF Hit(c, k) THEN 1 ELSE 0) = Len(c)
         /\ \A i \in DOMAIN Drop(c, k) : Drop(c, k)[i].key # k /\ In(Drop(c, k)[i], c)
<1>1. c \in Seq([key: K, val: V]) /\ Len(c) \in Nat /\ DOMAIN c = 1..Len(c) /\ Len(c) <= CacheSize
      /\ \A i, j \in 1..Len(c) : c[i].key = c[j].key => i = j
  BY DEF Lru
<1>1a. \A i \in 1..Len(c) : c[i] \in [key: K, val: V]
  BY <1>1, ElementOfSeq
<1>2. CASE ~Hit(c, k)
  <2>1. Drop(c, k) = c
    BY <1>2 DEF Drop
  <2>2. \A i \in DOMAIN c : c[i].key # k /\ In(c[i], c)
    BY <1>1, <1>2 DEF Hit, In
  <2> QED BY <1>1, <1>2, <2>1, <2>2
<1>3. CASE Hit(c, k)
  <2>1. PICK n \in 1..Len(c) : c[n].key = k /\ n = Place(c, k)
    BY <1>1, <1>3 DEF Hit, Place
  <2> DEFINE front == SubSeq(c, 1, n - 1)
             back == SubSeq(c, n + 1, Len(c))
  <2>2. front \in Seq([key: K, val: V]) /\ Len(front) = n - 1 /\ \A i \in 1..n - 1 : front[i] = c[i]
    <3>1. n \in Int /\ n - 1 \in Int /\ \A i \in 1..n - 1 : i \in 1..Len(c)
      BY <1>1, <2>1
    <3>2. /\ front \in Seq([key: K, val: V])
          /\ Len(front) = IF 1 <= n - 1 THEN (n - 1) - 1 + 1 ELSE 0
          /\ \A i \in 1..(n - 1) - 1 + 1 : front[i] = c[1 + i - 1]
      BY <1>1a, <3>1, SubSeqProperties
    <3> HIDE DEF front
    <3>3. Len(front) = n - 1
      BY <1>1, <2>1, <3>2
    <3>4. \A i \in 1..n - 1 : i \in 1..(n - 1) - 1 + 1 /\ 1 + i - 1 = i
      BY <1>1, <2>1
    <3> QED BY <3>2, <3>3, <3>4
  <2>3. /\ back \in Seq([key: K, val: V]) /\ Len(back) = Len(c) - n
        /\ \A i \in 1..Len(c) - n : back[i] = c[n + i]
    <3>1. n + 1 \in Int /\ Len(c) \in Int /\ \A i \in n + 1..Len(c) : i \in 1..Len(c)
      BY <1>1, <2>1
    <3>2. /\ back \in Seq([key: K, val: V])
          /\ Len(back) = IF n + 1 <= Len(c) THEN Len(c) - (n + 1) + 1 ELSE 0
          /\ \A i \in 1..Len(c) - (n + 1) + 1 : back[i] = c[n + 1 + i - 1]
      BY <1>1a, <3>1, SubSeqProperties
    <3> HIDE DEF back
    <3>3. Len(back) = Len(c) - n
      BY <1>1, <2>1, <3>2
    <3>4. \A i \in 1..Len(c) - n : i \in 1..Len(c) - (n + 1) + 1 /\ n + 1 + i - 1 = n + i
      BY <1>1, <2>1
    <3> QED BY <3>2, <3>3, <3>4
  <2>4. Drop(c, k) = front \o back
    BY <1>3, <2>1 DEF Drop
  <2> HIDE DEF front, back
  <2>5. PICK d : d = Drop(c, k)
    OBVIOUS
  <2>6. d \in Seq([key: K, val: V]) /\ Len(d) = Len(c) - 1 /\ DOMAIN d = 1..Len(c) - 1
    <3>1. d \in Seq([key: K, val: V]) /\ Len(d) = Len(front) + Len(back)
      BY <2>2, <2>3, <2>4, <2>5, ConcatProperties
    <3> QED BY <1>1, <2>1, <2>2, <2>3, <3>1
  <2>6a. \A i \in 1..Len(front) + Len(back) : d[i] = IF i <= Len(front) THEN front[i] ELSE back[i - Len(front)]
    BY <2>2, <2>3, <2>4, <2>5, ConcatProperties
  <2>7. \A i \in 1..Len(c) - 1 : d[i] = c[IF i < n THEN i ELSE i + 1]
    <3>1. ASSUME NEW i \in 1..n - 1 PROVE d[i] = c[i]
      <4>1. i \in 1..Len(front) + Len(back) /\ i <= Len(front)
        BY <1>1, <2>1, <2>2, <2>3
      <4> QED BY <2>2, <2>6a, <4>1
    <3>2. ASSUME NEW i \in n..Len(c) - 1 PROVE d[i] = c[i + 1]
      <4>1. n \in Nat /\ n >= 1 /\ i \in Nat /\ i >= n /\ i <= Len(c) - 1 /\ Len(c) \in Nat
        BY <1>1, <2>1
      <4>2. Len(front) = n - 1 /\ Len(back) = Len(c) - n
        BY <2>2, <2>3
      <4>3. i - (n - 1) \in 1..Len(c) - n /\ n + (i - (n - 1)) = i + 1
        BY <4>1
      <4>4. i \in 1..Len(front) + Len(back) /\ ~(i <= Len(front))
        BY <4>1, <4>2
      <4>5. d[i] = back[i - (n - 1)]
        BY <2>6a, <4>2, <4>4
      <4> QED BY <2>3, <4>3, <4>5
    <3> QED BY <1>1, <2>1, <3>1, <3>2
  <2>8. ASSUME NEW i \in 1..Len(c) - 1
        PROVE  \E m \in 1..Len(c) \ {n} : d[i] = c[m] /\ m = IF i < n THEN i ELSE i + 1
    BY <1>1, <2>1, <2>7
  <2>9. \A i \in DOMAIN d : d[i].key # k /\ In(d[i], c)
    BY <1>1, <2>1, <2>6, <2>8 DEF In
  <2>10. ASSUME NEW i \in DOMAIN d, NEW j \in DOMAIN d, d[i].key = d[j].key PROVE i = j
    <3>1. PICK m \in 1..Len(c) \ {n} : d[i] = c[m] /\ m = IF i < n THEN i ELSE i + 1
      BY <2>6, <2>8
    <3>2. PICK l \in 1..Len(c) \ {n} : d[j] = c[l] /\ l = IF j < n THEN j ELSE j + 1
      BY <2>6, <2>8
    <3>3. m = l
      BY <1>1, <2>10, <3>1, <3>2
    <3>4. i \in Int /\ j \in Int /\ n \in Int
      BY <1>1, <2>1, <2>6
    <3> QED BY <3>1, <3>2, <3>3, <3>4
  <2>11. d \in Lru(K, V)
    BY <1>1, <2>6, <2>10, RefDataAssumption DEF Lru
  <2> QED BY <1>1, <1>3, <2>5, <2>6, <2>9, <2>11
<1> QED BY <1>2, <1>3

\* A put adds one entry, and stays within the size.
LEMMA PutGood ==
  ASSUME NEW K, NEW V, NEW c \in Lru(K, V), NEW k \in K, NEW v \in V
  PROVE  /\ Put(c, k, v) \in Lru(K, V)
         /\ \A i \in DOMAIN Put(c, k, v) : Put(c, k, v)[i] = [key |-> k, val |-> v] \/ In(Put(c, k, v)[i], c)
<1> DEFINE e == [key |-> k, val |-> v]
<1>1. PICK d : d = Drop(c, k)
  OBVIOUS
<1>2. /\ d \in Seq([key: K, val: V]) /\ Len(d) \in Nat /\ Len(d) <= CacheSize /\ DOMAIN d = 1..Len(d)
      /\ \A i, j \in 1..Len(d) : d[i].key = d[j].key => i = j
      /\ \A i \in 1..Len(d) : d[i].key # k /\ In(d[i], c)
  <2>1. d \in Lru(K, V) /\ \A i \in DOMAIN d : d[i].key # k /\ In(d[i], c)
    BY <1>1, DropGood
  <2> QED BY <2>1 DEF Lru
<1>3. PICK f : f = Append(d, e)
  OBVIOUS
<1>4. e \in [key: K, val: V] /\ e.key = k
  OBVIOUS
<1> HIDE DEF e
<1>5. /\ f \in Seq([key: K, val: V]) /\ Len(f) = Len(d) + 1 /\ DOMAIN f = 1..Len(f)
      /\ f[Len(d) + 1] = e /\ \A i \in 1..Len(d) : f[i] = d[i]
  BY <1>2, <1>3, <1>4
<1>6. \A i \in 1..Len(f) : f[i] = e \/ In(f[i], c)
  <2>1. \A i \in 1..Len(f) : i \in 1..Len(d) \/ i = Len(d) + 1
    BY <1>2, <1>5
  <2> QED BY <1>2, <1>5, <2>1
<1>7. ASSUME NEW i \in 1..Len(f), NEW j \in 1..Len(f), f[i].key = f[j].key PROVE i = j
  <2>1. (i \in 1..Len(d) \/ i = Len(d) + 1) /\ (j \in 1..Len(d) \/ j = Len(d) + 1)
    BY <1>2, <1>5
  <2> QED BY <1>2, <1>4, <1>5, <1>7, <2>1
<1>8. PICK g : g = Put(c, k, v)
  OBVIOUS
<1>9. g = IF Len(f) > CacheSize THEN Tail(f) ELSE f
  BY <1>1, <1>3, <1>8 DEF Put, e
<1>10. CASE Len(f) > CacheSize
  <2>1. /\ g \in Seq([key: K, val: V]) /\ Len(g) = Len(d) /\ DOMAIN g = 1..Len(d)
        /\ \A i \in 1..Len(d) : g[i] = f[i + 1]
    BY <1>2, <1>5, <1>9, <1>10
  <2>2. \A i \in 1..Len(d) : i + 1 \in 1..Len(f)
    BY <1>2, <1>5
  <2>3. \A i \in DOMAIN g : g[i] = e \/ In(g[i], c)
    BY <1>6, <2>1, <2>2
  <2>4. ASSUME NEW i \in DOMAIN g, NEW j \in DOMAIN g, g[i].key = g[j].key PROVE i = j
    <3>1. i \in Int /\ j \in Int /\ f[i + 1].key = f[j + 1].key /\ i + 1 \in 1..Len(f) /\ j + 1 \in 1..Len(f)
      BY <2>1, <2>2, <2>4
    <3>2. i + 1 = j + 1
      BY <1>7, <3>1
    <3> QED BY <3>1, <3>2
  <2>5. g \in Lru(K, V)
    BY <1>2, <2>1, <2>4 DEF Lru
  <2> QED BY <1>8, <2>3, <2>5 DEF e
<1>11. CASE ~(Len(f) > CacheSize)
  <2>1. g = f /\ Len(f) <= CacheSize
    BY <1>2, <1>5, <1>9, <1>11, RefDataAssumption
  <2>2. g \in Lru(K, V)
    BY <1>5, <1>7, <2>1 DEF Lru
  <2> QED BY <1>5, <1>6, <1>8, <2>1, <2>2 DEF e
<1> QED BY <1>10, <1>11

\* What a hit answers is the value of an entry.
LEMMA CachedIn ==
  ASSUME NEW K, NEW V, NEW c \in Lru(K, V), NEW k, Hit(c, k)
  PROVE  /\ Cached(c, k) \in V
         /\ \E i \in DOMAIN c : c[i].key = k /\ c[i].val = Cached(c, k)
<1>1. Place(c, k) \in DOMAIN c /\ c[Place(c, k)].key = k
  BY DEF Hit, Place
<1>2. c \in Seq([key: K, val: V]) /\ DOMAIN c = 1..Len(c)
  BY DEF Lru
<1>3. c[Place(c, k)] \in [key: K, val: V]
  BY <1>1, <1>2, ElementOfSeq
<1> QED BY <1>1, <1>3 DEF Cached

-----------------------------------------------------------------------------
(* What the collector and the web process hold of the tables *)

CacheTypes ==
    /\ Typed /\ before \in Overrides /\ filled \in BOOLEAN /\ polls \in Nat /\ bust \subseteq Airframes
    /\ flights \in Seq(Opened)
    /\ aircraft \in Lru(Airframes, Answers) /\ adsbx \in Lru(Airframes, Shows) /\ airline \in Lru(Codes, Answers)

\* The updater runs without the collector, and a collector that is not up has no cache.
Alone ==
    /\ pc["updater"] # "down" => pc["collector"] = "down"
    /\ pc["collector"] # "up" => aircraft = <<>> /\ adsbx = <<>> /\ look = None /\ bust = {}

AircraftTrue == \A i \in DOMAIN aircraft : aircraft[i].val = Value("aircraft_db", aircraft[i].key)

\* A look-up that has read and not stored yet is at most one poll behind.
LookTrue == look # None =>
    /\ look.air \in Airframes /\ look.row \in Shows /\ look.reg \in Answers
    /\ look.reg = Value("aircraft_db", look.air)
    /\ look.polls \in Nat /\ look.polls <= polls
    /\ look.polls = polls => look.row = Shown(overrides[look.air])
    /\ look.row \in {Shown(overrides[look.air]), Shown(before[look.air])}

FilledOk == filled => store["aircraft_db"].base # None

CacheInv == CacheTypes /\ Alone /\ AircraftTrue /\ LookTrue /\ OneUpsertBehind /\ FilledOk /\ NoBlankWhenKnown

\* The caches begin empty.
LEMMA CacheInit == Init => CacheInv
<1> SUFFICES ASSUME Init PROVE CacheInv
  OBVIOUS
<1>1. /\ overrides = [x \in Airframes |-> None] /\ before = overrides
      /\ flights = <<>> /\ filled = FALSE /\ pc = [p \in Procs |-> "down"]
      /\ aircraft = <<>> /\ adsbx = <<>> /\ airline = <<>> /\ look = None /\ bust = {} /\ polls = 0
  BY DEF Init
<1>2. ASSUME NEW K, NEW V PROVE <<>> \in Lru(K, V)
  BY RefDataAssumption DEF Lru
<1>3. Typed /\ before \in Overrides
  BY <1>1 DEF Typed, Overrides
<1>4. CacheTypes
  <2>1. aircraft \in Lru(Airframes, Answers) /\ adsbx \in Lru(Airframes, Shows) /\ airline \in Lru(Codes, Answers)
    BY <1>1, <1>2
  <2>2. flights \in Seq(Opened)
    BY <1>1
  <2>3. filled \in BOOLEAN /\ polls \in Nat /\ bust \subseteq Airframes
    BY <1>1
  <2> QED BY <1>3, <2>1, <2>2, <2>3 DEF CacheTypes
<1>5. Alone
  BY <1>1 DEF Alone, Procs
<1> QED BY <1>1, <1>4, <1>5 DEF CacheInv, AircraftTrue, LookTrue, OneUpsertBehind, FilledOk, NoBlankWhenKnown

\* A table that is there is what the readers see of it until the updater replaces it.
LEMMA BaseStays ==
  ASSUME TablesInv, [Next]_vars, NEW t \in Tables, store[t].base # None,
         update_aircraft_db => t # "aircraft_db", update_airlines_db => t # "airlines"
  PROVE  store'[t].base = store[t].base
<1> USE DEF tables, caches, threads, history, bounds
<1>0. store \in [Tables -> Copies] /\ plan \in [Procs -> Seq(Todo)]
  BY DEF TablesInv, Types
<1>1. ASSUME NEW p \in Procs, RecoverStep(p) PROVE store'[t].base = store[t].base
  <2>1. PICK stmt, u : stmt = Head(plan[p])[1] /\ u = Head(plan[p])[2]
    OBVIOUS
  <2>2. plan[p] # <<>> /\ (store' = store \/ (stmt # "read" /\ Exec(stmt, u)))
    <3>1. plan[p] # <<>> /\ (IF Head(plan[p])[1] = "read" THEN UNCHANGED tables ELSE Exec(Head(plan[p])[1], Head(plan[p])[2]))
      BY <1>1 DEF RecoverStep
    <3> QED BY <2>1, <3>1
  <2>3. stmt \in Stmts /\ u \in Tables
    <3>1. Head(plan[p]) \in Todo
      BY <1>0, <2>2
    <3> QED BY <2>1, <3>1 DEF Todo
  <2>4. \/ store' = store
        \/ store[u].base = None /\ store' = [store EXCEPT ![u].base = store[u].old, ![u].old = None]
        \/ store' = [store EXCEPT ![u].old = None]
        \/ store' = [store EXCEPT ![u].new = None]
    <3>1. ASSUME Exec(stmt, u), stmt # "read"
          PROVE  \/ store' = store
                 \/ store[u].base = None /\ store' = [store EXCEPT ![u].base = store[u].old, ![u].old = None]
                 \/ store' = [store EXCEPT ![u].old = None]
                 \/ store' = [store EXCEPT ![u].new = None]
      <4>1. CASE stmt = "restore"
        BY <3>1, <4>1 DEF Exec
      <4>2. CASE stmt = "drop_old"
        BY <3>1, <4>2 DEF Exec
      <4>3. CASE stmt = "drop_new"
        BY <3>1, <4>3 DEF Exec
      <4>4. CASE stmt = "index"
        BY <3>1, <4>4 DEF Exec
      <4> QED BY <2>3, <3>1, <4>1, <4>2, <4>3, <4>4 DEF Stmts
    <3> QED BY <2>2, <3>1
  <2> QED BY <1>0, <2>3, <2>4 DEF Copies
<1>2. ASSUME NEW p \in Procs, Start(p) \/ RecoverFails(p) \/ Ready(p) \/ Crash(p) PROVE store' = store
  BY <1>2, ReadyKeeps DEF Start, RecoverFails, Crash
<1>3. CASE update_aircraft_db
  BY <1>0, <1>3 DEF update_aircraft_db, Swap
<1>4. CASE update_airlines_db
  BY <1>0, <1>4 DEF update_airlines_db, Swap
<1>5. CASE UpdaterStart \/ UpdateFails \/ backfill_flights \/ PurgeOverrides \/ Upsert
  BY <1>5 DEF UpdaterStart, UpdateFails, backfill_flights, PurgeOverrides, Upsert
<1>6. CASE invalidate_adsbx \/ Lookup \/ LookupStores \/ BackgroundBackfill \/ lookup_airline
  BY <1>6 DEF invalidate_adsbx, Lookup, LookupStores, BackgroundBackfill, lookup_airline
<1>7. CASE UNCHANGED vars
  BY <1>7 DEF vars
<1> QED BY <1>1, <1>2, <1>3, <1>4, <1>5, <1>6, <1>7 DEF Next

\* A look-up of a table that is there answers one of its values, or none.
LEMMA ValueAnswers ==
  ASSUME TablesInv, NEW t \in Tables, store[t].base # None, NEW k
  PROVE  Value(t, k) \in Answers
<1>1. store[t].base \in Contents
  BY DEF TablesInv, Types, Copies
<1> QED BY <1>1 DEF Value, Answers

\* With the collector up, or flights filled, aircraft_db is there.
LEMMA AircraftThere ==
  ASSUME TablesInv, CacheInv, pc["collector"] = "up" \/ pc["updater"] \in {"backfill", "purge"} \/ filled
  PROVE  "aircraft_db" \in Tables /\ store["aircraft_db"].base # None
  BY UpstreamAssumption DEF TablesInv, ServedWhole, CacheInv, FilledOk, Procs

\* Steps of the processes' starts and ends, and of the swaps, that leave what the
\* collector and the web process hold.
LEMMA StartsKeep ==
  ASSUME TablesInv, CacheInv, TablesInv', Alone',
         UNCHANGED <<overrides, before, flights, filled, polls>>,
         (pc'["collector"] = "up" => UNCHANGED <<aircraft, adsbx, look, bust>>),
         (pc'["collector"] # "up" => aircraft' = <<>> /\ adsbx' = <<>> /\ look' = None /\ bust' = {}),
         airline' \in {airline, <<>>},
         (pc'["collector"] = "up" \/ filled) /\ store["aircraft_db"].base # None
            => store'["aircraft_db"].base = store["aircraft_db"].base,
         pc'["collector"] = "up" => pc["collector"] \in {"recover", "up"}
  PROVE  CacheInv'
<1>0. /\ overrides' = overrides /\ before' = before /\ flights' = flights /\ filled' = filled /\ polls' = polls
  OBVIOUS
<1>1. ASSUME NEW K, NEW V PROVE <<>> \in Lru(K, V)
  BY RefDataAssumption DEF Lru
<1>2. CacheTypes'
  <2>1. aircraft' \in {aircraft, <<>>} /\ adsbx' \in {adsbx, <<>>} /\ bust' \in {bust, {}}
    OBVIOUS
  <2> QED BY <1>0, <1>1, <2>1 DEF CacheInv, CacheTypes, Typed
<1>3. ASSUME filled PROVE FilledOk' /\ NoBlankWhenKnown'
  <2>1. store["aircraft_db"].base # None
    BY <1>3, AircraftThere
  <2>2. store'["aircraft_db"].base = store["aircraft_db"].base
    BY <1>3, <2>1
  <2> QED BY <1>0, <2>1, <2>2 DEF CacheInv, FilledOk, NoBlankWhenKnown, Value
<1>4. ASSUME ~filled PROVE FilledOk' /\ NoBlankWhenKnown'
  BY <1>0, <1>4 DEF FilledOk, NoBlankWhenKnown
<1>5. CASE pc'["collector"] # "up"
  <2>1. AircraftTrue' /\ LookTrue' /\ OneUpsertBehind'
    BY <1>5 DEF AircraftTrue, LookTrue, OneUpsertBehind
  <2> QED BY <1>2, <1>3, <1>4, <2>1 DEF CacheInv
<1>6. CASE pc["collector"] # "up"
  <2>1. aircraft' = <<>> /\ adsbx' = <<>> /\ look' = None
    BY <1>6 DEF CacheInv, Alone
  <2>2. AircraftTrue' /\ LookTrue' /\ OneUpsertBehind'
    BY <2>1 DEF AircraftTrue, LookTrue, OneUpsertBehind
  <2> QED BY <1>2, <1>3, <1>4, <2>2 DEF CacheInv
<1>7. CASE pc["collector"] = "up" /\ pc'["collector"] = "up"
  <2>1. store'["aircraft_db"].base = store["aircraft_db"].base
    BY <1>7, AircraftThere
  <2>2. UNCHANGED <<aircraft, adsbx, look, bust>>
    BY <1>7
  <2>3. AircraftTrue' /\ LookTrue' /\ OneUpsertBehind'
    BY <1>0, <2>1, <2>2 DEF CacheInv, AircraftTrue, LookTrue, OneUpsertBehind, Value, Shown
  <2> QED BY <1>2, <1>3, <1>4, <2>3 DEF CacheInv
<1> QED BY <1>5, <1>6, <1>7

\* Only recoveries and swaps write the tables.
LEMMA TablesStep == ASSUME TablesInv, [Next]_vars PROVE TablesInv'
<1> USE DEF tables, caches, threads, history, bounds
<1>0. /\ pc \in [Procs -> {"down", "recover"} \cup Past] /\ plan \in [Procs -> Seq(Todo)]
      /\ \A p \in Procs : pc[p] # "recover" => plan[p] = <<>>
  BY DEF TablesInv, Types
<1>0a. <<>> \in Seq(Todo) /\ Begin \in Seq(Todo) /\ {"updater", "collector"} \subseteq Procs
  BY BeginReads DEF Procs
<1>1. ASSUME NEW p \in Procs, Start(p) PROVE TablesInv'
  <2>1. /\ pc' = [pc EXCEPT ![p] = "recover"] /\ plan' = [plan EXCEPT ![p] = Begin] /\ UNCHANGED tables
    BY <1>1 DEF Start
  <2> QED BY <1>0, <1>0a, <2>1, Moves DEF Past
<1>2. ASSUME NEW p \in Procs, RecoverFails(p) \/ Crash(p) PROVE TablesInv'
  <2>1. /\ pc' = [pc EXCEPT ![p] = "down"] /\ plan' = [plan EXCEPT ![p] = <<>>] /\ UNCHANGED tables
    BY <1>2 DEF RecoverFails, Crash
  <2> QED BY <1>0, <1>0a, <2>1, Moves DEF Past
<1>3. CASE UpdaterStart
  <2>1. /\ pc' = [pc EXCEPT !["updater"] = "recover", !["collector"] = "down"]
        /\ plan' = [plan EXCEPT !["updater"] = Begin] /\ UNCHANGED tables /\ pc["collector"] # "recover"
    BY <1>3 DEF UpdaterStart
  <2>2. pc' \in [Procs -> {"down", "recover"} \cup Past] /\ plan' \in [Procs -> Seq(Todo)]
    BY <1>0, <1>0a, <2>1
  <2>3. ASSUME NEW p \in Procs
        PROVE  /\ pc'[p] = "recover" => plan'[p] = Begin \/ (pc[p] = "recover" /\ plan'[p] = plan[p])
               /\ pc'[p] # "recover" => plan'[p] = <<>>
               /\ pc'[p] \in Past => pc[p] \in Past
    BY <1>0, <1>0a, <2>1 DEF Past
  <2> QED BY <2>1, <2>2, <2>3, Moves
<1>4. CASE UpdateFails \/ backfill_flights \/ PurgeOverrides
  <2>1. PICK next \in {"down", "purge"} :
          /\ pc' = [pc EXCEPT !["updater"] = next] /\ plan' = plan /\ UNCHANGED tables
          /\ pc["updater"] \in {"aircraft_db", "airlines", "backfill", "purge"}
    BY <1>4 DEF UpdateFails, backfill_flights, PurgeOverrides
  <2>2. pc' \in [Procs -> {"down", "recover"} \cup Past]
    BY <1>0, <1>0a, <2>1 DEF Past
  <2>3. ASSUME NEW p \in Procs
        PROVE  /\ pc'[p] = "recover" => plan'[p] = Begin \/ (pc[p] = "recover" /\ plan'[p] = plan[p])
               /\ pc'[p] # "recover" => plan'[p] = <<>>
               /\ pc'[p] \in Past => pc[p] \in Past
    BY <1>0, <1>0a, <2>1 DEF Past
  <2> QED BY <1>0, <2>1, <2>2, <2>3, Moves
<1>5. CASE UNCHANGED <<pc, plan, store, index>>
  BY <1>0, <1>5, Moves
<1>6. CASE Upsert \/ invalidate_adsbx \/ Lookup \/ LookupStores \/ BackgroundBackfill \/ lookup_airline
  BY <1>5, <1>6 DEF Upsert, invalidate_adsbx, Lookup, LookupStores, BackgroundBackfill, lookup_airline
<1>7. CASE UNCHANGED vars
  BY <1>5, <1>7 DEF vars
<1>8. CASE update_aircraft_db \/ update_airlines_db
  BY <1>8, SwapKeeps, UpstreamAssumption DEF update_aircraft_db, update_airlines_db, Past
<1> QED BY <1>1, <1>2, <1>3, <1>4, <1>6, <1>7, <1>8, RecoverStepKeeps, ReadyKeeps DEF Next

\* Starts, recoveries, ends, and the swap of airlines.
LEMMA ProcessesKeep ==
  ASSUME TablesInv, CacheInv, [Next]_vars,
         ~update_aircraft_db,
         \/ \E p \in Procs : Start(p) \/ RecoverStep(p) \/ RecoverFails(p) \/ Ready(p) \/ Crash(p)
         \/ UpdaterStart \/ UpdateFails \/ update_airlines_db
  PROVE  CacheInv'
<1> USE DEF tables, caches, threads, history, bounds
<1>0. /\ pc \in [Procs -> {"down", "recover"} \cup Past]
      /\ pc["updater"] # "down" => pc["collector"] = "down"
      /\ pc["collector"] # "up" => aircraft = <<>> /\ adsbx = <<>> /\ look = None /\ bust = {}
      /\ filled \in BOOLEAN /\ "updater" \in Procs /\ "collector" \in Procs
  BY DEF TablesInv, Types, CacheInv, CacheTypes, Alone, Procs
<1>1. TablesInv'
  BY TablesStep
<1>2. "aircraft_db" \in Tables /\ "aircraft_db" # "airlines"
  BY UpstreamAssumption
<1> DEFINE Left == /\ UNCHANGED <<overrides, before, flights, filled, polls>>
                   /\ pc'["collector"] = "up" => UNCHANGED <<aircraft, adsbx, look, bust>>
                   /\ pc'["collector"] # "up" => aircraft' = <<>> /\ adsbx' = <<>> /\ look' = None /\ bust' = {}
                   /\ airline' \in {airline, <<>>}
                   /\ pc'["collector"] = "up" => pc["collector"] \in {"recover", "up"}
                   /\ pc'["updater"] # "down" => pc'["collector"] = "down"
<1>3. ASSUME Left PROVE CacheInv'
  <2>1. store["aircraft_db"].base # None => store'["aircraft_db"].base = store["aircraft_db"].base
    BY <1>2, <1>3, BaseStays
  <2>2. Alone'
    BY <1>3 DEF Alone
  <2> QED BY <1>1, <1>3, <2>1, <2>2, StartsKeep
<1> HIDE DEF Left
<1>4. ASSUME NEW p \in Procs, Start(p) PROVE CacheInv'
  <2>1. /\ UNCHANGED <<overrides, flights, aircraft, adsbx, airline, look, bust, before, filled, polls>>
        /\ pc' = [pc EXCEPT ![p] = "recover"] /\ p # "updater" /\ pc[p] = "down"
        /\ pc["updater"] \in {"down"} \cup
             (IF p = "web" THEN {"recover", "aircraft_db", "airlines", "backfill", "purge"} ELSE {})
    BY <1>4 DEF Start
  <2>2. CASE p = "collector"
    <3>1. pc'["collector"] = "recover" /\ pc'["updater"] = "down" /\ pc["updater"] = "down"
      BY <1>0, <2>1, <2>2
    <3> QED BY <1>0, <1>3, <2>1, <2>2, <3>1 DEF Left
  <2>3. CASE p = "web"
    <3>1. pc'["collector"] = pc["collector"] /\ pc'["updater"] = pc["updater"]
      BY <1>0, <2>1, <2>3
    <3> QED BY <1>0, <1>3, <2>1, <2>3, <3>1 DEF Left
  <2> QED BY <2>1, <2>2, <2>3 DEF Procs
<1>5. ASSUME NEW p \in Procs, RecoverStep(p) PROVE CacheInv'
  <2>1. /\ UNCHANGED <<overrides, flights, aircraft, adsbx, airline, look, bust, before, filled, polls>> /\ pc' = pc
    BY <1>5 DEF RecoverStep
  <2> QED BY <1>0, <1>3, <2>1 DEF Left
<1>6. ASSUME NEW p \in Procs, RecoverFails(p) PROVE CacheInv'
  <2>1. /\ UNCHANGED <<overrides, flights, aircraft, adsbx, airline, look, bust, before, filled, polls>>
        /\ pc' = [pc EXCEPT ![p] = "down"] /\ pc[p] = "recover"
    BY <1>6 DEF RecoverFails
  <2>2. pc'["collector"] \in {pc["collector"], "down"} /\ pc'["updater"] \in {pc["updater"], "down"}
    BY <1>0, <2>1
  <2>3. pc'["collector"] # "up" => pc["collector"] # "up"
    BY <1>0, <2>1
  <2> QED BY <1>0, <1>3, <2>1, <2>2, <2>3 DEF Left
<1>7. ASSUME NEW p \in Procs, Ready(p) PROVE CacheInv'
  <2>1. /\ UNCHANGED <<overrides, flights, aircraft, adsbx, airline, look, bust, before, filled, polls>>
        /\ pc' = [pc EXCEPT ![p] = IF p = "updater" THEN "aircraft_db" ELSE "up"] /\ pc[p] = "recover"
    BY <1>7 DEF Ready
  <2>2. CASE p = "updater"
    <3>1. pc'["collector"] = "down" /\ pc["collector"] = "down"
      BY <1>0, <2>1, <2>2
    <3> QED BY <1>0, <1>3, <2>1, <3>1 DEF Left
  <2>3. CASE p = "collector"
    <3>1. pc'["collector"] = "up" /\ pc["collector"] = "recover" /\ pc'["updater"] = "down"
      BY <1>0, <2>1, <2>3
    <3> QED BY <1>0, <1>3, <2>1, <3>1 DEF Left
  <2>4. CASE p = "web"
    <3>1. pc'["collector"] = pc["collector"] /\ pc'["updater"] = pc["updater"]
      BY <1>0, <2>1, <2>4
    <3> QED BY <1>0, <1>3, <2>1, <3>1 DEF Left
  <2> QED BY <2>2, <2>3, <2>4 DEF Procs
<1>8. ASSUME NEW p \in Procs, Crash(p) PROVE CacheInv'
  <2>1. /\ UNCHANGED <<overrides, flights, before, filled, polls>> /\ pc' = [pc EXCEPT ![p] = "down"]
        /\ IF p = "collector" THEN aircraft' = <<>> /\ adsbx' = <<>> /\ look' = None /\ bust' = {}
                          ELSE UNCHANGED <<aircraft, adsbx, look, bust>>
        /\ airline' = IF p = "web" THEN <<>> ELSE airline
    BY <1>8 DEF Crash, Forget
  <2>2. CASE p = "collector"
    <3>1. pc'["collector"] = "down"
      BY <1>0, <2>1, <2>2
    <3> QED BY <1>3, <2>1, <2>2, <3>1 DEF Left
  <2>3. CASE p # "collector"
    <3>1. pc'["collector"] = pc["collector"] /\ pc'["updater"] \in {pc["updater"], "down"}
      BY <1>0, <2>1, <2>3
    <3> QED BY <1>0, <1>3, <2>1, <2>3, <3>1 DEF Left
  <2> QED BY <2>2, <2>3
<1>9. CASE UpdaterStart
  <2>1. /\ UNCHANGED <<overrides, flights, before, filled, polls, airline>>
        /\ aircraft' = <<>> /\ adsbx' = <<>> /\ look' = None /\ bust' = {}
        /\ pc' = [pc EXCEPT !["updater"] = "recover", !["collector"] = "down"]
    BY <1>9 DEF UpdaterStart, Forget
  <2>2. pc'["collector"] = "down"
    BY <1>0, <2>1
  <2> QED BY <1>3, <2>1, <2>2 DEF Left
<1>10. CASE UpdateFails
  <2>1. /\ UNCHANGED <<overrides, flights, aircraft, adsbx, airline, look, bust, before, filled, polls>>
        /\ pc' = [pc EXCEPT !["updater"] = "down"]
    BY <1>10 DEF UpdateFails
  <2>2. pc'["collector"] = pc["collector"] /\ pc'["updater"] = "down"
    BY <1>0, <2>1
  <2> QED BY <1>0, <1>3, <2>1, <2>2 DEF Left
<1>11. CASE update_airlines_db
  <2>1. /\ UNCHANGED <<overrides, flights, aircraft, adsbx, airline, look, bust, before, polls>>
        /\ filled' = (filled /\ "airlines" # "aircraft_db")
        /\ pc' = [pc EXCEPT !["updater"] = "backfill"] /\ pc["updater"] = "airlines"
    BY <1>11 DEF update_airlines_db, Swap
  <2>2. filled' = filled
    BY <1>0, <2>1
  <2>3. pc'["collector"] = "down" /\ pc["collector"] = "down"
    BY <1>0, <2>1
  <2> QED BY <1>0, <1>3, <2>1, <2>2, <2>3 DEF Left
<1> QED BY <1>4, <1>5, <1>6, <1>7, <1>8, <1>9, <1>10, <1>11

\* A new aircraft_db: the collector, stopped, has cached nothing of the old one.
LEMMA AircraftSwapKeeps ==
  ASSUME TablesInv, CacheInv, update_aircraft_db PROVE CacheInv'
<1>1. /\ UNCHANGED <<overrides, flights, aircraft, adsbx, airline, look, bust, before, polls>>
      /\ filled' = FALSE
      /\ pc' = [pc EXCEPT !["updater"] = "airlines"] /\ pc["updater"] = "aircraft_db"
  BY DEF update_aircraft_db, Swap, caches, threads, bounds
<1>2. pc["collector"] = "down" /\ pc'["collector"] = "down" /\ aircraft = <<>> /\ adsbx = <<>> /\ look = None /\ bust = {}
  BY <1>1 DEF CacheInv, Alone, TablesInv, Types, Procs
<1>3. CacheTypes'
  BY <1>1 DEF CacheInv, CacheTypes, Typed
<1> QED BY <1>1, <1>2, <1>3 DEF CacheInv, Alone, AircraftTrue, LookTrue, OneUpsertBehind, FilledOk, NoBlankWhenKnown

\* A backfill leaves no flight blank whose aircraft has a registration.
LEMMA FilledGood ==
  ASSUME TablesInv, flights \in Seq(Opened), "aircraft_db" \in Tables, store["aircraft_db"].base # None
  PROVE  /\ Filled \in Seq(Opened)
         /\ \A i \in DOMAIN Filled : Filled[i].reg = None => Value("aircraft_db", Filled[i].air) = None
<1>1. DOMAIN flights = 1..Len(flights) /\ Len(flights) \in Nat
  OBVIOUS
<1>2. ASSUME NEW i \in DOMAIN flights
      PROVE  /\ Filled[i] \in Opened
             /\ Filled[i].reg = None => Value("aircraft_db", Filled[i].air) = None
  <2>1. flights[i] \in Opened
    BY <1>1, ElementOfSeq
  <2>2. PICK v : v = Value("aircraft_db", flights[i].air)
    OBVIOUS
  <2>3. v \in Answers
    BY <2>2, ValueAnswers
  <2>4. Filled[i] = [flights[i] EXCEPT !.reg = Or(flights[i].reg, v)]
    BY <2>2 DEF Filled
  <2>5. /\ Filled[i] \in Opened /\ Filled[i].air = flights[i].air /\ Filled[i].reg = Or(flights[i].reg, v)
    BY <2>1, <2>3, <2>4 DEF Opened, Or
  <2> QED BY <2>2, <2>5 DEF Or
<1>3. DOMAIN Filled = 1..Len(flights)
  BY <1>1 DEF Filled
<1>4. Filled \in [1..Len(flights) -> Opened]
  <2>1. Filled = [i \in 1..Len(flights) |-> Filled[i]]
    BY <1>1 DEF Filled
  <2> QED BY <1>1, <1>2, <2>1
<1>5. Filled \in Seq(Opened)
  BY <1>1, <1>4, SeqDef
<1> QED BY <1>1, <1>2, <1>3, <1>5

\* Either backfill gives every flight what aircraft_db has of its aircraft.
LEMMA BackfillsKeep ==
  ASSUME TablesInv, CacheInv, backfill_flights \/ BackgroundBackfill PROVE CacheInv'
<1>1. /\ UNCHANGED <<store, overrides, aircraft, adsbx, airline, look, bust, before, polls>>
      /\ flights' = Filled /\ filled' = TRUE
      /\ pc' = pc \/ pc' = [pc EXCEPT !["updater"] = "purge"]
      /\ pc["updater"] = "backfill" \/ (pc["collector"] = "up" /\ pc' = pc)
  BY DEF backfill_flights, BackgroundBackfill, tables, caches, threads, bounds
<1>2. "aircraft_db" \in Tables /\ store["aircraft_db"].base # None
  BY <1>1, AircraftThere
<1>3. flights \in Seq(Opened) /\ overrides \in Overrides /\ before \in Overrides
  BY DEF CacheInv, CacheTypes, Typed
<1>4. flights' \in Seq(Opened) /\ NoBlankWhenKnown'
  <2>1. \A i \in DOMAIN flights' : flights'[i].reg = None => Value("aircraft_db", flights'[i].air) = None
    BY <1>1, <1>2, <1>3, FilledGood
  <2>2. \A k : Value("aircraft_db", k)' = Value("aircraft_db", k)
    BY <1>1 DEF Value
  <2> QED BY <1>1, <1>2, <1>3, <2>1, <2>2, FilledGood DEF NoBlankWhenKnown
<1>5. CacheTypes'
  BY <1>1, <1>4 DEF CacheInv, CacheTypes, Typed
<1>6. Alone'
  <2>1. pc \in [Procs -> {"down", "recover"} \cup Past] /\ "updater" \in Procs /\ "collector" \in Procs
    BY DEF TablesInv, Types, Procs
  <2>2. pc'["collector"] = pc["collector"] /\ (pc'["updater"] # "down" => pc["updater"] # "down")
    BY <1>1, <2>1
  <2> QED BY <1>1, <2>2 DEF CacheInv, Alone
<1>7. FilledOk'
  BY <1>1, <1>2 DEF FilledOk
<1>8. AircraftTrue' /\ LookTrue' /\ OneUpsertBehind'
  BY <1>1 DEF CacheInv, AircraftTrue, LookTrue, OneUpsertBehind, Value, Shown
<1> QED BY <1>4, <1>5, <1>6, <1>7, <1>8 DEF CacheInv

\* The weekly expiry runs while no collector holds a row.
LEMMA PurgeKeepsCaches ==
  ASSUME TablesInv, CacheInv, PurgeOverrides PROVE CacheInv'
<1>1. /\ UNCHANGED <<store, flights, aircraft, adsbx, airline, look, bust, filled, polls>>
      /\ before' = overrides' /\ pc["updater"] = "purge" /\ pc' = [pc EXCEPT !["updater"] = "down"]
  BY DEF PurgeOverrides, tables, caches, threads, bounds
<1>2. pc["collector"] = "down" /\ pc'["collector"] = "down" /\ pc'["updater"] = "down"
      /\ aircraft = <<>> /\ adsbx = <<>> /\ look = None /\ bust = {}
  BY <1>1 DEF CacheInv, Alone, TablesInv, Types, Procs
<1>3. Typed'
  BY PurgeKeeps DEF CacheInv, CacheTypes
<1>4. CacheTypes'
  BY <1>1, <1>3 DEF CacheInv, CacheTypes, Typed
<1>5. FilledOk' /\ NoBlankWhenKnown'
  BY <1>1 DEF CacheInv, FilledOk, NoBlankWhenKnown, Value
<1> QED BY <1>1, <1>2, <1>4, <1>5 DEF CacheInv, Alone, AircraftTrue, LookTrue, OneUpsertBehind

\* A poll begins only after the rows of the last one are out of the cache, and no
\* look-up spans two of them.
LEMMA UpsertKeepsCaches ==
  ASSUME TablesInv, CacheInv, Upsert PROVE CacheInv'
<1>1. /\ UNCHANGED <<store, flights, pc, aircraft, adsbx, airline, look, filled>>
      /\ pc["collector"] = "up" /\ bust = {} /\ polls' = polls + 1
      /\ look # None => look.polls = polls
  BY DEF Upsert, tables, caches
<1>2. PICK xs \in SUBSET Airframes :
         /\ \A x \in Airframes \ xs : overrides'[x] = overrides[x]
         /\ before' = [x \in Airframes |-> IF x \in xs THEN overrides[x] ELSE before[x]]
         /\ bust' = xs
  BY DEF Upsert
<1>3. overrides \in Overrides /\ before \in Overrides /\ polls \in Nat /\ adsbx \in Lru(Airframes, Shows)
  BY DEF CacheInv, CacheTypes, Typed
<1>4. Typed'
  BY UpsertTyped DEF CacheInv, CacheTypes
<1>5. before' \in Overrides
  BY <1>2, <1>3 DEF Overrides
<1>6. CacheTypes'
  BY <1>1, <1>2, <1>3, <1>4, <1>5 DEF CacheInv, CacheTypes
<1>7. Alone' /\ AircraftTrue' /\ FilledOk' /\ NoBlankWhenKnown'
  BY <1>1 DEF CacheInv, Alone, AircraftTrue, FilledOk, NoBlankWhenKnown, Value
<1>8. OneUpsertBehind'
  <2>1. SUFFICES ASSUME NEW i \in DOMAIN adsbx, adsbx[i].key \notin xs
                 PROVE  adsbx[i].val \in {Shown(overrides'[adsbx[i].key]), Shown(before'[adsbx[i].key])}
    BY <1>1, <1>2 DEF OneUpsertBehind
  <2>2. adsbx[i].val \in {Shown(overrides[adsbx[i].key]), Shown(before[adsbx[i].key])}
    BY <1>1 DEF CacheInv, OneUpsertBehind
  <2>3. adsbx[i].key \in Airframes
    <3>1. adsbx \in Seq([key: Airframes, val: Shows]) /\ DOMAIN adsbx = 1..Len(adsbx)
      BY <1>3 DEF Lru
    <3>2. adsbx[i] \in [key: Airframes, val: Shows]
      BY <3>1, ElementOfSeq
    <3> QED BY <3>2
  <2> QED BY <1>2, <2>1, <2>2, <2>3
<1>9. LookTrue'
  <2>1. SUFFICES ASSUME look # None
                 PROVE  /\ look.air \in Airframes /\ look.row \in Shows /\ look.reg \in Answers
                        /\ look.reg = Value("aircraft_db", look.air)
                        /\ look.polls \in Nat /\ look.polls < polls + 1
                        /\ look.row \in {Shown(overrides'[look.air]), Shown(before'[look.air])}
    BY <1>1, <1>3 DEF LookTrue, Value
  <2>2. /\ look.air \in Airframes /\ look.row \in Shows /\ look.reg \in Answers
        /\ look.reg = Value("aircraft_db", look.air) /\ look.polls \in Nat /\ look.polls = polls
        /\ look.row = Shown(overrides[look.air])
    BY <1>1, <2>1 DEF CacheInv, LookTrue
  <2>3. look.row \in {Shown(overrides'[look.air]), Shown(before'[look.air])}
    BY <1>2, <2>2
  <2> QED BY <2>2, <2>3
<1> QED BY <1>6, <1>7, <1>8, <1>9 DEF CacheInv

\* An invalidated airframe is out of the cache.
LEMMA InvalidateKeepsCaches ==
  ASSUME TablesInv, CacheInv, invalidate_adsbx PROVE CacheInv'
<1>1. PICK x \in bust : adsbx' = Drop(adsbx, x) /\ bust' = bust \ {x}
  BY DEF invalidate_adsbx
<1>2. UNCHANGED <<store, overrides, flights, pc, aircraft, airline, look, before, filled, polls>>
  BY DEF invalidate_adsbx, tables, history, bounds
<1>3. adsbx \in Lru(Airframes, Shows)
  BY DEF CacheInv, CacheTypes
<1>4. PICK d : d = Drop(adsbx, x)
  OBVIOUS
<1>5. d \in Lru(Airframes, Shows) /\ \A i \in DOMAIN d : d[i].key # x /\ In(d[i], adsbx)
  BY <1>3, <1>4, DropGood
<1>6. CacheTypes'
  BY <1>1, <1>2, <1>4, <1>5 DEF CacheInv, CacheTypes, Typed
<1>7. Alone' /\ AircraftTrue' /\ LookTrue' /\ FilledOk' /\ NoBlankWhenKnown'
  <2>1. pc["collector"] = "up"
    BY <1>1 DEF CacheInv, Alone
  <2>2. Alone'
    BY <1>2, <2>1 DEF CacheInv, Alone
  <2> QED BY <1>2, <2>2 DEF CacheInv, AircraftTrue, LookTrue, FilledOk, NoBlankWhenKnown, Value, Shown
<1>8. OneUpsertBehind'
  <2>1. SUFFICES ASSUME NEW i \in DOMAIN d, d[i].key \notin bust \ {x}
                 PROVE  d[i].val \in {Shown(overrides[d[i].key]), Shown(before[d[i].key])}
    BY <1>1, <1>2, <1>4 DEF OneUpsertBehind, Shown
  <2>2. d[i].key \notin bust /\ In(d[i], adsbx)
    BY <1>5, <2>1
  <2>3. PICK j \in 1..Len(adsbx) : adsbx[j] = d[i]
    BY <2>2 DEF In
  <2>4. j \in DOMAIN adsbx
    BY <1>3 DEF Lru
  <2> QED BY <2>2, <2>3, <2>4 DEF CacheInv, OneUpsertBehind
<1> QED BY <1>6, <1>7, <1>8 DEF CacheInv

\* The type of an entry.
LEMMA EntryType ==
  ASSUME NEW K, NEW V, NEW c \in Lru(K, V), NEW i \in DOMAIN c
  PROVE  c[i] \in [key: K, val: V]
<1>1. c \in Seq([key: K, val: V]) /\ DOMAIN c = 1..Len(c)
  BY DEF Lru
<1> QED BY <1>1, ElementOfSeq

\* A true cache stays true when a true entry is put.
LEMMA PutAircraft ==
  ASSUME CacheTypes, AircraftTrue, NEW x \in Airframes, NEW v \in Answers, v = Value("aircraft_db", x),
         aircraft' = Put(aircraft, x, v), store' = store
  PROVE  aircraft' \in Lru(Airframes, Answers) /\ AircraftTrue'
<1>1. PICK d : d = Put(aircraft, x, v)
  OBVIOUS
<1>2. d \in Lru(Airframes, Answers) /\ \A i \in DOMAIN d : d[i] = [key |-> x, val |-> v] \/ In(d[i], aircraft)
  BY <1>1, PutGood DEF CacheTypes
<1>3. ASSUME NEW i \in DOMAIN d PROVE d[i].val = Value("aircraft_db", d[i].key)
  <2>1. CASE d[i] = [key |-> x, val |-> v]
    BY <2>1
  <2>2. CASE In(d[i], aircraft)
    <3>1. PICK j \in 1..Len(aircraft) : aircraft[j] = d[i]
      BY <2>2 DEF In
    <3>2. j \in DOMAIN aircraft
      BY DEF CacheTypes, Lru
    <3> QED BY <3>1, <3>2 DEF AircraftTrue
  <2> QED BY <1>2, <2>1, <2>2
<1> QED BY <1>1, <1>2, <1>3 DEF AircraftTrue, Value

\* A cache at most a poll behind stays so when such an entry is put.
LEMMA PutAdsbx ==
  ASSUME CacheTypes, OneUpsertBehind, NEW x \in Airframes, NEW v \in Shows,
         x \in bust \/ v \in {Shown(overrides[x]), Shown(before[x])},
         adsbx' = Put(adsbx, x, v), UNCHANGED <<overrides, before, bust>>
  PROVE  adsbx' \in Lru(Airframes, Shows) /\ OneUpsertBehind'
<1>1. PICK d : d = Put(adsbx, x, v)
  OBVIOUS
<1>2. d \in Lru(Airframes, Shows) /\ \A i \in DOMAIN d : d[i] = [key |-> x, val |-> v] \/ In(d[i], adsbx)
  BY <1>1, PutGood DEF CacheTypes
<1>3. ASSUME NEW i \in DOMAIN d
      PROVE  d[i].key \in bust \/ d[i].val \in {Shown(overrides[d[i].key]), Shown(before[d[i].key])}
  <2>1. CASE d[i] = [key |-> x, val |-> v]
    BY <2>1
  <2>2. CASE In(d[i], adsbx)
    <3>1. PICK j \in 1..Len(adsbx) : adsbx[j] = d[i]
      BY <2>2 DEF In
    <3>2. j \in DOMAIN adsbx
      BY DEF CacheTypes, Lru
    <3> QED BY <3>1, <3>2 DEF OneUpsertBehind
  <2> QED BY <1>2, <2>1, <2>2
<1> QED BY <1>1, <1>2, <1>3 DEF OneUpsertBehind, Shown

\* A flight is opened with what aircraft_db has, when it has anything.
LEMMA OpenGood ==
  ASSUME CacheTypes, NoBlankWhenKnown, NEW x \in Airframes, NEW reg \in Answers, NEW row \in Shows,
         reg = Value("aircraft_db", x), Open(x, reg, row), UNCHANGED <<store, filled>>
  PROVE  flights' \in Seq(Opened) /\ NoBlankWhenKnown'
<1>1. PICK r : r = Or(reg, IF row = None THEN None ELSE row.reg)
  OBVIOUS
<1>2. r \in Answers /\ (r = None => reg = None)
  BY <1>1 DEF Or, Shows, Answers
<1>3. PICK f : f = [air |-> x, reg |-> r]
  OBVIOUS
<1>4. flights' = Append(flights, f) /\ f \in Opened /\ f.air = x /\ f.reg = r
  BY <1>1, <1>2, <1>3 DEF Open, Opened
<1>5. flights \in Seq(Opened)
  BY DEF CacheTypes
<1>6. /\ flights' \in Seq(Opened) /\ DOMAIN flights' = 1..Len(flights) + 1 /\ DOMAIN flights = 1..Len(flights)
      /\ Len(flights) \in Nat
      /\ flights'[Len(flights) + 1] = f /\ \A i \in 1..Len(flights) : flights'[i] = flights[i]
  BY <1>4, <1>5
<1>7. ASSUME filled, NEW i \in DOMAIN flights', flights'[i].reg = None
      PROVE  Value("aircraft_db", flights'[i].air) = None
  <2>1. CASE i = Len(flights) + 1
    BY <1>2, <1>4, <1>6, <1>7, <2>1
  <2>2. CASE i \in 1..Len(flights)
    BY <1>6, <1>7, <2>2 DEF NoBlankWhenKnown
  <2> QED BY <1>6, <2>1, <2>2
<1> QED BY <1>6, <1>7 DEF NoBlankWhenKnown, Value

\* A look-up answers a hit at once, or keeps what it has read.
LEMMA LookupKeeps ==
  ASSUME TablesInv, CacheInv, Lookup PROVE CacheInv'
<1>0. /\ UNCHANGED <<store, overrides, pc, airline, bust, before, filled, polls>>
      /\ pc["collector"] = "up" /\ look = None
  BY DEF Lookup, tables, history, bounds
<1>1. PICK x, reg :
        /\ x \in Airframes
        /\ reg = IF Hit(aircraft, x) THEN Cached(aircraft, x) ELSE Value("aircraft_db", x)
        /\ aircraft' = Put(aircraft, x, reg)
        /\ IF Hit(adsbx, x)
           THEN adsbx' = Put(adsbx, x, Cached(adsbx, x)) /\ Open(x, reg, Cached(adsbx, x)) /\ UNCHANGED look
           ELSE look' = [air |-> x, reg |-> reg, row |-> Shown(overrides[x]), polls |-> polls]
                     /\ UNCHANGED <<adsbx, flights>>
  BY DEF Lookup
<1>2. "aircraft_db" \in Tables /\ store["aircraft_db"].base # None
  BY <1>0, AircraftThere
<1>3. CacheTypes /\ AircraftTrue /\ OneUpsertBehind /\ NoBlankWhenKnown /\ overrides \in Overrides
  BY DEF CacheInv, CacheTypes, Typed
<1>4. reg = Value("aircraft_db", x)
  <2>1. CASE Hit(aircraft, x)
    <3>1. PICK i \in DOMAIN aircraft : aircraft[i].key = x /\ aircraft[i].val = Cached(aircraft, x)
      BY <1>3, <2>1, CachedIn DEF CacheTypes
    <3> QED BY <1>1, <1>3, <2>1, <3>1 DEF AircraftTrue
  <2> QED BY <1>1, <2>1
<1>5. reg \in Answers
  BY <1>2, <1>4, ValueAnswers
<1>6. aircraft' \in Lru(Airframes, Answers) /\ AircraftTrue'
  BY <1>0, <1>1, <1>3, <1>4, <1>5, PutAircraft
<1>7. Alone' /\ FilledOk'
  BY <1>0 DEF CacheInv, Alone, FilledOk
<1>8. Shown(overrides[x]) \in Shows
  BY <1>1, <1>3 DEF Overrides, Shown, Shows, Row
<1>9. CASE Hit(adsbx, x)
  <2>1. PICK v : v = Cached(adsbx, x)
    OBVIOUS
  <2>2. v \in Shows /\ (x \in bust \/ v \in {Shown(overrides[x]), Shown(before[x])})
    <3>1. v \in Shows /\ \E i \in DOMAIN adsbx : adsbx[i].key = x /\ adsbx[i].val = v
      BY <1>3, <1>9, <2>1, CachedIn DEF CacheTypes
    <3> QED BY <1>3, <3>1 DEF OneUpsertBehind
  <2>3. adsbx' \in Lru(Airframes, Shows) /\ OneUpsertBehind'
    BY <1>0, <1>1, <1>3, <1>9, <2>1, <2>2, PutAdsbx
  <2>4. flights' \in Seq(Opened) /\ NoBlankWhenKnown'
    BY <1>0, <1>1, <1>3, <1>4, <1>5, <1>9, <2>1, <2>2, OpenGood
  <2>5. CacheTypes'
    BY <1>0, <1>3, <1>6, <2>3, <2>4 DEF CacheTypes, Typed
  <2>6. LookTrue'
    BY <1>0, <1>1, <1>9 DEF LookTrue
  <2> QED BY <1>6, <1>7, <2>3, <2>4, <2>5, <2>6 DEF CacheInv
<1>10. CASE ~Hit(adsbx, x)
  <2>1. adsbx' = adsbx /\ flights' = flights
        /\ look' = [air |-> x, reg |-> reg, row |-> Shown(overrides[x]), polls |-> polls]
    BY <1>1, <1>10
  <2>2. CacheTypes'
    BY <1>0, <1>3, <1>6, <2>1 DEF CacheTypes, Typed
  <2>3. OneUpsertBehind' /\ NoBlankWhenKnown'
    BY <1>0, <1>3, <2>1 DEF OneUpsertBehind, NoBlankWhenKnown, Value, Shown
  <2>4. LookTrue'
    <3>1. /\ look'.air = x /\ look'.reg = reg /\ look'.row = Shown(overrides[x]) /\ look'.polls = polls
          /\ polls \in Nat
      BY <1>3, <2>1 DEF CacheTypes
    <3>2. Value("aircraft_db", x)' = Value("aircraft_db", x)
      BY <1>0 DEF Value
    <3>3. SUFFICES /\ look'.air \in Airframes /\ look'.row \in Shows /\ look'.reg \in Answers
                   /\ look'.reg = Value("aircraft_db", look'.air)
                   /\ look'.polls \in Nat /\ look'.polls <= polls
                   /\ look'.row = Shown(overrides[look'.air])
      BY <1>0 DEF LookTrue, Value, Shown
    <3> QED BY <1>1, <1>4, <1>5, <1>8, <3>1
  <2> QED BY <1>6, <1>7, <2>2, <2>3, <2>4 DEF CacheInv
<1> QED BY <1>9, <1>10

\* The look-up stores what it has read, one poll later at most.
LEMMA LookupStoresKeeps ==
  ASSUME TablesInv, CacheInv, LookupStores PROVE CacheInv'
<1>1. /\ UNCHANGED <<store, overrides, pc, aircraft, airline, bust, before, filled, polls>>
      /\ look # None /\ look' = None
      /\ adsbx' = Put(adsbx, look.air, look.row) /\ Open(look.air, look.reg, look.row)
  BY DEF LookupStores, tables, history, bounds
<1>2. CacheTypes /\ AircraftTrue /\ OneUpsertBehind /\ NoBlankWhenKnown /\ Alone /\ FilledOk
  BY DEF CacheInv
<1>3. PICK x, reg, row : x = look.air /\ reg = look.reg /\ row = look.row
  OBVIOUS
<1>4. /\ x \in Airframes /\ row \in Shows /\ reg \in Answers /\ reg = Value("aircraft_db", x)
      /\ row \in {Shown(overrides[x]), Shown(before[x])}
  BY <1>1, <1>3 DEF CacheInv, LookTrue
<1>5. adsbx' \in Lru(Airframes, Shows) /\ OneUpsertBehind'
  BY <1>1, <1>2, <1>3, <1>4, PutAdsbx
<1>6. flights' \in Seq(Opened) /\ NoBlankWhenKnown'
  BY <1>1, <1>2, <1>3, <1>4, OpenGood
<1>7. CacheTypes'
  BY <1>1, <1>2, <1>5, <1>6 DEF CacheTypes, Typed
<1>8. Alone'
  <2>1. pc["collector"] = "up"
    BY <1>1, <1>2 DEF Alone
  <2> QED BY <1>1, <1>2, <2>1 DEF Alone
<1>9. AircraftTrue' /\ FilledOk' /\ LookTrue'
  BY <1>1, <1>2 DEF AircraftTrue, FilledOk, LookTrue, Value
<1> QED BY <1>5, <1>6, <1>7, <1>8, <1>9 DEF CacheInv

\* The web process only touches its own cache.
LEMMA AirlineKeeps ==
  ASSUME TablesInv, CacheInv, lookup_airline PROVE CacheInv'
<1>1. /\ UNCHANGED <<store, overrides, flights, pc, aircraft, adsbx, look, bust, before, filled, polls>>
      /\ pc["web"] = "up"
  BY DEF lookup_airline, tables, threads, history, bounds
<1>2. PICK k, v :
        /\ k \in Codes
        /\ v = IF Hit(airline, k) THEN Cached(airline, k) ELSE Value("airlines", k)
        /\ airline' = Put(airline, k, v)
  BY DEF lookup_airline
<1>3. "airlines" \in Tables /\ store["airlines"].base # None
  BY <1>1, UpstreamAssumption DEF TablesInv, ServedWhole, Procs
<1>4. airline \in Lru(Codes, Answers)
  BY DEF CacheInv, CacheTypes
<1>5. v \in Answers
  BY <1>2, <1>3, <1>4, ValueAnswers, CachedIn
<1>6. airline' \in Lru(Codes, Answers)
  BY <1>2, <1>4, <1>5, PutGood
<1>7. CacheTypes'
  BY <1>1, <1>6 DEF CacheInv, CacheTypes, Typed
<1> QED BY <1>1, <1>7 DEF CacheInv, Alone, AircraftTrue, LookTrue, OneUpsertBehind, FilledOk, NoBlankWhenKnown, Value, Shown

\* Every step keeps the caches' invariant.
LEMMA CacheStep == ASSUME TablesInv, CacheInv, [Next]_vars PROVE CacheInv'
<1>1. CASE update_aircraft_db
  BY <1>1, AircraftSwapKeeps
<1>2. CASE UNCHANGED vars
  BY <1>2 DEF vars, CacheInv, CacheTypes, Typed, Alone, AircraftTrue, LookTrue, OneUpsertBehind, FilledOk,
              NoBlankWhenKnown, Value, Shown
<1>3. CASE ~update_aircraft_db /\ Next
  BY <1>3, ProcessesKeep, BackfillsKeep, PurgeKeepsCaches, UpsertKeepsCaches, InvalidateKeepsCaches,
     LookupKeeps, LookupStoresKeeps, AirlineKeeps DEF Next
<1> QED BY <1>1, <1>2, <1>3

\* The two invariants imply the property.
LEMMA InvLookUps == ASSUME TablesInv, CacheInv PROVE LookUpsTrue
<1>1. ASSUME NEW K, NEW V, NEW c \in Lru(K, V)
      PROVE  Len(c) <= CacheSize /\ \A i, j \in DOMAIN c : c[i].key = c[j].key => i = j
  BY DEF Lru
<1>2. TypeOK
  <2>1. \A c \in {aircraft, adsbx, airline} :
           Len(c) <= CacheSize /\ \A i, j \in DOMAIN c : c[i].key = c[j].key => i = j
    BY <1>1 DEF CacheInv, CacheTypes
  <2>2. /\ store \in [Tables -> Copies] /\ index \in {"base", "old", None}
        /\ pc \in [Procs -> {"down", "recover", "up", "aircraft_db", "airlines", "backfill", "purge"}]
        /\ \A p \in Procs : pc[p] # "recover" => plan[p] = <<>>
    BY DEF TablesInv, Types, Past
  <2>3. overrides \in [Airframes -> Row \cup {None}] /\ before \in [Airframes -> Row \cup {None}]
        /\ bust \subseteq Airframes /\ filled \in BOOLEAN
    BY DEF CacheInv, CacheTypes, Typed, Overrides
  <2> QED BY <2>1, <2>2, <2>3 DEF TypeOK
<1>3. CopyKept
  <2>1. SUFFICES ASSUME NEW t \in Tables PROVE \E c \in {store[t].base, store[t].old} : c # None /\ c # <<>>
    BY DEF CopyKept
  <2>2. store[t].base \in Whole(t) \/ store[t].old \in Whole(t)
    BY DEF TablesInv, Safe
  <2> QED BY <2>2, WholeSome
<1> QED BY <1>2, <1>3 DEF LookUpsTrue, TablesSurvive, TablesInv, CacheInv

\* However the processes of db_updater's unit interleave and die, the reference tables
\* survive and are served whole (_recover_swap, the swaps); and what lookup_aircraft and
\* lookup_adsbx answer, and flights are opened and backfilled with, is what they hold or
\* held a poll ago.
THEOREM LookUpsTrueAlways == Spec => []LookUpsTrue
<1>1. Init => TablesInv /\ CacheInv
  BY TablesInit, CacheInit
<1>2. TablesInv /\ CacheInv /\ [Next]_vars => (TablesInv /\ CacheInv)'
  BY TablesStep, CacheStep
<1>3. TablesInv /\ CacheInv => LookUpsTrue
  BY InvLookUps
<1> QED BY <1>1, <1>2, <1>3, PTL DEF Spec
=============================================================================
