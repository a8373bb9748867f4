------------------------------ MODULE Watchlist ------------------------------
(***************************************************************************)
(* The watchlist and those who write it: requests to the web API            *)
(* (api/watchlist.py), tools of the MCP server that read the list and then  *)
(* write through that API (mcp_server), and the command listener of the     *)
(* bot, a thread of the collector that polls Telegram (notifier.py).        *)
(*                                                                          *)
(* Statements of different connections interleave; each commits on its own. *)
(* Telegram keeps an update until a poll asks for a later one.              *)
(*                                                                          *)
(* Abstracted: one value, which has the shape of an address, under each     *)
(* match type; labels, replies and rate limits are left out. A call that is *)
(* refused before it reads the list changes nothing.                        *)
(***************************************************************************)
EXTENDS Integers, Sequences, FiniteSets, SequencesExt, Option

CONSTANTS
    Calls,       \* requests: of the web UI and MCP tools
    Concurrency, \* MCP_CONCURRENCY
    ListMax,     \* MCP_WATCHLIST_MAX
    MaxIds, MaxUpdates, MaxSlips    \* bounds

\* /unwatch tries the type the value has the shape of, the other one, prefixes.
MatchTypes == <<"icao", "registration", "callsign_prefix">>
Keys == ToSet(MatchTypes)

Requests == [tool : BOOLEAN, add : BOOLEAN, key : Keys, step : {"list", "write", "reread", "delete"}, id : 0..MaxIds]
Commands == [update : 1..MaxUpdates, step : 0..(Len(MatchTypes) - 1)]
Deletes == [found : Keys, deleted : SUBSET Keys]

ASSUME WatchAssumption ==
    /\ IsFiniteSet(Calls) /\ {Concurrency, ListMax, MaxIds, MaxUpdates, MaxSlips} \subseteq Nat
    /\ None \notin Requests \cup Commands \cup Deletes

VARIABLES
    entries,   \* rows: id and key
    lastId,    \* sqlite_sequence
    call,      \* call[c]: a request under way, or None
    updates,   \* commands sent to the bot so far
    acked,     \* Telegram has dropped this many
    offset,    \* the listener's, less one
    batch,     \* updates it has fetched and not begun
    bot,       \* the command it is at: update and step, or None
    handled,   \* history: how often each update was begun in the present life
    begun,     \* history: updates begun in any life
    gone,      \* the delete of this step: key found and key deleted, else None
    slips

watch == <<entries, lastId, call, updates, acked, offset, batch, bot, handled, begun, gone, slips>>
table == <<entries, lastId>>
listener == <<updates, acked, offset, batch, bot, handled, begun>>

WatchTypeOK ==
    /\ entries \subseteq [id : 1..MaxIds, key : Keys] /\ lastId \in 0..MaxIds
    /\ \A e, f \in entries : e.id = f.id \/ e.key = f.key => e = f
    /\ updates \in Seq({"watch", "unwatch"}) /\ {acked, offset} \subseteq 0..Len(updates)
    /\ batch \in Seq(DOMAIN updates) /\ slips \in 0..MaxSlips
    /\ bot \in {None} \cup Commands /\ (bot # None => bot.update \in DOMAIN updates)
    /\ call \in [Calls -> {None} \cup Requests] /\ gone \in {None} \cup Deletes
    /\ Cardinality({c \in Calls : call[c] # None /\ call[c].tool}) <= Concurrency

WatchInit ==
    /\ entries = {} /\ lastId = 0 /\ call = [c \in Calls |-> None]
    /\ updates = <<>> /\ acked = 0 /\ offset = 0 /\ batch = <<>> /\ bot = None
    /\ handled = <<>> /\ begun = {} /\ gone = None /\ slips = 0

Has(k) == \E e \in entries : e.key = k
IdOf(k) == IF Has(k) THEN (CHOOSE e \in entries : e.key = k).id ELSE 0

\* Mutant: the next id is one past the largest in the table.
ReusedId == 1 + Max({0} \cup {e.id : e \in entries})

\* AUTOINCREMENT.
NextId == lastId + 1

\* The unique index refuses a second row of a key.
Insert(k) ==
    IF Has(k) THEN UNCHANGED table
    ELSE entries' = entries \cup {[id |-> NextId, key |-> k]} /\ lastId' = NextId

-----------------------------------------------------------------------------
(* Requests and tools *)

Done(c) == call' = [call EXCEPT ![c] = None]
SlotFree == Cardinality({c \in Calls : call[c] # None /\ call[c].tool}) < Concurrency

\* A user who adds, or deletes a row of the list as it is; a tool with a slot.
Request(c) ==
    /\ call[c] = None
    /\ \E k \in Keys, tool, add \in BOOLEAN :
         /\ tool => SlotFree
         /\ tool \/ add \/ Has(k)
         /\ call' = [call EXCEPT ![c] = [tool |-> tool, add |-> add, key |-> k,
                       step |-> IF tool THEN "list" ELSE "write", id |-> IF tool THEN 0 ELSE IdOf(k)]]
    /\ gone' = None /\ UNCHANGED <<table, listener, slips>>

\* check_watchlist_add and _find_entry.
Listed(c) ==
    LET r == call[c]
        refused == IF r.add THEN Has(r.key) \/ Cardinality(entries) >= ListMax ELSE ~Has(r.key)
    IN  /\ r # None /\ r.step = "list"
        /\ IF refused THEN Done(c) ELSE call' = [call EXCEPT ![c].step = "write", ![c].id = IdOf(r.key)]
        /\ gone' = None /\ UNCHANGED <<table, listener, slips>>

\* POST: a conflict is 409, after which a tool reads the list again.
Post(c) ==
    /\ call[c] # None /\ call[c].add /\ call[c].step = "write"
    /\ lastId < MaxIds /\ Insert(call[c].key)
    /\ IF Has(call[c].key) /\ call[c].tool THEN call' = [call EXCEPT ![c].step = "reread"] ELSE Done(c)
    /\ gone' = None /\ UNCHANGED <<listener, slips>>

Reread(c) ==
    /\ call[c] # None /\ call[c].step = "reread" /\ Done(c)
    /\ gone' = None /\ UNCHANGED <<table, listener, slips>>

\* DELETE: the row is looked up and then deleted, by its id.
Check(c) ==
    /\ call[c] # None /\ ~call[c].add /\ call[c].step = "write"
    /\ IF \E e \in entries : e.id = call[c].id THEN call' = [call EXCEPT ![c].step = "delete"] ELSE Done(c)
    /\ gone' = None /\ UNCHANGED <<table, listener, slips>>

Delete(c) ==
    /\ call[c] # None /\ call[c].step = "delete"
    /\ entries' = {e \in entries : e.id # call[c].id} /\ Done(c)
    /\ gone' = [found |-> call[c].key, deleted |-> {e.key : e \in entries \ entries'}]
    /\ UNCHANGED <<lastId, listener, slips>>

-----------------------------------------------------------------------------
(* _listener_loop *)

Send(op) ==
    /\ Len(updates) < MaxUpdates /\ updates' = Append(updates, op) /\ handled' = Append(handled, 0)
    /\ gone' = None /\ UNCHANGED <<table, call, acked, offset, batch, bot, begun, slips>>

\* getUpdates: Telegram drops what is before the offset and answers the rest.
Fetch ==
    /\ bot = None /\ batch = <<>> /\ Len(updates) > acked
    /\ acked' = Max({acked, offset})
    /\ batch' = [i \in 1..(Len(updates) - acked') |-> acked' + i]
    /\ gone' = None /\ UNCHANGED <<table, call, updates, offset, bot, handled, begun, slips>>

\* The answer is lost.
FetchFails ==
    /\ bot = None /\ batch = <<>> /\ slips < MaxSlips /\ slips' = slips + 1
    /\ acked' = Max({acked, offset})
    /\ gone' = None /\ UNCHANGED <<table, call, updates, offset, batch, bot, handled, begun>>

\* Mutant: the offset stays at the update.
OffsetAt(u) == u - 1

OffsetPast(u) == u

Begin ==
    /\ bot = None /\ batch # <<>> /\ batch' = Tail(batch)
    /\ LET u == Head(batch)
       IN  /\ offset' = OffsetPast(u) /\ bot' = [update |-> u, step |-> 0]
           /\ handled' = [handled EXCEPT ![u] = @ + 1] /\ begun' = begun \cup {u}
    /\ gone' = None /\ UNCHANGED <<table, call, updates, acked, slips>>

\* _watch_add looks and then inserts; a conflict is logged.
WatchLooks ==
    /\ bot # None /\ updates[bot.update] = "watch" /\ bot.step = 0
    /\ bot' = IF Has("icao") THEN None ELSE [bot EXCEPT !.step = 1]
    /\ gone' = None /\ UNCHANGED <<table, call, updates, acked, offset, batch, handled, begun, slips>>

WatchInserts ==
    /\ bot # None /\ updates[bot.update] = "watch" /\ bot.step = 1
    /\ lastId < MaxIds /\ Insert("icao") /\ bot' = None
    /\ gone' = None /\ UNCHANGED <<call, updates, acked, offset, batch, handled, begun, slips>>

\* _watch_remove: one type after the other, until a row goes.
Unwatch ==
    /\ bot # None /\ updates[bot.update] = "unwatch"
    /\ LET k == MatchTypes[bot.step + 1]
       IN  /\ entries' = {e \in entries : e.key # k}
           /\ bot' = IF Has(k) \/ bot.step + 1 = Len(MatchTypes) THEN None ELSE [bot EXCEPT !.step = @ + 1]
    /\ gone' = None /\ UNCHANGED <<lastId, call, updates, acked, offset, batch, handled, begun, slips>>

\* A statement fails, is logged, and the next update is taken.
HandlerFails ==
    /\ bot # None /\ slips < MaxSlips /\ slips' = slips + 1 /\ bot' = None
    /\ gone' = None /\ UNCHANGED <<table, call, updates, acked, offset, batch, handled, begun>>

\* Mutant: a new listener skips what it finds waiting.
SkipBacklog == Len(updates)

StartOffset == 0

\* The collector is started again.
ListenerRestarts ==
    /\ slips < MaxSlips /\ slips' = slips + 1
    /\ offset' = StartOffset /\ batch' = <<>> /\ bot' = None /\ handled' = [u \in DOMAIN updates |-> 0]
    /\ gone' = None /\ UNCHANGED <<table, call, updates, acked, begun>>

WatchNext ==
    \/ \E c \in Calls : Request(c) \/ Listed(c) \/ Post(c) \/ Reread(c) \/ Check(c) \/ Delete(c)
    \/ \E op \in {"watch", "unwatch"} : Send(op)
    \/ Fetch \/ FetchFails \/ Begin \/ WatchLooks \/ WatchInserts \/ Unwatch \/ HandlerFails \/ ListenerRestarts

WatchSpec == WatchInit /\ [][WatchNext]_watch

-----------------------------------------------------------------------------
(* Properties *)

\* A delete by id never takes another entry than the one its caller found,
\* though the row may have gone and come back in between.
DeletesWhatWasFound == gone # None => gone.deleted \subseteq {gone.found}

\* A command is not lost and not repeated: Telegram drops an update only when the
\* listener has begun it, in this life or an earlier one, and in one life it
\* begins none twice.
CommandsOnce ==
    /\ \A u \in 1..acked : u \in begun
    /\ \A u \in DOMAIN updates : handled[u] <= 1

\* A delete takes the entry its caller found, and a command to the bot is neither
\* lost nor repeated.
CallersHeeded == WatchTypeOK /\ DeletesWhatWasFound /\ CommandsOnce

\* "Additions stop at RSBS_MCP_WATCHLIST_MAX entries."
AdditionsStop == [][\A c \in Calls :
    call[c] # None /\ call[c].tool /\ call[c].add /\ lastId' # lastId /\ call'[c] # call[c] =>
      Cardinality(entries) < ListMax]_watch
=============================================================================
