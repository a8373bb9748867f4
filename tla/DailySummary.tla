---------------------------- MODULE DailySummary ----------------------------
(***************************************************************************)
(* The daily summary of the collector: sent by the first poll at or past    *)
(* its time of the day, once a day. The day of the last one is a variable   *)
(* of the process (gate) and a row of the table meta, written before the    *)
(* summary goes out; a start reads the row and never catches up.            *)
(*                                                                          *)
(* Abstracted: of the time of the day only whether the summary is due.      *)
(* Midnight does not fall between the check and the sending of one poll.    *)
(***************************************************************************)
EXTENDS Integers, Option

CONSTANTS LastDay, MaxLives   \* bounds

ASSUME DailyAssumption == LastDay \in Nat \ {0} /\ MaxLives \in Nat /\ None \notin 1..LastDay

VARIABLES
    day, due,   \* the date, and whether the time of the summary has come
    gate,       \* _last_summary_date, while a collector is up
    meta,       \* the row last_summary_date
    running, lives,
    sent,       \* history: summaries sent of a day
    through,    \* history: the day on which this process polled before the time
    unread      \* history: days with a start that could not read the row

daily == <<day, due, gate, meta, running, lives, sent, through, unread>>

Days == 1..LastDay

DailyTypeOK ==
    /\ day \in Days /\ due \in BOOLEAN /\ running \in BOOLEAN /\ lives \in 0..MaxLives
    /\ {gate, meta, through} \subseteq Days \cup {None}
    /\ sent \in [Days -> Nat] /\ unread \subseteq Days

DailyInit ==
    /\ day = 1 /\ due = FALSE /\ gate = None /\ meta = None /\ running = FALSE /\ lives = 0
    /\ sent = [d \in Days |-> 0] /\ through = None /\ unread = {}

\* Mutant: the row alone decides.
SeededNot(read) == read

\* Mutant: a start at any time counts the summary of the day as sent.
SeededAlways(read) == day

\* A start past the time counts the summary of the day as sent.
Seeded(read) == IF due THEN day ELSE read

\* _load_last_summary_date: a row that cannot be read ends it there.
LoadGate ==
    /\ ~running /\ lives < MaxLives /\ running' = TRUE /\ lives' = lives + 1
    /\ \/ gate' = Seeded(meta) /\ UNCHANGED unread
       \/ gate' = None /\ unread' = unread \cup {day}
    /\ UNCHANGED <<day, due, meta, sent, through>>

NotDue ==
    /\ running /\ (gate = day \/ ~due)
    /\ through' = IF due THEN through ELSE day
    /\ UNCHANGED <<day, due, gate, meta, running, lives, sent, unread>>

\* _check_daily_summary: the gate, the row, the summary; saving and sending may
\* fail, and the process may die before it.
SendSummary ==
    /\ running /\ due /\ gate # day
    /\ \E saved, out, dies \in BOOLEAN :
         /\ meta' = IF saved THEN day ELSE meta
         /\ out => ~dies
         /\ sent' = IF out THEN [sent EXCEPT ![day] = @ + 1] ELSE sent
         /\ running' = ~dies /\ gate' = (IF dies THEN None ELSE day)
    /\ through' = None
    /\ UNCHANGED <<day, due, lives, unread>>

StopPolls ==
    /\ running /\ running' = FALSE /\ gate' = None /\ through' = None
    /\ UNCHANGED <<day, due, meta, lives, sent, unread>>

\* The time comes, or midnight.
TimePasses ==
    /\ IF due THEN day < LastDay /\ day' = day + 1 ELSE day' = day
    /\ due' = ~due
    /\ UNCHANGED <<gate, meta, running, lives, sent, through, unread>>

DailyNext == LoadGate \/ NotDue \/ SendSummary \/ StopPolls \/ TimePasses

DailySpec == DailyInit /\ [][DailyNext]_daily

-----------------------------------------------------------------------------

\* "the once-per-day gate + meta persistence (survives restarts) prevent
\* re-sends": no day has two summaries, whatever fails between the gate, the
\* row and the sending, as long as a start could read the row.
SummaryOncePerDay == \A d \in Days \ unread : sent[d] <= 1

\* A collector that "runs through the target minute still fires": whoever polled
\* before the time of a day and polls after it on that day has not been kept
\* from the summary by its gate.
SummaryFires == running /\ through = day /\ due => gate # day

\* One summary a day, and the minute of the summary is never swallowed by the gate.
SummaryOnTime == DailyTypeOK /\ SummaryOncePerDay /\ SummaryFires
=============================================================================
