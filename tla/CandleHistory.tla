----------------------------- MODULE CandleHistory -----------------------------
(***************************************************************************)
(* The candle table of the SQLite database (storage/sqlite.py) and the two *)
(* downloaders that fill it: market_data/history.py for Spot and           *)
(* market_data/futures_history.py for USD-M, over the REST clients of      *)
(* market_data/binance_public.py and binance_futures_public.py.            *)
(*                                                                         *)
(* Time is counted in candles: candle i opens at i and closes when the     *)
(* clock reaches i + 1, so at time t the exchange lists 1..t and candle t  *)
(* is still open.  A row remembers whether the client marked it closed,    *)
(* and, for the properties, whether its values are the final ones.         *)
(***************************************************************************)
EXTENDS Integers, FiniteSets, FiniteSetsExt

CONSTANTS
    LastCandle,     \* bound: candles the exchange will ever list
    PageLimit,      \* candles in a page (1000 Spot, 1500 USD-M)
    MaximumRetries, \* maximum_retries of the client
    MaxCommands,    \* bound: download commands
    LateAnswers     \* a candle may close while an answer is on its way

ASSUME HistoryAssumption ==
    /\ {LastCandle, PageLimit} \subseteq Nat \ {0}
    /\ {MaximumRetries, MaxCommands} \subseteq Nat
    /\ LateAnswers \in BOOLEAN

Candles == 1..LastCandle
None    == [none |-> TRUE]

VARIABLES
    now,            \* the clock, the same for the exchange and the client
    candles,        \* the table: a function of some candles to their rows
    job,            \* the download command that is running, or None
    outcome,        \* the last command, if it returned its statistics, else None
    pinned,         \* history: a command named its own start, or an end yet to come
    commands        \* download commands so far

historyVars == <<now, candles, job, outcome, pinned, commands>>

Row == [closed : BOOLEAN, final : BOOLEAN]

HistoryInit ==
    /\ now = 1
    /\ candles = [i \in {} |-> [closed |-> TRUE, final |-> TRUE]]
    /\ job = None /\ outcome = None
    /\ pinned = FALSE /\ commands = 0

Stored == DOMAIN candles

\* get_candles reads closed candles only.
Closed == {i \in Stored : candles[i].closed}

\* latest_candle; 0 when the table has none.
Latest == Max({0} \cup Closed)

(***************************************************************************)
(* The exchange (external): candles start..end, 0 for an absent bound, the *)
(* oldest ones first if the request has a start, else the most recent.     *)
(***************************************************************************)
Page(from, end) ==
    LET listed == {i \in 1..Min({now, LastCandle}) :
                      (from # 0 => i >= from) /\ (end # 0 => i <= end)}
        Before(i) == IF from # 0 THEN {j \in listed : j < i} ELSE {j \in listed : j > i}
    IN {i \in listed : Cardinality(Before(i)) < PageLimit}

(***************************************************************************)
(* Commands.                                                               *)
(***************************************************************************)
Started(start, end, from, open) ==
    /\ job = None /\ commands < MaxCommands
    /\ end # 0 => from <= end           \* else the client raises ValueError
    /\ job' = [start |-> start, end |-> end, first |-> from, from |-> from,
               open |-> open, tries |-> 0, asked |-> FALSE, page |-> {},
               seen |-> 0, began |-> now]
    /\ pinned' = (pinned \/ start # 0 \/ end >= now)
    /\ commands' = commands + 1
    /\ outcome' = None
    /\ UNCHANGED <<now, candles>>

\* market download and market update: without a start the update goes on after
\* the latest closed candle; 0 asks for the most recent page.
SpotCommand(start, end, open) ==
    Started(start, end, IF start # 0 \/ Latest = 0 THEN start ELSE Latest + 1, open)

\* futures-market download-klines and download-mark-price: both dates required,
\* open candles never kept.
FuturesCommand(start, end) ==
    /\ start # 0 /\ end # 0
    /\ Started(start, end, start, FALSE)

(***************************************************************************)
(* The request: answered, or retried after a timeout, a transport error, a *)
(* rate limit or a server error, as long as attempts are left.             *)
(***************************************************************************)
Running == job # None

\* The answer carries the values of the moment it was made.
Answer ==
    /\ Running /\ ~job.asked
    /\ job' = [job EXCEPT !.asked = TRUE, !.page = Page(job.from, job.end), !.seen = now]
    /\ UNCHANGED <<now, candles, outcome, pinned, commands>>

Fail ==
    /\ Running /\ ~job.asked
    /\ job' = IF job.tries < MaximumRetries THEN [job EXCEPT !.tries = @ + 1] ELSE None
    /\ UNCHANGED <<now, candles, outcome, pinned, commands>>

\* An error that is not retried, or the end of the process.
Abort ==
    /\ Running
    /\ job' = None
    /\ UNCHANGED <<now, candles, outcome, pinned, commands>>

(***************************************************************************)
(* The answer arrives: parsed (closed by the client's clock), filtered,    *)
(* written in one transaction, and the page after it is asked for.         *)
(***************************************************************************)
\* Mutant of Kept: candles that are still open are written as closed ones.
KeptOpen == [i \in {j \in job.page : job.end # 0 => j <= job.end} |->
                [closed |-> TRUE, final |-> i < job.seen]]

Kept ==
    LET isClosed(i) == i < now
        eligible == {i \in job.page : /\ job.open \/ isClosed(i)
                                      /\ job.start # 0 => i >= job.start
                                      /\ job.end # 0 => i <= job.end}
    IN [i \in eligible |-> [closed |-> isClosed(i), final |-> i < job.seen]]

Upserted(rows) ==
    [i \in Stored \cup DOMAIN rows |-> IF i \in DOMAIN rows THEN rows[i] ELSE candles[i]]

LastPage ==
    \/ job.page = {}
    \/ job.end = 0
    \/ Max(job.page) >= job.end
    \/ Cardinality(job.page) < PageLimit

\* Mutant of NextFrom: the same page is asked for again.
NextFromSame == job.from

NextFrom == Max(job.page) + 1

Receive ==
    /\ Running /\ job.asked
    /\ candles' = Upserted(Kept)
    /\ IF LastPage
         THEN /\ job' = None
              /\ outcome' = [first |-> job.first, end |-> job.end, began |-> job.began]
         ELSE /\ job' = [job EXCEPT !.from = NextFrom, !.tries = 0, !.asked = FALSE,
                                    !.page = {}, !.seen = 0]
              /\ outcome' = outcome
    /\ UNCHANGED <<now, pinned, commands>>

\* A candle closes and the next one opens.
Tick ==
    /\ now <= LastCandle
    /\ Running => LateAnswers \/ ~job.asked
    /\ now' = now + 1
    /\ UNCHANGED <<candles, job, outcome, pinned, commands>>

Command ==
    \/ \E start, end \in {0} \cup Candles, open \in BOOLEAN :
          /\ start # 0 /\ end # 0 => start <= end
          /\ SpotCommand(start, end, open)
    \/ \E start, end \in Candles : start <= end /\ FuturesCommand(start, end)

HistoryNext == Command \/ Answer \/ Fail \/ Abort \/ Receive \/ Tick

\* Every attempt has a timeout, so a request ends one way or the other.
Turn == Answer \/ Fail \/ Receive

(***************************************************************************)
(* Properties.                                                             *)
(***************************************************************************)
HistoryTypeOK ==
    /\ now \in 1..(LastCandle + 1)
    /\ Stored \subseteq Candles /\ \A i \in Stored : candles[i] \in Row
    /\ Running => job.tries <= MaximumRetries /\ job.page \subseteq Candles
    /\ pinned \in BOOLEAN /\ commands \in 0..MaxCommands

Unbroken(set) == \A i, j \in set : (i..j) \subseteq set

\* A row marked closed has the final values of its candle: what the strategies
\* read never changes afterwards.  It needs answers that arrive before the next
\* close, since the client decides by its own clock on arrival.
ClosedIsFinal == \A i \in Closed : candles[i].final

\* A download of a range that returned has left every candle of the range that
\* was closed when it began in the table, however many pages and retries it took.
FinishedIsComplete ==
    outcome # None /\ outcome.first # 0 /\ outcome.end # 0 =>
        {i \in outcome.first..outcome.end : i < outcome.began} \subseteq Closed

\* As long as no command names its own start, or an end that is still to come,
\* aborted downloads and restarts leave no hole in the history: each update goes
\* on where the table ends.  (With an end to come, a full page may end with the
\* open candle: it is dropped, and the next page starts after it.)
UpdatesLeaveNoHole == ~pinned => Unbroken(Closed)

\* A stored candle is never lost and never becomes open again.
NothingUnlearned ==
    [][\A i \in Stored : /\ i \in DOMAIN candles'
                         /\ candles[i].closed => candles'[i].closed]_historyVars

\* Every download command ends: pages advance and attempts are bounded.
DownloadsEnd == Running ~> ~Running
=============================================================================
