---------------------------- MODULE ResearchProofs ----------------------------
(* Theorems about the candle table and the experiments that read it, for    *)
(* every number of candles, pages, retries, commands and versions; about    *)
(* the cuts of a history, for every history; and about the label of an      *)
(* anchor and the answer, for every recorded session and all evidence.      *)
EXTENDS Research, FiniteSetTheorems, WellFoundedInduction, TLAPS

-----------------------------------------------------------------------------
(* The table *)

JobFields == {"start", "end", "first", "from", "open", "tries", "asked", "page",
              "seen", "began"}

\* An answer is as old as the clock as long as answers are not late, and a candle
\* that is marked closed lies in the past.
TableInv ==
    /\ now \in Nat
    /\ Stored \subseteq Int
    /\ \A i \in Closed : i < now
    /\ ~ LateAnswers => /\ ClosedIsFinal
                        /\ Running /\ job.asked => job.seen = now
    /\ Running => DOMAIN job = JobFields /\ job.page \subseteq Int

\* What Kept keeps: open rows of candles that are not over, closed rows of others.
LEMMA KeptRows ==
    ASSUME NEW i \in DOMAIN Kept
    PROVE  /\ i \in job.page
           /\ Kept[i].closed = (i < now)
           /\ Kept[i].final = (i < job.seen)
BY DEF Kept

LEMMA PageListed ==
    ASSUME NEW first, NEW end
    PROVE  Page(first, end) \subseteq Int
BY DEF Page

\* After an update a row is the new one, if there is one, or the old one.
LEMMA UpsertedRows ==
    ASSUME NEW rows
    PROVE  /\ DOMAIN Upserted(rows) = Stored \cup DOMAIN rows
           /\ \A i \in DOMAIN rows : Upserted(rows)[i] = rows[i]
           /\ \A i \in Stored \ DOMAIN rows : Upserted(rows)[i] = candles[i]
BY DEF Upserted

\* A candle that is marked closed stays stored and closed, and what it is remains final.
Preserved ==
    \A i \in Closed : /\ i \in Closed'
                      /\ ~ LateAnswers /\ candles[i].final => candles'[i].final

LEMMA ReceiveKeeps ==
    ASSUME TableInv, Receive
    PROVE  TableInv' /\ Preserved /\ Stored \subseteq Stored'
<1>1. /\ Running /\ job.asked
      /\ candles' = Upserted(Kept) /\ now' = now
      /\ job' = None \/ job' = [job EXCEPT !.from = NextFrom, !.tries = 0, !.asked = FALSE,
                                          !.page = {}, !.seen = 0]
  BY DEF Receive
<1>2. Stored' = Stored \cup DOMAIN Kept
  BY <1>1, UpsertedRows DEF Stored
<1>3. DOMAIN Kept \subseteq Int
  BY <1>1, KeptRows DEF TableInv
<1>4. ASSUME NEW i \in DOMAIN Kept
      PROVE  /\ candles'[i].closed = (i < now)
             /\ candles'[i].final = (i < job.seen)
  <2>1. Upserted(Kept)[i] = Kept[i]
    BY UpsertedRows
  <2>2. candles'[i] = Kept[i]
    BY <1>1, <2>1
  <2> QED BY <2>2, KeptRows
<1>5. ASSUME NEW i \in Stored \ DOMAIN Kept
      PROVE  candles'[i] = candles[i]
  BY <1>1, UpsertedRows
<1>6. ~ LateAnswers => job.seen = now
  BY <1>1 DEF TableInv
<1>7. Preserved
  <2>1. SUFFICES ASSUME NEW i \in Closed
                 PROVE  /\ i \in Closed'
                        /\ ~ LateAnswers /\ candles[i].final => candles'[i].final
    BY DEF Preserved
  <2>2. i \in Stored /\ i < now /\ candles[i].closed
    BY <2>1 DEF TableInv, Closed
  <2>3. CASE i \in DOMAIN Kept
    BY <1>2, <1>4, <1>6, <2>2, <2>3 DEF Closed
  <2>4. CASE i \notin DOMAIN Kept
    BY <1>2, <1>5, <2>2, <2>4 DEF Closed
  <2> QED BY <2>3, <2>4
<1>8. \A i \in Closed' : i < now'
  <2>1. SUFFICES ASSUME NEW i \in Closed' PROVE i < now
    BY <1>1
  <2>2. i \in Stored' /\ candles'[i].closed
    BY <2>1 DEF Closed
  <2>3. CASE i \in DOMAIN Kept
    BY <1>4, <2>2, <2>3
  <2>4. CASE i \notin DOMAIN Kept
    <3>1. i \in Stored /\ candles[i].closed
      BY <1>2, <1>5, <2>2, <2>4
    <3> QED BY <3>1 DEF Closed, TableInv
  <2> QED BY <2>3, <2>4
<1>9. ~ LateAnswers => ClosedIsFinal'
  <2>1. SUFFICES ASSUME ~ LateAnswers, NEW i \in Closed' PROVE candles'[i].final
    BY DEF ClosedIsFinal
  <2>2. i \in Stored' /\ candles'[i].closed
    BY <2>1 DEF Closed
  <2>3. CASE i \in DOMAIN Kept
    BY <1>4, <1>6, <2>1, <2>2, <2>3
  <2>4. CASE i \notin DOMAIN Kept
    <3>1. i \in Stored /\ candles[i].closed /\ candles'[i] = candles[i]
      BY <1>2, <1>5, <2>2, <2>4
    <3> QED BY <3>1, <2>1 DEF Closed, ClosedIsFinal, TableInv
  <2> QED BY <2>3, <2>4
<1>10. Running' => DOMAIN job' = JobFields /\ job'.page \subseteq Int /\ ~ job'.asked
  <2>1. DOMAIN job = JobFields
    BY <1>1 DEF TableInv
  <2> QED BY <1>1, <2>1 DEF Running, JobFields
<1> QED BY <1>1, <1>2, <1>3, <1>7, <1>8, <1>9, <1>10 DEF TableInv

\* A step that leaves the table alone needs its clock and its job only.
LEMMA OthersKeep ==
    ASSUME TableInv, candles' = candles,
           now' \in Nat, now' >= now,
           Running' => DOMAIN job' = JobFields /\ job'.page \subseteq Int,
           ~ LateAnswers => (Running' /\ job'.asked => job'.seen = now')
    PROVE  TableInv' /\ Preserved /\ Stored \subseteq Stored'
<1>1. Stored' = Stored /\ Closed' = Closed
  BY DEF Stored, Closed
<1>2. \A i \in Closed' : i < now'
  BY <1>1 DEF TableInv, Closed, Stored
<1>3. ~ LateAnswers => ClosedIsFinal'
  BY <1>1 DEF TableInv, ClosedIsFinal
<1>4. Preserved
  BY <1>1 DEF Preserved
<1> QED BY <1>1, <1>2, <1>3, <1>4 DEF TableInv

LEMMA StartedKeeps ==
    ASSUME TableInv, NEW start, NEW end, NEW first, NEW open,
           Started(start, end, first, open)
    PROVE  TableInv' /\ Preserved /\ Stored \subseteq Stored'
<1>1. /\ candles' = candles /\ now' = now
      /\ job' = [start |-> start, end |-> end, first |-> first, from |-> first,
                 open |-> open, tries |-> 0, asked |-> FALSE, page |-> {},
                 seen |-> 0, began |-> now]
  BY DEF Started
<1>2. DOMAIN job' = JobFields /\ job'.page = {} /\ ~ job'.asked
  BY <1>1 DEF JobFields
<1> QED BY <1>1, <1>2, OthersKeep DEF TableInv

LEMMA HistoryKeeps ==
    ASSUME TableInv, HistoryNext
    PROVE  TableInv' /\ Preserved /\ Stored \subseteq Stored'
<1>1. CASE Command
  BY <1>1, StartedKeeps DEF Command, SpotCommand, FuturesCommand
<1>2. CASE Answer
  <2>1. /\ Running /\ candles' = candles /\ now' = now
        /\ job' = [job EXCEPT !.asked = TRUE, !.page = Page(job.from, job.end), !.seen = now]
    BY <1>2 DEF Answer
  <2>2. DOMAIN job = JobFields
    BY <2>1 DEF TableInv
  <2>3. DOMAIN job' = JobFields /\ job'.page \subseteq Int /\ job'.seen = now
    BY <2>1, <2>2, PageListed DEF JobFields
  <2> QED BY <2>1, <2>3, OthersKeep DEF TableInv
<1>3. CASE Fail
  <2>1. /\ Running /\ candles' = candles /\ now' = now /\ ~ job.asked
        /\ job' = None \/ job' = [job EXCEPT !.tries = @ + 1]
    BY <1>3 DEF Fail
  <2>2. DOMAIN job = JobFields /\ job.page \subseteq Int
    BY <2>1 DEF TableInv
  <2>3. Running' => DOMAIN job' = JobFields /\ job'.page \subseteq Int /\ ~ job'.asked
    BY <2>1, <2>2 DEF Running, JobFields
  <2> QED BY <2>1, <2>3, OthersKeep DEF TableInv
<1>4. CASE Abort
  <2>1. candles' = candles /\ now' = now /\ ~ Running'
    BY <1>4 DEF Abort, Running
  <2> QED BY <2>1, OthersKeep DEF TableInv
<1>5. CASE Receive
  BY <1>5, ReceiveKeeps
<1>6. CASE Tick
  <2>1. /\ candles' = candles /\ now' = now + 1 /\ job' = job
        /\ Running => LateAnswers \/ ~ job.asked
    BY <1>6 DEF Tick
  <2> QED BY <2>1, OthersKeep DEF TableInv, Running
<1> QED BY <1>1, <1>2, <1>3, <1>4, <1>5, <1>6 DEF HistoryNext

LEMMA InitTable == Init => TableInv
<1>1. SUFFICES ASSUME Init PROVE TableInv
  OBVIOUS
<1>2. now = 1 /\ job = None /\ candles = [i \in {} |-> [closed |-> TRUE, final |-> TRUE]]
  BY <1>1 DEF Init, HistoryInit
<1>3. Stored = {}
  BY <1>2 DEF Stored
<1> QED BY <1>2, <1>3 DEF TableInv, Closed, ClosedIsFinal, Running

\* The steps of an experiment leave the table alone.
LEMMA ResearchLeavesTable ==
    ASSUME ResearchNext
    PROVE  UNCHANGED historyVars
BY DEF ResearchNext, Begin, ExperimentStep, ReadCatalog, LoadCatalog, LoadData, Select,
       WriteLock, Validate, Decide, CheckUnchanged, Report, StartFreeze, WriteFile,
       KillFreeze, EditCatalog, EditLock, Others, Fails

LEMMA TableStep ==
    ASSUME TableInv, [Next]_vars
    PROVE  TableInv' /\ Preserved /\ Stored \subseteq Stored'
<1>1. CASE HistoryNext
  BY <1>1, HistoryKeeps
<1>2. CASE UNCHANGED historyVars
  BY <1>2, OthersKeep DEF historyVars, TableInv, Running
<1> QED BY <1>1, <1>2, ResearchLeavesTable DEF Next, vars

\* The reading of a candle as closed is final: as long as answers are not late,
\* whatever was downloaded, retried, aborted and downloaded again.
THEOREM ClosedFinal == Spec => [](~ LateAnswers => ClosedIsFinal)
<1>1. TableInv => (~ LateAnswers => ClosedIsFinal)
  BY DEF TableInv
<1>2. TableInv /\ [Next]_vars => TableInv'
  BY TableStep
<1> QED BY <1>1, <1>2, InitTable, PTL DEF Spec

\* Downloads never lose a candle, and never reopen a closed one, even with late answers.
THEOREM NothingIsUnlearned == Spec => NothingUnlearned
<1>1. TableInv /\ [Next]_vars => TableInv'
  BY TableStep
<1>2. TableInv /\ [Next]_vars =>
          [\A i \in Stored : /\ i \in DOMAIN candles'
                             /\ candles[i].closed => candles'[i].closed]_historyVars
  <2>1. SUFFICES ASSUME TableInv, [Next]_vars, NEW i \in Stored
                 PROVE  /\ i \in DOMAIN candles'
                        /\ candles[i].closed => candles'[i].closed
    OBVIOUS
  <2>2. Preserved /\ Stored \subseteq Stored'
    BY <2>1, TableStep
  <2> QED BY <2>1, <2>2 DEF Preserved, Closed, Stored
<1> QED BY <1>1, <1>2, InitTable, PTL DEF Spec, NothingUnlearned

-----------------------------------------------------------------------------
(* The pages of a download *)

\* A set of numbers has a least element.
LEMMA LeastNatural ==
    ASSUME NEW T, T \subseteq Nat, T # {}
    PROVE  \E m \in T : \A k \in T : m <= k
<1> DEFINE Upto == {0 .. n : n \in T}
<1>1. Upto \subseteq FiniteSubsetsOf(Nat)
  <2>1. \A n \in T : IsFiniteSet(0 .. n)
    BY FS_Interval
  <2> QED BY <2>1 DEF FiniteSubsetsOf
<1>2. \E x \in Upto : \A y \in Upto : <<y, x>> \notin StrictSubsetOrdering(Nat)
  <2>1. IsWellFoundedOn(StrictSubsetOrdering(Nat), FiniteSubsetsOf(Nat))
    BY FS_StrictSubsetOrderingWellFounded
  <2>2. Upto # {}
    OBVIOUS
  <2> HIDE DEF Upto
  <2> QED BY <1>1, <2>1, <2>2, WFMin
<1>3. PICK m \in T : \A k \in T : <<0 .. k, 0 .. m>> \notin StrictSubsetOrdering(Nat)
  BY <1>2
<1>4. ASSUME NEW k \in T, k < m
      PROVE  FALSE
  <2>1. 0 .. k \subseteq 0 .. m /\ 0 .. k # 0 .. m
    BY <1>4
  <2>2. <<0 .. k, 0 .. m>> \in StrictSubsetOrdering(Nat)
    BY <2>1 DEF StrictSubsetOrdering
  <2> QED BY <1>3, <2>2
<1> QED BY <1>4

LEMMA MinIsLeast ==
    ASSUME NEW T, T \subseteq Nat, T # {}
    PROVE  Min(T) \in T /\ \A y \in T : Min(T) <= y
BY LeastNatural DEF Min

LEMMA MaxIsGreatest ==
    ASSUME NEW n \in Nat, NEW T, T \subseteq 0..n, T # {}
    PROVE  Max(T) \in T /\ \A y \in T : y <= Max(T)
<1> DEFINE mirrored == {n - y : y \in T}
<1>1. mirrored \subseteq Nat /\ mirrored # {}
  <2>1. \A y \in T : n - y \in Nat
    OBVIOUS
  <2> QED BY <2>1
<1>2. PICK x \in mirrored : \A y \in mirrored : x <= y
  BY <1>1, LeastNatural
<1>3. PICK z \in T : x = n - z
  BY <1>2
<1>4. \A y \in T : y <= z
  <2>1. SUFFICES ASSUME NEW y \in T PROVE y <= z
    OBVIOUS
  <2>2. n - y \in mirrored /\ y \in Int /\ z \in Int
    BY <2>1
  <2> QED BY <1>2, <1>3, <2>2
<1>5. \A y \in T : y \in Int
  OBVIOUS
<1> QED BY <1>3, <1>4, <1>5 DEF Max

\* The candles an exchange lists at time t for a request, and the page of them it answers.
ListedRows(t, from, end) ==
    {i \in 1..Min({t, LastCandle}) : (from # 0 => i >= from) /\ (end # 0 => i <= end)}

Ahead(t, from, end, i) ==
    IF from # 0 THEN {j \in ListedRows(t, from, end) : j < i} ELSE {j \in ListedRows(t, from, end) : j > i}

PageAt(t, from, end) ==
    {i \in ListedRows(t, from, end) : Cardinality(Ahead(t, from, end, i)) < PageLimit}

LEMMA PageIsNow ==
    ASSUME NEW from, NEW end
    PROVE  Page(from, end) = PageAt(now, from, end)
BY DEF Page, PageAt, ListedRows, Ahead

LEMMA ListedRange ==
    ASSUME NEW t \in Nat \ {0}, NEW from, NEW end
    PROVE  /\ \A i : i \in ListedRows(t, from, end) <=>
                         /\ i \in Candles /\ i <= t
                         /\ from # 0 => i >= from
                         /\ end # 0 => i <= end
           /\ IsFiniteSet(ListedRows(t, from, end))
<1>1. LastCandle \in Nat \ {0}
  BY HistoryAssumption
<1>2. Min({t, LastCandle}) \in {t, LastCandle} /\ Min({t, LastCandle}) <= t
      /\ Min({t, LastCandle}) <= LastCandle
  <2>1. {t, LastCandle} \subseteq Nat /\ {t, LastCandle} # {}
    BY <1>1
  <2> QED BY <2>1, MinIsLeast
<1> DEFINE m == Min({t, LastCandle})
<1>3. \A i : i \in 1..m <=> i \in Candles /\ i <= t
  BY <1>1, <1>2 DEF Candles
<1>4. IsFiniteSet(1..m)
  BY <1>1, <1>2, FS_Interval
<1> HIDE DEF m
<1>5. ListedRows(t, from, end) = {i \in 1..m : (from # 0 => i >= from) /\ (end # 0 => i <= end)}
  BY DEF ListedRows, m
<1>6. IsFiniteSet(ListedRows(t, from, end))
  BY <1>4, <1>5, FS_Subset
<1> QED BY <1>3, <1>5, <1>6

\* From a start the page has no hole: it is what is listed up to its last candle.
LEMMA PageFromStart ==
    ASSUME NEW t \in Nat \ {0}, NEW from \in Nat \ {0}, NEW end,
           NEW i \in PageAt(t, from, end), NEW j \in ListedRows(t, from, end), j <= i
    PROVE  j \in PageAt(t, from, end)
<1>1. i \in ListedRows(t, from, end) /\ Cardinality(Ahead(t, from, end, i)) < PageLimit
  BY DEF PageAt
<1>2. \A k \in ListedRows(t, from, end) : k \in Int
  BY ListedRange DEF Candles
<1>3. Ahead(t, from, end, j) \in SUBSET Ahead(t, from, end, i)
  BY <1>1, <1>2 DEF Ahead
<1>4. IsFiniteSet(Ahead(t, from, end, i))
  BY ListedRange, FS_Subset DEF Ahead
<1>5. Cardinality(Ahead(t, from, end, j)) <= Cardinality(Ahead(t, from, end, i))
      /\ Cardinality(Ahead(t, from, end, j)) \in Nat /\ Cardinality(Ahead(t, from, end, i)) \in Nat
  BY <1>3, <1>4, FS_Subset, FS_CardinalityType
<1>6. PageLimit \in Nat
  BY HistoryAssumption
<1> QED BY <1>1, <1>5, <1>6 DEF PageAt

\* Without one it ends with the most recent candle and has no hole either.
LEMMA PageFromEnd ==
    ASSUME NEW t \in Nat \ {0}, NEW end,
           NEW i \in PageAt(t, 0, end), NEW j \in ListedRows(t, 0, end), i <= j
    PROVE  j \in PageAt(t, 0, end)
<1>1. i \in ListedRows(t, 0, end) /\ Cardinality(Ahead(t, 0, end, i)) < PageLimit
  BY DEF PageAt
<1>2. \A k \in ListedRows(t, 0, end) : k \in Int
  BY ListedRange DEF Candles
<1>3. Ahead(t, 0, end, j) \in SUBSET Ahead(t, 0, end, i)
  BY <1>1, <1>2 DEF Ahead
<1>4. IsFiniteSet(Ahead(t, 0, end, i))
  BY ListedRange, FS_Subset DEF Ahead
<1>5. Cardinality(Ahead(t, 0, end, j)) <= Cardinality(Ahead(t, 0, end, i))
      /\ Cardinality(Ahead(t, 0, end, j)) \in Nat /\ Cardinality(Ahead(t, 0, end, i)) \in Nat
  BY <1>3, <1>4, FS_Subset, FS_CardinalityType
<1>6. PageLimit \in Nat
  BY HistoryAssumption
<1> QED BY <1>1, <1>5, <1>6 DEF PageAt

\* A page that is not full is all there is.
LEMMA ShortPage ==
    ASSUME NEW t \in Nat \ {0}, NEW from \in Nat \ {0}, NEW end,
           Cardinality(PageAt(t, from, end)) < PageLimit
    PROVE  PageAt(t, from, end) = ListedRows(t, from, end)
<1> DEFINE page   == PageAt(t, from, end)
           listed == ListedRows(t, from, end)
           rest   == listed \ page
<1>1. page \subseteq listed /\ IsFiniteSet(page) /\ IsFiniteSet(listed)
  BY ListedRange, FS_Subset DEF PageAt
<1>2. SUFFICES ASSUME rest # {} PROVE FALSE
  BY <1>1
<1>3. rest \subseteq Nat
  BY ListedRange DEF Candles
<1>4. PICK m \in rest : \A k \in rest : m <= k
  BY <1>2, <1>3, LeastNatural
<1>5. \A k \in listed : k \in Nat
  BY ListedRange DEF Candles
<1>6. Ahead(t, from, end, m) \subseteq page
  BY <1>4, <1>5 DEF Ahead
<1>7. Cardinality(Ahead(t, from, end, m)) <= Cardinality(page)
      /\ Cardinality(Ahead(t, from, end, m)) \in Nat /\ Cardinality(page) \in Nat
  BY <1>1, <1>6, FS_Subset, FS_CardinalityType
<1>8. PageLimit \in Nat
  BY HistoryAssumption
<1> QED BY <1>4, <1>7, <1>8 DEF PageAt

JobType ==
    [start : 0..LastCandle, end : 0..LastCandle, first : 0..(LastCandle + 1),
     from : 0..(LastCandle + 1), open : BOOLEAN, tries : 0..MaximumRetries, asked : BOOLEAN,
     page : SUBSET Candles, seen : Nat, began : Nat]

\* What is known of a running download: the answer it holds is the page of the moment it
\* was made, everything before the next request that was closed when it began is stored,
\* and an update goes on where the table ends.
RequestInv ==
    /\ job.began <= now
    /\ job.start # 0 => job.first = job.start
    /\ job.first # 0 => job.from >= job.first
    /\ job.asked => /\ job.began <= job.seen /\ job.seen <= now /\ job.seen # 0
                    /\ job.page = PageAt(job.seen, job.from, job.end)
    /\ job.first # 0 /\ job.end # 0 =>
          \A i \in job.first..(job.from - 1) : i < job.began => i \in Closed
    /\ ~ pinned => /\ job.start = 0 /\ job.end < job.began
                   /\ job.from = 0 => Closed = {}
                   /\ job.from # 0 => /\ job.from - 1 \in Closed
                                      /\ \A i \in Closed : i < job.from

HistoryInv ==
    /\ now \in 1..(LastCandle + 1) /\ pinned \in BOOLEAN /\ commands \in 0..MaxCommands
    /\ Stored \subseteq Candles /\ \A i \in Stored : candles[i] \in Row
    /\ \A i \in Closed : i < now
    /\ Running => job \in JobType /\ RequestInv
    /\ FinishedIsComplete /\ UpdatesLeaveNoHole

LEMMA HistoryConstants ==
    /\ LastCandle \in Nat \ {0} /\ PageLimit \in Nat \ {0}
    /\ MaximumRetries \in Nat /\ MaxCommands \in Nat
BY HistoryAssumption

LEMMA PageOfCandles ==
    ASSUME NEW t \in Nat \ {0}, NEW from, NEW end
    PROVE  PageAt(t, from, end) \subseteq Candles
BY ListedRange DEF PageAt

LEMMA LatestClosed ==
    ASSUME HistoryInv
    PROVE  /\ Latest \in {0} \cup Closed /\ Latest \in 0..LastCandle
           /\ \A i \in Closed : i <= Latest
<1>1. {0} \cup Closed \subseteq 0..LastCandle
  BY HistoryConstants DEF HistoryInv, Closed, Stored, Candles
<1> QED BY <1>1, MaxIsGreatest, HistoryConstants DEF Latest

LEMMA StartedHistory ==
    ASSUME HistoryInv, NEW start \in {0} \cup Candles, NEW end \in {0} \cup Candles,
           NEW open \in BOOLEAN, NEW first,
           first = IF start # 0 \/ Latest = 0 THEN start ELSE Latest + 1,
           Started(start, end, first, open)
    PROVE  HistoryInv'
<1>1. /\ job' = [start |-> start, end |-> end, first |-> first, from |-> first,
                 open |-> open, tries |-> 0, asked |-> FALSE, page |-> {},
                 seen |-> 0, began |-> now]
      /\ pinned' = (pinned \/ start # 0 \/ end >= now)
      /\ commands' = commands + 1 /\ commands < MaxCommands
      /\ outcome' = None /\ now' = now /\ candles' = candles
  BY DEF Started
<1>2. Closed' = Closed /\ Stored' = Stored
  BY <1>1 DEF Closed, Stored
<1>3. /\ start \in 0..LastCandle /\ end \in 0..LastCandle
      /\ now \in Nat \ {0} /\ pinned \in BOOLEAN /\ commands \in 0..MaxCommands
      /\ Latest \in 0..LastCandle
  BY LatestClosed, HistoryConstants DEF HistoryInv, Candles
<1>4. first \in 0..(LastCandle + 1)
  BY <1>3, HistoryConstants
<1>5. job' \in JobType
  BY <1>1, <1>3, <1>4, HistoryConstants DEF JobType
<1>6. RequestInv'
  <2>1. /\ job'.began = now /\ job'.start = start /\ job'.end = end /\ job'.first = first
        /\ job'.from = first /\ ~ job'.asked
    BY <1>1
  <2>2. ~ pinned' => ~ pinned /\ start = 0 /\ end < now
    <3>1. ~ pinned' => ~ pinned /\ start = 0 /\ ~ (end >= now)
      BY <1>1, Zenon
    <3> QED BY <3>1, <1>3, HistoryConstants
  <2>3. start = 0 /\ first = 0 => Closed = {}
    <3>1. SUFFICES ASSUME start = 0, first = 0, NEW i \in Closed PROVE FALSE
      OBVIOUS
    <3>2. Latest = 0
      BY <3>1, <1>3
    <3>3. i \in 1..LastCandle /\ i <= Latest
      BY <3>1, LatestClosed DEF HistoryInv, Closed, Stored, Candles
    <3> QED BY <3>2, <3>3, HistoryConstants
  <2>4. start = 0 /\ first # 0 => first - 1 \in Closed /\ \A i \in Closed : i < first
    <3>1. SUFFICES ASSUME start = 0, first # 0
                   PROVE  first - 1 \in Closed /\ \A i \in Closed : i < first
      OBVIOUS
    <3>2. first = Latest + 1 /\ Latest # 0
      BY <3>1
    <3>3. \A i \in Closed : i \in Int
      BY DEF HistoryInv, Closed, Stored, Candles
    <3> QED BY <3>2, <3>3, <1>3, LatestClosed
  <2>5. \A i \in first..(first - 1) : FALSE
    BY <1>4
  <2> QED BY <2>1, <2>2, <2>3, <2>4, <2>5, <1>1, <1>2, <1>3, <1>4 DEF RequestInv
<1>7. FinishedIsComplete'
  BY <1>1 DEF FinishedIsComplete
<1>8. UpdatesLeaveNoHole'
  BY <1>1, <1>2, <1>3 DEF HistoryInv, UpdatesLeaveNoHole
<1>9. commands' \in 0..MaxCommands /\ pinned' \in BOOLEAN
  BY <1>1, <1>3, HistoryConstants
<1> QED BY <1>1, <1>2, <1>5, <1>6, <1>7, <1>8, <1>9 DEF HistoryInv

\* A step that leaves the table and the commands alone needs its clock and its job only.
LEMMA OthersHistory ==
    ASSUME HistoryInv, UNCHANGED <<candles, outcome, pinned, commands>>,
           now' \in 1..(LastCandle + 1), now' >= now,
           Running' => job' \in JobType /\ RequestInv'
    PROVE  HistoryInv'
<1>1. Closed' = Closed /\ Stored' = Stored
  BY DEF Closed, Stored
<1>2. \A i \in Closed' : i < now'
  <2>1. \A i \in Closed : i \in Int /\ i < now
    BY DEF HistoryInv, Closed, Stored, Candles
  <2>2. now \in Int /\ now' \in Int
    BY DEF HistoryInv
  <2> QED BY <1>1, <2>1, <2>2
<1>3. FinishedIsComplete' /\ UpdatesLeaveNoHole'
  BY <1>1 DEF HistoryInv, FinishedIsComplete, UpdatesLeaveNoHole
<1> QED BY <1>1, <1>2, <1>3 DEF HistoryInv

\* What the rows of an answer add to the closed candles.
Added ==
    {i \in job.page : /\ i < now
                      /\ job.start # 0 => i >= job.start
                      /\ job.end # 0 => i <= job.end}

LEMMA ClosedGrows ==
    ASSUME HistoryInv, Receive
    PROVE  /\ Closed' = Closed \cup Added
           /\ Stored' \subseteq Candles /\ \A i \in Stored' : candles'[i] \in Row
<1>1. /\ candles' = Upserted(Kept) /\ job \in JobType
  BY DEF Receive, HistoryInv
<1>2. Stored' = Stored \cup DOMAIN Kept
  BY <1>1, UpsertedRows DEF Stored
<1>3. DOMAIN Kept \subseteq Candles
  BY <1>1, KeptRows DEF JobType
<1>4. ASSUME NEW i \in DOMAIN Kept
      PROVE  candles'[i] = Kept[i]
  BY <1>1, UpsertedRows
<1>5. ASSUME NEW i \in Stored \ DOMAIN Kept
      PROVE  candles'[i] = candles[i]
  BY <1>1, UpsertedRows
<1>6. \A i \in DOMAIN Kept : Kept[i] \in Row /\ Kept[i].closed = (i < now)
  BY DEF Kept, Row
<1>7. \A i \in Stored' : candles'[i] \in Row
  <2>1. SUFFICES ASSUME NEW i \in Stored' PROVE candles'[i] \in Row
    OBVIOUS
  <2>2. CASE i \in DOMAIN Kept
    BY <2>2, <1>4, <1>6
  <2>3. CASE i \notin DOMAIN Kept
    BY <2>1, <2>3, <1>2, <1>5 DEF HistoryInv
  <2> QED BY <2>2, <2>3
<1>8. Added \subseteq DOMAIN Kept
  BY DEF Added, Kept
<1>9. \A i \in DOMAIN Kept : i < now => i \in Added
  BY DEF Added, Kept
<1>10. Closed' \subseteq Closed \cup Added
  <2>1. SUFFICES ASSUME NEW i \in Closed' PROVE i \in Closed \cup Added
    OBVIOUS
  <2>2. i \in Stored' /\ candles'[i].closed
    BY <2>1 DEF Closed
  <2>3. CASE i \in DOMAIN Kept
    BY <2>2, <2>3, <1>4, <1>6, <1>9
  <2>4. CASE i \notin DOMAIN Kept
    <3>1. i \in Stored /\ candles[i].closed
      BY <1>2, <1>5, <2>2, <2>4
    <3> QED BY <3>1 DEF Closed
  <2> QED BY <2>3, <2>4
<1>11. Closed \cup Added \subseteq Closed'
  <2>1. SUFFICES ASSUME NEW i \in Closed \cup Added PROVE i \in Stored' /\ candles'[i].closed
    BY DEF Closed
  <2>2. i < now
    BY <2>1 DEF HistoryInv, Added
  <2>3. CASE i \in DOMAIN Kept
    BY <2>2, <2>3, <1>2, <1>4, <1>6
  <2>4. CASE i \notin DOMAIN Kept
    <3>1. i \in Stored /\ candles[i].closed
      BY <2>1, <2>4, <1>8 DEF Closed
    <3> QED BY <3>1, <2>4, <1>2, <1>5
  <2> QED BY <2>3, <2>4
<1>12. Stored' \subseteq Candles
  BY <1>2, <1>3 DEF HistoryInv
<1> QED BY <1>7, <1>10, <1>11, <1>12

\* A page from a start that is the last one of its range covers the range.
LEMMA LastPageCovers ==
    ASSUME HistoryInv, Receive, LastPage, job.from # 0, job.end # 0,
           NEW i \in Candles, job.from <= i, i <= job.end, i <= job.seen
    PROVE  i \in job.page
<1>1. /\ job \in JobType /\ job.seen # 0
      /\ job.page = PageAt(job.seen, job.from, job.end)
  BY DEF Receive, HistoryInv, RequestInv
<1>2. job.seen \in Nat \ {0} /\ job.from \in Nat \ {0} /\ job.page \subseteq Candles
      /\ job.end \in Int
  BY <1>1, HistoryConstants DEF JobType
<1>3. i \in ListedRows(job.seen, job.from, job.end)
  BY <1>2, ListedRange
<1>4. CASE Cardinality(job.page) < PageLimit
  BY <1>1, <1>2, <1>3, <1>4, ShortPage
<1>5. CASE job.page # {} /\ Max(job.page) >= job.end
  <2>1. job.page \subseteq 0..LastCandle
    BY <1>2 DEF Candles
  <2>2. Max(job.page) \in job.page
    BY <1>5, <2>1, MaxIsGreatest, HistoryConstants
  <2>3. i <= Max(job.page)
    BY <1>2, <1>5, <2>2 DEF Candles
  <2> QED BY <1>1, <1>2, <1>3, <2>2, <2>3, PageFromStart
<1>6. CASE job.page = {}
  BY <1>4, <1>6, FS_EmptySet, HistoryConstants
<1> QED BY <1>4, <1>5, <1>6 DEF LastPage

\* What an answer adds from the start of its request on leaves no hole behind it.
LEMMA AddedFromStart ==
    ASSUME HistoryInv, Receive, job.from # 0, NEW k \in Candles, NEW j \in Added,
           job.from <= k, k <= j
    PROVE  k \in Added
<1>1. /\ job \in JobType /\ job.seen # 0
      /\ job.page = PageAt(job.seen, job.from, job.end)
      /\ job.start # 0 => job.first = job.start
      /\ job.first # 0 => job.from >= job.first
  BY DEF Receive, HistoryInv, RequestInv
<1>2. job.seen \in Nat \ {0} /\ job.from \in Nat \ {0} /\ now \in Int
      /\ job.start \in Int /\ job.end \in Int
  BY <1>1, HistoryConstants DEF JobType, HistoryInv
<1>3. j \in job.page /\ j < now /\ (job.end # 0 => j <= job.end)
  BY DEF Added
<1>4. j \in ListedRows(job.seen, job.from, job.end)
  BY <1>1, <1>3 DEF PageAt
<1>5. j \in Candles /\ j <= job.seen
  BY <1>2, <1>4, ListedRange
<1>6. k \in ListedRows(job.seen, job.from, job.end)
  BY <1>2, <1>3, <1>5, ListedRange DEF Candles
<1>7. k \in job.page
  BY <1>1, <1>2, <1>3, <1>6, PageFromStart
<1>8. k < now /\ (job.end # 0 => k <= job.end)
  BY <1>2, <1>3, <1>5 DEF Candles
<1>9. job.start # 0 => k >= job.start
  BY <1>1, <1>2 DEF Candles
<1> QED BY <1>7, <1>8, <1>9 DEF Added

\* Neither does an answer without a start, and it is the only one of an update.
LEMMA AddedFromEnd ==
    ASSUME HistoryInv, Receive, job.from = 0, job.start = 0
    PROVE  /\ \A i, j \in Added : \A k \in i..j : k \in Added
           /\ job.end < job.began => LastPage
<1>1. /\ job \in JobType /\ job.seen # 0 /\ job.began <= job.seen
      /\ job.page = PageAt(job.seen, 0, job.end)
  BY DEF Receive, HistoryInv, RequestInv
<1>2. job.seen \in Nat \ {0} /\ now \in Int /\ job.end \in 0..LastCandle /\ job.began \in Nat
      /\ job.page \subseteq Candles
  BY <1>1, HistoryConstants DEF JobType, HistoryInv
<1>3. ASSUME NEW i \in Added, NEW j \in Added, NEW k \in i..j
      PROVE  k \in Added
  <2>1. /\ i \in job.page /\ j \in job.page /\ j < now
        /\ i \in Candles /\ j \in Candles
        /\ job.end # 0 => j <= job.end
    BY <1>2 DEF Added
  <2>2. j \in ListedRows(job.seen, 0, job.end)
    BY <1>1, <2>1 DEF PageAt
  <2>3. j <= job.seen
    BY <1>2, <2>2, ListedRange
  <2>4. k \in Candles /\ i <= k /\ k <= j
    BY <1>3, <2>1, HistoryConstants DEF Candles
  <2>5. k \in ListedRows(job.seen, 0, job.end)
    BY <1>2, <2>1, <2>3, <2>4, ListedRange DEF Candles
  <2>6. k \in job.page
    BY <1>1, <1>2, <2>1, <2>4, <2>5, PageFromEnd
  <2>7. k < now /\ (job.end # 0 => k <= job.end)
    BY <1>2, <2>1, <2>4 DEF Candles
  <2> QED BY <2>6, <2>7 DEF Added
<1>4. ASSUME job.end < job.began
      PROVE  LastPage
  <2>1. CASE job.page = {} \/ job.end = 0
    BY <2>1 DEF LastPage
  <2>2. CASE job.page # {} /\ job.end # 0
    <3>1. PICK i \in job.page : TRUE
      BY <2>2
    <3>2. i \in ListedRows(job.seen, 0, job.end)
      BY <1>1, <3>1 DEF PageAt
    <3>3. i <= job.end
      BY <1>2, <2>2, <3>2, ListedRange
    <3>4. job.end \in ListedRows(job.seen, 0, job.end)
      BY <1>1, <1>2, <1>4, <2>2, ListedRange DEF Candles
    <3>5. job.end \in job.page
      BY <1>1, <1>2, <3>1, <3>3, <3>4, PageFromEnd
    <3>6. job.page \subseteq 0..LastCandle
      BY <1>2 DEF Candles
    <3>7. Max(job.page) >= job.end
      BY <3>5, <3>6, MaxIsGreatest, HistoryConstants
    <3> QED BY <3>7 DEF LastPage
  <2> QED BY <2>1, <2>2
<1> QED BY <1>3, <1>4

LEMMA ReceiveFinishes ==
    ASSUME HistoryInv, Receive
    PROVE  FinishedIsComplete'
<1>1. CASE ~ LastPage
  <2>1. outcome' = outcome
    BY <1>1 DEF Receive
  <2>2. Closed \subseteq Closed'
    BY ClosedGrows
  <2> QED BY <2>1, <2>2 DEF HistoryInv, FinishedIsComplete
<1>2. CASE LastPage
  <2>1. outcome' = [first |-> job.first, end |-> job.end, began |-> job.began]
    BY <1>2 DEF Receive
  <2>2. /\ job \in JobType /\ job.seen # 0 /\ job.began <= job.seen /\ job.began <= now
        /\ job.start # 0 => job.first = job.start
        /\ job.first # 0 => job.from >= job.first
        /\ job.first # 0 /\ job.end # 0 =>
              \A i \in job.first..(job.from - 1) : i < job.began => i \in Closed
    BY DEF Receive, HistoryInv, RequestInv
  <2>3. /\ job.first \in Nat /\ job.from \in Nat /\ job.end \in 0..LastCandle
        /\ job.began \in Nat /\ job.seen \in Nat /\ now \in Int /\ job.start \in Nat
    BY <2>2, HistoryConstants DEF JobType, HistoryInv
  <2>4. SUFFICES ASSUME job.first # 0, job.end # 0, NEW i \in job.first..job.end,
                        i < job.began
                 PROVE  i \in Closed'
    BY <2>1 DEF FinishedIsComplete
  <2>5. i \in Candles /\ i <= job.end /\ i >= job.first /\ i < now
    BY <2>2, <2>3, <2>4, HistoryConstants DEF Candles
  <2>6. CASE i < job.from
    <3>1. i \in job.first..(job.from - 1)
      BY <2>3, <2>5, <2>6 DEF Candles
    <3> QED BY <2>2, <2>4, <3>1, ClosedGrows
  <2>7. CASE i >= job.from
    <3>1. job.from # 0 /\ i <= job.seen
      BY <2>2, <2>3, <2>4, <2>5 DEF Candles
    <3>2. i \in job.page
      BY <1>2, <2>4, <2>5, <2>7, <3>1, LastPageCovers
    <3>3. i \in Added
      BY <2>2, <2>5, <3>2 DEF Added
    <3> QED BY <3>3, ClosedGrows
  <2> QED BY <2>3, <2>5, <2>6, <2>7 DEF Candles
<1> QED BY <1>1, <1>2

LEMMA ReceiveLeavesNoHole ==
    ASSUME HistoryInv, Receive, ~ pinned
    PROVE  Unbroken(Closed')
<1>1. /\ Closed' = Closed \cup Added /\ Unbroken(Closed)
      /\ job \in JobType /\ job.start = 0
      /\ job.from = 0 => Closed = {}
      /\ job.from # 0 => job.from - 1 \in Closed /\ \A i \in Closed : i < job.from
  BY ClosedGrows DEF Receive, HistoryInv, RequestInv, UpdatesLeaveNoHole
<1>2. Closed \subseteq Candles /\ Added \subseteq Candles /\ job.from \in Nat
  BY <1>1, HistoryConstants DEF HistoryInv, Closed, Stored, Added, JobType
<1>3. CASE job.from = 0
  BY <1>1, <1>3, AddedFromEnd DEF Unbroken
<1>4. CASE job.from # 0
  <2>1. SUFFICES ASSUME NEW i \in Closed \cup Added, NEW j \in Closed \cup Added, NEW k \in i..j
                 PROVE  k \in Closed \cup Added
    BY <1>1 DEF Unbroken
  <2>2. i \in Candles /\ j \in Candles /\ k \in Candles /\ i <= k /\ k <= j
    BY <1>2, <2>1, HistoryConstants DEF Candles
  <2>3. CASE j \in Closed /\ i \in Closed
    BY <1>1, <2>1, <2>3 DEF Unbroken
  <2>4. CASE k >= job.from
    <3>1. j \in Added
      BY <1>1, <1>2, <1>4, <2>1, <2>2, <2>4 DEF Candles
    <3> QED BY <1>4, <2>2, <2>4, <3>1, AddedFromStart
  <2>5. CASE k < job.from /\ i \in Closed
    <3>1. job.from - 1 \in Closed /\ k \in i..(job.from - 1)
      BY <1>1, <1>2, <1>4, <2>2, <2>5 DEF Candles
    <3> QED BY <1>1, <2>5, <3>1 DEF Unbroken
  <2>6. CASE i \notin Closed
    <3>1. i \in Added
      BY <2>1, <2>6
    <3>2. i \in job.page /\ job.page = PageAt(job.seen, job.from, job.end)
          /\ job.seen \in Nat \ {0}
      BY <3>1, <1>1 DEF Added, Receive, HistoryInv, RequestInv, JobType
    <3>3. i >= job.from
      BY <1>2, <1>4, <3>2, ListedRange DEF PageAt
    <3> QED BY <1>2, <2>2, <2>4, <3>3 DEF Candles
  <2> QED BY <1>2, <2>2, <2>4, <2>5, <2>6 DEF Candles
<1> QED BY <1>3, <1>4, <1>2

\* The next request goes on where the page ended.
LEMMA ReceiveGoesOn ==
    ASSUME HistoryInv, Receive, ~ LastPage
    PROVE  job' \in JobType /\ RequestInv'
<1> DEFINE m == Max(job.page)
<1>1. /\ job' = [job EXCEPT !.from = NextFrom, !.tries = 0, !.asked = FALSE,
                            !.page = {}, !.seen = 0]
      /\ now' = now /\ pinned' = pinned
      /\ job \in JobType /\ RequestInv /\ job.asked
  BY DEF Receive, HistoryInv
<1>2. job.page # {} /\ job.end # 0 /\ ~ (m >= job.end)
  BY DEF LastPage
<1>3. /\ job.first \in Nat /\ job.from \in Nat /\ job.end \in 0..LastCandle
      /\ job.began \in Nat /\ job.seen \in Nat \ {0} /\ now \in Int /\ job.start \in Nat
      /\ job.page \subseteq Candles /\ job.page \subseteq 0..LastCandle
  BY <1>1, HistoryConstants DEF JobType, HistoryInv, RequestInv, Candles
<1>4. m \in job.page /\ m \in Candles /\ \A i \in job.page : i <= m
  BY <1>2, <1>3, MaxIsGreatest, HistoryConstants
<1>5. /\ job.page = PageAt(job.seen, job.from, job.end)
      /\ m \in ListedRows(job.seen, job.from, job.end)
  BY <1>1, <1>4 DEF RequestInv, PageAt
<1>6. job.from # 0 => m >= job.from
  BY <1>3, <1>5, ListedRange
<1> DEFINE n == m + 1
<1>7. m < job.end /\ NextFrom = n
  BY <1>2, <1>3, <1>4 DEF NextFrom, Candles
<1> HIDE DEF m
<1>8. n \in 0..(LastCandle + 1) /\ m \in Nat \ {0} /\ n - 1 = m /\ n > m /\ n # 0
      /\ \A i \in Int : i <= m <=> i < n
  BY <1>4, HistoryConstants DEF Candles
<1> HIDE DEF n
<1>9. job' \in JobType
  <2>1. job' = [job EXCEPT !.from = n, !.tries = 0, !.asked = FALSE, !.page = {}, !.seen = 0]
    BY <1>1, <1>7
  <2>2. {} \in SUBSET Candles /\ 0 \in 0..MaximumRetries /\ 0 \in Nat /\ FALSE \in BOOLEAN
    BY HistoryConstants
  <2> QED BY <1>1, <1>8, <2>1, <2>2 DEF JobType
<1>10. /\ job'.began = job.began /\ job'.start = job.start /\ job'.end = job.end
       /\ job'.first = job.first /\ job'.from = n /\ ~ job'.asked
  BY <1>1, <1>7 DEF JobType
<1>11. job.first # 0 => n >= job.first
  BY <1>1, <1>3, <1>6, <1>8 DEF RequestInv
<1>12. ASSUME job.first # 0, NEW i \in job.first..m, i < job.began
       PROVE  i \in Closed'
  <2>1. CASE i < job.from
    <3>1. i \in job.first..(job.from - 1)
      BY <1>3, <1>8, <1>12, <2>1
    <3> QED BY <1>1, <1>2, <1>12, <3>1, ClosedGrows DEF RequestInv
  <2>2. CASE i >= job.from
    <3>1. job.from >= job.first /\ job.began <= now
      BY <1>1, <1>12 DEF RequestInv
    <3>2. job.from # 0 /\ i <= m /\ i >= job.first /\ i \in Nat \ {0} /\ m <= LastCandle
      BY <1>3, <1>4, <1>8, <1>12, <3>1 DEF Candles
    <3>3. i \in Candles /\ i <= job.end
      BY <1>3, <1>7, <1>8, <3>2, HistoryConstants DEF Candles
    <3>4. m <= job.seen
      BY <1>3, <1>5, ListedRange
    <3>5. i <= job.seen
      BY <1>3, <1>8, <3>2, <3>4
    <3>6. i \in ListedRows(job.seen, job.from, job.end)
      BY <1>3, <3>3, <3>5, <2>2, ListedRange
    <3>7. i \in job.page
      BY <1>3, <1>4, <1>5, <3>2, <3>6, PageFromStart
    <3>8. i < now /\ (job.start # 0 => i >= job.start)
      BY <1>1, <1>3, <1>12, <3>1, <3>2 DEF RequestInv
    <3> QED BY <3>3, <3>7, <3>8, ClosedGrows DEF Added
  <2> QED BY <2>1, <2>2, <1>3, <1>8, <1>12
<1>13. ASSUME ~ pinned
       PROVE  m \in Closed' /\ \A i \in Closed' : i < n
  <2>1. /\ job.start = 0 /\ job.end < job.began /\ job.began <= now
        /\ job.from = 0 => Closed = {}
        /\ job.from # 0 => \A i \in Closed : i < job.from
    BY <1>1, <1>13 DEF RequestInv
  <2>2. m \in Added
    BY <1>3, <1>4, <1>7, <1>8, <2>1 DEF Added
  <2>3. ASSUME NEW i \in Closed' PROVE i < n
    <3>1. i \in Candles
      BY <2>3, ClosedGrows, <1>3 DEF HistoryInv, Closed, Stored, Added
    <3>2. CASE i \in Added
      BY <3>1, <3>2, <1>4, <1>8 DEF Added, Candles
    <3>3. CASE i \in Closed
      BY <3>1, <3>3, <2>1, <1>3, <1>6, <1>8 DEF Candles
    <3> QED BY <2>3, <3>2, <3>3, ClosedGrows
  <2> QED BY <2>2, <2>3, ClosedGrows
<1>14. ~ pinned => job.start = 0 /\ job.end < job.began
  BY <1>1 DEF RequestInv
<1>15. job.began <= now /\ (job.start # 0 => job.first = job.start)
  BY <1>1 DEF RequestInv
<1>16. \A i \in job'.first..(job'.from - 1) :
           job'.first # 0 => (i < job'.began => i \in Closed')
  BY <1>8, <1>10, <1>12
<1>17. ~ pinned' => job'.from - 1 \in Closed' /\ \A i \in Closed' : i < job'.from
  BY <1>1, <1>8, <1>10, <1>13
<1>18. RequestInv'
  BY <1>1, <1>8, <1>10, <1>11, <1>14, <1>15, <1>16, <1>17 DEF RequestInv
<1> QED BY <1>9, <1>18

LEMMA ReceiveHistory ==
    ASSUME HistoryInv, Receive
    PROVE  HistoryInv'
<1>1. /\ now' = now /\ pinned' = pinned /\ commands' = commands
      /\ LastPage => job' = None
  BY DEF Receive
<1>2. Running' => job' \in JobType /\ RequestInv'
  BY <1>1, ReceiveGoesOn DEF Running
<1>3. \A i \in Closed' : i < now'
  BY <1>1, ClosedGrows DEF HistoryInv, Added
<1>4. UpdatesLeaveNoHole'
  BY <1>1, ReceiveLeavesNoHole DEF UpdatesLeaveNoHole
<1> QED BY <1>1, <1>2, <1>3, <1>4, ClosedGrows, ReceiveFinishes DEF HistoryInv

LEMMA HistoryStep ==
    ASSUME HistoryInv, HistoryNext
    PROVE  HistoryInv'
<1>1. now \in 1..(LastCandle + 1) /\ now \in Nat \ {0}
  BY HistoryConstants DEF HistoryInv
<1>2. CASE Command
  <2>1. CASE \E start, end \in {0} \cup Candles, open \in BOOLEAN : SpotCommand(start, end, open)
    BY <2>1, StartedHistory DEF SpotCommand
  <2>2. CASE \E start, end \in Candles : FuturesCommand(start, end)
    <3>1. PICK start \in Candles, end \in Candles : FuturesCommand(start, end)
      BY <2>2
    <3>2. start # 0 /\ Started(start, end, start, FALSE)
      BY <3>1 DEF FuturesCommand
    <3> QED BY <3>2, StartedHistory
  <2> QED BY <1>2, <2>1, <2>2 DEF Command
<1>3. CASE Answer
  <2>1. /\ Running /\ UNCHANGED <<now, candles, outcome, pinned, commands>>
        /\ job' = [job EXCEPT !.asked = TRUE, !.page = Page(job.from, job.end), !.seen = now]
    BY <1>3 DEF Answer
  <2>2. job \in JobType /\ RequestInv
    BY <2>1 DEF HistoryInv
  <2>3. Page(job.from, job.end) = PageAt(now, job.from, job.end)
    BY PageIsNow
  <2>4. PageAt(now, job.from, job.end) \subseteq Candles
    BY <1>1, PageOfCandles
  <2>5. job' \in JobType
    BY <1>1, <2>1, <2>2, <2>3, <2>4 DEF JobType
  <2>6. /\ job'.began = job.began /\ job'.start = job.start /\ job'.end = job.end
        /\ job'.first = job.first /\ job'.from = job.from
        /\ job'.seen = now /\ job'.page = PageAt(now, job.from, job.end)
    BY <2>1, <2>2, <2>3 DEF JobType
  <2>7. Closed' = Closed
    BY <2>1 DEF Closed, Stored
  <2>8. RequestInv'
    BY <1>1, <2>1, <2>2, <2>6, <2>7 DEF RequestInv
  <2> QED BY <1>1, <2>1, <2>5, <2>8, OthersHistory
<1>4. CASE Fail
  <2>1. /\ Running /\ UNCHANGED <<now, candles, outcome, pinned, commands>>
        /\ job' = None \/ (job.tries < MaximumRetries /\ job' = [job EXCEPT !.tries = @ + 1])
        /\ ~ job.asked
    BY <1>4 DEF Fail
  <2>2. job \in JobType /\ RequestInv
    BY <2>1 DEF HistoryInv
  <2>3. CASE job' = None
    BY <1>1, <2>1, <2>3, OthersHistory DEF Running
  <2>4. CASE job.tries < MaximumRetries /\ job' = [job EXCEPT !.tries = @ + 1]
    <3>1. job.tries + 1 \in 0..MaximumRetries
      BY <2>2, <2>4, HistoryConstants DEF JobType
    <3>2. job' \in JobType
      BY <2>2, <2>4, <3>1 DEF JobType
    <3>3. /\ job'.began = job.began /\ job'.start = job.start /\ job'.end = job.end
          /\ job'.first = job.first /\ job'.from = job.from /\ ~ job'.asked
      BY <2>1, <2>2, <2>4 DEF JobType
    <3>4. Closed' = Closed
      BY <2>1 DEF Closed, Stored
    <3>5. RequestInv'
      BY <2>1, <2>2, <3>3, <3>4 DEF RequestInv
    <3> QED BY <1>1, <2>1, <3>2, <3>5, OthersHistory
  <2> QED BY <2>1, <2>3, <2>4
<1>5. CASE Abort
  <2>1. job' = None /\ UNCHANGED <<now, candles, outcome, pinned, commands>>
    BY <1>5 DEF Abort
  <2> QED BY <1>1, <2>1, OthersHistory DEF Running
<1>6. CASE Receive
  BY <1>6, ReceiveHistory
<1>7. CASE Tick
  <2>1. /\ now <= LastCandle /\ now' = now + 1
        /\ UNCHANGED <<candles, job, outcome, pinned, commands>>
    BY <1>7 DEF Tick
  <2>2. now' \in 1..(LastCandle + 1) /\ now' >= now
    BY <1>1, <2>1, HistoryConstants
  <2>3. Closed' = Closed
    BY <2>1 DEF Closed, Stored
  <2>4. ASSUME Running' PROVE job' \in JobType /\ RequestInv'
    <3>1. job \in JobType /\ RequestInv /\ job' = job /\ pinned' = pinned
      BY <2>1, <2>4 DEF Running, HistoryInv
    <3>2. job.began \in Int /\ job.seen \in Int
      BY <3>1 DEF JobType
    <3>3. job.began <= now' /\ (job.asked => job.seen <= now')
      BY <1>1, <2>1, <3>1, <3>2 DEF RequestInv
    <3> QED BY <2>3, <3>1, <3>3 DEF RequestInv
  <2> QED BY <2>1, <2>2, <2>4, OthersHistory
<1> QED BY <1>2, <1>3, <1>4, <1>5, <1>6, <1>7 DEF HistoryNext

LEMMA HistoryInitial == Init => HistoryInv
<1>1. SUFFICES ASSUME Init PROVE HistoryInv
  OBVIOUS
<1>2. /\ now = 1 /\ job = None /\ outcome = None /\ pinned = FALSE /\ commands = 0
      /\ candles = [i \in {} |-> [closed |-> TRUE, final |-> TRUE]]
  BY <1>1 DEF Init, HistoryInit
<1>3. Stored = {} /\ Closed = {}
  BY <1>2 DEF Stored, Closed
<1>4. now \in 1..(LastCandle + 1) /\ commands \in 0..MaxCommands /\ pinned \in BOOLEAN
  <2>1. now = 1 /\ commands = 0 /\ pinned = FALSE
    BY <1>2
  <2>2. pinned \in BOOLEAN
    BY <2>1, Zenon
  <2>3. 1 \in 1..(LastCandle + 1) /\ 0 \in 0..MaxCommands
    BY HistoryConstants
  <2> QED BY <2>1, <2>2, <2>3
<1>5. FinishedIsComplete /\ UpdatesLeaveNoHole /\ ~ Running
  BY <1>2, <1>3 DEF Running, FinishedIsComplete, UpdatesLeaveNoHole, Unbroken
<1> QED BY <1>3, <1>4, <1>5 DEF HistoryInv

LEMMA HistoryAlways ==
    ASSUME HistoryInv, [Next]_vars
    PROVE  HistoryInv'
<1>1. CASE HistoryNext
  BY <1>1, HistoryStep
<1>2. CASE UNCHANGED historyVars
  <2>1. Closed' = Closed /\ Stored' = Stored
    BY <1>2 DEF Closed, Stored, historyVars
  <2> QED BY <1>2, <2>1 DEF historyVars, HistoryInv, RequestInv, Running, FinishedIsComplete,
             UpdatesLeaveNoHole
<1> QED BY <1>1, <1>2, ResearchLeavesTable DEF Next, vars

\* A download that returned has left nothing out of its range, over all its pages and
\* retries and however late its answers were.
THEOREM FinishedComplete == Spec => []FinishedIsComplete
<1>1. HistoryInv => FinishedIsComplete
  BY DEF HistoryInv
<1>2. HistoryInv /\ [Next]_vars => HistoryInv'
  BY HistoryAlways
<1> QED BY <1>1, <1>2, HistoryInitial, PTL DEF Spec

\* Updates alone leave no hole in the closed candles, whatever failed or was aborted.
THEOREM UpdatesUnbroken == Spec => []UpdatesLeaveNoHole
<1>1. HistoryInv => UpdatesLeaveNoHole
  BY DEF HistoryInv
<1>2. HistoryInv /\ [Next]_vars => HistoryInv'
  BY HistoryAlways
<1> QED BY <1>1, <1>2, HistoryInitial, PTL DEF Spec

-----------------------------------------------------------------------------
(* What an experiment has read *)

ExpFields == {"kind", "at", "bytes", "dev", "val", "disturbed", "selected", "validated"}

\* The candles it read are closed and final.
ReadInv ==
    exp # None =>
        /\ DOMAIN exp = ExpFields
        /\ \A i \in exp.dev \cup exp.val : i \in Closed /\ (~ LateAnswers => candles[i].final)

\* A step of the experiment reads nothing, or closed candles.
LEMMA ReadsClosed ==
    ASSUME ReadInv, ResearchNext
    PROVE  exp' # None =>
               /\ DOMAIN exp' = ExpFields
               /\ exp'.dev \cup exp'.val \subseteq
                      Closed \cup IF exp = None THEN {} ELSE exp.dev \cup exp.val
<1> DEFINE Read == IF exp = None THEN {} ELSE exp.dev \cup exp.val
           Good == exp' # None =>
                       /\ DOMAIN exp' = ExpFields
                       /\ exp'.dev \cup exp'.val \subseteq Closed \cup Read
<1>1. CASE UNCHANGED exp
  BY <1>1 DEF ReadInv
<1>2. CASE Fails
  BY <1>2 DEF Fails
<1>3. CASE \E kind \in Kinds : Begin(kind)
  <2>1. PICK kind \in Kinds : Begin(kind)
    BY <1>3
  <2>2. exp' = [kind |-> kind, at |-> 1, bytes |-> "none",
                dev |-> {}, val |-> {}, disturbed |-> FALSE,
                selected |-> [g \in {} |-> {}], validated |-> [g \in {} |-> {}]]
    BY <2>1 DEF Begin
  <2>3. DOMAIN exp' = ExpFields /\ exp'.dev = {} /\ exp'.val = {}
    BY <2>2 DEF ExpFields
  <2> QED BY <2>3
<1>4. ASSUME NEW new, exp # None, exp' = new,
             DOMAIN new = DOMAIN exp, new.dev = exp.dev, new.val = exp.val
      PROVE  Good
  BY <1>4 DEF ReadInv
<1>5. CASE LoadData /\ ~ Fails
  <2>1. PICK want : exp' = [[exp EXCEPT
            !.dev = @ \cup ((Readable \cap want) \cap Development),
            !.val = @ \cup ((Readable \cap want) \cap Validation)] EXCEPT !.at = @ + 1]
    BY <1>5 DEF LoadData, Goes
  <2>2. exp # None
    BY <1>5 DEF LoadData, At, Busy
  <2>3. DOMAIN exp = ExpFields
    BY <2>2 DEF ReadInv
  <2>4. /\ DOMAIN exp' = ExpFields
        /\ exp'.dev \subseteq exp.dev \cup Closed /\ exp'.val \subseteq exp.val \cup Closed
    BY <2>1, <2>3 DEF ExpFields, Readable
  <2> QED BY <2>2, <2>4
<1>6. CASE ReadCatalog
  <2>1. exp # None /\ exp' = [[exp EXCEPT !.bytes = catalog] EXCEPT !.at = @ + 1]
    BY <1>6 DEF ReadCatalog, Goes, At, Busy
  <2>2. DOMAIN exp' = DOMAIN exp /\ exp'.dev = exp.dev /\ exp'.val = exp.val
    BY <2>1 DEF ReadInv, ExpFields
  <2> QED BY <2>1, <2>2, <1>4
<1>7. CASE exp # None /\ Goes(exp)
  <2>1. exp' = [exp EXCEPT !.at = @ + 1]
    BY <1>7 DEF Goes
  <2>2. DOMAIN exp' = DOMAIN exp /\ exp'.dev = exp.dev /\ exp'.val = exp.val
    BY <1>7, <2>1 DEF ReadInv, ExpFields
  <2> QED BY <1>7, <2>2, <1>4
<1>8. CASE Select
  <2>1. PICK new : exp # None /\ exp' = [[exp EXCEPT !.selected = new] EXCEPT !.at = @ + 1]
    BY <1>8 DEF Select, Goes, At, Busy
  <2>2. DOMAIN exp' = DOMAIN exp /\ exp'.dev = exp.dev /\ exp'.val = exp.val
    BY <2>1 DEF ReadInv, ExpFields
  <2> QED BY <2>1, <2>2, <1>4
<1>9. CASE Validate
  <2>1. PICK new : exp # None /\ exp' = [[exp EXCEPT !.validated = new] EXCEPT !.at = @ + 1]
    BY <1>9 DEF Validate, Goes, At, Busy
  <2>2. DOMAIN exp' = DOMAIN exp /\ exp'.dev = exp.dev /\ exp'.val = exp.val
    BY <2>1 DEF ReadInv, ExpFields
  <2> QED BY <2>1, <2>2, <1>4
<1>10. CASE exp # None /\
             (exp' = [exp EXCEPT !.at = 0] \/ \E b : exp' = [exp EXCEPT !.disturbed = b])
  <2>1. DOMAIN exp' = DOMAIN exp /\ exp'.dev = exp.dev /\ exp'.val = exp.val
    BY <1>10 DEF ReadInv, ExpFields
  <2> QED BY <1>10, <2>1, <1>4
<1>11. CASE LoadCatalog \/ WriteLock \/ Decide \/ CheckUnchanged
  BY <1>11, <1>2, <1>7 DEF LoadCatalog, WriteLock, Decide, CheckUnchanged, At, Busy
<1>12. CASE Report
  BY <1>12, <1>2, <1>10 DEF Report, At, Busy
<1>13. CASE (\E v \in Versions : StartFreeze(v)) \/ (\E c \in freeze : WriteFile(c) \/ KillFreeze(c))
  BY <1>13, <1>1 DEF StartFreeze, WriteFile, KillFreeze
<1>14. CASE (\E to \in {"reformatted", "altered"} : EditCatalog(to)) \/ EditLock
  BY <1>14, <1>1, <1>10 DEF EditCatalog, EditLock, Busy
<1> QED BY <1>2, <1>3, <1>5, <1>6, <1>8, <1>9, <1>11, <1>12, <1>13, <1>14
        DEF ResearchNext, ExperimentStep

LEMMA ReadStep ==
    ASSUME TableInv, ReadInv, [Next]_vars
    PROVE  ReadInv'
<1>1. CASE UNCHANGED exp
  <2>1. Preserved
    BY TableStep
  <2>2. \A i \in Closed : i \in Closed' /\ (~ LateAnswers /\ candles[i].final => candles'[i].final)
    BY <2>1 DEF Preserved
  <2> QED BY <1>1, <2>2 DEF ReadInv
<1>2. CASE ResearchNext
  <2>1. candles' = candles
    BY <1>2, ResearchLeavesTable DEF historyVars
  <2>2. Closed' = Closed
    BY <2>1 DEF Closed, Stored
  <2>3. SUFFICES ASSUME exp' # None, NEW i \in exp'.dev \cup exp'.val
                 PROVE  i \in Closed /\ (~ LateAnswers => candles[i].final)
    BY <1>2, <2>1, <2>2, ReadsClosed DEF ReadInv
  <2>4. i \in Closed \/ (exp # None /\ i \in exp.dev \cup exp.val)
    BY <1>2, <2>3, ReadsClosed
  <2> QED BY <2>4 DEF ReadInv, TableInv, ClosedIsFinal
<1> QED BY <1>1, <1>2 DEF Next, vars, researchVars

\* As long as no answer reports a state older than its arrival, an experiment never used
\* a candle whose values, or whose place in the table, a later download changes.  With
\* answers that are late it may: a candle that was still open is then stored as closed.
THEOREM ReadDataFinal == Spec => [](~ LateAnswers => DataIsFinal)
<1>1. Init => TableInv /\ ReadInv
  BY InitTable DEF Init, ResearchInit, ReadInv
<1>2. TableInv /\ ReadInv /\ [Next]_vars => TableInv' /\ ReadInv'
  BY TableStep, ReadStep
<1>3. ReadInv => (~ LateAnswers => DataIsFinal)
  BY DEF ReadInv, DataIsFinal
<1> QED BY <1>1, <1>2, <1>3, PTL DEF Spec

-----------------------------------------------------------------------------
(* The frozen versions *)

\* Freezes write the files of versions that exist, in their order.
FreezeInv ==
    /\ frozen = [v \in Versions |-> frozen[v]]
    /\ \A v \in Versions : DOMAIN frozen[v] \subseteq {Files[i] : i \in 1 .. 3}
    /\ freezes \in 0 .. MaxFreezes
    /\ \A c \in freeze : c \in [id : 1 .. MaxFreezes, version : Versions, at : 1 .. 3]

\* A write adds a file to one version or replaces one there, and a version no freeze
\* is writing is not that version.
LEMMA WriteAdds ==
    ASSUME FreezeInv, NEW c \in freeze, WriteFile(c)
    PROVE  /\ FreezeInv'
           /\ \A v \in Versions : /\ DOMAIN frozen[v] \subseteq DOMAIN frozen'[v]
                                  /\ v # c.version => frozen'[v] = frozen[v]
           /\ \A d \in freeze' : \E e \in freeze : d.version = e.version
<1> DEFINE v0 == c.version
           new == Noted(frozen[v0], Files[c.at], c.id)
           next == [c EXCEPT !.at = @ + 1]
<1>1. /\ frozen' = [frozen EXCEPT ![v0] = new] /\ freezes' = freezes
      /\ freeze' = (freeze \ {c}) \cup (IF c.at = Len(Files) THEN {} ELSE {next})
  BY DEF WriteFile
<1>2. c \in [id : 1 .. MaxFreezes, version : Versions, at : 1 .. 3] /\ DOMAIN frozen = Versions
  BY DEF FreezeInv
<1>3. DOMAIN new = DOMAIN frozen[v0] \cup {Files[c.at]}
  BY DEF Noted
<1>4. DOMAIN new \subseteq {Files[i] : i \in 1 .. 3}
  <2>1. DOMAIN frozen[v0] \subseteq {Files[i] : i \in 1 .. 3}
    BY <1>2 DEF FreezeInv
  <2>2. Files[c.at] \in {Files[i] : i \in 1 .. 3}
    BY <1>2
  <2> HIDE DEF new
  <2> QED BY <1>3, <2>1, <2>2
<1>5. frozen' = [v \in Versions |-> frozen'[v]] /\ frozen'[v0] = new
      /\ \A v \in Versions \ {v0} : frozen'[v] = frozen[v]
  <2>1. v0 \in Versions
    BY <1>2
  <2> HIDE DEF new, v0
  <2> QED BY <1>1, <1>2, <2>1
<1>6. c.at # Len(Files) => next \in [id : 1 .. MaxFreezes, version : Versions, at : 1 .. 3]
                           /\ next.version = v0
  <2>1. Len(Files) = 3
    BY DEF Files
  <2> QED BY <1>2, <2>1
<1>7. \A d \in freeze' : d \in freeze \/ (c.at # Len(Files) /\ d = next)
  <2> HIDE DEF next
  <2> QED BY <1>1
<1>8. FreezeInv'
  <2>1. \A v \in Versions : DOMAIN frozen'[v] \subseteq {Files[i] : i \in 1 .. 3}
    <3>1. \A v \in Versions : DOMAIN frozen[v] \subseteq {Files[i] : i \in 1 .. 3}
      BY DEF FreezeInv
    <3> HIDE DEF new, v0
    <3> QED BY <1>5, <1>4, <3>1
  <2> HIDE DEF next, new, v0
  <2> QED BY <1>1, <1>5, <1>6, <1>7, <2>1 DEF FreezeInv
<1>9. \A d \in freeze' : \E e \in freeze : d.version = e.version
  <2> HIDE DEF next
  <2> QED BY <1>6, <1>7
<1>10. \A v \in Versions : /\ DOMAIN frozen[v] \subseteq DOMAIN frozen'[v]
                           /\ v # c.version => frozen'[v] = frozen[v]
  <2> HIDE DEF new
  <2> QED BY <1>3, <1>5
<1> QED BY <1>8, <1>9, <1>10

\* What a step does to the frozen versions.
FrozenStays ==
    \A v \in Versions :
        /\ DOMAIN frozen[v] \subseteq DOMAIN frozen'[v]
        /\ Sealed(v) => Sealed(v)' /\ frozen'[v] = frozen[v]

LEMMA FreezeStep ==
    ASSUME FreezeInv, [Next]_vars
    PROVE  FreezeInv' /\ FrozenStays
<1>1. CASE \E c \in freeze : WriteFile(c)
  <2>1. PICK c \in freeze : WriteFile(c)
    BY <1>1
  <2>2. /\ FreezeInv'
        /\ \A v \in Versions : /\ DOMAIN frozen[v] \subseteq DOMAIN frozen'[v]
                               /\ v # c.version => frozen'[v] = frozen[v]
        /\ \A d \in freeze' : \E e \in freeze : d.version = e.version
    BY <2>1, WriteAdds
  <2>3. ASSUME NEW v \in Versions, Sealed(v)
        PROVE  Sealed(v)' /\ frozen'[v] = frozen[v]
    <3>1. v # c.version /\ frozen'[v] = frozen[v]
      BY <2>2, <2>3 DEF Sealed
    <3>2. \A d \in freeze' : d.version # v
      BY <2>2, <2>3 DEF Sealed
    <3> QED BY <2>3, <3>1, <3>2 DEF Sealed
  <2> QED BY <2>2, <2>3 DEF FrozenStays
<1>2. CASE UNCHANGED <<frozen, freeze, freezes>>
  BY <1>2 DEF FreezeInv, FrozenStays, Sealed
<1>3. CASE \E c \in freeze : KillFreeze(c)
  <2>1. freeze' \subseteq freeze /\ UNCHANGED <<frozen, freezes>>
    BY <1>3 DEF KillFreeze
  <2> QED BY <2>1 DEF FreezeInv, FrozenStays, Sealed
<1>4. CASE \E v \in Versions : StartFreeze(v)
  <2>1. PICK v \in Versions : StartFreeze(v)
    BY <1>4
  <2> DEFINE begun == [id |-> freezes + 1, version |-> v, at |-> 1]
  <2>2. /\ frozen' = frozen /\ freezes' = freezes + 1 /\ DOMAIN frozen[v] = {}
        /\ freeze' = freeze \cup {begun}
    BY <2>1 DEF StartFreeze, Freezable
  <2>3. begun \in [id : 1 .. MaxFreezes, version : Versions, at : 1 .. 3] /\ begun.version = v
    BY <2>1, ResearchAssumption DEF FreezeInv, StartFreeze
  <2>4. \A c \in freeze' : c \in freeze \/ c = begun
    BY <2>2
  <2>5. FreezeInv'
    <3>1. freezes + 1 \in 0 .. MaxFreezes
      BY <2>1, ResearchAssumption DEF FreezeInv, StartFreeze
    <3> HIDE DEF begun
    <3> QED BY <2>2, <2>3, <2>4, <3>1 DEF FreezeInv
  <2>6. ASSUME NEW w \in Versions, Sealed(w)
        PROVE  Sealed(w)'
    <3>1. w # v
      BY <2>2, <2>6 DEF Sealed
    <3> HIDE DEF begun
    <3> QED BY <2>2, <2>3, <2>4, <2>6, <3>1 DEF Sealed
  <2> QED BY <2>2, <2>5, <2>6 DEF FrozenStays
<1>5. CASE \/ \E kind \in Kinds : Begin(kind)
           \/ ExperimentStep
           \/ \E to \in {"reformatted", "altered"} : EditCatalog(to)
           \/ EditLock
  BY <1>5, <1>2 DEF Begin, ExperimentStep, ReadCatalog, LoadCatalog, LoadData, Select,
       WriteLock, Validate, Decide, CheckUnchanged, Report, EditCatalog, EditLock, Others, Fails
<1> QED BY <1>1, <1>2, <1>3, <1>4, <1>5 DEF Next, ResearchNext, vars, researchVars

\* However many freezes run, overlap and die, a version that has a file and that no
\* freeze is writing is never written again.
THEOREM FrozenFinal == Spec => FrozenNeverChanges
<1>1. Init => FreezeInv
  BY ResearchAssumption DEF Init, ResearchInit, FreezeInv
<1>2. FreezeInv /\ [Next]_vars => FreezeInv'
  BY FreezeStep
<1>3. FreezeInv /\ [Next]_vars =>
          [\A v \in Versions :
              /\ DOMAIN frozen[v] \subseteq DOMAIN frozen'[v]
              /\ Sealed(v) => Sealed(v)' /\ frozen'[v] = frozen[v]]_vars
  BY FreezeStep DEF FrozenStays
<1> QED BY <1>1, <1>2, <1>3, PTL DEF Spec, FrozenNeverChanges

-----------------------------------------------------------------------------
(* The order of the steps *)

\* The place of an experiment in its steps, after the last one when it is published.
Place(e) == IF e.at = 0 THEN Len(Steps(e.kind)) + 1 ELSE e.at

Done(e, step) == \E i \in 1..(Place(e) - 1) : Steps(e.kind)[i] = step

LEMMA TrendTable ==
    LET s == Steps("trend") IN
    /\ Len(s) = 11
    /\ s[1] = <<"read">> /\ s[2] = <<"load">> /\ s[3] = <<"data", "dev">>
    /\ s[4] = <<"select", "spot">> /\ s[5] = <<"select", "futures">> /\ s[6] = <<"lock">>
    /\ s[7] = <<"data", "val">> /\ s[8] = <<"validate", "spot">>
    /\ s[9] = <<"validate", "futures">> /\ s[10] = <<"check">> /\ s[11] = <<"report">>
BY DEF Steps, TrendSteps

LEMMA PullbackTable ==
    ASSUME NEW kind \in {"pullback", "calibration"}
    PROVE  LET s == Steps(kind) IN
           /\ Len(s) = 9
           /\ s[1] = <<"read">> /\ s[2] = <<"load">> /\ s[3] = <<"data", "all">>
           /\ s[4] = <<"select", "spot">> /\ s[5] = <<"select", "futures">>
           /\ s[6] = <<"validate", "spot">> /\ s[7] = <<"validate", "futures">>
           /\ s[8] = <<"check">> /\ s[9] = <<"report">>
BY DEF Steps, PullbackSteps, CalibrationSteps

LEMMA SpotTable ==
    LET s == Steps("spot") IN
    /\ Len(s) = 10
    /\ s[1] = <<"data", "all">> /\ s[2] = <<"load">> /\ s[3] = <<"read">>
    /\ s[4] = <<"select", "exit">> /\ s[5] = <<"validate", "exit">>
    /\ s[6] = <<"select", "regime">> /\ s[7] = <<"validate", "regime">>
    /\ s[8] = <<"decide">> /\ s[9] = <<"check">> /\ s[10] = <<"report">>
BY DEF Steps, SpotSteps

\* Every step is of one of the two forms, and the last one, and only it, reports.
StepsSound(kind) ==
    LET s == Steps(kind) IN
    /\ Len(s) \in Nat \ {0}
    /\ \A i \in 1..Len(s) :
          /\ IF s[i][1] \in {"select", "validate", "data"}
               THEN s[i] = <<s[i][1], s[i][2]>>
               ELSE s[i] = <<s[i][1]>>
          /\ s[i][1] = "report" <=> i = Len(s)

Earlier(kind, i, step) == \E j \in 1..(i - 1) : Steps(kind)[j] = step

\* What has and what has not been done at a step: a group chooses before it is shown the
\* validation period, and nothing is read, decided or loaded as a whole twice.
StepsOrdered(kind) ==
    \A i \in 1..Len(Steps(kind)) :
        LET step == Steps(kind)[i] IN
        /\ step[1] = "validate" =>
              /\ Earlier(kind, i, <<"select", step[2]>>)
              /\ kind # "spot" => /\ Earlier(kind, i, <<"select", "spot">>)
                                  /\ Earlier(kind, i, <<"select", "futures">>)
              /\ kind = "trend" => Earlier(kind, i, <<"lock">>)
        /\ step[1] = "select" =>
              /\ ~ Earlier(kind, i, <<"validate", step[2]>>)
              /\ kind # "spot" => step[2] \in {"spot", "futures"}
        /\ step[1] = "data" =>
              IF kind = "trend" THEN step[2] \in {"dev", "val"}
              ELSE step[2] = "all" /\ ~ Earlier(kind, i, <<"data", "all">>)
        /\ step = <<"data", "val">> => /\ Earlier(kind, i, <<"lock">>)
                                       /\ Earlier(kind, i, <<"select", "spot">>)
                                       /\ Earlier(kind, i, <<"select", "futures">>)
        /\ step[1] = "decide" => /\ kind = "spot" /\ ~ Earlier(kind, i, <<"decide">>)
                                 /\ Earlier(kind, i, <<"select", "regime">>)
                                 /\ Earlier(kind, i, <<"validate", "regime">>)
        /\ step[1] = "read" => ~ Earlier(kind, i, <<"read">>)
        /\ step[1] = "lock" => ~ Earlier(kind, i, <<"lock">>)
        /\ step[1] = "report" => Earlier(kind, i, <<"check">>)
        /\ Earlier(kind, i, <<"check">>) => step[1] \notin {"select", "validate"}

LEMMA TrendOps ==
    \A i \in 1..11 :
        LET op == Steps("trend")[i][1] IN
        /\ op = "select" <=> i \in {4, 5}
        /\ op = "validate" <=> i \in {8, 9}
        /\ op = "data" <=> i \in {3, 7}
        /\ op = "lock" <=> i = 6
        /\ op = "read" <=> i = 1
        /\ op # "decide"
        /\ op = "check" <=> i = 10
        /\ op = "report" <=> i = 11
<1> DEFINE op(i) == Steps("trend")[i][1]
<1>1. \A i \in 1..11 : i \in {1, 2, 3, 4, 5, 6, 7, 8, 9, 10, 11}
  OBVIOUS
<1>2. /\ op(1) = "read" /\ op(2) = "load" /\ op(3) = "data" /\ op(4) = "select"
      /\ op(5) = "select" /\ op(6) = "lock" /\ op(7) = "data" /\ op(8) = "validate"
      /\ op(9) = "validate" /\ op(10) = "check" /\ op(11) = "report"
  BY TrendTable
<1> HIDE DEF op
<1>3. \A i \in 1..11 : (op(i) = "select" <=> i \in {4, 5}) /\ (op(i) = "validate" <=> i \in {8, 9})
  BY <1>1, <1>2
<1>4. \A i \in 1..11 : (op(i) = "data" <=> i \in {3, 7}) /\ (op(i) = "lock" <=> i = 6)
  BY <1>1, <1>2
<1>5. \A i \in 1..11 : /\ (op(i) = "read" <=> i = 1) /\ (op(i) # "decide")
                         /\ (op(i) = "check" <=> i = 10) /\ (op(i) = "report" <=> i = 11)
  BY <1>1, <1>2
<1> QED BY <1>3, <1>4, <1>5 DEF op

LEMMA PullbackOps ==
    ASSUME NEW kind \in {"pullback", "calibration"}
    PROVE     \A i \in 1..9 :
        LET op == Steps(kind)[i][1] IN
        /\ op = "select" <=> i \in {4, 5}
        /\ op = "validate" <=> i \in {6, 7}
        /\ op = "data" <=> i = 3
        /\ op # "lock"
        /\ op = "read" <=> i = 1
        /\ op # "decide"
        /\ op = "check" <=> i = 8
        /\ op = "report" <=> i = 9
<1> DEFINE op(i) == Steps(kind)[i][1]
<1>1. \A i \in 1..9 : i \in {1, 2, 3, 4, 5, 6, 7, 8, 9}
  OBVIOUS
<1>2. /\ op(1) = "read" /\ op(2) = "load" /\ op(3) = "data" /\ op(4) = "select"
      /\ op(5) = "select" /\ op(6) = "validate" /\ op(7) = "validate" /\ op(8) = "check"
      /\ op(9) = "report"
  BY PullbackTable
<1> HIDE DEF op
<1>3. \A i \in 1..9 : (op(i) = "select" <=> i \in {4, 5}) /\ (op(i) = "validate" <=> i \in {6, 7})
  BY <1>1, <1>2
<1>4. \A i \in 1..9 : (op(i) = "data" <=> i = 3) /\ (op(i) # "lock")
  BY <1>1, <1>2
<1>5. \A i \in 1..9 : /\ (op(i) = "read" <=> i = 1) /\ (op(i) # "decide")
                         /\ (op(i) = "check" <=> i = 8) /\ (op(i) = "report" <=> i = 9)
  BY <1>1, <1>2
<1> QED BY <1>3, <1>4, <1>5 DEF op

LEMMA SpotOps ==
    \A i \in 1..10 :
        LET op == Steps("spot")[i][1] IN
        /\ op = "select" <=> i \in {4, 6}
        /\ op = "validate" <=> i \in {5, 7}
        /\ op = "data" <=> i = 1
        /\ op # "lock"
        /\ op = "read" <=> i = 3
        /\ op = "decide" <=> i = 8
        /\ op = "check" <=> i = 9
        /\ op = "report" <=> i = 10
<1> DEFINE op(i) == Steps("spot")[i][1]
<1>1. \A i \in 1..10 : i \in {1, 2, 3, 4, 5, 6, 7, 8, 9, 10}
  OBVIOUS
<1>2. /\ op(1) = "data" /\ op(2) = "load" /\ op(3) = "read" /\ op(4) = "select"
      /\ op(5) = "validate" /\ op(6) = "select" /\ op(7) = "validate" /\ op(8) = "decide"
      /\ op(9) = "check" /\ op(10) = "report"
  BY SpotTable
<1> HIDE DEF op
<1>3. \A i \in 1..10 : (op(i) = "select" <=> i \in {4, 6}) /\ (op(i) = "validate" <=> i \in {5, 7})
  BY <1>1, <1>2
<1>4. \A i \in 1..10 : (op(i) = "data" <=> i = 1) /\ (op(i) # "lock")
  BY <1>1, <1>2
<1>5. \A i \in 1..10 : /\ (op(i) = "read" <=> i = 3) /\ (op(i) = "decide" <=> i = 8)
                         /\ (op(i) = "check" <=> i = 9) /\ (op(i) = "report" <=> i = 10)
  BY <1>1, <1>2
<1> QED BY <1>3, <1>4, <1>5 DEF op

LEMMA TrendSound ==
    StepsSound("trend")
<1> DEFINE s == Steps("trend")
<1>1. /\ \A i \in {3, 4, 5, 7, 8, 9} : s[i] = <<s[i][1], s[i][2]>>
      /\ \A i \in {1, 2, 6, 10, 11} : s[i] = <<s[i][1]>>
      /\ Len(s) = 11
  BY TrendTable
<1>2. \A i \in 1..11 : i \in {3, 4, 5, 7, 8, 9} \/ i \in {1, 2, 6, 10, 11}
  OBVIOUS
<1>3. \A i \in 1..11 : s[i][1] \in {"select", "validate", "data"} <=> i \in {3, 4, 5, 7, 8, 9}
  <2>1. \A i \in 1..11 : i \in {3, 4, 5, 7, 8, 9} <=> \/ i \in {4, 5}
                                         \/ i \in {8, 9}
                                         \/ i \in {3, 7}
    OBVIOUS
  <2> QED BY <2>1, TrendOps
<1>4. \A i \in 1..11 : s[i][1] = "report" <=> i = 11
  BY TrendOps
<1> HIDE DEF s
<1>5. \A i \in 1..11 : IF s[i][1] \in {"select", "validate", "data"}
                        THEN s[i] = <<s[i][1], s[i][2]>>
                        ELSE s[i] = <<s[i][1]>>
  BY <1>1, <1>2, <1>3
<1>6. /\ Len(s) \in Nat \ {0}
      /\ \A i \in 1..Len(s) :
            /\ IF s[i][1] \in {"select", "validate", "data"}
                 THEN s[i] = <<s[i][1], s[i][2]>>
                 ELSE s[i] = <<s[i][1]>>
            /\ s[i][1] = "report" <=> i = Len(s)
  BY <1>1, <1>4, <1>5
<1> QED BY <1>6, Zenon DEF StepsSound, s

LEMMA PullbackSound ==
    ASSUME NEW kind \in {"pullback", "calibration"}
    PROVE  StepsSound(kind)
<1> DEFINE s == Steps(kind)
<1>1. /\ \A i \in {3, 4, 5, 6, 7} : s[i] = <<s[i][1], s[i][2]>>
      /\ \A i \in {1, 2, 8, 9} : s[i] = <<s[i][1]>>
      /\ Len(s) = 9
  BY PullbackTable
<1>2. \A i \in 1..9 : i \in {3, 4, 5, 6, 7} \/ i \in {1, 2, 8, 9}
  OBVIOUS
<1>3. \A i \in 1..9 : s[i][1] \in {"select", "validate", "data"} <=> i \in {3, 4, 5, 6, 7}
  <2>1. \A i \in 1..9 : i \in {3, 4, 5, 6, 7} <=> \/ i \in {4, 5}
                                         \/ i \in {6, 7}
                                         \/ i \in {3}
    OBVIOUS
  <2> QED BY <2>1, PullbackOps
<1>4. \A i \in 1..9 : s[i][1] = "report" <=> i = 9
  BY PullbackOps
<1> HIDE DEF s
<1>5. \A i \in 1..9 : IF s[i][1] \in {"select", "validate", "data"}
                        THEN s[i] = <<s[i][1], s[i][2]>>
                        ELSE s[i] = <<s[i][1]>>
  BY <1>1, <1>2, <1>3
<1>6. /\ Len(s) \in Nat \ {0}
      /\ \A i \in 1..Len(s) :
            /\ IF s[i][1] \in {"select", "validate", "data"}
                 THEN s[i] = <<s[i][1], s[i][2]>>
                 ELSE s[i] = <<s[i][1]>>
            /\ s[i][1] = "report" <=> i = Len(s)
  BY <1>1, <1>4, <1>5
<1> QED BY <1>6, Zenon DEF StepsSound, s

LEMMA SpotSound ==
    StepsSound("spot")
<1> DEFINE s == Steps("spot")
<1>1. /\ \A i \in {1, 4, 5, 6, 7} : s[i] = <<s[i][1], s[i][2]>>
      /\ \A i \in {2, 3, 8, 9, 10} : s[i] = <<s[i][1]>>
      /\ Len(s) = 10
  BY SpotTable
<1>2. \A i \in 1..10 : i \in {1, 4, 5, 6, 7} \/ i \in {2, 3, 8, 9, 10}
  OBVIOUS
<1>3. \A i \in 1..10 : s[i][1] \in {"select", "validate", "data"} <=> i \in {1, 4, 5, 6, 7}
  <2>1. \A i \in 1..10 : i \in {1, 4, 5, 6, 7} <=> \/ i \in {4, 6}
                                         \/ i \in {5, 7}
                                         \/ i \in {1}
    OBVIOUS
  <2> QED BY <2>1, SpotOps
<1>4. \A i \in 1..10 : s[i][1] = "report" <=> i = 10
  BY SpotOps
<1> HIDE DEF s
<1>5. \A i \in 1..10 : IF s[i][1] \in {"select", "validate", "data"}
                        THEN s[i] = <<s[i][1], s[i][2]>>
                        ELSE s[i] = <<s[i][1]>>
  BY <1>1, <1>2, <1>3
<1>6. /\ Len(s) \in Nat \ {0}
      /\ \A i \in 1..Len(s) :
            /\ IF s[i][1] \in {"select", "validate", "data"}
                 THEN s[i] = <<s[i][1], s[i][2]>>
                 ELSE s[i] = <<s[i][1]>>
            /\ s[i][1] = "report" <=> i = Len(s)
  BY <1>1, <1>4, <1>5
<1> QED BY <1>6, Zenon DEF StepsSound, s

LEMMA TrendOrdered == StepsOrdered("trend")
<1> DEFINE s == Steps("trend")
<1>1. \A i \in 1..11 : /\ i > 4 => Earlier("trend", i, <<"select", "spot">>)
                       /\ i > 5 => Earlier("trend", i, <<"select", "futures">>)
                       /\ i > 6 => Earlier("trend", i, <<"lock">>)
                       /\ i > 10 => Earlier("trend", i, <<"check">>)
  BY TrendTable DEF Earlier
<1>2. \A i \in 1..11 : /\ \A g : Earlier("trend", i, <<"validate", g>>) => i > 8
                       /\ Earlier("trend", i, <<"read">>) => i > 1
                       /\ Earlier("trend", i, <<"lock">>) => i > 6
                       /\ Earlier("trend", i, <<"check">>) => i > 10
  <2>1. SUFFICES ASSUME NEW i \in 1..11, NEW j \in 1..(i - 1)
                 PROVE  /\ \A g : s[j] = <<"validate", g>> => i > 8
                        /\ s[j] = <<"read">> => i > 1
                        /\ s[j] = <<"lock">> => i > 6
                        /\ s[j] = <<"check">> => i > 10
    BY DEF Earlier
  <2>2. j \in 1..11 /\ j < i
    OBVIOUS
  <2>3. /\ \A g : s[j] = <<"validate", g>> => s[j][1] = "validate"
        /\ s[j] = <<"read">> => s[j][1] = "read"
        /\ s[j] = <<"lock">> => s[j][1] = "lock"
        /\ s[j] = <<"check">> => s[j][1] = "check"
    OBVIOUS
  <2> QED BY <2>2, <2>3, TrendOps
<1>3. s[4][2] = "spot" /\ s[5][2] = "futures" /\ s[8][2] = "spot" /\ s[9][2] = "futures"
      /\ s[3][2] = "dev" /\ s[7][2] = "val"
  BY TrendTable
<1>4. Len(s) = 11
  BY TrendTable
<1>5. SUFFICES ASSUME NEW i \in 1..11
      PROVE LET step == s[i] IN
        /\ step[1] = "validate" =>
              /\ Earlier("trend", i, <<"select", step[2]>>)
              /\ Earlier("trend", i, <<"select", "spot">>)
              /\ Earlier("trend", i, <<"select", "futures">>)
              /\ Earlier("trend", i, <<"lock">>)
        /\ step[1] = "select" =>
              ~ Earlier("trend", i, <<"validate", step[2]>>) /\ step[2] \in {"spot", "futures"}
        /\ step[1] = "data" => step[2] \in {"dev", "val"}
        /\ step = <<"data", "val">> => /\ Earlier("trend", i, <<"lock">>)
                                       /\ Earlier("trend", i, <<"select", "spot">>)
                                       /\ Earlier("trend", i, <<"select", "futures">>)
        /\ step[1] # "decide"
        /\ step[1] = "read" => ~ Earlier("trend", i, <<"read">>)
        /\ step[1] = "lock" => ~ Earlier("trend", i, <<"lock">>)
        /\ step[1] = "report" => Earlier("trend", i, <<"check">>)
        /\ Earlier("trend", i, <<"check">>) => step[1] \notin {"select", "validate"}
  BY <1>4 DEF StepsOrdered
<1>6. s[i] = <<"data", "val">> => s[i][1] = "data" /\ s[i][2] = "val"
  OBVIOUS
<1> HIDE DEF s
<1> QED BY <1>1, <1>2, <1>3, <1>5, <1>6, TrendOps DEF s

LEMMA PullbackOrdered ==
    ASSUME NEW kind \in {"pullback", "calibration"}
    PROVE  StepsOrdered(kind)
<1> DEFINE s == Steps(kind)
<1>1. \A i \in 1..9 : /\ i > 4 => Earlier(kind, i, <<"select", "spot">>)
                      /\ i > 5 => Earlier(kind, i, <<"select", "futures">>)
                      /\ i > 8 => Earlier(kind, i, <<"check">>)
  BY PullbackTable DEF Earlier
<1>2. \A i \in 1..9 : /\ \A g : Earlier(kind, i, <<"validate", g>>) => i > 6
                      /\ Earlier(kind, i, <<"data", "all">>) => i > 3
                      /\ Earlier(kind, i, <<"read">>) => i > 1
                      /\ Earlier(kind, i, <<"check">>) => i > 8
  <2>1. SUFFICES ASSUME NEW i \in 1..9, NEW j \in 1..(i - 1)
                 PROVE  /\ \A g : s[j] = <<"validate", g>> => i > 6
                        /\ s[j] = <<"data", "all">> => i > 3
                        /\ s[j] = <<"read">> => i > 1
                        /\ s[j] = <<"check">> => i > 8
    BY DEF Earlier
  <2>2. j \in 1..9 /\ j < i
    OBVIOUS
  <2>3. /\ \A g : s[j] = <<"validate", g>> => s[j][1] = "validate"
        /\ s[j] = <<"data", "all">> => s[j][1] = "data"
        /\ s[j] = <<"read">> => s[j][1] = "read"
        /\ s[j] = <<"check">> => s[j][1] = "check"
    OBVIOUS
  <2> QED BY <2>2, <2>3, PullbackOps
<1>3. s[4][2] = "spot" /\ s[5][2] = "futures" /\ s[6][2] = "spot" /\ s[7][2] = "futures"
      /\ s[3][2] = "all"
  BY PullbackTable
<1>4. Len(s) = 9
  BY PullbackTable
<1>5. SUFFICES ASSUME NEW i \in 1..9
      PROVE LET step == s[i] IN
        /\ step[1] = "validate" =>
              /\ Earlier(kind, i, <<"select", step[2]>>)
              /\ Earlier(kind, i, <<"select", "spot">>)
              /\ Earlier(kind, i, <<"select", "futures">>)
        /\ step[1] = "select" =>
              ~ Earlier(kind, i, <<"validate", step[2]>>) /\ step[2] \in {"spot", "futures"}
        /\ step[1] = "data" => step[2] = "all" /\ ~ Earlier(kind, i, <<"data", "all">>)
        /\ step # <<"data", "val">>
        /\ step[1] # "decide"
        /\ step[1] = "read" => ~ Earlier(kind, i, <<"read">>)
        /\ step[1] = "lock" => ~ Earlier(kind, i, <<"lock">>)
        /\ step[1] = "report" => Earlier(kind, i, <<"check">>)
        /\ Earlier(kind, i, <<"check">>) => step[1] \notin {"select", "validate"}
  BY <1>4 DEF StepsOrdered
<1>6. s[i] = <<"data", "val">> => s[i][1] = "data" /\ s[i][2] = "val"
  OBVIOUS
<1> HIDE DEF s
<1> QED BY <1>1, <1>2, <1>3, <1>5, <1>6, PullbackOps DEF s

LEMMA SpotOrdered == StepsOrdered("spot")
<1> DEFINE s == Steps("spot")
<1>1. \A i \in 1..10 : /\ i > 4 => Earlier("spot", i, <<"select", "exit">>)
                       /\ i > 6 => Earlier("spot", i, <<"select", "regime">>)
                       /\ i > 7 => Earlier("spot", i, <<"validate", "regime">>)
                       /\ i > 9 => Earlier("spot", i, <<"check">>)
  BY SpotTable DEF Earlier
<1>2. \A i \in 1..10 : /\ Earlier("spot", i, <<"validate", "exit">>) => i > 5
                       /\ Earlier("spot", i, <<"validate", "regime">>) => i > 7
                       /\ Earlier("spot", i, <<"data", "all">>) => i > 1
                       /\ Earlier("spot", i, <<"read">>) => i > 3
                       /\ Earlier("spot", i, <<"decide">>) => i > 8
                       /\ Earlier("spot", i, <<"check">>) => i > 9
  <2>1. SUFFICES ASSUME NEW i \in 1..10, NEW j \in 1..(i - 1)
                 PROVE  /\ s[j] = <<"validate", "exit">> => i > 5
                        /\ s[j] = <<"validate", "regime">> => i > 7
                        /\ s[j] = <<"data", "all">> => i > 1
                        /\ s[j] = <<"read">> => i > 3
                        /\ s[j] = <<"decide">> => i > 8
                        /\ s[j] = <<"check">> => i > 9
    BY DEF Earlier
  <2>2. j \in 1..10 /\ j < i
    OBVIOUS
  <2>3. /\ \A g : s[j] = <<"validate", g>> => s[j][1] = "validate" /\ s[j][2] = g
        /\ s[j] = <<"data", "all">> => s[j][1] = "data"
        /\ s[j] = <<"read">> => s[j][1] = "read"
        /\ s[j] = <<"decide">> => s[j][1] = "decide"
        /\ s[j] = <<"check">> => s[j][1] = "check"
    OBVIOUS
  <2>4. s[5][2] = "exit" /\ s[7][2] = "regime"
    BY SpotTable
  <2> QED BY <2>2, <2>3, <2>4, SpotOps
<1>3. s[4][2] = "exit" /\ s[5][2] = "exit" /\ s[6][2] = "regime" /\ s[7][2] = "regime"
      /\ s[1][2] = "all"
  BY SpotTable
<1>4. Len(s) = 10
  BY SpotTable
<1>5. SUFFICES ASSUME NEW i \in 1..10
      PROVE LET step == s[i] IN
        /\ step[1] = "validate" => Earlier("spot", i, <<"select", step[2]>>)
        /\ step[1] = "select" => ~ Earlier("spot", i, <<"validate", step[2]>>)
        /\ step[1] = "data" => step[2] = "all" /\ ~ Earlier("spot", i, <<"data", "all">>)
        /\ step # <<"data", "val">>
        /\ step[1] = "decide" => /\ ~ Earlier("spot", i, <<"decide">>)
                                 /\ Earlier("spot", i, <<"select", "regime">>)
                                 /\ Earlier("spot", i, <<"validate", "regime">>)
        /\ step[1] = "read" => ~ Earlier("spot", i, <<"read">>)
        /\ step[1] # "lock"
        /\ step[1] = "report" => Earlier("spot", i, <<"check">>)
        /\ Earlier("spot", i, <<"check">>) => step[1] \notin {"select", "validate"}
  BY <1>4 DEF StepsOrdered
<1>6. s[i] = <<"data", "val">> => s[i][1] = "data" /\ s[i][2] = "val"
  OBVIOUS
<1> HIDE DEF s
<1> QED BY <1>1, <1>2, <1>3, <1>5, <1>6, SpotOps DEF s

LEMMA StepFacts ==
    ASSUME NEW kind \in Kinds
    PROVE  StepsSound(kind) /\ StepsOrdered(kind)
BY TrendSound, PullbackSound, SpotSound, TrendOrdered, PullbackOrdered, SpotOrdered DEF Kinds

\* What an experiment has read, chosen and shown so far is what its place says, and a
\* disturbance that was not put back is still to be seen.
ExpInv ==
    exp # None =>
        /\ DOMAIN exp = ExpFields /\ exp.kind \in Kinds /\ exp.at \in 0..Len(Steps(exp.kind))
        /\ exp.dev \subseteq Development /\ exp.val \subseteq Validation
        /\ \A g : g \in DOMAIN exp.selected <=> Done(exp, <<"select", g>>)
        /\ \A g : g \in DOMAIN exp.validated <=> Done(exp, <<"validate", g>>)
        /\ \A g \in DOMAIN exp.validated : exp.validated[g] = ToValidate(exp, g)
        /\ exp.kind = "trend" /\ exp.val # {} => Done(exp, <<"data", "val">>)
        /\ exp.kind # "trend" /\ exp.dev \cup exp.val # {} =>
              /\ Done(exp, <<"data", "all">>)
              /\ ~ pinned => exp.dev \cup exp.val = Development \cup Validation
        /\ Done(exp, <<"lock">>) <=> lock # "none"
        /\ exp.bytes # "none" => Done(exp, <<"read">>)
        /\ exp.disturbed => \/ lock = "changed"
                            \/ exp.bytes # "none" /\ catalog # exp.bytes /\ ~ Done(exp, <<"check">>)

\* One experiment decides at most once, and only what it decided is frozen.
EndInv ==
    /\ result = "published" => exp # None /\ exp.at = 0 /\ ~ exp.disturbed
    /\ decision # None => /\ exp = None => result # "none"
                          /\ exp # None => Done(exp, <<"decide">>)
                          /\ decision.candidate =>
                                decision.variant # {} /\ decision.variant \subseteq decision.shown
    /\ freeze # {} \/ (\E v \in Versions : DOMAIN frozen[v] # {}) =>
          decision # None /\ decision.candidate
    /\ catalog \in {"registered", "reformatted", "altered"}
    /\ lock \in {"none", "intact", "changed"}
    /\ result \in {"none", "published", "failed"}

LEMMA DoneIsBefore ==
    ASSUME ExpInv, Busy
    PROVE  /\ exp.kind \in Kinds /\ exp.at \in 1..Len(Steps(exp.kind))
           /\ Len(Steps(exp.kind)) \in Nat \ {0}
           /\ \A step : Done(exp, step) <=> Earlier(exp.kind, exp.at, step)
<1>1. exp.kind \in Kinds /\ exp.at \in 0..Len(Steps(exp.kind)) /\ exp.at # 0
  BY DEF ExpInv, Busy
<1>2. Len(Steps(exp.kind)) \in Nat \ {0}
  BY <1>1, StepFacts DEF StepsSound
<1>3. Place(exp) = exp.at
  BY <1>1 DEF Place
<1> QED BY <1>1, <1>2, <1>3 DEF Done, Earlier

\* A step other than the last one makes it done and nothing else.
LEMMA Going ==
    ASSUME ExpInv, Busy, Step[1] # "report", NEW e, Goes(e),
           DOMAIN e = ExpFields, e.kind = exp.kind, e.at = exp.at
    PROVE  /\ DOMAIN exp' = ExpFields /\ exp' # None
           /\ exp'.kind = exp.kind /\ exp'.at \in 0..Len(Steps(exp.kind))
           /\ exp'.bytes = e.bytes /\ exp'.dev = e.dev /\ exp'.val = e.val
           /\ exp'.disturbed = e.disturbed
           /\ exp'.selected = e.selected /\ exp'.validated = e.validated
           /\ \A step : Done(exp', step) <=> Done(exp, step) \/ Step = step
<1>1. /\ exp.kind \in Kinds /\ exp.at \in 1..Len(Steps(exp.kind))
      /\ Len(Steps(exp.kind)) \in Nat \ {0}
      /\ \A step : Done(exp, step) <=> Earlier(exp.kind, exp.at, step)
  BY DoneIsBefore
<1>2. exp.at # Len(Steps(exp.kind))
  BY <1>1, StepFacts DEF StepsSound, Step
<1>3. exp' = [e EXCEPT !.at = exp.at + 1]
  BY DEF Goes
<1>4. /\ DOMAIN exp' = ExpFields /\ exp'.kind = exp.kind /\ exp'.at = exp.at + 1
      /\ exp'.bytes = e.bytes /\ exp'.dev = e.dev /\ exp'.val = e.val
      /\ exp'.disturbed = e.disturbed
      /\ exp'.selected = e.selected /\ exp'.validated = e.validated
  BY <1>3 DEF ExpFields
<1>5. exp' # None
  <2>1. DOMAIN None = {"none"}
    BY DEF None
  <2> QED BY <1>4, <2>1 DEF ExpFields
<1>6. exp'.at \in 0..Len(Steps(exp.kind)) /\ exp'.at # 0 /\ exp'.at - 1 = exp.at
  BY <1>1, <1>2, <1>4
<1>7. ASSUME NEW step
      PROVE  Done(exp', step) <=> Done(exp, step) \/ Step = step
  <2>1. Place(exp') = exp'.at
    BY <1>6 DEF Place
  <2>2. Done(exp', step) <=> \E i \in 1..exp.at : Steps(exp.kind)[i] = step
    BY <2>1, <1>4, <1>6 DEF Done
  <2>3. \A i : i \in 1..exp.at <=> i \in 1..(exp.at - 1) \/ i = exp.at
    BY <1>1
  <2> QED BY <2>2, <2>3, <1>1 DEF Earlier, Step
<1> QED BY <1>4, <1>5, <1>6, <1>7

LEMMA GoesOn ==
    ASSUME ExpInv, Busy, Step[1] # "report", NEW e, Goes(e),
           DOMAIN e = ExpFields, e.kind = exp.kind, e.at = exp.at,
           e.dev \subseteq Development, e.val \subseteq Validation,
           \A g : g \in DOMAIN e.selected <=> Done(exp, <<"select", g>>) \/ Step = <<"select", g>>,
           \A g : g \in DOMAIN e.validated <=> Done(exp, <<"validate", g>>) \/ Step = <<"validate", g>>,
           \A g \in DOMAIN e.validated : e.validated[g] = ToValidate(e, g),
           e.kind = "trend" /\ e.val # {} => Done(exp, <<"data", "val">>) \/ Step = <<"data", "val">>,
           e.kind # "trend" /\ e.dev \cup e.val # {} =>
               /\ Done(exp, <<"data", "all">>) \/ Step = <<"data", "all">>
               /\ ~ pinned' => e.dev \cup e.val = Development \cup Validation,
           Done(exp, <<"lock">>) \/ Step = <<"lock">> <=> lock' # "none",
           e.bytes # "none" => Done(exp, <<"read">>) \/ Step = <<"read">>,
           e.disturbed => \/ lock' = "changed"
                          \/ /\ e.bytes # "none" /\ catalog' # e.bytes
                             /\ ~ Done(exp, <<"check">>) /\ Step # <<"check">>
    PROVE  ExpInv'
<1>1. /\ DOMAIN exp' = ExpFields
      /\ exp'.kind = exp.kind /\ exp'.at \in 0..Len(Steps(exp.kind))
      /\ exp'.bytes = e.bytes /\ exp'.dev = e.dev /\ exp'.val = e.val
      /\ exp'.disturbed = e.disturbed
      /\ exp'.selected = e.selected /\ exp'.validated = e.validated
      /\ \A step : Done(exp', step) <=> Done(exp, step) \/ Step = step
  BY Going
<1>2. \A g : ToValidate(exp', g) = ToValidate(e, g)
  BY <1>1 DEF ToValidate
<1>3. exp.kind \in Kinds
  BY DoneIsBefore
<1> QED BY <1>1, <1>2, <1>3 DEF ExpInv

\* What a step is when it is not one of the groups.
LEMMA StepForm ==
    ASSUME ExpInv, Busy
    PROVE  /\ IF Step[1] \in {"select", "validate", "data"}
                THEN Step = <<Step[1], Step[2]>>
                ELSE Step = <<Step[1]>>
           /\ \A g, op : Step = <<op, g>> => Step[1] = op /\ Step[2] = g
           /\ \A op : Step = <<op>> => Step[1] = op
<1>1. exp.kind \in Kinds /\ exp.at \in 1..Len(Steps(exp.kind))
  BY DoneIsBefore
<1>2. \A i \in 1..Len(Steps(exp.kind)) :
          IF Steps(exp.kind)[i][1] \in {"select", "validate", "data"}
            THEN Steps(exp.kind)[i] = <<Steps(exp.kind)[i][1], Steps(exp.kind)[i][2]>>
            ELSE Steps(exp.kind)[i] = <<Steps(exp.kind)[i][1]>>
  BY <1>1, StepFacts DEF StepsSound
<1>3. IF Step[1] \in {"select", "validate", "data"}
                THEN Step = <<Step[1], Step[2]>>
                ELSE Step = <<Step[1]>>
  BY <1>1, <1>2, Zenon DEF Step
<1> QED BY <1>3

\* A step that only moves the experiment on.
LEMMA MovesOn ==
    ASSUME ExpInv, Busy, Step[1] \in {"load", "lock", "decide", "check"}, Goes(exp),
           pinned' = pinned, catalog' = catalog,
           IF Step[1] = "lock" THEN lock' = "intact" ELSE lock' = lock,
           Step[1] = "check" => catalog = exp.bytes
    PROVE  ExpInv'
<1>1. /\ \A g : Step # <<"select", g>> /\ Step # <<"validate", g>> /\ Step # <<"data", g>>
      /\ Step # <<"read">>
      /\ Step = <<"lock">> => Step[1] = "lock"
      /\ Step = <<"check">> => Step[1] = "check"
  BY StepForm
<1>2. /\ DOMAIN exp = ExpFields /\ exp # None
      /\ exp.dev \subseteq Development /\ exp.val \subseteq Validation
      /\ \A g : g \in DOMAIN exp.selected <=> Done(exp, <<"select", g>>)
      /\ \A g : g \in DOMAIN exp.validated <=> Done(exp, <<"validate", g>>)
      /\ \A g \in DOMAIN exp.validated : exp.validated[g] = ToValidate(exp, g)
      /\ exp.kind = "trend" /\ exp.val # {} => Done(exp, <<"data", "val">>)
      /\ exp.kind # "trend" /\ exp.dev \cup exp.val # {} =>
            /\ Done(exp, <<"data", "all">>)
            /\ ~ pinned => exp.dev \cup exp.val = Development \cup Validation
      /\ Done(exp, <<"lock">>) <=> lock # "none"
      /\ exp.bytes # "none" => Done(exp, <<"read">>)
      /\ exp.disturbed => \/ lock = "changed"
                          \/ exp.bytes # "none" /\ catalog # exp.bytes /\ ~ Done(exp, <<"check">>)
  BY DEF ExpInv, Busy
<1>3. Done(exp, <<"lock">>) \/ Step = <<"lock">> <=> lock' # "none"
  BY <1>1, <1>2, StepForm
<1>5. Step[1] = "lock" => ~ Done(exp, <<"lock">>)
  BY DoneIsBefore, StepFacts DEF StepsOrdered, Step
<1>4. exp.disturbed => \/ lock' = "changed"
                       \/ /\ exp.bytes # "none" /\ catalog' # exp.bytes
                          /\ ~ Done(exp, <<"check">>) /\ Step # <<"check">>
  BY <1>1, <1>2, <1>5
<1> QED BY <1>1, <1>2, <1>3, <1>4, GoesOn

\* The experiment as it is, spelt out.
LEMMA ExpFacts ==
    ASSUME ExpInv, Busy
    PROVE  /\ DOMAIN exp = ExpFields /\ exp # None
           /\ exp.dev \subseteq Development /\ exp.val \subseteq Validation
           /\ \A g : g \in DOMAIN exp.selected <=> Done(exp, <<"select", g>>)
           /\ \A g : g \in DOMAIN exp.validated <=> Done(exp, <<"validate", g>>)
           /\ \A g \in DOMAIN exp.validated : exp.validated[g] = ToValidate(exp, g)
           /\ exp.kind = "trend" /\ exp.val # {} => Done(exp, <<"data", "val">>)
           /\ exp.kind # "trend" /\ exp.dev \cup exp.val # {} =>
                 /\ Done(exp, <<"data", "all">>)
                 /\ ~ pinned => exp.dev \cup exp.val = Development \cup Validation
           /\ Done(exp, <<"lock">>) <=> lock # "none"
           /\ exp.bytes # "none" => Done(exp, <<"read">>)
           /\ exp.disturbed => \/ lock = "changed"
                               \/ exp.bytes # "none" /\ catalog # exp.bytes
                                  /\ ~ Done(exp, <<"check">>)
BY DEF ExpInv, Busy

LEMMA ReadCatalogKeeps ==
    ASSUME ExpInv, ReadCatalog
    PROVE  ExpInv'
<1> DEFINE e == [exp EXCEPT !.bytes = catalog]
<1>1. /\ Busy /\ Step[1] = "read" /\ Goes(e)
      /\ UNCHANGED <<catalog, lock, pinned>>
  BY DEF ReadCatalog, At, Others, historyVars
<1>2. /\ DOMAIN e = ExpFields /\ e.kind = exp.kind /\ e.at = exp.at /\ e.bytes = catalog
      /\ e.dev = exp.dev /\ e.val = exp.val /\ e.disturbed = exp.disturbed
      /\ e.selected = exp.selected /\ e.validated = exp.validated
  BY <1>1, ExpFacts DEF ExpFields
<1>3. \A g : ToValidate(e, g) = ToValidate(exp, g)
  BY <1>2 DEF ToValidate
<1> HIDE DEF e
<1>4. Step = <<"read">> /\ Step # <<"lock">> /\ Step # <<"check">>
      /\ \A g : Step # <<"select", g>> /\ Step # <<"validate", g>> /\ Step # <<"data", g>>
  BY <1>1, StepForm
<1>5. ~ Done(exp, <<"read">>)
  BY <1>1, DoneIsBefore, StepFacts DEF StepsOrdered, Step
<1>6. e.disturbed => lock = "changed"
  BY <1>1, <1>2, <1>5, ExpFacts
<1> QED BY <1>1, <1>2, <1>3, <1>4, <1>6, ExpFacts, GoesOn

\* With the first and the last candle of an unbroken table all of it is there.
LEMMA AllRead ==
    ASSUME HistoryInv, ~ pinned, NEW want, want \subseteq Candles, EndsOf(want) \subseteq Closed \cap want
    PROVE  want \subseteq Closed
<1>1. want \subseteq Nat /\ want \subseteq 0..LastCandle
  BY HistoryConstants DEF Candles
<1>2. SUFFICES ASSUME NEW k \in want PROVE k \in Closed
  OBVIOUS
<1>3. /\ Min(want) \in want /\ Min(want) <= k
      /\ Max(want) \in want /\ k <= Max(want)
  BY <1>1, <1>2, MinIsLeast, MaxIsGreatest, HistoryConstants
<1>4. Min(want) \in Closed /\ Max(want) \in Closed
  BY DEF EndsOf
<1>5. k \in Min(want)..Max(want)
  BY <1>1, <1>2, <1>3
<1> QED BY <1>4, <1>5 DEF HistoryInv, UpdatesLeaveNoHole, Unbroken

LEMMA PeriodsApart ==
    /\ Development \subseteq Candles /\ Validation \subseteq Candles
    /\ Development \cap Validation = {}
<1>1. \A i \in Candles : ~ (i < i)
  BY DEF Candles
<1> QED BY <1>1, ResearchAssumption

LEMMA LoadDataKeeps ==
    ASSUME HistoryInv, ExpInv, LoadData
    PROVE  ExpInv'
<1>1. Busy /\ Step[1] = "data"
  BY DEF LoadData, At
<1>2. CASE Fails
  BY <1>2 DEF Fails, ExpInv
<1>3. CASE ~ Fails
  <2> DEFINE want == CASE Step[2] = "dev" -> Development
                       [] Step[2] = "val" -> Validation
                       [] Step[2] = "all" -> Development \cup Validation
             got  == Readable \cap want
             e == [exp EXCEPT !.dev = @ \cup (got \cap Development),
                              !.val = @ \cup (got \cap Validation)]
  <2>1. /\ Goes(e) /\ UNCHANGED <<catalog, lock, pinned>>
        /\ Step[2] = "all" => EndsOf(want) \subseteq got
    BY <1>3 DEF LoadData, Others, historyVars
  <2>2. /\ Step[2] = "dev" => want = Development
        /\ Step[2] = "all" => want = Development \cup Validation
    OBVIOUS
  <2> HIDE DEF want
  <2>3. /\ DOMAIN e = ExpFields /\ e.kind = exp.kind /\ e.at = exp.at /\ e.bytes = exp.bytes
        /\ e.dev = exp.dev \cup (got \cap Development)
        /\ e.val = exp.val \cup (got \cap Validation)
        /\ e.disturbed = exp.disturbed
        /\ e.selected = exp.selected /\ e.validated = exp.validated
    BY <1>1, ExpFacts DEF ExpFields
  <2> HIDE DEF e
  <2>4. \A g : ToValidate(e, g) = ToValidate(exp, g)
    BY <2>3 DEF ToValidate
  <2>5. /\ Step # <<"lock">> /\ Step # <<"check">> /\ Step # <<"read">>
        /\ Step = <<"data", Step[2]>>
        /\ \A g : Step # <<"select", g>> /\ Step # <<"validate", g>>
    BY <1>1, StepForm
  <2>6. IF exp.kind = "trend" THEN Step[2] \in {"dev", "val"}
        ELSE Step[2] = "all" /\ ~ Done(exp, <<"data", "all">>)
    BY <1>1, DoneIsBefore, StepFacts DEF StepsOrdered, Step
  <2>7. e.kind = "trend" /\ e.val # {} => Done(exp, <<"data", "val">>) \/ Step = <<"data", "val">>
    <3>1. SUFFICES ASSUME exp.kind = "trend", e.val # {}, Step[2] = "dev"
                   PROVE  Done(exp, <<"data", "val">>)
      BY <2>3, <2>5, <2>6
    <3>2. e.val = exp.val
      BY <3>1, <2>2, <2>3, PeriodsApart
    <3> QED BY <1>1, <3>1, <3>2, ExpFacts
  <2>8. e.kind # "trend" => /\ Step = <<"data", "all">>
                            /\ ~ pinned => e.dev \cup e.val = Development \cup Validation
    <3>1. SUFFICES ASSUME exp.kind # "trend", ~ pinned
                   PROVE  e.dev \cup e.val = Development \cup Validation
      BY <2>3, <2>5, <2>6
    <3>2. want = Development \cup Validation /\ EndsOf(want) \subseteq got
      BY <2>1, <2>2, <2>6, <3>1
    <3>3. want \subseteq Closed
      BY <3>1, <3>2, AllRead, PeriodsApart DEF Readable
    <3>4. got = want
      BY <3>3 DEF Readable
    <3>5. exp.dev \subseteq Development /\ exp.val \subseteq Validation
      BY <1>1, ExpFacts
    <3> QED BY <2>3, <3>2, <3>4, <3>5
  <2>9. e.dev \subseteq Development /\ e.val \subseteq Validation
    BY <1>1, <2>3, ExpFacts
  <2> QED BY <1>1, <2>1, <2>3, <2>4, <2>5, <2>7, <2>8, <2>9, ExpFacts, GoesOn
<1> QED BY <1>2, <1>3

LEMMA SelectKeeps ==
    ASSUME ExpInv, Select
    PROVE  ExpInv'
<1>1. PICK chosen : /\ Busy /\ Step[1] = "select" /\ UNCHANGED <<catalog, lock, pinned>>
                    /\ Goes([exp EXCEPT !.selected = Noted(@, Step[2], chosen)])
  BY DEF Select, At, Others, historyVars
<1> DEFINE s == Noted(exp.selected, Step[2], chosen)
           e == [exp EXCEPT !.selected = s]
<1>2. Goes(e)
  BY <1>1
<1>3. /\ DOMAIN s = DOMAIN exp.selected \cup {Step[2]}
      /\ \A h \in DOMAIN exp.selected \ {Step[2]} : s[h] = exp.selected[h]
  BY DEF Noted
<1> HIDE DEF s
<1>4. /\ DOMAIN e = ExpFields /\ e.kind = exp.kind /\ e.at = exp.at /\ e.bytes = exp.bytes
      /\ e.dev = exp.dev /\ e.val = exp.val /\ e.disturbed = exp.disturbed
      /\ e.selected = s /\ e.validated = exp.validated
  BY <1>1, ExpFacts DEF ExpFields
<1> HIDE DEF e
<1>5. /\ Step # <<"lock">> /\ Step # <<"check">> /\ Step # <<"read">>
      /\ \A g : Step = <<"select", g>> <=> g = Step[2]
      /\ \A g : Step # <<"data", g>> /\ Step # <<"validate", g>>
  BY <1>1, StepForm
<1>6. ~ Done(exp, <<"validate", Step[2]>>)
  BY <1>1, DoneIsBefore, StepFacts DEF StepsOrdered, Step
<1>7. ASSUME NEW g \in DOMAIN e.validated
      PROVE  e.validated[g] = ToValidate(e, g)
  <2>1. g # Step[2] /\ e.validated[g] = ToValidate(exp, g) /\ Done(exp, <<"validate", g>>)
    BY <1>1, <1>4, <1>6, <1>7, ExpFacts
  <2>2. Earlier(exp.kind, exp.at, <<"select", g>>)
    <3>1. Earlier(exp.kind, exp.at, <<"validate", g>>)
      BY <1>1, <2>1, DoneIsBefore
    <3>2. PICK j \in 1..(exp.at - 1) : Steps(exp.kind)[j] = <<"validate", g>>
      BY <3>1 DEF Earlier
    <3>3. /\ exp.at \in Nat /\ j \in 1..Len(Steps(exp.kind)) /\ j < exp.at
          /\ exp.kind \in Kinds
      BY <1>1, <3>2, DoneIsBefore
    <3>4. Steps(exp.kind)[j][1] = "validate" /\ Steps(exp.kind)[j][2] = g
      BY <3>2
    <3>5. Earlier(exp.kind, j, <<"select", g>>)
      BY <3>3, <3>4, StepFacts DEF StepsOrdered
    <3> QED BY <3>3, <3>5 DEF Earlier
  <2>3. g \in DOMAIN exp.selected
    BY <1>1, <2>2, DoneIsBefore, ExpFacts
  <2>4. s[g] = exp.selected[g]
    BY <1>3, <2>1, <2>3
  <2> QED BY <2>1, <2>4, <1>4 DEF ToValidate
<1>8. \A g : g \in DOMAIN e.selected <=> Done(exp, <<"select", g>>) \/ Step = <<"select", g>>
  BY <1>1, <1>3, <1>4, <1>5, ExpFacts
<1> QED BY <1>1, <1>2, <1>4, <1>5, <1>7, <1>8, ExpFacts, GoesOn

LEMMA ValidateKeeps ==
    ASSUME ExpInv, Validate
    PROVE  ExpInv'
<1> DEFINE s == Noted(exp.validated, Step[2], ToValidate(exp, Step[2]))
           e == [exp EXCEPT !.validated = s]
<1>1. Busy /\ Step[1] = "validate" /\ UNCHANGED <<catalog, lock, pinned>> /\ Goes(e)
  BY DEF Validate, At, Others, historyVars
<1>3. /\ DOMAIN s = DOMAIN exp.validated \cup {Step[2]}
      /\ s[Step[2]] = ToValidate(exp, Step[2])
      /\ \A h \in DOMAIN exp.validated \ {Step[2]} : s[h] = exp.validated[h]
  BY DEF Noted
<1> HIDE DEF s
<1>4. /\ DOMAIN e = ExpFields /\ e.kind = exp.kind /\ e.at = exp.at /\ e.bytes = exp.bytes
      /\ e.dev = exp.dev /\ e.val = exp.val /\ e.disturbed = exp.disturbed
      /\ e.selected = exp.selected /\ e.validated = s
  BY <1>1, ExpFacts DEF ExpFields
<1> HIDE DEF e
<1>5. /\ Step # <<"lock">> /\ Step # <<"check">> /\ Step # <<"read">>
      /\ \A g : Step = <<"validate", g>> <=> g = Step[2]
      /\ \A g : Step # <<"data", g>> /\ Step # <<"select", g>>
  BY <1>1, StepForm
<1>6. \A g : ToValidate(e, g) = ToValidate(exp, g)
  BY <1>4 DEF ToValidate
<1>7. \A g \in DOMAIN e.validated : e.validated[g] = ToValidate(e, g)
  BY <1>1, <1>3, <1>4, <1>6, ExpFacts
<1>8. \A g : g \in DOMAIN e.validated <=> Done(exp, <<"validate", g>>) \/ Step = <<"validate", g>>
  BY <1>1, <1>3, <1>4, <1>5, ExpFacts
<1> QED BY <1>1, <1>4, <1>5, <1>7, <1>8, ExpFacts, GoesOn

\* The experiment where it is, but for a disturbance.
LEMMA StaysThere ==
    ASSUME ExpInv, exp # None, exp' # None, DOMAIN exp' = ExpFields,
           exp'.kind = exp.kind, exp'.at = exp.at, exp'.bytes = exp.bytes,
           exp'.dev = exp.dev, exp'.val = exp.val,
           exp'.selected = exp.selected, exp'.validated = exp.validated,
           pinned => pinned', lock' = "none" <=> lock = "none",
           exp'.disturbed => \/ lock' = "changed"
                             \/ /\ exp.bytes # "none" /\ catalog' # exp.bytes
                                /\ ~ Done(exp, <<"check">>)
    PROVE  ExpInv' /\ \A step : Done(exp', step) <=> Done(exp, step)
<1>1. \A step : Done(exp', step) <=> Done(exp, step)
  BY DEF Done, Place
<1>2. \A g : ToValidate(exp', g) = ToValidate(exp, g)
  BY DEF ToValidate
<1> QED BY <1>1, <1>2 DEF ExpInv

\* What happens outside the experiment leaves it as it is.
LEMMA OthersLeaveIt ==
    ASSUME ExpInv, exp' = exp, catalog' = catalog, lock' = lock, pinned => pinned'
    PROVE  ExpInv'
<1>1. CASE exp = None
  BY <1>1 DEF ExpInv
<1>2. CASE exp # None
  <2>1. /\ DOMAIN exp = ExpFields
        /\ exp.disturbed => \/ lock = "changed"
                            \/ exp.bytes # "none" /\ catalog # exp.bytes
                               /\ ~ Done(exp, <<"check">>)
    BY <1>2 DEF ExpInv
  <2> QED BY <1>2, <2>1, StaysThere
<1> QED BY <1>1, <1>2

LEMMA PinnedStays ==
    ASSUME HistoryNext
    PROVE  pinned => pinned'
<1>1. CASE UNCHANGED pinned
  BY <1>1
<1>2. ASSUME NEW start, NEW end, NEW from, NEW open, Started(start, end, from, open)
      PROVE  pinned => pinned'
  BY <1>2, Zenon DEF Started
<1>3. CASE Command
  BY <1>2, <1>3 DEF Command, SpotCommand, FuturesCommand
<1> QED BY <1>1, <1>3 DEF HistoryNext, Answer, Fail, Abort, Receive, Tick

LEMMA BeginKeeps ==
    ASSUME NEW kind \in Kinds, Begin(kind)
    PROVE  ExpInv' /\ exp' # None /\ \A step : ~ Done(exp', step)
<1>1. /\ exp' = [kind |-> kind, at |-> 1, bytes |-> "none",
                 dev |-> {}, val |-> {}, disturbed |-> FALSE,
                 selected |-> [g \in {} |-> {}], validated |-> [g \in {} |-> {}]]
      /\ lock' = "none"
  BY DEF Begin
<1>2. /\ DOMAIN exp' = ExpFields /\ exp'.kind = kind /\ exp'.at = 1 /\ exp'.bytes = "none"
      /\ exp'.dev = {} /\ exp'.val = {} /\ exp'.disturbed = FALSE
      /\ DOMAIN exp'.selected = {} /\ DOMAIN exp'.validated = {}
  BY <1>1 DEF ExpFields
<1>3. exp'.at \in 0..Len(Steps(kind))
  BY <1>2, StepFacts DEF StepsSound
<1>4. \A step : ~ Done(exp', step)
  BY <1>2 DEF Done, Place
<1>5. exp' # None
  <2>1. DOMAIN None = {"none"}
    BY DEF None
  <2> QED BY <1>2, <2>1 DEF ExpFields
<1>6. /\ \A g : g \in DOMAIN exp'.selected <=> Done(exp', <<"select", g>>)
      /\ \A g : g \in DOMAIN exp'.validated <=> Done(exp', <<"validate", g>>)
      /\ \A g \in DOMAIN exp'.validated : exp'.validated[g] = ToValidate(exp', g)
      /\ Done(exp', <<"lock">>) <=> lock' # "none"
  BY <1>1, <1>2, <1>4
<1>7. /\ exp'.dev \subseteq Development /\ exp'.val \subseteq Validation
      /\ exp'.val = {} /\ exp'.dev \cup exp'.val = {}
  BY <1>2
<1> QED BY <1>2, <1>3, <1>4, <1>5, <1>6, <1>7 DEF ExpInv

LEMMA ReportKeeps ==
    ASSUME ExpInv, Report, ~ Fails
    PROVE  /\ ExpInv' /\ exp' # None /\ exp'.at = 0 /\ ~ exp'.disturbed
           /\ \A step : Done(exp, step) => Done(exp', step)
<1>1. /\ Busy /\ Step[1] = "report" /\ lock # "changed" /\ exp' = [exp EXCEPT !.at = 0]
      /\ UNCHANGED <<catalog, lock, pinned>>
  BY DEF Report, At, Others, historyVars
<1>2. /\ exp.kind \in Kinds /\ exp.at \in 1..Len(Steps(exp.kind))
      /\ Len(Steps(exp.kind)) \in Nat \ {0}
      /\ \A step : Done(exp, step) <=> Earlier(exp.kind, exp.at, step)
  BY <1>1, DoneIsBefore
<1>3. exp.at = Len(Steps(exp.kind)) /\ Step = <<"report">>
  BY <1>1, <1>2, StepFacts, StepForm DEF StepsSound, Step
<1>4. /\ DOMAIN exp' = ExpFields /\ exp'.kind = exp.kind /\ exp'.at = 0
      /\ exp'.bytes = exp.bytes /\ exp'.dev = exp.dev /\ exp'.val = exp.val
      /\ exp'.disturbed = exp.disturbed
      /\ exp'.selected = exp.selected /\ exp'.validated = exp.validated
  BY <1>1, ExpFacts DEF ExpFields
<1>5. exp' # None
  <2>1. DOMAIN None = {"none"}
    BY DEF None
  <2> QED BY <1>4, <2>1 DEF ExpFields
<1>6. ASSUME NEW step
      PROVE  Done(exp', step) <=> Done(exp, step) \/ Step = step
  <2>1. Place(exp') - 1 = exp.at
    BY <1>2, <1>3, <1>4 DEF Place
  <2>2. Done(exp', step) <=> \E i \in 1..exp.at : Steps(exp.kind)[i] = step
    BY <2>1, <1>4 DEF Done
  <2>3. \A i : i \in 1..exp.at <=> i \in 1..(exp.at - 1) \/ i = exp.at
    BY <1>2
  <2> QED BY <2>2, <2>3, <1>2 DEF Earlier, Step
<1>7. \A g : ToValidate(exp', g) = ToValidate(exp, g)
  BY <1>4 DEF ToValidate
<1>8. Done(exp, <<"check">>)
  BY <1>1, <1>2, StepFacts DEF StepsOrdered, Step
<1>9. ~ exp.disturbed
  BY <1>1, <1>8, ExpFacts
<1>10. /\ \A g : Step # <<"select", g>> /\ Step # <<"validate", g>> /\ Step # <<"data", g>>
       /\ Step # <<"read">> /\ Step # <<"lock">>
  BY <1>1, StepForm
<1>11. exp'.at \in 0..Len(Steps(exp.kind))
  BY <1>2, <1>4
<1> QED BY <1>1, <1>2, <1>4, <1>5, <1>6, <1>7, <1>9, <1>10, <1>11, ExpFacts DEF ExpInv

LEMMA EditCatalogKeeps ==
    ASSUME ExpInv, NEW to, EditCatalog(to)
    PROVE  ExpInv' /\ exp' # None /\ \A step : Done(exp', step) <=> Done(exp, step)
<1>1. /\ Busy /\ catalog' = to /\ lock' = lock /\ pinned' = pinned
      /\ exp' = IF exp.bytes # "none"
                  THEN [exp EXCEPT !.disturbed =
                           lock = "changed" \/ (to # exp.bytes /\ (exp.disturbed \/ Working))]
                  ELSE exp
  BY DEF EditCatalog, historyVars
<1>2. /\ DOMAIN exp' = ExpFields /\ exp'.kind = exp.kind /\ exp'.at = exp.at
      /\ exp'.bytes = exp.bytes /\ exp'.dev = exp.dev /\ exp'.val = exp.val
      /\ exp'.selected = exp.selected /\ exp'.validated = exp.validated
      /\ exp'.disturbed =>
            \/ lock = "changed"
            \/ exp.bytes # "none" /\ to # exp.bytes /\ (exp.disturbed \/ Working)
  <2>1. CASE exp.bytes = "none"
    BY <1>1, <2>1, ExpFacts
  <2>2. CASE exp.bytes # "none"
    <3> DEFINE d == lock = "changed" \/ (to # exp.bytes /\ (exp.disturbed \/ Working))
    <3>1. exp' = [exp EXCEPT !.disturbed = d]
      BY <1>1, <2>2
    <3> HIDE DEF d
    <3>2. /\ DOMAIN exp' = ExpFields /\ exp'.kind = exp.kind /\ exp'.at = exp.at
          /\ exp'.bytes = exp.bytes /\ exp'.dev = exp.dev /\ exp'.val = exp.val
          /\ exp'.selected = exp.selected /\ exp'.validated = exp.validated
          /\ exp'.disturbed = d
      BY <1>1, <3>1, ExpFacts DEF ExpFields
    <3> QED BY <2>2, <3>2, Zenon DEF d
  <2> QED BY <2>1, <2>2
<1>3. Working => ~ Done(exp, <<"check">>)
  <2>1. SUFFICES ASSUME Working PROVE ~ Earlier(exp.kind, exp.at, <<"check">>)
    BY <1>1, DoneIsBefore
  <2>2. PICK i \in exp.at..Len(Steps(exp.kind)) :
                 Steps(exp.kind)[i][1] \in {"select", "validate"}
    BY <2>1 DEF Working
  <2>3. /\ exp.kind \in Kinds /\ exp.at \in 1..Len(Steps(exp.kind))
        /\ Len(Steps(exp.kind)) \in Nat
    BY <1>1, DoneIsBefore
  <2>4. i \in 1..Len(Steps(exp.kind)) /\ \A j \in 1..(exp.at - 1) : j \in 1..(i - 1)
    BY <2>2, <2>3
  <2>5. ~ Earlier(exp.kind, i, <<"check">>)
    BY <2>2, <2>3, <2>4, StepFacts DEF StepsOrdered
  <2> QED BY <2>4, <2>5 DEF Earlier
<1>4. exp'.disturbed => \/ lock' = "changed"
                        \/ /\ exp.bytes # "none" /\ catalog' # exp.bytes
                           /\ ~ Done(exp, <<"check">>)
  BY <1>1, <1>2, <1>3, ExpFacts
<1>5. exp' # None
  <2>1. DOMAIN None = {"none"}
    BY DEF None
  <2> QED BY <1>2, <2>1 DEF ExpFields
<1> QED BY <1>1, <1>2, <1>4, <1>5, ExpFacts, StaysThere

LEMMA EditLockKeeps ==
    ASSUME ExpInv, EditLock
    PROVE  ExpInv' /\ exp' # None /\ \A step : Done(exp', step) <=> Done(exp, step)
<1>1. /\ Busy /\ lock = "intact" /\ lock' = "changed" /\ pinned' = pinned
      /\ exp' = [exp EXCEPT !.disturbed = TRUE]
  BY DEF EditLock, historyVars
<1>2. /\ DOMAIN exp' = ExpFields /\ exp'.kind = exp.kind /\ exp'.at = exp.at
      /\ exp'.bytes = exp.bytes /\ exp'.dev = exp.dev /\ exp'.val = exp.val
      /\ exp'.selected = exp.selected /\ exp'.validated = exp.validated
  BY <1>1, ExpFacts DEF ExpFields
<1>3. exp' # None
  <2>1. DOMAIN None = {"none"}
    BY DEF None
  <2> QED BY <1>2, <2>1 DEF ExpFields
<1>4. lock' = "none" <=> lock = "none"
  BY <1>1
<1> QED BY <1>1, <1>2, <1>3, <1>4, ExpFacts, StaysThere

\* The experiment and its place agree, whatever else happens meanwhile.
LEMMA ExpStep ==
    ASSUME HistoryInv, ExpInv, [Next]_vars
    PROVE  ExpInv'
<1>1. CASE UNCHANGED <<exp, catalog, lock>> /\ (HistoryNext \/ pinned' = pinned)
  BY <1>1, OthersLeaveIt, PinnedStays
<1>2. CASE Fails
  BY <1>2 DEF Fails, ExpInv
<1>3. CASE LoadCatalog
  <2>1. CASE ~ Fails
    <3>1. Busy /\ Step[1] = "load" /\ Goes(exp) /\ UNCHANGED <<catalog, lock, pinned>>
      BY <1>3, <2>1 DEF LoadCatalog, At, Others, historyVars
    <3> QED BY <3>1, MovesOn
  <2> QED BY <1>2, <2>1
<1>4. CASE WriteLock
  <2>1. /\ Busy /\ Step[1] = "lock" /\ Goes(exp) /\ lock' = "intact"
        /\ UNCHANGED <<catalog, pinned>>
    BY <1>4 DEF WriteLock, At, Others, historyVars
  <2> QED BY <2>1, MovesOn
<1>5. CASE Decide
  <2>1. Busy /\ Step[1] = "decide" /\ Goes(exp) /\ UNCHANGED <<catalog, lock, pinned>>
    BY <1>5 DEF Decide, At, historyVars
  <2> QED BY <2>1, MovesOn
<1>6. CASE CheckUnchanged
  <2>1. CASE ~ Fails
    <3>1. /\ Busy /\ Step[1] = "check" /\ Goes(exp) /\ UNCHANGED <<catalog, lock, pinned>>
          /\ catalog = exp.bytes
      BY <1>6, <2>1 DEF CheckUnchanged, At, Others, historyVars
    <3> QED BY <3>1, MovesOn
  <2> QED BY <1>2, <2>1
<1>7. CASE ReadCatalog \/ LoadData \/ Select \/ Validate
  BY <1>7, ReadCatalogKeeps, LoadDataKeeps, SelectKeeps, ValidateKeeps
<1>8. CASE Report
  BY <1>2, <1>8, ReportKeeps
<1>9. CASE \E kind \in Kinds : Begin(kind)
  BY <1>9, BeginKeeps
<1>10. CASE (\E to \in {"reformatted", "altered"} : EditCatalog(to)) \/ EditLock
  BY <1>10, EditCatalogKeeps, EditLockKeeps
<1>11. CASE (\E v \in Versions : StartFreeze(v)) \/ (\E c \in freeze : WriteFile(c) \/ KillFreeze(c))
  BY <1>1, <1>11 DEF StartFreeze, WriteFile, KillFreeze, historyVars
<1>12. CASE (HistoryNext /\ UNCHANGED researchVars) \/ UNCHANGED vars
  BY <1>1, <1>12 DEF researchVars, historyVars, vars
<1> QED BY <1>3, <1>4, <1>5, <1>6, <1>7, <1>8, <1>9, <1>10, <1>11, <1>12
        DEF Next, ResearchNext, ExperimentStep

\* A step of the experiment that neither fails nor ends it makes itself done.
LEMMA StepsForward ==
    ASSUME ExpInv, ExperimentStep, ~ Fails, ~ Report
    PROVE  /\ Busy /\ exp' # None
           /\ \A step : Done(exp', step) <=> Done(exp, step) \/ Step = step
<1> DEFINE Forward(e) == /\ Busy /\ Step[1] # "report" /\ Goes(e)
                         /\ DOMAIN e = ExpFields /\ e.kind = exp.kind /\ e.at = exp.at
<1>1. ASSUME NEW e, Forward(e)
      PROVE  /\ Busy /\ exp' # None
             /\ \A step : Done(exp', step) <=> Done(exp, step) \/ Step = step
  BY <1>1, Going
<1>2. CASE LoadCatalog \/ WriteLock \/ Decide \/ CheckUnchanged
  <2>1. Busy /\ Step[1] # "report" /\ Goes(exp)
    BY <1>2 DEF LoadCatalog, WriteLock, Decide, CheckUnchanged, At
  <2>2. DOMAIN exp = ExpFields
    BY <2>1, ExpFacts
  <2> QED BY <2>1, <2>2, <1>1
<1>3. CASE ReadCatalog
  <2>1. Busy /\ Step[1] # "report" /\ Goes([exp EXCEPT !.bytes = catalog])
    BY <1>3 DEF ReadCatalog, At
  <2>2. Forward([exp EXCEPT !.bytes = catalog])
    BY <2>1, ExpFacts DEF ExpFields
  <2> QED BY <2>2, <1>1
<1>4. CASE LoadData
  <2>1. PICK d, v : /\ Busy /\ Step[1] # "report"
                    /\ Goes([exp EXCEPT !.dev = @ \cup d, !.val = @ \cup v])
    BY <1>4 DEF LoadData, At
  <2>2. Forward([exp EXCEPT !.dev = @ \cup d, !.val = @ \cup v])
    BY <2>1, ExpFacts DEF ExpFields
  <2> QED BY <2>2, <1>1
<1>5. CASE Select
  <2>1. PICK new : Busy /\ Step[1] # "report" /\ Goes([exp EXCEPT !.selected = new])
    BY <1>5 DEF Select, At
  <2>2. Forward([exp EXCEPT !.selected = new])
    BY <2>1, ExpFacts DEF ExpFields
  <2> QED BY <2>2, <1>1
<1>6. CASE Validate
  <2>1. PICK new : Busy /\ Step[1] # "report" /\ Goes([exp EXCEPT !.validated = new])
    BY <1>6 DEF Validate, At
  <2>2. Forward([exp EXCEPT !.validated = new])
    BY <2>1, ExpFacts DEF ExpFields
  <2> QED BY <2>2, <1>1
<1> QED BY <1>2, <1>3, <1>4, <1>5, <1>6 DEF ExperimentStep

\* What a candidate decision says: it was shown what was selected.
LEMMA DecideKeeps ==
    ASSUME ExpInv, EndInv, Decide
    PROVE  EndInv'
<1>1. /\ Busy /\ Step[1] = "decide"
      /\ UNCHANGED <<catalog, lock, result, frozen, freeze>>
  BY DEF Decide, At
<1>2. /\ exp.kind = "spot" /\ ~ Done(exp, <<"decide">>)
      /\ Done(exp, <<"select", "regime">>) /\ Done(exp, <<"validate", "regime">>)
  BY <1>1, DoneIsBefore, StepFacts DEF StepsOrdered, Step
<1>3. exp.validated["regime"] = exp.selected["regime"]
  BY <1>1, <1>2, ExpFacts DEF ToValidate
<1>4. decision = None
  BY <1>1, <1>2 DEF EndInv, Busy
<1>5. freeze = {} /\ \A v \in Versions : DOMAIN frozen[v] = {}
  BY <1>4 DEF EndInv
<1>6. exp' # None /\ Done(exp', <<"decide">>)
  <2>1. Goes(exp) /\ DOMAIN exp = ExpFields
    BY <1>1, ExpFacts DEF Decide
  <2>2. Step = <<"decide">>
    BY <1>1, StepForm
  <2> QED BY <1>1, <2>1, <2>2, Going
<1>7. decision'.candidate => decision'.variant # {} /\ decision'.variant \subseteq decision'.shown
  BY <1>3 DEF Decide
<1>8. result # "published"
  BY <1>1 DEF EndInv, Busy
<1> QED BY <1>1, <1>5, <1>6, <1>7, <1>8 DEF EndInv

\* Nothing but the freeze commands, the decision and the end of an experiment matters
\* here, as long as the experiment goes forward.
LEMMA EndStays ==
    ASSUME EndInv, UNCHANGED <<decision, freeze, frozen>>,
           catalog' \in {"registered", "reformatted", "altered"},
           lock' \in {"none", "intact", "changed"},
           result' = result /\ (result = "published" => exp' = exp),
           exp' = None => exp = None,
           exp # None => \A step : Done(exp, step) => Done(exp', step),
           exp = None => exp' = None \/ result = "none"
    PROVE  EndInv'
<1>1. decision # None /\ exp' = None => result # "none"
  BY DEF EndInv
<1>2. decision # None /\ exp' # None => Done(exp', <<"decide">>)
  BY DEF EndInv
<1> QED BY <1>1, <1>2 DEF EndInv

LEMMA EndStep ==
    ASSUME ExpInv, EndInv, FreezeInv, [Next]_vars
    PROVE  EndInv'
<1>1. /\ catalog \in {"registered", "reformatted", "altered"}
      /\ lock \in {"none", "intact", "changed"}
      /\ result = "published" => exp # None /\ exp.at = 0
  BY DEF EndInv
<1>2. CASE UNCHANGED researchVars
  BY <1>2 DEF researchVars, EndInv, Done, Place
<1>3. CASE Fails
  <2>1. exp' = None /\ result' = "failed" /\ UNCHANGED <<catalog, lock, decision, freeze, frozen>>
    BY <1>3 DEF Fails, Others
  <2> QED BY <2>1 DEF EndInv
<1>4. CASE ExperimentStep /\ ~ Fails /\ ~ Report
  <2>1. /\ Busy /\ exp' # None
        /\ \A step : Done(exp, step) => Done(exp', step)
    BY <1>4, StepsForward
  <2>2. CASE Decide
    BY <2>2, DecideKeeps
  <2>3. CASE ~ Decide
    <3>1. /\ UNCHANGED <<decision, freeze, frozen, result, catalog>>
          /\ lock' = lock \/ lock' = "intact"
      BY <1>4, <2>3 DEF ExperimentStep, ReadCatalog, LoadCatalog, LoadData, Select, WriteLock,
         Validate, CheckUnchanged, Others
    <3>2. result # "published"
      BY <1>1, <2>1 DEF Busy
    <3> QED BY <1>1, <2>1, <3>1, <3>2, EndStays DEF Busy
  <2> QED BY <2>2, <2>3
<1>5. CASE Report /\ ~ Fails
  <2>1. /\ exp' # None /\ exp'.at = 0 /\ ~ exp'.disturbed
        /\ \A step : Done(exp, step) => Done(exp', step)
    BY <1>5, ReportKeeps
  <2>2. Busy /\ result' = "published" /\ UNCHANGED <<decision, freeze, frozen, catalog, lock>>
    BY <1>5 DEF Report, At, Others
  <2>3. decision # None => Done(exp', <<"decide">>)
    BY <2>1, <2>2 DEF EndInv, Busy
  <2> QED BY <1>1, <2>1, <2>2, <2>3 DEF EndInv
<1>6. CASE \E kind \in Kinds : Begin(kind)
  <2>1. /\ exp = None /\ result = "none" /\ lock' = "none"
        /\ UNCHANGED <<catalog, result, decision, freeze, frozen>>
    BY <1>6 DEF Begin, Others
  <2>2. exp' # None
    BY <1>6, BeginKeeps
  <2> QED BY <1>1, <2>1, <2>2, EndStays
<1>7. CASE (\E to \in {"reformatted", "altered"} : EditCatalog(to)) \/ EditLock
  <2>1. /\ Busy /\ UNCHANGED <<result, decision, freeze, frozen>>
        /\ catalog' \in {"registered", "reformatted", "altered"}
        /\ lock' \in {"none", "intact", "changed"}
    BY <1>1, <1>7 DEF EditCatalog, EditLock
  <2>2. exp' # None /\ \A step : Done(exp, step) => Done(exp', step)
    BY <1>7, EditCatalogKeeps, EditLockKeeps
  <2>3. result # "published"
    BY <1>1, <2>1 DEF Busy
  <2> QED BY <2>1, <2>2, <2>3, EndStays DEF Busy
<1>8. CASE (\E v \in Versions : StartFreeze(v)) \/ (\E c \in freeze : WriteFile(c) \/ KillFreeze(c))
  <2>1. UNCHANGED <<exp, result, decision, catalog, lock>>
    BY <1>8 DEF StartFreeze, WriteFile, KillFreeze
  <2>2. freeze' # {} \/ (\E v \in Versions : DOMAIN frozen'[v] # {}) =>
            decision # None /\ decision.candidate
    <3>1. CASE \E v \in Versions : StartFreeze(v)
      BY <3>1 DEF StartFreeze, Freezable
    <3>2. CASE \E c \in freeze : WriteFile(c) \/ KillFreeze(c)
      BY <3>2 DEF EndInv
    <3> QED BY <1>8, <3>1, <3>2
  <2>3. exp # None /\ decision # None => Done(exp', <<"decide">>)
    BY <2>1 DEF EndInv, Done, Place
  <2> QED BY <2>1, <2>2, <2>3 DEF EndInv
<1> QED BY <1>2, <1>3, <1>4, <1>5, <1>6, <1>7, <1>8
        DEF Next, ResearchNext, ExperimentStep, vars

LEMMA ExperimentInitial == Init => ExpInv /\ EndInv /\ ReadInv /\ FreezeInv
BY ResearchAssumption DEF Init, ResearchInit, ExpInv, EndInv, ReadInv, FreezeInv

\* What is done was done at a step, and so was all that comes before it.
LEMMA DoneInOrder ==
    ASSUME ExpInv, exp # None, NEW step, Done(exp, step)
    PROVE  \E i \in 1..Len(Steps(exp.kind)) :
               /\ Steps(exp.kind)[i] = step
               /\ \A other : Earlier(exp.kind, i, other) => Done(exp, other)
<1>1. exp.kind \in Kinds /\ exp.at \in 0..Len(Steps(exp.kind))
  BY DEF ExpInv
<1>2. Len(Steps(exp.kind)) \in Nat \ {0}
  BY <1>1, StepFacts DEF StepsSound
<1>3. PICK i \in 1..(Place(exp) - 1) : Steps(exp.kind)[i] = step
  BY DEF Done
<1>4. Place(exp) \in 1..(Len(Steps(exp.kind)) + 1)
  BY <1>1, <1>2 DEF Place
<1>5. i \in 1..Len(Steps(exp.kind)) /\ \A j \in 1..(i - 1) : j \in 1..(Place(exp) - 1)
  BY <1>2, <1>3, <1>4
<1>6. \A other : Earlier(exp.kind, i, other) => Done(exp, other)
  BY <1>5 DEF Earlier, Done
<1> QED BY <1>3, <1>5, <1>6

\* A group that was shown the validation period had chosen, and without stages both
\* groups had, for trend following with the lock on disk.
LEMMA ShownWasChosen ==
    ASSUME ExpInv, exp # None, NEW g, Done(exp, <<"validate", g>>)
    PROVE  /\ Done(exp, <<"select", g>>)
           /\ exp.kind # "spot" => /\ Done(exp, <<"select", "spot">>)
                                   /\ Done(exp, <<"select", "futures">>)
           /\ exp.kind = "trend" => Done(exp, <<"lock">>)
<1>1. PICK i \in 1..Len(Steps(exp.kind)) :
               /\ Steps(exp.kind)[i] = <<"validate", g>>
               /\ \A other : Earlier(exp.kind, i, other) => Done(exp, other)
  BY DoneInOrder
<1>2. Steps(exp.kind)[i][1] = "validate" /\ Steps(exp.kind)[i][2] = g
  BY <1>1
<1>3. exp.kind \in Kinds
  BY DEF ExpInv
<1> QED BY <1>1, <1>2, <1>3, StepFacts, SMTT(30) DEF StepsOrdered

LEMMA ChosenGroups ==
    ASSUME ExpInv, exp # None, exp.kind # "spot", NEW g, Done(exp, <<"select", g>>)
    PROVE  g \in {"spot", "futures"}
<1>1. PICK i \in 1..Len(Steps(exp.kind)) : Steps(exp.kind)[i] = <<"select", g>>
  BY DoneInOrder
<1>2. Steps(exp.kind)[i][1] = "select" /\ Steps(exp.kind)[i][2] = g
  BY <1>1
<1>3. exp.kind \in Kinds
  BY DEF ExpInv
<1> QED BY <1>1, <1>2, <1>3, StepFacts DEF StepsOrdered

LEMMA ReadAfterLock ==
    ASSUME ExpInv, exp # None, Done(exp, <<"data", "val">>)
    PROVE  /\ Done(exp, <<"lock">>)
           /\ Done(exp, <<"select", "spot">>) /\ Done(exp, <<"select", "futures">>)
<1>1. PICK i \in 1..Len(Steps(exp.kind)) :
               /\ Steps(exp.kind)[i] = <<"data", "val">>
               /\ \A other : Earlier(exp.kind, i, other) => Done(exp, other)
  BY DoneInOrder
<1>2. exp.kind \in Kinds
  BY DEF ExpInv
<1> QED BY <1>1, <1>2, StepFacts DEF StepsOrdered

\* The place of the experiment says what may be published, shown and frozen.
LEMMA BlindByPlace ==
    ASSUME ExpInv, EndInv, ReadInv, ~ LateAnswers
    PROVE  ResearchIsBlind
<1>1. PublishedUndisturbed
  BY DEF PublishedUndisturbed, EndInv
<1>2. ASSUME exp # None
      PROVE  /\ \A g : g \in DOMAIN exp.selected <=> Done(exp, <<"select", g>>)
             /\ \A g : g \in DOMAIN exp.validated <=> Done(exp, <<"validate", g>>)
             /\ \A g \in DOMAIN exp.validated : exp.validated[g] = ToValidate(exp, g)
             /\ Done(exp, <<"lock">>) <=> lock # "none"
             /\ exp.kind = "trend" /\ exp.val # {} => Done(exp, <<"data", "val">>)
  BY <1>2 DEF ExpInv
<1>3. ASSUME exp # None, exp.kind # "spot",
             Done(exp, <<"select", "spot">>), Done(exp, <<"select", "futures">>)
      PROVE  DOMAIN exp.selected = {"spot", "futures"}
  BY <1>2, <1>3, ChosenGroups
<1>4. OnlyChosenIsValidated
  <2>1. SUFFICES ASSUME exp # None PROVE
            /\ \A g \in DOMAIN exp.validated :
                  /\ g \in DOMAIN exp.selected
                  /\ exp.validated[g] \subseteq exp.selected[g] \cup {Baseline}
            /\ exp.kind \in {"trend", "pullback", "calibration"} /\ DOMAIN exp.validated # {} =>
                  DOMAIN exp.selected = {Groups[i] : i \in DOMAIN Groups}
    BY DEF OnlyChosenIsValidated
  <2>2. \A g : ToValidate(exp, g) \subseteq exp.selected[g] \cup {Baseline}
    BY DEF ToValidate
  <2>3. {Groups[i] : i \in DOMAIN Groups} = {"spot", "futures"}
    BY DEF Groups
  <2>4. ASSUME NEW g \in DOMAIN exp.validated
        PROVE  /\ g \in DOMAIN exp.selected
               /\ exp.validated[g] \subseteq exp.selected[g] \cup {Baseline}
               /\ exp.kind # "spot" => DOMAIN exp.selected = {"spot", "futures"}
    BY <2>1, <2>2, <2>4, <1>2, <1>3, ShownWasChosen
  <2> QED BY <2>3, <2>4
<1>5. ValidationIsBlind
  <2>1. SUFFICES ASSUME exp # None, exp.kind = "trend" PROVE
            /\ exp.val # {} => lock # "none" /\ DOMAIN exp.selected = {"spot", "futures"}
            /\ lock = "none" => DOMAIN exp.validated = {}
    BY DEF ValidationIsBlind
  <2>2. exp.val # {} => lock # "none" /\ DOMAIN exp.selected = {"spot", "futures"}
    BY <2>1, <1>2, <1>3, ReadAfterLock
  <2>3. ASSUME NEW g \in DOMAIN exp.validated PROVE lock # "none"
    BY <2>1, <2>3, <1>2, ShownWasChosen
  <2> QED BY <2>2, <2>3
<1>6. DataIsFinal
  BY DEF DataIsFinal, ReadInv
<1>7. DataIsUnbroken
  BY DEF DataIsUnbroken, ExpInv
<1>8. FrozenIsValidated
  BY DEF FrozenIsValidated, EndInv
<1> QED BY <1>1, <1>4, <1>5, <1>6, <1>7, <1>8 DEF ResearchIsBlind

\* Whatever is edited, downloaded, failed or frozen meanwhile, the validation period is
\* shown only what was chosen before, on final data, and nothing is published after a
\* disturbance that was not put back.
THEOREM BlindResearch == Spec => [](~ LateAnswers => ResearchIsBlind)
<1> DEFINE I == /\ TableInv /\ HistoryInv /\ ReadInv
                /\ FreezeInv /\ ExpInv /\ EndInv
<1>1. Init => I
  BY InitTable, HistoryInitial, ExperimentInitial
<1>2. I /\ [Next]_vars => I'
  BY TableStep, HistoryAlways, ReadStep, FreezeStep, ExpStep, EndStep
<1>3. I => (~ LateAnswers => ResearchIsBlind)
  BY BlindByPlace
<1> QED BY <1>1, <1>2, <1>3, PTL DEF Spec

\* At every instant the table holds what the downloads promised.
THEOREM TrueHistory == Spec => [](~ LateAnswers => HistoryIsTrue)
<1> DEFINE I == /\ TableInv /\ HistoryInv /\ ReadInv
                /\ FreezeInv /\ ExpInv /\ EndInv
<1>1. Init => I
  BY InitTable, HistoryInitial, ExperimentInitial
<1>2. I /\ [Next]_vars => I'
  BY TableStep, HistoryAlways, ReadStep, FreezeStep, ExpStep, EndStep
<1>3. HistoryInv => HistoryTypeOK
  <2>1. job \in JobType => job.tries <= MaximumRetries /\ job.page \subseteq Candles
    BY HistoryConstants DEF JobType
  <2> QED BY <2>1 DEF HistoryInv, HistoryTypeOK, Running
<1>4. I => TypeOK
  <2>1. 1..3 = DOMAIN Files
    BY DEF Files
  <2>2. FreezeInv => \A v \in Versions : DOMAIN frozen[v] \subseteq {Files[i] : i \in DOMAIN Files}
    BY <2>1 DEF FreezeInv
  <2>3. FreezeInv => freeze \subseteq [id : 1..MaxFreezes, version : Versions, at : 1..Len(Files)]
    <3>1. Len(Files) = 3
      BY DEF Files
    <3> QED BY <3>1 DEF FreezeInv
  <2>4. ExpInv /\ exp # None => /\ exp.at \in 0..Len(Steps(exp.kind))
                                /\ exp.dev \subseteq Development /\ exp.val \subseteq Validation
    BY DEF ExpInv
  <2> QED BY <1>3, <2>2, <2>3, <2>4 DEF EndInv, TypeOK
<1>5. I => (~ LateAnswers => HistoryIsTrue)
  BY <1>4 DEF TableInv, HistoryInv, HistoryIsTrue
<1> HIDE DEF I
<1> QED BY <1>1, <1>2, <1>5, PTL DEF Spec

\* However many downloads, edits, crashes and freezes there are, a stored candle stays
\* in the table, and a version that no freeze is writing any more keeps its files.
THEOREM StoredAndFrozenStay == Spec => KeptForGood
<1> QED BY NothingIsUnlearned, FrozenFinal DEF KeptForGood

-----------------------------------------------------------------------------
(* Segments *)

LEMMA PartsAreFinite ==
    ASSUME NEW S, IsFiniteSet(S), NEW T, T \subseteq S
    PROVE  IsFiniteSet(T) /\ Cardinality(T) \in Nat /\ Cardinality(T) <= Cardinality(S)
BY FS_Subset, FS_CardinalityType

Above(S, h) == {k \in S : k > h}

LEMMA LastOfAbove ==
    ASSUME NEW S, NEW n
    PROVE  LastOf(S, n) = {h \in S : Cardinality(Above(S, h)) < n}
BY DEF LastOf, Above

LEMMA AfterFirstBelow ==
    ASSUME NEW S, NEW n
    PROVE  AfterFirst(S, n) = {h \in S : Cardinality(Before(S, h)) >= n}
BY DEF AfterFirst, Before

\* A hour has fewer hours after it, and before it, than there are.
LEMMA FewerAround ==
    ASSUME NEW S \in SUBSET Nat, IsFiniteSet(S), NEW h \in S
    PROVE  /\ Cardinality(Above(S, h)) \in Nat /\ Cardinality(Above(S, h)) < Cardinality(S)
           /\ Cardinality(Before(S, h)) \in Nat /\ Cardinality(Before(S, h)) < Cardinality(S)
<1>1. IsFiniteSet(S \ {h}) /\ Cardinality(S \ {h}) = Cardinality(S) - 1
  BY FS_RemoveElement
<1>2. Above(S, h) \subseteq S \ {h} /\ Before(S, h) \subseteq S \ {h}
  BY DEF Above, Before
<1>3. /\ Cardinality(Above(S, h)) \in Nat /\ Cardinality(Above(S, h)) <= Cardinality(S \ {h})
      /\ Cardinality(Before(S, h)) \in Nat /\ Cardinality(Before(S, h)) <= Cardinality(S \ {h})
  BY <1>1, <1>2, PartsAreFinite
<1>4. Cardinality(S) \in Nat
  BY FS_CardinalityType
<1> QED BY <1>1, <1>3, <1>4

\* A finite set of numbers has a greatest one.
LEMMA MaxOfFinite ==
    ASSUME NEW S \in SUBSET Nat, IsFiniteSet(S), NEW h \in S
    PROVE  Max(S) \in S /\ Max(S) \in Nat /\ h <= Max(S) /\ \A y \in S : y <= Max(S)
<1> DEFINE few == {Cardinality(Above(S, k)) : k \in S}
<1>1. few \subseteq Nat /\ few # {}
  BY FewerAround
<1>2. PICK z \in S : \A k \in S : Cardinality(Above(S, z)) <= Cardinality(Above(S, k))
  <2>1. PICK m \in few : \A c \in few : m <= c
    <3> HIDE DEF few
    <3> QED BY <1>1, LeastNatural
  <2>2. PICK z \in S : m = Cardinality(Above(S, z))
    BY <2>1
  <2> QED BY <2>1, <2>2
<1>3. ASSUME NEW k \in S, k > z
      PROVE  FALSE
  <2>1. Above(S, k) \subseteq Above(S, z) /\ k \in Above(S, z) /\ k \notin Above(S, k)
    <3>1. k \in Nat /\ z \in Nat /\ \A j \in S : j \in Nat
      OBVIOUS
    <3>2. ~ k > k /\ \A j \in S : j > k => j > z
      BY <1>3, <3>1
    <3> QED BY <1>3, <3>2 DEF Above
  <2>2. IsFiniteSet(Above(S, z)) /\ Cardinality(Above(S, z)) \in Nat
    <3>1. Above(S, z) \subseteq S
      BY DEF Above
    <3> QED BY <3>1, PartsAreFinite
  <2>3. /\ Cardinality(Above(S, k)) \in Nat
        /\ Cardinality(Above(S, k)) <= Cardinality(Above(S, z))
        /\ Cardinality(Above(S, k)) = Cardinality(Above(S, z)) => Above(S, k) = Above(S, z)
    BY <2>1, <2>2, PartsAreFinite, FS_Subset
  <2>4. Cardinality(Above(S, z)) <= Cardinality(Above(S, k))
    BY <1>2
  <2> QED BY <2>1, <2>2, <2>3, <2>4
<1>4. \A k \in S : k <= z
  BY <1>3
<1>5. \E x \in S : \A y \in S : x >= y
  BY <1>4
<1>6. Max(S) \in S /\ \A y \in S : Max(S) >= y
  BY <1>5 DEF Max
<1> QED BY <1>6

LEMMA LastOfFew ==
    ASSUME NEW S \in SUBSET Nat, IsFiniteSet(S), NEW n \in Nat, Cardinality(S) <= n
    PROVE  LastOf(S, n) = S
<1>1. ASSUME NEW h \in S PROVE Cardinality(Above(S, h)) < n
  <2>1. /\ Cardinality(Above(S, h)) \in Nat /\ Cardinality(Above(S, h)) < Cardinality(S)
        /\ Cardinality(S) \in Nat
    BY FewerAround, FS_CardinalityType
  <2> QED BY <2>1
<1> QED BY <1>1, LastOfAbove

\* Of a set with at least n hours, the last n are n.
LEMMA LastOfMany ==
    ASSUME NEW n \in Nat, NEW S \in SUBSET Nat, IsFiniteSet(S), Cardinality(S) >= n
    PROVE  Cardinality(LastOf(S, n)) = n
<1> DEFINE Wrong(c) == \E X \in SUBSET Nat : /\ IsFiniteSet(X) /\ Cardinality(X) = c /\ c >= n
                                             /\ Cardinality(LastOf(X, n)) # n
           sizes == {c \in Nat : Wrong(c)}
<1>1. SUFFICES sizes = {}
  BY FS_CardinalityType
<1>2. SUFFICES ASSUME sizes # {} PROVE FALSE
  OBVIOUS
<1>3. PICK m \in sizes : \A c \in sizes : m <= c
  <2>1. sizes \subseteq Nat
    OBVIOUS
  <2> HIDE DEF sizes
  <2> QED BY <1>2, <2>1, LeastNatural
<1>4. PICK X \in SUBSET Nat : /\ IsFiniteSet(X) /\ Cardinality(X) = m /\ m >= n
                              /\ Cardinality(LastOf(X, n)) # n
  BY <1>3
<1>5. m \in Nat /\ m > n
  <2>1. m \in Nat
    BY <1>3
  <2>2. m <= n => LastOf(X, n) = X
    BY <1>4, LastOfFew
  <2> QED BY <1>4, <2>1, <2>2
<1>6. X # {}
  BY <1>4, <1>5, FS_EmptySet
<1> DEFINE x == Min(X)
           Y == X \ {x}
<1>7. x \in X /\ \A y \in X : x <= y
  BY <1>6, MinIsLeast
<1> HIDE DEF x
<1>8. IsFiniteSet(Y) /\ Cardinality(Y) = m - 1
  BY <1>4, <1>7, FS_RemoveElement
<1>9. Cardinality(LastOf(Y, n)) = n
  <2>1. m - 1 \in Nat /\ m - 1 >= n /\ m - 1 < m
    BY <1>5
  <2>2. m - 1 \notin sizes
    BY <1>3, <1>5, <2>1
  <2>3. Y \in SUBSET Nat
    OBVIOUS
  <2>4. ~ Wrong(m - 1)
    BY <2>1, <2>2
  <2> HIDE DEF Y
  <2> QED BY <1>8, <2>1, <2>3, <2>4
<1>10. LastOf(X, n) = LastOf(Y, n)
  <2>0. \A k \in X : k \in Nat
    OBVIOUS
  <2>1. Above(X, x) = Y
    <3>1. \A k \in X : k > x <=> k # x
      BY <1>7, <2>0
    <3> QED BY <3>1 DEF Above
  <2>2. ~ Cardinality(Above(X, x)) < n
    BY <1>5, <1>8, <2>1
  <2>3. \A h \in Y : Above(X, h) = Above(Y, h)
    BY <1>7 DEF Above
  <2>4. X = Y \cup {x} /\ x \notin Y
    BY <1>7
  <2> HIDE DEF Y
  <2> QED BY <2>2, <2>3, <2>4, LastOfAbove
<1> QED BY <1>4, <1>9, <1>10

\* What precedes a window and is given to the engine with it, and what it may trade on.
Leading(S, from, w) == LastOf(Before(S, from), w)
Tested(S, from, last) == S \cap from..last
Given(S, from, last, w) == Leading(S, from, w) \cup Tested(S, from, last)
Warm(S, from, last, w) == {h \in Tested(S, from, last) : Cardinality(Before(S, h)) >= w}

LEMMA BeforeIsFinite ==
    ASSUME NEW S \in SUBSET Nat, IsFiniteSet(S), NEW h
    PROVE  /\ Before(S, h) \subseteq S /\ Before(S, h) \subseteq Nat
           /\ IsFiniteSet(Before(S, h)) /\ Cardinality(Before(S, h)) \in Nat
<1>1. Before(S, h) \subseteq S
  BY DEF Before
<1> QED BY <1>1, PartsAreFinite

LEMMA PriorHours ==
    ASSUME NEW S \in SUBSET Nat, IsFiniteSet(S), NEW from \in Nat, NEW w \in Nat
    PROVE  /\ Leading(S, from, w) \subseteq Before(S, from)
           /\ IsFiniteSet(Leading(S, from, w)) /\ Cardinality(Leading(S, from, w)) \in Nat
           /\ Cardinality(Leading(S, from, w)) <= w
           /\ Cardinality(Before(S, from)) <= w => Leading(S, from, w) = Before(S, from)
           /\ Cardinality(Before(S, from)) >= w => Cardinality(Leading(S, from, w)) = w
<1> DEFINE B == Before(S, from)
<1>1. B \subseteq Nat /\ IsFiniteSet(B) /\ Cardinality(B) \in Nat
  BY BeforeIsFinite
<1> HIDE DEF B
<1>2. LastOf(B, w) \subseteq B
  BY DEF LastOf
<1>3. IsFiniteSet(LastOf(B, w)) /\ Cardinality(LastOf(B, w)) \in Nat
  BY <1>1, <1>2, PartsAreFinite
<1>4. Cardinality(B) <= w => LastOf(B, w) = B
  BY <1>1, LastOfFew
<1>5. Cardinality(B) >= w => Cardinality(LastOf(B, w)) = w
  BY <1>1, LastOfMany
<1>6. Cardinality(LastOf(B, w)) <= w
  BY <1>1, <1>4, <1>5
<1>7. B = Before(S, from) /\ LastOf(B, w) = Leading(S, from, w)
  BY DEF B, Leading
<1> QED BY <1>2, <1>3, <1>4, <1>5, <1>6, <1>7

\* After the first w of the candles given come exactly those of the window that have w
\* candles before them in the whole history.
LEMMA AfterWarmup ==
    ASSUME NEW S \in SUBSET Nat, IsFiniteSet(S), NEW from \in Nat, NEW last \in Nat,
           NEW w \in Nat
    PROVE  /\ AfterFirst(Given(S, from, last, w), w) = Warm(S, from, last, w)
           /\ IsFiniteSet(Given(S, from, last, w))
<1> DEFINE P == Leading(S, from, w)
           B == Before(S, from)
           T == Tested(S, from, last)
           C == Given(S, from, last, w)
<1>1. /\ P \subseteq B /\ IsFiniteSet(P) /\ Cardinality(P) \in Nat /\ Cardinality(P) <= w
      /\ Cardinality(B) <= w => P = B
      /\ Cardinality(B) >= w => Cardinality(P) = w
  BY PriorHours
<1>2. B \subseteq S /\ IsFiniteSet(B) /\ Cardinality(B) \in Nat /\ \A k \in B : k < from
  BY BeforeIsFinite DEF Before
<1>3. T \subseteq S /\ \A k \in T : k >= from
  BY DEF Tested
<1>4. C = P \cup T
  BY DEF Given
<1>a. \A k \in S : k \in Nat
  OBVIOUS
<1>b. \A k \in T : k \in S /\ k \in Nat
  BY <1>3, <1>a
<1>c. \A k \in S : k < from => k \in B
  BY DEF Before
<1>d. \A k \in S, h \in T : k < h /\ ~ k < from => k \in T
  BY <1>a DEF Tested
<1> HIDE DEF P, B, T, C
<1>5. C \subseteq S /\ IsFiniteSet(C)
  <2>1. C \subseteq S
    BY <1>1, <1>2, <1>3, <1>4
  <2> QED BY <2>1, PartsAreFinite
<1>6. ASSUME NEW h \in P
      PROVE  ~ Cardinality(Before(C, h)) >= w
  <2>1. h \in B /\ h < from /\ h \in Nat
    BY <1>1, <1>2, <1>a
  <2>2. \A k \in T : ~ k < h
    BY <2>1, <1>3, <1>b
  <2>3. Before(C, h) = Before(P, h)
    BY <1>4, <2>2 DEF Before
  <2>4. P \subseteq Nat
    BY <1>1, <1>2, <1>a
  <2>5. Cardinality(Before(P, h)) \in Nat /\ Cardinality(Before(P, h)) < Cardinality(P)
    BY <1>1, <2>4, FewerAround
  <2> QED BY <1>1, <2>3, <2>5
<1>7. ASSUME NEW h \in T
      PROVE  Cardinality(Before(C, h)) >= w <=> Cardinality(Before(S, h)) >= w
  <2>1. h \in Nat /\ h >= from
    BY <1>3, <1>b
  <2>2. \A k \in B : k < h
    BY <2>1, <1>2, <1>a
  <2>3. Before(S, h) = B \cup Before(T, h)
    BY <1>2, <1>3, <1>c, <1>d, <2>2 DEF Before
  <2>4. Before(C, h) = P \cup Before(T, h)
    BY <1>1, <1>4, <2>2 DEF Before
  <2>5. CASE Cardinality(B) <= w
    BY <1>1, <2>3, <2>4, <2>5
  <2>6. CASE Cardinality(B) > w
    <3>1. /\ IsFiniteSet(Before(S, h)) /\ Cardinality(Before(S, h)) \in Nat
          /\ IsFiniteSet(Before(C, h)) /\ Cardinality(Before(C, h)) \in Nat
      <4>1. C \subseteq Nat
        BY <1>5, <1>a
      <4> QED BY <4>1, <1>5, BeforeIsFinite
    <3>2. Cardinality(B) <= Cardinality(Before(S, h))
      BY <2>3, <3>1, PartsAreFinite
    <3>3. Cardinality(P) <= Cardinality(Before(C, h))
      BY <2>4, <3>1, PartsAreFinite
    <3> QED BY <1>1, <1>2, <2>6, <3>1, <3>2, <3>3
  <2> QED BY <1>2, <2>5, <2>6
<1>8. AfterFirst(C, w) = {h \in T : Cardinality(Before(S, h)) >= w}
  <2>1. AfterFirst(C, w) = {h \in C : Cardinality(Before(C, h)) >= w}
    BY AfterFirstBelow
  <2>2. ASSUME NEW h PROVE h \in AfterFirst(C, w) <=> h \in T /\ Cardinality(Before(S, h)) >= w
    BY <1>4, <1>6, <1>7, <2>1
  <2> QED BY <2>2
<1>9. C = Given(S, from, last, w) /\ T = Tested(S, from, last)
  BY DEF C, T
<1> QED BY <1>5, <1>8, <1>9 DEF Warm

LEMMA IntervalEnds ==
    ASSUME NEW a \in Nat, NEW b \in Nat, a <= b
    PROVE  Min(a..b) = a /\ Max(a..b) = b
<1>1. a..b \subseteq Nat /\ a..b \subseteq 0..b /\ a \in a..b /\ b \in a..b
  OBVIOUS
<1>2. Min(a..b) \in a..b /\ \A y \in a..b : Min(a..b) <= y
  BY <1>1, MinIsLeast
<1>3. Max(a..b) \in a..b /\ \A y \in a..b : y <= Max(a..b)
  BY <1>1, MaxIsGreatest
<1> QED BY <1>1, <1>2, <1>3

\* What each engine is given.
ResearchCut(S, from, last, w) ==
    IF Tested(S, from, last) = {} \/ Warm(S, from, last, w) = {} THEN NoSegment
    ELSE Segment(Given(S, from, last, w), Warm(S, from, last, w))

LEMMA ResearchGives ==
    ASSUME NEW S \in SUBSET Nat, IsFiniteSet(S), NEW from \in Nat, NEW last \in Nat,
           NEW w \in Nat
    PROVE  ResearchSegment(S, from..last, w) = ResearchCut(S, from, last, w)
<1> DEFINE T == Tested(S, from, last)
<1>1. T \subseteq Nat /\ T \subseteq S /\ \A k \in T : k >= from /\ k <= last
  BY DEF Tested
<1>2. T = S \cap (from..last)
  BY DEF Tested
<1>3. T # {} => Before(S, Min(T)) = Before(S, from)
  <2>1. SUFFICES ASSUME T # {} PROVE Before(S, Min(T)) = Before(S, from)
    OBVIOUS
  <2> HIDE DEF T
  <2>2. Min(T) \in T /\ \A y \in T : Min(T) <= y
    BY <1>1, <2>1, MinIsLeast
  <2>3. ASSUME NEW k \in S PROVE k < Min(T) <=> k < from
    <3>1. k \in Nat /\ Min(T) \in Nat /\ Min(T) >= from /\ Min(T) <= last
      BY <1>1, <2>2
    <3>2. ~ k < from /\ k < Min(T) => k \in T
      BY <1>2, <3>1
    <3> QED BY <2>2, <3>1, <3>2
  <2> QED BY <2>3 DEF Before
<1>4. AfterFirst(Given(S, from, last, w), w) = Warm(S, from, last, w)
  BY AfterWarmup
<1>5. Given(S, from, last, w) = LastOf(Before(S, from), w) \cup T
  BY DEF Given, Leading
<1> HIDE DEF T
<1>6. CASE T = {}
  BY <1>2, <1>6 DEF ResearchSegment, ResearchCut, T
<1>7. CASE T # {}
  <2>1. Before(S, Min(S \cap (from..last))) = Before(S, from)
    BY <1>2, <1>3, <1>7
  <2> QED BY <1>2, <1>4, <1>5, <1>7, <2>1 DEF ResearchSegment, ResearchCut, T
<1> QED BY <1>6, <1>7

SpotCut(S, from, last, w) ==
    IF Tested(S, from, last) = {} \/ Cardinality(Given(S, from, last, w)) <= w
      THEN NoSegment ELSE Segment(Given(S, from, last, w), Warm(S, from, last, w))

LEMMA SpotGives ==
    ASSUME NEW S \in SUBSET Nat, IsFiniteSet(S), NEW from \in Nat, NEW last \in Nat,
           from <= last, NEW w \in Nat
    PROVE  SpotSegment(S, from..last, w) = SpotCut(S, from, last, w)
<1>1. Min(from..last) = from
  BY IntervalEnds
<1>2. AfterFirst(Given(S, from, last, w), w) = Warm(S, from, last, w)
  BY AfterWarmup
<1>3. Given(S, from, last, w) = LastOf(Before(S, from), w) \cup (S \cap (from..last))
      /\ Tested(S, from, last) = S \cap (from..last)
  BY DEF Given, Leading, Tested
<1>4. Warm(S, from, last, w) \cap (S \cap (from..last)) = Warm(S, from, last, w)
  BY DEF Warm, Tested
<1> QED BY <1>1, <1>2, <1>3, <1>4 DEF SpotSegment, SpotCut

Data(S, marks) == [candles |-> S, marks |-> marks]

FuturesGiven(S, marks, from, last, w) ==
    [candles |-> Given(S, from, last, w), evaluated |-> Warm(S, from, last, w),
     marks |-> marks \cap Given(S, from, last, w)]

FuturesCut(S, marks, from, last, w) ==
    IF Tested(S, from, last) = {} \/ Cardinality(Given(S, from, last, w)) <= w
      THEN NoSegment ELSE FuturesGiven(S, marks, from, last, w)

LEMMA FuturesGives ==
    ASSUME NEW S \in SUBSET Nat, IsFiniteSet(S), NEW from \in Nat, NEW last \in Nat,
           from <= last, NEW w \in Nat, NEW marks \in SUBSET Nat
    PROVE  FuturesSegment(Data(S, marks), from..last, w) = FuturesCut(S, marks, from, last, w)
<1>1. Min(from..last) = from
  BY IntervalEnds
<1>2. AfterFirst(Given(S, from, last, w), w) = Warm(S, from, last, w)
  BY AfterWarmup
<1>3. Given(S, from, last, w) = LastOf(Before(S, from), w) \cup (S \cap (from..last))
      /\ Tested(S, from, last) = S \cap (from..last)
  BY DEF Given, Leading, Tested
<1> QED BY <1>1, <1>2, <1>3 DEF FuturesSegment, FuturesGiven, FuturesCut, Data

SliceGiven(S, marks, from, last, w) ==
    [candles |-> Given(S, from, last, w), evaluated |-> Warm(S, from, last, w),
     marks |-> {m \in marks : /\ Min(Given(S, from, last, w)) - 1 <= m
                              /\ m <= Max(Given(S, from, last, w))}]

SliceCut(S, marks, from, last, w) ==
    IF \/ Cardinality(Leading(S, from, w)) < w /\ from > Min(S)
       \/ Cardinality(Given(S, from, last, w)) <= w
      THEN NoSegment ELSE SliceGiven(S, marks, from, last, w)

LEMMA SliceGives ==
    ASSUME NEW S \in SUBSET Nat, IsFiniteSet(S), NEW from \in Nat, NEW last \in Nat,
           from <= last, NEW w \in Nat, NEW marks \in SUBSET Nat
    PROVE  SliceDataset(Data(S, marks), from..last, w) = SliceCut(S, marks, from, last, w)
<1>1. Min(from..last) = from
  BY IntervalEnds
<1>2. AfterFirst(Given(S, from, last, w), w) = Warm(S, from, last, w)
  BY AfterWarmup
<1>3. Given(S, from, last, w) = Leading(S, from, w) \cup (S \cap (from..last))
      /\ Leading(S, from, w) = LastOf(Before(S, from), w)
  BY DEF Given, Leading, Tested
<1> QED BY <1>1, <1>2, <1>3 DEF SliceDataset, SliceGiven, SliceCut, Data

\* A window is cut alike from the candles up to its end.
SameCut(past, S, from, last, w) ==
    /\ Tested(past, from, last) = Tested(S, from, last)
    /\ Leading(past, from, w) = Leading(S, from, w)
    /\ Given(past, from, last, w) = Given(S, from, last, w)
    /\ Warm(past, from, last, w) = Warm(S, from, last, w)
    /\ Given(S, from, last, w) \subseteq past

LEMMA NothingToCome ==
    ASSUME NEW S \in SUBSET Nat, 0 \notin S, NEW from \in Nat, NEW last \in Nat,
           from <= last, NEW w \in Nat,
           NEW past \in SUBSET Nat, past = S \cap 1..last
    PROVE  SameCut(past, S, from, last, w)
<1>1. ASSUME NEW h \in Nat, h <= last PROVE Before(past, h) = Before(S, h)
  <2>1. \A k \in S : k < h => k \in 1..last
    BY <1>1
  <2> QED BY <2>1 DEF Before
<1>2. Leading(past, from, w) = Leading(S, from, w)
  BY <1>1 DEF Leading
<1>3. /\ Tested(past, from, last) = Tested(S, from, last)
      /\ \A h \in Tested(S, from, last) : h \in Nat /\ h <= last /\ h \in past
  <2>1. \A h \in S : h \in from..last => h \in 1..last
    OBVIOUS
  <2> QED BY <2>1 DEF Tested
<1>4. Given(past, from, last, w) = Given(S, from, last, w)
  BY <1>2, <1>3 DEF Given
<1>5. Warm(past, from, last, w) = Warm(S, from, last, w)
  BY <1>1, <1>3 DEF Warm
<1>6. Given(S, from, last, w) \subseteq past
  <2>1. Leading(S, from, w) \subseteq Before(past, from)
    BY <1>1 DEF Leading, LastOf
  <2>2. Before(past, from) \subseteq past
    BY DEF Before
  <2> QED BY <1>3, <2>1, <2>2 DEF Given
<1> QED BY <1>2, <1>3, <1>4, <1>5, <1>6 DEF SameCut

\* A candle that is traded on was given with its whole warm-up.
LEMMA WarmIsGiven ==
    ASSUME NEW S \in SUBSET Nat, IsFiniteSet(S), NEW from \in Nat, NEW last \in Nat,
           NEW w \in Nat, NEW h \in Warm(S, from, last, w)
    PROVE  LastOf(Before(S, h), w) \subseteq Given(S, from, last, w)
<1>1. SUFFICES ASSUME NEW k \in LastOf(Before(S, h), w)
               PROVE  k \in Given(S, from, last, w)
  OBVIOUS
<1>2. h \in S /\ h \in from..last
  BY DEF Warm, Tested
<1>3. k \in S /\ k < h /\ Cardinality(Above(Before(S, h), k)) < w
  BY <1>1, LastOfAbove DEF Before
<1>4. k \in Nat /\ h \in Nat
  BY <1>2, <1>3
<1>5. CASE k >= from
  BY <1>2, <1>3, <1>4, <1>5 DEF Given, Tested
<1>6. CASE k < from
  <2>1. Above(Before(S, from), k) \subseteq Above(Before(S, h), k)
    <3>1. \A j \in S : j < from => j < h
      BY <1>2
    <3> QED BY <3>1 DEF Above, Before
  <2>2. IsFiniteSet(Above(Before(S, h), k))
    <3>1. Above(Before(S, h), k) \subseteq S
      BY DEF Above, Before
    <3> QED BY <3>1, PartsAreFinite
  <2>3. /\ Cardinality(Above(Before(S, from), k)) \in Nat
        /\ Cardinality(Above(Before(S, h), k)) \in Nat
        /\ Cardinality(Above(Before(S, from), k)) <= Cardinality(Above(Before(S, h), k))
    BY <2>1, <2>2, PartsAreFinite
  <2>4. Cardinality(Above(Before(S, from), k)) < w
    BY <1>3, <2>3
  <2>5. k \in Before(S, from)
    BY <1>3, <1>6 DEF Before
  <2>6. k \in LastOf(Before(S, from), w)
    BY <2>4, <2>5, LastOfAbove
  <2> QED BY <2>6 DEF Given, Leading
<1> QED BY <1>4, <1>5, <1>6

\* What SegmentsHold says of a segment.
Honest(segment, S, from, last, w) ==
    /\ segment.evaluated \in {{}, Warm(S, from, last, w)}
    /\ \A h \in segment.evaluated : LastOf(Before(S, h), w) \subseteq segment.candles

LEMMA SegmentIsHonest ==
    ASSUME NEW S \in SUBSET Nat, IsFiniteSet(S), NEW from \in Nat, NEW last \in Nat,
           NEW w \in Nat, NEW segment,
           \/ segment = NoSegment
           \/ /\ segment.evaluated = Warm(S, from, last, w)
              /\ segment.candles = Given(S, from, last, w)
    PROVE  Honest(segment, S, from, last, w)
<1>1. CASE segment = NoSegment
  BY <1>1 DEF Honest, NoSegment, Segment
<1>2. CASE /\ segment.evaluated = Warm(S, from, last, w)
           /\ segment.candles = Given(S, from, last, w)
  BY <1>2, WarmIsGiven DEF Honest
<1> QED BY <1>1, <1>2

\* The four ways to cut a window out of the candles C.
Cuts(C, test, w) ==
    [research |-> ResearchSegment(C, test, w),
     spot     |-> SpotSegment(C, test, w),
     futures  |-> FuturesSegment(Data(C, C), test, w),
     slice    |-> SliceDataset(Data(C, C), test, w)]

LEMMA CutsAreHonest ==
    ASSUME NEW S \in SUBSET Nat, IsFiniteSet(S), NEW from \in Nat, NEW last \in Nat,
           from <= last, NEW w \in Nat
    PROVE  /\ Honest(ResearchSegment(S, from..last, w), S, from, last, w)
           /\ Honest(SpotSegment(S, from..last, w), S, from, last, w)
           /\ \A marks \in SUBSET Nat :
                /\ Honest(FuturesSegment(Data(S, marks), from..last, w),
                          S, from, last, w)
                /\ Honest(SliceDataset(Data(S, marks), from..last, w),
                          S, from, last, w)
<1> DEFINE G == Given(S, from, last, w)
           W == Warm(S, from, last, w)
<1>1. Honest(ResearchSegment(S, from..last, w), S, from, last, w)
  <2>1. ResearchSegment(S, from..last, w) \in {NoSegment, Segment(G, W)}
    BY ResearchGives DEF ResearchCut
  <2>2. Segment(G, W).evaluated = W /\ Segment(G, W).candles = G
    BY DEF Segment
  <2> QED BY <2>1, <2>2, SegmentIsHonest
<1>2. Honest(SpotSegment(S, from..last, w), S, from, last, w)
  <2>1. SpotSegment(S, from..last, w) \in {NoSegment, Segment(G, W)}
    BY SpotGives DEF SpotCut
  <2>2. Segment(G, W).evaluated = W /\ Segment(G, W).candles = G
    BY DEF Segment
  <2> QED BY <2>1, <2>2, SegmentIsHonest
<1>3. ASSUME NEW marks \in SUBSET Nat
      PROVE  Honest(FuturesSegment(Data(S, marks), from..last, w),
                    S, from, last, w)
  <2>1. FuturesSegment(Data(S, marks), from..last, w)
          \in {NoSegment, FuturesGiven(S, marks, from, last, w)}
    <3>1. FuturesSegment(Data(S, marks), from..last, w) = FuturesCut(S, marks, from, last, w)
      BY FuturesGives
    <3> QED BY <3>1 DEF FuturesCut
  <2>2. /\ FuturesGiven(S, marks, from, last, w).evaluated = W
        /\ FuturesGiven(S, marks, from, last, w).candles = G
    BY DEF FuturesGiven
  <2> QED BY <2>1, <2>2, SegmentIsHonest
<1>4. ASSUME NEW marks \in SUBSET Nat
      PROVE  Honest(SliceDataset(Data(S, marks), from..last, w),
                    S, from, last, w)
  <2>1. SliceDataset(Data(S, marks), from..last, w)
          \in {NoSegment, SliceGiven(S, marks, from, last, w)}
    <3>1. SliceDataset(Data(S, marks), from..last, w) = SliceCut(S, marks, from, last, w)
      BY SliceGives
    <3> QED BY <3>1 DEF SliceCut
  <2>2. /\ SliceGiven(S, marks, from, last, w).evaluated = W
        /\ SliceGiven(S, marks, from, last, w).candles = G
    BY DEF SliceGiven
  <2> QED BY <2>1, <2>2, SegmentIsHonest
<1> QED BY <1>1, <1>2, <1>3, <1>4

LEMMA CutsLookBack ==
    ASSUME NEW S \in SUBSET Nat, 0 \notin S, IsFiniteSet(S), NEW from \in Nat, NEW last \in Nat,
           from <= last, NEW w \in Nat, NEW past \in SUBSET Nat, past = S \cap 1..last, past # {}
    PROVE  Cuts(past, from..last, w) = Cuts(S, from..last, w)
<1>1. /\ Tested(past, from, last) = Tested(S, from, last)
      /\ Leading(past, from, w) = Leading(S, from, w)
      /\ Given(past, from, last, w) = Given(S, from, last, w)
      /\ Warm(past, from, last, w) = Warm(S, from, last, w)
      /\ Given(S, from, last, w) \subseteq past
  <2>1. SameCut(past, S, from, last, w)
    BY NothingToCome
  <2> QED BY <2>1 DEF SameCut
<1>2. /\ S \subseteq Nat /\ past \subseteq Nat /\ past \subseteq S /\ IsFiniteSet(past)
      /\ past \in SUBSET Nat /\ S \in SUBSET Nat
      /\ \A k \in past : k <= last
  <2>1. past \subseteq S /\ S \subseteq Nat
    OBVIOUS
  <2>2. \A k \in past : k <= last
    OBVIOUS
  <2> QED BY <2>1, <2>2, PartsAreFinite
<1>3. ResearchSegment(past, from..last, w) = ResearchSegment(S, from..last, w)
  <2>1. ResearchSegment(past, from..last, w) = ResearchCut(past, from, last, w)
    BY <1>2, ResearchGives
  <2>2. ResearchSegment(S, from..last, w) = ResearchCut(S, from, last, w)
    BY <1>2, ResearchGives
  <2> QED BY <1>1, <2>1, <2>2 DEF ResearchCut
<1>4. SpotSegment(past, from..last, w) = SpotSegment(S, from..last, w)
  <2>1. SpotSegment(past, from..last, w) = SpotCut(past, from, last, w)
    BY <1>2, SpotGives
  <2>2. SpotSegment(S, from..last, w) = SpotCut(S, from, last, w)
    BY <1>2, SpotGives
  <2> QED BY <1>1, <2>1, <2>2 DEF SpotCut
<1>5. FuturesSegment(Data(past, past), from..last, w) = FuturesSegment(Data(S, S), from..last, w)
  <2>1. past \cap Given(S, from, last, w) = S \cap Given(S, from, last, w)
    BY <1>1, <1>2
  <2>2. FuturesGiven(past, past, from, last, w) = FuturesGiven(S, S, from, last, w)
    BY <1>1, <2>1 DEF FuturesGiven
  <2>3. FuturesCut(past, past, from, last, w) = FuturesCut(S, S, from, last, w)
    BY <1>1, <2>2 DEF FuturesCut
  <2>4. FuturesSegment(Data(past, past), from..last, w) = FuturesCut(past, past, from, last, w)
    BY <1>2, FuturesGives
  <2>5. FuturesSegment(Data(S, S), from..last, w) = FuturesCut(S, S, from, last, w)
    BY <1>2, FuturesGives
  <2> QED BY <2>3, <2>4, <2>5
<1>6. SliceDataset(Data(past, past), from..last, w) = SliceDataset(Data(S, S), from..last, w)
  <2> DEFINE G == Given(S, from, last, w)
  <2>1. Min(past) = Min(S)
    <3>1. /\ Min(past) \in past /\ \A y \in past : Min(past) <= y
          /\ Min(S) \in S /\ \A y \in S : Min(S) <= y
      <4>1. S # {}
        BY <1>2
      <4> QED BY <1>2, <4>1, MinIsLeast
    <3>2. Min(S) \in Nat /\ Min(S) # 0 /\ Min(past) \in Nat /\ Min(past) \in S
      BY <1>2, <3>1
    <3>3. Min(S) <= Min(past) /\ Min(past) <= last
      BY <1>2, <3>1, <3>2
    <3>4. Min(S) \in past
      BY <3>1, <3>2, <3>3
    <3> QED BY <3>1, <3>2, <3>3, <3>4
  <2>2. G # {} =>
          {m \in past : Min(G) - 1 <= m /\ m <= Max(G)} = {m \in S : Min(G) - 1 <= m /\ m <= Max(G)}
    <3>1. SUFFICES ASSUME G # {}, NEW m \in S, m <= Max(G) PROVE m \in past
      BY <1>2
    <3>2. G \subseteq 0..last
      BY <1>1, <1>2
    <3>3. Max(G) \in G
      <4> HIDE DEF G
      <4> QED BY <3>1, <3>2, MaxIsGreatest
    <3>4. Max(G) \in Nat /\ Max(G) <= last
      BY <3>2, <3>3
    <3> QED BY <3>1, <3>4
  <2>3. Cardinality(G) <= w \/ SliceGiven(past, past, from, last, w) = SliceGiven(S, S, from, last, w)
    <3>1. Cardinality({}) = 0
      BY FS_EmptySet
    <3>2. G # {} => SliceGiven(past, past, from, last, w) = SliceGiven(S, S, from, last, w)
      BY <1>1, <2>2 DEF SliceGiven
    <3> QED BY <3>1, <3>2
  <2>4. SliceCut(past, past, from, last, w) = SliceCut(S, S, from, last, w)
    BY <1>1, <2>1, <2>3 DEF SliceCut
  <2>5. SliceDataset(Data(past, past), from..last, w) = SliceCut(past, past, from, last, w)
    BY <1>2, SliceGives
  <2>6. SliceDataset(Data(S, S), from..last, w) = SliceCut(S, S, from, last, w)
    BY <1>2, SliceGives
  <2> QED BY <2>4, <2>5, <2>6
<1> QED BY <1>3, <1>4, <1>5, <1>6 DEF Cuts

\* Whatever candles are missing, each engine trades only on candles of its window that
\* have the whole warm-up before them, is given that warm-up, loses no such candle
\* unless it runs on nothing at all, and looks at nothing after the window.
THEOREM SegmentsAlwaysHold ==
    ASSUME NEW S \in SUBSET Nat, 0 \notin S, IsFiniteSet(S), NEW from \in Nat, from # 0,
           NEW length \in Nat, length # 0, NEW warmup \in Nat
    PROVE  SegmentsHold(S, from, length, warmup)
<1> DEFINE last == from + length - 1
           test == Span(from, length)
           past == S \cap 1..Max(test)
           Made == Cuts(S, test, warmup)
<1>1. last \in Nat /\ from <= last /\ from \in Nat
  OBVIOUS
<1>2. test = from..last
  BY DEF Span
<1>3. Max(test) = last /\ past = S \cap 1..last
  BY <1>1, <1>2, IntervalEnds
<1>4. S \subseteq Nat /\ S \in SUBSET Nat
  OBVIOUS
<1>5. {h \in S \cap test : Cardinality(Before(S, h)) >= warmup} = Warm(S, from, last, warmup)
  BY <1>2 DEF Warm, Tested
<1> HIDE DEF last, test, past
<1>6. /\ Honest(Made.research, S, from, last, warmup)
      /\ Honest(Made.spot, S, from, last, warmup)
      /\ Honest(Made.futures, S, from, last, warmup)
      /\ Honest(Made.slice, S, from, last, warmup)
  <2>1. /\ Honest(ResearchSegment(S, from..last, warmup), S, from, last, warmup)
        /\ Honest(SpotSegment(S, from..last, warmup), S, from, last, warmup)
        /\ Honest(FuturesSegment(Data(S, S), from..last, warmup), S, from, last, warmup)
        /\ Honest(SliceDataset(Data(S, S), from..last, warmup), S, from, last, warmup)
    BY <1>1, <1>4, CutsAreHonest
  <2> QED BY <1>2, <2>1 DEF Cuts
<1>7. past # {} => Cuts(past, test, warmup) = Made
  BY <1>1, <1>2, <1>3, CutsLookBack
<1>8. DOMAIN Made = {"research", "spot", "futures", "slice"}
  BY DEF Cuts
<1>9. ASSUME NEW kind \in DOMAIN Made
      PROVE  /\ Made[kind].evaluated \in {{}, Warm(S, from, last, warmup)}
             /\ past # {} => Made[kind] = Cuts(past, test, warmup)[kind]
             /\ \A h \in Made[kind].evaluated :
                   LastOf(Before(S, h), warmup) \subseteq Made[kind].candles
  <2>1. Honest(Made[kind], S, from, last, warmup)
    BY <1>6, <1>8
  <2> QED BY <1>7, <2>1 DEF Honest
<1> QED BY <1>5, <1>9 DEF SegmentsHold, Cuts, Data, past, test

\* The mark of an hour looks only at that hour and the one before.
MarkAt(marks, h) == IF h \in marks THEN h ELSE IF h - 1 \in marks THEN h - 1 ELSE Missing

LEMMA MarkOfHour ==
    ASSUME NEW opens \in SUBSET Nat, NEW marks \in SUBSET Nat, NEW h \in opens
    PROVE  Alignment(opens, marks)[h] = MarkAt(marks, h)
<1> DEFINE known == {m \in marks : m <= h /\ h - m <= 1}
<1>1. Alignment(opens, marks)[h] = IF known = {} THEN Missing ELSE Max(known)
  BY DEF Alignment
<1>2. h \in Nat /\ \A m \in marks : m \in Nat
  OBVIOUS
<1>3. ASSUME NEW m \in known PROVE m \in Nat /\ m \in marks /\ (m = h \/ m = h - 1) /\ m <= h
  BY <1>2
<1>4. /\ h \in marks => h \in known
      /\ h - 1 \in marks => h - 1 \in known
  BY <1>2
<1>5. known \in SUBSET (0..h)
  <2>1. \A m \in known : m \in 0..h
    BY <1>2, <1>3
  <2> HIDE DEF known
  <2> QED BY <2>1
<1> HIDE DEF known
<1>6. known # {} => Max(known) \in known /\ \A y \in known : y <= Max(known)
  BY <1>2, <1>5, MaxIsGreatest
<1>7. CASE known = {}
  BY <1>1, <1>4, <1>7 DEF MarkAt
<1>8. CASE known # {} /\ h \in marks
  <2>1. h <= Max(known) /\ Max(known) <= h /\ Max(known) \in Nat
    BY <1>3, <1>4, <1>6, <1>8
  <2>2. Max(known) = h
    BY <1>2, <2>1
  <2> QED BY <1>1, <1>8, <2>2 DEF MarkAt
<1>9. CASE known # {} /\ h \notin marks
  <2>1. Max(known) \in known
    BY <1>6, <1>9
  <2>2. Max(known) = h - 1 /\ h - 1 \in marks
    BY <1>3, <1>9, <2>1
  <2> QED BY <1>1, <1>9, <2>2 DEF MarkAt
<1> QED BY <1>7, <1>8, <1>9

\* Each candle of a segment is priced with the mark it has in the whole history, or, in
\* the folds of the research commands only, with none.
THEOREM MarksAlwaysHold ==
    ASSUME NEW S \in SUBSET Nat, IsFiniteSet(S), NEW marks \in SUBSET Nat,
           NEW from \in Nat, NEW length \in Nat, length # 0, NEW warmup \in Nat
    PROVE  MarksHold(S, marks, from, length, warmup)
<1> DEFINE last == from + length - 1
           test == Span(from, length)
           G == Given(S, from, last, warmup)
           slice == SliceDataset(Data(S, marks), test, warmup)
           fold == FuturesSegment(Data(S, marks), test, warmup)
           whole == Alignment(S, marks)
<1>1. last \in Nat /\ from <= last
  OBVIOUS
<1>2. test = from..last
  BY DEF Span
<1> HIDE DEF last, test
<1>3. G \subseteq S /\ IsFiniteSet(G) /\ G \in SUBSET Nat
  <2>1. Leading(S, from, warmup) \subseteq S
    BY DEF Leading, LastOf, Before
  <2>2. Tested(S, from, last) \subseteq S
    BY DEF Tested
  <2>3. G \subseteq S
    BY <2>1, <2>2 DEF Given
  <2> HIDE DEF G
  <2> QED BY <2>3, PartsAreFinite
<1>4. slice \in {NoSegment, SliceGiven(S, marks, from, last, warmup)}
  BY <1>1, <1>2, SliceGives DEF SliceCut
<1>5. fold \in {NoSegment, FuturesGiven(S, marks, from, last, warmup)}
  BY <1>1, <1>2, FuturesGives DEF FuturesCut
<1> HIDE DEF slice, fold
<1>6. ASSUME slice # NoSegment, NEW h \in slice.candles
      PROVE  Alignment(slice.candles, slice.marks)[h] = whole[h]
  <2> DEFINE M == {m \in marks : Min(G) - 1 <= m /\ m <= Max(G)}
  <2>1. slice.candles = G /\ slice.marks = M
    BY <1>4, <1>6 DEF SliceGiven
  <2>2. M \in SUBSET Nat /\ \A m : m \in M <=> m \in marks /\ Min(G) - 1 <= m /\ m <= Max(G)
    OBVIOUS
  <2> HIDE DEF G, M
  <2>3. h \in G /\ h \in S /\ h \in Nat
    BY <1>3, <1>6, <2>1
  <2>4. Min(G) \in Nat /\ Min(G) <= h
    <3>1. Min(G) \in G /\ \A y \in G : Min(G) <= y
      BY <1>3, <2>3, MinIsLeast
    <3> QED BY <1>3, <2>3, <3>1
  <2>5. Max(G) \in Nat /\ h <= Max(G)
    BY <1>3, <2>3, MaxOfFinite
  <2>6. (h \in M <=> h \in marks) /\ (h - 1 \in M <=> h - 1 \in marks)
    <3>1. Min(G) - 1 <= h /\ Min(G) - 1 <= h - 1 /\ h - 1 <= Max(G)
      BY <2>3, <2>4, <2>5
    <3> QED BY <2>2, <2>5, <3>1
  <2>7. MarkAt(M, h) = MarkAt(marks, h)
    BY <2>6 DEF MarkAt
  <2>8. Alignment(G, M)[h] = MarkAt(M, h)
    BY <1>3, <2>2, <2>3, MarkOfHour
  <2>9. whole[h] = MarkAt(marks, h)
    BY <2>3, MarkOfHour
  <2> QED BY <2>1, <2>7, <2>8, <2>9
<1>7. ASSUME fold # NoSegment, NEW h \in fold.candles
      PROVE  Alignment(fold.candles, fold.marks)[h] \in {whole[h], Missing}
  <2> DEFINE M == marks \cap G
  <2>1. fold.candles = G /\ fold.marks = M
    BY <1>5, <1>7 DEF FuturesGiven
  <2>2. M \in SUBSET Nat /\ \A m : m \in M <=> m \in marks /\ m \in G
    OBVIOUS
  <2> HIDE DEF G, M
  <2>3. h \in G /\ h \in S /\ h \in Nat
    BY <1>3, <1>7, <2>1
  <2>4. MarkAt(M, h) \in {MarkAt(marks, h), Missing}
    BY <2>2, <2>3 DEF MarkAt
  <2>5. Alignment(G, M)[h] = MarkAt(M, h)
    BY <1>3, <2>2, <2>3, MarkOfHour
  <2>6. whole[h] = MarkAt(marks, h)
    BY <2>3, MarkOfHour
  <2> QED BY <2>1, <2>4, <2>5, <2>6
<1> QED BY <1>6, <1>7 DEF MarksHold, Data, slice, fold, test

-----------------------------------------------------------------------------
(* Windows *)

\* A window that trains on nothing of its test or after it, and tests from..to at most.
Forward(w, from, to) ==
    /\ \A i \in w.train, j \in w.test : i < j
    /\ w.test # {} /\ w.test \subseteq from..to

LEMMA SpanHours ==
    ASSUME NEW s \in Int, NEW n \in Nat
    PROVE  /\ \A i \in Span(s, n) : i \in Int /\ s <= i /\ i <= s + n - 1
           /\ n # 0 => s \in Span(s, n)
BY DEF Span

LEMMA StartHours ==
    ASSUME NEW first \in Nat, NEW past \in Nat, NEW length \in Nat, NEW step \in Nat,
           NEW s \in Starts(first, past, length, step)
    PROVE  s \in Nat /\ first <= s /\ s <= past - length /\ (s - first) % step = 0
BY DEF Starts

LEMMA TestSpan ==
    ASSUME NEW first \in Nat, NEW past \in Nat, NEW length \in Nat, length # 0, NEW step \in Nat,
           NEW s \in Starts(first, past, length, step)
    PROVE  /\ Span(s, length) # {} /\ Span(s, length) \subseteq first..(past - 1)
           /\ \A j \in Span(s, length) : s <= j
<1>1. s \in Nat /\ first <= s /\ s <= past - length
  BY StartHours
<1>2. /\ \A i \in Span(s, length) : i \in Int /\ s <= i /\ i <= s + length - 1
      /\ s \in Span(s, length)
  BY <1>1, SpanHours
<1>3. \A i \in Span(s, length) : i \in first..(past - 1)
  BY <1>1, <1>2
<1> QED BY <1>2, <1>3

LEMMA WindowParts ==
    ASSUME NEW train, NEW test
    PROVE  Window(train, test).train = train /\ Window(train, test).test = test
BY DEF Window

LEMMA RollingForward ==
    ASSUME NEW first \in Nat, NEW past \in Nat, NEW train \in Nat, NEW length \in Nat,
           length # 0, NEW step \in Nat,
           NEW w \in RollingFolds(first, past, train, length, step)
    PROVE  Forward(w, first, past - 1)
<1>1. PICK s \in Starts(first, past, length, step) :
        w = Window(Span(s - train, train), Span(s, length))
  BY DEF RollingFolds
<1>2. w.train = Span(s - train, train) /\ w.test = Span(s, length)
  BY <1>1, WindowParts
<1>3. s \in Nat
  BY StartHours
<1>4. /\ Span(s, length) # {} /\ Span(s, length) \subseteq first..(past - 1)
      /\ \A j \in Span(s, length) : s <= j
  BY TestSpan
<1>5. \A i \in Span(s - train, train) : i \in Int /\ i < s
  <2>1. s - train \in Int
    BY <1>3
  <2> QED BY <1>3, <2>1, SpanHours
<1>6. \A i \in Span(s - train, train), j \in Span(s, length) : i < j
  BY <1>3, <1>4, <1>5
<1> QED BY <1>2, <1>4, <1>6 DEF Forward

LEMMA DesignForward ==
    ASSUME NEW mode, NEW first \in Nat, NEW last \in Nat, NEW train \in Nat, NEW length \in Nat,
           length # 0, NEW step \in Nat,
           NEW w \in DesignPeriods(mode, first, last, train, length, step)
    PROVE  Forward(w, first + train, last)
<1>1. PICK s \in Starts(first + train, last + 1, length, step) :
        w = Window(IF mode = "EXPANDING" THEN first..(s - 1) ELSE Span(s - train, train),
                   Span(s, length))
  BY DEF DesignPeriods
<1>2. first + train \in Nat /\ last + 1 \in Nat /\ (last + 1) - 1 = last
  OBVIOUS
<1>3. w.test = Span(s, length)
      /\ w.train = IF mode = "EXPANDING" THEN first..(s - 1) ELSE Span(s - train, train)
  BY <1>1, WindowParts
<1>4. s \in Nat
  BY <1>2, StartHours
<1>5. /\ Span(s, length) # {} /\ Span(s, length) \subseteq (first + train)..last
      /\ \A j \in Span(s, length) : s <= j
  <2>1. Span(s, length) \subseteq (first + train)..((last + 1) - 1)
    BY <1>2, TestSpan
  <2> QED BY <1>2, <2>1, TestSpan
<1>6. \A i \in w.train : i \in Int /\ i < s
  <2>1. s - train \in Int
    BY <1>4
  <2>2. \A i \in Span(s - train, train) : i \in Int /\ i < s
    BY <1>4, <2>1, SpanHours
  <2>3. \A i \in first..(s - 1) : i \in Int /\ i < s
    BY <1>4
  <2> QED BY <1>3, <2>2, <2>3
<1>7. \A i \in w.train, j \in Span(s, length) : i < j
  BY <1>4, <1>5, <1>6
<1> QED BY <1>3, <1>5, <1>7 DEF Forward

\* A test that follows all of development.
LEMMA ValidationForward ==
    ASSUME NEW d \in Nat, NEW v \in Nat, NEW test, test # {}, test \subseteq (d + 1)..v
    PROVE  Forward(Window(1..d, test), d + 1, v)
<1>1. \A j \in test : j \in Int /\ j > d
  OBVIOUS
<1>2. \A i \in 1..d, j \in test : i < j
  BY <1>1
<1>3. Window(1..d, test).train = 1..d /\ Window(1..d, test).test = test
  BY WindowParts
<1> HIDE DEF Window
<1> QED BY <1>2, <1>3 DEF Forward

LEMMA StepDivides ==
    ASSUME NEW a \in Nat, NEW step \in Nat, step # 0, a % step = 0
    PROVE  (a + step) % step = 0
<1> DEFINE q == a \div step
           k == (a + step) \div step
           r == (a + step) % step
<1>1. q \in Int /\ a = step * q
  <2>1. a = step * q + (a % step)
    OBVIOUS
  <2>2. q \in Int /\ step * q \in Int
    OBVIOUS
  <2> QED BY <2>1, <2>2
<1>2. k \in Int /\ a + step = step * k + r /\ r \in Int /\ r >= 0 /\ r < step
  <2>1. a + step \in Nat
    OBVIOUS
  <2> DEFINE b == a + step
  <2> HIDE DEF b
  <2>2. b \in Nat
    BY <2>1 DEF b
  <2>3. b \div step \in Int /\ b = step * (b \div step) + (b % step)
    BY <2>2
  <2>4. b % step \in Int /\ b % step >= 0 /\ b % step < step
    BY <2>2
  <2> QED BY <2>3, <2>4 DEF b
<1> HIDE DEF q, k, r
<1>3. step * q \in Int /\ step * k \in Int
  BY <1>1, <1>2
<1> DEFINE j == k - q - 1
<1>4. j \in Int /\ step * j = step * k - step * q - step
  BY <1>1, <1>2
<1> HIDE DEF j
<1>5. step * j \in Int
  BY <1>4
<1>6. /\ j >= 1 => step * j >= step
      /\ j <= -1 => step * j <= -step
      /\ j = 0 => step * j = 0
  BY <1>4
<1> DEFINE p == step * j
<1> HIDE DEF p
<1>7. p \in Int /\ p + r = 0
  <2>1. p = step * k - step * q - step
    BY <1>4 DEF p
  <2> QED BY <1>1, <1>2, <1>3, <2>1
<1>8. (j >= 1 => p >= step) /\ (j <= -1 => p <= -step) /\ (j = 0 => p = 0)
  BY <1>6 DEF p
<1>9. r = 0
  BY <1>2, <1>4, <1>7, <1>8
<1> QED BY <1>9 DEF r

\* Behind the last of the windows there is no room for another.
LEMMA NoRoomLeft ==
    ASSUME NEW first \in Nat, NEW past \in Nat, NEW train \in Nat, NEW length \in Nat,
           length # 0, NEW step \in Nat, step # 0,
           RollingFolds(first, past, train, length, step) # {}
    PROVE  \E last \in RollingFolds(first, past, train, length, step) :
             Min(last.test) + step + length > past
<1> DEFINE T == Starts(first, past, length, step)
<1>1. T # {}
  BY DEF RollingFolds
<1>2. T \in SUBSET (0..past)
  <2>1. \A s \in T : s \in 0..past
    BY StartHours
  <2> HIDE DEF T
  <2> QED BY <2>1
<1>3. Max(T) \in T /\ \A y \in T : y <= Max(T)
  <2> HIDE DEF T
  <2> QED BY <1>1, <1>2, MaxIsGreatest
<1> DEFINE m == Max(T)
<1> HIDE DEF m
<1>4. m \in T /\ \A y \in T : y <= m
  BY <1>3 DEF m
<1>5. m \in Nat /\ first <= m /\ (m - first) % step = 0
  BY <1>4, StartHours
<1>6. m + step > past - length
  <2>1. SUFFICES ASSUME m + step <= past - length PROVE FALSE
    BY <1>5
  <2>2. m - first \in Nat /\ (m + step) - first = (m - first) + step
    BY <1>5
  <2>3. ((m + step) - first) % step = 0
    BY <1>5, <2>2, StepDivides
  <2>4. m + step \in first..(past - length)
    BY <1>5, <2>1
  <2>5. m + step \in T
    BY <2>3, <2>4 DEF Starts
  <2>6. m + step <= m
    BY <1>4, <2>5
  <2> QED BY <1>5, <2>6
<1> DEFINE w == Window(Span(m - train, train), Span(m, length))
<1>7. w \in RollingFolds(first, past, train, length, step)
  BY <1>4 DEF RollingFolds
<1>8. Min(w.test) = m
  <2>1. w.test = m..(m + length - 1)
    BY WindowParts DEF Span
  <2>2. m + length - 1 \in Nat /\ m <= m + length - 1
    BY <1>5
  <2> QED BY <1>5, <2>1, <2>2, IntervalEnds
<1>9. Min(w.test) + step + length > past
  BY <1>5, <1>6, <1>8
<1> HIDE DEF w
<1> QED BY <1>7, <1>9

LEMMA RollingPlans ==
    ASSUME NEW d \in Nat, NEW v \in Nat, NEW train \in Nat, NEW length \in Nat, NEW step \in Nat
    PROVE  /\ PullbackWindows("DEVELOPMENT", <<1, d>>, <<d + 1, v>>, train, length, step)
                = RollingFolds(1 + train, d + 1, train, length, step)
           /\ TrendDevelopmentWindows(<<1, d>>, train, length)
                = RollingFolds(1 + train, d + 1, train, length, length)
           /\ SpotFolds("development", <<1, d>>, <<d + 1, v>>, <<v + 1, Horizon + 1>>, train, length)
                = RollingFolds(1 + train, d + 1, train, length, length)
           /\ SpotFolds("validation", <<1, d>>, <<d + 1, v>>, <<v + 1, Horizon + 1>>, train, length)
                = RollingFolds(d + 1, v + 1, train, length, length)
           /\ RealWalkForward(<<1, d>>, 1 + train, train, length, step)
                \subseteq RollingFolds(1 + train, d + 1, train, length, step)
           /\ RealWalkForward(<<d + 1, v>>, d + 1, train, length, step)
                \subseteq RollingFolds(d + 1, v + 1, train, length, step)
<1>1. PullbackWindows("DEVELOPMENT", <<1, d>>, <<d + 1, v>>, train, length, step)
        = RollingFolds(1 + train, d + 1, train, length, step)
  BY DEF PullbackWindows
<1>2. TrendDevelopmentWindows(<<1, d>>, train, length)
        = RollingFolds(1 + train, d + 1, train, length, length)
  BY DEF TrendDevelopmentWindows
<1>3. SpotFolds("development", <<1, d>>, <<d + 1, v>>, <<v + 1, Horizon + 1>>, train, length)
        = RollingFolds(1 + train, d + 1, train, length, length)
  BY DEF SpotFolds
<1>4. SpotFolds("validation", <<1, d>>, <<d + 1, v>>, <<v + 1, Horizon + 1>>, train, length)
        = RollingFolds(d + 1, v + 1, train, length, length)
  BY DEF SpotFolds
<1>5. RealWalkForward(<<1, d>>, 1 + train, train, length, step)
        \subseteq RollingFolds(1 + train, d + 1, train, length, step)
  BY DEF RealWalkForward
<1>6. RealWalkForward(<<d + 1, v>>, d + 1, train, length, step)
        \subseteq RollingFolds(d + 1, v + 1, train, length, step)
  BY DEF RealWalkForward
<1> QED BY <1>1, <1>2, <1>3, <1>4, <1>5, <1>6

LEMMA DevelopmentForward ==
    ASSUME NEW d \in Nat, NEW v \in Nat, NEW train \in Nat, NEW length \in Nat, length # 0,
           NEW step \in Nat, NEW w \in DevelopmentPlans(d, v, train, length, step)
    PROVE  Forward(w, 1 + train, d)
<1>1. ASSUME NEW every \in Nat, w \in RollingFolds(1 + train, d + 1, train, length, every)
      PROVE  Forward(w, 1 + train, d)
  <2>1. 1 + train \in Nat /\ d + 1 \in Nat /\ (d + 1) - 1 = d
    OBVIOUS
  <2>2. Forward(w, 1 + train, (d + 1) - 1)
    BY <1>1, <2>1, RollingForward
  <2> QED BY <2>1, <2>2
<1>2. CASE w \in RollingFolds(1 + train, d + 1, train, length, step)
  BY <1>1, <1>2
<1>3. CASE w \in RollingFolds(1 + train, d + 1, train, length, length)
  BY <1>1, <1>3
<1>4. ASSUME NEW mode, w \in DesignPeriods(mode, 1, d, train, length, step)
      PROVE  Forward(w, 1 + train, d)
  BY <1>4, DesignForward
<1>5. w \in RollingFolds(1 + train, d + 1, train, length, step)
        \/ w \in RollingFolds(1 + train, d + 1, train, length, length)
        \/ \E mode \in {"ROLLING", "EXPANDING"} : w \in DesignPeriods(mode, 1, d, train, length, step)
  BY RollingPlans DEF DevelopmentPlans
<1> QED BY <1>2, <1>3, <1>4, <1>5

LEMMA ValidationPlansForward ==
    ASSUME NEW d \in Nat, NEW v \in Nat, NEW train \in Nat, NEW length \in Nat, length # 0,
           NEW step \in Nat, NEW w \in ValidationPlans(d, v, train, length, step)
    PROVE  Forward(w, d + 1, v)
<1>1. d + 1 \in Nat /\ v + 1 \in Nat /\ (v + 1) - 1 = v
  OBVIOUS
<1>2. ASSUME NEW every \in Nat, w \in RollingFolds(d + 1, v + 1, train, length, every)
      PROVE  Forward(w, d + 1, v)
  <2>1. Forward(w, d + 1, (v + 1) - 1)
    BY <1>1, <1>2, RollingForward
  <2> QED BY <1>1, <2>1
<1>3. ASSUME w \in PullbackWindows("VALIDATION", <<1, d>>, <<d + 1, v>>, train, length, step)
      PROVE  Forward(w, d + 1, v)
  <2>1. PICK s \in Starts(d + 1, v + 1, length, step) : w = Window(1..d, Span(s, length))
    BY <1>3 DEF PullbackWindows
  <2>2. Span(s, length) # {} /\ Span(s, length) \subseteq (d + 1)..((v + 1) - 1)
    BY <1>1, TestSpan
  <2>3. Span(s, length) \subseteq (d + 1)..v
    BY <1>1, <2>2
  <2> QED BY <2>1, <2>2, <2>3, ValidationForward
<1>4. ASSUME NEW cut \in (d + 1)..(v - 1),
             w \in TrendValidationWindows(<<1, d>>, <<d + 1, v>>, <<<<d + 1, cut>>, <<cut + 1, v>>>>)
      PROVE  Forward(w, d + 1, v)
  <2> DEFINE quarters == <<<<d + 1, cut>>, <<cut + 1, v>>>>
  <2>1. PICK i \in DOMAIN quarters : w = Window(1..d, quarters[i][1]..quarters[i][2])
    BY <1>4 DEF TrendValidationWindows
  <2>2. cut \in Int /\ d + 1 <= cut /\ cut + 1 <= v
    OBVIOUS
  <2>3. i = 1 \/ i = 2
    BY <2>1
  <2>4. quarters[i][1]..quarters[i][2] \in {(d + 1)..cut, (cut + 1)..v}
    BY <2>3
  <2>5. ASSUME NEW test \in {(d + 1)..cut, (cut + 1)..v}
        PROVE  test # {} /\ test \subseteq (d + 1)..v
    <3>1. (d + 1)..cut # {} /\ (cut + 1)..v # {}
      <4>1. d + 1 \in (d + 1)..cut /\ v \in (cut + 1)..v
        BY <2>2
      <4> QED BY <4>1
    <3>2. (d + 1)..cut \subseteq (d + 1)..v /\ (cut + 1)..v \subseteq (d + 1)..v
      BY <2>2
    <3> QED BY <3>1, <3>2
  <2> HIDE DEF quarters
  <2> QED BY <2>1, <2>4, <2>5, ValidationForward
<1>5. \/ w \in PullbackWindows("VALIDATION", <<1, d>>, <<d + 1, v>>, train, length, step)
      \/ \E cut \in (d + 1)..(v - 1) :
           w \in TrendValidationWindows(<<1, d>>, <<d + 1, v>>, <<<<d + 1, cut>>, <<cut + 1, v>>>>)
      \/ w \in RollingFolds(d + 1, v + 1, train, length, length)
      \/ w \in RollingFolds(d + 1, v + 1, train, length, step)
  <2>1. \/ w \in PullbackWindows("VALIDATION", <<1, d>>, <<d + 1, v>>, train, length, step)
        \/ w \in QuarterPlans(d, v)
        \/ w \in SpotFolds("validation", <<1, d>>, <<d + 1, v>>, <<v + 1, Horizon + 1>>, train, length)
        \/ w \in RealWalkForward(<<d + 1, v>>, d + 1, train, length, step)
    BY DEF ValidationPlans
  <2>2. w \in SpotFolds("validation", <<1, d>>, <<d + 1, v>>, <<v + 1, Horizon + 1>>, train, length)
          => w \in RollingFolds(d + 1, v + 1, train, length, length)
    BY DEF SpotFolds
  <2>3. w \in RealWalkForward(<<d + 1, v>>, d + 1, train, length, step)
          => w \in RollingFolds(d + 1, v + 1, train, length, step)
    BY DEF RealWalkForward
  <2>4. w \in QuarterPlans(d, v) => \E cut \in (d + 1)..(v - 1) :
          w \in TrendValidationWindows(<<1, d>>, <<d + 1, v>>, <<<<d + 1, cut>>, <<cut + 1, v>>>>)
    BY DEF QuarterPlans
  <2> QED BY <2>1, <2>2, <2>3, <2>4
<1> QED BY <1>2, <1>3, <1>4, <1>5

\* Whatever the periods and the lengths, no plan of any experiment tests on hours it
\* trained on or on hours before them, none tests outside its period, none reaches the
\* consumed test, and behind the last fold of an experiment there is no room for another.
THEOREM WindowsAlwaysHold ==
    ASSUME NEW d \in Nat, NEW v \in Nat, NEW train \in Nat, NEW length \in Nat, length # 0,
           NEW step \in Nat, step # 0
    PROVE  WindowsHold(d, v, train, length, step)
<1> DEFINE dev == DevelopmentPlans(d, v, train, length, step)
           val == ValidationPlans(d, v, train, length, step)
<1>1. \A w \in dev : Forward(w, 1 + train, d)
  BY DevelopmentForward
<1>2. \A w \in val : Forward(w, d + 1, v)
  BY ValidationPlansForward
<1> HIDE DEF dev, val
<1>3. \A w \in dev \cup val : \A i \in w.train, j \in w.test : i < j
  BY <1>1, <1>2 DEF Forward
<1>4. \A w \in dev : w.test \subseteq 1..d
  <2>1. (1 + train)..d \subseteq 1..d
    OBVIOUS
  <2> QED BY <1>1, <2>1 DEF Forward
<1>5. ASSUME NEW w \in val
      PROVE  /\ w.test \subseteq (d + 1)..v
             /\ ~OverlapsConsumed(<<v + 1, Horizon + 1>>, Min(w.test), Max(w.test))
  <2>1. w.test # {} /\ w.test \subseteq (d + 1)..v
    BY <1>2 DEF Forward
  <2>2. w.test \subseteq 0..v
    <3>1. (d + 1)..v \subseteq 0..v
      OBVIOUS
    <3> QED BY <2>1, <3>1
  <2>3. Max(w.test) \in w.test
    BY <2>1, <2>2, MaxIsGreatest
  <2>4. Max(w.test) \in Nat /\ Max(w.test) <= v
    BY <2>2, <2>3
  <2>5. ~ Max(w.test) >= v + 1
    BY <2>4
  <2> QED BY <2>1, <2>5 DEF OverlapsConsumed
<1> DEFINE pull == PullbackWindows("DEVELOPMENT", <<1, d>>, <<d + 1, v>>, train, length, step)
           spot == SpotFolds("validation", <<1, d>>, <<d + 1, v>>, <<v + 1, Horizon + 1>>,
                             train, length)
<1>6. ASSUME NEW w \in pull
      PROVE  w.test \subseteq 1..(d + 1) /\ \E last \in pull : Min(last.test) + step + length > d + 1
  <2>1. w \in dev
    BY DEF dev, DevelopmentPlans
  <2>2. 1..d \subseteq 1..(d + 1)
    OBVIOUS
  <2>3. pull = RollingFolds(1 + train, d + 1, train, length, step)
    BY DEF PullbackWindows
  <2> HIDE DEF pull
  <2>4. 1 + train \in Nat /\ d + 1 \in Nat
    OBVIOUS
  <2>5. RollingFolds(1 + train, d + 1, train, length, step) # {}
    BY <2>3
  <2>6. \E last \in RollingFolds(1 + train, d + 1, train, length, step) :
          Min(last.test) + step + length > d + 1
    BY <2>4, <2>5, NoRoomLeft
  <2> QED BY <1>4, <2>1, <2>2, <2>3, <2>6
<1>7. ASSUME NEW w \in spot
      PROVE  w.test \subseteq 1..(v + 1) /\ \E last \in spot : Min(last.test) + length + length > v + 1
  <2>1. w \in val
    BY DEF val, ValidationPlans
  <2>2. (d + 1)..v \subseteq 1..(v + 1)
    OBVIOUS
  <2>3. spot = RollingFolds(d + 1, v + 1, train, length, length)
    BY DEF SpotFolds
  <2> HIDE DEF spot
  <2>4. d + 1 \in Nat /\ v + 1 \in Nat
    OBVIOUS
  <2>5. RollingFolds(d + 1, v + 1, train, length, length) # {}
    BY <2>3
  <2>6. \E last \in RollingFolds(d + 1, v + 1, train, length, length) :
          Min(last.test) + length + length > v + 1
    BY <2>4, <2>5, NoRoomLeft
  <2> QED BY <1>5, <2>1, <2>2, <2>3, <2>6
<1> HIDE DEF pull, spot
<1>8. NoRoom(pull, d + 1, step, length) /\ NoRoom(spot, v + 1, length, length)
  BY <1>6, <1>7 DEF NoRoom
<1> QED BY <1>3, <1>4, <1>5, <1>8 DEF WindowsHold, dev, val, pull, spot

-----------------------------------------------------------------------------
(* Hours in order *)

LEMMA RanksGrow ==
    ASSUME NEW S \in SUBSET Nat, IsFiniteSet(S), NEW h \in S, NEW k \in S, h < k
    PROVE  Cardinality(Before(S, h)) < Cardinality(Before(S, k))
<1>1. h \in Nat /\ k \in Nat /\ \A j \in S : j \in Nat
  OBVIOUS
<1>2. Before(S, h) \subseteq Before(S, k) /\ h \in Before(S, k) /\ h \notin Before(S, h)
  <2>1. ~ h < h /\ \A j \in S : j < h => j < k
    BY <1>1
  <2> QED BY <2>1 DEF Before
<1>3. /\ IsFiniteSet(Before(S, k)) /\ Cardinality(Before(S, k)) \in Nat
      /\ Cardinality(Before(S, h)) \in Nat
  BY BeforeIsFinite
<1>4. /\ Cardinality(Before(S, h)) <= Cardinality(Before(S, k))
      /\ Cardinality(Before(S, h)) = Cardinality(Before(S, k)) => Before(S, h) = Before(S, k)
  BY <1>2, <1>3, PartsAreFinite, FS_Subset
<1> QED BY <1>2, <1>3, <1>4

\* Hours of the same rank are the same hour.
LEMMA RanksDiffer ==
    ASSUME NEW S \in SUBSET Nat, IsFiniteSet(S), NEW h \in S, NEW k \in S,
           Cardinality(Before(S, h)) = Cardinality(Before(S, k))
    PROVE  h = k
<1>1. h \in Nat /\ k \in Nat
  OBVIOUS
<1>2. ~ h < k
  <2>1. SUFFICES ASSUME h < k PROVE FALSE
    OBVIOUS
  <2>2. Cardinality(Before(S, h)) < Cardinality(Before(S, k))
    BY <2>1, RanksGrow
  <2> QED BY <2>2, BeforeIsFinite
<1>3. ~ k < h
  <2>1. SUFFICES ASSUME k < h PROVE FALSE
    OBVIOUS
  <2>2. Cardinality(Before(S, k)) < Cardinality(Before(S, h))
    BY <2>1, RanksGrow
  <2> QED BY <2>2, BeforeIsFinite
<1> QED BY <1>1, <1>2, <1>3

Rank(S) == [h \in S |-> Cardinality(Before(S, h))]

\* The ranks of the hours of a set are the numbers below its size.
LEMMA RanksCount ==
    ASSUME NEW S \in SUBSET Nat, IsFiniteSet(S)
    PROVE  Rank(S) \in Bijection(S, 0..(Cardinality(S) - 1))
<1> DEFINE T == 0..(Cardinality(S) - 1)
<1>1. Cardinality(S) \in Nat
  BY FS_CardinalityType
<1>2. IsFiniteSet(T) /\ Cardinality(T) = Cardinality(S)
  <2>1. 0 \in Int /\ Cardinality(S) - 1 \in Int
    BY <1>1
  <2>2. IsFiniteSet(T) /\ Cardinality(T) = IF 0 > Cardinality(S) - 1 THEN 0
                                           ELSE (Cardinality(S) - 1) - 0 + 1
    BY <2>1, FS_Interval
  <2> QED BY <1>1, <2>2
<1>3. \A h \in S : Cardinality(Before(S, h)) \in T
  <2>1. SUFFICES ASSUME NEW h \in S PROVE Cardinality(Before(S, h)) \in T
    OBVIOUS
  <2>2. Cardinality(Before(S, h)) \in Nat /\ Cardinality(Before(S, h)) < Cardinality(S)
    BY FewerAround
  <2> QED BY <1>1, <2>2
<1> HIDE DEF T
<1>4. Rank(S) \in [S -> T]
  BY <1>3 DEF Rank
<1>5. \A h, k \in S : Rank(S)[h] = Rank(S)[k] => h = k
  BY RanksDiffer DEF Rank
<1>6. Rank(S) \in Injection(S, T)
  BY <1>4, <1>5 DEF Injection, IsInjective
<1>7. Rank(S) \in Surjection(S, T)
  BY <1>2, <1>6, FS_Injection
<1>8. Rank(S) \in Bijection(S, T)
  BY <1>6, <1>7 DEF Bijection
<1> QED BY <1>8 DEF T

LEMMA NthHour ==
    ASSUME NEW S \in SUBSET Nat, IsFiniteSet(S), NEW n \in Nat, n < Cardinality(S)
    PROVE  Nth(S, n) \in S /\ Nth(S, n) \in Nat /\ Cardinality(Before(S, Nth(S, n))) = n
<1>1. Cardinality(S) \in Nat
  BY FS_CardinalityType
<1>2. n \in 0..(Cardinality(S) - 1)
  BY <1>1
<1>3. \E h \in S : Rank(S)[h] = n
  BY <1>2, RanksCount DEF Bijection, Surjection
<1>4. \E h \in S : Cardinality(Before(S, h)) = n
  BY <1>3 DEF Rank
<1>5. Nth(S, n) = CHOOSE h \in S : Cardinality(Before(S, h)) = n
  BY DEF Nth, Before
<1> QED BY <1>4, <1>5

LEMMA NthGrows ==
    ASSUME NEW S \in SUBSET Nat, IsFiniteSet(S), NEW m \in Nat, NEW n \in Nat,
           m < n, n < Cardinality(S)
    PROVE  Nth(S, m) < Nth(S, n)
<1>1. Cardinality(S) \in Nat
  BY FS_CardinalityType
<1>2. m < Cardinality(S)
  BY <1>1
<1>3. /\ Nth(S, m) \in S /\ Nth(S, m) \in Nat /\ Cardinality(Before(S, Nth(S, m))) = m
      /\ Nth(S, n) \in S /\ Nth(S, n) \in Nat /\ Cardinality(Before(S, Nth(S, n))) = n
  BY <1>2, NthHour
<1>4. Nth(S, m) # Nth(S, n)
  BY <1>3
<1>5. ~ Nth(S, n) < Nth(S, m)
  <2>1. SUFFICES ASSUME Nth(S, n) < Nth(S, m) PROVE FALSE
    OBVIOUS
  <2>2. Cardinality(Before(S, Nth(S, n))) < Cardinality(Before(S, Nth(S, m)))
    BY <1>3, <2>1, RanksGrow
  <2> QED BY <1>3, <2>2
<1> QED BY <1>3, <1>4, <1>5

LEMMA NthOfRank ==
    ASSUME NEW S \in SUBSET Nat, IsFiniteSet(S), NEW h \in S
    PROVE  Nth(S, Cardinality(Before(S, h))) = h
<1> DEFINE n == Cardinality(Before(S, h))
<1>1. n \in Nat /\ n < Cardinality(S)
  BY FewerAround
<1> HIDE DEF n
<1>2. Nth(S, n) \in S /\ Cardinality(Before(S, Nth(S, n))) = n
  BY <1>1, NthHour
<1>3. Cardinality(Before(S, h)) = n
  BY DEF n
<1>4. Nth(S, n) = h
  BY <1>2, <1>3, RanksDiffer
<1> QED BY <1>3, <1>4

\* After the first n hours come all the others.
LEMMA AfterFirstCount ==
    ASSUME NEW S \in SUBSET Nat, IsFiniteSet(S), NEW n \in Nat, n <= Cardinality(S)
    PROVE  Cardinality(AfterFirst(S, n)) = Cardinality(S) - n
<1> DEFINE A == AfterFirst(S, n)
           T == n..(Cardinality(S) - 1)
           f == [h \in A |-> Cardinality(Before(S, h))]
<1>1. Cardinality(S) \in Nat
  BY FS_CardinalityType
<1>2. A \subseteq S /\ \A h \in S : h \in A <=> Cardinality(Before(S, h)) >= n
  BY AfterFirstBelow
<1>3. IsFiniteSet(A)
  BY <1>2, PartsAreFinite
<1>4. Cardinality(T) = Cardinality(S) - n
  <2>1. n \in Int /\ Cardinality(S) - 1 \in Int
    BY <1>1
  <2>2. Cardinality(T) = IF n > Cardinality(S) - 1 THEN 0 ELSE (Cardinality(S) - 1) - n + 1
    BY <2>1, FS_Interval
  <2> QED BY <1>1, <2>2
<1>5. \A h \in S : Cardinality(Before(S, h)) \in Nat /\ Cardinality(Before(S, h)) < Cardinality(S)
  BY FewerAround
<1>6. \A h \in A : Cardinality(Before(S, h)) \in T
  <2>1. SUFFICES ASSUME NEW h \in A PROVE Cardinality(Before(S, h)) \in T
    OBVIOUS
  <2>2. /\ Cardinality(Before(S, h)) \in Nat /\ Cardinality(Before(S, h)) < Cardinality(S)
        /\ Cardinality(Before(S, h)) >= n
    BY <1>2, <1>5
  <2> QED BY <1>1, <2>2
<1>7. \A r \in T : \E h \in A : f[h] = r
  <2>1. SUFFICES ASSUME NEW r \in T PROVE \E h \in A : f[h] = r
    OBVIOUS
  <2>2. r \in Nat /\ r < Cardinality(S) /\ r >= n
    BY <1>1
  <2>3. Nth(S, r) \in S /\ Cardinality(Before(S, Nth(S, r))) = r
    BY <2>2, NthHour
  <2>4. Nth(S, r) \in A
    BY <1>2, <2>2, <2>3
  <2>5. f[Nth(S, r)] = r
    BY <2>3, <2>4
  <2> QED BY <2>4, <2>5
<1>8. f \in [A -> T]
  BY <1>6
<1>9. \A h, k \in A : f[h] = f[k] => h = k
  BY <1>2, RanksDiffer
<1> HIDE DEF A, T, f
<1>10. f \in Bijection(A, T)
  BY <1>7, <1>8, <1>9 DEF Bijection, Injection, IsInjective, Surjection
<1>11. ExistsBijection(A, T)
  BY <1>10 DEF ExistsBijection
<1>12. Cardinality(T) = Cardinality(A)
  BY <1>3, <1>11, FS_Bijection
<1> QED BY <1>4, <1>12 DEF A

-----------------------------------------------------------------------------
(* Splits *)

LEMMA ResearchEvaluates ==
    ASSUME NEW S \in SUBSET Nat, IsFiniteSet(S), NEW from \in Nat, NEW last \in Nat,
           NEW w \in Nat
    PROVE  ResearchSegment(S, from..last, w).evaluated = Warm(S, from, last, w)
<1> DEFINE W == Warm(S, from, last, w)
           G == Given(S, from, last, w)
<1>1. Tested(S, from, last) = {} => W = {}
  BY DEF Warm
<1>2. ResearchSegment(S, from..last, w) = ResearchCut(S, from, last, w)
  BY ResearchGives
<1> HIDE DEF W, G
<1>3. NoSegment.evaluated = {} /\ Segment(G, W).evaluated = W
  BY DEF NoSegment, Segment
<1>4. ResearchCut(S, from, last, w) = IF Tested(S, from, last) = {} \/ W = {} THEN NoSegment
                                      ELSE Segment(G, W)
  BY DEF ResearchCut, W, G
<1>5. ResearchSegment(S, from..last, w).evaluated = W
  BY <1>1, <1>2, <1>3, <1>4
<1> QED BY <1>5 DEF W

\* A run that is configured with the warm-up of its segments skips nothing more.
SkipsNothing(seg, w) == RunSegment(seg, w).evaluated = seg.evaluated

LEMMA RunSkipsNothing ==
    ASSUME NEW S \in SUBSET Nat, IsFiniteSet(S), NEW from \in Nat, NEW last \in Nat,
           NEW w \in Nat
    PROVE  SkipsNothing(ResearchSegment(S, from..last, w), w)
<1> DEFINE seg == ResearchSegment(S, from..last, w)
           own == Cardinality(seg.candles) - Cardinality(seg.evaluated)
           G == Given(S, from, last, w)
           W == Warm(S, from, last, w)
<1>1. seg = NoSegment \/ (W # {} /\ seg = Segment(G, W))
  BY ResearchGives DEF ResearchCut
<1>2. RunSegment(seg, w).evaluated = AfterFirst(seg.candles, Max({own, w}))
  <2>1. RunSegment(seg, w) = [seg EXCEPT !.evaluated = AfterFirst(seg.candles, Max({own, w}))]
    BY DEF RunSegment
  <2>2. "evaluated" \in DOMAIN seg
    BY <1>1 DEF NoSegment, Segment
  <2> HIDE DEF seg, own
  <2> QED BY <2>1, <2>2
<1>3. CASE seg = NoSegment
  <2>1. seg.candles = {} /\ seg.evaluated = {}
    BY <1>3 DEF NoSegment, Segment
  <2> HIDE DEF seg, own
  <2>2. AfterFirst(seg.candles, Max({own, w})) = {}
    BY <2>1 DEF AfterFirst
  <2> QED BY <1>2, <2>1, <2>2 DEF seg, SkipsNothing
<1>4. CASE W # {} /\ seg = Segment(G, W)
  <2>1. seg.candles = G /\ seg.evaluated = W
    BY <1>4 DEF Segment
  <2>2. AfterFirst(G, w) = W /\ IsFiniteSet(G)
    BY AfterWarmup
  <2>3. G \in SUBSET Nat
    <3>1. Leading(S, from, w) \subseteq Before(S, from)
      BY PriorHours
    <3> QED BY <3>1 DEF Given, Before, Tested
  <2> HIDE DEF G, W
  <2>4. w <= Cardinality(G) /\ Cardinality(G) \in Nat
    <3>1. PICK h \in G : Cardinality(Before(G, h)) >= w
      BY <1>4, <2>2, AfterFirstBelow
    <3>2. Cardinality(Before(G, h)) \in Nat /\ Cardinality(Before(G, h)) < Cardinality(G)
      BY <2>2, <2>3, FewerAround
    <3> QED BY <2>2, <3>1, <3>2, FS_CardinalityType
  <2>5. Cardinality(W) = Cardinality(G) - w
    BY <2>2, <2>3, <2>4, AfterFirstCount
  <2>6. own = w
    BY <2>1, <2>4, <2>5
  <2>7. Max({own, w}) = w
    <3>1. {w} \subseteq 0..w /\ {w} # {}
      OBVIOUS
    <3>2. Max({w}) \in {w}
      BY <3>1, MaxIsGreatest
    <3> QED BY <2>6, <3>2
  <2> HIDE DEF seg, own
  <2> QED BY <1>2, <2>1, <2>2, <2>7 DEF seg, SkipsNothing
<1> QED BY <1>1, <1>3, <1>4

LEMMA SharesOfHours ==
    ASSUME NEW total \in Nat, NEW percent \in Nat
    PROVE  (total * percent) \div 100 \in Nat
<1>1. total * percent \in Nat
  OBVIOUS
<1> QED BY <1>1

\* The three ranges of a holdout: they start at hours a < b < c of the history.
LEMMA HoldoutCuts ==
    ASSUME NEW S \in SUBSET Nat, IsFiniteSet(S), NEW p \in Nat, NEW q \in Nat, NEW w \in Nat,
           HoldoutSplit(S, p, q, w) # <<>>
    PROVE  \E a, b, c \in S :
             /\ a < b /\ b < c /\ (\A h \in S : a <= h /\ h <= Max(S)) /\ Max(S) \in Nat
             /\ HoldoutSplit(S, p, q, w) = <<ResearchSegment(S, a..(b - 1), w),
                                             ResearchSegment(S, b..(c - 1), w),
                                             ResearchSegment(S, c..((Max(S) + 1) - 1), w)>>
<1> DEFINE total == Cardinality(S)
           train == (total * p) \div 100
           validation == (total * (p + q)) \div 100
<1>1. total \in Nat /\ train \in Nat /\ validation \in Nat
  <2>1. total \in Nat
    BY FS_CardinalityType
  <2> HIDE DEF total
  <2>2. p + q \in Nat
    OBVIOUS
  <2> QED BY <2>1, <2>2, SharesOfHours
<1>2. ~ (train < 1 \/ validation - train < 1 \/ total - validation < 1 \/ w >= train)
  BY DEF HoldoutSplit
<1>3. HoldoutSplit(S, p, q, w) =
        <<ResearchSegment(S, Nth(S, 0)..(Nth(S, train) - 1), w),
          ResearchSegment(S, Nth(S, train)..(Nth(S, validation) - 1), w),
          ResearchSegment(S, Nth(S, validation)..((Max(S) + 1) - 1), w)>>
  BY <1>2 DEF HoldoutSplit
<1> HIDE DEF train, validation
<1>4. 0 < train /\ train < validation /\ validation < total /\ 0 < total /\ train < total
  BY <1>1, <1>2
<1>5. Nth(S, 0) \in S /\ Nth(S, train) \in S /\ Nth(S, validation) \in S
      /\ Cardinality(Before(S, Nth(S, 0))) = 0
  BY <1>1, <1>4, NthHour
<1>6. Nth(S, 0) < Nth(S, train) /\ Nth(S, train) < Nth(S, validation)
  BY <1>1, <1>4, NthGrows
<1>7. \A h \in S : Nth(S, 0) <= h
  <2>1. Before(S, Nth(S, 0)) = {}
    BY <1>5, BeforeIsFinite, FS_EmptySet
  <2>2. \A h \in S : ~ h < Nth(S, 0)
    BY <2>1 DEF Before
  <2>3. Nth(S, 0) \in Nat /\ \A h \in S : h \in Nat
    BY <1>5
  <2> QED BY <2>2, <2>3
<1>8. Max(S) \in Nat /\ \A h \in S : h <= Max(S)
  BY <1>5, MaxOfFinite
<1> QED BY <1>3, <1>5, <1>6, <1>7, <1>8

\* The parts of a holdout follow one another and together evaluate all that follows the
\* warm-up, whatever the history and the percentages; a run that is configured with the
\* same warm-up skips nothing of them.
THEOREM HoldoutsAlwaysHold ==
    ASSUME NEW S \in SUBSET Nat, IsFiniteSet(S), 0 \notin S, NEW p \in Nat, NEW q \in Nat,
           NEW w \in Nat
    PROVE  HoldoutHolds(S, p, q, w)
<1> DEFINE split == HoldoutSplit(S, p, q, w)
<1>1. SUFFICES ASSUME split # <<>>
               PROVE  /\ UNION {split[i].evaluated : i \in 1..3} = AfterFirst(S, w)
                      /\ \A i, j \in 1..3 : i < j =>
                            \A h \in split[i].evaluated, k \in split[j].evaluated : h < k
                      /\ \A i \in 1..3 : RunSegment(split[i], w).evaluated = split[i].evaluated
  BY DEF HoldoutHolds
<1>2. PICK a, b, c \in S :
        /\ a < b /\ b < c /\ (\A h \in S : a <= h /\ h <= Max(S)) /\ Max(S) \in Nat
        /\ split = <<ResearchSegment(S, a..(b - 1), w), ResearchSegment(S, b..(c - 1), w),
                     ResearchSegment(S, c..((Max(S) + 1) - 1), w)>>
  BY <1>1, HoldoutCuts
<1> HIDE DEF split
<1>3. /\ a \in Nat /\ b \in Nat /\ c \in Nat /\ b - 1 \in Nat /\ c - 1 \in Nat
      /\ Max(S) \in Nat /\ (Max(S) + 1) - 1 = Max(S)
  BY <1>2
<1> DEFINE A == Warm(S, a, b - 1, w)
           B == Warm(S, b, c - 1, w)
           C == Warm(S, c, Max(S), w)
<1>4. split[1].evaluated = A /\ split[2].evaluated = B /\ split[3].evaluated = C
  <2>1. /\ ResearchSegment(S, a..(b - 1), w).evaluated = A
        /\ ResearchSegment(S, b..(c - 1), w).evaluated = B
        /\ ResearchSegment(S, c..Max(S), w).evaluated = C
    BY <1>2, <1>3, ResearchEvaluates
  <2> QED BY <1>2, <1>3, <2>1
<1>5. \A i \in 1..3 : RunSegment(split[i], w).evaluated = split[i].evaluated
  <2>1. /\ SkipsNothing(ResearchSegment(S, a..(b - 1), w), w)
        /\ SkipsNothing(ResearchSegment(S, b..(c - 1), w), w)
        /\ SkipsNothing(ResearchSegment(S, c..Max(S), w), w)
    <3>1. SkipsNothing(ResearchSegment(S, a..(b - 1), w), w)
      BY <1>3, RunSkipsNothing
    <3>2. SkipsNothing(ResearchSegment(S, b..(c - 1), w), w)
      BY <1>3, RunSkipsNothing
    <3>3. SkipsNothing(ResearchSegment(S, c..Max(S), w), w)
      BY <1>3, RunSkipsNothing
    <3> QED BY <3>1, <3>2, <3>3
  <2>2. SkipsNothing(split[1], w) /\ SkipsNothing(split[2], w) /\ SkipsNothing(split[3], w)
    BY <1>2, <1>3, <2>1
  <2>3. \A i \in 1..3 : i = 1 \/ i = 2 \/ i = 3
    OBVIOUS
  <2>4. \A i \in 1..3 : SkipsNothing(split[i], w)
    BY <2>2, <2>3
  <2> QED BY <2>4 DEF SkipsNothing
<1>6. A \cup B \cup C = AfterFirst(S, w)
  <2>1. \A h \in S : h \in a..(b - 1) \/ h \in b..(c - 1) \/ h \in c..Max(S)
    <3>1. SUFFICES ASSUME NEW h \in S
                   PROVE  h \in a..(b - 1) \/ h \in b..(c - 1) \/ h \in c..Max(S)
      OBVIOUS
    <3>2. h \in Nat /\ a <= h /\ h <= Max(S)
      BY <1>2
    <3> QED BY <1>2, <1>3, <3>2
  <2>2. \A h : h \in AfterFirst(S, w) <=> h \in S /\ Cardinality(Before(S, h)) >= w
    BY AfterFirstBelow
  <2>3. \A h : h \in A \cup B \cup C <=> h \in S /\ Cardinality(Before(S, h)) >= w
    BY <2>1 DEF Warm, Tested
  <2> HIDE DEF A, B, C
  <2> QED BY <2>2, <2>3
<1>7. /\ \A h \in A : h \in Nat /\ h < b
      /\ \A h \in B : h \in Nat /\ b <= h /\ h < c
      /\ \A h \in C : h \in Nat /\ c <= h
  <2>1. \A h \in A : h \in S /\ h \in a..(b - 1)
    BY DEF Warm, Tested
  <2>2. \A h \in B : h \in S /\ h \in b..(c - 1)
    BY DEF Warm, Tested
  <2>3. \A h \in C : h \in S /\ h \in c..Max(S)
    BY DEF Warm, Tested
  <2> HIDE DEF A, B, C
  <2> QED BY <1>2, <1>3, <2>1, <2>2, <2>3
<1> HIDE DEF A, B, C
<1>8. UNION {split[i].evaluated : i \in 1..3} = A \cup B \cup C
  <2>1. \A x : x \in UNION {split[i].evaluated : i \in 1..3}
                 <=> \E i \in 1..3 : x \in split[i].evaluated
    OBVIOUS
  <2>2. \A x : (\E i \in 1..3 : x \in split[i].evaluated) <=> x \in A \/ x \in B \/ x \in C
    <3>1. \A i : i \in 1..3 <=> i = 1 \/ i = 2 \/ i = 3
      OBVIOUS
    <3> QED BY <1>4, <3>1
  <2> QED BY <2>1, <2>2
<1>9. ASSUME NEW i \in 1..3, NEW j \in 1..3, i < j,
             NEW h \in split[i].evaluated, NEW k \in split[j].evaluated
      PROVE  h < k
  <2>1. \/ i = 1 /\ j = 2
        \/ i = 1 /\ j = 3
        \/ i = 2 /\ j = 3
    BY <1>9
  <2>2. CASE i = 1 /\ j = 2
    BY <1>3, <1>4, <1>7, <2>2
  <2>3. CASE i = 1 /\ j = 3
    <3>1. h \in A /\ k \in C
      BY <1>4, <2>3
    <3> QED BY <1>2, <1>3, <1>7, <3>1
  <2>4. CASE i = 2 /\ j = 3
    BY <1>3, <1>4, <1>7, <2>4
  <2> QED BY <2>1, <2>2, <2>3, <2>4
<1> QED BY <1>5, <1>6, <1>8, <1>9

\* Ranges that the caller names are evaluated in their order, however many there are.
THEOREM NamedSplitsAlwaysHold ==
    ASSUME NEW S \in SUBSET Nat, IsFiniteSet(S), NEW n \in Nat,
           NEW ranges \in [1..n -> Nat \X Nat], NEW w \in Nat
    PROVE  NamedSplitHolds(S, ranges, w)
<1> DEFINE named == ExplicitSplit(S, ranges, w)
           Opening(i) == ranges[i][1]
           Past(i) == ranges[i][2]
<1>1. SUFFICES ASSUME named # <<>>
               PROVE  \A i, j \in 1..n : i < j =>
                        \A h \in named[i].evaluated, k \in named[j].evaluated : h < k
  BY DEF NamedSplitHolds
<1>2. DOMAIN ranges = 1..n
  OBVIOUS
<1>3. \A i \in 1..n : Opening(i) \in Nat /\ Past(i) \in Nat
  OBVIOUS
<1>4. /\ \A i \in 1..n : Opening(i) < Past(i) /\ (i > 1 => Past(i - 1) <= Opening(i))
      /\ named = [i \in 1..n |-> ResearchSegment(S, Opening(i)..(Past(i) - 1), w)]
  BY <1>1, <1>2 DEF ExplicitSplit
<1> HIDE DEF named, Opening, Past
<1>5. ASSUME NEW i \in 1..n PROVE \A h \in named[i].evaluated : h \in Nat /\ Opening(i) <= h /\ h < Past(i)
  <2>1. Opening(i) \in Nat /\ Past(i) \in Nat /\ Opening(i) < Past(i) /\ Past(i) - 1 \in Nat
    BY <1>3, <1>4, SMTT(30)
  <2>2. named[i] = ResearchSegment(S, Opening(i)..(Past(i) - 1), w)
    BY <1>4
  <2>3. named[i].evaluated = Warm(S, Opening(i), Past(i) - 1, w)
    <3>1. ResearchSegment(S, Opening(i)..(Past(i) - 1), w).evaluated = Warm(S, Opening(i), Past(i) - 1, w)
      BY <2>1, ResearchEvaluates
    <3> QED BY <2>2, <3>1
  <2>4. \A h \in named[i].evaluated : h \in Opening(i)..(Past(i) - 1)
    BY <2>3 DEF Warm, Tested
  <2> QED BY <2>1, <2>4
<1>6. ASSUME NEW i \in 1..n, NEW j \in 1..n, i < j
      PROVE  Past(i) <= Opening(j)
  <2> DEFINE late == {k \in 1..n : k > i /\ ~ Past(i) <= Opening(k)}
  <2>1. SUFFICES ASSUME late # {} PROVE FALSE
    BY <1>6
  <2>2. PICK m \in late : \A k \in late : m <= k
    <3>1. late \subseteq Nat
      OBVIOUS
    <3> HIDE DEF late
    <3> QED BY <2>1, <3>1, LeastNatural
  <2>3. m \in 1..n /\ m > i /\ ~ Past(i) <= Opening(m) /\ m > 1
    OBVIOUS
  <2>4. Past(m - 1) <= Opening(m) /\ m - 1 \in 1..n
    BY <1>4, <2>3
  <2>5. m - 1 # i
    BY <2>3, <2>4
  <2>6. m - 1 > i /\ m - 1 < m
    BY <2>3, <2>5
  <2>7. m - 1 \notin late
    BY <2>2, <2>3, <2>6
  <2>8. Past(i) <= Opening(m - 1)
    BY <2>4, <2>6, <2>7
  <2>9. Opening(m - 1) < Past(m - 1)
    BY <1>4, <2>4
  <2>10. Opening(m - 1) \in Nat /\ Past(m - 1) \in Nat /\ Opening(m) \in Nat /\ Past(i) \in Nat
    BY <1>3, <2>3, <2>4
  <2> HIDE DEF late
  <2> QED BY <2>3, <2>4, <2>8, <2>9, <2>10
<1>7. ASSUME NEW i \in 1..n, NEW j \in 1..n, i < j,
             NEW h \in named[i].evaluated, NEW k \in named[j].evaluated
      PROVE  h < k
  <2>1. h \in Nat /\ h < Past(i) /\ k \in Nat /\ Opening(j) <= k
    BY <1>5
  <2>2. Past(i) <= Opening(j) /\ Past(i) \in Nat /\ Opening(j) \in Nat
    BY <1>3, <1>6, <1>7
  <2> QED BY <2>1, <2>2
<1> QED BY <1>7

-----------------------------------------------------------------------------
(* Whole histories *)

\* A history without breaks has every hour between two of its hours.
LEMMA NoBreakNoHole ==
    ASSUME NEW S \in SUBSET Nat, IsFiniteSet(S), Breaks(Chronological(S)) = {},
           NEW h \in S, NEW k \in S, NEW j \in Nat, h <= j, j <= k
    PROVE  j \in S
<1> DEFINE hours == Chronological(S)
<1>1. Cardinality(S) \in Nat
  BY FS_CardinalityType
<1>2. Len(hours) = Cardinality(S) /\ \A i \in 1..Cardinality(S) : hours[i] = Nth(S, i - 1)
  BY <1>1 DEF Chronological
<1>3. \A i \in 1..(Cardinality(S) - 1) : hours[i + 1] - hours[i] = 1
  BY <1>2 DEF Breaks
<1> HIDE DEF hours
<1>4. ASSUME NEW a \in S, a < k
      PROVE  a + 1 \in S
  <2> DEFINE r == Cardinality(Before(S, a))
  <2>1. r \in Nat
    BY BeforeIsFinite
  <2>2. r + 1 < Cardinality(S)
    <3>1. r < Cardinality(Before(S, k)) /\ Cardinality(Before(S, k)) < Cardinality(S)
          /\ Cardinality(Before(S, k)) \in Nat
      BY <1>4, RanksGrow, FewerAround
    <3> HIDE DEF r
    <3> QED BY <1>1, <2>1, <3>1
  <2>3. Nth(S, r) = a
    BY NthOfRank
  <2> HIDE DEF r
  <2>4. Nth(S, r + 1) \in S /\ Nth(S, r + 1) \in Nat
    <3>1. r + 1 \in Nat
      BY <2>1
    <3> QED BY <2>2, <3>1, NthHour
  <2>5. r + 1 \in 1..(Cardinality(S) - 1) /\ r + 1 \in 1..Cardinality(S)
        /\ (r + 1) + 1 \in 1..Cardinality(S) /\ (r + 1) - 1 = r /\ ((r + 1) + 1) - 1 = r + 1
    BY <1>1, <2>1, <2>2
  <2>6. hours[(r + 1) + 1] = Nth(S, r + 1) /\ hours[r + 1] = a
    BY <1>2, <2>3, <2>5
  <2>7. hours[(r + 1) + 1] - hours[r + 1] = 1
    BY <1>3, <2>5
  <2>8. Nth(S, r + 1) - a = 1 /\ a \in Nat
    BY <2>6, <2>7
  <2>9. Nth(S, r + 1) = a + 1
    BY <2>4, <2>8
  <2> QED BY <2>4, <2>9
<1> DEFINE holes == {i \in h..k : i \notin S}
<1>5. SUFFICES ASSUME holes # {} PROVE FALSE
  OBVIOUS
<1>6. h \in Nat /\ k \in Nat
  OBVIOUS
<1>7. PICK m \in holes : \A i \in holes : m <= i
  <2>1. holes \subseteq Nat
    BY <1>6
  <2> HIDE DEF holes
  <2> QED BY <1>5, <2>1, LeastNatural
<1>8. m \in Nat /\ m \in h..k /\ m \notin S /\ m # h
  BY <1>6
<1>9. m - 1 \in h..k /\ m - 1 < m /\ m - 1 \in Nat /\ m - 1 < k
  BY <1>6, <1>8
<1>10. m - 1 \notin holes
  BY <1>7, <1>8, <1>9
<1>11. m - 1 \in S
  BY <1>9, <1>10
<1>12. (m - 1) + 1 \in S /\ (m - 1) + 1 = m
  BY <1>4, <1>8, <1>9, <1>11
<1> QED BY <1>8, <1>12

\* The folds of the Spot hypotheses lie in their period, behind its first training hour.
LEMMA SpotFoldHours ==
    ASSUME NEW d \in Nat, NEW v \in Nat, NEW period, NEW consumed, 2 <= d, d < v,
           NEW w \in SpotFolds(period, <<2, d>>, <<d + 1, v>>, <<v + 1, consumed>>, 1, 2)
    PROVE  \E from \in Nat : /\ w.test = from..(from + 1) /\ 2 < from /\ from + 1 <= v
<1>1. \/ w \in RollingFolds(3, d + 1, 1, 2, 2)
      \/ w \in RollingFolds(d + 1, v + 1, 1, 2, 2)
  BY DEF SpotFolds
<1>2. ASSUME NEW first \in Nat, NEW past \in Nat, w \in RollingFolds(first, past, 1, 2, 2)
      PROVE  \E from \in Nat : w.test = from..(from + 1) /\ first <= from /\ from <= past - 2
  <2>1. PICK s \in Starts(first, past, 2, 2) : w = Window(Span(s - 1, 1), Span(s, 2))
    BY <1>2 DEF RollingFolds
  <2>2. s \in Nat /\ first <= s /\ s <= past - 2
    BY StartHours
  <2>3. w.test = s..(s + 1)
    BY <2>1, <2>2, WindowParts DEF Span
  <2> QED BY <2>2, <2>3
<1>3. CASE w \in RollingFolds(3, d + 1, 1, 2, 2)
  <2>1. 3 \in Nat /\ d + 1 \in Nat
    OBVIOUS
  <2>2. PICK from \in Nat : w.test = from..(from + 1) /\ 3 <= from /\ from <= (d + 1) - 2
    BY <1>2, <1>3, <2>1
  <2> QED BY <2>2
<1>4. CASE w \in RollingFolds(d + 1, v + 1, 1, 2, 2)
  <2>1. v + 1 \in Nat /\ d + 1 \in Nat
    OBVIOUS
  <2>2. PICK from \in Nat : w.test = from..(from + 1) /\ d + 1 <= from /\ from <= (v + 1) - 2
    BY <1>2, <1>4, <2>1
  <2> QED BY <2>2
<1> QED BY <1>1, <1>3, <1>4

\* A history the Spot experiment accepts, if it has no gap, evaluates every fold whole.
THEOREM SpotFoldsAlwaysWhole ==
    ASSUME NEW S \in SUBSET Nat, IsFiniteSet(S), S # {}
    PROVE  SpotFoldsAreWhole(S)
<1>1. SUFFICES ASSUME NEW d \in Hours, NEW v \in Hours,
                      NEW period \in {"development", "validation"},
                      ResearchPeriods(<<2, d>>, <<d + 1, v>>, <<v + 1, Horizon + 1>>, <<>>),
                      SpotInputs(S, <<2, d>>, <<d + 1, v>>, <<v + 1, Horizon + 1>>),
                      Breaks(Chronological(S)) = {},
                      NEW w \in SpotFolds(period, <<2, d>>, <<d + 1, v>>,
                                          <<v + 1, Horizon + 1>>, 1, 2)
               PROVE  ResearchSegment(S, w.test, 1).evaluated = w.test
  BY DEF SpotFoldsAreWhole
<1>2. d \in Nat /\ v \in Nat /\ 2 <= d /\ d < v
  <2>1. Horizon \in Nat
    BY DataAssumption
  <2>2. d \in Nat /\ v \in Nat
    BY <2>1 DEF Hours
  <2>3. 2 <= d /\ d + 1 <= v
    BY <1>1 DEF ResearchPeriods
  <2> QED BY <2>2, <2>3
<1>3. PICK from \in Nat : w.test = from..(from + 1) /\ 2 < from /\ from + 1 <= v
  BY <1>2, SpotFoldHours
<1>4. Min(S) <= 2 /\ Max(S) >= v /\ Min(S) \in S /\ Max(S) \in S
      /\ Min(S) \in Nat /\ Max(S) \in Nat
  <2>1. Min(S) <= 2 /\ Max(S) >= v
    BY <1>1 DEF SpotInputs
  <2>2. Min(S) \in S
    BY MinIsLeast
  <2>3. Max(S) \in S
    BY MaxOfFinite
  <2> QED BY <2>1, <2>2, <2>3
<1>5. \A j \in from..(from + 1) : j \in S /\ j \in Nat /\ 2 < j
  <2>1. SUFFICES ASSUME NEW j \in from..(from + 1) PROVE j \in S /\ j \in Nat /\ 2 < j
    OBVIOUS
  <2>2. j \in Nat /\ 2 < j /\ j <= v
    <3>1. from \in Nat /\ 2 < from /\ from + 1 <= v
      BY <1>3
    <3>2. j \in Int /\ from <= j /\ j <= from + 1
      BY <3>1
    <3> QED BY <1>2, <3>1, <3>2
  <2>3. Min(S) <= j /\ j <= Max(S)
    BY <1>2, <1>4, <2>2
  <2> QED BY <1>1, <1>4, <2>2, <2>3, NoBreakNoHole
<1>6. \A j \in from..(from + 1) : Cardinality(Before(S, j)) >= 1
  <2>1. SUFFICES ASSUME NEW j \in from..(from + 1) PROVE Cardinality(Before(S, j)) >= 1
    OBVIOUS
  <2>2. Min(S) \in Before(S, j)
    BY <1>4, <1>5 DEF Before
  <2>3. /\ IsFiniteSet(Before(S, j)) /\ Cardinality(Before(S, j)) \in Nat
        /\ Cardinality(Before(S, j)) # 0
    BY <2>2, BeforeIsFinite, FS_EmptySet
  <2> QED BY <2>3
<1>7. Warm(S, from, from + 1, 1) = from..(from + 1)
  BY <1>5, <1>6 DEF Warm, Tested
<1>8. from + 1 \in Nat /\ 1 \in Nat
  OBVIOUS
<1> QED BY <1>3, <1>7, <1>8, ResearchEvaluates

\* The folds that end before the last candle are those that do not end with it.
LEMMA FoldsBefore ==
    ASSUME NEW first \in Nat, NEW last \in Nat, NEW train \in Nat, NEW length \in Nat,
           length # 0, NEW step \in Nat
    PROVE  RollingFolds(first, last, train, length, step)
             = {w \in RollingFolds(first, last + 1, train, length, step) : Max(w.test) # last}
<1> DEFINE W(s) == Window(Span(s - train, train), Span(s, length))
           early == Starts(first, last, length, step)
           all == Starts(first, last + 1, length, step)
<1>1. RollingFolds(first, last, train, length, step) = {W(s) : s \in early}
      /\ RollingFolds(first, last + 1, train, length, step) = {W(s) : s \in all}
  BY DEF RollingFolds
<1>2. \A s : s \in early <=> s \in all /\ s \in Int /\ s <= last - length
  BY DEF Starts
<1>3. \A s \in all : s \in Nat /\ s <= (last + 1) - length
  <2>1. last + 1 \in Nat
    OBVIOUS
  <2> QED BY <2>1, StartHours
<1>4. ASSUME NEW s \in all
      PROVE  Max(W(s).test) = s + length - 1
  <2>1. W(s).test = s..(s + length - 1)
    BY WindowParts DEF Span
  <2>2. s \in Nat /\ s + length - 1 \in Nat /\ s <= s + length - 1
    BY <1>3
  <2> QED BY <2>1, <2>2, IntervalEnds
<1>5. ASSUME NEW s \in all
      PROVE  s \in early <=> Max(W(s).test) # last
  <2>1. s \in Nat /\ s <= (last + 1) - length
    BY <1>3
  <2>2. s + length - 1 # last <=> s <= last - length
    BY <2>1
  <2> QED BY <1>2, <1>4, <2>1, <2>2
<1>6. \A s \in early : s \in all
  BY <1>2
<1> HIDE DEF W, early, all
<1>7. {W(s) : s \in early} = {w \in {W(s) : s \in all} : Max(w.test) # last}
  BY <1>5, <1>6
<1> QED BY <1>1, <1>7

\* In a history without a gap an hour has all the hours before it.
LEMMA HoursBefore ==
    ASSUME NEW last \in Nat, NEW h \in 1..last
    PROVE  Before(1..last, h) = 1..(h - 1) /\ Cardinality(Before(1..last, h)) = h - 1
<1>1. h \in Nat /\ 1 <= h /\ h <= last
  OBVIOUS
<1>2. Before(1..last, h) = 1..(h - 1)
  BY <1>1 DEF Before
<1>3. 1 \in Int /\ h - 1 \in Int
  BY <1>1
<1>4. Cardinality(1..(h - 1)) = IF 1 > h - 1 THEN 0 ELSE (h - 1) - 1 + 1
  BY <1>3, FS_Interval
<1> QED BY <1>1, <1>2, <1>4

\* The part from..to of such a history is evaluated from its warm-up on.
LEMMA WholePart ==
    ASSUME NEW last \in Nat, NEW from \in Nat, from # 0, NEW to \in Nat, from <= to, to <= last,
           NEW warmup \in Nat
    PROVE  ResearchSegment(1..last, from..to, warmup).evaluated = {} <=> to - 1 < warmup
<1> DEFINE opens == 1..last
<1>1. opens \in SUBSET Nat /\ IsFiniteSet(opens)
  BY FS_Interval
<1>2. \A h \in from..to : h \in opens /\ h <= to /\ h \in Nat
  OBVIOUS
<1>3. \A h \in from..to : Cardinality(Before(opens, h)) = h - 1
  BY <1>2, HoursBefore
<1>4. to \in from..to
  OBVIOUS
<1> HIDE DEF opens
<1>5. ResearchSegment(opens, from..to, warmup).evaluated = Warm(opens, from, to, warmup)
  BY <1>1, ResearchEvaluates
<1>6. Warm(opens, from, to, warmup) = {h \in from..to : h - 1 >= warmup}
  BY <1>2, <1>3 DEF Warm, Tested
<1>7. {h \in from..to : h - 1 >= warmup} = {} <=> to - 1 < warmup
  <2>1. CASE to - 1 < warmup
    <3>1. \A h \in from..to : ~ h - 1 >= warmup
      BY <2>1
    <3> QED BY <2>1, <3>1
  <2>2. CASE ~ to - 1 < warmup
    <3>1. to \in {h \in from..to : h - 1 >= warmup}
      BY <1>4, <2>2
    <3> QED BY <2>2, <3>1
  <2> QED BY <2>1, <2>2
<1> QED BY <1>5, <1>6, <1>7 DEF opens

\* Candles that have a mark price each are priced.
LEMMA OwnMarks ==
    ASSUME NEW G \in SUBSET Nat, IsFiniteSet(G), 0 \notin G, NEW h \in G
    PROVE  Alignment(G, G)[h] # Missing
<1> DEFINE known == {m \in G : m <= h /\ h - m <= 1}
<1>1. known \subseteq G /\ h \in known
  OBVIOUS
<1>2. known \subseteq Nat /\ IsFiniteSet(known)
  BY <1>1, FS_Subset
<1>3. Alignment(G, G)[h] = IF known = {} THEN Missing ELSE Max(known)
  BY DEF Alignment
<1> HIDE DEF known
<1>4. Max(known) \in known
  BY <1>1, <1>2, MaxOfFinite
<1>5. known # {} /\ Max(known) # 0
  BY <1>1, <1>4
<1> QED BY <1>3, <1>5 DEF Missing

\* The commands that plan from the candles miss the fold that ends with the last candle
\* and no other; the Spot command if it trains for longer than the warm-up, else it plans
\* nothing; the Futures command if no candle lacks its mark, and nothing without funding.
THEOREM OneFoldIsAlwaysMissed ==
    ASSUME NEW last \in Nat, last # 0, NEW train \in Nat, train # 0, NEW length \in Nat,
           length # 0, NEW step \in Nat, step # 0, NEW warmup \in Nat
    PROVE  OneFoldIsMissed(last, train, length, step, warmup)
<1> DEFINE opens == 1..last
           all == RollingFolds(1 + train, last + 1, train, length, step)
           rest == {w \in all : Max(w.test) # last}
           kept == RollingFolds(1 + train, last, train, length, step)
           data == [candles |-> opens, marks |-> opens, funding |-> {}]
<1>1. Min(opens) = 1 /\ Max(opens) = last
  BY IntervalEnds
<1>2. kept = rest
  <2>1. 1 + train \in Nat
    OBVIOUS
  <2> QED BY <2>1, FoldsBefore
<1>3. ASSUME NEW w \in kept
      PROVE  \E s \in Nat :
                /\ w.train = (s - train)..(s - 1) /\ w.test = s..(s + length - 1)
                /\ 1 + train <= s /\ s + length <= last
  <2>1. PICK s \in Starts(1 + train, last, length, step) :
          w = Window(Span(s - train, train), Span(s, length))
    BY <1>3 DEF RollingFolds
  <2>2. s \in Nat /\ 1 + train <= s /\ s <= last - length
    <3>1. 1 + train \in Nat
      OBVIOUS
    <3> QED BY <3>1, StartHours
  <2>3. w.train = (s - train)..(s - train + train - 1) /\ w.test = s..(s + length - 1)
    BY <2>1, WindowParts DEF Span
  <2>4. s - train + train - 1 = s - 1 /\ s + length <= last
    BY <2>2
  <2> QED BY <2>2, <2>3, <2>4
<1>4. /\ FuturesFolds(data, "FAIL", train, length, step, warmup) = {}
      /\ warmup <= train => FuturesFolds(data, "WARN", train, length, step, warmup) = kept
  <2> DEFINE good == {w \in kept : /\ w.test \cap opens # {}
                                   /\ Cardinality(Before(opens, Min(w.test))) >= warmup}
             given(w) == LastOf(Before(opens, Min(w.test)), warmup) \cup (w.test \cap opens)
             paid(w) == {e \in {} : Min(given(w)) <= e /\ e <= Max(given(w))}
             plan(policy) == IF \E w \in good :
                                  FoldRefused(given(w), opens \cap given(w), paid(w), policy)
                               THEN {} ELSE good
  <2>1. \A policy \in {"FAIL", "WARN"} :
          FuturesFolds(data, policy, train, length, step, warmup) = plan(policy)
    BY <1>1 DEF FuturesFolds
  <2>2. \A w : paid(w) = {}
    OBVIOUS
  <2>3. \A w : opens \cap given(w) = given(w) /\ given(w) \in SUBSET Nat
               /\ IsFiniteSet(given(w)) /\ 0 \notin given(w)
    <3>1. \A w : given(w) \subseteq opens
      BY DEF LastOf, Before
    <3>2. IsFiniteSet(opens) /\ opens \subseteq Nat /\ 0 \notin opens
      BY FS_Interval
    <3> HIDE DEF given, opens
    <3> QED BY <3>1, <3>2, FS_Subset
  <2>4. warmup <= train => good = kept
    <3>1. SUFFICES ASSUME warmup <= train, NEW w \in kept
                   PROVE  /\ w.test \cap opens # {}
                          /\ Cardinality(Before(opens, Min(w.test))) >= warmup
      OBVIOUS
    <3>2. PICK s \in Nat : /\ w.test = s..(s + length - 1)
                           /\ 1 + train <= s /\ s + length <= last
      BY <1>3
    <3>3. s + length - 1 \in Nat /\ s <= s + length - 1 /\ s \in opens
      BY <3>2
    <3>4. Min(w.test) = s /\ s \in w.test
      BY <3>2, <3>3, IntervalEnds
    <3>5. Cardinality(Before(opens, s)) = s - 1
      BY <3>3, HoursBefore
    <3>6. s - 1 >= warmup
      BY <3>1, <3>2
    <3> HIDE DEF opens, kept
    <3> QED BY <3>3, <3>4, <3>5, <3>6
  <2> HIDE DEF good, given, paid, opens, kept
  <2>5. \A w : FoldRefused(given(w), opens \cap given(w), paid(w), "FAIL")
    <3>1. \A C : FundingGaps(C, {}) # 0
      BY DEF FundingGaps
    <3> QED BY <2>2, <3>1 DEF FoldRefused
  <2>6. \A w : ~ FoldRefused(given(w), opens \cap given(w), paid(w), "WARN")
    <3>1. SUFFICES ASSUME NEW w PROVE ~ FoldRefused(given(w), opens \cap given(w), paid(w), "WARN")
      OBVIOUS
    <3>2. \A h \in given(w) : Alignment(given(w), given(w))[h] # Missing
      BY <2>3, OwnMarks
    <3> QED BY <2>3, <3>2 DEF FoldRefused
  <2>7. plan("FAIL") = {} /\ plan("WARN") = good
    BY <2>5, <2>6
  <2> HIDE DEF plan, data
  <2> QED BY <2>1, <2>4, <2>7
<1>5. WalkForwardPlan("ROLLING", opens, train, length, step, warmup)
        = IF warmup < train THEN kept ELSE {}
  <2> DEFINE broken(w) == \/ ResearchSegment(opens, w.train, warmup).evaluated = {}
                          \/ ResearchSegment(opens, w.test, warmup).evaluated = {}
             short == Min({train, length, step}) < 1 \/ warmup >= Cardinality(opens)
  <2>1. ~ Min({train, length, step}) < 1
    <3>1. {train, length, step} \subseteq Nat /\ {train, length, step} # {}
      OBVIOUS
    <3>2. Min({train, length, step}) \in {train, length, step}
      BY <3>1, MinIsLeast
    <3> QED BY <3>2
  <2>2. Cardinality(opens) = last
    <3>1. 1 \in Int /\ last \in Int /\ ~ 1 > last
      OBVIOUS
    <3>2. Cardinality(opens) = last - 1 + 1
      BY <3>1, FS_Interval
    <3> QED BY <3>2
  <2>3. DesignPeriods("ROLLING", 1, last - 1, train, length, step) = kept
    <3>1. (last - 1) + 1 = last
      OBVIOUS
    <3> QED BY <3>1 DEF DesignPeriods, RollingFolds
  <2>4. WalkForwardPlan("ROLLING", opens, train, length, step, warmup)
          = IF short \/ \E w \in kept : broken(w) THEN {} ELSE kept
    BY <1>1, <2>3 DEF WalkForwardPlan
  <2>5. ASSUME NEW w \in kept, warmup < train
        PROVE  ~ broken(w) /\ warmup < last
    <3>1. PICK s \in Nat : /\ w.train = (s - train)..(s - 1) /\ w.test = s..(s + length - 1)
                           /\ 1 + train <= s /\ s + length <= last
      BY <1>3, <2>5
    <3>2. /\ s - train \in Nat /\ s - train # 0 /\ s - 1 \in Nat /\ s - train <= s - 1
          /\ s - 1 <= last /\ s # 0 /\ s + length - 1 \in Nat /\ s <= s + length - 1
          /\ s + length - 1 <= last
      BY <3>1
    <3>3. ResearchSegment(opens, (s - train)..(s - 1), warmup).evaluated = {}
            <=> (s - 1) - 1 < warmup
      BY <3>2, WholePart
    <3>4. ResearchSegment(opens, s..(s + length - 1), warmup).evaluated = {}
            <=> (s + length - 1) - 1 < warmup
      BY <3>2, WholePart
    <3>5. ~ (s - 1) - 1 < warmup /\ ~ (s + length - 1) - 1 < warmup /\ warmup < last
      BY <2>5, <3>1
    <3> HIDE DEF opens, kept
    <3> QED BY <3>1, <3>3, <3>4, <3>5
  <2>6. ASSUME NEW w \in kept, ~ warmup < train
        PROVE  \E first \in kept : broken(first)
    <3> DEFINE first == Window(Span(1 + train - train, train), Span(1 + train, length))
    <3>1. PICK s \in Nat : 1 + train <= s /\ s + length <= last
      BY <1>3, <2>6
    <3>2. 1 + train \in Starts(1 + train, last, length, step)
      <4>1. 1 + train \in (1 + train)..(last - length)
        BY <3>1
      <4>2. ((1 + train) - (1 + train)) % step = 0
        OBVIOUS
      <4> QED BY <4>1, <4>2 DEF Starts
    <3>3. first \in kept
      BY <3>2 DEF RollingFolds
    <3>4. first.train = 1..train
      <4>1. first.train = (1 + train - train)..(1 + train - train + train - 1)
        BY WindowParts DEF Span
      <4>2. 1 + train - train = 1 /\ 1 + train - train + train - 1 = train
        OBVIOUS
      <4> QED BY <4>1, <4>2
    <3>5. ResearchSegment(opens, 1..train, warmup).evaluated = {} <=> train - 1 < warmup
      <4>1. 1 \in Nat /\ 1 # 0 /\ 1 <= train /\ train <= last
        BY <3>1
      <4> QED BY <4>1, WholePart
    <3>6. train - 1 < warmup
      BY <2>6
    <3> HIDE DEF opens, kept, first
    <3> QED BY <3>3, <3>4, <3>5, <3>6
  <2> HIDE DEF broken, opens, kept
  <2>7. short <=> warmup >= last
    BY <2>1, <2>2
  <2> HIDE DEF short
  <2>8. CASE kept = {}
    BY <2>4, <2>8
  <2>9. CASE kept # {} /\ warmup < train
    <3>1. ~ warmup >= last
      BY <2>5, <2>9
    <3>2. ~ \E w \in kept : broken(w)
      BY <2>5, <2>9
    <3> QED BY <2>4, <2>7, <2>9, <3>1, <3>2
  <2>10. CASE kept # {} /\ ~ warmup < train
    BY <2>4, <2>6, <2>10
  <2> QED BY <2>8, <2>9, <2>10
<1> HIDE DEF kept, rest
<1>6. OneFoldIsMissed(last, train, length, step, warmup)
        <=> /\ FuturesFolds(data, "FAIL", train, length, step, warmup) = {}
            /\ warmup <= train => FuturesFolds(data, "WARN", train, length, step, warmup) = rest
            /\ WalkForwardPlan("ROLLING", opens, train, length, step, warmup)
                 = IF warmup < train THEN rest ELSE {}
  BY DEF OneFoldIsMissed, rest
<1> QED BY <1>2, <1>4, <1>5, <1>6

\* The calendar of the diagnostics: years are whole, quarters divide them, the boundaries
\* validate right behind their development, and no rolling test leaves the years.
THEOREM CalendarAlwaysWhole == CalendarIsWhole
<1> DEFINE years == CalendarYears(0, 3)
<1>1. \A y : y \in 0..3 <=> y = 0 \/ y = 1 \/ y = 2 \/ y = 3
  OBVIOUS
<1>2. years = {0..3, 4..7, 8..11, 12..15}
  <2>1. QuartersOf(0) = 0..3 /\ QuartersOf(1) = 4..7 /\ QuartersOf(2) = 8..11
        /\ QuartersOf(3) = 12..15
    BY DEF QuartersOf
  <2>2. \A x : x \in years <=> \E y \in 0..3 : x = QuartersOf(y)
    BY DEF CalendarYears
  <2> HIDE DEF years
  <2>3. \A x : x \in years <=> x = 0..3 \/ x = 4..7 \/ x = 8..11 \/ x = 12..15
    BY <1>1, <2>1, <2>2
  <2> QED BY <2>3
<1> HIDE DEF years
<1>3. UNION years = 0..15
  <2>1. \A q : q \in UNION years <=> q \in 0..3 \/ q \in 4..7 \/ q \in 8..11 \/ q \in 12..15
    BY <1>2
  <2>2. \A q : q \in 0..15 <=> q \in 0..3 \/ q \in 4..7 \/ q \in 8..11 \/ q \in 12..15
    OBVIOUS
  <2> QED BY <2>1, <2>2
<1>4. UNION CalendarQuarters(0, 3) = UNION years
  <2>1. CalendarQuarters(0, 3) = {{q} : q \in UNION years}
    BY DEF CalendarQuarters, years
  <2> QED BY <2>1
<1>5. \A y, z \in years : y # z => y \cap z = {}
  BY <1>2
<1>6. \A b \in TemporalBoundaries : /\ Max(b.train) + 1 = Min(b.test)
                                    /\ b.train \cup b.test \subseteq UNION years
  <2>1. SUFFICES ASSUME NEW b \in TemporalBoundaries
                 PROVE  /\ Max(b.train) + 1 = Min(b.test)
                        /\ b.train \cup b.test \subseteq UNION years
    OBVIOUS
  <2>2. ASSUME NEW m \in Nat, NEW n \in Nat, m < n, n <= 15, b = Window(0..m, (m + 1)..n)
        PROVE  /\ Max(b.train) + 1 = Min(b.test)
               /\ b.train \cup b.test \subseteq UNION years
    <3>1. b.train = 0..m /\ b.test = (m + 1)..n
      BY <2>2, WindowParts
    <3>2. Max(0..m) = m /\ Min((m + 1)..n) = m + 1
      <4>1. 0 \in Nat /\ 0 <= m /\ m + 1 \in Nat /\ m + 1 <= n
        BY <2>2
      <4> QED BY <4>1, IntervalEnds
    <3>3. 0..m \subseteq 0..15 /\ (m + 1)..n \subseteq 0..15
      BY <2>2
    <3> QED BY <1>3, <3>1, <3>2, <3>3
  <2>3. \/ b = Window(0..7, (7 + 1)..11)
        \/ b = Window(0..9, (9 + 1)..13)
        \/ b = Window(0..11, (11 + 1)..15)
        \/ b = Window(0..7, (7 + 1)..15)
    BY DEF TemporalBoundaries
  <2>4. CASE b = Window(0..7, (7 + 1)..11)
    <3>1. 7 \in Nat /\ 11 \in Nat /\ 7 < 11 /\ 11 <= 15
      OBVIOUS
    <3> QED BY <2>2, <2>4, <3>1
  <2>5. CASE b = Window(0..9, (9 + 1)..13)
    <3>1. 9 \in Nat /\ 13 \in Nat /\ 9 < 13 /\ 13 <= 15
      OBVIOUS
    <3> QED BY <2>2, <2>5, <3>1
  <2>6. CASE b = Window(0..11, (11 + 1)..15)
    <3>1. 11 \in Nat /\ 15 \in Nat /\ 11 < 15 /\ 15 <= 15
      OBVIOUS
    <3> QED BY <2>2, <2>6, <3>1
  <2>7. CASE b = Window(0..7, (7 + 1)..15)
    <3>1. 7 \in Nat /\ 15 \in Nat /\ 7 < 15 /\ 15 <= 15
      OBVIOUS
    <3> QED BY <2>2, <2>7, <3>1
  <2> QED BY <2>3, <2>4, <2>5, <2>6, <2>7
<1>7. ASSUME NEW length \in 1..3, NEW step \in 1..3, NEW w \in RollingPeriods(0, 15, length, step)
      PROVE  w.test \subseteq UNION years
  <2>1. PICK s \in Starts(0, 15 + 1, length, step) : w = Window({}, Span(s, length))
    BY <1>7 DEF RollingPeriods
  <2>2. length \in Nat /\ length # 0 /\ step \in Nat /\ 0 \in Nat /\ 15 + 1 \in Nat
    OBVIOUS
  <2>3. Span(s, length) \subseteq 0..((15 + 1) - 1)
    BY <2>1, <2>2, TestSpan
  <2>4. w.test = Span(s, length)
    BY <2>1, WindowParts
  <2> QED BY <1>3, <2>3, <2>4
<1> QED BY <1>4, <1>5, <1>6, <1>7 DEF CalendarIsWhole, years

(***************************************************************************)
(* What the inspection lets through.                                       *)
(***************************************************************************)
\* The rows of a history are its hours, each once and closed.
LEMMA RowsOfHours ==
    ASSUME NEW S \in SUBSET Nat, IsFiniteSet(S)
    PROVE  /\ Opens(RowsOf(S, {})) = S
           /\ Duplicates(RowsOf(S, {})) = 0
           /\ AllClosed(RowsOf(S, {}))
           /\ S # {} => RowsOf(S, {}) # <<>>
<1> DEFINE n == Cardinality(S)
           rows == [i \in 1..n |-> [open |-> Nth(S, i - 1), closed |-> TRUE]]
<1>1. n \in Nat
  BY FS_CardinalityType
<1>2. RowsOf(S, {}) = rows
  BY DEF RowsOf
<1>3. \A i \in 1..n : Nth(S, i - 1) \in S
  <2>1. \A i \in 1..n : i - 1 \in Nat /\ i - 1 < n
    BY <1>1
  <2> QED BY <2>1, NthHour
<1>4. \A h \in S : \E i \in 1..n : h = Nth(S, i - 1)
  <2>1. SUFFICES ASSUME NEW h \in S PROVE \E i \in 1..n : h = Nth(S, i - 1)
    OBVIOUS
  <2> DEFINE r == Cardinality(Before(S, h))
  <2>2. r \in Nat /\ r < n
    BY FewerAround
  <2>3. Nth(S, r) = h
    BY NthOfRank
  <2> HIDE DEF r
  <2>4. r + 1 \in 1..n /\ (r + 1) - 1 = r
    BY <1>1, <2>2
  <2> QED BY <2>3, <2>4
<1>5. DOMAIN rows = 1..n /\ (\A i \in 1..n : rows[i].open = Nth(S, i - 1) /\ rows[i].closed)
  OBVIOUS
<1> HIDE DEF rows
<1>6. Opens(rows) = S
  <2>1. \A h \in Opens(rows) : h \in S
    BY <1>3, <1>5 DEF Opens
  <2>2. \A h \in S : h \in Opens(rows)
    BY <1>4, <1>5 DEF Opens
  <2> QED BY <2>1, <2>2
<1>7. rows \in Seq({[open |-> h, closed |-> TRUE] : h \in S}) /\ Len(rows) = n
  <2>1. rows = [i \in 1..n |-> [open |-> Nth(S, i - 1), closed |-> TRUE]]
    BY DEF rows
  <2> QED BY <1>1, <1>3, <2>1
<1>8. Duplicates(rows) = 0
  BY <1>1, <1>6, <1>7 DEF Duplicates
<1>9. AllClosed(rows)
  BY <1>5 DEF AllClosed
<1>10. S # {} => rows # <<>>
  <2>1. S # {} => n # 0
    BY FS_EmptySet
  <2> QED BY <1>7, <2>1
<1> QED BY <1>2, <1>6, <1>8, <1>9, <1>10

\* The hours of a history that no mark is for.
Unmarked(S, marks) == {h \in S : MarkAt(marks, h) = Missing}

\* Why a history is not ready, apart from its gaps.
Unready(S, marks, events) ==
    \/ Unmarked(S, marks) # {}
    \/ InspectFunding(events).events = 0 \/ InspectFunding(events).holes > 0

\* A history of closed candles is ready if every candle has a mark, the funding is there
\* and the gaps are what the policy accepts.
LEMMA ReadyMeans ==
    ASSUME NEW S \in SUBSET Nat, 0 \notin S, IsFiniteSet(S), NEW marks \in SUBSET Nat,
           0 \notin marks, NEW events, NEW policy,
           NEW breaks, breaks = Breaks(Listed(InOrder(RowsOf(S, {}))))
    PROVE  Readiness(RowsOf(S, {}), marks, events, policy, {}) = "NOT_READY"
             <=> \/ Unready(S, marks, events)
                 \/ policy = "FAIL" /\ Cardinality(breaks) > 0
                 \/ policy = "ALLOW_DOCUMENTED" /\ Cardinality(breaks) > 0
<1> DEFINE rows == RowsOf(S, {})
           funded == InspectFunding(events)
           priced == InspectMarks(S, marks)
           inspected == InspectCandles(rows, policy, {})
<1>1. Opens(rows) = S /\ Duplicates(rows) = 0 /\ AllClosed(rows)
  BY RowsOfHours
<1>2. priced.missing = Cardinality(Unmarked(S, marks)) /\ priced.future = 0
  <2>1. \A h \in S : Alignment(S, marks)[h] = MarkAt(marks, h)
    BY MarkOfHour
  <2>2. \A h \in S : ~ MarkAt(marks, h) > h
    BY DEF MarkAt, Missing
  <2>3. {h \in S : Alignment(S, marks)[h] = Missing} = Unmarked(S, marks)
    BY <2>1 DEF Unmarked
  <2>4. {h \in S : Alignment(S, marks)[h] > h} = {}
    BY <2>1, <2>2
  <2>5. Cardinality({}) = 0
    BY FS_EmptySet
  <2>6. priced.missing = Cardinality({h \in S : Alignment(S, marks)[h] = Missing})
        /\ priced.future = Cardinality({h \in S : Alignment(S, marks)[h] > h})
    BY DEF InspectMarks
  <2> QED BY <2>3, <2>4, <2>5, <2>6
<1>3. priced.missing > 0 <=> Unmarked(S, marks) # {}
  <2>1. Unmarked(S, marks) \subseteq S
    BY DEF Unmarked
  <2>2. IsFiniteSet(Unmarked(S, marks))
    BY <2>1, FS_Subset
  <2>3. Cardinality(Unmarked(S, marks)) \in Nat
    BY <2>2, FS_CardinalityType
  <2>4. Cardinality(Unmarked(S, marks)) = 0 <=> Unmarked(S, marks) = {}
    BY <2>2, FS_EmptySet
  <2> QED BY <1>2, <2>3, <2>4
<1>4. inspected.duplicates = 0 /\ inspected.closed = TRUE
      /\ inspected.gaps = Cardinality(breaks) /\ inspected.unexplained = Cardinality(breaks)
  <2> DEFINE hours == Listed(InOrder(rows))
  <2>1. inspected.gaps = Cardinality(Breaks(hours)) /\ inspected.duplicates = Duplicates(rows)
        /\ inspected.closed = AllClosed(rows)
        /\ inspected.unexplained = Cardinality({i \in Breaks(hours) : hours[i + 1] \notin {}})
    BY DEF InspectCandles
  <2>2. Breaks(hours) = breaks
    OBVIOUS
  <2>3. {i \in Breaks(hours) : hours[i + 1] \notin {}} = breaks
    BY <2>2
  <2> HIDE DEF hours
  <2> QED BY <1>1, <2>1, <2>2, <2>3
<1>5. Readiness(rows, marks, events, policy, {}) = "NOT_READY"
        <=> \/ inspected.duplicates > 0 \/ ~inspected.closed
            \/ policy = "FAIL" /\ inspected.gaps > 0
            \/ policy = "ALLOW_DOCUMENTED" /\ inspected.unexplained > 0
            \/ priced.missing > 0 \/ priced.future > 0
            \/ funded.events = 0 \/ funded.holes > 0
  BY <1>1 DEF Readiness
<1> HIDE DEF inspected, priced
<1>6. ~ 0 > 0
  OBVIOUS
<1>7. ~ inspected.duplicates > 0 /\ ~ priced.future > 0
  BY <1>2, <1>4, <1>6
<1> QED BY <1>3, <1>4, <1>5, <1>7 DEF Unready

\* What the inspection lets through, the validation accepts; a stricter policy lets less
\* through, and more marks never let less through.
THEOREM ReadyAlwaysValid ==
    ASSUME NEW S \in SUBSET Hours, S # {}
    PROVE  ReadyIsValid(S)
<1> DEFINE ready(events) ==
             [policy \in {"WARN", "FAIL", "ALLOW_DOCUMENTED"} |->
                [marks \in SUBSET Hours |->
                    Readiness(RowsOf(S, {}), marks, events, policy, {}) # "NOT_READY"]]
           breaks == Breaks(Listed(InOrder(RowsOf(S, {}))))
<1>1. Horizon \in Nat
  BY DataAssumption
<1>2. Hours \in SUBSET Nat /\ 0 \notin Hours /\ IsFiniteSet(Hours)
  <2>1. Hours \in SUBSET Nat /\ 0 \notin Hours
    BY <1>1 DEF Hours
  <2>2. IsFiniteSet(Hours)
    BY <1>1, FS_Interval DEF Hours
  <2> QED BY <2>1, <2>2
<1>3. S \in SUBSET Nat /\ 0 \notin S /\ IsFiniteSet(S)
  BY <1>2, FS_Subset
<1>4. ASSUME NEW events PROVE ReadyHolds(S, events, ready(events))
  <2> HIDE DEF ready
  <2>1. SUFFICES ASSUME NEW marks \in SUBSET Hours
        PROVE
        /\ ready(events)["WARN"][marks]
              => ValidateFutures(RowsOf(S, {}), marks, events, "WARN") # Rejected
        /\ ready(events)["FAIL"][marks] => ready(events)["ALLOW_DOCUMENTED"][marks]
        /\ ready(events)["ALLOW_DOCUMENTED"][marks] => ready(events)["WARN"][marks]
        /\ \A h \in S : Alignment(S, marks)[h] <= h
        /\ \A m \in Hours : ready(events)["WARN"][marks] => ready(events)["WARN"][marks \cup {m}]
    BY DEF ReadyHolds
  <2>2. marks \in SUBSET Nat /\ 0 \notin marks
    BY <1>2
  <2>3. ASSUME NEW given \in SUBSET Hours
        PROVE  /\ ready(events)["WARN"][given] <=> ~ Unready(S, given, events)
               /\ ready(events)["FAIL"][given]
                    <=> ~ Unready(S, given, events) /\ ~ Cardinality(breaks) > 0
               /\ ready(events)["ALLOW_DOCUMENTED"][given]
                    <=> ~ Unready(S, given, events) /\ ~ Cardinality(breaks) > 0
    <3>1. given \in SUBSET Nat /\ 0 \notin given
      BY <1>2
    <3>2. \A policy \in {"WARN", "FAIL", "ALLOW_DOCUMENTED"} :
             ready(events)[policy][given]
               = (Readiness(RowsOf(S, {}), given, events, policy, {}) # "NOT_READY")
      BY DEF ready
    <3> HIDE DEF breaks
    <3>3. breaks = Breaks(Listed(InOrder(RowsOf(S, {}))))
      BY DEF breaks
    <3>4. Readiness(RowsOf(S, {}), given, events, "WARN", {}) = "NOT_READY"
            <=> Unready(S, given, events)
      BY <1>3, <3>1, <3>3, ReadyMeans
    <3>5. Readiness(RowsOf(S, {}), given, events, "FAIL", {}) = "NOT_READY"
            <=> Unready(S, given, events) \/ Cardinality(breaks) > 0
      BY <1>3, <3>1, <3>3, ReadyMeans
    <3>6. Readiness(RowsOf(S, {}), given, events, "ALLOW_DOCUMENTED", {}) = "NOT_READY"
            <=> Unready(S, given, events) \/ Cardinality(breaks) > 0
      BY <1>3, <3>1, <3>3, ReadyMeans
    <3> QED BY <3>2, <3>4, <3>5, <3>6
  <2>4. \A h \in S : Alignment(S, marks)[h] = MarkAt(marks, h)
    BY <1>3, <2>2, MarkOfHour
  <2>5. \A h \in S : Alignment(S, marks)[h] <= h
    <3>1. \A h \in S : h \in Nat /\ h # 0
      BY <1>3
    <3> QED BY <2>4, <3>1 DEF MarkAt, Missing
  <2>6. ASSUME ready(events)["WARN"][marks]
        PROVE  ValidateFutures(RowsOf(S, {}), marks, events, "WARN") # Rejected
    <3>1. Unmarked(S, marks) = {}
      BY <2>3, <2>6 DEF Unready
    <3>2. {h \in S : Alignment(S, marks)[h] = Missing} = {}
      BY <2>4, <3>1 DEF Unmarked
    <3>3. Opens(RowsOf(S, {})) = S /\ Duplicates(RowsOf(S, {})) = 0 /\ AllClosed(RowsOf(S, {}))
          /\ RowsOf(S, {}) # <<>>
      BY <1>3, RowsOfHours
    <3>4. ValidateFutures(RowsOf(S, {}), marks, events, "WARN")
            = [candles |-> S, marks |-> marks, funding |-> events, gaps |-> Cardinality(breaks)]
      BY <3>2, <3>3 DEF ValidateFutures
    <3> HIDE DEF breaks
    <3> QED BY <3>4 DEF Rejected
  <2>7. ASSUME NEW m \in Hours, ready(events)["WARN"][marks]
        PROVE  ready(events)["WARN"][marks \cup {m}]
    <3>1. ~ Unready(S, marks, events)
      BY <2>3, <2>7
    <3>2. Unmarked(S, marks \cup {m}) \subseteq Unmarked(S, marks)
      <4>1. 0 \notin marks \cup {m}
        BY <1>2, <2>2
      <4>2. \A h \in S : h \in Nat /\ h # 0
        BY <1>3
      <4>3. \A h \in S : MarkAt(marks \cup {m}, h) = 0 => MarkAt(marks, h) = 0
        BY <4>1, <4>2 DEF MarkAt, Missing
      <4> QED BY <4>3 DEF Unmarked, Missing
    <3>3. ~ Unready(S, marks \cup {m}, events)
      BY <3>1, <3>2 DEF Unready
    <3>4. marks \cup {m} \in SUBSET Hours
      OBVIOUS
    <3> QED BY <2>3, <3>3, <3>4
  <2> HIDE DEF breaks
  <2> QED BY <2>3, <2>5, <2>6, <2>7
<1> HIDE DEF breaks
<1>5. \A events \in {{}, {1}, {1, 2, 5}} : ReadyHolds(S, events, ready(events))
  BY <1>4
<1> QED BY <1>5 DEF ReadyIsValid

-----------------------------------------------------------------------------
(* The data of every command *)

\* Commands that work on data leave the table and the experiments alone, so what is
\* proved of those holds of the specification the runs check.
THEOREM StudiesAreCommands == StudySpec => Spec
<1>1. StudyInit => Init
  BY DEF StudyInit
<1>2. [StudyNext]_<<vars, task>> => [Next]_vars
  BY DEF StudyNext, Undertake, Prepare, Choose, Assess, Diagnose, Describe, Measure, Trace,
         Replay, Follow, Label, Tabulate, Qualify, Weigh, Separate
<1> QED BY <1>1, <1>2, PTL DEF StudySpec, Spec

\* What a command works on is a history of hours that is not empty.
StudyInv == Posed("data") => task.of \in (SUBSET Hours) \ {{}}

\* Every property of the data, for a history of any hours of any length.
LEMMA HistoriesAreHonest ==
    ASSUME NEW S \in SUBSET Hours, S # {}
    PROVE  /\ ReadyIsValid(S)
           /\ SegmentsAreWarm(S) /\ SegmentsKeepMarks(S)
           /\ SplitsAreChronological(S) /\ SpotFoldsAreWhole(S)
           /\ WindowsAreHonest(Max(S)) /\ CommandsMissOneFold(Max(S))
           /\ CalendarIsWhole
<1>1. Horizon \in Nat /\ (\A h \in Hours : h \in Nat /\ h # 0) /\ IsFiniteSet(Hours)
  <2>1. Horizon \in Nat
    BY DataAssumption
  <2> QED BY <2>1, FS_Interval DEF Hours
<1>2. S \in SUBSET Nat /\ 0 \notin S /\ IsFiniteSet(S)
  BY <1>1, FS_Subset
<1>3. Max(S) \in Nat /\ Max(S) # 0
  <2>1. PICK h \in S : TRUE
    OBVIOUS
  <2>2. Max(S) \in S /\ Max(S) \in Nat
    BY <1>2, <2>1, MaxOfFinite
  <2> QED BY <1>2, <2>2
<1>4. \A n \in 1..3 : n \in Nat /\ n # 0
  OBVIOUS
<1>5. \A n \in 1..2 : n \in Nat /\ n # 0 /\ 1 <= n
  OBVIOUS
<1>6. ReadyIsValid(S)
  BY ReadyAlwaysValid
<1>7. SegmentsAreWarm(S)
  <2>1. ASSUME NEW from \in Hours, NEW length \in 1..3, NEW warmup \in 1..2
        PROVE  SegmentsHold(S, from, length, warmup)
    BY <1>1, <1>2, <1>4, <1>5, SegmentsAlwaysHold
  <2> QED BY <2>1 DEF SegmentsAreWarm
<1>8. SegmentsKeepMarks(S)
  <2>1. ASSUME NEW marks \in SUBSET Hours, NEW from \in Hours
        PROVE  MarksHold(S, marks, from, 2, 1)
    <3>1. marks \in SUBSET Nat /\ from \in Nat /\ 2 \in Nat /\ 2 # 0 /\ 1 \in Nat
      BY <1>1
    <3> QED BY <1>2, <3>1, MarksAlwaysHold
  <2> QED BY <2>1 DEF SegmentsKeepMarks
<1>9. SplitsAreChronological(S)
  <2>1. SUFFICES ASSUME NEW warmup \in 1..2
        PROVE  /\ \A percent \in {20, 40, 60} : HoldoutHolds(S, percent, 20, warmup)
               /\ \A cut \in S : NamedSplitHolds(S, <<<<1, cut>>, <<cut, Horizon + 1>>>>, warmup)
    BY DEF SplitsAreChronological
  <2>2. warmup \in Nat
    BY <1>5
  <2>3. ASSUME NEW percent \in {20, 40, 60} PROVE HoldoutHolds(S, percent, 20, warmup)
    <3>1. percent \in Nat /\ 20 \in Nat
      OBVIOUS
    <3> QED BY <1>2, <2>2, <3>1, HoldoutsAlwaysHold
  <2>4. ASSUME NEW cut \in S
        PROVE  NamedSplitHolds(S, <<<<1, cut>>, <<cut, Horizon + 1>>>>, warmup)
    <3> DEFINE ranges == <<<<1, cut>>, <<cut, Horizon + 1>>>>
    <3>1. ranges \in [1..2 -> Nat \X Nat] /\ 2 \in Nat
      BY <1>1, <1>2
    <3> HIDE DEF ranges
    <3>2. NamedSplitHolds(S, ranges, warmup)
      BY <1>2, <2>2, <3>1, NamedSplitsAlwaysHold
    <3> QED BY <3>2 DEF ranges
  <2> QED BY <2>3, <2>4
<1>10. SpotFoldsAreWhole(S)
  BY <1>2, SpotFoldsAlwaysWhole
<1>11. WindowsAreHonest(Max(S))
  <2>1. ASSUME NEW v \in Hours, NEW train \in 1..2, NEW length \in 1..2, NEW step \in 1..2
        PROVE  WindowsHold(Max(S), v, train, length, step)
    BY <1>1, <1>3, <1>5, WindowsAlwaysHold
  <2> QED BY <2>1 DEF WindowsAreHonest
<1>12. CommandsMissOneFold(Max(S))
  <2>1. ASSUME NEW train \in 1..2, NEW length \in 1..2, NEW step \in 1..2
        PROVE  OneFoldIsMissed(Max(S), train, length, step, 1)
    <3>1. 1 \in Nat
      OBVIOUS
    <3> QED BY <1>3, <1>5, <3>1, OneFoldIsAlwaysMissed
  <2> QED BY <2>1 DEF CommandsMissOneFold
<1> QED BY <1>6, <1>7, <1>8, <1>9, <1>10, <1>11, <1>12, CalendarAlwaysWhole

\* Whatever hours a download left out, the commands work on a true cut of the history.
THEOREM DataStaysHonest == StudySpec => []DataIsHonest
<1>1. StudyInit => StudyInv
  BY DEF StudyInit, StudyInv, Posed
<1>2. StudyInv /\ [StudyNext]_<<vars, task>> => StudyInv'
  BY DEF StudyInv, Posed, StudyNext, Undertake, Prepare, Choose, Assess, Diagnose, Describe,
         Measure, Trace, Replay, Follow, Label, Tabulate, Qualify, Weigh, Separate, About,
         AtStart
<1>3. StudyInv => DataIsHonest
  BY HistoriesAreHonest DEF StudyInv, DataIsHonest
<1> QED BY <1>1, <1>2, <1>3, PTL DEF StudySpec

-----------------------------------------------------------------------------
(* Labels *)

\* A recorded session: real books, in order of time.
Books == [at : Int, synced : BOOLEAN, ready : BOOLEAN, bid : Int, ask : Int, size : Nat \ {0}]

Recorded(states) ==
    /\ states \in Seq(Books)
    /\ \A i \in 1..Len(states) : states[i].bid < states[i].ask
    /\ \A i, j \in 1..Len(states) : i <= j => states[i].at <= states[j].at

LEMMA RecordedStates ==
    ASSUME NEW states, Recorded(states)
    PROVE  /\ Len(states) \in Nat /\ DOMAIN states = 1..Len(states)
           /\ \A i \in 1..Len(states) :
                 /\ states[i].at \in Int /\ states[i].bid \in Int /\ states[i].ask \in Int
                 /\ states[i].size \in Nat /\ states[i].size >= 1 /\ states[i].bid < states[i].ask
<1>1. states \in Seq(Books)
  BY DEF Recorded
<1>2. Len(states) \in Nat /\ DOMAIN states = 1..Len(states) /\ \A i \in 1..Len(states) : states[i] \in Books
  BY <1>1
<1>3. \A b \in Books : /\ b.at \in Int /\ b.bid \in Int /\ b.ask \in Int /\ b.size \in Nat /\ b.size >= 1
  BY DEF Books
<1> QED BY <1>2, <1>3 DEF Recorded

\* The state an order meets is the first one not before its time.
FirstFrom(states, t, k) ==
    /\ k \in 1..Len(states) /\ states[k].at >= t
    /\ \A i \in 1..(k - 1) : states[i].at < t

LEMMA StateIsFirst ==
    ASSUME NEW states, Len(states) \in Nat, DOMAIN states = 1..Len(states),
           \A i \in 1..Len(states) : states[i].at \in Int, NEW t \in Int
    PROVE  /\ \/ StateAt(states, t) = 0 /\ \A i \in 1..Len(states) : states[i].at < t
              \/ FirstFrom(states, t, StateAt(states, t))
           /\ \A k : FirstFrom(states, t, k) => StateAt(states, t) = k
<1> DEFINE found == {i \in 1..Len(states) : states[i].at >= t}
           least == CHOOSE i \in found : \A j \in found : i <= j
<1>1. StateAt(states, t) = IF found = {} THEN 0 ELSE least
  BY DEF StateAt
<1>2. found \subseteq Nat
  OBVIOUS
<1>3. CASE found = {}
  <2>1. StateAt(states, t) = 0
    BY <1>1, <1>3
  <2>2. \A i \in 1..Len(states) : ~ states[i].at >= t
    BY <1>3
  <2>3. \A i \in 1..Len(states) : states[i].at < t
    BY <2>2
  <2> QED BY <2>1, <2>2, <2>3 DEF FirstFrom
<1>4. CASE found # {}
  <2>1. StateAt(states, t) = least
    BY <1>1, <1>4
  <2>2. least \in found /\ \A j \in found : least <= j
    <3>1. PICK i \in found : \A j \in found : i <= j
      <4> HIDE DEF found
      <4> QED BY <1>2, <1>4, LeastNatural
    <3> HIDE DEF found
    <3> QED BY <3>1
  <2> HIDE DEF least
  <2>3. FirstFrom(states, t, least)
    <3>1. \A i \in 1..(least - 1) : i \in 1..Len(states) /\ ~ least <= i
      BY <2>2
    <3>2. \A i \in 1..(least - 1) : ~ states[i].at >= t
      BY <2>2, <3>1
    <3> QED BY <2>2, <3>1, <3>2 DEF FirstFrom
  <2>4. \A k : FirstFrom(states, t, k) => least = k
    <3>1. SUFFICES ASSUME NEW k, FirstFrom(states, t, k) PROVE least = k
      OBVIOUS
    <3>2. k \in found /\ k \in Nat /\ least \in Nat
      BY <1>2, <2>2, <3>1 DEF FirstFrom
    <3>3. ~ least < k
      <4>1. SUFFICES ASSUME least < k PROVE FALSE
        OBVIOUS
      <4>2. least \in 1..(k - 1)
        BY <2>2, <3>2, <4>1
      <4>3. states[least].at < t /\ states[least].at \in Int
        BY <2>2, <3>1, <4>2 DEF FirstFrom
      <4> QED BY <2>2, <4>3
    <3> QED BY <2>2, <3>2, <3>3
  <2> QED BY <2>1, <2>3, <2>4
<1> QED BY <1>3, <1>4

\* What comes after the state changes nothing.
LEMMA StateOfPrefix ==
    ASSUME NEW states, Recorded(states), NEW t \in Int, NEW n \in 1..Len(states),
           StateAt(states, t) \in 1..n
    PROVE  StateAt(SubSeq(states, 1, n), t) = StateAt(states, t)
<1> DEFINE prefix == SubSeq(states, 1, n)
           k == StateAt(states, t)
<1>1. states \in Seq(Books) /\ n \in Nat /\ n <= Len(states) /\ Len(states) \in Nat
  BY RecordedStates DEF Recorded
<1>2. Len(prefix) = n /\ DOMAIN prefix = 1..n /\ \A i \in 1..n : prefix[i] = states[i]
  BY <1>1
<1>3. \A i \in 1..n : i \in 1..Len(states)
  BY <1>1
<1>4. \A i \in 1..n : prefix[i].at \in Int
  BY <1>2, <1>3, RecordedStates
<1>5. FirstFrom(states, t, k)
  <2>1. k # 0
    BY <1>1
  <2> QED BY <2>1, RecordedStates, StateIsFirst
<1>6. FirstFrom(prefix, t, k)
  <2>1. \A i \in 1..(k - 1) : i \in 1..n
    BY <1>1
  <2> HIDE DEF prefix
  <2> QED BY <1>2, <1>5, <2>1 DEF FirstFrom
<1> HIDE DEF prefix, k
<1>7. StateAt(prefix, t) = k
  BY <1>1, <1>2, <1>4, <1>6, StateIsFirst
<1> QED BY <1>7 DEF prefix, k

-----------------------------------------------------------------------------
(* What an order comes to *)

\* Of q units, those filled at the best level and behind it.
AtBest(s, q)    == IF q < s.size THEN q ELSE s.size
AtSecond(s, q)  == IF q - AtBest(s, q) < s.size THEN q - AtBest(s, q) ELSE s.size
Quantity(s, q)  == AtBest(s, q) + AtSecond(s, q)

LEMMA Quantities ==
    ASSUME NEW s, s.size \in Nat, s.size >= 1, NEW q \in Nat, q >= 1
    PROVE  /\ Quantity(s, q) \in 1..q /\ AtSecond(s, q) \in 0..(Quantity(s, q) - 1)
           /\ Quantity(s, 1) = 1 /\ AtSecond(s, 1) = 0
BY DEF Quantity, AtSecond, AtBest

LEMMA Previewed ==
    ASSUME NEW s, s.size \in Nat, s.size >= 1, s.bid \in Int, s.ask \in Int,
           NEW q \in Nat, q >= 1, NEW buys
    PROVE  LET p == PreviewTaker(s, buys, q)
               Q == Quantity(s, q)
           IN /\ p.quantity = Q /\ p.fee = Q /\ p.at = s.at
              /\ p.value = IF buys THEN Q * s.ask + AtSecond(s, q) ELSE Q * s.bid - AtSecond(s, q)
<1> DEFINE p == PreviewTaker(s, buys, q)
           T == AtBest(s, q)
           B == AtSecond(s, q)
           level == Levels(s, buys)
<1>1. p = [quantity |-> T + B, value |-> T * level[1] + B * level[2],
           best |-> level[1], twiceMid |-> s.bid + s.ask, fee |-> TakerFee * (T + B), at |-> s.at]
  BY Zenon DEF PreviewTaker, AtBest, AtSecond
<1>2. level[1] = (IF buys THEN s.ask ELSE s.bid) /\ level[2] = IF buys THEN s.ask + 1 ELSE s.bid - 1
  BY DEF Levels
<1>3. T \in Nat /\ B \in Nat
  BY DEF AtBest, AtSecond
<1> HIDE DEF p, T, B, level
<1>4. p.quantity = T + B /\ p.fee = T + B /\ p.at = s.at /\ p.value = T * level[1] + B * level[2]
  BY <1>1, <1>3 DEF TakerFee
<1>5. T * level[1] + B * level[2] = IF buys THEN (T + B) * s.ask + B ELSE (T + B) * s.bid - B
  <2>1. T * s.ask + B * (s.ask + 1) = (T + B) * s.ask + B
    BY <1>3
  <2>2. T * s.bid + B * (s.bid - 1) = (T + B) * s.bid - B
    BY <1>3
  <2> QED BY <1>2, <2>1, <2>2
<1>6. Quantity(s, q) = T + B
  BY DEF Quantity, T, B
<1> QED BY <1>4, <1>5, <1>6 DEF p, B

\* What a round trip comes to where the market moved by m between its two legs: F units
\* entered, b of them at the second price, and G left, c of them at the second price.
Earned(F, G, b, c, m) == F * G * m - c * F - b * G
Paid(F, G)            == (F + G) * F

\* A round trip from state s to state z.
IsRoundTrip(s, z, q, long, label) ==
    LET F == Quantity(s, q)
        G == Quantity(z, F)
        gross == Earned(F, G, AtSecond(s, q), AtSecond(z, F), IF long THEN z.bid - s.ask ELSE s.bid - z.ask)
    IN /\ label.status # "NOT_EXECUTABLE"
       /\ label.entry[1].at = s.at /\ label.exit[1].at = z.at
       /\ label.executable <=> G = q
       /\ label.gross[1] = gross /\ label.net[1] = gross - Paid(F, G)

LEMMA SettledTrade ==
    ASSUME NEW s, s.size \in Nat, s.size >= 1, s.bid \in Int, s.ask \in Int, s.at \in Int,
           NEW z, z.size \in Nat, z.size >= 1, z.bid \in Int, z.ask \in Int, z.at \in Int,
           NEW q \in Nat, q >= 1, NEW long \in BOOLEAN,
           NEW e, e = PreviewTaker(s, long, q), NEW x, x = PreviewTaker(z, ~ long, e.quantity)
    PROVE  IsRoundTrip(s, z, q, long, Settled(<<e>>, <<x>>, q, long))
<1> DEFINE F == Quantity(s, q)
           G == Quantity(z, F)
           b == AtSecond(s, q)
           c == AtSecond(z, F)
           label == Settled(<<e>>, <<x>>, q, long)
<1>1. F \in Nat /\ F >= 1 /\ b \in Nat
  BY Quantities
<1>2. e.quantity = F /\ e.fee = F /\ e.at = s.at
      /\ e.value = IF long THEN F * s.ask + b ELSE F * s.bid - b
  BY Previewed
<1> HIDE DEF F, b
<1>3. G \in Nat /\ G >= 1 /\ c \in Nat
  BY <1>1, Quantities
<1>5. x.quantity = G /\ x.fee = G /\ x.at = z.at
      /\ x.value = IF ~ long THEN G * z.ask + c ELSE G * z.bid - c
  <2>1. CASE long
    <3>1. PreviewTaker(z, ~ long, F) = PreviewTaker(z, FALSE, F)
      BY <2>1
    <3> HIDE DEF G, c
    <3>2. LET p == PreviewTaker(z, FALSE, F)
          IN p.quantity = G /\ p.fee = G /\ p.at = z.at /\ p.value = G * z.bid - c
      BY <1>1, Previewed DEF G, c
    <3> QED BY <1>2, <2>1, <3>1, <3>2
  <2>2. CASE ~ long
    <3>1. PreviewTaker(z, ~ long, F) = PreviewTaker(z, TRUE, F)
      BY <2>2
    <3> HIDE DEF G, c
    <3>2. LET p == PreviewTaker(z, TRUE, F)
          IN p.quantity = G /\ p.fee = G /\ p.at = z.at /\ p.value = G * z.ask + c
      BY <1>1, Previewed DEF G, c
    <3> QED BY <1>2, <2>2, <3>1, <3>2
  <2> QED BY <2>1, <2>2
<1> HIDE DEF G, c
<1> DEFINE moved == x.value * F - e.value * G
           gross == IF long THEN moved ELSE - moved
           net   == gross - (F + G) * F
           status == IF net > 0 THEN "NET_POSITIVE" ELSE IF net = 0 THEN "NET_ZERO" ELSE "NET_NEGATIVE"
<1>6. label = [status |-> status, executable |-> G = q, entry |-> <<e>>, exit |-> <<x>>,
               net |-> <<net>>, gross |-> <<gross>>]
  <2>1. <<x>> # NoResult /\ <<e>>[1] = e /\ <<x>>[1] = x
    BY DEF NoResult
  <2> QED BY <1>2, <1>5, <2>1, Zenon DEF Settled
<1>7. gross = Earned(F, G, b, c, IF long THEN z.bid - s.ask ELSE s.bid - z.ask)
  <2>1. CASE long
    <3>1. (G * z.bid - c) * F - (F * s.ask + b) * G = F * G * (z.bid - s.ask) - c * F - b * G
      BY <1>1, <1>3
    <3> QED BY <1>2, <1>5, <2>1, <3>1 DEF Earned
  <2>2. CASE ~ long
    <3>1. - ((G * z.ask + c) * F - (F * s.bid - b) * G) = F * G * (s.bid - z.ask) - c * F - b * G
      BY <1>1, <1>3
    <3> QED BY <1>2, <1>5, <2>2, <3>1 DEF Earned
  <2> QED BY <2>1, <2>2
<1>8. status # "NOT_EXECUTABLE"
  OBVIOUS
<1> HIDE DEF status, net, gross, label
<1>9. /\ label.status = status /\ label.entry = <<e>> /\ label.exit = <<x>>
      /\ label.net = <<net>> /\ label.gross = <<gross>>
  BY <1>6
<1>10. label.executable <=> G = q
  BY <1>6
<1>11. net = gross - Paid(F, G)
  BY DEF net, Paid
<1>12. /\ label.entry[1].at = s.at /\ label.exit[1].at = z.at
       /\ label.gross[1] = gross /\ label.net[1] = net
  BY <1>2, <1>5, <1>9
<1> QED BY <1>7, <1>8, <1>9, <1>10, <1>11, <1>12, Zenon DEF IsRoundTrip, F, G, b, c, label

\* There is a label if and only if there is a state for its exit, and it is the round trip
\* between the states that its two orders meet.
LEMMA RoundTrips ==
    ASSUME NEW states, Recorded(states), NEW t \in Int, NEW horizon \in Nat,
           NEW q \in Nat, q >= 1, NEW long \in BOOLEAN
    PROVE  LET i == StateAt(states, t + Latency)
               j == StateAt(states, t + horizon + Latency)
               e == PreviewTaker(states[i], long, q)
               x == PreviewTaker(states[j], ~ long, e.quantity)
               label == RoundTrip(states, t, horizon, q, long)
           IN /\ j = 0 => label = NotExecutable
              /\ j # 0 => i # 0 /\ label = Settled(<<e>>, <<x>>, q, long)
<1> DEFINE i == StateAt(states, t + Latency)
           j == StateAt(states, t + horizon + Latency)
           e == PreviewTaker(states[i], long, q)
           x == PreviewTaker(states[j], ~ long, e.quantity)
           label == RoundTrip(states, t, horizon, q, long)
<1>1. t + Latency \in Int /\ t + horizon + Latency \in Int /\ t + Latency <= t + horizon + Latency
      /\ (t + horizon) + Latency = t + horizon + Latency
  BY DEF Latency
<1>2. \/ i = 0 /\ \A k \in 1..Len(states) : states[k].at < t + Latency
      \/ FirstFrom(states, t + Latency, i)
  BY <1>1, RecordedStates, StateIsFirst
<1>3. \/ j = 0
      \/ FirstFrom(states, t + horizon + Latency, j)
  BY <1>1, RecordedStates, StateIsFirst
<1>4. j # 0 => i # 0
  <2>1. SUFFICES ASSUME j # 0, i = 0 PROVE FALSE
    OBVIOUS
  <2>2. j \in 1..Len(states) /\ states[j].at >= t + horizon + Latency /\ states[j].at \in Int
    BY <1>3, <2>1, RecordedStates DEF FirstFrom
  <2>3. ~ FirstFrom(states, t + Latency, i)
    BY <2>1 DEF FirstFrom
  <2>4. states[j].at < t + Latency
    BY <1>2, <2>2, <2>3
  <2> QED BY <1>1, <2>2, <2>4
<1>5. ASSUME i # 0
      PROVE  e.quantity \in Nat /\ e.quantity >= 1
  <2>1. i \in 1..Len(states)
    BY <1>2, <1>5 DEF FirstFrom
  <2>2. e.quantity = Quantity(states[i], q)
    BY <2>1, RecordedStates, Previewed
  <2>3. Quantity(states[i], q) \in 1..q
    BY <2>1, RecordedStates, Quantities
  <2> QED BY <2>2, <2>3
<1>6. ASSUME i # 0, j # 0
      PROVE  x.quantity \in Nat /\ x.quantity >= 1
  <2>1. j \in 1..Len(states) /\ e.quantity \in Nat /\ e.quantity >= 1
    BY <1>3, <1>5, <1>6 DEF FirstFrom
  <2> HIDE DEF e
  <2>2. x.quantity = Quantity(states[j], e.quantity)
    BY <2>1, RecordedStates, Previewed
  <2>3. Quantity(states[j], e.quantity) \in 1..e.quantity
    BY <2>1, RecordedStates, Quantities
  <2> QED BY <2>1, <2>2, <2>3
<1>7. ExecuteLeg(states, t, q, long) = IF i = 0 THEN NoResult ELSE IF e.quantity = 0 THEN NoResult ELSE <<e>>
  BY DEF ExecuteLeg, Filled
<1>8. ExecuteLeg(states, t + horizon, e.quantity, ~ long)
        = IF j = 0 THEN NoResult ELSE IF x.quantity = 0 THEN NoResult ELSE <<x>>
  BY <1>1, Zenon DEF ExecuteLeg, Filled
<1>9. label = LET entry == ExecuteLeg(states, t, q, long)
              IN IF entry = NoResult THEN NotExecutable
                 ELSE Settled(entry, ExecuteLeg(states, t + horizon, entry[1].quantity, ~ long), q, long)
  BY DEF RoundTrip
<1> HIDE DEF i, j, e, x, label
<1>10. j = 0 => label = NotExecutable
  <2>1. SUFFICES ASSUME j = 0 PROVE label = NotExecutable
    OBVIOUS
  <2>2. CASE i = 0
    <3>1. ExecuteLeg(states, t, q, long) = NoResult
      BY <1>7, <2>2
    <3> QED BY <1>9, <3>1
  <2>3. CASE i # 0
    <3>1. ExecuteLeg(states, t, q, long) = <<e>> /\ <<e>> # NoResult /\ <<e>>[1] = e
      BY <1>5, <1>7, <2>3 DEF NoResult
    <3>2. ExecuteLeg(states, t + horizon, e.quantity, ~ long) = NoResult
      BY <1>8, <2>1
    <3>3. label = Settled(<<e>>, NoResult, q, long)
      BY <1>9, <3>1, <3>2
    <3>4. Settled(<<e>>, NoResult, q, long) = NotExecutable
      BY Zenon DEF Settled
    <3> QED BY <3>3, <3>4
  <2> QED BY <2>2, <2>3
<1>11. j # 0 => label = Settled(<<e>>, <<x>>, q, long)
  <2>1. SUFFICES ASSUME j # 0 PROVE label = Settled(<<e>>, <<x>>, q, long)
    OBVIOUS
  <2>2. ExecuteLeg(states, t, q, long) = <<e>> /\ <<e>> # NoResult /\ <<e>>[1] = e
    BY <1>4, <1>5, <1>7, <2>1 DEF NoResult
  <2>3. ExecuteLeg(states, t + horizon, e.quantity, ~ long) = <<x>>
    BY <1>4, <1>6, <1>8, <2>1
  <2> QED BY <1>9, <2>2, <2>3
<1> QED BY <1>4, <1>10, <1>11 DEF i, j, e, x, label

\* A round trip pays the spread and the fees; and a larger one is no better by the unit.
LEMMA RoundTripCosts ==
    ASSUME NEW F \in Nat, F >= 1, NEW G \in Nat, G >= 1, NEW b \in Nat, NEW c \in Nat,
           NEW m \in Int, NEW n \in Int, m + n < 0
    PROVE  /\ Earned(F, G, b, c, m) \in Int /\ Paid(F, G) \in Int /\ Paid(F, G) > 0
           /\ (Earned(F, G, b, c, m) - Paid(F, G)) + (Earned(F, G, b, c, n) - Paid(F, G)) < 0
<1> DEFINE p == F * G
           u == c * F
           v == b * G
           w == (F + G) * F
<1>1. p \in Nat /\ p >= 1 /\ u \in Nat /\ v \in Nat /\ w \in Nat /\ w >= 1
  <2>1. p \in Nat /\ u \in Nat /\ v \in Nat /\ w \in Nat
    OBVIOUS
  <2>2. p >= 1
    OBVIOUS
  <2>3. w >= 1
    OBVIOUS
  <2> QED BY <2>1, <2>2, <2>3
<1>2. Earned(F, G, b, c, m) = p * m - u - v /\ Earned(F, G, b, c, n) = p * n - u - v /\ Paid(F, G) = w
  BY DEF Earned, Paid
<1> HIDE DEF p, u, v, w
<1>3. p * m \in Int /\ p * n \in Int /\ p * m + p * n = p * (m + n)
  BY <1>1
<1>4. p * (m + n) < 0
  BY <1>1
<1> QED BY <1>1, <1>2, <1>3, <1>4

LEMMA LargerIsNoBetter ==
    ASSUME NEW q \in Nat, q >= 1, NEW b \in Nat, NEW c \in Nat, NEW m \in Int
    PROVE  Earned(q, q, b, c, m) - Paid(q, q) <= q * q * (Earned(1, 1, 0, 0, m) - Paid(1, 1))
<1>1. Earned(1, 1, 0, 0, m) - Paid(1, 1) = m - 2
  BY DEF Earned, Paid
<1>2. Earned(q, q, b, c, m) - Paid(q, q) = q * q * (m - 2) - c * q - b * q
  BY DEF Earned, Paid
<1>3. c * q \in Nat /\ b * q \in Nat /\ q * q * (m - 2) \in Int
  OBVIOUS
<1> QED BY <1>1, <1>2, <1>3

\* Of finitely many numbers one is the greatest.
LEMMA GreatestOf ==
    ASSUME NEW n \in Nat, NEW v, \A i \in 1..n : v[i] \in Int, NEW W, W \subseteq 1..n, W # {}
    PROVE  \E a \in W : \A b \in W : v[b] <= v[a]
<1> DEFINE Topped(U) == \E a \in U : \A b \in U : v[b] <= v[a]
           T == {m \in Nat : \E U : U \subseteq W /\ U \subseteq 1..m /\ U # {} /\ ~ Topped(U)}
<1>1. SUFFICES ASSUME T # {} PROVE FALSE
  <2>1. n \notin T => Topped(W)
    OBVIOUS
  <2> QED BY <2>1
<1>2. PICK m \in T : \A k \in T : m <= k
  <2>1. T \subseteq Nat
    OBVIOUS
  <2> HIDE DEF T
  <2> QED BY <1>1, <2>1, LeastNatural
<1>3. m \in Nat
  BY <1>2
<1>4. PICK U : U \subseteq W /\ U \subseteq 1..m /\ U # {} /\ ~ Topped(U)
  BY <1>2
<1>5. m # 0 /\ m - 1 \in Nat /\ ~ m <= m - 1
  BY <1>3, <1>4
<1>6. \A X : X \subseteq W /\ X \subseteq 1..(m - 1) /\ X # {} => Topped(X)
  BY <1>2, <1>5
<1> DEFINE X == U \ {m}
<1>7. X \subseteq W /\ X \subseteq 1..(m - 1)
  BY <1>3, <1>4
<1>8. m \in U
  <2>1. m \notin U => X = U
    OBVIOUS
  <2> QED BY <1>4, <1>6, <1>7, <2>1
<1>9. \A i \in U : v[i] \in Int
  BY <1>4
<1>10. CASE X = {}
  <2>1. \A i \in U : i = m
    BY <1>10
  <2>2. v[m] <= v[m]
    BY <1>8, <1>9
  <2> QED BY <1>4, <1>8, <2>1, <2>2
<1>11. CASE X # {}
  <2>1. PICK a \in X : \A b \in X : v[b] <= v[a]
    BY <1>6, <1>7, <1>11
  <2>2. \A i \in U : i = m \/ i \in X
    OBVIOUS
  <2>3. a \in U /\ v[a] \in Int /\ v[m] \in Int
    BY <1>8, <1>9, <2>1
  <2>4. CASE v[m] <= v[a]
    <3>1. \A b \in U : v[b] <= v[a]
      BY <2>1, <2>2, <2>4
    <3> QED BY <1>4, <2>3, <3>1
  <2>5. CASE ~ v[m] <= v[a]
    <3>1. v[m] <= v[m] /\ \A b \in X : v[b] <= v[m]
      BY <1>9, <2>1, <2>3, <2>5
    <3>2. \A b \in U : v[b] <= v[m]
      BY <2>2, <3>1
    <3> QED BY <1>4, <1>8, <3>2
  <2> QED BY <2>4, <2>5
<1> QED BY <1>10, <1>11

\* The greatest and the least of a number of values are on either side of each of them.
LEMMA Extremes ==
    ASSUME NEW n \in Nat, NEW v, \A i \in 1..n : v[i] \in Int, NEW W, W \subseteq 1..n, NEW j \in W
    PROVE  LET values == {v[i] : i \in W}
           IN /\ v[j] <= CHOOSE x \in values : \A y \in values : y <= x
              /\ (CHOOSE x \in values : \A y \in values : x <= y) <= v[j]
              /\ (CHOOSE x \in values : \A y \in values : y <= x) \in Int
              /\ (CHOOSE x \in values : \A y \in values : x <= y) \in Int
<1> DEFINE values == {v[i] : i \in W}
           w == [i \in 1..n |-> - v[i]]
<1>1. \E a \in W : \A b \in W : v[b] <= v[a]
  BY GreatestOf
<1>2. \E a \in W : \A b \in W : v[a] <= v[b]
  <2>1. \A i \in 1..n : w[i] \in Int /\ w[i] = - v[i]
    OBVIOUS
  <2> HIDE DEF w
  <2>2. PICK a \in W : \A b \in W : w[b] <= w[a]
    BY <2>1, GreatestOf
  <2>3. \A b \in W : - v[b] <= - v[a] /\ v[a] \in Int /\ v[b] \in Int
    BY <2>1, <2>2
  <2> QED BY <2>3
<1>3. \E x \in values : \A y \in values : y <= x
  BY <1>1
<1>4. \E x \in values : \A y \in values : x <= y
  BY <1>2
<1>5. v[j] \in values /\ values \subseteq Int
  OBVIOUS
<1> HIDE DEF values
<1>6. /\ v[j] <= CHOOSE x \in values : \A y \in values : y <= x
      /\ (CHOOSE x \in values : \A y \in values : y <= x) \in Int
  BY <1>3, <1>5
<1>7. /\ (CHOOSE x \in values : \A y \in values : x <= y) <= v[j]
      /\ (CHOOSE x \in values : \A y \in values : x <= y) \in Int
  BY <1>4, <1>5
<1> QED BY <1>6, <1>7 DEF values

\* What a label is, from the two states.
LEMMA Labels ==
    ASSUME NEW states, Recorded(states), NEW t \in Int, NEW horizon \in Nat,
           NEW q \in Nat, q >= 1, NEW long \in BOOLEAN
    PROVE  LET i == StateAt(states, t + Latency)
               j == StateAt(states, t + horizon + Latency)
               label == RoundTrip(states, t, horizon, q, long)
           IN /\ j = 0 => /\ label.status = "NOT_EXECUTABLE"
                          /\ \A k \in 1..Len(states) : states[k].at < t + horizon + Latency
              /\ j # 0 => /\ FirstFrom(states, t + Latency, i) /\ FirstFrom(states, t + horizon + Latency, j)
                          /\ IsRoundTrip(states[i], states[j], q, long, label)
<1> DEFINE i == StateAt(states, t + Latency)
           j == StateAt(states, t + horizon + Latency)
           label == RoundTrip(states, t, horizon, q, long)
<1>1. t + Latency \in Int /\ t + horizon + Latency \in Int
  BY DEF Latency
<1>2. \/ i = 0 /\ \A k \in 1..Len(states) : states[k].at < t + Latency
      \/ FirstFrom(states, t + Latency, i)
  BY <1>1, RecordedStates, StateIsFirst
<1>3. \/ j = 0 /\ \A k \in 1..Len(states) : states[k].at < t + horizon + Latency
      \/ FirstFrom(states, t + horizon + Latency, j)
  BY <1>1, RecordedStates, StateIsFirst
<1>4. ~ FirstFrom(states, t + Latency, 0) /\ ~ FirstFrom(states, t + horizon + Latency, 0)
  BY DEF FirstFrom
<1>5. ASSUME j = 0
      PROVE  label.status = "NOT_EXECUTABLE" /\ \A k \in 1..Len(states) : states[k].at < t + horizon + Latency
  <2>1. label = NotExecutable
    BY <1>5, RoundTrips
  <2>2. NotExecutable.status = "NOT_EXECUTABLE"
    BY DEF NotExecutable
  <2>3. \A k \in 1..Len(states) : states[k].at < t + horizon + Latency
    <3> HIDE DEF j
    <3> QED BY <1>3, <1>4, <1>5
  <2> HIDE DEF label
  <2> QED BY <2>1, <2>2, <2>3
<1>6. ASSUME j # 0
      PROVE  /\ FirstFrom(states, t + Latency, i) /\ FirstFrom(states, t + horizon + Latency, j)
             /\ IsRoundTrip(states[i], states[j], q, long, label)
  <2> DEFINE e == PreviewTaker(states[i], long, q)
             x == PreviewTaker(states[j], ~ long, e.quantity)
  <2>1. i # 0 /\ label = Settled(<<e>>, <<x>>, q, long)
    BY <1>6, RoundTrips
  <2>2. FirstFrom(states, t + Latency, i) /\ FirstFrom(states, t + horizon + Latency, j)
    <3> HIDE DEF i, j
    <3> QED BY <1>2, <1>3, <1>6, <2>1
  <2> HIDE DEF i, j, label
  <2>3. i \in 1..Len(states) /\ j \in 1..Len(states)
    BY <2>2 DEF FirstFrom
  <2>4. IsRoundTrip(states[i], states[j], q, long, Settled(<<e>>, <<x>>, q, long))
    <3>1. /\ states[i].at \in Int /\ states[i].bid \in Int /\ states[i].ask \in Int
          /\ states[i].size \in Nat /\ states[i].size >= 1
      BY <2>3, RecordedStates
    <3>2. /\ states[j].at \in Int /\ states[j].bid \in Int /\ states[j].ask \in Int
          /\ states[j].size \in Nat /\ states[j].size >= 1
      BY <2>3, RecordedStates
    <3>3. e = PreviewTaker(states[i], long, q) /\ x = PreviewTaker(states[j], ~ long, e.quantity)
      BY Zenon
    <3> HIDE DEF e, x
    <3> QED BY <3>1, <3>2, <3>3, SettledTrade
  <2> QED BY <2>1, <2>2, <2>4
<1> HIDE DEF i, j, label
<1>7. /\ j = 0 => /\ label.status = "NOT_EXECUTABLE"
                  /\ \A k \in 1..Len(states) : states[k].at < t + horizon + Latency
      /\ j # 0 => /\ FirstFrom(states, t + Latency, i) /\ FirstFrom(states, t + horizon + Latency, j)
                  /\ IsRoundTrip(states[i], states[j], q, long, label)
  BY <1>5, <1>6
<1> QED BY <1>7 DEF i, j, label

\* No later state is met: a prefix of the session that holds the exit has the same label.
LEMMA LabelOfPrefix ==
    ASSUME NEW states, Recorded(states), NEW t \in Int, NEW horizon \in Nat,
           NEW q \in Nat, q >= 1, NEW long \in BOOLEAN, NEW n \in 1..Len(states),
           StateAt(states, t + horizon + Latency) \in 1..n, StateAt(states, t + Latency) \in 1..n
    PROVE  RoundTrip(SubSeq(states, 1, n), t, horizon, q, long) = RoundTrip(states, t, horizon, q, long)
<1> DEFINE prefix == SubSeq(states, 1, n)
           i == StateAt(states, t + Latency)
           j == StateAt(states, t + horizon + Latency)
           e == PreviewTaker(states[i], long, q)
           x == PreviewTaker(states[j], ~ long, e.quantity)
<1>1. states \in Seq(Books) /\ n \in Nat /\ n <= Len(states) /\ Len(states) \in Nat
  BY RecordedStates DEF Recorded
<1>2. /\ prefix \in Seq(Books) /\ Len(prefix) = n
      /\ \A k \in 1..n : k \in 1..Len(states) /\ prefix[k] = states[k]
  BY <1>1
<1>3. Recorded(prefix)
  <2> HIDE DEF prefix
  <2> QED BY <1>2 DEF Recorded
<1>4. t + Latency \in Int /\ t + horizon + Latency \in Int
  BY DEF Latency
<1>5. StateAt(prefix, t + Latency) = i /\ StateAt(prefix, t + horizon + Latency) = j
  BY <1>4, StateOfPrefix
<1>6. i # 0 /\ j # 0 /\ prefix[i] = states[i] /\ prefix[j] = states[j]
  <2> HIDE DEF prefix
  <2>1. 0 \notin 1..n
    BY <1>1
  <2> QED BY <1>2, <2>1
<1>7. RoundTrip(states, t, horizon, q, long) = Settled(<<e>>, <<x>>, q, long)
  BY <1>6, RoundTrips
<1> HIDE DEF prefix, i, j
<1>8. RoundTrip(prefix, t, horizon, q, long) = Settled(<<e>>, <<x>>, q, long)
  <2> DEFINE e2 == PreviewTaker(prefix[i], long, q)
             x2 == PreviewTaker(prefix[j], ~ long, e2.quantity)
  <2>1. j # 0 => RoundTrip(prefix, t, horizon, q, long) = Settled(<<e2>>, <<x2>>, q, long)
    BY <1>3, <1>5, RoundTrips
  <2>2. e2 = e
    BY <1>6
  <2>3. x2 = x
    BY <1>6, <2>2, Zenon
  <2> HIDE DEF e, x, e2, x2
  <2> QED BY <1>6, <2>1, <2>2, <2>3
<1> QED BY <1>7, <1>8 DEF prefix

\* What everything is left for at a state of the window lies between the best and the worst of
\* the window.
LEMMA Reached ==
    ASSUME NEW states, Recorded(states), NEW t \in Int, NEW horizon \in Nat,
           NEW q \in Nat, q >= 1, NEW long \in BOOLEAN,
           StateAt(states, t + horizon + Latency) # 0,
           RoundTrip(states, t, horizon, q, long).executable,
           RoundTrip(states, t, horizon, q, long).exit[1].at <= t + LongestHorizon
    PROVE  LET label == RoundTrip(states, t, horizon, q, long)
               range == Excursions(states, t, q, long)
               paid  == label.exit[1].value
           IN IF long THEN range[2] <= paid /\ paid <= range[1]
                      ELSE range[1] <= paid /\ paid <= range[2]
<1> DEFINE i == StateAt(states, t + Latency)
           j == StateAt(states, t + horizon + Latency)
           s == states[i]
           z == states[j]
           label == RoundTrip(states, t, horizon, q, long)
           F == Quantity(s, q)
           b == AtSecond(s, q)
           c == AtSecond(z, F)
           e == PreviewTaker(s, long, q)
           entry  == ExecuteLeg(states, t, q, long)
           filled == entry[1].quantity
           Leg(k) == PreviewTaker(states[k], ~ long, filled)
           window == {k \in DOMAIN states : /\ t <= states[k].at /\ states[k].at <= t + LongestHorizon
                                            /\ Leg(k).quantity = filled}
           values == {Leg(k).value : k \in window}
           highest == CHOOSE n \in values : \A m \in values : m <= n
           lowest  == CHOOSE n \in values : \A m \in values : n <= m
<1>1. /\ FirstFrom(states, t + Latency, i) /\ FirstFrom(states, t + horizon + Latency, j)
      /\ IsRoundTrip(s, z, q, long, label)
  BY Labels
<1>2. i \in 1..Len(states) /\ j \in 1..Len(states) /\ z.at >= t + horizon + Latency
  BY <1>1 DEF FirstFrom
<1>3. Len(states) \in Nat /\ DOMAIN states = 1..Len(states)
  BY RecordedStates
<1> HIDE DEF i, j
<1>4. /\ s.at \in Int /\ s.bid \in Int /\ s.ask \in Int /\ s.size \in Nat /\ s.size >= 1
      /\ z.at \in Int /\ z.bid \in Int /\ z.ask \in Int /\ z.size \in Nat /\ z.size >= 1
  BY <1>2, RecordedStates
<1> HIDE DEF label
<1>5. F \in 1..q /\ b \in Nat
  BY <1>4, Quantities
<1>6. Quantity(z, F) \in 1..F /\ c \in Nat
  <2>1. F \in Nat /\ F >= 1
    BY <1>5
  <2> HIDE DEF F
  <2> QED BY <1>4, <2>1, Quantities
<1>7. Quantity(z, F) = q
  <2>1. label.executable
    BY DEF label
  <2>2. label.executable <=> Quantity(z, Quantity(s, q)) = q
    BY <1>1 DEF IsRoundTrip
  <2> QED BY <2>1, <2>2
<1>8. F = q
  <2>1. F \in 1..q
    BY <1>5
  <2>2. q \in 1..F
    BY <1>6, <1>7
  <2> HIDE DEF F
  <2> QED BY <2>1, <2>2
<1>9. label.exit[1].at = z.at
  BY <1>1 DEF IsRoundTrip
<1>10. e.quantity = F /\ e.value = IF long THEN F * s.ask + b ELSE F * s.bid - b
  BY <1>4, Previewed
<1>11. entry[1] = e /\ entry # NoResult /\ filled = q
  <2>1. entry = IF e.quantity = 0 THEN NoResult ELSE <<e>>
    <3>1. i # 0
      BY <1>2
    <3> QED BY <3>1 DEF ExecuteLeg, Filled, i
  <2>2. e.quantity = q /\ e.quantity # 0 /\ <<e>> # NoResult /\ <<e>>[1] = e
    BY <1>8, <1>10 DEF NoResult
  <2> HIDE DEF e, entry
  <2>3. entry = <<e>>
    BY <2>1, <2>2
  <2> QED BY <2>2, <2>3
<1>12. Excursions(states, t, q, long)
         = IF entry = NoResult THEN NoResult
           ELSE IF window = {} THEN NoResult
           ELSE IF long THEN <<highest, lowest>> ELSE <<lowest, highest>>
  BY DEF Excursions
<1> HIDE DEF entry, filled
<1>13. \A k \in 1..Len(states) :
          /\ Leg(k).value \in Int
          /\ k = j => /\ Leg(k).quantity = q
                      /\ Leg(k).value = IF long THEN q * z.bid - c ELSE q * z.ask + c
  <2>1. SUFFICES ASSUME NEW k \in 1..Len(states)
                 PROVE  /\ Leg(k).value \in Int
                        /\ k = j => /\ Leg(k).quantity = q
                                    /\ Leg(k).value = IF long THEN q * z.bid - c ELSE q * z.ask + c
    OBVIOUS
  <2> DEFINE y == states[k]
             d == AtSecond(y, q)
             Q == Quantity(y, q)
  <2>2. y.bid \in Int /\ y.ask \in Int /\ y.size \in Nat /\ y.size >= 1
    BY <2>1, RecordedStates
  <2>4. k = j => d = c /\ Q = q
    BY <1>7, <1>8
  <2> HIDE DEF y
  <2>5. Q \in Nat /\ d \in Nat
    <3>1. Q \in 1..q /\ d \in 0..(Q - 1)
      BY <2>2, Quantities
    <3> HIDE DEF Q, d
    <3> QED BY <3>1
  <2>6. CASE long
    <3>1. PreviewTaker(y, ~ long, filled) = PreviewTaker(y, FALSE, q)
      BY <1>11, <2>6
    <3>2. LET p == PreviewTaker(y, FALSE, q) IN p.quantity = Q /\ p.value = Q * y.bid - d
      BY <2>2, Previewed
    <3> HIDE DEF Q, d
    <3>3. Leg(k).quantity = Q /\ Leg(k).value = Q * y.bid - d
      BY <3>1, <3>2 DEF y
    <3>4. Leg(k).value \in Int
      BY <2>2, <2>5, <3>3
    <3>5. k = j => Leg(k).quantity = q /\ Leg(k).value = q * z.bid - c
      BY <2>4, <3>3 DEF y
    <3> HIDE DEF Leg
    <3> QED BY <2>6, <3>4, <3>5
  <2>7. CASE ~ long
    <3>1. PreviewTaker(y, ~ long, filled) = PreviewTaker(y, TRUE, q)
      BY <1>11, <2>7
    <3>2. LET p == PreviewTaker(y, TRUE, q) IN p.quantity = Q /\ p.value = Q * y.ask + d
      BY <2>2, Previewed
    <3> HIDE DEF Q, d
    <3>3. Leg(k).quantity = Q /\ Leg(k).value = Q * y.ask + d
      BY <3>1, <3>2 DEF y
    <3>4. Leg(k).value \in Int
      BY <2>2, <2>5, <3>3
    <3>5. k = j => Leg(k).quantity = q /\ Leg(k).value = q * z.ask + c
      BY <2>4, <3>3 DEF y
    <3> HIDE DEF Leg
    <3> QED BY <2>7, <3>4, <3>5
  <2> QED BY <2>6, <2>7
<1>14. j \in window
  <2>1. t <= z.at
    BY <1>2, <1>4 DEF Latency
  <2>2. z.at <= t + LongestHorizon
    BY <1>9 DEF label
  <2>3. Leg(j).quantity = filled
    BY <1>2, <1>11, <1>13
  <2> HIDE DEF Leg
  <2> QED BY <1>2, <1>3, <2>1, <2>2, <2>3
<1>15. label.exit[1] = Leg(j)
  <2> DEFINE x == PreviewTaker(z, ~ long, e.quantity)
  <2>1. label = Settled(<<e>>, <<x>>, q, long)
    BY RoundTrips DEF i, j, label
  <2>2. x = Leg(j) /\ <<x>>[1] = x
    BY <1>8, <1>10, <1>11
  <2> HIDE DEF e, x, Leg
  <2>3. label.exit = <<x>> \/ label = NotExecutable
    BY <2>1, Zenon DEF Settled
  <2>4. label # NotExecutable
    BY <1>1 DEF IsRoundTrip, NotExecutable
  <2> QED BY <2>2, <2>3, <2>4
<1> DEFINE v == [k \in 1..Len(states) |-> Leg(k).value]
           u == {v[k] : k \in window}
<1>16. window \subseteq 1..Len(states) /\ u = values /\ v[j] = Leg(j).value
       /\ \A k \in 1..Len(states) : v[k] \in Int
  <2> HIDE DEF Leg
  <2> QED BY <1>2, <1>3, <1>13
<1>17. Leg(j).value <= highest /\ lowest <= Leg(j).value
  <2> HIDE DEF Leg, window, values, v
  <2>1. LET some == {v[k] : k \in window}
        IN /\ v[j] <= CHOOSE n \in some : \A m \in some : m <= n
           /\ (CHOOSE n \in some : \A m \in some : n <= m) <= v[j]
           /\ (CHOOSE n \in some : \A m \in some : m <= n) \in Int
           /\ (CHOOSE n \in some : \A m \in some : n <= m) \in Int
    BY <1>3, <1>14, <1>16, Extremes
  <2> QED BY <1>16, <2>1
<1>18. Excursions(states, t, q, long) = IF long THEN <<highest, lowest>> ELSE <<lowest, highest>>
  BY <1>11, <1>12, <1>14
<1> HIDE DEF Leg, window, values, v, u, highest, lowest
<1>19. LET range == Excursions(states, t, q, long)
           paid  == label.exit[1].value
       IN IF long THEN range[2] <= paid /\ paid <= range[1]
                  ELSE range[1] <= paid /\ paid <= range[2]
  BY <1>15, <1>17, <1>18
<1> QED BY <1>19 DEF label

\* A label is honest on every recorded session: every property of labels the runs ask of the
\* sessions they enumerate, for any decision, horizon, size and side.
THEOREM LabelsAlwaysHonest ==
    ASSUME NEW states, Recorded(states), NEW t \in Int, NEW horizon \in Nat,
           NEW q \in Nat \ {0}, NEW long \in BOOLEAN
    PROVE  LabelIsHonest(states, t, horizon, q, long)
<1> DEFINE i == StateAt(states, t + Latency)
           j == StateAt(states, t + horizon + Latency)
           s == states[i]
           z == states[j]
           label == RoundTrip(states, t, horizon, q, long)
           other == RoundTrip(states, t, horizon, q, ~ long)
           small == RoundTrip(states, t, horizon, 1, long)
           range == Excursions(states, t, q, long)
           Met(leg, from) == leg.at >= from + Latency /\ \A k \in DOMAIN states : ~ (from + Latency <= states[k].at /\ states[k].at < leg.at)
           Ends == \A k \in DOMAIN states : states[k].at < t + horizon + Latency
           Unseen == \A n \in DOMAIN states : label.exit[1].at <= states[n].at =>
                          label = RoundTrip(SubSeq(states, 1, n), t, horizon, q, long)
           paid == label.exit[1].value
           Bounds == IF long THEN range[2] <= paid /\ paid <= range[1]
                             ELSE range[1] <= paid /\ paid <= range[2]
<1>1. q \in Nat /\ q >= 1 /\ Len(states) \in Nat /\ DOMAIN states = 1..Len(states)
      /\ t + Latency \in Int /\ t + horizon + Latency \in Int /\ t + horizon \in Int
      /\ (t + horizon) + Latency = t + horizon + Latency
  BY RecordedStates DEF Latency
<1>2. SUFFICES /\ label.status = "NOT_EXECUTABLE" <=> Ends
               /\ label.status # "NOT_EXECUTABLE" =>
                     /\ Met(label.entry[1], t) /\ Met(label.exit[1], t + horizon)
                     /\ Unseen
                     /\ label.net[1] < label.gross[1] /\ label.net[1] + other.net[1] < 0
                     /\ label.executable => label.net[1] <= q * q * small.net[1]
                     /\ label.executable /\ label.exit[1].at <= t + LongestHorizon => Bounds
  BY Zenon DEF LabelIsHonest
<1>3. CASE j = 0
  <2>1. label.status = "NOT_EXECUTABLE" /\ Ends
    BY <1>1, <1>3, Labels
  <2> HIDE DEF label, Ends
  <2> QED BY <2>1
<1>4. CASE j # 0
  <2>1. /\ FirstFrom(states, t + Latency, i) /\ FirstFrom(states, t + horizon + Latency, j)
        /\ IsRoundTrip(s, z, q, long, label)
    BY <1>1, <1>4, Labels
  <2>2. IsRoundTrip(s, z, 1, long, small)
    BY <1>1, <1>4, Labels
  <2>3. long => IsRoundTrip(s, z, q, FALSE, other)
    <3>1. SUFFICES ASSUME long PROVE IsRoundTrip(s, z, q, FALSE, other)
      OBVIOUS
    <3>2. other = RoundTrip(states, t, horizon, q, FALSE)
      BY <3>1
    <3>3. IsRoundTrip(s, z, q, FALSE, RoundTrip(states, t, horizon, q, FALSE))
      BY <1>1, <1>4, Labels
    <3> HIDE DEF other
    <3> QED BY <3>2, <3>3
  <2>4. ~ long => IsRoundTrip(s, z, q, TRUE, other)
    <3>1. SUFFICES ASSUME ~ long PROVE IsRoundTrip(s, z, q, TRUE, other)
      OBVIOUS
    <3>2. other = RoundTrip(states, t, horizon, q, TRUE)
      BY <3>1
    <3>3. IsRoundTrip(s, z, q, TRUE, RoundTrip(states, t, horizon, q, TRUE))
      BY <1>1, <1>4, Labels
    <3> HIDE DEF other
    <3> QED BY <3>2, <3>3
  <2>5. Unseen
    <3>1. SUFFICES ASSUME NEW n \in 1..Len(states), label.exit[1].at <= states[n].at
                   PROVE  RoundTrip(SubSeq(states, 1, n), t, horizon, q, long) = RoundTrip(states, t, horizon, q, long)
      BY <1>1
    <3>2. label.exit[1].at = z.at
      BY <2>1 DEF IsRoundTrip
    <3> HIDE DEF i, j, label
    <3>3. i \in 1..Len(states) /\ j \in 1..Len(states)
      BY <2>1 DEF FirstFrom
    <3>4. z.at \in Int /\ states[n].at \in Int /\ z.at >= t + horizon + Latency
      BY <2>1, <3>3, RecordedStates DEF FirstFrom
    <3>5. ~ n < j
      <4>1. SUFFICES ASSUME n < j PROVE FALSE
        OBVIOUS
      <4>2. n \in 1..(j - 1)
        BY <1>1, <3>3, <4>1
      <4>3. states[n].at < t + horizon + Latency
        BY <2>1, <4>2 DEF FirstFrom
      <4> QED BY <1>1, <3>1, <3>2, <3>4, <4>3
    <3>6. ~ j < i
      <4>1. SUFFICES ASSUME j < i PROVE FALSE
        OBVIOUS
      <4>2. j \in 1..(i - 1)
        BY <1>1, <3>3, <4>1
      <4>3. states[j].at < t + Latency
        BY <2>1, <4>2 DEF FirstFrom
      <4>4. t + Latency <= t + horizon + Latency
        BY DEF Latency
      <4> QED BY <1>1, <3>4, <4>3, <4>4
    <3>7. i \in 1..n /\ j \in 1..n
      BY <1>1, <3>3, <3>5, <3>6
    <3> QED BY <1>1, <3>7, LabelOfPrefix DEF i, j
  <2>6. ASSUME label.executable, label.exit[1].at <= t + LongestHorizon
        PROVE  Bounds
    BY <1>1, <1>4, <2>6, Reached
  <2> HIDE DEF i, j, label, other, small, range, Unseen
  <2>7. /\ i \in 1..Len(states) /\ s.at >= t + Latency /\ \A k \in 1..(i - 1) : states[k].at < t + Latency
        /\ j \in 1..Len(states) /\ z.at >= t + horizon + Latency /\ \A k \in 1..(j - 1) : states[k].at < t + horizon + Latency
    BY <2>1 DEF FirstFrom
  <2>8. \A k, l \in 1..Len(states) : k <= l => states[k].at <= states[l].at
    BY DEF Recorded
  <2>9. \A k \in 1..Len(states) : states[k].at \in Int
    BY RecordedStates
  <2>10. /\ s.at \in Int /\ s.bid \in Int /\ s.ask \in Int /\ s.size \in Nat /\ s.size >= 1 /\ s.bid < s.ask
         /\ z.at \in Int /\ z.bid \in Int /\ z.ask \in Int /\ z.size \in Nat /\ z.size >= 1 /\ z.bid < z.ask
    BY <2>7, RecordedStates
  <2>11. label.status # "NOT_EXECUTABLE" /\ label.entry[1].at = s.at /\ label.exit[1].at = z.at
    BY <2>1 DEF IsRoundTrip
  <2>12. ~ Ends
    <3>1. ~ z.at < t + horizon + Latency
      BY <1>1, <2>7, <2>10
    <3> QED BY <1>1, <2>7, <3>1
  <2>13. \A k \in 1..Len(states) : ~ (t + Latency <= states[k].at /\ states[k].at < s.at)
    <3>1. SUFFICES ASSUME NEW k \in 1..Len(states), t + Latency <= states[k].at, states[k].at < s.at PROVE FALSE
      OBVIOUS
    <3>2. k < i
      <4>1. ~ i <= k
        BY <2>7, <2>8, <2>9, <2>10, <3>1
      <4> QED BY <1>1, <2>7, <4>1
    <3>3. states[k].at < t + Latency
      BY <2>7, <3>2
    <3> QED BY <1>1, <2>9, <3>1, <3>3
  <2>14. \A k \in 1..Len(states) : ~ (t + horizon + Latency <= states[k].at /\ states[k].at < z.at)
    <3>1. SUFFICES ASSUME NEW k \in 1..Len(states), t + horizon + Latency <= states[k].at, states[k].at < z.at PROVE FALSE
      OBVIOUS
    <3>2. k < j
      <4>1. ~ j <= k
        BY <2>7, <2>8, <2>9, <2>10, <3>1
      <4> QED BY <1>1, <2>7, <4>1
    <3>3. states[k].at < t + horizon + Latency
      BY <2>7, <3>2
    <3> QED BY <1>1, <2>9, <3>1, <3>3
  <2>15. Met(label.entry[1], t) /\ Met(label.exit[1], t + horizon)
    BY <1>1, <2>7, <2>11, <2>13, <2>14
  <2> HIDE DEF Met, Ends, Bounds, s, z
  <2> DEFINE F == Quantity(s, q)
             G == Quantity(z, F)
             b == AtSecond(s, q)
             c == AtSecond(z, F)
             m == IF long THEN z.bid - s.ask ELSE s.bid - z.ask
             n == IF long THEN s.bid - z.ask ELSE z.bid - s.ask
  <2>16. F \in 1..q /\ b \in Nat
    <3>1. F \in 1..q /\ b \in 0..(F - 1)
      BY <1>1, <2>10, Quantities
    <3> HIDE DEF F, b
    <3> QED BY <3>1
  <2>17. G \in 1..F /\ c \in Nat
    <3>1. F \in Nat /\ F >= 1
      BY <1>1, <2>16
    <3> HIDE DEF F
    <3> QED BY <2>10, <3>1, Quantities
  <2>18. m \in Int /\ n \in Int /\ m + n < 0
    BY <2>10
  <2>19. label.gross[1] = Earned(F, G, b, c, m) /\ label.net[1] = Earned(F, G, b, c, m) - Paid(F, G)
         /\ (label.executable <=> G = q)
    BY <2>1, Zenon DEF IsRoundTrip
  <2>20. other.net[1] = Earned(F, G, b, c, n) - Paid(F, G)
    <3>1. CASE long
      <4>1. other.net[1] = Earned(F, G, b, c, s.bid - z.ask) - Paid(F, G)
        BY <2>3, <3>1 DEF IsRoundTrip
      <4> QED BY <3>1, <4>1
    <3>2. CASE ~ long
      <4>1. other.net[1] = Earned(F, G, b, c, z.bid - s.ask) - Paid(F, G)
        BY <2>4, <3>2 DEF IsRoundTrip
      <4> QED BY <3>2, <4>1
    <3> QED BY <3>1, <3>2
  <2>21. small.net[1] = Earned(1, 1, 0, 0, m) - Paid(1, 1)
    <3>1. Quantity(s, 1) = 1 /\ AtSecond(s, 1) = 0 /\ Quantity(z, 1) = 1 /\ AtSecond(z, 1) = 0
      BY <2>10, Quantities
    <3> QED BY <2>2, <3>1 DEF IsRoundTrip
  <2> HIDE DEF F, G, b, c, m, n
  <2>22. F \in Nat /\ F >= 1 /\ G \in Nat /\ G >= 1
    BY <1>1, <2>16, <2>17
  <2>23. /\ Earned(F, G, b, c, m) \in Int /\ Paid(F, G) \in Int /\ Paid(F, G) > 0
         /\ (Earned(F, G, b, c, m) - Paid(F, G)) + (Earned(F, G, b, c, n) - Paid(F, G)) < 0
    BY <2>16, <2>17, <2>18, <2>22, RoundTripCosts
  <2>24. label.net[1] < label.gross[1] /\ label.net[1] + other.net[1] < 0
    BY <2>19, <2>20, <2>23
  <2>25. label.executable => label.net[1] <= q * q * small.net[1]
    <3>1. SUFFICES ASSUME label.executable PROVE label.net[1] <= q * q * small.net[1]
      OBVIOUS
    <3>2. G = q /\ F = q
      <4>1. G = q
        BY <2>19, <3>1
      <4> QED BY <1>1, <2>16, <2>17, <4>1
    <3> QED BY <1>1, <2>16, <2>17, <2>18, <2>19, <2>21, <3>2, LargerIsNoBetter
  <2> QED BY <2>5, <2>6, <2>11, <2>12, <2>15, <2>24, <2>25
<1> QED BY <1>3, <1>4

-----------------------------------------------------------------------------
(* The answer to the question of an edge *)

\* What there may be to go on: the data, and whatever holds of them.
Answerable == [status : {"ENGINEERING_ONLY", "EXPLORATORY", "DISCOVERY_READY", "CONFIRMATION_READY"},
             dates : Nat, holds : SUBSET STRING]

\* Whether there is an edge within reach, told from what holds.
Abundant(evidence) == DiscoveryReady(evidence.status) /\ evidence.dates >= 2

Needed == {"quality", "episodes", "makers", "evaluable"}

LEMMA AnswerCases ==
    ASSUME NEW evidence \in Answerable, NEW holds
    PROVE  LET answer == AccessibleEdgeAnswer([evidence EXCEPT !.holds = holds])
           IN /\ answer = "MORE_DATA_REQUIRED" <=> ~ (Abundant(evidence) /\ Needed \subseteq holds)
              /\ answer = "YES" <=> /\ Abundant(evidence) /\ Required \subseteq holds
                                    /\ Forbidden \cap holds = {}
              /\ answer \in {"MORE_DATA_REQUIRED", "YES", "NO"}
<1> DEFINE e == [evidence EXCEPT !.holds = holds]
<1>1. e.status = evidence.status /\ e.dates = evidence.dates /\ e.holds = holds
  BY DEF Answerable
<1> HIDE DEF e
<1>2. Abundant(e) <=> Abundant(evidence)
  BY <1>1 DEF Abundant
<1>3. LET answer == AccessibleEdgeAnswer(e)
      IN /\ answer = "MORE_DATA_REQUIRED" <=> ~ (Abundant(e) /\ Needed \subseteq e.holds)
         /\ answer = "YES" <=> /\ Abundant(e) /\ Required \subseteq e.holds
                               /\ Forbidden \cap e.holds = {}
         /\ answer \in {"MORE_DATA_REQUIRED", "YES", "NO"}
  <2> DEFINE ready == DiscoveryReady(e.status) /\ e.dates >= 2 /\ {"quality", "episodes", "makers"} \subseteq e.holds
             passes == /\ {"candidates", "latency", "direction", "spread", "bootstrap"} \subseteq e.holds
                       /\ Forbidden \cap e.holds = {}
             known == ready /\ "evaluable" \in e.holds
  <2>1. AccessibleEdgeAnswer(e) = IF ~ known THEN "MORE_DATA_REQUIRED" ELSE IF passes THEN "YES" ELSE "NO"
    BY DEF AccessibleEdgeAnswer
  <2>2. known <=> Abundant(e) /\ Needed \subseteq e.holds
    BY DEF Abundant, Needed
  <2>3. known /\ passes <=> /\ Abundant(e) /\ Required \subseteq e.holds
                            /\ Forbidden \cap e.holds = {}
    BY DEF Abundant, Required
  <2> HIDE DEF known, passes
  <2> QED BY <2>1, <2>2, <2>3
<1> QED BY <1>1, <1>2, <1>3 DEF e

\* The answer is earned on any evidence: yes takes all that is required and nothing that forbids
\* it, a no could have been a yes on better data, and while something needed is missing nothing
\* else makes an answer of it (AccessibleEdgeAnswer).
THEOREM AnswersAlwaysEarned ==
    ASSUME NEW evidence \in Answerable
    PROVE  AnswerIsEarned(evidence)
<1> DEFINE holds == evidence.holds
           With(h) == AccessibleEdgeAnswer([evidence EXCEPT !.holds = h])
           ready == Abundant(evidence)
<1>1. [evidence EXCEPT !.holds = holds] = evidence
  BY DEF Answerable
<1>2. AccessibleEdgeAnswer(evidence) = With(holds)
  BY <1>1
<1>3. \A h : /\ With(h) = "MORE_DATA_REQUIRED" <=> ~ (ready /\ Needed \subseteq h)
             /\ With(h) = "YES" <=> ready /\ Required \subseteq h /\ Forbidden \cap h = {}
             /\ With(h) \in {"MORE_DATA_REQUIRED", "YES", "NO"}
  BY AnswerCases
<1> HIDE DEF With, ready, holds
<1>4. With(holds) = "YES" => Required \subseteq holds /\ Forbidden \cap holds = {}
  BY <1>3
<1>5. \A x \in Required : With(holds) = "YES" => With(holds \cup {x}) = "YES" /\ With(holds \ {x}) # "YES"
  <2>1. SUFFICES ASSUME NEW x \in Required, With(holds) = "YES"
                 PROVE  With(holds \cup {x}) = "YES" /\ With(holds \ {x}) # "YES"
    OBVIOUS
  <2>2. holds \cup {x} = holds /\ ~ (Required \subseteq (holds \ {x}))
    BY <1>4, <2>1
  <2> QED BY <1>3, <2>1, <2>2
<1>6. \A x \in Forbidden : With(holds \cup {x}) # "YES"
  <2>1. \A x \in Forbidden : Forbidden \cap (holds \cup {x}) # {}
    OBVIOUS
  <2> QED BY <1>3, <2>1
<1>7. With(holds) = "NO" => With(Required) = "YES"
  <2>1. Forbidden \cap Required = {}
    BY DEF Forbidden, Required
  <2> QED BY <1>3, <2>1
<1>8. With(holds) = "MORE_DATA_REQUIRED"
        => With(holds \cup {"candidates", "latency", "leakage"}) = "MORE_DATA_REQUIRED"
  <2>1. Needed \subseteq (holds \cup {"candidates", "latency", "leakage"}) => Needed \subseteq holds
    BY DEF Needed
  <2> QED BY <1>3, <2>1
<1> QED BY <1>2, <1>4, <1>5, <1>6, <1>7, <1>8 DEF AnswerIsEarned, With, holds
=============================================================================
