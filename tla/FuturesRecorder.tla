--------------------------- MODULE FuturesRecorder ---------------------------
(***************************************************************************)
(* The routed USD-M capture of microstructure/live.py: the worker of the   *)
(* PUBLIC connection, the merge loop that owns the local book, and the     *)
(* task that fetches a REST snapshot, all on one asyncio loop and a shared *)
(* queue.  One turn of the merge loop is one action: what it awaits inside *)
(* (the end of a canceled task) lets the worker fill the queue for the     *)
(* next turn and touches nothing the turn uses.                            *)
(*                                                                         *)
(* Left out: the MARKET connection, whose events never reach the book but  *)
(* share the queue, so that a depth update can find it full at any time;   *)
(* liveness and runtime statistics; the session writer; the stop.          *)
(***************************************************************************)
EXTENDS OrderBookFeed

CONSTANTS
    MaxReconnects,  \* maximum_reconnects, of the socket and of the snapshot
    MaxFaults,      \* bound: broken, closed or refused connections
    MaxDrops        \* bound: updates that find the queue full

\* self.book: retained_levels is None.
RecorderKind == [market |-> "USD_M_FUTURES", retained |-> 0]

\* The recorder's book is one of the books looked at, and copy 1 of an update
\* is the one the recorder gets.
ASSUME RecorderAssumption ==
    /\ RecorderKind \in Kinds /\ 1 \in Copies
    /\ {MaxReconnects, MaxFaults, MaxDrops} \subseteq Nat

\* The exchange and self.book are those of OrderBookFeed.
VARIABLES
    link,               \* the PUBLIC connection: "DOWN", "UP", or "FAILED" when
                        \* its worker has ended
    attempt,            \* of _route_worker
    wire,               \* updates sent on the connection, not yet received
    queue,              \* the asyncio queue between worker and merge loop
    snapshot,           \* snapshot_task and, when it is done, its snapshot
    failures,           \* snapshot_failures
    gaps,               \* sequence_gap_count
    faults, drops       \* faults of the environment so far

exchange == <<engine, published>>
worker   == <<link, attempt, wire, faults, drops>>
merge    == <<book, failures, gaps>>
recorderVars == <<exchange, worker, merge, queue, snapshot>>

NoTask  == [state |-> "NONE", id |-> NoId]
Running == [state |-> "RUNNING", id |-> NoId]

\* The item the worker queues when it has connected; the others are updates.
Connected == [first |-> 0, last |-> 0, prev |-> 0, copy |-> 0, diff |-> <<>>]

RecorderInit ==
    /\ Init /\ book = NewBook(RecorderKind.market, RecorderKind.retained)
    /\ link = "DOWN" /\ attempt = 0 /\ wire = <<>>
    /\ queue = <<>> /\ snapshot = NoTask
    /\ failures = 0 /\ gaps = 0 /\ faults = 0 /\ drops = 0

-----------------------------------------------------------------------------
(* The exchange and its REST service *)

ExchangeMatch ==
    /\ Match
    /\ UNCHANGED <<worker, failures, gaps, queue, snapshot>>

ExchangePublish ==
    /\ Publish
    /\ wire' = IF link = "UP"
               THEN wire \o SetToSeq({Update(r[1], r[2], 1) : r \in published' \ published})
               ELSE wire
    /\ UNCHANGED <<link, attempt, faults, drops, failures, gaps, queue, snapshot>>

Answer ==
    /\ snapshot = Running
    /\ snapshot' \in {[state |-> "DONE", id |-> engine], [state |-> "FAILED", id |-> NoId]}
    /\ UNCHANGED <<exchange, worker, merge, queue>>

-----------------------------------------------------------------------------
(* _route_worker *)

Connect ==
    /\ link = "DOWN"
    /\ link' = "UP" /\ attempt' = 0
    /\ queue' = Append(queue, Connected)
    /\ UNCHANGED <<exchange, merge, wire, faults, drops, snapshot>>

\* A refused or broken connection: what was on the wire is lost.
Break ==
    /\ link # "FAILED" /\ faults < MaxFaults
    /\ faults' = faults + 1
    /\ attempt' = attempt + 1
    /\ link' = IF attempt' > MaxReconnects THEN "FAILED" ELSE "DOWN"
    /\ wire' = <<>>
    /\ UNCHANGED <<exchange, merge, drops, queue, snapshot>>

\* The peer closes the connection without a frame: readexactly raises an
\* EOFError, which the except clause does not name, and the worker dies.
Eof ==
    /\ link # "FAILED" /\ faults < MaxFaults
    /\ faults' = faults + 1
    /\ link' = "FAILED" /\ wire' = <<>>
    /\ UNCHANGED <<exchange, merge, attempt, drops, queue, snapshot>>

\* put_nowait, which drops the event when the queue is full.
Receive ==
    /\ link = "UP" /\ wire # <<>>
    /\ wire' = Tail(wire)
    /\ \/ queue' = Append(queue, Head(wire)) /\ UNCHANGED drops
       \/ drops < MaxDrops /\ drops' = drops + 1 /\ UNCHANGED queue
    /\ UNCHANGED <<exchange, merge, link, attempt, faults, snapshot>>

-----------------------------------------------------------------------------
(* The merge loop, as operators on what it owns *)

State == [book |-> book, snapshot |-> snapshot, failures |-> failures, gaps |-> gaps]

\* Mutant of Resync: the resync waits for a snapshot nobody asked for.
ResyncWithoutSnapshot(s) == [s EXCEPT !.book = BeginResync(@)]

\* The book became invalid: start over with a snapshot of its own.
Resync(s) == [s EXCEPT !.book = BeginResync(@), !.snapshot = Running]

\* _apply_routed_depth, and the new snapshot task it asks for.
Depth(s, e) ==
    LET applied == [s EXCEPT !.book = BufferUpdate(@, e)]
        real    == Decision(s.book, e) = "REAL_SEQUENCE_GAP"
    IN  IF applied.book.status # "INVALID" THEN applied
        ELSE Resync([applied EXCEPT !.gaps = IF real THEN @ + 1 ELSE @])

Handle(s, item) ==
    IF item # Connected THEN Depth(s, item)
    ELSE IF s.snapshot = NoTask THEN [s EXCEPT !.snapshot = Running] ELSE s

\* The batch, sorted by exchange time; a CONNECTED among updates of the same
\* batch does the same wherever it is sorted.
HandleAll(s, batch) ==
    LET after[i \in 0 .. Len(batch)] ==
            IF i = 0 THEN s ELSE Handle(after[i-1], batch[i])
    IN  after[Len(batch)]

\* Mutant of TakeSnapshot: a failed snapshot is not asked for again.
TakeSnapshotOnce(s) ==
    CASE s.snapshot.state = "FAILED" -> [s EXCEPT !.failures = @ + 1, !.snapshot = NoTask]
      [] s.snapshot.state = "DONE" ->
            LET applied == [s EXCEPT !.book = ApplySnapshot(@, SnapshotAt(s.snapshot.id)),
                                     !.snapshot = NoTask]
            IN  IF applied.book.status = "INVALID" THEN Resync(applied) ELSE applied
      [] OTHER -> s

\* The finished snapshot task, if any: a failure is retried a bounded number of
\* times, a snapshot that does not align without bound.
TakeSnapshot(s) ==
    CASE s.snapshot.state = "FAILED" ->
            [s EXCEPT !.failures = @ + 1,
                      !.snapshot = IF s.failures < MaxReconnects THEN Running ELSE NoTask]
      [] s.snapshot.state = "DONE" ->
            LET applied == [s EXCEPT !.book = ApplySnapshot(@, SnapshotAt(s.snapshot.id)),
                                     !.snapshot = NoTask]
            IN  IF applied.book.status = "INVALID" THEN Resync(applied) ELSE applied
      [] OTHER -> s

TurnReady == queue # <<>> \/ snapshot.state \in {"DONE", "FAILED"}

Turn ==
    /\ TurnReady
    /\ queue' = <<>>
    /\ \E s \in {TakeSnapshot(HandleAll(State, queue))} :
          /\ book' = s.book /\ snapshot' = s.snapshot
          /\ failures' = s.failures /\ gaps' = s.gaps
    /\ UNCHANGED <<exchange, worker>>

RecorderNext ==
    \/ ExchangeMatch \/ ExchangePublish \/ Answer
    \/ Connect \/ Break \/ Eof \/ Receive \/ Turn

\* The event loop runs every task that can run; a connection and a request
\* have timeouts, so that both end.  The last conjunct is WF_recorderVars(Turn): a turn
\* is enabled, and changes something, exactly when it is ready.
Fairness ==
    /\ WF_recorderVars(Answer) /\ WF_recorderVars(Connect) /\ WF_recorderVars(Receive)
    /\ []<>(~ TurnReady) \/ []<><<Turn>>_recorderVars

RecorderSpec == RecorderInit /\ [][RecorderNext]_recorderVars

FairSpec == RecorderSpec /\ Fairness

-----------------------------------------------------------------------------
(* Correctness *)

\* Every field keeps its type.
RecorderTypeOK ==
    /\ TypeOK
    /\ link \in {"DOWN", "UP", "FAILED"}
    /\ attempt \in 0 .. MaxReconnects + 1
    /\ wire \in Seq(Deliverable)
    /\ queue \in Seq(Deliverable \cup {Connected})
    /\ snapshot \in [state : {"NONE", "RUNNING", "FAILED", "DONE"}, id : -1 .. engine]
    /\ failures \in Nat /\ gaps \in Nat

GaveUp == link = "FAILED" \/ failures > MaxReconnects

\* Between two turns the book is never left invalid, and a book that has ever
\* been touched but is not synchronized has a snapshot on its way.
RecoveryUnderway ==
    /\ book.status # "INVALID"
    /\ book.status \in {"BUFFERING", "RESYNC_IN_PROGRESS"} /\ failures <= MaxReconnects
         => snapshot # NoTask

\* A sequence gap is counted only when updates really were lost, by a broken
\* connection or a full queue: bootstraps, realignments, late snapshots and
\* resyncs on a lossless stream never count as one.
GapMeansLoss == gaps > 0 => faults > 0 \/ drops > 0

\* Whatever is lost, refused or late, the recorder ends up synchronized with no
\* snapshot under way, unless its worker ended or the snapshot retries ran out.
EndsSynchronized == <>[]((book.status = "SYNCHRONIZED" /\ snapshot = NoTask) \/ GaveUp)

\* Between two turns of the recorder nothing is half done: the book is not left invalid
\* or without the snapshot it waits for, and no gap is counted on a lossless stream.
RecorderConsistent == RecorderTypeOK /\ RecoveryUnderway /\ GapMeansLoss

-----------------------------------------------------------------------------
(* What the documentation says and the recorder does not do. *)

\* docs/MICROSTRUCTURE_RESEARCH_METHODOLOGY.md:70-74: there is no endless retry,
\* so at some point the recorder stops asking for snapshots.
NoEndlessRetry == <>[](snapshot = NoTask)

\* docs/MICROSTRUCTURE_RESEARCH_METHODOLOGY.md:70-71: a connection is connected
\* again, a limited number of times: its worker ends only when they are used up.
WorkerEndsExhausted == link = "FAILED" => attempt > MaxReconnects
=============================================================================
