--------------------------- MODULE LocalOrderBook ---------------------------
(***************************************************************************)
(* The local order book of one market and symbol: the class LocalOrderBook *)
(* of microstructure/order_book.py with the two sequence policies of       *)
(* microstructure/sequence.py.  The module holds no variables: a book is a *)
(* record and each method is an operator from the book before the call to  *)
(* the book after it.  OrderBookFeed calls the methods in any order, and   *)
(* FuturesRecorder calls them the way the capture process does.            *)
(*                                                                         *)
(* A book side is a function from levels to quantities in which 0 stands   *)
(* for "no such level".  A depth update is a record                        *)
(*    [first, last, prev, copy, diff]                                      *)
(* (the U, u and pu of Binance, the delivery it came with, and the         *)
(* quantities it sets); a REST snapshot is [id, ladder].                   *)
(***************************************************************************)
EXTENDS Integers, Sequences, FiniteSets, SequencesExt

CONSTANT Price      \* the prices of the symbol, a set of integers

ASSUME BookAssumption == Price \subseteq Int

NoId == -1          \* update_id is None
NoPu == -1          \* the payload carries no pu

Side   == {"bid", "ask"}
Level  == Side \X Price
Ladder == [Level -> Nat]
EmptyLadder == [l \in Level |-> 0]

Status == {"EMPTY", "BUFFERING", "SYNCHRONIZED", "INVALID", "RESYNC_IN_PROGRESS"}

Market == {"SPOT", "USD_M_FUTURES"}

\* What __init__ builds: a book of one market that keeps the best `retained`
\* levels of a side, all of them when retained is 0.
NewBook(market, retained) ==
    [market   |-> market,
     retained |-> retained,
     status   |-> "EMPTY",
     updateId |-> NoId,
     ladder   |-> EmptyLadder,
     buffer   |-> <<>>,
     seen     |-> {},
     awaiting |-> FALSE]

-----------------------------------------------------------------------------
(* Levels *)

\* m is on the side of l at a strictly better price.
Better(m, l) ==
    /\ m[1] = l[1]
    /\ IF l[1] = "bid" THEN m[2] > l[2] ELSE m[2] < l[2]

\* The best `depth` levels of each side; 0 keeps every level.
Trim(ladder, depth) ==
    IF depth = 0
    THEN ladder
    ELSE [l \in Level |->
            IF Cardinality({m \in Level : ladder[m] > 0 /\ Better(m, l)}) < depth
            THEN ladder[l] ELSE 0]

\* Mutant of ApplyLevels: a level of quantity zero is not removed.
ApplyLevelsKeepingZeros(ladder, diff) ==
    [l \in Level |-> IF l \in DOMAIN diff /\ diff[l] > 0 THEN diff[l] ELSE ladder[l]]

ApplyLevels(ladder, diff) ==
    [l \in Level |-> IF l \in DOMAIN diff THEN diff[l] ELSE ladder[l]]

\* Both sides are populated and the best bid is below the best ask.
ValidUncrossed(ladder) ==
    LET bids == {p \in Price : ladder[<<"bid", p>>] > 0}
        asks == {p \in Price : ladder[<<"ask", p>>] > 0}
    IN  bids # {} /\ asks # {} /\ \A p \in bids, q \in asks : p < q

-----------------------------------------------------------------------------
(* Sequence policies: "ACCEPT" or the GapClassification of the decision. *)

SpotBootstrap(id, e) ==
    CASE e.last < id + 1                        -> "OLD_EVENT"
      [] e.first <= id + 1 /\ id + 1 <= e.last  -> "ACCEPT"
      [] OTHER                                  -> "SNAPSHOT_ALIGNMENT_RETRY"

\* Mutant of SpotNext: a gap before the update is accepted.
SpotNextAcrossGap(id, e) ==
    CASE e.last = id -> "DUPLICATE_EVENT"
      [] e.last < id -> "OUT_OF_ORDER_EVENT"
      [] OTHER       -> "ACCEPT"

SpotNext(id, e) ==
    CASE e.last = id                            -> "DUPLICATE_EVENT"
      [] e.last < id                            -> "OUT_OF_ORDER_EVENT"
      [] e.first <= id + 1 /\ id + 1 <= e.last  -> "ACCEPT"
      [] OTHER                                  -> "REAL_SEQUENCE_GAP"

FuturesBootstrap(id, e) ==
    CASE e.last < id                            -> "OLD_EVENT"
      [] e.first <= id /\ id <= e.last          -> "ACCEPT"
      [] OTHER                                  -> "SNAPSHOT_ALIGNMENT_RETRY"

\* Mutant of FuturesNext: an update that ended before the book's id is accepted.
FuturesNextBackwards(id, e) ==
    CASE e.last = id                -> "DUPLICATE_EVENT"
      [] e.last # id /\ e.prev <= id -> "ACCEPT"
      [] OTHER                      -> "REAL_SEQUENCE_GAP"

FuturesNext(id, e) ==
    CASE e.last = id                            -> "DUPLICATE_EVENT"
      [] e.last < id                            -> "OUT_OF_ORDER_EVENT"
      [] e.last > id /\ e.prev = NoPu           -> "PARSER_ERROR"
      [] e.last > id /\ e.prev # NoPu /\ e.prev = id -> "ACCEPT"
      [] e.last > id /\ e.prev # NoPu /\ e.prev < id -> "OUT_OF_ORDER_EVENT"
      [] OTHER                                  -> "REAL_SEQUENCE_GAP"

\* The policy of the market, on its bootstrap rule until one diff is accepted.
Decision(b, e) ==
    IF b.market = "USD_M_FUTURES"
    THEN IF b.awaiting THEN FuturesBootstrap(b.updateId, e) ELSE FuturesNext(b.updateId, e)
    ELSE IF b.awaiting THEN SpotBootstrap(b.updateId, e) ELSE SpotNext(b.updateId, e)

\* Rejections that leave the book as it is; every other one desynchronizes it.
Ignored == {"OLD_EVENT", "DUPLICATE_EVENT", "OUT_OF_ORDER_EVENT"}

Invalidate(b) == [b EXCEPT !.status = "INVALID"]

ApplySequenced(b, e) ==
    LET ladder == Trim(ApplyLevels(b.ladder, e.diff), b.retained)
    IN  IF b.updateId = NoId
        THEN Invalidate(b)
        ELSE IF Decision(b, e) = "ACCEPT"
        THEN [b EXCEPT !.ladder   = ladder,
                       !.updateId = e.last,
                       !.awaiting = FALSE,
                       !.status   = IF ValidUncrossed(ladder)
                                    THEN "SYNCHRONIZED" ELSE "INVALID"]
        ELSE IF Decision(b, e) \in Ignored THEN b ELSE Invalidate(b)

-----------------------------------------------------------------------------
(* Methods *)

\* The order of the buffer: by first id, then last id, then arrival.
Precedes(d, e) == d.first < e.first \/ (d.first = e.first /\ d.last <= e.last)

InsertInOrder(buffer, e) ==
    InsertAt(buffer, 1 + Cardinality({i \in DOMAIN buffer : Precedes(buffer[i], e)}), e)

\* buffer_update on a book that is not synchronized.
Buffered(b, e) ==
    IF e \in b.seen
    THEN b
    ELSE [b EXCEPT !.seen   = @ \cup {e},
                   !.status = "BUFFERING",
                   !.buffer = InsertInOrder(@, e)]

\* apply_update on a synchronized book.
Sequenced(b, e) ==
    IF e \in b.seen THEN b ELSE ApplySequenced([b EXCEPT !.seen = @ \cup {e}], e)

BufferUpdate(b, e) ==
    IF b.status = "SYNCHRONIZED" THEN Sequenced(b, e) ELSE Buffered(b, e)

ApplyUpdate(b, e) ==
    CASE b.status = "SYNCHRONIZED"                       -> Sequenced(b, e)
      [] b.status \in {"INVALID", "RESYNC_IN_PROGRESS"}  -> b
      [] OTHER                                           -> Buffered(b, e)

\* One turn of the loop of apply_snapshot: updates older than the snapshot are
\* filtered out, and nothing is applied once the book became INVALID.
\* Mutant of DrainStep: the filter drops the update that ends at the snapshot.
DrainStepSkippingLast(b, e, id) ==
    IF b.status = "INVALID" \/ e.last <= id THEN b ELSE ApplySequenced(b, e)

DrainStep(b, e, id) ==
    IF b.status = "INVALID" \/ e.last < id THEN b ELSE ApplySequenced(b, e)

\* The book after each prefix of the buffer.
DrainRun(b, buffer, id) ==
    LET run[i \in 0 .. Len(buffer)] ==
            IF i = 0 THEN b ELSE DrainStep(run[i-1], buffer[i], id)
    IN  run

Loaded(b, s) ==
    [b EXCEPT !.ladder   = Trim(s.ladder, b.retained),
              !.updateId = s.id,
              !.status   = "BUFFERING",
              !.awaiting = TRUE,
              !.buffer   = <<>>]

ApplySnapshot(b, s) ==
    LET drained == DrainRun(Loaded(b, s), b.buffer, s.id)[Len(b.buffer)]
    IN  IF drained.status = "INVALID"
        THEN drained
        ELSE [drained EXCEPT !.status = IF ValidUncrossed(drained.ladder)
                                        THEN "SYNCHRONIZED" ELSE "INVALID"]

BeginResync(b) ==
    [b EXCEPT !.status   = "RESYNC_IN_PROGRESS",
              !.updateId = NoId,
              !.ladder   = EmptyLadder,
              !.buffer   = <<>>,
              !.seen     = {},
              !.awaiting = FALSE]

MarkStale(b) == Invalidate(b)
=============================================================================
