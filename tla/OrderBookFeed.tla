---------------------------- MODULE OrderBookFeed ----------------------------
(***************************************************************************)
(* A LocalOrderBook driven by the depth stream and the REST snapshots of   *)
(* the exchange, under the worst network: an update that was published may *)
(* be delivered late, out of order, several times (each delivery is parsed *)
(* into an event with an event_id of its own: its copy) or never, and a    *)
(* snapshot answers with the state of any earlier instant.  The methods of *)
(* the book are called in any order, which covers the Spot recorder, the   *)
(* Futures recorder, the replay of a recorded session and the datasets.    *)
(*                                                                         *)
(* The exchange is external: MarketAt gives the true book at each update   *)
(* id, Match moves the matching engine on, Publish sends one depth update  *)
(* for everything that changed since the previous one.                     *)
(***************************************************************************)
EXTENDS LocalOrderBook

CONSTANTS
    Kinds,          \* the books looked at: their market and retained_levels
    MaxId,          \* bound: the last update id the exchange reaches
    MarketAt,       \* the exchange's book at each update id
    SnapshotDepth,  \* levels per side in a REST snapshot; 0: all of them
    Copies          \* deliveries of one update that get an event_id of their own

ASSUME FeedAssumption ==
    /\ Kinds \subseteq [market : Market, retained : Nat]
    /\ MaxId \in Nat
    /\ MarketAt \in [0 .. MaxId -> Ladder]
    /\ SnapshotDepth \in Nat

VARIABLES
    engine,     \* the exchange: id of the last change of its book
    published,  \* the exchange: the ranges <<prev, last>> sent as depth updates
    book        \* the LocalOrderBook

vars == <<engine, published, book>>

\* The id up to which the exchange has published.
IsPublishedId(n) ==
    /\ n = 0 \/ \E r \in published : r[2] = n
    /\ \A r \in published : r[2] <= n

\* The levels that were not constant from id p to id n.
Touched(p, n) ==
    {l \in Level : \E i \in p .. n : MarketAt[i][l] # MarketAt[n][l]}

Update(p, n, c) ==
    [first |-> p + 1, last |-> n, prev |-> p, copy |-> c,
     diff |-> [l \in Touched(p, n) |-> MarketAt[n][l]]]

Deliverable == {Update(r[1], r[2], c) : r \in published, c \in Copies}

SnapshotAt(n) == [id |-> n, ladder |-> Trim(MarketAt[n], SnapshotDepth)]

-----------------------------------------------------------------------------
Init ==
    /\ engine = 0
    /\ published = {}
    /\ \E k \in Kinds : book = NewBook(k.market, k.retained)

Match ==
    /\ engine < MaxId
    /\ engine' = engine + 1
    /\ UNCHANGED <<published, book>>

Publish ==
    \E p \in 0 .. engine - 1 :
        /\ IsPublishedId(p)
        /\ published' = published \cup {<<p, engine>>}
        /\ UNCHANGED <<engine, book>>

CallBufferUpdate(e) ==
    /\ book' = BufferUpdate(book, e)
    /\ UNCHANGED <<engine, published>>

CallApplyUpdate(e) ==
    /\ book' = ApplyUpdate(book, e)
    /\ UNCHANGED <<engine, published>>

CallApplySnapshot(n) ==
    /\ book' = ApplySnapshot(book, SnapshotAt(n))
    /\ UNCHANGED <<engine, published>>

CallBeginResync ==
    /\ book' = BeginResync(book)
    /\ UNCHANGED <<engine, published>>

CallMarkStale ==
    /\ book' = MarkStale(book)
    /\ UNCHANGED <<engine, published>>

Next ==
    \/ Match
    \/ Publish
    \/ \E e \in Deliverable : CallBufferUpdate(e) \/ CallApplyUpdate(e)
    \/ \E n \in 0 .. engine : CallApplySnapshot(n)
    \/ CallBeginResync
    \/ CallMarkStale

Spec == Init /\ [][Next]_vars

-----------------------------------------------------------------------------
(* Correctness *)

\* Every field of the book and of the exchange keeps its type, and the buffer
\* and the dedup set hold nothing but updates the exchange did publish.
TypeOK ==
    /\ engine \in 0 .. MaxId
    /\ \A r \in published :
          r \in (0 .. MaxId) \X (0 .. MaxId) /\ r[1] < r[2] /\ r[2] <= engine
    /\ book \in [market   : Market,
                 retained : Nat,
                 status   : Status,
                 updateId : -1 .. engine,
                 ladder   : Ladder,
                 buffer   : Seq(Deliverable),
                 seen     : SUBSET Deliverable,
                 awaiting : BOOLEAN]

\* A level the book lists has the quantity the exchange had at that price at
\* the book's update id: no lost, repeated or reordered update and no stale
\* snapshot leaves a wrong or phantom level, whatever the book's status.
NoPhantomLevel ==
    book.updateId # NoId =>
        \A l \in Level :
            book.ladder[l] # 0 => book.ladder[l] = MarketAt[book.updateId][l]

\* Nothing is trimmed, neither by the book nor by the REST service.
KeepsAll == book.retained = 0 /\ SnapshotDepth = 0

\* Without trimming, on full snapshots, the book is the exchange's book at the
\* book's update id, level for level.
MirrorsExchange ==
    (KeepsAll /\ book.updateId # NoId) =>
        book.ladder = MarketAt[book.updateId]

\* A synchronized book has an update id, both sides and no cross: what
\* liquidity_snapshot and the feature engine rely on.
SynchronizedIsUsable ==
    book.status = "SYNCHRONIZED" =>
        book.updateId # NoId /\ ValidUncrossed(book.ladder)

\* Fail closed: only a snapshot makes a desynchronized book synchronized.
OnlySnapshotSynchronizes ==
    [][book.status # "SYNCHRONIZED" /\ book'.status = "SYNCHRONIZED"
         => \E n \in 0 .. engine : CallApplySnapshot(n)]_vars

\* The update id of a book moves backwards only by a snapshot or a resync.
NoSilentRegress ==
    [][book'.updateId < book.updateId
         => CallBeginResync \/ \E n \in 0 .. engine : CallApplySnapshot(n)]_vars

\* No false alarm: when the buffer holds everything published after the
\* snapshot (for Futures also the update the snapshot falls into) and the
\* exchange's book has two sides, apply_snapshot ends synchronized at the last
\* published id.
CompleteBufferAligns ==
    \A n \in 0 .. engine :
        LET after  == {r \in published : r[2] > n}
            around == {r \in published : r[1] < n /\ n <= r[2]}
            chained == book.market = "USD_M_FUTURES"
            needed == IF chained THEN after \cup around ELSE after
            result == ApplySnapshot(book, SnapshotAt(n))
        IN  /\ after # {}
            /\ chained => around # {}
            /\ \A r \in needed : \E i \in DOMAIN book.buffer :
                   book.buffer[i].prev = r[1] /\ book.buffer[i].last = r[2]
            /\ KeepsAll
            /\ \A i \in n .. engine : ValidUncrossed(MarketAt[i])
            => /\ result.status = "SYNCHRONIZED"
               /\ \A r \in published : r[2] <= result.updateId

\* At every moment, under the worst network, the book is well typed, usable when it
\* is synchronized, without a phantom level, and untrimmed the exchange's own book.
BookConsistent ==
    TypeOK /\ SynchronizedIsUsable /\ NoPhantomLevel /\ MirrorsExchange

\* What was lost is only won back by a snapshot: no update, stale mark or repetition
\* synchronizes a book that was not, or moves its update id back.
OnlySnapshotsRestore == OnlySnapshotSynchronizes /\ NoSilentRegress

-----------------------------------------------------------------------------
(* What the book promises: see MirrorBook. *)

ShownView ==
    IF book.status = "SYNCHRONIZED"
    THEN [id |-> book.updateId, whole |-> KeepsAll, ladder |-> book.ladder]
    ELSE [id |-> NoId, whole |-> TRUE, ladder |-> EmptyLadder]

Mirror == INSTANCE MirrorBook WITH view <- ShownView

MirrorSpec == Mirror!Spec
=============================================================================
