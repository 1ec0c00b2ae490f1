---------------------------- MODULE SpotRecorder ----------------------------
(***************************************************************************)
(* The single-connection capture of microstructure/live.py (Spot): one     *)
(* coroutine that connects, bootstraps the book from a snapshot it fetches *)
(* while it buffers the stream, and then applies the stream update by      *)
(* update.  A book that becomes invalid is started over from a snapshot    *)
(* the coroutine awaits without receiving.                                 *)
(*                                                                         *)
(* Every exception the capture survives (a refused or broken connection, a *)
(* failed request, a payload it cannot parse) ends the connection and      *)
(* leaves the book as it is; a connection the peer closes raises one it    *)
(* does not survive.  Left out: the session writer, the stop.              *)
(***************************************************************************)
EXTENDS OrderBookFeed

CONSTANTS
    StreamReconnects,  \* maximum_reconnects
    StreamFaults       \* bound: connections and requests that fail

\* self.book: retained_levels is None.
StreamKind == [market |-> "SPOT", retained |-> 0]

\* The recorder's book is one of the books looked at, copy 1 of an update is the one
\* the recorder gets, and the exchange's book has finitely many levels.
ASSUME StreamAssumption ==
    /\ StreamKind \in Kinds /\ 1 \in Copies
    /\ {StreamReconnects, StreamFaults} \subseteq Nat
    /\ \A n \in 0 .. MaxId : IsFiniteSet({l \in Level : MarketAt[n][l] > 0})

\* The exchange and self.book are those of OrderBookFeed.
VARIABLES
    phase,          \* where the coroutine is; "FAILED": it has ended
    streamAttempt,  \* attempt
    stream,         \* updates sent on the connection, not yet received
    request,        \* the snapshot requested and, once served, its id
    streamGaps,     \* sequence_gap_count
    realGaps,       \* updates rejected with REAL_SEQUENCE_GAP
    streamFaults    \* faults of the environment so far

feed           == <<engine, published>>
streamCounters == <<streamGaps, realGaps>>
streamVars     == <<feed, book, phase, streamAttempt, stream, request, streamCounters,
                    streamFaults>>

NoRequest == [served |-> FALSE, id |-> NoId]
Requested == [served |-> FALSE, id |-> 0]

StreamInit ==
    /\ Init /\ book = NewBook(StreamKind.market, StreamKind.retained)
    /\ phase = "DOWN" /\ streamAttempt = 0 /\ stream = <<>> /\ request = NoRequest
    /\ streamGaps = 0 /\ realGaps = 0 /\ streamFaults = 0

-----------------------------------------------------------------------------
(* The exchange and its REST service *)

StreamMatch ==
    /\ Match
    /\ UNCHANGED <<phase, streamAttempt, stream, request, streamCounters, streamFaults>>

StreamPublish ==
    /\ Publish
    /\ stream' = IF phase \in {"BOOTSTRAP", "STREAM", "RESYNC"}
                 THEN stream \o SetToSeq({Update(r[1], r[2], 1) : r \in published' \ published})
                 ELSE stream
    /\ UNCHANGED <<phase, streamAttempt, request, streamCounters, streamFaults>>

\* The answer leaves the exchange; the coroutine goes on receiving until it
\* has arrived.
Serve ==
    /\ request = Requested
    /\ request' = [served |-> TRUE, id |-> engine]
    /\ UNCHANGED <<feed, book, phase, streamAttempt, stream, streamCounters, streamFaults>>

-----------------------------------------------------------------------------
(* The coroutine *)

StreamConnect ==
    /\ phase = "DOWN"
    /\ phase' = "BOOTSTRAP" /\ request' = Requested
    /\ UNCHANGED <<feed, book, streamAttempt, stream, streamCounters, streamFaults>>

\* The except clause: the connection ends, what was on the wire is lost.
Disconnect ==
    /\ streamAttempt' = streamAttempt + 1
    /\ phase' = IF streamAttempt' > StreamReconnects THEN "FAILED" ELSE "DOWN"
    /\ stream' = <<>> /\ request' = NoRequest

StreamBreak ==
    /\ phase # "FAILED" /\ streamFaults < StreamFaults
    /\ streamFaults' = streamFaults + 1
    /\ Disconnect
    /\ UNCHANGED <<feed, book, streamCounters>>

\* readexactly raises an EOFError, which no except clause names.
StreamEof ==
    /\ phase \in {"DOWN", "BOOTSTRAP", "STREAM"} /\ streamFaults < StreamFaults
    /\ streamFaults' = streamFaults + 1
    /\ phase' = "FAILED" /\ stream' = <<>> /\ request' = NoRequest
    /\ UNCHANGED <<feed, book, streamAttempt, streamCounters>>

\* _bootstrap_book
Buffer ==
    /\ phase = "BOOTSTRAP" /\ stream # <<>>
    /\ book' = BufferUpdate(book, Head(stream))
    /\ stream' = Tail(stream)
    /\ UNCHANGED <<feed, phase, streamAttempt, request, streamCounters, streamFaults>>

\* The book once the snapshot that was served is applied.
Restored == ApplySnapshot(book, SnapshotAt(request.id))

\* Mutant of Bootstrapped: the result of apply_snapshot is not looked at.
BootstrappedUnchecked ==
    /\ phase = "BOOTSTRAP" /\ request.served
    /\ book' = Restored
    /\ phase' = "STREAM" /\ streamAttempt' = 0 /\ request' = NoRequest
    /\ UNCHANGED <<feed, stream, streamCounters, streamFaults>>

Bootstrapped ==
    /\ phase = "BOOTSTRAP" /\ request.served
    /\ book' = Restored
    /\ \/ /\ book'.status # "INVALID"
          /\ phase' = "STREAM" /\ streamAttempt' = 0 /\ request' = NoRequest
          /\ UNCHANGED stream
       \/ book'.status = "INVALID" /\ Disconnect
    /\ UNCHANGED <<feed, streamCounters, streamFaults>>

\* Mutant of Stream: the resync does not wait for a snapshot.
StreamWithoutSnapshot ==
    /\ phase = "STREAM" /\ stream # <<>>
    /\ stream' = Tail(stream)
    /\ book' = LET applied == ApplyUpdate(book, Head(stream))
               IN  IF applied.status = "INVALID" THEN BeginResync(applied) ELSE applied
    /\ UNCHANGED <<feed, phase, streamAttempt, request, streamCounters, streamFaults>>

\* The receive loop: every update that finds or leaves the book invalid counts
\* as a sequence gap and starts a resync.
Stream ==
    /\ phase = "STREAM" /\ stream # <<>>
    /\ stream' = Tail(stream)
    /\ LET update  == Head(stream)
           applied == ApplyUpdate(book, update)
           real    == /\ book.status = "SYNCHRONIZED"
                      /\ Decision(book, update) = "REAL_SEQUENCE_GAP"
       IN  \/ /\ applied.status # "INVALID"
              /\ book' = applied
              /\ UNCHANGED <<phase, request, streamCounters>>
           \/ /\ applied.status = "INVALID"
              /\ book' = BeginResync(applied)
              /\ phase' = "RESYNC" /\ request' = Requested
              /\ streamGaps' = streamGaps + 1
              /\ realGaps' = IF real THEN realGaps + 1 ELSE realGaps
    /\ UNCHANGED <<feed, streamAttempt, streamFaults>>

\* The awaited snapshot of a resync; what apply_snapshot returns is ignored.
Resynced ==
    /\ phase = "RESYNC" /\ request.served
    /\ book' = Restored
    /\ phase' = "STREAM" /\ request' = NoRequest
    /\ UNCHANGED <<feed, streamAttempt, stream, streamCounters, streamFaults>>

StreamNext ==
    \/ StreamMatch \/ StreamPublish \/ Serve
    \/ StreamConnect \/ StreamBreak \/ StreamEof
    \/ Buffer \/ Bootstrapped \/ Stream \/ Resynced

\* The coroutine runs whenever it can, and a request ends (it has a timeout).
StreamFairness ==
    /\ WF_streamVars(Serve) /\ WF_streamVars(StreamConnect)
    /\ WF_streamVars(Bootstrapped) /\ WF_streamVars(Stream) /\ WF_streamVars(Resynced)

StreamSpec == StreamInit /\ [][StreamNext]_streamVars

StreamFairSpec == StreamSpec /\ StreamFairness

-----------------------------------------------------------------------------
(* Correctness *)

\* Every field keeps its type.
StreamTypeOK ==
    /\ TypeOK
    /\ phase \in {"DOWN", "BOOTSTRAP", "STREAM", "RESYNC", "FAILED"}
    /\ streamAttempt \in 0 .. StreamReconnects + 1
    /\ stream \in Seq(Deliverable)
    /\ request \in [served : BOOLEAN, id : -1 .. engine]
    /\ streamGaps \in Nat /\ realGaps \in 0 .. streamGaps

\* The exchange's own book is not usable at the update id of the book.
ExchangeOneSided ==
    book.updateId # NoId /\ ~ ValidUncrossed(MarketAt[book.updateId])

\* The receive loop works on a synchronized book.  That the result of the
\* resync's snapshot is ignored can only be felt while the exchange's own book
\* is one-sided: the buffer is empty, so nothing else can fail.
StreamingIsSynchronized ==
    phase = "STREAM" => book.status = "SYNCHRONIZED" \/ ExchangeOneSided

\* Whatever is lost or refused, the recorder ends up synchronized, unless the
\* capture ended or the exchange's own book is one-sided.
StreamEndsSynchronized ==
    <>[](book.status = "SYNCHRONIZED" \/ phase = "FAILED" \/ ExchangeOneSided)

\* The receive loop only ever works on a book that is the exchange's and, as long as
\* the exchange's own book has two sides, synchronized.
StreamConsistent == StreamTypeOK /\ StreamingIsSynchronized /\ MirrorsExchange

-----------------------------------------------------------------------------
(* What the documentation says and the recorder does not do. *)

\* docs/MICROSTRUCTURE_RESEARCH_METHODOLOGY.md:65-67: only real gaps count as
\* sequence gaps, an alignment retry does not.
OnlyRealGapsCount == streamGaps = realGaps
=============================================================================
