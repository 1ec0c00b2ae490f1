--------------------------- MODULE OrderBookProofs ---------------------------
(***************************************************************************)
(* Theorems about OrderBookFeed, for every exchange history, every set of  *)
(* prices, both sequence policies and any number of redeliveries, and      *)
(* about FuturesRecorder, whose merge loop drives such a book, for any     *)
(* number of faults, lost updates and reconnects.                          *)
(***************************************************************************)
EXTENDS FuturesRecorder, SpotRecorder, WellFoundedInduction, FiniteSetTheorems,
        SequenceTheorems, TLAPS

-----------------------------------------------------------------------------
(* Induction over the turns of the loop of apply_snapshot *)

\* Every non-empty set of naturals has a least element.
LEMMA LeastElement ==
    ASSUME NEW T \in SUBSET Nat, T # {}
    PROVE  \E m \in T : \A k \in T : m <= k
<1> DEFINE Upto == {0 .. n : n \in T}
<1>1. Upto \subseteq FiniteSubsetsOf(Nat)
  <2>1. \A n \in T : IsFiniteSet(0 .. n)
    BY FS_Interval
  <2> QED BY <2>1 DEF FiniteSubsetsOf
<1>2. \E x \in Upto : \A y \in Upto : <<y, x>> \notin StrictSubsetOrdering(Nat)
  <2>1. IsWellFoundedOn(StrictSubsetOrdering(Nat), FiniteSubsetsOf(Nat))
    BY FS_StrictSubsetOrderingWellFounded
  <2>2. Upto # {}
    OBVIOUS
  <2> HIDE DEF Upto
  <2> QED BY <1>1, <2>1, <2>2, WFMin
<1>3. PICK m \in T : \A k \in T : <<0 .. k, 0 .. m>> \notin StrictSubsetOrdering(Nat)
  BY <1>2
<1>4. ASSUME NEW k \in T, k < m
      PROVE  FALSE
  <2>1. 0 .. k \subseteq 0 .. m /\ 0 .. k # 0 .. m
    BY <1>4
  <2>2. <<0 .. k, 0 .. m>> \in StrictSubsetOrdering(Nat)
    BY <2>1 DEF StrictSubsetOrdering
  <2> QED BY <1>3, <2>2
<1> QED BY <1>4

\* DrainRun(b, buffer, id)[i] is the book after the first i buffered updates.
LEMMA DrainRunDef ==
    ASSUME NEW b, NEW id, NEW buffer, Len(buffer) \in Nat
    PROVE  DrainRun(b, buffer, id) =
             [i \in 0 .. Len(buffer) |->
                IF i = 0 THEN b
                ELSE DrainStep(DrainRun(b, buffer, id)[i-1], buffer[i], id)]
<1> DEFINE N == Len(buffer)
           Step(r, i) == DrainStep(r, buffer[i], id)
           IsRun(g, n) ==
             g = [i \in 0 .. n |-> IF i = 0 THEN b ELSE Step(g[i-1], i)]
           Bad == {n \in 0 .. N : ~ \E g : IsRun(g, n)}
<1>1. Bad = {}
  <2> SUFFICES ASSUME Bad # {} PROVE FALSE
    OBVIOUS
  <2>1. PICK m \in Bad : \A k \in Bad : m <= k
    <3>1. Bad \in SUBSET Nat
      OBVIOUS
    <3> HIDE DEF Bad
    <3> QED BY <3>1, LeastElement
  <2>2. CASE m = 0
    <3>1. IsRun([i \in 0 .. 0 |-> b], 0)
      BY SMT
    <3> QED BY <2>1, <2>2, <3>1
  <2>3. CASE m # 0
    <3>1. m - 1 \in 0 .. N /\ m - 1 \notin Bad
      <4>1. Bad \subseteq 0 .. N
        OBVIOUS
      <4> HIDE DEF Bad
      <4>2. m - 1 \in 0 .. N
        BY <4>1, <2>3
      <4> QED BY <2>1, <4>1, <4>2
    <3>2. PICK g : IsRun(g, m - 1)
      BY <3>1
    <3> DEFINE h == [i \in 0 .. m |-> IF i < m THEN g[i] ELSE Step(g[m-1], m)]
    <3>3. \A i \in 0 .. m : h[i] = IF i = 0 THEN b ELSE Step(h[i-1], i)
      <4> TAKE i \in 0 .. m
      <4> HIDE DEF Step
      <4>1. CASE i = 0
        BY <3>2, <4>1, <2>1, <2>3
      <4>2. CASE i # 0 /\ i < m
        BY <3>2, <4>2, <2>1, <2>3
      <4>3. CASE i = m
        BY <4>3, <2>1, <2>3
      <4> QED BY <4>1, <4>2, <4>3, <2>1
    <3>4. IsRun(h, m)
      <4> HIDE DEF Step
      <4> QED BY <3>3, <2>1
    <3> QED BY <2>1, <3>4
  <2> QED BY <2>2, <2>3
<1>2. \E g : IsRun(g, N)
  BY <1>1
<1>3. DrainRun(b, buffer, id) = CHOOSE g : IsRun(g, N)
  BY DEF DrainRun
<1>4. IsRun(DrainRun(b, buffer, id), N)
  <2> HIDE DEF IsRun
  <2> QED BY <1>2, <1>3
<1> QED BY <1>4

-----------------------------------------------------------------------------
(* The inductive invariant *)

BookType ==
    [market   : Market,
     retained : Nat,
     status   : Status,
     updateId : -1 .. engine,
     ladder   : Ladder,
     buffer   : Seq(Deliverable),
     seen     : SUBSET Deliverable,
     awaiting : BOOLEAN]

\* The levels of a book are those the exchange had at the book's update id.
Faithful(b) ==
    b.updateId # NoId =>
        /\ \A l \in Level : b.ladder[l] # 0 => b.ladder[l] = MarketAt[b.updateId][l]
        /\ b.retained = 0 /\ SnapshotDepth = 0 => b.ladder = MarketAt[b.updateId]

Usable(b) ==
    b.status = "SYNCHRONIZED" => b.updateId # NoId /\ ValidUncrossed(b.ladder)

Good(b) == b \in BookType /\ Faithful(b) /\ Usable(b)

ExchangeOK ==
    /\ engine \in 0 .. MaxId
    /\ \A r \in published :
          r \in (0 .. MaxId) \X (0 .. MaxId) /\ r[1] < r[2] /\ r[2] <= engine

IInv == ExchangeOK /\ Good(book)

\* Trimming keeps a level as it is or drops it.
LEMMA TrimFacts ==
    ASSUME NEW ladder \in Ladder, NEW depth
    PROVE  /\ Trim(ladder, depth) \in Ladder
           /\ \A l \in Level : Trim(ladder, depth)[l] # 0 => Trim(ladder, depth)[l] = ladder[l]
           /\ depth = 0 => Trim(ladder, depth) = ladder
<1>1. CASE depth = 0
  BY <1>1 DEF Trim
<1>2. CASE depth # 0
  <2> DEFINE Kept(l) == Cardinality({m \in Level : ladder[m] > 0 /\ Better(m, l)}) < depth
  <2>1. Trim(ladder, depth) = [l \in Level |-> IF Kept(l) THEN ladder[l] ELSE 0]
    BY <1>2 DEF Trim
  <2> HIDE DEF Kept
  <2> QED BY <1>2, <2>1 DEF Ladder
<1> QED BY <1>1, <1>2

\* A diff over the ids p+1 .. n turns the exchange's book at any id from p to
\* n into its book at n: the levels it leaves out did not move in between.
LEMMA UpdateMeaning ==
    ASSUME ExchangeOK, NEW e \in Deliverable, NEW id \in e.prev .. e.last,
           NEW ladder \in Ladder
    PROVE  /\ e.last \in 0 .. engine
           /\ MarketAt[e.last] \in Ladder
           /\ ApplyLevels(ladder, e.diff) \in Ladder
           /\ \A l \in Level :
                 ladder[l] = MarketAt[id][l]
                   => ApplyLevels(ladder, e.diff)[l] = MarketAt[e.last][l]
           /\ \A l \in Level :
                 (ladder[l] # 0 => ladder[l] = MarketAt[id][l])
                   => (ApplyLevels(ladder, e.diff)[l] # 0
                         => ApplyLevels(ladder, e.diff)[l] = MarketAt[e.last][l])
<1>1. PICK r \in published, c \in Copies : e = Update(r[1], r[2], c)
  BY DEF Deliverable
<1>2. /\ r[1] \in 0 .. MaxId /\ r[2] \in 0 .. engine /\ r[1] < r[2]
      /\ e.prev = r[1] /\ e.last = r[2]
      /\ e.diff = [l \in Touched(r[1], r[2]) |-> MarketAt[r[2]][l]]
  BY <1>1 DEF ExchangeOK, Update
<1>3. MarketAt[e.last] \in Ladder
  BY <1>2, FeedAssumption DEF ExchangeOK
<1>4. ApplyLevels(ladder, e.diff)
        = [l \in Level |-> IF l \in Touched(r[1], r[2]) THEN MarketAt[e.last][l] ELSE ladder[l]]
  BY <1>2 DEF ApplyLevels, Touched
<1>5. ApplyLevels(ladder, e.diff) \in Ladder
  BY <1>3, <1>4 DEF Ladder
<1>6. \A l \in Level : l \notin Touched(r[1], r[2]) => MarketAt[id][l] = MarketAt[e.last][l]
  BY <1>2 DEF Touched
<1> QED BY <1>2, <1>3, <1>4, <1>5, <1>6

\* An accepted update covers everything after the book's update id.
LEMMA AcceptedCovers ==
    ASSUME ExchangeOK, NEW b \in BookType, b.updateId # NoId, NEW e \in Deliverable,
           Decision(b, e) = "ACCEPT"
    PROVE  b.updateId \in e.prev .. e.last
<1>1. PICK r \in published, c \in Copies : e = Update(r[1], r[2], c)
  BY DEF Deliverable
<1>2. /\ r[1] \in Nat /\ r[2] \in Nat /\ r[1] < r[2]
      /\ e.prev = r[1] /\ e.last = r[2] /\ e.first = r[1] + 1
      /\ b.updateId \in Int /\ engine \in Nat
  BY <1>1, FeedAssumption DEF ExchangeOK, Update, BookType
<1>3. CASE b.market = "USD_M_FUTURES" /\ b.awaiting
  BY <1>2, <1>3 DEF Decision, FuturesBootstrap
<1>4. CASE b.market = "USD_M_FUTURES" /\ ~ b.awaiting
  BY <1>2, <1>4 DEF Decision, FuturesNext
<1>5. CASE b.market # "USD_M_FUTURES" /\ b.awaiting
  BY <1>2, <1>5 DEF Decision, SpotBootstrap
<1>6. CASE b.market # "USD_M_FUTURES" /\ ~ b.awaiting
  BY <1>2, <1>6 DEF Decision, SpotNext
<1> QED BY <1>3, <1>4, <1>5, <1>6

\* What no sequenced update changes.
SameKind(b, c) == b.buffer = c.buffer /\ b.market = c.market /\ b.retained = c.retained

\* Applying one published update keeps a book good, and of its kind.
LEMMA ApplySequencedGood ==
    ASSUME ExchangeOK, NEW b, Good(b), NEW e \in Deliverable
    PROVE  /\ Good(ApplySequenced(b, e))
           /\ SameKind(ApplySequenced(b, e), b)
           /\ b.updateId # NoId => ApplySequenced(b, e).updateId # NoId
<1> DEFINE ladder == Trim(ApplyLevels(b.ladder, e.diff), b.retained)
           status == IF ValidUncrossed(ladder) THEN "SYNCHRONIZED" ELSE "INVALID"
           after  == [b EXCEPT !.ladder   = ladder,
                               !.updateId = e.last,
                               !.awaiting = FALSE,
                               !.status   = status]
<1>1. /\ Good(Invalidate(b)) /\ Invalidate(b).updateId = b.updateId
      /\ SameKind(Invalidate(b), b)
  BY DEF Good, Invalidate, BookType, Status, Faithful, Usable, SameKind
<1>2. CASE b.updateId # NoId /\ Decision(b, e) = "ACCEPT"
  <2>1. b \in BookType /\ b.ladder \in Ladder
    BY DEF Good, BookType
  <2>2. b.updateId \in e.prev .. e.last
    BY <1>2, <2>1, AcceptedCovers
  <2>3. /\ e.last \in 0 .. engine
        /\ ApplyLevels(b.ladder, e.diff) \in Ladder
        /\ MarketAt[e.last] \in Ladder
        /\ \A l \in Level :
              (b.ladder[l] # 0 => b.ladder[l] = MarketAt[b.updateId][l])
                => (ApplyLevels(b.ladder, e.diff)[l] # 0
                      => ApplyLevels(b.ladder, e.diff)[l] = MarketAt[e.last][l])
        /\ \A l \in Level :
              b.ladder[l] = MarketAt[b.updateId][l]
                => ApplyLevels(b.ladder, e.diff)[l] = MarketAt[e.last][l]
    BY <2>1, <2>2, UpdateMeaning
  <2>4. /\ ladder \in Ladder
        /\ \A l \in Level : ladder[l] # 0 => ladder[l] = ApplyLevels(b.ladder, e.diff)[l]
        /\ b.retained = 0 => ladder = ApplyLevels(b.ladder, e.diff)
    BY <2>3, TrimFacts
  <2> HIDE DEF ladder
  <2>5. status \in Status /\ (status = "SYNCHRONIZED" => ValidUncrossed(ladder))
    BY DEF Status
  <2> HIDE DEF status
  <2>6. /\ after \in BookType
        /\ after.ladder = ladder /\ after.updateId = e.last /\ after.status = status
        /\ after.retained = b.retained /\ SameKind(after, b)
    <3>1. e.last \in -1 .. engine
      BY <2>3 DEF ExchangeOK
    <3> QED BY <2>1, <2>4, <2>5, <3>1 DEF BookType, SameKind
  <2>7. \A l \in Level : ladder[l] # 0 => ladder[l] = MarketAt[e.last][l]
    <3>1. \A l \in Level : b.ladder[l] # 0 => b.ladder[l] = MarketAt[b.updateId][l]
      BY <1>2 DEF Good, Faithful
    <3> QED BY <3>1, <2>3, <2>4
  <2>8. b.retained = 0 /\ SnapshotDepth = 0 => ladder = MarketAt[e.last]
    <3> SUFFICES ASSUME b.retained = 0, SnapshotDepth = 0
                 PROVE  ladder = MarketAt[e.last]
      OBVIOUS
    <3>1. \A l \in Level : b.ladder[l] = MarketAt[b.updateId][l]
      BY <1>2 DEF Good, Faithful
    <3>2. \A l \in Level : ladder[l] = MarketAt[e.last][l]
      BY <3>1, <2>3, <2>4
    <3> QED BY <3>2, <2>3, <2>4 DEF Ladder
  <2>9. e.last # NoId
    BY <2>3 DEF NoId, ExchangeOK
  <2>10. Faithful(after) /\ Usable(after)
    BY <2>5, <2>6, <2>7, <2>8, <2>9 DEF Faithful, Usable
  <2>11. ApplySequenced(b, e) = after
    BY <1>2 DEF ApplySequenced, ladder, status
  <2> QED BY <2>6, <2>9, <2>10, <2>11 DEF Good
<1>3. CASE b.updateId = NoId
  BY <1>1, <1>3 DEF ApplySequenced
<1>4. CASE b.updateId # NoId /\ Decision(b, e) # "ACCEPT"
  <2>1. ApplySequenced(b, e) = IF Decision(b, e) \in Ignored THEN b ELSE Invalidate(b)
    BY <1>4 DEF ApplySequenced
  <2> QED BY <1>1, <2>1 DEF SameKind
<1> QED BY <1>2, <1>3, <1>4

\* Good is kept by the loop of apply_snapshot, turn by turn.
LEMMA DrainGood ==
    ASSUME ExchangeOK, NEW b, Good(b), b.updateId # NoId, NEW id,
           NEW buffer \in Seq(Deliverable)
    PROVE  /\ Good(DrainRun(b, buffer, id)[Len(buffer)])
           /\ SameKind(DrainRun(b, buffer, id)[Len(buffer)], b)
           /\ DrainRun(b, buffer, id)[Len(buffer)].updateId # NoId
<1> DEFINE N == Len(buffer)
           run == DrainRun(b, buffer, id)
           Fine(r) == Good(r) /\ SameKind(r, b) /\ r.updateId # NoId
           Bad == {n \in 0 .. N : ~ Fine(run[n])}
<1>1. N \in Nat
  OBVIOUS
<1>2. \A i \in 0 .. N : run[i] = IF i = 0 THEN b ELSE DrainStep(run[i-1], buffer[i], id)
  <2>1. run = [i \in 0 .. N |-> IF i = 0 THEN b ELSE DrainStep(run[i-1], buffer[i], id)]
    BY <1>1, DrainRunDef
  <2> HIDE DEF run
  <2> QED BY <2>1
<1> HIDE DEF run
<1>3. Bad = {}
  <2> SUFFICES ASSUME Bad # {} PROVE FALSE
    OBVIOUS
  <2>1. PICK m \in Bad : \A k \in Bad : m <= k
    <3>1. Bad \in SUBSET Nat
      OBVIOUS
    <3> HIDE DEF Bad
    <3> QED BY <3>1, LeastElement
  <2>2. m # 0
    BY <1>1, <1>2, <2>1 DEF SameKind
  <2>3. Fine(run[m-1]) /\ m \in 1 .. N
    BY <2>1, <2>2
  <2>4. run[m] = DrainStep(run[m-1], buffer[m], id)
    BY <1>2, <2>1, <2>2
  <2>5. buffer[m] \in Deliverable
    BY <2>3
  <2>6. Fine(ApplySequenced(run[m-1], buffer[m]))
    BY <2>3, <2>5, ApplySequencedGood DEF SameKind
  <2>7. Fine(run[m])
    BY <2>3, <2>4, <2>6 DEF DrainStep
  <2> QED BY <2>1, <2>7
<1> QED BY <1>1, <1>3 DEF run

\* What apply_snapshot loads is good, before the loop.
LEMMA LoadedGood ==
    ASSUME ExchangeOK, NEW b, Good(b), NEW n \in 0 .. engine
    PROVE  LET loaded == Loaded(b, SnapshotAt(n))
           IN  /\ Good(loaded) /\ loaded.updateId = n /\ n # NoId
               /\ loaded.buffer = << >> /\ loaded.awaiting /\ loaded.status = "BUFFERING"
               /\ loaded.market = b.market /\ loaded.seen = b.seen
<1> DEFINE s == SnapshotAt(n)
           loaded == Loaded(b, s)
<1>1. MarketAt[n] \in Ladder
  BY FeedAssumption DEF ExchangeOK
<1>2. /\ s.id = n /\ s.ladder \in Ladder
      /\ \A l \in Level : s.ladder[l] # 0 => s.ladder[l] = MarketAt[n][l]
      /\ SnapshotDepth = 0 => s.ladder = MarketAt[n]
  BY <1>1, TrimFacts DEF SnapshotAt
<1> HIDE DEF s
<1>3. /\ Trim(s.ladder, b.retained) \in Ladder
      /\ \A l \in Level : Trim(s.ladder, b.retained)[l] # 0
                            => Trim(s.ladder, b.retained)[l] = s.ladder[l]
      /\ b.retained = 0 => Trim(s.ladder, b.retained) = s.ladder
  BY <1>2, TrimFacts
<1>4. b \in BookType
  BY DEF Good
<1>5. /\ loaded \in BookType /\ loaded.updateId = n
      /\ loaded.ladder = Trim(s.ladder, b.retained) /\ loaded.status = "BUFFERING"
      /\ loaded.retained = b.retained /\ loaded.buffer = << >> /\ loaded.awaiting
      /\ loaded.market = b.market /\ loaded.seen = b.seen
  <2>1. n \in -1 .. engine /\ "BUFFERING" \in Status /\ << >> \in Seq(Deliverable)
    BY DEF ExchangeOK, Status
  <2> QED BY <1>2, <1>3, <1>4, <2>1 DEF Loaded, BookType
<1>6. Faithful(loaded)
  BY <1>2, <1>3, <1>5 DEF Faithful
<1>7. n # NoId
  BY DEF NoId, ExchangeOK
<1> QED BY <1>5, <1>6, <1>7 DEF Good, Usable, s

LEMMA SnapshotGood ==
    ASSUME ExchangeOK, NEW b, Good(b), NEW n \in 0 .. engine
    PROVE  /\ Good(ApplySnapshot(b, SnapshotAt(n)))
           /\ ApplySnapshot(b, SnapshotAt(n)).buffer = << >>
<1> DEFINE s == SnapshotAt(n)
           loaded == Loaded(b, s)
           drained == DrainRun(loaded, b.buffer, s.id)[Len(b.buffer)]
           status == IF ValidUncrossed(drained.ladder) THEN "SYNCHRONIZED" ELSE "INVALID"
<1>1. Good(loaded) /\ loaded.updateId # NoId /\ loaded.buffer = << >>
  BY LoadedGood
<1>2. Good(drained) /\ drained.updateId # NoId /\ drained.buffer = << >>
  <2>1. b.buffer \in Seq(Deliverable)
    BY DEF Good, BookType
  <2> HIDE DEF loaded
  <2> QED BY <1>1, <2>1, DrainGood DEF SameKind
<1>3. /\ Good([drained EXCEPT !.status = status])
      /\ [drained EXCEPT !.status = status].buffer = << >>
  <2>1. status \in Status /\ (status = "SYNCHRONIZED" => ValidUncrossed(drained.ladder))
    BY DEF Status
  <2> HIDE DEF drained, status
  <2>2. drained \in BookType /\ Faithful(drained) /\ drained.buffer = << >>
    BY <1>2 DEF Good, drained
  <2> DEFINE final == [drained EXCEPT !.status = status]
  <2>3. /\ final \in BookType /\ final.updateId = drained.updateId
        /\ final.ladder = drained.ladder /\ final.status = status
        /\ final.retained = drained.retained /\ final.buffer = << >>
    BY <2>1, <2>2 DEF BookType
  <2> HIDE DEF final
  <2>4. Faithful(final)
    BY <2>2, <2>3 DEF Faithful
  <2>5. Usable(final)
    BY <1>2, <2>1, <2>3 DEF Usable, drained
  <2> QED BY <2>3, <2>4, <2>5 DEF Good, final
<1> QED BY <1>2, <1>3 DEF ApplySnapshot, s

\* InsertAt puts one element in its place and leaves the others in order.
LEMMA InsertAtProperties ==
    ASSUME NEW S, NEW s \in Seq(S), NEW m \in 1 .. Len(s) + 1, NEW x \in S
    PROVE  /\ InsertAt(s, m, x) \in Seq(S)
           /\ Len(InsertAt(s, m, x)) = Len(s) + 1
           /\ \A i \in 1 .. Len(s) + 1 :
                 InsertAt(s, m, x)[i] = IF i < m THEN s[i] ELSE IF i = m THEN x ELSE s[i - 1]
<1> DEFINE N == Len(s)
           k == m - 1
<1>1. N \in Nat /\ k \in Nat /\ k <= N /\ m \in Nat /\ m = k + 1
  OBVIOUS
<1>2. \A i \in 1 .. N : s[i] \in S
  OBVIOUS
<1>3. InsertAt(s, m, x) = SubSeq(s, 1, k) \o <<x>> \o SubSeq(s, m, N)
  BY DEF InsertAt
<1> HIDE DEF N, k
<1>4. /\ SubSeq(s, 1, k) \in Seq(S) /\ Len(SubSeq(s, 1, k)) = k
      /\ \A i \in 1 .. k : SubSeq(s, 1, k)[i] = s[i]
  BY <1>1, <1>2, SubSeqProperties
<1>5. /\ SubSeq(s, m, N) \in Seq(S) /\ Len(SubSeq(s, m, N)) = N - k
      /\ \A i \in 1 .. N - k : SubSeq(s, m, N)[i] = s[k + i]
  <2>1. /\ SubSeq(s, m, N) \in Seq(S)
        /\ Len(SubSeq(s, m, N)) = IF m <= N THEN N - m + 1 ELSE 0
        /\ \A i \in 1 .. N - m + 1 : SubSeq(s, m, N)[i] = s[m + i - 1]
    BY <1>1, <1>2, SubSeqProperties
  <2>2. N - m + 1 = N - k /\ (m > N => N - k = 0) /\ \A i \in Int : m + i - 1 = k + i
    BY <1>1
  <2>3. \A i \in 1 .. N - k : SubSeq(s, m, N)[i] = s[k + i]
    <3> TAKE i \in 1 .. N - k
    <3>1. i \in 1 .. N - m + 1 /\ m + i - 1 = k + i
      BY <2>2
    <3> QED BY <2>1, <3>1
  <2>4. Len(SubSeq(s, m, N)) = N - k
    <3>1. CASE m <= N
      BY <2>1, <2>2, <3>1
    <3>2. CASE ~ (m <= N)
      BY <1>1, <2>1, <2>2, <3>2
    <3> QED BY <3>1, <3>2
  <2> QED BY <2>1, <2>3, <2>4
<1>6. /\ InsertAt(s, m, x) \in Seq(S) /\ Len(InsertAt(s, m, x)) = N + 1
      /\ \A i \in 1 .. N + 1 :
            InsertAt(s, m, x)[i] = IF i < m THEN s[i] ELSE IF i = m THEN x ELSE s[i - 1]
  <2> DEFINE left == SubSeq(s, 1, k)
             right == SubSeq(s, m, N)
             start == left \o <<x>>
  <2>1. start \in Seq(S) /\ Len(start) = m /\ start[m] = x /\ \A i \in 1 .. k : start[i] = s[i]
    <3> HIDE DEF left
    <3> QED BY <1>1, <1>4 DEF left
  <2>2. right \in Seq(S) /\ Len(right) = N - k /\ \A i \in 1 .. N - k : right[i] = s[k + i]
    BY <1>5
  <2>3. InsertAt(s, m, x) = start \o right
    BY <1>3
  <2> HIDE DEF start, right
  <2>4. start \o right \in Seq(S) /\ Len(start \o right) = N + 1
    BY <1>1, <2>1, <2>2, SMTT(30)
  <2>5. ASSUME NEW i \in 1 .. N + 1
        PROVE  (start \o right)[i] = IF i < m THEN s[i] ELSE IF i = m THEN x ELSE s[i - 1]
    <3>1. (start \o right)[i] = IF i <= m THEN start[i] ELSE right[i - m]
      BY <1>1, <2>1, <2>2
    <3>2. CASE i <= m
      BY <1>1, <2>1, <3>1, <3>2
    <3>3. CASE i > m
      <4>1. i - m \in 1 .. N - k /\ k + (i - m) = i - 1
        BY <1>1, <3>3
      <4>2. right[i - m] = s[i - 1]
        BY <2>2, <4>1
      <4>3. ~ (i <= m) /\ ~ (i < m) /\ i # m
        BY <1>1, <3>3
      <4>4. (start \o right)[i] = right[i - m]
        BY <3>1, <4>3
      <4> QED BY <4>2, <4>3, <4>4, Zenon
    <3>4. i <= m \/ i > m
      BY <1>1
    <3> QED BY <3>2, <3>3, <3>4, Zenon
  <2> QED BY <2>3, <2>4, <2>5
<1> QED BY <1>6 DEF N

LEMMA InsertInOrderType ==
    ASSUME NEW S, NEW buffer \in Seq(S), NEW e \in S
    PROVE  InsertInOrder(buffer, e) \in Seq(S)
<1> DEFINE before == {i \in DOMAIN buffer : Precedes(buffer[i], e)}
           k == Cardinality(before)
<1>1. k \in 0 .. Len(buffer)
  <2>1. IsFiniteSet(1 .. Len(buffer)) /\ Cardinality(1 .. Len(buffer)) = Len(buffer)
    <3>1. Len(buffer) \in Nat
      OBVIOUS
    <3>2. \A n \in Nat : IsFiniteSet(1 .. n) /\ Cardinality(1 .. n) = n
      BY FS_Interval, SMT
    <3> QED BY <3>1, <3>2
  <2>2. before \in SUBSET (1 .. Len(buffer))
    OBVIOUS
  <2>3. IsFiniteSet(before) /\ Cardinality(before) <= Len(buffer)
    BY <2>1, <2>2, FS_Subset
  <2> QED BY <2>3, FS_CardinalityType
<1> HIDE DEF k
<1> DEFINE m == 1 + k
<1>2. m \in 1 .. Len(buffer) + 1
  BY <1>1
<1> HIDE DEF m
<1>3. InsertAt(buffer, m, e) \in Seq(S)
  BY <1>2, InsertAtProperties
<1> QED BY <1>3 DEF InsertInOrder, k, m

\* The calls that do not load a snapshot.
LEMMA UpdateGood ==
    ASSUME ExchangeOK, NEW b, Good(b), NEW e \in Deliverable
    PROVE  Good(BufferUpdate(b, e)) /\ Good(ApplyUpdate(b, e))
<1>1. b \in BookType
  BY DEF Good
<1>2. Good(Sequenced(b, e))
  <2> DEFINE c == [b EXCEPT !.seen = @ \cup {e}]
  <2>1. /\ c \in BookType /\ c.updateId = b.updateId /\ c.ladder = b.ladder
        /\ c.status = b.status /\ c.retained = b.retained
    BY <1>1 DEF BookType
  <2> HIDE DEF c
  <2>2. Good(c)
    BY <2>1 DEF Good, Faithful, Usable
  <2>3. Good(ApplySequenced(c, e))
    BY <2>2, ApplySequencedGood
  <2> QED BY <2>3 DEF Sequenced, c
<1>3. b.status # "SYNCHRONIZED" => Good(Buffered(b, e))
  <2> DEFINE c == [b EXCEPT !.seen   = @ \cup {e},
                            !.status = "BUFFERING",
                            !.buffer = InsertInOrder(@, e)]
  <2>1. InsertInOrder(b.buffer, e) \in Seq(Deliverable)
    BY <1>1, InsertInOrderType DEF BookType
  <2>2. /\ c \in BookType /\ c.updateId = b.updateId /\ c.ladder = b.ladder
        /\ c.status = "BUFFERING" /\ c.retained = b.retained
    BY <1>1, <2>1 DEF BookType, Status
  <2> HIDE DEF c
  <2>3. Good(c)
    BY <2>2 DEF Good, Faithful, Usable
  <2> QED BY <2>3 DEF Buffered, c
<1> QED BY <1>2, <1>3 DEF BufferUpdate, ApplyUpdate

LEMMA ResetGood ==
    ASSUME ExchangeOK, NEW b, Good(b)
    PROVE  Good(BeginResync(b)) /\ Good(MarkStale(b))
<1>1. b \in BookType
  BY DEF Good
<1>2. /\ BeginResync(b) \in BookType /\ BeginResync(b).updateId = NoId
      /\ BeginResync(b).status = "RESYNC_IN_PROGRESS"
  <2>1. EmptyLadder \in Ladder /\ NoId \in -1 .. engine /\ << >> \in Seq(Deliverable)
    BY DEF EmptyLadder, Ladder, NoId, ExchangeOK
  <2> QED BY <1>1, <2>1 DEF BeginResync, BookType, Status
<1>3. /\ MarkStale(b) \in BookType /\ MarkStale(b).updateId = b.updateId
      /\ MarkStale(b).retained = b.retained /\ MarkStale(b).ladder = b.ladder /\ MarkStale(b).status = "INVALID"
  BY <1>1 DEF MarkStale, Invalidate, BookType, Status
<1> QED BY <1>2, <1>3 DEF Good, Faithful, Usable

-----------------------------------------------------------------------------
LEMMA InitInv == Init => IInv
<1> SUFFICES ASSUME Init PROVE IInv
  OBVIOUS
<1>1. ExchangeOK
  BY FeedAssumption DEF Init, ExchangeOK
<1>2. EmptyLadder \in Ladder /\ NoId \in -1 .. engine /\ << >> \in Seq(Deliverable)
  BY DEF EmptyLadder, Ladder, NoId, Init
<1>3. book \in BookType /\ book.updateId = NoId /\ book.status = "EMPTY"
  BY <1>2, FeedAssumption DEF Init, NewBook, BookType, Status
<1> QED BY <1>1, <1>3 DEF IInv, Good, Faithful, Usable

LEMMA NextInv == IInv /\ [Next]_vars => IInv'
<1> SUFFICES ASSUME IInv, [Next]_vars PROVE IInv'
  OBVIOUS
<1> USE DEF IInv
\* Steps of the exchange leave the book alone and only widen its types.
<1>1. ASSUME UNCHANGED book, ExchangeOK', engine <= engine', published \subseteq published'
      PROVE  Good(book)'
  <2>1. Deliverable \subseteq Deliverable'
    BY <1>1 DEF Deliverable
  <2>2. -1 .. engine \subseteq (-1 .. engine)'
    BY <1>1 DEF ExchangeOK
  <2>3. Seq(Deliverable) \subseteq Seq(Deliverable')
    BY <2>1
  <2>4. book \in BookType'
    <3>1. book \in BookType
      BY DEF Good
    <3> QED BY <2>1, <2>2, <2>3, <3>1 DEF BookType
  <2> QED BY <1>1, <2>4 DEF Good, Faithful, Usable
<1>2. ASSUME Match PROVE IInv'
  <2>1. ExchangeOK'
    BY <1>2, FeedAssumption DEF Match, ExchangeOK
  <2> QED BY <1>1, <1>2, <2>1 DEF Match, ExchangeOK
<1>3. ASSUME Publish PROVE IInv'
  <2>1. ExchangeOK'
    BY <1>3, FeedAssumption DEF Publish, ExchangeOK
  <2> QED BY <1>1, <1>3, <2>1 DEF Publish, ExchangeOK
\* Steps of the book leave the exchange alone.
<1>4. ASSUME UNCHANGED <<engine, published>>, NEW b, Good(b), book' = b PROVE IInv'
  <2>1. b \in BookType'
    BY <1>4 DEF Good, BookType, Deliverable
  <2> QED BY <1>4, <2>1 DEF Good, Faithful, Usable, ExchangeOK
<1>5. ASSUME NEW e \in Deliverable, CallBufferUpdate(e) PROVE IInv'
  BY <1>4, <1>5, UpdateGood DEF CallBufferUpdate
<1>6. ASSUME NEW e \in Deliverable, CallApplyUpdate(e) PROVE IInv'
  BY <1>4, <1>6, UpdateGood DEF CallApplyUpdate
<1>7. ASSUME NEW n \in 0 .. engine, CallApplySnapshot(n) PROVE IInv'
  BY <1>4, <1>7, SnapshotGood DEF CallApplySnapshot
<1>8. ASSUME CallBeginResync PROVE IInv'
  BY <1>4, <1>8, ResetGood DEF CallBeginResync
<1>9. ASSUME CallMarkStale PROVE IInv'
  BY <1>4, <1>9, ResetGood DEF CallMarkStale
<1>10. ASSUME UNCHANGED vars PROVE IInv'
  BY <1>4, <1>10 DEF vars
<1> QED BY <1>2, <1>3, <1>5, <1>6, <1>7, <1>8, <1>9, <1>10 DEF Next

\* The inductive invariant holds in every reachable state.
THEOREM Invariance == Spec => []IInv
<1> QED BY InitInv, NextInv, PTL DEF Spec

\* Every reachable state of the exchange and the book is well typed.
THEOREM TypeCorrect == Spec => []TypeOK
<1>1. IInv => TypeOK
  BY DEF IInv, ExchangeOK, Good, BookType, TypeOK
<1> QED BY <1>1, Invariance, PTL

\* For every exchange history and every interleaving of late, lost, repeated
\* and reordered updates with stale snapshots, the book lists no wrong level.
THEOREM NoPhantom == Spec => []NoPhantomLevel
<1>1. IInv => NoPhantomLevel
  BY DEF IInv, Good, Faithful, NoPhantomLevel
<1> QED BY <1>1, Invariance, PTL

\* Without trimming, on full snapshots, the book is the exchange's book at its
\* update id.
THEOREM Mirrors == Spec => []MirrorsExchange
<1>1. IInv => MirrorsExchange
  BY DEF IInv, Good, Faithful, MirrorsExchange, KeepsAll
<1> QED BY <1>1, Invariance, PTL

\* A synchronized book has both sides, uncrossed, and an update id.
THEOREM UsableWhenSynchronized == Spec => []SynchronizedIsUsable
<1>1. IInv => SynchronizedIsUsable
  BY DEF IInv, Good, Usable, SynchronizedIsUsable
<1> QED BY <1>1, Invariance, PTL

\* No update, stale mark or resync synchronizes a book that was not: only a
\* snapshot does.
THEOREM FailsClosed == Spec => OnlySnapshotSynchronizes
<1>1. IInv /\ [Next]_vars
        => [book.status # "SYNCHRONIZED" /\ book'.status = "SYNCHRONIZED"
              => \E n \in 0 .. engine : CallApplySnapshot(n)]_vars
  <2> SUFFICES ASSUME IInv, Next, book.status # "SYNCHRONIZED",
                      book'.status = "SYNCHRONIZED"
               PROVE  \E n \in 0 .. engine : CallApplySnapshot(n)
    BY DEF vars
  <2>1. book \in BookType
    BY DEF IInv, Good
  <2>2. \A e \in Deliverable : Buffered(book, e).status # "SYNCHRONIZED"
    BY <2>1 DEF Buffered, BookType
  <2>3. \A e \in Deliverable : ~ CallBufferUpdate(e) /\ ~ CallApplyUpdate(e)
    BY <2>2 DEF CallBufferUpdate, CallApplyUpdate, BufferUpdate, ApplyUpdate
  <2>4. ~ CallBeginResync /\ ~ CallMarkStale
    BY <2>1 DEF CallBeginResync, BeginResync, CallMarkStale, MarkStale, Invalidate, BookType
  <2> QED BY <2>3, <2>4 DEF Next, Match, Publish
<1> QED BY <1>1, Invariance, PTL DEF Spec, OnlySnapshotSynchronizes

\* Whatever the network does, depth updates never move a book back in time.
THEOREM NeverRegresses == Spec => NoSilentRegress
<1>1. IInv /\ [Next]_vars
        => [book'.updateId < book.updateId
              => CallBeginResync \/ \E n \in 0 .. engine : CallApplySnapshot(n)]_vars
  <2> SUFFICES ASSUME IInv, Next, book'.updateId < book.updateId
               PROVE  CallBeginResync \/ \E n \in 0 .. engine : CallApplySnapshot(n)
    BY DEF vars
  <2>1. book \in BookType /\ book.updateId \in Int /\ ExchangeOK
    BY DEF IInv, Good, BookType, ExchangeOK
  <2>2. \A e \in Deliverable, b \in BookType :
            ~ (ApplySequenced(b, e).updateId < b.updateId)
    <3> TAKE e \in Deliverable, b \in BookType
    <3>1. CASE b.updateId # NoId /\ Decision(b, e) = "ACCEPT"
      <4>1. b.updateId \in e.prev .. e.last
        BY <2>1, <3>1, AcceptedCovers
      <4>2. ApplySequenced(b, e).updateId = e.last
        BY <3>1 DEF ApplySequenced, BookType
      <4>3. e.prev \in Int /\ e.last \in Int
        BY <2>1, FeedAssumption DEF Deliverable, Update, ExchangeOK
      <4> QED BY <4>1, <4>2, <4>3
    <3>2. CASE ~ (b.updateId # NoId /\ Decision(b, e) = "ACCEPT")
      <4>1. ApplySequenced(b, e).updateId = b.updateId
        BY <3>2 DEF ApplySequenced, Invalidate, BookType
      <4>2. b.updateId \in Int
        BY <2>1 DEF BookType, ExchangeOK
      <4> QED BY <4>1, <4>2
    <3> QED BY <3>1, <3>2
  <2>3. \A e \in Deliverable : ~ (Sequenced(book, e).updateId < book.updateId)
    <3> TAKE e \in Deliverable
    <3> DEFINE c == [book EXCEPT !.seen = @ \cup {e}]
    <3>1. c \in BookType /\ c.updateId = book.updateId
      BY <2>1 DEF BookType
    <3> HIDE DEF c
    <3>2. ~ (ApplySequenced(c, e).updateId < book.updateId)
      BY <2>2, <3>1
    <3> QED BY <2>1, <3>2 DEF Sequenced, c
  <2>4. \A e \in Deliverable : Buffered(book, e).updateId = book.updateId
    BY <2>1 DEF Buffered, BookType
  <2>5. \A e \in Deliverable : ~ CallBufferUpdate(e) /\ ~ CallApplyUpdate(e)
    BY <2>1, <2>3, <2>4 DEF CallBufferUpdate, CallApplyUpdate, BufferUpdate, ApplyUpdate
  <2>6. ~ CallMarkStale /\ ~ Match /\ ~ Publish
    BY <2>1 DEF CallMarkStale, MarkStale, Invalidate, BookType, Match, Publish
  <2> QED BY <2>5, <2>6 DEF Next
<1> QED BY <1>1, Invariance, PTL DEF Spec, NoSilentRegress

\* Whatever moves only the exchange or only the book is a step of MirrorBook.
LEMMA MirrorStep ==
    ASSUME IInv, IInv', Match \/ UNCHANGED engine
    PROVE  [Mirror!Next]_(Mirror!vars)
<1>1. CASE Match
  BY <1>1 DEF Match, ShownView, KeepsAll, Mirror!Match, Mirror!Next
<1>2. CASE UNCHANGED engine
  <2>1. CASE book'.status = "SYNCHRONIZED"
    <3>1. /\ book'.updateId \in 0 .. engine
          /\ Faithful(book)' /\ book'.updateId # NoId
      BY <1>2, <2>1 DEF IInv, Good, BookType, Usable, NoId, ExchangeOK
    <3>2. Mirror!Shows(ShownView', book'.updateId)
      BY <2>1, <3>1 DEF ShownView, KeepsAll, Faithful, Mirror!Shows, Mirror!Level, Level, Side
    <3> QED BY <1>2, <3>1, <3>2 DEF Mirror!Show, Mirror!Next
  <2>2. CASE book'.status # "SYNCHRONIZED"
    BY <1>2, <2>2 DEF ShownView, Mirror!Hide, Mirror!Next, Mirror!NoView, Mirror!Level,
                      NoId, EmptyLadder, Level, Side
  <2> QED BY <2>1, <2>2
<1> QED BY <1>1, <1>2

\* At first nothing is shown.
LEMMA MirrorInit == Init => Mirror!Init
<1> QED BY DEF Init, NewBook, Mirror!Init, Mirror!NoView, Mirror!Level, ShownView,
               NoId, EmptyLadder, Level, Side

\* The book implements MirrorBook: what it shows is always part of one true
\* state of the exchange, and all of it unless something was trimmed.
THEOREM ImplementsMirror == Spec => MirrorSpec
<1>1. IInv /\ IInv' /\ [Next]_vars => [Mirror!Next]_(Mirror!vars)
  <2> SUFFICES ASSUME IInv, IInv', [Next]_vars
               PROVE  Match \/ UNCHANGED engine
    BY MirrorStep
  <2> QED BY DEF Next, Publish, CallBufferUpdate, CallApplyUpdate,
             CallApplySnapshot, CallBeginResync, CallMarkStale, vars
<1> QED BY <1>1, MirrorInit, Invariance, PTL DEF Spec, MirrorSpec, Mirror!Spec

\* For every exchange history, every number of copies and every trimming, the book
\* is consistent at every moment.
THEOREM BookIsConsistent == Spec => []BookConsistent
<1> QED BY TypeCorrect, UsableWhenSynchronized, NoPhantom, Mirrors, PTL DEF BookConsistent

\* Only a snapshot wins back what was lost.
THEOREM SnapshotsRestore == Spec => OnlySnapshotsRestore
<1> QED BY FailsClosed, NeverRegresses DEF OnlySnapshotsRestore

-----------------------------------------------------------------------------
(* A complete buffer aligns with its snapshot *)

\* What was published are consecutive parts of the exchange's history: a range
\* starts where another one ended, and none ends inside another.
Chained ==
    /\ \A r \in published : r[1] = 0 \/ \E q \in published : q[2] = r[1]
    /\ \A q, r \in published : ~ (r[1] < q[2] /\ q[2] < r[2])

Sorted(buffer) ==
    \A i, j \in DOMAIN buffer : i < j => Precedes(buffer[i], buffer[j])

FullInv == IInv /\ Chained /\ Sorted(book.buffer)

\* What a delivered update says of itself.
LEMMA DeliverableFacts ==
    ASSUME ExchangeOK, NEW e \in Deliverable
    PROVE  /\ e.prev \in Nat /\ e.last \in Nat /\ e.first \in Nat
           /\ e.first = e.prev + 1 /\ e.prev < e.last /\ e.last <= engine
           /\ \E r \in published : r[1] = e.prev /\ r[2] = e.last
<1>1. PICK r \in published, c \in Copies : e = Update(r[1], r[2], c)
  BY DEF Deliverable
<1> QED BY <1>1, FeedAssumption DEF ExchangeOK, Update

\* A set of positions that holds every position before one of its own is an
\* initial part of the sequence, as long as the set is large.
LEMMA InitialPart ==
    ASSUME NEW N \in Nat, NEW S \in SUBSET (1 .. N),
           \A i, j \in 1 .. N : i < j /\ j \in S => i \in S
    PROVE  Cardinality(S) \in 0 .. N /\ S = 1 .. Cardinality(S)
<1> DEFINE T == {i \in 1 .. N + 1 : i \notin S}
<1>1. T \in SUBSET Nat /\ N + 1 \in T
  OBVIOUS
<1>2. PICK m \in T : \A k \in T : m <= k
  <2> HIDE DEF T
  <2> QED BY <1>1, LeastElement
<1>3. S = 1 .. m - 1
  <2>1. \A i \in 1 .. m - 1 : i \in S
    BY <1>2
  <2>2. ASSUME NEW i \in S PROVE i \in 1 .. m - 1
    <3>1. i \in 1 .. N /\ m \in 1 .. N + 1 /\ m \notin S
      BY <1>2
    <3>2. i # m /\ ~ (m < i)
      BY <3>1
    <3> QED BY <3>1, <3>2
  <2> QED BY <2>1, <2>2
<1>4. m - 1 \in Nat /\ m - 1 <= N
  BY <1>2
<1>5. Cardinality(1 .. m - 1) = m - 1
  <2>1. \A n \in Nat : Cardinality(1 .. n) = n
    BY FS_Interval, SMT
  <2> QED BY <1>4, <2>1
<1> QED BY <1>3, <1>4, <1>5

\* Where InsertInOrder puts an update, and what it leaves in place.
LEMMA InsertInOrderSorts ==
    ASSUME ExchangeOK, NEW buffer \in Seq(Deliverable), Sorted(buffer), NEW e \in Deliverable
    PROVE  Sorted(InsertInOrder(buffer, e))
<1> DEFINE N == Len(buffer)
           before == {i \in DOMAIN buffer : Precedes(buffer[i], e)}
           k == Cardinality(before)
           longer == InsertInOrder(buffer, e)
<1>1. N \in Nat /\ DOMAIN buffer = 1 .. N /\ before \in SUBSET (1 .. N)
  OBVIOUS
<1>2. /\ e.first \in Nat /\ e.last \in Nat
      /\ \A i \in 1 .. N : buffer[i].first \in Nat /\ buffer[i].last \in Nat
  <2>1. \A i \in 1 .. N : buffer[i] \in Deliverable
    OBVIOUS
  <2> QED BY <2>1, DeliverableFacts
<1>3. \A i, j \in 1 .. N : i < j /\ j \in before => i \in before
  <2> SUFFICES ASSUME NEW i \in 1 .. N, NEW j \in 1 .. N, i < j, Precedes(buffer[j], e)
               PROVE  Precedes(buffer[i], e)
    BY <1>1
  <2>1. Precedes(buffer[i], buffer[j])
    BY DEF Sorted
  <2>2. /\ buffer[i].first \in Nat /\ buffer[i].last \in Nat
        /\ buffer[j].first \in Nat /\ buffer[j].last \in Nat
    BY <1>2
  <2> QED BY <1>2, <2>1, <2>2 DEF Precedes
<1>4. k \in 0 .. N /\ before = 1 .. k
  <2> HIDE DEF before, N
  <2> QED BY <1>1, <1>3, InitialPart
<1>5. \A i \in 1 .. N : i <= k <=> Precedes(buffer[i], e)
  BY <1>1, <1>4
<1> HIDE DEF k, before
<1> DEFINE m == 1 + k
<1>6. m \in 1 .. N + 1 /\ m = k + 1 /\ InsertAt(buffer, m, e) = longer
  <2>1. InsertAt(buffer, m, e) = longer
    BY Zenon DEF InsertInOrder, k, before
  <2> QED BY <1>1, <1>4, <2>1
<1> HIDE DEF m
<1>7. /\ Len(longer) = N + 1
      /\ \A i \in 1 .. N + 1 :
            longer[i] = IF i <= k THEN buffer[i] ELSE IF i = k + 1 THEN e ELSE buffer[i - 1]
  <2> HIDE DEF longer
  <2>1. /\ Len(longer) = N + 1
        /\ \A i \in 1 .. N + 1 :
              longer[i] = IF i < m THEN buffer[i] ELSE IF i = m THEN e ELSE buffer[i - 1]
    <3>1. /\ Len(InsertAt(buffer, m, e)) = Len(buffer) + 1
          /\ \A i \in 1 .. Len(buffer) + 1 :
                InsertAt(buffer, m, e)[i]
                    = IF i < m THEN buffer[i] ELSE IF i = m THEN e ELSE buffer[i - 1]
      <4>1. buffer \in Seq(Deliverable) /\ m \in 1 .. Len(buffer) + 1 /\ e \in Deliverable
        BY <1>6
      <4> QED BY <4>1, InsertAtProperties, SMTT(60)
    <3> QED BY <1>6, <3>1, Zenon
  <2> QED BY <1>1, <1>4, <1>6, <2>1
<1>8. ASSUME NEW i \in 1 .. N + 1, NEW j \in 1 .. N + 1, i < j
      PROVE  Precedes(longer[i], longer[j])
  <2> HIDE DEF longer, N
  <2>1. \A x, y \in 1 .. N : x < y => Precedes(buffer[x], buffer[y])
    BY <1>1 DEF Sorted
  <2>2. CASE j <= k
    BY <1>1, <1>4, <1>7, <1>8, <2>1, <2>2
  <2>3. CASE j = k + 1
    BY <1>1, <1>4, <1>5, <1>7, <1>8, <2>3
  <2>4. CASE j > k + 1 /\ i = k + 1
    <3>1. j - 1 \in 1 .. N /\ ~ Precedes(buffer[j - 1], e)
      BY <1>1, <1>4, <1>5, <2>4
    <3>2. longer[i] = e /\ longer[j] = buffer[j - 1]
      BY <1>1, <1>4, <1>7, <2>4
    <3> QED BY <1>2, <3>1, <3>2 DEF Precedes
  <2>5. CASE j > k + 1 /\ i <= k
    BY <1>1, <1>4, <1>7, <1>8, <2>1, <2>5
  <2>6. CASE j > k + 1 /\ i > k + 1
    BY <1>1, <1>4, <1>7, <1>8, <2>1, <2>6
  <2> QED BY <1>1, <1>4, <2>2, <2>3, <2>4, <2>5, <2>6
<1>9. DOMAIN longer = 1 .. N + 1
  <2>1. longer \in Seq(Deliverable)
    BY InsertInOrderType
  <2> QED BY <1>7, <2>1
<1> QED BY <1>8, <1>9 DEF Sorted

LEMMA FullInitInv == Init => FullInv
<1>1. Init => Chained /\ Sorted(book.buffer)
  BY DEF Init, Chained, Sorted, NewBook
<1> QED BY <1>1, InitInv DEF FullInv

\* A new range starts at the last published id and ends beyond it.
LEMMA PublishChained ==
    ASSUME ExchangeOK, Chained, Publish
    PROVE  Chained'
<1>1. PICK p \in 0 .. engine - 1 :
          IsPublishedId(p) /\ published' = published \cup {<<p, engine>>}
  BY DEF Publish
<1>2. /\ \A r \in published : r[1] \in Nat /\ r[2] \in Nat /\ r[2] <= p /\ r[2] <= engine
      /\ p \in Nat /\ engine \in Nat
  BY <1>1, FeedAssumption DEF ExchangeOK, IsPublishedId
<1>3. p = 0 \/ \E q \in published : q[2] = p
  BY <1>1 DEF IsPublishedId
<1>4. <<p, engine>>[1] = p /\ <<p, engine>>[2] = engine
  OBVIOUS
<1>5. \A r \in published' : r[1] = 0 \/ \E q \in published' : q[2] = r[1]
  <2> TAKE r \in published'
  <2>1. CASE r \in published
    BY <1>1, <2>1 DEF Chained
  <2>2. CASE r = <<p, engine>>
    BY <1>1, <1>3, <2>2
  <2> QED BY <1>1, <2>1, <2>2
<1>6. \A q, r \in published' : ~ (r[1] < q[2] /\ q[2] < r[2])
  <2> SUFFICES ASSUME NEW q \in published', NEW r \in published', r[1] < q[2], q[2] < r[2]
               PROVE  FALSE
    OBVIOUS
  <2>1. CASE q \in published /\ r \in published
    BY <2>1 DEF Chained
  <2>2. CASE q = <<p, engine>> /\ r \in published
    BY <1>2, <2>2
  <2>3. CASE q \in published /\ r = <<p, engine>>
    BY <1>2, <2>3
  <2>4. CASE q = <<p, engine>> /\ r = <<p, engine>>
    BY <1>2, <2>4
  <2> QED BY <1>1, <2>1, <2>2, <2>3, <2>4
<1> QED BY <1>5, <1>6 DEF Chained

LEMMA FullNextInv == FullInv /\ [Next]_vars => FullInv'
<1> SUFFICES ASSUME FullInv, [Next]_vars PROVE FullInv'
  OBVIOUS
<1>1. /\ IInv /\ Chained /\ Sorted(book.buffer) /\ IInv'
      /\ ExchangeOK /\ Good(book) /\ book \in BookType /\ book.buffer \in Seq(Deliverable)
  BY NextInv DEF FullInv, IInv, Good, BookType
<1>2. ASSUME published' = published PROVE Chained'
  BY <1>1, <1>2 DEF Chained
<1>3. ASSUME UNCHANGED book PROVE Sorted(book.buffer)'
  BY <1>1, <1>3 DEF Sorted
\* An update enters the buffer in its place, or the buffer stays.
<1>5. \A e \in Deliverable : Sorted(Sequenced(book, e).buffer) /\ Sorted(Buffered(book, e).buffer)
  <2> TAKE e \in Deliverable
  <2>1. Sequenced(book, e).buffer = book.buffer
    <3> DEFINE c == [book EXCEPT !.seen = @ \cup {e}]
    <3>1. /\ c \in BookType /\ c.updateId = book.updateId /\ c.ladder = book.ladder
          /\ c.status = book.status /\ c.retained = book.retained /\ c.buffer = book.buffer
      BY <1>1 DEF BookType
    <3> HIDE DEF c
    <3>2. Good(c)
      BY <1>1, <3>1 DEF Good, Faithful, Usable
    <3>3. ApplySequenced(c, e).buffer = c.buffer
      BY <1>1, <3>2, ApplySequencedGood DEF SameKind
    <3> QED BY <3>1, <3>3 DEF Sequenced, c
  <2>2. Sorted(InsertInOrder(book.buffer, e))
    BY <1>1, InsertInOrderSorts
  <2>3. Buffered(book, e).buffer \in {book.buffer, InsertInOrder(book.buffer, e)}
    BY <1>1 DEF Buffered, BookType
  <2> QED BY <1>1, <2>1, <2>2, <2>3
<1>6. ASSUME NEW e \in Deliverable, CallBufferUpdate(e) \/ CallApplyUpdate(e)
      PROVE  Sorted(book'.buffer) /\ published' = published
  BY <1>1, <1>5, <1>6 DEF CallBufferUpdate, CallApplyUpdate, BufferUpdate, ApplyUpdate
<1>7. ASSUME NEW n \in 0 .. engine, CallApplySnapshot(n)
      PROVE  Sorted(book'.buffer) /\ published' = published
  <2>1. book'.buffer = << >>
    BY <1>1, <1>7, SnapshotGood DEF CallApplySnapshot
  <2> QED BY <1>7, <2>1 DEF Sorted, CallApplySnapshot
<1>8. ASSUME CallBeginResync PROVE Sorted(book'.buffer) /\ published' = published
  <2>1. book'.buffer = << >>
    BY <1>1, <1>8 DEF CallBeginResync, BeginResync, BookType
  <2> QED BY <1>8, <2>1 DEF Sorted, CallBeginResync
<1>9. ASSUME CallMarkStale PROVE Sorted(book'.buffer) /\ published' = published
  <2>1. book'.buffer = book.buffer
    BY <1>1, <1>9 DEF CallMarkStale, MarkStale, Invalidate, BookType
  <2> QED BY <1>1, <1>9, <2>1 DEF CallMarkStale
<1>10. CASE Match \/ UNCHANGED vars
  BY <1>1, <1>2, <1>3, <1>10 DEF Match, vars, FullInv
<1>11. CASE Publish
  BY <1>1, <1>3, <1>11, PublishChained DEF Publish, FullInv
<1>12. CASE ~ Match /\ ~ Publish /\ Next
  BY <1>1, <1>2, <1>6, <1>7, <1>8, <1>9, <1>12 DEF Next, FullInv
<1> QED BY <1>10, <1>11, <1>12

\* The whole inductive invariant holds in every reachable state.
THEOREM FullInvariance == Spec => []FullInv
<1> QED BY FullInitInv, FullNextInv, PTL DEF Spec

Buffers(buffer, q) == \E k \in DOMAIN buffer : buffer[k].prev = q[1] /\ buffer[k].last = q[2]

\* The buffer holds what the snapshot at n needs: everything published after it,
\* for Futures also the update it falls into.
Supplied(buffer, market, n) ==
    /\ \A q \in published : q[2] > n => Buffers(buffer, q)
    /\ market = "USD_M_FUTURES" =>
          \E q \in published : q[1] < n /\ n <= q[2] /\ Buffers(buffer, q)

\* The book r after the first i buffered updates: it is the exchange's at its id, which
\* has reached every one of them, and waits for the first diff as long as none fitted.
Aligned(r, buffer, i, n) ==
    /\ Good(r) /\ r.retained = 0 /\ r.status # "INVALID"
    /\ r.updateId \in n .. engine
    /\ IF r.awaiting THEN r.updateId = n
                     ELSE \E q \in published : q[2] = r.updateId
    /\ \A j \in 1 .. i : buffer[j].last <= r.updateId
    /\ r.awaiting /\ r.market = "USD_M_FUTURES" => \A j \in 1 .. i : buffer[j].last < n

\* In a sorted and complete buffer every update after n that starts beyond u follows
\* one that ends where it starts.
LEMMA NoHole ==
    ASSUME ExchangeOK, Chained, NEW buffer \in Seq(Deliverable), Sorted(buffer),
           NEW market, NEW n \in 0 .. engine, Supplied(buffer, market, n),
           NEW i \in DOMAIN buffer, NEW u \in n .. engine,
           \A j \in 1 .. i - 1 : buffer[j].last <= u
    PROVE  buffer[i].prev <= u
<1> DEFINE e == buffer[i]
<1> SUFFICES ASSUME u < e.prev PROVE FALSE
  <2>1. e.prev \in Nat
    BY DeliverableFacts
  <2> QED BY <2>1 DEF ExchangeOK
<1>1. /\ \A j \in DOMAIN buffer : /\ buffer[j].prev \in Nat /\ buffer[j].last \in Nat
                                  /\ buffer[j].first = buffer[j].prev + 1
                                  /\ buffer[j].prev < buffer[j].last
      /\ \E r \in published : r[1] = e.prev /\ r[2] = e.last
  BY DeliverableFacts
<1>2. PICK q \in published : q[2] = e.prev
  BY <1>1 DEF Chained, ExchangeOK
<1>3. PICK k \in DOMAIN buffer : buffer[k].prev = q[1] /\ buffer[k].last = q[2]
  BY <1>2 DEF Supplied, Buffers, ExchangeOK
<1>4. buffer[k].prev < e.prev
  BY <1>1, <1>2, <1>3
<1>5. k < i
  <2>1. ~ (i < k)
    BY <1>1, <1>4 DEF Sorted, Precedes
  <2>2. i # k
    BY <1>1, <1>4
  <2> QED BY <2>1, <2>2
<1> QED BY <1>2, <1>3, <1>5 DEF ExchangeOK

\* One turn of the loop keeps the book aligned.
LEMMA AlignedStep ==
    ASSUME ExchangeOK, Chained, SnapshotDepth = 0,
           NEW buffer \in Seq(Deliverable), Sorted(buffer),
           NEW n \in 0 .. engine, \A x \in n .. engine : ValidUncrossed(MarketAt[x]),
           NEW i \in DOMAIN buffer, NEW r, Aligned(r, buffer, i - 1, n),
           Supplied(buffer, r.market, n)
    PROVE  /\ Aligned(DrainStep(r, buffer[i], n), buffer, i, n)
           /\ SameKind(DrainStep(r, buffer[i], n), r)
<1> DEFINE e == buffer[i]
           u == r.updateId
<1>1. /\ e \in Deliverable /\ e.prev \in Nat /\ e.last \in Nat /\ e.first = e.prev + 1
      /\ e.prev < e.last /\ e.last <= engine
      /\ \E q \in published : q[1] = e.prev /\ q[2] = e.last
  <2>1. e \in Deliverable
    OBVIOUS
  <2> QED BY <2>1, DeliverableFacts
<1>2. /\ Good(r) /\ r \in BookType /\ u \in n .. engine /\ n \in Nat /\ engine \in Nat
      /\ r.retained = 0 /\ r.status # "INVALID" /\ u # NoId
  BY DEF Aligned, Good, ExchangeOK, NoId
<1>3. e.prev <= u
  <2>1. \A j \in 1 .. i - 1 : buffer[j].last <= u
    BY DEF Aligned
  <2> HIDE DEF u
  <2> QED BY <1>2, <2>1, NoHole
\* The update that Futures begins with holds the id of the snapshot.
<1>4. r.market = "USD_M_FUTURES" /\ r.awaiting => e.prev < n
  <2> SUFFICES ASSUME r.market = "USD_M_FUTURES", r.awaiting, n <= e.prev PROVE FALSE
    BY <1>1, <1>2
  <2>1. PICK q \in published : q[1] < n /\ n <= q[2] /\ Buffers(buffer, q)
    BY DEF Supplied
  <2>2. PICK k \in DOMAIN buffer : buffer[k].prev = q[1] /\ buffer[k].last = q[2]
    BY <2>1 DEF Buffers
  <2>3. /\ buffer[k].prev \in Nat /\ buffer[k].last \in Nat
        /\ buffer[k].first = buffer[k].prev + 1
    <3>1. buffer[k] \in Deliverable
      BY <2>2
    <3> QED BY <3>1, DeliverableFacts
  <2>4. k < i
    <3>1. ~ (i < k)
      BY <1>1, <2>1, <2>2, <2>3, SMTT(30) DEF Sorted, Precedes
    <3>2. i # k
      BY <1>1, <2>1, <2>2
    <3> QED BY <3>1, <3>2
  <2>5. buffer[k].last < n
    BY <2>4 DEF Aligned
  <2> QED BY <1>2, <2>1, <2>2, <2>3, <2>5
<1>5. CASE e.last < n
  <2>1. DrainStep(r, e, n) = r
    BY <1>5 DEF DrainStep
  <2>2. \A j \in 1 .. i : j \in 1 .. i - 1 \/ j = i
    OBVIOUS
  <2> QED BY <1>1, <1>2, <1>5, <2>1, <2>2 DEF Aligned, SameKind
<1>6. CASE n <= e.last /\ Decision(r, e) # "ACCEPT"
  <2>1. /\ Decision(r, e) \in Ignored /\ e.last <= u
        /\ ~ (r.awaiting /\ r.market = "USD_M_FUTURES")
    <3>1. CASE r.market = "USD_M_FUTURES" /\ r.awaiting
      <4>1. u = n /\ e.prev < n
        BY <1>4, <3>1 DEF Aligned
      <4> QED BY <1>1, <1>2, <1>6, <3>1, <4>1 DEF Decision, FuturesBootstrap
    <3>2. CASE r.market = "USD_M_FUTURES" /\ ~ r.awaiting
      <4>1. PICK q \in published : q[2] = u
        BY <3>2 DEF Aligned
      <4>2. ~ (e.prev < u /\ u < e.last)
        BY <1>1, <4>1 DEF Chained
      <4> QED BY <1>1, <1>2, <1>3, <1>6, <3>2, <4>2 DEF Decision, FuturesNext, Ignored, NoPu
    <3>3. CASE r.market # "USD_M_FUTURES" /\ r.awaiting
      BY <1>1, <1>2, <1>3, <1>6, <3>3 DEF Decision, SpotBootstrap, Ignored
    <3>4. CASE r.market # "USD_M_FUTURES" /\ ~ r.awaiting
      BY <1>1, <1>2, <1>3, <1>6, <3>4, SMTT(30) DEF Decision, SpotNext, Ignored
    <3> QED BY <3>1, <3>2, <3>3, <3>4
  <2>2. DrainStep(r, e, n) = r
    BY <1>1, <1>2, <1>6, <2>1 DEF DrainStep, ApplySequenced
  <2>3. \A j \in 1 .. i : j \in 1 .. i - 1 \/ j = i
    OBVIOUS
  <2> QED BY <1>1, <1>2, <1>6, <2>1, <2>2, <2>3 DEF Aligned, SameKind
<1>7. CASE n <= e.last /\ Decision(r, e) = "ACCEPT"
  <2> DEFINE w == ApplySequenced(r, e)
  <2>1. DrainStep(r, e, n) = w
    BY <1>1, <1>2, <1>7 DEF DrainStep
  <2>2. Good(w) /\ SameKind(w, r) /\ w \in BookType
    BY <1>1, <1>2, ApplySequencedGood DEF Good
  <2>3. /\ w.updateId = e.last /\ ~ w.awaiting
        /\ w.status = IF ValidUncrossed(w.ladder) THEN "SYNCHRONIZED" ELSE "INVALID"
    BY <1>2, <1>7 DEF ApplySequenced, BookType
  <2>4. u <= e.last
    <3>1. r.updateId \in e.prev .. e.last
      BY <1>1, <1>2, <1>7, AcceptedCovers
    <3> QED BY <1>1, <3>1
  <2> HIDE DEF w
  <2>5. w.ladder = MarketAt[e.last] /\ w.retained = 0
    BY <1>1, <1>2, <2>2, <2>3 DEF Good, Faithful, SameKind, NoId
  <2>6. w.status = "SYNCHRONIZED" /\ w.updateId \in n .. engine
    BY <1>1, <1>2, <1>7, <2>3, <2>5
  <2>7. \A j \in 1 .. i : buffer[j].last <= e.last
    <3> TAKE j \in 1 .. i
    <3>1. CASE j = i
      BY <1>1, <3>1
    <3>2. CASE j \in 1 .. i - 1
      <4>1. buffer[j].last <= u /\ buffer[j].last \in Nat
        <5>1. buffer[j] \in Deliverable
          BY <3>2
        <5> QED BY <3>2, <5>1, DeliverableFacts DEF Aligned
      <4> QED BY <1>1, <1>2, <2>4, <4>1
    <3> QED BY <3>1, <3>2
  <2> QED BY <1>1, <2>1, <2>2, <2>3, <2>5, <2>6, <2>7 DEF Aligned
<1> QED BY <1>1, <1>2, <1>5, <1>6, <1>7

\* The book a complete buffer leaves behind.
LEMMA DrainAligns ==
    ASSUME ExchangeOK, Chained, SnapshotDepth = 0,
           NEW buffer \in Seq(Deliverable), Sorted(buffer),
           NEW n \in 0 .. engine, \A x \in n .. engine : ValidUncrossed(MarketAt[x]),
           NEW b, Aligned(b, buffer, 0, n), Supplied(buffer, b.market, n)
    PROVE  Aligned(DrainRun(b, buffer, n)[Len(buffer)], buffer, Len(buffer), n)
<1> DEFINE N == Len(buffer)
           run == DrainRun(b, buffer, n)
           Fine(i) == Aligned(run[i], buffer, i, n) /\ SameKind(run[i], b)
           Bad == {i \in 0 .. N : ~ Fine(i)}
<1>1. N \in Nat /\ DOMAIN buffer = 1 .. N
  OBVIOUS
<1>2. \A i \in 0 .. N : run[i] = IF i = 0 THEN b ELSE DrainStep(run[i-1], buffer[i], n)
  <2>1. run = [i \in 0 .. N |-> IF i = 0 THEN b ELSE DrainStep(run[i-1], buffer[i], n)]
    BY <1>1, DrainRunDef
  <2> HIDE DEF run
  <2> QED BY <2>1
<1> HIDE DEF run
<1>3. Bad = {}
  <2> SUFFICES ASSUME Bad # {} PROVE FALSE
    OBVIOUS
  <2>1. PICK m \in Bad : \A k \in Bad : m <= k
    <3>1. Bad \in SUBSET Nat
      OBVIOUS
    <3> HIDE DEF Bad
    <3> QED BY <3>1, LeastElement
  <2>2. m # 0
    BY <1>1, <1>2, <2>1 DEF SameKind
  <2>3. Fine(m - 1) /\ m \in DOMAIN buffer
    <3>1. m - 1 \in 0 .. N /\ ~ (m <= m - 1)
      BY <1>1, <2>1, <2>2
    <3> QED BY <1>1, <2>1, <2>2, <3>1
  <2>4. run[m] = DrainStep(run[m - 1], buffer[m], n)
    BY <1>2, <2>1, <2>2
  <2> DEFINE r == run[m - 1]
  <2>5. Aligned(r, buffer, m - 1, n) /\ SameKind(r, b) /\ Supplied(buffer, r.market, n)
    BY <2>3 DEF SameKind
  <2> HIDE DEF r
  <2>6. Aligned(DrainStep(r, buffer[m], n), buffer, m, n) /\ SameKind(DrainStep(r, buffer[m], n), r)
    BY <2>3, <2>5, AlignedStep
  <2>7. Fine(m)
    BY <2>4, <2>5, <2>6 DEF SameKind, r
  <2> QED BY <2>1, <2>7
<1> QED BY <1>1, <1>3 DEF run

\* No false alarm, for every exchange history, both policies, every order and number of
\* deliveries: a snapshot with everything published after it in the buffer ends in
\* sync with the last published id.
THEOREM CompleteAligns == Spec => []CompleteBufferAligns
<1>1. FullInv => CompleteBufferAligns
  <2> SUFFICES ASSUME FullInv, NEW n \in 0 .. engine
               PROVE  LET after  == {r \in published : r[2] > n}
                          around == {r \in published : r[1] < n /\ n <= r[2]}
                          chained == book.market = "USD_M_FUTURES"
                          needed == IF chained THEN after \cup around ELSE after
                          result == ApplySnapshot(book, SnapshotAt(n))
                      IN  /\ after # {}
                          /\ chained => around # {}
                          /\ \A r \in needed : \E i \in DOMAIN book.buffer :
                                 book.buffer[i].prev = r[1] /\ book.buffer[i].last = r[2]
                          /\ KeepsAll
                          /\ \A i \in n .. engine : ValidUncrossed(MarketAt[i])
                          => /\ result.status = "SYNCHRONIZED"
                             /\ \A r \in published : r[2] <= result.updateId
    BY DEF CompleteBufferAligns
  <2> DEFINE after  == {r \in published : r[2] > n}
             around == {r \in published : r[1] < n /\ n <= r[2]}
             chained == book.market = "USD_M_FUTURES"
             needed == IF chained THEN after \cup around ELSE after
             result == ApplySnapshot(book, SnapshotAt(n))
  <2> SUFFICES ASSUME chained => around # {},
                      \A r \in needed : Buffers(book.buffer, r),
                      KeepsAll,
                      \A i \in n .. engine : ValidUncrossed(MarketAt[i])
               PROVE  result.status = "SYNCHRONIZED" /\ \A r \in published : r[2] <= result.updateId
    BY DEF Buffers
  <2>1. /\ ExchangeOK /\ Chained /\ Sorted(book.buffer) /\ Good(book) /\ book \in BookType
        /\ book.buffer \in Seq(Deliverable) /\ SnapshotDepth = 0 /\ book.retained = 0
        /\ engine \in Nat /\ n \in Nat /\ n <= engine
    BY DEF FullInv, IInv, Good, BookType, KeepsAll, ExchangeOK
  <2>2. Supplied(book.buffer, book.market, n)
    BY DEF Supplied
  <2> DEFINE s == SnapshotAt(n)
             loaded == Loaded(book, s)
             drained == DrainRun(loaded, book.buffer, n)[Len(book.buffer)]
  <2>3. s.id = n /\ s.ladder = MarketAt[n] /\ MarketAt[n] \in Ladder
    BY <2>1, FeedAssumption DEF SnapshotAt, Trim, ExchangeOK
  <2>4. /\ loaded \in BookType /\ loaded.updateId = n /\ loaded.ladder = MarketAt[n]
        /\ loaded.status = "BUFFERING" /\ loaded.awaiting
        /\ loaded.retained = 0 /\ loaded.market = book.market
    <3>1. n \in -1 .. engine /\ "BUFFERING" \in Status /\ << >> \in Seq(Deliverable)
      BY <2>1 DEF Status
    <3>2. Trim(s.ladder, book.retained) = MarketAt[n]
      BY <2>1, <2>3 DEF Trim
    <3> HIDE DEF s
    <3> QED BY <2>1, <2>3, <3>1, <3>2 DEF Loaded, BookType
  <2> HIDE DEF loaded, s
  <2>5. Aligned(loaded, book.buffer, 0, n)
    <3>1. Good(loaded)
      BY <2>4 DEF Good, Faithful, Usable
    <3> QED BY <2>1, <2>4, <3>1 DEF Aligned
  <2>6. Aligned(drained, book.buffer, Len(book.buffer), n)
    <3>1. Supplied(book.buffer, loaded.market, n)
      BY <2>2, <2>4
    <3> QED BY <2>1, <2>5, <3>1, DrainAligns
  <2> HIDE DEF drained
  <2>7. /\ drained \in BookType /\ drained.status # "INVALID" /\ drained.updateId \in n .. engine
        /\ drained.ladder = MarketAt[drained.updateId]
    BY <2>1, <2>6 DEF Aligned, Good, Faithful, NoId
  <2>8. /\ result.updateId = drained.updateId
        /\ result.status = "SYNCHRONIZED"
    <3>1. ValidUncrossed(drained.ladder)
      BY <2>7
    <3>2. result = [drained EXCEPT !.status = "SYNCHRONIZED"]
      BY <2>3, <2>7, <3>1 DEF ApplySnapshot, drained, loaded, s
    <3> QED BY <2>7, <3>2 DEF BookType
  <2>9. ASSUME NEW q \in published PROVE q[2] <= result.updateId
    <3>1. q[2] \in Nat /\ drained.updateId \in Nat
      BY <2>1, <2>7, FeedAssumption DEF ExchangeOK
    <3>2. CASE q[2] <= n
      BY <2>1, <2>7, <2>8, <3>1, <3>2
    <3>3. CASE q[2] > n
      <4>1. PICK k \in DOMAIN book.buffer : book.buffer[k].last = q[2]
        BY <2>2, <3>3 DEF Supplied, Buffers
      <4>2. k \in 1 .. Len(book.buffer)
        BY <2>1, <4>1
      <4> QED BY <2>6, <2>8, <4>1, <4>2 DEF Aligned
    <3> QED BY <2>1, <3>1, <3>2, <3>3
  <2> QED BY <2>8, <2>9
<1> QED BY <1>1, FullInvariance, PTL

-----------------------------------------------------------------------------
(* The recorder: what holds between two turns of the merge loop *)

SnapshotTask == [state : {"NONE", "RUNNING", "FAILED", "DONE"}, id : -1 .. engine]

MergeType == [book : BookType, failures : Nat, gaps : Nat, snapshot : SnapshotTask]

\* The merge loop's own state, as far as every turn keeps it.
Fit(s) ==
    /\ s \in MergeType
    /\ s.snapshot.state = "DONE" => s.snapshot.id # NoId
    /\ Good(s.book) /\ s.book.market = RecorderKind.market
    /\ s.book.status # "INVALID"
    /\ s.book.status = "SYNCHRONIZED" =>
          /\ s.book.buffer = <<>>
          /\ ~ s.book.awaiting => \E q \in published : q[2] = s.book.updateId

\* A snapshot is under way as long as the book is not synchronized.
Asked(s) ==
    s.book.status = "SYNCHRONIZED" \/ s.snapshot # NoTask \/ s.failures > MaxReconnects

\* Before the first turn nobody has asked for a snapshot, but a connection will.
Begun(s) ==
    \/ Asked(s)
    \/ s.book.status = "EMPTY" /\ queue = <<>> /\ link # "UP"
    \/ s.book.status = "EMPTY" /\ queue # <<>> /\ queue[1] = Connected

RecorderType ==
    /\ link \in {"DOWN", "UP", "FAILED"} /\ attempt \in 0 .. MaxReconnects + 1
    /\ link # "FAILED" => attempt <= MaxReconnects
    /\ link # "UP" => wire = <<>>
    /\ wire \in Seq(Deliverable) /\ queue \in Seq(Deliverable \cup {Connected})
    /\ faults \in Nat /\ drops \in Nat

\* Everything published was handled (it ends at front or before) or is still to come in
\* the line behind its first i items, where every update starts at front or later.
Ahead(line, i, front) ==
    /\ front = 0 \/ \E q \in published : q[2] = front
    /\ \A q \in published :
          q[2] <= front \/ \E j \in i + 1 .. Len(line) : line[j].prev = q[1] /\ line[j].last = q[2]
    /\ \A j \in i + 1 .. Len(line) : line[j] = Connected \/ front <= line[j].prev

\* The updates of the line, each after the one before.
InLine(line) ==
    \A i, j \in 1 .. Len(line) :
        i < j => line[i] = Connected \/ line[j] = Connected \/ line[i].last <= line[j].prev

\* On a lossless stream the book has seen everything handled so far: a synchronized book
\* has reached it or still waits for the first update that fits its snapshot; a buffer
\* ends with it.
Follows(s, front) ==
    /\ s.gaps = 0
    /\ \A e \in s.book.seen : e.last <= front
    /\ s.book.status = "SYNCHRONIZED" => s.book.awaiting \/ front <= s.book.updateId
    /\ s.book.buffer = <<>> \/ \E k \in DOMAIN s.book.buffer : s.book.buffer[k].last = front

\* Before the first connection nothing has happened.
Untouched ==
    link = "DOWN" =>
        /\ queue = <<>> /\ snapshot = NoTask /\ gaps = 0
        /\ book.status = "EMPTY" /\ book.buffer = <<>> /\ book.seen = {}

Lossless ==
    faults = 0 /\ drops = 0 =>
        /\ link # "FAILED" /\ Untouched
        /\ InLine(queue \o wire)
        /\ \E front \in 0 .. engine : Ahead(queue \o wire, 0, front) /\ Follows(State, front)

RecorderInv ==
    IInv /\ Chained /\ RecorderType /\ Fit(State) /\ Begun(State) /\ Lossless

IsEnd(n) == \E q \in published : q[2] = n

\* One update on a Futures book, whatever came before: the book is invalid, or ends where
\* some update ended, at this one or later, or still waits, beyond this one.
LEMMA FuturesSequenced ==
    ASSUME ExchangeOK, Chained, NEW c \in BookType, c.market = "USD_M_FUTURES",
           c.updateId # NoId, ~ c.awaiting => IsEnd(c.updateId), NEW e \in Deliverable
    PROVE  LET w == ApplySequenced(c, e)
           IN  /\ w.seen = c.seen /\ w.status \in {c.status, "SYNCHRONIZED", "INVALID"}
               /\ \/ w.status = "INVALID"
                  \/ w.awaiting /\ w = c /\ e.last < c.updateId
                  \/ ~ w.awaiting /\ IsEnd(w.updateId) /\ e.last <= w.updateId
                     /\ c.updateId <= w.updateId
<1> DEFINE w == ApplySequenced(c, e)
<1>1. /\ e.prev \in Nat /\ e.last \in Nat /\ e.first = e.prev + 1
      /\ e.prev < e.last /\ e.last <= engine
      /\ \E r \in published : r[1] = e.prev /\ r[2] = e.last
  BY DeliverableFacts
<1>2. c.updateId \in Int /\ c.updateId <= engine /\ engine \in Nat
  BY DEF BookType, ExchangeOK
<1>3. CASE Decision(c, e) = "ACCEPT"
  <2>1. /\ w.updateId = e.last /\ ~ w.awaiting /\ w.seen = c.seen
        /\ w.status \in {"SYNCHRONIZED", "INVALID"}
    BY <1>3 DEF ApplySequenced, BookType
  <2>2. c.updateId <= e.last
    <3>1. c.updateId \in e.prev .. e.last
      BY <1>3, AcceptedCovers
    <3> QED BY <1>1, <3>1
  <2> QED BY <1>1, <2>1, <2>2 DEF IsEnd
<1>4. CASE Decision(c, e) \in Ignored
  <2>1. w = c
    BY <1>4 DEF ApplySequenced, Ignored
  <2>2. CASE c.awaiting
    BY <1>1, <1>2, <1>4, <2>1, <2>2 DEF Decision, FuturesBootstrap, Ignored
  <2>3. CASE ~ c.awaiting
    <3>1. PICK q \in published : q[2] = c.updateId
      BY <2>3 DEF IsEnd
    <3>2. ~ (e.prev < c.updateId /\ c.updateId < e.last)
      BY <1>1, <3>1 DEF Chained
    <3>3. e.last <= c.updateId
      BY <1>1, <1>2, <1>4, <2>3, <3>2 DEF Decision, FuturesNext, Ignored, NoPu
    <3> QED BY <1>2, <2>1, <2>3, <3>3
  <2> QED BY <2>2, <2>3
<1>5. CASE Decision(c, e) # "ACCEPT" /\ Decision(c, e) \notin Ignored
  BY <1>5 DEF ApplySequenced, Invalidate, BookType
<1> QED BY <1>3, <1>4, <1>5

\* After the loop of apply_snapshot on a Futures book: it is invalid, or took no update,
\* or has reached every buffered one.
LEMMA DrainReaches ==
    ASSUME ExchangeOK, Chained, NEW b, Good(b), b.market = "USD_M_FUTURES",
           NEW n \in 0 .. engine, b.updateId = n, b.awaiting,
           NEW buffer \in Seq(Deliverable)
    PROVE  LET r == DrainRun(b, buffer, n)[Len(buffer)]
           IN  /\ Good(r) /\ r.seen = b.seen /\ SameKind(r, b)
               /\ \/ r.status = "INVALID" \/ r.awaiting
                  \/ /\ IsEnd(r.updateId) /\ buffer # <<>>
                     /\ \A j \in 1 .. Len(buffer) : buffer[j].last <= r.updateId
<1> DEFINE N == Len(buffer)
           run == DrainRun(b, buffer, n)
           Reached(r, i) ==
             \/ r.status = "INVALID"
             \/ /\ r.awaiting => r.updateId = n
                /\ ~ r.awaiting => IsEnd(r.updateId) /\ i > 0 /\ n <= r.updateId
                /\ \A j \in 1 .. i : buffer[j].last <= r.updateId
           Fine(i) == /\ Good(run[i]) /\ SameKind(run[i], b) /\ run[i].seen = b.seen
                      /\ run[i].updateId # NoId /\ Reached(run[i], i)
           Bad == {i \in 0 .. N : ~ Fine(i)}
<1>1. N \in Nat /\ DOMAIN buffer = 1 .. N /\ n \in Nat /\ engine \in Nat /\ n # NoId
  BY DEF ExchangeOK, NoId
<1>2. \A i \in 0 .. N : run[i] = IF i = 0 THEN b ELSE DrainStep(run[i-1], buffer[i], n)
  <2>1. run = [i \in 0 .. N |-> IF i = 0 THEN b ELSE DrainStep(run[i-1], buffer[i], n)]
    BY <1>1, DrainRunDef
  <2> HIDE DEF run
  <2> QED BY <2>1
<1> HIDE DEF run
<1>3. ASSUME NEW r, Good(r), r.market = "USD_M_FUTURES", r.updateId # NoId,
             NEW m \in 1 .. N, Reached(r, m - 1)
      PROVE  LET w == DrainStep(r, buffer[m], n)
             IN  /\ Good(w) /\ SameKind(w, r) /\ w.seen = r.seen /\ w.updateId # NoId
                 /\ Reached(w, m)
  <2> DEFINE e == buffer[m]
             w == ApplySequenced(r, e)
  <2>1. /\ e \in Deliverable /\ e.last \in Nat
        /\ \A j \in 1 .. m : buffer[j] \in Deliverable /\ buffer[j].last \in Nat
    BY <1>1, DeliverableFacts
  <2>2. r \in BookType /\ r.updateId \in Int
    BY <1>1, <1>3 DEF Good, BookType
  <2>3. \A j \in 1 .. m : j = m \/ j \in 1 .. m - 1
    BY <1>1
  <2>4. CASE r.status = "INVALID"
    BY <1>3, <2>4 DEF DrainStep, SameKind
  <2>5. CASE r.status # "INVALID" /\ e.last < n
    <3>1. DrainStep(r, e, n) = r
      BY <2>5 DEF DrainStep
    <3>2. e.last <= r.updateId /\ m > 0
      BY <1>1, <1>3, <2>1, <2>2, <2>5
    <3>3. \A j \in 1 .. m - 1 : buffer[j].last <= r.updateId
      BY <1>3, <2>5
    <3>4. \A j \in 1 .. m : buffer[j].last <= r.updateId
      BY <2>3, <3>2, <3>3
    <3> QED BY <1>3, <2>5, <3>1, <3>2, <3>4 DEF SameKind
  <2>6. CASE r.status # "INVALID" /\ ~ (e.last < n)
    <3>1. DrainStep(r, e, n) = w
      BY <2>6 DEF DrainStep
    <3>2. Good(w) /\ SameKind(w, r) /\ w.updateId # NoId
      BY <1>3, <2>1, ApplySequencedGood
    <3>3. /\ w.seen = r.seen
          /\ \/ w.status = "INVALID"
             \/ w.awaiting /\ w = r /\ e.last < r.updateId
             \/ ~ w.awaiting /\ IsEnd(w.updateId) /\ e.last <= w.updateId
                /\ r.updateId <= w.updateId
      <4>1. ~ r.awaiting => IsEnd(r.updateId)
        BY <1>3, <2>6
      <4> QED BY <1>3, <2>1, <2>2, <4>1, FuturesSequenced
    <3> HIDE DEF w
    <3>4. \A j \in 1 .. m - 1 : buffer[j].last <= r.updateId
      BY <1>3, <2>6
    <3>5. CASE w.status = "INVALID"
      BY <3>1, <3>2, <3>3, <3>5
    <3>6. CASE w.awaiting /\ w = r /\ e.last < r.updateId
      <4>1. r.updateId = n
        BY <1>3, <2>6, <3>6
      <4>2. FALSE
        BY <2>6, <3>6, <4>1
      <4> QED BY <4>2
    <3>7. CASE ~ w.awaiting /\ IsEnd(w.updateId) /\ e.last <= w.updateId /\ r.updateId <= w.updateId
      <4>1. w.updateId \in Int /\ n <= r.updateId
        BY <1>1, <1>3, <2>2, <2>6, <3>2 DEF Good, BookType
      <4>2. n <= w.updateId /\ m > 0
        BY <1>1, <2>2, <3>7, <4>1
      <4>3. \A j \in 1 .. m : buffer[j].last <= w.updateId
        <5> TAKE j \in 1 .. m
        <5>1. CASE j = m
          BY <3>7, <5>1
        <5>2. CASE j \in 1 .. m - 1
          BY <2>1, <2>2, <3>4, <3>7, <4>1, <5>2
        <5> QED BY <2>3, <5>1, <5>2
      <4> QED BY <3>1, <3>2, <3>3, <3>7, <4>2, <4>3
    <3> QED BY <3>3, <3>5, <3>6, <3>7
  <2> QED BY <2>4, <2>5, <2>6
<1>4. Bad = {}
  <2> SUFFICES ASSUME Bad # {} PROVE FALSE
    OBVIOUS
  <2>1. PICK m \in Bad : \A k \in Bad : m <= k
    <3>1. Bad \in SUBSET Nat
      OBVIOUS
    <3> HIDE DEF Bad
    <3> QED BY <3>1, LeastElement
  <2>2. m # 0
    BY <1>1, <1>2, <2>1 DEF SameKind
  <2>3. Fine(m - 1) /\ m \in 1 .. N
    <3>1. m - 1 \in 0 .. N /\ ~ (m <= m - 1)
      BY <1>1, <2>1, <2>2
    <3> QED BY <1>1, <2>1, <2>2, <3>1
  <2>4. run[m] = DrainStep(run[m - 1], buffer[m], n)
    BY <1>2, <2>1, <2>2
  <2> DEFINE r == run[m - 1]
  <2>5. /\ Good(r) /\ r.market = "USD_M_FUTURES" /\ r.updateId # NoId /\ Reached(r, m - 1)
        /\ SameKind(r, b) /\ r.seen = b.seen
    BY <2>3 DEF SameKind
  <2> HIDE DEF r, Reached
  <2>6. LET w == DrainStep(r, buffer[m], n)
        IN  /\ Good(w) /\ SameKind(w, r) /\ w.seen = r.seen /\ w.updateId # NoId
            /\ Reached(w, m)
    BY <1>3, <2>3, <2>5
  <2>7. Fine(m)
    BY <2>4, <2>5, <2>6 DEF SameKind, r
  <2> QED BY <2>1, <2>7
<1>5. Fine(N)
  BY <1>1, <1>4
<1> QED BY <1>1, <1>5 DEF run

\* A snapshot on a Futures book: invalid, or in sync at an id that reached every buffered
\* update, or in sync and waiting for the first update that fits.
LEMMA SnapshotReaches ==
    ASSUME ExchangeOK, Chained, NEW b, Good(b), b.market = "USD_M_FUTURES",
           NEW n \in 0 .. engine
    PROVE  LET r == ApplySnapshot(b, SnapshotAt(n))
           IN  /\ r.seen = b.seen /\ r.market = b.market
               /\ r.status \in {"SYNCHRONIZED", "INVALID"}
               /\ \/ r.status = "INVALID" \/ r.awaiting
                  \/ /\ IsEnd(r.updateId) /\ b.buffer # <<>>
                     /\ \A j \in 1 .. Len(b.buffer) : b.buffer[j].last <= r.updateId
<1> DEFINE s == SnapshotAt(n)
           loaded == Loaded(b, s)
           drained == DrainRun(loaded, b.buffer, n)[Len(b.buffer)]
           status == IF ValidUncrossed(drained.ladder) THEN "SYNCHRONIZED" ELSE "INVALID"
<1>1. /\ Good(loaded) /\ loaded.updateId = n /\ loaded.awaiting
      /\ loaded.market = b.market /\ loaded.seen = b.seen
  BY LoadedGood
<1>2. b.buffer \in Seq(Deliverable)
  BY DEF Good, BookType
<1>3. /\ Good(drained) /\ drained.seen = b.seen /\ drained.market = b.market
      /\ \/ drained.status = "INVALID" \/ drained.awaiting
         \/ /\ IsEnd(drained.updateId) /\ b.buffer # <<>>
            /\ \A j \in 1 .. Len(b.buffer) : b.buffer[j].last <= drained.updateId
  <2> HIDE DEF loaded
  <2> QED BY <1>1, <1>2, DrainReaches DEF SameKind
<1>4. ApplySnapshot(b, s) = IF drained.status = "INVALID" THEN drained
                            ELSE [drained EXCEPT !.status = status]
  BY DEF ApplySnapshot, SnapshotAt
<1> HIDE DEF drained, s
<1>5. drained \in BookType /\ status \in {"SYNCHRONIZED", "INVALID"}
  BY <1>3 DEF Good
<1> HIDE DEF status
<1>6. CASE drained.status = "INVALID"
  BY <1>3, <1>4, <1>6 DEF s
<1>7. CASE drained.status # "INVALID"
  <2> DEFINE r == [drained EXCEPT !.status = status]
  <2>1. /\ r.seen = drained.seen /\ r.market = drained.market /\ r.status = status
        /\ r.awaiting = drained.awaiting /\ r.updateId = drained.updateId
    BY <1>5 DEF BookType
  <2>2. ApplySnapshot(b, s) = r
    BY <1>4, <1>7
  <2> HIDE DEF r
  <2>3. /\ r.seen = b.seen /\ r.market = b.market /\ r.status \in {"SYNCHRONIZED", "INVALID"}
        /\ \/ r.status = "INVALID" \/ r.awaiting
           \/ /\ IsEnd(r.updateId) /\ b.buffer # <<>>
              /\ \A j \in 1 .. Len(b.buffer) : b.buffer[j].last <= r.updateId
    BY <1>3, <1>5, <1>7, <2>1
  <2> QED BY <2>2, <2>3 DEF s
<1> QED BY <1>6, <1>7

\* What a resync leaves.
LEMMA ResyncFit ==
    ASSUME ExchangeOK, NEW s \in MergeType, Good(s.book), s.book.market = "USD_M_FUTURES"
    PROVE  /\ Fit(Resync(s)) /\ Asked(Resync(s)) /\ Resync(s).gaps = s.gaps
           /\ Resync(s).book.status = "RESYNC_IN_PROGRESS"
           /\ Resync(s).book.seen = {} /\ Resync(s).book.buffer = <<>>
<1> DEFINE c == BeginResync(s.book)
           t == Resync(s)
<1>1. /\ c.status = "RESYNC_IN_PROGRESS" /\ c.market = "USD_M_FUTURES"
      /\ c.seen = {} /\ c.buffer = <<>>
  BY DEF BeginResync, BookType
<1>2. Good(c) /\ c \in BookType
  BY ResetGood DEF Good
<1> HIDE DEF c
<1>3. Running \in SnapshotTask
  BY DEF Running, NoId, ExchangeOK, SnapshotTask
<1>4. /\ t.book = c /\ t.snapshot = Running /\ t.failures = s.failures /\ t.gaps = s.gaps
      /\ t \in MergeType
  BY <1>2, <1>3 DEF Resync, c, MergeType
<1> HIDE DEF t
<1>6. t.snapshot.state # "DONE" /\ t.snapshot # NoTask
  BY <1>4 DEF Running, NoTask
<1>7. Fit(t) /\ Asked(t)
  BY <1>1, <1>2, <1>4, <1>6 DEF Fit, Asked, RecorderKind
<1> QED BY <1>1, <1>4, <1>7 DEF t

\* An inserted update is in the buffer.
LEMMA InsertInOrderHolds ==
    ASSUME NEW S, NEW buffer \in Seq(S), NEW e \in S
    PROVE  \E k \in DOMAIN InsertInOrder(buffer, e) : InsertInOrder(buffer, e)[k] = e
<1> DEFINE before == {i \in DOMAIN buffer : Precedes(buffer[i], e)}
           m == 1 + Cardinality(before)
           longer == InsertInOrder(buffer, e)
<1>1. before \in SUBSET (1 .. Len(buffer)) /\ Len(buffer) \in Nat
  OBVIOUS
<1>2. m \in 1 .. Len(buffer) + 1
  <2>1. IsFiniteSet(1 .. Len(buffer)) /\ Cardinality(1 .. Len(buffer)) = Len(buffer)
    <3>1. \A n \in Nat : IsFiniteSet(1 .. n) /\ Cardinality(1 .. n) = n
      BY FS_Interval, SMT
    <3> QED BY <1>1, <3>1
  <2>2. Cardinality(before) \in Nat /\ Cardinality(before) <= Len(buffer)
    <3> HIDE DEF before
    <3> QED BY <1>1, <2>1, FS_Subset, FS_CardinalityType
  <2> QED BY <1>1, <2>2
<1>3. longer = InsertAt(buffer, m, e)
  BY DEF InsertInOrder
<1> HIDE DEF m, longer
<1>4. InsertAt(buffer, m, e) \in Seq(S) /\ Len(InsertAt(buffer, m, e)) = Len(buffer) + 1
      /\ InsertAt(buffer, m, e)[m] = e
  <2>1. \A i \in 1 .. Len(buffer) + 1 :
           InsertAt(buffer, m, e)[i] = IF i < m THEN buffer[i] ELSE IF i = m THEN e ELSE buffer[i - 1]
    BY <1>2, InsertAtProperties
  <2>2. ~ (m < m)
    BY <1>2
  <2> QED BY <1>2, <2>1, <2>2, InsertAtProperties
<1>5. m \in DOMAIN longer /\ longer[m] = e
  BY <1>2, <1>3, <1>4
<1> QED BY <1>5 DEF longer

\* buffer_update of a book that is not invalid: the update was seen before, or it is
\* sequenced on a synchronized book, or buffered on another one.
LEMMA FuturesBufferUpdate ==
    ASSUME ExchangeOK, Chained, NEW s, Fit(s), NEW e \in Deliverable
    PROVE  LET b == s.book
               c == BufferUpdate(b, e)
           IN  /\ Good(c) /\ c.market = "USD_M_FUTURES"
               /\ \/ e \in b.seen /\ c = b
                  \/ /\ e \notin b.seen /\ b.status = "SYNCHRONIZED"
                     /\ c.seen = b.seen \cup {e} /\ c.buffer = <<>>
                     /\ c.status \in {"SYNCHRONIZED", "INVALID"}
                     /\ \/ c.status = "INVALID"
                        \/ c.awaiting /\ b.awaiting /\ c.updateId = b.updateId
                        \/ ~ c.awaiting /\ IsEnd(c.updateId) /\ e.last <= c.updateId
                  \/ /\ e \notin b.seen /\ b.status # "SYNCHRONIZED"
                     /\ c.seen = b.seen \cup {e} /\ c.status = "BUFFERING"
                     /\ \E k \in DOMAIN c.buffer : c.buffer[k] = e
<1> DEFINE b == s.book
           c == BufferUpdate(b, e)
<1>1. /\ Good(b) /\ b \in BookType /\ b.market = "USD_M_FUTURES" /\ b.status # "INVALID"
      /\ b.status = "SYNCHRONIZED" =>
            /\ b.buffer = <<>> /\ b.updateId # NoId
            /\ ~ b.awaiting => IsEnd(b.updateId)
  BY DEF Fit, Good, Usable, RecorderKind, IsEnd
<1>2. Good(c)
  BY <1>1, UpdateGood
<1> HIDE DEF b
<1>3. CASE e \in b.seen
  <2>1. c = b
    BY <1>3 DEF BufferUpdate, Buffered, Sequenced
  <2> QED BY <1>1, <1>2, <1>3, <2>1 DEF b
<1>4. CASE e \notin b.seen /\ b.status = "SYNCHRONIZED"
  <2> DEFINE d == [b EXCEPT !.seen = @ \cup {e}]
  <2>1. /\ d \in BookType /\ d.updateId = b.updateId /\ d.ladder = b.ladder
        /\ d.status = b.status /\ d.retained = b.retained /\ d.buffer = b.buffer
        /\ d.market = b.market /\ d.awaiting = b.awaiting /\ d.seen = b.seen \cup {e}
    BY <1>1 DEF BookType
  <2>2. c = ApplySequenced(d, e)
    BY <1>4 DEF BufferUpdate, Sequenced
  <2> HIDE DEF c, d
  <2>3. Good(d)
    BY <1>1, <2>1 DEF Good, Faithful, Usable
  <2>4. c.buffer = <<>> /\ c.market = "USD_M_FUTURES"
    BY <1>1, <1>4, <2>1, <2>2, <2>3, ApplySequencedGood DEF SameKind
  <2>5. /\ c.seen = d.seen /\ c.status \in {d.status, "SYNCHRONIZED", "INVALID"}
        /\ \/ c.status = "INVALID"
           \/ c.awaiting /\ c = d /\ e.last < d.updateId
           \/ ~ c.awaiting /\ IsEnd(c.updateId) /\ e.last <= c.updateId
              /\ d.updateId <= c.updateId
    BY <1>1, <1>4, <2>1, <2>2, FuturesSequenced
  <2> QED BY <1>2, <1>4, <2>1, <2>4, <2>5 DEF b, c
<1>5. CASE e \notin b.seen /\ b.status # "SYNCHRONIZED"
  <2>1. c = [b EXCEPT !.seen   = @ \cup {e},
                      !.status = "BUFFERING",
                      !.buffer = InsertInOrder(@, e)]
    BY <1>5 DEF BufferUpdate, Buffered
  <2> DEFINE longer == InsertInOrder(b.buffer, e)
  <2>2. \E k \in DOMAIN longer : longer[k] = e
    <3>1. b.buffer \in Seq(Deliverable)
      BY <1>1 DEF BookType
    <3> QED BY <3>1, InsertInOrderHolds
  <2> HIDE DEF longer
  <2>3. /\ c.seen = b.seen \cup {e} /\ c.status = "BUFFERING" /\ c.buffer = longer
        /\ c.market = b.market
    BY <1>1, <2>1 DEF BookType, longer
  <2> QED BY <1>1, <1>2, <1>5, <2>2, <2>3 DEF b
<1> QED BY <1>3, <1>4, <1>5

\* One update in the merge loop.
LEMMA DepthFit ==
    ASSUME ExchangeOK, Chained, NEW s, Fit(s), NEW e \in Deliverable
    PROVE  Fit(Depth(s, e)) /\ (Asked(s) => Asked(Depth(s, e)))
<1> DEFINE b == s.book
           c == BufferUpdate(b, e)
           applied == [s EXCEPT !.book = c]
           counted(n) == [applied EXCEPT !.gaps = n]
<1>1. /\ Good(c) /\ c \in BookType /\ c.market = "USD_M_FUTURES"
      /\ \/ e \in b.seen /\ c = b
         \/ /\ e \notin b.seen /\ b.status = "SYNCHRONIZED"
            /\ c.seen = b.seen \cup {e} /\ c.buffer = <<>>
            /\ c.status \in {"SYNCHRONIZED", "INVALID"}
            /\ \/ c.status = "INVALID"
               \/ c.awaiting /\ b.awaiting /\ c.updateId = b.updateId
               \/ ~ c.awaiting /\ IsEnd(c.updateId) /\ e.last <= c.updateId
         \/ /\ e \notin b.seen /\ b.status # "SYNCHRONIZED"
            /\ c.seen = b.seen \cup {e} /\ c.status = "BUFFERING"
            /\ \E k \in DOMAIN c.buffer : c.buffer[k] = e
  BY FuturesBufferUpdate DEF Good
<1>2. s \in MergeType /\ Good(b) /\ b.market = "USD_M_FUTURES" /\ b.status # "INVALID"
      /\ (s.snapshot.state = "DONE" => s.snapshot.id # NoId)
      /\ (b.status = "SYNCHRONIZED" => b.buffer = <<>> /\ (~ b.awaiting => IsEnd(b.updateId)))
  BY DEF Fit, RecorderKind, IsEnd
<1> HIDE DEF c
<1>3. /\ applied \in MergeType /\ applied.book = c /\ applied.snapshot = s.snapshot
      /\ applied.failures = s.failures /\ applied.gaps = s.gaps
      /\ \A n \in Nat : counted(n) \in MergeType /\ counted(n).book = c
  BY <1>1, <1>2 DEF MergeType
<1>4. CASE c.status # "INVALID"
  <2>1. Depth(s, e) = applied
    BY <1>4 DEF Depth, c
  <2> HIDE DEF applied
  <2>2. c.status = "SYNCHRONIZED" => c.buffer = <<>> /\ (~ c.awaiting => IsEnd(c.updateId))
    BY <1>1, <1>2, <1>4
  <2>3. Fit(applied)
    BY <1>1, <1>2, <1>3, <1>4, <2>2 DEF Fit, RecorderKind, IsEnd
  <2>4. Asked(s) => Asked(applied)
    BY <1>1, <1>3, <1>4 DEF Asked
  <2> QED BY <2>1, <2>3, <2>4
<1>5. CASE c.status = "INVALID"
  <2>1. PICK n \in Nat : Depth(s, e) = Resync(counted(n))
    <3>1. s.gaps \in Nat /\ s.gaps + 1 \in Nat
      BY <1>2 DEF MergeType
    <3>2. Depth(s, e) = Resync(counted(IF Decision(s.book, e) = "REAL_SEQUENCE_GAP"
                                       THEN s.gaps + 1 ELSE s.gaps))
      BY <1>2, <1>5 DEF Depth, c, MergeType
    <3> QED BY <3>1, <3>2
  <2> DEFINE t == counted(n)
  <2>2. t \in MergeType /\ Good(t.book) /\ t.book.market = "USD_M_FUTURES"
    BY <1>1, <1>3
  <2> HIDE DEF t
  <2>3. Fit(Resync(t)) /\ Asked(Resync(t))
    BY <2>2, ResyncFit
  <2> QED BY <2>1, <2>3 DEF t
<1> QED BY <1>4, <1>5

\* On a lossless stream the next update starts at the front, which it moves to its end,
\* and is no gap.
LEMMA DepthFollows ==
    ASSUME ExchangeOK, Chained, NEW s, Fit(s), NEW e \in Deliverable, Follows(s, e.prev)
    PROVE  Follows(Depth(s, e), e.last)
<1> DEFINE b == s.book
           c == BufferUpdate(b, e)
           applied == [s EXCEPT !.book = c]
<1>1. /\ Good(c) /\ c \in BookType /\ c.market = "USD_M_FUTURES"
      /\ \/ e \in b.seen /\ c = b
         \/ /\ e \notin b.seen /\ b.status = "SYNCHRONIZED"
            /\ c.seen = b.seen \cup {e} /\ c.buffer = <<>>
            /\ c.status \in {"SYNCHRONIZED", "INVALID"}
            /\ \/ c.status = "INVALID"
               \/ c.awaiting /\ b.awaiting /\ c.updateId = b.updateId
               \/ ~ c.awaiting /\ IsEnd(c.updateId) /\ e.last <= c.updateId
         \/ /\ e \notin b.seen /\ b.status # "SYNCHRONIZED"
            /\ c.seen = b.seen \cup {e} /\ c.status = "BUFFERING"
            /\ \E k \in DOMAIN c.buffer : c.buffer[k] = e
  BY FuturesBufferUpdate DEF Good
<1>2. /\ s \in MergeType /\ Good(b) /\ b \in BookType /\ b.market = "USD_M_FUTURES"
      /\ b.status # "INVALID" /\ b.updateId \in Int
  BY DEF Fit, RecorderKind, Good, BookType, ExchangeOK
<1>3. /\ e.prev \in Nat /\ e.last \in Nat /\ e.first \in Nat /\ e.prev < e.last
      /\ \A x \in b.seen : x.last \in Nat /\ x.last <= e.prev
  <2>1. \A x \in b.seen : x \in Deliverable
    BY <1>2 DEF BookType
  <2> QED BY <2>1, DeliverableFacts DEF Follows
<1>4. e \notin b.seen
  BY <1>3
<1>5. /\ s.gaps = 0
      /\ b.status = "SYNCHRONIZED" => b.awaiting \/ e.prev <= b.updateId
  BY DEF Follows
<1> HIDE DEF c
<1>6. /\ applied \in MergeType /\ applied.book = c /\ applied.gaps = 0
  BY <1>1, <1>2, <1>5 DEF MergeType
<1>7. CASE c.status # "INVALID"
  <2>1. Depth(s, e) = applied
    BY <1>7 DEF Depth, c
  <2> HIDE DEF applied
  <2>2. \A x \in c.seen : x.last <= e.last
    BY <1>1, <1>3, <1>4
  <2>3. c.status = "SYNCHRONIZED" => c.awaiting \/ e.last <= c.updateId
    BY <1>1, <1>4, <1>7
  <2>4. c.buffer = <<>> \/ \E k \in DOMAIN c.buffer : c.buffer[k].last = e.last
    BY <1>1, <1>4
  <2> QED BY <1>6, <2>1, <2>2, <2>3, <2>4 DEF Follows
<1>8. CASE c.status = "INVALID"
  <2>1. b.status = "SYNCHRONIZED"
    BY <1>1, <1>4, <1>8
  <2>2. Decision(b, e) # "REAL_SEQUENCE_GAP"
    <3>1. CASE b.awaiting
      BY <1>2, <3>1 DEF Decision, FuturesBootstrap
    <3>2. CASE ~ b.awaiting
      BY <1>2, <1>3, <1>5, <2>1, <3>2 DEF Decision, FuturesNext, NoPu
    <3> QED BY <3>1, <3>2
  <2> DEFINE t == [applied EXCEPT !.gaps = s.gaps]
  <2>3. Depth(s, e) = Resync(t)
    <3>1. Depth(s, e) = Resync([applied EXCEPT !.gaps = IF FALSE THEN s.gaps + 1 ELSE s.gaps])
      BY <1>2, <1>8, <2>2 DEF Depth, c, MergeType
    <3> QED BY <3>1
  <2>4. t \in MergeType /\ Good(t.book) /\ t.book.market = "USD_M_FUTURES" /\ t.gaps = 0
    BY <1>1, <1>5, <1>6, <1>2 DEF MergeType
  <2> HIDE DEF t
  <2>5. /\ Resync(t).gaps = 0 /\ Resync(t).book.status = "RESYNC_IN_PROGRESS"
        /\ Resync(t).book.seen = {} /\ Resync(t).book.buffer = <<>>
    BY <2>4, ResyncFit
  <2> QED BY <2>3, <2>5 DEF Follows
<1> QED BY <1>7, <1>8

\* A CONNECTED asks for a snapshot.
LEMMA ConnectedFit ==
    ASSUME ExchangeOK, NEW s, Fit(s)
    PROVE  /\ Fit(Handle(s, Connected))
           /\ Asked(Handle(s, Connected))
           /\ \A front : Follows(s, front) => Follows(Handle(s, Connected), front)
<1> DEFINE t == [s EXCEPT !.snapshot = Running]
<1>1. Running \in SnapshotTask /\ Running.state # "DONE" /\ Running # NoTask
  BY DEF Running, NoTask, NoId, ExchangeOK, SnapshotTask
<1>2. s \in MergeType
  BY DEF Fit
<1>3. /\ t \in MergeType /\ t.book = s.book /\ t.gaps = s.gaps /\ t.snapshot = Running
      /\ t.failures = s.failures
  BY <1>1, <1>2 DEF MergeType
<1>4. Handle(s, Connected) = IF s.snapshot = NoTask THEN t ELSE s
  BY DEF Handle
<1> HIDE DEF t
<1>5. Fit(t) /\ Asked(t) /\ \A front : Follows(s, front) => Follows(t, front)
  BY <1>1, <1>3 DEF Fit, Asked, Follows
<1> QED BY <1>4, <1>5 DEF Asked

\* The finished snapshot task.
LEMMA TakeFit ==
    ASSUME ExchangeOK, Chained, NEW s, Fit(s)
    PROVE  /\ Fit(TakeSnapshot(s))
           /\ Asked(s) => Asked(TakeSnapshot(s))
           /\ \A front \in Nat : Follows(s, front) => Follows(TakeSnapshot(s), front)
<1>1. /\ s \in MergeType /\ Good(s.book) /\ s.book \in BookType
      /\ s.book.market = "USD_M_FUTURES" /\ s.snapshot \in SnapshotTask
      /\ s.failures \in Nat
  BY DEF Fit, RecorderKind, Good, MergeType
<1>2. CASE s.snapshot.state = "FAILED"
  <2> DEFINE next == IF s.failures < MaxReconnects THEN Running ELSE NoTask
             more == s.failures + 1
             t == [s EXCEPT !.failures = more, !.snapshot = next]
  <2>1. next \in SnapshotTask /\ next.state # "DONE" /\ (next = NoTask => ~ (s.failures < MaxReconnects))
    BY DEF Running, NoTask, NoId, ExchangeOK, SnapshotTask
  <2>2. TakeSnapshot(s) = t
    BY <1>2 DEF TakeSnapshot
  <2> HIDE DEF next
  <2>3. more \in Nat /\ (s.failures > MaxReconnects \/ next = NoTask => more > MaxReconnects)
    BY <1>1, <2>1, RecorderAssumption
  <2> HIDE DEF more
  <2>4. /\ t \in MergeType /\ t.book = s.book /\ t.gaps = s.gaps /\ t.snapshot = next
        /\ t.failures = more
    BY <1>1, <2>1, <2>3 DEF MergeType
  <2> HIDE DEF t
  <2>5. Fit(t)
    BY <2>1, <2>4 DEF Fit
  <2>6. Asked(s) => Asked(t)
    BY <2>3, <2>4 DEF Asked
  <2>7. \A front \in Nat : Follows(s, front) => Follows(t, front)
    BY <2>4 DEF Follows
  <2> QED BY <2>2, <2>5, <2>6, <2>7
<1>3. CASE s.snapshot.state = "DONE"
  <2> DEFINE n == s.snapshot.id
             c == ApplySnapshot(s.book, SnapshotAt(n))
             t == [s EXCEPT !.book = c, !.snapshot = NoTask]
  <2>1. n \in 0 .. engine
    BY <1>1, <1>3 DEF Fit, SnapshotTask, NoId, ExchangeOK
  <2>2. /\ c.seen = s.book.seen /\ c.market = "USD_M_FUTURES"
        /\ c.status \in {"SYNCHRONIZED", "INVALID"}
        /\ \/ c.status = "INVALID" \/ c.awaiting
           \/ /\ IsEnd(c.updateId) /\ s.book.buffer # <<>>
              /\ \A j \in 1 .. Len(s.book.buffer) : s.book.buffer[j].last <= c.updateId
    <3> HIDE DEF n
    <3> QED BY <1>1, <2>1, SnapshotReaches
  <2>3. Good(c) /\ c.buffer = <<>> /\ c \in BookType
    <3> HIDE DEF n
    <3>1. Good(c) /\ c.buffer = <<>>
      BY <1>1, <2>1, SnapshotGood
    <3> QED BY <3>1 DEF Good
  <2>4. TakeSnapshot(s) = IF t.book.status = "INVALID" THEN Resync(t) ELSE t
    BY <1>3 DEF TakeSnapshot
  <2>5. NoTask \in SnapshotTask /\ NoTask.state # "DONE"
    BY DEF NoTask, NoId, ExchangeOK, SnapshotTask
  <2> HIDE DEF c, n
  <2>6. t \in MergeType /\ t.book = c /\ t.gaps = s.gaps /\ t.snapshot = NoTask
    BY <1>1, <2>3, <2>5 DEF MergeType
  <2> HIDE DEF t
  <2>7. CASE c.status = "INVALID"
    <3>1. /\ Fit(Resync(t)) /\ Asked(Resync(t)) /\ Resync(t).gaps = t.gaps
          /\ Resync(t).book.status = "RESYNC_IN_PROGRESS"
          /\ Resync(t).book.seen = {} /\ Resync(t).book.buffer = <<>>
      BY <2>2, <2>3, <2>6, ResyncFit
    <3>2. \A front \in Nat : Follows(s, front) => Follows(Resync(t), front)
      BY <2>6, <3>1 DEF Follows
    <3>3. TakeSnapshot(s) = Resync(t)
      BY <2>4, <2>6, <2>7
    <3> QED BY <3>1, <3>2, <3>3
  <2>8. CASE c.status = "SYNCHRONIZED"
    <3>1. TakeSnapshot(s) = t
      BY <2>4, <2>6, <2>8
    <3>2. Fit(t)
      BY <2>2, <2>3, <2>5, <2>6, <2>8 DEF Fit, RecorderKind, IsEnd
    <3>3. Asked(t)
      BY <2>6, <2>8 DEF Asked
    <3>4. ASSUME NEW front \in Nat, Follows(s, front)
          PROVE  Follows(t, front)
      <4>1. c.awaiting \/ front <= c.updateId
        <5> SUFFICES ASSUME ~ c.awaiting PROVE front <= c.updateId
          OBVIOUS
        <5>1. PICK k \in DOMAIN s.book.buffer : s.book.buffer[k].last = front
          BY <2>2, <2>8, <3>4 DEF Follows
        <5>2. k \in 1 .. Len(s.book.buffer)
          <6>1. s.book.buffer \in Seq(Deliverable)
            BY <1>1 DEF BookType
          <6> QED BY <5>1, <6>1
        <5> QED BY <2>2, <2>8, <5>1, <5>2
      <4> QED BY <2>2, <2>3, <2>6, <3>4, <4>1 DEF Follows
    <3> QED BY <3>1, <3>2, <3>3, <3>4
  <2> QED BY <2>2, <2>7, <2>8
<1>4. CASE s.snapshot.state \notin {"FAILED", "DONE"}
  BY <1>4 DEF TakeSnapshot
<1> QED BY <1>2, <1>3, <1>4

-----------------------------------------------------------------------------
(* The walk over a batch *)

IsWalk(walk, s, batch) ==
    walk = [i \in 0 .. Len(batch) |-> IF i = 0 THEN s ELSE Handle(walk[i-1], batch[i])]

LEMMA HandleAllWalks ==
    ASSUME NEW s, NEW batch, Len(batch) \in Nat
    PROVE  \E walk : IsWalk(walk, s, batch) /\ HandleAll(s, batch) = walk[Len(batch)]
<1> DEFINE N == Len(batch)
           Step(r, i) == Handle(r, batch[i])
           IsRun(g, n) ==
             g = [i \in 0 .. n |-> IF i = 0 THEN s ELSE Step(g[i-1], i)]
           Bad == {n \in 0 .. N : ~ \E g : IsRun(g, n)}
<1>1. Bad = {}
  <2> SUFFICES ASSUME Bad # {} PROVE FALSE
    OBVIOUS
  <2>1. PICK m \in Bad : \A k \in Bad : m <= k
    <3>1. Bad \in SUBSET Nat
      OBVIOUS
    <3> HIDE DEF Bad
    <3> QED BY <3>1, LeastElement
  <2>2. CASE m = 0
    <3>1. IsRun([i \in 0 .. 0 |-> s], 0)
      BY SMT
    <3> QED BY <2>1, <2>2, <3>1
  <2>3. CASE m # 0
    <3>1. m - 1 \in 0 .. N /\ m - 1 \notin Bad
      <4>1. Bad \subseteq 0 .. N
        OBVIOUS
      <4> HIDE DEF Bad
      <4>2. m - 1 \in 0 .. N
        BY <4>1, <2>3
      <4> QED BY <2>1, <4>1, <4>2
    <3>2. PICK g : IsRun(g, m - 1)
      BY <3>1
    <3> DEFINE h == [i \in 0 .. m |-> IF i < m THEN g[i] ELSE Step(g[m-1], m)]
    <3>3. \A i \in 0 .. m : h[i] = IF i = 0 THEN s ELSE Step(h[i-1], i)
      <4> TAKE i \in 0 .. m
      <4> HIDE DEF Step
      <4>1. CASE i = 0
        BY <3>2, <4>1, <2>1, <2>3
      <4>2. CASE i # 0 /\ i < m
        BY <3>2, <4>2, <2>1, <2>3
      <4>3. CASE i = m
        BY <4>3, <2>1, <2>3
      <4> QED BY <4>1, <4>2, <4>3, <2>1
    <3>4. IsRun(h, m)
      <4> HIDE DEF Step
      <4> QED BY <3>3, <2>1
    <3> QED BY <2>1, <3>4
  <2> QED BY <2>2, <2>3
<1>2. \E g : IsRun(g, N)
  BY <1>1
<1> DEFINE walk == CHOOSE g : IsRun(g, N)
<1>3. HandleAll(s, batch) = walk[Len(batch)]
  BY DEF HandleAll
<1>4. IsRun(walk, N)
  <2> HIDE DEF IsRun
  <2> QED BY <1>2
<1>5. IsWalk(walk, s, batch)
  BY <1>4 DEF IsWalk
<1> QED BY <1>3, <1>5

Items == Deliverable \cup {Connected}

LEMMA ItemKinds ==
    ASSUME ExchangeOK, NEW x \in Items
    PROVE  /\ x # Connected <=> x \in Deliverable
           /\ x # Connected => /\ x.prev \in Nat /\ x.last \in Nat /\ x.prev < x.last
                               /\ x.last <= engine
                               /\ \E q \in published : q[1] = x.prev /\ q[2] = x.last
<1>1. \A e \in Deliverable : /\ e.prev \in Nat /\ e.last \in Nat /\ e.prev < e.last
                             /\ e.last <= engine
                             /\ \E q \in published : q[1] = e.prev /\ q[2] = e.last
  BY DeliverableFacts
<1>2. Connected.prev = 0 /\ Connected.last = 0
  BY DEF Connected
<1>3. Connected \notin Deliverable
  BY <1>1, <1>2
<1> QED BY <1>1, <1>3 DEF Items

\* After a batch the loop's state is fit, and a snapshot is asked for, if it was before
\* or the batch begins with the first connection.
LEMMA WalkFit ==
    ASSUME ExchangeOK, Chained, NEW s, Fit(s), NEW batch \in Seq(Items),
           Asked(s) \/ (batch # <<>> /\ batch[1] = Connected),
           NEW walk, IsWalk(walk, s, batch)
    PROVE  /\ \A i \in 0 .. Len(batch) : Fit(walk[i])
           /\ Asked(walk[Len(batch)])
<1> DEFINE N == Len(batch)
           Fine(i) == Fit(walk[i]) /\ (i > 0 \/ Asked(s) => Asked(walk[i]))
           Bad == {i \in 0 .. N : ~ Fine(i)}
<1>1. N \in Nat /\ \A i \in 1 .. N : batch[i] \in Items
  OBVIOUS
<1>2. \A i \in 0 .. N : walk[i] = IF i = 0 THEN s ELSE Handle(walk[i-1], batch[i])
  BY DEF IsWalk
<1>3. Bad = {}
  <2> SUFFICES ASSUME Bad # {} PROVE FALSE
    OBVIOUS
  <2>1. PICK m \in Bad : \A k \in Bad : m <= k
    <3>1. Bad \in SUBSET Nat
      OBVIOUS
    <3> HIDE DEF Bad
    <3> QED BY <3>1, LeastElement
  <2>2. m # 0
    BY <1>1, <1>2, <2>1
  <2>3. Fine(m - 1) /\ m \in 1 .. N
    <3>1. m - 1 \in 0 .. N /\ ~ (m <= m - 1)
      BY <1>1, <2>1, <2>2
    <3> QED BY <1>1, <2>1, <2>2, <3>1
  <2>4. walk[m] = Handle(walk[m - 1], batch[m])
    BY <1>2, <2>1, <2>2
  <2> DEFINE r == walk[m - 1]
  <2>5. Fit(r) /\ (m - 1 > 0 \/ Asked(s) => Asked(r))
    BY <2>3
  <2> HIDE DEF r
  <2>6. CASE batch[m] = Connected
    <3>1. Fit(Handle(r, Connected)) /\ Asked(Handle(r, Connected))
      BY <2>5, ConnectedFit
    <3> QED BY <2>1, <2>4, <2>6, <3>1 DEF r
  <2>7. CASE batch[m] # Connected
    <3>1. batch[m] \in Deliverable
      BY <1>1, <2>3, <2>7, ItemKinds
    <3>2. Fit(Depth(r, batch[m])) /\ (Asked(r) => Asked(Depth(r, batch[m])))
      BY <2>5, <3>1, DepthFit
    <3>3. walk[m] = Depth(r, batch[m])
      BY <2>4, <2>7 DEF Handle, r
    <3>4. Asked(r)
      <4>1. m - 1 > 0 \/ Asked(s)
        BY <1>1, <2>3, <2>7
      <4> QED BY <2>5, <4>1
    <3> QED BY <2>1, <3>2, <3>3, <3>4
  <2> QED BY <2>6, <2>7
<1>4. Asked(walk[N])
  <2>1. Fine(N)
    BY <1>1, <1>3
  <2>2. N > 0 \/ Asked(s)
    BY <1>1
  <2> QED BY <2>1, <2>2
<1> QED BY <1>3, <1>4

\* The first update of a lossless line starts at the front, and moves it to its end.
LEMMA AheadStep ==
    ASSUME ExchangeOK, Chained, NEW line \in Seq(Items), InLine(line),
           NEW m \in 1 .. Len(line), NEW front \in 0 .. engine, Ahead(line, m - 1, front)
    PROVE  /\ line[m] = Connected => Ahead(line, m, front)
           /\ line[m] # Connected => /\ line[m].prev = front /\ line[m].last \in 0 .. engine
                                     /\ Ahead(line, m, line[m].last)
<1> DEFINE N == Len(line)
           e == line[m]
<1>1. /\ N \in Nat /\ m \in Nat /\ front \in Nat /\ engine \in Nat
      /\ \A j \in 1 .. N : line[j] \in Items
  BY DEF ExchangeOK
<1>2. \A j \in 1 .. N :
         line[j] # Connected => /\ line[j].prev \in Nat /\ line[j].last \in Nat
                                /\ line[j].prev < line[j].last /\ line[j].last <= engine
                                /\ \E q \in published : q[1] = line[j].prev /\ q[2] = line[j].last
  BY <1>1, ItemKinds
<1>3. \A q \in published : q[1] \in Nat /\ q[2] \in Nat /\ q[1] < q[2]
  BY FeedAssumption DEF ExchangeOK
<1>4. /\ front = 0 \/ \E q \in published : q[2] = front
      /\ \A q \in published :
            q[2] <= front \/ \E j \in m .. N : line[j].prev = q[1] /\ line[j].last = q[2]
      /\ \A j \in m .. N : line[j] = Connected \/ front <= line[j].prev
  <2>1. (m - 1) + 1 = m
    BY <1>1
  <2> QED BY <2>1 DEF Ahead
<1>5. \A j \in m .. N : j = m \/ j \in m + 1 .. N
  BY <1>1
<1>6. CASE e = Connected
  <2>1. e.prev = 0 /\ e.last = 0
    BY <1>6 DEF Connected
  <2>2. \A q \in published : ~ (e.last = q[2])
    BY <1>3, <2>1
  <2> QED BY <1>4, <1>5, <1>6, <2>2 DEF Ahead
<1>7. CASE e # Connected
  <2>1. e.prev \in Nat /\ e.last \in Nat /\ e.prev < e.last /\ e.last <= engine
    BY <1>2, <1>7
  <2>2. \A j \in m + 1 .. N : line[j] = Connected \/ e.last <= line[j].prev
    BY <1>1, <1>7 DEF InLine
  <2>3. e.prev <= front
    <3> SUFFICES ASSUME front < e.prev PROVE FALSE
      BY <1>1, <2>1
    <3>1. PICK q \in published : q[2] = e.prev
      <4>1. PICK r \in published : r[1] = e.prev
        BY <1>2, <1>7
      <4> QED BY <1>1, <2>1, <4>1 DEF Chained
    <3>2. PICK j \in m .. N : line[j].prev = q[1] /\ line[j].last = q[2]
      BY <1>1, <1>3, <1>4, <2>1, <3>1
    <3>3. CASE j = m
      BY <2>1, <3>1, <3>2, <3>3
    <3>4. CASE j \in m + 1 .. N
      <4>1. line[j] # Connected
        BY <1>3, <3>2 DEF Connected
      <4>2. line[j].prev \in Nat /\ line[j].last \in Nat /\ line[j].prev < line[j].last
        BY <1>1, <1>2, <3>4, <4>1
      <4> QED BY <2>1, <2>2, <3>1, <3>2, <3>4, <4>1, <4>2
    <3> QED BY <1>5, <3>3, <3>4
  <2>4. e.prev = front
    BY <1>1, <1>4, <1>7, <2>1, <2>3
  <2>5. \E q \in published : q[2] = e.last
    BY <1>2, <1>7
  <2>6. ASSUME NEW q \in published
        PROVE  q[2] <= e.last \/ \E j \in m + 1 .. N : line[j].prev = q[1] /\ line[j].last = q[2]
    <3>1. CASE q[2] <= front
      BY <1>1, <1>3, <2>1, <2>4, <3>1
    <3>2. CASE \E j \in m .. N : line[j].prev = q[1] /\ line[j].last = q[2]
      BY <1>3, <1>5, <2>1, <3>2
    <3> QED BY <1>4, <3>1, <3>2
  <2>7. Ahead(line, m, e.last)
    BY <2>2, <2>5, <2>6 DEF Ahead
  <2> QED BY <1>7, <2>1, <2>4, <2>7
<1> QED BY <1>6, <1>7

\* A batch of a lossless line is followed to its end.
LEMMA WalkFollows ==
    ASSUME ExchangeOK, Chained, NEW s, NEW batch \in Seq(Items), NEW line \in Seq(Items),
           Len(batch) <= Len(line), \A i \in 1 .. Len(batch) : line[i] = batch[i],
           InLine(line), NEW walk, IsWalk(walk, s, batch),
           \A i \in 0 .. Len(batch) : Fit(walk[i]),
           NEW start \in 0 .. engine, Ahead(line, 0, start), Follows(s, start)
    PROVE  \E front \in 0 .. engine :
              Ahead(line, Len(batch), front) /\ Follows(walk[Len(batch)], front)
<1> DEFINE N == Len(batch)
           Fine(i) == \E front \in 0 .. engine : Ahead(line, i, front) /\ Follows(walk[i], front)
           Bad == {i \in 0 .. N : ~ Fine(i)}
<1>1. N \in Nat /\ engine \in Nat /\ Len(line) \in Nat /\ \A i \in 1 .. N : batch[i] \in Items
  BY DEF ExchangeOK
<1>2. \A i \in 0 .. N : walk[i] = IF i = 0 THEN s ELSE Handle(walk[i-1], batch[i])
  BY DEF IsWalk
<1>3. Bad = {}
  <2> SUFFICES ASSUME Bad # {} PROVE FALSE
    OBVIOUS
  <2>1. PICK m \in Bad : \A k \in Bad : m <= k
    <3>1. Bad \in SUBSET Nat
      OBVIOUS
    <3> HIDE DEF Bad
    <3> QED BY <3>1, LeastElement
  <2>2. m # 0
    BY <1>1, <1>2, <2>1
  <2>3. Fine(m - 1) /\ m \in 1 .. N /\ m - 1 \in 0 .. N
    <3>1. m - 1 \in 0 .. N /\ ~ (m <= m - 1)
      BY <1>1, <2>1, <2>2
    <3> QED BY <1>1, <2>1, <2>2, <3>1, SMTT(30)
  <2>4. walk[m] = Handle(walk[m - 1], batch[m])
    BY <1>2, <2>1, <2>2
  <2> DEFINE r == walk[m - 1]
  <2>5. PICK front \in 0 .. engine : Ahead(line, m - 1, front) /\ Follows(r, front)
    BY <2>3
  <2>6. Fit(r) /\ m \in 1 .. Len(line) /\ line[m] = batch[m] /\ batch[m] \in Items
    BY <1>1, <2>3
  <2> HIDE DEF r
  <2>7. /\ line[m] = Connected => Ahead(line, m, front)
        /\ line[m] # Connected => /\ line[m].prev = front /\ line[m].last \in 0 .. engine
                                  /\ Ahead(line, m, line[m].last)
    BY <2>5, <2>6, AheadStep
  <2>8. CASE batch[m] = Connected
    <3>1. Follows(Handle(r, Connected), front)
      BY <2>5, <2>6, ConnectedFit
    <3> QED BY <2>1, <2>4, <2>6, <2>7, <2>8, <3>1 DEF r
  <2>9. CASE batch[m] # Connected
    <3>1. batch[m] \in Deliverable
      BY <2>6, <2>9, ItemKinds
    <3> DEFINE e == batch[m]
    <3>2. Follows(Depth(r, e), e.last)
      <4>1. Follows(r, e.prev)
        BY <2>5, <2>6, <2>7, <2>9
      <4> QED BY <2>6, <3>1, <4>1, DepthFollows
    <3>3. walk[m] = Depth(r, e)
      BY <2>4, <2>9 DEF Handle, r
    <3> QED BY <2>1, <2>6, <2>7, <2>9, <3>2, <3>3
  <2> QED BY <2>8, <2>9
<1> QED BY <1>1, <1>3

-----------------------------------------------------------------------------
(* The invariant of the recorder *)

\* When the exchange moves on, everything of a type stays of that type.
LEMMA Wider ==
    ASSUME ExchangeOK, ExchangeOK', engine <= engine', published \subseteq published'
    PROVE  /\ Deliverable \subseteq Deliverable' /\ Items \subseteq Items'
           /\ Seq(Deliverable) \subseteq Seq(Deliverable') /\ Seq(Items) \subseteq Seq(Items')
           /\ BookType \subseteq BookType' /\ SnapshotTask \subseteq SnapshotTask'
           /\ 0 .. engine \subseteq 0 .. engine'
<1>1. Deliverable \subseteq Deliverable' /\ Items \subseteq Items'
  BY DEF Deliverable, Items
<1>2. -1 .. engine \subseteq (-1 .. engine)' /\ 0 .. engine \subseteq 0 .. engine'
  BY DEF ExchangeOK
<1>3. Seq(Deliverable) \subseteq Seq(Deliverable') /\ Seq(Items) \subseteq Seq(Items')
  BY <1>1
<1>4. BookType \subseteq BookType'
  BY <1>1, <1>2, <1>3 DEF BookType
<1>5. SnapshotTask \subseteq SnapshotTask'
  BY <1>2 DEF SnapshotTask
<1> QED BY <1>1, <1>2, <1>3, <1>4, <1>5

\* Steps that leave the book and the counters alone.
LEMMA FitKept ==
    ASSUME Fit(State), ExchangeOK, IInv', engine <= engine', published \subseteq published',
           UNCHANGED <<book, failures, gaps>>, snapshot' \in SnapshotTask',
           snapshot'.state = "DONE" => snapshot'.id # NoId
    PROVE  Fit(State)'
<1>1. ExchangeOK' /\ Good(book)'
  BY DEF IInv
<1>2. BookType \subseteq BookType'
  BY <1>1, Wider
<1>3. /\ book \in BookType /\ failures \in Nat /\ gaps \in Nat
      /\ book.market = RecorderKind.market /\ book.status # "INVALID"
      /\ book.status = "SYNCHRONIZED" =>
            /\ book.buffer = <<>>
            /\ ~ book.awaiting => \E q \in published : q[2] = book.updateId
  BY DEF Fit, State, MergeType
<1>4. State' \in MergeType'
  BY <1>2, <1>3 DEF State, MergeType
<1> QED BY <1>1, <1>3, <1>4 DEF Fit, State

\* SetToSeq of one element.
LEMMA OneInSequence == ASSUME NEW u PROVE SetToSeq({u}) = <<u>>
<1> DEFINE F == [1 .. 1 -> {u}]
<1>1. Cardinality({u}) = 1
  BY FS_Singleton
<1>2. <<u>> \in F /\ IsInjective(<<u>>)
  BY DEF IsInjective
<1>3. \A f \in F : f = <<u>>
  OBVIOUS
<1>4. SetToSeq({u}) = CHOOSE f \in F : IsInjective(f)
  BY <1>1 DEF SetToSeq
<1> HIDE DEF F
<1> QED BY <1>2, <1>3, <1>4

\* What a publish sends: one update that starts where everything before ended.
LEMMA OneUpdate ==
    ASSUME ExchangeOK, ExchangePublish
    PROVE  \E p \in 0 .. engine - 1 :
              /\ IsPublishedId(p) /\ published' = published \cup {<<p, engine>>}
              /\ wire' = IF link = "UP" THEN wire \o <<Update(p, engine, 1)>> ELSE wire
<1>1. PICK p \in 0 .. engine - 1 :
          IsPublishedId(p) /\ published' = published \cup {<<p, engine>>}
  BY DEF ExchangePublish, Publish
<1>2. <<p, engine>> \notin published
  <2>1. \A q \in published : q[2] <= p
    BY <1>1 DEF IsPublishedId
  <2>2. <<p, engine>>[2] = engine /\ ~ (engine <= p)
    BY DEF ExchangeOK
  <2> QED BY <2>1, <2>2
<1>3. published' \ published = {<<p, engine>>}
  BY <1>1, <1>2
<1> DEFINE u == Update(p, engine, 1)
<1>4. {Update(r[1], r[2], 1) : r \in published' \ published} = {u}
  <2> DEFINE pair == <<p, engine>>
  <2>1. published' \ published = {pair} /\ pair[1] = p /\ pair[2] = engine
    BY <1>3
  <2> HIDE DEF pair
  <2>2. {Update(r[1], r[2], 1) : r \in {pair}} = {Update(pair[1], pair[2], 1)}
    OBVIOUS
  <2> QED BY <2>1, <2>2
<1>5. wire' = IF link = "UP" THEN wire \o <<u>> ELSE wire
  <2>1. SetToSeq({Update(r[1], r[2], 1) : r \in published' \ published}) = <<u>>
    BY <1>4, OneInSequence
  <2> QED BY <2>1 DEF ExchangePublish
<1> QED BY <1>1, <1>5

LEMMA RecorderInitInv == RecorderInit => RecorderInv
<1> SUFFICES ASSUME RecorderInit PROVE RecorderInv
  OBVIOUS
<1>1. IInv /\ Chained
  BY InitInv, FullInitInv DEF RecorderInit, FullInv
<1>2. /\ engine = 0 /\ published = {} /\ book.status = "EMPTY" /\ book.buffer = <<>> /\ book.seen = {}
      /\ book.market = RecorderKind.market /\ book \in BookType /\ Good(book)
      /\ link = "DOWN" /\ attempt = 0 /\ wire = <<>> /\ queue = <<>> /\ snapshot = NoTask
      /\ failures = 0 /\ gaps = 0 /\ faults = 0 /\ drops = 0
  BY <1>1 DEF RecorderInit, Init, NewBook, IInv, Good
<1>3. RecorderType
  BY <1>2, RecorderAssumption DEF RecorderType
<1>4. NoTask \in SnapshotTask /\ NoTask.state # "DONE"
  BY <1>2 DEF NoTask, NoId, SnapshotTask
<1>5. Fit(State)
  BY <1>2, <1>4 DEF Fit, State, MergeType
<1>6. Begun(State)
  BY <1>2 DEF Begun, State
<1>7. Lossless
  <2>1. queue \o wire = <<>>
    BY <1>2
  <2>2. 0 \in 0 .. engine /\ Ahead(queue \o wire, 0, 0) /\ Follows(State, 0)
    BY <1>2, <2>1 DEF Ahead, Follows, State
  <2> QED BY <1>2, <2>1, <2>2 DEF Lossless, Untouched, InLine
<1> QED BY <1>1, <1>3, <1>5, <1>6, <1>7 DEF RecorderInv

\* The facts of a state that the steps below need.
LEMMA RecorderFacts ==
    ASSUME RecorderInv
    PROVE  /\ ExchangeOK /\ Good(book) /\ book \in BookType /\ Chained /\ engine \in Nat
           /\ wire \in Seq(Items) /\ queue \in Seq(Items) /\ queue \o wire \in Seq(Items)
           /\ Len(queue \o wire) = Len(queue) + Len(wire)
           /\ Len(queue) \in Nat /\ Len(wire) \in Nat
           /\ \A j \in 1 .. Len(queue) : (queue \o wire)[j] = queue[j]
           /\ \A j \in 1 .. Len(wire) : (queue \o wire)[Len(queue) + j] = wire[j]
           /\ snapshot \in SnapshotTask /\ (snapshot.state = "DONE" => snapshot.id # NoId)
           /\ failures \in Nat /\ gaps \in Nat
<1>1. IInv /\ Chained /\ RecorderType /\ Fit(State)
  BY DEF RecorderInv
<1>2. ExchangeOK /\ Good(book) /\ book \in BookType /\ engine \in Nat
  BY <1>1 DEF IInv, Good, ExchangeOK
<1>3. wire \in Seq(Items) /\ queue \in Seq(Items)
  BY <1>1 DEF RecorderType, Items
<1>4. /\ snapshot \in SnapshotTask /\ (snapshot.state = "DONE" => snapshot.id # NoId)
      /\ failures \in Nat /\ gaps \in Nat
  BY <1>1 DEF Fit, State, MergeType
<1>5. /\ queue \o wire \in Seq(Items) /\ Len(queue \o wire) = Len(queue) + Len(wire)
      /\ \A j \in 1 .. Len(queue) + Len(wire) :
            (queue \o wire)[j] = IF j <= Len(queue) THEN queue[j] ELSE wire[j - Len(queue)]
      /\ Len(queue) \in Nat /\ Len(wire) \in Nat
  BY <1>3, ConcatProperties
<1>6. \A j \in 1 .. Len(wire) :
         /\ Len(queue) + j \in 1 .. Len(queue) + Len(wire) /\ ~ (Len(queue) + j <= Len(queue))
         /\ (Len(queue) + j) - Len(queue) = j
  BY <1>5
<1>7. \A j \in 1 .. Len(queue) : (queue \o wire)[j] = queue[j]
  BY <1>5
<1> QED BY <1>1, <1>2, <1>3, <1>4, <1>5, <1>6, <1>7

\* The matching engine moves on.
LEMMA ExchangeMatchInv ==
    ASSUME RecorderInv, ExchangeMatch
    PROVE  RecorderInv'
<1>1. /\ ExchangeOK /\ engine \in Nat /\ snapshot \in SnapshotTask
      /\ (snapshot.state = "DONE" => snapshot.id # NoId)
  BY RecorderFacts
<1>2. /\ IInv /\ Chained /\ RecorderType /\ Fit(State) /\ Begun(State) /\ Lossless
      /\ engine' = engine + 1
      /\ UNCHANGED <<published, book, link, attempt, wire, faults, drops, failures, gaps,
                     queue, snapshot>>
  BY DEF RecorderInv, ExchangeMatch, Match, worker
<1>3. IInv' /\ Chained'
  <2>1. [Next]_vars
    BY DEF ExchangeMatch, Next
  <2> QED BY <1>2, <2>1, NextInv DEF Chained
<1>4. /\ Deliverable \subseteq Deliverable' /\ Items \subseteq Items'
      /\ Seq(Deliverable) \subseteq Seq(Deliverable') /\ Seq(Items) \subseteq Seq(Items')
      /\ SnapshotTask \subseteq SnapshotTask' /\ 0 .. engine \subseteq 0 .. engine'
  BY <1>1, <1>2, <1>3, Wider DEF IInv
<1>5. RecorderType'
  BY <1>2, <1>4 DEF RecorderType, Items
<1>6. Fit(State)'
  BY <1>1, <1>2, <1>3, <1>4, FitKept
<1>7. Begun(State)'
  BY <1>2 DEF Begun, Asked, State
<1>8. Lossless'
  BY <1>2, <1>4, ZenonT(90) DEF Lossless, Untouched, InLine, Ahead, Follows, State
<1> QED BY <1>3, <1>5, <1>6, <1>7, <1>8 DEF RecorderInv

\* The exchange publishes: on a connection that is up the line grows by one update that
\* starts where everything before ended; without one, nothing has happened yet.
LEMMA PublishLossless ==
    ASSUME RecorderInv, ExchangePublish, ExchangeOK', Items \subseteq Items'
    PROVE  Lossless'
<1> SUFFICES ASSUME faults = 0, drops = 0
             PROVE  /\ link # "FAILED" /\ Untouched'
                    /\ InLine(queue' \o wire')
                    /\ \E front \in 0 .. engine : Ahead(queue \o wire, 0, front)'
                                                  /\ Follows(State, front)'
  BY DEF Lossless, ExchangePublish, Publish
<1> DEFINE line == queue \o wire
           N == Len(line)
<1>1. /\ ExchangeOK /\ engine \in Nat /\ line \in Seq(Items) /\ N \in Nat /\ wire \in Seq(Items)
      /\ queue \in Seq(Items)
      /\ \A q \in published : q[1] \in Nat /\ q[2] \in Nat /\ q[1] < q[2] /\ q[2] <= engine
  BY RecorderFacts, FeedAssumption DEF ExchangeOK
<1>2. /\ link # "FAILED" /\ Untouched /\ InLine(line)
      /\ RecorderType /\ Fit(State) /\ (link # "UP" => wire = <<>>)
  BY DEF RecorderInv, Lossless, RecorderType
<1>3. PICK front \in 0 .. engine : Ahead(line, 0, front) /\ Follows(State, front)
  BY DEF RecorderInv, Lossless
<1>4. UNCHANGED <<engine, book, link, attempt, faults, drops, failures, gaps, queue, snapshot>>
  BY DEF ExchangePublish, Publish
<1>5. PICK p \in 0 .. engine - 1 :
          /\ IsPublishedId(p) /\ published' = published \cup {<<p, engine>>}
          /\ wire' = IF link = "UP" THEN wire \o <<Update(p, engine, 1)>> ELSE wire
  BY <1>1, OneUpdate
<1> DEFINE u == Update(p, engine, 1)
           pair == <<p, engine>>
<1>6. /\ u.prev = p /\ u.last = engine /\ u # Connected /\ u \in Items'
      /\ pair[1] = p /\ pair[2] = engine /\ pair \in published'
      /\ p \in Nat /\ p < engine /\ p <= engine
  <2>1. u.prev = p /\ u.last = engine /\ Connected.last = 0
    BY DEF Update, Connected
  <2>2. pair \in published' /\ p \in Nat /\ p < engine /\ p <= engine
    BY <1>1, <1>5
  <2>3. u \in Deliverable'
    <3>1. u = Update(pair[1], pair[2], 1)
      OBVIOUS
    <3> QED BY <2>2, <3>1, RecorderAssumption DEF Deliverable
  <2> QED BY <1>1, <2>1, <2>2, <2>3 DEF Items
<1>7. \A q \in published : q[2] <= p
  BY <1>5 DEF IsPublishedId
<1>8. front <= p
  BY <1>3, <1>6, <1>7 DEF Ahead
<1>9. Untouched'
  BY <1>2, <1>4 DEF Untouched
<1>10. published' = published \cup {pair}
  BY <1>5
<1> HIDE DEF u, pair
<1>11. CASE link = "UP"
  <2> DEFINE longer == queue' \o wire'
  <2>1. longer = line \o <<u>>
    <3>1. queue \o (wire \o <<u>>) = (queue \o wire) \o <<u>>
      BY <1>1, <1>6, <1>4, ConcatAssociative
    <3> QED BY <1>4, <1>5, <1>11, <3>1 DEF u
  <2> HIDE DEF line, longer
  <2>2. /\ Len(longer) = N + 1 /\ longer[N + 1] = u
        /\ \A j \in 1 .. N : longer[j] = line[j]
    <3>1. line \in Seq(Items') /\ u \in Items'
      BY <1>1, <1>6
    <3> QED BY <2>1, <3>1
  <2>3. \A j \in 1 .. N : line[j] # Connected => line[j].last <= p
    <3> TAKE j \in 1 .. N
    <3>1. line[j] \in Items
      BY <1>1
    <3>2. line[j] # Connected => \E q \in published : q[2] = line[j].last
      BY <1>1, <3>1, ItemKinds
    <3> QED BY <1>7, <3>2
  <2>4. \A j \in 1 .. N + 1 : j \in 1 .. N \/ j = N + 1
    BY <1>1
  <2>5. InLine(longer)
    <3> SUFFICES ASSUME NEW i \in 1 .. N + 1, NEW j \in 1 .. N + 1, i < j
                 PROVE  longer[i] = Connected \/ longer[j] = Connected \/ longer[i].last <= longer[j].prev
      BY <2>2 DEF InLine
    <3>1. i \in 1 .. N
      BY <1>1
    <3>2. CASE j \in 1 .. N
      BY <1>2, <2>2, <3>1, <3>2 DEF InLine
    <3>3. CASE j = N + 1
      BY <1>6, <2>2, <2>3, <3>1, <3>3
    <3> QED BY <2>4, <3>2, <3>3
  <2>6. Ahead(queue \o wire, 0, front)'
    <3>1. front = 0 \/ \E q \in published' : q[2] = front
      BY <1>3, <1>10 DEF Ahead
    <3>2. ASSUME NEW q \in published'
          PROVE  q[2] <= front \/ \E j \in 1 .. N + 1 : longer[j].prev = q[1] /\ longer[j].last = q[2]
      <4>1. CASE q \in published
        <5>1. q[2] <= front \/ \E j \in 1 .. N : line[j].prev = q[1] /\ line[j].last = q[2]
          BY <1>3, <4>1 DEF Ahead
        <5> QED BY <1>1, <2>2, <2>4, <5>1
      <4>2. CASE q = pair
        <5>1. N + 1 \in 1 .. N + 1
          BY <1>1
        <5> QED BY <1>6, <2>2, <4>2, <5>1
      <4> QED BY <1>10, <4>1, <4>2
    <3>3. \A j \in 1 .. N + 1 : longer[j] = Connected \/ front <= longer[j].prev
      <4> TAKE j \in 1 .. N + 1
      <4>1. CASE j \in 1 .. N
        BY <1>3, <2>2, <4>1 DEF Ahead
      <4>2. CASE j = N + 1
        BY <1>6, <1>8, <2>2, <4>2
      <4> QED BY <2>4, <4>1, <4>2
    <3>4. 0 + 1 .. Len(longer) = 1 .. N + 1
      BY <2>2
    <3>5. (queue \o wire)' = longer
      BY DEF longer
    <3> QED BY <3>1, <3>2, <3>3, <3>4, <3>5 DEF Ahead
  <2>7. Follows(State, front)'
    BY <1>3, <1>4 DEF Follows, State
  <2> QED BY <1>2, <1>9, <2>5, <2>6, <2>7 DEF longer
<1>12. CASE link # "UP"
  <2>1. link = "DOWN" /\ queue' = <<>> /\ wire' = <<>> /\ queue' \o wire' = <<>>
    BY <1>2, <1>4, <1>5, <1>12 DEF Untouched, RecorderType
  <2>2. InLine(queue' \o wire')
    BY <2>1 DEF InLine
  <2>3. engine \in 0 .. engine /\ \A q \in published' : q[2] <= engine
    BY <1>1, <1>6, <1>10
  <2>4. Ahead(queue \o wire, 0, engine)'
    BY <1>4, <1>6, <2>1, <2>3 DEF Ahead
  <2>5. book.seen = {} /\ book.status = "EMPTY" /\ book.buffer = <<>> /\ gaps = 0
    BY <1>2, <2>1 DEF Untouched
  <2>6. Follows(State, engine)'
    BY <1>4, <2>5 DEF Follows, State
  <2> QED BY <1>2, <1>4, <1>9, <2>2, <2>3, <2>4, <2>6
<1> QED BY <1>11, <1>12

LEMMA ExchangePublishInv ==
    ASSUME RecorderInv, ExchangePublish
    PROVE  RecorderInv'
<1>1. /\ ExchangeOK /\ engine \in Nat /\ snapshot \in SnapshotTask
      /\ (snapshot.state = "DONE" => snapshot.id # NoId)
  BY RecorderFacts
<1>2. /\ IInv /\ Chained /\ RecorderType /\ Fit(State) /\ Begun(State)
      /\ Publish /\ published \subseteq published'
      /\ UNCHANGED <<engine, book, link, attempt, faults, drops, failures, gaps, queue, snapshot>>
  BY DEF RecorderInv, ExchangePublish, Publish
<1>3. IInv' /\ Chained'
  <2>1. [Next]_vars
    BY <1>2 DEF Next
  <2> QED BY <1>1, <1>2, <2>1, NextInv, PublishChained
<1>4. /\ Deliverable \subseteq Deliverable' /\ Items \subseteq Items'
      /\ Seq(Deliverable) \subseteq Seq(Deliverable') /\ Seq(Items) \subseteq Seq(Items')
      /\ SnapshotTask \subseteq SnapshotTask' /\ ExchangeOK'
  BY <1>1, <1>2, <1>3, Wider DEF IInv
<1>5. RecorderType'
  <2>1. wire' \in Seq(Deliverable') /\ (link # "UP" => wire' = <<>>)
    <3>1. PICK p \in 0 .. engine - 1 :
              /\ IsPublishedId(p) /\ published' = published \cup {<<p, engine>>}
              /\ wire' = IF link = "UP" THEN wire \o <<Update(p, engine, 1)>> ELSE wire
      BY <1>1, OneUpdate
    <3> DEFINE u == Update(p, engine, 1)
               pair == <<p, engine>>
    <3>2. u \in Deliverable'
      <4>1. pair \in published' /\ u = Update(pair[1], pair[2], 1)
        BY <3>1
      <4> QED BY <4>1, RecorderAssumption DEF Deliverable
    <3> HIDE DEF u
    <3>3. wire \in Seq(Deliverable') /\ (link # "UP" => wire = <<>>)
      BY <1>2, <1>4 DEF RecorderType
    <3>4. wire \o <<u>> \in Seq(Deliverable')
      BY <3>2, <3>3
    <3> QED BY <3>1, <3>3, <3>4 DEF u
  <2> QED BY <1>2, <1>4, <2>1 DEF RecorderType, Items
<1>6. Fit(State)'
  <2>1. snapshot' \in SnapshotTask' /\ (snapshot'.state = "DONE" => snapshot'.id # NoId)
    BY <1>1, <1>2, <1>4
  <2>2. engine <= engine'
    BY <1>1, <1>2
  <2> QED BY <1>1, <1>2, <1>3, <2>1, <2>2, FitKept
<1>7. Begun(State)'
  BY <1>2 DEF Begun, Asked, State
<1>8. Lossless'
  BY <1>4, PublishLossless
<1> QED BY <1>3, <1>5, <1>6, <1>7, <1>8 DEF RecorderInv

\* Steps that leave the exchange and the book alone.
LEMMA QuietStep ==
    ASSUME RecorderInv, UNCHANGED <<exchange, merge>>
    PROVE  /\ IInv' /\ Chained' /\ Items' = Items /\ Deliverable' = Deliverable
           /\ SnapshotTask' = SnapshotTask
           /\ snapshot' \in SnapshotTask /\ (snapshot'.state = "DONE" => snapshot'.id # NoId)
                 => Fit(State)'
<1>1. UNCHANGED <<engine, published, book, failures, gaps>>
  BY DEF exchange, merge
<1>2. IInv /\ Chained /\ Fit(State) /\ ExchangeOK /\ engine \in Nat
  BY RecorderFacts DEF RecorderInv
<1>3. IInv' /\ Chained'
  <2>1. [Next]_vars
    BY <1>1 DEF vars
  <2> QED BY <1>1, <1>2, <2>1, NextInv DEF Chained
<1>4. Items' = Items /\ Deliverable' = Deliverable /\ SnapshotTask' = SnapshotTask
  BY <1>1 DEF Items, Deliverable, SnapshotTask
<1>5. engine <= engine' /\ published \subseteq published'
  BY <1>1, <1>2
<1> QED BY <1>1, <1>2, <1>3, <1>4, <1>5, FitKept

\* Steps that leave the line as it is, too.
LEMMA LosslessKept ==
    ASSUME RecorderInv, UNCHANGED <<exchange, merge, link, faults, drops>>,
           queue' \o wire' = queue \o wire,
           faults = 0 /\ drops = 0 => Untouched'
    PROVE  Lossless'
<1> SUFFICES ASSUME faults = 0, drops = 0
             PROVE  /\ link # "FAILED" /\ InLine(queue \o wire)'
                    /\ \E front \in 0 .. engine : Ahead(queue \o wire, 0, front)'
                                                  /\ Follows(State, front)'
  BY DEF Lossless, exchange
<1>1. link # "FAILED" /\ InLine(queue \o wire)
  BY DEF RecorderInv, Lossless
<1>2. PICK front \in 0 .. engine : Ahead(queue \o wire, 0, front) /\ Follows(State, front)
  BY DEF RecorderInv, Lossless
<1> DEFINE line == queue \o wire
<1>3. line' = line
  OBVIOUS
<1> HIDE DEF line
<1>4. InLine(line)' /\ Ahead(line, 0, front)'
  BY <1>1, <1>2, <1>3 DEF InLine, Ahead, line, exchange
<1>5. Follows(State, front)'
  BY <1>2 DEF Follows, State, merge
<1> QED BY <1>1, <1>4, <1>5 DEF line

\* The REST service answers.
LEMMA AnswerInv ==
    ASSUME RecorderInv, Answer
    PROVE  RecorderInv'
<1>1. /\ RecorderType /\ Begun(State) /\ Lossless /\ engine \in Nat /\ ExchangeOK
  BY RecorderFacts DEF RecorderInv
<1>2. /\ snapshot = Running
      /\ snapshot' \in {[state |-> "DONE", id |-> engine], [state |-> "FAILED", id |-> NoId]}
      /\ UNCHANGED <<exchange, merge>>
      /\ UNCHANGED <<engine, published, book, failures, gaps, link, attempt, wire, faults, drops, queue>>
  BY DEF Answer, exchange, worker, merge
<1>3. /\ snapshot' \in SnapshotTask /\ (snapshot'.state = "DONE" => snapshot'.id # NoId)
      /\ snapshot' # NoTask
  BY <1>1, <1>2 DEF SnapshotTask, NoId, NoTask
<1>4. /\ IInv' /\ Chained' /\ Items' = Items /\ Deliverable' = Deliverable /\ Fit(State)'
  BY <1>2, <1>3, QuietStep
<1>5. RecorderType'
  BY <1>1, <1>2, <1>4 DEF RecorderType
<1>6. Begun(State)'
  BY <1>3 DEF Begun, Asked, State
<1>7. Lossless'
  <2>1. Running # NoTask
    BY DEF Running, NoTask
  <2>2. faults = 0 /\ drops = 0 => link # "DOWN"
    BY <1>1, <1>2, <2>1 DEF Lossless, Untouched
  <2> QED BY <1>1, <1>2, <1>4, <2>2, ZenonT(90) DEF Lossless, Untouched, InLine, Ahead, Follows, State
<1> QED BY <1>4, <1>5, <1>6, <1>7 DEF RecorderInv

LEMMA AppendKeepsFirst ==
    ASSUME NEW S, NEW s \in Seq(S), NEW x \in S
    PROVE  /\ Append(s, x) \in Seq(S) /\ Append(s, x) # <<>>
           /\ s # <<>> => Append(s, x)[1] = s[1]
           /\ s = <<>> => Append(s, x) = <<x>> /\ Append(s, x)[1] = x
<1>1. /\ Append(s, x) \in Seq(S) /\ Append(s, x) # <<>>
      /\ \A i \in 1 .. Len(s) : Append(s, x)[i] = s[i]
  BY AppendProperties
<1>2. s # <<>> => 1 \in 1 .. Len(s)
  BY EmptySeq
<1>3. s = <<>> => Append(s, x) = <<x>> /\ Append(s, x)[1] = x
  OBVIOUS
<1> QED BY <1>1, <1>2, <1>3

\* The worker connects, and says so in the queue.
LEMMA ConnectInv ==
    ASSUME RecorderInv, Connect
    PROVE  RecorderInv'
<1>1. /\ RecorderType /\ Begun(State) /\ Lossless /\ engine \in Nat /\ ExchangeOK
      /\ snapshot \in SnapshotTask /\ (snapshot.state = "DONE" => snapshot.id # NoId)
      /\ queue \in Seq(Items)
  BY RecorderFacts DEF RecorderInv
<1>2. /\ link = "DOWN" /\ link' = "UP" /\ attempt' = 0 /\ queue' = Append(queue, Connected)
      /\ UNCHANGED <<exchange, merge>>
      /\ UNCHANGED <<engine, published, book, failures, gaps, wire, faults, drops, snapshot>>
  BY DEF Connect, exchange, merge
<1>3. /\ IInv' /\ Chained' /\ Items' = Items /\ Deliverable' = Deliverable /\ Fit(State)'
  BY <1>1, <1>2, QuietStep
<1>4. Connected \in Items
  BY DEF Items
<1>5. /\ queue' \in Seq(Items) /\ queue' # <<>>
      /\ (queue = <<>> => queue'[1] = Connected /\ queue' = <<Connected>>)
      /\ (queue # <<>> => queue'[1] = queue[1])
  BY <1>1, <1>2, <1>4, AppendKeepsFirst
<1>6. RecorderType'
  BY <1>1, <1>2, <1>3, <1>5, RecorderAssumption DEF RecorderType, Items
<1>7. Begun(State)'
  BY <1>1, <1>2, <1>5 DEF Begun, Asked, State
<1>8. Lossless'
  <2> SUFFICES ASSUME faults = 0, drops = 0
               PROVE  /\ InLine(queue' \o wire')
                      /\ \E front \in 0 .. engine : Ahead(queue \o wire, 0, front)'
                                                    /\ Follows(State, front)'
    BY <1>2 DEF Lossless, Untouched
  <2>1. queue = <<>> /\ wire = <<>>
    BY <1>1, <1>2 DEF Lossless, Untouched, RecorderType
  <2>2. queue' \o wire' = <<Connected>> /\ queue \o wire = <<>>
    BY <1>2, <1>5, <2>1
  <2>3. PICK front \in 0 .. engine : Ahead(<<>>, 0, front) /\ Follows(State, front)
    BY <1>1, <2>2 DEF Lossless
  <2>4. InLine(<<Connected>>)
    BY DEF InLine
  <2>5. Ahead(<<Connected>>, 0, front)'
    <3>1. \A j \in 0 + 1 .. Len(<<Connected>>) : <<Connected>>[j] = Connected
      OBVIOUS
    <3>2. /\ front = 0 \/ \E q \in published : q[2] = front
          /\ \A q \in published : q[2] <= front
      BY <2>3 DEF Ahead
    <3> QED BY <1>2, <3>1, <3>2 DEF Ahead
  <2>6. Follows(State, front)'
    BY <1>2, <2>3 DEF Follows, State
  <2>7. Ahead(queue \o wire, 0, front)'
    BY <2>2, <2>5 DEF Ahead
  <2> QED BY <2>2, <2>4, <2>6, <2>7
<1> QED BY <1>3, <1>6, <1>7, <1>8 DEF RecorderInv

\* The connection is refused or broken, or the worker dies of an EOFError.
LEMMA BreakInv ==
    ASSUME RecorderInv, Break \/ Eof
    PROVE  RecorderInv'
<1>1. /\ RecorderType /\ Begun(State) /\ faults \in Nat /\ attempt \in Nat
      /\ snapshot \in SnapshotTask /\ (snapshot.state = "DONE" => snapshot.id # NoId)
  BY RecorderFacts, RecorderAssumption DEF RecorderInv, RecorderType
<1>2. /\ link # "FAILED" /\ faults' = faults + 1 /\ wire' = <<>>
      /\ UNCHANGED <<exchange, merge>>
      /\ UNCHANGED <<engine, published, book, failures, gaps, drops, queue, snapshot>>
  BY DEF Break, Eof, exchange, merge
<1>3. /\ link' \in {"DOWN", "FAILED"} /\ attempt' \in 0 .. MaxReconnects + 1
      /\ link' # "FAILED" => attempt' <= MaxReconnects
  <2>1. attempt <= MaxReconnects /\ MaxReconnects \in Nat
    BY <1>1, <1>2, RecorderAssumption DEF RecorderType
  <2>2. CASE Break
    BY <1>1, <2>1, <2>2 DEF Break
  <2>3. CASE Eof
    BY <1>1, <2>1, <2>3 DEF Eof
  <2> QED BY <2>2, <2>3
<1>4. /\ IInv' /\ Chained' /\ Items' = Items /\ Deliverable' = Deliverable /\ Fit(State)'
  BY <1>1, <1>2, QuietStep
<1>5. RecorderType'
  BY <1>1, <1>2, <1>3, <1>4 DEF RecorderType
<1>6. Begun(State)'
  BY <1>1, <1>2, <1>3 DEF Begun, Asked, State
<1>7. Lossless'
  <2>1. faults' # 0
    BY <1>1, <1>2
  <2> QED BY <2>1 DEF Lossless
<1> QED BY <1>4, <1>5, <1>6, <1>7 DEF RecorderInv

\* The worker moves an update to the queue, or drops it.
LEMMA ReceiveInv ==
    ASSUME RecorderInv, Receive
    PROVE  RecorderInv'
<1>1. /\ RecorderType /\ Begun(State) /\ Lossless
      /\ snapshot \in SnapshotTask /\ (snapshot.state = "DONE" => snapshot.id # NoId)
      /\ queue \in Seq(Items) /\ wire \in Seq(Items) /\ drops \in Nat
  BY RecorderFacts DEF RecorderInv, RecorderType
<1>2. /\ link = "UP" /\ wire # <<>> /\ wire' = Tail(wire)
      /\ \/ queue' = Append(queue, Head(wire)) /\ UNCHANGED drops
         \/ drops < MaxDrops /\ drops' = drops + 1 /\ UNCHANGED queue
      /\ UNCHANGED <<exchange, merge>>
      /\ UNCHANGED <<engine, published, book, failures, gaps, link, attempt, faults, snapshot>>
  BY DEF Receive, exchange, merge
<1>3. /\ IInv' /\ Chained' /\ Items' = Items /\ Deliverable' = Deliverable /\ Fit(State)'
  BY <1>1, <1>2, QuietStep
<1>4. wire \in Seq(Deliverable) /\ wire' \in Seq(Deliverable) /\ Head(wire) \in Items
  <2>1. wire \in Seq(Deliverable)
    BY <1>1 DEF RecorderType
  <2> QED BY <1>1, <1>2, <2>1
<1>5. /\ queue' \in Seq(Items) /\ drops' \in Nat
      /\ queue # <<>> => queue' # <<>> /\ queue'[1] = queue[1]
  <2>1. CASE queue' = Append(queue, Head(wire)) /\ UNCHANGED drops
    BY <1>1, <1>4, <2>1, AppendKeepsFirst
  <2>2. CASE drops' = drops + 1 /\ UNCHANGED queue
    BY <1>1, <2>2
  <2> QED BY <1>2, <2>1, <2>2
<1>6. RecorderType'
  BY <1>1, <1>2, <1>3, <1>4, <1>5 DEF RecorderType, Items
<1>7. Begun(State)'
  BY <1>1, <1>2, <1>5 DEF Begun, Asked, State
<1>8. Lossless'
  <2>1. CASE queue' = Append(queue, Head(wire)) /\ UNCHANGED drops
    <3>1. queue' \o wire' = queue \o wire
      <4> DEFINE h == Head(wire)
                 t == Tail(wire)
      <4>1. h \in Items /\ t \in Seq(Items) /\ wire = <<h>> \o t
        BY <1>1, <1>2
      <4>2. Append(queue, h) = queue \o <<h>>
        BY <1>1, <4>1, AppendIsConcat
      <4> HIDE DEF h, t
      <4>3. (queue \o <<h>>) \o t = queue \o (<<h>> \o t)
        BY <1>1, <4>1, ConcatAssociative
      <4>4. queue' = queue \o <<h>> /\ wire' = t
        BY <1>2, <2>1, <4>2 DEF h, t
      <4> QED BY <4>1, <4>3, <4>4, Zenon
    <3>2. Untouched'
      BY <1>2 DEF Untouched
    <3> QED BY <1>2, <2>1, <3>1, <3>2, LosslessKept
  <2>2. CASE drops' = drops + 1
    <3>1. drops' # 0
      BY <1>1, <2>2
    <3> QED BY <3>1 DEF Lossless
  <2> QED BY <1>2, <2>1, <2>2
<1> QED BY <1>3, <1>6, <1>7, <1>8 DEF RecorderInv

\* One turn of the merge loop.
LEMMA TurnInv ==
    ASSUME RecorderInv, Turn
    PROVE  RecorderInv'
<1> DEFINE N == Len(queue)
           line == queue \o wire
<1>1. /\ RecorderType /\ Begun(State) /\ Lossless /\ Fit(State) /\ Chained /\ ExchangeOK
      /\ snapshot \in SnapshotTask /\ engine \in Nat
      /\ queue \in Seq(Items) /\ wire \in Seq(Items) /\ line \in Seq(Items)
      /\ N \in Nat /\ Len(wire) \in Nat /\ Len(line) = N + Len(wire)
      /\ \A j \in 1 .. N : line[j] = queue[j]
      /\ \A j \in 1 .. Len(wire) : line[N + j] = wire[j]
  BY RecorderFacts DEF RecorderInv
<1>2. PICK s : /\ s = TakeSnapshot(HandleAll(State, queue))
               /\ book' = s.book /\ snapshot' = s.snapshot
               /\ failures' = s.failures /\ gaps' = s.gaps
  BY DEF Turn
<1>3. /\ TurnReady /\ queue' = <<>>
      /\ UNCHANGED <<engine, published, link, attempt, wire, faults, drops>>
  BY DEF Turn, exchange, worker
<1>4. PICK walk : IsWalk(walk, State, queue) /\ HandleAll(State, queue) = walk[N]
  BY <1>1, HandleAllWalks
<1>5. Asked(State) \/ (queue # <<>> /\ queue[1] = Connected)
  <2>1. queue = <<>> => snapshot # NoTask
    BY <1>3 DEF TurnReady, NoTask
  <2> QED BY <1>1, <2>1 DEF Begun, Asked, State
<1>6. /\ \A i \in 0 .. N : Fit(walk[i])
      /\ Asked(walk[N])
  BY <1>1, <1>4, <1>5, WalkFit
<1> DEFINE r == walk[N]
<1>7. Fit(r) /\ Asked(r) /\ s = TakeSnapshot(r)
  BY <1>1, <1>2, <1>4, <1>6
<1> HIDE DEF r
<1>8. /\ Fit(s) /\ Asked(s)
      /\ \A front \in Nat : Follows(r, front) => Follows(s, front)
  BY <1>1, <1>7, TakeFit
<1>9. s \in MergeType /\ Good(s.book)
  BY <1>8 DEF Fit
<1>10. MergeType' = MergeType /\ ExchangeOK' /\ Chained' /\ Items' = Items
       /\ Deliverable' = Deliverable /\ BookType' = BookType
  BY <1>1, <1>3 DEF MergeType, BookType, SnapshotTask, Deliverable, Items, ExchangeOK, Chained
<1>11. IInv'
  <2>1. Good(book)'
    BY <1>2, <1>3, <1>9, <1>10 DEF Good, Faithful, Usable
  <2> QED BY <1>10, <2>1 DEF IInv
<1>12. RecorderType'
  <2>1. queue' \in Seq(Items)
    BY <1>3
  <2> QED BY <1>1, <1>3, <1>10, <2>1 DEF RecorderType, Items
<1>13. Fit(State)'
  <2>1. State' \in MergeType'
    BY <1>2, <1>9, <1>10 DEF State, MergeType
  <2>2. /\ State'.book = s.book /\ State'.snapshot = s.snapshot
    BY <1>2 DEF State
  <2> HIDE DEF State
  <2> QED BY <1>2, <1>3, <1>8, <1>11, <2>1, <2>2 DEF Fit, IInv, State
<1>14. Begun(State)'
  BY <1>2, <1>8 DEF Begun, Asked, State
<1>15. Lossless'
  <2> SUFFICES ASSUME faults = 0, drops = 0
               PROVE  /\ link # "FAILED" /\ link # "DOWN" /\ InLine(queue' \o wire')
                      /\ \E front \in 0 .. engine : Ahead(queue \o wire, 0, front)'
                                                    /\ Follows(State, front)'
    BY <1>3 DEF Lossless, Untouched
  <2>1. /\ link # "FAILED" /\ link # "DOWN" /\ InLine(line)
    BY <1>1, <1>3 DEF Lossless, Untouched, TurnReady, NoTask
  <2>2. PICK start \in 0 .. engine : Ahead(line, 0, start) /\ Follows(State, start)
    BY <1>1 DEF Lossless
  <2>3. PICK front \in 0 .. engine : Ahead(line, N, front) /\ Follows(r, front)
    <3> HIDE DEF line
    <3>1. N <= Len(line) /\ \A i \in 1 .. N : line[i] = queue[i]
      BY <1>1
    <3> QED BY <1>1, <1>4, <1>6, <2>1, <2>2, <3>1, WalkFollows DEF r
  <2>4. Follows(State, front)'
    <3>1. Follows(s, front)
      BY <1>1, <1>8, <2>3
    <3> QED BY <1>2, <3>1 DEF Follows, State
  <2>5. queue' \o wire' = wire
    BY <1>1, <1>3
  <2> HIDE DEF line
  <2>6. ASSUME NEW j \in 1 .. Len(wire)
        PROVE  N + j \in 1 .. Len(line) /\ N + j \in N + 1 .. Len(line) /\ line[N + j] = wire[j]
    BY <1>1
  <2>7. InLine(wire)
    <3> SUFFICES ASSUME NEW i \in 1 .. Len(wire), NEW j \in 1 .. Len(wire), i < j
                 PROVE  wire[i] = Connected \/ wire[j] = Connected \/ wire[i].last <= wire[j].prev
      BY DEF InLine
    <3> DEFINE x == N + i
               y == N + j
    <3>1. x \in 1 .. Len(line) /\ y \in 1 .. Len(line) /\ x < y
          /\ line[x] = wire[i] /\ line[y] = wire[j]
      BY <1>1, <2>6
    <3> HIDE DEF x, y
    <3> QED BY <2>1, <3>1 DEF InLine
  <2>8. Ahead(wire, 0, front)
    <3>1. front = 0 \/ \E q \in published : q[2] = front
      BY <2>3 DEF Ahead
    <3>2. ASSUME NEW q \in published
          PROVE  q[2] <= front \/ \E j \in 1 .. Len(wire) : wire[j].prev = q[1] /\ wire[j].last = q[2]
      <4> SUFFICES ASSUME ~ (q[2] <= front)
                   PROVE  \E j \in 1 .. Len(wire) : wire[j].prev = q[1] /\ wire[j].last = q[2]
        OBVIOUS
      <4>1. PICK k \in N + 1 .. Len(line) : line[k].prev = q[1] /\ line[k].last = q[2]
        BY <2>3 DEF Ahead
      <4> DEFINE j == k - N
      <4>2. j \in 1 .. Len(wire) /\ N + j = k
        BY <1>1
      <4>3. line[k] = wire[j]
        BY <2>6, <4>2
      <4> QED BY <4>1, <4>2, <4>3
    <3>3. \A j \in 1 .. Len(wire) : wire[j] = Connected \/ front <= wire[j].prev
      <4> TAKE j \in 1 .. Len(wire)
      <4> DEFINE k == N + j
      <4>1. k \in N + 1 .. Len(line) /\ line[k] = wire[j]
        BY <2>6
      <4> HIDE DEF k
      <4> QED BY <2>3, <4>1 DEF Ahead
    <3>4. 0 + 1 .. Len(wire) = 1 .. Len(wire)
      OBVIOUS
    <3> QED BY <3>1, <3>2, <3>3, <3>4 DEF Ahead
  <2>9. Ahead(queue \o wire, 0, front)'
    BY <1>3, <2>5, <2>8 DEF Ahead
  <2> QED BY <2>1, <2>4, <2>5, <2>7, <2>9
<1> QED BY <1>10, <1>11, <1>12, <1>13, <1>14, <1>15 DEF RecorderInv

LEMMA RecorderNextInv == RecorderInv /\ [RecorderNext]_recorderVars => RecorderInv'
<1> SUFFICES ASSUME RecorderInv, [RecorderNext]_recorderVars PROVE RecorderInv'
  OBVIOUS
<1>1. CASE UNCHANGED recorderVars
  <2>1. UNCHANGED <<exchange, worker, merge, queue, snapshot>>
    BY <1>1 DEF recorderVars
  <2>2. /\ IInv' /\ Chained' /\ Items' = Items /\ Deliverable' = Deliverable /\ Fit(State)'
    <3>1. snapshot \in SnapshotTask /\ (snapshot.state = "DONE" => snapshot.id # NoId)
      BY RecorderFacts
    <3> QED BY <2>1, <3>1, QuietStep
  <2>3. UNCHANGED <<book, failures, gaps, link, attempt, wire, faults, drops, queue, snapshot>>
    BY <2>1 DEF worker, merge
  <2>4. RecorderType' /\ Begun(State)'
    BY <2>2, <2>3 DEF RecorderInv, RecorderType, Begun, Asked, State
  <2>5. Lossless'
    <3>1. faults = 0 /\ drops = 0 => Untouched'
      BY <2>3 DEF RecorderInv, Lossless, Untouched
    <3> QED BY <2>1, <2>3, <3>1, LosslessKept
  <2> QED BY <2>2, <2>4, <2>5 DEF RecorderInv
<1>2. CASE ExchangeMatch
  BY <1>2, ExchangeMatchInv
<1>3. CASE ExchangePublish
  BY <1>3, ExchangePublishInv
<1>4. CASE Answer
  BY <1>4, AnswerInv
<1>5. CASE Connect
  BY <1>5, ConnectInv
<1>6. CASE Break \/ Eof
  BY <1>6, BreakInv
<1>7. CASE Receive
  BY <1>7, ReceiveInv
<1>8. CASE Turn
  BY <1>8, TurnInv
<1> QED BY <1>1, <1>2, <1>3, <1>4, <1>5, <1>6, <1>7, <1>8 DEF RecorderNext

\* The inductive invariant of the recorder holds in every reachable state.
THEOREM RecorderInvariance == RecorderSpec => []RecorderInv
<1> QED BY RecorderInitInv, RecorderNextInv, PTL DEF RecorderSpec

\* For every exchange history and every number of faults, lost updates and reconnects:
\* between two turns the book is never left invalid or without the snapshot it waits
\* for, and no sequence gap is counted unless a connection broke or an update was lost.
THEOREM RecorderIsConsistent == RecorderSpec => []RecorderConsistent
<1>1. RecorderInv => RecorderConsistent
  <2> SUFFICES ASSUME RecorderInv PROVE RecorderConsistent
    OBVIOUS
  <2>1. /\ IInv /\ RecorderType /\ Fit(State) /\ Begun(State) /\ Lossless
    BY DEF RecorderInv
  <2>2. TypeOK
    BY <2>1 DEF IInv, ExchangeOK, Good, BookType, TypeOK
  <2>3. RecorderTypeOK
    BY <2>1, <2>2 DEF RecorderTypeOK, RecorderType, Fit, State, MergeType, SnapshotTask
  <2>4. RecoveryUnderway
    <3>1. book.status # "INVALID" /\ failures \in Nat
      BY <2>1 DEF Fit, State, MergeType
    <3>2. book.status \in {"BUFFERING", "RESYNC_IN_PROGRESS"} /\ failures <= MaxReconnects
            => snapshot # NoTask
      BY <2>1, <3>1, RecorderAssumption DEF Begun, Asked, State
    <3> QED BY <3>1, <3>2 DEF RecoveryUnderway
  <2>5. GapMeansLoss
    <3>1. faults \in Nat /\ drops \in Nat
      BY <2>1 DEF RecorderType
    <3>2. faults = 0 /\ drops = 0 => gaps = 0
      BY <2>1 DEF Lossless, Follows, State
    <3> QED BY <3>1, <3>2 DEF GapMeansLoss
  <2> QED BY <2>3, <2>4, <2>5 DEF RecorderConsistent
<1> QED BY <1>1, RecorderInvariance, PTL

\* The recorder implements MirrorBook: whatever is lost, late or refused, what its book
\* shows is one true state of the exchange.
THEOREM RecorderImplementsMirror == RecorderSpec => MirrorSpec
<1>1. RecorderInit => Mirror!Init
  BY MirrorInit DEF RecorderInit
<1>2. RecorderInv /\ RecorderInv' /\ [RecorderNext]_recorderVars => [Mirror!Next]_(Mirror!vars)
  <2> SUFFICES ASSUME RecorderInv, RecorderInv', [RecorderNext]_recorderVars
               PROVE  Match \/ UNCHANGED engine
    BY MirrorStep DEF RecorderInv
  <2> QED BY DEF RecorderNext, ExchangeMatch, ExchangePublish, Publish, Answer, Connect, Break,
             Eof, Receive, Turn, recorderVars, exchange
<1> QED BY <1>1, <1>2, RecorderInvariance, PTL DEF RecorderSpec, MirrorSpec, Mirror!Spec

-----------------------------------------------------------------------------
(* The Spot recorder: its inductive invariant *)

Served == [served : BOOLEAN, id : -1 .. engine]

StreamType ==
    /\ phase \in {"DOWN", "BOOTSTRAP", "STREAM", "RESYNC", "FAILED"}
    /\ streamAttempt \in Nat /\ streamAttempt <= StreamReconnects + 1
    /\ phase # "FAILED" => streamAttempt <= StreamReconnects
    /\ stream \in Seq(Deliverable)
    /\ request \in Served /\ (request.served => request.id # NoId)
    /\ streamGaps \in Nat /\ realGaps \in Nat /\ realGaps <= streamGaps

\* A book that waits for its snapshot has nothing to replay after it, and one that the
\* receive loop works on is usable unless the exchange's own book is not.
StreamBook ==
    /\ book.retained = 0
    /\ phase = "RESYNC" => book.buffer = <<>>
    /\ phase = "STREAM" => \/ book.status = "SYNCHRONIZED"
                           \/ book.status = "INVALID" /\ ExchangeOneSided

StreamInv == IInv /\ StreamType /\ StreamBook

-----------------------------------------------------------------------------
(* What a snapshot makes of a book *)

\* Trimming keeps the best level of a side.
LEMMA BestKept ==
    ASSUME NEW ladder \in Ladder, IsFiniteSet({l \in Level : ladder[l] > 0}),
           NEW depth \in Nat, depth # 0, NEW side \in Side,
           NEW p \in Price, ladder[<<side, p>>] > 0
    PROVE  \E q \in Price : Trim(ladder, depth)[<<side, q>>] > 0
<1> DEFINE Held == {l \in Level : ladder[l] > 0}
           Beyond(l) == {m \in Level : ladder[m] > 0 /\ Better(m, l)}
           Mine == {q \in Price : ladder[<<side, q>>] > 0}
           Ranks == {Cardinality(Beyond(<<side, q>>)) : q \in Mine}
<1>1. \A l \in Level : Beyond(l) \subseteq Held
  OBVIOUS
<1>2. \A l \in Level : IsFiniteSet(Beyond(l)) /\ Cardinality(Beyond(l)) \in Nat
  <2> HIDE DEF Held, Beyond
  <2>1. IsFiniteSet(Held)
    BY DEF Held
  <2> QED BY <1>1, <2>1, FS_Subset, FS_CardinalityType
<1>3. \A q \in Price : <<side, q>> \in Level
  BY DEF Level
<1>4. PICK r \in Ranks : \A k \in Ranks : r <= k
  <2>1. Ranks \in SUBSET Nat
    <3> HIDE DEF Beyond
    <3> QED BY <1>2, <1>3
  <2>2. Ranks # {}
    OBVIOUS
  <2> HIDE DEF Ranks
  <2> QED BY <2>1, <2>2, LeastElement
<1>5. PICK q \in Mine : r = Cardinality(Beyond(<<side, q>>))
  BY <1>4
<1> DEFINE best == <<side, q>>
<1>6. Beyond(best) = {}
  <2> SUFFICES ASSUME NEW m \in Beyond(best) PROVE FALSE
    OBVIOUS
  <2>1. PICK s \in Side, x \in Price : m = <<s, x>>
    BY DEF Level
  <2>2. s = side /\ x \in Mine /\ m = <<side, x>>
    BY <2>1 DEF Better
  <2>3. Beyond(m) \subseteq Beyond(best) \ {m}
    <3> SUFFICES ASSUME NEW n \in Beyond(m) PROVE n \in Beyond(best) /\ n # m
      OBVIOUS
    <3>1. PICK t \in Side, y \in Price : n = <<t, y>>
      BY DEF Level
    <3>2. t = side /\ n = <<side, y>> /\ y # x
      BY <2>2, <3>1, BookAssumption DEF Better
    <3>3. q \in Int /\ x \in Int /\ y \in Int
      BY <3>1, <2>1, BookAssumption
    <3>4. Better(n, best)
      BY <2>2, <3>2, <3>3 DEF Better
    <3> QED BY <2>2, <3>2, <3>4
  <2>4. Cardinality(Beyond(best) \ {m}) = Cardinality(Beyond(best)) - 1
    <3> HIDE DEF Beyond
    <3> QED BY <1>2, <1>3, FS_RemoveElement
  <2>5. Cardinality(Beyond(m)) <= Cardinality(Beyond(best) \ {m})
    <3>1. IsFiniteSet(Beyond(best) \ {m})
      <4> HIDE DEF Beyond
      <4> QED BY <1>2, <1>3, FS_Subset
    <3> HIDE DEF Beyond
    <3> QED BY <2>3, <3>1, FS_Subset
  <2>6. Cardinality(Beyond(m)) \in Ranks
    <3> HIDE DEF Beyond
    <3> QED BY <2>2
  <2>7. r <= Cardinality(Beyond(m)) /\ r \in Nat /\ Cardinality(Beyond(m)) \in Nat
    <3> HIDE DEF Beyond, Ranks
    <3> QED BY <1>2, <1>3, <1>4, <1>5, <2>2, <2>6
  <2>8. r = Cardinality(Beyond(best))
    BY <1>5
  <2> HIDE DEF Beyond, Ranks, best
  <2> QED BY <2>4, <2>5, <2>7, <2>8
<1>7. Trim(ladder, depth)[best] = ladder[best]
  <2> DEFINE Kept(l) == Cardinality(Beyond(l)) < depth
  <2>1. Trim(ladder, depth) = [l \in Level |-> IF Kept(l) THEN ladder[l] ELSE 0]
    BY DEF Trim
  <2>2. Kept(best)
    BY <1>6, FS_EmptySet, SMTT(30)
  <2> HIDE DEF Kept
  <2> QED BY <1>3, <2>1, <2>2
<1> QED BY <1>7

\* Trimming leaves a book with two sides usable.
LEMMA TrimUsable ==
    ASSUME NEW ladder \in Ladder, IsFiniteSet({l \in Level : ladder[l] > 0}),
           NEW depth \in Nat, ValidUncrossed(ladder)
    PROVE  ValidUncrossed(Trim(ladder, depth))
<1> DEFINE t == Trim(ladder, depth)
<1>1. CASE depth = 0
  BY <1>1, TrimFacts
<1>2. CASE depth # 0
  <2>1. /\ \E p \in Price : ladder[<<"bid", p>>] > 0
        /\ \E p \in Price : ladder[<<"ask", p>>] > 0
        /\ \A p, q \in Price : ladder[<<"bid", p>>] > 0 /\ ladder[<<"ask", q>>] > 0 => p < q
    BY DEF ValidUncrossed
  <2>2. /\ \E p \in Price : t[<<"bid", p>>] > 0
        /\ \E p \in Price : t[<<"ask", p>>] > 0
    <3>1. "bid" \in Side /\ "ask" \in Side
      BY DEF Side
    <3> HIDE DEF t
    <3> QED BY <1>2, <2>1, <3>1, BestKept DEF t
  <2>3. /\ t \in Ladder
        /\ \A l \in Level : t[l] # 0 => t[l] = ladder[l]
    BY TrimFacts
  <2>4. \A p \in Price : <<"bid", p>> \in Level /\ <<"ask", p>> \in Level
    BY DEF Level, Side
  <2> HIDE DEF t
  <2>5. \A p, q \in Price : t[<<"bid", p>>] > 0 /\ t[<<"ask", q>>] > 0 => p < q
    <3> TAKE p, q \in Price
    <3>1. /\ t[<<"bid", p>>] # 0 => t[<<"bid", p>>] = ladder[<<"bid", p>>]
          /\ t[<<"ask", q>>] # 0 => t[<<"ask", q>>] = ladder[<<"ask", q>>]
      BY <2>3, <2>4
    <3> QED BY <2>1, <3>1
  <2>6. ValidUncrossed(t)
    BY <2>2, <2>5 DEF ValidUncrossed
  <2> QED BY <2>6 DEF t
<1> QED BY <1>1, <1>2

\* apply_snapshot leaves a book synchronized or invalid, and keeps its kind.
LEMMA SnapshotSettles ==
    ASSUME ExchangeOK, NEW b, Good(b), NEW n \in 0 .. engine
    PROVE  /\ ApplySnapshot(b, SnapshotAt(n)).status \in {"SYNCHRONIZED", "INVALID"}
           /\ ApplySnapshot(b, SnapshotAt(n)).retained = b.retained
<1> DEFINE s == SnapshotAt(n)
           loaded == Loaded(b, s)
           drained == DrainRun(loaded, b.buffer, s.id)[Len(b.buffer)]
           status == IF ValidUncrossed(drained.ladder) THEN "SYNCHRONIZED" ELSE "INVALID"
<1>1. Good(loaded) /\ loaded.updateId # NoId /\ loaded.retained = b.retained
  <2>1. b \in BookType
    BY DEF Good
  <2>2. loaded.retained = b.retained
    <3> HIDE DEF s
    <3> QED BY <2>1 DEF Loaded, BookType
  <2> QED BY <2>2, LoadedGood
<1>2. Good(drained) /\ drained.retained = b.retained
  <2>1. b.buffer \in Seq(Deliverable)
    BY DEF Good, BookType
  <2> HIDE DEF loaded
  <2> QED BY <1>1, <2>1, DrainGood DEF SameKind
<1>3. ApplySnapshot(b, s) = IF drained.status = "INVALID" THEN drained
                            ELSE [drained EXCEPT !.status = status]
  BY DEF ApplySnapshot
<1>4. status \in {"SYNCHRONIZED", "INVALID"}
  OBVIOUS
<1> HIDE DEF drained, status, s
<1>5. drained \in BookType
  BY <1>2 DEF Good
<1>6. /\ [drained EXCEPT !.status = status].status = status
      /\ [drained EXCEPT !.status = status].retained = drained.retained
  BY <1>5 DEF BookType
<1> QED BY <1>2, <1>3, <1>4, <1>6 DEF s

\* With nothing to replay it is synchronized, unless the exchange's book is one-sided.
LEMMA SnapshotAlone ==
    ASSUME ExchangeOK, NEW b, Good(b), b.buffer = <<>>, b.retained = 0, NEW n \in 0 .. engine
    PROVE  /\ ApplySnapshot(b, SnapshotAt(n)).updateId = n
           /\ ValidUncrossed(MarketAt[n]) => ApplySnapshot(b, SnapshotAt(n)).status = "SYNCHRONIZED"
<1> DEFINE s == SnapshotAt(n)
           loaded == Loaded(b, s)
           status == IF ValidUncrossed(loaded.ladder) THEN "SYNCHRONIZED" ELSE "INVALID"
<1>1. DrainRun(loaded, b.buffer, s.id)[Len(b.buffer)] = loaded
  <2>1. Len(b.buffer) = 0
    OBVIOUS
  <2>2. DrainRun(loaded, b.buffer, s.id) =
          [i \in 0 .. Len(b.buffer) |->
             IF i = 0 THEN loaded
             ELSE DrainStep(DrainRun(loaded, b.buffer, s.id)[i-1], b.buffer[i], s.id)]
    <3> HIDE DEF loaded, s
    <3> QED BY <2>1, DrainRunDef
  <2> HIDE DEF loaded, s
  <2> QED BY <2>1, <2>2
<1>2. /\ loaded \in BookType /\ loaded.updateId = n /\ loaded.status = "BUFFERING"
  BY LoadedGood DEF Good
<1>3. MarketAt[n] \in Ladder /\ n \in 0 .. MaxId
  BY FeedAssumption DEF ExchangeOK
<1>4. loaded.ladder = Trim(MarketAt[n], SnapshotDepth)
  <2>1. Trim(MarketAt[n], SnapshotDepth) \in Ladder
    BY <1>3, TrimFacts
  <2>2. Trim(s.ladder, 0) = s.ladder /\ s.ladder = Trim(MarketAt[n], SnapshotDepth)
    BY <2>1, TrimFacts DEF SnapshotAt
  <2>3. loaded.ladder = Trim(s.ladder, b.retained)
    BY DEF Loaded, Good, BookType
  <2> QED BY <2>2, <2>3
<1>5. ValidUncrossed(MarketAt[n]) => ValidUncrossed(loaded.ladder)
  BY <1>3, <1>4, TrimUsable, StreamAssumption, FeedAssumption
<1>6. ApplySnapshot(b, s) = [loaded EXCEPT !.status = status]
  <2> DEFINE d == DrainRun(loaded, b.buffer, s.id)[Len(b.buffer)]
  <2>1. ApplySnapshot(b, s) =
          IF d.status = "INVALID" THEN d
          ELSE [d EXCEPT !.status = IF ValidUncrossed(d.ladder) THEN "SYNCHRONIZED" ELSE "INVALID"]
    BY DEF ApplySnapshot
  <2>2. d = loaded
    BY <1>1
  <2> HIDE DEF d, loaded, s
  <2> QED BY <1>2, <2>1, <2>2
<1> HIDE DEF loaded, s
<1>7. [loaded EXCEPT !.status = status].status = status
      /\ [loaded EXCEPT !.status = status].updateId = n
  <2> HIDE DEF status
  <2> QED BY <1>2 DEF BookType
<1> QED BY <1>5, <1>6, <1>7 DEF s

\* An update leaves a synchronized book synchronized or invalid.
LEMMA SequencedSettles ==
    ASSUME ExchangeOK, NEW b, Good(b), b.status = "SYNCHRONIZED", NEW e \in Deliverable
    PROVE  /\ Sequenced(b, e).status \in {"SYNCHRONIZED", "INVALID"}
           /\ Sequenced(b, e).retained = b.retained
<1> DEFINE c == [b EXCEPT !.seen = @ \cup {e}]
<1>1. b \in BookType
  BY DEF Good
<1>2. /\ c \in BookType /\ c.updateId = b.updateId /\ c.ladder = b.ladder
      /\ c.status = b.status /\ c.retained = b.retained
  BY <1>1 DEF BookType
<1> HIDE DEF c
<1>3. Good(c)
  BY <1>2 DEF Good, Faithful, Usable
<1>4. ApplySequenced(c, e).retained = c.retained
  BY <1>3, ApplySequencedGood DEF SameKind
<1>5. ApplySequenced(c, e).status \in {"SYNCHRONIZED", "INVALID"}
  <2> DEFINE ladder == Trim(ApplyLevels(c.ladder, e.diff), c.retained)
             status == IF ValidUncrossed(ladder) THEN "SYNCHRONIZED" ELSE "INVALID"
             after  == [c EXCEPT !.ladder   = ladder,
                                 !.updateId = e.last,
                                 !.awaiting = FALSE,
                                 !.status   = status]
  <2>1. status \in {"SYNCHRONIZED", "INVALID"}
    OBVIOUS
  <2>2. ApplySequenced(c, e) \in {c, Invalidate(c), after}
    BY DEF ApplySequenced
  <2> HIDE DEF ladder, status
  <2>3. after.status = status /\ Invalidate(c).status = "INVALID"
    BY <1>2 DEF BookType, Invalidate
  <2> HIDE DEF after
  <2> QED BY <1>2, <2>1, <2>2, <2>3
<1>6. Sequenced(b, e) \in {b, ApplySequenced(c, e)}
  BY DEF Sequenced, c
<1> QED BY <1>2, <1>4, <1>5, <1>6

\* The calls that do not load a snapshot keep the kind of a book.
LEMMA UpdateKeepsKind ==
    ASSUME ExchangeOK, NEW b, Good(b), NEW e \in Deliverable
    PROVE  /\ BufferUpdate(b, e).retained = b.retained
           /\ ApplyUpdate(b, e).retained = b.retained
           /\ BeginResync(b).retained = b.retained
           /\ BeginResync(b).buffer = <<>> /\ BeginResync(b).status = "RESYNC_IN_PROGRESS"
<1>1. b \in BookType
  BY DEF Good
<1>2. Buffered(b, e).retained = b.retained
  BY <1>1 DEF Buffered, BookType
<1>3. b.status = "SYNCHRONIZED" => Sequenced(b, e).retained = b.retained
  BY SequencedSettles
<1>4. /\ BeginResync(b).retained = b.retained
      /\ BeginResync(b).buffer = <<>> /\ BeginResync(b).status = "RESYNC_IN_PROGRESS"
  BY <1>1 DEF BeginResync, BookType
<1> QED BY <1>2, <1>3, <1>4 DEF BufferUpdate, ApplyUpdate

-----------------------------------------------------------------------------
(* The inductive invariant is one *)

LEMMA StreamInitInv == StreamInit => StreamInv
<1> SUFFICES ASSUME StreamInit PROVE StreamInv
  OBVIOUS
<1>1. IInv /\ ExchangeOK
  BY InitInv DEF StreamInit, IInv
<1>2. /\ phase = "DOWN" /\ streamAttempt = 0 /\ stream = <<>> /\ request = NoRequest
      /\ streamGaps = 0 /\ realGaps = 0
  BY DEF StreamInit
<1>3. request \in Served /\ ~ request.served
  BY <1>1, <1>2 DEF Served, NoRequest, NoId, ExchangeOK
<1>4. StreamType
  BY <1>2, <1>3, StreamAssumption DEF StreamType
<1>5. book.retained = 0
  BY DEF StreamInit, NewBook, StreamKind
<1> QED BY <1>1, <1>2, <1>4, <1>5 DEF StreamInv, StreamBook

LEMMA StreamFacts ==
    ASSUME StreamInv
    PROVE  /\ IInv /\ StreamType /\ StreamBook /\ ExchangeOK /\ Good(book) /\ book \in BookType
           /\ engine \in Nat /\ 0 \in 0 .. engine /\ NoRequest \in Served /\ Requested \in Served
           /\ (request.served => request.id \in 0 .. engine)
           /\ (stream # <<>> => Head(stream) \in Deliverable /\ Tail(stream) \in Seq(Deliverable))
<1>1. IInv /\ StreamType /\ StreamBook /\ ExchangeOK /\ Good(book) /\ book \in BookType
  BY DEF StreamInv, IInv, Good
<1>2. engine \in Nat /\ 0 \in 0 .. engine
  BY <1>1, FeedAssumption DEF ExchangeOK
<1>3. NoRequest \in Served /\ Requested \in Served
  BY <1>2 DEF Served, NoRequest, Requested, NoId
<1>4. request.served => request.id \in 0 .. engine
  BY <1>1, <1>2 DEF StreamType, Served, NoId
<1>5. stream # <<>> => Head(stream) \in Deliverable /\ Tail(stream) \in Seq(Deliverable)
  BY <1>1 DEF StreamType
<1> QED BY <1>1, <1>2, <1>3, <1>4, <1>5

\* Steps that leave the exchange alone.
LEMMA BookMoves ==
    ASSUME StreamInv, UNCHANGED feed, NEW b, Good(b), book' = b
    PROVE  /\ IInv' /\ Deliverable' = Deliverable /\ Served' = Served
           /\ UNCHANGED <<engine, published>>
<1>1. UNCHANGED <<engine, published>> /\ ExchangeOK
  BY StreamFacts DEF feed
<1>2. Deliverable' = Deliverable /\ Served' = Served
  BY <1>1 DEF Deliverable, Served
<1>3. b \in BookType'
  BY <1>1 DEF Good, BookType, Deliverable
<1>4. Good(book)'
  BY <1>1, <1>3 DEF Good, Faithful, Usable
<1>5. ExchangeOK'
  BY <1>1 DEF ExchangeOK
<1> QED BY <1>1, <1>2, <1>4, <1>5 DEF IInv

\* A publish sends one update.
LEMMA OneStreamed ==
    ASSUME ExchangeOK, Publish
    PROVE  SetToSeq({Update(r[1], r[2], 1) : r \in published' \ published}) \in Seq(Deliverable')
<1>1. PICK p \in 0 .. engine - 1 :
          IsPublishedId(p) /\ published' = published \cup {<<p, engine>>}
  BY DEF Publish
<1> DEFINE pair == <<p, engine>>
           u == Update(pair[1], pair[2], 1)
<1>2. pair \notin published
  <2>1. \A q \in published : q[2] <= p
    BY <1>1 DEF IsPublishedId
  <2>2. pair[2] = engine /\ ~ (engine <= p)
    BY DEF ExchangeOK
  <2> QED BY <2>1, <2>2
<1>3. published' \ published = {pair} /\ pair \in published'
  BY <1>1, <1>2
<1>4. u \in Deliverable'
  BY <1>3, StreamAssumption DEF Deliverable
<1>5. {Update(r[1], r[2], 1) : r \in published' \ published} = {u}
  <2> HIDE DEF pair
  <2> QED BY <1>3
<1> DEFINE updates == {Update(r[1], r[2], 1) : r \in published' \ published}
<1>6. updates = {u}
  BY <1>5
<1> HIDE DEF u, updates
<1>7. SetToSeq({u}) = <<u>> /\ <<u>> \in Seq(Deliverable')
  <2> DEFINE D == Deliverable'
  <2>1. u \in D
    BY <1>4
  <2> HIDE DEF D
  <2>2. <<u>> \in Seq(D)
    BY <2>1
  <2>3. SetToSeq({u}) = <<u>>
    BY OneInSequence
  <2> QED BY <2>2, <2>3 DEF D
<1>8. SetToSeq(updates) \in Seq(Deliverable')
  BY <1>6, <1>7
<1> QED BY <1>8 DEF updates

\* The exchange moves on.
LEMMA StreamExchangeInv ==
    ASSUME StreamInv, StreamMatch \/ StreamPublish
    PROVE  StreamInv'
<1>1. /\ IInv /\ StreamType /\ StreamBook /\ ExchangeOK /\ engine \in Nat
  BY StreamFacts
<1>2. /\ Match \/ Publish
      /\ UNCHANGED <<book, phase, streamAttempt, request, streamGaps, realGaps>>
  BY DEF StreamMatch, StreamPublish, Match, Publish, streamCounters
<1>3. IInv' /\ ExchangeOK'
  BY <1>1, <1>2, NextInv DEF Next, IInv
<1>4. engine <= engine' /\ engine' \in Nat /\ published \subseteq published'
  BY <1>1, <1>2, SMT DEF Match, Publish
<1>5. Served \subseteq Served'
  BY <1>1, <1>4 DEF Served
<1>6. Seq(Deliverable) \subseteq Seq(Deliverable')
  BY <1>1, <1>3, <1>4, Wider
<1>7. stream' \in Seq(Deliverable')
  <2>1. stream \in Seq(Deliverable')
    BY <1>1, <1>6 DEF StreamType
  <2>2. CASE StreamMatch
    BY <2>1, <2>2 DEF StreamMatch
  <2>3. CASE StreamPublish
    <3> DEFINE sent == SetToSeq({Update(r[1], r[2], 1) : r \in published' \ published})
    <3>1. sent \in Seq(Deliverable')
      BY <1>1, <2>3, OneStreamed DEF StreamPublish
    <3>2. stream' = stream \o sent \/ stream' = stream
      BY <2>3 DEF StreamPublish
    <3> DEFINE D == Deliverable'
    <3>3. sent \in Seq(D) /\ stream \in Seq(D)
      BY <2>1, <3>1
    <3> HIDE DEF sent, D
    <3>4. stream \o sent \in Seq(D)
      BY <3>3
    <3>5. stream' \in Seq(D)
      BY <3>2, <3>3, <3>4
    <3> QED BY <3>5 DEF D
  <2> QED BY <2>2, <2>3
<1>8. StreamType'
  BY <1>1, <1>2, <1>5, <1>7 DEF StreamType
<1>9. StreamBook'
  BY <1>1, <1>2 DEF StreamBook, ExchangeOneSided
<1> QED BY <1>3, <1>8, <1>9 DEF StreamInv

\* Steps that leave the exchange and the book alone.
LEMMA StreamQuietInv ==
    ASSUME StreamInv, \/ Serve \/ StreamConnect \/ StreamBreak \/ StreamEof \/ UNCHANGED streamVars
    PROVE  StreamInv'
<1>1. /\ StreamType /\ StreamBook /\ Good(book) /\ engine \in Nat
      /\ NoRequest \in Served /\ Requested \in Served
  BY StreamFacts
<1>2. UNCHANGED <<feed, book>>
  BY DEF Serve, StreamConnect, StreamBreak, StreamEof, streamVars
<1>3. /\ IInv' /\ Deliverable' = Deliverable /\ Served' = Served
  BY <1>1, <1>2, BookMoves
<1>4. CASE Serve
  <2>1. /\ request' = [served |-> TRUE, id |-> engine]
        /\ UNCHANGED <<phase, streamAttempt, stream, streamGaps, realGaps>>
    BY <1>4 DEF Serve, streamCounters
  <2>2. request' \in Served /\ request'.id # NoId
    BY <1>1, <2>1 DEF Served, NoId
  <2>3. StreamType'
    BY <1>1, <1>3, <2>1, <2>2 DEF StreamType
  <2> QED BY <1>1, <1>2, <1>3, <2>1, <2>3 DEF StreamInv, StreamBook, ExchangeOneSided
<1>5. CASE StreamConnect
  <2>1. /\ phase = "DOWN" /\ phase' = "BOOTSTRAP" /\ request' = Requested
        /\ UNCHANGED <<streamAttempt, stream, streamGaps, realGaps>>
    BY <1>5 DEF StreamConnect, streamCounters
  <2>2. StreamType'
    BY <1>1, <1>3, <2>1 DEF StreamType, Requested
  <2> QED BY <1>1, <1>2, <1>3, <2>1, <2>2 DEF StreamInv, StreamBook
<1>6. CASE StreamBreak \/ StreamEof
  <2>1. /\ phase # "FAILED" /\ phase' \in {"DOWN", "FAILED"} /\ stream' = <<>>
        /\ request' = NoRequest /\ UNCHANGED <<streamGaps, realGaps>>
        /\ \/ streamAttempt' = streamAttempt
           \/ /\ streamAttempt' = streamAttempt + 1
              /\ phase' = IF streamAttempt' > StreamReconnects THEN "FAILED" ELSE "DOWN"
        /\ streamAttempt' = streamAttempt => phase' = "FAILED" \/ streamAttempt' = streamAttempt + 1
    BY <1>6 DEF StreamBreak, StreamEof, Disconnect, streamCounters
  <2>2. streamAttempt \in Nat /\ streamAttempt <= StreamReconnects /\ StreamReconnects \in Nat
    BY <1>1, <2>1, StreamAssumption DEF StreamType
  <2>3. /\ streamAttempt' \in Nat /\ streamAttempt' <= StreamReconnects + 1
        /\ phase' # "FAILED" => streamAttempt' <= StreamReconnects
    BY <2>1, <2>2
  <2>4. StreamType'
    BY <1>1, <1>3, <2>1, <2>3 DEF StreamType, NoRequest
  <2> QED BY <1>1, <1>2, <1>3, <2>1, <2>4 DEF StreamInv, StreamBook
<1>7. CASE UNCHANGED streamVars
  <2>1. UNCHANGED <<phase, streamAttempt, stream, request, streamGaps, realGaps>>
    BY <1>7 DEF streamVars, streamCounters
  <2>2. StreamType'
    BY <1>1, <1>3, <2>1 DEF StreamType
  <2> QED BY <1>1, <1>2, <1>3, <2>1, <2>2 DEF StreamInv, StreamBook, ExchangeOneSided
<1> QED BY <1>4, <1>5, <1>6, <1>7

\* What is received while the snapshot is under way goes to the book.
LEMMA StreamBufferInv ==
    ASSUME StreamInv, Buffer
    PROVE  StreamInv'
<1>1. /\ StreamType /\ StreamBook /\ ExchangeOK /\ Good(book)
      /\ (stream # <<>> => Head(stream) \in Deliverable /\ Tail(stream) \in Seq(Deliverable))
  BY StreamFacts
<1>2. /\ phase = "BOOTSTRAP" /\ stream # <<>> /\ book' = BufferUpdate(book, Head(stream))
      /\ stream' = Tail(stream)
      /\ UNCHANGED <<feed, phase, streamAttempt, request, streamGaps, realGaps>>
  BY DEF Buffer, streamCounters
<1> DEFINE b == BufferUpdate(book, Head(stream))
<1>3. Good(b) /\ b.retained = 0
  BY <1>1, <1>2, UpdateGood, UpdateKeepsKind DEF StreamBook
<1> HIDE DEF b
<1>4. IInv' /\ Deliverable' = Deliverable /\ Served' = Served
  BY <1>2, <1>3, BookMoves DEF b
<1>5. StreamType'
  BY <1>1, <1>2, <1>4 DEF StreamType
<1>6. StreamBook'
  BY <1>2, <1>3 DEF StreamBook, b
<1> QED BY <1>4, <1>5, <1>6 DEF StreamInv

\* The snapshot arrives.
LEMMA RestoredFacts ==
    ASSUME StreamInv, request.served
    PROVE  /\ Good(Restored) /\ Restored.retained = 0 /\ Restored.buffer = <<>>
           /\ Restored.status \in {"SYNCHRONIZED", "INVALID"}
           /\ book.buffer = <<>> =>
                 /\ Restored.updateId # NoId
                 /\ ValidUncrossed(MarketAt[Restored.updateId])
                       => Restored.status = "SYNCHRONIZED"
<1>1. /\ ExchangeOK /\ Good(book) /\ book.retained = 0 /\ request.id \in 0 .. engine
      /\ engine \in Nat
  BY StreamFacts DEF StreamBook
<1>2. /\ Good(Restored) /\ Restored.retained = 0 /\ Restored.buffer = <<>>
      /\ Restored.status \in {"SYNCHRONIZED", "INVALID"}
  BY <1>1, SnapshotGood, SnapshotSettles DEF Restored
<1>3. ASSUME book.buffer = <<>>
      PROVE  /\ Restored.updateId = request.id
             /\ ValidUncrossed(MarketAt[request.id]) => Restored.status = "SYNCHRONIZED"
  BY <1>1, <1>3, SnapshotAlone DEF Restored
<1>4. request.id # NoId
  BY <1>1 DEF NoId
<1> QED BY <1>2, <1>3, <1>4

LEMMA SnapshotInv ==
    ASSUME StreamInv, Bootstrapped \/ Resynced
    PROVE  StreamInv'
<1>1. /\ StreamType /\ StreamBook /\ NoRequest \in Served
  BY StreamFacts
<1>2. /\ request.served /\ book' = Restored /\ UNCHANGED feed /\ UNCHANGED <<streamGaps, realGaps>>
      /\ phase \in {"BOOTSTRAP", "RESYNC"}
  BY DEF Bootstrapped, Resynced, streamCounters
<1> DEFINE b == Restored
<1>3. /\ Good(b) /\ b.retained = 0 /\ b.status \in {"SYNCHRONIZED", "INVALID"}
      /\ book.buffer = <<>> =>
            /\ b.updateId # NoId
            /\ ValidUncrossed(MarketAt[b.updateId]) => b.status = "SYNCHRONIZED"
  BY <1>2, RestoredFacts
<1>4. book' = b
  BY <1>2
<1> HIDE DEF b
<1>5. IInv' /\ Deliverable' = Deliverable /\ Served' = Served
  BY <1>2, <1>3, <1>4, BookMoves
<1>6. streamAttempt \in Nat /\ streamAttempt <= StreamReconnects /\ StreamReconnects \in Nat
  BY <1>1, <1>2, StreamAssumption DEF StreamType
<1>7. CASE Bootstrapped
  <2>1. \/ /\ b.status # "INVALID" /\ phase' = "STREAM" /\ streamAttempt' = 0
           /\ request' = NoRequest /\ stream' = stream
        \/ Disconnect
    BY <1>4, <1>7 DEF Bootstrapped
  <2>2. CASE /\ b.status # "INVALID" /\ phase' = "STREAM" /\ streamAttempt' = 0
             /\ request' = NoRequest /\ stream' = stream
    <3>1. StreamType'
      BY <1>1, <1>2, <1>5, <1>6, <2>2 DEF StreamType, NoRequest
    <3>2. StreamBook'
      BY <1>3, <1>4, <2>2 DEF StreamBook
    <3> QED BY <1>5, <3>1, <3>2 DEF StreamInv
  <2>3. CASE Disconnect
    <3>1. /\ streamAttempt' = streamAttempt + 1 /\ stream' = <<>> /\ request' = NoRequest
          /\ phase' = IF streamAttempt' > StreamReconnects THEN "FAILED" ELSE "DOWN"
      BY <2>3 DEF Disconnect
    <3>2. /\ streamAttempt' \in Nat /\ streamAttempt' <= StreamReconnects + 1
          /\ phase' # "FAILED" => streamAttempt' <= StreamReconnects
          /\ phase' \in {"DOWN", "FAILED"}
      BY <1>6, <3>1
    <3>3. StreamType'
      BY <1>1, <1>2, <1>5, <3>1, <3>2 DEF StreamType, NoRequest
    <3>4. StreamBook'
      BY <1>3, <1>4, <3>2 DEF StreamBook
    <3> QED BY <1>5, <3>3, <3>4 DEF StreamInv
  <2> QED BY <2>1, <2>2, <2>3
<1>8. CASE Resynced
  <2>1. /\ phase = "RESYNC" /\ phase' = "STREAM" /\ request' = NoRequest
        /\ UNCHANGED <<streamAttempt, stream>>
    BY <1>8 DEF Resynced
  <2>2. StreamType'
    BY <1>1, <1>2, <1>5, <1>6, <2>1 DEF StreamType, NoRequest
  <2>3. book.buffer = <<>>
    BY <1>1, <2>1 DEF StreamBook
  <2>4. StreamBook'
    BY <1>3, <1>4, <2>1, <2>3 DEF StreamBook, ExchangeOneSided
  <2> QED BY <1>5, <2>2, <2>4 DEF StreamInv
<1> QED BY <1>7, <1>8

\* The receive loop takes one update.
LEMMA StreamUpdateInv ==
    ASSUME StreamInv, Stream
    PROVE  StreamInv'
<1>1. /\ StreamType /\ StreamBook /\ ExchangeOK /\ Good(book) /\ Requested \in Served
      /\ (stream # <<>> => Head(stream) \in Deliverable /\ Tail(stream) \in Seq(Deliverable))
  BY StreamFacts
<1> DEFINE update  == Head(stream)
           applied == ApplyUpdate(book, update)
           reset   == BeginResync(applied)
<1>2. /\ phase = "STREAM" /\ stream' = Tail(stream) /\ update \in Deliverable
      /\ Tail(stream) \in Seq(Deliverable)
      /\ UNCHANGED feed /\ streamAttempt' = streamAttempt
  BY <1>1 DEF Stream
<1>3. \/ /\ applied.status # "INVALID" /\ book' = applied
         /\ UNCHANGED <<phase, request, streamGaps, realGaps>>
      \/ /\ applied.status = "INVALID" /\ book' = reset
         /\ phase' = "RESYNC" /\ request' = Requested
         /\ streamGaps' = streamGaps + 1 /\ realGaps' \in {realGaps, realGaps + 1}
  BY DEF Stream, streamCounters
<1>4. /\ Good(applied) /\ applied.retained = 0
      /\ book.status = "SYNCHRONIZED" => applied.status \in {"SYNCHRONIZED", "INVALID"}
      /\ book.status = "INVALID" => applied.status = "INVALID"
  <2> HIDE DEF update
  <2>1. Good(applied) /\ applied.retained = 0
    BY <1>1, <1>2, UpdateGood, UpdateKeepsKind DEF StreamBook
  <2>2. book.status = "SYNCHRONIZED" => applied = Sequenced(book, update)
    BY DEF ApplyUpdate
  <2>3. book.status = "INVALID" => applied = book
    BY DEF ApplyUpdate
  <2> HIDE DEF applied
  <2> QED BY <1>1, <1>2, <2>1, <2>2, <2>3, SequencedSettles
<1> HIDE DEF applied
<1>5. CASE /\ applied.status # "INVALID" /\ book' = applied
           /\ UNCHANGED <<phase, request, streamGaps, realGaps>>
  <2>1. IInv' /\ Deliverable' = Deliverable /\ Served' = Served
    BY <1>2, <1>4, <1>5, BookMoves
  <2>2. StreamType'
    BY <1>1, <1>2, <1>5, <2>1 DEF StreamType
  <2>3. applied.status = "SYNCHRONIZED"
    BY <1>1, <1>2, <1>4, <1>5 DEF StreamBook
  <2>4. StreamBook'
    BY <1>2, <1>4, <1>5, <2>3 DEF StreamBook
  <2> QED BY <2>1, <2>2, <2>4 DEF StreamInv
<1>6. CASE /\ applied.status = "INVALID" /\ book' = reset
           /\ phase' = "RESYNC" /\ request' = Requested
           /\ streamGaps' = streamGaps + 1 /\ realGaps' \in {realGaps, realGaps + 1}
  <2>1. Good(reset) /\ reset.retained = 0 /\ reset.buffer = <<>>
    BY <1>1, <1>2, <1>4, ResetGood, UpdateKeepsKind
  <2> HIDE DEF reset
  <2>2. IInv' /\ Deliverable' = Deliverable /\ Served' = Served
    BY <1>2, <1>6, <2>1, BookMoves
  <2>3. /\ streamGaps' \in Nat /\ realGaps' \in Nat /\ realGaps' <= streamGaps'
    BY <1>1, <1>6 DEF StreamType
  <2>4. StreamType'
    <3>1. phase # "FAILED"
      BY <1>2
    <3> QED BY <1>1, <1>2, <1>6, <2>2, <2>3, <3>1 DEF StreamType, Requested
  <2>5. StreamBook'
    BY <1>6, <2>1 DEF StreamBook
  <2> QED BY <2>2, <2>4, <2>5 DEF StreamInv
<1> QED BY <1>3, <1>5, <1>6

LEMMA StreamNextInv == StreamInv /\ [StreamNext]_streamVars => StreamInv'
<1> SUFFICES ASSUME StreamInv, [StreamNext]_streamVars PROVE StreamInv'
  OBVIOUS
<1>1. CASE StreamMatch \/ StreamPublish
  BY <1>1, StreamExchangeInv
<1>2. CASE Serve \/ StreamConnect \/ StreamBreak \/ StreamEof \/ UNCHANGED streamVars
  BY <1>2, StreamQuietInv
<1>3. CASE Buffer
  BY <1>3, StreamBufferInv
<1>4. CASE Bootstrapped \/ Resynced
  BY <1>4, SnapshotInv
<1>5. CASE Stream
  BY <1>5, StreamUpdateInv
<1> QED BY <1>1, <1>2, <1>3, <1>4, <1>5 DEF StreamNext

THEOREM StreamInvariance == StreamSpec => []StreamInv
<1> QED BY StreamInitInv, StreamNextInv, PTL DEF StreamSpec

\* For every exchange history, depth of a snapshot and number of faults and reconnects:
\* the receive loop of the Spot recorder only works on a book that is the exchange's and,
\* as long as the exchange's own book has two sides, synchronized.
THEOREM StreamIsConsistent == StreamSpec => []StreamConsistent
<1>1. StreamInv => StreamConsistent
  <2> SUFFICES ASSUME StreamInv PROVE StreamConsistent
    OBVIOUS
  <2>1. IInv /\ StreamType /\ StreamBook
    BY StreamFacts
  <2>2. TypeOK
    BY <2>1 DEF IInv, ExchangeOK, Good, BookType, TypeOK
  <2>3. StreamTypeOK
    BY <2>1, <2>2, StreamAssumption DEF StreamTypeOK, StreamType, Served
  <2>4. StreamingIsSynchronized
    BY <2>1 DEF StreamBook, StreamingIsSynchronized
  <2>5. MirrorsExchange
    BY <2>1 DEF IInv, Good, Faithful, MirrorsExchange, KeepsAll
  <2> QED BY <2>3, <2>4, <2>5 DEF StreamConsistent
<1> QED BY <1>1, StreamInvariance, PTL

\* The Spot recorder implements MirrorBook, too.
THEOREM StreamImplementsMirror == StreamSpec => MirrorSpec
<1>1. StreamInit => Mirror!Init
  BY MirrorInit DEF StreamInit
<1>2. StreamInv /\ StreamInv' /\ [StreamNext]_streamVars => [Mirror!Next]_(Mirror!vars)
  <2> SUFFICES ASSUME StreamInv, StreamInv', [StreamNext]_streamVars
               PROVE  Match \/ UNCHANGED engine
    BY MirrorStep DEF StreamInv
  <2> QED BY DEF StreamNext, StreamMatch, StreamPublish, Publish, Serve, StreamConnect, StreamBreak,
             StreamEof, Buffer, Bootstrapped, Stream, Resynced, streamVars, feed
<1> QED BY <1>1, <1>2, StreamInvariance, PTL DEF StreamSpec, MirrorSpec, Mirror!Spec
=============================================================================
