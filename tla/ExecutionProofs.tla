--------------------------- MODULE ExecutionProofs ---------------------------
(* Theorems about the simulated venue, for any orders, books, trades and       *)
(* latencies, and any number of orders; about the risk governor, for any       *)
(* limits, cooldown and length of the day; and about the elastic exit, for any *)
(* market a controller is shown.                                               *)
EXTENDS ExecutionVenue, RiskGovernor, ElasticExit, FiniteSetTheorems, WellFoundedInduction,
        TLAPS

-----------------------------------------------------------------------------
(* Sums of the execution ledger *)

\* A set of numbers has a least element.
LEMMA LeastNatural ==
    ASSUME NEW T, T \subseteq Nat, T # {}
    PROVE  \E m \in T : \A k \in T : m <= k
<1> DEFINE Upto == {0 .. n : n \in T}
<1>1. Upto \subseteq FiniteSubsetsOf(Nat)
  <2>1. \A n \in T : IsFiniteSet(0 .. n)
    BY FS_Interval
  <2> QED BY <2>1 DEF FiniteSubsetsOf
<1>2. \E x \in Upto : \A y \in Upto : <<y, x>> \notin StrictSubsetOrdering(Nat)
  <2>1. IsWellFoundedOn(StrictSubsetOrdering(Nat), FiniteSubsetsOf(Nat))
    BY FS_StrictSubsetOrderingWellFounded
  <2>2. Upto # {}
    OBVIOUS
  <2> HIDE DEF Upto
  <2> QED BY <1>1, <2>1, <2>2, WFMin
<1>3. PICK m \in T : \A k \in T : <<0 .. k, 0 .. m>> \notin StrictSubsetOrdering(Nat)
  BY <1>2
<1>4. ASSUME NEW k \in T, k < m
      PROVE  FALSE
  <2>1. 0 .. k \subseteq 0 .. m /\ 0 .. k # 0 .. m
    BY <1>4
  <2>2. <<0 .. k, 0 .. m>> \in StrictSubsetOrdering(Nat)
    BY <2>1 DEF StrictSubsetOrdering
  <2> QED BY <1>3, <2>2
<1> QED BY <1>4

\* The partial sums of a up to the m-th.
IsSum(sum, a, m) == sum = [n \in 0 .. m |-> IF n = 0 THEN 0 ELSE sum[n - 1] + a[n]]

LEMMA SumValues ==
    ASSUME NEW m \in Nat, NEW a, NEW sum, IsSum(sum, a, m)
    PROVE  sum[0] = 0 /\ \A n \in 1 .. m : sum[n] = sum[n - 1] + a[n]
<1>1. \A n \in 0 .. m : sum[n] = IF n = 0 THEN 0 ELSE sum[n - 1] + a[n]
  BY DEF IsSum
<1>2. 0 \in 0 .. m /\ \A n \in 1 .. m : n \in 0 .. m /\ n # 0
  OBVIOUS
<1> QED BY <1>1, <1>2

\* The recursive definition has a meaning for every length.
LEMMA SumExists ==
    ASSUME NEW a, NEW m \in Nat
    PROVE  \E sum : IsSum(sum, a, m)
<1> DEFINE T == {n \in Nat : ~ \E sum : IsSum(sum, a, n)}
<1>1. SUFFICES ASSUME T # {} PROVE FALSE
  OBVIOUS
<1>2. PICK n \in T : \A k \in T : n <= k
  BY <1>1, LeastNatural
<1>3. n # 0
  <2>1. IsSum([k \in 0 .. 0 |-> 0], a, 0)
    BY DEF IsSum
  <2> QED BY <2>1
<1>4. n - 1 \in Nat /\ n \in Nat /\ n - 1 \notin T
  BY <1>2, <1>3
<1>5. PICK sum : IsSum(sum, a, n - 1)
  BY <1>4
<1> DEFINE more == [k \in 0 .. n |-> IF k = n THEN sum[n - 1] + a[n] ELSE sum[k]]
<1>6. \A k \in 0 .. n : more[k] = IF k = 0 THEN 0 ELSE more[k - 1] + a[k]
  <2>1. TAKE k \in 0 .. n
  <2>2. CASE k = 0
    BY <1>3, <1>4, <1>5, <2>2, SumValues
  <2>3. CASE k # 0 /\ k # n
    <3>1. k \in 1 .. (n - 1) /\ k - 1 \in 0 .. n /\ k - 1 # n
      BY <1>4, <2>3
    <3> QED BY <1>4, <1>5, <2>3, <3>1, SumValues
  <2>4. CASE k = n
    <3>1. n - 1 \in 0 .. n /\ n - 1 # n /\ n \in 0 .. n
      BY <1>4
    <3> QED BY <1>3, <2>4, <3>1
  <2> QED BY <2>2, <2>3, <2>4
<1>7. IsSum(more, a, n)
  <2> SUFFICES more = [k \in 0 .. n |-> IF k = 0 THEN 0 ELSE more[k - 1] + a[k]]
    BY DEF IsSum
  <2> QED BY <1>6
<1> QED BY <1>2, <1>7

\* Two sums agree as long as their amounts do.
LEMMA SumsAgree ==
    ASSUME NEW m \in Nat, NEW n \in Nat, NEW a, NEW b, NEW s, NEW t, m <= n,
           IsSum(s, a, m), IsSum(t, b, n), \A i \in 1 .. m : a[i] = b[i]
    PROVE  s[m] = t[m]
<1> DEFINE T == {k \in 0 .. m : s[k] # t[k]}
<1>1. SUFFICES ASSUME T # {} PROVE FALSE
  OBVIOUS
<1>2. PICK k \in T : \A j \in T : k <= j
  <2>1. T \subseteq Nat
    OBVIOUS
  <2> HIDE DEF T
  <2> QED BY <1>1, <2>1, LeastNatural
<1>3. k # 0
  BY <1>2, SumValues
<1>4. k \in 1 .. m /\ k \in 1 .. n /\ k - 1 \in 0 .. m /\ ~ (k <= k - 1)
  BY <1>2, <1>3
<1>5. s[k - 1] = t[k - 1]
  BY <1>2, <1>4
<1>6. s[k] = s[k - 1] + a[k] /\ t[k] = t[k - 1] + b[k]
  BY <1>4, SumValues
<1> QED BY <1>2, <1>4, <1>5, <1>6

Part(v, effects) ==
    [o \in Ids(v) |-> IF v.orders[o].effect \in effects THEN v.filled[o] ELSE 0]

LEMMA FilledIsSum ==
    ASSUME NEW v, NEW effects, Len(v.orders) \in Nat
    PROVE  \E sum : /\ IsSum(sum, Part(v, effects), Len(v.orders))
                    /\ FilledBy(v, effects) = sum[Len(v.orders)]
<1> DEFINE m == Len(v.orders)
           a == Part(v, effects)
           s == CHOOSE sum : sum = [n \in 0 .. m |-> IF n = 0 THEN 0 ELSE sum[n - 1] + a[n]]
<1>1. \E sum : sum = [n \in 0 .. m |-> IF n = 0 THEN 0 ELSE sum[n - 1] + a[n]]
  BY SumExists DEF IsSum
<1>2. IsSum(s, a, m)
  BY <1>1, Zenon DEF IsSum
<1>3. FilledBy(v, effects) = s[m]
  BY DEF FilledBy, Part
<1> QED BY <1>2, <1>3

LEMMA SumInt ==
    ASSUME NEW m \in Nat, NEW a, NEW s, IsSum(s, a, m), \A i \in 1 .. m : a[i] \in Int
    PROVE  s[m] \in Int
<1> DEFINE T == {k \in 0 .. m : s[k] \notin Int}
<1>1. SUFFICES ASSUME T # {} PROVE FALSE
  OBVIOUS
<1>2. PICK k \in T : \A j \in T : k <= j
  <2>1. T \subseteq Nat
    OBVIOUS
  <2> HIDE DEF T
  <2> QED BY <1>1, <2>1, LeastNatural
<1>3. k # 0
  BY <1>2, SumValues
<1>4. k \in 1 .. m /\ k - 1 \in 0 .. m /\ ~ (k <= k - 1)
  BY <1>2, <1>3
<1> QED BY <1>2, <1>4, SumValues

-----------------------------------------------------------------------------
(* What the books of a venue always say *)

Order == [type : OrderType, effect : Effects, quantity : Nat, remaining : Nat,
          expiry : Nat, cancelAt : Int, lastFill : Int,
          status : OrderStatus \cup {"ACKNOWLEDGED"}]

QueueState == [ahead : Nat, own : Nat, initial : Nat, joined : Nat, traded : Nat]

Queues == UNION {[S -> QueueState] : S \in SUBSET Nat}

Configuration == [spot : BOOLEAN, rejectRemainder : BOOLEAN]

Venues == [config : Configuration, orders : Seq(Order), queue : Queues, filled : Seq(Nat),
           side : {"FLAT", "LONG", "SHORT"}, quantity : Nat, cash : Nat,
           expiring : SUBSET Nat, raised : BOOLEAN]

LEMMA QueueHas ==
    ASSUME NEW queue \in Queues
    PROVE  /\ DOMAIN queue \subseteq Nat /\ queue = [x \in DOMAIN queue |-> queue[x]]
           /\ \A x \in DOMAIN queue : queue[x] \in QueueState
BY DEF Queues

LEMMA PushedQueue ==
    ASSUME NEW queue \in Queues, NEW o \in Nat, NEW state \in QueueState
    PROVE  /\ Push(queue, o, state) \in Queues
           /\ DOMAIN Push(queue, o, state) = DOMAIN queue \cup {o}
           /\ Push(queue, o, state)[o] = state
           /\ \A x \in DOMAIN queue \ {o} : Push(queue, o, state)[x] = queue[x]
<1>1. /\ DOMAIN Push(queue, o, state) = DOMAIN queue \cup {o}
      /\ Push(queue, o, state)[o] = state
      /\ \A x \in DOMAIN queue \ {o} : Push(queue, o, state)[x] = queue[x]
  BY DEF Push
<1>2. \A x \in DOMAIN queue \cup {o} : (IF x = o THEN state ELSE queue[x]) \in QueueState
  BY QueueHas
<1>3. Push(queue, o, state) \in [DOMAIN queue \cup {o} -> QueueState]
  BY <1>2 DEF Push
<1>4. DOMAIN queue \cup {o} \in SUBSET Nat
  BY QueueHas
<1> QED BY <1>1, <1>3, <1>4 DEF Queues

LEMMA PoppedQueue ==
    ASSUME NEW queue \in Queues, NEW o
    PROVE  /\ Pop(queue, o) \in Queues
           /\ DOMAIN Pop(queue, o) = DOMAIN queue \ {o}
           /\ \A x \in DOMAIN queue \ {o} : Pop(queue, o)[x] = queue[x]
<1>1. Pop(queue, o) \in [DOMAIN queue \ {o} -> QueueState]
  BY QueueHas DEF Pop
<1>2. DOMAIN queue \ {o} \in SUBSET Nat
  BY QueueHas
<1> QED BY <1>1, <1>2 DEF Queues, Pop

LEMMA SetQueue ==
    ASSUME NEW queue \in Queues, NEW o \in DOMAIN queue, NEW state \in QueueState
    PROVE  [queue EXCEPT ![o] = state] \in Queues
<1>1. [queue EXCEPT ![o] = state] \in [DOMAIN queue -> QueueState]
  BY QueueHas
<1>2. DOMAIN queue \in SUBSET Nat
  BY QueueHas
<1> QED BY <1>1, <1>2 DEF Queues

-----------------------------------------------------------------------------
(* The ledgers *)

\* What booking a fill does to the position and the cash, and to nothing else.
LEMMA Booked ==
    ASSUME NEW v \in Venues, NEW effect \in Effects, NEW q \in Nat, q > 0
    PROVE  LET b == ApplyFill(v, effect, q)
           IN  /\ b \in Venues
               /\ b.config = v.config /\ b.orders = v.orders /\ b.queue = v.queue
               /\ b.filled = v.filled /\ b.expiring = v.expiring
               /\ ~ b.raised =>
                     /\ ~ v.raised
                     /\ b.quantity = IF effect \in Opening THEN v.quantity + q ELSE v.quantity - q
                     /\ (v.side = "FLAT" <=> v.quantity = 0) => (b.side = "FLAT" <=> b.quantity = 0)
                     /\ v.config.spot => b.cash + b.quantity = v.cash + v.quantity
<1> DEFINE b    == ApplyFill(v, effect, q)
           side == SideOf(effect)
<1>1. side \in {"LONG", "SHORT"}
  BY DEF SideOf
<1>2. /\ v.side \in {"FLAT", "LONG", "SHORT"} /\ v.quantity \in Nat /\ v.cash \in Nat
      /\ v.raised \in BOOLEAN /\ v.config \in Configuration
      /\ v = [config |-> v.config, orders |-> v.orders, queue |-> v.queue,
              filled |-> v.filled, side |-> v.side, quantity |-> v.quantity,
              cash |-> v.cash, expiring |-> v.expiring, raised |-> v.raised]
  BY DEF Venues
<1> HIDE DEF side
<1>3. CASE effect \in Opening
  <2>1. b = Opened(v, side, q)
    BY <1>3 DEF ApplyFill, side
  <2> HIDE DEF b
  <2>2. CASE v.side \notin {"FLAT", side}
    <3>1. b = [v EXCEPT !.raised = TRUE]
      BY <2>1, <2>2 DEF Opened
    <3> QED BY <1>2, <3>1 DEF Venues, b
  <2>3. CASE v.side \in {"FLAT", side} /\ ~ v.config.spot
    <3>1. b = [v EXCEPT !.side = side, !.quantity = @ + q]
      BY <2>1, <2>3 DEF Opened
    <3>2. v.quantity + q \in Nat /\ v.quantity + q # 0 /\ side \in {"FLAT", "LONG", "SHORT"}
      BY <1>1, <1>2
    <3>3. b \in Venues /\ b.quantity = v.quantity + q /\ b.side = side /\ b.raised = v.raised
      BY <3>1, <3>2 DEF Venues
    <3> QED BY <1>1, <1>2, <1>3, <2>3, <3>1, <3>2, <3>3 DEF Venues, b
  <2>4. CASE v.side \in {"FLAT", side} /\ v.config.spot /\ q > v.cash
    <3>1. b = [v EXCEPT !.side = side, !.quantity = @ + q, !.raised = TRUE]
      BY <2>1, <2>4 DEF Opened
    <3>2. v.quantity + q \in Nat /\ side \in {"FLAT", "LONG", "SHORT"}
      BY <1>1, <1>2
    <3>3. /\ b \in Venues /\ b.raised
          /\ b.config = v.config /\ b.orders = v.orders /\ b.queue = v.queue
          /\ b.filled = v.filled /\ b.expiring = v.expiring
      BY <3>1, <3>2 DEF Venues
    <3> QED BY <3>3 DEF b
  <2>5. CASE v.side \in {"FLAT", side} /\ v.config.spot /\ ~ (q > v.cash)
    <3>1. b = [v EXCEPT !.side = side, !.quantity = @ + q, !.cash = @ - q]
      BY <2>1, <2>5 DEF Opened
    <3>2. v.cash - q \in Nat /\ v.quantity + q \in Nat /\ v.quantity + q # 0
      BY <1>2, <2>5
    <3>3. /\ b \in Venues /\ b.quantity = v.quantity + q /\ b.side = side
          /\ b.cash = v.cash - q /\ b.raised = v.raised
      BY <1>1, <1>2, <3>1, <3>2 DEF Venues
    <3> QED BY <1>1, <1>2, <1>3, <3>1, <3>2, <3>3, SMTT(30) DEF Venues, b
  <2> QED BY <1>2, <2>2, <2>3, <2>4, <2>5 DEF Configuration
<1>4. CASE effect \notin Opening
  <2>1. b = Closed(v, side, q)
    BY <1>4 DEF ApplyFill, side
  <2> HIDE DEF b
  <2>2. CASE v.side # side \/ q > v.quantity
    <3>1. b = [v EXCEPT !.raised = TRUE]
      BY <2>1, <2>2 DEF Closed
    <3> QED BY <1>2, <3>1 DEF Venues, b
  <2>3. CASE ~ (v.side # side \/ q > v.quantity)
    <3> DEFINE s == IF v.quantity = q THEN "FLAT" ELSE v.side
               c == IF v.config.spot THEN v.cash + q ELSE v.cash
    <3>1. b = [v EXCEPT !.quantity = @ - q, !.side = s, !.cash = c]
      BY <2>1, <2>3 DEF Closed
    <3>2. /\ v.quantity - q \in Nat /\ (v.quantity - q = 0 <=> s = "FLAT")
          /\ c \in Nat /\ s \in {"FLAT", "LONG", "SHORT"}
          /\ v.config.spot => c = v.cash + q
      BY <1>1, <1>2, <2>3
    <3> HIDE DEF s, c
    <3>3. /\ b \in Venues /\ b.quantity = v.quantity - q /\ b.side = s /\ b.cash = c
          /\ b.raised = v.raised
      BY <1>2, <3>1, <3>2 DEF Venues
    <3> QED BY <1>2, <1>4, <3>1, <3>2, <3>3 DEF Venues, b
  <2> QED BY <2>2, <2>3
<1> QED BY <1>3, <1>4

Position(v) ==
    ~ v.raised =>
        /\ v.quantity = FilledBy(v, Opening) - FilledBy(v, Effects \ Opening)
        /\ v.side = "FLAT" <=> v.quantity = 0
        /\ v.config.spot => v.cash + v.quantity = InitialCash

LEMMA PartType ==
    ASSUME NEW v \in Venues, Len(v.filled) = Len(v.orders), NEW effects
    PROVE  /\ Len(v.orders) \in Nat /\ Ids(v) = 1 .. Len(v.orders)
           /\ \A o \in Ids(v) : v.orders[o] \in Order /\ v.filled[o] \in Nat
           /\ \A o \in Ids(v) : Part(v, effects)[o] \in Nat
<1>1. v.orders \in Seq(Order) /\ v.filled \in Seq(Nat)
  BY DEF Venues
<1>2. Len(v.orders) \in Nat /\ Ids(v) = 1 .. Len(v.orders)
  BY <1>1 DEF Ids
<1>3. \A o \in Ids(v) : v.orders[o] \in Order /\ v.filled[o] \in Nat
  BY <1>1, <1>2
<1> QED BY <1>2, <1>3 DEF Part

LEMMA FilledInt ==
    ASSUME NEW v \in Venues, Len(v.filled) = Len(v.orders), NEW effects
    PROVE  FilledBy(v, effects) \in Int
<1>1. PICK s : IsSum(s, Part(v, effects), Len(v.orders)) /\ FilledBy(v, effects) = s[Len(v.orders)]
  BY PartType, FilledIsSum
<1>2. \A i \in 1 .. Len(v.orders) : Part(v, effects)[i] \in Int
  BY PartType
<1> QED BY <1>1, <1>2, PartType, SumInt

\* A fill of one order is a fill of the orders of its effect.
LEMMA FilledMore ==
    ASSUME NEW v \in Venues, Len(v.filled) = Len(v.orders),
           NEW w \in Venues, Len(w.filled) = Len(w.orders), Len(w.orders) = Len(v.orders),
           NEW o \in Ids(v), NEW q \in Nat, NEW effects,
           \A p \in Ids(v) : /\ w.orders[p].effect = v.orders[p].effect
                             /\ w.filled[p] = IF p = o THEN v.filled[p] + q ELSE v.filled[p]
    PROVE  FilledBy(w, effects) =
               FilledBy(v, effects) + (IF v.orders[o].effect \in effects THEN q ELSE 0)
<1> DEFINE a == Part(v, effects)
           b == Part(w, effects)
           d == IF v.orders[o].effect \in effects THEN q ELSE 0
           m == Len(v.orders)
<1>1. PICK s : IsSum(s, a, m) /\ FilledBy(v, effects) = s[m]
  BY PartType, FilledIsSum
<1>2. PICK t : IsSum(t, b, m) /\ FilledBy(w, effects) = t[m]
  BY PartType, FilledIsSum
<1>3. /\ m \in Nat /\ Ids(v) = 1 .. m /\ Ids(w) = 1 .. m
      /\ \A i \in 1 .. m : a[i] \in Int
  BY PartType, SMTT(30)
<1>4. o \in 1 .. m /\ d \in Int
  BY <1>3
<1>5. \A i \in 1 .. m : b[i] = IF i = o THEN a[i] + d ELSE a[i]
  <2>1. TAKE i \in 1 .. m
  <2>2. v.filled[i] \in Nat
    BY <1>3, PartType
  <2> QED BY <1>3, <2>2, SMTT(30) DEF Part
<1> HIDE DEF a, b, d, m
<1> DEFINE T == {k \in 0 .. m : ~ /\ s[k] \in Int
                                  /\ t[k] = IF k < o THEN s[k] ELSE s[k] + d}
<1>6. T = {}
  <2>1. SUFFICES ASSUME T # {} PROVE FALSE
    OBVIOUS
  <2>2. PICK k \in T : \A j \in T : k <= j
    <3>1. T \subseteq Nat
      BY <1>3
    <3> HIDE DEF T
    <3> QED BY <2>1, <3>1, LeastNatural
  <2>3. k # 0
    BY <1>1, <1>2, <1>3, <1>4, <2>2, SumValues
  <2>4. k \in 1 .. m /\ k - 1 \in 0 .. m /\ ~ (k <= k - 1)
    BY <1>3, <2>2, <2>3
  <2>5. s[k - 1] \in Int /\ t[k - 1] = IF k - 1 < o THEN s[k - 1] ELSE s[k - 1] + d
    BY <2>2, <2>4
  <2>6. s[k] = s[k - 1] + a[k] /\ t[k] = t[k - 1] + b[k]
    BY <1>1, <1>2, <1>3, <2>4, SumValues
  <2> QED BY <1>3, <1>4, <1>5, <2>2, <2>4, <2>5, <2>6
<1>7. t[m] = s[m] + d
  <2>1. m \in 0 .. m /\ ~ (m < o)
    BY <1>3, <1>4
  <2> QED BY <1>6, <2>1
<1> QED BY <1>1, <1>2, <1>7 DEF d

LEMMA FilledSame ==
    ASSUME NEW v \in Venues, Len(v.filled) = Len(v.orders),
           NEW w \in Venues, w.filled = v.filled, Len(w.orders) = Len(v.orders), NEW effects,
           \A p \in Ids(v) : w.orders[p].effect = v.orders[p].effect
    PROVE  FilledBy(w, effects) = FilledBy(v, effects)
<1> DEFINE a == Part(v, effects)
           b == Part(w, effects)
           m == Len(v.orders)
<1>1. PICK s : IsSum(s, a, m) /\ FilledBy(v, effects) = s[m]
  BY PartType, FilledIsSum
<1>2. PICK t : IsSum(t, b, m) /\ FilledBy(w, effects) = t[m]
  BY PartType, FilledIsSum
<1>3. m \in Nat /\ m <= m /\ Ids(v) = 1 .. m /\ Ids(w) = 1 .. m
  BY PartType
<1>4. \A i \in 1 .. m : b[i] = a[i]
  BY <1>3 DEF Part
<1> HIDE DEF a, b, m
<1>5. t[m] = s[m]
  BY <1>1, <1>2, <1>3, <1>4, SumsAgree
<1> QED BY <1>1, <1>2, <1>5

\* A new order has filled nothing yet.
LEMMA FilledAppended ==
    ASSUME NEW v \in Venues, Len(v.filled) = Len(v.orders),
           NEW w \in Venues, Len(w.filled) = Len(w.orders), Len(w.orders) = Len(v.orders) + 1,
           w.filled[Len(w.orders)] = 0, NEW effects,
           \A p \in Ids(v) : /\ w.orders[p].effect = v.orders[p].effect
                             /\ w.filled[p] = v.filled[p]
    PROVE  FilledBy(w, effects) = FilledBy(v, effects)
<1> DEFINE a == Part(v, effects)
           b == Part(w, effects)
           m == Len(v.orders)
           n == Len(w.orders)
<1>1. PICK s : IsSum(s, a, m) /\ FilledBy(v, effects) = s[m]
  BY PartType, FilledIsSum
<1>2. PICK t : IsSum(t, b, n) /\ FilledBy(w, effects) = t[n]
  BY PartType, FilledIsSum
<1>3. m \in Nat /\ n = m + 1 /\ Ids(v) = 1 .. m /\ Ids(w) = 1 .. n
  BY PartType
<1>4. \A i \in 1 .. m : b[i] = a[i]
  BY <1>3 DEF Part
<1>5. b[n] = 0
  BY <1>3 DEF Part
<1>6. \A i \in 1 .. m : a[i] \in Int
  BY <1>3, PartType
<1> HIDE DEF a, b, m, n
<1>7. t[m] = s[m]
  BY <1>1, <1>2, <1>3, <1>4, SumsAgree
<1>8. t[n] = t[n - 1] + 0 /\ s[m] \in Int
  BY <1>1, <1>2, <1>3, <1>5, <1>6, SumValues, SumInt
<1> QED BY <1>1, <1>2, <1>3, <1>7, <1>8

-----------------------------------------------------------------------------
(* A fill *)

FilledStatus(order, q) ==
    CASE order.remaining = q -> "FILLED"
      [] order.remaining # q /\ order.status = "CANCEL_PENDING" -> "CANCEL_PENDING"
      [] OTHER -> "PARTIALLY_FILLED"

FilledOrder(order, q, time) ==
    [order EXCEPT !.remaining = @ - q, !.status = FilledStatus(order, q), !.lastFill = time]

LEMMA FilledOrderHas ==
    ASSUME NEW order \in Order, NEW q \in Nat, q <= order.remaining, NEW time \in Int
    PROVE  LET filled == FilledOrder(order, q, time)
           IN  /\ filled \in Order /\ filled.remaining = order.remaining - q
               /\ filled.type = order.type /\ filled.effect = order.effect
               /\ filled.quantity = order.quantity /\ filled.expiry = order.expiry
               /\ filled.cancelAt = order.cancelAt /\ filled.status = FilledStatus(order, q)
               /\ filled.status = "FILLED" <=> filled.remaining = 0
               /\ filled.status \in {"FILLED", "CANCEL_PENDING", "PARTIALLY_FILLED"}
               /\ order.status = "CANCEL_PENDING" =>
                      filled.status \in Terminal \cup {"CANCEL_PENDING"}
               /\ filled.status = "CANCEL_PENDING" => order.status = "CANCEL_PENDING"
<1> DEFINE filled == FilledOrder(order, q, time)
           status == FilledStatus(order, q)
<1>1. /\ status \in {"FILLED", "CANCEL_PENDING", "PARTIALLY_FILLED"}
      /\ status = "FILLED" <=> order.remaining = q
      /\ order.status = "CANCEL_PENDING" => status \in Terminal \cup {"CANCEL_PENDING"}
      /\ status = "CANCEL_PENDING" => order.status = "CANCEL_PENDING"
  BY DEF FilledStatus, Terminal
<1>2. filled = [order EXCEPT !.remaining = @ - q, !.status = status, !.lastFill = time]
  BY DEF FilledOrder
<1>3. order.remaining \in Nat /\ order.remaining - q \in Nat
  BY DEF Order
<1>4. status \in OrderStatus
  BY <1>1 DEF OrderStatus, Terminal
<1>5. status = FilledStatus(order, q)
  OBVIOUS
<1> HIDE DEF status, filled
<1>6. /\ filled \in Order /\ filled.remaining = order.remaining - q
      /\ filled.type = order.type /\ filled.effect = order.effect
      /\ filled.quantity = order.quantity /\ filled.expiry = order.expiry
      /\ filled.cancelAt = order.cancelAt /\ filled.status = status
  BY <1>2, <1>3, <1>4 DEF Order
<1>7. status = "FILLED" <=> filled.remaining = 0
  BY <1>1, <1>3, <1>6
<1> QED BY <1>1, <1>5, <1>6, <1>7 DEF filled

\* A fill changes its order, the ledgers and, when nothing is left and nothing raised,
\* takes the order out of its queue.
LEMMA FillDoes ==
    ASSUME NEW v \in Venues, Len(v.filled) = Len(v.orders), Position(v), NEW o \in Ids(v),
           NEW q \in Nat, q > 0, q <= v.orders[o].remaining, NEW time \in Int
    PROVE  LET w == Fill(v, o, q, time)
           IN  /\ w \in Venues /\ w.config = v.config /\ w.expiring = v.expiring
               /\ Len(w.orders) = Len(v.orders) /\ Len(w.filled) = Len(v.filled)
               /\ w.orders[o] = FilledOrder(v.orders[o], q, time)
               /\ w.filled[o] = v.filled[o] + q
               /\ \A p \in Ids(v) \ {o} : w.orders[p] = v.orders[p] /\ w.filled[p] = v.filled[p]
               /\ v.orders[o].remaining = q /\ ~ w.raised => w.queue = Pop(v.queue, o)
               /\ v.orders[o].remaining # q \/ w.raised => w.queue = v.queue
               /\ Position(w) /\ (~ w.raised => ~ v.raised)
<1> DEFINE order  == v.orders[o]
           status == FilledStatus(order, q)
           after  == FilledOrder(order, q, time)
           orders == [v.orders EXCEPT ![o] = after]
           filled == [v.filled EXCEPT ![o] = v.filled[o] + q]
           r      == [v EXCEPT !.orders = orders, !.filled = filled]
           b      == ApplyFill(r, order.effect, q)
           w      == Fill(v, o, q, time)
<1>1. /\ Len(v.orders) \in Nat /\ Ids(v) = 1 .. Len(v.orders)
      /\ order \in Order /\ v.filled[o] \in Nat
      /\ v.orders \in Seq(Order) /\ v.filled \in Seq(Nat) /\ o \in 1 .. Len(v.filled)
  BY PartType DEF Venues
<1>2. /\ after \in Order /\ after.effect = order.effect /\ order.effect \in Effects
      /\ status = "FILLED" <=> order.remaining = q
  <2>1. status = "FILLED" <=> order.remaining = q
    BY DEF FilledStatus
  <2>2. order.effect \in Effects
    BY <1>1 DEF Order
  <2> QED BY <1>1, <2>1, <2>2, FilledOrderHas
<1>3. after = [order EXCEPT !.remaining = @ - q, !.status = status, !.lastFill = time]
  BY DEF FilledOrder
<1>4. w = FillAs(v, o, q, time, status)
  BY DEF Fill, FilledStatus
<1> HIDE DEF after, w, status
<1>5. /\ orders \in Seq(Order) /\ filled \in Seq(Nat)
      /\ Len(orders) = Len(v.orders) /\ Len(filled) = Len(v.filled)
      /\ \A p \in Ids(v) : /\ orders[p].effect = v.orders[p].effect
                           /\ filled[p] = IF p = o THEN v.filled[p] + q ELSE v.filled[p]
  BY <1>1, <1>2, SMTT(30)
<1>6. [v EXCEPT !.orders[o].remaining = @ - q, !.orders[o].status = status,
                !.orders[o].lastFill = time, !.filled[o] = @ + q] = r
  <2>1. [[[v.orders EXCEPT ![o].remaining = @ - q] EXCEPT ![o].status = status]
                          EXCEPT ![o].lastFill = time] = orders
    BY <1>1, <1>3
  <2> QED BY <1>1, <1>3, <2>1 DEF Venues
<1>7. w = IF status = "FILLED" /\ ~ b.raised THEN [b EXCEPT !.queue = Pop(@, o)] ELSE b
  BY <1>4, <1>6 DEF FillAs
<1>8. r \in Venues /\ r.orders = orders /\ r.filled = filled /\ r.config = v.config
      /\ r.queue = v.queue /\ r.expiring = v.expiring /\ r.side = v.side
      /\ r.quantity = v.quantity /\ r.cash = v.cash /\ r.raised = v.raised
  <2> HIDE DEF orders, filled
  <2> QED BY <1>5 DEF Venues
<1>9. \A effects : FilledBy(r, effects) =
                       FilledBy(v, effects) + (IF order.effect \in effects THEN q ELSE 0)
  <2> HIDE DEF r
  <2>1. /\ Len(r.filled) = Len(r.orders) /\ Len(r.orders) = Len(v.orders)
        /\ \A p \in Ids(v) : /\ r.orders[p].effect = v.orders[p].effect
                             /\ r.filled[p] = IF p = o THEN v.filled[p] + q ELSE v.filled[p]
    BY <1>5, <1>8
  <2>2. SUFFICES ASSUME NEW effects
                 PROVE  FilledBy(r, effects) =
                           FilledBy(v, effects) + (IF order.effect \in effects THEN q ELSE 0)
    OBVIOUS
  <2>3. r \in Venues /\ Len(r.filled) = Len(r.orders)
    BY <1>8, <2>1
  <2> HIDE DEF order
  <2> QED BY <2>1, <2>3, FilledMore DEF order
<1> HIDE DEF orders, filled, r
<1>10. /\ b \in Venues
       /\ b.config = v.config /\ b.orders = orders /\ b.queue = v.queue
       /\ b.filled = filled /\ b.expiring = v.expiring
       /\ ~ b.raised =>
             /\ ~ v.raised
             /\ b.quantity = IF order.effect \in Opening THEN v.quantity + q ELSE v.quantity - q
             /\ (v.side = "FLAT" <=> v.quantity = 0) => (b.side = "FLAT" <=> b.quantity = 0)
             /\ v.config.spot => b.cash + b.quantity = v.cash + v.quantity
  BY <1>2, <1>8, Booked, SMTT(30)
<1> HIDE DEF b
<1>11. /\ w \in Venues /\ w.config = b.config /\ w.orders = b.orders /\ w.filled = b.filled
       /\ w.side = b.side /\ w.quantity = b.quantity /\ w.cash = b.cash
       /\ w.expiring = b.expiring /\ w.raised = b.raised
       /\ w.queue = IF order.remaining = q /\ ~ b.raised THEN Pop(b.queue, o) ELSE b.queue
  <2>1. CASE status = "FILLED" /\ ~ b.raised
    <3>1. w = [b EXCEPT !.queue = Pop(b.queue, o)]
      BY <1>7, <2>1
    <3>2. Pop(b.queue, o) \in Queues
      BY <1>10, PoppedQueue DEF Venues
    <3> QED BY <1>2, <1>10, <2>1, <3>1, <3>2 DEF Venues
  <2>2. CASE ~ (status = "FILLED" /\ ~ b.raised)
    BY <1>2, <1>7, <1>10, <2>2
  <2> QED BY <2>1, <2>2
<1>12. \A effects : FilledBy(w, effects) = FilledBy(r, effects)
  <2>1. /\ Len(r.filled) = Len(r.orders) /\ Len(w.orders) = Len(r.orders)
        /\ w.filled = r.filled
        /\ \A p \in Ids(r) : w.orders[p].effect = r.orders[p].effect
    BY <1>1, <1>5, <1>8, <1>10, <1>11
  <2> QED BY <1>8, <1>11, <2>1, FilledSame
<1>13. Position(w) /\ (~ w.raised => ~ v.raised)
  <2>1. SUFFICES ASSUME ~ w.raised PROVE Position(w) /\ ~ v.raised
    BY <1>11 DEF Position
  <2>2. /\ ~ v.raised
        /\ w.quantity = IF order.effect \in Opening THEN v.quantity + q ELSE v.quantity - q
        /\ (v.side = "FLAT" <=> v.quantity = 0) => (w.side = "FLAT" <=> w.quantity = 0)
        /\ v.config.spot => w.cash + w.quantity = v.cash + v.quantity
    BY <1>10, <1>11, <2>1
  <2>3. /\ v.quantity = FilledBy(v, Opening) - FilledBy(v, Effects \ Opening)
        /\ v.side = "FLAT" <=> v.quantity = 0
        /\ v.config.spot => v.cash + v.quantity = InitialCash
    BY <2>2 DEF Position
  <2>4. FilledBy(v, Opening) \in Int /\ FilledBy(v, Effects \ Opening) \in Int
    BY FilledInt
  <2>5. /\ FilledBy(w, Opening) =
               FilledBy(v, Opening) + (IF order.effect \in Opening THEN q ELSE 0)
        /\ FilledBy(w, Effects \ Opening) =
               FilledBy(v, Effects \ Opening)
                   + (IF order.effect \in Effects \ Opening THEN q ELSE 0)
    BY <1>9, <1>12
  <2>6. w.quantity = FilledBy(w, Opening) - FilledBy(w, Effects \ Opening)
    BY <1>2, <2>2, <2>3, <2>4, <2>5
  <2>7. w.config = v.config
    BY <1>10, <1>11
  <2> QED BY <2>2, <2>3, <2>6, <2>7 DEF Position
<1>14. /\ orders[o] = after /\ filled[o] = v.filled[o] + q
       /\ \A p \in Ids(v) \ {o} : orders[p] = v.orders[p] /\ filled[p] = v.filled[p]
  BY <1>1, <1>2 DEF orders, filled
<1> QED BY <1>5, <1>10, <1>11, <1>13, <1>14 DEF w, after

-----------------------------------------------------------------------------
(* What every call keeps *)

OrderSound(order, filled) ==
    /\ order.remaining + filled = order.quantity
    /\ order.status = "FILLED" <=> order.remaining = 0
    /\ order.status = "CANCEL_PENDING" => order.cancelAt \in Nat

\* The queue state is of what the order still wants, and what has traded covers what
\* has left the queue ahead of it and what was filled of it.
QueueSound(s, order) ==
    /\ s.own = order.remaining
    /\ ~ Live(order) => s.own = 0
    /\ s.initial - s.ahead <= s.traded
    /\ \/ s.own = s.joined
       \/ s.ahead = 0 /\ s.joined - s.own <= s.traded - s.initial

Reconciled(v) ==
    /\ v \in Venues /\ Len(v.filled) = Len(v.orders)
    /\ DOMAIN v.queue \subseteq Ids(v) /\ v.expiring \subseteq Ids(v)
    /\ \A o \in Ids(v) : OrderSound(v.orders[o], v.filled[o])
    /\ Position(v)

Sound(v) == Reconciled(v) /\ \A o \in DOMAIN v.queue : QueueSound(v.queue[o], v.orders[o])

\* No order is left on its way.
Standing(v) == \A o \in Ids(v) : v.orders[o].status # "ACKNOWLEDGED"

\* What a call may not do to the orders there were: change one that ended, or take
\* back or postpone a requested cancel.
Follows(v, w) ==
    /\ Len(v.orders) <= Len(w.orders)
    /\ \A o \in Ids(v) :
          /\ ~ Live(v.orders[o]) => w.orders[o] = v.orders[o] /\ w.filled[o] = v.filled[o]
          /\ v.orders[o].status = "CANCEL_PENDING" =>
                /\ w.orders[o].status \in Terminal \cup {"CANCEL_PENDING"}
                /\ w.orders[o].cancelAt = v.orders[o].cancelAt

\* Only the order o may differ.
Solo(v, w, o) ==
    /\ Len(w.orders) = Len(v.orders)
    /\ \A p \in Ids(v) \ {o} : w.orders[p] = v.orders[p] /\ w.filled[p] = v.filled[p]

\* What never changes of an order.
SameOrder(a, b) ==
    /\ a.type = b.type /\ a.effect = b.effect /\ a.quantity = b.quantity
    /\ a.expiry = b.expiry

LEMMA IdsOf ==
    ASSUME NEW v, Reconciled(v)
    PROVE  /\ Len(v.orders) \in Nat /\ Ids(v) = 1 .. Len(v.orders)
           /\ v.orders \in Seq(Order) /\ v.filled \in Seq(Nat) /\ v.queue \in Queues
           /\ \A o \in Ids(v) : v.orders[o] \in Order /\ v.filled[o] \in Nat
BY PartType DEF Reconciled, Venues

LEMMA FollowsItself == ASSUME NEW v, Reconciled(v) PROVE Follows(v, v)
BY IdsOf DEF Follows

LEMMA FollowsOn ==
    ASSUME NEW v, NEW w, NEW x, Reconciled(v), Reconciled(w), Follows(v, w), Follows(w, x),
           Len(x.orders) \in Nat
    PROVE  Follows(v, x)
<1>1. /\ Len(v.orders) <= Len(x.orders)
      /\ \A o \in Ids(v) : o \in Ids(w)
  BY IdsOf DEF Follows
<1>2. ASSUME NEW o \in Ids(v), ~ Live(v.orders[o])
      PROVE  x.orders[o] = v.orders[o] /\ x.filled[o] = v.filled[o]
  BY <1>1, <1>2 DEF Follows
<1>3. ASSUME NEW o \in Ids(v), v.orders[o].status = "CANCEL_PENDING"
      PROVE  /\ x.orders[o].status \in Terminal \cup {"CANCEL_PENDING"}
             /\ x.orders[o].cancelAt = v.orders[o].cancelAt
  <2>1. /\ w.orders[o].status \in Terminal \cup {"CANCEL_PENDING"}
        /\ w.orders[o].cancelAt = v.orders[o].cancelAt
    BY <1>3 DEF Follows
  <2>2. CASE w.orders[o].status \in Terminal
    <3>1. x.orders[o] = w.orders[o]
      BY <1>1, <2>2 DEF Follows, Live
    <3> QED BY <2>1, <3>1
  <2>3. CASE w.orders[o].status = "CANCEL_PENDING"
    BY <1>1, <2>1, <2>3 DEF Follows
  <2> QED BY <2>1, <2>2, <2>3
<1> QED BY <1>1, <1>2, <1>3 DEF Follows

\* A venue that differs in one order, in the queue states and in the set of the
\* expiring.
With(v, o, order, queue, expiring) ==
    [v EXCEPT !.orders = [@ EXCEPT ![o] = order], !.queue = queue, !.expiring = expiring]

LEMMA WithSound ==
    ASSUME NEW v, Sound(v), NEW o \in Ids(v), NEW order \in Order, NEW queue \in Queues,
           NEW expiring, expiring \subseteq Ids(v), DOMAIN queue \subseteq Ids(v),
           SameOrder(order, v.orders[o]), OrderSound(order, v.filled[o]),
           \A p \in DOMAIN queue \ {o} : p \in DOMAIN v.queue /\ queue[p] = v.queue[p],
           o \in DOMAIN queue => QueueSound(queue[o], order),
           Live(v.orders[o]) \/ order = v.orders[o],
           v.orders[o].status = "CANCEL_PENDING" =>
               /\ order.status \in Terminal \cup {"CANCEL_PENDING"}
               /\ order.cancelAt = v.orders[o].cancelAt
    PROVE  LET w == With(v, o, order, queue, expiring)
           IN  /\ Sound(w) /\ Solo(v, w, o) /\ Follows(v, w)
               /\ w.orders[o] = order /\ w.queue = queue /\ w.expiring = expiring
               /\ w.raised = v.raised /\ w.config = v.config /\ w.filled = v.filled
<1> DEFINE w      == With(v, o, order, queue, expiring)
           orders == [v.orders EXCEPT ![o] = order]
<1>1. /\ Len(v.orders) \in Nat /\ Ids(v) = 1 .. Len(v.orders)
      /\ v.orders \in Seq(Order) /\ v \in Venues
      /\ \A p \in Ids(v) : v.orders[p] \in Order
  BY IdsOf DEF Sound, Reconciled
<1>2. /\ orders \in Seq(Order) /\ Len(orders) = Len(v.orders) /\ orders[o] = order
      /\ DOMAIN orders = DOMAIN v.orders
      /\ \A p \in Ids(v) \ {o} : orders[p] = v.orders[p]
  BY <1>1
<1>3. w = [v EXCEPT !.orders = orders, !.queue = queue, !.expiring = expiring]
  BY DEF With
<1>4. expiring \subseteq Nat
  BY <1>1
<1> HIDE DEF w, orders
<1>5. /\ w \in Venues /\ w.orders = orders /\ w.queue = queue /\ w.expiring = expiring
      /\ w.filled = v.filled /\ w.raised = v.raised /\ w.config = v.config
      /\ w.side = v.side /\ w.quantity = v.quantity /\ w.cash = v.cash
  BY <1>1, <1>2, <1>3, <1>4 DEF Venues
<1>6. Ids(w) = Ids(v)
  BY <1>2, <1>5 DEF Ids
<1>7. \A p \in Ids(v) : w.orders[p].effect = v.orders[p].effect
  BY <1>2, <1>5 DEF SameOrder
<1>8. \A effects : FilledBy(w, effects) = FilledBy(v, effects)
  <2>1. Len(v.filled) = Len(v.orders) /\ Len(w.orders) = Len(v.orders)
    BY <1>2, <1>5 DEF Sound, Reconciled
  <2> QED BY <1>1, <1>5, <1>7, <2>1, FilledSame
<1>9. Position(w)
  BY <1>5, <1>8 DEF Sound, Reconciled, Position
<1>10. \A p \in Ids(w) : OrderSound(w.orders[p], w.filled[p])
  BY <1>2, <1>5, <1>6 DEF Sound, Reconciled
<1>11. \A p \in DOMAIN w.queue : QueueSound(w.queue[p], w.orders[p])
  BY <1>2, <1>5, <1>6 DEF Sound, Reconciled
<1>12. Sound(w)
  BY <1>2, <1>5, <1>6, <1>9, <1>10, <1>11 DEF Sound, Reconciled
<1>13. Solo(v, w, o)
  BY <1>2, <1>5 DEF Solo
<1>14. Follows(v, w)
  BY <1>1, <1>2, <1>5 DEF Follows
<1> QED BY <1>2, <1>5, <1>12, <1>13, <1>14 DEF w

LEMMA RequestCancelDoes ==
    ASSUME NEW v, Sound(v), NEW o \in Ids(v), NEW time \in Nat, NEW expired \in BOOLEAN
    PROVE  LET w == RequestCancel(v, o, time, expired)
           IN  /\ Sound(w) /\ Solo(v, w, o) /\ Follows(v, w)
               /\ w.raised = v.raised /\ w.queue = v.queue
               /\ SameOrder(w.orders[o], v.orders[o])
               /\ w.orders[o].remaining = v.orders[o].remaining
               /\ w.orders[o].status \in Terminal \cup {"CANCEL_PENDING"}
               /\ Live(v.orders[o]) => w.orders[o].status = "CANCEL_PENDING"
               /\ Live(v.orders[o]) /\ v.orders[o].status # "CANCEL_PENDING" =>
                      w.orders[o].cancelAt = time + CancelLatency
               /\ ~ Live(v.orders[o]) \/ v.orders[o].status = "CANCEL_PENDING" => w = v
<1> DEFINE w        == RequestCancel(v, o, time, expired)
           order    == v.orders[o]
           canceled == [order EXCEPT !.status = "CANCEL_PENDING",
                                     !.cancelAt = time + CancelLatency]
           expiring == IF expired THEN v.expiring \cup {o} ELSE v.expiring
<1>1. /\ order \in Order /\ v.queue \in Queues /\ v \in Venues
      /\ v.expiring \subseteq Ids(v) /\ DOMAIN v.queue \subseteq Ids(v)
      /\ v.orders \in Seq(Order) /\ Ids(v) = 1 .. Len(v.orders)
  BY IdsOf DEF Sound, Reconciled
<1>2. CASE order.status \in Terminal \cup {"CANCEL_PENDING"}
  <2>1. w = v
    BY <1>2 DEF RequestCancel
  <2>2. Follows(v, v) /\ Solo(v, v, o)
    BY FollowsItself DEF Sound, Solo
  <2> QED BY <1>2, <2>1, <2>2 DEF Live, SameOrder, Terminal
<1>3. CASE order.status \notin Terminal \cup {"CANCEL_PENDING"}
  <2>1. time + CancelLatency \in Nat
    BY VenueAssumption
  <2>2. /\ canceled \in Order /\ SameOrder(canceled, order)
        /\ canceled.remaining = order.remaining /\ canceled.status = "CANCEL_PENDING"
        /\ canceled.cancelAt = time + CancelLatency
    <3>1. time + CancelLatency \in Int /\ "CANCEL_PENDING" \in OrderStatus
      BY <2>1 DEF OrderStatus
    <3> QED BY <1>1, <3>1 DEF Order, SameOrder
  <2>3. w = With(v, o, canceled, v.queue, expiring)
    <3>1. w = [v EXCEPT !.orders[o].status   = "CANCEL_PENDING",
                        !.orders[o].cancelAt = time + CancelLatency,
                        !.expiring = expiring]
      BY <1>3 DEF RequestCancel
    <3>2. [[v.orders EXCEPT ![o].status = "CANCEL_PENDING"]
                    EXCEPT ![o].cancelAt = time + CancelLatency]
              = [v.orders EXCEPT ![o] = canceled]
      BY <1>1
    <3> HIDE DEF expiring, w, canceled
    <3> QED BY <1>1, <3>1, <3>2 DEF With, Venues
  <2>4. Live(order) /\ expiring \subseteq Ids(v)
    BY <1>1, <1>3 DEF Live
  <2> HIDE DEF canceled, expiring, w
  <2>5. OrderSound(canceled, v.filled[o])
    BY <1>3, <2>1, <2>2 DEF Sound, Reconciled, OrderSound, SameOrder, Terminal
  <2>6. o \in DOMAIN v.queue => QueueSound(v.queue[o], canceled)
    BY <2>2, <2>4 DEF Sound, QueueSound, Live, Terminal
  <2>7. /\ Sound(w) /\ Solo(v, w, o) /\ Follows(v, w)
        /\ w.orders[o] = canceled /\ w.queue = v.queue /\ w.raised = v.raised
    BY <1>1, <1>3, <2>2, <2>3, <2>4, <2>5, <2>6, WithSound
  <2> QED BY <1>3, <2>2, <2>4, <2>7 DEF w
<1> QED BY <1>2, <1>3

\* An order that joins its queue has what it still wants queued behind what is visible.
LEMMA JoinQueueDoes ==
    ASSUME NEW v, Sound(v), NEW o \in Ids(v), o \notin DOMAIN v.queue,
           v.orders[o].status \in {"ACKNOWLEDGED", "PARTIALLY_FILLED"},
           NEW book, book.visible \in Nat
    PROVE  LET w == JoinQueue(v, o, book)
           IN  /\ Sound(w) /\ Solo(v, w, o) /\ Follows(v, w)
               /\ w.orders[o].status = "WORKING" /\ SameOrder(w.orders[o], v.orders[o])
               /\ w.raised = v.raised
<1> DEFINE w       == JoinQueue(v, o, book)
           order   == v.orders[o]
           working == [order EXCEPT !.status = "WORKING"]
           state   == [ahead |-> book.visible, own |-> order.remaining,
                       initial |-> book.visible, joined |-> order.remaining, traded |-> 0]
           queue   == Push(v.queue, o, state)
<1>1. /\ order \in Order /\ v.queue \in Queues /\ v \in Venues /\ order.remaining \in Nat
      /\ v.expiring \subseteq Ids(v) /\ DOMAIN v.queue \subseteq Ids(v)
      /\ v.orders \in Seq(Order) /\ Ids(v) = 1 .. Len(v.orders)
  BY IdsOf DEF Sound, Reconciled, Order
<1>2. /\ working \in Order /\ SameOrder(working, order)
      /\ working.remaining = order.remaining /\ working.status = "WORKING"
  <2>1. "WORKING" \in OrderStatus
    BY DEF OrderStatus
  <2> QED BY <1>1, <2>1 DEF Order, SameOrder
<1>3. state \in QueueState /\ o \in Nat
  BY <1>1 DEF QueueState
<1>4. /\ queue \in Queues /\ DOMAIN queue = DOMAIN v.queue \cup {o} /\ queue[o] = state
      /\ \A p \in DOMAIN v.queue \ {o} : queue[p] = v.queue[p]
  <2>1. v.queue \in Queues /\ o \in Nat /\ state \in QueueState
    BY <1>1, <1>3
  <2> DEFINE old == v.queue
  <2> HIDE DEF state, old
  <2>2. old \in Queues /\ queue = Push(old, o, state)
    BY <2>1 DEF old
  <2>3. /\ queue \in Queues /\ DOMAIN queue = DOMAIN old \cup {o} /\ queue[o] = state
        /\ \A p \in DOMAIN old \ {o} : queue[p] = old[p]
    <3> HIDE DEF queue
    <3>1. /\ Push(old, o, state) \in Queues
          /\ DOMAIN Push(old, o, state) = DOMAIN old \cup {o}
          /\ Push(old, o, state)[o] = state
          /\ \A p \in DOMAIN old \ {o} : Push(old, o, state)[p] = old[p]
      BY <2>1, <2>2, PushedQueue, ZenonT(60)
    <3> QED BY <2>2, <3>1, Zenon
  <2> QED BY <2>3 DEF old
<1>5. w = With(v, o, working, queue, v.expiring)
  <2>1. w = [v EXCEPT !.orders[o].status = "WORKING", !.queue = queue]
    BY DEF JoinQueue
  <2>2. [v.orders EXCEPT ![o].status = "WORKING"] = [v.orders EXCEPT ![o] = working]
    BY <1>1
  <2> HIDE DEF queue, w, working, state
  <2> QED BY <1>1, <2>1, <2>2 DEF With, Venues
<1>6. Live(order) /\ Live(working)
  BY <1>2 DEF Live, Terminal
<1>7. OrderSound(working, v.filled[o])
  BY <1>2 DEF Sound, Reconciled, OrderSound, SameOrder
<1>8. QueueSound(queue[o], working)
  <2>1. /\ queue[o].own = working.remaining /\ queue[o].initial - queue[o].ahead = 0
        /\ queue[o].traded = 0 /\ queue[o].own = queue[o].joined
    BY <1>2, <1>4
  <2> QED BY <1>6, <2>1 DEF QueueSound
<1> HIDE DEF working, queue, state, w
<1>9. /\ Sound(w) /\ Solo(v, w, o) /\ Follows(v, w) /\ w.orders[o] = working
      /\ w.raised = v.raised
  BY <1>1, <1>2, <1>4, <1>5, <1>6, <1>7, <1>8, WithSound, SMTT(30)
<1> QED BY <1>2, <1>9 DEF w

\* An order that was rejected wanted all of it.
LEMMA RejectDoes ==
    ASSUME NEW v, Sound(v), NEW o \in Ids(v), o \notin DOMAIN v.queue,
           v.orders[o].status = "ACKNOWLEDGED"
    PROVE  LET w == SetStatus(v, o, "REJECTED")
           IN  /\ Sound(w) /\ Solo(v, w, o) /\ Follows(v, w)
               /\ w.orders[o].status = "REJECTED" /\ SameOrder(w.orders[o], v.orders[o])
               /\ w.raised = v.raised
<1> DEFINE w        == SetStatus(v, o, "REJECTED")
           order    == v.orders[o]
           rejected == [order EXCEPT !.status = "REJECTED"]
<1>1. /\ order \in Order /\ v.queue \in Queues /\ v \in Venues
      /\ v.expiring \subseteq Ids(v) /\ DOMAIN v.queue \subseteq Ids(v)
      /\ v.orders \in Seq(Order) /\ Ids(v) = 1 .. Len(v.orders)
  BY IdsOf DEF Sound, Reconciled
<1>2. /\ rejected \in Order /\ SameOrder(rejected, order)
      /\ rejected.remaining = order.remaining /\ rejected.status = "REJECTED"
  <2>1. "REJECTED" \in OrderStatus
    BY DEF OrderStatus, Terminal
  <2> QED BY <1>1, <2>1 DEF Order, SameOrder
<1>3. w = With(v, o, rejected, v.queue, v.expiring)
  <2>1. [v.orders EXCEPT ![o].status = "REJECTED"] = [v.orders EXCEPT ![o] = rejected]
    BY <1>1
  <2> HIDE DEF rejected
  <2> QED BY <1>1, <2>1 DEF With, Venues, SetStatus
<1>4. Live(order) /\ OrderSound(rejected, v.filled[o])
  BY <1>2 DEF Sound, Reconciled, OrderSound, SameOrder, Live, Terminal
<1> HIDE DEF rejected, w
<1>5. /\ Sound(w) /\ Solo(v, w, o) /\ Follows(v, w) /\ w.orders[o] = rejected
      /\ w.raised = v.raised
  BY <1>1, <1>2, <1>3, <1>4, WithSound
<1> QED BY <1>2, <1>5 DEF w

\* The end of an order whose cancel became effective.
OrderEnded(v, o, status) == [SetStatus(v, o, status) EXCEPT !.queue = Pop(@, o)]

LEMMA EndDoes ==
    ASSUME NEW v, Sound(v), NEW o \in Ids(v), v.orders[o].status = "CANCEL_PENDING",
           NEW status \in {"EXPIRED", "CANCELED"}
    PROVE  LET w == OrderEnded(v, o, status)
           IN  /\ Sound(w) /\ Solo(v, w, o) /\ Follows(v, w)
               /\ w.orders[o].status = status /\ SameOrder(w.orders[o], v.orders[o])
               /\ w.orders[o].remaining = v.orders[o].remaining /\ w.raised = v.raised
<1> DEFINE w     == OrderEnded(v, o, status)
           order == v.orders[o]
           ended == [order EXCEPT !.status = status]
           queue == Pop(v.queue, o)
<1>1. /\ order \in Order /\ v.queue \in Queues /\ v \in Venues
      /\ v.expiring \subseteq Ids(v) /\ DOMAIN v.queue \subseteq Ids(v)
      /\ v.orders \in Seq(Order) /\ Ids(v) = 1 .. Len(v.orders)
  BY IdsOf DEF Sound, Reconciled
<1>2. status \in Terminal /\ status \in OrderStatus /\ status # "FILLED" /\ status # "CANCEL_PENDING"
  BY DEF OrderStatus, Terminal
<1>3. /\ ended \in Order /\ SameOrder(ended, order) /\ ended.cancelAt = order.cancelAt
      /\ ended.remaining = order.remaining /\ ended.status = status
  BY <1>1, <1>2 DEF Order, SameOrder
<1>4. /\ queue \in Queues /\ DOMAIN queue = DOMAIN v.queue \ {o}
      /\ \A p \in DOMAIN v.queue \ {o} : queue[p] = v.queue[p]
  BY <1>1, PoppedQueue
<1>5. w = With(v, o, ended, queue, v.expiring)
  <2>1. [v.orders EXCEPT ![o].status = status] = [v.orders EXCEPT ![o] = ended]
    BY <1>1
  <2>2. w = [[v EXCEPT !.orders[o].status = status] EXCEPT !.queue = queue]
    BY <1>1 DEF OrderEnded, SetStatus, Venues
  <2> HIDE DEF ended, queue, w
  <2> QED BY <1>1, <2>1, <2>2 DEF With, Venues
<1>6. Live(order) /\ OrderSound(ended, v.filled[o])
  BY <1>2, <1>3 DEF Sound, Reconciled, OrderSound, SameOrder, Live, Terminal
<1> HIDE DEF ended, queue, w
<1>7. /\ Sound(w) /\ Solo(v, w, o) /\ Follows(v, w) /\ w.orders[o] = ended
      /\ w.raised = v.raised
  BY <1>1, <1>2, <1>3, <1>4, <1>5, <1>6, WithSound
<1> QED BY <1>3, <1>7 DEF w

LEMMA SoloOn ==
    ASSUME NEW v, NEW w, NEW x, NEW o \in Ids(v), Reconciled(v), Reconciled(w),
           Solo(v, w, o), Solo(w, x, o)
    PROVE  Solo(v, x, o)
BY IdsOf DEF Solo

LEMMA SoloStands ==
    ASSUME NEW v, NEW w, NEW o \in Ids(v), Reconciled(v), Reconciled(w), Standing(v),
           Solo(v, w, o), w.orders[o].status # "ACKNOWLEDGED"
    PROVE  Standing(w)
BY IdsOf DEF Solo, Standing

LEMMA AdvanceOrderDoes ==
    ASSUME NEW v, Sound(v), Standing(v), NEW o \in Ids(v), NEW time
    PROVE  LET w == AdvanceOrder(v, o, time)
           IN  /\ Sound(w) /\ Standing(w) /\ Follows(v, w) /\ Solo(v, w, o)
               /\ w.orders[o].remaining = v.orders[o].remaining /\ w.raised = v.raised
<1> DEFINE order == v.orders[o]
           x == IF order.status \in {"WORKING", "PARTIALLY_FILLED"} /\ time >= order.expiry
                THEN RequestCancel(v, o, order.expiry, TRUE) ELSE v
           w == AdvanceOrder(v, o, time)
           status == IF o \in x.expiring THEN "EXPIRED" ELSE "CANCELED"
<1>1. /\ order \in Order /\ order.expiry \in Nat /\ Ids(v) = 1 .. Len(v.orders)
      /\ Reconciled(v) /\ order.status # "ACKNOWLEDGED"
  BY IdsOf DEF Sound, Reconciled, Order, Standing
<1>2. /\ Sound(x) /\ Solo(v, x, o) /\ Follows(v, x) /\ x.raised = v.raised
      /\ x.orders[o].remaining = order.remaining /\ x.orders[o].status # "ACKNOWLEDGED"
  <2>1. CASE order.status \in {"WORKING", "PARTIALLY_FILLED"} /\ time >= order.expiry
    <3>1. x = RequestCancel(v, o, order.expiry, TRUE)
      BY <2>1
    <3> HIDE DEF x
    <3>2. /\ Sound(x) /\ Solo(v, x, o) /\ Follows(v, x) /\ x.raised = v.raised
          /\ x.orders[o].remaining = order.remaining
          /\ x.orders[o].status \in Terminal \cup {"CANCEL_PENDING"}
      BY <1>1, <3>1, RequestCancelDoes
    <3> QED BY <3>2 DEF Terminal
  <2>2. CASE ~ (order.status \in {"WORKING", "PARTIALLY_FILLED"} /\ time >= order.expiry)
    <3>1. x = v
      BY <2>2
    <3> QED BY <1>1, <3>1, FollowsItself DEF Solo
  <2> QED BY <2>1, <2>2
<1>3. w = IF x.orders[o].status = "CANCEL_PENDING" /\ time >= x.orders[o].cancelAt
          THEN OrderEnded(x, o, status) ELSE x
  BY DEF AdvanceOrder, OrderEnded
<1> HIDE DEF x, w
<1>4. /\ o \in Ids(x) /\ Reconciled(x) /\ Len(x.orders) \in Nat
      /\ status \in {"EXPIRED", "CANCELED"}
  BY <1>1, <1>2, IdsOf DEF Solo, Sound
<1>5. /\ Sound(w) /\ Solo(x, w, o) /\ Follows(x, w) /\ w.raised = x.raised
      /\ w.orders[o].remaining = x.orders[o].remaining /\ w.orders[o].status # "ACKNOWLEDGED"
  <2>1. CASE x.orders[o].status = "CANCEL_PENDING" /\ time >= x.orders[o].cancelAt
    <3>1. w = OrderEnded(x, o, status)
      BY <1>3, <2>1
    <3> HIDE DEF status
    <3>2. /\ Sound(w) /\ Solo(x, w, o) /\ Follows(x, w) /\ w.raised = x.raised
          /\ w.orders[o].remaining = x.orders[o].remaining /\ w.orders[o].status = status
      BY <1>2, <1>4, <2>1, <3>1, EndDoes
    <3> QED BY <1>4, <3>2
  <2>2. CASE ~ (x.orders[o].status = "CANCEL_PENDING" /\ time >= x.orders[o].cancelAt)
    <3>1. w = x
      BY <1>3, <2>2
    <3>2. Follows(x, x) /\ Solo(x, x, o)
      BY <1>4, FollowsItself DEF Solo
    <3> QED BY <1>2, <3>1, <3>2
  <2> QED BY <2>1, <2>2
<1>6. Reconciled(w) /\ Len(w.orders) \in Nat
  BY <1>5, IdsOf DEF Sound
<1>7. Follows(v, w) /\ Solo(v, w, o)
  BY <1>1, <1>2, <1>4, <1>5, <1>6, FollowsOn, SoloOn
<1>8. Standing(w)
  BY <1>1, <1>5, <1>6, <1>7, SoloStands
<1> QED BY <1>2, <1>5, <1>7, <1>8 DEF w

-----------------------------------------------------------------------------
(* The walks *)

\* A fill of a live order, if its queue state has already given up the quantity.
LEMMA FillSound ==
    ASSUME NEW v, Reconciled(v), NEW o \in Ids(v), Live(v.orders[o]), ~ v.raised,
           NEW q \in Nat, q > 0, q <= v.orders[o].remaining, NEW time \in Nat,
           \A p \in DOMAIN v.queue \ {o} : QueueSound(v.queue[p], v.orders[p]),
           o \in DOMAIN v.queue => QueueSound(v.queue[o], FilledOrder(v.orders[o], q, time))
    PROVE  LET w == Fill(v, o, q, time)
           IN  /\ Sound(w) /\ Solo(v, w, o) /\ Follows(v, w)
               /\ w.orders[o] = FilledOrder(v.orders[o], q, time)
               /\ DOMAIN w.queue \subseteq DOMAIN v.queue
<1> DEFINE w     == Fill(v, o, q, time)
           order == v.orders[o]
           after == FilledOrder(order, q, time)
<1>1. /\ Len(v.orders) \in Nat /\ Ids(v) = 1 .. Len(v.orders)
      /\ v.orders \in Seq(Order) /\ v.filled \in Seq(Nat) /\ v.queue \in Queues
      /\ Len(v.filled) = Len(v.orders) /\ v \in Venues
      /\ order \in Order /\ v.filled[o] \in Nat /\ Position(v)
      /\ DOMAIN v.queue \subseteq Ids(v) /\ v.expiring \subseteq Ids(v)
  BY IdsOf DEF Reconciled
<1>2. /\ after \in Order /\ after.remaining = order.remaining - q
      /\ after.quantity = order.quantity /\ after.cancelAt = order.cancelAt
      /\ after.status = "FILLED" <=> after.remaining = 0
      /\ order.status = "CANCEL_PENDING" => after.status \in Terminal \cup {"CANCEL_PENDING"}
      /\ after.status = "CANCEL_PENDING" => order.status = "CANCEL_PENDING"
  BY <1>1, FilledOrderHas
<1>3. /\ w \in Venues /\ w.config = v.config /\ w.expiring = v.expiring
      /\ Len(w.orders) = Len(v.orders) /\ Len(w.filled) = Len(v.filled)
      /\ w.orders[o] = after /\ w.filled[o] = v.filled[o] + q
      /\ \A p \in Ids(v) \ {o} : w.orders[p] = v.orders[p] /\ w.filled[p] = v.filled[p]
      /\ order.remaining = q /\ ~ w.raised => w.queue = Pop(v.queue, o)
      /\ order.remaining # q \/ w.raised => w.queue = v.queue
      /\ Position(w)
  <2>1. /\ time \in Int /\ v \in Venues /\ Len(v.filled) = Len(v.orders) /\ Position(v)
        /\ q \in Nat /\ q > 0 /\ q <= v.orders[o].remaining /\ o \in Ids(v)
    BY <1>1
  <2> QED BY <2>1, FillDoes
<1>4. order.remaining \in Nat /\ order.quantity \in Nat
  BY <1>1 DEF Order
<1> HIDE DEF w, after
<1>5. /\ Len(w.orders) = Len(v.orders) /\ Len(w.filled) = Len(w.orders) /\ Ids(w) = Ids(v)
      /\ w.orders[o] = after /\ w.filled[o] = v.filled[o] + q
      /\ \A p \in Ids(v) \ {o} : w.orders[p] = v.orders[p] /\ w.filled[p] = v.filled[p]
  <2>1. w.orders \in Seq(Order)
    BY <1>3 DEF Venues
  <2> QED BY <1>1, <1>3, <2>1 DEF Ids
<1>6. /\ DOMAIN w.queue \subseteq DOMAIN v.queue
      /\ \A p \in DOMAIN w.queue : w.queue[p] = v.queue[p]
  <2>1. /\ DOMAIN Pop(v.queue, o) = DOMAIN v.queue \ {o}
        /\ \A p \in DOMAIN v.queue \ {o} : Pop(v.queue, o)[p] = v.queue[p]
    BY DEF Pop
  <2> QED BY <1>3, <2>1
<1>7. OrderSound(w.orders[o], w.filled[o])
  <2>1. order.remaining + v.filled[o] = order.quantity
    BY DEF Reconciled, OrderSound
  <2>2. order.status = "CANCEL_PENDING" => order.cancelAt \in Nat
    BY DEF Reconciled, OrderSound
  <2>3. after.remaining + w.filled[o] = after.quantity
    BY <1>1, <1>2, <1>4, <1>5, <2>1, SMTT(30)
  <2> QED BY <1>2, <1>5, <2>2, <2>3 DEF OrderSound
<1>8. Reconciled(w)
  BY <1>1, <1>3, <1>5, <1>6, <1>7 DEF Reconciled
<1>9. \A p \in DOMAIN w.queue : QueueSound(w.queue[p], w.orders[p])
  BY <1>1, <1>5, <1>6 DEF after
<1>10. Follows(v, w)
  BY <1>1, <1>2, <1>5, SMTT(30) DEF Follows
<1> QED BY <1>5, <1>6, <1>8, <1>9, <1>10 DEF Sound, Solo, w, after

\* What the walk over the arrival book has left of an order that was acknowledged.
Walked(v, x, o) ==
    /\ Sound(x) /\ Solo(v, x, o) /\ Follows(v, x) /\ o \notin DOMAIN x.queue
    /\ SameOrder(x.orders[o], v.orders[o])

LEMMA WalkStepDoes ==
    ASSUME NEW v, Sound(v), NEW o \in Ids(v), v.orders[o].status = "ACKNOWLEDGED",
           NEW x, Walked(v, x, o),
           x.orders[o].status \in {"ACKNOWLEDGED", "PARTIALLY_FILLED", "FILLED"},
           x.raised \/ x.orders[o].remaining = 0 => x.orders[o].status # "ACKNOWLEDGED",
           NEW quantity \in Nat \ {0}, NEW time \in Nat
    PROVE  LET w == WalkStep(x, o, quantity, time)
           IN  Walked(v, w, o) /\ w.orders[o].status \in {"PARTIALLY_FILLED", "FILLED"}
<1> DEFINE w     == WalkStep(x, o, quantity, time)
           order == x.orders[o]
           q     == Smaller(quantity, order.remaining)
<1>1. /\ Reconciled(v) /\ Reconciled(x) /\ o \in Ids(x) /\ order \in Order
      /\ order.remaining \in Nat
  BY IdsOf DEF Walked, Sound, Solo, Order
<1>2. CASE x.raised \/ order.remaining = 0
  BY <1>2 DEF WalkStep
<1>3. CASE ~ (x.raised \/ order.remaining = 0)
  <2>1. w = Fill(x, o, q, time)
    BY <1>3 DEF WalkStep
  <2>2. q \in Nat /\ q > 0 /\ q <= order.remaining
    BY <1>1, <1>3 DEF Smaller
  <2> HIDE DEF q, w
  <2>3. Live(order)
    BY <1>1, <1>3 DEF Live, Terminal, Reconciled, OrderSound
  <2>4. /\ \A p \in DOMAIN x.queue \ {o} : QueueSound(x.queue[p], x.orders[p])
        /\ o \notin DOMAIN x.queue
    BY DEF Walked, Sound
  <2>5. /\ Sound(w) /\ Solo(x, w, o) /\ Follows(x, w)
        /\ w.orders[o] = FilledOrder(order, q, time)
        /\ DOMAIN w.queue \subseteq DOMAIN x.queue
    BY <1>1, <1>3, <2>1, <2>2, <2>3, <2>4, FillSound
  <2>6. /\ SameOrder(w.orders[o], order) /\ w.orders[o].status # "CANCEL_PENDING"
        /\ w.orders[o].status \in {"FILLED", "CANCEL_PENDING", "PARTIALLY_FILLED"}
    <3>1. time \in Int
      OBVIOUS
    <3> QED BY <1>1, <2>2, <2>5, <3>1, FilledOrderHas DEF SameOrder
  <2>7. Reconciled(w) /\ Len(w.orders) \in Nat
    BY <2>5, IdsOf DEF Sound
  <2>8. Follows(v, w) /\ Solo(v, w, o)
    BY <1>1, <2>5, <2>7, FollowsOn, SoloOn DEF Walked
  <2> QED BY <2>4, <2>5, <2>6, <2>8 DEF Walked, SameOrder, w
<1> QED BY <1>2, <1>3

IsWalk(after, v, o, levels, time, m) ==
    after = [i \in 0 .. m |-> IF i = 0 THEN v ELSE WalkStep(after[i-1], o, levels[i], time)]

LEMMA WalkExists ==
    ASSUME NEW v, NEW o, NEW levels, NEW time, NEW m \in Nat
    PROVE  \E after : IsWalk(after, v, o, levels, time, m)
<1> DEFINE Step(x, i) == WalkStep(x, o, levels[i], time)
           T == {n \in Nat : ~ \E after : IsWalk(after, v, o, levels, time, n)}
<1>1. SUFFICES ASSUME T # {} PROVE FALSE
  OBVIOUS
<1>2. PICK n \in T : \A k \in T : n <= k
  BY <1>1, LeastNatural
<1>3. n # 0
  <2>1. IsWalk([k \in 0 .. 0 |-> v], v, o, levels, time, 0)
    BY DEF IsWalk
  <2> QED BY <2>1
<1>4. n - 1 \in Nat /\ n \in Nat /\ n - 1 \notin T
  BY <1>2, <1>3
<1>5. PICK after : IsWalk(after, v, o, levels, time, n - 1)
  BY <1>4
<1>6. \A k \in 0 .. (n - 1) : after[k] = IF k = 0 THEN v ELSE Step(after[k-1], k)
  BY <1>5 DEF IsWalk
<1> DEFINE more == [k \in 0 .. n |-> IF k = n THEN Step(after[n-1], n) ELSE after[k]]
<1> HIDE DEF Step
<1>7. \A k \in 0 .. n : more[k] = IF k = 0 THEN v ELSE Step(more[k-1], k)
  <2>1. TAKE k \in 0 .. n
  <2>2. CASE k = 0
    <3>1. 0 \in 0 .. n /\ 0 \in 0 .. (n - 1) /\ k # n
      BY <1>3, <1>4, <2>2
    <3> QED BY <1>6, <2>2, <3>1
  <2>3. CASE k # 0 /\ k # n
    <3>1. k \in 0 .. (n - 1) /\ k - 1 \in 0 .. n /\ k - 1 # n
      BY <1>4, <2>3
    <3> QED BY <1>6, <2>3, <3>1
  <2>4. CASE k = n
    <3>1. n - 1 \in 0 .. n /\ n - 1 # n /\ n \in 0 .. n
      BY <1>4
    <3> QED BY <1>3, <2>4, <3>1
  <2> QED BY <2>2, <2>3, <2>4
<1>8. IsWalk(more, v, o, levels, time, n)
  <2>1. more = [k \in 0 .. n |-> IF k = 0 THEN v ELSE Step(more[k-1], k)]
    BY <1>7
  <2> HIDE DEF more
  <2> QED BY <2>1 DEF IsWalk, Step
<1> QED BY <1>2, <1>8

\* The walk ends with a sound venue; after at least one level something was filled.
LEMMA WalkDoes ==
    ASSUME NEW v, Sound(v), NEW o \in Ids(v), v.orders[o].status = "ACKNOWLEDGED",
           o \notin DOMAIN v.queue, ~ v.raised, v.orders[o].remaining # 0,
           NEW levels \in Seq(Nat \ {0}), NEW time \in Nat
    PROVE  LET w == Walk(v, o, levels, time)
           IN  /\ Walked(v, w, o)
               /\ w.orders[o].status \in {"ACKNOWLEDGED", "PARTIALLY_FILLED", "FILLED"}
               /\ levels = <<>> => w = v
               /\ levels # <<>> => w.orders[o].status # "ACKNOWLEDGED"
<1> DEFINE m == Len(levels)
           s == CHOOSE after : after = [i \in 0 .. m |->
                                   IF i = 0 THEN v ELSE WalkStep(after[i-1], o, levels[i], time)]
<1>1. m \in Nat /\ \A i \in 1 .. m : levels[i] \in Nat \ {0}
  OBVIOUS
<1>2. \E after : after = [i \in 0 .. m |->
                             IF i = 0 THEN v ELSE WalkStep(after[i-1], o, levels[i], time)]
  <2>1. \E after : IsWalk(after, v, o, levels, time, m)
    BY <1>1, WalkExists
  <2> QED BY <2>1 DEF IsWalk
<1>3. IsWalk(s, v, o, levels, time, m)
  BY <1>2, Zenon DEF IsWalk
<1>4. Walk(v, o, levels, time) = s[m]
  BY DEF Walk
<1> HIDE DEF s
<1>5. \A i \in 0 .. m : s[i] = IF i = 0 THEN v ELSE WalkStep(s[i-1], o, levels[i], time)
  BY <1>3 DEF IsWalk
<1> DEFINE Fine(i) ==
               /\ Walked(v, s[i], o)
               /\ s[i].orders[o].status \in {"ACKNOWLEDGED", "PARTIALLY_FILLED", "FILLED"}
               /\ i = 0 => s[i] = v
               /\ i # 0 => s[i].orders[o].status # "ACKNOWLEDGED"
           T == {i \in 0 .. m : ~ Fine(i)}
<1>6. T = {}
  <2>1. SUFFICES ASSUME T # {} PROVE FALSE
    OBVIOUS
  <2>2. PICK i \in T : \A j \in T : i <= j
    <3>1. T \subseteq Nat
      BY <1>1
    <3> HIDE DEF T
    <3> QED BY <2>1, <3>1, LeastNatural
  <2>3. i # 0
    <3>1. s[0] = v
      BY <1>1, <1>5
    <3>2. Reconciled(v) /\ Follows(v, v) /\ Solo(v, v, o) /\ SameOrder(v.orders[o], v.orders[o])
      BY FollowsItself DEF Sound, Solo, SameOrder
    <3>3. Fine(0)
      BY <3>1, <3>2 DEF Walked
    <3> HIDE DEF Fine
    <3> QED BY <2>2, <3>3
  <2>4. i \in 1 .. m /\ i - 1 \in 0 .. m /\ ~ (i <= i - 1) /\ i \in 0 .. m
    BY <1>1, <2>2, <2>3
  <2>5. Fine(i - 1)
    <3> HIDE DEF Fine
    <3> QED BY <2>2, <2>4
  <2>6. s[i] = WalkStep(s[i-1], o, levels[i], time)
    BY <1>5, <2>3, <2>4
  <2> DEFINE x == s[i-1]
             quantity == levels[i]
  <2>7. /\ Walked(v, x, o)
        /\ x.orders[o].status \in {"ACKNOWLEDGED", "PARTIALLY_FILLED", "FILLED"}
        /\ x.raised \/ x.orders[o].remaining = 0 => x.orders[o].status # "ACKNOWLEDGED"
        /\ quantity \in Nat \ {0}
    BY <1>1, <2>4, <2>5
  <2> HIDE DEF x, quantity
  <2>8. Walked(v, s[i], o) /\ s[i].orders[o].status \in {"PARTIALLY_FILLED", "FILLED"}
    <3>1. s[i] = WalkStep(x, o, quantity, time)
      BY <2>6 DEF x, quantity
    <3> QED BY <2>7, <3>1, WalkStepDoes
  <2>9. Fine(i)
    BY <2>3, <2>8
  <2> HIDE DEF Fine
  <2> QED BY <2>2, <2>9
<1>7. Fine(m) /\ (levels = <<>> <=> m = 0)
  <2>1. m \in 0 .. m /\ (levels = <<>> <=> m = 0)
    BY <1>1
  <2> HIDE DEF Fine
  <2> QED BY <1>6, <2>1
<1> QED BY <1>4, <1>7

IsAdvance(after, v, time, m) ==
    after = [o \in 0 .. m |-> IF o = 0 THEN v ELSE AdvanceOrder(after[o-1], o, time)]

LEMMA AdvanceExists ==
    ASSUME NEW v, NEW time, NEW m \in Nat
    PROVE  \E after : IsAdvance(after, v, time, m)
<1> DEFINE T == {n \in Nat : ~ \E after : IsAdvance(after, v, time, n)}
<1>1. SUFFICES ASSUME T # {} PROVE FALSE
  OBVIOUS
<1>2. PICK n \in T : \A k \in T : n <= k
  BY <1>1, LeastNatural
<1>3. n # 0
  <2>1. IsAdvance([k \in 0 .. 0 |-> v], v, time, 0)
    BY DEF IsAdvance
  <2> QED BY <2>1
<1>4. n - 1 \in Nat /\ n \in Nat /\ n - 1 \notin T
  BY <1>2, <1>3
<1>5. PICK after : IsAdvance(after, v, time, n - 1)
  BY <1>4
<1>6. \A k \in 0 .. (n - 1) : after[k] = IF k = 0 THEN v ELSE AdvanceOrder(after[k-1], k, time)
  BY <1>5 DEF IsAdvance
<1> DEFINE more == [k \in 0 .. n |->
                       IF k = n THEN AdvanceOrder(after[n-1], n, time) ELSE after[k]]
<1>7. \A k \in 0 .. n : more[k] = IF k = 0 THEN v ELSE AdvanceOrder(more[k-1], k, time)
  <2>1. TAKE k \in 0 .. n
  <2>2. CASE k = 0
    <3>1. 0 \in 0 .. n /\ 0 \in 0 .. (n - 1) /\ k # n
      BY <1>3, <1>4, <2>2
    <3> QED BY <1>6, <2>2, <3>1
  <2>3. CASE k # 0 /\ k # n
    <3>1. k \in 0 .. (n - 1) /\ k - 1 \in 0 .. n /\ k - 1 # n
      BY <1>4, <2>3
    <3> QED BY <1>6, <2>3, <3>1
  <2>4. CASE k = n
    <3>1. n - 1 \in 0 .. n /\ n - 1 # n /\ n \in 0 .. n
      BY <1>4
    <3> QED BY <1>3, <2>4, <3>1
  <2> QED BY <2>2, <2>3, <2>4
<1>8. IsAdvance(more, v, time, n)
  <2>1. more = [k \in 0 .. n |-> IF k = 0 THEN v ELSE AdvanceOrder(more[k-1], k, time)]
    BY <1>7
  <2> HIDE DEF more
  <2> QED BY <2>1 DEF IsAdvance
<1> QED BY <1>2, <1>8

\* advance over all orders.
LEMMA AdvanceDoes ==
    ASSUME NEW v, Sound(v), Standing(v), NEW time
    PROVE  LET w == Advance(v, time)
           IN  /\ Sound(w) /\ Standing(w) /\ Follows(v, w) /\ w.raised = v.raised
               /\ Len(w.orders) = Len(v.orders)
               /\ \A o \in Ids(v) : w.orders[o].remaining = v.orders[o].remaining
<1> DEFINE m == Len(v.orders)
           s == CHOOSE after : after = [o \in 0 .. m |->
                                   IF o = 0 THEN v ELSE AdvanceOrder(after[o-1], o, time)]
<1>1. m \in Nat /\ Ids(v) = 1 .. m /\ Reconciled(v)
  BY IdsOf DEF Sound
<1>2. \E after : after = [o \in 0 .. m |->
                             IF o = 0 THEN v ELSE AdvanceOrder(after[o-1], o, time)]
  <2>1. \E after : IsAdvance(after, v, time, m)
    BY <1>1, AdvanceExists
  <2> QED BY <2>1 DEF IsAdvance
<1>3. IsAdvance(s, v, time, m)
  BY <1>2, Zenon DEF IsAdvance
<1>4. Advance(v, time) = s[m]
  BY DEF Advance
<1> HIDE DEF s, m
<1>5. \A o \in 0 .. m : s[o] = IF o = 0 THEN v ELSE AdvanceOrder(s[o-1], o, time)
  BY <1>3 DEF IsAdvance
<1> DEFINE Fine(x) == /\ Sound(x) /\ Standing(x) /\ Follows(v, x) /\ x.raised = v.raised
                      /\ Len(x.orders) = m
                      /\ \A o \in Ids(v) : x.orders[o].remaining = v.orders[o].remaining
           T == {o \in 0 .. m : ~ Fine(s[o])}
<1>6. T = {}
  <2>1. SUFFICES ASSUME T # {} PROVE FALSE
    OBVIOUS
  <2>2. PICK o \in T : \A p \in T : o <= p
    <3>1. T \subseteq Nat
      BY <1>1
    <3> HIDE DEF T
    <3> QED BY <2>1, <3>1, LeastNatural
  <2>3. o # 0
    <3>1. s[0] = v
      BY <1>1, <1>5
    <3>2. Fine(v)
      BY <1>1, FollowsItself DEF m
    <3> HIDE DEF Fine
    <3> QED BY <2>2, <3>1, <3>2
  <2>4. o \in 1 .. m /\ o - 1 \in 0 .. m /\ ~ (o <= o - 1) /\ o \in 0 .. m
    BY <1>1, <2>2, <2>3
  <2> DEFINE x == s[o-1]
             w == s[o]
  <2>5. Fine(x)
    <3> HIDE DEF Fine
    <3> QED BY <2>2, <2>4
  <2>6. w = AdvanceOrder(x, o, time)
    BY <1>5, <2>3, <2>4
  <2> HIDE DEF x, w
  <2>7. Reconciled(x) /\ Ids(x) = 1 .. m /\ o \in Ids(x)
    BY <2>4, <2>5, IdsOf DEF Sound
  <2>8. /\ Sound(w) /\ Standing(w) /\ Follows(x, w) /\ Solo(x, w, o)
        /\ w.orders[o].remaining = x.orders[o].remaining /\ w.raised = x.raised
    BY <2>5, <2>6, <2>7, AdvanceOrderDoes
  <2>9. Follows(v, w)
    <3>1. Len(w.orders) \in Nat
      BY <2>8, IdsOf DEF Sound
    <3> QED BY <1>1, <2>5, <2>7, <2>8, <3>1, FollowsOn
  <2>10. Fine(w)
    BY <1>1, <2>5, <2>7, <2>8, <2>9 DEF Solo
  <2> HIDE DEF Fine
  <2> QED BY <2>2, <2>10 DEF w
<1>7. Fine(s[m])
  <2>1. m \in 0 .. m
    BY <1>1
  <2> HIDE DEF Fine
  <2> QED BY <1>6, <2>1
<1> QED BY <1>4, <1>7 DEF m

-----------------------------------------------------------------------------
(* The calls *)

LEMMA ConsumeDoes ==
    ASSUME NEW v, Sound(v), NEW o \in Ids(v), v.orders[o].status = "ACKNOWLEDGED",
           o \notin DOMAIN v.queue, ~ v.raised, v.orders[o].remaining # 0,
           NEW book, book.levels \in Seq(Nat \ {0}), book.visible \in Nat, NEW time \in Nat
    PROVE  LET w == Consume(v, o, book, time)
           IN  /\ Sound(w) /\ Solo(v, w, o) /\ Follows(v, w)
               /\ w.orders[o].status # "ACKNOWLEDGED" /\ SameOrder(w.orders[o], v.orders[o])
<1> DEFINE x == Walk(v, o, book.levels, time)
           w == Consume(v, o, book, time)
<1>1. /\ Walked(v, x, o)
      /\ x.orders[o].status \in {"ACKNOWLEDGED", "PARTIALLY_FILLED", "FILLED"}
      /\ book.levels = <<>> => x = v
      /\ book.levels # <<>> => x.orders[o].status # "ACKNOWLEDGED"
  BY WalkDoes
<1>2. \/ w = x /\ (x.raised \/ book.levels # <<>>)
      \/ w = SetStatus(x, o, "REJECTED") /\ book.levels = <<>>
      \/ w = JoinQueue(x, o, book) /\ book.levels = <<>>
      \/ w = JoinQueue(x, o, book) /\ book.levels # <<>> /\ x.orders[o].remaining # 0
      \/ w = RequestCancel(x, o, time, FALSE) /\ book.levels # <<>>
  <2> HIDE DEF x
  <2> DEFINE rest == x.orders[o].remaining
             type == v.orders[o].type
  <2>1. w = CASE x.raised -> x
              [] ~ x.raised /\ book.levels = <<>> ->
                    IF type = "MARKET" THEN SetStatus(x, o, "REJECTED") ELSE JoinQueue(x, o, book)
              [] ~ x.raised /\ book.levels # <<>> /\ rest = 0 -> x
              [] OTHER ->
                    IF type = "MARKETABLE_LIMIT" /\ ~ v.config.rejectRemainder
                    THEN JoinQueue(x, o, book)
                    ELSE IF v.config.rejectRemainder THEN RequestCancel(x, o, time, FALSE) ELSE x
    BY DEF Consume, x
  <2> HIDE DEF w, rest, type
  <2>2. CASE x.raised
    BY <2>1, <2>2
  <2>3. CASE ~ x.raised /\ book.levels = <<>>
    BY <2>1, <2>3
  <2>4. CASE ~ x.raised /\ book.levels # <<>> /\ rest = 0
    BY <2>1, <2>4
  <2>5. CASE ~ x.raised /\ book.levels # <<>> /\ rest # 0
    BY <2>1, <2>5 DEF rest
  <2> QED BY <2>2, <2>3, <2>4, <2>5
<1> HIDE DEF x, w
<1>3. /\ Sound(x) /\ Solo(v, x, o) /\ Follows(v, x) /\ o \notin DOMAIN x.queue
      /\ Reconciled(x) /\ Reconciled(v) /\ o \in Ids(x) /\ SameOrder(x.orders[o], v.orders[o])
  BY <1>1, IdsOf DEF Walked, Sound, Solo
<1>4. /\ Sound(w) /\ Solo(x, w, o) /\ Follows(x, w)
      /\ w.orders[o].status # "ACKNOWLEDGED" /\ SameOrder(w.orders[o], x.orders[o])
  <2>1. CASE w = x /\ (x.raised \/ book.levels # <<>>)
    <3>1. x.orders[o].status # "ACKNOWLEDGED"
      BY <1>1, <2>1
    <3>2. Follows(x, x) /\ Solo(x, x, o) /\ SameOrder(x.orders[o], x.orders[o])
      BY <1>3, FollowsItself DEF Solo, SameOrder
    <3> QED BY <1>3, <2>1, <3>1, <3>2
  <2>2. CASE w = SetStatus(x, o, "REJECTED") /\ book.levels = <<>>
    BY <1>1, <1>3, <2>2, RejectDoes
  <2>3. CASE w = JoinQueue(x, o, book) /\ book.levels = <<>>
    BY <1>1, <1>3, <2>3, JoinQueueDoes
  <2>4. CASE w = JoinQueue(x, o, book) /\ book.levels # <<>> /\ x.orders[o].remaining # 0
    <3>1. x.orders[o].status = "PARTIALLY_FILLED"
      BY <1>1, <1>3, <2>4 DEF Reconciled, OrderSound
    <3> QED BY <1>3, <2>4, <3>1, JoinQueueDoes
  <2>5. CASE w = RequestCancel(x, o, time, FALSE) /\ book.levels # <<>>
    <3>1. /\ Sound(w) /\ Solo(x, w, o) /\ Follows(x, w) /\ SameOrder(w.orders[o], x.orders[o])
          /\ w.orders[o].status \in Terminal \cup {"CANCEL_PENDING"}
      BY <1>3, <2>5, RequestCancelDoes
    <3> QED BY <3>1 DEF Terminal
  <2> QED BY <1>2, <2>1, <2>2, <2>3, <2>4, <2>5
<1>5. Reconciled(w) /\ Len(w.orders) \in Nat
  BY <1>4, IdsOf DEF Sound
<1>6. Solo(v, w, o) /\ Follows(v, w)
  BY <1>3, <1>4, <1>5, SoloOn, FollowsOn
<1> QED BY <1>3, <1>4, <1>6 DEF SameOrder, w

\* An order on its way: everything of it is wanted, nothing is filled.
Sent(v, type, effect, quantity, expiry) ==
    [v EXCEPT !.orders = Append(@, [type |-> type, effect |-> effect, quantity |-> quantity,
                                    remaining |-> quantity, expiry |-> expiry,
                                    cancelAt |-> NoTime, lastFill |-> NoTime,
                                    status |-> "ACKNOWLEDGED"]),
              !.filled = Append(@, 0)]

LEMMA SentDoes ==
    ASSUME NEW v, Sound(v), NEW type \in OrderType, NEW effect \in Effects,
           NEW quantity \in Nat \ {0}, NEW expiry \in Nat
    PROVE  LET w == Sent(v, type, effect, quantity, expiry)
               o == Len(v.orders) + 1
           IN  /\ Sound(w) /\ Follows(v, w) /\ Len(w.orders) = o /\ o \in Ids(w)
               /\ o \notin DOMAIN w.queue /\ w.raised = v.raised
               /\ \A p \in Ids(v) : w.orders[p] = v.orders[p]
               /\ w.orders[o].status = "ACKNOWLEDGED" /\ w.orders[o].remaining = quantity
               /\ w.orders[o].expiry = expiry
<1> DEFINE w      == Sent(v, type, effect, quantity, expiry)
           o      == Len(v.orders) + 1
           order  == [type |-> type, effect |-> effect, quantity |-> quantity,
                      remaining |-> quantity, expiry |-> expiry, cancelAt |-> NoTime,
                      lastFill |-> NoTime, status |-> "ACKNOWLEDGED"]
           orders == Append(v.orders, order)
           filled == Append(v.filled, 0)
<1>1. /\ Len(v.orders) \in Nat /\ Ids(v) = 1 .. Len(v.orders)
      /\ v.orders \in Seq(Order) /\ v.filled \in Seq(Nat) /\ v \in Venues
      /\ Len(v.filled) = Len(v.orders) /\ Reconciled(v)
      /\ DOMAIN v.queue \subseteq Ids(v) /\ v.expiring \subseteq Ids(v)
  BY IdsOf DEF Sound, Reconciled
<1>2. order \in Order
  <2>1. NoTime \in Int
    BY DEF NoTime
  <2> QED BY <2>1 DEF Order
<1>3. /\ order.status = "ACKNOWLEDGED" /\ order.remaining = quantity
      /\ order.quantity = quantity /\ order.expiry = expiry
  OBVIOUS
<1>4. w = [v EXCEPT !.orders = orders, !.filled = filled]
  BY DEF Sent
<1> HIDE DEF order
<1>5. /\ orders \in Seq(Order) /\ Len(orders) = o /\ orders[o] = order
      /\ filled \in Seq(Nat) /\ Len(filled) = o /\ filled[o] = 0
      /\ \A p \in Ids(v) : orders[p] = v.orders[p] /\ filled[p] = v.filled[p]
      /\ DOMAIN orders = 1 .. o /\ o \notin Ids(v) /\ o \in Nat
  BY <1>1, <1>2
<1> HIDE DEF orders, filled, w
<1>6. /\ w \in Venues /\ w.orders = orders /\ w.filled = filled /\ w.queue = v.queue
      /\ w.expiring = v.expiring /\ w.side = v.side /\ w.quantity = v.quantity
      /\ w.cash = v.cash /\ w.raised = v.raised /\ w.config = v.config
  BY <1>1, <1>4, <1>5 DEF Venues
<1>7. Ids(w) = 1 .. o /\ Ids(w) = Ids(v) \cup {o}
  BY <1>1, <1>5, <1>6 DEF Ids
<1>8. \A effects : FilledBy(w, effects) = FilledBy(v, effects)
  <2>1. /\ Len(w.filled) = Len(w.orders) /\ Len(w.orders) = Len(v.orders) + 1
        /\ w.filled[Len(w.orders)] = 0
        /\ \A p \in Ids(v) : /\ w.orders[p].effect = v.orders[p].effect
                             /\ w.filled[p] = v.filled[p]
    BY <1>5, <1>6
  <2> QED BY <1>1, <1>6, <2>1, FilledAppended
<1>9. Position(w)
  BY <1>6, <1>8 DEF Sound, Reconciled, Position
<1>10. \A p \in Ids(w) : OrderSound(w.orders[p], w.filled[p])
  <2>1. OrderSound(order, 0)
    BY <1>3 DEF OrderSound
  <2> QED BY <1>5, <1>6, <1>7, <2>1 DEF Sound, Reconciled
<1>11. Sound(w)
  BY <1>1, <1>5, <1>6, <1>7, <1>9, <1>10 DEF Sound, Reconciled
<1>12. Follows(v, w)
  BY <1>1, <1>5, <1>6 DEF Follows
<1> QED BY <1>1, <1>3, <1>5, <1>6, <1>7, <1>11, <1>12 DEF w

LEMMA SubmitDoes ==
    ASSUME NEW v, Sound(v), Standing(v), ~ v.raised, NEW type \in OrderType,
           NEW effect \in Effects, NEW quantity \in Nat \ {0}, NEW time \in Nat,
           NEW expiry \in Nat, NEW book \in Books \cup {NoBook}, NEW bookTime \in Nat
    PROVE  LET w == Submit(v, type, effect, quantity, time, expiry, book, bookTime)
               o == Len(v.orders) + 1
           IN  /\ Sound(w) /\ Standing(w) /\ Follows(v, w)
               /\ Len(w.orders) = o /\ o \in Ids(w) /\ w.orders[o].expiry = time + expiry
<1> DEFINE w    == Submit(v, type, effect, quantity, time, expiry, book, bookTime)
           o    == Len(v.orders) + 1
           due  == time + expiry
           sent == Sent(v, type, effect, quantity, due)
<1>1. /\ Sound(sent) /\ Follows(v, sent) /\ Len(sent.orders) = o /\ o \in Ids(sent)
      /\ o \notin DOMAIN sent.queue /\ sent.raised = v.raised
      /\ \A p \in Ids(v) : sent.orders[p] = v.orders[p]
      /\ sent.orders[o].status = "ACKNOWLEDGED" /\ sent.orders[o].remaining = quantity
      /\ sent.orders[o].expiry = due
  <2>1. due \in Nat
    OBVIOUS
  <2> HIDE DEF sent, due
  <2>2. sent = Sent(v, type, effect, quantity, due)
    BY DEF sent
  <2> QED BY <2>1, <2>2, SentDoes
<1>2. w = IF book = NoBook THEN SetStatus(sent, o, "REJECTED")
          ELSE IF type = "MARKET" \/ book.crosses THEN Consume(sent, o, book, bookTime)
          ELSE JoinQueue(sent, o, book)
  BY DEF Submit, Sent
<1> HIDE DEF sent, w
<1>3. /\ Reconciled(v) /\ Reconciled(sent) /\ Ids(v) = 1 .. Len(v.orders)
      /\ Len(v.orders) \in Nat /\ Ids(sent) = 1 .. o
  BY <1>1, IdsOf DEF Sound
<1>4. ~ sent.raised /\ sent.orders[o].remaining # 0
  BY <1>1
<1>5. /\ Sound(w) /\ Solo(sent, w, o) /\ Follows(sent, w)
      /\ w.orders[o].status # "ACKNOWLEDGED" /\ SameOrder(w.orders[o], sent.orders[o])
  <2>1. CASE book = NoBook
    <3>1. w = SetStatus(sent, o, "REJECTED")
      BY <1>2, <2>1
    <3> HIDE DEF o
    <3> QED BY <1>1, <3>1, RejectDoes
  <2>2. CASE book # NoBook
    <3>1. book.levels \in Seq(Nat \ {0}) /\ book.visible \in Nat
      BY <2>2, VenueAssumption
    <3> HIDE DEF o
    <3>2. CASE type = "MARKET" \/ book.crosses
      <4>1. w = Consume(sent, o, book, bookTime)
        BY <1>2, <2>2, <3>2
      <4> QED BY <1>1, <1>4, <3>1, <4>1, ConsumeDoes
    <3>3. CASE ~ (type = "MARKET" \/ book.crosses)
      <4>1. w = JoinQueue(sent, o, book)
        BY <1>2, <2>2, <3>3
      <4>2. w.orders[o].status = "WORKING" => w.orders[o].status # "ACKNOWLEDGED"
        OBVIOUS
      <4> QED BY <1>1, <3>1, <4>1, <4>2, JoinQueueDoes
    <3> QED BY <3>2, <3>3
  <2> QED BY <2>1, <2>2
<1>6. Reconciled(w) /\ Len(w.orders) \in Nat /\ Ids(w) = 1 .. Len(w.orders)
  BY <1>5, IdsOf DEF Sound
<1>7. Follows(v, w)
  BY <1>1, <1>3, <1>5, <1>6, FollowsOn
<1>8. Standing(w)
  BY <1>1, <1>3, <1>5, <1>6 DEF Standing, Solo
<1> QED BY <1>1, <1>3, <1>5, <1>6, <1>7, <1>8 DEF w, SameOrder, Solo

\* A trade at the price of a queue: what is left of it after the quantity ahead fills
\* the order.
LEMMA AggressiveTradeDoes ==
    ASSUME NEW v, Sound(v), Standing(v), ~ v.raised, NEW o \in DOMAIN v.queue,
           Live(v.orders[o]), NEW traded \in Nat, NEW time \in Nat
    PROVE  LET w == AggressiveTrade(v, o, traded, time)
           IN  Sound(w) /\ Standing(w) /\ Follows(v, w)
<1> DEFINE s     == v.queue[o]
           order == v.orders[o]
           ahead == Smaller(s.ahead, traded)
           own   == Smaller(s.own, traded - ahead)
           state == [s EXCEPT !.ahead = @ - ahead, !.own = @ - own, !.traded = @ + traded]
           queue == [v.queue EXCEPT ![o] = state]
           x     == [v EXCEPT !.queue = queue]
           w     == AggressiveTrade(v, o, traded, time)
<1>1. /\ Reconciled(v) /\ v \in Venues /\ v.queue \in Queues /\ Ids(v) = 1 .. Len(v.orders)
      /\ o \in Ids(v) /\ order \in Order /\ s \in QueueState
  BY IdsOf, QueueHas DEF Sound, Reconciled
<1>2. /\ s.ahead \in Nat /\ s.own \in Nat /\ s.initial \in Nat /\ s.joined \in Nat
      /\ s.traded \in Nat /\ order.remaining \in Nat
  BY <1>1 DEF QueueState, Order
<1>3. /\ ahead \in Nat /\ ahead <= s.ahead /\ ahead <= traded
      /\ own \in Nat /\ own <= s.own /\ own <= traded - ahead
      /\ own # 0 => ahead = s.ahead
  <2>1. ahead \in Nat /\ ahead <= s.ahead /\ ahead <= traded /\ (ahead = s.ahead \/ ahead = traded)
    BY <1>2 DEF Smaller
  <2> HIDE DEF ahead
  <2> QED BY <1>2, <2>1 DEF Smaller
<1>4. w = IF own = 0 THEN x ELSE Fill(x, o, own, time)
  BY <1>1 DEF AggressiveTrade, Venues
<1> HIDE DEF ahead, own, w
<1>5. /\ state \in QueueState /\ state.ahead = s.ahead - ahead /\ state.own = s.own - own
      /\ state.traded = s.traded + traded /\ state.initial = s.initial
      /\ state.joined = s.joined
  <2>1. s.ahead - ahead \in Nat /\ s.own - own \in Nat /\ s.traded + traded \in Nat
    BY <1>2, <1>3
  <2> QED BY <1>1, <2>1 DEF QueueState
<1>6. /\ s.own = order.remaining /\ s.initial - s.ahead <= s.traded
      /\ s.own = s.joined \/ (s.ahead = 0 /\ s.joined - s.own <= s.traded - s.initial)
  BY DEF Sound, QueueSound
<1> HIDE DEF state
<1>7. /\ state.initial - state.ahead <= state.traded
      /\ state.own = state.joined
            \/ (state.ahead = 0 /\ state.joined - state.own <= state.traded - state.initial)
  <2>1. state.initial - state.ahead <= state.traded
    BY <1>2, <1>3, <1>5, <1>6
  <2>2. CASE own = 0
    <3>1. CASE s.own = s.joined
      BY <1>2, <1>5, <2>1, <2>2, <3>1
    <3>2. CASE s.ahead = 0 /\ s.joined - s.own <= s.traded - s.initial
      BY <1>2, <1>3, <1>5, <2>1, <2>2, <3>2
    <3> QED BY <1>6, <3>1, <3>2
  <2>3. CASE own # 0
    <3>1. state.ahead = 0
      BY <1>2, <1>3, <1>5, <2>3
    <3>2. CASE s.own = s.joined
      BY <1>2, <1>3, <1>5, <1>6, <2>1, <2>3, <3>1, <3>2
    <3>3. CASE s.ahead = 0 /\ s.joined - s.own <= s.traded - s.initial
      BY <1>2, <1>3, <1>5, <2>1, <3>1, <3>3
    <3> QED BY <1>6, <3>1, <3>2, <3>3
  <2> QED BY <2>1, <2>2, <2>3
<1>8. /\ queue \in Queues /\ DOMAIN queue = DOMAIN v.queue /\ queue[o] = state
      /\ \A p \in DOMAIN v.queue \ {o} : queue[p] = v.queue[p]
  BY <1>1, <1>5, SetQueue
<1> HIDE DEF queue
<1>9. /\ x \in Venues /\ x.orders = v.orders /\ x.filled = v.filled /\ x.queue = queue
      /\ x.expiring = v.expiring /\ x.side = v.side /\ x.quantity = v.quantity
      /\ x.cash = v.cash /\ x.raised = v.raised /\ x.config = v.config /\ Ids(x) = Ids(v)
  BY <1>1, <1>8 DEF Venues, Ids
<1> HIDE DEF x
<1>10. Reconciled(x)
  <2>1. \A effects : FilledBy(x, effects) = FilledBy(v, effects)
    BY <1>1, <1>9, FilledSame DEF Reconciled
  <2>2. Position(x)
    BY <1>1, <1>9, <2>1 DEF Reconciled, Position
  <2> QED BY <1>1, <1>8, <1>9, <2>2 DEF Reconciled
<1>11. /\ \A p \in DOMAIN x.queue \ {o} : QueueSound(x.queue[p], x.orders[p])
       /\ x.queue[o] = state
  BY <1>8, <1>9 DEF Sound
<1>12. CASE own = 0
  <2>1. QueueSound(state, order)
    BY <1>2, <1>5, <1>6, <1>7, <1>12 DEF QueueSound
  <2>2. Sound(x)
    BY <1>9, <1>10, <1>11, <2>1 DEF Sound
  <2>3. Follows(v, x) /\ Standing(x)
    <3>1. Follows(v, v)
      BY <1>1, FollowsItself
    <3> QED BY <1>9, <3>1 DEF Follows, Standing
  <2> QED BY <1>4, <1>12, <2>2, <2>3 DEF w
<1>13. CASE own # 0
  <2> DEFINE after == FilledOrder(order, own, time)
  <2>1. own > 0 /\ own <= order.remaining
    BY <1>2, <1>3, <1>6, <1>13
  <2>2. /\ after.remaining = order.remaining - own
        /\ after.status = "FILLED" <=> after.remaining = 0
        /\ after.status \in {"FILLED", "CANCEL_PENDING", "PARTIALLY_FILLED"}
    <3>1. time \in Int
      OBVIOUS
    <3> QED BY <1>1, <1>3, <2>1, <3>1, FilledOrderHas
  <2>3. QueueSound(state, after)
    <3>1. state.own = after.remaining
      BY <1>5, <1>6, <2>2
    <3>2. ~ Live(after) => after.status = "FILLED"
      BY <2>2 DEF Live, Terminal
    <3> HIDE DEF after
    <3> QED BY <1>7, <2>2, <3>1, <3>2 DEF QueueSound
  <2> HIDE DEF after
  <2>4. w = Fill(x, o, own, time)
    BY <1>4, <1>13
  <2>5. /\ Sound(w) /\ Solo(x, w, o) /\ Follows(x, w) /\ w.orders[o] = after
    <3>1. /\ Live(x.orders[o]) /\ ~ x.raised /\ own <= x.orders[o].remaining
          /\ o \in Ids(x) /\ after = FilledOrder(x.orders[o], own, time)
          /\ o \in DOMAIN x.queue => QueueSound(x.queue[o], FilledOrder(x.orders[o], own, time))
      BY <1>1, <1>9, <1>11, <2>1, <2>3 DEF after
    <3> HIDE DEF order
    <3> QED BY <1>3, <1>10, <1>11, <2>1, <2>4, <3>1, FillSound
  <2>6. Follows(v, w)
    BY <1>9, <2>5 DEF Follows
  <2>7. Standing(w)
    <3>1. Standing(x) /\ w.orders[o].status # "ACKNOWLEDGED"
      BY <1>9, <2>2, <2>5 DEF Standing, after
    <3> QED BY <1>1, <1>9, <1>10, <2>5, <3>1, SoloStands DEF Sound
  <2> QED BY <2>5, <2>6, <2>7 DEF w
<1> QED BY <1>12, <1>13

\* The maker order, its cancel after the wait, and the taker order for what is left.
LEMMA MakerThenTakerDoes ==
    ASSUME NEW v, Sound(v), Standing(v), ~ v.raised, NEW effect \in Effects,
           NEW quantity \in Nat \ {0}, NEW time \in Nat, NEW expiry \in Nat,
           NEW book \in Books \cup {NoBook}, NEW bookTime \in Nat, NEW fallback,
           NEW book2 \in Books \cup {NoBook}
    PROVE  LET w == MakerThenTaker(v, effect, quantity, time, expiry, book, bookTime,
                                   fallback, book2)
           IN  Sound(w) /\ Standing(w) /\ Follows(v, w)
<1> DEFINE o       == Len(v.orders) + 1
           primary == Submit(v, "LIMIT", effect, quantity, time, expiry, book, bookTime)
           pending == CancelOf(primary, o, time)
           at      == pending.orders[o].cancelAt
           done    == Advance(pending, at)
           rest    == done.orders[o].remaining
           second  == Submit(done, "MARKETABLE_LIMIT", effect, rest, at, expiry, book2, at)
           w == MakerThenTaker(v, effect, quantity, time, expiry, book, bookTime, fallback, book2)
<1>1. /\ Sound(primary) /\ Standing(primary) /\ Follows(v, primary) /\ o \in Ids(primary)
      /\ Reconciled(v) /\ Reconciled(primary)
  <2>1. "LIMIT" \in OrderType
    BY DEF OrderType
  <2> QED BY <2>1, SubmitDoes DEF Sound
<1>2. w = IF primary.raised \/ ~ Live(primary.orders[o]) THEN primary
          ELSE IF rest = 0 \/ ~ fallback THEN done ELSE second
  BY DEF MakerThenTaker
<1> HIDE DEF w
<1>3. CASE primary.raised \/ ~ Live(primary.orders[o])
  <2> HIDE DEF primary, rest, done, second
  <2> QED BY <1>1, <1>2, <1>3 DEF w
<1>4. CASE ~ (primary.raised \/ ~ Live(primary.orders[o]))
  <2> HIDE DEF primary, o
  <2> DEFINE order  == primary.orders[o]
             wait   == Smaller(order.expiry, time + MakerWait)
             expired == wait >= order.expiry
  <2>1. order.expiry \in Nat /\ wait \in Nat /\ expired \in BOOLEAN
    <3>1. order.expiry \in Nat /\ time + MakerWait \in Nat
      BY <1>1, IdsOf, VenueAssumption DEF Order
    <3> QED BY <3>1 DEF Smaller
  <2>2. pending = RequestCancel(primary, o, wait, expired)
    BY DEF CancelOf
  <2> HIDE DEF pending, wait, expired
  <2>3. /\ Sound(pending) /\ Solo(primary, pending, o) /\ Follows(primary, pending)
        /\ pending.raised = primary.raised /\ pending.orders[o].status = "CANCEL_PENDING"
    BY <1>1, <1>4, <2>1, <2>2, RequestCancelDoes
  <2>4. /\ Reconciled(pending) /\ o \in Ids(pending) /\ Len(pending.orders) \in Nat
    BY <1>1, <2>3, IdsOf DEF Sound, Solo
  <2>5. Standing(pending) /\ Follows(v, pending)
    BY <1>1, <2>3, <2>4, SoloStands, FollowsOn
  <2>6. at \in Nat
    BY <2>3, <2>4 DEF Reconciled, OrderSound
  <2> HIDE DEF at
  <2>7. /\ Sound(done) /\ Standing(done) /\ Follows(pending, done) /\ done.raised = pending.raised
        /\ Len(done.orders) = Len(pending.orders)
    BY <2>3, <2>5, AdvanceDoes
  <2> HIDE DEF done
  <2>8. Reconciled(done) /\ Len(done.orders) \in Nat /\ o \in Ids(done)
    BY <2>4, <2>7, IdsOf DEF Sound
  <2>9. Follows(v, done)
    BY <1>1, <2>4, <2>5, <2>7, <2>8, FollowsOn
  <2>10. CASE rest = 0 \/ ~ fallback
    <3>1. w = done
      BY <1>2, <1>4, <2>10
    <3> QED BY <2>7, <2>9, <3>1 DEF w
  <2>11. CASE ~ (rest = 0 \/ ~ fallback)
    <3>1. rest \in Nat \ {0}
      BY <2>8, <2>11, IdsOf DEF Order
    <3>2. w = second
      BY <1>2, <1>4, <2>11
    <3> HIDE DEF rest
    <3>3. "MARKETABLE_LIMIT" \in OrderType /\ ~ done.raised
      BY <1>4, <2>3, <2>7 DEF OrderType
    <3>4. Sound(w) /\ Standing(w) /\ Follows(done, w)
      BY <2>6, <2>7, <3>1, <3>2, <3>3, SubmitDoes
    <3>5. Len(w.orders) \in Nat
      BY <3>4, IdsOf DEF Sound
    <3>6. Follows(v, w)
      BY <1>1, <2>8, <2>9, <3>4, <3>5, FollowsOn
    <3> QED BY <3>4, <3>6 DEF w
  <2> QED BY <2>10, <2>11
<1> QED BY <1>3, <1>4

-----------------------------------------------------------------------------
(* Theorems *)

IInv == now \in 0 .. MaxTime /\ Sound(venue) /\ Standing(venue)

LEMMA Initial == Init => IInv
<1>1. SUFFICES ASSUME NEW c \in Configs, venue = NewVenue(c), now = 0 PROVE IInv
  BY DEF Init
<1>2. /\ venue.config = c /\ venue.orders = <<>> /\ venue.queue = <<>> /\ venue.filled = <<>>
      /\ venue.side = "FLAT" /\ venue.quantity = 0 /\ venue.cash = InitialCash
      /\ venue.expiring = {} /\ venue.raised = FALSE
  BY <1>1 DEF NewVenue
<1>3. InitialCash \in Nat /\ c \in Configuration /\ MaxTime \in Nat
  BY VenueAssumption DEF Configuration
<1>4. venue.queue \in Queues /\ DOMAIN venue.queue = {}
  <2>1. venue.queue \in [{} -> QueueState] /\ DOMAIN venue.queue = {}
    BY <1>2
  <2>2. {} \in SUBSET Nat
    OBVIOUS
  <2> QED BY <2>1, <2>2 DEF Queues
<1>5. venue \in Venues
  <2>1. venue = [config |-> c, orders |-> <<>>, queue |-> venue.queue, filled |-> <<>>,
                 side |-> "FLAT", quantity |-> 0, cash |-> InitialCash,
                 expiring |-> {}, raised |-> FALSE]
    BY <1>1 DEF NewVenue
  <2>2. <<>> \in Seq(Order) /\ <<>> \in Seq(Nat)
    OBVIOUS
  <2> DEFINE queue == venue.queue
             none  == <<>>
  <2>3. venue = [config |-> c, orders |-> none, queue |-> queue, filled |-> none,
                 side |-> "FLAT", quantity |-> 0, cash |-> InitialCash,
                 expiring |-> {}, raised |-> FALSE]
    BY <2>1
  <2>4. queue \in Queues /\ none \in Seq(Order) /\ none \in Seq(Nat)
    BY <1>4, <2>2
  <2> HIDE DEF queue, none
  <2> QED BY <1>3, <2>3, <2>4 DEF Venues
<1>6. Ids(venue) = {} /\ Len(venue.orders) = 0 /\ Len(venue.filled) = 0
  BY <1>2 DEF Ids
<1>7. \A effects : FilledBy(venue, effects) = 0
  <2>1. SUFFICES ASSUME NEW effects PROVE FilledBy(venue, effects) = 0
    OBVIOUS
  <2>2. PICK sum : IsSum(sum, Part(venue, effects), 0) /\ FilledBy(venue, effects) = sum[0]
    BY <1>6, FilledIsSum
  <2> QED BY <2>2, SumValues
<1>8. Position(venue)
  BY <1>2, <1>3, <1>7 DEF Position
<1>9. Sound(venue) /\ Standing(venue)
  BY <1>2, <1>4, <1>5, <1>6, <1>8 DEF Sound, Reconciled, Standing
<1> QED BY <1>1, <1>3, <1>9 DEF IInv

\* Every call leaves a sound venue, and keeps what ended and what was cancelled.
LEMMA Calls ==
    ASSUME IInv, Next
    PROVE  IInv' /\ Follows(venue, venue')
<1>1. /\ now \in Nat /\ MaxTime \in Nat /\ Sound(venue) /\ Standing(venue)
      /\ Reconciled(venue) /\ Follows(venue, venue) /\ now \in 0 .. MaxTime
  BY VenueAssumption, FollowsItself, SMTT(30) DEF IInv, Sound
<1>2. SUFFICES now' \in 0 .. MaxTime /\ Sound(venue') /\ Standing(venue') /\ Follows(venue, venue')
  BY DEF IInv, Sound, Standing, Reconciled, Ids, Position, QueueSound, OrderSound, Live, FilledBy
<1>3. CASE CallSubmit
  <2>1. PICK type \in OrderType, effect \in Allowed, q \in Quantities, expiry \in Expiries,
             book \in Books \cup {NoBook}, bookTime \in now .. now + 1 :
             venue' = Submit(venue, type, effect, q, now, expiry, book, bookTime)
    BY <1>3 DEF CallSubmit
  <2>2. /\ effect \in Effects /\ q \in Nat \ {0} /\ expiry \in Nat /\ bookTime \in Nat
        /\ ~ venue.raised /\ now' = now
    BY <1>1, <1>3, VenueAssumption DEF CallSubmit, Running, Allowed
  <2>3. Sound(venue') /\ Standing(venue') /\ Follows(venue, venue')
    BY <1>1, <2>1, <2>2, SubmitDoes
  <2> QED BY <1>1, <2>2, <2>3
<1>4. CASE CallExecutePolicy
  <2>1. PICK effect \in Allowed, q \in Quantities, expiry \in Expiries,
             book \in Books \cup {NoBook}, book2 \in Books \cup {NoBook}, fallback \in BOOLEAN :
             venue' = MakerThenTaker(venue, effect, q, now, expiry, book, now, fallback, book2)
    BY <1>4 DEF CallExecutePolicy
  <2>2. /\ effect \in Effects /\ q \in Nat \ {0} /\ expiry \in Nat
        /\ ~ venue.raised /\ now' = now
    BY <1>1, <1>4, VenueAssumption DEF CallExecutePolicy, Running, Allowed
  <2>3. Sound(venue') /\ Standing(venue') /\ Follows(venue, venue')
    BY <1>1, <2>1, <2>2, MakerThenTakerDoes
  <2> QED BY <1>1, <2>2, <2>3
<1>5. CASE CallAggressiveTrade
  <2>1. PICK o \in DOMAIN venue.queue, traded \in Trades :
             Live(venue.orders[o]) /\ venue' = AggressiveTrade(venue, o, traded, now)
    BY <1>5 DEF CallAggressiveTrade
  <2>2. traded \in Nat /\ ~ venue.raised /\ now' = now
    BY <1>5, VenueAssumption DEF CallAggressiveTrade, Running
  <2>3. Sound(venue') /\ Standing(venue') /\ Follows(venue, venue')
    BY <1>1, <2>1, <2>2, AggressiveTradeDoes
  <2> QED BY <1>1, <2>2, <2>3
<1>6. CASE CallRequestCancel
  <2>1. PICK o \in Ids(venue) : venue' = RequestCancel(venue, o, now, FALSE)
    BY <1>6 DEF CallRequestCancel
  <2>2. /\ Sound(venue') /\ Solo(venue, venue', o) /\ Follows(venue, venue')
        /\ venue'.orders[o].status \in Terminal \cup {"CANCEL_PENDING"}
    BY <1>1, <2>1, RequestCancelDoes
  <2>3. Standing(venue')
    <3>1. venue'.orders[o].status # "ACKNOWLEDGED"
      BY <2>2 DEF Terminal
    <3>2. Reconciled(venue')
      BY <2>2 DEF Sound
    <3> QED BY <1>1, <2>2, <3>1, <3>2, SoloStands
  <2> QED BY <1>1, <1>6, <2>2, <2>3 DEF CallRequestCancel
<1>7. CASE CallAdvance
  <2>1. venue' = Advance(venue, now) /\ now' = now
    BY <1>7 DEF CallAdvance
  <2>2. Sound(venue') /\ Standing(venue') /\ Follows(venue, venue')
    BY <1>1, <2>1, AdvanceDoes
  <2> QED BY <1>1, <2>1, <2>2
<1>8. CASE Tick
  <2>1. venue' = venue /\ now' = now + 1 /\ now < MaxTime
    BY <1>8 DEF Tick
  <2> QED BY <1>1, <2>1
<1> QED BY <1>3, <1>4, <1>5, <1>6, <1>7, <1>8 DEF Next

LEMMA Always == IInv /\ [Next]_vars => IInv'
<1>1. CASE Next
  BY <1>1, Calls
<1>2. CASE UNCHANGED vars
  BY <1>2 DEF vars, IInv, Sound, Standing, Reconciled, Ids, Position, QueueSound, OrderSound,
             Live, FilledBy
<1> QED BY <1>1, <1>2

LEMMA Typed == IInv => TypeOK
<1>1. SUFFICES ASSUME IInv PROVE TypeOK
  OBVIOUS
<1>2. /\ venue \in Venues /\ DOMAIN venue.queue \subseteq Ids(venue)
      /\ venue.expiring \subseteq Ids(venue) /\ Reconciled(venue)
      /\ \A o \in Ids(venue) : venue.orders[o] \in Order /\ venue.orders[o].status # "ACKNOWLEDGED"
  BY <1>1, IdsOf DEF IInv, Sound, Reconciled, Standing
<1>3. /\ venue.side \in {"FLAT", "LONG", "SHORT"} /\ venue.quantity \in Nat /\ venue.cash \in Nat
  BY <1>2 DEF Venues
<1> QED BY <1>1, <1>2, <1>3 DEF TypeOK, IInv, Order

\* execution/engine.py: for any orders, books, trades and latencies the venue keeps its
\* types, what an order still wants and what the execution ledger holds of it add up to
\* what was asked, its queue state agrees with it, and it is only filled by what traded
\* beyond the quantity ahead of it.
THEOREM VenueReconciles == Spec => []QuantitiesReconcile
<1>1. IInv => QuantitiesReconcile
  <2>1. SUFFICES ASSUME IInv PROVE QuantitiesReconcile
    OBVIOUS
  <2>2. TypeOK
    BY <2>1, Typed
  <2>3. FillsReconcile
    BY <2>1 DEF IInv, Sound, Reconciled, OrderSound, FillsReconcile
  <2>4. QueueMatchesOrder /\ FilledOnlyBehindTheQueue
    BY <2>1 DEF IInv, Sound, QueueSound, QueueMatchesOrder, FilledOnlyBehindTheQueue
  <2> QED BY <2>2, <2>3, <2>4 DEF QuantitiesReconcile
<1> QED BY <1>1, Initial, Always, PTL DEF Spec

\* execution/ledger.py: as long as no ledger raised, the position is what the fills of
\* the execution ledger add up to, and Spot cash is what was not spent on it.
THEOREM PositionIsTheFills == Spec => []PositionMatchesFills
<1>1. IInv => PositionMatchesFills
  BY DEF IInv, Sound, Reconciled, Position, PositionMatchesFills
<1> QED BY <1>1, Initial, Always, PTL DEF Spec

\* No order is stuck: the advance at the latest instant its expiry or its cancel can
\* become effective ends it.
THEOREM NoOrderStuck == Spec => []EveryOrderEnds
<1>1. IInv => EveryOrderEnds
  <2>1. SUFFICES ASSUME IInv, NEW o \in Ids(venue), Live(venue.orders[o])
                 PROVE  ~ Live(AdvanceOrder(venue, o, LastInstant(venue.orders[o])).orders[o])
    BY DEF EveryOrderEnds
  <2> DEFINE order == venue.orders[o]
             time  == LastInstant(order)
             x == IF order.status \in {"WORKING", "PARTIALLY_FILLED"} /\ time >= order.expiry
                  THEN RequestCancel(venue, o, order.expiry, TRUE) ELSE venue
             w == AdvanceOrder(venue, o, time)
             status == IF o \in x.expiring THEN "EXPIRED" ELSE "CANCELED"
  <2>2. /\ order \in Order /\ Sound(venue) /\ Reconciled(venue)
        /\ order.status \in {"WORKING", "PARTIALLY_FILLED", "CANCEL_PENDING"}
        /\ order.expiry \in Nat /\ order.cancelAt \in Int /\ CancelLatency \in Nat
    BY <2>1, IdsOf, VenueAssumption
       DEF IInv, Sound, Reconciled, Standing, Order, Live, OrderStatus, Terminal
  <2>3. w = IF x.orders[o].status = "CANCEL_PENDING" /\ time >= x.orders[o].cancelAt
            THEN OrderEnded(x, o, status) ELSE x
    BY DEF AdvanceOrder, OrderEnded
  <2> HIDE DEF w
  <2>4. /\ Sound(x) /\ o \in Ids(x) /\ x.orders[o].status = "CANCEL_PENDING"
        /\ time >= x.orders[o].cancelAt
    <3>1. CASE order.status = "CANCEL_PENDING"
      <4>1. x = venue /\ time = order.cancelAt
        BY <3>1 DEF LastInstant
      <4> QED BY <2>2, <3>1, <4>1
    <3>2. CASE order.status # "CANCEL_PENDING"
      <4>1. time = order.expiry + CancelLatency
        BY <3>2 DEF LastInstant
      <4>2. time >= order.expiry
        BY <2>2, <4>1
      <4>3. x = RequestCancel(venue, o, order.expiry, TRUE)
        BY <2>2, <3>2, <4>2
      <4> HIDE DEF x, time
      <4>4. /\ Sound(x) /\ Solo(venue, x, o)
            /\ x.orders[o].status \in Terminal \cup {"CANCEL_PENDING"}
            /\ x.orders[o].status = "CANCEL_PENDING"
            /\ x.orders[o].cancelAt = order.expiry + CancelLatency
        <5> DEFINE due == order.expiry
        <5>1. due \in Nat /\ x = RequestCancel(venue, o, due, TRUE) /\ Live(order)
          BY <2>1, <2>2, <4>3
        <5> HIDE DEF due, order
        <5>2. Sound(x) /\ Solo(venue, x, o)
          BY <2>2, <5>1, RequestCancelDoes
        <5>3. x.orders[o].status = "CANCEL_PENDING"
          BY <2>2, <5>1, RequestCancelDoes DEF order
        <5>4. x.orders[o].cancelAt = due + CancelLatency
          <6>1. /\ Sound(venue) /\ o \in Ids(venue) /\ due \in Nat /\ TRUE \in BOOLEAN
                /\ Live(venue.orders[o]) /\ venue.orders[o].status # "CANCEL_PENDING"
            BY <2>2, <3>2, <5>1 DEF order
          <6>2. RequestCancel(venue, o, due, TRUE).orders[o].cancelAt = due + CancelLatency
            BY <6>1, RequestCancelDoes, ZenonT(60)
          <6> QED BY <5>1, <6>2
        <5> QED BY <5>2, <5>3, <5>4 DEF due
      <4>5. Ids(x) = 1 .. Len(x.orders) /\ Ids(venue) = 1 .. Len(venue.orders)
        BY <2>2, <4>4, IdsOf DEF Sound
      <4> QED BY <2>1, <2>2, <3>2, <4>1, <4>4, <4>5 DEF Solo
    <3> QED BY <3>1, <3>2
  <2>5. status \in {"EXPIRED", "CANCELED"}
    OBVIOUS
  <2> HIDE DEF x, status
  <2>6. w.orders[o].status = status
    BY <2>3, <2>4, <2>5, EndDoes
  <2> QED BY <2>5, <2>6 DEF w, Live, Terminal
<1> QED BY <1>1, Initial, Always, PTL DEF Spec

\* Whatever races, an ended order never changes nor gets a fill, and a requested cancel
\* is neither withdrawn nor postponed.
THEOREM EndsStay == Spec => EndsAreFinal
<1>1. IInv /\ [Next]_vars =>
         /\ [\A o \in Ids(venue) :
                ~ Live(venue.orders[o]) =>
                   /\ venue'.orders[o] = venue.orders[o]
                   /\ venue'.filled[o] = venue.filled[o]]_vars
         /\ [\A o \in Ids(venue) :
                venue.orders[o].status = "CANCEL_PENDING" =>
                   /\ venue'.orders[o].status \in Terminal \cup {"CANCEL_PENDING"}
                   /\ venue'.orders[o].cancelAt = venue.orders[o].cancelAt]_vars
  BY Calls DEF Follows
<1> QED BY <1>1, Initial, Always, PTL DEF Spec, EndsAreFinal, TerminalIsFinal, CancelIsKept

-----------------------------------------------------------------------------
(* The risk governor.  Clean days are an inductive invariant by themselves,   *)
(* once types and the deadline of a cooldown are known.                       *)

GovernorInv == GovernorTypeOK /\ ActiveMeansClean /\ CooldownHasDeadline

LEMMA DayType == \A t \in Nat : DayOf(t) \in Nat
  BY GovernorAssumption, SMT DEF DayOf

LEMMA GovernorInitInv == GovernorInit => GovernorInv
  BY DEF GovernorInit, GovernorInv, GovernorTypeOK, ActiveMeansClean, CooldownHasDeadline,
         GovernorState, MaxGaps, None

LEMMA GovernorNextInv == GovernorInv /\ [GovernorNext]_governorVars => GovernorInv'
  <1> SUFFICES ASSUME GovernorInv, [GovernorNext]_governorVars PROVE GovernorInv'
    OBVIOUS
  <1> USE DayType, GovernorAssumption
      DEF GovernorInv, GovernorTypeOK, ActiveMeansClean, CooldownHasDeadline,
          GovernorState, MaxGaps, None
  <1>1. ASSUME NEW x \in -MaxTrade .. MaxTrade, RecordTrade(x) PROVE GovernorInv'
    BY <1>1 DEF RecordTrade, TradeRecorded, Streak, Fresh, Rolled, NewDay
  <1>2. CASE ObserveSlippage
    BY <1>2 DEF ObserveSlippage, Transition, Killed
  <1>3. CASE ObserveDataGap
    BY <1>3 DEF ObserveDataGap, Transition, Killed
  <1>4. CASE ObserveDesync
    BY <1>4 DEF ObserveDesync, Transition, Killed
  <1>5. CASE Kill
    BY <1>5 DEF Kill, Transition, Killed
  <1>6. CASE ResetBoundary
    BY <1>6 DEF ResetBoundary, Fresh, Rolled, NewDay
  <1>7. CASE ClockTick
    BY <1>7 DEF ClockTick
  <1>8. CASE UNCHANGED governorVars
    BY <1>8 DEF governorVars
  <1> QED
    BY <1>1, <1>2, <1>3, <1>4, <1>5, <1>6, <1>7, <1>8 DEF GovernorNext

LEMMA GovernorInvariance == GovernorSpec => []GovernorInv
  BY GovernorInitInv, GovernorNextInv, PTL DEF GovernorSpec

\* Every field keeps its type.
THEOREM GovernorTypes == GovernorSpec => []GovernorTypeOK
  BY GovernorInvariance, PTL DEF GovernorInv

\* Unreduced trading excludes a losing streak, a loss and repeated gaps on the
\* governor's day.
THEOREM CleanWhenActive == GovernorSpec => []ActiveMeansClean
  BY GovernorInvariance, PTL DEF GovernorInv

\* A cooldown always has a deadline at most Cooldown away.
THEOREM CooldownEnds == GovernorSpec => []CooldownHasDeadline
  BY GovernorInvariance, PTL DEF GovernorInv

\* A report or boundary call gives ACTIVE back only by rolling the day.
LEMMA Reactivation ==
  GovernorInv /\ [GovernorNext]_governorVars =>
    [riskState # "ACTIVE" /\ riskState' = "ACTIVE" => day # None /\ day' # day]_governorVars
  <1> SUFFICES ASSUME GovernorInv, GovernorNext, riskState # "ACTIVE", riskState' = "ACTIVE"
               PROVE  day # None /\ day' # day
    OBVIOUS
  <1> USE DEF GovernorInv, GovernorTypeOK, GovernorState, MaxGaps, None
  <1>1. ASSUME NEW x \in -MaxTrade .. MaxTrade, RecordTrade(x) PROVE day # None /\ day' # day
    BY <1>1 DEF RecordTrade, TradeRecorded, Streak, Rolled, NewDay
  <1>2. ASSUME ObserveSlippage \/ ObserveDataGap \/ ObserveDesync \/ Kill \/ ClockTick
        PROVE  FALSE
    BY <1>2 DEF ObserveSlippage, ObserveDataGap, ObserveDesync, Kill, ClockTick, Transition
  <1>3. CASE ResetBoundary
    BY <1>3 DEF ResetBoundary, Rolled, NewDay
  <1> QED
    BY <1>1, <1>2, <1>3 DEF GovernorNext

\* Only a new day gives back unreduced trading.
THEOREM ReactivatesByDay == GovernorSpec => OnlyNewDayReactivates
  <1>1. GovernorInv /\ [GovernorNext]_governorVars =>
          [riskState # "ACTIVE" /\ riskState' = "ACTIVE" => day # None /\ day' # day]_governorVars
    BY Reactivation
  <1> QED
    BY <1>1, GovernorInvariance, PTL DEF GovernorSpec, OnlyNewDayReactivates

\* For every limit, cooldown and length of the day the gate is consistent.
THEOREM GateIsConsistent == GovernorSpec => []GateConsistent
  BY GovernorInvariance, PTL DEF GovernorInv, GateConsistent

-----------------------------------------------------------------------------
(* The exit of a position *)

\* What a controller may be shown: any market, in order of time.
Shown == [at : Nat, net : Int, reversal : BOOLEAN,
          fault : {"none", "liquidity", "boundary"}, fills : BOOLEAN]

InTime(stream) == \A i, j \in 1..Len(stream) : i <= j => stream[i].at <= stream[j].at

\* The courses of the three are one recursion.
Watch(kind, hold, c, o) ==
    IF kind = "elastic" THEN ObserveElastic(c, o)
    ELSE IF kind = "runner" THEN ObserveRunner(c, o, hold) ELSE ObserveAdapter(c, o)

Outset(kind) == IF kind = "adapter" THEN AdapterStart ELSE ControllerStart

IsCourse(k, kind, hold, stream, n) ==
    k = [i \in 1..(n + 1) |->
            IF i = 1 THEN Outset(kind) ELSE Watch(kind, hold, k[i - 1], stream[i - 1])]

\* The recursive definition has a meaning for every length.
LEMMA CourseExists ==
    ASSUME NEW kind, NEW hold, NEW stream, NEW n \in Nat
    PROVE  \E k : IsCourse(k, kind, hold, stream, n)
<1> DEFINE T == {m \in Nat : ~ \E k : IsCourse(k, kind, hold, stream, m)}
<1>1. SUFFICES ASSUME T # {} PROVE FALSE
  OBVIOUS
<1>2. PICK m \in T : \A j \in T : m <= j
  BY <1>1, LeastNatural
<1>3. m # 0
  <2>1. IsCourse([i \in 1..1 |-> Outset(kind)], kind, hold, stream, 0)
    BY DEF IsCourse
  <2> QED BY <1>2, <2>1
<1>4. m - 1 \in Nat /\ m \in Nat /\ m - 1 \notin T
  BY <1>2, <1>3
<1>5. PICK k : IsCourse(k, kind, hold, stream, m - 1)
  BY <1>4
<1> DEFINE next == Watch(kind, hold, k[m], stream[m])
           more == [i \in 1..(m + 1) |-> IF i = m + 1 THEN next ELSE k[i]]
<1>6. \A i \in 1..m : k[i] = IF i = 1 THEN Outset(kind) ELSE Watch(kind, hold, k[i - 1], stream[i - 1])
  <2>1. (m - 1) + 1 = m
    BY <1>4
  <2> QED BY <1>5, <2>1 DEF IsCourse
<1>7. \A i \in 1..(m + 1) :
        more[i] = IF i = 1 THEN Outset(kind) ELSE Watch(kind, hold, more[i - 1], stream[i - 1])
  <2>1. TAKE i \in 1..(m + 1)
  <2>2. CASE i = m + 1
    <3>1. i # 1 /\ i - 1 = m /\ m \in 1..(m + 1) /\ m # m + 1
      BY <1>3, <1>4, <2>2
    <3> QED BY <2>2, <3>1
  <2>3. CASE i # m + 1
    <3>1. i \in 1..m /\ (i # 1 => i - 1 \in 1..(m + 1) /\ i - 1 # m + 1)
      BY <1>4, <2>3
    <3> QED BY <1>6, <2>3, <3>1
  <2> QED BY <2>2, <2>3
<1>8. IsCourse(more, kind, hold, stream, m)
  <2> HIDE DEF next
  <2>1. more = [i \in 1..(m + 1) |-> more[i]]
    OBVIOUS
  <2> QED BY <1>7, <2>1 DEF IsCourse
<1> QED BY <1>2, <1>8

\* What the courses are, step by step.
Stepwise(k, kind, hold, stream) ==
    /\ k[1] = Outset(kind)
    /\ \A i \in 1..Len(stream) : k[i + 1] = Watch(kind, hold, k[i], stream[i])

LEMMA CourseSteps ==
    ASSUME NEW kind, NEW hold, NEW stream, Len(stream) \in Nat, NEW k,
           IsCourse(k, kind, hold, stream, Len(stream))
    PROVE  Stepwise(k, kind, hold, stream)
<1> DEFINE n == Len(stream)
<1>1. n \in Nat
  OBVIOUS
<1>2. \A i \in 1..(n + 1) :
        k[i] = IF i = 1 THEN Outset(kind) ELSE Watch(kind, hold, k[i - 1], stream[i - 1])
  BY DEF IsCourse
<1>3. 1 \in 1..(n + 1) /\ \A i \in 1..n : i + 1 \in 1..(n + 1) /\ i + 1 # 1 /\ (i + 1) - 1 = i
  BY <1>1
<1> HIDE DEF n
<1>4. k[1] = Outset(kind)
  BY <1>2, <1>3
<1>5. \A i \in 1..n : k[i + 1] = Watch(kind, hold, k[i], stream[i])
  BY <1>2, <1>3
<1> QED BY <1>4, <1>5 DEF Stepwise, n

LEMMA Courses ==
    ASSUME NEW stream, Len(stream) \in Nat, NEW hold
    PROVE  /\ Stepwise(ElasticCourse(stream), "elastic", 0, stream)
           /\ Stepwise(RunnerCourse(stream, hold), "runner", hold, stream)
           /\ Stepwise(AdapterCourse(stream), "adapter", 0, stream)
<1> DEFINE n == Len(stream)
<1>1. ElasticCourse(stream) = CHOOSE k : IsCourse(k, "elastic", 0, stream, n)
  BY DEF ElasticCourse, IsCourse, Watch, Outset
<1>2. RunnerCourse(stream, hold) = CHOOSE k : IsCourse(k, "runner", hold, stream, n)
  BY DEF RunnerCourse, IsCourse, Watch, Outset
<1>3. AdapterCourse(stream) = CHOOSE k : IsCourse(k, "adapter", 0, stream, n)
  BY DEF AdapterCourse, IsCourse, Watch, Outset
<1>4. \A kind, h : \E k : IsCourse(k, kind, h, stream, n)
  BY CourseExists
<1>5. \A kind, h : IsCourse(CHOOSE k : IsCourse(k, kind, h, stream, n), kind, h, stream, n)
  BY <1>4
<1>6. /\ IsCourse(ElasticCourse(stream), "elastic", 0, stream, n)
      /\ IsCourse(RunnerCourse(stream, hold), "runner", hold, stream, n)
      /\ IsCourse(AdapterCourse(stream), "adapter", 0, stream, n)
  BY <1>1, <1>2, <1>3, <1>5
<1> QED BY <1>6, CourseSteps

-----------------------------------------------------------------------------
(* Peaks *)

Numbered(stream) == \A i \in 1..Len(stream) : stream[i] \in Shown

\* Each observation raises the peak or leaves it.
LEMMA PeakGrows ==
    ASSUME NEW stream, Len(stream) \in Nat, Numbered(stream),
           NEW a \in 1..Len(stream), NEW i \in a..Len(stream)
    PROVE  /\ PeakUpTo(stream, a, i) \in Int
           /\ \A k \in a..i : stream[k].net <= PeakUpTo(stream, a, i)
           /\ i = a => PeakUpTo(stream, a, i) = stream[a].net
           /\ i # a => PeakUpTo(stream, a, i) = IF stream[i].net > PeakUpTo(stream, a, i - 1)
                                                THEN stream[i].net ELSE PeakUpTo(stream, a, i - 1)
<1> DEFINE Nets(j) == {stream[k].net : k \in a..j}
           Peak(j) == PeakUpTo(stream, a, j)
           Top(n, j) == n \in Nets(j) /\ \A m \in Nets(j) : m <= n
<1>1. Len(stream) \in Nat /\ a \in Nat /\ i \in Nat
  OBVIOUS
<1>2. \A k \in a..i : stream[k].net \in Int
  BY <1>1 DEF Numbered, Shown
<1>3. \A j : Peak(j) = CHOOSE n \in Nets(j) : \A m \in Nets(j) : m <= n
  BY DEF PeakUpTo
<1>4. \A j \in a..i : (\E n : Top(n, j)) => Top(Peak(j), j)
  BY <1>3
<1>5. \A j \in a..i : \A n, m : Top(n, j) /\ Top(m, j) => n = m
  <2>1. SUFFICES ASSUME NEW j \in a..i, NEW n, NEW m, Top(n, j), Top(m, j) PROVE n = m
    OBVIOUS
  <2>2. \A x \in Nets(j) : x \in Int
    BY <1>1, <1>2
  <2>3. n \in Int /\ m \in Int /\ n <= m /\ m <= n
    BY <2>1, <2>2
  <2> QED BY <2>3
<1>6. Top(stream[a].net, a)
  <2>1. \A k \in a..a : k = a
    BY <1>1
  <2>2. stream[a].net \in Int /\ a \in a..a
    BY <1>1, <1>2
  <2> QED BY <2>1, <2>2
<1>7. \A j \in a..i : j # a => \A p : Top(p, j - 1) =>
        Top(IF stream[j].net > p THEN stream[j].net ELSE p, j)
  <2>1. SUFFICES ASSUME NEW j \in a..i, j # a, NEW p, Top(p, j - 1)
                 PROVE  Top(IF stream[j].net > p THEN stream[j].net ELSE p, j)
    OBVIOUS
  <2>2. \A k \in a..j : k = j \/ k \in a..(j - 1)
    BY <1>1
  <2>3. a..(j - 1) \subseteq a..i /\ a..(j - 1) \subseteq a..j /\ j \in a..j
    BY <1>1, <2>1
  <2>4. p \in Int /\ stream[j].net \in Int
    BY <1>2, <2>1, <2>3
  <2>5. \A m \in Nets(j) : m \in Int /\ (m = stream[j].net \/ m <= p)
    BY <1>2, <2>1, <2>2, <2>3
  <2>6. p \in Nets(j) /\ stream[j].net \in Nets(j)
    BY <2>1, <2>3
  <2> HIDE DEF Nets
  <2> QED BY <2>4, <2>5, <2>6
<1> HIDE DEF Peak
<1>8. \A j \in a..i : Top(Peak(j), j)
  <2> DEFINE T == {j \in a..i : ~ Top(Peak(j), j)}
  <2>1. SUFFICES ASSUME T # {} PROVE FALSE
    OBVIOUS
  <2>2. T \subseteq Nat
    BY <1>1
  <2> HIDE DEF Top
  <2>3. PICK j \in T : \A k \in T : j <= k
    <3> HIDE DEF T
    <3> QED BY <2>1, <2>2, LeastNatural
  <2>4. j # a
    BY <1>4, <1>6, <2>3
  <2>5. j - 1 \in a..i /\ ~ j <= j - 1
    BY <1>1, <2>3, <2>4
  <2>6. Top(Peak(j - 1), j - 1)
    BY <2>3, <2>5
  <2> QED BY <1>4, <1>7, <2>3, <2>4, <2>6
<1>9. i \in a..i /\ (i # a => i - 1 \in a..i)
  BY <1>1
<1>10. Peak(i) \in Int /\ \A k \in a..i : stream[k].net <= Peak(i)
  <2>1. Top(Peak(i), i)
    BY <1>8, <1>9
  <2> QED BY <1>2, <2>1
<1>11. i = a => Peak(i) = stream[a].net
  BY <1>5, <1>6, <1>8, <1>9
<1>12. i # a => Peak(i) = IF stream[i].net > Peak(i - 1) THEN stream[i].net ELSE Peak(i - 1)
  <2> HIDE DEF Top
  <2> QED BY <1>5, <1>7, <1>8, <1>9
<1> QED BY <1>10, <1>11, <1>12 DEF Peak

\* The market is against the position at k: the flow has turned and the peak stands.
Against(stream, a, k) == stream[k].reversal /\ ~ NewPeak(stream, a, k)

\* It has been since b.
RunFrom(stream, a, b, i) ==
    /\ b \in (a + 1)..i /\ ~ Against(stream, a, b - 1)
    /\ \A k \in b..i : Against(stream, a, k)

\* The peak at i is the one of p.
PeakFrom(stream, a, p, i) ==
    /\ p \in a..i /\ NewPeak(stream, a, p)
    /\ \A k \in (p + 1)..i : ~ NewPeak(stream, a, k)

\* The peak and the run at i follow from those at the observation before.
LEMMA NextPeak ==
    ASSUME NEW stream, Len(stream) \in Nat, Numbered(stream),
           NEW a \in 1..Len(stream), NEW i \in (a + 1)..Len(stream)
    PROVE  /\ NewPeak(stream, a, i) <=> stream[i].net > PeakUpTo(stream, a, i - 1)
           /\ PeakUpTo(stream, a, i) = IF NewPeak(stream, a, i) THEN stream[i].net
                                       ELSE PeakUpTo(stream, a, i - 1)
           /\ Breach(stream, a, i) <=> \/ stream[i].net <= LockedProfit
                                       \/ PeakUpTo(stream, a, i - 1) - stream[i].net >= PeakRetrace
           /\ NewPeak(stream, a, i) => PeakFrom(stream, a, i, i)
           /\ \A p : ~ NewPeak(stream, a, i) /\ PeakFrom(stream, a, p, i - 1)
                        => PeakFrom(stream, a, p, i)
<1> DEFINE old == PeakUpTo(stream, a, i - 1)
           new == PeakUpTo(stream, a, i)
<1>1. a \in Nat /\ i \in Nat /\ Len(stream) \in Nat /\ i # a /\ i \in a..Len(stream)
      /\ i - 1 \in a..Len(stream) /\ i \in 1..Len(stream)
  OBVIOUS
<1>2. NewPeak(stream, a, i) <=> stream[i].net > old
  BY <1>1 DEF NewPeak
<1>3. old \in Int /\ stream[i].net \in Int
  BY <1>1, PeakGrows DEF Numbered, Shown
<1>4. new = IF stream[i].net > old THEN stream[i].net ELSE old
  BY <1>1, PeakGrows
<1>5. Breach(stream, a, i) <=> stream[i].net <= LockedProfit \/ new - stream[i].net >= PeakRetrace
  BY DEF Breach
<1> HIDE DEF old, new
<1>6. Breach(stream, a, i) <=> stream[i].net <= LockedProfit \/ old - stream[i].net >= PeakRetrace
  <2>1. new - stream[i].net >= PeakRetrace <=> old - stream[i].net >= PeakRetrace
    BY <1>3, <1>4 DEF PeakRetrace
  <2> QED BY <1>5, <2>1
<1>7. NewPeak(stream, a, i) => PeakFrom(stream, a, i, i)
  <2>1. i \in a..i /\ (i + 1)..i = {}
    BY <1>1
  <2> QED BY <2>1 DEF PeakFrom
<1>8. \A p : ~ NewPeak(stream, a, i) /\ PeakFrom(stream, a, p, i - 1) => PeakFrom(stream, a, p, i)
  <2>1. SUFFICES ASSUME NEW p, ~ NewPeak(stream, a, i), PeakFrom(stream, a, p, i - 1)
                 PROVE  PeakFrom(stream, a, p, i)
    OBVIOUS
  <2>2. p \in a..(i - 1)
    BY <2>1 DEF PeakFrom
  <2>3. p \in a..i /\ \A k \in (p + 1)..i : k = i \/ k \in (p + 1)..(i - 1)
    BY <1>1, <2>2
  <2> QED BY <2>1, <2>3 DEF PeakFrom
<1> QED BY <1>2, <1>4, <1>6, <1>7, <1>8 DEF old, new

LEMMA NextRun ==
    ASSUME NEW stream, Len(stream) \in Nat, NEW a \in 1..Len(stream),
           NEW i \in (a + 1)..Len(stream), Against(stream, a, i)
    PROVE  /\ ~ Against(stream, a, i - 1) => RunFrom(stream, a, i, i)
           /\ \A b : RunFrom(stream, a, b, i - 1) => RunFrom(stream, a, b, i)
<1>1. a \in Nat /\ i \in Nat
  OBVIOUS
<1>2. ~ Against(stream, a, i - 1) => RunFrom(stream, a, i, i)
  <2>1. i \in (a + 1)..i /\ \A k \in i..i : k = i
    BY <1>1
  <2> QED BY <2>1 DEF RunFrom
<1>3. \A b : RunFrom(stream, a, b, i - 1) => RunFrom(stream, a, b, i)
  <2>1. SUFFICES ASSUME NEW b, RunFrom(stream, a, b, i - 1) PROVE RunFrom(stream, a, b, i)
    OBVIOUS
  <2>2. b \in (a + 1)..(i - 1)
    BY <2>1 DEF RunFrom
  <2>3. b \in (a + 1)..i /\ \A k \in b..i : k = i \/ k \in b..(i - 1)
    BY <1>1, <2>2
  <2> QED BY <2>1, <2>3 DEF RunFrom
<1> QED BY <1>2, <1>3

\* A reversal has lasted if the run it belongs to began long enough ago.
LEMMA TurnedMeans ==
    ASSUME NEW stream, Len(stream) \in Nat, Numbered(stream), InTime(stream),
           NEW a \in 1..Len(stream), NEW i \in (a + 1)..Len(stream)
    PROVE  /\ ~ Against(stream, a, i) \/ ~ Against(stream, a, i - 1)
                => ~ \E b \in 1..i : Turned(stream, a, b, i)
           /\ \A b : Against(stream, a, i) /\ RunFrom(stream, a, b, i - 1)
                => ((\E d \in 1..i : Turned(stream, a, d, i))
                      <=> stream[i].at >= stream[b].at + Confirmation)
<1>1. a \in Nat /\ i \in Nat /\ 1 <= a /\ a < i /\ i <= Len(stream) /\ Len(stream) \in Nat
  OBVIOUS
<1>2. ASSUME NEW d \in 1..i, Turned(stream, a, d, i)
      PROVE  d \in (a + 1)..(i - 1) /\ \A k \in d..i : Against(stream, a, k)
  <2>1. a < d /\ d < i /\ \A k \in d..i : Against(stream, a, k)
    BY <1>2 DEF Turned, Against
  <2> QED BY <1>1, <2>1
<1>3. ~ Against(stream, a, i) \/ ~ Against(stream, a, i - 1) => ~ \E b \in 1..i : Turned(stream, a, b, i)
  <2>1. \A d \in (a + 1)..(i - 1) : i \in d..i /\ i - 1 \in d..i
    BY <1>1
  <2> QED BY <1>2, <2>1
<1>4. ASSUME NEW b, Against(stream, a, i), RunFrom(stream, a, b, i - 1)
      PROVE  (\E d \in 1..i : Turned(stream, a, d, i)) <=> stream[i].at >= stream[b].at + Confirmation
  <2>1. b \in (a + 1)..(i - 1) /\ ~ Against(stream, a, b - 1)
    BY <1>4 DEF RunFrom
  <2>2. b \in Nat /\ a < b /\ b < i /\ b \in 1..Len(stream) /\ i \in 1..Len(stream) /\ b \in 1..i
    BY <1>1, <2>1
  <2>3. stream[b].at \in Nat /\ stream[i].at \in Nat
    BY <2>2 DEF Numbered, Shown
  <2>4. stream[i].at - stream[b].at >= Confirmation <=> stream[i].at >= stream[b].at + Confirmation
    BY <2>3 DEF Confirmation
  <2>5. ASSUME stream[i].at >= stream[b].at + Confirmation PROVE Turned(stream, a, b, i)
    <3>1. RunFrom(stream, a, b, i)
      BY <1>4, NextRun
    <3>2. \A k \in b..i : stream[k].reversal /\ ~ NewPeak(stream, a, k)
      BY <3>1 DEF RunFrom, Against
    <3> QED BY <2>2, <2>4, <2>5, <3>2 DEF Turned
  <2>6. ASSUME NEW d \in 1..i, Turned(stream, a, d, i)
        PROVE  stream[i].at >= stream[b].at + Confirmation
    <3>1. d \in (a + 1)..(i - 1) /\ \A k \in d..i : Against(stream, a, k)
      BY <1>2, <2>6
    <3>2. ~ d < b
      <4>1. SUFFICES ASSUME d < b PROVE FALSE
        OBVIOUS
      <4>2. b - 1 \in d..i
        BY <1>1, <2>2, <3>1, <4>1
      <4> QED BY <2>1, <3>1, <4>2
    <3>3. d \in 1..Len(stream) /\ b <= d
      BY <1>1, <2>2, <3>1, <3>2
    <3>4. stream[b].at <= stream[d].at /\ stream[d].at \in Nat
      BY <2>2, <3>3 DEF InTime, Numbered, Shown
    <3>5. stream[i].at - stream[d].at >= Confirmation
      BY <2>6 DEF Turned
    <3> QED BY <2>3, <3>4, <3>5 DEF Confirmation
  <2> QED BY <2>2, <2>5, <2>6
<1> QED BY <1>3, <1>4

\* The peak is too old if the last one is.
LEMMA StaleMeans ==
    ASSUME NEW stream, Len(stream) \in Nat, Numbered(stream),
           NEW a \in 1..Len(stream), NEW i \in (a + 1)..Len(stream)
    PROVE  /\ NewPeak(stream, a, i) => ~ \E b \in a..(i - 1) : Stale(stream, a, b, i)
           /\ \A p : ~ NewPeak(stream, a, i) /\ PeakFrom(stream, a, p, i - 1)
                => /\ \A b \in a..(i - 1) : Stale(stream, a, b, i) => b = p
                   /\ (\E b \in a..(i - 1) : Stale(stream, a, b, i))
                        <=> stream[i].at >= stream[p].at + Grace
<1>1. a \in Nat /\ i \in Nat /\ 1 <= a /\ a < i /\ i <= Len(stream) /\ Len(stream) \in Nat
  OBVIOUS
<1>2. NewPeak(stream, a, i) => ~ \E b \in a..(i - 1) : Stale(stream, a, b, i)
  <2>1. \A b \in a..(i - 1) : i \in (b + 1)..i
    BY <1>1
  <2> QED BY <2>1 DEF Stale
<1>3. ASSUME NEW p, ~ NewPeak(stream, a, i), PeakFrom(stream, a, p, i - 1)
      PROVE  /\ \A b \in a..(i - 1) : Stale(stream, a, b, i) => b = p
             /\ (\E b \in a..(i - 1) : Stale(stream, a, b, i))
                  <=> stream[i].at >= stream[p].at + Grace
  <2>1. PeakFrom(stream, a, p, i)
    <3>1. \A q : ~ NewPeak(stream, a, i) /\ PeakFrom(stream, a, q, i - 1) => PeakFrom(stream, a, q, i)
      BY NextPeak
    <3> QED BY <1>3, <3>1
  <2>2. p \in a..(i - 1) /\ NewPeak(stream, a, p) /\ \A k \in (p + 1)..i : ~ NewPeak(stream, a, k)
    BY <1>3, <2>1 DEF PeakFrom
  <2>3. p \in Nat /\ a <= p /\ p < i /\ p \in 1..Len(stream) /\ i \in 1..Len(stream)
    BY <1>1, <2>2
  <2>4. ASSUME NEW b, Stale(stream, a, b, i), b \in a..(i - 1) PROVE b = p
    <3>1. NewPeak(stream, a, b) /\ \A k \in (b + 1)..i : ~ NewPeak(stream, a, k)
      BY <2>4 DEF Stale
    <3>2. ~ b < p
      <4>1. b < p => p \in (b + 1)..i
        BY <2>3, <2>4
      <4> QED BY <2>2, <3>1, <4>1
    <3>3. ~ p < b
      <4>1. p < b => b \in (p + 1)..i
        BY <1>1, <2>3, <2>4
      <4> QED BY <2>2, <3>1, <4>1
    <3> QED BY <2>3, <2>4, <3>2, <3>3
  <2>5. stream[p].at \in Nat /\ stream[i].at \in Nat
    BY <2>3 DEF Numbered, Shown
  <2>6. Stale(stream, a, p, i) <=> stream[i].at >= stream[p].at + Grace
    <3>1. stream[i].at - stream[p].at >= Grace <=> stream[i].at >= stream[p].at + Grace
      BY <2>5 DEF Grace
    <3> QED BY <2>2, <2>3, <3>1 DEF Stale
  <2> QED BY <2>2, <2>4, <2>6
<1> QED BY <1>2, <1>3

-----------------------------------------------------------------------------
(* What a controller does with what it is shown *)

Controller(state, peak, armed, deadline, reversal, reason) ==
    [state |-> state, peak |-> peak, armed |-> armed, deadline |-> deadline,
     reversal |-> reversal, reason |-> reason]

\* A controller with one field changed.
PutState(c, x)    == [c EXCEPT !.state = x]
PutPeak(c, x)     == [c EXCEPT !.peak = x]
PutArmed(c, x)    == [c EXCEPT !.armed = x]
PutDeadline(c, x) == [c EXCEPT !.deadline = x]
PutReversal(c, x) == [c EXCEPT !.reversal = x]
PutReason(c, x)   == [c EXCEPT !.reason = x]

LEMMA Puts ==
    \A state, peak, armed, deadline, reversal, reason, x :
        /\ PutState(Controller(state, peak, armed, deadline, reversal, reason), x)
             = Controller(x, peak, armed, deadline, reversal, reason)
        /\ PutPeak(Controller(state, peak, armed, deadline, reversal, reason), x)
             = Controller(state, x, armed, deadline, reversal, reason)
        /\ PutArmed(Controller(state, peak, armed, deadline, reversal, reason), x)
             = Controller(state, peak, x, deadline, reversal, reason)
        /\ PutDeadline(Controller(state, peak, armed, deadline, reversal, reason), x)
             = Controller(state, peak, armed, x, reversal, reason)
        /\ PutReversal(Controller(state, peak, armed, deadline, reversal, reason), x)
             = Controller(state, peak, armed, deadline, x, reason)
        /\ PutReason(Controller(state, peak, armed, deadline, reversal, reason), x)
             = Controller(state, peak, armed, deadline, reversal, x)
<1>1. TAKE state, peak, armed, deadline, reversal, reason, x
<1> DEFINE c == Controller(state, peak, armed, deadline, reversal, reason)
<1>2. PutState(c, x) = Controller(x, peak, armed, deadline, reversal, reason)
  BY SMT DEF Controller, PutState
<1>3. PutPeak(c, x) = Controller(state, x, armed, deadline, reversal, reason)
  BY SMT DEF Controller, PutPeak
<1>4. PutArmed(c, x) = Controller(state, peak, x, deadline, reversal, reason)
  BY SMT DEF Controller, PutArmed
<1>5. PutDeadline(c, x) = Controller(state, peak, armed, x, reversal, reason)
  BY SMT DEF Controller, PutDeadline
<1>6. PutReversal(c, x) = Controller(state, peak, armed, deadline, x, reason)
  BY SMT DEF Controller, PutReversal
<1>7. PutReason(c, x) = Controller(state, peak, armed, deadline, reversal, x)
  BY SMT DEF Controller, PutReason
<1> QED BY <1>2, <1>3, <1>4, <1>5, <1>6, <1>7

\* The fields of a controller.
LEMMA Fields ==
    \A state, peak, armed, deadline, reversal, reason :
        LET c == Controller(state, peak, armed, deadline, reversal, reason)
        IN  /\ c.state = state /\ c.peak = peak /\ c.armed = armed
            /\ c.deadline = deadline /\ c.reversal = reversal /\ c.reason = reason
BY DEF Controller

LEMMA Handlers ==
    \A c, o, why :
        /\ Leave(c, why) = PutReason(PutState(c, "EXIT_REQUESTED"), why)
        /\ SetPeak(c, o) = PutReversal(PutDeadline(PutPeak(c, <<o.net>>), <<o.at + Grace>>), <<>>)
        /\ [c EXCEPT !.state = "FAILSAFE", !.reason = why] = PutReason(PutState(c, "FAILSAFE"), why)
        /\ [c EXCEPT !.state = "REVERSAL_PENDING", !.reversal = <<o.at>>]
             = PutReversal(PutState(c, "REVERSAL_PENDING"), <<o.at>>)
        /\ [c EXCEPT !.state = "EXTENDING", !.reversal = <<>>]
             = PutReversal(PutState(c, "EXTENDING"), <<>>)
        /\ [SetPeak(c, o) EXCEPT !.state = "EXTENDING"] = PutState(SetPeak(c, o), "EXTENDING")
        /\ [SetPeak(c, o) EXCEPT !.state = "ARMED", !.armed = <<o.at>>]
             = PutArmed(PutState(SetPeak(c, o), "ARMED"), <<o.at>>)
<1>1. TAKE c, o, why
<1>2. Leave(c, why) = PutReason(PutState(c, "EXIT_REQUESTED"), why)
  BY Zenon DEF Leave, PutReason, PutState
<1>3. SetPeak(c, o) = PutReversal(PutDeadline(PutPeak(c, <<o.net>>), <<o.at + Grace>>), <<>>)
  BY Zenon DEF SetPeak, PutReversal, PutDeadline, PutPeak
<1>4. [c EXCEPT !.state = "FAILSAFE", !.reason = why] = PutReason(PutState(c, "FAILSAFE"), why)
  BY Zenon DEF PutReason, PutState
<1>5. [c EXCEPT !.state = "REVERSAL_PENDING", !.reversal = <<o.at>>]
        = PutReversal(PutState(c, "REVERSAL_PENDING"), <<o.at>>)
  BY Zenon DEF PutReversal, PutState
<1>6. [c EXCEPT !.state = "EXTENDING", !.reversal = <<>>]
        = PutReversal(PutState(c, "EXTENDING"), <<>>)
  BY Zenon DEF PutReversal, PutState
<1>7. [SetPeak(c, o) EXCEPT !.state = "EXTENDING"] = PutState(SetPeak(c, o), "EXTENDING")
  BY Zenon DEF PutState
<1>8. [SetPeak(c, o) EXCEPT !.state = "ARMED", !.armed = <<o.at>>]
        = PutArmed(PutState(SetPeak(c, o), "ARMED"), <<o.at>>)
  BY Zenon DEF PutArmed, PutState
<1> QED BY <1>2, <1>3, <1>4, <1>5, <1>6, <1>7, <1>8

\* The same on the fields.
Changed(c, o, state, peak, armed, deadline, reversal, reason) ==
    /\ \A why : Leave(c, why) = Controller("EXIT_REQUESTED", peak, armed, deadline, reversal, why)
    /\ \A why : [c EXCEPT !.state = "FAILSAFE", !.reason = why]
                  = Controller("FAILSAFE", peak, armed, deadline, reversal, why)
    /\ [c EXCEPT !.state = "REVERSAL_PENDING", !.reversal = <<o.at>>]
         = Controller("REVERSAL_PENDING", peak, armed, deadline, <<o.at>>, reason)
    /\ [c EXCEPT !.state = "EXTENDING", !.reversal = <<>>]
         = Controller("EXTENDING", peak, armed, deadline, <<>>, reason)
    /\ [SetPeak(c, o) EXCEPT !.state = "EXTENDING"]
         = Controller("EXTENDING", <<o.net>>, armed, <<o.at + Grace>>, <<>>, reason)
    /\ [SetPeak(c, o) EXCEPT !.state = "ARMED", !.armed = <<o.at>>]
         = Controller("ARMED", <<o.net>>, <<o.at>>, <<o.at + Grace>>, <<>>, reason)

LEMMA Changes ==
    ASSUME NEW state, NEW peak, NEW armed, NEW deadline, NEW reversal, NEW reason, NEW o,
           NEW c, c = Controller(state, peak, armed, deadline, reversal, reason)
    PROVE  Changed(c, o, state, peak, armed, deadline, reversal, reason)
<1> DEFINE C(st, rv, why) == Controller(st, peak, armed, deadline, rv, why)
           net == <<o.net>>
           due == <<o.at + Grace>>
           latest == <<o.at>>
           none == <<>>
<1>1. /\ \A why : Leave(c, why) = PutReason(PutState(c, "EXIT_REQUESTED"), why)
      /\ SetPeak(c, o) = PutReversal(PutDeadline(PutPeak(c, net), due), none)
      /\ \A why : [c EXCEPT !.state = "FAILSAFE", !.reason = why] = PutReason(PutState(c, "FAILSAFE"), why)
      /\ [c EXCEPT !.state = "REVERSAL_PENDING", !.reversal = latest]
           = PutReversal(PutState(c, "REVERSAL_PENDING"), latest)
      /\ [c EXCEPT !.state = "EXTENDING", !.reversal = none] = PutReversal(PutState(c, "EXTENDING"), none)
      /\ [SetPeak(c, o) EXCEPT !.state = "EXTENDING"] = PutState(SetPeak(c, o), "EXTENDING")
      /\ [SetPeak(c, o) EXCEPT !.state = "ARMED", !.armed = latest]
           = PutArmed(PutState(SetPeak(c, o), "ARMED"), latest)
  BY Handlers, Zenon
<1> HIDE DEF net, due, latest, none
<1>2. \A st, rv : /\ PutReversal(PutState(c, st), rv) = C(st, rv, reason)
                  /\ PutReason(PutState(c, st), rv) = C(st, reversal, rv)
  BY Puts
<1>3. PutReversal(PutDeadline(PutPeak(c, net), due), none)
        = Controller(state, net, armed, due, none, reason)
  BY Puts
<1> DEFINE top == PutReversal(PutDeadline(PutPeak(c, net), due), none)
<1>4. /\ PutState(top, "EXTENDING") = Controller("EXTENDING", net, armed, due, none, reason)
      /\ PutArmed(PutState(top, "ARMED"), latest) = Controller("ARMED", net, latest, due, none, reason)
  BY <1>3, Puts
<1>5. \A why : Leave(c, why) = C("EXIT_REQUESTED", reversal, why)
  <2>1. TAKE why
  <2>2. Leave(c, why) = PutReason(PutState(c, "EXIT_REQUESTED"), why)
    BY <1>1, Zenon
  <2>3. PutReason(PutState(c, "EXIT_REQUESTED"), why) = C("EXIT_REQUESTED", reversal, why)
    BY <1>2
  <2> HIDE DEF C
  <2> QED BY <2>2, <2>3, Zenon
<1>6. \A why : [c EXCEPT !.state = "FAILSAFE", !.reason = why] = C("FAILSAFE", reversal, why)
  <2>1. TAKE why
  <2>2. [c EXCEPT !.state = "FAILSAFE", !.reason = why] = PutReason(PutState(c, "FAILSAFE"), why)
    BY <1>1, Zenon
  <2>3. PutReason(PutState(c, "FAILSAFE"), why) = C("FAILSAFE", reversal, why)
    BY <1>2
  <2> HIDE DEF C
  <2> QED BY <2>2, <2>3, Zenon
<1>7. [c EXCEPT !.state = "REVERSAL_PENDING", !.reversal = latest] = C("REVERSAL_PENDING", latest, reason)
  BY <1>1, <1>2, Zenon
<1>8. [c EXCEPT !.state = "EXTENDING", !.reversal = none] = C("EXTENDING", none, reason)
  BY <1>1, <1>2, Zenon
<1>9. [SetPeak(c, o) EXCEPT !.state = "EXTENDING"] = Controller("EXTENDING", net, armed, due, none, reason)
  BY <1>1, <1>4, Zenon
<1>10. [SetPeak(c, o) EXCEPT !.state = "ARMED", !.armed = latest]
         = Controller("ARMED", net, latest, due, none, reason)
  BY <1>1, <1>4, Zenon
<1> QED BY <1>5, <1>6, <1>7, <1>8, <1>9, <1>10, Zenon DEF Changed, net, due, latest, none

\* What observe makes of a controller that is armed.
Pended(c, o, peak, armed, due, reversal) ==
    IF reversal = <<>>
      THEN Controller("REVERSAL_PENDING", <<peak>>, armed, <<due>>, <<o.at>>, "none")
    ELSE IF o.at >= reversal[1] + Confirmation
      THEN Controller("EXIT_REQUESTED", <<peak>>, armed, <<due>>, reversal,
                      "REVERSAL_CONFIRMED_150MS")
    ELSE c

ElasticNext(c, o, peak, armed, due, reversal) ==
    IF o.fault = "liquidity"
      THEN Controller("FAILSAFE", <<peak>>, armed, <<due>>, reversal, "LIQUIDITY_EXIT_FAILSAFE")
    ELSE IF o.net <= LockedProfit \/ peak - o.net >= PeakRetrace
      THEN Controller("EXIT_REQUESTED", <<peak>>, armed, <<due>>, reversal, "HARD_PROFIT_FLOOR")
    ELSE IF o.net > peak
      THEN Controller("EXTENDING", <<o.net>>, armed, <<o.at + Grace>>, <<>>, "none")
    ELSE IF o.reversal
      THEN Pended(c, o, peak, armed, due, reversal)
    ELSE IF o.at >= due
      THEN Controller("EXIT_REQUESTED", <<peak>>, armed, <<due>>, <<>>, "NO_NEW_PEAK_300MS")
    ELSE Controller("EXTENDING", <<peak>>, armed, <<due>>, <<>>, "none")

RunnerNext(c, o, hold, peak, start, due, reversal) ==
    IF o.fault = "boundary"
      THEN Controller("FAILSAFE", <<peak>>, <<start>>, <<due>>, reversal, "CAPTURE_BOUNDARY_INVALID")
    ELSE IF o.fault = "liquidity"
      THEN Controller("FAILSAFE", <<peak>>, <<start>>, <<due>>, reversal, "LIQUIDITY_EXIT_FAILSAFE")
    ELSE IF o.net <= LockedProfit \/ peak - o.net >= PeakRetrace
      THEN Controller("EXIT_REQUESTED", <<peak>>, <<start>>, <<due>>, reversal, "HARD_PROFIT_FLOOR")
    ELSE IF o.at >= start + hold
      THEN Controller("EXIT_REQUESTED", <<peak>>, <<start>>, <<due>>, reversal, "MAX_HOLD")
    ELSE IF o.net > peak
      THEN Controller("EXTENDING", <<o.net>>, <<start>>, <<o.at + Grace>>, <<>>, "none")
    ELSE IF o.reversal
      THEN Pended(c, o, peak, <<start>>, due, reversal)
    ELSE Controller("EXTENDING", <<peak>>, <<start>>, <<due>>, <<>>, "none")

LEMMA ArmedController ==
    ASSUME NEW state \in {"ARMED", "EXTENDING", "REVERSAL_PENDING"}, NEW peak, NEW armed, NEW due,
           NEW reversal, NEW c, c = Controller(state, <<peak>>, armed, <<due>>, reversal, "none")
    PROVE  /\ ~ Ended(c) /\ c.state # "DISARMED" /\ c.peak[1] = peak /\ c.deadline[1] = due
           /\ c.reversal = reversal /\ c.armed = armed
<1>1. c.state = state /\ c.peak = <<peak>> /\ c.deadline = <<due>> /\ c.reversal = reversal
      /\ c.armed = armed
  BY Fields
<1> QED BY <1>1 DEF Ended

LEMMA PendedReversal ==
    ASSUME NEW state \in {"ARMED", "EXTENDING", "REVERSAL_PENDING"}, NEW peak, NEW armed, NEW due,
           NEW reversal, NEW o, NEW c, c = Controller(state, <<peak>>, armed, <<due>>, reversal, "none")
    PROVE  PendReversal(c, o) =
             Pended(c, o, peak, armed, due, reversal)
<1> DEFINE pending == [c EXCEPT !.state = "REVERSAL_PENDING", !.reversal = <<o.at>>]
<1>1. PendReversal(c, o) =
        IF c.reversal = <<>> THEN pending
        ELSE IF o.at >= c.reversal[1] + Confirmation THEN Leave(c, "REVERSAL_CONFIRMED_150MS") ELSE c
  BY Zenon DEF PendReversal
<1>2. Changed(c, o, state, <<peak>>, armed, <<due>>, reversal, "none")
  BY Changes
<1>3. /\ pending = Controller("REVERSAL_PENDING", <<peak>>, armed, <<due>>, <<o.at>>, "none")
      /\ Leave(c, "REVERSAL_CONFIRMED_150MS")
           = Controller("EXIT_REQUESTED", <<peak>>, armed, <<due>>, reversal, "REVERSAL_CONFIRMED_150MS")
  BY <1>2, Zenon DEF Changed
<1>4. c.reversal = reversal
  BY ArmedController
<1> HIDE DEF pending
<1> QED BY <1>1, <1>3, <1>4 DEF Pended

LEMMA ElasticCases ==
    ASSUME NEW state \in {"ARMED", "EXTENDING", "REVERSAL_PENDING"}, NEW peak, NEW armed, NEW due,
           NEW reversal, NEW o, NEW c, c = Controller(state, <<peak>>, armed, <<due>>, reversal, "none")
    PROVE  ObserveElastic(c, o) = ElasticNext(c, o, peak, armed, due, reversal)
<1> DEFINE failsafe == [c EXCEPT !.state = "FAILSAFE", !.reason = "LIQUIDITY_EXIT_FAILSAFE"]
           raised == [SetPeak(c, o) EXCEPT !.state = "EXTENDING"]
           extended == [c EXCEPT !.state = "EXTENDING", !.reversal = <<>>]
           floor == Leave(c, "HARD_PROFIT_FLOOR")
           pended == PendReversal(c, o)
           out == Leave(extended, "NO_NEW_PEAK_300MS")
<1>1. /\ ~ Ended(c) /\ c.state # "DISARMED" /\ c.peak[1] = peak /\ c.deadline[1] = due
  BY ArmedController
<1>2. Changed(c, o, state, <<peak>>, armed, <<due>>, reversal, "none")
  BY Changes
<1>3. /\ failsafe = Controller("FAILSAFE", <<peak>>, armed, <<due>>, reversal, "LIQUIDITY_EXIT_FAILSAFE")
      /\ raised = Controller("EXTENDING", <<o.net>>, armed, <<o.at + Grace>>, <<>>, "none")
      /\ extended = Controller("EXTENDING", <<peak>>, armed, <<due>>, <<>>, "none")
      /\ floor = Controller("EXIT_REQUESTED", <<peak>>, armed, <<due>>, reversal, "HARD_PROFIT_FLOOR")
  BY <1>2, Zenon DEF Changed
<1>4. Changed(extended, o, "EXTENDING", <<peak>>, armed, <<due>>, <<>>, "none")
  <2> HIDE DEF extended
  <2> QED BY <1>3, Changes
<1>5. out = Controller("EXIT_REQUESTED", <<peak>>, armed, <<due>>, <<>>, "NO_NEW_PEAK_300MS")
  <2> HIDE DEF extended
  <2> QED BY <1>4, Zenon DEF Changed
<1>6. pended = Pended(c, o, peak, armed, due, reversal)
  BY PendedReversal
<1>7. ExtendOrTimeOut(c, o) = IF o.at >= c.deadline[1] THEN out ELSE extended
  BY Zenon DEF ExtendOrTimeOut
<1>8. ObserveElastic(c, o) =
        IF o.fault = "liquidity" THEN failsafe
        ELSE IF Breaches(c, o) THEN floor
        ELSE IF o.net > c.peak[1] THEN raised
        ELSE IF o.reversal THEN pended
        ELSE ExtendOrTimeOut(c, o)
  BY <1>1, Zenon DEF ObserveElastic
<1>9. Breaches(c, o) <=> o.net <= LockedProfit \/ peak - o.net >= PeakRetrace
  BY <1>1 DEF Breaches
<1> HIDE DEF failsafe, raised, extended, floor, pended, out
<1> QED BY <1>1, <1>3, <1>5, <1>6, <1>7, <1>8, <1>9 DEF ElasticNext

LEMMA RunnerCases ==
    ASSUME NEW state \in {"ARMED", "EXTENDING", "REVERSAL_PENDING"}, NEW peak, NEW start, NEW due,
           NEW reversal, NEW o, NEW hold,
           NEW c, c = Controller(state, <<peak>>, <<start>>, <<due>>, reversal, "none")
    PROVE  ObserveRunner(c, o, hold) = RunnerNext(c, o, hold, peak, start, due, reversal)
<1> DEFINE failsafe(why) == [c EXCEPT !.state = "FAILSAFE", !.reason = why]
           boundary == failsafe("CAPTURE_BOUNDARY_INVALID")
           liquidity == failsafe("LIQUIDITY_EXIT_FAILSAFE")
           raised == [SetPeak(c, o) EXCEPT !.state = "EXTENDING"]
           extended == [c EXCEPT !.state = "EXTENDING", !.reversal = <<>>]
           floor == Leave(c, "HARD_PROFIT_FLOOR")
           held == Leave(c, "MAX_HOLD")
           pended == PendReversal(c, o)
<1>1. /\ ~ Ended(c) /\ c.state # "DISARMED" /\ c.peak[1] = peak /\ c.armed[1] = start
  BY ArmedController
<1>2. Changed(c, o, state, <<peak>>, <<start>>, <<due>>, reversal, "none")
  BY Changes
<1>3. /\ boundary = Controller("FAILSAFE", <<peak>>, <<start>>, <<due>>, reversal, "CAPTURE_BOUNDARY_INVALID")
      /\ liquidity = Controller("FAILSAFE", <<peak>>, <<start>>, <<due>>, reversal, "LIQUIDITY_EXIT_FAILSAFE")
      /\ raised = Controller("EXTENDING", <<o.net>>, <<start>>, <<o.at + Grace>>, <<>>, "none")
      /\ extended = Controller("EXTENDING", <<peak>>, <<start>>, <<due>>, <<>>, "none")
      /\ floor = Controller("EXIT_REQUESTED", <<peak>>, <<start>>, <<due>>, reversal, "HARD_PROFIT_FLOOR")
      /\ held = Controller("EXIT_REQUESTED", <<peak>>, <<start>>, <<due>>, reversal, "MAX_HOLD")
  BY <1>2, Zenon DEF Changed
<1>6. pended = Pended(c, o, peak, <<start>>, due, reversal)
  BY PendedReversal
<1>8. ObserveRunner(c, o, hold) =
        IF o.fault = "boundary" THEN boundary
        ELSE IF o.fault = "liquidity" THEN liquidity
        ELSE IF Breaches(c, o) THEN floor
        ELSE IF o.at >= c.armed[1] + hold THEN held
        ELSE IF o.net > c.peak[1] THEN raised
        ELSE IF o.reversal THEN pended
        ELSE extended
  BY <1>1, Zenon DEF ObserveRunner
<1>9. Breaches(c, o) <=> o.net <= LockedProfit \/ peak - o.net >= PeakRetrace
  BY <1>1 DEF Breaches
<1> HIDE DEF boundary, liquidity, raised, extended, floor, held, pended
<1> QED BY <1>1, <1>3, <1>6, <1>8, <1>9 DEF RunnerNext

-----------------------------------------------------------------------------
(* What a controller knows of what it was shown *)

Awake == {"ARMED", "EXTENDING", "REVERSAL_PENDING"}

\* Since the activation at a it holds the peak and its time, and since when the market has
\* been against the position.
RunKnown(stream, a, i, reversal) ==
    /\ ~ Against(stream, a, i) => reversal = <<>>
    /\ Against(stream, a, i) => \E b : RunFrom(stream, a, b, i) /\ reversal = <<stream[b].at>>

Tracks(c, stream, a, i) ==
    \E state \in Awake, p \in a..i : \E reversal :
        /\ c = Controller(state, <<PeakUpTo(stream, a, i)>>, <<stream[a].at>>,
                          <<stream[p].at + Grace>>, reversal, "none")
        /\ PeakFrom(stream, a, p, i)
        /\ RunKnown(stream, a, i, reversal)

Faults(kind) == IF kind = "elastic" THEN ElasticFaults ELSE RunnerFaults

Left(c, peak, why) == Ended(c) /\ c.peak = <<peak>> /\ c.reason = why

\* The controller leaves at observation i for the first reason that holds there.
HasTurned(stream, a, i) == \E b \in 1..i : Turned(stream, a, b, i)
IsStale(stream, a, i)   == \E b \in a..(i - 1) : Stale(stream, a, b, i)

Outcome(kind, hold, c, stream, a, i) ==
    LET peak == PeakUpTo(stream, a, i - 1)
    IN  IF stream[i].fault \in Faults(kind)
          THEN Ended(c) /\ c.reason \in {"LIQUIDITY_EXIT_FAILSAFE", "CAPTURE_BOUNDARY_INVALID"}
        ELSE IF Breach(stream, a, i) THEN Left(c, peak, "HARD_PROFIT_FLOOR")
        ELSE IF kind = "runner" /\ stream[i].at >= stream[a].at + hold THEN Left(c, peak, "MAX_HOLD")
        ELSE IF HasTurned(stream, a, i) THEN Left(c, peak, "REVERSAL_CONFIRMED_150MS")
        ELSE IF kind = "elastic" /\ IsStale(stream, a, i) /\ ~ stream[i].reversal
          THEN Left(c, peak, "NO_NEW_PEAK_300MS")
        ELSE Tracks(c, stream, a, i)

LEMMA Leaving ==
    ASSUME NEW state \in {"EXIT_REQUESTED", "FAILSAFE"}, NEW peak, NEW armed, NEW deadline,
           NEW reversal, NEW reason, NEW c,
           c = Controller(state, <<peak>>, armed, deadline, reversal, reason)
    PROVE  Left(c, peak, reason)
<1>1. c.state = state /\ c.peak = <<peak>> /\ c.reason = reason
  BY Fields
<1> QED BY <1>1 DEF Left, Ended

\* What the walk over the observations computes is what the observations say.
LEMMA NextTurn ==
    ASSUME NEW stream, Len(stream) \in Nat, Numbered(stream), InTime(stream),
           NEW a \in 1..Len(stream), NEW i \in (a + 1)..Len(stream), NEW reversal,
           RunKnown(stream, a, i - 1, reversal), Against(stream, a, i)
    PROVE  /\ reversal = <<>> => ~ HasTurned(stream, a, i) /\ RunKnown(stream, a, i, <<stream[i].at>>)
           /\ reversal # <<>> => /\ HasTurned(stream, a, i) <=> stream[i].at >= reversal[1] + Confirmation
                                 /\ RunKnown(stream, a, i, reversal)
<1>1. CASE ~ Against(stream, a, i - 1)
  <2>1. reversal = <<>>
    BY <1>1 DEF RunKnown
  <2>2. ~ HasTurned(stream, a, i)
    <3>1. ~ \E b \in 1..i : Turned(stream, a, b, i)
      BY <1>1, TurnedMeans
    <3> QED BY <3>1 DEF HasTurned
  <2>3. RunFrom(stream, a, i, i)
    BY <1>1, NextRun
  <2> QED BY <2>1, <2>2, <2>3 DEF RunKnown
<1>2. CASE Against(stream, a, i - 1)
  <2>1. PICK b : RunFrom(stream, a, b, i - 1) /\ reversal = <<stream[b].at>>
    BY <1>2 DEF RunKnown
  <2>2. reversal # <<>> /\ reversal[1] = stream[b].at
    BY <2>1
  <2>3. (\E d \in 1..i : Turned(stream, a, d, i)) <=> stream[i].at >= stream[b].at + Confirmation
    BY <2>1, TurnedMeans
  <2>4. RunFrom(stream, a, b, i)
    BY <2>1, NextRun
  <2>5. RunKnown(stream, a, i, reversal)
    BY <2>1, <2>4 DEF RunKnown
  <2> QED BY <2>2, <2>3, <2>5 DEF HasTurned
<1> QED BY <1>1, <1>2

LEMMA TrackedFacts ==
    ASSUME NEW stream, Len(stream) \in Nat, Numbered(stream), InTime(stream),
           NEW a \in 1..Len(stream), NEW i \in (a + 1)..Len(stream), NEW p \in a..(i - 1),
           PeakFrom(stream, a, p, i - 1)
    PROVE  /\ Breach(stream, a, i) <=> \/ stream[i].net <= LockedProfit
                                       \/ PeakUpTo(stream, a, i - 1) - stream[i].net >= PeakRetrace
           /\ NewPeak(stream, a, i) <=> stream[i].net > PeakUpTo(stream, a, i - 1)
           /\ NewPeak(stream, a, i) => /\ PeakUpTo(stream, a, i) = stream[i].net
                                       /\ PeakFrom(stream, a, i, i)
                                       /\ ~ HasTurned(stream, a, i) /\ ~ IsStale(stream, a, i)
                                       /\ RunKnown(stream, a, i, <<>>)
           /\ ~ NewPeak(stream, a, i) =>
                 /\ PeakUpTo(stream, a, i) = PeakUpTo(stream, a, i - 1)
                 /\ PeakFrom(stream, a, p, i)
                 /\ IsStale(stream, a, i) <=> stream[i].at >= stream[p].at + Grace
                 /\ Against(stream, a, i) <=> stream[i].reversal
                 /\ ~ stream[i].reversal => /\ ~ HasTurned(stream, a, i)
                                            /\ RunKnown(stream, a, i, <<>>)
           /\ i \in a..i /\ p \in a..i
<1>1. /\ Breach(stream, a, i) <=> \/ stream[i].net <= LockedProfit
                                  \/ PeakUpTo(stream, a, i - 1) - stream[i].net >= PeakRetrace
      /\ NewPeak(stream, a, i) <=> stream[i].net > PeakUpTo(stream, a, i - 1)
      /\ PeakUpTo(stream, a, i) = IF NewPeak(stream, a, i) THEN stream[i].net
                                  ELSE PeakUpTo(stream, a, i - 1)
      /\ NewPeak(stream, a, i) => PeakFrom(stream, a, i, i)
      /\ ~ NewPeak(stream, a, i) => PeakFrom(stream, a, p, i)
  BY NextPeak
<1>2. ~ Against(stream, a, i) => ~ HasTurned(stream, a, i) /\ RunKnown(stream, a, i, <<>>)
  <2>1. ~ Against(stream, a, i) => ~ \E b \in 1..i : Turned(stream, a, b, i)
    BY TurnedMeans
  <2> QED BY <2>1 DEF HasTurned, RunKnown
<1>3. NewPeak(stream, a, i) => ~ Against(stream, a, i)
  BY DEF Against
<1>4. ~ NewPeak(stream, a, i) => (Against(stream, a, i) <=> stream[i].reversal)
  BY DEF Against
<1>5. NewPeak(stream, a, i) => ~ IsStale(stream, a, i)
  <2>1. NewPeak(stream, a, i) => ~ \E b \in a..(i - 1) : Stale(stream, a, b, i)
    BY StaleMeans
  <2> QED BY <2>1 DEF IsStale
<1>6. ~ NewPeak(stream, a, i) => (IsStale(stream, a, i) <=> stream[i].at >= stream[p].at + Grace)
  <2>1. ~ NewPeak(stream, a, i) => ((\E b \in a..(i - 1) : Stale(stream, a, b, i))
                                       <=> stream[i].at >= stream[p].at + Grace)
    BY StaleMeans
  <2> QED BY <2>1 DEF IsStale
<1>7. i \in a..i /\ p \in a..i
  OBVIOUS
<1> QED BY <1>1, <1>2, <1>3, <1>4, <1>5, <1>6, <1>7

LEMMA ElasticStep ==
    ASSUME NEW stream, Len(stream) \in Nat, Numbered(stream), InTime(stream),
           NEW a \in 1..Len(stream), NEW i \in (a + 1)..Len(stream), NEW hold,
           NEW c, Tracks(c, stream, a, i - 1), NEW d, d = ObserveElastic(c, stream[i])
    PROVE  Outcome("elastic", hold, d, stream, a, i)
<1>0. PICK state \in Awake, p \in a..(i - 1) : \E reversal :
        /\ c = Controller(state, <<PeakUpTo(stream, a, i - 1)>>, <<stream[a].at>>,
                          <<stream[p].at + Grace>>, reversal, "none")
        /\ PeakFrom(stream, a, p, i - 1)
        /\ RunKnown(stream, a, i - 1, reversal)
  BY DEF Tracks
<1>1. PICK reversal :
        /\ c = Controller(state, <<PeakUpTo(stream, a, i - 1)>>, <<stream[a].at>>,
                          <<stream[p].at + Grace>>, reversal, "none")
        /\ PeakFrom(stream, a, p, i - 1)
        /\ RunKnown(stream, a, i - 1, reversal)
  BY <1>0
<1> DEFINE o == stream[i]
           peak == PeakUpTo(stream, a, i - 1)
           due == stream[p].at + Grace
           armed == <<stream[a].at>>
<1> HIDE DEF o, peak, due, armed
<1>2. state \in {"ARMED", "EXTENDING", "REVERSAL_PENDING"}
      /\ c = Controller(state, <<peak>>, armed, <<due>>, reversal, "none")
  BY <1>1 DEF Awake, peak, due, armed
<1>3. d = ElasticNext(c, o, peak, armed, due, reversal)
  BY <1>2, ElasticCases DEF o
<1>4. /\ Breach(stream, a, i) <=> o.net <= LockedProfit \/ peak - o.net >= PeakRetrace
      /\ NewPeak(stream, a, i) <=> o.net > peak
      /\ NewPeak(stream, a, i) => /\ PeakUpTo(stream, a, i) = o.net
                                  /\ PeakFrom(stream, a, i, i)
                                  /\ ~ HasTurned(stream, a, i) /\ ~ IsStale(stream, a, i)
                                  /\ RunKnown(stream, a, i, <<>>)
      /\ ~ NewPeak(stream, a, i) =>
            /\ PeakUpTo(stream, a, i) = peak
            /\ PeakFrom(stream, a, p, i)
            /\ IsStale(stream, a, i) <=> o.at >= due
            /\ Against(stream, a, i) <=> o.reversal
            /\ ~ o.reversal => /\ ~ HasTurned(stream, a, i)
                               /\ RunKnown(stream, a, i, <<>>)
      /\ i \in a..i /\ p \in a..i
  BY <1>1, TrackedFacts DEF o, peak, due
<1>5. Against(stream, a, i) =>
        /\ reversal = <<>> => ~ HasTurned(stream, a, i) /\ RunKnown(stream, a, i, <<o.at>>)
        /\ reversal # <<>> => /\ HasTurned(stream, a, i) <=> o.at >= reversal[1] + Confirmation
                              /\ RunKnown(stream, a, i, reversal)
  BY <1>1, NextTurn DEF o
<1>6. o.fault \in Faults("elastic") <=> o.fault = "liquidity"
  BY DEF Faults, ElasticFaults
<1>7. \A st \in {"EXIT_REQUESTED", "FAILSAFE"} : \A rv, why :
        d = Controller(st, <<peak>>, armed, <<due>>, rv, why) => Left(d, peak, why)
  BY Leaving
<1>8. \A st \in Awake : \A rv :
        /\ d = Controller(st, <<peak>>, armed, <<due>>, rv, "none")
           /\ ~ NewPeak(stream, a, i) /\ RunKnown(stream, a, i, rv) => Tracks(d, stream, a, i)
        /\ d = Controller(st, <<o.net>>, armed, <<o.at + Grace>>, rv, "none")
           /\ NewPeak(stream, a, i) /\ RunKnown(stream, a, i, rv) => Tracks(d, stream, a, i)
  BY <1>4 DEF Tracks, armed, due, o
<1>9. CASE o.fault = "liquidity"
  <2>1. Left(d, peak, "LIQUIDITY_EXIT_FAILSAFE")
    BY <1>3, <1>7, <1>9 DEF ElasticNext
  <2> QED BY <1>6, <1>9, <2>1 DEF Outcome, Left, o
<1>10. CASE o.fault # "liquidity" /\ Breach(stream, a, i)
  <2>1. Left(d, peak, "HARD_PROFIT_FLOOR")
    BY <1>3, <1>4, <1>7, <1>10 DEF ElasticNext
  <2> QED BY <1>6, <1>10, <2>1 DEF Outcome, o, peak
<1>11. CASE o.fault # "liquidity" /\ ~ Breach(stream, a, i) /\ NewPeak(stream, a, i)
  <2>1. d = Controller("EXTENDING", <<o.net>>, armed, <<o.at + Grace>>, <<>>, "none")
    BY <1>3, <1>4, <1>11 DEF ElasticNext
  <2>2. Tracks(d, stream, a, i)
    BY <1>4, <1>8, <1>11, <2>1 DEF Awake
  <2> QED BY <1>4, <1>6, <1>11, <2>2 DEF Outcome, o
<1>12. CASE o.fault # "liquidity" /\ ~ Breach(stream, a, i) /\ ~ NewPeak(stream, a, i) /\ o.reversal
  <2>1. d = Pended(c, o, peak, armed, due, reversal)
    BY <1>3, <1>4, <1>12 DEF ElasticNext
  <2>2. CASE HasTurned(stream, a, i)
    <3>1. d = Controller("EXIT_REQUESTED", <<peak>>, armed, <<due>>, reversal, "REVERSAL_CONFIRMED_150MS")
      BY <1>4, <1>5, <1>12, <2>1, <2>2 DEF Pended
    <3>2. Left(d, peak, "REVERSAL_CONFIRMED_150MS")
      BY <1>7, <3>1
    <3> QED BY <1>6, <1>12, <2>2, <3>2 DEF Outcome, o, peak
  <2>3. CASE ~ HasTurned(stream, a, i)
    <3>1. CASE reversal = <<>>
      <4>1. d = Controller("REVERSAL_PENDING", <<peak>>, armed, <<due>>, <<o.at>>, "none")
        BY <2>1, <3>1 DEF Pended
      <4>2. Tracks(d, stream, a, i)
        BY <1>4, <1>5, <1>8, <1>12, <3>1, <4>1 DEF Awake
      <4> QED BY <1>6, <1>12, <2>3, <4>2 DEF Outcome, o
    <3>2. CASE reversal # <<>>
      <4>1. d = c
        BY <1>4, <1>5, <1>12, <2>1, <2>3, <3>2 DEF Pended
      <4>2. Tracks(d, stream, a, i)
        BY <1>2, <1>4, <1>5, <1>8, <1>12, <3>2, <4>1 DEF Awake
      <4> QED BY <1>6, <1>12, <2>3, <4>2 DEF Outcome, o
    <3> QED BY <3>1, <3>2
  <2> QED BY <2>2, <2>3
<1>13. CASE o.fault # "liquidity" /\ ~ Breach(stream, a, i) /\ ~ NewPeak(stream, a, i) /\ ~ o.reversal
  <2>1. d = IF o.at >= due
              THEN Controller("EXIT_REQUESTED", <<peak>>, armed, <<due>>, <<>>, "NO_NEW_PEAK_300MS")
            ELSE Controller("EXTENDING", <<peak>>, armed, <<due>>, <<>>, "none")
    BY <1>3, <1>4, <1>13 DEF ElasticNext
  <2>2. CASE o.at >= due
    <3>1. Left(d, peak, "NO_NEW_PEAK_300MS")
      BY <1>7, <2>1, <2>2
    <3> QED BY <1>4, <1>6, <1>13, <2>2, <3>1 DEF Outcome, o, peak
  <2>3. CASE ~ o.at >= due
    <3>1. Tracks(d, stream, a, i)
      BY <1>4, <1>8, <1>13, <2>1, <2>3 DEF Awake
    <3> QED BY <1>4, <1>6, <1>13, <2>3, <3>1 DEF Outcome, o
  <2> QED BY <2>2, <2>3
<1> QED BY <1>9, <1>10, <1>11, <1>12, <1>13

LEMMA RunnerStep ==
    ASSUME NEW stream, Len(stream) \in Nat, Numbered(stream), InTime(stream),
           NEW a \in 1..Len(stream), NEW i \in (a + 1)..Len(stream), NEW hold,
           NEW c, Tracks(c, stream, a, i - 1), NEW d, d = ObserveRunner(c, stream[i], hold)
    PROVE  Outcome("runner", hold, d, stream, a, i)
<1>0. PICK state \in Awake, p \in a..(i - 1) : \E reversal :
        /\ c = Controller(state, <<PeakUpTo(stream, a, i - 1)>>, <<stream[a].at>>,
                          <<stream[p].at + Grace>>, reversal, "none")
        /\ PeakFrom(stream, a, p, i - 1)
        /\ RunKnown(stream, a, i - 1, reversal)
  BY DEF Tracks
<1>1. PICK reversal :
        /\ c = Controller(state, <<PeakUpTo(stream, a, i - 1)>>, <<stream[a].at>>,
                          <<stream[p].at + Grace>>, reversal, "none")
        /\ PeakFrom(stream, a, p, i - 1)
        /\ RunKnown(stream, a, i - 1, reversal)
  BY <1>0
<1> DEFINE o == stream[i]
           peak == PeakUpTo(stream, a, i - 1)
           due == stream[p].at + Grace
           start == stream[a].at
           over == o.at >= start + hold
           quiet == o.fault \notin {"liquidity", "boundary"}
<1> HIDE DEF o, peak, due, start
<1>2. state \in {"ARMED", "EXTENDING", "REVERSAL_PENDING"}
      /\ c = Controller(state, <<peak>>, <<start>>, <<due>>, reversal, "none")
  BY <1>1 DEF Awake, peak, due, start
<1>3. d = RunnerNext(c, o, hold, peak, start, due, reversal)
  <2>1. \A h : ObserveRunner(c, o, h) = RunnerNext(c, o, h, peak, start, due, reversal)
    BY <1>2, RunnerCases
  <2> QED BY <2>1 DEF o
<1>4. /\ Breach(stream, a, i) <=> o.net <= LockedProfit \/ peak - o.net >= PeakRetrace
      /\ NewPeak(stream, a, i) <=> o.net > peak
      /\ NewPeak(stream, a, i) => /\ PeakUpTo(stream, a, i) = o.net
                                  /\ PeakFrom(stream, a, i, i)
                                  /\ ~ HasTurned(stream, a, i)
                                  /\ RunKnown(stream, a, i, <<>>)
      /\ ~ NewPeak(stream, a, i) =>
            /\ PeakUpTo(stream, a, i) = peak
            /\ PeakFrom(stream, a, p, i)
            /\ Against(stream, a, i) <=> o.reversal
            /\ ~ o.reversal => /\ ~ HasTurned(stream, a, i)
                               /\ RunKnown(stream, a, i, <<>>)
      /\ i \in a..i /\ p \in a..i
  BY <1>1, TrackedFacts DEF o, peak, due
<1>5. Against(stream, a, i) =>
        /\ reversal = <<>> => ~ HasTurned(stream, a, i) /\ RunKnown(stream, a, i, <<o.at>>)
        /\ reversal # <<>> => /\ HasTurned(stream, a, i) <=> o.at >= reversal[1] + Confirmation
                              /\ RunKnown(stream, a, i, reversal)
  BY <1>1, NextTurn DEF o
<1>6. /\ Faults("runner") = {"liquidity", "boundary"}
      /\ stream[i].fault = o.fault /\ PeakUpTo(stream, a, i - 1) = peak
      /\ stream[i].at >= stream[a].at + hold <=> over
  BY DEF Faults, RunnerFaults, o, peak, start
<1>7. \A st \in {"EXIT_REQUESTED", "FAILSAFE"} : \A rv, why :
        d = Controller(st, <<peak>>, <<start>>, <<due>>, rv, why) => Left(d, peak, why)
  BY Leaving
<1>8. \A st \in Awake : \A rv :
        /\ d = Controller(st, <<peak>>, <<start>>, <<due>>, rv, "none")
           /\ ~ NewPeak(stream, a, i) /\ RunKnown(stream, a, i, rv) => Tracks(d, stream, a, i)
        /\ d = Controller(st, <<o.net>>, <<start>>, <<o.at + Grace>>, rv, "none")
           /\ NewPeak(stream, a, i) /\ RunKnown(stream, a, i, rv) => Tracks(d, stream, a, i)
  BY <1>4 DEF Tracks, start, due, o
<1> HIDE DEF over
<1>9. CASE ~ quiet
  <2>1. Left(d, peak, "LIQUIDITY_EXIT_FAILSAFE") \/ Left(d, peak, "CAPTURE_BOUNDARY_INVALID")
    BY <1>3, <1>7, <1>9 DEF RunnerNext
  <2> QED BY <1>6, <1>9, <2>1 DEF Outcome, Left
<1>10. CASE quiet /\ Breach(stream, a, i)
  <2>1. Left(d, peak, "HARD_PROFIT_FLOOR")
    BY <1>3, <1>4, <1>7, <1>10 DEF RunnerNext
  <2> QED BY <1>6, <1>10, <2>1 DEF Outcome
<1>11. CASE quiet /\ ~ Breach(stream, a, i) /\ over
  <2>1. Left(d, peak, "MAX_HOLD")
    BY <1>3, <1>4, <1>7, <1>11 DEF RunnerNext, over
  <2> QED BY <1>6, <1>11, <2>1 DEF Outcome
<1>12. CASE quiet /\ ~ Breach(stream, a, i) /\ ~ over /\ NewPeak(stream, a, i)
  <2>1. d = Controller("EXTENDING", <<o.net>>, <<start>>, <<o.at + Grace>>, <<>>, "none")
    BY <1>3, <1>4, <1>12 DEF RunnerNext, over
  <2>2. Tracks(d, stream, a, i)
    BY <1>4, <1>8, <1>12, <2>1 DEF Awake
  <2> QED BY <1>4, <1>6, <1>12, <2>2 DEF Outcome
<1>13. CASE quiet /\ ~ Breach(stream, a, i) /\ ~ over /\ ~ NewPeak(stream, a, i) /\ o.reversal
  <2>1. d = Pended(c, o, peak, <<start>>, due, reversal)
    BY <1>3, <1>4, <1>13 DEF RunnerNext, over
  <2>2. CASE HasTurned(stream, a, i)
    <3>1. d = Controller("EXIT_REQUESTED", <<peak>>, <<start>>, <<due>>, reversal, "REVERSAL_CONFIRMED_150MS")
      BY <1>4, <1>5, <1>13, <2>1, <2>2 DEF Pended
    <3>2. Left(d, peak, "REVERSAL_CONFIRMED_150MS")
      BY <1>7, <3>1
    <3> QED BY <1>6, <1>13, <2>2, <3>2 DEF Outcome
  <2>3. CASE ~ HasTurned(stream, a, i)
    <3>1. CASE reversal = <<>>
      <4>1. d = Controller("REVERSAL_PENDING", <<peak>>, <<start>>, <<due>>, <<o.at>>, "none")
        BY <2>1, <3>1 DEF Pended
      <4>2. Tracks(d, stream, a, i)
        BY <1>4, <1>5, <1>8, <1>13, <3>1, <4>1 DEF Awake
      <4> QED BY <1>6, <1>13, <2>3, <4>2 DEF Outcome
    <3>2. CASE reversal # <<>>
      <4>1. d = c
        BY <1>4, <1>5, <1>13, <2>1, <2>3, <3>2 DEF Pended
      <4>2. Tracks(d, stream, a, i)
        BY <1>2, <1>4, <1>5, <1>8, <1>13, <3>2, <4>1 DEF Awake
      <4> QED BY <1>6, <1>13, <2>3, <4>2 DEF Outcome
    <3> QED BY <3>1, <3>2
  <2> QED BY <2>2, <2>3
<1>14. CASE quiet /\ ~ Breach(stream, a, i) /\ ~ over /\ ~ NewPeak(stream, a, i) /\ ~ o.reversal
  <2>1. d = Controller("EXTENDING", <<peak>>, <<start>>, <<due>>, <<>>, "none")
    BY <1>3, <1>4, <1>14 DEF RunnerNext, over
  <2>2. Tracks(d, stream, a, i)
    BY <1>4, <1>8, <1>14, <2>1 DEF Awake
  <2> QED BY <1>4, <1>6, <1>14, <2>2 DEF Outcome
<1> QED BY <1>9, <1>10, <1>11, <1>12, <1>13, <1>14

-----------------------------------------------------------------------------
(* The whole course *)

Unfaulted(stream, i, faults) == \A k \in 1..i : stream[k].fault \notin faults

LEMMA StreamIs ==
    ASSUME NEW stream \in Seq(Shown)
    PROVE  /\ Len(stream) \in Nat /\ DOMAIN stream = 1..Len(stream) /\ Numbered(stream)
           /\ \A i \in 1..Len(stream) : /\ stream[i].net \in Int /\ stream[i].at \in Nat
                                        /\ stream[i].reversal \in BOOLEAN
<1>1. Len(stream) \in Nat /\ DOMAIN stream = 1..Len(stream)
  OBVIOUS
<1>2. \A i \in 1..Len(stream) : stream[i] \in Shown
  BY <1>1
<1>3. Numbered(stream)
  BY <1>2 DEF Numbered
<1>4. \A i \in 1..Len(stream) : /\ stream[i].net \in Int /\ stream[i].at \in Nat
                                /\ stream[i].reversal \in BOOLEAN
  BY <1>2 DEF Shown
<1> QED BY <1>1, <1>3, <1>4

\* A position may be extended from its first observation that is worth it.
Worth(stream, i, faults) == Unfaulted(stream, i, faults) /\ stream[i].net >= Activation

LEMMA Arming ==
    ASSUME NEW stream \in Seq(Shown), NEW faults
    PROVE  \/ /\ ArmedAt(stream, faults) = 0
              /\ \A i \in 1..Len(stream) : ~ Worth(stream, i, faults)
           \/ /\ ArmedAt(stream, faults) \in 1..Len(stream)
              /\ Worth(stream, ArmedAt(stream, faults), faults)
              /\ \A i \in 1..Len(stream) : Worth(stream, i, faults) => ArmedAt(stream, faults) <= i
<1> DEFINE found == {i \in 1..Len(stream) : Worth(stream, i, faults)}
           Least(i) == \A j \in found : i <= j
<1>1. ArmedAt(stream, faults) = IF found = {} THEN 0 ELSE CHOOSE i \in found : Least(i)
  <2> DEFINE F == {i \in DOMAIN stream :
                     (\A k \in 1..i : stream[k].fault \notin faults) /\ stream[i].net >= Activation}
  <2>1. ArmedAt(stream, faults) = IF F = {} THEN 0 ELSE CHOOSE i \in F : \A j \in F : i <= j
    BY Zenon DEF ArmedAt
  <2>2. F = found
    BY StreamIs DEF Worth, Unfaulted
  <2> HIDE DEF F, found
  <2> QED BY <2>1, <2>2
<1>2. found \subseteq Nat
  BY StreamIs
<1>3. found # {} => \E i \in found : Least(i)
  <2> HIDE DEF found
  <2> QED BY <1>2, LeastNatural
<1>4. found # {} => ArmedAt(stream, faults) \in found /\ Least(ArmedAt(stream, faults))
  BY <1>1, <1>3
<1>5. CASE found = {}
  BY <1>1, <1>5
<1>6. CASE found # {}
  BY <1>4, <1>6
<1> QED BY <1>5, <1>6

Watched(kind, hold, c, o, d) ==
    IF kind = "elastic" THEN d = ObserveElastic(c, o) ELSE d = ObserveRunner(c, o, hold)

\* Before its activation a controller waits, or a fault ends it.
AsleepNext(faults, o, d) ==
    IF o.fault \in faults
      THEN Ended(d) /\ d.reason \in {"LIQUIDITY_EXIT_FAILSAFE", "CAPTURE_BOUNDARY_INVALID"}
    ELSE IF o.net >= Activation
      THEN d = Controller("ARMED", <<o.net>>, <<o.at>>, <<o.at + Grace>>, <<>>, "none")
    ELSE d = ControllerStart

LEMMA Asleep ==
    ASSUME NEW kind \in {"elastic", "runner"}, NEW hold, NEW o, NEW d,
           Watched(kind, hold, ControllerStart, o, d)
    PROVE  AsleepNext(Faults(kind), o, d)
<1> DEFINE c == ControllerStart
           failsafe(why) == [c EXCEPT !.state = "FAILSAFE", !.reason = why]
           armed == [SetPeak(c, o) EXCEPT !.state = "ARMED", !.armed = <<o.at>>]
           liquidity == failsafe("LIQUIDITY_EXIT_FAILSAFE")
           boundary == failsafe("CAPTURE_BOUNDARY_INVALID")
<1>1. c = Controller("DISARMED", <<>>, <<>>, <<>>, <<>>, "none")
  BY DEF ControllerStart, Controller
<1>2. ~ Ended(c) /\ c.state = "DISARMED"
  BY DEF ControllerStart, Ended
<1> HIDE DEF c
<1>3. Changed(c, o, "DISARMED", <<>>, <<>>, <<>>, <<>>, "none")
  BY <1>1, Changes
<1>4. /\ liquidity = Controller("FAILSAFE", <<>>, <<>>, <<>>, <<>>, "LIQUIDITY_EXIT_FAILSAFE")
      /\ boundary = Controller("FAILSAFE", <<>>, <<>>, <<>>, <<>>, "CAPTURE_BOUNDARY_INVALID")
      /\ armed = Controller("ARMED", <<o.net>>, <<o.at>>, <<o.at + Grace>>, <<>>, "none")
  BY <1>3, Zenon DEF Changed
<1>5. ArmAt(c, o) = IF o.net >= Activation THEN armed ELSE c
  BY Zenon DEF ArmAt
<1>6. ObserveElastic(c, o) = IF o.fault = "liquidity" THEN liquidity ELSE ArmAt(c, o)
  BY <1>2, Zenon DEF ObserveElastic
<1>7. ObserveRunner(c, o, hold) = IF o.fault = "boundary" THEN boundary
                                  ELSE IF o.fault = "liquidity" THEN liquidity ELSE ArmAt(c, o)
  BY <1>2, Zenon DEF ObserveRunner
<1> HIDE DEF armed, liquidity, boundary
<1>8. /\ Ended(liquidity) /\ liquidity.reason = "LIQUIDITY_EXIT_FAILSAFE"
      /\ Ended(boundary) /\ boundary.reason = "CAPTURE_BOUNDARY_INVALID"
  <2>1. liquidity.state = "FAILSAFE" /\ liquidity.reason = "LIQUIDITY_EXIT_FAILSAFE"
    BY <1>4, Fields
  <2>2. boundary.state = "FAILSAFE" /\ boundary.reason = "CAPTURE_BOUNDARY_INVALID"
    BY <1>4, Fields
  <2> QED BY <2>1, <2>2 DEF Ended
<1>9. CASE kind = "elastic"
  <2>1. d = IF o.fault = "liquidity" THEN liquidity ELSE ArmAt(c, o)
    BY <1>6, <1>9 DEF Watched, c
  <2>2. o.fault \in Faults(kind) <=> o.fault = "liquidity"
    BY <1>9 DEF Faults, ElasticFaults
  <2> QED BY <1>4, <1>5, <1>8, <2>1, <2>2 DEF AsleepNext, c
<1>10. CASE kind = "runner"
  <2>1. d = IF o.fault = "boundary" THEN boundary
            ELSE IF o.fault = "liquidity" THEN liquidity ELSE ArmAt(c, o)
    BY <1>7, <1>10 DEF Watched, c
  <2>2. o.fault \in Faults(kind) <=> o.fault = "liquidity" \/ o.fault = "boundary"
    BY <1>10 DEF Faults, RunnerFaults
  <2> QED BY <1>4, <1>5, <1>8, <2>1, <2>2 DEF AsleepNext, c
<1> QED BY <1>9, <1>10

LEMMA TracksFields ==
    ASSUME NEW c, NEW stream, NEW a, NEW i, Tracks(c, stream, a, i)
    PROVE  ~ Ended(c) /\ c.peak = <<PeakUpTo(stream, a, i)>> /\ c.reason = "none"
<1>0. PICK state \in Awake, p \in a..i : \E reversal :
        c = Controller(state, <<PeakUpTo(stream, a, i)>>, <<stream[a].at>>,
                       <<stream[p].at + Grace>>, reversal, "none")
  BY DEF Tracks
<1>1. PICK reversal :
        c = Controller(state, <<PeakUpTo(stream, a, i)>>, <<stream[a].at>>,
                       <<stream[p].at + Grace>>, reversal, "none")
  BY <1>0
<1>2. c.state = state /\ c.peak = <<PeakUpTo(stream, a, i)>> /\ c.reason = "none"
  BY <1>1, Fields
<1> QED BY <1>2 DEF Ended, Awake

\* Before observation i a controller has ended, or waits, or tracks the market.
Waits(faults, c, stream, i) ==
    /\ c = ControllerStart /\ Unfaulted(stream, i - 1, faults)
    /\ \A m \in 1..(i - 1) : stream[m].net < Activation

IsArmed(faults, c, stream, i) ==
    LET a == ArmedAt(stream, faults)
    IN  Unfaulted(stream, i - 1, faults) /\ a \in 1..(i - 1) /\ Tracks(c, stream, a, i - 1)

Status(kind, c, stream, i) ==
    \/ Ended(c) /\ (kind = "runner" => c.reason # "NO_NEW_PEAK_300MS")
    \/ Waits(Faults(kind), c, stream, i) \/ IsArmed(Faults(kind), c, stream, i)

\* What observation i makes of it.
StatusStep(kind, hold, c, d, stream, i) ==
    \/ Ended(c) /\ d = c
    \/ /\ Waits(Faults(kind), c, stream, i) /\ ~ Ended(c)
       /\ Ended(d) <=> stream[i].fault \in Faults(kind)
    \/ /\ IsArmed(Faults(kind), c, stream, i) /\ ~ Ended(c)
       /\ Outcome(kind, hold, d, stream, ArmedAt(stream, Faults(kind)), i)

LEMMA NextStatus ==
    ASSUME NEW kind \in {"elastic", "runner"}, NEW hold, NEW stream \in Seq(Shown), InTime(stream),
           NEW i \in 1..Len(stream), NEW c, NEW d, Watched(kind, hold, c, stream[i], d),
           Status(kind, c, stream, i)
    PROVE  StatusStep(kind, hold, c, d, stream, i) /\ Status(kind, d, stream, i + 1)
<1> DEFINE faults == Faults(kind)
           a == ArmedAt(stream, faults)
<1>1. Len(stream) \in Nat /\ Numbered(stream) /\ i \in Nat /\ (i + 1) - 1 = i
      /\ \A j \in 1..Len(stream) : stream[j].net \in Int
  BY StreamIs
<1>2. Unfaulted(stream, i - 1, faults) /\ stream[i].fault \notin faults => Unfaulted(stream, i, faults)
  BY <1>1 DEF Unfaulted
<1>3. CASE Ended(c)
  <2>1. d = c
    BY <1>3, Zenon DEF Watched, ObserveElastic, ObserveRunner
  <2>2. CASE kind = "runner" => c.reason # "NO_NEW_PEAK_300MS"
    BY <1>3, <2>1, <2>2 DEF StatusStep, Status
  <2>3. CASE Waits(faults, c, stream, i)
    <3>1. c.state = "DISARMED"
      BY <2>3 DEF Waits, ControllerStart
    <3> QED BY <1>3, <3>1 DEF Ended
  <2>4. CASE IsArmed(faults, c, stream, i)
    <3>1. Tracks(c, stream, a, i - 1)
      BY <2>4 DEF IsArmed
    <3> QED BY <1>3, <3>1, TracksFields
  <2> QED BY <2>2, <2>3, <2>4 DEF Status
<1>4. CASE ~ Ended(c) /\ Waits(faults, c, stream, i)
  <2>1. Watched(kind, hold, ControllerStart, stream[i], d)
    BY <1>4 DEF Waits
  <2> DEFINE o == stream[i]
  <2> HIDE DEF o
  <2>2. AsleepNext(faults, o, d)
    BY <2>1, Asleep DEF o
  <2>3. CASE o.fault \in faults
    BY <1>4, <2>2, <2>3 DEF AsleepNext, StatusStep, Status, o
  <2>4. CASE o.fault \notin faults /\ o.net >= Activation
    <3>1. Unfaulted(stream, i, faults) /\ Worth(stream, i, faults)
      BY <1>2, <1>4, <2>4 DEF Waits, Worth, o
    <3>2. \A m \in 1..Len(stream) : Worth(stream, m, faults) => ~ m < i
      BY <1>1, <1>4 DEF Worth, Waits, Activation
    <3>3. a \in 1..Len(stream) /\ a <= i /\ ~ a < i
      BY <3>1, <3>2, Arming
    <3>4. a = i /\ i \in 1..i /\ i \in i..i
      BY <1>1, <3>3
    <3>5. PeakUpTo(stream, i, i) = o.net
      BY <1>1, <3>4, PeakGrows DEF o
    <3>6. NewPeak(stream, i, i) /\ PeakFrom(stream, i, i, i)
      <4>1. (i + 1)..i = {}
        BY <1>1
      <4> QED BY <3>4, <4>1 DEF NewPeak, PeakFrom
    <3>7. RunKnown(stream, i, i, <<>>)
      BY <3>6 DEF RunKnown, Against
    <3>8. d = Controller("ARMED", <<PeakUpTo(stream, i, i)>>, <<stream[i].at>>,
                         <<stream[i].at + Grace>>, <<>>, "none")
      BY <2>2, <2>4, <3>5 DEF AsleepNext, o
    <3>9. Tracks(d, stream, i, i)
      BY <3>4, <3>6, <3>7, <3>8 DEF Tracks, Awake
    <3>10. ~ Ended(d)
      BY <3>9, TracksFields
    <3>11. IsArmed(faults, d, stream, i + 1)
      BY <1>1, <3>1, <3>4, <3>9 DEF IsArmed
    <3> QED BY <1>4, <2>4, <3>10, <3>11 DEF StatusStep, Status, o
  <2>5. CASE o.fault \notin faults /\ ~ o.net >= Activation
    <3>1. d = ControllerStart
      BY <2>2, <2>5 DEF AsleepNext
    <3>2. ~ Ended(d)
      BY <3>1 DEF ControllerStart, Ended
    <3>3. \A m \in 1..i : stream[m].net < Activation
      <4>1. \A m \in 1..i : m = i \/ m \in 1..(i - 1)
        BY <1>1
      <4>2. stream[i].net < Activation
        BY <1>1, <2>5 DEF o, Activation
      <4> QED BY <1>4, <4>1, <4>2 DEF Waits
    <3>4. Waits(faults, d, stream, i + 1)
      BY <1>1, <1>2, <1>4, <2>5, <3>1, <3>3 DEF Waits, o
    <3> QED BY <1>4, <2>5, <3>2, <3>4 DEF StatusStep, Status, o
  <2> QED BY <2>3, <2>4, <2>5
<1>5. CASE ~ Ended(c) /\ IsArmed(faults, c, stream, i)
  <2>1. a \in 1..(i - 1) /\ Tracks(c, stream, a, i - 1) /\ Unfaulted(stream, i - 1, faults)
    BY <1>5 DEF IsArmed
  <2>2. a \in 1..Len(stream) /\ i \in (a + 1)..Len(stream) /\ a \in 1..i
    BY <1>1, <2>1
  <2>3. Outcome(kind, hold, d, stream, a, i)
    <3>1. CASE kind = "elastic"
      BY <1>1, <2>1, <2>2, <3>1, ElasticStep DEF Watched
    <3>2. CASE kind = "runner"
      BY <1>1, <2>1, <2>2, <3>2, RunnerStep DEF Watched
    <3> QED BY <3>1, <3>2
  <2>4. \/ Ended(d) /\ (kind = "runner" => d.reason # "NO_NEW_PEAK_300MS")
        \/ stream[i].fault \notin faults /\ Tracks(d, stream, a, i)
    BY <2>3 DEF Outcome, Left
  <2>5. Status(kind, d, stream, i + 1)
    BY <1>1, <1>2, <2>1, <2>2, <2>4 DEF Status, IsArmed
  <2> QED BY <1>5, <2>3, <2>5 DEF StatusStep
<1> QED BY <1>3, <1>4, <1>5 DEF Status

Behaves(kind, hold, k, stream) ==
    \A i \in 1..Len(stream) : /\ StatusStep(kind, hold, k[i], k[i + 1], stream, i)
                              /\ Status(kind, k[i], stream, i)
                              /\ Status(kind, k[i + 1], stream, i + 1)

LEMMA Walks ==
    ASSUME NEW kind \in {"elastic", "runner"}, NEW hold, NEW stream \in Seq(Shown), InTime(stream),
           NEW k, Stepwise(k, kind, hold, stream)
    PROVE  Behaves(kind, hold, k, stream)
<1> DEFINE n == Len(stream)
           Fine(i) == Status(kind, k[i], stream, i)
           T == {i \in 1..(n + 1) : ~ Fine(i)}
<1>1. n \in Nat
  BY StreamIs
<1>2. \A i \in 1..n : Watched(kind, hold, k[i], stream[i], k[i + 1])
  BY DEF Stepwise, Watch, Watched
<1>3. \A i \in 1..n : Fine(i) => StatusStep(kind, hold, k[i], k[i + 1], stream, i) /\ Fine(i + 1)
  BY <1>2, NextStatus
<1>4. Fine(1)
  <2>1. k[1] = ControllerStart
    BY DEF Stepwise, Outset
  <2>2. 1..(1 - 1) = {}
    OBVIOUS
  <2>3. Waits(Faults(kind), k[1], stream, 1)
    BY <2>1, <2>2 DEF Waits, Unfaulted
  <2> QED BY <2>3 DEF Status
<1> HIDE DEF Fine
<1>5. T = {}
  <2>1. SUFFICES ASSUME T # {} PROVE FALSE
    OBVIOUS
  <2>2. T \subseteq Nat
    BY <1>1
  <2>3. PICK i \in T : \A j \in T : i <= j
    <3> HIDE DEF T
    <3> QED BY <2>1, <2>2, LeastNatural
  <2>4. i # 1
    BY <1>4, <2>3
  <2>5. i - 1 \in 1..n /\ (i - 1) + 1 = i /\ i - 1 \in 1..(n + 1) /\ ~ i <= i - 1
    BY <1>1, <2>3, <2>4
  <2>6. Fine(i - 1)
    BY <2>3, <2>5
  <2>7. Fine(i)
    BY <1>3, <2>5, <2>6
  <2> QED BY <2>3, <2>7
<1>6. \A i \in 1..n : i \in 1..(n + 1)
  BY <1>1
<1> QED BY <1>3, <1>5, <1>6 DEF Behaves, Fine

LEMMA EndedStays ==
    ASSUME NEW kind \in {"elastic", "runner"}, NEW hold, NEW stream \in Seq(Shown),
           NEW k, Behaves(kind, hold, k, stream),
           NEW i \in 1..(Len(stream) + 1), NEW j \in i..(Len(stream) + 1), Ended(k[i])
    PROVE  Ended(k[j])
<1> DEFINE n == Len(stream)
           T == {m \in i..(n + 1) : ~ Ended(k[m])}
<1>1. n \in Nat /\ i \in Nat /\ 1 <= i
  BY StreamIs
<1>2. \A m \in 1..n : Ended(k[m]) => Ended(k[m + 1])
  BY DEF Behaves, StatusStep
<1>3. T = {}
  <2>1. SUFFICES ASSUME T # {} PROVE FALSE
    OBVIOUS
  <2>2. T \subseteq Nat
    BY <1>1
  <2>3. PICK m \in T : \A l \in T : m <= l
    <3> HIDE DEF T
    <3> QED BY <2>1, <2>2, LeastNatural
  <2>4. m # i
    BY <2>3
  <2>5. m - 1 \in 1..n /\ (m - 1) + 1 = m /\ m - 1 \in i..(n + 1) /\ ~ m <= m - 1
    BY <1>1, <2>3, <2>4
  <2> QED BY <1>2, <2>3, <2>5
<1> QED BY <1>3

\* A controller that has not ended tracks the market from where it was armed.
LEMMA OpenFollows ==
    ASSUME NEW kind \in {"elastic", "runner"}, NEW hold, NEW stream \in Seq(Shown),
           NEW k, Behaves(kind, hold, k, stream), NEW i \in 1..Len(stream), ~ Ended(k[i]),
           NEW b \in 1..(i - 1), stream[b].net >= Activation
    PROVE  /\ IsArmed(Faults(kind), k[i], stream, i)
           /\ Outcome(kind, hold, k[i + 1], stream, ArmedAt(stream, Faults(kind)), i)
           /\ Unfaulted(stream, i - 1, Faults(kind))
<1>1. ~ Waits(Faults(kind), k[i], stream, i)
  <2>1. b \in 1..Len(stream)
    BY StreamIs
  <2>2. ~ stream[b].net < Activation
    BY <2>1, StreamIs DEF Activation
  <2> QED BY <2>2 DEF Waits
<1>2. StatusStep(kind, hold, k[i], k[i + 1], stream, i)
  BY DEF Behaves
<1> QED BY <1>1, <1>2 DEF StatusStep, IsArmed

LEMMA ReasonsFollow ==
    ASSUME NEW kind \in {"elastic", "runner"}, NEW hold, NEW stream \in Seq(Shown),
           NEW k, Behaves(kind, hold, k, stream)
    PROVE  ReasonsHold(stream, k, Faults(kind))
<1> DEFINE faults == Faults(kind)
           a == ArmedAt(stream, faults)
           Open(i) == ~ Ended(k[i])
           Ends(i) == Open(i) /\ Ended(k[i + 1])
<1>1. Len(stream) \in Nat /\ DOMAIN stream = 1..Len(stream)
  BY StreamIs
<1>2. ASSUME NEW i \in 1..Len(stream)
      PROVE  /\ Ended(k[i]) => k[i + 1] = k[i]
             /\ Ends(i) /\ stream[i].fault \notin faults => a # 0 /\ i > a
             /\ a # 0 /\ i > a /\ Open(i) /\ stream[i].fault \notin faults =>
                   /\ Breach(stream, a, i) <=> k[i + 1].reason = "HARD_PROFIT_FLOOR"
                   /\ k[i + 1].reason = "REVERSAL_CONFIRMED_150MS" <=>
                         /\ ~ Breach(stream, a, i) /\ k[i + 1].reason # "MAX_HOLD"
                         /\ \E b \in 1..i : Turned(stream, a, b, i)
                   /\ k[i + 1].peak = <<PeakUpTo(stream, a, IF Ends(i) THEN i - 1 ELSE i)>>
  <2>1. StatusStep(kind, hold, k[i], k[i + 1], stream, i)
    BY <1>2 DEF Behaves
  <2>2. Ended(k[i]) => k[i + 1] = k[i]
    BY <2>1 DEF StatusStep
  <2>3. ASSUME Ends(i), stream[i].fault \notin faults
        PROVE  a # 0 /\ i > a
    <3>1. IsArmed(faults, k[i], stream, i)
      BY <2>1, <2>3 DEF StatusStep
    <3>2. a \in 1..(i - 1)
      BY <3>1 DEF IsArmed
    <3> QED BY <1>1, <3>2
  <2>4. ASSUME a # 0, i > a, Open(i), stream[i].fault \notin faults
        PROVE  /\ Breach(stream, a, i) <=> k[i + 1].reason = "HARD_PROFIT_FLOOR"
               /\ k[i + 1].reason = "REVERSAL_CONFIRMED_150MS" <=>
                     /\ ~ Breach(stream, a, i) /\ k[i + 1].reason # "MAX_HOLD"
                     /\ \E b \in 1..i : Turned(stream, a, b, i)
               /\ k[i + 1].peak = <<PeakUpTo(stream, a, IF Ends(i) THEN i - 1 ELSE i)>>
    <3>1. a \in 1..Len(stream) /\ Worth(stream, a, faults)
      BY <2>4, Arming
    <3>2. a \in 1..(i - 1) /\ stream[a].net >= Activation
      BY <1>1, <2>4, <3>1 DEF Worth
    <3>3. Outcome(kind, hold, k[i + 1], stream, a, i)
      BY <2>4, <3>2, OpenFollows
    <3> HIDE DEF a, faults
    <3> DEFINE d == k[i + 1]
               turned == HasTurned(stream, a, i)
               peak == PeakUpTo(stream, a, i - 1)
    <3> HIDE DEF d
    <3>4. turned <=> \E b \in 1..i : Turned(stream, a, b, i)
      BY DEF HasTurned
    <3>5. \/ Breach(stream, a, i) /\ Left(d, peak, "HARD_PROFIT_FLOOR")
          \/ ~ Breach(stream, a, i) /\ Left(d, peak, "MAX_HOLD")
          \/ ~ Breach(stream, a, i) /\ turned /\ Left(d, peak, "REVERSAL_CONFIRMED_150MS")
          \/ ~ Breach(stream, a, i) /\ ~ turned /\ Left(d, peak, "NO_NEW_PEAK_300MS")
          \/ ~ Breach(stream, a, i) /\ ~ turned /\ Tracks(d, stream, a, i)
      BY <2>4, <3>3 DEF Outcome, d, faults
    <3>6. Tracks(d, stream, a, i) => /\ ~ Ended(d) /\ d.peak = <<PeakUpTo(stream, a, i)>>
                                     /\ d.reason = "none"
      BY TracksFields
    <3> HIDE DEF turned, peak
    <3>7. \/ Ended(d) /\ d.peak = <<peak>>
          \/ ~ Ended(d) /\ d.peak = <<PeakUpTo(stream, a, i)>>
      BY <3>5, <3>6 DEF Left
    <3>8. Breach(stream, a, i) <=> d.reason = "HARD_PROFIT_FLOOR"
      BY <3>5, <3>6 DEF Left
    <3>9. d.reason = "REVERSAL_CONFIRMED_150MS" <=>
            ~ Breach(stream, a, i) /\ d.reason # "MAX_HOLD" /\ turned
      BY <3>5, <3>6 DEF Left
    <3>10. d.peak = <<PeakUpTo(stream, a, IF Ends(i) THEN i - 1 ELSE i)>>
      BY <2>4, <3>7 DEF d, peak
    <3> QED BY <3>4, <3>8, <3>9, <3>10 DEF d
  <2> QED BY <2>2, <2>3, <2>4
<1> QED BY <1>1, <1>2, Zenon DEF ReasonsHold

\* An exit is for the reason it names, and for a reason there is an exit, whatever a
\* controller is shown.
THEOREM ExitsAlwaysForAReason ==
    ASSUME NEW stream \in Seq(Shown), InTime(stream)
    PROVE  ExitsForAReason(stream)
<1>1. Behaves("elastic", 0, ElasticCourse(stream), stream)
  BY StreamIs, Courses, Walks
<1>2. Behaves("runner", MaximumHold, RunnerCourse(stream, MaximumHold), stream)
  BY StreamIs, Courses, Walks
<1>3. Faults("elastic") = ElasticFaults /\ Faults("runner") = RunnerFaults
  BY DEF Faults
<1>4. ReasonsHold(stream, ElasticCourse(stream), ElasticFaults)
  BY <1>1, <1>3, ReasonsFollow
<1>5. ReasonsHold(stream, RunnerCourse(stream, MaximumHold), RunnerFaults)
  BY <1>2, <1>3, ReasonsFollow
<1> QED BY <1>4, <1>5 DEF ExitsForAReason

\* Once stale, a peak stays so until there is a new one.
LEMMA StaleStays ==
    ASSUME NEW stream \in Seq(Shown), InTime(stream), NEW a \in 1..Len(stream),
           NEW i \in (a + 1)..Len(stream), NEW b \in a..(i - 1), NEW j \in a..(i - 1),
           Stale(stream, a, b, j), \A m \in j..i : ~ NewPeak(stream, a, m), NEW m \in j..i
    PROVE  a < j /\ b \in a..(m - 1) /\ Stale(stream, a, b, m) /\ m \in (a + 1)..Len(stream)
<1>1. Len(stream) \in Nat /\ a \in Nat /\ i \in Nat /\ b \in Nat /\ j \in Nat /\ m \in Nat
  BY StreamIs
<1>2. /\ a <= b /\ b < j /\ NewPeak(stream, a, b) /\ (\A l \in (b + 1)..j : ~ NewPeak(stream, a, l))
      /\ stream[j].at - stream[b].at >= Grace
  BY DEF Stale
<1>3. a < j /\ j <= m /\ m <= i /\ b < m /\ b \in a..(m - 1) /\ m \in (a + 1)..Len(stream)
  BY <1>1, <1>2
<1>4. j \in 1..Len(stream) /\ m \in 1..Len(stream) /\ b \in 1..Len(stream)
  BY <1>1, <1>2, <1>3
<1>5. stream[j].at <= stream[m].at /\ stream[j].at \in Nat /\ stream[m].at \in Nat /\ stream[b].at \in Nat
  BY <1>3, <1>4, StreamIs DEF InTime
<1>6. stream[m].at - stream[b].at >= Grace
  BY <1>2, <1>5 DEF Grace
<1>7. \A l \in (b + 1)..m : ~ NewPeak(stream, a, l)
  <2>1. \A l \in (b + 1)..m : l \in (b + 1)..j \/ l \in j..i
    BY <1>1, <1>3
  <2> QED BY <1>2, <2>1
<1> QED BY <1>2, <1>3, <1>6, <1>7 DEF Stale

\* No position waits longer than it may: for a new peak, for a reversal, or at all.
THEOREM ExitsAlwaysTimely ==
    ASSUME NEW stream \in Seq(Shown), InTime(stream)
    PROVE  ExitsAreTimely(stream)
<1> DEFINE a == ArmedAt(stream, ElasticFaults)
           c == ElasticCourse(stream)
           r == RunnerCourse(stream, MaximumHold)
<1>1. Len(stream) \in Nat /\ \A i \in 1..Len(stream) : stream[i].at \in Nat /\ stream[i].reversal \in BOOLEAN
  BY StreamIs
<1>2. Behaves("elastic", 0, c, stream) /\ Behaves("runner", MaximumHold, r, stream)
  BY <1>1, Courses, Walks
<1>3. Faults("elastic") = ElasticFaults /\ Faults("runner") = RunnerFaults
  BY DEF Faults
<1> HIDE DEF a, c, r
<1>4. SUFFICES ASSUME a # 0, NEW i \in (a + 1)..Len(stream)
      PROVE  /\ c[i + 1].reason = "NO_NEW_PEAK_300MS" /\ ~ Ended(c[i]) =>
                  ~ stream[i].reversal /\ IsStale(stream, a, i)
             /\ IsStale(stream, a, i) /\ ~ stream[i].reversal => Ended(c[i + 1])
             /\ (\E b \in a..(i - 1), j \in a..(i - 1) :
                    Stale(stream, a, b, j) /\ stream[i].at - stream[j].at >= Confirmation
                    /\ \A k \in j..i : ~ NewPeak(stream, a, k)) => Ended(c[i + 1])
             /\ stream[i].at >= stream[a].at + MaximumHold => Ended(r[i + 1])
             /\ r[i + 1].reason # "NO_NEW_PEAK_300MS"
  BY DEF ExitsAreTimely, IsStale, a, c, r
<1>5. a \in 1..Len(stream) /\ Worth(stream, a, ElasticFaults)
      /\ \A j \in 1..Len(stream) : Worth(stream, j, ElasticFaults) => a <= j
  BY <1>4, Arming DEF a
<1>6. a \in Nat /\ i \in Nat /\ i \in 1..Len(stream) /\ stream[a].net >= Activation
      /\ \A m \in (a + 1)..i : m \in 1..Len(stream) /\ a \in 1..(m - 1)
  BY <1>1, <1>5 DEF Worth
<1>7. ASSUME NEW m \in (a + 1)..i, ~ Ended(c[m])
      PROVE  Outcome("elastic", 0, c[m + 1], stream, a, m)
  BY <1>2, <1>3, <1>6, <1>7, OpenFollows DEF a
<1>8. ASSUME NEW m \in (a + 1)..i, ~ Ended(c[m + 1])
      PROVE  /\ ~ Ended(c[m])
             /\ ~ HasTurned(stream, a, m)
             /\ IsStale(stream, a, m) => stream[m].reversal
  <2>1. m \in 1..Len(stream)
    BY <1>6
  <2>2. ~ Ended(c[m])
    BY <1>2, <1>8, <2>1 DEF Behaves, StatusStep
  <2>3. Outcome("elastic", 0, c[m + 1], stream, a, m)
    BY <1>7, <2>2
  <2> QED BY <1>8, <2>2, <2>3 DEF Outcome, Left
<1>9. i \in (a + 1)..i
  BY <1>6
<1>10. c[i + 1].reason = "NO_NEW_PEAK_300MS" /\ ~ Ended(c[i]) =>
         ~ stream[i].reversal /\ IsStale(stream, a, i)
  <2>1. SUFFICES ASSUME c[i + 1].reason = "NO_NEW_PEAK_300MS", ~ Ended(c[i])
                 PROVE  ~ stream[i].reversal /\ IsStale(stream, a, i)
    OBVIOUS
  <2>2. Outcome("elastic", 0, c[i + 1], stream, a, i)
    BY <1>7, <1>9, <2>1
  <2>3. Tracks(c[i + 1], stream, a, i) => c[i + 1].reason = "none"
    BY TracksFields
  <2> QED BY <2>1, <2>2, <2>3 DEF Outcome, Left
<1>11. IsStale(stream, a, i) /\ ~ stream[i].reversal => Ended(c[i + 1])
  BY <1>8, <1>9
<1>12. ASSUME NEW b \in a..(i - 1), NEW j \in a..(i - 1), Stale(stream, a, b, j),
              stream[i].at - stream[j].at >= Confirmation,
              \A k \in j..i : ~ NewPeak(stream, a, k)
       PROVE  Ended(c[i + 1])
  <2>1. SUFFICES ASSUME ~ Ended(c[i + 1]) PROVE FALSE
    OBVIOUS
  <2>2. \A m \in j..i : a < j /\ m \in (a + 1)..i /\ IsStale(stream, a, m)
    <3>1. TAKE m \in j..i
    <3>2. a < j /\ b \in a..(m - 1) /\ Stale(stream, a, b, m)
      BY <1>5, <1>12, StaleStays
    <3>3. m \in (a + 1)..i
      BY <1>6, <3>2
    <3> QED BY <3>2, <3>3 DEF IsStale
  <2>3. \A m \in j..i : ~ Ended(c[m + 1])
    <3>1. SUFFICES ASSUME NEW m \in j..i, Ended(c[m + 1]) PROVE FALSE
      OBVIOUS
    <3>2. m + 1 \in 1..(Len(stream) + 1) /\ i + 1 \in (m + 1)..(Len(stream) + 1)
      BY <1>1, <1>6
    <3> QED BY <1>2, <2>1, <3>1, <3>2, EndedStays
  <2>4. \A m \in j..i : stream[m].reversal /\ ~ NewPeak(stream, a, m)
    BY <1>8, <1>12, <2>2, <2>3
  <2>5. a < j /\ j < i /\ j \in 1..i /\ i \in j..i
    BY <1>6, <2>2
  <2>6. Turned(stream, a, j, i)
    BY <1>12, <2>4, <2>5 DEF Turned
  <2>7. HasTurned(stream, a, i)
    BY <2>5, <2>6 DEF HasTurned
  <2> QED BY <1>8, <1>9, <2>1, <2>7
<1>13. ASSUME stream[i].at >= stream[a].at + MaximumHold
       PROVE  Ended(r[i + 1])
  <2>1. CASE Ended(r[i])
    BY <1>2, <1>6, <2>1 DEF Behaves, StatusStep
  <2>2. CASE ~ Ended(r[i])
    <3> DEFINE e == ArmedAt(stream, RunnerFaults)
    <3>1. a \in 1..(i - 1)
      BY <1>6, <1>9
    <3>2. Unfaulted(stream, i - 1, RunnerFaults) /\ Outcome("runner", MaximumHold, r[i + 1], stream, e, i)
      BY <1>2, <1>3, <1>6, <2>2, <3>1, OpenFollows
    <3>3. Worth(stream, a, RunnerFaults)
      BY <1>6, <3>1, <3>2 DEF Worth, Unfaulted
    <3>4. e \in 1..Len(stream) /\ Worth(stream, e, RunnerFaults) /\ e <= a
      BY <1>5, <3>3, Arming
    <3>5. Worth(stream, e, ElasticFaults)
      BY <3>4 DEF Worth, Unfaulted, ElasticFaults, RunnerFaults
    <3>6. e = a
      BY <1>5, <1>6, <3>4, <3>5
    <3> HIDE DEF e
    <3> QED BY <1>13, <3>2, <3>6 DEF Outcome, Left
  <2> QED BY <2>1, <2>2
<1>14. r[i + 1].reason # "NO_NEW_PEAK_300MS"
  <2>1. Status("runner", r[i + 1], stream, i + 1)
    BY <1>2, <1>6 DEF Behaves
  <2>2. CASE Ended(r[i + 1]) /\ r[i + 1].reason # "NO_NEW_PEAK_300MS"
    BY <2>2
  <2>3. CASE Waits(RunnerFaults, r[i + 1], stream, i + 1)
    BY <2>3 DEF Waits, ControllerStart
  <2>4. CASE IsArmed(RunnerFaults, r[i + 1], stream, i + 1)
    <3>1. Tracks(r[i + 1], stream, ArmedAt(stream, RunnerFaults), (i + 1) - 1)
      BY <2>4 DEF IsArmed
    <3> QED BY <3>1, TracksFields
  <2> QED BY <1>3, <2>1, <2>2, <2>3, <2>4 DEF Status
<1> QED BY <1>10, <1>11, <1>12, <1>13, <1>14

\* On one and the same market the elastic exit never outlasts a runner that may hold longer
\* than the market is shown.
THEOREM ElasticAlwaysLeavesFirst ==
    ASSUME NEW stream \in Seq(Shown), InTime(stream),
           \A i, j \in 1..Len(stream) : stream[j].at < stream[i].at + 1000
    PROVE  ElasticLeavesFirst(stream)
<1> DEFINE c == ElasticCourse(stream)
           r == RunnerCourse(stream, 1000)
<1>1. Len(stream) \in Nat /\ DOMAIN stream = 1..Len(stream)
      /\ \A i \in 1..Len(stream) : stream[i].at \in Nat /\ stream[i].net \in Int
  BY StreamIs
<1>2. Behaves("elastic", 0, c, stream) /\ Behaves("runner", 1000, r, stream)
  BY <1>1, Courses, Walks
<1>3. Faults("elastic") = {"liquidity"} /\ Faults("runner") = {"liquidity", "boundary"}
  BY DEF Faults, ElasticFaults, RunnerFaults
<1> HIDE DEF c, r
<1>4. SUFFICES ASSUME NEW i \in 1..Len(stream), Ended(r[i + 1]), ~ Ended(r[i]),
                      stream[i].fault # "boundary"
               PROVE  Ended(c[i + 1])
  BY <1>1 DEF ElasticLeavesFirst, c, r
<1>5. StatusStep("elastic", 0, c[i], c[i + 1], stream, i) /\ StatusStep("runner", 1000, r[i], r[i + 1], stream, i)
  BY <1>2 DEF Behaves
<1>6. CASE stream[i].fault = "liquidity"
  BY <1>3, <1>5, <1>6 DEF StatusStep, Outcome
<1>7. CASE stream[i].fault # "liquidity"
  <2> DEFINE a == ArmedAt(stream, Faults("runner"))
             e == ArmedAt(stream, Faults("elastic"))
  <2>1. IsArmed(Faults("runner"), r[i], stream, i) /\ Outcome("runner", 1000, r[i + 1], stream, a, i)
    BY <1>3, <1>4, <1>5, <1>7 DEF StatusStep
  <2>2. a \in 1..(i - 1) /\ a \in 1..Len(stream) /\ a # 0 /\ a \in Nat /\ i \in Nat
    BY <1>1, <2>1 DEF IsArmed
  <2>3. Worth(stream, a, Faults("runner")) /\ Unfaulted(stream, i - 1, Faults("runner"))
        /\ \A j \in 1..Len(stream) : Worth(stream, j, Faults("runner")) => a <= j
    BY <2>1, <2>2, Arming DEF IsArmed
  <2>4. CASE Ended(c[i])
    BY <1>5, <2>4 DEF StatusStep
  <2>5. CASE ~ Ended(c[i])
    <3>1. Outcome("elastic", 0, c[i + 1], stream, e, i)
      BY <1>2, <2>2, <2>3, <2>5, OpenFollows DEF Worth
    <3>2. Worth(stream, a, Faults("elastic"))
      BY <1>3, <2>3 DEF Worth, Unfaulted
    <3>3. e \in 1..Len(stream) /\ Worth(stream, e, Faults("elastic")) /\ e <= a
      BY <2>2, <3>2, Arming
    <3>4. \A k \in 1..e : k \in 1..(i - 1)
      BY <2>2, <3>3
    <3>5. Worth(stream, e, Faults("runner"))
      BY <2>3, <3>3, <3>4 DEF Worth, Unfaulted
    <3>6. e = a
      BY <2>2, <2>3, <3>3, <3>5
    <3>7. ~ stream[i].at >= stream[a].at + 1000
      BY <1>1, <2>2
    <3>8. Tracks(r[i + 1], stream, a, i) => ~ Ended(r[i + 1])
      BY TracksFields
    <3> HIDE DEF a, e
    <3>9. Breach(stream, a, i) \/ HasTurned(stream, a, i)
      BY <1>3, <1>4, <1>7, <2>1, <3>7, <3>8 DEF Outcome
    <3> QED BY <1>3, <1>7, <3>1, <3>6, <3>9 DEF Outcome, Left
  <2> QED BY <2>4, <2>5
<1> QED BY <1>6, <1>7

-----------------------------------------------------------------------------
(* The order of the adapter *)

NotSent(c)             == [controller |-> c, submitted |-> FALSE, orders |-> <<>>, open |-> TRUE]
WasSent(c, sent, open) == [controller |-> c, submitted |-> TRUE, orders |-> sent, open |-> open]

PutController(d, c) == [d EXCEPT !.controller = c]

\* The adapter has sent its order if the controller has ended, and else none.
Submitted(d, c) ==
    IF Ended(c) THEN \E sent, open : d = WasSent(c, sent, open) /\ Len(sent) = 1 ELSE d = NotSent(c)

LEMMA AdapterFields ==
    ASSUME NEW c, NEW e, NEW sent, NEW open
    PROVE  /\ NotSent(c).controller = c /\ ~ NotSent(c).submitted /\ NotSent(c).orders = <<>>
           /\ WasSent(c, sent, open).controller = c /\ WasSent(c, sent, open).submitted
           /\ WasSent(c, sent, open).orders = sent
           /\ PutController(NotSent(c), e) = NotSent(e)
           /\ PutController(WasSent(c, sent, open), e) = WasSent(e, sent, open)
<1>1. NotSent(c).controller = c /\ ~ NotSent(c).submitted /\ NotSent(c).orders = <<>>
  BY DEF NotSent
<1>2. WasSent(c, sent, open).controller = c /\ WasSent(c, sent, open).submitted
  BY DEF WasSent
<1>3. WasSent(c, sent, open).orders = sent
  BY DEF WasSent
<1> DEFINE Record(b, submitted, orders, up) ==
             [controller |-> b, submitted |-> submitted, orders |-> orders, open |-> up]
<1>4. ASSUME NEW submitted, NEW orders, NEW up
      PROVE  PutController(Record(c, submitted, orders, up), e) = Record(e, submitted, orders, up)
  BY SMT DEF PutController
<1>5. /\ PutController(NotSent(c), e) = NotSent(e)
      /\ PutController(WasSent(c, sent, open), e) = WasSent(e, sent, open)
  BY <1>4, Zenon DEF NotSent, WasSent
<1> QED BY <1>1, <1>2, <1>3, <1>5

Ordered(d, c, e, f, o) ==
    /\ f.controller = e
    /\ Len(f.orders) = IF Ended(e) THEN 1 ELSE 0
    /\ Ended(e) /\ ~ Ended(c) => f.orders[1].at = o.at /\ f.open = ~ o.fills
    /\ Ended(c) => f = d

LEMMA AdapterStep ==
    ASSUME NEW o \in Shown, NEW c, NEW e, e = ObserveElastic(c, o), NEW d, Submitted(d, c),
           NEW f, f = ObserveAdapter(d, o)
    PROVE  Submitted(f, e) /\ Ordered(d, c, e, f, o)
<1>1. d.controller = c /\ (d.submitted <=> Ended(c)) /\ (~ Ended(c) => d.orders = <<>>)
  <2>1. CASE Ended(c)
    <3>1. PICK sent, open : d = WasSent(c, sent, open)
      BY <2>1 DEF Submitted
    <3> QED BY <2>1, <3>1, AdapterFields
  <2>2. CASE ~ Ended(c)
    BY <2>2, AdapterFields DEF Submitted
  <2> QED BY <2>1, <2>2
<1> DEFINE reference == IF e.state = "FAILSAFE" THEN "best" ELSE "executable"
           order == [at |-> o.at, reference |-> reference]
<1>3. f = IF d.submitted \/ ~ Ended(e) THEN PutController(d, e)
          ELSE [controller |-> e, submitted |-> TRUE, open |-> ~ o.fills,
                orders |-> Append(d.orders, order)]
  BY <1>1, Zenon DEF ObserveAdapter, PutController
<1>4. order.at = o.at
  OBVIOUS
<1> HIDE DEF order
<1>5. CASE Ended(c)
  <2>1. e = c
    BY <1>5, Zenon DEF ObserveElastic
  <2>2. PICK sent, open : d = WasSent(c, sent, open) /\ Len(sent) = 1
    BY <1>5 DEF Submitted
  <2>3. f = PutController(d, c)
    BY <1>1, <1>3, <1>5, <2>1
  <2>4. PutController(d, c) = WasSent(c, sent, open)
    BY <2>2, AdapterFields
  <2>5. f = d
    BY <2>2, <2>3, <2>4
  <2>6. d.orders = sent
    BY <2>2, AdapterFields
  <2> QED BY <1>1, <1>5, <2>1, <2>2, <2>5, <2>6 DEF Ordered
<1>6. CASE ~ Ended(c) /\ ~ Ended(e)
  <2>1. f = PutController(d, e)
    BY <1>3, <1>6
  <2>2. f = NotSent(e)
    BY <1>6, <2>1, AdapterFields DEF Submitted
  <2>3. f.controller = e /\ f.orders = <<>>
    BY <2>2, AdapterFields
  <2>4. Len(f.orders) = 0
    BY <2>3
  <2> QED BY <1>6, <2>2, <2>3, <2>4 DEF Ordered, Submitted
<1>7. CASE ~ Ended(c) /\ Ended(e)
  <2> DEFINE sent == Append(<<>>, order)
             opened == ~ o.fills
  <2>1. f = [controller |-> e, submitted |-> TRUE, open |-> opened, orders |-> sent]
    BY <1>1, <1>3, <1>7
  <2>2. sent = <<order>> /\ Len(sent) = 1 /\ sent[1] = order /\ opened \in BOOLEAN
    OBVIOUS
  <2> HIDE DEF sent, opened
  <2>3. f = WasSent(e, sent, opened)
    BY <2>1 DEF WasSent
  <2>4. f.controller = e /\ f.orders = sent /\ f.open = opened
    BY <2>1
  <2>5. Submitted(f, e)
    BY <1>7, <2>2, <2>3 DEF Submitted
  <2> QED BY <1>4, <1>7, <2>2, <2>4, <2>5 DEF Ordered, opened
<1> QED BY <1>5, <1>6, <1>7

\* One order is sent, in the step the controller ends, and its result changes nothing.
THEOREM OneExitOrderAlways ==
    ASSUME NEW stream \in Seq(Shown)
    PROVE  OneExitOrder(stream)
<1> DEFINE c == ElasticCourse(stream)
           d == AdapterCourse(stream)
           n == Len(stream)
           Fine(i) == Submitted(d[i], c[i])
           T == {i \in 1..(n + 1) : ~ Fine(i)}
<1>1. n \in Nat /\ DOMAIN stream = 1..n /\ \A i \in 1..n : stream[i] \in Shown
  BY StreamIs DEF Numbered
<1>2. Stepwise(c, "elastic", 0, stream) /\ Stepwise(d, "adapter", 0, stream)
  BY <1>1, Courses
<1> HIDE DEF c, d
<1>3. /\ c[1] = ControllerStart /\ d[1] = AdapterStart
      /\ \A i \in 1..n : /\ c[i + 1] = ObserveElastic(c[i], stream[i])
                         /\ d[i + 1] = ObserveAdapter(d[i], stream[i])
  BY <1>2 DEF Stepwise, Watch, Outset
<1>4. \A i \in 1..n : Fine(i) => Fine(i + 1) /\ Ordered(d[i], c[i], c[i + 1], d[i + 1], stream[i])
  BY <1>1, <1>3, AdapterStep
<1>5. Fine(1)
  <2>1. d[1] = NotSent(c[1])
    BY <1>3 DEF AdapterStart, NotSent
  <2>2. ~ Ended(c[1])
    BY <1>3 DEF ControllerStart, Ended
  <2> QED BY <2>1, <2>2 DEF Submitted
<1> HIDE DEF Fine
<1>6. T = {}
  <2>1. SUFFICES ASSUME T # {} PROVE FALSE
    OBVIOUS
  <2>2. T \subseteq Nat
    BY <1>1
  <2>3. PICK i \in T : \A j \in T : i <= j
    <3> HIDE DEF T
    <3> QED BY <2>1, <2>2, LeastNatural
  <2>4. i # 1
    BY <1>5, <2>3
  <2>5. i - 1 \in 1..n /\ (i - 1) + 1 = i /\ i - 1 \in 1..(n + 1) /\ ~ i <= i - 1
    BY <1>1, <2>3, <2>4
  <2>6. Fine(i - 1)
    BY <2>3, <2>5
  <2>7. Fine(i)
    BY <1>4, <2>5, <2>6
  <2> QED BY <2>3, <2>7
<1>7. \A i \in 1..n : i \in 1..(n + 1)
  BY <1>1
<1>8. \A i \in 1..n : Ordered(d[i], c[i], c[i + 1], d[i + 1], stream[i])
  BY <1>4, <1>6, <1>7
<1> QED BY <1>1, <1>8 DEF OneExitOrder, Ordered, c, d
=============================================================================
