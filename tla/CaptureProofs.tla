---------------------------- MODULE CaptureProofs ----------------------------
(* Theorems about a capture: the session directories of a campaign, for any *)
(* number of sessions, events, crashes and recoveries; and what a capture   *)
(* believes about its connections, for any streams, queue and deadline.     *)
EXTENDS CaptureCampaign, CaptureHealth, FiniteSetTheorems, WellFoundedInduction, TLAPS

WriterFields == {"phase", "events", "files", "verdict"}

Phases == {"idle", "open", "rotating", "closing", "reopen", "closed", "manifest"}

\* The shape of the store, and that sessions are started in order.
Shape ==
    /\ DOMAIN part = Session /\ DOMAIN renamed = Session /\ DOMAIN manifest = Session
    /\ DOMAIN writer = WriterFields /\ writer.phase \in Phases
    /\ started \in 0 .. MaxSessions
    /\ writer.phase # "idle" => started \in Session
    /\ \A s \in Session : s > started => manifest[s] = None /\ renamed[s] = 0

\* The writer knows its files, has written no manifest yet, and left no part behind
\* once it is closed.
WriterInv ==
    writer.phase # "idle" =>
        /\ manifest[started] \in {None, Torn}
        /\ renamed[started] = writer.files
        /\ writer.phase \in {"closed", "manifest"} => part[started] = None

SealInv == Shape /\ WriterInv /\ ManifestSealsSession

LEMMA InitSeal == Init => SealInv
<1>1. SUFFICES ASSUME Init PROVE SealInv
  OBVIOUS
<1>2. StoreInit /\ MaxSessions \in Nat
  BY <1>1, StoreAssumption DEF Init
<1>3. writer.phase = "idle" /\ DOMAIN writer = WriterFields
  BY <1>2 DEF StoreInit, Idle, WriterFields
<1> QED BY <1>2, <1>3 DEF StoreInit, SealInv, Shape, WriterInv, ManifestSealsSession,
                          Inspectable, Phases

\* A step that only changes the running session has to establish the invariant of
\* that session only.
LEMMA OneSession ==
    ASSUME SealInv, started \in Session, started' = started,
           DOMAIN part' = Session, DOMAIN renamed' = Session, DOMAIN manifest' = Session,
           \A s \in Session \ {started} :
               part'[s] = part[s] /\ renamed'[s] = renamed[s] /\ manifest'[s] = manifest[s],
           DOMAIN writer' = WriterFields, writer'.phase \in Phases,
           manifest'[started] \notin {None, Torn} =>
               part'[started] = None /\ manifest'[started].files = renamed'[started],
           writer'.phase # "idle" =>
               /\ manifest'[started] \in {None, Torn} /\ renamed'[started] = writer'.files
               /\ writer'.phase \in {"closed", "manifest"} => part'[started] = None
    PROVE  SealInv'
<1>1. Shape'
  <2>1. \A s \in Session : s > started => s # started
    BY DEF Session
  <2> QED BY <2>1 DEF SealInv, Shape
<1>2. WriterInv'
  BY DEF WriterInv
<1>3. ManifestSealsSession'
  BY DEF SealInv, ManifestSealsSession, Inspectable
<1> QED BY <1>1, <1>2, <1>3 DEF SealInv

\* A new session finds no manifest and no event file of its own.
LEMMA OpenedSeals == ASSUME SealInv, WriterOpened PROVE SealInv'
<1>1. /\ started \in 0 .. MaxSessions /\ MaxSessions \in Nat /\ started < MaxSessions
      /\ started' = started + 1
  BY StoreAssumption DEF SealInv, Shape, WriterOpened
<1>2. started' \in Session /\ started' > started
  BY <1>1 DEF Session
<1>3. manifest'[started'] = None /\ renamed'[started'] = 0
  BY <1>2 DEF SealInv, Shape, WriterOpened
<1>4. /\ writer'.phase = "open" /\ writer'.files = 0 /\ DOMAIN writer' = WriterFields
      /\ DOMAIN part' = Session /\ DOMAIN renamed' = Session /\ DOMAIN manifest' = Session
  BY DEF WriterOpened, Idle, WriterFields, SealInv, Shape
<1>5. \A s \in Session : /\ manifest'[s] = manifest[s] /\ renamed'[s] = renamed[s]
                         /\ s # started' => part'[s] = part[s]
  BY DEF WriterOpened, SealInv, Shape
<1>6. Shape'
  <2>1. \A s \in Session : s > started' => s > started
    BY <1>1 DEF Session
  <2> QED BY <1>1, <1>2, <1>4, <1>5, <2>1 DEF SealInv, Shape, Phases
<1>7. WriterInv'
  BY <1>3, <1>4 DEF WriterInv
<1>8. ManifestSealsSession'
  BY <1>3, <1>5 DEF SealInv, ManifestSealsSession, Inspectable
<1> QED BY <1>6, <1>7, <1>8 DEF SealInv

\* While a session is being written its manifest is absent or torn.
LEMMA Writing ==
    ASSUME SealInv, writer.phase # "idle"
    PROVE  /\ started \in Session /\ manifest[started] \in {None, Torn}
           /\ renamed[started] = writer.files
           /\ DOMAIN part = Session /\ DOMAIN renamed = Session /\ DOMAIN manifest = Session
           /\ DOMAIN writer = WriterFields
           /\ writer.phase \in {"closed", "manifest"} => part[started] = None
BY DEF SealInv, Shape, WriterInv

\* Every step of the writer of the running session keeps the invariant.
LEMMA WriterStepSeals == ASSUME SealInv, WriterStep PROVE SealInv'
<1>1. CASE EventAppended
  <2>1. writer.phase # "idle"
    BY <1>1 DEF EventAppended
  <2> QED BY <1>1, <2>1, Writing, OneSession DEF EventAppended, WriterFields, Phases
<1>2. CASE PartRenamed
  <2>1. writer.phase # "idle"
    BY <1>2 DEF PartRenamed
  <2> QED BY <1>2, <2>1, Writing, OneSession DEF PartRenamed, WriterFields, Phases
<1>3. CASE PartReopened
  <2>1. writer.phase # "idle"
    BY <1>3 DEF PartReopened
  <2> QED BY <1>3, <2>1, Writing, OneSession DEF PartReopened, WriterFields, Phases
<1>4. CASE ManifestTruncated
  <2>1. writer.phase = "closed"
    BY <1>4 DEF ManifestTruncated, ReadyForManifest
  <2> QED BY <1>4, <2>1, Writing, OneSession DEF ManifestTruncated, WriterFields, Phases
<1>5. CASE ManifestWritten
  <2>1. writer.phase = "manifest"
    BY <1>5 DEF ManifestWritten
  <2>2. writer'.phase = "idle" /\ DOMAIN writer' = WriterFields
    BY <1>5 DEF ManifestWritten, Idle, WriterFields
  <2>3. manifest'[started].files = renamed'[started]
    BY <1>5, <2>1, Writing DEF ManifestWritten
  <2> QED BY <1>5, <2>1, <2>2, <2>3, Writing, OneSession DEF ManifestWritten, Phases
<1> QED BY <1>1, <1>2, <1>3, <1>4, <1>5 DEF WriterStep

LEMMA ClosedSeals == ASSUME SealInv, NEW v, WriterClosed(v) PROVE SealInv'
<1>1. writer.phase # "idle"
  BY DEF WriterClosed
<1> QED BY <1>1, Writing, OneSession DEF WriterClosed, WriterFields, Phases

\* A remnant is no part of a session with a manifest.
LEMMA RecoveredSeals == ASSUME SealInv, NEW s \in Session, Recovered(s) PROVE SealInv'
<1>1. part[s] # None
  BY StoreAssumption DEF Recovered
<1>2. ~ Inspectable(s) /\ (s > started => FALSE)
  BY <1>1, StoreAssumption DEF SealInv, ManifestSealsSession, Recovered, Session, Shape
<1>3. /\ DOMAIN part' = Session /\ DOMAIN renamed' = Session /\ part'[s] = None
      /\ \A t \in Session \ {s} : part'[t] = part[t] /\ renamed'[t] = renamed[t]
  BY DEF Recovered, SealInv, Shape
<1>4. Shape'
  BY <1>2, <1>3 DEF SealInv, Shape, Recovered
<1>5. WriterInv'
  BY <1>3 DEF SealInv, Shape, WriterInv, Recovered
<1>6. ManifestSealsSession'
  BY <1>2, <1>3 DEF SealInv, ManifestSealsSession, Recovered, Inspectable
<1> QED BY <1>4, <1>5, <1>6 DEF SealInv

LEMMA IdleSeals ==
    ASSUME SealInv, writer' = Idle, UNCHANGED <<part, renamed, manifest, started>>
    PROVE  SealInv'
<1>1. writer'.phase = "idle" /\ DOMAIN writer' = WriterFields
  BY DEF Idle, WriterFields
<1> QED BY <1>1 DEF SealInv, Shape, WriterInv, ManifestSealsSession, Inspectable, Phases

LEMMA StutterSeals == ASSUME SealInv, UNCHANGED storeVars PROVE SealInv'
BY DEF storeVars, SealInv, Shape, WriterInv, ManifestSealsSession, Inspectable

\* Of the steps of the command and of its environment only those of the recorder,
\* the recovery and the crash touch the store.
LEMMA NextSeals == ASSUME SealInv, [Next]_vars PROVE SealInv'
<1>1. CASE Process
  <2>1. CASE Loop
    BY <2>1, OpenedSeals, StutterSeals DEF Loop
  <2>2. CASE Record
    BY <2>2, WriterStepSeals DEF Record
  <2>3. ASSUME NEW v \in Outcomes, RecorderEnds(v) PROVE SealInv'
    BY <2>3, ClosedSeals DEF RecorderEnds
  <2>4. CASE Judge \/ Resume \/ Build \/ Write \/ Finish
    BY <2>4, StutterSeals DEF Judge, Resume, Build, Write, Finish
  <2> QED BY <1>1, <2>1, <2>2, <2>3, <2>4 DEF Process
<1>2. ASSUME NEW c \in Campaign, Launch(c) PROVE SealInv'
  BY <1>2, StutterSeals DEF Launch
<1>3. CASE RequestStop
  BY <1>3, StutterSeals DEF RequestStop
<1>4. CASE Crash
  BY <1>4, IdleSeals DEF Crash
<1>5. ASSUME NEW s \in Session, Damage(s) PROVE SealInv'
  BY <1>5, StutterSeals DEF Damage
<1>6. ASSUME NEW s \in Session, Recover(s) PROVE SealInv'
  BY <1>6, RecoveredSeals DEF Recover
<1>7. CASE UNCHANGED vars
  BY <1>7, StutterSeals DEF vars
<1> QED BY <1>1, <1>2, <1>3, <1>4, <1>5, <1>6, <1>7 DEF Next

\* microstructure/storage.py writes the manifest last: for any number of sessions,
\* events, kills and recoveries, a whole manifest lists every event file of its
\* session and no part is left beside it.
THEOREM ManifestIsTheSeal == Spec => []ManifestSealsSession
<1>1. SealInv => ManifestSealsSession
  BY DEF SealInv
<1> QED BY <1>1, InitSeal, NextSeals, PTL DEF Spec
-----------------------------------------------------------------------------
(* Sums of a sequence of amounts *)

\* A set of numbers has a least element.
LEMMA LeastNatural ==
    ASSUME NEW T, T \subseteq Nat, T # {}
    PROVE  \E m \in T : \A k \in T : m <= k
<1> DEFINE Upto == {0 .. n : n \in T}
<1>1. Upto \subseteq FiniteSubsetsOf(Nat)
  <2>1. \A n \in T : IsFiniteSet(0 .. n)
    BY FS_Interval
  <2> QED BY <2>1 DEF FiniteSubsetsOf
<1>2. \E x \in Upto : \A y \in Upto : <<y, x>> \notin StrictSubsetOrdering(Nat)
  <2>1. IsWellFoundedOn(StrictSubsetOrdering(Nat), FiniteSubsetsOf(Nat))
    BY FS_StrictSubsetOrderingWellFounded
  <2>2. Upto # {}
    OBVIOUS
  <2> HIDE DEF Upto
  <2> QED BY <1>1, <2>1, <2>2, WFMin
<1>3. PICK m \in T : \A k \in T : <<0 .. k, 0 .. m>> \notin StrictSubsetOrdering(Nat)
  BY <1>2
<1>4. ASSUME NEW k \in T, k < m
      PROVE  FALSE
  <2>1. 0 .. k \subseteq 0 .. m /\ 0 .. k # 0 .. m
    BY <1>4
  <2>2. <<0 .. k, 0 .. m>> \in StrictSubsetOrdering(Nat)
    BY <2>1 DEF StrictSubsetOrdering
  <2> QED BY <1>3, <2>2
<1> QED BY <1>4

\* The partial sums of a up to the m-th.
IsSum(sum, a, m) == sum = [n \in 0 .. m |-> IF n = 0 THEN 0 ELSE sum[n - 1] + a[n]]

LEMMA SumValues ==
    ASSUME NEW m \in Nat, NEW a, NEW sum, IsSum(sum, a, m)
    PROVE  sum[0] = 0 /\ \A n \in 1 .. m : sum[n] = sum[n - 1] + a[n]
<1>1. \A n \in 0 .. m : sum[n] = IF n = 0 THEN 0 ELSE sum[n - 1] + a[n]
  BY DEF IsSum
<1>2. 0 \in 0 .. m /\ \A n \in 1 .. m : n \in 0 .. m /\ n # 0
  OBVIOUS
<1> QED BY <1>1, <1>2

\* The recursive definition has a meaning for every length.
LEMMA SumExists ==
    ASSUME NEW a, NEW m \in Nat
    PROVE  \E sum : IsSum(sum, a, m)
<1> DEFINE T == {n \in Nat : ~ \E sum : IsSum(sum, a, n)}
<1>1. SUFFICES ASSUME T # {} PROVE FALSE
  OBVIOUS
<1>2. PICK n \in T : \A k \in T : n <= k
  BY <1>1, LeastNatural
<1>3. n # 0
  <2>1. IsSum([k \in 0 .. 0 |-> 0], a, 0)
    BY DEF IsSum
  <2> QED BY <2>1
<1>4. n - 1 \in Nat /\ n \in Nat /\ n - 1 \notin T
  BY <1>2, <1>3
<1>5. PICK sum : IsSum(sum, a, n - 1)
  BY <1>4
<1> DEFINE more == [k \in 0 .. n |-> IF k = n THEN sum[n - 1] + a[n] ELSE sum[k]]
<1>6. \A k \in 0 .. n : more[k] = IF k = 0 THEN 0 ELSE more[k - 1] + a[k]
  <2>1. TAKE k \in 0 .. n
  <2>2. CASE k = 0
    BY <1>3, <1>4, <1>5, <2>2, SumValues
  <2>3. CASE k # 0 /\ k # n
    <3>1. k \in 1 .. (n - 1) /\ k - 1 \in 0 .. n /\ k - 1 # n
      BY <1>4, <2>3
    <3> QED BY <1>4, <1>5, <2>3, <3>1, SumValues
  <2>4. CASE k = n
    <3>1. n - 1 \in 0 .. n /\ n - 1 # n /\ n \in 0 .. n
      BY <1>4
    <3> QED BY <1>3, <2>4, <3>1
  <2> QED BY <2>2, <2>3, <2>4
<1>7. IsSum(more, a, n)
  <2> SUFFICES more = [k \in 0 .. n |-> IF k = 0 THEN 0 ELSE more[k - 1] + a[k]]
    BY DEF IsSum
  <2> QED BY <1>6
<1> QED BY <1>2, <1>7

LEMMA SumOfNaturals ==
    ASSUME NEW m \in Nat, NEW a, NEW sum, IsSum(sum, a, m), \A i \in 1 .. m : a[i] \in Nat
    PROVE  \A n \in 0 .. m : sum[n] \in Nat
<1> DEFINE T == {n \in 0 .. m : sum[n] \notin Nat}
<1>1. SUFFICES ASSUME T # {} PROVE FALSE
  OBVIOUS
<1>2. PICK n \in T : \A k \in T : n <= k
  <2>1. T \subseteq Nat
    OBVIOUS
  <2> HIDE DEF T
  <2> QED BY <1>1, <2>1, LeastNatural
<1>3. n # 0
  BY <1>2, SumValues
<1>4. n \in 1 .. m /\ n - 1 \in 0 .. m /\ ~ (n <= n - 1)
  BY <1>2, <1>3
<1>5. sum[n - 1] \in Nat
  BY <1>2, <1>4
<1> QED BY <1>2, <1>4, <1>5, SumValues

\* Two sums agree as long as their amounts do.
LEMMA SumsAgree ==
    ASSUME NEW m \in Nat, NEW n \in Nat, NEW a, NEW b, NEW s, NEW t, m <= n,
           IsSum(s, a, m), IsSum(t, b, n), \A i \in 1 .. m : a[i] = b[i]
    PROVE  s[m] = t[m]
<1> DEFINE T == {k \in 0 .. m : s[k] # t[k]}
<1>1. SUFFICES ASSUME T # {} PROVE FALSE
  OBVIOUS
<1>2. PICK k \in T : \A j \in T : k <= j
  <2>1. T \subseteq Nat
    OBVIOUS
  <2> HIDE DEF T
  <2> QED BY <1>1, <2>1, LeastNatural
<1>3. k # 0
  BY <1>2, SumValues
<1>4. k \in 1 .. m /\ k \in 1 .. n /\ k - 1 \in 0 .. m /\ ~ (k <= k - 1)
  BY <1>2, <1>3
<1>5. s[k - 1] = t[k - 1]
  BY <1>2, <1>4
<1>6. s[k] = s[k - 1] + a[k] /\ t[k] = t[k - 1] + b[k]
  BY <1>4, SumValues
<1> QED BY <1>2, <1>4, <1>5, <1>6

LEMMA TotalIsSum ==
    ASSUME NEW a, Len(a) \in Nat
    PROVE  \E sum : IsSum(sum, a, Len(a)) /\ Total(a) = sum[Len(a)]
<1> DEFINE s == CHOOSE sum : sum = [n \in 0 .. Len(a) |-> IF n = 0 THEN 0 ELSE sum[n - 1] + a[n]]
<1>1. \E sum : sum = [n \in 0 .. Len(a) |-> IF n = 0 THEN 0 ELSE sum[n - 1] + a[n]]
  BY SumExists DEF IsSum
<1>2. IsSum(s, a, Len(a))
  BY <1>1, Zenon DEF IsSum
<1>3. Total(a) = s[Len(a)]
  BY DEF Total
<1> QED BY <1>2, <1>3

LEMMA TotalOfNaturals ==
    ASSUME NEW a, Len(a) \in Nat, \A i \in 1 .. Len(a) : a[i] \in Nat
    PROVE  Total(a) \in Nat
<1>1. PICK sum : IsSum(sum, a, Len(a)) /\ Total(a) = sum[Len(a)]
  BY TotalIsSum
<1>2. Len(a) \in 0 .. Len(a)
  OBVIOUS
<1> QED BY <1>1, <1>2, SumOfNaturals

\* One amount more adds to the sum.
LEMMA TotalAppended ==
    ASSUME NEW a, NEW b, Len(a) \in Nat, Len(b) = Len(a) + 1, \A i \in 1 .. Len(a) : a[i] = b[i]
    PROVE  Total(b) = Total(a) + b[Len(b)]
<1>1. PICK s : IsSum(s, a, Len(a)) /\ Total(a) = s[Len(a)]
  BY TotalIsSum
<1>2. PICK t : IsSum(t, b, Len(b)) /\ Total(b) = t[Len(b)]
  BY TotalIsSum
<1>3. s[Len(a)] = t[Len(a)]
  BY <1>1, <1>2, SumsAgree
<1>4. t[Len(b)] = t[Len(b) - 1] + b[Len(b)]
  BY <1>2, SumValues
<1> QED BY <1>1, <1>2, <1>3, <1>4

LEMMA TotalOfNone ==
    ASSUME NEW a, Len(a) = 0
    PROVE  Total(a) = 0
BY TotalIsSum, SumValues

-----------------------------------------------------------------------------
(* The types of the store *)

\* A manifest that is whole is a record of its session; a writer that was closed knows
\* how its capture went.
StoreType ==
    /\ part \in [Session -> {None, "open", "closed"}]
    /\ renamed \in [Session -> Nat]
    /\ \A s \in Session : manifest[s] \in {None, Torn} \/ manifest[s] \in Manifest
    /\ writer.files \in Nat
    /\ writer.phase \in {"closing", "closed", "manifest"} => writer.verdict \in Verdict

LEMMA InitTypes == Init => StoreType
BY DEF Init, StoreInit, StoreType, Idle

LEMMA WriterStepTypes ==
    ASSUME SealInv, StoreType, WriterStep
    PROVE  /\ StoreType'
           /\ \A s \in Session \ {started} : manifest'[s] = manifest[s]
           /\ manifest[started] \in {None, Torn}
           /\ writer.phase # "idle" /\ started \in Session /\ started' = started
           /\ writer'.phase = "idle" => manifest'[started] \in Manifest
<1>1. writer.phase # "idle" /\ started' = started
  BY DEF WriterStep, EventAppended, PartRenamed, PartReopened, ManifestTruncated,
         ManifestWritten, ReadyForManifest
<1>2. /\ started \in Session /\ manifest[started] \in {None, Torn}
      /\ DOMAIN manifest = Session /\ DOMAIN writer = WriterFields
  BY <1>1, Writing
<1>3. CASE EventAppended
  <2>1. /\ writer'.files = writer.files /\ writer'.phase \in {"open", "rotating"}
        /\ part' = [part EXCEPT ![started] = IF writer.events + 1 >= Rotate THEN "closed" ELSE @]
        /\ manifest' = manifest /\ renamed' = renamed
    BY <1>2, <1>3 DEF EventAppended, WriterFields
  <2> QED BY <1>1, <1>2, <2>1 DEF StoreType
<1>4. CASE PartRenamed
  <2>1. /\ writer'.files = writer.files + 1 /\ writer'.verdict = writer.verdict
        /\ writer'.phase = IF writer.phase = "rotating" THEN "reopen" ELSE "closed"
        /\ writer.phase \in {"rotating", "closing"}
        /\ part' = [part EXCEPT ![started] = None] /\ renamed' = [renamed EXCEPT ![started] = @ + 1]
        /\ manifest' = manifest
    BY <1>2, <1>4 DEF PartRenamed, WriterFields
  <2> QED BY <1>1, <1>2, <2>1 DEF StoreType
<1>5. CASE PartReopened
  <2>1. /\ writer'.files = writer.files /\ writer'.phase = "open"
        /\ part' = [part EXCEPT ![started] = "open"]
        /\ manifest' = manifest /\ renamed' = renamed
    BY <1>2, <1>5 DEF PartReopened, WriterFields
  <2> QED BY <1>1, <1>2, <2>1 DEF StoreType
<1>6. CASE ManifestTruncated
  <2>1. /\ writer'.files = writer.files /\ writer'.phase = "manifest"
        /\ writer'.verdict = writer.verdict /\ writer.phase = "closed"
        /\ manifest' = [manifest EXCEPT ![started] = Torn]
        /\ part' = part /\ renamed' = renamed
    BY <1>2, <1>6 DEF ManifestTruncated, ReadyForManifest, WriterFields
  <2> QED BY <1>1, <1>2, <2>1 DEF StoreType
<1>7. CASE ManifestWritten
  <2> DEFINE m == [complete |-> writer.verdict.complete, quality |-> writer.verdict.quality,
                   duration |-> writer.verdict.duration, files |-> writer.files]
  <2>1. /\ writer.phase = "manifest" /\ writer' = Idle
        /\ manifest' = [manifest EXCEPT ![started] = m]
        /\ part' = part /\ renamed' = renamed
    BY <1>7 DEF ManifestWritten
  <2>2. m \in Manifest
    BY <2>1 DEF StoreType, Verdict, Manifest
  <2> HIDE DEF m
  <2>3. writer'.files \in Nat /\ writer'.phase = "idle"
    BY <2>1 DEF Idle
  <2> QED BY <1>1, <1>2, <2>1, <2>2, <2>3 DEF StoreType
<1> QED BY <1>3, <1>4, <1>5, <1>6, <1>7 DEF WriterStep

\* Every step keeps the types, and no whole manifest is ever touched.
LEMMA TypesStep ==
    ASSUME SealInv, StoreType, [Next]_vars
    PROVE  /\ StoreType'
           /\ \A s \in Session : Inspectable(s) => manifest'[s] = manifest[s]
<1>1. CASE UNCHANGED storeVars
  BY <1>1 DEF storeVars, StoreType
<1>2. CASE Record
  BY <1>2, WriterStepTypes DEF Record, Inspectable
<1>3. CASE Loop
  <2>1. CASE WriterOpened
    <3>1. /\ part' = [part EXCEPT ![started'] = "open"] /\ manifest' = manifest
          /\ renamed' = renamed /\ writer'.phase = "open" /\ writer'.files = 0
      BY <2>1 DEF WriterOpened, Idle
    <3>2. part' \in [Session -> {None, "open", "closed"}]
      BY <3>1 DEF StoreType
    <3>3. renamed' \in [Session -> Nat]
      BY <3>1 DEF StoreType
    <3>4. writer'.phase \notin {"closing", "closed", "manifest"} /\ writer'.files \in Nat
      BY <3>1
    <3>5. \A s \in Session : manifest'[s] \in {None, Torn} \/ manifest'[s] \in Manifest
      BY <3>1 DEF StoreType
    <3>6. StoreType'
      BY <3>2, <3>3, <3>4, <3>5 DEF StoreType
    <3> QED BY <3>1, <3>6
  <2> QED BY <1>1, <1>3, <2>1 DEF Loop
<1>4. ASSUME NEW v \in Outcomes, RecorderEnds(v)
      PROVE  /\ StoreType'
             /\ \A s \in Session : Inspectable(s) => manifest'[s] = manifest[s]
  <2>1. /\ writer' = [writer EXCEPT !.verdict = v,
                          !.phase = IF writer.events = 0 THEN "closed" ELSE "closing"]
        /\ part' = [part EXCEPT ![started] = IF writer.events = 0 THEN None ELSE "closed"]
        /\ renamed' = renamed /\ manifest' = manifest
    BY <1>4 DEF RecorderEnds, WriterClosed
  <2>2. writer'.files = writer.files /\ writer'.verdict = v
    BY <2>1 DEF SealInv, Shape, WriterFields
  <2>3. v \in Verdict
    BY StoreAssumption
  <2> QED BY <2>1, <2>2, <2>3 DEF StoreType
<1>5. CASE Crash
  <2>1. /\ writer'.phase = "idle" /\ writer'.files = 0
        /\ UNCHANGED <<part, renamed, manifest>>
    BY <1>5 DEF Crash, Idle
  <2> QED BY <2>1 DEF StoreType
<1>6. ASSUME NEW s \in Session, Recover(s)
      PROVE  /\ StoreType'
             /\ \A t \in Session : Inspectable(t) => manifest'[t] = manifest[t]
  <2>1. /\ part' = [part EXCEPT ![s] = None] /\ renamed' = [renamed EXCEPT ![s] = @ + 1]
        /\ manifest' = manifest /\ writer' = writer
    BY <1>6 DEF Recover, Recovered
  <2> QED BY <2>1 DEF StoreType
<1>7. CASE Judge \/ Resume \/ Build \/ Write \/ Finish \/ RequestStop
           \/ (\E c \in Campaign : Launch(c)) \/ (\E s \in Session : Damage(s))
  BY <1>1, <1>7 DEF Judge, Resume, Build, Write, Finish, RequestStop, Launch, Damage
<1> QED BY <1>1, <1>2, <1>3, <1>4, <1>5, <1>6, <1>7 DEF Next, Process, vars

-----------------------------------------------------------------------------
(* What a campaign lists *)

\* Whole sessions recorded without losing a connection, in the order of recording.
Proper(m, seq) ==
    /\ seq \in Seq(Session)
    /\ \A i \in DOMAIN seq : /\ m[seq[i]] \in Manifest \ {None, Torn}
                             /\ m[seq[i]].complete /\ m[seq[i]].quality = "CLEAN"
    /\ \A i, j \in DOMAIN seq : i < j => seq[i] < seq[j]

SecondsOf(m, seq) == Total([i \in DOMAIN seq |-> m[seq[i]].duration])

\* What is on the disk: a campaign holds what was last written to it, and sessions that
\* are over.
ListedInv ==
    /\ DOMAIN campaigns = Campaign /\ DOMAIN listed = Campaign
    /\ \A c \in Campaign : /\ Proper(manifest, listed[c])
                           /\ Whole(c) => campaigns[c] = listed[c]
                           /\ campaigns[c] = None => listed[c] = <<>>

Recording == {"record", "judge", "build", "write"}

\* What the process knows agrees with the disk, whatever was killed before it.
ProcessInv ==
    /\ pc \in {Off, "loop", "pause", "finish"} \cup Recording
    /\ id \in Campaign /\ rc \in {NoCode, 0, 2, 75}
    /\ writer.phase # "idle" <=> pc = "record"
    /\ pc = Off => paths = <<>> /\ captured = 0
    /\ pc # Off => captured = SecondsOf(manifest, listed[id])
    /\ pc \in Recording => /\ captured < Target /\ started \in Session
                           /\ \A c \in Campaign : \A i \in DOMAIN listed[c] : listed[c][i] < started
    /\ pc \in {"loop", "record", "judge", "pause", "finish"} => paths = listed[id]
    /\ pc \in {"build", "write"} => paths = Append(listed[id], started)
    /\ pc = "write" => Proper(manifest, paths) /\ campaigns[id] = Torn
    /\ pc \notin {Off, "write"} => campaigns[id] # Torn
    /\ pc = "pause" => ~ Eligible(started)

CampaignInv == SealInv /\ StoreType /\ ListedInv /\ ProcessInv

LEMMA AmountsOf ==
    ASSUME NEW m, NEW seq \in Seq(Session)
    PROVE  LET amounts == [i \in DOMAIN seq |-> m[seq[i]].duration]
           IN  /\ Len(amounts) = Len(seq) /\ Len(seq) \in Nat
               /\ \A i \in 1 .. Len(seq) : amounts[i] = m[seq[i]].duration
OBVIOUS

\* A list stays what it is as long as no whole manifest changes.
LEMMA ProperStays ==
    ASSUME NEW m, NEW n, NEW seq, Proper(m, seq),
           \A s \in Session : m[s] \notin {None, Torn} => n[s] = m[s]
    PROVE  Proper(n, seq) /\ SecondsOf(n, seq) = SecondsOf(m, seq)
<1>1. \A i \in DOMAIN seq : seq[i] \in Session /\ m[seq[i]] \notin {None, Torn}
  BY DEF Proper
<1>2. \A i \in DOMAIN seq : n[seq[i]] = m[seq[i]]
  BY <1>1
<1>3. Proper(n, seq)
  BY <1>2 DEF Proper
<1>4. [i \in DOMAIN seq |-> n[seq[i]].duration] = [i \in DOMAIN seq |-> m[seq[i]].duration]
  BY <1>2
<1> QED BY <1>3, <1>4 DEF SecondsOf

LEMMA SecondsNatural ==
    ASSUME NEW m, NEW seq, Proper(m, seq)
    PROVE  SecondsOf(m, seq) \in Nat
<1> DEFINE amounts == [i \in DOMAIN seq |-> m[seq[i]].duration]
<1>1. seq \in Seq(Session) /\ \A i \in DOMAIN seq : m[seq[i]] \in Manifest
  BY DEF Proper
<1>2. Len(amounts) = Len(seq) /\ Len(seq) \in Nat /\ DOMAIN seq = 1 .. Len(seq)
  BY <1>1, AmountsOf
<1>3. \A i \in 1 .. Len(amounts) : amounts[i] \in Nat
  BY <1>1, <1>2 DEF Manifest
<1> HIDE DEF amounts
<1>4. Total(amounts) \in Nat
  BY <1>2, <1>3, TotalOfNaturals
<1> QED BY <1>4 DEF SecondsOf, amounts

LEMMA SecondsAppended ==
    ASSUME NEW m, NEW seq \in Seq(Session), NEW s \in Session
    PROVE  SecondsOf(m, Append(seq, s)) = SecondsOf(m, seq) + m[s].duration
<1> DEFINE longer == Append(seq, s)
           a == [i \in DOMAIN seq |-> m[seq[i]].duration]
           b == [i \in DOMAIN longer |-> m[longer[i]].duration]
<1>1. /\ longer \in Seq(Session) /\ Len(longer) = Len(seq) + 1 /\ longer[Len(seq) + 1] = s
      /\ \A i \in 1 .. Len(seq) : longer[i] = seq[i]
  OBVIOUS
<1> HIDE DEF longer
<1>2. /\ Len(a) = Len(seq) /\ Len(seq) \in Nat
      /\ \A i \in 1 .. Len(seq) : a[i] = m[seq[i]].duration
  BY AmountsOf
<1>3. /\ Len(b) = Len(longer)
      /\ \A i \in 1 .. Len(longer) : b[i] = m[longer[i]].duration
  BY <1>1, AmountsOf
<1> HIDE DEF a, b
<1>4. \A i \in 1 .. Len(a) : a[i] = b[i]
  BY <1>1, <1>2, <1>3
<1>5. b[Len(b)] = m[s].duration
  BY <1>1, <1>2, <1>3
<1>6. Total(b) = Total(a) + b[Len(b)]
  BY <1>1, <1>2, <1>3, <1>4, TotalAppended
<1> QED BY <1>5, <1>6 DEF SecondsOf, a, b, longer

LEMMA SecondsOfNone == ASSUME NEW m PROVE SecondsOf(m, <<>>) = 0
<1>1. <<>> \in Seq(Session) /\ Len(<<>>) = 0
  OBVIOUS
<1>2. Len([i \in DOMAIN <<>> |-> m[<<>>[i]].duration]) = 0
  BY <1>1, AmountsOf
<1> QED BY <1>2, TotalOfNone DEF SecondsOf

\* A campaign that builds counts in full.
LEMMA CapturedInFull ==
    ASSUME NEW seq, Buildable(seq)
    PROVE  Captured(seq) = SecondsOf(manifest, seq)
<1>1. \A i \in DOMAIN seq : Admitted(seq[i])
  BY DEF Buildable, Set, Range, Eligible, Admitted
<1>2. [i \in DOMAIN seq |-> IF Admitted(seq[i]) THEN manifest[seq[i]].duration ELSE 0]
        = [i \in DOMAIN seq |-> manifest[seq[i]].duration]
  BY <1>1
<1> QED BY <1>2 DEF Captured, SecondsOf

LEMMA ProperAppended ==
    ASSUME StoreType, NEW seq, NEW s \in Session, Proper(manifest, seq),
           \A i \in DOMAIN seq : seq[i] < s, Buildable(Append(seq, s))
    PROVE  Proper(manifest, Append(seq, s))
<1> DEFINE longer == Append(seq, s)
<1>1. seq \in Seq(Session) /\ DOMAIN seq = 1 .. Len(seq) /\ Len(seq) \in Nat
  BY DEF Proper
<1>2. /\ longer \in Seq(Session) /\ DOMAIN longer = 1 .. (Len(seq) + 1)
      /\ longer[Len(seq) + 1] = s
      /\ \A i \in 1 .. Len(seq) : longer[i] = seq[i]
  BY <1>1
<1>3. \A i \in DOMAIN longer : Eligible(longer[i])
  BY DEF Buildable, Set, Range
<1> HIDE DEF longer
<1>4. \A i \in DOMAIN longer : /\ manifest[longer[i]] \in Manifest \ {None, Torn}
                               /\ manifest[longer[i]].complete
                               /\ manifest[longer[i]].quality = "CLEAN"
  <2>1. \A i \in DOMAIN longer : longer[i] \in Session
    BY <1>2
  <2> QED BY <1>3, <2>1 DEF Eligible, Inspectable, StoreType
<1>5. ASSUME NEW i \in DOMAIN longer, NEW j \in DOMAIN longer, i < j
      PROVE  longer[i] < longer[j]
  <2>1. i \in 1 .. Len(seq)
    BY <1>1, <1>2, <1>5
  <2>2. CASE j \in 1 .. Len(seq)
    BY <1>1, <1>2, <1>5, <2>1, <2>2 DEF Proper
  <2>3. CASE j = Len(seq) + 1
    BY <1>1, <1>2, <2>1, <2>3
  <2> QED BY <1>1, <1>2, <2>2, <2>3
<1> QED BY <1>2, <1>4, <1>5 DEF Proper, longer

LEMMA InitCampaign == Init => CampaignInv
<1>1. SUFFICES ASSUME Init PROVE CampaignInv
  OBVIOUS
<1>2. Proper(manifest, <<>>)
  BY DEF Proper
<1>3. /\ campaigns = [c \in Campaign |-> None] /\ listed = [c \in Campaign |-> <<>>]
      /\ pc = "off" /\ id \in Campaign /\ paths = <<>> /\ captured = 0 /\ rc = NoCode
      /\ writer.phase = "idle"
  BY <1>1 DEF Init, Off, StoreInit, Idle
<1>4. ListedInv
  BY <1>2, <1>3 DEF ListedInv, Whole
<1>5. ProcessInv
  BY <1>3 DEF ProcessInv, Recording, Off
<1> QED BY <1>1, <1>4, <1>5, InitSeal, InitTypes DEF CampaignInv

\* What is listed stays listed, and its seconds too.
LEMMA ListedStays ==
    ASSUME CampaignInv, [Next]_vars, NEW c \in Campaign
    PROVE  /\ Proper(manifest', listed[c])
           /\ SecondsOf(manifest', listed[c]) = SecondsOf(manifest, listed[c])
<1>1. \A s \in Session : manifest[s] \notin {None, Torn} => manifest'[s] = manifest[s]
  BY TypesStep DEF CampaignInv, Inspectable
<1> QED BY <1>1, ProperStays DEF CampaignInv, ListedInv

\* A listed session is over, so it is one of those started.
LEMMA ListedBefore ==
    ASSUME CampaignInv, NEW c \in Campaign, NEW i \in DOMAIN listed[c]
    PROVE  listed[c][i] \in Session /\ listed[c][i] <= started
<1>1. listed[c][i] \in Session /\ manifest[listed[c][i]] # None
  BY DEF CampaignInv, ListedInv, Proper
<1>2. started \in Nat /\ listed[c][i] \in Nat
  BY <1>1, StoreAssumption DEF CampaignInv, SealInv, Shape, Session
<1> QED BY <1>1, <1>2 DEF CampaignInv, SealInv, Shape

\* A step that leaves the process where it is, and what it and the disk hold.
LEMMA StandsStill ==
    ASSUME CampaignInv, [Next]_vars,
           UNCHANGED <<campaigns, pc, id, paths, captured, rc, listed, started>>,
           writer'.phase # "idle" <=> writer.phase # "idle",
           pc = "pause" => ~ Eligible(started)'
    PROVE  ListedInv' /\ ProcessInv'
<1>1. ListedInv'
  BY ListedStays DEF CampaignInv, ListedInv, Whole
<1>2. pc # Off => captured = SecondsOf(manifest', listed[id])
  BY ListedStays DEF CampaignInv, ProcessInv
<1>3. pc = "write" => Proper(manifest', paths)
  <2>1. \A s \in Session : manifest[s] \notin {None, Torn} => manifest'[s] = manifest[s]
    BY TypesStep DEF CampaignInv, Inspectable
  <2> QED BY <2>1, ProperStays DEF CampaignInv, ProcessInv
<1> QED BY <1>1, <1>2, <1>3 DEF CampaignInv, ProcessInv

\* A process that ended knows nothing, and the disk is as it was.
LEMMA EndedKeeps ==
    ASSUME CampaignInv, [Next]_vars, NEW code \in {NoCode, 0, 2, 75}, NEW b, Ended(code, b),
           UNCHANGED <<campaigns, listed>>, writer'.phase = "idle", id' \in Campaign
    PROVE  ListedInv' /\ ProcessInv'
<1>1. ListedInv'
  BY ListedStays DEF CampaignInv, ListedInv, Whole
<1>2. pc' = "off" /\ rc' = code /\ paths' = <<>> /\ captured' = 0
  BY DEF Ended, Off
<1> QED BY <1>1, <1>2 DEF ProcessInv, Off, Recording

LEMMA LaunchKeeps ==
    ASSUME CampaignInv, NEW c \in Campaign, Launch(c)
    PROVE  ListedInv' /\ ProcessInv'
<1>1. [Next]_vars /\ pc = Off /\ id' = c
      /\ UNCHANGED <<storeVars, campaigns, listed>>
  BY DEF Next, Launch
<1>2. writer.phase = "idle" /\ writer' = writer /\ manifest' = manifest
  BY <1>1 DEF CampaignInv, ProcessInv, Off, storeVars
<1>3. CASE Ended(2, TRUE)
  BY <1>1, <1>2, <1>3, EndedKeeps
<1>4. CASE pc' = "loop" /\ rc' = NoCode /\ paths' = listed[c]
           /\ captured' = SecondsOf(manifest, listed[c]) /\ campaigns[c] # Torn
  <2>1. ListedInv'
    BY <1>1, ListedStays DEF CampaignInv, ListedInv, Whole
  <2> QED BY <1>1, <1>2, <1>4, <2>1 DEF ProcessInv, Recording, Off
<1>5. CASE /\ Whole(c) /\ Buildable(campaigns[c])
           /\ pc' = "loop" /\ paths' = campaigns[c] /\ captured' = Captured(campaigns[c])
           /\ rc' = NoCode
  <2>1. campaigns[c] = listed[c] /\ campaigns[c] # Torn
    BY <1>5 DEF CampaignInv, ListedInv, Whole
  <2> QED BY <1>4, <1>5, <2>1, CapturedInFull
<1>6. CASE campaigns[c] = None /\ pc' = "loop" /\ rc' = NoCode /\ UNCHANGED <<paths, captured>>
  <2>1. listed[c] = <<>> /\ paths = <<>> /\ captured = 0 /\ campaigns[c] # Torn
    BY <1>1, <1>6, CampaignAssumption DEF CampaignInv, ListedInv, ProcessInv
  <2> QED BY <1>4, <1>6, <2>1, SecondsOfNone
<1> QED BY <1>3, <1>5, <1>6 DEF Launch

LEMMA LoopKeeps == ASSUME CampaignInv, Loop PROVE ListedInv' /\ ProcessInv'
<1>1. /\ [Next]_vars /\ pc = "loop"
      /\ UNCHANGED <<campaigns, id, paths, captured, rc, listed, damaged>>
  BY DEF Next, Process, Loop
<1>2. ListedInv'
  BY <1>1, ListedStays DEF CampaignInv, ListedInv, Whole
<1>3. /\ id \in Campaign /\ rc \in {NoCode, 0, 2, 75} /\ paths = listed[id]
      /\ captured = SecondsOf(manifest, listed[id]) /\ campaigns[id] # Torn
      /\ writer.phase = "idle"
  BY <1>1 DEF CampaignInv, ProcessInv, Recording, Off
<1>4. captured = SecondsOf(manifest', listed[id])
  BY <1>1, <1>3, ListedStays
<1>5. CASE WantsMore /\ pc' = "record" /\ WriterOpened
  <2>1. /\ started \in 0 .. MaxSessions /\ MaxSessions \in Nat /\ started < MaxSessions
        /\ started' = started + 1
    BY <1>5, StoreAssumption DEF CampaignInv, SealInv, Shape, WriterOpened
  <2>2. started' \in Session
    BY <2>1 DEF Session
  <2>3. \A c \in Campaign : \A i \in DOMAIN listed[c] : listed[c][i] < started'
    <3>1. SUFFICES ASSUME NEW c \in Campaign, NEW i \in DOMAIN listed[c]
                   PROVE  listed[c][i] < started'
      OBVIOUS
    <3>2. listed[c][i] \in Nat /\ listed[c][i] <= started
      BY ListedBefore, StoreAssumption DEF Session
    <3> QED BY <2>1, <3>2
  <2>4. writer'.phase = "open" /\ captured < Target
    BY <1>5 DEF WriterOpened, Idle, WantsMore
  <2> QED BY <1>1, <1>2, <1>3, <1>4, <1>5, <2>2, <2>3, <2>4 DEF ProcessInv, Recording, Off
<1>6. CASE pc' = "finish" /\ UNCHANGED storeVars
  <2>1. writer' = writer
    BY <1>6 DEF storeVars
  <2> QED BY <1>1, <1>2, <1>3, <1>4, <1>6, <2>1 DEF ProcessInv, Recording, Off
<1> QED BY <1>5, <1>6 DEF Loop

LEMMA RecordKeeps == ASSUME CampaignInv, Record PROVE ListedInv' /\ ProcessInv'
<1>1. /\ [Next]_vars /\ pc = "record" /\ WriterStep
      /\ pc' = IF writer'.phase = "idle" THEN "judge" ELSE pc
      /\ UNCHANGED <<campaigns, id, paths, captured, rc, listed>>
  BY DEF Next, Process, Record
<1>2. writer.phase # "idle" /\ started' = started
  BY <1>1, WriterStepTypes DEF CampaignInv
<1>3. CASE writer'.phase # "idle"
  BY <1>1, <1>2, <1>3, StandsStill
<1>4. CASE writer'.phase = "idle"
  <2>1. ListedInv'
    BY <1>1, ListedStays DEF CampaignInv, ListedInv, Whole
  <2>2. captured = SecondsOf(manifest', listed[id])
    BY <1>1, ListedStays DEF CampaignInv, ProcessInv, Off
  <2> QED BY <1>1, <1>2, <1>4, <2>1, <2>2 DEF CampaignInv, ProcessInv, Recording, Off
<1> QED BY <1>3, <1>4

LEMMA JudgeKeeps == ASSUME CampaignInv, Judge PROVE ListedInv' /\ ProcessInv'
<1>1. /\ [Next]_vars /\ pc = "judge"
      /\ UNCHANGED <<storeVars, campaigns, id, captured, rc, damaged, listed>>
  BY DEF Next, Process, Judge
<1>2. ListedInv'
  BY <1>1, ListedStays DEF CampaignInv, ListedInv, Whole
<1>3. UNCHANGED <<manifest, started, writer>>
  BY <1>1 DEF storeVars
<1>4. CASE pc' = "finish" /\ UNCHANGED paths
  BY <1>1, <1>2, <1>3, <1>4 DEF CampaignInv, ProcessInv, Recording, Off
<1>5. CASE ~ Admitted(started) /\ pc' = "pause" /\ UNCHANGED paths
  <2>1. ~ Eligible(started)'
    BY <1>1, <1>3, <1>5 DEF Admitted, Eligible, HashesValid, Inspectable
  <2> QED BY <1>1, <1>2, <1>3, <1>5, <2>1 DEF CampaignInv, ProcessInv, Recording, Off
<1>6. CASE pc' = "build" /\ paths' = Append(paths, started)
  BY <1>1, <1>2, <1>3, <1>6 DEF CampaignInv, ProcessInv, Recording, Off
<1> QED BY <1>4, <1>5, <1>6 DEF Judge

LEMMA ResumeKeeps == ASSUME CampaignInv, Resume PROVE ListedInv' /\ ProcessInv'
<1>1. /\ [Next]_vars /\ pc = "pause" /\ pc' = "loop"
      /\ UNCHANGED <<storeVars, campaigns, id, paths, captured, rc, listed>>
  BY DEF Next, Process, Resume
<1>2. ListedInv'
  BY <1>1, ListedStays DEF CampaignInv, ListedInv, Whole
<1>3. UNCHANGED <<manifest, started, writer>>
  BY <1>1 DEF storeVars
<1> QED BY <1>1, <1>2, <1>3 DEF CampaignInv, ProcessInv, Recording, Off

LEMMA BuildKeeps == ASSUME CampaignInv, Build PROVE ListedInv' /\ ProcessInv'
<1>1. /\ [Next]_vars /\ pc = "build" /\ UNCHANGED <<storeVars, id, listed>>
  BY DEF Next, Process, Build
<1>2. UNCHANGED <<manifest, started, writer>>
  BY <1>1 DEF storeVars
<1>3. /\ id \in Campaign /\ rc \in {NoCode, 0, 2, 75} /\ paths = Append(listed[id], started)
      /\ writer.phase = "idle" /\ started \in Session
      /\ \A c \in Campaign : \A i \in DOMAIN listed[c] : listed[c][i] < started
  BY <1>1 DEF CampaignInv, ProcessInv, Recording, Off
<1>4. CASE Ended(2, FALSE) /\ UNCHANGED campaigns
  BY <1>1, <1>2, <1>3, <1>4, EndedKeeps
<1>5. CASE /\ Buildable(paths) /\ pc' = "write" /\ campaigns' = [campaigns EXCEPT ![id] = Torn]
           /\ UNCHANGED <<paths, captured, rc>>
  <2>1. Proper(manifest, paths)
    BY <1>3, <1>5, ProperAppended DEF CampaignInv, ListedInv
  <2>2. /\ DOMAIN campaigns' = Campaign /\ campaigns'[id] = Torn
        /\ \A c \in Campaign \ {id} : campaigns'[c] = campaigns[c]
    BY <1>3, <1>5 DEF CampaignInv, ListedInv
  <2>3. ListedInv'
    BY <1>1, <1>2, <2>2, CampaignAssumption DEF CampaignInv, ListedInv, Whole
  <2> QED BY <1>1, <1>2, <1>3, <1>5, <2>1, <2>2, <2>3 DEF CampaignInv, ProcessInv, Recording, Off
<1> QED BY <1>4, <1>5 DEF Build

LEMMA WriteKeeps == ASSUME CampaignInv, Write PROVE ListedInv' /\ ProcessInv'
<1>1. /\ [Next]_vars /\ pc = "write" /\ pc' = "loop"
      /\ campaigns' = [campaigns EXCEPT ![id] = paths]
      /\ listed' = [listed EXCEPT ![id] = paths]
      /\ captured' = captured + manifest[started].duration
      /\ UNCHANGED <<storeVars, id, paths, rc>>
  BY DEF Next, Process, Write
<1>2. UNCHANGED <<manifest, started, writer>>
  BY <1>1 DEF storeVars
<1>3. /\ id \in Campaign /\ rc \in {NoCode, 0, 2, 75} /\ paths = Append(listed[id], started)
      /\ writer.phase = "idle" /\ started \in Session /\ Proper(manifest, paths)
      /\ captured = SecondsOf(manifest, listed[id])
  BY <1>1 DEF CampaignInv, ProcessInv, Recording, Off
<1>4. /\ DOMAIN campaigns' = Campaign /\ DOMAIN listed' = Campaign
      /\ campaigns'[id] = paths /\ listed'[id] = paths
      /\ \A c \in Campaign \ {id} : campaigns'[c] = campaigns[c] /\ listed'[c] = listed[c]
  BY <1>1, <1>3 DEF CampaignInv, ListedInv
<1>5. paths \in Seq(Session) /\ paths \notin {None, Torn}
  BY <1>3, CampaignAssumption DEF Proper
<1>6. ListedInv'
  BY <1>2, <1>3, <1>4, <1>5, ZenonT(60) DEF CampaignInv, ListedInv, Whole
<1>7. captured' = SecondsOf(manifest, paths)
  <2>1. listed[id] \in Seq(Session)
    BY <1>3 DEF CampaignInv, ListedInv, Proper
  <2> QED BY <1>1, <1>3, <2>1, SecondsAppended
<1> QED BY <1>1, <1>2, <1>3, <1>4, <1>5, <1>6, <1>7 DEF ProcessInv, Recording, Off

LEMMA FinishKeeps == ASSUME CampaignInv, Finish PROVE ListedInv' /\ ProcessInv'
<1>1. /\ [Next]_vars /\ pc = "finish" /\ UNCHANGED <<storeVars, campaigns, id, listed>>
  BY DEF Next, Process, Finish
<1>2. writer'.phase = "idle" /\ id' \in Campaign
  BY <1>1 DEF storeVars, CampaignInv, ProcessInv
<1>3. \E code \in {0, 2, 75} : Ended(code, TRUE)
  BY DEF Finish
<1> QED BY <1>1, <1>2, <1>3, EndedKeeps

LEMMA CampaignStep == ASSUME CampaignInv, [Next]_vars PROVE CampaignInv'
<1>1. SealInv' /\ StoreType'
  BY NextSeals, TypesStep DEF CampaignInv
<1>2. SUFFICES ListedInv' /\ ProcessInv'
  BY <1>1 DEF CampaignInv
<1>3. CASE UNCHANGED vars
  <2>1. UNCHANGED <<campaigns, pc, id, paths, captured, rc, listed, started, writer>>
        /\ (Eligible(started)' <=> Eligible(started))
    BY <1>3 DEF vars, cliVars, storeVars, Eligible, Inspectable, HashesValid
  <2> QED BY <2>1, StandsStill DEF CampaignInv, ProcessInv
<1>4. CASE RequestStop
  <2>1. UNCHANGED <<campaigns, pc, id, paths, captured, rc, listed, started, writer>>
        /\ (Eligible(started)' <=> Eligible(started))
    BY <1>4 DEF RequestStop, storeVars, Eligible, Inspectable, HashesValid
  <2> QED BY <2>1, StandsStill DEF CampaignInv, ProcessInv
<1>5. ASSUME NEW s \in Session, Damage(s)
      PROVE  ListedInv' /\ ProcessInv'
  <2>1. UNCHANGED <<campaigns, pc, id, paths, captured, rc, listed, started, writer>>
        /\ (Eligible(started)' => Eligible(started))
    BY <1>5 DEF Damage, storeVars, Eligible, Inspectable, HashesValid
  <2> QED BY <2>1, StandsStill DEF CampaignInv, ProcessInv
<1>6. ASSUME NEW s \in Session, Recover(s)
      PROVE  ListedInv' /\ ProcessInv'
  <2>1. UNCHANGED <<campaigns, pc, id, paths, captured, rc, listed, started, writer>>
        /\ (Eligible(started)' <=> Eligible(started))
    BY <1>6 DEF Recover, Recovered, cliVars, Eligible, Inspectable, HashesValid
  <2> QED BY <2>1, StandsStill DEF CampaignInv, ProcessInv
<1>7. ASSUME NEW v \in Outcomes, RecorderEnds(v)
      PROVE  ListedInv' /\ ProcessInv'
  <2>1. /\ UNCHANGED <<campaigns, pc, id, paths, captured, rc, listed, started>>
        /\ pc = "record" /\ writer.phase = "open"
    BY <1>7 DEF RecorderEnds, WriterClosed, cliVars
  <2>2. writer'.phase # "idle"
    BY <1>7 DEF RecorderEnds, WriterClosed, CampaignInv, SealInv, Shape, WriterFields
  <2> QED BY <2>1, <2>2, StandsStill
<1>8. CASE Crash
  <2>1. /\ Ended(NoCode, FALSE) /\ UNCHANGED <<campaigns, listed, id>>
        /\ writer'.phase = "idle"
    BY <1>8 DEF Crash, Idle
  <2> QED BY <2>1, EndedKeeps DEF CampaignInv, ProcessInv
<1> QED BY <1>3, <1>4, <1>5, <1>6, <1>7, <1>8, LaunchKeeps, LoopKeeps, RecordKeeps, JudgeKeeps,
           ResumeKeeps, BuildKeeps, WriteKeeps, FinishKeeps DEF Next, Process

-----------------------------------------------------------------------------
(* No clean session is forgotten *)

\* The places of a process that has dealt with the session it recorded.
Settled == {Off, "loop", "finish"}

LEMMA NothingNewToList ==
    ASSUME CampaignInv, NothingLeftOut, UNCHANGED <<listed, started>>, broken \subseteq broken',
           \A s \in Session : Eligible(s)' /\ (s = started => pc' \in Settled) => Eligible(s),
           pc' \in Settled => pc \in Settled \/ ~ Eligible(started)' \/ started \in broken'
    PROVE  NothingLeftOut'
<1>1. SUFFICES ASSUME NEW s \in Session, Eligible(s)', s \notin broken',
                      s = started => pc' \in Settled
               PROVE  \E c \in Campaign : s \in Set(listed[c])
  BY DEF NothingLeftOut, Settled, Set
<1>2. Eligible(s) /\ s \notin broken /\ (s = started => pc \in Settled)
  BY <1>1
<1> QED BY <1>2 DEF NothingLeftOut, Settled

LEMMA LeftOutStep ==
    ASSUME CampaignInv, NothingLeftOut, [Next]_vars
    PROVE  NothingLeftOut'
<1>1. CASE UNCHANGED <<listed, broken, started, manifest, pc>> /\ damaged \subseteq damaged'
  BY <1>1, NothingNewToList DEF Eligible, Inspectable, HashesValid
<1>2. ASSUME NEW c \in Campaign, Launch(c) PROVE NothingLeftOut'
  <2>1. /\ UNCHANGED <<listed, started, manifest, damaged, broken>> /\ pc = Off
    BY <1>2 DEF Launch, storeVars, Ended
  <2> QED BY <2>1, NothingNewToList DEF Eligible, Inspectable, HashesValid, Settled
<1>3. CASE Loop
  <2>1. pc = "loop" /\ UNCHANGED <<listed, manifest, damaged, broken>>
    BY <1>3 DEF Loop, WriterOpened, storeVars
  <2>2. CASE pc' = "finish" /\ UNCHANGED storeVars
    BY <2>1, <2>2, NothingNewToList DEF Eligible, Inspectable, HashesValid, Settled, storeVars
  <2>3. CASE pc' = "record"
    <3>1. SUFFICES ASSUME NEW s \in Session, Eligible(s)', s \notin broken
                   PROVE  \E c \in Campaign : s \in Set(listed[c])
      BY <2>1, <2>3 DEF NothingLeftOut, Set
    <3>2. Eligible(s)
      BY <2>1, <3>1 DEF Eligible, Inspectable, HashesValid
    <3> QED BY <2>1, <3>1, <3>2 DEF NothingLeftOut
  <2> QED BY <1>3, <2>2, <2>3 DEF Loop
<1>4. CASE Record
  <2>1. /\ pc = "record" /\ UNCHANGED <<listed, damaged, broken, started>>
        /\ \A s \in Session \ {started} : manifest'[s] = manifest[s]
        /\ pc' \in {"record", "judge"}
    BY <1>4, WriterStepTypes DEF Record, CampaignInv
  <2> QED BY <2>1, NothingNewToList DEF Eligible, Inspectable, HashesValid, Settled, Off
<1>5. ASSUME NEW v \in Outcomes, RecorderEnds(v) PROVE NothingLeftOut'
  BY <1>1, <1>5 DEF RecorderEnds, WriterClosed, cliVars
<1>6. CASE Judge
  <2>1. UNCHANGED <<listed, damaged, broken, started, manifest>>
    BY <1>6 DEF Judge, storeVars
  <2>2. pc' \in Settled => ~ Eligible(started)'
    BY <1>6, <2>1 DEF Judge, Settled, Off, Eligible
  <2> QED BY <2>1, <2>2, NothingNewToList DEF Eligible, Inspectable, HashesValid
<1>7. CASE Resume
  <2>1. pc = "pause" /\ UNCHANGED <<listed, damaged, broken, started, manifest>>
    BY <1>7 DEF Resume, storeVars
  <2>2. ~ Eligible(started)'
    BY <2>1 DEF CampaignInv, ProcessInv, Eligible, Inspectable, HashesValid
  <2> QED BY <2>1, <2>2, NothingNewToList DEF Eligible, Inspectable, HashesValid
<1>8. CASE Build
  <2>1. /\ UNCHANGED <<listed, damaged, started, manifest>>
        /\ \/ pc' = "write" /\ broken' = broken
           \/ broken' = broken \cup {started}
    BY <1>8 DEF Build, storeVars, Ended
  <2> QED BY <2>1, NothingNewToList DEF Eligible, Inspectable, HashesValid, Settled, Off
<1>9. CASE Write
  <2>1. /\ pc = "write" /\ listed' = [listed EXCEPT ![id] = paths]
        /\ UNCHANGED <<damaged, broken, started, manifest>>
    BY <1>9 DEF Write, storeVars
  <2>2. /\ id \in Campaign /\ paths = Append(listed[id], started) /\ started \in Session
        /\ DOMAIN listed = Campaign /\ listed[id] \in Seq(Session)
    BY <2>1 DEF CampaignInv, ProcessInv, ListedInv, Proper, Recording, Off
  <2>3. /\ listed'[id] = paths
        /\ \A c \in Campaign \ {id} : listed'[c] = listed[c]
    BY <2>1, <2>2
  <2>4. started \in Set(paths) /\ Set(listed[id]) \subseteq Set(paths)
    BY <2>2 DEF Set, Range
  <2>5. SUFFICES ASSUME NEW s \in Session, Eligible(s)', s \notin broken
                 PROVE  \E c \in Campaign : s \in Set(listed'[c])
    BY <2>1 DEF NothingLeftOut, Set
  <2>6. CASE s = started
    BY <2>2, <2>3, <2>4, <2>6
  <2>7. CASE s # started
    <3>1. Eligible(s)
      BY <2>1, <2>5 DEF Eligible, Inspectable, HashesValid
    <3>2. PICK c \in Campaign : s \in Set(listed[c])
      BY <2>5, <2>7, <3>1 DEF NothingLeftOut
    <3> QED BY <2>3, <2>4, <3>2
  <2> QED BY <2>6, <2>7
<1>10. CASE Finish
  <2>1. /\ pc = "finish" /\ UNCHANGED <<listed, damaged, broken, started, manifest>>
    BY <1>10 DEF Finish, storeVars, Ended
  <2> QED BY <2>1, NothingNewToList DEF Eligible, Inspectable, HashesValid, Settled
<1>11. CASE Crash
  <2>1. UNCHANGED <<listed, damaged, started, manifest>> /\ broken' = broken \cup {started}
    BY <1>11 DEF Crash, Ended
  <2> QED BY <2>1, NothingNewToList DEF Eligible, Inspectable, HashesValid
<1>12. ASSUME NEW s \in Session, Damage(s) \/ Recover(s) PROVE NothingLeftOut'
  BY <1>1, <1>12 DEF Damage, Recover, Recovered, cliVars, storeVars
<1>13. CASE RequestStop \/ UNCHANGED vars
  BY <1>1, <1>13 DEF RequestStop, vars, cliVars, storeVars
<1> QED BY <1>2, <1>3, <1>4, <1>5, <1>6, <1>7, <1>8, <1>9, <1>10, <1>11, <1>12, <1>13
        DEF Next, Process

\* cli/main.py and campaign.py: at every instant, whatever is killed, damaged, recovered
\* or resumed, a campaign holds exactly the whole clean sessions, once and in order, and
\* what is counted towards the target is what they captured.
THEOREM CampaignTrue == Spec => []CampaignIsTrue
<1>1. Init => CampaignInv /\ NothingLeftOut
  <2>1. Init => NothingLeftOut
    BY DEF Init, StoreInit, NothingLeftOut, Eligible, Inspectable
  <2> QED BY <2>1, InitCampaign
<1>2. CampaignInv /\ NothingLeftOut /\ [Next]_vars => CampaignInv' /\ NothingLeftOut'
  BY CampaignStep, LeftOutStep
<1>3. CampaignInv /\ NothingLeftOut => CampaignIsTrue
  <2>1. SUFFICES ASSUME CampaignInv, NothingLeftOut PROVE CampaignIsTrue
    OBVIOUS
  <2>2. ASSUME NEW c \in Campaign, Whole(c)
        PROVE  /\ campaigns[c] = listed[c] /\ campaigns[c] \in Seq(Session)
               /\ Proper(manifest, campaigns[c])
    BY <2>1, <2>2 DEF CampaignInv, ListedInv, Proper
  <2>3. CampaignHoldsWholeSessions
    BY <2>2 DEF CampaignHoldsWholeSessions, Proper, Set, Range, Inspectable
  <2>4. /\ id \in Campaign /\ paths \in Seq(Session) /\ captured \in Nat
    <3>1. id \in Campaign /\ Proper(manifest, listed[id]) /\ listed[id] \in Seq(Session)
      BY <2>1 DEF CampaignInv, ProcessInv, ListedInv, Proper
    <3>2. captured = 0 \/ captured = SecondsOf(manifest, listed[id])
      BY <2>1 DEF CampaignInv, ProcessInv
    <3>3. paths = <<>> \/ paths = listed[id]
            \/ (paths = Append(listed[id], started) /\ started \in Session)
      BY <2>1 DEF CampaignInv, ProcessInv, Recording, Off
    <3>4. paths \in Seq(Session)
      <4>1. \A s \in Session : Append(listed[id], s) \in Seq(Session)
        BY <3>1
      <4>2. <<>> \in Seq(Session)
        OBVIOUS
      <4> QED BY <3>1, <3>3, <4>1, <4>2
    <3>5. captured \in Nat
      BY <3>1, <3>2, SecondsNatural
    <3> QED BY <3>1, <3>4, <3>5
  <2>5. CountsWhatIsListed
    BY <2>1 DEF CountsWhatIsListed, CampaignInv, ProcessInv, Off, Seconds, SecondsOf
  <2>6. TypeOK
    <3>1. /\ started \in 0 .. MaxSessions /\ rc \in {NoCode, 0, 2, 75} /\ StoreType
      BY <2>1 DEF CampaignInv, SealInv, Shape, ProcessInv
    <3> QED BY <2>2, <2>4, <3>1 DEF TypeOK, StoreType
  <2> QED BY <2>1, <2>3, <2>5, <2>6 DEF CampaignIsTrue
<1> QED BY <1>1, <1>2, <1>3, PTL DEF Spec

\* cli/main.py, campaign.py and docs/CAPTURE_NO_SESSION_ROBUSTNESS.md: no step, a kill or a
\* resume included, drops a session a campaign held or touches a campaign that reached its
\* target, and success is reported only for what is on the disk.
THEOREM FaithKept == Spec => CampaignKeepsFaith
<1>1. Init => CampaignInv
  BY InitCampaign
<1>2. CampaignInv /\ [Next]_vars => CampaignInv'
  BY CampaignStep
<1>3. ASSUME CampaignInv
      PROVE  \A c \in Campaign : listed[c] \in Seq(Session)
                                 /\ SubSeq(listed[c], 1, Len(listed[c])) = listed[c]
  <2>1. \A c \in Campaign : listed[c] \in Seq(Session)
    BY <1>3 DEF CampaignInv, ListedInv, Proper
  <2> QED BY <2>1
<1>4. ASSUME CampaignInv, Next, Write
      PROVE  /\ listed' = [listed EXCEPT ![id] = Append(listed[id], started)]
             /\ campaigns[id] = Torn /\ id \in Campaign /\ started \in Session
             /\ DOMAIN listed = Campaign
             /\ campaigns' = [campaigns EXCEPT ![id] = paths]
             /\ DOMAIN campaigns = Campaign
  BY <1>4 DEF Write, CampaignInv, ProcessInv, ListedInv, Recording, Off
<1>5. CampaignInv /\ [Next]_vars =>
          [\A c \in Campaign : SubSeq(listed'[c], 1, Len(listed[c])) = listed[c]]_vars
  <2>1. SUFFICES ASSUME CampaignInv, Next, NEW c \in Campaign
                 PROVE  SubSeq(listed'[c], 1, Len(listed[c])) = listed[c]
    OBVIOUS
  <2>2. listed[c] \in Seq(Session) /\ SubSeq(listed[c], 1, Len(listed[c])) = listed[c]
    BY <2>1, <1>3
  <2>3. CASE Write
    <3>1. listed'[c] = listed[c] \/ listed'[c] = Append(listed[c], started)
      BY <2>1, <2>3, <1>4
    <3>2. SubSeq(Append(listed[c], started), 1, Len(listed[c])) = listed[c]
      BY <2>1, <2>2, <2>3, <1>4
    <3> QED BY <2>2, <3>1, <3>2
  <2>4. CASE ~ Write
    <3>1. listed' = listed
      BY <2>1, <2>4 DEF Next, Process, Loop, Record, RecorderEnds, Judge, Resume, Build, Finish,
         Launch, RequestStop, Crash, Damage, Recover, cliVars
    <3> QED BY <2>2, <3>1
  <2> QED BY <2>3, <2>4
<1>6. CampaignInv /\ [Next]_vars =>
          [pc = "finish" /\ pc' = Off /\ rc' = 0 =>
              /\ Whole(id) /\ Buildable(campaigns[id])
              /\ Seconds(campaigns[id]) >= Target]_vars
  <2>1. SUFFICES ASSUME CampaignInv, Next, pc = "finish", pc' = Off, rc' = 0
                 PROVE  /\ Whole(id) /\ Buildable(campaigns[id])
                        /\ Seconds(campaigns[id]) >= Target
    OBVIOUS
  <2>2. /\ id \in Campaign /\ paths = listed[id] /\ campaigns[id] # Torn
        /\ captured = SecondsOf(manifest, listed[id])
    BY <2>1 DEF CampaignInv, ProcessInv, Recording, Off
  <2>3. Finish
    <3>1. NoCode # 0
      BY DEF NoCode
    <3> QED BY <2>1, <3>1 DEF Next, Process, Loop, Record, RecorderEnds, Judge, Resume, Build, Write,
            Launch, RequestStop, Crash, Ended, Damage, Recover, cliVars, Off
  <2>4. paths # <<>> /\ Buildable(paths) /\ captured >= Target
    BY <2>1, <2>3 DEF Finish, Ended
  <2>5. campaigns[id] # None /\ Whole(id) /\ campaigns[id] = listed[id]
    BY <2>1, <2>2, <2>4 DEF CampaignInv, ListedInv, Whole
  <2> QED BY <2>2, <2>4, <2>5 DEF Seconds, SecondsOf
<1>7. CampaignInv /\ [Next]_vars =>
          [\A c \in Campaign :
              Whole(c) /\ Seconds(campaigns[c]) >= Target => campaigns'[c] = campaigns[c]]_vars
  <2>1. SUFFICES ASSUME CampaignInv, Next, NEW c \in Campaign, Whole(c),
                        Seconds(campaigns[c]) >= Target
                 PROVE  campaigns'[c] = campaigns[c]
    OBVIOUS
  <2>2. campaigns[c] = listed[c] /\ campaigns[c] # Torn
    BY <2>1 DEF CampaignInv, ListedInv, Whole
  <2>3. CASE Write
    BY <2>1, <2>2, <2>3, <1>4
  <2>4. CASE Build
    <3>1. /\ id \in Campaign /\ captured < Target
          /\ captured = SecondsOf(manifest, listed[id])
      BY <2>1, <2>4 DEF Build, CampaignInv, ProcessInv, Recording, Off
    <3>2. SecondsOf(manifest, listed[id]) \in Nat /\ Target \in Nat
      BY <2>1, <3>1, SecondsNatural, CampaignAssumption DEF CampaignInv, ListedInv
    <3>3. c # id
      BY <2>1, <2>2, <3>1, <3>2 DEF Seconds, SecondsOf
    <3>4. campaigns' = campaigns \/ campaigns' = [campaigns EXCEPT ![id] = Torn]
      BY <2>4 DEF Build
    <3>5. DOMAIN campaigns = Campaign
      BY <2>1 DEF CampaignInv, ListedInv
    <3> QED BY <2>1, <3>3, <3>4, <3>5
  <2>5. CASE ~ Write /\ ~ Build
    <3>1. campaigns' = campaigns
      BY <2>1, <2>5 DEF Next, Process, Loop, Record, RecorderEnds, Judge, Resume, Finish,
         Launch, RequestStop, Crash, Damage, Recover, cliVars
    <3> QED BY <3>1
  <2> QED BY <2>3, <2>4, <2>5
<1> QED BY <1>1, <1>2, <1>5, <1>6, <1>7, PTL
        DEF Spec, CampaignKeepsFaith, CampaignNeverShrinks, SuccessIsProven, CompletedIsLeftAlone
-----------------------------------------------------------------------------
(* What a capture believes about its connections: the inductive invariant of *)
(* CaptureHealth *)

Instant == Nat \cup {Never}

Watch ==
    [state : StreamState, since : Instant, last : Instant, seq : Instant,
     active : (Stream \X Nat) \cup {NoIncident}]

Incident ==
    [state : IncidentState, start : Nat, end : Instant, crossed : BOOLEAN, unresolved : BOOLEAN]

Monitor ==
    [stream   : [Stream -> Watch],
     incident : UNION {[D -> Incident] : D \in SUBSET (Stream \X Nat)},
     alive    : [Connection -> BOOLEAN]]

Message == [kind : {"EVENT"}, what : Stream, seq : Nat, time : Nat]

Change == [kind : {"CONNECTED", "DISCONNECTED"}, what : Connection, seq : Nat, time : Nat]

\* An incident after a silence that was too long.
Silence(i, r) == i[2] - r.start > Config[i[1]].stale

\* A stream with an incident names one of its own, which is open and began with the
\* last message of the stream.
StreamOK(m, s) ==
    LET r == m.stream[s]
    IN  /\ HasActive(m, s) => /\ r.active \in DOMAIN m.incident /\ r.active[1] = s
                              /\ m.incident[r.active].state # "RECOVERED"
                              /\ m.incident[r.active].start = r.last
        /\ r.state = "STALE" => HasActive(m, s)
        /\ r.state = "LIVE" => ~ HasActive(m, s) /\ r.last # Never

\* What SilenceIsReal says of an incident that recovered.
RightlyEnded(i, r) == r.end - r.start > Config[i[1]].stale \/ r.end <= i[2]

\* An open incident is that of its stream, and every incident had its silence.
IncidentOK(m, i) ==
    LET r == m.incident[i]
    IN  /\ r.state # "RECOVERED" => m.stream[i[1]].active = i /\ Silence(i, r)
        /\ r.state = "RECOVERED" => ~ r.unresolved /\ RightlyEnded(i, r)

\* What is true of the monitor of a running capture between two calls.
Watching(m) ==
    /\ m \in Monitor
    /\ \A s \in Stream : StreamOK(m, s)
    /\ \A i \in DOMAIN m.incident : IncidentOK(m, i)

\* Incidents are opened by an evaluation that is over.
Opened(m) == \A i \in DOMAIN m.incident : i[2] <= clock

\* What of the batch the monitor has still to see.
Todo == IF loop = "CANCELING" THEN Tail(rest) ELSE rest

Held(items) == {items[k] : k \in Events(items)}

\* What the monitor does not know yet is in the batch or in the queue, in order.
Owed(m, todo, q) ==
    LET P == Held(todo) \cup Held(q)
    IN  /\ \A e \in P : /\ m.stream[e.what].seq < e.seq /\ m.stream[e.what].last <= e.time
                        /\ e.time <= heard[e.what]
                        /\ e.seq <= sequence[Config[e.what].connection]
        /\ \A e, f \in P : e.what = f.what /\ e.seq < f.seq => e.time <= f.time
        /\ \A e \in Held(todo), f \in Held(q) : e.what = f.what => e.seq < f.seq
        /\ \A k, l \in Events(todo) :
              k < l /\ todo[k].what = todo[l].what => todo[k].seq < todo[l].seq
        /\ \A s \in Stream :
              /\ m.stream[s].seq <= sequence[Config[s].connection]
              /\ m.stream[s].last <= heard[s]
              /\ m.stream[s].last = heard[s] \/ \E e \in P : e.what = s /\ e.time = heard[s]

\* A call that hands the monitor no message.
Unaware(m, w) ==
    \A s \in Stream : /\ w.stream[s].last = m.stream[s].last
                      /\ w.stream[s].seq \in {m.stream[s].seq, Never}

Sender(item) == IF item.kind = "EVENT" THEN Config[item.what].connection ELSE item.what

QueueOK ==
    /\ queue \in Seq(Message \cup Change) /\ rest \in Seq(Message \cup Change)
    /\ Len(queue) <= Capacity
    /\ \A k \in DOMAIN queue : queue[k].seq <= sequence[Sender(queue[k])]
    /\ \A k, l \in DOMAIN queue : k # l => queue[k] # queue[l]
    /\ loop \in {"WAITING", "CLOSING", "DONE"} => rest = <<>>
    /\ loop \in {"CLOSING", "DONE"} => queue = <<>>
    /\ loop = "CANCELING" => rest # <<>>

\* What the end of the capture leaves: every incident has its verdict.
Judged(m) ==
    /\ m \in Monitor
    /\ \A s \in Stream :
          /\ HasActive(m, s) => m.stream[s].active \in DOMAIN m.incident
          /\ m.stream[s].state = "LIVE" => heard[s] # Never /\ clock - heard[s] <= Config[s].stale
    /\ \A i \in DOMAIN m.incident :
          LET r == m.incident[i]
          IN  /\ r.state \in {"RECOVERED", "UNRESOLVED"}
              /\ r.unresolved <=> r.state = "UNRESOLVED"
              /\ r.unresolved => /\ m.stream[i[1]].state = "FAILED" /\ m.stream[i[1]].active = i
                                 /\ r.start = heard[i[1]]
                                 /\ clock - heard[i[1]] > Config[i[1]].stale
              /\ r.state = "RECOVERED" => RightlyEnded(i, r)

DowntimeOK ==
    /\ DowntimeIsReal
    /\ breakStart \in Instant /\ breakStart <= clock
    /\ reconnected <=> breakStart = Never
    /\ breakStart # Never => Broken

Places == {"WAITING", "HANDLING", "CANCELING", "CLOSING", "DONE"}

HealthInv ==
    /\ clock \in 0 .. MaxTime /\ loop \in Places
    /\ link \in [Connection -> {"IDLE", "UP", "DOWN", "FAILED"}]
    /\ sequence \in [Connection -> Nat]
    /\ heard \in [Stream -> Instant] /\ \A s \in Stream : heard[s] <= clock
    /\ {downtime, received, processed, dropped, outage, masked} \subseteq Nat
    /\ QueueOK /\ DowntimeOK /\ NothingLostUncounted
    /\ IF done THEN Judged(monitor)
               ELSE Watching(monitor) /\ Opened(monitor) /\ Owed(monitor, Todo, queue)

-----------------------------------------------------------------------------
(* The monitor, one call after the other *)

LEMMA MonitorHas ==
    ASSUME NEW m \in Monitor
    PROVE  /\ m.stream \in [Stream -> Watch] /\ m.alive \in [Connection -> BOOLEAN]
           /\ DOMAIN m.incident \subseteq Stream \X Nat
           /\ m.incident \in [DOMAIN m.incident -> Incident]
           /\ m = [stream |-> m.stream, incident |-> m.incident, alive |-> m.alive]
<1>1. PICK D \in SUBSET (Stream \X Nat) : m.incident \in [D -> Incident]
  BY DEF Monitor
<1>2. DOMAIN m.incident = D
  BY <1>1
<1>3. m.stream \in [Stream -> Watch] /\ m.alive \in [Connection -> BOOLEAN]
      /\ m = [stream |-> m.stream, incident |-> m.incident, alive |-> m.alive]
  BY DEF Monitor
<1> QED BY <1>1, <1>2, <1>3

LEMMA MonitorMade ==
    ASSUME NEW stream \in [Stream -> Watch], NEW D \in SUBSET (Stream \X Nat),
           NEW incident \in [D -> Incident], NEW alive \in [Connection -> BOOLEAN]
    PROVE  [stream |-> stream, incident |-> incident, alive |-> alive] \in Monitor
  BY DEF Monitor

LEMMA WatchMoves ==
    ASSUME NEW r \in Watch, NEW state \in StreamState, NEW since \in Instant, NEW seq \in Instant
    PROVE  /\ [r EXCEPT !.state = state, !.since = since, !.seq = seq] \in Watch
           /\ [r EXCEPT !.state = state, !.since = since] \in Watch
           /\ [r EXCEPT !.state = state] \in Watch
  BY DEF Watch

LEMMA WatchFailed ==
    ASSUME NEW r \in Watch
    PROVE  LET q == [r EXCEPT !.state = "FAILED"]
           IN  q \in Watch /\ q.last = r.last /\ q.seq = r.seq /\ q.state = "FAILED"
               /\ q.active = r.active
  BY DEF Watch, StreamState

LEMMA WatchStale ==
    ASSUME NEW r \in Watch, NEW a \in (Stream \X Nat) \cup {NoIncident}
    PROVE  LET q == [r EXCEPT !.state = "STALE", !.active = a]
           IN  q \in Watch /\ q.last = r.last /\ q.seq = r.seq /\ q.state = "STALE" /\ q.active = a
  BY DEF Watch, StreamState

LEMMA IncidentMoves ==
    ASSUME NEW r \in Incident, NEW state \in IncidentState, NEW u \in BOOLEAN, NEW t \in Instant
    PROVE  /\ [r EXCEPT !.state = state, !.unresolved = u] \in Incident
           /\ [r EXCEPT !.state = state, !.unresolved = u, !.end = t] \in Incident
           /\ [r EXCEPT !.state = state] \in Incident
           /\ [r EXCEPT !.crossed = TRUE] \in Incident
  BY DEF Incident

LEMMA Names ==
    /\ {"REQUESTED", "WAITING_FIRST_EVENT", "LIVE", "STALE", "FAILED"} = StreamState
    /\ {"DETECTED", "OBSERVING", "RECOVERED", "UNRESOLVED", "ESCALATED"} = IncidentState
    /\ Never \in Instant /\ Nat \subseteq Instant
    /\ NoIncident \notin Stream \X Nat
  BY DEF StreamState, IncidentState, Instant, NoIncident, Never

\* A call that opens no incident and ends none leaves the monitor in order when no stream
\* becomes LIVE or STALE by it.
LEMMA MonitorHeld ==
    ASSUME NEW m, NEW w \in Monitor, Watching(m), Opened(m),
           \A s \in Stream :
              /\ w.stream[s].active = m.stream[s].active /\ w.stream[s].last = m.stream[s].last
              /\ w.stream[s].state \in {"LIVE", "STALE"} => w.stream[s].state = m.stream[s].state,
           DOMAIN w.incident = DOMAIN m.incident,
           \A i \in DOMAIN m.incident :
              \/ w.incident[i] = m.incident[i]
              \/ /\ w.incident[i].state # "RECOVERED" /\ m.incident[i].state # "RECOVERED"
                 /\ w.incident[i].start = m.incident[i].start
    PROVE  Watching(w) /\ Opened(w)
<1>1. ASSUME NEW s \in Stream PROVE StreamOK(w, s)
  <2>1. StreamOK(m, s)
    BY DEF Watching
  <2> QED BY <2>1 DEF StreamOK, HasActive
<1>2. ASSUME NEW i \in DOMAIN m.incident PROVE IncidentOK(w, i)
  <2>1. IncidentOK(m, i) /\ i[1] \in Stream
    BY MonitorHas DEF Watching
  <2> QED BY <2>1 DEF IncidentOK, Silence
<1>3. Watching(w)
  BY <1>1, <1>2 DEF Watching
<1>4. Opened(w)
  BY DEF Opened
<1> QED BY <1>3, <1>4

\* The start of a stream and the end of a connection change the state of streams to one
\* that needs no incident, and escalate incidents that are open.
LEMMA ConnectedKeeps ==
    ASSUME NEW m, Watching(m), Opened(m), NEW c \in Connection, NEW t \in Nat
    PROVE  LET w == ConnectedAt(m, c, t) IN Watching(w) /\ Opened(w) /\ Unaware(m, w)
<1> DEFINE w == ConnectedAt(m, c, t)
           G(s) == IF s \in Of(c)
                   THEN [m.stream[s] EXCEPT !.state = "WAITING_FIRST_EVENT", !.since = t]
                   ELSE m.stream[s]
           stream == [s \in Stream |-> G(s)]
<1>1. m \in Monitor /\ m.stream \in [Stream -> Watch]
  BY MonitorHas DEF Watching
<1>2. w = [stream |-> stream, incident |-> m.incident, alive |-> [m.alive EXCEPT ![c] = TRUE]]
  BY DEF ConnectedAt
<1>3. ASSUME NEW s \in Stream
      PROVE  /\ G(s) \in Watch
             /\ G(s).active = m.stream[s].active /\ G(s).last = m.stream[s].last
             /\ G(s).seq \in {m.stream[s].seq, Never}
             /\ G(s).state \in {m.stream[s].state, "WAITING_FIRST_EVENT"}
  <2>1. m.stream[s] \in Watch
    BY <1>1
  <2>2. G(s) \in Watch
    BY <2>1, Names, WatchMoves
  <2> QED BY <2>1, <2>2 DEF Watch
<1> HIDE DEF w, G
<1>4. w.stream = stream /\ w.incident = m.incident
  BY <1>2
<1>5. w \in Monitor
  <2>1. [m.alive EXCEPT ![c] = TRUE] \in [Connection -> BOOLEAN]
    BY <1>1, MonitorHas
  <2>2. stream \in [Stream -> Watch]
    BY <1>3
  <2> HIDE DEF stream
  <2> QED BY <1>1, <1>2, <2>1, <2>2, MonitorHas, MonitorMade
<1>6. Watching(w) /\ Opened(w) /\ Unaware(m, w)
  BY <1>3, <1>4, <1>5, MonitorHeld DEF Unaware
<1> QED BY <1>6 DEF w

LEMMA HeartbeatKeeps ==
    ASSUME NEW m, Watching(m), Opened(m), NEW c \in Connection
    PROVE  LET w == HeartbeatOn(m, c) IN Watching(w) /\ Opened(w) /\ Unaware(m, w)
<1> DEFINE w == HeartbeatOn(m, c)
<1>1. m \in Monitor
  BY DEF Watching
<1>2. w = [stream |-> m.stream, incident |-> m.incident, alive |-> [m.alive EXCEPT ![c] = TRUE]]
  BY DEF HeartbeatOn
<1> HIDE DEF w
<1>3. w \in Monitor
  <2>1. [m.alive EXCEPT ![c] = TRUE] \in [Connection -> BOOLEAN]
    BY <1>1, MonitorHas
  <2> QED BY <1>1, <1>2, <2>1, MonitorHas, MonitorMade
<1>4. w.stream = m.stream /\ w.incident = m.incident
  BY <1>2
<1>5. Watching(w) /\ Opened(w) /\ Unaware(m, w)
  BY <1>3, <1>4, MonitorHeld DEF Unaware
<1> QED BY <1>5 DEF w

\* An incident that some stream has is open.
LEMMA ActiveIsOpen ==
    ASSUME NEW m, Watching(m), NEW s \in Stream, m.stream[s].active \in DOMAIN m.incident
    PROVE  HasActive(m, s) /\ m.incident[m.stream[s].active].state # "RECOVERED"
<1>1. m \in Monitor /\ StreamOK(m, s)
  BY DEF Watching
<1>2. DOMAIN m.incident \subseteq Stream \X Nat
  BY <1>1, MonitorHas
<1>3. HasActive(m, s)
  BY <1>2, Names DEF HasActive
<1> QED BY <1>1, <1>3 DEF StreamOK

LEMMA RestartedKeeps ==
    ASSUME NEW m, Watching(m), Opened(m), NEW c \in Connection
    PROVE  LET w == Restarted(m, c) IN Watching(w) /\ Opened(w) /\ Unaware(m, w)
<1> DEFINE w    == Restarted(m, c)
           hit  == {m.stream[s].active : s \in Of(c)}
           G(s) == IF s \in Of(c)
                   THEN [m.stream[s] EXCEPT !.state = "REQUESTED", !.since = Never, !.seq = Never]
                   ELSE m.stream[s]
           H(i) == IF i \in hit
                   THEN [m.incident[i] EXCEPT !.state = "ESCALATED", !.unresolved = TRUE]
                   ELSE m.incident[i]
           stream == [s \in Stream |-> G(s)]
           incident == [i \in DOMAIN m.incident |-> H(i)]
<1>1. /\ m \in Monitor /\ m.stream \in [Stream -> Watch]
      /\ m.incident \in [DOMAIN m.incident -> Incident]
  BY MonitorHas DEF Watching
<1>2. w = [stream |-> stream, incident |-> incident, alive |-> [m.alive EXCEPT ![c] = FALSE]]
  BY Zenon DEF Restarted
<1>3. ASSUME NEW s \in Stream
      PROVE  /\ G(s) \in Watch
             /\ G(s).active = m.stream[s].active /\ G(s).last = m.stream[s].last
             /\ G(s).seq \in {m.stream[s].seq, Never}
             /\ G(s).state \in {m.stream[s].state, "REQUESTED"}
  <2>1. m.stream[s] \in Watch
    BY <1>1
  <2>2. G(s) \in Watch
    BY <2>1, Names, WatchMoves
  <2> QED BY <2>1, <2>2 DEF Watch
<1>4. ASSUME NEW i \in DOMAIN m.incident
      PROVE  /\ H(i) \in Incident
             /\ \/ H(i) = m.incident[i]
                \/ /\ H(i).state # "RECOVERED" /\ m.incident[i].state # "RECOVERED"
                   /\ H(i).start = m.incident[i].start
  <2>1. m.incident[i] \in Incident
    BY <1>1
  <2>2. H(i) \in Incident
    BY <2>1, Names, IncidentMoves
  <2>3. i \in hit => m.incident[i].state # "RECOVERED"
    BY ActiveIsOpen DEF Of
  <2> QED BY <2>1, <2>2, <2>3 DEF Incident
<1> HIDE DEF w, G, H
<1>5. w.stream = stream /\ w.incident = incident
  BY <1>2
<1>6. w \in Monitor
  <2>1. [m.alive EXCEPT ![c] = FALSE] \in [Connection -> BOOLEAN]
    BY <1>1, MonitorHas
  <2>2. stream \in [Stream -> Watch]
    BY <1>3
  <2>3. incident \in [DOMAIN m.incident -> Incident]
    BY <1>4
  <2> HIDE DEF stream, incident
  <2> QED BY <1>1, <1>2, <2>1, <2>2, <2>3, MonitorHas, MonitorMade
<1>7. /\ \A s \in Stream : w.stream[s] = G(s)
      /\ DOMAIN w.incident = DOMAIN m.incident
      /\ \A i \in DOMAIN m.incident : w.incident[i] = H(i)
  BY <1>5
<1> HIDE DEF stream, incident, hit
<1>8. \A s \in Stream :
         /\ w.stream[s].active = m.stream[s].active /\ w.stream[s].last = m.stream[s].last
         /\ w.stream[s].seq \in {m.stream[s].seq, Never}
         /\ w.stream[s].state \in {"LIVE", "STALE"} => w.stream[s].state = m.stream[s].state
  BY <1>3, <1>7
<1>9. \A i \in DOMAIN m.incident :
         \/ w.incident[i] = m.incident[i]
         \/ /\ w.incident[i].state # "RECOVERED" /\ m.incident[i].state # "RECOVERED"
            /\ w.incident[i].start = m.incident[i].start
  BY <1>4, <1>7
<1>10. Watching(w) /\ Opened(w) /\ Unaware(m, w)
  BY <1>6, <1>7, <1>8, <1>9, MonitorHeld DEF Unaware
<1> QED BY <1>10 DEF w

-----------------------------------------------------------------------------
(* A message ends the incident of its stream, after the silence it was about. *)

\* What a change of one incident keeps.
LEMMA ObservedKeeps ==
    ASSUME NEW m, Watching(m), Opened(m), NEW s \in Stream, NEW n \in Nat, NEW t \in Nat,
           m.stream[s].seq < n
    PROVE  LET w == Observed(m, s, n, t)
           IN  /\ Watching(w) /\ Opened(w)
               /\ w.stream[s].last = t /\ w.stream[s].seq = n
               /\ \A q \in Stream : q # s => w.stream[q] = m.stream[q]
<1> DEFINE w == Observed(m, s, n, t)
<1>1. /\ m \in Monitor /\ m.stream \in [Stream -> Watch]
      /\ m.incident \in [DOMAIN m.incident -> Incident]
      /\ m.stream[s] \in Watch
      /\ m.alive \in [Connection -> BOOLEAN]
      /\ DOMAIN m.incident \subseteq Stream \X Nat
  BY MonitorHas DEF Watching
<1>2. ~ (m.stream[s].seq # Never /\ n <= m.stream[s].seq)
  BY <1>1 DEF Watch, Instant
<1> DEFINE a    == m.stream[s].active
           F    == [m.stream[s] EXCEPT !.state = "LIVE", !.last = t, !.seq = n,
                                       !.active = NoIncident]
           H(i) == LET r == m.incident[i]
                   IN  IF i = a THEN IncidentRecovered(r, t)
                       ELSE IF r.state # "RECOVERED" /\ s \in Related[i[1]]
                            THEN [r EXCEPT !.crossed = TRUE] ELSE r
           stream == [m.stream EXCEPT ![s] = F]
           incident == [i \in DOMAIN m.incident |-> H(i)]
<1>3. w = [stream |-> stream, incident |-> incident, alive |-> m.alive]
  BY <1>2 DEF Observed
<1>4. F \in Watch /\ F.state = "LIVE" /\ F.last = t /\ F.seq = n
      /\ F.active = NoIncident
  BY <1>1, Names DEF Watch
<1>5. ASSUME NEW i \in DOMAIN m.incident
      PROVE  /\ H(i) \in Incident
             /\ i # a => /\ H(i).state = m.incident[i].state /\ H(i).start = m.incident[i].start
                         /\ H(i).end = m.incident[i].end
                         /\ H(i).unresolved = m.incident[i].unresolved
             /\ i = a => /\ H(i).state = "RECOVERED" /\ ~ H(i).unresolved
                         /\ H(i).start = m.incident[i].start /\ H(i).end = t
  <2>1. m.incident[i] \in Incident
    BY <1>1
  <2>2. H(i) \in Incident
    BY <2>1, Names, IncidentMoves DEF IncidentRecovered
  <2> QED BY <2>1, <2>2 DEF Incident, IncidentRecovered
<1> HIDE DEF w, F, H
<1>6. stream \in [Stream -> Watch] /\ incident \in [DOMAIN m.incident -> Incident]
  BY <1>1, <1>4, <1>5
<1>7. w \in Monitor
  <2> HIDE DEF stream, incident
  <2> QED BY <1>1, <1>3, <1>6, MonitorMade
<1>8. /\ w.stream[s] = F /\ \A q \in Stream : q # s => w.stream[q] = m.stream[q]
      /\ DOMAIN w.incident = DOMAIN m.incident
      /\ \A i \in DOMAIN m.incident : w.incident[i] = H(i)
  <2>1. w.stream = stream /\ w.incident = incident
    BY <1>3
  <2> QED BY <1>1, <2>1
<1> HIDE DEF stream, incident
<1>9. ASSUME NEW q \in Stream PROVE StreamOK(w, q)
  <2>1. CASE q = s
    BY <1>4, <1>8, <2>1 DEF StreamOK, HasActive, Never
  <2>2. CASE q # s
    <3>1. StreamOK(m, q) /\ w.stream[q] = m.stream[q]
      BY <1>8, <2>2 DEF Watching
    <3>2. ASSUME HasActive(m, q) PROVE m.stream[q].active # a
      <4>1. m.stream[q].active \in DOMAIN m.incident /\ m.stream[q].active[1] = q
        BY <3>1, <3>2 DEF StreamOK
      <4>2. ASSUME a = m.stream[q].active PROVE a[1] = s
        <5>1. HasActive(m, s)
          BY <4>1, <4>2, ActiveIsOpen
        <5> QED BY <5>1 DEF StreamOK, Watching
      <4> QED BY <2>2, <4>1, <4>2
    <3> HIDE DEF a
    <3> QED BY <1>5, <1>8, <3>1, <3>2 DEF StreamOK, HasActive
  <2> QED BY <2>1, <2>2
<1>10. ASSUME NEW i \in DOMAIN m.incident PROVE IncidentOK(w, i)
  <2>1. IncidentOK(m, i) /\ i[1] \in Stream /\ i[2] \in Nat /\ m.incident[i] \in Incident
        /\ w.incident[i] = H(i)
    BY <1>1, <1>8 DEF Watching
  <2>2. CASE i = a
    <3>1. HasActive(m, s) /\ m.incident[i].state # "RECOVERED"
      BY <2>2, ActiveIsOpen
    <3>2. i[1] = s
      BY <2>2, <3>1 DEF StreamOK, Watching
    <3>3. i[2] - m.incident[i].start > Config[i[1]].stale
      BY <2>1, <3>1 DEF IncidentOK, Silence
    <3>4. t - m.incident[i].start > Config[i[1]].stale \/ t <= i[2]
      BY <2>1, <3>2, <3>3, LivenessAssumption DEF Incident
    <3>5. RightlyEnded(i, w.incident[i])
      BY <1>5, <2>1, <2>2, <3>4 DEF RightlyEnded
    <3> QED BY <1>5, <2>1, <2>2, <3>5 DEF IncidentOK
  <2>3. CASE i # a
    <3>1. m.incident[i].state # "RECOVERED" => i[1] # s
      BY <2>1, <2>3 DEF IncidentOK
    <3>2. m.incident[i].state # "RECOVERED" => w.stream[i[1]].active = i /\ Silence(i, m.incident[i])
      BY <1>8, <2>1, <3>1 DEF IncidentOK
    <3> HIDE DEF a
    <3> QED BY <1>5, <2>1, <2>3, <3>2 DEF IncidentOK, Silence, RightlyEnded
  <2> QED BY <2>2, <2>3
<1>11. Watching(w)
  BY <1>7, <1>8, <1>9, <1>10 DEF Watching
<1>12. Opened(w)
  BY <1>8 DEF Opened
<1>13. w.stream[s].last = t /\ w.stream[s].seq = n
       /\ \A q \in Stream : q # s => w.stream[q] = m.stream[q]
  BY <1>4, <1>8
<1> QED BY <1>11, <1>12, <1>13 DEF w

-----------------------------------------------------------------------------
(* After an evaluation no LIVE stream has been silent for too long. *)

Recent(m) ==
    \A s \in Stream : m.stream[s].state = "LIVE" => clock - m.stream[s].last <= Config[s].stale

LEMMA EvaluatedKeeps ==
    ASSUME NEW m, Watching(m), Opened(m), clock \in Nat
    PROVE  LET w == Evaluated(m, clock)
           IN  Watching(w) /\ Opened(w) /\ Unaware(m, w) /\ Recent(w)
<1> DEFINE w      == Evaluated(m, clock)
           silent == {s \in Stream : Silent(m, s, clock)}
           new    == {s \in silent : ~ HasActive(m, s)}
           old    == {m.stream[s].active : s \in silent \ new}
           G(s)   == CASE s \in new -> [m.stream[s] EXCEPT !.state = "STALE", !.active = <<s, clock>>]
                       [] TooLateToStart(m, s, clock) -> [m.stream[s] EXCEPT !.state = "FAILED"]
                       [] OTHER -> m.stream[s]
           H(i)   == CASE i[1] \in new /\ i[2] = clock -> Detected(m, i[1])
                       [] i \in old -> Watched(m, i[1], m.incident[i], clock)
                       [] OTHER -> m.incident[i]
           D        == DOMAIN m.incident \cup {<<s, clock>> : s \in new}
           stream   == [s \in Stream |-> G(s)]
           incident == [i \in D |-> H(i)]
<1>1. /\ m \in Monitor /\ m.stream \in [Stream -> Watch]
      /\ m.incident \in [DOMAIN m.incident -> Incident]
      /\ m.alive \in [Connection -> BOOLEAN]
      /\ DOMAIN m.incident \subseteq Stream \X Nat
  BY MonitorHas DEF Watching
<1>2. w = [stream |-> stream, incident |-> incident, alive |-> m.alive]
  BY DEF Evaluated
<1>3. ASSUME NEW s \in Stream
      PROVE  /\ m.stream[s] \in Watch /\ StreamOK(m, s)
             /\ s \in new => /\ m.stream[s].last \in Nat
                             /\ clock - m.stream[s].last > Config[s].stale
                             /\ m.stream[s].state \notin {"WAITING_FIRST_EVENT"}
             /\ s \in silent \ new => HasActive(m, s) /\ m.stream[s].active \in DOMAIN m.incident
  <2>1. m.stream[s] \in Watch /\ StreamOK(m, s)
    BY <1>1 DEF Watching
  <2>2. s \in silent => /\ m.stream[s].last # Never
                        /\ clock - m.stream[s].last > Config[s].stale
                        /\ m.stream[s].state \in {"LIVE", "STALE"}
    BY DEF Silent
  <2>3. m.stream[s].last \in Instant
    BY <2>1 DEF Watch
  <2> QED BY <2>1, <2>2, <2>3 DEF Instant, StreamOK
<1>4. ASSUME NEW s \in Stream
      PROVE  /\ G(s) \in Watch
             /\ G(s).last = m.stream[s].last /\ G(s).seq = m.stream[s].seq
             /\ s \in new => G(s).state = "STALE" /\ G(s).active = <<s, clock>>
             /\ s \notin new => /\ G(s).active = m.stream[s].active
                                /\ G(s).state \in {m.stream[s].state, "FAILED"}
  <2>1. m.stream[s] \in Watch
    BY <1>3
  <2> HIDE DEF new
  <2>2. CASE s \in new
    <3>1. ~ TooLateToStart(m, s, clock)
      BY <1>3, <2>2 DEF TooLateToStart
    <3>2. G(s) = [m.stream[s] EXCEPT !.state = "STALE", !.active = <<s, clock>>]
      BY <2>2, <3>1
    <3>3. <<s, clock>> \in (Stream \X Nat) \cup {NoIncident}
      OBVIOUS
    <3> DEFINE a == <<s, clock>>
               q == [m.stream[s] EXCEPT !.state = "STALE", !.active = a]
    <3> HIDE DEF G, a
    <3>4. q \in Watch /\ q.last = m.stream[s].last /\ q.seq = m.stream[s].seq
          /\ q.state = "STALE" /\ q.active = a
      BY <2>1, <3>3, WatchStale DEF a
    <3>5. G(s) = q
      BY <3>2 DEF a
    <3> HIDE DEF q
    <3> QED BY <2>2, <3>4, <3>5 DEF a
  <2>3. CASE s \notin new /\ TooLateToStart(m, s, clock)
    <3>1. G(s) = [m.stream[s] EXCEPT !.state = "FAILED"]
      BY <2>3
    <3> HIDE DEF G
    <3> QED BY <2>1, <2>3, <3>1, WatchFailed
  <2>4. CASE s \notin new /\ ~ TooLateToStart(m, s, clock)
    BY <2>1, <2>4
  <2> QED BY <2>2, <2>3, <2>4
<1>5. ASSUME NEW i \in DOMAIN m.incident
      PROVE  /\ m.incident[i] \in Incident /\ IncidentOK(m, i)
             /\ i[1] \in Stream /\ i[2] \in Nat /\ i = <<i[1], i[2]>>
             /\ m.incident[i].state # "RECOVERED" => i[1] \notin new /\ m.stream[i[1]].active = i
             /\ i \in old => m.incident[i].state # "RECOVERED"
  <2>1. /\ m.incident[i] \in Incident /\ IncidentOK(m, i)
        /\ i[1] \in Stream /\ i[2] \in Nat /\ i = <<i[1], i[2]>>
    BY <1>1 DEF Watching
  <2>2. ASSUME m.incident[i].state # "RECOVERED"
        PROVE  i[1] \notin new /\ m.stream[i[1]].active = i
    BY <1>1, <2>1, <2>2, Names DEF IncidentOK, HasActive
  <2>3. i \in old => m.incident[i].state # "RECOVERED"
    BY ActiveIsOpen
  <2> QED BY <2>1, <2>2, <2>3
<1>6. ASSUME NEW i \in D, i[1] \in new /\ i[2] = clock
      PROVE  /\ H(i) = Detected(m, i[1]) /\ H(i) \in Incident
             /\ i[1] \in Stream /\ i = <<i[1], clock>>
  <2>1. i[1] \in Stream /\ i = <<i[1], clock>>
    BY <1>5, <1>6
  <2>2. i \notin old
    <3>1. ASSUME NEW q \in silent \ new, m.stream[q].active = i PROVE FALSE
      <4>1. HasActive(m, q) /\ StreamOK(m, q)
        BY <1>3
      <4>2. i[1] = q
        BY <3>1, <4>1 DEF StreamOK
      <4> QED BY <1>6, <4>2
    <3> QED BY <3>1
  <2> HIDE DEF new, old
  <2>3. H(i) = Detected(m, i[1])
    BY <1>6, <2>2
  <2>4. Detected(m, i[1]) \in Incident
    <3>1. m.stream[i[1]].last \in Nat
      BY <1>3, <1>6, <2>1
    <3> QED BY <3>1, Names DEF Detected, Incident
  <2> QED BY <2>1, <2>3, <2>4
<1>7. ASSUME NEW i \in D, ~ (i[1] \in new /\ i[2] = clock)
      PROVE  /\ i \in DOMAIN m.incident /\ H(i) \in Incident
             /\ H(i).start = m.incident[i].start
             /\ \/ H(i) = m.incident[i]
                \/ m.incident[i].state # "RECOVERED" /\ H(i).state # "RECOVERED"
  <2>1. i \in DOMAIN m.incident
    BY <1>7
  <2>2. m.incident[i] \in Incident /\ (i \in old => m.incident[i].state # "RECOVERED")
    BY <1>5, <2>1
  <2> HIDE DEF new, old, D
  <2>3. CASE i \in old
    <3>1. H(i) = Watched(m, i[1], m.incident[i], clock)
      BY <1>7, <2>3
    <3> HIDE DEF H
    <3>2. \/ H(i) = [m.incident[i] EXCEPT !.state = "ESCALATED", !.unresolved = TRUE]
          \/ H(i) = [m.incident[i] EXCEPT !.state = IF @ = "DETECTED" THEN "OBSERVING" ELSE @]
      BY <3>1 DEF Watched
    <3> QED BY <2>1, <2>2, <2>3, <3>2 DEF Incident, IncidentState
  <2>4. CASE i \notin old
    BY <1>7, <2>1, <2>2, <2>4
  <2> QED BY <2>1, <2>3, <2>4
<1> HIDE DEF w, G, H
<1>8. w \in Monitor
  <2>1. D \in SUBSET (Stream \X Nat)
    BY <1>1
  <2>2. stream \in [Stream -> Watch]
    BY <1>4
  <2>3. incident \in [D -> Incident]
    BY <1>6, <1>7
  <2> HIDE DEF D, stream, incident
  <2> QED BY <1>1, <1>2, <2>1, <2>2, <2>3, MonitorMade
<1>9. /\ \A s \in Stream : w.stream[s] = G(s)
      /\ DOMAIN w.incident = D /\ \A i \in D : w.incident[i] = H(i)
  <2>1. w.stream = stream /\ w.incident = incident
    BY <1>2
  <2> HIDE DEF D
  <2> QED BY <2>1
<1> HIDE DEF stream, incident
<1>10. ASSUME NEW s \in Stream PROVE StreamOK(w, s)
  <2>1. CASE s \in new
    <3>1. <<s, clock>> \in D /\ w.stream[s].active = <<s, clock>> /\ w.stream[s].state = "STALE"
      BY <1>4, <1>9, <2>1
    <3>2. /\ w.incident[<<s, clock>>].state # "RECOVERED"
          /\ w.incident[<<s, clock>>].start = w.stream[s].last
      BY <1>4, <1>6, <1>9, <2>1, <3>1 DEF Detected
    <3>3. <<s, clock>> # NoIncident
      BY Names
    <3> HIDE DEF D, new
    <3> QED BY <1>9, <3>1, <3>2, <3>3 DEF StreamOK, HasActive
  <2>2. CASE s \notin new
    <3>1. /\ StreamOK(m, s) /\ w.stream[s].active = m.stream[s].active
          /\ w.stream[s].state \in {m.stream[s].state, "FAILED"}
          /\ w.stream[s].last = m.stream[s].last
      BY <1>3, <1>4, <1>9, <2>2
    <3>2. ASSUME HasActive(m, s)
          PROVE  LET i == m.stream[s].active
                 IN  i \in D /\ i[1] = s /\ w.incident[i].state # "RECOVERED"
                     /\ w.incident[i].start = m.stream[s].last
      <4> DEFINE i == m.stream[s].active
      <4>1. i \in DOMAIN m.incident /\ i[1] = s /\ m.incident[i].state # "RECOVERED"
            /\ m.incident[i].start = m.stream[s].last
        BY <3>1, <3>2 DEF StreamOK
      <4>2. i[1] \notin new
        BY <1>5, <4>1
      <4> HIDE DEF i, new
      <4>3. i \in D
        BY <4>1
      <4> HIDE DEF D
      <4> QED BY <1>7, <1>9, <4>1, <4>2, <4>3 DEF i
    <3> HIDE DEF D, new
    <3> QED BY <1>9, <3>1, <3>2 DEF StreamOK, HasActive
  <2> QED BY <2>1, <2>2
<1>11. ASSUME NEW i \in DOMAIN w.incident PROVE IncidentOK(w, i)
  <2>1. i \in D /\ w.incident[i] = H(i)
    BY <1>9
  <2>2. CASE i[1] \in new /\ i[2] = clock
    <3>1. /\ w.incident[i].state = "DETECTED" /\ w.incident[i].start = m.stream[i[1]].last
          /\ i[1] \in Stream /\ i = <<i[1], clock>>
      BY <1>6, <2>1, <2>2 DEF Detected
    <3>2. Silence(i, w.incident[i])
      BY <1>3, <2>2, <3>1 DEF Silence
    <3>3. w.stream[i[1]].active = i
      BY <1>4, <1>9, <2>2, <3>1
    <3> QED BY <3>1, <3>2, <3>3 DEF IncidentOK
  <2>3. CASE ~ (i[1] \in new /\ i[2] = clock)
    <3>1. /\ i \in DOMAIN m.incident
          /\ w.incident[i].start = m.incident[i].start
          /\ \/ w.incident[i] = m.incident[i]
             \/ m.incident[i].state # "RECOVERED" /\ w.incident[i].state # "RECOVERED"
      BY <1>7, <2>1, <2>3
    <3>2. IncidentOK(m, i) /\ i[1] \in Stream
      BY <1>5, <3>1
    <3>3. ASSUME w.incident[i].state # "RECOVERED" PROVE w.stream[i[1]].active = i
      <4>1. i[1] \notin new /\ m.stream[i[1]].active = i
        BY <1>5, <3>1, <3>3
      <4> QED BY <1>4, <1>9, <3>2, <4>1
    <3> QED BY <3>1, <3>2, <3>3 DEF IncidentOK, Silence
  <2> QED BY <2>2, <2>3
<1>12. Watching(w)
  BY <1>8, <1>10, <1>11 DEF Watching
<1>13. Opened(w) /\ Unaware(m, w)
  <2>1. ASSUME NEW i \in DOMAIN w.incident PROVE i[2] <= clock
    <3>1. CASE i[1] \in new /\ i[2] = clock
      BY <3>1
    <3>2. CASE ~ (i[1] \in new /\ i[2] = clock)
      BY <1>7, <1>9, <3>2 DEF Opened
    <3> QED BY <3>1, <3>2
  <2> QED BY <1>4, <1>9, <2>1 DEF Opened, Unaware
<1>14. Recent(w)
  <2>1. SUFFICES ASSUME NEW s \in Stream, w.stream[s].state = "LIVE"
                 PROVE  clock - w.stream[s].last <= Config[s].stale
    BY DEF Recent
  <2>2. s \notin new /\ m.stream[s].state = "LIVE" /\ w.stream[s].last = m.stream[s].last
    BY <1>4, <1>9, <2>1
  <2>3. m.stream[s].last # Never /\ ~ HasActive(m, s) /\ m.stream[s].last \in Instant
    BY <1>3, <2>2 DEF StreamOK, Watch
  <2>4. ~ Silent(m, s, clock)
    BY <2>2, <2>3
  <2> QED BY <2>2, <2>3, <2>4, LivenessAssumption DEF Silent, Instant
<1> QED BY <1>12, <1>13, <1>14 DEF w

-----------------------------------------------------------------------------
(* The end: an open incident is forgiven or held against its stream. *)

LEMMA FinalizedJudges ==
    ASSUME NEW m, Watching(m), Opened(m), Recent(m), clock \in Nat,
           \A s \in Stream : m.stream[s].last = heard[s]
    PROVE  Judged(Finalized(m, clock))
<1> DEFINE w    == Finalized(m, clock)
           open == {s \in Stream : HasActive(m, s)}
           good == {s \in open : Forgiven(m, s, clock)}
           forgiven == {m.stream[s].active : s \in good}
           held == {m.stream[s].active : s \in open \ good}
           G(s) == CASE s \in good -> [m.stream[s] EXCEPT !.active = NoIncident]
                     [] s \in open \ good -> [m.stream[s] EXCEPT !.state = "FAILED"]
                     [] OTHER -> m.stream[s]
           H(i) == CASE i \in forgiven -> IncidentRecovered(m.incident[i], clock)
                     [] i \in held ->
                           [m.incident[i] EXCEPT !.state = "UNRESOLVED", !.unresolved = TRUE]
                     [] OTHER -> m.incident[i]
           stream == [s \in Stream |-> G(s)]
           incident == [i \in DOMAIN m.incident |-> H(i)]
<1>1. /\ m \in Monitor /\ m.stream \in [Stream -> Watch]
      /\ m.incident \in [DOMAIN m.incident -> Incident]
      /\ m.alive \in [Connection -> BOOLEAN]
      /\ DOMAIN m.incident \subseteq Stream \X Nat
  BY MonitorHas DEF Watching
<1>2. w = [stream |-> stream, incident |-> incident, alive |-> m.alive]
  BY Zenon DEF Finalized
<1>3. ASSUME NEW s \in Stream
      PROVE  /\ m.stream[s] \in Watch /\ StreamOK(m, s)
             /\ G(s) \in Watch /\ G(s).last = m.stream[s].last
             /\ s \in good => G(s).active = NoIncident /\ G(s).state = m.stream[s].state
             /\ s \in open \ good => G(s).active = m.stream[s].active /\ G(s).state = "FAILED"
             /\ s \notin open => G(s) = m.stream[s]
  <2>1. m.stream[s] \in Watch /\ StreamOK(m, s)
    BY <1>1 DEF Watching
  <2>2. good \subseteq open
    OBVIOUS
  <2> HIDE DEF good, open
  <2>3. CASE s \in good
    <3>1. G(s) = [m.stream[s] EXCEPT !.active = NoIncident]
      BY <2>2, <2>3
    <3> HIDE DEF G
    <3> QED BY <2>1, <2>2, <2>3, <3>1 DEF Watch
  <2>4. CASE s \in open \ good
    <3>1. G(s) = [m.stream[s] EXCEPT !.state = "FAILED"]
      BY <2>4
    <3> HIDE DEF G
    <3> QED BY <2>1, <2>4, <3>1, WatchFailed
  <2>5. CASE s \notin open
    BY <2>1, <2>2, <2>5
  <2> QED BY <2>3, <2>4, <2>5
<1>4. ASSUME NEW i \in DOMAIN m.incident
      PROVE  /\ m.incident[i] \in Incident /\ IncidentOK(m, i) /\ H(i) \in Incident
             /\ i[1] \in Stream /\ i[2] \in Nat
             /\ m.incident[i].state = "RECOVERED" => H(i) = m.incident[i]
             /\ m.incident[i].state # "RECOVERED" =>
                  /\ i[1] \in open /\ m.stream[i[1]].active = i
                  /\ i[1] \in good => /\ H(i).state = "RECOVERED" /\ ~ H(i).unresolved
                                      /\ H(i).start = m.incident[i].start /\ H(i).end = clock
                  /\ i[1] \notin good => /\ H(i).state = "UNRESOLVED" /\ H(i).unresolved
                                         /\ H(i).start = m.incident[i].start
  <2>1. /\ m.incident[i] \in Incident /\ IncidentOK(m, i)
        /\ i[1] \in Stream /\ i[2] \in Nat
    BY <1>1 DEF Watching
  <2>2. i \in forgiven => i[1] \in good /\ m.incident[i].state # "RECOVERED"
    BY ActiveIsOpen DEF Watching, StreamOK
  <2>3. i \in held => i[1] \in open \ good /\ m.incident[i].state # "RECOVERED"
    BY ActiveIsOpen DEF Watching, StreamOK
  <2>4. CASE m.incident[i].state = "RECOVERED"
    <3> HIDE DEF good, open, forgiven, held
    <3>1. H(i) = m.incident[i]
      BY <2>2, <2>3, <2>4
    <3> HIDE DEF H
    <3> QED BY <2>1, <2>4, <3>1
  <2>5. CASE m.incident[i].state # "RECOVERED"
    <3>1. m.stream[i[1]].active = i
      BY <2>1, <2>5 DEF IncidentOK
    <3>2. i[1] \in open
      BY <1>1, <2>1, <3>1, Names DEF HasActive
    <3>3. CASE i[1] \in good
      <4>1. i \in forgiven
        BY <3>1, <3>3
      <4>2. i \notin held
        BY <2>3, <3>3
      <4> HIDE DEF good, open, forgiven, held
      <4>3. H(i) = IncidentRecovered(m.incident[i], clock)
        BY <4>1, <4>2
      <4>4. IncidentRecovered(m.incident[i], clock) \in Incident
        BY <2>1, Names, IncidentMoves DEF IncidentRecovered
      <4> HIDE DEF H
      <4> QED BY <2>1, <2>5, <3>1, <3>2, <3>3, <4>3, <4>4 DEF IncidentRecovered, Incident
    <3>4. CASE i[1] \notin good
      <4>1. i \in held
        BY <3>1, <3>2, <3>4
      <4>2. i \notin forgiven
        BY <2>2, <3>4
      <4> HIDE DEF good, open, forgiven, held
      <4>3. H(i) = [m.incident[i] EXCEPT !.state = "UNRESOLVED", !.unresolved = TRUE]
        BY <4>1, <4>2
      <4>4. H(i) \in Incident
        BY <2>1, <4>3, Names, IncidentMoves
      <4> HIDE DEF H
      <4> QED BY <2>1, <2>5, <3>1, <3>2, <3>4, <4>3, <4>4 DEF Incident
    <3> QED BY <3>3, <3>4
  <2> QED BY <2>4, <2>5
<1> HIDE DEF w, G, H
<1>5. w \in Monitor
  <2>1. stream \in [Stream -> Watch] /\ incident \in [DOMAIN m.incident -> Incident]
    BY <1>3, <1>4
  <2> HIDE DEF stream, incident
  <2> QED BY <1>1, <1>2, <2>1, MonitorMade
<1>6. /\ \A s \in Stream : w.stream[s] = G(s)
      /\ DOMAIN w.incident = DOMAIN m.incident
      /\ \A i \in DOMAIN m.incident : w.incident[i] = H(i)
  <2>1. w.stream = stream /\ w.incident = incident
    BY <1>2
  <2> QED BY <2>1
<1> HIDE DEF stream, incident, forgiven, held
<1>7. ASSUME NEW s \in Stream
      PROVE  /\ HasActive(w, s) => w.stream[s].active \in DOMAIN w.incident
             /\ w.stream[s].state = "LIVE" =>
                   heard[s] # Never /\ clock - heard[s] <= Config[s].stale
  <2>1. HasActive(w, s) => w.stream[s].active \in DOMAIN w.incident
    <3>1. HasActive(w, s) => s \in open /\ w.stream[s].active = m.stream[s].active
      BY <1>3, <1>6 DEF HasActive
    <3> QED BY <1>3, <1>6, <3>1 DEF StreamOK
  <2>2. ASSUME w.stream[s].state = "LIVE"
        PROVE  heard[s] # Never /\ clock - heard[s] <= Config[s].stale
    <3>1. m.stream[s].state = "LIVE"
      BY <1>3, <1>6, <2>2
    <3> QED BY <1>3, <3>1 DEF StreamOK, Recent
  <2> QED BY <2>1, <2>2
<1>8. ASSUME NEW i \in DOMAIN m.incident
      PROVE  LET r == w.incident[i]
             IN  /\ r.state \in {"RECOVERED", "UNRESOLVED"}
                 /\ r.unresolved <=> r.state = "UNRESOLVED"
                 /\ r.unresolved =>
                      /\ w.stream[i[1]].state = "FAILED" /\ w.stream[i[1]].active = i
                      /\ r.start = heard[i[1]] /\ clock - heard[i[1]] > Config[i[1]].stale
                 /\ r.state = "RECOVERED" => RightlyEnded(i, r)
  <2>0. /\ m.incident[i] \in Incident /\ i[1] \in Stream /\ i[2] \in Nat /\ i[2] <= clock
        /\ m.incident[i].state # "RECOVERED" =>
              clock - m.incident[i].start > Config[i[1]].stale
    <3>1. /\ m.incident[i] \in Incident /\ i[1] \in Stream /\ i[2] \in Nat /\ i[2] <= clock
      BY <1>4 DEF Opened
    <3>2. m.incident[i].state # "RECOVERED" => i[2] - m.incident[i].start > Config[i[1]].stale
      BY <1>4 DEF IncidentOK, Silence
    <3> QED BY <3>1, <3>2, LivenessAssumption DEF Incident
  <2>1. CASE m.incident[i].state = "RECOVERED"
    BY <1>4, <1>6, <2>1 DEF IncidentOK
  <2>2. CASE m.incident[i].state # "RECOVERED" /\ i[1] \in good
    <3>1. RightlyEnded(i, w.incident[i])
      BY <1>4, <1>6, <2>0, <2>2 DEF RightlyEnded
    <3> QED BY <1>4, <1>6, <2>2, <3>1
  <2>3. CASE m.incident[i].state # "RECOVERED" /\ i[1] \notin good
    <3>1. /\ w.incident[i].state = "UNRESOLVED" /\ w.incident[i].unresolved
          /\ i[1] \in Stream /\ i[1] \in open \ good /\ m.stream[i[1]].active = i
          /\ w.incident[i].start = m.incident[i].start
      BY <1>4, <1>6, <2>3
    <3>2. w.stream[i[1]].state = "FAILED" /\ w.stream[i[1]].active = i
      BY <1>3, <1>6, <3>1
    <3>3. m.incident[i].start = m.stream[i[1]].last
      BY <1>3, <3>1 DEF StreamOK
    <3> QED BY <2>0, <2>3, <3>1, <3>2, <3>3
  <2> QED BY <2>1, <2>2, <2>3
<1> QED BY <1>5, <1>6, <1>7, <1>8 DEF Judged, w

-----------------------------------------------------------------------------
(* Counting the messages of the queue *)

LEMMA EventsCounted ==
    ASSUME NEW q \in Seq(Message \cup Change)
    PROVE  IsFiniteSet(Events(q)) /\ Cardinality(Events(q)) \in Nat
           /\ Events(q) \subseteq 1 .. Len(q)
<1>1. DOMAIN q = 1 .. Len(q) /\ Len(q) \in Nat
  OBVIOUS
<1>2. Events(q) \subseteq 1 .. Len(q)
  BY <1>1 DEF Events
<1>3. IsFiniteSet(1 .. Len(q))
  BY <1>1, FS_Interval
<1> QED BY <1>2, <1>3, FS_Subset, FS_CardinalityType

LEMMA EventsAppended ==
    ASSUME NEW q \in Seq(Message \cup Change), NEW x \in Message \cup Change
    PROVE  Cardinality(Events(Append(q, x)))
             = Cardinality(Events(q)) + (IF x.kind = "EVENT" THEN 1 ELSE 0)
<1> DEFINE n == Len(q) + 1
<1>1. /\ DOMAIN q = 1 .. Len(q) /\ Len(q) \in Nat
      /\ DOMAIN Append(q, x) = 1 .. n
      /\ \A i \in 1 .. Len(q) : Append(q, x)[i] = q[i]
      /\ Append(q, x)[n] = x
  OBVIOUS
<1>2. IsFiniteSet(Events(q)) /\ Cardinality(Events(q)) \in Nat /\ Events(q) \subseteq 1 .. Len(q)
  BY EventsCounted
<1>3. CASE x.kind = "EVENT"
  <2>1. Events(Append(q, x)) = Events(q) \cup {n}
    BY <1>1, <1>3 DEF Events
  <2>2. n \notin Events(q)
    BY <1>1, <1>2
  <2>3. Cardinality(Events(q) \cup {n}) = Cardinality(Events(q)) + 1
    BY <1>2, <2>2, FS_AddElement
  <2> QED BY <1>3, <2>1, <2>3
<1>4. CASE x.kind # "EVENT"
  <2>1. Events(Append(q, x)) = Events(q)
    BY <1>1, <1>4 DEF Events
  <2> QED BY <1>2, <1>4, <2>1
<1> QED BY <1>3, <1>4

LEMMA NothingWaits == Events(<<>>) = {} /\ Cardinality(Events(<<>>)) = 0
<1>1. Events(<<>>) = {}
  BY DEF Events
<1> QED BY <1>1, FS_EmptySet

-----------------------------------------------------------------------------
(* What the monitor is owed *)

LEMMA HeldAre ==
    ASSUME NEW x \in Seq(Message \cup Change)
    PROVE  Held(x) \subseteq Message
<1>1. \A k \in DOMAIN x : x[k] \in Message \cup Change
  OBVIOUS
<1> QED BY <1>1 DEF Held, Events, Message, Change

LEMMA NothingHeld == Held(<<>>) = {}
  BY DEF Held, Events

\* The first item of a batch, and the others.
LEMMA TailIs ==
    ASSUME NEW x \in Seq(Message \cup Change), x # <<>>
    PROVE  /\ Head(x) \in Message \cup Change /\ Head(x) = x[1]
           /\ Tail(x) \in Seq(Message \cup Change)
           /\ DOMAIN x = 1 .. Len(x) /\ Len(x) \in Nat \ {0} /\ 1 \in DOMAIN x
           /\ DOMAIN Tail(x) = 1 .. (Len(x) - 1)
           /\ \A k \in DOMAIN Tail(x) : k + 1 \in DOMAIN x /\ Tail(x)[k] = x[k + 1]
<1>1. /\ Len(x) \in Nat \ {0} /\ DOMAIN x = 1 .. Len(x) /\ Head(x) = x[1]
      /\ Tail(x) \in Seq(Message \cup Change) /\ Len(Tail(x)) = Len(x) - 1
      /\ \A k \in 1 .. (Len(x) - 1) : Tail(x)[k] = x[k + 1]
  OBVIOUS
<1>2. DOMAIN Tail(x) = 1 .. (Len(x) - 1)
  BY <1>1
<1> QED BY <1>1, <1>2

LEMMA HeldOfTail ==
    ASSUME NEW x \in Seq(Message \cup Change), x # <<>>
    PROVE  /\ Held(Tail(x)) \subseteq Held(x)
           /\ \A e \in Held(x) : e \in Held(Tail(x)) \/ e = Head(x)
           /\ \A e \in Held(Tail(x)) : \E k \in Events(x) : 1 < k /\ e = x[k]
           /\ Head(x).kind = "EVENT" => Head(x) \in Held(x) /\ 1 \in Events(x)
           /\ Head(x).kind # "EVENT" => Held(Tail(x)) = Held(x)
           /\ \A k \in Events(Tail(x)) : k + 1 \in Events(x) /\ Tail(x)[k] = x[k + 1]
<1>1. /\ Head(x) = x[1]
      /\ DOMAIN x = 1 .. Len(x) /\ Len(x) \in Nat \ {0} /\ 1 \in DOMAIN x
      /\ DOMAIN Tail(x) = 1 .. (Len(x) - 1)
      /\ \A k \in DOMAIN Tail(x) : k + 1 \in DOMAIN x /\ Tail(x)[k] = x[k + 1]
  BY TailIs
<1> DEFINE y == Tail(x)
           h == Head(x)
<1> HIDE DEF y, h
<1>2. \A k \in Events(y) : k + 1 \in Events(x) /\ y[k] = x[k + 1] /\ k \in Nat /\ 1 < k + 1
  BY <1>1 DEF y, Events
<1>3. ASSUME NEW k \in Events(x), k # 1 PROVE k - 1 \in Events(y) /\ y[k - 1] = x[k]
  <2>1. k \in 1 .. Len(x) /\ x[k].kind = "EVENT"
    BY <1>1 DEF Events
  <2>2. k - 1 \in DOMAIN y /\ (k - 1) + 1 = k
    BY <1>1, <1>3, <2>1 DEF y
  <2>3. y[k - 1] = x[k]
    BY <1>1, <2>2 DEF y
  <2> QED BY <2>1, <2>2, <2>3 DEF Events
<1>4. h = x[1] /\ (h.kind = "EVENT" <=> 1 \in Events(x))
  BY <1>1 DEF Events, h
<1>5. Held(y) \subseteq Held(x) /\ \A e \in Held(y) : \E k \in Events(x) : 1 < k /\ e = x[k]
  BY <1>2 DEF Held
<1>6. \A e \in Held(x) : e \in Held(y) \/ (e = h /\ 1 \in Events(x))
  BY <1>3, <1>4 DEF Held
<1>7. 1 \in Events(x) => h \in Held(x)
  BY <1>4 DEF Held
<1> QED BY <1>2, <1>4, <1>5, <1>6, <1>7 DEF y, h

LEMMA EventsOfTail ==
    ASSUME NEW x \in Seq(Message \cup Change), x # <<>>
    PROVE  Cardinality(Events(x)) = Cardinality(Events(Tail(x)))
                                      + (IF Head(x).kind = "EVENT" THEN 1 ELSE 0)
<1> DEFINE y == Tail(x)
           S == Events(y)
           T == {k + 1 : k \in S}
           f == [k \in S |-> k + 1]
<1>1. /\ DOMAIN x = 1 .. Len(x) /\ Len(x) \in Nat \ {0} /\ 1 \in DOMAIN x /\ Head(x) = x[1]
      /\ DOMAIN y = 1 .. (Len(x) - 1)
      /\ \A k \in DOMAIN y : k + 1 \in DOMAIN x /\ y[k] = x[k + 1]
      /\ y \in Seq(Message \cup Change)
  BY TailIs
<1> HIDE DEF y
<1>2. IsFiniteSet(S) /\ Cardinality(S) \in Nat
  BY <1>1, EventsCounted
<1>3. S \subseteq Nat
  BY <1>1 DEF Events
<1> HIDE DEF S
<1>4. f \in Bijection(S, T)
  BY <1>3 DEF Bijection, Injection, Surjection, IsInjective
<1>5. IsFiniteSet(T) /\ Cardinality(T) = Cardinality(S)
  BY <1>2, <1>4, FS_Bijection DEF ExistsBijection
<1>6. ASSUME NEW k \in 2 .. Len(x) PROVE x[k].kind = "EVENT" <=> k \in T
  <2>1. k - 1 \in DOMAIN y /\ (k - 1) + 1 = k
    BY <1>1
  <2>2. y[k - 1] = x[k]
    BY <1>1, <2>1
  <2>3. k \in T <=> k - 1 \in S
    BY <1>3, <2>1
  <2> QED BY <2>1, <2>2, <2>3 DEF S, Events
<1>7. T \subseteq 2 .. Len(x)
  BY <1>1 DEF S, Events
<1> HIDE DEF T
<1>8. \A k \in 1 .. Len(x) : k = 1 \/ k \in 2 .. Len(x)
  BY <1>1
<1>9. \A k \in 2 .. Len(x) : k \in 1 .. Len(x) /\ k # 1
  BY <1>1
<1>10. /\ \A k \in Events(x) : k \in 1 .. Len(x) /\ x[k].kind = "EVENT"
       /\ \A k \in 1 .. Len(x) : x[k].kind = "EVENT" => k \in Events(x)
  BY <1>1 DEF Events
<1>11. 1 \in 1 .. Len(x) /\ x[1] = Head(x) /\ 1 \notin T
  BY <1>1, <1>7, <1>9
<1> DEFINE E == Events(x)
<1> HIDE DEF E
<1>12. \A k \in E : k = 1 \/ k \in T
  BY <1>6, <1>8, <1>10 DEF E
<1>13. T \subseteq E
  BY <1>6, <1>7, <1>9, <1>10 DEF E
<1>14. 1 \in E <=> Head(x).kind = "EVENT"
  BY <1>10, <1>11 DEF E
<1>15. CASE Head(x).kind = "EVENT"
  <2>1. E = T \cup {1}
    BY <1>12, <1>13, <1>14, <1>15
  <2>2. Cardinality(T \cup {1}) = Cardinality(T) + 1
    BY <1>5, <1>11, FS_AddElement
  <2> QED BY <1>5, <1>15, <2>1, <2>2 DEF S, y, E
<1>16. CASE Head(x).kind # "EVENT"
  <2>1. E = T
    BY <1>12, <1>13, <1>14, <1>16
  <2> QED BY <1>2, <1>5, <1>16, <2>1 DEF S, y, E
<1> QED BY <1>15, <1>16

\* A batch is the queue in one of its merge orders: the same items, and the messages of a
\* stream in their order.
LEMMA MergeOrdersAre ==
    ASSUME NEW batch \in Seq(Message \cup Change), NEW order \in MergeOrders(batch),
           \A k, l \in DOMAIN batch : k # l => batch[k] # batch[l]
    PROVE  /\ order \in Seq(Message \cup Change) /\ Held(order) = Held(batch)
           /\ Cardinality(Events(order)) = Cardinality(Events(batch))
           /\ \A k, l \in Events(order) :
                 k < l /\ order[k].what = order[l].what => order[k].seq < order[l].seq
<1> DEFINE S == {batch[i] : i \in DOMAIN batch}
           n == Cardinality(S)
           M == {e \in S : e.kind = "EVENT"}
<1>1. DOMAIN batch = 1 .. Len(batch) /\ Len(batch) \in Nat
      /\ \A i \in DOMAIN batch : batch[i] \in Message \cup Change
  OBVIOUS
<1>2. IsFiniteSet(S)
  <2>1. IsFiniteSet(DOMAIN batch)
    BY <1>1, FS_Interval
  <2>2. batch \in Surjection(DOMAIN batch, S)
    BY DEF Surjection
  <2> HIDE DEF S
  <2> QED BY <2>1, <2>2, FS_Surjection
<1>3. n \in Nat /\ IsFiniteSet(1 .. n) /\ Cardinality(1 .. n) = n
  <2>1. n \in Nat
    BY <1>2, FS_CardinalityType
  <2> HIDE DEF n
  <2> QED BY <2>1, FS_Interval
<1>4. S \subseteq Message \cup Change
  BY <1>1
<1>5. \A e \in S : \E i \in DOMAIN batch : batch[i] = e
  OBVIOUS
<1>6. \A i \in DOMAIN batch : batch[i] \in S
  OBVIOUS
<1>7. /\ order \in SetToSeqs(S)
      /\ \A i, j \in DOMAIN order : i < j /\ Comparable(order[i], order[j]) => order[i].seq < order[j].seq
  BY Zenon DEF MergeOrders
<1> HIDE DEF S
<1>8. order \in [1 .. n -> S] /\ \A i, j \in 1 .. n : i # j => order[i] # order[j]
  BY <1>7 DEF SetToSeqs
<1>9. order \in Surjection(1 .. n, S)
  <2>1. order \in Injection(1 .. n, S)
    BY <1>8 DEF Injection, IsInjective
  <2>2. Cardinality(1 .. n) = Cardinality(S)
    BY <1>3
  <2> HIDE DEF n
  <2> QED BY <1>2, <2>1, <2>2, FS_Injection
<1> HIDE DEF n
<1>10. \A e \in S : \E k \in 1 .. n : order[k] = e
  BY <1>9 DEF Surjection
<1>11. order \in Seq(Message \cup Change) /\ DOMAIN order = 1 .. n
  BY <1>3, <1>4, <1>8
<1>12. Held(order) = M
  BY <1>8, <1>10, <1>11 DEF Held, Events
<1>13. Held(batch) = M
  BY <1>5, <1>6 DEF Held, Events
<1>14. ASSUME NEW x \in {order, batch} PROVE Cardinality(Events(x)) = Cardinality(M)
  <2> DEFINE E == Events(x)
             f == [k \in E |-> x[k]]
  <2>1. x \in Seq(Message \cup Change) /\ Held(x) = M
    BY <1>11, <1>12, <1>13
  <2>2. \A k, l \in DOMAIN x : k # l => x[k] # x[l]
    BY <1>8, <1>11
  <2>3. IsFiniteSet(E) /\ E \subseteq DOMAIN x
    BY <2>1, EventsCounted DEF Events
  <2>4. \A k \in E : x[k] \in M
    BY <2>1 DEF Held
  <2>5. \A e \in M : \E k \in E : x[k] = e
    BY <2>1 DEF Held
  <2> HIDE DEF M, E
  <2>6. f \in Bijection(E, M)
    BY <2>2, <2>3, <2>4, <2>5 DEF Bijection, Injection, Surjection, IsInjective
  <2>7. Cardinality(E) = Cardinality(M)
    BY <2>3, <2>6, FS_Bijection DEF ExistsBijection
  <2> QED BY <2>7 DEF E
<1>15. \A k, l \in Events(order) :
          k < l /\ order[k].what = order[l].what => order[k].seq < order[l].seq
  <2>1. \A k \in Events(order) : k \in DOMAIN order /\ order[k].kind = "EVENT"
    BY DEF Events
  <2>2. \A k, l \in Events(order) : order[k].what = order[l].what => Comparable(order[k], order[l])
    BY <2>1 DEF Comparable
  <2> QED BY <1>7, <2>1, <2>2
<1> QED BY <1>11, <1>12, <1>13, <1>14, <1>15

\* A call without a message leaves what the monitor is owed.
LEMMA OwedStays ==
    ASSUME NEW m \in Monitor, NEW w \in Monitor, NEW todo \in Seq(Message \cup Change),
           NEW q \in Seq(Message \cup Change), Owed(m, todo, q), Unaware(m, w),
           sequence \in [Connection -> Nat]
    PROVE  Owed(w, todo, q)
<1>1. \A e \in Held(todo) \cup Held(q) : e.what \in Stream /\ e.seq \in Nat
  BY HeldAre DEF Message
<1>2. \A s \in Stream : /\ m.stream[s] \in Watch /\ Config[s].connection \in Connection
                        /\ w.stream[s].last = m.stream[s].last
                        /\ w.stream[s].seq \in {m.stream[s].seq, Never}
  BY MonitorHas DEF Connection, Unaware
<1>3. \A s \in Stream : sequence[Config[s].connection] \in Nat
  BY <1>2
<1>4. \A s \in Stream : w.stream[s].seq <= sequence[Config[s].connection]
  BY <1>2, <1>3 DEF Owed, Never
<1>5. \A e \in Held(todo) \cup Held(q) : w.stream[e.what].seq < e.seq
  BY <1>1, <1>2 DEF Owed, Never
<1> HIDE DEF Held
<1> QED BY <1>1, <1>2, <1>4, <1>5 DEF Owed

\* A state item of the batch is handled.
LEMMA OwedPassed ==
    ASSUME NEW m, NEW todo \in Seq(Message \cup Change), todo # <<>>, Head(todo).kind # "EVENT",
           NEW q, Owed(m, todo, q)
    PROVE  Owed(m, Tail(todo), q)
<1>1. Held(Tail(todo)) = Held(todo)
  BY HeldOfTail
<1>2. \A k, l \in Events(Tail(todo)) :
         k < l /\ Tail(todo)[k].what = Tail(todo)[l].what => Tail(todo)[k].seq < Tail(todo)[l].seq
  <2> DEFINE y == Tail(todo)
             E == Events(todo)
             Y == Events(y)
  <2>1. \A k \in Y : k + 1 \in E /\ k \in Nat /\ y[k] = todo[k + 1]
    BY HeldOfTail, TailIs DEF Events
  <2>2. \A k, l \in E :
           k < l /\ todo[k].what = todo[l].what => todo[k].seq < todo[l].seq
    BY DEF Owed
  <2> HIDE DEF y, E, Y
  <2>3. ASSUME NEW k \in Y, NEW l \in Y, k < l, y[k].what = y[l].what
        PROVE  y[k].seq < y[l].seq
    <3>1. k + 1 \in E /\ l + 1 \in E /\ k + 1 < l + 1 /\ y[k] = todo[k + 1] /\ y[l] = todo[l + 1]
      BY <2>1, <2>3
    <3>2. todo[k + 1].what = todo[l + 1].what
      BY <2>3, <3>1
    <3> QED BY <2>2, <3>1, <3>2
  <2> QED BY <2>3 DEF y, Y
<1> QED BY <1>1, <1>2 DEF Owed

\* A message of the batch is handled: it is older than whatever else of its stream waits.
LEMMA OwedHandled ==
    ASSUME NEW m \in Monitor, NEW w \in Monitor, NEW todo \in Seq(Message \cup Change),
           NEW q \in Seq(Message \cup Change), todo # <<>>, Head(todo).kind = "EVENT",
           Owed(m, todo, q), heard \in [Stream -> Instant],
           w.stream[Head(todo).what].last = Head(todo).time,
           w.stream[Head(todo).what].seq = Head(todo).seq,
           \A s \in Stream : s # Head(todo).what => w.stream[s] = m.stream[s]
    PROVE  Owed(w, Tail(todo), q)
<1> DEFINE h == Head(todo)
           P == Held(todo) \cup Held(q)
           R == Held(Tail(todo)) \cup Held(q)
<1>1. h \in Held(todo) /\ 1 \in Events(todo) /\ h = todo[1] /\ R \subseteq P
      /\ \A e \in P : e \in R \/ e = h
  BY HeldOfTail, TailIs
<1>2. P \subseteq Message
  BY HeldAre
<1>3. \A e \in P : e.what \in Stream /\ e.seq \in Nat /\ e.time \in Nat
  BY <1>2 DEF Message
<1>4. \A e \in R : e.what = h.what => h.seq < e.seq
  <2>1. \A e \in Held(Tail(todo)) : \E k \in Events(todo) : 1 < k /\ e = todo[k]
    BY HeldOfTail
  <2>2. \A e \in Held(Tail(todo)) : e.what = h.what => h.seq < e.seq
    BY <1>1, <2>1 DEF Owed
  <2>3. \A e \in Held(q) : e.what = h.what => h.seq < e.seq
    BY <1>1 DEF Owed
  <2> QED BY <2>2, <2>3
<1>5. \A e \in R : e.what = h.what => h.time <= e.time
  <2>1. \A e \in P : h.what = e.what /\ h.seq < e.seq => h.time <= e.time
    BY <1>1 DEF Owed
  <2> HIDE DEF P, R, h
  <2> QED BY <1>1, <1>4, <2>1
<1>6. \A e \in P : /\ m.stream[e.what].seq < e.seq /\ m.stream[e.what].last <= e.time
                   /\ e.time <= heard[e.what]
                   /\ e.seq <= sequence[Config[e.what].connection]
  BY DEF Owed
<1>7. \A s \in Stream :
         /\ m.stream[s].seq <= sequence[Config[s].connection]
         /\ m.stream[s].last <= heard[s]
         /\ m.stream[s].last = heard[s] \/ \E e \in P : e.what = s /\ e.time = heard[s]
  BY DEF Owed
<1>8. \A s \in Stream : m.stream[s] \in Watch /\ w.stream[s] \in Watch
  BY MonitorHas
<1>9. h.what \in Stream /\ h \in P /\ h.time \in Nat
  BY <1>1, <1>3
<1> HIDE DEF P, R, h
<1>10. ASSUME NEW e \in R
       PROVE  /\ w.stream[e.what].seq < e.seq /\ w.stream[e.what].last <= e.time
              /\ e.time <= heard[e.what]
              /\ e.seq <= sequence[Config[e.what].connection]
  <2>1. CASE e.what = h.what
    BY <1>1, <1>4, <1>5, <1>6, <2>1 DEF h
  <2>2. CASE e.what # h.what
    BY <1>1, <1>3, <1>6, <2>2 DEF h
  <2> QED BY <2>1, <2>2
<1>11. ASSUME NEW s \in Stream
       PROVE  /\ w.stream[s].seq <= sequence[Config[s].connection]
              /\ w.stream[s].last <= heard[s]
              /\ w.stream[s].last = heard[s] \/ \E e \in R : e.what = s /\ e.time = heard[s]
  <2>1. CASE s = h.what
    <3>1. w.stream[s].seq = h.seq /\ w.stream[s].last = h.time
      BY <2>1 DEF h
    <3>2. h.seq <= sequence[Config[s].connection] /\ h.time <= heard[s] /\ m.stream[s].last <= h.time
      BY <1>6, <1>9, <2>1
    <3>3. heard[s] \in Instant /\ m.stream[s].last \in Instant
      BY <1>8 DEF Watch
    <3>4. CASE m.stream[s].last = heard[s]
      <4>1. h.time = heard[s]
        BY <1>9, <3>2, <3>3, <3>4 DEF Instant, Never
      <4> QED BY <3>1, <3>2, <4>1
    <3>5. CASE \E e \in P : e.what = s /\ e.time = heard[s]
      <4>1. PICK e \in P : e.what = s /\ e.time = heard[s]
        BY <3>5
      <4>2. e \in R \/ h.time = heard[s]
        BY <1>1, <4>1 DEF h
      <4> QED BY <3>1, <3>2, <4>1, <4>2
    <3> QED BY <1>7, <3>4, <3>5
  <2>2. CASE s # h.what
    <3>1. w.stream[s] = m.stream[s]
      BY <2>2 DEF h
    <3>2. ASSUME NEW e \in P, e.what = s PROVE e \in R
      BY <1>1, <2>2, <3>2 DEF h
    <3> QED BY <1>7, <3>1, <3>2
  <2> QED BY <2>1, <2>2
<1>12. \A e, f \in R : e.what = f.what /\ e.seq < f.seq => e.time <= f.time
  BY <1>1 DEF Owed, P
<1>13. \A e \in Held(Tail(todo)), f \in Held(q) : e.what = f.what => e.seq < f.seq
  BY HeldOfTail DEF Owed
<1>14. \A k, l \in Events(Tail(todo)) :
         k < l /\ Tail(todo)[k].what = Tail(todo)[l].what => Tail(todo)[k].seq < Tail(todo)[l].seq
  <2> DEFINE y == Tail(todo)
             E == Events(todo)
             Y == Events(y)
  <2>1. \A k \in Y : k + 1 \in E /\ k \in Nat /\ y[k] = todo[k + 1]
    BY HeldOfTail, TailIs DEF Events
  <2>2. \A k, l \in E :
           k < l /\ todo[k].what = todo[l].what => todo[k].seq < todo[l].seq
    BY DEF Owed
  <2> HIDE DEF y, E, Y
  <2>3. ASSUME NEW k \in Y, NEW l \in Y, k < l, y[k].what = y[l].what
        PROVE  y[k].seq < y[l].seq
    <3>1. k + 1 \in E /\ l + 1 \in E /\ k + 1 < l + 1 /\ y[k] = todo[k + 1] /\ y[l] = todo[l + 1]
      BY <2>1, <2>3
    <3>2. todo[k + 1].what = todo[l + 1].what
      BY <2>3, <3>1
    <3> QED BY <2>2, <3>1, <3>2
  <2> QED BY <2>3 DEF y, Y
<1> QED BY <1>10, <1>11, <1>12, <1>13, <1>14 DEF Owed, R


\* An item of the batch is handled.
LEMMA HandledKeeps ==
    ASSUME NEW m, Watching(m), Opened(m), NEW todo \in Seq(Message \cup Change), todo # <<>>,
           NEW q \in Seq(Message \cup Change), Owed(m, todo, q),
           heard \in [Stream -> Instant], sequence \in [Connection -> Nat]
    PROVE  LET w == Handled(m, Head(todo))
           IN  Watching(w) /\ Opened(w) /\ Owed(w, Tail(todo), q)
<1> DEFINE h == Head(todo)
           w == Handled(m, h)
<1>1. h \in Message \cup Change /\ Tail(todo) \in Seq(Message \cup Change) /\ m \in Monitor
  BY TailIs DEF Watching
<1>2. CASE h.kind = "EVENT"
  <2>1. h \in Message
    BY <1>1, <1>2 DEF Message, Change
  <2>2. h.what \in Stream /\ h.seq \in Nat /\ h.time \in Nat
    BY <2>1 DEF Message
  <2>3. m.stream[h.what].seq < h.seq
    <3>1. h \in Held(todo)
      BY <1>2, HeldOfTail
    <3> QED BY <3>1 DEF Owed
  <2>4. w = Observed(m, h.what, h.seq, h.time)
    BY <1>2 DEF Handled
  <2> HIDE DEF h
  <2>5. /\ Watching(w) /\ Opened(w)
        /\ w.stream[h.what].last = h.time /\ w.stream[h.what].seq = h.seq
        /\ \A s \in Stream : s # h.what => w.stream[s] = m.stream[s]
    <3> HIDE DEF w
    <3> QED BY <2>2, <2>3, <2>4, ObservedKeeps
  <2> HIDE DEF w
  <2>6. w \in Monitor
    BY <2>5 DEF Watching
  <2>7. Owed(w, Tail(todo), q)
    BY <1>1, <1>2, <2>5, <2>6, OwedHandled DEF h
  <2> QED BY <2>5, <2>7 DEF w, h
<1>3. CASE h.kind # "EVENT"
  <2>1. h \in Change
    BY <1>1, <1>3 DEF Message, Change
  <2>2. h.kind \in {"CONNECTED", "DISCONNECTED"} /\ h.what \in Connection /\ h.time \in Nat
    BY <2>1 DEF Change
  <2>3. Owed(m, Tail(todo), q)
    BY <1>3, OwedPassed
  <2> HIDE DEF h
  <2>4. Watching(w) /\ Opened(w) /\ Unaware(m, w)
    <3>1. CASE h.kind = "CONNECTED"
      <4>1. w = ConnectedAt(m, h.what, h.time)
        BY <3>1 DEF Handled
      <4> HIDE DEF w
      <4> QED BY <2>2, <4>1, ConnectedKeeps
    <3>2. CASE h.kind = "DISCONNECTED"
      <4>1. w = Restarted(m, h.what)
        BY <3>2 DEF Handled
      <4> HIDE DEF w
      <4> QED BY <2>2, <4>1, RestartedKeeps
    <3> QED BY <2>2, <3>1, <3>2
  <2> HIDE DEF w
  <2>5. w \in Monitor
    BY <2>4 DEF Watching
  <2>6. Owed(w, Tail(todo), q)
    BY <1>1, <2>3, <2>4, <2>5, OwedStays
  <2> QED BY <2>4, <2>6 DEF w, h
<1> QED BY <1>2, <1>3

-----------------------------------------------------------------------------
(* The inductive invariant, action by action *)

LEMMA HealthInitially == HealthInit => HealthInv
<1> SUFFICES ASSUME HealthInit PROVE HealthInv
  OBVIOUS
<1>1. /\ clock = 0 /\ clock \in 0 .. MaxTime /\ loop = "WAITING" /\ loop \in Places /\ ~ done
      /\ link \in [Connection -> {"IDLE", "UP", "DOWN", "FAILED"}]
      /\ sequence \in [Connection -> Nat] /\ heard \in [Stream -> Instant]
      /\ \A s \in Stream : heard[s] <= clock
      /\ {downtime, received, processed, dropped, outage, masked} \subseteq Nat
      /\ rest = <<>> /\ queue = <<>>
  BY HealthAssumption DEF HealthInit, Instant, Never, Places, done
<1>2. QueueOK
  BY <1>1, HealthAssumption DEF QueueOK
<1>3. DowntimeOK
  BY DEF HealthInit, DowntimeOK, DowntimeIsReal, Instant, Never
<1>4. NothingLostUncounted
  BY NothingWaits DEF HealthInit, NothingLostUncounted
<1>5. monitor = NewMonitor
  BY DEF HealthInit
<1>6. /\ monitor.incident = <<>>
      /\ \A s \in Stream : /\ monitor.stream[s].active = NoIncident
                           /\ monitor.stream[s].state = "REQUESTED"
                           /\ monitor.stream[s].last = Never /\ monitor.stream[s].seq = Never
  BY <1>5 DEF NewMonitor
<1>7. monitor \in Monitor
  <2> DEFINE r == [state |-> "REQUESTED", since |-> Never, last |-> Never,
                   seq |-> Never, active |-> NoIncident]
  <2>1. r \in Watch
    BY Names DEF Watch, StreamState
  <2> HIDE DEF r
  <2>2. [s \in Stream |-> r] \in [Stream -> Watch]
    BY <2>1
  <2>3. [c \in Connection |-> FALSE] \in [Connection -> BOOLEAN]
    OBVIOUS
  <2>4. <<>> \in [{} -> Incident]
    OBVIOUS
  <2>5. {} \in SUBSET (Stream \X Nat)
    OBVIOUS
  <2> QED BY <1>5, <2>2, <2>3, <2>4, <2>5, MonitorMade DEF NewMonitor, r
<1>8. DOMAIN monitor.incident = {}
  BY <1>6
<1>9. Watching(monitor) /\ Opened(monitor)
  BY <1>6, <1>7, <1>8 DEF Watching, Opened, StreamOK, HasActive
<1>10. Owed(monitor, Todo, queue)
  <2>1. Todo = <<>> /\ Held(<<>>) = {} /\ Events(<<>>) = {}
    BY <1>1, NothingHeld, NothingWaits DEF Todo
  <2>2. \A s \in Stream : /\ monitor.stream[s].seq <= sequence[Config[s].connection]
                          /\ monitor.stream[s].last = heard[s] /\ monitor.stream[s].last <= heard[s]
    BY <1>6 DEF HealthInit, Never, Connection
  <2> QED BY <1>1, <2>1, <2>2 DEF Owed
<1> QED BY <1>1, <1>2, <1>3, <1>4, <1>9, <1>10 DEF HealthInv

LEMMA TickKeeps == ASSUME HealthInv, Tick PROVE HealthInv'
<1> USE DEF HealthInv
<1>1. /\ clock' = clock + 1 /\ clock' \in 0 .. MaxTime /\ clock \in Nat /\ ~ done /\ ~ done'
      /\ UNCHANGED <<loop, rest, monitor, queue, processed, link, sequence, breakStart, downtime,
                     reconnected, received, dropped, heard>>
      /\ outage' = outage + IF Broken THEN 1 ELSE 0
      /\ masked' = masked + IF Broken /\ reconnected THEN 1 ELSE 0
  BY HealthAssumption DEF Tick, merge, workers, supervisor, intake, done
<1>2. \A s \in Stream : heard'[s] <= clock'
  <2>1. \A s \in Stream : heard[s] \in Instant /\ heard[s] <= clock
    OBVIOUS
  <2> QED BY <1>1, <2>1 DEF Instant, Never
<1>3. QueueOK' /\ NothingLostUncounted'
  BY <1>1 DEF QueueOK, Sender, NothingLostUncounted
<1>4. {downtime, received, processed, dropped, outage, masked}' \subseteq Nat
  <2>1. outage' \in Nat /\ masked' \in Nat
    BY <1>1
  <2> QED BY <1>1, <2>1
<1>5. DowntimeOK'
  <2>1. /\ downtime \in Nat /\ outage \in Nat /\ masked \in Nat
        /\ breakStart \in Instant /\ breakStart <= clock
        /\ reconnected <=> breakStart = Never
        /\ breakStart # Never => Broken
        /\ downtime + (IF breakStart = Never THEN 0 ELSE clock - breakStart) = outage - masked
    BY DEF DowntimeOK, DowntimeIsReal
  <2>2. downtime' + (IF breakStart' = Never THEN 0 ELSE clock' - breakStart') = outage' - masked'
    <3>1. CASE breakStart = Never
      <4>1. downtime = outage - masked
        BY <2>1, <3>1
      <4>2. outage' - masked' = outage - masked
        BY <1>1, <2>1, <3>1
      <4> QED BY <1>1, <2>1, <3>1, <4>1, <4>2
    <3>2. CASE breakStart # Never
      <4>1. breakStart \in Nat /\ downtime + (clock - breakStart) = outage - masked
        BY <2>1, <3>2 DEF Instant
      <4>2. outage' = outage + 1 /\ masked' = masked
        BY <1>1, <2>1, <3>2
      <4> QED BY <1>1, <2>1, <3>2, <4>1, <4>2
    <3> QED BY <3>1, <3>2
  <2>3. breakStart' <= clock' /\ (breakStart' # Never => Broken') /\ (reconnected' <=> breakStart' = Never)
    BY <1>1, <2>1 DEF Instant, Never, Broken
  <2> QED BY <1>1, <2>1, <2>2, <2>3 DEF DowntimeOK, DowntimeIsReal
<1>6. Watching(monitor)' /\ Opened(monitor)'
  <2>1. Watching(monitor) /\ Opened(monitor)
    BY <1>1
  <2>2. \A i \in DOMAIN monitor.incident : i[2] \in Nat
    BY <2>1, MonitorHas DEF Watching
  <2>3. \A i \in DOMAIN monitor.incident : i[2] <= clock'
    BY <1>1, <2>1, <2>2 DEF Opened
  <2> QED BY <1>1, <2>1, <2>3
        DEF Watching, Opened, StreamOK, IncidentOK, HasActive, Silence, RightlyEnded
<1>7. Owed(monitor, Todo, queue)'
  <2>1. Owed(monitor, Todo, queue)
    BY <1>1
  <2>2. Todo' = Todo
    BY <1>1 DEF Todo
  <2> QED BY <1>1, <2>1, <2>2 DEF Owed
<1> QED BY <1>1, <1>2, <1>3, <1>4, <1>5, <1>6, <1>7

\* The workers go on: the monitor and the batch are as they were.
LEMMA WorkerStep ==
    ASSUME HealthInv, Yielded, clock' = clock, monitor' = monitor, loop' = loop, rest' = rest,
           sequence' \in [Connection -> Nat], \A c \in Connection : sequence[c] <= sequence'[c]
    PROVE  /\ ~ done /\ ~ done' /\ loop \in {"WAITING", "CANCELING"} /\ clock \in Nat
           /\ Watching(monitor)' /\ Opened(monitor)' /\ Todo' = Todo
           /\ Owed(monitor, Todo, queue) /\ Todo \in Seq(Message \cup Change)
           /\ \A k \in DOMAIN queue : queue[k].seq <= sequence'[Sender(queue[k])]
           /\ \A s \in Stream : Config[s].connection \in Connection
<1> USE DEF HealthInv
<1>1. ~ done /\ ~ done' /\ loop \in {"WAITING", "CANCELING"} /\ clock \in Nat
  BY HealthAssumption DEF Yielded, done
<1>2. Watching(monitor)' /\ Opened(monitor)'
  BY <1>1 DEF Watching, Opened, StreamOK, IncidentOK, HasActive, Silence, RightlyEnded
<1>3. Todo' = Todo /\ Owed(monitor, Todo, queue)
  BY <1>1 DEF Todo
<1>4. Todo \in Seq(Message \cup Change)
  <2>1. CASE loop = "CANCELING"
    <3>1. rest # <<>> /\ rest \in Seq(Message \cup Change)
      BY <2>1 DEF QueueOK
    <3> QED BY <2>1, <3>1, TailIs DEF Todo
  <2>2. CASE loop # "CANCELING"
    BY <2>2 DEF Todo, QueueOK
  <2> QED BY <2>1, <2>2
<1>5. \A s \in Stream : Config[s].connection \in Connection
  BY DEF Connection
<1>6. ASSUME NEW k \in DOMAIN queue PROVE queue[k].seq <= sequence'[Sender(queue[k])]
  <2>1. queue[k] \in Message \cup Change /\ queue[k].seq <= sequence[Sender(queue[k])]
    BY DEF QueueOK
  <2>2. queue[k].seq \in Nat /\ Sender(queue[k]) \in Connection
    BY <1>5, <2>1 DEF Message, Change, Sender
  <2> QED BY <2>1, <2>2
<1> QED BY <1>1, <1>2, <1>3, <1>4, <1>5, <1>6

\* A message that finds no room.
LEMMA OwedDropped ==
    ASSUME HealthInv, Yielded, clock' = clock, monitor' = monitor, loop' = loop, rest' = rest,
           sequence' \in [Connection -> Nat], \A c \in Connection : sequence[c] <= sequence'[c],
           queue' = queue, heard' = heard
    PROVE  QueueOK' /\ Owed(monitor, Todo, queue)'
<1> USE DEF HealthInv
<1>1. QueueOK'
  BY WorkerStep DEF QueueOK, Sender
<1> DEFINE P == Held(Todo) \cup Held(queue)
<1>2. P \subseteq Message /\ monitor \in Monitor
  BY WorkerStep, HeldAre DEF QueueOK, Watching
<1>3. ASSUME NEW e \in P PROVE e.seq <= sequence'[Config[e.what].connection]
  <2>1. e.seq <= sequence[Config[e.what].connection]
    BY WorkerStep DEF Owed
  <2>2. e.seq \in Nat /\ Config[e.what].connection \in Connection
    BY <1>2, WorkerStep DEF Message
  <2> QED BY <2>1, <2>2
<1>4. ASSUME NEW s \in Stream PROVE monitor.stream[s].seq <= sequence'[Config[s].connection]
  <2>1. monitor.stream[s].seq <= sequence[Config[s].connection]
    BY WorkerStep DEF Owed
  <2>2. monitor.stream[s].seq \in Instant /\ Config[s].connection \in Connection
    BY <1>2, WorkerStep, MonitorHas DEF Watch
  <2> QED BY <2>1, <2>2 DEF Instant, Never
<1>5. Owed(monitor, Todo, queue) /\ Todo' = Todo
  BY WorkerStep
<1>6. Owed(monitor, Todo, queue)'
  BY <1>3, <1>4, <1>5 DEF Owed
<1> QED BY <1>1, <1>6

LEMMA InstantOrder ==
    \A a, b, c \in Instant : a <= b =>
        /\ b <= c => a <= c
        /\ b < c => a < c
        /\ a < b + 1 /\ b + 1 \in Instant
  BY DEF Instant, Never

\* NothingLostUncounted of five values.
Counted(all, past, lost, q, todo) ==
    all = past + lost + Cardinality(Events(q)) + Cardinality(Events(todo))

\* An item is put into the queue: the last of its sender, and the latest.
LEMMA Queued ==
    ASSUME HealthInv, Yielded, Room, clock' = clock, monitor' = monitor, loop' = loop, rest' = rest,
           NEW item \in Message \cup Change, item.time = clock, queue' = Append(queue, item),
           Sender(item) \in Connection, sequence' \in [Connection -> Nat],
           item.seq = sequence'[Sender(item)],
           sequence'[Sender(item)] = sequence[Sender(item)] + 1,
           \A c \in Connection : c # Sender(item) => sequence'[c] = sequence[c],
           heard' \in [Stream -> Instant],
           item.kind = "EVENT" => heard'[item.what] = clock,
           \A s \in Stream : heard'[s] = heard[s] \/ (item.kind = "EVENT" /\ s = item.what)
    PROVE  /\ QueueOK' /\ Owed(monitor, Todo, queue)' /\ \A s \in Stream : heard'[s] <= clock'
<1> USE DEF HealthInv
<1>1. \A c \in Connection : sequence[c] \in Nat /\ sequence'[c] \in Nat /\ sequence[c] <= sequence'[c]
  OBVIOUS
<1>2. /\ ~ done /\ clock \in Nat /\ Todo' = Todo /\ Owed(monitor, Todo, queue)
      /\ Todo \in Seq(Message \cup Change) /\ queue \in Seq(Message \cup Change)
      /\ \A k \in DOMAIN queue : queue[k].seq <= sequence'[Sender(queue[k])]
      /\ \A s \in Stream : Config[s].connection \in Connection
      /\ monitor \in Monitor /\ Len(queue) \in Nat /\ Len(queue) < Capacity
      /\ loop \in {"WAITING", "CANCELING"}
  BY <1>1, WorkerStep DEF QueueOK, Watching, Room
<1>3. \A s \in Stream : heard[s] \in Instant /\ heard[s] <= clock
  OBVIOUS
<1>4. \A s \in Stream : heard[s] <= heard'[s] /\ heard'[s] <= clock
  BY <1>2, <1>3 DEF Instant, Never
<1>5. /\ DOMAIN queue = 1 .. Len(queue) /\ DOMAIN queue' = 1 .. (Len(queue) + 1)
      /\ \A k \in 1 .. Len(queue) : queue'[k] = queue[k]
      /\ queue'[Len(queue) + 1] = item /\ Len(queue') = Len(queue) + 1
      /\ queue' \in Seq(Message \cup Change)
      /\ \A k \in DOMAIN queue' : k \in DOMAIN queue \/ k = Len(queue) + 1
  BY <1>2
<1>6. ASSUME NEW k \in DOMAIN queue PROVE queue[k] # item
  <2>1. queue[k].seq <= sequence[Sender(queue[k])]
    BY DEF QueueOK
  <2>2. sequence[Sender(item)] \in Nat
    BY <1>1
  <2> QED BY <2>1, <2>2
<1>7. QueueOK'
  <2>1. ASSUME NEW k \in DOMAIN queue' PROVE queue'[k].seq <= sequence'[Sender(queue'[k])]
    <3>1. CASE k \in DOMAIN queue
      BY <1>2, <1>5, <3>1
    <3>2. CASE k = Len(queue) + 1
      BY <1>1, <1>5, <3>2
    <3> QED BY <1>5, <3>1, <3>2
  <2>2. ASSUME NEW k \in DOMAIN queue', NEW l \in DOMAIN queue', k # l PROVE queue'[k] # queue'[l]
    <3>1. \A i, j \in DOMAIN queue : i # j => queue[i] # queue[j]
      BY DEF QueueOK
    <3> QED BY <1>5, <1>6, <2>2, <3>1
  <2>3. Len(queue') <= Capacity
    BY <1>2, <1>5, HealthAssumption
  <2>4. rest' \in Seq(Message \cup Change)
        /\ (loop' \in {"WAITING", "CLOSING", "DONE"} => rest' = <<>>)
        /\ (loop' \in {"CLOSING", "DONE"} => queue' = <<>>)
        /\ (loop' = "CANCELING" => rest' # <<>>)
    BY <1>2 DEF QueueOK
  <2> QED BY <1>5, <2>1, <2>2, <2>3, <2>4 DEF QueueOK, Sender
<1> DEFINE P == Held(Todo) \cup Held(queue)
           R == Held(Todo) \cup Held(queue')
<1>8. /\ \A e \in Held(queue') : e \in Held(queue) \/ (e = item /\ item.kind = "EVENT")
      /\ Held(queue) \subseteq Held(queue')
      /\ item.kind = "EVENT" => item \in Held(queue')
  <2>1. \A k \in Events(queue) : k \in Events(queue') /\ queue'[k] = queue[k]
    BY <1>5 DEF Events
  <2>2. \A k \in Events(queue') : \/ k \in Events(queue) /\ queue'[k] = queue[k]
                                  \/ queue'[k] = item /\ item.kind = "EVENT"
    BY <1>5 DEF Events
  <2>3. item.kind = "EVENT" => Len(queue) + 1 \in Events(queue')
    BY <1>2, <1>5 DEF Events
  <2>4. ASSUME NEW e \in Held(queue') PROVE e \in Held(queue) \/ (e = item /\ item.kind = "EVENT")
    <3>1. PICK k \in Events(queue') : e = queue'[k]
      BY DEF Held
    <3> QED BY <2>2, <3>1 DEF Held
  <2>5. Held(queue) \subseteq Held(queue')
    BY <2>1 DEF Held
  <2>6. item.kind = "EVENT" => item \in Held(queue')
    BY <1>5, <2>3 DEF Held
  <2> QED BY <2>4, <2>5, <2>6
<1>9. P \subseteq Message
  BY <1>2, HeldAre
<1>10. \A e \in P : e.what \in Stream /\ e.seq \in Nat /\ e.time \in Nat
  BY <1>9 DEF Message
<1>11. item.kind = "EVENT" => /\ item.what \in Stream /\ item.seq \in Nat
                              /\ Sender(item) = Config[item.what].connection
  BY DEF Message, Change, Sender
<1>12. ASSUME NEW e \in P
       PROVE  /\ monitor.stream[e.what].seq < e.seq /\ monitor.stream[e.what].last <= e.time
              /\ e.time <= heard'[e.what] /\ e.time <= clock
              /\ e.seq <= sequence[Config[e.what].connection]
              /\ e.seq <= sequence'[Config[e.what].connection]
              /\ item.kind = "EVENT" /\ e.what = item.what => e.seq < item.seq
  <2>1. /\ monitor.stream[e.what].seq < e.seq /\ monitor.stream[e.what].last <= e.time
        /\ e.time <= heard[e.what] /\ e.seq <= sequence[Config[e.what].connection]
    BY <1>2 DEF Owed
  <2>2. /\ heard[e.what] \in Instant /\ heard'[e.what] \in Instant /\ e.time \in Nat
        /\ heard[e.what] <= heard'[e.what] /\ heard[e.what] <= clock
    BY <1>3, <1>4, <1>10
  <2>3. e.time <= heard'[e.what] /\ e.time <= clock
    <3> DEFINE a == e.time
               b == heard[e.what]
               d == heard'[e.what]
    <3>1. a \in Instant /\ b \in Instant /\ d \in Instant /\ clock \in Instant
          /\ a <= b /\ b <= d /\ b <= clock
      BY <1>2, <2>1, <2>2, Names
    <3> HIDE DEF a, b, d
    <3>2. a <= d /\ a <= clock
      BY <3>1, InstantOrder
    <3> QED BY <3>2 DEF a, d
  <2>4. Config[e.what].connection \in Connection /\ e.seq \in Nat
    BY <1>2, <1>10
  <2>5. e.seq <= sequence'[Config[e.what].connection]
    BY <1>1, <2>1, <2>4
  <2>6. ASSUME item.kind = "EVENT", e.what = item.what PROVE e.seq < item.seq
    BY <1>1, <1>11, <2>1, <2>4, <2>6
  <2> QED BY <2>1, <2>3, <2>5, <2>6
<1>13. \A s \in Stream : /\ monitor.stream[s].seq \in Instant /\ monitor.stream[s].last \in Instant
                         /\ monitor.stream[s].seq <= sequence[Config[s].connection]
                         /\ monitor.stream[s].last <= heard[s]
                         /\ monitor.stream[s].last = heard[s] \/ \E e \in P : e.what = s /\ e.time = heard[s]
  <2>1. \A s \in Stream : monitor.stream[s] \in Watch
    BY <1>2, MonitorHas
  <2>2. \A s \in Stream : /\ monitor.stream[s].seq <= sequence[Config[s].connection]
                          /\ monitor.stream[s].last <= heard[s]
                          /\ monitor.stream[s].last = heard[s]
                               \/ \E e \in P : e.what = s /\ e.time = heard[s]
    BY <1>2 DEF Owed
  <2> HIDE DEF P
  <2> QED BY <2>1, <2>2 DEF Watch
<1>14. P \subseteq R /\ \A e \in R : e \in P \/ (e = item /\ item.kind = "EVENT")
  BY <1>8
<1>15. item.kind = "EVENT" => item \in R
  BY <1>8
<1>16. \A e, f \in P : e.what = f.what /\ e.seq < f.seq => e.time <= f.time
  BY <1>2 DEF Owed
<1>17. \A e \in Held(Todo), f \in Held(queue) : e.what = f.what => e.seq < f.seq
  BY <1>2 DEF Owed
<1>18. Held(Todo) \subseteq P
  OBVIOUS
<1>19. \A k, l \in Events(Todo) :
          k < l /\ Todo[k].what = Todo[l].what => Todo[k].seq < Todo[l].seq
  BY <1>2 DEF Owed
<1> HIDE DEF P, R
<1>20. ASSUME NEW e \in R
       PROVE  /\ monitor.stream[e.what].seq < e.seq /\ monitor.stream[e.what].last <= e.time
              /\ e.time <= heard'[e.what] /\ e.seq <= sequence'[Config[e.what].connection]
  <2>1. CASE e \in P
    BY <1>12, <2>1
  <2>2. CASE e = item /\ item.kind = "EVENT"
    <3>1. e.what \in Stream /\ e.seq = sequence[Config[e.what].connection] + 1
      BY <1>11, <2>2
    <3>2. sequence[Config[e.what].connection] \in Nat
      BY <1>1, <1>2, <3>1
    <3>3. /\ monitor.stream[e.what].seq <= sequence[Config[e.what].connection]
          /\ monitor.stream[e.what].seq \in Instant /\ monitor.stream[e.what].last \in Instant
          /\ monitor.stream[e.what].last <= heard[e.what]
          /\ heard[e.what] <= clock /\ heard[e.what] \in Instant
      BY <1>3, <1>13, <3>1
    <3>4. monitor.stream[e.what].seq < e.seq
      <4> DEFINE a == monitor.stream[e.what].seq
                 b == sequence[Config[e.what].connection]
      <4>1. a \in Instant /\ b \in Instant /\ a <= b /\ e.seq = b + 1
        BY <3>1, <3>2, <3>3, Names
      <4> HIDE DEF a, b
      <4>2. b <= b
        BY <4>1 DEF Instant, Never
      <4>3. a < b + 1
        BY <4>1, <4>2, InstantOrder
      <4> QED BY <4>1, <4>3 DEF a
    <3>5. monitor.stream[e.what].last <= clock
      <4> DEFINE a == monitor.stream[e.what].last
                 b == heard[e.what]
      <4>1. a \in Instant /\ b \in Instant /\ clock \in Instant /\ a <= b /\ b <= clock
        BY <1>2, <3>3, Names
      <4> HIDE DEF a, b
      <4>2. a <= clock
        BY <4>1, InstantOrder
      <4> QED BY <4>2 DEF a
    <3>6. e.time = clock /\ heard'[e.what] = clock /\ e.seq = sequence'[Config[e.what].connection]
      BY <1>11, <2>2
    <3>7. e.seq \in Nat
      BY <1>1, <1>2, <3>1, <3>6
    <3>8. clock <= clock /\ e.seq <= e.seq
      BY <1>2, <3>7
    <3> QED BY <3>4, <3>5, <3>6, <3>8
  <2> QED BY <1>14, <2>1, <2>2
<1>21. ASSUME NEW e \in R, NEW f \in R, e.what = f.what, e.seq < f.seq PROVE e.time <= f.time
  <2>1. CASE e \in P /\ f \in P
    BY <1>16, <1>21, <2>1
  <2>2. CASE e \in P /\ f = item /\ item.kind = "EVENT"
    BY <1>12, <2>2
  <2>3. CASE f \in P /\ e = item /\ item.kind = "EVENT"
    BY <1>10, <1>11, <1>12, <1>21, <2>3
  <2>4. CASE e = item /\ f = item
    BY <1>2, <2>4
  <2> QED BY <1>14, <2>1, <2>2, <2>3, <2>4
<1>22. \A e \in Held(Todo), f \in Held(queue') : e.what = f.what => e.seq < f.seq
  BY <1>8, <1>12, <1>17, <1>18
<1>23. ASSUME NEW s \in Stream
       PROVE  /\ monitor.stream[s].seq <= sequence'[Config[s].connection]
              /\ monitor.stream[s].last <= heard'[s]
              /\ monitor.stream[s].last = heard'[s] \/ \E e \in R : e.what = s /\ e.time = heard'[s]
  <2> DEFINE c == Config[s].connection
             r == monitor.stream[s]
  <2>1. /\ sequence[c] \in Nat /\ sequence'[c] \in Nat /\ sequence[c] <= sequence'[c]
        /\ r.seq \in Instant /\ r.last \in Instant
        /\ r.seq <= sequence[c] /\ r.last <= heard[s]
        /\ heard[s] \in Instant /\ heard'[s] \in Instant /\ heard[s] <= heard'[s]
    BY <1>1, <1>2, <1>3, <1>4, <1>13
  <2> HIDE DEF c, r
  <2>2. r.seq <= sequence'[c] /\ r.last <= heard'[s]
    BY <2>1, Names, InstantOrder
  <2>3. r.last = heard'[s] \/ \E e \in R : e.what = s /\ e.time = heard'[s]
    <3>1. CASE heard'[s] = heard[s]
      BY <1>13, <1>14, <3>1 DEF r
    <3>2. CASE item.kind = "EVENT" /\ s = item.what
      BY <1>15, <3>2
    <3> QED BY <3>1, <3>2
  <2> QED BY <2>2, <2>3 DEF c, r
<1>24. Owed(monitor, Todo, queue)'
  BY <1>2, <1>19, <1>20, <1>21, <1>22, <1>23 DEF Owed, R
<1> QED BY <1>4, <1>7, <1>24

LEMMA ConnectKeeps == ASSUME HealthInv, NEW c \in Connection, Connect(c) PROVE HealthInv'
<1> USE DEF HealthInv
<1> DEFINE item == Item("CONNECTED", c, sequence'[c])
<1>1. /\ Yielded /\ Room /\ clock' = clock /\ monitor' = monitor /\ heard' = heard
      /\ loop' = loop /\ rest' = rest /\ outage' = outage /\ masked' = masked
      /\ received' = received /\ processed' = processed /\ dropped' = dropped
      /\ link' = [link EXCEPT ![c] = "UP"] /\ sequence' = [sequence EXCEPT ![c] = @ + 1]
      /\ queue' = Append(queue, item)
      /\ downtime' = downtime + (IF breakStart = Never THEN 0 ELSE clock - breakStart)
      /\ breakStart' = Never /\ (reconnected' <=> TRUE)
  BY DEF Connect, intake, outages
<1>2. /\ clock \in Nat /\ breakStart \in Instant /\ breakStart <= clock
      /\ {downtime, outage, masked} \subseteq Nat
  BY HealthAssumption DEF DowntimeOK
<1>3. link' \in [Connection -> {"IDLE", "UP", "DOWN", "FAILED"}] /\ sequence' \in [Connection -> Nat]
  BY <1>1
<1>4. /\ sequence'[c] = sequence[c] + 1 /\ \A d \in Connection : d # c => sequence'[d] = sequence[d]
      /\ \A d \in Connection : sequence[d] <= sequence'[d]
  BY <1>1
<1>5. /\ item \in Message \cup Change /\ item.time = clock /\ item.kind = "CONNECTED"
      /\ Sender(item) = c /\ item.seq = sequence'[c]
  BY <1>2, <1>3 DEF Item, Change, Sender
<1> HIDE DEF item
<1>6. /\ ~ done' /\ Watching(monitor)' /\ Opened(monitor)'
  BY <1>1, <1>3, <1>4, WorkerStep
<1>7. QueueOK' /\ Owed(monitor, Todo, queue)' /\ \A s \in Stream : heard'[s] <= clock'
  BY <1>1, <1>3, <1>4, <1>5, Queued
<1>8. downtime' \in Nat /\ DowntimeOK'
  <2> DEFINE open == IF breakStart = Never THEN 0 ELSE clock - breakStart
  <2>1. downtime + open = outage - masked
    BY DEF DowntimeOK, DowntimeIsReal
  <2>2. open \in Nat
    BY <1>2 DEF Instant, Never
  <2>3. downtime' = downtime + open
    BY <1>1
  <2> HIDE DEF open
  <2>4. downtime' \in Nat /\ downtime' + 0 = outage' - masked'
    BY <1>1, <1>2, <2>1, <2>2, <2>3
  <2>5. DowntimeIsReal'
    BY <1>1, <2>4 DEF DowntimeIsReal
  <2>6. breakStart' \in Instant /\ breakStart' <= clock'
    BY <1>1, <1>2 DEF Instant, Never
  <2> QED BY <1>1, <2>4, <2>5, <2>6 DEF DowntimeOK
<1>9. NothingLostUncounted'
  <2>1. queue \in Seq(Message \cup Change) /\ queue' = Append(queue, item)
    BY <1>1 DEF QueueOK
  <2>2. Cardinality(Events(Append(queue, item))) = Cardinality(Events(queue)) + 0
    BY <1>5, <2>1, EventsAppended
  <2>3. Cardinality(Events(queue)) \in Nat
    BY <2>1, EventsCounted
  <2>4. Cardinality(Events(queue')) = Cardinality(Events(queue))
    BY <2>1, <2>2, <2>3
  <2> QED BY <1>1, <2>4 DEF NothingLostUncounted
<1>10. {downtime, received, processed, dropped, outage, masked}' \subseteq Nat
  BY <1>1, <1>8
<1> QED BY <1>1, <1>3, <1>6, <1>7, <1>8, <1>9, <1>10

LEMMA BreakKeeps == ASSUME HealthInv, NEW c \in Connection, Break(c) PROVE HealthInv'
<1> USE DEF HealthInv
<1> DEFINE item == Item("DISCONNECTED", c, sequence'[c])
           state == IF attempt'[c] > MaxReconnects THEN "FAILED" ELSE "DOWN"
<1>1. /\ Yielded /\ Room /\ clock' = clock /\ monitor' = monitor /\ heard' = heard
      /\ loop' = loop /\ rest' = rest /\ outage' = outage /\ masked' = masked
      /\ received' = received /\ processed' = processed /\ dropped' = dropped
      /\ link' = [link EXCEPT ![c] = state] /\ sequence' = [sequence EXCEPT ![c] = @ + 1]
      /\ queue' = Append(queue, item) /\ downtime' = downtime
      /\ breakStart' = IF breakStart = Never THEN clock ELSE breakStart
      /\ ~ reconnected'
  BY DEF Break, intake, outages
<1>2. /\ clock \in Nat /\ breakStart \in Instant /\ breakStart <= clock
      /\ {downtime, outage, masked} \subseteq Nat
  BY HealthAssumption DEF DowntimeOK
<1>3. state \in {"DOWN", "FAILED"}
  OBVIOUS
<1> HIDE DEF state
<1>4. /\ link' \in [Connection -> {"IDLE", "UP", "DOWN", "FAILED"}] /\ link'[c] = state
      /\ sequence' \in [Connection -> Nat]
  BY <1>1, <1>3
<1>5. /\ sequence'[c] = sequence[c] + 1 /\ \A d \in Connection : d # c => sequence'[d] = sequence[d]
      /\ \A d \in Connection : sequence[d] <= sequence'[d]
  BY <1>1
<1>6. /\ item \in Message \cup Change /\ item.time = clock /\ item.kind = "DISCONNECTED"
      /\ Sender(item) = c /\ item.seq = sequence'[c]
  BY <1>2, <1>4 DEF Item, Change, Sender
<1> HIDE DEF item
<1>7. /\ ~ done' /\ Watching(monitor)' /\ Opened(monitor)'
  BY <1>1, <1>4, <1>5, WorkerStep
<1>8. QueueOK' /\ Owed(monitor, Todo, queue)' /\ \A s \in Stream : heard'[s] <= clock'
  BY <1>1, <1>4, <1>5, <1>6, Queued
<1>9. DowntimeOK'
  <2> DEFINE open == IF breakStart = Never THEN 0 ELSE clock - breakStart
  <2>1. breakStart' \in Nat /\ breakStart' <= clock' /\ clock' - breakStart' = open
    BY <1>1, <1>2 DEF Instant, Never
  <2>2. downtime + open = outage - masked
    BY DEF DowntimeOK, DowntimeIsReal
  <2> HIDE DEF open
  <2>3. downtime' + (clock' - breakStart') = outage' - masked'
    BY <1>1, <2>1, <2>2
  <2>4. Broken'
    BY <1>3, <1>4 DEF Broken
  <2>5. breakStart' # Never /\ breakStart' \in Instant
    BY <2>1 DEF Instant, Never
  <2>6. DowntimeIsReal'
    BY <2>3, <2>5 DEF DowntimeIsReal
  <2> QED BY <1>1, <2>1, <2>4, <2>5, <2>6 DEF DowntimeOK
<1>10. NothingLostUncounted'
  <2>1. queue \in Seq(Message \cup Change) /\ queue' = Append(queue, item)
    BY <1>1 DEF QueueOK
  <2>2. Cardinality(Events(Append(queue, item))) = Cardinality(Events(queue)) + 0
    BY <1>6, <2>1, EventsAppended
  <2>3. Cardinality(Events(queue)) \in Nat
    BY <2>1, EventsCounted
  <2>4. Cardinality(Events(queue')) = Cardinality(Events(queue))
    BY <2>1, <2>2, <2>3
  <2> QED BY <1>1, <2>4 DEF NothingLostUncounted
<1> QED BY <1>1, <1>4, <1>7, <1>8, <1>9, <1>10

LEMMA ReceiveKeeps == ASSUME HealthInv, NEW s \in Stream, Receive(s) PROVE HealthInv'
<1> USE DEF HealthInv
<1> DEFINE c    == Config[s].connection
           item == Item("EVENT", s, sequence'[c])
<1>1. /\ Yielded /\ clock' = clock /\ monitor' = monitor /\ link' = link
      /\ loop' = loop /\ rest' = rest /\ outage' = outage /\ masked' = masked
      /\ received' = received + 1 /\ processed' = processed
      /\ sequence' = [sequence EXCEPT ![c] = @ + 1]
      /\ downtime' = downtime /\ breakStart' = breakStart /\ reconnected' = reconnected
      /\ \/ /\ Room /\ queue' = Append(queue, item) /\ heard' = [heard EXCEPT ![s] = clock]
            /\ dropped' = dropped
         \/ ~ Room /\ dropped' = dropped + 1 /\ queue' = queue /\ heard' = heard
  BY DEF Receive, supervisor, outages
<1>2. /\ clock \in Nat /\ c \in Connection
      /\ {received, processed, dropped, downtime, outage, masked} \subseteq Nat
  BY HealthAssumption DEF Connection
<1> HIDE DEF c
<1>3. /\ sequence' \in [Connection -> Nat] /\ sequence'[c] \in Nat
      /\ sequence'[c] = sequence[c] + 1 /\ \A d \in Connection : d # c => sequence'[d] = sequence[d]
      /\ \A d \in Connection : sequence[d] <= sequence'[d]
  BY <1>1, <1>2
<1>4. /\ item \in Message \cup Change /\ item.time = clock /\ item.kind = "EVENT" /\ item.what = s
      /\ Sender(item) = c /\ item.seq = sequence'[c]
  BY <1>2, <1>3 DEF Item, Message, Sender, c
<1> HIDE DEF item
<1>5. DowntimeOK'
  BY <1>1 DEF DowntimeOK, DowntimeIsReal, Broken
<1>6. ~ done' /\ Watching(monitor)' /\ Opened(monitor)'
  BY <1>1, <1>3, WorkerStep
<1>7. queue \in Seq(Message \cup Change) /\ Cardinality(Events(queue)) \in Nat
      /\ rest \in Seq(Message \cup Change) /\ Cardinality(Events(rest)) \in Nat
  BY EventsCounted DEF QueueOK
<1>8. CASE Room /\ queue' = Append(queue, item) /\ heard' = [heard EXCEPT ![s] = clock] /\ dropped' = dropped
  <2>1. /\ heard' \in [Stream -> Instant] /\ heard'[s] = clock
        /\ \A q \in Stream : heard'[q] = heard[q] \/ q = s
    BY <1>2, <1>8 DEF Instant
  <2>2. QueueOK' /\ Owed(monitor, Todo, queue)' /\ \A q \in Stream : heard'[q] <= clock'
    BY <1>1, <1>2, <1>3, <1>4, <1>8, <2>1, Queued
  <2>3. NothingLostUncounted'
    <3>1. Cardinality(Events(queue')) = Cardinality(Events(queue)) + 1
      BY <1>4, <1>7, <1>8, EventsAppended
    <3>2. Counted(received, processed, dropped, queue, rest)
      BY DEF NothingLostUncounted, Counted
    <3> HIDE DEF HealthInv
    <3>3. Counted(received', processed', dropped', queue', rest')
      BY <1>1, <1>2, <1>7, <1>8, <3>1, <3>2 DEF Counted
    <3> QED BY <3>3 DEF NothingLostUncounted, Counted
  <2>4. {downtime, received, processed, dropped, outage, masked}' \subseteq Nat
    BY <1>1, <1>2, <1>8
  <2> QED BY <1>1, <1>3, <1>5, <1>6, <2>1, <2>2, <2>3, <2>4
<1>9. CASE dropped' = dropped + 1 /\ queue' = queue /\ heard' = heard
  <2>1. NothingLostUncounted'
    <3>1. Counted(received, processed, dropped, queue, rest)
      BY DEF NothingLostUncounted, Counted
    <3> HIDE DEF HealthInv
    <3>2. Counted(received + 1, processed, dropped + 1, queue, rest)
      BY <1>2, <1>7, <3>1 DEF Counted
    <3>3. received' = received + 1 /\ processed' = processed /\ dropped' = dropped + 1
          /\ queue' = queue /\ rest' = rest
      BY <1>1, <1>9
    <3>4. Counted(received', processed', dropped', queue', rest')
      BY <3>2, <3>3
    <3> QED BY <3>4 DEF NothingLostUncounted, Counted
  <2>2. QueueOK' /\ Owed(monitor, Todo, queue)'
    BY <1>1, <1>3, <1>9, OwedDropped
  <2>3. {downtime, received, processed, dropped, outage, masked}' \subseteq Nat
    BY <1>1, <1>2, <1>9
  <2> QED BY <1>1, <1>3, <1>5, <1>6, <1>9, <2>1, <2>2, <2>3
<1> QED BY <1>1, <1>8, <1>9

\* The merge loop goes on, or a heartbeat is seen: what the workers keep is as it was.
LEMMA MergeStep ==
    ASSUME HealthInv, UNCHANGED <<clock, link, sequence, breakStart, downtime, reconnected,
                                  received, dropped, heard, outage, masked>>,
           loop' \in Places, processed' \in Nat, QueueOK', NothingLostUncounted',
           IF done' THEN Judged(monitor')
                    ELSE Watching(monitor') /\ Opened(monitor') /\ Owed(monitor', Todo', queue')
    PROVE  HealthInv'
<1>1. DowntimeOK'
  BY DEF HealthInv, DowntimeOK, DowntimeIsReal, Broken
<1>2. CASE done'
  <2>1. Judged(monitor)'
    BY <1>2 DEF Judged, HasActive, RightlyEnded
  <2> QED BY <1>1, <1>2, <2>1 DEF HealthInv
<1>3. CASE ~ done'
  <2>1. Watching(monitor)' /\ Opened(monitor)'
    BY <1>3 DEF Watching, Opened, StreamOK, IncidentOK, HasActive, Silence, RightlyEnded
  <2>2. Owed(monitor, Todo, queue)'
    BY <1>3 DEF Owed
  <2> QED BY <1>1, <1>3, <2>1, <2>2 DEF HealthInv
<1> QED BY <1>2, <1>3

\* What the steps of a running loop begin with.
LEMMA Running ==
    ASSUME HealthInv, loop # "DONE"
    PROVE  /\ ~ done /\ clock \in Nat /\ Watching(monitor) /\ Opened(monitor)
           /\ Owed(monitor, Todo, queue) /\ monitor \in Monitor
           /\ queue \in Seq(Message \cup Change) /\ rest \in Seq(Message \cup Change)
           /\ \A k \in DOMAIN queue : queue[k].seq <= sequence[Sender(queue[k])]
           /\ \A k, l \in DOMAIN queue : k # l => queue[k] # queue[l]
           /\ Len(queue) <= Capacity
           /\ sequence \in [Connection -> Nat] /\ heard \in [Stream -> Instant]
           /\ {received, processed, dropped} \subseteq Nat
           /\ Counted(received, processed, dropped, queue, rest)
           /\ Cardinality(Events(queue)) \in Nat /\ Cardinality(Events(rest)) \in Nat
<1>1. queue \in Seq(Message \cup Change) /\ rest \in Seq(Message \cup Change)
  BY DEF HealthInv, QueueOK
<1>2. Cardinality(Events(queue)) \in Nat /\ Cardinality(Events(rest)) \in Nat
  BY <1>1, EventsCounted
<1>3. ~ done
  BY DEF done
<1>4. Watching(monitor) /\ Opened(monitor) /\ Owed(monitor, Todo, queue) /\ clock \in Nat
  BY <1>3, HealthAssumption DEF HealthInv
<1>5. monitor \in Monitor
  BY <1>4 DEF Watching
<1>6. /\ \A k \in DOMAIN queue : queue[k].seq <= sequence[Sender(queue[k])]
      /\ \A k, l \in DOMAIN queue : k # l => queue[k] # queue[l]
      /\ Len(queue) <= Capacity
  BY DEF HealthInv, QueueOK
<1>7. /\ sequence \in [Connection -> Nat] /\ heard \in [Stream -> Instant]
      /\ {received, processed, dropped} \subseteq Nat
  BY DEF HealthInv
<1>8. Counted(received, processed, dropped, queue, rest)
  BY DEF HealthInv, NothingLostUncounted, Counted
<1> QED BY <1>1, <1>2, <1>3, <1>4, <1>5, <1>6, <1>7, <1>8

LEMMA BeatKeeps == ASSUME HealthInv, NEW c \in Connection, Heartbeat(c) PROVE HealthInv'
<1>1. /\ loop \in {"WAITING", "CANCELING"} /\ monitor' = HeartbeatOn(monitor, c)
      /\ UNCHANGED <<clock, link, sequence, breakStart, downtime, reconnected,
                     received, dropped, heard, outage, masked>>
      /\ UNCHANGED <<loop, rest, queue, processed>>
  BY DEF Heartbeat, Yielded, workers, supervisor, intake, outages
<1>2. Watching(monitor') /\ Opened(monitor') /\ Unaware(monitor, monitor')
  BY <1>1, Running, HeartbeatKeeps
<1>3. Todo' = Todo /\ Todo \in Seq(Message \cup Change)
  <2>1. CASE loop = "CANCELING"
    BY <1>1, <2>1, Running, TailIs DEF Todo, HealthInv, QueueOK
  <2>2. CASE loop # "CANCELING"
    BY <1>1, <2>2, Running DEF Todo
  <2> QED BY <2>1, <2>2
<1>4. Owed(monitor', Todo, queue)
  <2>1. monitor' \in Monitor
    BY <1>2 DEF Watching
  <2> QED BY <1>1, <1>2, <1>3, <2>1, Running, OwedStays
<1>5. QueueOK' /\ NothingLostUncounted'
  BY <1>1 DEF HealthInv, QueueOK, Sender, NothingLostUncounted
<1>6. loop' \in Places /\ processed' \in Nat /\ ~ done'
  BY <1>1, Running DEF Places, done
<1> QED BY <1>1, <1>2, <1>3, <1>4, <1>5, <1>6, MergeStep

LEMMA TakeKeeps == ASSUME HealthInv, Take PROVE HealthInv'
<1>1. /\ loop = "WAITING" /\ rest' \in MergeOrders(queue) /\ queue' = <<>> /\ loop' = "HANDLING"
      /\ UNCHANGED <<clock, link, sequence, breakStart, downtime, reconnected,
                     received, dropped, heard, outage, masked>>
      /\ UNCHANGED <<monitor, processed>>
  BY DEF Take, workers, supervisor, intake, outages
<1>2. rest = <<>> /\ Todo = <<>> /\ Todo' = rest'
  BY <1>1 DEF HealthInv, QueueOK, Todo
<1>3. /\ rest' \in Seq(Message \cup Change) /\ Held(rest') = Held(queue)
      /\ Cardinality(Events(rest')) = Cardinality(Events(queue))
      /\ \A k, l \in Events(rest') :
            k < l /\ rest'[k].what = rest'[l].what => rest'[k].seq < rest'[l].seq
  BY <1>1, Running, MergeOrdersAre
<1>4. Watching(monitor') /\ Opened(monitor')
  BY <1>1, Running
<1>5. Owed(monitor', Todo', queue')
  <2>1. Owed(monitor, <<>>, queue)
    BY <1>1, <1>2, Running
  <2>2. Held(<<>>) = {}
    BY NothingHeld
  <2>3. Owed(monitor, rest', <<>>)
    BY <1>3, <2>1, <2>2 DEF Owed
  <2> QED BY <1>1, <1>2, <2>3
<1>6. QueueOK'
  BY <1>1, <1>3, HealthAssumption DEF QueueOK
<1>7. NothingLostUncounted'
  <2>1. Counted(received, processed, dropped, queue, <<>>)
    BY <1>1, <1>2, Running
  <2>2. Cardinality(Events(<<>>)) = 0
    BY NothingWaits
  <2>3. Cardinality(Events(queue)) \in Nat /\ {received, processed, dropped} \subseteq Nat
    BY <1>1, Running
  <2>4. Counted(received, processed, dropped, <<>>, rest')
    BY <1>3, <2>1, <2>2, <2>3 DEF Counted
  <2> QED BY <1>1, <2>4 DEF NothingLostUncounted, Counted
<1>8. loop' \in Places /\ processed' \in Nat /\ ~ done'
  BY <1>1, Running DEF Places, done
<1> QED BY <1>1, <1>4, <1>5, <1>6, <1>7, <1>8, MergeStep

LEMMA TimedOutKeeps == ASSUME HealthInv, TimedOut PROVE HealthInv'
<1>1. /\ loop = "WAITING" /\ loop' = "HANDLING"
      /\ UNCHANGED <<clock, link, sequence, breakStart, downtime, reconnected,
                     received, dropped, heard, outage, masked>>
      /\ UNCHANGED <<monitor, rest, queue, processed>>
  BY DEF TimedOut, workers, supervisor, intake, outages
<1>2. Todo' = Todo
  BY <1>1 DEF Todo
<1>3. Watching(monitor') /\ Opened(monitor') /\ Owed(monitor', Todo', queue')
  BY <1>1, <1>2, Running
<1>4. QueueOK' /\ NothingLostUncounted'
  BY <1>1 DEF HealthInv, QueueOK, Sender, NothingLostUncounted
<1>5. loop' \in Places /\ processed' \in Nat /\ ~ done'
  BY <1>1, Running DEF Places, done
<1> QED BY <1>1, <1>3, <1>4, <1>5, MergeStep

\* The item that was handled leaves the batch, and a message is counted.
LEMMA WrittenCounts ==
    ASSUME HealthInv, loop # "DONE", rest # <<>>, Written,
           received' = received, dropped' = dropped, queue' = queue
    PROVE  rest' = Tail(rest) /\ rest' \in Seq(Message \cup Change)
           /\ processed' \in Nat /\ NothingLostUncounted'
<1> DEFINE one == IF Head(rest).kind = "EVENT" THEN 1 ELSE 0
<1>1. rest' = Tail(rest) /\ processed' = processed + one /\ one \in Nat
  BY DEF Written
<1>2. /\ Cardinality(Events(rest)) = Cardinality(Events(Tail(rest))) + one
      /\ Tail(rest) \in Seq(Message \cup Change)
  BY Running, EventsOfTail, TailIs
<1>3. Cardinality(Events(Tail(rest))) \in Nat /\ Cardinality(Events(queue)) \in Nat
  BY <1>2, Running, EventsCounted
<1>4. {received, processed, dropped} \subseteq Nat /\ Counted(received, processed, dropped, queue, rest)
  BY Running
<1> HIDE DEF one
<1>5. Counted(received, processed', dropped, queue, Tail(rest))
  BY <1>1, <1>2, <1>3, <1>4 DEF Counted
<1>6. processed' \in Nat
  BY <1>1, <1>4
<1>7. NothingLostUncounted'
  BY <1>1, <1>5 DEF NothingLostUncounted, Counted
<1> QED BY <1>1, <1>2, <1>6, <1>7

LEMMA HandleKeeps == ASSUME HealthInv, Handle PROVE HealthInv'
<1>1. /\ loop = "HANDLING" /\ rest # <<>> /\ monitor' = Handled(monitor, Head(rest))
      /\ \/ Written /\ loop' = loop
         \/ loop' = "CANCELING" /\ rest' = rest /\ processed' = processed
      /\ UNCHANGED <<clock, link, sequence, breakStart, downtime, reconnected,
                     received, dropped, heard, outage, masked>>
      /\ queue' = queue
  BY DEF Handle, workers, supervisor, intake, outages
<1>2. Todo = rest
  BY <1>1 DEF Todo
<1>3. Watching(monitor') /\ Opened(monitor') /\ Owed(monitor', Tail(rest), queue)
  BY <1>1, <1>2, Running, HandledKeeps
<1>4. CASE Written /\ loop' = loop
  <2>1. rest' = Tail(rest) /\ rest' \in Seq(Message \cup Change)
        /\ processed' \in Nat /\ NothingLostUncounted'
    BY <1>1, <1>4, WrittenCounts
  <2>2. Todo' = Tail(rest)
    BY <1>1, <1>4, <2>1 DEF Todo
  <2>3. QueueOK'
    BY <1>1, <1>4, <2>1 DEF HealthInv, QueueOK, Sender
  <2>4. loop' \in Places /\ ~ done'
    BY <1>1, <1>4 DEF Places, done
  <2> QED BY <1>1, <1>3, <2>1, <2>2, <2>3, <2>4, MergeStep
<1>5. CASE loop' = "CANCELING" /\ rest' = rest /\ processed' = processed
  <2>1. Todo' = Tail(rest)
    BY <1>5 DEF Todo
  <2>2. QueueOK' /\ NothingLostUncounted'
    BY <1>1, <1>5 DEF HealthInv, QueueOK, Sender, NothingLostUncounted
  <2>3. loop' \in Places /\ ~ done' /\ processed' \in Nat
    BY <1>1, <1>5, Running DEF Places, done
  <2> QED BY <1>1, <1>3, <2>1, <2>2, <2>3, MergeStep
<1> QED BY <1>1, <1>4, <1>5

LEMMA CanceledKeeps == ASSUME HealthInv, Canceled PROVE HealthInv'
<1>1. /\ loop = "CANCELING" /\ loop' = "HANDLING" /\ Written
      /\ UNCHANGED <<clock, link, sequence, breakStart, downtime, reconnected,
                     received, dropped, heard, outage, masked>>
      /\ UNCHANGED <<monitor, queue>>
  BY DEF Canceled, workers, supervisor, intake, outages
<1>2. rest # <<>>
  BY <1>1 DEF HealthInv, QueueOK
<1>3. rest' = Tail(rest) /\ rest' \in Seq(Message \cup Change)
      /\ processed' \in Nat /\ NothingLostUncounted'
  BY <1>1, <1>2, WrittenCounts
<1>4. Todo' = Todo
  BY <1>1, <1>3 DEF Todo
<1>5. Watching(monitor') /\ Opened(monitor') /\ Owed(monitor', Todo', queue')
  BY <1>1, <1>4, Running
<1>6. QueueOK'
  BY <1>1, <1>3 DEF HealthInv, QueueOK, Sender
<1>7. loop' \in Places /\ ~ done'
  BY <1>1 DEF Places, done
<1> QED BY <1>1, <1>3, <1>5, <1>6, <1>7, MergeStep

LEMMA EvaluateKeeps == ASSUME HealthInv, Evaluate PROVE HealthInv'
<1>1. /\ loop = "HANDLING" /\ rest = <<>> /\ loop' = "WAITING"
      /\ monitor' = Evaluated(monitor, clock)
      /\ UNCHANGED <<clock, link, sequence, breakStart, downtime, reconnected,
                     received, dropped, heard, outage, masked>>
      /\ UNCHANGED <<rest, queue, processed>>
  BY DEF Evaluate, workers, supervisor, intake, outages
<1>2. Todo = <<>> /\ Todo' = <<>>
  BY <1>1 DEF Todo
<1>3. Watching(monitor') /\ Opened(monitor') /\ Unaware(monitor, monitor')
  BY <1>1, Running, EvaluatedKeeps
<1>4. Owed(monitor', <<>>, queue)
  <2>1. monitor' \in Monitor /\ <<>> \in Seq(Message \cup Change)
    BY <1>3 DEF Watching
  <2> QED BY <1>1, <1>2, <1>3, <2>1, Running, OwedStays
<1>5. QueueOK' /\ NothingLostUncounted'
  BY <1>1 DEF HealthInv, QueueOK, Sender, NothingLostUncounted
<1>6. loop' \in Places /\ processed' \in Nat /\ ~ done'
  BY <1>1, Running DEF Places, done
<1> QED BY <1>1, <1>2, <1>3, <1>4, <1>5, <1>6, MergeStep

LEMMA CloseKeeps == ASSUME HealthInv, Close PROVE HealthInv'
<1>1. /\ loop = "HANDLING" /\ rest = <<>> /\ queue = <<>> /\ loop' = "CLOSING"
      /\ UNCHANGED <<clock, link, sequence, breakStart, downtime, reconnected,
                     received, dropped, heard, outage, masked>>
      /\ UNCHANGED <<monitor, rest, queue, processed>>
  BY DEF Close, GoesOn, workers, supervisor, intake, outages
<1>2. Todo' = Todo
  BY <1>1 DEF Todo
<1>3. Watching(monitor') /\ Opened(monitor') /\ Owed(monitor', Todo', queue')
  BY <1>1, <1>2, Running
<1>4. QueueOK' /\ NothingLostUncounted'
  BY <1>1 DEF HealthInv, QueueOK, Sender, NothingLostUncounted
<1>5. loop' \in Places /\ processed' \in Nat /\ ~ done'
  BY <1>1, Running DEF Places, done
<1> QED BY <1>1, <1>3, <1>4, <1>5, MergeStep

\* At the end nothing is owed: the last evaluation sees what every stream delivered.
LEMMA FinishCaptureKeeps == ASSUME HealthInv, FinishCapture PROVE HealthInv'
<1>1. /\ loop = "CLOSING" /\ loop' = "DONE"
      /\ monitor' = Finalized(Evaluated(monitor, clock), clock)
      /\ UNCHANGED <<clock, link, sequence, breakStart, downtime, reconnected,
                     received, dropped, heard, outage, masked>>
      /\ UNCHANGED <<rest, queue, processed>>
  BY DEF FinishCapture, workers, supervisor, intake, outages
<1>2. rest = <<>> /\ queue = <<>> /\ Todo = <<>>
  BY <1>1 DEF HealthInv, QueueOK, Todo
<1>3. \A s \in Stream : monitor.stream[s].last = heard[s]
  <2>1. Owed(monitor, <<>>, <<>>)
    BY <1>1, <1>2, Running
  <2>2. Held(<<>>) \cup Held(<<>>) = {}
    BY NothingHeld
  <2> QED BY <2>1, <2>2 DEF Owed
<1> DEFINE w == Evaluated(monitor, clock)
<1>4. Watching(w) /\ Opened(w) /\ Unaware(monitor, w) /\ Recent(w)
  BY <1>1, Running, EvaluatedKeeps
<1> HIDE DEF w
<1>5. \A s \in Stream : w.stream[s].last = heard[s]
  BY <1>3, <1>4 DEF Unaware
<1>6. Judged(Finalized(w, clock))
  BY <1>1, <1>4, <1>5, Running, FinalizedJudges
<1>7. Judged(monitor') /\ done'
  BY <1>1, <1>6 DEF w, done
<1>8. QueueOK' /\ NothingLostUncounted'
  BY <1>1, <1>2 DEF HealthInv, QueueOK, Sender, NothingLostUncounted
<1>9. loop' \in Places /\ processed' \in Nat
  BY <1>1, Running DEF Places
<1> QED BY <1>1, <1>7, <1>8, <1>9, MergeStep

LEMMA HealthStep == ASSUME HealthInv, [HealthNext]_healthVars PROVE HealthInv'
<1>1. CASE Tick
  BY <1>1, TickKeeps
<1>2. CASE \E c \in Connection : Connect(c) \/ Break(c) \/ Heartbeat(c)
  BY <1>2, ConnectKeeps, BreakKeeps, BeatKeeps
<1>3. CASE \E s \in Stream : Receive(s)
  BY <1>3, ReceiveKeeps
<1>4. CASE Take \/ TimedOut \/ Handle \/ Canceled \/ Evaluate \/ Close \/ FinishCapture
  BY <1>4, TakeKeeps, TimedOutKeeps, HandleKeeps, CanceledKeeps, EvaluateKeeps, CloseKeeps,
     FinishCaptureKeeps
<1>5. CASE UNCHANGED healthVars
  <2>1. UNCHANGED <<clock, link, sequence, breakStart, downtime, reconnected,
                    received, dropped, heard, outage, masked>>
        /\ UNCHANGED <<loop, rest, monitor, queue, processed>>
    BY <1>5 DEF healthVars, merge, workers, supervisor, intake, outages
  <2>2. QueueOK' /\ NothingLostUncounted'
    BY <2>1 DEF HealthInv, QueueOK, Sender, NothingLostUncounted
  <2>3. Todo' = Todo /\ (done' <=> done)
    BY <2>1 DEF Todo, done
  <2>4. IF done' THEN Judged(monitor')
                 ELSE Watching(monitor') /\ Opened(monitor') /\ Owed(monitor', Todo', queue')
    BY <2>1, <2>3 DEF HealthInv
  <2>5. loop' \in Places /\ processed' \in Nat
    BY <2>1 DEF HealthInv
  <2> QED BY <2>1, <2>2, <2>4, <2>5, MergeStep
<1> QED BY <1>1, <1>2, <1>3, <1>4, <1>5 DEF HealthNext

LEMMA HealthKept == HealthSpec => []HealthInv
<1> QED BY HealthInitially, HealthStep, PTL DEF HealthSpec

\* Every incident is accounted for, through restarts and new silences: none is forgotten
\* while the capture runs, and each has its verdict at the end (StreamLivenessMonitor).
THEOREM IncidentsStayAccounted == HealthSpec => []IncidentsAccounted
<1>1. HealthInv => IncidentsAccounted
  <2> SUFFICES ASSUME HealthInv PROVE IncidentsAccounted
    OBVIOUS
  <2> USE DEF HealthInv
  <2>1. monitor \in Monitor
    BY DEF Judged, Watching
  <2>2. /\ monitor.stream \in [Stream -> Watch]
        /\ monitor.incident \in [DOMAIN monitor.incident -> Incident]
        /\ DOMAIN monitor.incident \subseteq Stream \X Nat
    BY <2>1, MonitorHas
  <2>3. HealthTypeOK
    <3>1. ASSUME NEW s \in Stream
          PROVE  LET r == monitor.stream[s]
                 IN  /\ r.state \in StreamState /\ {r.since, r.last, r.seq} \subseteq Nat \cup {Never}
                     /\ HasActive(monitor, s) => r.active \in DOMAIN monitor.incident
      <4>1. HasActive(monitor, s) => monitor.stream[s].active \in DOMAIN monitor.incident
        BY DEF Judged, Watching, StreamOK
      <4>2. monitor.stream[s] \in Watch
        BY <2>2
      <4> QED BY <4>1, <4>2 DEF Watch, Instant
    <3>2. \A i \in DOMAIN monitor.incident : monitor.incident[i].state \in IncidentState
      BY <2>2 DEF Incident
    <3> QED BY <3>1, <3>2 DEF HealthTypeOK, QueueOK, Places
  <2>4. NoForgottenIncident
    BY <2>2 DEF NoForgottenIncident, Judged, Watching, IncidentOK
  <2>5. StateMatchesIncident
    BY DEF StateMatchesIncident, Watching, StreamOK
  <2>6. EveryIncidentJudged
    BY DEF EveryIncidentJudged, Judged
  <2> QED BY <2>3, <2>4, <2>5, <2>6 DEF IncidentsAccounted
<1> QED BY <1>1, HealthKept, PTL

\* The verdicts follow what the streams delivered although the loop is late: an incident
\* that an evaluation after an await invents is recovered and never held against the session,
\* one held against it is a silence that lasted to the end, and a stream LIVE at the end
\* delivered within its limit.
THEOREM VerdictsStayTrue == HealthSpec => []VerdictsAreTrue
<1>1. HealthInv => VerdictsAreTrue
  <2> SUFFICES ASSUME HealthInv PROVE VerdictsAreTrue
    OBVIOUS
  <2>1. SilenceIsReal
    BY DEF HealthInv, SilenceIsReal, Judged, Watching, IncidentOK, RightlyEnded
  <2>2. BlameIsReal
    BY DEF HealthInv, BlameIsReal, Judged
  <2>3. LiveIsRecent
    BY DEF HealthInv, LiveIsRecent, Judged
  <2> QED BY <2>1, <2>2, <2>3 DEF VerdictsAreTrue
<1> QED BY <1>1, HealthKept, PTL

\* The summary of the capture adds up: connections that share one start of downtime report
\* the time in which one was broken and none had come up since the last break, no more and
\* no less, and every message was processed, waits, or was dropped.
THEOREM CountersStayRight == HealthSpec => []CountersAddUp
<1>1. HealthInv => CountersAddUp
  BY DEF HealthInv, DowntimeOK, CountersAddUp
<1> QED BY <1>1, HealthKept, PTL
=============================================================================
