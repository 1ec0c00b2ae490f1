---------------------------- MODULE CaptureHealth ----------------------------
(***************************************************************************)
(* What the routed capture of microstructure/live.py believes about its    *)
(* connections: one worker per connection, the bounded queue, and the      *)
(* merge loop with its three observers, the LivenessMonitor, the           *)
(* ConnectionSupervisor (connection.py) and the RecorderRuntimeMonitor     *)
(* (runtime_health.py).  The book and the writer are left out.             *)
(*                                                                         *)
(* The loop gives way only where it awaits: for the queue, for the end of  *)
(* a canceled snapshot task in the middle of a batch, and once more when   *)
(* it is over.  There time passes and the workers go on; in between it     *)
(* handles items one by one, and evaluates the streams.                    *)
(***************************************************************************)
EXTENDS LivenessMonitor, SequencesExt

CONSTANTS
    Capacity,       \* queue_capacity
    MaxReconnects,  \* maximum_reconnects
    Depth,          \* the streams whose messages may invalidate the book
    Deadline,       \* when the capture ends
    MaxTime,        \* bound: the clock
    MaxMessages,    \* bound: messages received
    MaxBreaks       \* bound: broken connections

ASSUME HealthAssumption ==
    /\ Capacity \in Nat \ {0}
    /\ Depth \subseteq Stream
    /\ {MaxReconnects, Deadline, MaxTime, MaxMessages, MaxBreaks} \subseteq Nat

VARIABLES
    clock,
    loop,           \* where the merge loop is
    rest,           \* what of its batch is still to be handled
    monitor,
    link,           \* per connection: "IDLE" before its first attempt ended
    attempt,        \* of _route_worker
    sequence,       \* of _route_worker
    queue,
    breakStart,     \* _disconnect_started_ns, one for all connections
    downtime,       \* downtime_ms
    received, processed, dropped,
    breaks,
    outage,         \* history: time with some connection broken
    reconnected,    \* history: no connection broke since the last one came up
    masked,         \* history: time with some connection broken but `reconnected`
    heard           \* history: when each stream last delivered into the queue

merge    == <<loop, rest, monitor, queue, processed>>
workers  == <<link, attempt, sequence, breaks>>
supervisor == <<breakStart, downtime, reconnected>>
intake   == <<received, dropped, heard>>
outages  == <<outage, masked>>
healthVars == <<clock, merge, workers, supervisor, intake, outages>>

Item(kind, what, n) == [kind |-> kind, what |-> what, seq |-> n, time |-> clock]

HealthInit ==
    /\ clock = 0 /\ loop = "WAITING" /\ rest = <<>>
    /\ monitor = NewMonitor
    /\ link = [c \in Connection |-> "IDLE"]
    /\ attempt = [c \in Connection |-> 0]
    /\ sequence = [c \in Connection |-> 0]
    /\ queue = <<>>
    /\ breakStart = Never /\ downtime = 0 /\ reconnected = TRUE
    /\ received = 0 /\ processed = 0 /\ dropped = 0 /\ breaks = 0
    /\ outage = 0 /\ masked = 0 /\ heard = [s \in Stream |-> Never]

\* The loop awaits and the workers live: cancel() ends them before it awaits their end.
Yielded == loop \in {"WAITING", "CANCELING"}

Broken == \E c \in Connection : link[c] \in {"DOWN", "FAILED"}

\* Time passes at the awaits; what the handling of a batch takes is counted at the next.
Tick ==
    /\ clock < MaxTime /\ loop \in {"WAITING", "CANCELING", "CLOSING"}
    /\ clock' = clock + 1
    /\ outage' = outage + IF Broken THEN 1 ELSE 0
    /\ masked' = masked + IF Broken /\ reconnected THEN 1 ELSE 0
    /\ UNCHANGED <<merge, workers, supervisor, intake>>

\* _capture_active; a stop request is a deadline that comes early.
active == clock < Deadline

-----------------------------------------------------------------------------
(* _route_worker: its state items wait for room in the queue, its messages *)
(* are dropped when there is none.                                         *)

Room == Len(queue) < Capacity

\* Mutant of Connect: the start of the downtime is kept.
ConnectKeeping(c) ==
    /\ Yielded /\ Room /\ link[c] \in {"IDLE", "DOWN"}
    /\ link' = [link EXCEPT ![c] = "UP"]
    /\ attempt' = [attempt EXCEPT ![c] = 0]
    /\ sequence' = [sequence EXCEPT ![c] = @ + 1]
    /\ queue' = Append(queue, Item("CONNECTED", c, sequence'[c]))
    /\ downtime' = downtime + (IF breakStart = Never THEN 0 ELSE clock - breakStart)
    /\ reconnected' = TRUE
    /\ UNCHANGED <<clock, loop, rest, monitor, processed, breaks, breakStart, intake, outages>>

Connect(c) ==
    /\ Yielded /\ Room /\ link[c] \in {"IDLE", "DOWN"}
    /\ link' = [link EXCEPT ![c] = "UP"]
    /\ attempt' = [attempt EXCEPT ![c] = 0]
    /\ sequence' = [sequence EXCEPT ![c] = @ + 1]
    /\ queue' = Append(queue, Item("CONNECTED", c, sequence'[c]))
    /\ downtime' = downtime + (IF breakStart = Never THEN 0 ELSE clock - breakStart)
    /\ breakStart' = Never /\ reconnected' = TRUE
    /\ UNCHANGED <<clock, loop, rest, monitor, processed, breaks, intake, outages>>

Break(c) ==
    /\ Yielded /\ Room /\ breaks < MaxBreaks /\ link[c] # "FAILED"
    /\ breaks' = breaks + 1
    /\ attempt' = [attempt EXCEPT ![c] = @ + 1]
    /\ link' = [link EXCEPT ![c] = IF attempt'[c] > MaxReconnects THEN "FAILED" ELSE "DOWN"]
    /\ sequence' = [sequence EXCEPT ![c] = @ + 1]
    /\ queue' = Append(queue, Item("DISCONNECTED", c, sequence'[c]))
    /\ breakStart' = IF breakStart = Never THEN clock ELSE breakStart
    /\ reconnected' = FALSE
    /\ UNCHANGED <<clock, loop, rest, monitor, processed, downtime, intake, outages>>

Receive(s) ==
    LET c == Config[s].connection
    IN  /\ Yielded /\ link[c] = "UP" /\ received < MaxMessages
        /\ received' = received + 1
        /\ sequence' = [sequence EXCEPT ![c] = @ + 1]
        /\ IF Room
           THEN /\ queue' = Append(queue, Item("EVENT", s, sequence'[c]))
                /\ heard' = [heard EXCEPT ![s] = clock]
                /\ UNCHANGED dropped
           ELSE dropped' = dropped + 1 /\ UNCHANGED <<queue, heard>>
        /\ UNCHANGED <<clock, loop, rest, monitor, processed, link, attempt, breaks,
                       supervisor, outages>>

\* heartbeat_observer, called from the worker and not through the queue.
Heartbeat(c) ==
    /\ Yielded /\ link[c] = "UP" /\ ~ monitor.alive[c]
    /\ monitor' = HeartbeatOn(monitor, c)
    /\ UNCHANGED <<clock, loop, rest, queue, processed, workers, supervisor, intake, outages>>

-----------------------------------------------------------------------------
(* The merge loop *)

\* _merge_order begins with the exchange's time of a message and the recorder's
\* time of a state item; nothing aligns the two clocks, so only the order of
\* messages of one stream, and of state items of one connection, is certain.
Comparable(a, b) ==
    IF a.kind = "EVENT" THEN a.what = b.what
    ELSE b.kind # "EVENT" /\ a.what = b.what

MergeOrders(batch) ==
    {o \in SetToSeqs({batch[i] : i \in DOMAIN batch}) :
        \A i, j \in DOMAIN o : i < j /\ Comparable(o[i], o[j]) => o[i].seq < o[j].seq}

Handled(m, item) ==
    CASE item.kind = "CONNECTED" -> ConnectedAt(m, item.what, item.time)
      [] item.kind = "DISCONNECTED" -> Restarted(m, item.what)
      [] OTHER -> Observed(m, item.what, item.seq, item.time)

Events(items) == {i \in DOMAIN items : items[i].kind = "EVENT"}

\* The queue is drained.
Take ==
    /\ loop = "WAITING" /\ queue # <<>>
    /\ rest' \in MergeOrders(queue)
    /\ queue' = <<>> /\ loop' = "HANDLING"
    /\ UNCHANGED <<clock, monitor, processed, workers, supervisor, intake, outages>>

\* 0.2 seconds without an item; one may be put in at the moment the wait is canceled.
TimedOut ==
    /\ loop = "WAITING" /\ \A i \in DOMAIN queue : queue[i].time = clock
    /\ loop' = "HANDLING"
    /\ UNCHANGED <<clock, rest, monitor, queue, processed, workers, supervisor, intake, outages>>

\* The handled item has been written.
Written ==
    /\ rest' = Tail(rest)
    /\ processed' = processed + IF Head(rest).kind = "EVENT" THEN 1 ELSE 0

\* A message that invalidates the book cancels the snapshot task there is and waits for
\* its end, before it is written.
Handle ==
    /\ loop = "HANDLING" /\ rest # <<>>
    /\ monitor' = Handled(monitor, Head(rest))
    /\ \/ Written /\ UNCHANGED loop
       \/ /\ Head(rest).kind = "EVENT" /\ Head(rest).what \in Depth
          /\ loop' = "CANCELING" /\ UNCHANGED <<rest, processed>>
    /\ UNCHANGED <<clock, queue, workers, supervisor, intake, outages>>

Canceled ==
    /\ loop = "CANCELING" /\ loop' = "HANDLING"
    /\ Written
    /\ UNCHANGED <<clock, monitor, queue, workers, supervisor, intake, outages>>

\* The top of the loop, after a batch.  It evaluates the streams before it looks at the
\* queue again, where an await in the batch may have let items in.
AllFailed == \A c \in Connection : link[c] = "FAILED"

GoesOn == queue # <<>> \/ (active /\ ~ AllFailed)

Evaluate ==
    /\ loop = "HANDLING" /\ rest = <<>> /\ GoesOn
    /\ monitor' = Evaluated(monitor, clock)
    /\ loop' = "WAITING"
    /\ UNCHANGED <<clock, rest, queue, processed, workers, supervisor, intake, outages>>

\* Mutant of Close: what came in during an await is left in the queue.
CloseEarly ==
    /\ loop = "HANDLING" /\ rest = <<>> /\ ~ active
    /\ loop' = "CLOSING"
    /\ UNCHANGED <<clock, rest, monitor, queue, processed, workers, supervisor, intake, outages>>

\* The workers are canceled, then the snapshot task, whose end is awaited.
Close ==
    /\ loop = "HANDLING" /\ rest = <<>> /\ ~ GoesOn
    /\ loop' = "CLOSING"
    /\ UNCHANGED <<clock, rest, monitor, queue, processed, workers, supervisor, intake, outages>>

FinishCapture ==
    /\ loop = "CLOSING" /\ loop' = "DONE"
    /\ monitor' = Finalized(Evaluated(monitor, clock), clock)
    /\ UNCHANGED <<clock, rest, queue, processed, workers, supervisor, intake, outages>>

HealthNext ==
    \/ Tick
    \/ \E c \in Connection : Connect(c) \/ Break(c) \/ Heartbeat(c)
    \/ \E s \in Stream : Receive(s)
    \/ Take \/ TimedOut \/ Handle \/ Canceled \/ Evaluate \/ Close \/ FinishCapture

HealthSpec == HealthInit /\ [][HealthNext]_healthVars

-----------------------------------------------------------------------------
(* Correctness *)

\* Every field keeps its type.
HealthTypeOK ==
    /\ clock \in 0 .. MaxTime
    /\ loop \in {"WAITING", "HANDLING", "CANCELING", "CLOSING", "DONE"}
    /\ \A s \in Stream :
          LET r == monitor.stream[s]
          IN  /\ r.state \in StreamState /\ {r.since, r.last, r.seq} \subseteq Nat \cup {Never}
              /\ HasActive(monitor, s) => r.active \in DOMAIN monitor.incident
    /\ \A i \in DOMAIN monitor.incident : monitor.incident[i].state \in IncidentState
    /\ link \in [Connection -> {"IDLE", "UP", "DOWN", "FAILED"}]
    /\ Len(queue) <= Capacity
    /\ {downtime, received, processed, dropped, outage, masked} \subseteq Nat

done == loop = "DONE"

\* An incident that is not RECOVERED is the open one of its stream, so it is
\* still evaluated, recovered or finalized: none is forgotten, also when its
\* connection restarts or a new incident follows.
NoForgottenIncident ==
    \A i \in DOMAIN monitor.incident :
        monitor.incident[i].state # "RECOVERED" => monitor.stream[i[1]].active = i

\* While the capture runs, a stream is STALE exactly for an open incident, and a
\* LIVE stream has none.
StateMatchesIncident ==
    ~ done =>
        \A s \in Stream :
            /\ monitor.stream[s].state = "STALE" => HasActive(monitor, s)
            /\ monitor.stream[s].state = "LIVE" => ~ HasActive(monitor, s)

\* docs/FUTURES_MARKET_DATA_ROUTING.md:54: every incident ends with a verdict, and
\* one held against the session leaves its stream FAILED.
EveryIncidentJudged ==
    done =>
        \A i \in DOMAIN monitor.incident :
            LET incident == monitor.incident[i]
            IN  /\ incident.state \in {"RECOVERED", "UNRESOLVED"}
                /\ incident.unresolved <=> incident.state = "UNRESOLVED"
                /\ incident.unresolved => monitor.stream[i[1]].state = "FAILED"

\* A stream the capture reports LIVE at its end did deliver within its limit.
LiveIsRecent ==
    done =>
        \A s \in Stream : monitor.stream[s].state = "LIVE" =>
            heard[s] # Never /\ clock - heard[s] <= Config[s].stale

\* An incident that recovered was a silence beyond the limit of its stream, unless
\* the message that ended it waited in the queue when it was opened (at i[2]): an
\* evaluation after an await does invent an incident, and the message takes it back.
SilenceIsReal ==
    \A i \in DOMAIN monitor.incident :
        LET incident == monitor.incident[i]
        IN  incident.state = "RECOVERED" =>
                incident.end - incident.start > Config[i[1]].stale \/ incident.end <= i[2]

\* An incident held against the session is a silence that was beyond its limit and
\* lasted to the end: nothing that was delivered since is overlooked.
BlameIsReal ==
    done =>
        \A i \in DOMAIN monitor.incident :
            LET incident == monitor.incident[i]
            IN  incident.unresolved =>
                    /\ incident.start = heard[i[1]]
                    /\ clock - heard[i[1]] > Config[i[1]].stale

\* Both connections share one start of downtime, which the first to come up closes
\* for both.  What is reported is the time in which a connection was broken and none
\* had come up since the last break, once and no more; the rest of it is lost.
DowntimeIsReal ==
    downtime + (IF breakStart = Never THEN 0 ELSE clock - breakStart) = outage - masked

\* Every message received is processed, in the queue or the batch, or was dropped; so
\* a capture ends with pending events exactly when it dropped some.
NothingLostUncounted ==
    received = processed + dropped + Cardinality(Events(queue)) + Cardinality(Events(rest))

\* Every incident is accounted for: open at its stream, or recovered, or judged at the
\* end of the capture, through restarts of its connection and new silences.
IncidentsAccounted ==
    HealthTypeOK /\ NoForgottenIncident /\ StateMatchesIncident /\ EveryIncidentJudged

\* The verdicts of a capture follow what the streams delivered, although the loop is late:
\* an incident that it invents is recovered, never held against the session, and no
\* silence at the end is overlooked.
VerdictsAreTrue == SilenceIsReal /\ BlameIsReal /\ LiveIsRecent

\* The summary of a capture adds up: no message is counted twice or lost, and the downtime
\* is what it is but for the time one connection hides of the other.
CountersAddUp == DowntimeIsReal /\ NothingLostUncounted
=============================================================================
