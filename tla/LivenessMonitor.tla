--------------------------- MODULE LivenessMonitor ---------------------------
(***************************************************************************)
(* StreamLivenessMonitor of microstructure/health.py as operators from the *)
(* monitor before a call to the monitor after it.  Times are integers.     *)
(*                                                                         *)
(* The counts of events that an incident stores when it is detected serve  *)
(* one question, whether a related stream has delivered since (`crossed`). *)
(* Classifications, wall-clock times and the other evidence are left out:  *)
(* nothing in the monitor branches on them.                                *)
(***************************************************************************)
EXTENDS Integers, FiniteSets

CONSTANTS
    Stream,     \* the subscribed streams
    Config,     \* their StreamLivenessConfig and connection
    Related     \* per stream, the streams whose activity speaks against silence

ASSUME LivenessAssumption ==
    /\ \A s \in Stream : /\ {Config[s].first, Config[s].stale} \subseteq Nat \ {0}
                         /\ Config[s].unresolved > Config[s].stale
    /\ Related \in [Stream -> SUBSET Stream]

Connection == {Config[s].connection : s \in Stream}

Never == -1
NoIncident == <<"none", Never>>

StreamState == {"REQUESTED", "WAITING_FIRST_EVENT", "LIVE", "STALE", "FAILED"}
IncidentState == {"DETECTED", "OBSERVING", "RECOVERED", "UNRESOLVED", "ESCALATED"}

NewMonitor ==
    [stream   |-> [s \in Stream |->
                      [state |-> "REQUESTED", since |-> Never, last |-> Never,
                       seq |-> Never, active |-> NoIncident]],
     incident |-> <<>>,
     alive    |-> [c \in Connection |-> FALSE]]

Active(m, s) == m.incident[m.stream[s].active]

HasActive(m, s) == m.stream[s].active # NoIncident

Of(c) == {s \in Stream : Config[s].connection = c}

-----------------------------------------------------------------------------
(* connected, heartbeat, connection_restarted *)

ConnectedAt(m, c, t) ==
    [stream   |-> [s \in Stream |->
                      IF s \in Of(c)
                      THEN [m.stream[s] EXCEPT !.state = "WAITING_FIRST_EVENT", !.since = t]
                      ELSE m.stream[s]],
     incident |-> m.incident,
     alive    |-> [m.alive EXCEPT ![c] = TRUE]]

HeartbeatOn(m, c) ==
    [stream |-> m.stream, incident |-> m.incident, alive |-> [m.alive EXCEPT ![c] = TRUE]]

\* Mutant of Restarted: the streams begin anew, and their incidents with them.
RestartedForgetting(m, c) ==
    [m EXCEPT !.stream = [s \in Stream |->
                  IF s \in Of(c) THEN NewMonitor.stream[s] ELSE @[s]],
              !.alive[c] = FALSE]

\* An open incident of the connection is escalated and stays open.
Restarted(m, c) ==
    LET hit == {m.stream[s].active : s \in Of(c)}
    IN  [stream   |-> [s \in Stream |->
                          IF s \in Of(c)
                          THEN [m.stream[s] EXCEPT !.state = "REQUESTED", !.since = Never,
                                                   !.seq = Never]
                          ELSE m.stream[s]],
         incident |-> [i \in DOMAIN m.incident |->
                          IF i \in hit
                          THEN [m.incident[i] EXCEPT !.state = "ESCALATED", !.unresolved = TRUE]
                          ELSE m.incident[i]],
         alive    |-> [m.alive EXCEPT ![c] = FALSE]]

-----------------------------------------------------------------------------
(* observed *)

IncidentRecovered(incident, t) ==
    [incident EXCEPT !.state = "RECOVERED", !.unresolved = FALSE, !.end = t]

\* The n-th message of its connection, received at t, is of stream s.
Observed(m, s, n, t) ==
    IF m.stream[s].seq # Never /\ n <= m.stream[s].seq
    THEN [stream   |-> [m.stream EXCEPT ![s] = [@ EXCEPT !.state = "FAILED"]],
          incident |-> m.incident, alive |-> m.alive]
    ELSE [stream   |-> [m.stream EXCEPT ![s] = [@ EXCEPT !.state = "LIVE", !.last = t, !.seq = n,
                                                         !.active = NoIncident]],
          incident |-> [i \in DOMAIN m.incident |->
                LET r == m.incident[i]
                IN  IF i = m.stream[s].active THEN IncidentRecovered(r, t)
                    ELSE IF r.state # "RECOVERED" /\ s \in Related[i[1]]
                         THEN [r EXCEPT !.crossed = TRUE] ELSE r],
          alive    |-> m.alive]

-----------------------------------------------------------------------------
(* evaluate *)

TooLateToStart(m, s, t) ==
    /\ m.stream[s].state = "WAITING_FIRST_EVENT" /\ m.stream[s].since # Never
    /\ t - m.stream[s].since > Config[s].first

Silent(m, s, t) ==
    /\ m.stream[s].state \in {"LIVE", "STALE"} /\ m.stream[s].last # Never
    /\ t - m.stream[s].last > Config[s].stale

\* _observe_or_escalate of the incident of stream s
Watched(m, s, incident, t) ==
    IF /\ t - incident.start > Config[s].unresolved
       /\ Config[s].periodic \/ incident.crossed \/ ~ m.alive[Config[s].connection]
    THEN [incident EXCEPT !.state = "ESCALATED", !.unresolved = TRUE]
    ELSE [incident EXCEPT !.state = IF @ = "DETECTED" THEN "OBSERVING" ELSE @]

Detected(m, s) ==
    [state |-> "DETECTED", start |-> m.stream[s].last, end |-> Never,
     crossed |-> FALSE, unresolved |-> FALSE]

Evaluated(m, t) ==
    LET silent == {s \in Stream : Silent(m, s, t)}
        new    == {s \in silent : ~ HasActive(m, s)}
        old    == {m.stream[s].active : s \in silent \ new}
    IN  [stream   |-> [s \in Stream |->
                CASE s \in new -> [m.stream[s] EXCEPT !.state = "STALE", !.active = <<s, t>>]
                  [] TooLateToStart(m, s, t) -> [m.stream[s] EXCEPT !.state = "FAILED"]
                  [] OTHER -> m.stream[s]],
         incident |-> [i \in DOMAIN m.incident \cup {<<s, t>> : s \in new} |->
                CASE i[1] \in new /\ i[2] = t -> Detected(m, i[1])
                  [] i \in old -> Watched(m, i[1], m.incident[i], t)
                  [] OTHER -> m.incident[i]],
         alive    |-> m.alive]

-----------------------------------------------------------------------------
(* finalize *)

\* At the end an open incident is forgiven when its connection is alive and
\* nothing contradicts the silence, or when it has not lasted long.
Forgiven(m, s, t) ==
    /\ m.alive[Config[s].connection]
    /\ \/ ~ Config[s].periodic /\ ~ Active(m, s).crossed
       \/ t - Active(m, s).start <= Config[s].unresolved

Finalized(m, t) ==
    LET open == {s \in Stream : HasActive(m, s)}
        good == {s \in open : Forgiven(m, s, t)}
    IN  [stream   |-> [s \in Stream |->
                CASE s \in good -> [m.stream[s] EXCEPT !.active = NoIncident]
                  [] s \in open \ good -> [m.stream[s] EXCEPT !.state = "FAILED"]
                  [] OTHER -> m.stream[s]],
         incident |-> [i \in DOMAIN m.incident |->
                CASE i \in {m.stream[s].active : s \in good} ->
                        IncidentRecovered(m.incident[i], t)
                  [] i \in {m.stream[s].active : s \in open \ good} ->
                        [m.incident[i] EXCEPT !.state = "UNRESOLVED", !.unresolved = TRUE]
                  [] OTHER -> m.incident[i]],
         alive    |-> m.alive]
=============================================================================
