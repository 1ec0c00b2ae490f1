---------------------------- MODULE CaptureCampaign ----------------------------
(***************************************************************************)
(* A capture campaign: the command campaign-record of cli/main.py, which   *)
(* records one session after another, admits each one                      *)
(* (microstructure/scientific_admission.py) and rewrites the manifest of   *)
(* the campaign (microstructure/campaign.py), started again and again by   *)
(* scripts/continuous_capture.sh or by hand.  The process may be killed    *)
(* between any two steps; only the disk survives.                          *)
(*                                                                         *)
(* One market and symbol.  Sessions follow each other in time, so the      *)
(* builder's order is that of their numbers and they never overlap.        *)
(***************************************************************************)
EXTENDS SessionStore, Sequences, FiniteSets, Functions

CONSTANTS
    Campaign,       \* campaign identifiers
    Target,         \* total_seconds
    MaxCrashes,     \* bound: kills of the process
    MaxDamage       \* bound: sessions whose event files are damaged later

ASSUME CampaignAssumption ==
    /\ Target \in Nat \ {0}
    /\ {MaxCrashes, MaxDamage} \subseteq Nat
    \* a file that is absent or truncated holds no campaign
    /\ None # Torn /\ {None, Torn} \cap Seq(Session) = {}

Off    == "off"
NoCode == -1        \* no exit code: still running, or killed

VARIABLES
    campaigns,      \* campaign_manifest.json of each campaign
    pc,             \* where the process is; Off when there is none
    id,             \* --campaign-id
    paths,          \* the sessions of the campaign, in memory
    captured,       \* seconds captured, in memory
    stop,           \* stop_requested
    rc,             \* exit code of the process, NoCode if there is none
    damaged,        \* sessions whose files no longer match their hashes
    crashes,        \* kills so far
    listed,         \* history: what the last whole manifest of a campaign held
    broken          \* history: sessions judged by a process that then died or failed

cliVars == <<campaigns, pc, id, paths, captured, stop, rc, damaged, crashes, listed, broken>>
vars    == <<storeVars, cliVars>>

Init ==
    /\ StoreInit
    /\ campaigns = [c \in Campaign |-> None]
    /\ pc = Off
    /\ id \in Campaign
    /\ paths = <<>> /\ captured = 0 /\ stop = FALSE
    /\ rc = NoCode
    /\ damaged = {} /\ crashes = 0
    /\ listed = [c \in Campaign |-> <<>>]
    /\ broken = {}

Whole(c) == campaigns[c] \notin {None, Torn}

Set(seq) == Range(seq)

\* The sum of a sequence of amounts.
Total(amounts) ==
    LET sum[n \in 0 .. Len(amounts)] == IF n = 0 THEN 0 ELSE sum[n - 1] + amounts[n]
    IN  sum[Len(amounts)]

\* Seconds of the sessions of a sequence.
Seconds(seq) == Total([i \in DOMAIN seq |-> manifest[seq[i]].duration])

-----------------------------------------------------------------------------
(* Judging sessions *)

HashesValid(s) == s \notin damaged

\* qualify_session admits a session whose connections were lost and regained.
Admitted(s) ==
    /\ manifest[s].complete /\ HashesValid(s)
    /\ manifest[s].quality # "FAULTY"

\* _session of the campaign builder does not: disconnects and resyncs must be zero.
Eligible(s) ==
    /\ Inspectable(s)
    /\ manifest[s].complete /\ HashesValid(s)
    /\ manifest[s].quality = "CLEAN"

\* build raises on an ineligible session and on one listed twice.
Buildable(seq) == (\A s \in Set(seq) : Eligible(s)) /\ IsInjective(seq)

\* _scientific_captured_seconds counts the admitted sessions only.
Captured(seq) ==
    Total([i \in DOMAIN seq |-> IF Admitted(seq[i]) THEN manifest[seq[i]].duration ELSE 0])

-----------------------------------------------------------------------------
(* campaign-record *)

\* The process ends: its memory is gone.  The session it was working on is in
\* `broken` unless the end is regular.
Ended(code, regular) ==
    /\ pc' = Off
    /\ rc' = code
    /\ paths' = <<>> /\ captured' = 0 /\ stop' = FALSE
    /\ broken' = IF regular THEN broken ELSE broken \cup {started}

\* The start of the process: a campaign whose manifest exists is loaded, built
\* again and resumed; a torn one, or a session that no longer builds, raises.
\* Mutant of Launch: the resumed campaign starts with no session.
LaunchForgetting(c) ==
    /\ pc = Off
    /\ id' = c
    /\ \/ /\ Whole(c) /\ Buildable(campaigns[c])
          /\ pc' = "loop" /\ paths' = <<>> /\ captured' = Captured(campaigns[c])
          /\ rc' = NoCode /\ UNCHANGED <<stop, broken>>
       \/ /\ campaigns[c] = None
          /\ pc' = "loop" /\ rc' = NoCode
          /\ UNCHANGED <<paths, captured, stop, broken>>
       \/ /\ campaigns[c] = Torn \/ (Whole(c) /\ ~ Buildable(campaigns[c]))
          /\ Ended(2, TRUE)
    /\ UNCHANGED <<storeVars, campaigns, damaged, crashes, listed>>

Launch(c) ==
    /\ pc = Off
    /\ id' = c
    /\ \/ /\ Whole(c) /\ Buildable(campaigns[c])
          /\ pc' = "loop" /\ paths' = campaigns[c] /\ captured' = Captured(campaigns[c])
          /\ rc' = NoCode /\ UNCHANGED <<stop, broken>>
       \/ /\ campaigns[c] = None
          /\ pc' = "loop" /\ rc' = NoCode
          /\ UNCHANGED <<paths, captured, stop, broken>>
       \/ /\ campaigns[c] = Torn \/ (Whole(c) /\ ~ Buildable(campaigns[c]))
          /\ Ended(2, TRUE)
    /\ UNCHANGED <<storeVars, campaigns, damaged, crashes, listed>>

\* Mutant of WantsMore: the condition of the loop does not look at the stop.
WantsMoreStubborn == captured < Target

\* The condition of the loop.
WantsMore == captured < Target /\ ~ stop

\* The head of the loop: another chunk, or the end.
Loop ==
    /\ pc = "loop"
    /\ \/ WantsMore /\ pc' = "record" /\ WriterOpened
       \/ ~ WantsMore /\ pc' = "finish" /\ UNCHANGED storeVars
    /\ UNCHANGED <<campaigns, id, paths, captured, stop, rc, damaged, crashes, listed, broken>>

\* The recorder writes; its session is judged once its manifest is written.
Record ==
    /\ pc = "record"
    /\ WriterStep
    /\ pc' = IF writer'.phase = "idle" THEN "judge" ELSE pc
    /\ UNCHANGED <<campaigns, id, paths, captured, stop, rc, damaged, crashes, listed, broken>>

\* The recorder ends: COMPLETE at the deadline or when asked to stop, INCOMPLETE
\* when its reconnections are exhausted.
RecorderEnds(verdict) ==
    /\ pc = "record"
    /\ stop => verdict.complete
    /\ WriterClosed(verdict)
    /\ UNCHANGED cliVars

\* Mutant of Judge: a stop also drops the session that was just recorded.
JudgeDroppingOnStop ==
    /\ pc = "judge"
    /\ \/ stop /\ pc' = "finish" /\ UNCHANGED paths
       \/ /\ ~ stop /\ manifest[started].complete /\ Admitted(started)
          /\ pc' = "build" /\ paths' = Append(paths, started)
    /\ UNCHANGED <<storeVars, campaigns, id, captured, stop, rc, damaged, crashes, listed,
                   broken>>

\* The recording is judged: an incomplete one ends the loop, a rejected one is
\* followed by a pause, an admitted one joins the campaign.
Judge ==
    /\ pc = "judge"
    /\ \/ ~ manifest[started].complete /\ pc' = "finish" /\ UNCHANGED paths
       \/ /\ manifest[started].complete /\ ~ Admitted(started)
          /\ pc' = "pause" /\ UNCHANGED paths
       \/ /\ manifest[started].complete /\ Admitted(started)
          /\ pc' = "build" /\ paths' = Append(paths, started)
    /\ UNCHANGED <<storeVars, campaigns, id, captured, stop, rc, damaged, crashes, listed,
                   broken>>

\* The pause after a rejection ends with its delay or with a stop.
Resume ==
    /\ pc = "pause"
    /\ pc' = "loop"
    /\ UNCHANGED <<storeVars, campaigns, id, paths, captured, stop, rc, damaged, crashes,
                   listed, broken>>

\* build, and the truncation of the campaign's manifest by write.
Build ==
    /\ pc = "build"
    /\ \/ /\ Buildable(paths)
          /\ pc' = "write" /\ campaigns' = [campaigns EXCEPT ![id] = Torn]
          /\ UNCHANGED <<paths, captured, stop, rc, broken>>
       \/ ~ Buildable(paths) /\ Ended(2, FALSE) /\ UNCHANGED campaigns
    /\ UNCHANGED <<storeVars, id, damaged, crashes, listed>>

\* write fills the manifest; the admitted seconds count.
Write ==
    /\ pc = "write"
    /\ pc' = "loop"
    /\ campaigns' = [campaigns EXCEPT ![id] = paths]
    /\ listed' = [listed EXCEPT ![id] = paths]
    /\ captured' = captured + manifest[started].duration
    /\ UNCHANGED <<storeVars, id, paths, stop, rc, damaged, crashes, broken>>

\* The end of the command: 75 without a session or short of the target.
Finish ==
    /\ pc = "finish"
    /\ \/ paths = <<>> /\ Ended(75, TRUE)
       \/ /\ paths # <<>> /\ Buildable(paths)
          /\ Ended(IF captured >= Target THEN 0 ELSE 75, TRUE)
       \/ paths # <<>> /\ ~ Buildable(paths) /\ Ended(2, TRUE)
    /\ UNCHANGED <<storeVars, campaigns, id, damaged, crashes, listed>>

-----------------------------------------------------------------------------
(* The environment *)

\* SIGINT or SIGTERM, by hand or by the cleanup of the shell loop.
RequestStop ==
    /\ pc # Off /\ ~ stop
    /\ stop' = TRUE
    /\ UNCHANGED <<storeVars, campaigns, pc, id, paths, captured, rc, damaged, crashes, listed,
                   broken>>

\* The process is killed or the machine goes down; nothing in memory survives.
Crash ==
    /\ pc # Off /\ crashes < MaxCrashes
    /\ crashes' = crashes + 1
    /\ Ended(NoCode, FALSE)
    /\ writer' = Idle
    /\ UNCHANGED <<part, renamed, manifest, started, campaigns, id, damaged, listed>>

\* An event file of a finished session is lost or altered.
Damage(s) ==
    /\ Cardinality(damaged) < MaxDamage
    /\ s <= started /\ Inspectable(s) /\ renamed[s] > 0
    /\ damaged' = damaged \cup {s}
    /\ UNCHANGED <<storeVars, campaigns, pc, id, paths, captured, stop, rc, crashes, listed,
                   broken>>

Recover(s) == Recovered(s) /\ UNCHANGED cliVars

Process == Loop \/ Record \/ (\E v \in Outcomes : RecorderEnds(v)) \/ Judge \/ Resume
           \/ Build \/ Write \/ Finish

Next ==
    \/ Process
    \/ \E c \in Campaign : Launch(c)
    \/ RequestStop
    \/ Crash
    \/ \E s \in Session : Damage(s) \/ Recover(s)

\* A running process goes on: the event loop schedules it, a recorder ends at its
\* deadline, and write_text returns.
Spec == Init /\ [][Next]_vars /\ WF_vars(Process)

-----------------------------------------------------------------------------
(* Correctness *)

Manifest == [complete : BOOLEAN, quality : Quality, duration : Nat, files : Nat]

\* Every field keeps its type.
TypeOK ==
    /\ part \in [Session -> {None, "open", "closed"}]
    /\ \A s \in Session : manifest[s] \in {None, Torn} \/ manifest[s] \in Manifest
    /\ renamed \in [Session -> Nat]
    /\ started \in 0 .. MaxSessions
    /\ \A c \in Campaign : Whole(c) => campaigns[c] \in Seq(Session)
    /\ paths \in Seq(Session) /\ captured \in Nat
    /\ rc \in {NoCode, 0, 2, 75}

\* A manifest is the end of its session: whenever one is on the disk, no part is
\* left and it lists every event file there is, whatever crash or recovery came
\* before.  So a session that a crash cut short is never taken for a finished one.
ManifestSealsSession ==
    \A s \in Session :
        Inspectable(s) => part[s] = None /\ manifest[s].files = renamed[s]

\* A campaign only lists sessions that were recorded to the end without losing a
\* connection, each once, and in the order of their recording.
CampaignHoldsWholeSessions ==
    \A c \in Campaign : Whole(c) =>
        /\ \A s \in Set(campaigns[c]) :
              Inspectable(s) /\ manifest[s].complete /\ manifest[s].quality = "CLEAN"
        /\ \A i, j \in DOMAIN campaigns[c] : i < j => campaigns[c][i] < campaigns[c][j]

\* Across crashes and resumes a campaign never drops a session it held: a whole
\* manifest extends the last whole one.
CampaignNeverShrinks ==
    [][\A c \in Campaign : SubSeq(listed'[c], 1, Len(listed[c])) = listed[c]]_vars

\* What the process counts towards its target is what the sessions of its campaign
\* captured, also after a resume and with damaged files: nothing counts twice, and
\* nothing counts for the length of its chunk.
CountsWhatIsListed ==
    pc \in {"loop", "record", "judge", "pause", "finish"} => captured = Seconds(paths)

\* A session that was recorded cleanly to the end belongs to a campaign, unless the
\* process that recorded it died or failed before it could be listed.
NothingLeftOut ==
    \A s \in Session :
        Eligible(s) /\ s \notin broken /\ (s = started => pc \in {Off, "loop", "finish"}) =>
            \E c \in Campaign : s \in Set(listed[c])

\* The exit code 0 is a proof: the manifest is whole, every session it lists is
\* unaltered, and together they reach the target.
SuccessIsProven ==
    [][pc = "finish" /\ pc' = Off /\ rc' = 0 =>
          /\ Whole(id) /\ Buildable(campaigns[id])
          /\ Seconds(campaigns[id]) >= Target]_vars

\* docs/CAPTURE_NO_SESSION_ROBUSTNESS.md:36-37: a campaign that reached its target
\* is neither rewritten nor extended by resuming it.
CompletedIsLeftAlone ==
    [][\A c \in Campaign :
          Whole(c) /\ Seconds(campaigns[c]) >= Target => campaigns'[c] = campaigns[c]]_vars

\* A stop ends the process whatever it is doing, a pause and a recording included.
StopEnds == stop ~> pc = Off

\* At every instant, crashes and damaged files included, a campaign holds exactly the
\* whole sessions it recorded, in order and once, and counts no second beyond them.
CampaignIsTrue ==
    TypeOK /\ CampaignHoldsWholeSessions /\ CountsWhatIsListed /\ NothingLeftOut

\* No step takes back what a campaign achieved: nothing is dropped, a completed one is
\* left alone, and success is only reported for what is on the disk.
CampaignKeepsFaith == CampaignNeverShrinks /\ SuccessIsProven /\ CompletedIsLeftAlone
=============================================================================
