----------------------------- MODULE SessionStore -----------------------------
(***************************************************************************)
(* The directory of a capture session, microstructure/storage.py: events   *)
(* go to a gzip part that is closed, renamed and listed when it is full,   *)
(* and the manifest is written last.  Every step that changes the disk is  *)
(* an action, so that a crash can come between any two of them.            *)
(*                                                                         *)
(* What a session recorded is abstracted to a verdict, see Verdict; the    *)
(* directories are numbered in the order in which the sessions start.      *)
(***************************************************************************)
EXTENDS Integers

CONSTANTS
    Rotate,         \* rotate_event_count
    None, Torn,     \* a file that is absent; one that is truncated and not yet filled
    Outcomes,       \* bound: how a capture may go
    MaxEvents,      \* bound: events of a session
    MaxSessions     \* bound: sessions started

Session == 1 .. MaxSessions

\* How a capture went.  RESYNCED: connections were lost and the book was
\* synchronized again, without a gap; FAULTY: a gap, a parser error, a dropped
\* event, an unresolved incident, a dead stream or a dirty work tree.
Quality == {"CLEAN", "RESYNCED", "FAULTY"}
\* `duration` is the time between its first and its last event, in seconds.
Verdict == [complete : BOOLEAN, quality : Quality, duration : Nat]

ASSUME StoreAssumption ==
    /\ {Rotate, MaxEvents, MaxSessions} \subseteq Nat \ {0}
    /\ Outcomes \subseteq Verdict
    /\ None \notin {"open", "closed"}

VARIABLES
    part,       \* the .part file: absent, open or closed (a whole gzip stream)
    renamed,    \* how many event files there are
    manifest,   \* manifest.json: absent, torn or what _write_manifest wrote
    started,    \* sessions started so far
    writer      \* MicrostructureSessionWriter of the running session

storeVars == <<part, renamed, manifest, started, writer>>

Idle == [phase |-> "idle", events |-> 0, files |-> 0, verdict |-> None]

StoreInit ==
    /\ part = [s \in Session |-> None]
    /\ renamed = [s \in Session |-> 0]
    /\ manifest = [s \in Session |-> None]
    /\ started = 0
    /\ writer = Idle

\* Events already listed and in the open part.
Recorded == writer.events + Rotate * writer.files

-----------------------------------------------------------------------------
(* MicrostructureSessionWriter *)

\* The directory is new (mkdir without exist_ok) and gets its first part.
WriterOpened ==
    /\ started < MaxSessions
    /\ started' = started + 1
    /\ part' = [part EXCEPT ![started'] = "open"]
    /\ writer' = [Idle EXCEPT !.phase = "open"]
    /\ UNCHANGED <<renamed, manifest>>

\* append; the event that fills the part also closes its gzip stream.
EventAppended ==
    LET full == writer.events + 1 >= Rotate
    IN  /\ writer.phase = "open" /\ Recorded < MaxEvents
        /\ writer' = [writer EXCEPT !.events = @ + 1,
                                    !.phase = IF full THEN "rotating" ELSE @]
        /\ part' = [part EXCEPT ![started] = IF full THEN "closed" ELSE @]
        /\ UNCHANGED <<renamed, manifest, started>>

\* close up to the first call that changes the disk: an empty part is removed.
WriterClosed(verdict) ==
    /\ writer.phase = "open"
    /\ writer' = [writer EXCEPT !.verdict = verdict,
                                !.phase = IF writer.events = 0 THEN "closed" ELSE "closing"]
    /\ part' = [part EXCEPT ![started] = IF writer.events = 0 THEN None ELSE "closed"]
    /\ UNCHANGED <<renamed, manifest, started>>

\* The rename of _finalize_part and the entry in _files.
PartRenamed ==
    /\ writer.phase \in {"rotating", "closing"}
    /\ part' = [part EXCEPT ![started] = None]
    /\ renamed' = [renamed EXCEPT ![started] = @ + 1]
    /\ writer' = [writer EXCEPT !.files = @ + 1, !.events = 0,
                                !.phase = IF @ = "rotating" THEN "reopen" ELSE "closed"]
    /\ UNCHANGED <<manifest, started>>

\* _open_part after a rotation.
PartReopened ==
    /\ writer.phase = "reopen"
    /\ part' = [part EXCEPT ![started] = "open"]
    /\ writer' = [writer EXCEPT !.phase = "open"]
    /\ UNCHANGED <<renamed, manifest, started>>

\* The phase in which _write_manifest may truncate manifest.json, and its mutant:
\* a manifest written before the last part is renamed.
ReadyForManifestEarly == {"closed", "closing"}

ReadyForManifest == {"closed"}

\* write_text truncates the file and then fills it: two steps of the disk.
ManifestTruncated ==
    /\ writer.phase \in ReadyForManifest
    /\ manifest' = [manifest EXCEPT ![started] = Torn]
    /\ writer' = [writer EXCEPT !.phase = "manifest"]
    /\ UNCHANGED <<part, renamed, started>>

ManifestWritten ==
    /\ writer.phase = "manifest"
    /\ manifest' = [manifest EXCEPT ![started] =
           [complete |-> writer.verdict.complete, quality |-> writer.verdict.quality,
            duration |-> writer.verdict.duration, files |-> writer.files]]
    /\ writer' = Idle
    /\ UNCHANGED <<part, renamed, started>>

WriterStep ==
    \/ EventAppended \/ PartRenamed \/ PartReopened
    \/ ManifestTruncated \/ ManifestWritten

-----------------------------------------------------------------------------
(* What is left on the disk *)

\* recover_incomplete_session, run by hand on a directory nobody writes: a remnant
\* that reads to its end is renamed.  A stream cut before its trailer does not, and
\* the function raises without a change.
Recovered(s) ==
    /\ s <= started
    /\ writer.phase # "idle" => s # started
    /\ part[s] = "closed"
    /\ part' = [part EXCEPT ![s] = None]
    /\ renamed' = [renamed EXCEPT ![s] = @ + 1]
    /\ UNCHANGED <<manifest, started, writer>>

\* inspect_session raises unless the manifest is whole.
Inspectable(s) == manifest[s] \notin {None, Torn}
=============================================================================
