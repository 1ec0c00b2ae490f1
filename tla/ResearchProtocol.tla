---------------------------- MODULE ResearchProtocol ----------------------------
(***************************************************************************)
(* The pre-registered experiments of research/ (daily trend following,     *)
(* pullback continuation, its calibration, the Spot hypotheses): each runs *)
(* a fixed sequence of steps over the database and over files that others  *)
(* can change while it runs, chooses variants on the development period    *)
(* and confirms them on the validation period.  A Spot candidate may then  *)
(* be frozen (research/candidate_freeze.py).                               *)
(*                                                                         *)
(* What an evaluation computes is not modelled: a variant is eligible or   *)
(* not, as the development data may turn out.                              *)
(***************************************************************************)
EXTENDS CandleHistory, Sequences

CONSTANTS
    Variants,       \* pre-registered variants of a catalog
    Development,    \* candles of the development period
    Validation,     \* candles of the validation period
    Versions,       \* candidate versions an operator may name
    MaxEdits,       \* bound: edits of the catalog and of a lock on disk
    MaxFreezes      \* bound: freeze commands

ASSUME ResearchAssumption ==
    /\ Development \cup Validation \subseteq Candles
    /\ \A i \in Development, j \in Validation : i < j
    /\ {MaxEdits, MaxFreezes} \subseteq Nat

Baseline == "ORIGINAL_BASELINE"
Groups   == <<"spot", "futures">>               \* market groups of an experiment
Kinds    == {"trend", "pullback", "calibration", "spot"}

VARIABLES
    catalog,        \* the catalog file: as registered, reformatted or altered
    lock,           \* the lock a trend experiment keeps on disk
    exp,            \* the experiment, or None; its step is 0 once published
    result,         \* how it ended: "published" or "failed", else "none"
    decision,       \* candidate_freeze_decision.json, or None
    frozen,         \* the files of each version, with the freeze that wrote them
    freeze,         \* the freeze commands that are running
    edits, freezes  \* bounded counters

researchVars == <<catalog, lock, exp, result, decision, frozen, freeze, edits, freezes>>
vars         == <<historyVars, researchVars>>

ResearchInit ==
    /\ catalog = "registered" /\ lock = "none"
    /\ exp = None /\ result = "none" /\ decision = None
    /\ frozen = [v \in Versions |-> [f \in {} |-> 0]]
    /\ freeze = {}
    /\ edits = 0 /\ freezes = 0

(***************************************************************************)
(* The order of the steps.                                                 *)
(***************************************************************************)
\* Mutant of TrendSteps: the validation period is read with the development one.
TrendStepsEager == <<<<"read">>, <<"load">>, <<"data", "dev">>, <<"data", "val">>,
    <<"select", "spot">>, <<"select", "futures">>, <<"lock">>,
    <<"validate", "spot">>, <<"validate", "futures">>, <<"check">>, <<"report">>>>

TrendSteps == <<<<"read">>, <<"load">>, <<"data", "dev">>,
    <<"select", "spot">>, <<"select", "futures">>, <<"lock">>, <<"data", "val">>,
    <<"validate", "spot">>, <<"validate", "futures">>, <<"check">>, <<"report">>>>

PullbackSteps == <<<<"read">>, <<"load">>, <<"data", "all">>,
    <<"select", "spot">>, <<"select", "futures">>,
    <<"validate", "spot">>, <<"validate", "futures">>, <<"check">>, <<"report">>>>

CalibrationSteps == PullbackSteps

\* The first stage is validated before the second one selects; the reports, the
\* freeze decision among them, are on disk before the catalog is compared.
SpotSteps == <<<<"data", "all">>, <<"load">>, <<"read">>,
    <<"select", "exit">>, <<"validate", "exit">>,
    <<"select", "regime">>, <<"validate", "regime">>,
    <<"decide">>, <<"check">>, <<"report">>>>

Steps(kind) == CASE kind = "trend" -> TrendSteps
                 [] kind = "pullback" -> PullbackSteps
                 [] kind = "calibration" -> CalibrationSteps
                 [] kind = "spot" -> SpotSteps

Busy     == exp # None /\ exp.at # 0
Step     == Steps(exp.kind)[exp.at]
At(op)   == Busy /\ Step[1] = op
Working  == \E i \in exp.at..Len(Steps(exp.kind)) : Steps(exp.kind)[i][1] \in {"select", "validate"}

Goes(e)  == exp' = [e EXCEPT !.at = @ + 1]
Others   == <<historyVars, decision, frozen, freeze, edits, freezes>>

\* An exception ends the command; the files it wrote stay.
Fails ==
    /\ exp' = None /\ result' = "failed"
    /\ UNCHANGED <<catalog, lock, Others>>

Begin(kind) ==
    /\ exp = None /\ result = "none"
    /\ exp' = [kind |-> kind, at |-> 1, bytes |-> "none",
               dev |-> {}, val |-> {}, disturbed |-> FALSE,
               selected |-> [g \in {} |-> {}], validated |-> [g \in {} |-> {}]]
    /\ lock' = "none"
    /\ UNCHANGED <<catalog, result, Others>>

ReadCatalog ==
    /\ At("read")
    /\ Goes([exp EXCEPT !.bytes = catalog])
    /\ UNCHANGED <<catalog, lock, result, Others>>

\* The catalogs hold exactly the registered values, or loading them raises.
LoadCatalog ==
    /\ At("load")
    /\ IF catalog = "altered"
         THEN Fails
         ELSE Goes(exp) /\ UNCHANGED <<catalog, lock, result, Others>>

(***************************************************************************)
(* The datasets: closed candles only.  Trend following reads its periods   *)
(* one by one and wants any candle at all, the others read both at once    *)
(* and want the first and the last.                                        *)
(***************************************************************************)
Readable == Closed

EndsOf(period) == {Min(period), Max(period)}

LoadData ==
    /\ At("data")
    /\ LET want == CASE Step[2] = "dev" -> Development
                     [] Step[2] = "val" -> Validation
                     [] Step[2] = "all" -> Development \cup Validation
           got  == Readable \cap want
           enough == IF Step[2] = "all" THEN EndsOf(want) \subseteq got ELSE got # {}
           intact == Step[2] = "val" => lock # "changed"
       IN IF enough /\ intact
            THEN /\ Goes([exp EXCEPT !.dev = @ \cup (got \cap Development),
                                     !.val = @ \cup (got \cap Validation)])
                 /\ UNCHANGED <<catalog, lock, result, Others>>
            ELSE Fails

(***************************************************************************)
(* Selection on the development period, the locks, and the validation of   *)
(* what was selected.                                                      *)
(***************************************************************************)
\* A dictionary with an entry added or replaced.
Noted(notes, g, entry) ==
    [h \in DOMAIN notes \cup {g} |-> IF h = g THEN entry ELSE notes[h]]

MostSelected(kind) == IF kind \in {"trend", "spot"} THEN 1 ELSE 2

Select ==
    /\ At("select")
    /\ \E chosen \in SUBSET Variants :
          /\ Cardinality(chosen) <= MostSelected(exp.kind)
          \* without a winner of the first stage there is no second one
          /\ Step[2] = "regime" /\ exp.selected["exit"] = {} => chosen = {}
          /\ Goes([exp EXCEPT !.selected = Noted(@, Step[2], chosen)])
    /\ UNCHANGED <<catalog, lock, result, Others>>

WriteLock ==
    /\ At("lock")
    /\ lock' = "intact"
    /\ Goes(exp)
    /\ UNCHANGED <<catalog, result, Others>>

\* The pullback experiments add the baseline.
ToValidate(e, g) ==
    e.selected[g] \cup (IF e.kind \in {"pullback", "calibration"} THEN {Baseline} ELSE {})

Validate ==
    /\ At("validate")
    /\ Goes([exp EXCEPT !.validated = Noted(@, Step[2], ToValidate(exp, Step[2]))])
    /\ UNCHANGED <<catalog, lock, result, Others>>

\* The Spot experiment writes its reports: a candidate if the selected variant
\* met the criteria on both periods.
Decide ==
    /\ At("decide")
    /\ \E candidate \in BOOLEAN :
          /\ candidate => exp.validated["regime"] # {}
          /\ decision' = [candidate |-> candidate, variant |-> exp.selected["regime"],
                          shown |-> exp.validated["regime"]]
    /\ Goes(exp)
    /\ UNCHANGED <<catalog, lock, result, historyVars, frozen, freeze, edits, freezes>>

CheckUnchanged ==
    /\ At("check")
    /\ IF catalog = exp.bytes /\ lock # "changed"
         THEN Goes(exp) /\ UNCHANGED <<catalog, lock, result, Others>>
         ELSE Fails

\* The report of a trend experiment is written beside the lock it must still match.
Report ==
    /\ At("report")
    /\ IF lock = "changed"
         THEN Fails
         ELSE exp' = [exp EXCEPT !.at = 0] /\ result' = "published"
              /\ UNCHANGED <<catalog, lock, Others>>

(***************************************************************************)
(* Freezing the candidate of a Spot experiment: a command looks whether    *)
(* the version has a file, asks git for the commit and writes three files. *)
(* Nothing is created exclusively, so commands that all looked before the  *)
(* first one wrote all write; each can die between two writes.             *)
(***************************************************************************)
Files == <<"config", "manifest", "hash">>

\* Mutant of Freezable: an existing version is written again.
FreezableAgain(v) == decision # None /\ decision.candidate

Freezable(v) == /\ decision # None /\ decision.candidate
                /\ DOMAIN frozen[v] = {}

StartFreeze(v) ==
    /\ freezes < MaxFreezes
    /\ Freezable(v)
    /\ freeze' = freeze \cup {[id |-> freezes + 1, version |-> v, at |-> 1]}
    /\ freezes' = freezes + 1
    /\ UNCHANGED <<catalog, lock, exp, result, decision, frozen, edits, historyVars>>

WriteFile(c) ==
    /\ frozen' = [frozen EXCEPT ![c.version] = Noted(@, Files[c.at], c.id)]
    /\ freeze' = (freeze \ {c}) \cup
                 (IF c.at = Len(Files) THEN {} ELSE {[c EXCEPT !.at = @ + 1]})
    /\ UNCHANGED <<catalog, lock, exp, result, decision, edits, freezes, historyVars>>

KillFreeze(c) ==
    /\ freeze' = freeze \ {c}
    /\ UNCHANGED <<catalog, lock, exp, result, decision, frozen, edits, freezes, historyVars>>

(***************************************************************************)
(* Others edit the catalog or the lock while the experiment runs.          *)
(***************************************************************************)
EditCatalog(to) ==
    /\ Busy /\ edits < MaxEdits /\ to # catalog
    /\ catalog' = to /\ edits' = edits + 1
    /\ exp' = IF exp.bytes # "none"
                THEN [exp EXCEPT !.disturbed =
                         lock = "changed" \/ (to # exp.bytes /\ (@ \/ Working))]
                ELSE exp
    /\ UNCHANGED <<lock, result, decision, frozen, freeze, freezes, historyVars>>

EditLock ==
    /\ Busy /\ edits < MaxEdits /\ lock = "intact"
    /\ lock' = "changed" /\ edits' = edits + 1
    /\ exp' = [exp EXCEPT !.disturbed = TRUE]
    /\ UNCHANGED <<catalog, result, decision, frozen, freeze, freezes, historyVars>>

ExperimentStep ==
    \/ ReadCatalog \/ LoadCatalog \/ LoadData \/ Select \/ WriteLock
    \/ Validate \/ Decide \/ CheckUnchanged \/ Report

ResearchNext ==
    \/ \E kind \in Kinds : Begin(kind)
    \/ ExperimentStep
    \/ \E v \in Versions : StartFreeze(v)
    \/ \E c \in freeze : WriteFile(c) \/ KillFreeze(c)
    \/ \E to \in {"reformatted", "altered"} : EditCatalog(to)
    \/ EditLock

(***************************************************************************)
(* The composition.  The table is only read at a data step, so downloads   *)
(* are interleaved before the experiment and there, and nowhere else: any  *)
(* other order reaches the same tables at the same data steps.             *)
(***************************************************************************)
Reading == (exp = None /\ result = "none") \/ At("data")

Init == HistoryInit /\ ResearchInit

Next ==
    \/ Reading /\ HistoryNext /\ UNCHANGED researchVars
    \/ ~Running /\ ResearchNext

Spec     == Init /\ [][Next]_vars

(***************************************************************************)
(* Properties.                                                             *)
(***************************************************************************)
TypeOK ==
    /\ HistoryTypeOK
    /\ catalog \in {"registered", "reformatted", "altered"}
    /\ lock \in {"none", "intact", "changed"}
    /\ result \in {"none", "published", "failed"}
    /\ exp # None => /\ exp.at \in 0..Len(Steps(exp.kind))
                     /\ exp.dev \subseteq Development /\ exp.val \subseteq Validation
    /\ \A v \in Versions : DOMAIN frozen[v] \subseteq {Files[i] : i \in DOMAIN Files}
    /\ freeze \subseteq [id : 1..MaxFreezes, version : Versions, at : 1..Len(Files)]

\* No experiment that was published had its catalog, or the lock on disk, edited
\* between the reading and the last validation and not put back.
PublishedUndisturbed == result = "published" => ~exp.disturbed

\* The validation period of a group is shown only what was chosen for it on the
\* development period, and, for the pullback experiments, the baseline.  There
\* every group has chosen before the first one is validated.
OnlyChosenIsValidated ==
    exp # None =>
        /\ \A g \in DOMAIN exp.validated :
              /\ g \in DOMAIN exp.selected
              /\ exp.validated[g] \subseteq exp.selected[g] \cup {Baseline}
        /\ exp.kind \in {"trend", "pullback", "calibration"} /\ DOMAIN exp.validated # {} =>
              DOMAIN exp.selected = {Groups[i] : i \in DOMAIN Groups}

\* Trend following has not read a candle of the validation period before its
\* choice is locked on disk, and validates nothing with a lock it saw changed.
\* (The other experiments read both periods at once: OnlyChosenIsValidated is what
\* binds them.)
ValidationIsBlind ==
    exp # None /\ exp.kind = "trend" =>
        /\ exp.val # {} => lock # "none" /\ DOMAIN exp.selected = {"spot", "futures"}
        /\ lock = "none" => DOMAIN exp.validated = {}

\* What an experiment read is what the table holds: no update that runs between
\* its readings rewrites a candle it used.
DataIsFinal ==
    exp # None => \A i \in exp.dev \cup exp.val : i \in Closed /\ candles[i].final

\* The experiments that read both periods at once read every candle between
\* their first and last, as long as the table was filled by updates alone.
DataIsUnbroken ==
    exp # None /\ exp.kind # "trend" /\ ~pinned /\ exp.dev \cup exp.val # {} =>
        exp.dev \cup exp.val = Development \cup Validation

\* A version on disk is a variant that was chosen on the development period and
\* shown to the validation period, whatever failed or was edited meanwhile.
FrozenIsValidated ==
    \A v \in Versions : DOMAIN frozen[v] # {} =>
        decision # None /\ decision.variant # {} /\ decision.variant \subseteq decision.shown

\* A version some freeze has begun and no freeze is writing: the freezes that saw it
\* without a file have all ended or died.
Sealed(v) == DOMAIN frozen[v] # {} /\ \A c \in freeze : c.version # v

\* A settled version is never written again, and no file of any version is ever taken
\* back.  Until it settles, the freezes that race on it replace each other's files.
FrozenNeverChanges ==
    [][\A v \in Versions :
          /\ DOMAIN frozen[v] \subseteq DOMAIN frozen'[v]
          /\ Sealed(v) => Sealed(v)' /\ frozen'[v] = frozen[v]]_vars

\* The table of candles is true at every instant: what is marked closed is final, what
\* a finished download promised is there, and updates alone leave no hole.
HistoryIsTrue == TypeOK /\ ClosedIsFinal /\ FinishedIsComplete /\ UpdatesLeaveNoHole

\* In the trend experiment the validation period stays unseen until the choice is made,
\* and every experiment validates only what it chose and publishes nothing after a
\* disturbance that it saw, whatever is edited or downloaded meanwhile.
ResearchIsBlind ==
    /\ PublishedUndisturbed /\ OnlyChosenIsValidated /\ ValidationIsBlind
    /\ DataIsFinal /\ DataIsUnbroken /\ FrozenIsValidated

\* What was stored or frozen stays: no download or crash takes it back, and no freeze
\* that was not already at work.
KeptForGood == NothingUnlearned /\ FrozenNeverChanges
=============================================================================
