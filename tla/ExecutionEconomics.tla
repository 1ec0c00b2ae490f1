--------------------------- MODULE ExecutionEconomics ---------------------------
(***************************************************************************)
(* The multi-day economics of execution: which recorded sessions may enter *)
(* a new discovery campaign, what the campaign suffices for, the episodes  *)
(* a stream of anchors leaves room for, and the answer to whether there is *)
(* an edge within reach of a small account.  A session is                  *)
(*   [start, end, hash, sound, warned]                                     *)
(* with the hash of its events and whether its qualification finds nothing *)
(* against it.  A campaign's label is its name and its market.  Time is in *)
(* quarters of a day.                                                      *)
(***************************************************************************)
EXTENDS ResearchStatistics

Day      == 4
BaselineCommit == 0     \* the commit after which new sessions must begin
NewDiscovery   == [name |-> "intraday discovery", market |-> "ETHUSDT USD-M"]
Refused  == [refused |-> TRUE]

(***************************************************************************)
(* The campaign.                                                           *)
(***************************************************************************)
\* dataset_sufficiency
Sufficiency(duration, dates) ==
    IF duration >= 3 * Day /\ dates >= 3 THEN "CONFIRMATION_READY"
    ELSE IF duration >= Day /\ dates >= 2 THEN "DISCOVERY_READY"
    ELSE IF 4 * duration >= Day THEN "EXPLORATORY" ELSE "ENGINEERING_ONLY"

DiscoveryReady(status) == status \in {"DISCOVERY_READY", "CONFIRMATION_READY"}

\* Sessions in order: one with the events of an earlier one is not admitted, even if that
\* one was not either.
AdmitSessions(sessions) ==
    LET Step(acc, s) == [seen |-> acc.seen \cup {s.hash},
                         admitted |-> IF s.sound /\ s.hash \notin acc.seen THEN Append(acc.admitted, s) ELSE acc.admitted]
    IN FoldLeft(Step, [seen |-> {}, admitted |-> <<>>], sessions).admitted

Duration(sessions)     == Add([i \in DOMAIN sessions |-> sessions[i].end - sessions[i].start])
DatesCovered(sessions) == UNION {{s.start \div Day, s.end \div Day} : s \in ToSet(sessions)}
HashesOf(sessions)     == {s.hash : s \in ToSet(sessions)}

\* The identity of what is admitted is a hash of the sessions' hashes, that of the consumed
\* campaign the hash of its whole manifest: the two are never the same.
EligibleIdentity(sessions)  == [of |-> "sessions", hashes |-> HashesOf(sessions)]
ConsumedManifest(hashes)    == [identity |-> [of |-> "manifest", hashes |-> hashes], hashes |-> hashes]

ValidateNewCampaign(label, sessions, consumed) ==
    /\ label = NewDiscovery
    /\ EligibleIdentity(sessions) # consumed.identity
    /\ \A s \in ToSet(sessions) : s.start > BaselineCommit
    /\ HashesOf(sessions) \cap consumed.hashes = {}

CampaignStatus(sessions) ==
    LET duration == Duration(sessions)
        dates    == Cardinality(DatesCovered(sessions))
        Short(needed, n) == IF n < needed THEN needed - n ELSE 0
    IN [status |-> Sufficiency(duration, dates), duration |-> duration, dates |-> dates,
        clean |-> \A s \in ToSet(sessions) : ~s.warned,
        timeMissing |-> Short(Day, duration), datesMissing |-> Short(2, dates)]

(***************************************************************************)
(* Labels far ahead, fees, runners.                                        *)
(***************************************************************************)
LongHorizons == {1, 2, 5}

\* The first thing that keeps a label from being complete.
LabelAvailability(anchor, horizon, sessionEnd, feed, book, executable) ==
    IF anchor + horizon > sessionEnd THEN "CAPTURE_BOUNDARY"
    ELSE IF ~feed THEN "FEED_INVALID"
    ELSE IF ~book THEN "BOOK_INVALID"
    ELSE IF ~executable THEN "NO_EXECUTABLE_FUTURE_STATE" ELSE "COMPLETE"

\* The rows look at the start of each session only.
ExtendedLabels(sessions) ==
    [s \in ToSet(sessions) |-> [h \in LongHorizons |-> LabelAvailability(s.start, h, s.end, TRUE, TRUE, TRUE)]]

Roles   == {"MAKER", "TAKER"}
FeeOf   == [MAKER |-> 2, TAKER |-> 5]
PolicyFee(policy) == FeeOf[policy.entry] + FeeOf[policy.exit]

EconomicsRow(policy) ==
    LET makerLegs == Cardinality({leg \in {"entry", "exit"} : policy[leg] = "MAKER"})
    IN [maker |-> 2 * makerLegs, taker |-> PolicyFee(policy) - 2 * makerLegs, total |-> PolicyFee(policy)]

MinimumEpisodes == 3    \* 30 in the code
RunnerStatus(status, episodes) ==
    IF ~DiscoveryReady(status) THEN "MORE_DATA_REQUIRED"
    ELSE IF episodes < MinimumEpisodes THEN "INSUFFICIENT_SAMPLE" ELSE "MIXED"

(***************************************************************************)
(* The answer.                                                             *)
(***************************************************************************)
Required  == {"quality", "episodes", "makers", "evaluable", "candidates", "latency", "direction", "spread", "bootstrap"}
Forbidden == {"leakage", "institutional"}

\* Evidence is the status and dates of the data and the set of what holds of it.
AccessibleEdgeAnswer(evidence) ==
    LET ready == /\ DiscoveryReady(evidence.status) /\ evidence.dates >= 2
                 /\ {"quality", "episodes", "makers"} \subseteq evidence.holds
        passes == /\ {"candidates", "latency", "direction", "spread", "bootstrap"} \subseteq evidence.holds
                  /\ Forbidden \cap evidence.holds = {}
    IN IF ~ready \/ "evaluable" \notin evidence.holds THEN "MORE_DATA_REQUIRED"
       ELSE IF passes THEN "YES" ELSE "NO"

SmallAccountFeasibility(ready, holds) ==
    IF ~ready THEN "MORE_DATA_REQUIRED"
    ELSE IF {"execution", "liquidity", "fills"} \subseteq holds /\ "costs" \notin holds
         THEN "SMALL_ACCOUNT_FEASIBLE" ELSE "SMALL_ACCOUNT_NOT_FEASIBLE"

\* The whole command: what it finds of the campaign, and the answer it can give, since it
\* has no episodes yet.
QualifyCampaign(label, sessions, consumed) ==
    LET admitted == AdmitSessions(sessions)
        found    == CampaignStatus(admitted)
    IN IF ~ValidateNewCampaign(label, admitted, consumed) THEN Refused
       ELSE [sessions |-> admitted, found |-> found, labels |-> ExtendedLabels(admitted),
             runner |-> RunnerStatus(found.status, 0),
             answer |-> AccessibleEdgeAnswer([status |-> found.status, dates |-> found.dates,
                                              holds |-> IF found.clean THEN {"quality"} ELSE {}])]

(***************************************************************************)
(* Episodes: one position at a time for each key.  A proposal is           *)
(*   [key, opens, closes, gain]                                            *)
(***************************************************************************)
ConsiderEpisode(acc, p) ==
    LET busy == acc.openUntil[p.key] # <<>> /\ p.opens < acc.openUntil[p.key][1]
    IN IF busy THEN [acc EXCEPT !.skipped[p.key] = @ + 1]
       ELSE [acc EXCEPT !.openUntil[p.key] = <<p.closes>>, !.episodes = Append(@, p)]

SampleEpisodes(proposals) ==
    LET keys == {proposals[i].key : i \in DOMAIN proposals}
    IN FoldLeft(ConsiderEpisode,
                [openUntil |-> [k \in keys |-> <<>>], skipped |-> [k \in keys |-> 0], episodes |-> <<>>], proposals)

EpisodeSummary(acc, key) ==
    LET own == SelectSeq(acc.episodes, LAMBDA p : p.key = key)
    IN [count |-> Len(own), skipped |-> acc.skipped[key],
        inMarket |-> Add([i \in DOMAIN own |-> own[i].closes - own[i].opens])]

\* Episodes are resampled by whole blocks of time, two of them at least.
EpisodeBootstrap(episodes, block) ==
    IF Cardinality({episodes[i].opens \div block : i \in DOMAIN episodes}) < 2 THEN "INSUFFICIENT_SAMPLE" ELSE "OK"

(***************************************************************************)
(* What the qualification promises.                                        *)
(***************************************************************************)
\* The fees shown apart are those of the roles the policy takes.
FeesAddUp ==
    \A entry, exit \in Roles :
        LET row == EconomicsRow([entry |-> entry, exit |-> exit])
        IN /\ row.maker + row.taker = row.total
           /\ row.taker = 5 * Cardinality({leg \in {1, 2} : <<entry, exit>>[leg] = "TAKER"})

\* Only the new discovery campaign is qualified.  No session of a consumed one, none from before the baseline and none that its own
\* qualification rejects has any part in the campaign, and no events count twice; a rejected
\* session only ever takes the place of a later one with the same events.  The campaign is
\* ready exactly when neither time nor dates are missing; another session never makes it less
\* so; and without episodes there is no answer but to go on (reject_duplicate_sessions,
\* validate_new_campaign, _campaign_status, accessible_edge_answer).
CampaignIsNew(label, sessions, consumedHashes) ==
    LET consumed == ConsumedManifest(consumedHashes)
        result   == QualifyCampaign(label, sessions, consumed)
        counted  == {i \in DOMAIN sessions : sessions[i].sound /\ \A j \in 1..(i - 1) : sessions[j].hash # sessions[i].hash}
        Rank(status) == CHOOSE n \in 1..4 :
            <<"ENGINEERING_ONLY", "EXPLORATORY", "DISCOVERY_READY", "CONFIRMATION_READY">>[n] = status
    IN /\ result = Refused <=>
             \/ label # NewDiscovery
             \/ \E i \in counted : sessions[i].start <= BaselineCommit \/ sessions[i].hash \in consumedHashes
       /\ FeesAddUp
       /\ result # Refused =>
             /\ ToSet(result.sessions) = {sessions[i] : i \in counted}
             /\ result.found.duration = MapThenSumSet(LAMBDA i : sessions[i].end - sessions[i].start, counted)
             /\ DiscoveryReady(result.found.status) <=> result.found.timeMissing + result.found.datesMissing = 0
             /\ result.answer = "MORE_DATA_REQUIRED"
             /\ result.runner # "MIXED"
             /\ \A n \in DOMAIN sessions :
                   LET fewer == QualifyCampaign(label, First(sessions, n), consumed).found
                   IN /\ Rank(fewer.status) <= Rank(result.found.status)
                      /\ result.found.timeMissing <= fewer.timeMissing
                      /\ result.found.datesMissing <= fewer.datesMissing
             /\ \A s \in ToSet(result.sessions), h, k \in LongHorizons :
                   h <= k /\ result.labels[s][k] = "COMPLETE" => result.labels[s][h] = "COMPLETE"

\* Yes takes everything and neither leakage nor conditions out of reach; the data never turn
\* a yes into a no by getting better, and a lack of data is never called a no.
AnswerIsEarned(evidence) ==
    LET answer == AccessibleEdgeAnswer(evidence)
        With(holds) == AccessibleEdgeAnswer([evidence EXCEPT !.holds = holds])
    IN /\ answer = "YES" => Required \subseteq evidence.holds /\ Forbidden \cap evidence.holds = {}
       /\ \A x \in Required : answer = "YES" => With(evidence.holds \cup {x}) = "YES" /\ With(evidence.holds \ {x}) # "YES"
       /\ \A x \in Forbidden : With(evidence.holds \cup {x}) # "YES"
       /\ answer = "NO" => With(Required) = "YES"
       /\ answer = "MORE_DATA_REQUIRED" => With(evidence.holds \cup {"candidates", "latency", "leakage"}) = answer

\* Of one key no two episodes overlap; a proposal is passed over only because an episode of
\* its key is open; all proposals are accounted for; and no key stands in another's way
\* (NonOverlappingExecutionEpisodeSampler).
EpisodesStandApart(proposals) ==
    LET acc  == SampleEpisodes(proposals)
        taken == acc.episodes
        keys  == DOMAIN acc.skipped
        Total(Of(_)) == FoldSet(LAMBDA k, n : n + Of(k), 0, keys)
    IN /\ \A i, j \in DOMAIN taken : i < j /\ taken[i].key = taken[j].key => taken[i].closes <= taken[j].opens
       /\ \A i \in DOMAIN proposals : proposals[i] \notin ToSet(taken) =>
             \E j \in DOMAIN taken : /\ taken[j].key = proposals[i].key
                                     /\ taken[j].opens <= proposals[i].opens /\ proposals[i].opens < taken[j].closes
       /\ Total(LAMBDA k : EpisodeSummary(acc, k).count + EpisodeSummary(acc, k).skipped) = Len(proposals)
       /\ \A k \in keys :
             LET own == SelectSeq(proposals, LAMBDA p : p.key = k)
             IN EpisodeSummary(acc, k) = EpisodeSummary(SampleEpisodes(own), k)
       /\ EpisodeBootstrap(taken, Day) = "OK" => \E i, j \in DOMAIN taken : taken[i].opens \div Day # taken[j].opens \div Day
=============================================================================
