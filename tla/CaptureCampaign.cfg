SPECIFICATION Spec
CONSTANTS
    None = None
    Torn = Torn
    Campaign = {c1, c2}
    Target = 3
    Outcomes <- MCOutcomes
    Rotate = 2
    MaxEvents = 2
    MaxSessions = 3
    MaxCrashes = 1
    MaxDamage = 1
INVARIANTS
    ManifestSealsSession
    CampaignIsTrue
PROPERTIES
    CampaignKeepsFaith
    StopEnds
CHECK_DEADLOCK FALSE
