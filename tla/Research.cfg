SPECIFICATION StudySpec
CONSTANTS
    v1 = v1
    Variants <- MCVariants
    Development <- MCDevelopment
    Validation <- MCValidation
    Versions <- MCVersions
    LastCandle = 3
    PageLimit = 2
    MaximumRetries = 1
    MaxCommands = 2
    LateAnswers = FALSE
    MaxEdits = 1
    MaxFreezes = 2
    Horizon = 6
    FundingHours = 2
    DayHours = 2
    Evidence <- MCEvidence
    Rivals <- MCRivals
    Studies <- MCStudies
    Charts <- MCCharts
    Outcomes <- MCOutcomes
    Decisions <- MCDecisions
    Streams <- MCStreams
    Positions <- MCPositions
    Sessions <- MCSessions
    Samples <- MCSamples
    Campaigns <- MCCampaigns
    Answers <- MCAnswers
    Proposals <- MCProposals
INVARIANTS
    HistoryIsTrue
    ResearchIsBlind
    DataIsHonest
    VerdictsAreSound
PROPERTIES
    KeptForGood
    DownloadsEnd
CHECK_DEADLOCK FALSE
