SPECIFICATION VetoSpec
CONSTANTS
    alice = alice
    bob = bob
    council1 = council1
    council2 = council2
    steward1 = steward1
    Voters = {alice, bob}
    Stewards = {steward1}
    Councils = {council1, council2}
    NoOne = NoOne
    Tokens = {"usdc"}
    Holders = {"revenueLock"}
    Payloads <- AllVetoPayloads
    VoteStates <- OneVoter
    HoldingStates <- MoreHoldings
    TreasuryStates <- OneTreasury
    Supply = 14
    StandardParams <- Shared
    ExtendedParams <- Longer
    RatificationPeriod = 2
    StewardPeriod = 1
    StewardDelay = 1
    SignalingParams <- Shared
    FixedQuorumBps = 2000
    InitialExtendedSelectors <- ExtendedOnly
    InitialStandardSelectors <- StandardOnly
    InitialMinDelay = 1
    InitialSetup <- EverythingSet
    InitialCouncil = council1
    InitialSteward = NoOne
    InitialWindDownContract = FALSE
    PROPOSAL_THRESHOLD = 1
    QUORUM_FLOOR = 2
    QUEUE_GRACE_PERIOD = 2
    QUIET_PERIOD_DURATION = 1
    TERM_DURATION = 4
    TREASURY_OUTFLOW_ACTIVATION_DELAY = 6
    MIN_VOTING_DELAY = 1
    MAX_VOTING_DELAY = 2
    MIN_VOTING_PERIOD = 1
    MAX_VOTING_PERIOD = 2
    MIN_EXECUTION_DELAY = 1
    MAX_EXECUTION_DELAY = 2
    MIN_QUORUM_BPS = 500
    MAX_QUORUM_BPS = 5000
    InitialDeployer = TRUE
    DeclaredTypes = {"Standard"}
    FinalizeTimes = {}
    MaxProposals = 3
    MaxTime = 7
INVARIANT TimelockAgrees
INVARIANT TalliesMatchVoters
PROPERTY OnlyTheVetoingCouncilIsEjected
PROPERTY EnactedAfterVoteAndDelay
PROPERTY ImplementsLifecycle
CHECK_DEADLOCK FALSE
