CONSTANTS
    a = a
    b = b
    c = c
    Users = {a, b}
    LaunchTeam = LaunchTeam
    NoOne = NoOne
    ArmPerUsdc = 2
    BaseSale = 120
    MaxSale = 180
    MinSale = 100
    ElasticTrigger = 150
    MinCommit = 35
    Cap <- MCCap
    MaxInvitesReceived <- MCMaxInvitesReceived
    WindowStart = 1
    WindowEnd = 2
    ClaimDeadlineDuration = 1
    Tickets <- InviteTickets
    Nonces = {1}
    Amounts = {20, 35}
    InitialWallet = 35
    ArmGrants = {360}
    MaxInvites <- OneInvite
    MaxSeeds = 1
    LaunchTeamBudget <- OneEach
    MaxFinalizeNodes = 4
    MaxTime = 3
    SmallSale = 40
    LargeSale = 60
    ExpandAt = 50
    MaxDemand = 45
SPECIFICATION SaleSpec
INVARIANTS
    WaterfallWithinSale
    HopTwoKeepsItsFloor
    InviteForest
    BudgetsAreKept
PROPERTIES
    RedemptionBurnsNonce
    DemandNeverShrinksTheSale
CHECK_DEADLOCK FALSE
