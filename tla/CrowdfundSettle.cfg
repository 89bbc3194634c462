CONSTANTS
    a = a
    b = b
    c = c
    Users = {a, b}
    LaunchTeam = LaunchTeam
    NoOne = NoOne
    ArmPerUsdc = 2
    BaseSale = 120
    MaxSale = 180
    MinSale = 100
    ElasticTrigger = 150
    MinCommit = 35
    Cap <- MCCap
    MaxInvitesReceived <- MCMaxInvitesReceived
    WindowStart = 1
    WindowEnd = 2
    ClaimDeadlineDuration = 1
    Tickets = {}
    Nonces = {}
    Amounts = {35, 70}
    InitialWallet = 105
    ArmGrants = {360}
    MaxInvites <- OneInvite
    MaxSeeds = 2
    LaunchTeamBudget <- BudgetHop1
    MaxFinalizeNodes = 4
    MaxTime = 5
SYMMETRY Symmetric
SPECIFICATION Spec
INVARIANTS
    Solvent
    ProceedsOnlyFromAFullSale
PROPERTIES
    OutcomeIsFinal
    SettledExactly
CHECK_DEADLOCK FALSE
