SPECIFICATION EconomySpec
CONSTANTS
    alice = alice
    bob = bob
    c1 = c1
    c2 = c2
    NoCollector = NoCollector
    LimitActivationDelay = 2
    BpsScale = 4
    MinWindow = 1
    MaxOutflowWindow = 3
    FloorAbsolute = 1
    WindowInputs = {1, 2}
    BpsInputs = {2}
    AbsoluteInputs = {1, 2}
    Amounts = {1}
    Budgets <- MCBudgets
    InitialBalance = 4
    MaxTime = 4
    Collectors = {c1, c2}
    Beneficiaries = {alice}
    Allocation <- MCAllocation
    Milestones <- MCMilestones
    FullBps = 4
    MaxIncreasePerDay = 1
    FeeInputs = {1}
    RevenueInputs = {1}
    MaxRevenue = 2
    MaxDay = 4
    MaxAttestations = 1
    Holders = {alice, bob}
    Bought <- MCBought
    Assets = {"usdc", "eth"}
    RedemptionDelay = 1
    ClaimPeriod = 2
    SaleEnd = 0
    Thresholds = {2, 3}
    Deadlines = {0, 1}
    Supply <- MCSupply
    Funds = 2
    Proceeds = 1
    ArmInputs = {1}
    MaxBalance = 4
INVARIANTS
    StewardStaysBounded
    RevenueIsEarned
PROPERTIES
    Notice
    ImplementsOutflowLimits
    RedemptionIsFair
CHECK_DEADLOCK FALSE
