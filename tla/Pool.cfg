SPECIFICATION MCSpec
CONSTANTS
    Accounts = {alice}
    Pool = Pool
    Amounts = {1, 2}
    MaxFees = {0, 1}
    FeeCap = 1
    FeeScale = 2
    TreeDepth = 2
    MaxTrees = 2
    MaxBatch = 2
    MaxNotes = 8
    MaxMessages = 1
    MixedNotes = 5
    MixedBatch = 2
    MixedBalance = 3
INVARIANTS
    NotesAreSpendable
    ValueIsKept
CHECK_DEADLOCK FALSE
