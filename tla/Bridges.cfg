SPECIFICATION MCSpec
CONSTANTS
    a = a
    b = b
    c = c
    t1 = t1
    t2 = t2
    x = x
    y = y
    hub = hub
    client = client
    NoMessage = NoMessage
    NoCursor = NoCursor
    Messages = {a, b}
    BlockOf <- Block
    TxOf <- Tx
    BodyOf <- Body
    Blocks = 2
    MaxRange = 1
    BootLookback = 2
    MaxBootLookback = 2
    MaxRetries = 2
    MaxTxs = 2
    MaxCrashes = 1
    FaultSets = {{}, {"lost reply", "lookup"}, {"lost reply", "disk"}}
    Chains = {hub, client}
    MockMessages = {a, b, c}
    ChainOf <- MockChain
    MockBlockOf <- MockBlock
    ProcessedCap = 1
    MockCrashes = 1
    MockFaultSets = {{}, {"disk"}}
INVARIANT BridgesLoseNothing
INVARIANT NothingClaimed
PROPERTY SettledIsNotRelayedAgain
PROPERTY AttemptsOnlyGrow
