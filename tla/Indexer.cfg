SPECIFICATION SettingSpec
CONSTANTS
    Logged = {1, 2}
    ConfirmationDepth = 1
    MaxBlockRange = 2
    MaxAttempts = 2
    MaxHead = 3
    MaxFaults = 2
    MaxCommands = 1
    MaxCrashes = 1
INVARIANT VerifiedIsComplete
PROPERTY OnlyExhaustedRangesHoldBack
CHECK_DEADLOCK FALSE
