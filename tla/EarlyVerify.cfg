SPECIFICATION SettingSpec
CONSTANTS
    Logged = {1, 2}
    ConfirmationDepth = 1
    MaxBlockRange = 2
    MaxAttempts = 2
    MaxHead = 3
    MaxFaults = 1
    MaxCommands = 1
    MaxCrashes = 0
INVARIANT OnlyConfirmedIsVerified
CHECK_DEADLOCK FALSE
