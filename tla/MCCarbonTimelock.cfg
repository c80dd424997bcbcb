SPECIFICATION TimelockSpec
CONSTANTS
    Address = {a1, a2}
    OpId = {o1, o2}
    OperationType = {"RotateOracleKey", "PauseMarketplace", "Generic"}
    MinimumDelay <- MCMinimumDelay
    Params = {p1, p2}
    Delay = {0, 2, 3, 4}
    FirstLedger = {0, 7}
    MaxLedger = 9
    NULL = NULL
SYMMETRY TimelockSymmetry
CHECK_DEADLOCK FALSE
PROPERTIES DelayEnforced OperationFinal
