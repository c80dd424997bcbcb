SPECIFICATION FeedSpec
CONSTANTS
    Account = {o1, o2, o3, x}
    Price = {0, 1, 2}
    MaxAge = {0, 1}
    MaxLedger = 2
    NULL = NULL
CHECK_DEADLOCK FALSE
INVARIANT NoOracleDecides
