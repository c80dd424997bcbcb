SPECIFICATION Spec
CONSTANTS
    Address = {b1}
    Config <- MCConfig
    Value = {4, 9}
    Stroops <- MCStroops
    BPS = 10
    LedgersPerYear = 2
    MaxI128 = 10000
    MaxLedger = 1
    MaxLoans = 2
    MaxBalance = 7
    NULL = NULL
INVARIANT NoDoubleCollateral
