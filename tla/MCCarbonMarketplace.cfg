SPECIFICATION Spec
CONSTANTS
    Address = {a1, a2}
    Admin = {adm}
    Vintage = {v2024}
    Amount = {1}
    Total = {2}
    MaxI128 = 2
    NULL = NULL
    OperationId = {op1}
    Price = {1}
    CircuitState = {"Active", "Tripped"}
    OracleView = {"Fresh", "Open"}
    MaxLedger = 1
    MaxNonce = 1
SYMMETRY AddressSymmetry
VIEW Seen
INVARIANTS IssuedAccounted SupplyIsSumOfBalances
PROPERTIES SaleSettlesListing RetireOncePerOperation ImplementsAccounting OwnListingKept
           FrozenWhileGated
