SPECIFICATION Spec
CONSTANTS
    k1 = k1
    Key = {k1, k2}
    Body <- OneListed
    Ttl = 1
    MaxFaults = 1
    NULL = NULL
INVARIANTS SuccessIsBacked OversoldOnlyAfterFault
PROPERTIES SubmittedOncePerTtl FillsExact ReplayKept BlockedKeyFreed
