SPECIFICATION Spec
CONSTANTS
    Admin = {adm}
    Feed = {f1}
    Key = {k1, k2}
    Value <- MCValue
    Time = {0, 1}
    Window = {0, 2}
    Sources = {1, 2}
    MaxSources = 1
    MaxI64 = 3
    HeartbeatExpiry = 0
    Junk = Junk
    MaxLedger = 2
    NULL = NULL
SYMMETRY KeySymmetry
INVARIANT TypeOK
PROPERTIES JumpQuarantined OpenBreakerOnlyReveals CommitmentFinal SilentFeedStays
