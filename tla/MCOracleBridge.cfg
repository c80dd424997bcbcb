CONSTANTS
    NULL = NULL
    soil = soil
    forest = forest
    long = long
    script = script
    p1 = p1
    p2 = p2
    Key = Key
    BadCid = BadCid
    Feed = {soil, forest, long}
    LongFeed = {long}
    Mode <- MCMode
    Result <- MCResult
    Batch <- MCBatch
    MaxI64 = 50
    MaxExact = 32
    Scale = {1, 2, 4, 8, 16, 32}
    MultUnit = 4
    ValueBound = 33
    MaxCalls = 2
    MaxBatchAt = 0
    MaxCrashes = 1
SPECIFICATION Spec
CHECK_DEADLOCK FALSE
INVARIANTS
    SubmittedIsDocumented
    ReturnedIsOnChain
    CommitmentsOpenable
    DamageDetected
    MajorityDecides
