SPECIFICATION Spec
CONSTANTS
    cfd = cfd
    other = other
    Feed <- MCFeed
    CFD = CFD
    EUA = EUA
    Source = {CFD, EUA}
    SourceOf <- MCSourceOf
    ReplaySource <- MCReplaySource
    Live = {cfd}
    Price = {p1, p2}
    MaxRetries = 1
    Threshold = 2
    Window = 1
    Cli = {c1}
    Backlog <- MCBacklog
    NULL = NULL
    MaxTime = 3
    MaxEntries = 2
    MaxFailures = 2
    MaxCrashes = 1
INVARIANTS ServedPriceRecent EveryRaiseQueued DegradedIsVisible
PROPERTIES SettledByAnswerOnly QueueDrains
