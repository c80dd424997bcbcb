SPECIFICATION Spec
CONSTANTS
    Targets <- MCTargets
    Event <- MCEvent
    PageSize = 1
    w1 = w1
    w2 = w2
    Webhook = {w1, w2}
    Requested <- MCRequested
    Followed <- MCFollowed
    MaxNow = 1
    MaxLedger = 2
    MaxFaults = 1
    MaxAttempts = 2
    BaseBackoff = 1
    MaxBackoff = 1
    Limit = 1
    AttemptsSeen = 2
    NULL = NULL
INVARIANTS TypeOK NothingSkipped
PROPERTIES DeliveriesLostOnlyToFaults DeliveredIsFinal DueIsPosted
