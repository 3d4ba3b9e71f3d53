SPECIFICATION FairSpec
CONSTANTS
    Messages = {m1, m2}
    Workers = {w1, w2}
    QueueSize = 1
    MaxDeliver = 2
    Plans <- SmallPlans
    Adaptive = TRUE
    MediumPending = 1
    HighPending = 2
    Faults = {"fetch", "handler", "ack", "slow"}
INVARIANTS PullInvariant AckedWasHandled DeliveryHeldOnce OverlapNeedsExpiry
PROPERTIES MessagesSettled CancelledStops
CHECK_DEADLOCK FALSE
