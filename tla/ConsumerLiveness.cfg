SPECIFICATION FairSpec
CONSTANTS
    Events = {e1, e2}
    Workers = {w1, w2}
    Empty = Empty
    JobsCap = 1
    MaxAttempts = 2
    Faults = {"handler", "permanent"}
    MaxProduced = 3
    MaxResumes = 0
INVARIANTS ClaimsAreLive NothingIsLost
PROPERTIES EveryResultSettled
CHECK_DEADLOCK FALSE
