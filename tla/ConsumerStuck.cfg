SPECIFICATION FairSpec
CONSTANTS
    Events = {e1, e2}
    Workers = {w1, w2}
    Empty = Empty
    JobsCap = 1
    MaxAttempts = 2
    Faults = {"fetch"}
    MaxProduced = 1
    MaxResumes = 0
PROPERTIES StoppedConsumerRetries
CHECK_DEADLOCK FALSE
