SPECIFICATION Spec
CONSTANTS
    Events = {e1, e2}
    Workers = {w1, w2}
    Empty = Empty
    JobsCap = 1
    MaxAttempts = 2
    Faults = {"fetch", "db", "handler", "broker", "ambiguous"}
    MaxProduced = 2
    MaxResumes = 1
SYMMETRY ConsumerSymmetry
INVARIANTS ConsumerInvariant HandledOnce OneHandlerPerEvent
PROPERTIES HandlesAsPromised
CHECK_DEADLOCK FALSE
