SPECIFICATION Spec
CONSTANTS
    ru = ru  ra = ra  rm = rm
    q1 = q1  q2 = q2  g1 = g1  g2 = g2
    Results = {ru, ra, rm}
    StepOf <- OneResultEach
    Requests = {q1}
    Queries = {g1, g2}
    MayReject = {}
    Faults = {"ambiguous"}
    MaxRestarts = 0
SYMMETRY ClientSymmetry
INVARIANTS TokensClaimedOnce SuccessInvariant
CHECK_DEADLOCK FALSE
