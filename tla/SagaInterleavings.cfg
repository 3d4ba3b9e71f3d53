SPECIFICATION Spec
CONSTANTS
    ru = ru  ra = ra  rm = rm
    q1 = q1  q2 = q2  g1 = g1  g2 = g2
    Results = {ru, ra, rm}
    StepOf <- OneResultEach
    Requests = {q1, q2}
    Queries = {g1, g2}
    MayReject = {"user", "auth", "mail"}
    Faults = {}
    MaxRestarts = 1
SYMMETRY ClientSymmetry
INVARIANTS TokensClaimedOnce ClaimInvariant ActivationFollowsAllResults OutcomesExclusive CompletedIsBacked ReconcileConverges NoticeIsTruthful
PROPERTIES KeepsPromise
CHECK_DEADLOCK FALSE
