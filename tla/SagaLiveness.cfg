SPECIFICATION FairSpec
CONSTANTS
    ru = ru  ra = ra  rm = rm
    q1 = q1  q2 = q2  g1 = g1  g2 = g2
    Results = {ru, ra, rm}
    StepOf <- OneResultEach
    Requests = {q1}
    Queries = {g1}
    MayReject = {"user", "auth"}
    Faults = {}
    MaxRestarts = 0
INVARIANTS SettlingInvariant QuietIsSettled
PROPERTIES SuccessReachesCodeSent FailureIsCompensated VerificationIsAnswered FailedIsFinal
CHECK_DEADLOCK FALSE
