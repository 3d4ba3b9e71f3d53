SPECIFICATION FairSpec
CONSTANTS
    r1 = r1  r2 = r2  k1 = k1
    s1 = s1  s2 = s2  s3 = s3
    e1 = e1  e2 = e2  n1 = n1  n2 = n2
    Requests = {r1, r2}
    Commands = {k1}
    SessionIds = {s1, s2, s3}
    SessionOf <- OwnSessions
    Emails = {e1, e2}
    Usernames = {n1, n2}
    Submissions <- Competing
    Faults = {"db", "rpc", "publish", "broker", "ambiguous"}
    MaxRestarts = 1
INVARIANTS AdmissionInvariant AdmittedOnce ConflictIsJustified AdmittedIsComplete RefusalLeavesNothing DispatchedOnce
PROPERTIES StopCompletes
CHECK_DEADLOCK FALSE
