-------------------------- MODULE SagaOutcomeProofs --------------------------
(***************************************************************************)
(* What the steps, the session and the client are told of a registration,  *)
(* and what is true of its accounts: proofs from SuccessInvariant and      *)
(* OutcomeInvariant, for every set of results, requests and queries and    *)
(* any number of restarts.                                                 *)
(***************************************************************************)
EXTENDS RegistrationSagaProofs

-----------------------------------------------------------------------------
(* Every account opened has three reported successes.                      *)

\* A step that reports no less, completes only reported steps, removes no row
\* and opens the account only on three successes keeps the invariant.
LEMMA SuccessFrame ==
    ASSUME SuccessInvariant, TypeOK', RowsComeFirst',
           \A r \in Results : outcome[r] = "success" => outcome'[r] = "success",
           \A k \in InitialSteps : steps'[k] = "completed" => steps[k] = "completed" \/ Succeeded(k),
           session' \in OpenStatus => session \in OpenStatus \/ AllSucceeded,
           \A q \in Requests : pc'[q] \in OpenLabels => pc[q] \in OpenLabels \/ AllSucceeded,
           profile' = "active" => profile = "active" \/ AllSucceeded,
           notified' => notified \/ AllSucceeded
    PROVE  SuccessInvariant'
<1>1. \A k \in InitialSteps : Succeeded(k) => Succeeded(k)'
  BY DEF Succeeded
<1>2. AllSucceeded => AllSucceeded'
  BY <1>1 DEF AllSucceeded
<1>3. CompletedStepsWereReported'
  BY <1>1 DEF SuccessInvariant, CompletedStepsWereReported
<1>4. QED
  BY <1>2, <1>3 DEF SuccessInvariant

\* A step of another process than Start needs no row it could not rely on
\* before.
LEMMA RowsFrame ==
    ASSUME SuccessInvariant, RowsRelied,
           \A k \in InitialSteps : steps[k] # "none" => steps'[k] # "none"
    PROVE  RowsComeFirst'
BY DEF SuccessInvariant, RowsComeFirst, RowsStored, InitialSteps

\* Initially nothing is completed, open or relied on.
LEMMA InitSuccess == Init => SuccessInvariant
<1> SUFFICES ASSUME Init PROVE SuccessInvariant
  OBVIOUS
<1> USE DEF Init
<1>1. TypeOK
  BY InitTypeOK
<1>2. CompletedStepsWereReported
  BY DEF CompletedStepsWereReported, StepKeys
<1>3. ~RowsRelied
  BY DEF RowsRelied, Processes
<1>4. RowsComeFirst
  BY <1>3 DEF RowsComeFirst
<1>5. \A q \in Requests : pc[q] = "idle"
  BY DEF Processes
<1>6. session \notin OpenStatus /\ "idle" \notin OpenLabels
  BY DEF OpenStatus, OpenLabels, VerifierLabels
<1>7. QED
  BY <1>1, <1>2, <1>4, <1>5, <1>6 DEF SuccessInvariant

\* Start and its goroutine complete no step and open nothing, and they insert
\* the rows before they go on to anything else.
LEMMA StartSuccess ==
    ASSUME SuccessInvariant, TypeOK', StartSession \/ RunStart \/ StartStops
    PROVE  SuccessInvariant'
<1> USE DEF StartSession, RunStart, StartStops, CreateStartStep, HashPassword, MarkSessionInProgress,
     MarkStepInProgress, PublishCommand, FailStartStep, FailStartSession, rows, inbox, accounts, client
<1>1. TypeOK /\ RowsComeFirst
  BY DEF SuccessInvariant
<1>2. pc' = pc /\ outcome' = outcome /\ profile' = profile /\ notified' = notified
  OBVIOUS
<1>3. session' = session \/ session' \in {"started", "in_progress", "failed"}
  OBVIOUS
<1>4. \A k \in InitialSteps : /\ steps'[k] = "completed" => steps[k] = "completed"
                              /\ steps[k] # "none" => steps'[k] # "none"
  BY <1>1 DEF InsertStep, WriteStep, NextStepStatus, TypeOK, StepKeys, InitialSteps
<1>5. RowsComeFirst'
  <2>1. CASE StartSession \/ (StartStops /\ ~RowsRelied)
    BY <1>1, <1>2, <2>1 DEF RowsComeFirst, RowsRelied, RowsStored
  <2>2. CASE CreateStartStep("create_user", "user", "create_auth")
    <3>1. steps'["user"] # "none" /\ starter' = "create_auth" /\ session' = session /\ commands' = commands
      BY <1>1, <2>2 DEF InsertStep, TypeOK, StepKeys, InitialSteps
    <3>2. QED
      BY <1>1, <1>2, <1>4, <3>1 DEF RowsComeFirst, RowsRelied, RowsStored
  <2>3. CASE CreateStartStep("create_auth", "auth", "create_mail")
    <3>1. /\ steps'["auth"] # "none" /\ starter' = "create_mail" /\ session' = session
          /\ commands' = commands /\ steps["user"] # "none"
      BY <1>1, <2>3 DEF InsertStep, TypeOK, StepKeys, InitialSteps, RowsComeFirst
    <3>2. QED
      BY <1>1, <1>2, <1>4, <3>1 DEF RowsComeFirst, RowsRelied, RowsStored, InitialSteps
  <2>4. CASE CreateStartStep("create_mail", "mail", "hash")
    <3>1. /\ steps'["mail"] # "none" /\ steps["user"] # "none" /\ steps["auth"] # "none"
          /\ starter' = "hash"
      BY <1>1, <2>4 DEF InsertStep, TypeOK, StepKeys, InitialSteps, RowsComeFirst
    <3>2. RowsStored'
      BY <1>4, <3>1 DEF RowsStored, InitialSteps
    <3>3. QED
      BY <3>2 DEF RowsComeFirst, RowsStored, InitialSteps
  <2>5. CASE RowsRelied
    BY <1>4, <2>5, RowsFrame
  <2>6. QED
    BY <2>1, <2>2, <2>3, <2>4, <2>5 DEF RowsRelied
<1>6. QED
  BY <1>2, <1>3, <1>4, <1>5, SuccessFrame DEF OpenStatus

\* A service reports on a command, which Start sent after the rows were stored.
LEMMA ReportSuccess ==
    ASSUME SuccessInvariant, TypeOK', NEW r \in Results, NEW o \in {"success", "failed"},
           DownstreamReports(r, o)
    PROVE  SuccessInvariant'
<1>1. TypeOK /\ RowsComeFirst
  BY DEF SuccessInvariant
<1>2. RowsRelied
  <2>1. commands # {} \/ \E a \in Results : outcome[a] # "none"
    BY DEF DownstreamReports, Answerable
  <2>2. QED
    BY <2>1 DEF RowsRelied
<1>3. RowsComeFirst'
  BY <1>2, RowsFrame DEF DownstreamReports, rows
<1>4. \A a \in Results : outcome[a] = "success" => outcome'[a] = "success"
  BY <1>1 DEF DownstreamReports, TypeOK
<1>5. \A q \in Requests : pc'[q] = pc[q]
  BY <1>1, SagaAssumption DEF DownstreamReports, TypeOK, PcTypeOK, Processes
<1>6. QED
  BY <1>3, <1>4, <1>5, SuccessFrame DEF DownstreamReports, rows, client

\* What a reconciliation derives: the session opens only on three successes.
LEMMA SyncOpens ==
    ASSUME SuccessInvariant, NEW p \in Processes, SyncSession(p)
    PROVE  session' \in OpenStatus => AllSucceeded
<1>1. RowsRelied
  BY DEF SyncSession, Goto, RowsRelied
<1>2. RowsStored
  BY <1>1 DEF SuccessInvariant, RowsComeFirst
<1>3. session' \in OpenStatus => \A k \in InitialSteps : steps[k] = "completed"
  BY <1>2 DEF SyncSession, ReconciledStatus, OpenStatus, RowsStored, StepKeys
<1>4. QED
  BY <1>3 DEF SuccessInvariant, CompletedStepsWereReported, AllSucceeded

\* A result handler completes the step whose success was reported.
LEMMA ResultSuccess ==
    ASSUME SuccessInvariant, TypeOK', NEW r \in Results, HandleResult(r) \/ HandlerFails(r)
    PROVE  SuccessInvariant'
<1> USE DEF HandleResult, ClaimResult, UpdateResultStep, StartMailStep, PublishCodeSent, NotifyCodeSent,
     HandlerFails, SyncSession, Compensate, FailSession, DeactivateUser, DeactivateAuth, PublishFailed
<1>1. TypeOK /\ r \in Processes /\ StepOf[r] \in InitialSteps
  BY SagaAssumption DEF SuccessInvariant, Processes
<1>2. outcome' = outcome
  BY DEF inbox
<1>3. \A q \in Requests : pc'[q] = pc[q]
  <2>1. PICK to : pc' = [pc EXCEPT ![r] = to]
    BY DEF Goto
  <2>2. QED
    BY <1>1, <2>1, SagaAssumption DEF TypeOK, PcTypeOK, Processes
<1>4. \A k \in InitialSteps : steps'[k] = "completed" => steps[k] = "completed" \/ Succeeded(k)
  BY <1>1 DEF rows, WriteStep, NextStepStatus, Succeeded, TypeOK, StepKeys
<1>5. \A k \in InitialSteps : steps[k] # "none" => steps'[k] # "none"
  BY <1>1 DEF rows, WriteStep, NextStepStatus, TypeOK, StepKeys
<1>6. RowsRelied
  BY <1>1 DEF RowsRelied, Goto
<1>7. RowsComeFirst'
  BY <1>5, <1>6, RowsFrame
<1>8. session' \in OpenStatus => session \in OpenStatus \/ AllSucceeded
  BY <1>1, SyncOpens DEF rows, OpenStatus
<1>9. profile' = "active" => profile = "active"
  BY DEF accounts
<1>10. notified' => notified \/ AllSucceeded
  BY DEF client, SuccessInvariant, OpenStatus
<1>11. QED
  BY <1>2, <1>3, <1>4, <1>7, <1>8, <1>9, <1>10, SuccessFrame

\* VerifyEmail inserts the verification step only after it has read
\* code_sent, and only its goroutine completes and activates.
LEMMA RequestSuccess ==
    ASSUME SuccessInvariant, TypeOK', NEW q \in Requests,
           VerifyEmail(q) \/ ServeRequest(q) \/ RequestFails(q) \/ VerificationFails(q)
    PROVE  SuccessInvariant'
<1> USE DEF VerifyEmail, ServeRequest, RequestFails, VerificationFails, RereadSession, SyncSession,
     Compensate, FailSession, DeactivateUser, DeactivateAuth, PublishFailed, CreateVerificationStep,
     SetSession, SetVerificationStep, VerifyCode, ActivateUser, PublishCompleted, FailVerificationStep
<1>1. TypeOK /\ q \in Processes /\ q \notin Results
  BY SagaAssumption DEF SuccessInvariant, Processes
<1>2. outcome' = outcome /\ notified' = notified
  BY DEF inbox, client
<1>3. \A k \in InitialSteps : steps'[k] = steps[k]
  BY <1>1 DEF rows, WriteStep, InsertStep, TypeOK, StepKeys, InitialSteps
<1>4. RowsRelied
  BY <1>1, SagaAssumption DEF RowsRelied, Goto
<1>5. RowsComeFirst'
  BY <1>3, <1>4, RowsFrame
<1>6. PICK to : pc' = [pc EXCEPT ![q] = to]
  BY DEF Goto
<1>7. to \in OpenLabels => pc[q] \in OpenLabels \/ session = "code_sent"
  BY <1>1, <1>6 DEF Goto, OpenLabels, VerifierLabels, AfterCompensation, TypeOK, PcTypeOK
<1>8. \A p \in Requests : pc'[p] \in OpenLabels => pc[p] \in OpenLabels \/ AllSucceeded
  BY <1>1, <1>6, <1>7 DEF SuccessInvariant, OpenStatus, TypeOK, PcTypeOK, Processes
<1>9. session' \in OpenStatus => session \in OpenStatus \/ AllSucceeded
  BY <1>1, SyncOpens DEF rows, OpenStatus, SuccessInvariant, OpenLabels, VerifierLabels, Goto
<1>10. profile' = "active" => profile = "active" \/ AllSucceeded
  BY DEF accounts, SuccessInvariant, OpenLabels, VerifierLabels, Goto
<1>11. QED
  BY <1>2, <1>3, <1>5, <1>8, <1>9, <1>10, SuccessFrame

\* Status queries read and claim an open session.
LEMMA QuerySuccess ==
    ASSUME SuccessInvariant, TypeOK', NEW g \in Queries,
           GetRegistrationStatus(g) \/ ClaimCompleted(g) \/ ClaimFails(g)
    PROVE  SuccessInvariant'
<1> USE DEF GetRegistrationStatus, ClaimCompleted, ClaimFails
<1>1. TypeOK /\ g \in Processes /\ g \notin Requests
  BY SagaAssumption DEF SuccessInvariant, Processes
<1>2. steps' = steps /\ outcome' = outcome /\ profile' = profile /\ notified' = notified
  BY DEF rows, inbox, accounts, client
<1>3. \A q \in Requests : pc'[q] = pc[q]
  BY <1>1 DEF Goto, TypeOK, PcTypeOK, Processes
<1>4. RowsRelied
  BY <1>1 DEF RowsRelied, Goto
<1>5. RowsComeFirst'
  BY <1>2, <1>4, RowsFrame
<1>6. session' \in OpenStatus => session \in OpenStatus
  BY DEF rows, OpenStatus
<1>7. QED
  BY <1>2, <1>3, <1>5, <1>6, SuccessFrame

\* A restart forgets; what was relied on before may be relied on after.
LEMMA RestartSuccess == SuccessInvariant /\ TypeOK' /\ Restart => SuccessInvariant'
<1> SUFFICES ASSUME SuccessInvariant, TypeOK', Restart PROVE SuccessInvariant'
  OBVIOUS
<1>1. session' = session /\ steps' = steps /\ outcome' = outcome /\ commands' = commands
  BY DEF Restart, rows, inbox
<1>2. \A q \in Requests : pc'[q] = "idle"
  BY SagaAssumption DEF Restart, Processes
<1>3. RowsRelied' => RowsRelied
  BY <1>1 DEF Restart, RowsRelied
<1>4. RowsComeFirst'
  BY <1>1, <1>3 DEF Restart, SuccessInvariant, RowsComeFirst, RowsStored
<1>5. QED
  BY <1>1, <1>2, <1>4, SuccessFrame DEF Restart, accounts, OpenLabels, VerifierLabels

\* SuccessInvariant is inductive.
LEMMA NextSuccess == SuccessInvariant /\ TypeOK' /\ [Next]_vars => SuccessInvariant'
<1> SUFFICES ASSUME SuccessInvariant, TypeOK', [Next]_vars PROVE SuccessInvariant'
  OBVIOUS
<1>1. CASE UNCHANGED vars
  <2>1. RowsComeFirst'
    BY <1>1 DEF vars, rows, inbox, SuccessInvariant, RowsComeFirst, RowsRelied, RowsStored
  <2>2. QED
    BY <1>1, <2>1, SuccessFrame DEF vars, rows, inbox, accounts, client
<1>2. CASE Next
  BY <1>2, StartSuccess, ReportSuccess, ResultSuccess, RequestSuccess, QuerySuccess, RestartSuccess DEF Next
<1>3. QED
  BY <1>1, <1>2

\* The invariant holds in every reachable state, whatever fails.
THEOREM SuccessIsRecorded == Spec => []SuccessInvariant
BY InitSuccess, NextSuccess, TypeCorrect, PTL DEF Spec

\* A profile is active, and a session completed, only when user-service,
\* auth-service and mail-service have all reported success: no stale status,
\* restart, fault or ambiguous error lets VerifyEmail open an account earlier.
THEOREM ActivationIsEarned == Spec => []ActivationFollowsAllResults
<1>1. SuccessInvariant => ActivationFollowsAllResults
  BY DEF SuccessInvariant, ActivationFollowsAllResults, OpenStatus
<1>2. QED
  BY <1>1, SuccessIsRecorded, PTL

\* publishCodeSentIfReady notifies the client only after three successes.
THEOREM NoticesAreTruthful == Spec => []NoticeIsTruthful
<1>1. SuccessInvariant => NoticeIsTruthful
  BY DEF SuccessInvariant, NoticeIsTruthful
<1>2. QED
  BY <1>1, SuccessIsRecorded, PTL

-----------------------------------------------------------------------------
(* A registration is rejected or concluded, never both.                    *)

\* A registration whose services all succeeded is not rejected.
LEMMA SuccessExcludesRejection ==
    PlainAnswers /\ TypeOK /\ CommandComesLast /\ AllSucceeded => ~Rejected
<1> SUFFICES ASSUME PlainAnswers, TypeOK, CommandComesLast, AllSucceeded PROVE ~Rejected
  OBVIOUS
<1>1. PICK a \in Results : StepOf[a] = "auth" /\ outcome[a] = "success"
  BY DEF AllSucceeded, Succeeded, InitialSteps
<1>2. "auth" \in commands
  BY <1>1 DEF CommandComesLast
<1>3. \A r \in Results : outcome[r] # "failed"
  <2> SUFFICES ASSUME NEW r \in Results PROVE outcome[r] # "failed"
    OBVIOUS
  <2>1. PICK s \in Results : StepOf[s] = StepOf[r] /\ outcome[s] = "success"
    BY SagaAssumption DEF AllSucceeded, Succeeded
  <2>2. QED
    BY <2>1 DEF PlainAnswers
<1>4. QED
  BY <1>2, <1>3 DEF Rejected

\* Rejection is final: no failure is taken back, and Start sends nothing after
\* it has ended.
LEMMA RejectedForGood ==
    ASSUME TypeOK, CommandComesLast, Rejected, [Next]_vars
    PROVE  Rejected'
<1>1. CASE StartSession \/ RunStart \/ StartStops
  BY <1>1
  DEF StartSession, RunStart, StartStops, CreateStartStep, HashPassword, MarkSessionInProgress,
      MarkStepInProgress, PublishCommand, FailStartStep, FailStartSession, inbox, Rejected
<1>2. ASSUME NEW r \in Results, NEW o \in {"success", "failed"}, DownstreamReports(r, o)
      PROVE  Rejected'
  BY <1>2 DEF DownstreamReports, Rejected, TypeOK
<1>3. CASE Restart
  BY <1>3 DEF Restart, inbox, Rejected
<1>4. CASE UNCHANGED <<starter, inbox>>
  BY <1>4 DEF inbox, Rejected
<1>5. QED
  BY <1>1, <1>2, <1>3, <1>4
  DEF Next, vars, HandleResult, ClaimResult, UpdateResultStep, StartMailStep, PublishCodeSent, NotifyCodeSent,
      HandlerFails, SyncSession, Compensate, FailSession, DeactivateUser, DeactivateAuth, PublishFailed,
      VerifyEmail, ServeRequest, RequestFails, VerificationFails, RereadSession, CreateVerificationStep,
      SetSession, SetVerificationStep, VerifyCode, ActivateUser, PublishCompleted, FailVerificationStep,
      GetRegistrationStatus, ClaimCompleted, ClaimFails

\* The command to auth-service stays the last thing Start does.
LEMMA NextCommand ==
    ASSUME PlainAnswers, TypeOK, CommandComesLast, [Next]_vars
    PROVE  CommandComesLast'
<1>1. CASE StartSession \/ RunStart \/ StartStops
  BY <1>1
  DEF StartSession, RunStart, StartStops, CreateStartStep, HashPassword, MarkSessionInProgress,
      MarkStepInProgress, PublishCommand, FailStartStep, FailStartSession, inbox, CommandComesLast, PlainAnswers
<1>2. ASSUME NEW r \in Results, NEW o \in {"success", "failed"}, DownstreamReports(r, o)
      PROVE  CommandComesLast'
  BY <1>2 DEF DownstreamReports, Answerable, CommandComesLast, TypeOK
<1>3. CASE Restart
  BY <1>3 DEF Restart, inbox, CommandComesLast
<1>4. CASE UNCHANGED <<starter, inbox>>
  BY <1>4 DEF inbox, CommandComesLast
<1>5. QED
  BY <1>1, <1>2, <1>3, <1>4
  DEF Next, vars, HandleResult, ClaimResult, UpdateResultStep, StartMailStep, PublishCodeSent, NotifyCodeSent,
      HandlerFails, SyncSession, Compensate, FailSession, DeactivateUser, DeactivateAuth, PublishFailed,
      VerifyEmail, ServeRequest, RequestFails, VerificationFails, RereadSession, CreateVerificationStep,
      SetSession, SetVerificationStep, VerifyCode, ActivateUser, PublishCompleted, FailVerificationStep,
      GetRegistrationStatus, ClaimCompleted, ClaimFails

\* the parts of the invariant whose preservation is proved above
ProvenNext == ClaimInvariant' /\ SuccessInvariant' /\ CommandComesLast' /\ (Rejected => Rejected')

\* A step of anyone but a verifier: it neither concludes nor disturbs a
\* conclusion, and makes trouble only for a cause that excludes one.
LEMMA OutcomeFrame ==
    ASSUME PlainAnswers, OutcomeInvariant, ProvenNext,
           \A k \in InitialSteps : steps'[k] = "failed" => steps[k] = "failed" \/ Rejected',
           \A r \in Results : pc'[r] # "idle" => pc[r] # "idle" \/ outcome'[r] # "none",
           \A r \in Results : outcome[r] # "none" => outcome'[r] # "none",
           steps'["verify"] = steps["verify"], steps'["activate"] = steps["activate"],
           Troubled' => \/ Troubled \/ Rejected'
                        \/ steps["verify"] = "failed" \/ steps["activate"] = "failed",
           "completed" \in events' => "completed" \in events,
           session' \in {"completed", "tokens_claimed"} => session \in {"completed", "tokens_claimed"},
           \A q \in Requests : pc'[q] \in VerifierLabels \cup {"publish_completed"} => pc'[q] = pc[q],
           AllSucceeded => AllSucceeded',
           profile' # profile => profile = "absent" \/ Troubled,
           credential' # credential => credential = "absent" \/ Troubled
    PROVE  OutcomeInvariant'
<1> USE DEF OutcomeInvariant, ProvenNext
<1>1. Concluding' => Concluding
  BY DEF Concluding
<1>2. AllSucceeded' => ~Rejected'
  <2>1. (PlainAnswers /\ TypeOK /\ CommandComesLast /\ AllSucceeded => ~Rejected)'
    BY SuccessExcludesRejection, PTL
  <2>2. QED
    BY <2>1 DEF ClaimInvariant, PlainAnswers
<1>3. TroubleHasCause'
  BY DEF TroubleHasCause
<1>4. ConcludedInPeace'
  BY <1>1, <1>2 DEF ConcludedInPeace
<1>5. VerifierBeforeConclusion'
  BY DEF VerifierBeforeConclusion, Verifying, VerifierLabels
<1>6. Verified \cup Activated \cup {"set_verifying", "verify_code"} \subseteq VerifierLabels \cup {"publish_completed"}
  BY DEF Verified, Activated, VerifierLabels
<1>7. \A q \in Requests : pc'[q] \in Verified \cup Activated \cup {"set_verifying", "verify_code"} =>
         pc'[q] = pc[q] /\ ~Troubled
  BY <1>6 DEF ConcludedInPeace, Concluding
<1>8. Backing'
  BY <1>7 DEF Backing, Activated
<1>9. CompletedIsBacked'
  BY DEF CompletedIsBacked, ConcludedInPeace, Concluding
<1>10. QED
  BY <1>3, <1>4, <1>5, <1>8, <1>9

\* Initially nothing is decided.
LEMMA InitOutcome == Init => OutcomeInvariant
<1> SUFFICES ASSUME Init PROVE OutcomeInvariant
  OBVIOUS
<1>1. ClaimInvariant /\ SuccessInvariant
  BY InitClaim, InitSuccess
<1> USE DEF Init
<1>2. \A p \in Processes : pc[p] = "idle"
  OBVIOUS
<1>3. CommandComesLast
  BY DEF CommandComesLast
<1>4. ~Troubled /\ ~Concluding
  BY <1>2 DEF Troubled, Concluding, TroubleLabels, CompensationLabels, ClosingLabels, VerifierLabels, Processes
<1>5. TroubleHasCause
  BY <1>2, <1>4 DEF TroubleHasCause, StepKeys, Processes
<1>6. ConcludedInPeace /\ CompletedIsBacked
  BY <1>4 DEF ConcludedInPeace, CompletedIsBacked
<1>7. VerifierBeforeConclusion /\ Backing
  BY <1>2 DEF VerifierBeforeConclusion, Backing, Verifying, VerifierLabels, Verified, Activated, Processes
<1>8. QED
  BY <1>1, <1>3, <1>5, <1>6, <1>7 DEF OutcomeInvariant

\* Start fails a step only when its last command was not sent.
LEMMA StartOutcome ==
    ASSUME PlainAnswers, OutcomeInvariant, ProvenNext, StartSession \/ RunStart \/ StartStops
    PROVE  OutcomeInvariant'
<1> USE DEF StartSession, RunStart, StartStops, CreateStartStep, HashPassword, MarkSessionInProgress,
     MarkStepInProgress, PublishCommand, FailStartStep, FailStartSession, rows, inbox, accounts, client
<1>1. TypeOK /\ CommandComesLast
  BY DEF OutcomeInvariant, SuccessInvariant
<1>2. /\ pc' = pc /\ outcome' = outcome /\ profile' = profile /\ credential' = credential
      /\ events' = events /\ steps'["verify"] = steps["verify"] /\ steps'["activate"] = steps["activate"]
  BY <1>1 DEF InsertStep, WriteStep, TypeOK, StepKeys, InitialSteps
<1>3. session' = session \/ session' \in {"started", "in_progress", "failed"}
  OBVIOUS
<1>4. \A k \in InitialSteps : steps'[k] = "failed" => steps[k] = "failed" \/ Rejected'
  BY <1>1 DEF InsertStep, WriteStep, NextStepStatus, TypeOK, StepKeys, InitialSteps, Rejected, CommandComesLast
<1>5. (Troubled' <=> Troubled) /\ (AllSucceeded' <=> AllSucceeded)
  BY <1>2 DEF Troubled, AllSucceeded, Succeeded
<1>6. QED
  BY <1>2, <1>3, <1>4, <1>5, OutcomeFrame DEF VerifierLabels

\* A report adds to what is known.
LEMMA ReportOutcome ==
    ASSUME PlainAnswers, OutcomeInvariant, ProvenNext, NEW r \in Results,
           NEW o \in {"success", "failed"}, DownstreamReports(r, o)
    PROVE  OutcomeInvariant'
<1> USE DEF DownstreamReports, rows, client
<1>1. TypeOK /\ r \in Processes /\ r \notin Requests
  BY SagaAssumption DEF OutcomeInvariant, SuccessInvariant, Processes
<1>2. /\ \A a \in Results : outcome[a] # "none" => outcome'[a] = outcome[a]
      /\ outcome'[r] # "none"
  BY <1>1 DEF TypeOK
<1>3. \A p \in Processes : pc'[p] = IF p = r THEN "queued" ELSE pc[p]
  BY <1>1 DEF TypeOK, PcTypeOK
<1>4. Troubled' => Troubled
  BY <1>3 DEF Troubled, TroubleLabels, CompensationLabels, ClosingLabels
<1>5. AllSucceeded => AllSucceeded'
  BY <1>2 DEF AllSucceeded, Succeeded
<1>6. QED
  BY <1>1, <1>2, <1>3, <1>4, <1>5, OutcomeFrame DEF Processes, VerifierLabels

\* A reconciliation that finds a failed step finds its cause.
LEMMA SyncTrouble ==
    ASSUME OutcomeInvariant, NEW p \in Processes, SyncSession(p), session' = "failed"
    PROVE  Rejected \/ steps["verify"] = "failed" \/ steps["activate"] = "failed"
BY DEF SyncSession, ReconciledStatus, OutcomeInvariant, TroubleHasCause, StepKeys

\* A handler compensates for a reported failure or for a failed step.
LEMMA ResultOutcome ==
    ASSUME PlainAnswers, OutcomeInvariant, ProvenNext, NEW r \in Results,
           HandleResult(r) \/ HandlerFails(r)
    PROVE  OutcomeInvariant'
<1> USE DEF HandleResult, ClaimResult, UpdateResultStep, StartMailStep, PublishCodeSent, NotifyCodeSent,
     HandlerFails, Compensate, FailSession, DeactivateUser, DeactivateAuth, PublishFailed
<1>1. TypeOK /\ r \in Processes /\ r \notin Requests /\ StepOf[r] \in InitialSteps /\ "ambiguous" \notin Faults
  BY SagaAssumption DEF OutcomeInvariant, SuccessInvariant, Processes, PlainAnswers
<1>2. outcome' = outcome /\ starter' = starter /\ commands' = commands
  BY DEF inbox, SyncSession
<1>3. PICK to : pc' = [pc EXCEPT ![r] = to]
  BY DEF Goto, SyncSession
<1>4. \A p \in Processes : pc'[p] = IF p = r THEN to ELSE pc[p]
  BY <1>1, <1>3 DEF TypeOK, PcTypeOK
<1>5. outcome[r] # "none"
  <2>1. pc[r] # "idle"
    BY DEF Goto, SyncSession
  <2>2. QED
    BY <2>1 DEF OutcomeInvariant, TroubleHasCause
<1>6. \A k \in InitialSteps : steps'[k] = "failed" => steps[k] = "failed" \/ Rejected'
  BY <1>1, <1>2, <1>5 DEF rows, WriteStep, NextStepStatus, TypeOK, StepKeys, Rejected, SyncSession
<1>7. steps'["verify"] = steps["verify"] /\ steps'["activate"] = steps["activate"]
  BY <1>1 DEF rows, WriteStep, TypeOK, StepKeys, InitialSteps, SyncSession
<1>8. Troubled' => Troubled \/ Rejected' \/ steps["verify"] = "failed" \/ steps["activate"] = "failed"
  <2>1. ASSUME events' = events, to \in TroubleLabels => Rejected' \/ steps["verify"] = "failed"
                                                          \/ steps["activate"] = "failed"
        PROVE  Troubled' => \/ Troubled \/ Rejected'
                            \/ steps["verify"] = "failed" \/ steps["activate"] = "failed"
    BY <1>4, <2>1 DEF Troubled
  <2>2. CASE UpdateResultStep(r)
    <3>1. to = AfterUpdateStep(r) /\ events' = events
      BY <1>1, <1>3, <2>2 DEF Goto, TypeOK, PcTypeOK
    <3>2. outcome[r] # "failed" => to \notin TroubleLabels
      BY <1>1, <3>1 DEF AfterUpdateStep, InitialSteps, TroubleLabels, CompensationLabels, ClosingLabels
    <3>3. outcome[r] = "failed" => Rejected'
      BY <1>2 DEF Rejected
    <3>4. QED
      BY <2>1, <3>1, <3>2, <3>3
  <2>3. CASE SyncSession(r)
    <3>1. to \in TroubleLabels => session' = "failed"
      BY <1>1, <1>3, <2>3 DEF SyncSession, Goto, TypeOK, PcTypeOK, TroubleLabels, CompensationLabels, ClosingLabels
    <3>2. Rejected => Rejected'
      BY DEF ProvenNext
    <3>3. QED
      BY <1>1, <2>1, <2>3, <3>1, <3>2, SyncTrouble DEF SyncSession
  <2>4. CASE Compensate(r)
    <3>1. pc[r] \in TroubleLabels
      BY <2>4 DEF Goto, TroubleLabels, CompensationLabels, ClosingLabels
    <3>2. QED
      BY <1>1, <3>1 DEF Troubled
  <2>5. CASE ClaimResult(r) \/ StartMailStep(r) \/ PublishCodeSent(r) \/ NotifyCodeSent(r) \/ HandlerFails(r)
    BY <1>1, <1>3, <1>4, <2>5 DEF Goto, Troubled, TroubleLabels, CompensationLabels, ClosingLabels, TypeOK, PcTypeOK
  <2>6. QED
    BY <2>2, <2>3, <2>4, <2>5
<1>9. "completed" \in events' => "completed" \in events
  BY DEF SyncSession
<1>10. session' \in {"completed", "tokens_claimed"} => session \in {"completed", "tokens_claimed"}
  BY ReconciledStatusType DEF SyncSession, rows
<1>11. /\ profile' # profile => Troubled
       /\ credential' # credential => Troubled
  BY <1>1 DEF accounts, Goto, Troubled, TroubleLabels, CompensationLabels, ClosingLabels, SyncSession
<1>12. AllSucceeded => AllSucceeded'
  BY <1>2 DEF AllSucceeded, Succeeded
<1>13. QED
  BY <1>1, <1>2, <1>4, <1>5, <1>6, <1>7, <1>8, <1>9, <1>10, <1>11, <1>12, OutcomeFrame DEF Processes

\* Status queries conclude nothing.
LEMMA QueryOutcome ==
    ASSUME PlainAnswers, OutcomeInvariant, ProvenNext, NEW g \in Queries,
           GetRegistrationStatus(g) \/ ClaimCompleted(g) \/ ClaimFails(g)
    PROVE  OutcomeInvariant'
<1> USE DEF GetRegistrationStatus, ClaimCompleted, ClaimFails
<1>1. TypeOK /\ g \in Processes /\ g \notin Requests /\ g \notin Results
  BY SagaAssumption DEF OutcomeInvariant, SuccessInvariant, Processes
<1>2. /\ steps' = steps /\ outcome' = outcome /\ profile' = profile /\ credential' = credential
      /\ events' = events /\ commands' = commands /\ starter' = starter
  BY DEF rows, inbox, accounts
<1>3. \A p \in Processes : p # g => pc'[p] = pc[p]
  BY <1>1 DEF Goto, TypeOK, PcTypeOK
<1>4. Troubled' => Troubled
  BY <1>1, <1>2, <1>3 DEF Troubled, Goto, TroubleLabels, CompensationLabels, ClosingLabels, TypeOK, PcTypeOK
<1>5. AllSucceeded => AllSucceeded'
  BY <1>2 DEF AllSucceeded, Succeeded
<1>6. session' \in {"completed", "tokens_claimed"} => session \in {"completed", "tokens_claimed"}
  BY DEF rows
<1>7. QED
  BY <1>1, <1>2, <1>3, <1>4, <1>5, <1>6, OutcomeFrame DEF Processes

\* A restart ends trouble and conclusions.
LEMMA RestartOutcome ==
    ASSUME PlainAnswers, OutcomeInvariant, ProvenNext, Restart
    PROVE  OutcomeInvariant'
<1> USE DEF Restart, rows, inbox, accounts
<1>1. \A p \in Processes : pc'[p] = pc[p] \/ pc'[p] \in {"idle", "lost"}
  OBVIOUS
<1>2. \A q \in Requests : pc'[q] = "idle"
  BY SagaAssumption DEF Processes
<1>3. \A r \in Results : pc'[r] # "idle" => pc[r] # "idle"
  BY DEF Processes
<1>4. Troubled' => Troubled
  BY <1>1 DEF Troubled, TroubleLabels, CompensationLabels, ClosingLabels
<1>5. AllSucceeded => AllSucceeded'
  BY DEF AllSucceeded, Succeeded
<1>6. QED
  BY <1>2, <1>3, <1>4, <1>5, OutcomeFrame DEF VerifierLabels

\* A request that moves on, or ends, outside of the verifier's calls.
LEMMA RequestQuiet ==
    ASSUME PlainAnswers, OutcomeInvariant, ProvenNext, NEW q \in Requests, NEW from, NEW to,
           Goto(q, from, to), to \notin VerifierLabels \cup {"publish_completed"},
           UNCHANGED <<steps, starter, inbox, credential>> \/ (Troubled /\ UNCHANGED <<steps, starter, inbox>>),
           "completed" \in events' => "completed" \in events,
           "failed" \in events' => Troubled,
           to \in TroubleLabels => \/ Troubled \/ Rejected
                                   \/ steps["verify"] = "failed" \/ steps["activate"] = "failed",
           session' \in {"completed", "tokens_claimed"} => session \in {"completed", "tokens_claimed"},
           profile' # profile => Troubled
    PROVE  OutcomeInvariant'
<1>1. TypeOK /\ q \in Processes /\ q \notin Results
  BY SagaAssumption DEF OutcomeInvariant, SuccessInvariant, Processes
<1>2. \A p \in Processes : pc'[p] = IF p = q THEN to ELSE pc[p]
  BY <1>1 DEF Goto, TypeOK, PcTypeOK
<1>3. outcome' = outcome /\ steps' = steps
  BY DEF inbox
<1>4. Rejected => Rejected'
  BY DEF ProvenNext
<1>5. Troubled' => \/ Troubled \/ Rejected'
                   \/ steps["verify"] = "failed" \/ steps["activate"] = "failed"
  BY <1>2, <1>4 DEF Troubled
<1>6. AllSucceeded => AllSucceeded'
  BY <1>3 DEF AllSucceeded, Succeeded
<1>7. credential' # credential => Troubled
  OBVIOUS
<1>8. QED
  BY <1>1, <1>2, <1>3, <1>5, <1>6, <1>7, OutcomeFrame DEF Processes

\* What holds while a request verifies: it is the only one, in peace.
LEMMA VerifierAlone ==
    ASSUME PlainAnswers, OutcomeInvariant, NEW q \in Requests, Verifying(q)
    PROVE  /\ AllSucceeded /\ ~Rejected /\ ~Troubled
           /\ steps["verify"] \notin {"none", "failed"} /\ steps["activate"] # "failed"
           /\ "completed" \notin events /\ session \notin {"completed", "tokens_claimed"}
           /\ \A p \in Requests \ {q} : pc[p] \notin VerifierLabels \cup {"publish_completed"}
<1> USE DEF OutcomeInvariant
<1>1. Concluding
  BY DEF Concluding, Verifying
<1>2. AllSucceeded /\ ~Troubled /\ steps["verify"] # "failed" /\ steps["activate"] # "failed"
  BY <1>1 DEF ConcludedInPeace
<1>3. ~Rejected
  BY <1>2, SuccessExcludesRejection DEF ClaimInvariant
<1>4. "completed" \notin events /\ session \notin {"completed", "tokens_claimed"}
  BY DEF VerifierBeforeConclusion
<1>5. \A p \in Requests \ {q} : pc[p] \notin VerifierLabels \cup {"publish_completed"}
  BY DEF VerifierBeforeConclusion, ClaimInvariant, SingleVerifier, Verifying
<1>6. steps["verify"] # "none"
  BY DEF ClaimInvariant, NoVerifierBeforeStep, Verifying, EntryLabels, CompensationLabels, VerifierLabels
<1>7. QED
  BY <1>2, <1>3, <1>4, <1>5, <1>6

\* The verifier goes on to its next call, the write of "completed" included.
LEMMA VerifierAdvances ==
    ASSUME PlainAnswers, OutcomeInvariant, ProvenNext, NEW q \in Requests, Verifying(q), NEW from, NEW to,
           Goto(q, from, to), to \in VerifierLabels \cup {"publish_completed"},
           UNCHANGED <<starter, inbox, events>>,
           \A k \in InitialSteps : steps'[k] = steps[k],
           steps'["verify"] \notin {"none", "failed"}, steps'["activate"] # "failed",
           session' \in {"completed", "tokens_claimed"} => to = "publish_completed",
           to \in Verified \cup Activated => credential' = "verified",
           to \in Activated => profile' = "active",
           to \in Verified \cup Activated \cup {"set_verifying", "verify_code"} => steps'["activate"] # "none",
           to \in {"set_completed", "publish_completed"} => steps'["activate"] = "completed"
    PROVE  OutcomeInvariant'
<1>1. TypeOK /\ q \in Processes /\ q \notin Results
  BY SagaAssumption DEF OutcomeInvariant, SuccessInvariant, Processes
<1>2. \A p \in Processes : pc'[p] = IF p = q THEN to ELSE pc[p]
  BY <1>1 DEF Goto, TypeOK, PcTypeOK
<1>3. /\ AllSucceeded /\ ~Rejected /\ ~Troubled /\ "completed" \notin events
      /\ \A p \in Requests \ {q} : pc'[p] \notin VerifierLabels \cup {"publish_completed"}
  BY <1>2, VerifierAlone DEF Processes
<1>4. ~Troubled'
  BY <1>2, <1>3 DEF Troubled, TroubleLabels, CompensationLabels, ClosingLabels, VerifierLabels
<1>5. AllSucceeded'
  BY <1>3 DEF AllSucceeded, Succeeded, inbox
<1>6. TroubleHasCause'
  BY <1>1, <1>2, <1>3, <1>4 DEF OutcomeInvariant, TroubleHasCause, inbox, Processes
<1>7. ConcludedInPeace'
  BY <1>4, <1>5 DEF ConcludedInPeace
<1>8. VerifierBeforeConclusion'
  BY <1>1, <1>2, <1>3 DEF VerifierBeforeConclusion, Verifying, VerifierLabels
<1>9. Backing'
  BY <1>1, <1>2, <1>3 DEF Backing, Verified, Activated, VerifierLabels
<1>10. CompletedIsBacked'
  BY DEF CompletedIsBacked, Activated
<1>11. QED
  BY <1>6, <1>7, <1>8, <1>9, <1>10 DEF OutcomeInvariant, ProvenNext

\* The verifier fails: nothing is concluded, now or later.
LEMMA VerifierFails ==
    ASSUME PlainAnswers, OutcomeInvariant, ProvenNext, NEW q \in Requests, Verifying(q), NEW from, NEW to,
           Goto(q, from, to), to \in TroubleLabels, UNCHANGED <<rows, starter, inbox, accounts, events>>
    PROVE  OutcomeInvariant'
<1>1. TypeOK /\ q \in Processes /\ q \notin Results
  BY SagaAssumption DEF OutcomeInvariant, SuccessInvariant, Processes
<1>2. \A p \in Processes : pc'[p] = IF p = q THEN to ELSE pc[p]
  BY <1>1 DEF Goto, TypeOK, PcTypeOK
<1>3. /\ "completed" \notin events /\ session \notin {"completed", "tokens_claimed"}
      /\ ~Rejected /\ ~Troubled /\ steps["verify"] # "none"
      /\ \A p \in Requests \ {q} : pc'[p] \notin VerifierLabels \cup {"publish_completed"}
  BY <1>2, VerifierAlone DEF Processes
<1>4. \A p \in Requests : pc'[p] \notin VerifierLabels \cup {"publish_completed"}
  BY <1>1, <1>2, <1>3 DEF TroubleLabels, CompensationLabels, ClosingLabels, VerifierLabels
<1>5. ~Concluding'
  BY <1>3, <1>4 DEF Concluding, rows
<1>6. TroubleHasCause'
  BY <1>1, <1>2, <1>3 DEF OutcomeInvariant, TroubleHasCause, inbox, rows, Processes
<1>7. ConcludedInPeace' /\ CompletedIsBacked' /\ VerifierBeforeConclusion'
  BY <1>4, <1>5 DEF ConcludedInPeace, CompletedIsBacked, VerifierBeforeConclusion, Verifying, Concluding
<1>8. Backing'
  BY <1>4 DEF Backing, Verified, Activated, VerifierLabels
<1>9. QED
  BY <1>6, <1>7, <1>8 DEF OutcomeInvariant, ProvenNext

\* The first call of failEmailVerification, which writes the failed step.
LEMMA FailureIsWritten ==
    ASSUME PlainAnswers, OutcomeInvariant, ProvenNext, NEW q \in Requests, NEW from \in TroubleLabels,
           NEW k \in {"verify", "activate"}, FailVerificationStep(q, from, k)
    PROVE  OutcomeInvariant'
<1>1. TypeOK /\ q \in Processes /\ q \notin Results
  BY SagaAssumption DEF OutcomeInvariant, SuccessInvariant, Processes
<1>2. pc[q] = from /\ \A p \in Processes : pc'[p] = IF p = q THEN "abandon_session" ELSE pc[p]
  BY <1>1 DEF FailVerificationStep, Goto, TypeOK, PcTypeOK
<1>3. Troubled /\ ~Concluding
  BY <1>1, <1>2 DEF Troubled, OutcomeInvariant, ConcludedInPeace
<1>4. /\ \A i \in InitialSteps : steps'[i] = steps[i]
      /\ \A j \in {"verify", "activate"} : steps'[j] = "none" <=> steps[j] = "none"
  BY <1>1 DEF FailVerificationStep, WriteStep, NextStepStatus, TypeOK, StepKeys, InitialSteps
<1>5. \A p \in Requests : pc'[p] \notin VerifierLabels \cup {"publish_completed"}
  BY <1>1, <1>2, <1>3 DEF Concluding, VerifierLabels, Processes
<1>6. ~Concluding'
  BY <1>3, <1>5 DEF Concluding, FailVerificationStep
<1>7. TroubleHasCause'
  BY <1>1, <1>2, <1>3, <1>4 DEF OutcomeInvariant, ProvenNext, TroubleHasCause, FailVerificationStep, inbox, Processes
<1>8. ConcludedInPeace' /\ CompletedIsBacked' /\ VerifierBeforeConclusion'
  BY <1>5, <1>6 DEF ConcludedInPeace, CompletedIsBacked, VerifierBeforeConclusion, Verifying, Concluding
<1>9. Backing'
  BY <1>5 DEF Backing, Verified, Activated, VerifierLabels
<1>10. QED
  BY <1>7, <1>8, <1>9 DEF OutcomeInvariant, ProvenNext

\* The completed event is published once the verifier has concluded.
LEMMA CompletedIsPublished ==
    ASSUME PlainAnswers, OutcomeInvariant, ProvenNext, NEW q \in Requests, PublishCompleted(q)
    PROVE  OutcomeInvariant'
<1> USE DEF PublishCompleted, rows, inbox, accounts
<1>1. TypeOK /\ q \in Processes /\ q \notin Results
  BY SagaAssumption DEF OutcomeInvariant, SuccessInvariant, Processes
<1>2. pc[q] = "publish_completed" /\ \A p \in Processes : pc'[p] = IF p = q THEN "idle" ELSE pc[p]
  BY <1>1 DEF Goto, TypeOK, PcTypeOK
<1>3. AllSucceeded /\ ~Troubled /\ steps["verify"] # "failed" /\ steps["activate"] # "failed"
  BY <1>2 DEF OutcomeInvariant, ConcludedInPeace, Concluding
<1>4. \A p \in Requests : ~Verifying(p)
  BY <1>2 DEF OutcomeInvariant, VerifierBeforeConclusion
<1>5. steps["verify"] # "none"
  BY <1>2 DEF OutcomeInvariant, ClaimInvariant, NoVerifierBeforeStep, EntryLabels, CompensationLabels
<1>6. ~Troubled' /\ AllSucceeded'
  BY <1>2, <1>3 DEF Troubled, AllSucceeded, Succeeded, TroubleLabels, CompensationLabels, ClosingLabels
<1>7. TroubleHasCause'
  BY <1>1, <1>2, <1>5, <1>6 DEF OutcomeInvariant, ProvenNext, TroubleHasCause, Processes
<1>8. ConcludedInPeace'
  BY <1>3, <1>6 DEF ConcludedInPeace
<1>9. \A p \in Requests : ~Verifying(p)'
  BY <1>2, <1>4 DEF Verifying, VerifierLabels, Processes
<1>10. VerifierBeforeConclusion' /\ CompletedIsBacked'
  BY <1>9 DEF OutcomeInvariant, VerifierBeforeConclusion, CompletedIsBacked
<1>11. Backing'
  BY <1>2 DEF OutcomeInvariant, Backing, Verified, Activated, Processes
<1>12. QED
  BY <1>7, <1>8, <1>10, <1>11 DEF OutcomeInvariant, ProvenNext

\* The insertion of the verification step makes the request the verifier: the
\* three successes exclude a rejection, and nothing else has made trouble.
LEMMA VerifierEnters ==
    ASSUME PlainAnswers, OutcomeInvariant, ProvenNext, NEW q \in Requests, steps["verify"] = "none",
           CreateVerificationStep(q, "create_verify", "verify", "in_progress", "create_activate")
    PROVE  OutcomeInvariant'
<1> USE DEF CreateVerificationStep, inbox, accounts
<1>1. TypeOK /\ q \in Processes /\ q \notin Results
  BY SagaAssumption DEF OutcomeInvariant, SuccessInvariant, Processes
<1>2. /\ pc[q] = "create_verify"
      /\ \A p \in Processes : pc'[p] = IF p = q THEN "create_activate" ELSE pc[p]
      /\ \A k \in StepKeys : steps'[k] = IF k = "verify" THEN "in_progress" ELSE steps[k]
  BY <1>1 DEF Goto, InsertStep, TypeOK, PcTypeOK
<1>3. AllSucceeded
  BY <1>2 DEF OutcomeInvariant, SuccessInvariant, OpenLabels
<1>4. ~Rejected
  BY <1>3, SuccessExcludesRejection DEF OutcomeInvariant, ClaimInvariant
<1>5. ~Troubled /\ steps["activate"] = "none" /\ "completed" \notin events
  BY <1>4 DEF OutcomeInvariant, TroubleHasCause
<1>6. /\ \A p \in Requests : pc[p] \notin VerifierLabels \cup {"publish_completed"}
      /\ session \notin {"completed", "tokens_claimed"}
  BY DEF OutcomeInvariant, ClaimInvariant, NoVerifierBeforeStep, EntryLabels, CompensationLabels, VerifierLabels
<1>7. ~Troubled' /\ AllSucceeded'
  BY <1>2, <1>3, <1>5 DEF Troubled, AllSucceeded, Succeeded, TroubleLabels, CompensationLabels, ClosingLabels
<1>8. TroubleHasCause'
  BY <1>1, <1>2, <1>4, <1>7 DEF OutcomeInvariant, TroubleHasCause, ProvenNext, StepKeys, Processes
<1>9. ConcludedInPeace'
  BY <1>2, <1>5, <1>7 DEF ConcludedInPeace, StepKeys
<1>10. VerifierBeforeConclusion' /\ CompletedIsBacked'
  BY <1>2, <1>5, <1>6 DEF VerifierBeforeConclusion, CompletedIsBacked, Verifying, Processes
<1>11. Backing'
  BY <1>2, <1>6 DEF Backing, Verified, Activated, VerifierLabels, Processes
<1>12. QED
  BY <1>8, <1>9, <1>10, <1>11 DEF OutcomeInvariant, ProvenNext

\* The calls VerifyEmail makes before the verification step is inserted.
LEMMA EntryOutcome ==
    ASSUME PlainAnswers, OutcomeInvariant, ProvenNext, NEW q \in Requests,
           VerifyEmail(q) \/ SyncSession(q) \/ RereadSession(q) \/ Compensate(q) \/ RequestFails(q)
    PROVE  OutcomeInvariant'
<1> USE DEF rows, inbox, accounts
<1>1. TypeOK /\ q \in Processes /\ q \notin Results /\ "ambiguous" \notin Faults
  BY SagaAssumption DEF OutcomeInvariant, SuccessInvariant, Processes, PlainAnswers
<1>2. {"idle", "sync", "reread", "create_verify"} \cap (VerifierLabels \cup TroubleLabels \cup {"publish_completed"}) = {}
  BY DEF VerifierLabels, TroubleLabels, CompensationLabels, ClosingLabels
<1>3. CASE VerifyEmail(q) \/ RereadSession(q)
  <2>1. PICK from, to : Goto(q, from, to) /\ to \in {"idle", "sync", "create_verify"}
    BY <1>3 DEF VerifyEmail, RereadSession
  <2>2. /\ UNCHANGED <<steps, starter, inbox, credential>>
        /\ session' = session /\ profile' = profile /\ events' = events
    BY <1>3 DEF VerifyEmail, RereadSession
  <2>3. to \notin VerifierLabels \cup {"publish_completed"} /\ to \notin TroubleLabels
    BY <1>2, <2>1
  <2>4. ("completed" \in events' => "completed" \in events) /\ ("failed" \in events' => Troubled)
    BY <2>2 DEF Troubled
  <2>5. QED
    BY <2>1, <2>2, <2>3, <2>4, RequestQuiet
<1>4. CASE SyncSession(q)
  <2>1. session' = "failed" =>
           Rejected \/ steps["verify"] = "failed" \/ steps["activate"] = "failed"
    BY <1>1, <1>4, SyncTrouble
  <2>2. session' \notin {"completed", "tokens_claimed"}
    BY <1>4, ReconciledStatusType DEF SyncSession
  <2>3. PICK to : Goto(q, "sync", to) /\ to = IF session' = "failed" THEN "fail_session" ELSE "reread"
    BY <1>1, <1>4 DEF SyncSession
  <2>4. /\ to \notin VerifierLabels \cup {"publish_completed"}
        /\ to \in TroubleLabels => session' = "failed"
    BY <1>2, <2>3 DEF VerifierLabels
  <2>5. /\ UNCHANGED <<steps, starter, inbox, credential>>
        /\ profile' = profile /\ events' = events
    BY <1>4 DEF SyncSession
  <2>6. ("completed" \in events' => "completed" \in events) /\ ("failed" \in events' => Troubled)
    BY <2>5 DEF Troubled
  <2>7. QED
    BY <2>1, <2>2, <2>3, <2>4, <2>5, <2>6, RequestQuiet
<1>5. CASE Compensate(q)
  <2>1. PICK from, to : /\ Goto(q, from, to) /\ from \in TroubleLabels
                        /\ to \in TroubleLabels \cup {"reread", "idle"}
    BY <1>1, <1>5
    DEF Compensate, FailSession, DeactivateUser, DeactivateAuth, PublishFailed, AfterCompensation,
        TroubleLabels, CompensationLabels, ClosingLabels
  <2>2. Troubled
    BY <1>1, <2>1 DEF Goto, Troubled
  <2>3. to \notin VerifierLabels \cup {"publish_completed"}
    BY <2>1, <1>2 DEF TroubleLabels, CompensationLabels, ClosingLabels, VerifierLabels
  <2>4. /\ UNCHANGED <<steps, starter, inbox>>
        /\ session' = session \/ session' = "failed"
        /\ events' = events \/ events' = events \cup {"failed"}
    BY <1>5 DEF Compensate, FailSession, DeactivateUser, DeactivateAuth, PublishFailed
  <2>5. QED
    BY <2>1, <2>2, <2>3, <2>4, RequestQuiet
<1>6. CASE RequestFails(q)
  <2>1. Goto(q, pc[q], "idle")
    BY <1>6 DEF RequestFails, Goto
  <2>2. /\ UNCHANGED <<steps, starter, inbox, credential>>
        /\ session' = session /\ profile' = profile /\ events' = events
    BY <1>6 DEF RequestFails
  <2>3. ("completed" \in events' => "completed" \in events) /\ ("failed" \in events' => Troubled)
    BY <2>2 DEF Troubled
  <2>4. QED
    BY <1>2, <2>1, <2>2, <2>3, RequestQuiet
<1>7. QED
  BY <1>3, <1>4, <1>5, <1>6

\* The calls from the insertion of the verification step to the write of
\* "completed", and the failures on the way.
LEMMA VerifierOutcome ==
    ASSUME PlainAnswers, OutcomeInvariant, ProvenNext, NEW q \in Requests,
           \/ CreateVerificationStep(q, "create_activate", "activate", "pending", "set_verifying")
           \/ SetSession(q, "set_verifying", "verifying_email", "verify_code")
           \/ VerifyCode(q)
           \/ SetVerificationStep(q, "complete_verify_step", "verify", "completed", "set_activating")
           \/ SetSession(q, "set_activating", "activating_user", "start_activate_step")
           \/ SetVerificationStep(q, "start_activate_step", "activate", "in_progress", "activate_user")
           \/ ActivateUser(q)
           \/ SetVerificationStep(q, "complete_activate_step", "activate", "completed", "set_completed")
           \/ SetSession(q, "set_completed", "completed", "publish_completed")
           \/ VerificationFails(q)
    PROVE  OutcomeInvariant'
<1> USE DEF CreateVerificationStep, SetSession, SetVerificationStep, rows, inbox, accounts
<1>1. TypeOK /\ q \in Processes /\ q \notin Results /\ "ambiguous" \notin Faults /\ Backing
  BY SagaAssumption DEF OutcomeInvariant, SuccessInvariant, Processes, PlainAnswers
<1>2. Verifying(q)
  BY <1>1 DEF Goto, Verifying, VerifierLabels, VerifyCode, ActivateUser, VerificationFails
<1>3. /\ steps["verify"] \notin {"none", "failed"} /\ steps["activate"] # "failed"
      /\ session \notin {"completed", "tokens_claimed"}
  BY <1>2, VerifierAlone
<1>4. CASE CreateVerificationStep(q, "create_activate", "activate", "pending", "set_verifying")
  <2>1. CASE steps["activate"] = "none"
    <3>1. \A k \in StepKeys : steps'[k] = IF k = "activate" THEN "pending" ELSE steps[k]
      BY <1>1, <1>4, <2>1 DEF InsertStep, TypeOK
    <3>2. Goto(q, "create_activate", "set_verifying")
      BY <1>4, <2>1
    <3>3. "set_verifying" \in VerifierLabels \cup {"publish_completed"}
          /\ "set_verifying" \notin Verified \cup Activated
      BY DEF VerifierLabels, Verified, Activated
    <3>4. QED
      BY <1>2, <1>3, <1>4, <3>1, <3>2, <3>3, VerifierAdvances DEF StepKeys, InitialSteps
  <2>2. CASE steps["activate"] # "none"
    <3>1. Goto(q, "create_activate", "idle") /\ UNCHANGED <<steps, starter, inbox, credential>>
      BY <1>4, <2>2 DEF InsertStep
    <3>2. /\ session' = session /\ profile' = profile
          /\ "completed" \in events' => "completed" \in events
          /\ "failed" \in events' => Troubled
      BY <1>4 DEF Troubled
    <3>3. "idle" \notin VerifierLabels \cup {"publish_completed"} /\ "idle" \notin TroubleLabels
      BY DEF VerifierLabels, TroubleLabels, CompensationLabels, ClosingLabels
    <3>4. QED
      BY <3>1, <3>2, <3>3, RequestQuiet
  <2>3. QED
    BY <2>1, <2>2
<1>5. CASE SetSession(q, "set_verifying", "verifying_email", "verify_code")
  <2>1. pc[q] = "set_verifying" /\ "verify_code" \in VerifierLabels
        /\ "verify_code" \notin Verified \cup Activated
    BY <1>5 DEF Goto, VerifierLabels, Verified, Activated
  <2>2. steps["activate"] # "none"
    BY <1>1, <2>1 DEF Backing
  <2>3. QED
    BY <1>2, <1>3, <1>5, <2>1, <2>2, VerifierAdvances
<1>6. CASE VerifyCode(q)
  <2>1. CASE Goto(q, "verify_code", "complete_verify_step")
    <3>1. /\ pc[q] = "verify_code" /\ "complete_verify_step" \in VerifierLabels
          /\ "complete_verify_step" \notin Activated
      BY <2>1 DEF Goto, VerifierLabels, Activated
    <3>2. steps["activate"] # "none"
      BY <1>1, <3>1 DEF Backing
    <3>3. credential' = "verified"
      BY <1>1, <1>6, <2>1 DEF VerifyCode, Goto, TypeOK, PcTypeOK
    <3>4. QED
      BY <1>2, <1>3, <1>6, <2>1, <3>1, <3>2, <3>3, VerifierAdvances DEF VerifyCode
  <2>2. CASE ~Goto(q, "verify_code", "complete_verify_step")
    <3>1. /\ Goto(q, "verify_code", "fail_verify_step")
          /\ UNCHANGED <<rows, starter, inbox, accounts, events>>
      BY <1>6, <2>2 DEF VerifyCode
    <3>2. "fail_verify_step" \in TroubleLabels
      BY DEF TroubleLabels, ClosingLabels
    <3>3. QED
      BY <1>2, <3>1, <3>2, VerifierFails
  <2>3. QED
    BY <2>1, <2>2
<1>7. CASE SetVerificationStep(q, "complete_verify_step", "verify", "completed", "set_activating")
  <2>1. \A k \in StepKeys : steps'[k] = IF k = "verify" THEN "completed" ELSE steps[k]
    BY <1>1, <1>3, <1>7 DEF WriteStep, NextStepStatus, TypeOK
  <2>2. /\ pc[q] = "complete_verify_step" /\ "complete_verify_step" \in Verified
        /\ "set_activating" \in VerifierLabels /\ "set_activating" \notin Activated
    BY <1>7 DEF Goto, VerifierLabels, Verified, Activated
  <2>3. credential = "verified" /\ steps["activate"] # "none"
    BY <1>1, <2>2 DEF Backing
  <2>4. QED
    BY <1>2, <1>3, <1>7, <2>1, <2>2, <2>3, VerifierAdvances DEF StepKeys, InitialSteps
<1>8. CASE SetSession(q, "set_activating", "activating_user", "start_activate_step")
  <2>1. /\ pc[q] = "set_activating" /\ "set_activating" \in Verified
        /\ "start_activate_step" \in VerifierLabels /\ "start_activate_step" \notin Activated
    BY <1>8 DEF Goto, VerifierLabels, Verified, Activated
  <2>2. credential = "verified" /\ steps["activate"] # "none"
    BY <1>1, <2>1 DEF Backing
  <2>3. QED
    BY <1>2, <1>3, <1>8, <2>1, <2>2, VerifierAdvances
<1>9. CASE SetVerificationStep(q, "start_activate_step", "activate", "in_progress", "activate_user")
  <2>1. /\ pc[q] = "start_activate_step" /\ "start_activate_step" \in Verified
        /\ "activate_user" \in VerifierLabels /\ "activate_user" \notin Activated
    BY <1>9 DEF Goto, VerifierLabels, Verified, Activated
  <2>2. credential = "verified" /\ steps["activate"] # "none"
    BY <1>1, <2>1 DEF Backing
  <2>3. /\ \A k \in StepKeys \ {"activate"} : steps'[k] = steps[k]
        /\ steps'["activate"] \in {"in_progress", steps["activate"]}
    BY <1>1, <1>9 DEF WriteStep, NextStepStatus, TypeOK, StepKeys
  <2>4. QED
    BY <1>2, <1>3, <1>9, <2>1, <2>2, <2>3, VerifierAdvances DEF StepKeys, InitialSteps
<1>10. CASE ActivateUser(q)
  <2>1. CASE Goto(q, "activate_user", "complete_activate_step")
    <3>1. pc[q] = "activate_user" /\ "activate_user" \in Verified /\ "complete_activate_step" \in VerifierLabels
      BY <2>1 DEF Goto, VerifierLabels, Verified
    <3>2. credential = "verified" /\ steps["activate"] # "none"
      BY <1>1, <3>1 DEF Backing
    <3>3. profile' = "active"
      BY <1>1, <1>10, <2>1 DEF ActivateUser, Goto, TypeOK, PcTypeOK
    <3>4. QED
      BY <1>2, <1>3, <1>10, <2>1, <3>1, <3>2, <3>3, VerifierAdvances DEF ActivateUser
  <2>2. CASE ~Goto(q, "activate_user", "complete_activate_step")
    <3>1. /\ Goto(q, "activate_user", "fail_activate_step")
          /\ UNCHANGED <<rows, starter, inbox, accounts, events>>
      BY <1>10, <2>2 DEF ActivateUser
    <3>2. "fail_activate_step" \in TroubleLabels
      BY DEF TroubleLabels, ClosingLabels
    <3>3. QED
      BY <1>2, <3>1, <3>2, VerifierFails
  <2>3. QED
    BY <2>1, <2>2
<1>11. CASE SetVerificationStep(q, "complete_activate_step", "activate", "completed", "set_completed")
  <2>1. pc[q] = "complete_activate_step" /\ "complete_activate_step" \in Activated /\ "set_completed" \in VerifierLabels
    BY <1>11 DEF Goto, VerifierLabels, Activated
  <2>2. credential = "verified" /\ profile = "active" /\ steps["activate"] # "none"
    BY <1>1, <2>1 DEF Backing
  <2>3. \A k \in StepKeys : steps'[k] = IF k = "activate" THEN "completed" ELSE steps[k]
    BY <1>1, <1>11, <2>2 DEF WriteStep, NextStepStatus, TypeOK
  <2>4. QED
    BY <1>2, <1>3, <1>11, <2>1, <2>2, <2>3, VerifierAdvances DEF StepKeys, InitialSteps
<1>12. CASE SetSession(q, "set_completed", "completed", "publish_completed")
  <2>1. pc[q] = "set_completed" /\ "set_completed" \in Activated
    BY <1>12 DEF Goto, Activated
  <2>2. credential = "verified" /\ profile = "active" /\ steps["activate"] = "completed"
    BY <1>1, <2>1 DEF Backing
  <2>3. QED
    BY <1>2, <1>3, <1>12, <2>2, VerifierAdvances
<1>13. CASE VerificationFails(q)
  <2>1. PICK to \in {"fail_verify_step", "fail_activate_step"} : Goto(q, pc[q], to)
    BY <1>13 DEF VerificationFails, Goto
  <2>2. to \in TroubleLabels
    BY DEF TroubleLabels, ClosingLabels
  <2>3. QED
    BY <1>2, <1>13, <2>1, <2>2, VerifierFails DEF VerificationFails
<1>14. QED
  BY <1>4, <1>5, <1>6, <1>7, <1>8, <1>9, <1>10, <1>11, <1>12, <1>13

\* VerifyEmail, all of it.
LEMMA RequestOutcome ==
    ASSUME PlainAnswers, OutcomeInvariant, ProvenNext, NEW q \in Requests,
           VerifyEmail(q) \/ ServeRequest(q) \/ RequestFails(q) \/ VerificationFails(q)
    PROVE  OutcomeInvariant'
<1>1. CASE CreateVerificationStep(q, "create_verify", "verify", "in_progress", "create_activate")
  <2>1. CASE steps["verify"] = "none"
    BY <1>1, <2>1, VerifierEnters
  <2>2. CASE steps["verify"] # "none"
    <3>1. Goto(q, "create_verify", "idle") /\ UNCHANGED <<steps, starter, inbox, credential>>
      BY <1>1, <2>2 DEF CreateVerificationStep, InsertStep, accounts
    <3>2. /\ session' = session /\ profile' = profile
          /\ "completed" \in events' => "completed" \in events
          /\ "failed" \in events' => Troubled
      BY <1>1 DEF CreateVerificationStep, accounts, Troubled
    <3>3. "idle" \notin VerifierLabels \cup {"publish_completed"} /\ "idle" \notin TroubleLabels
      BY DEF VerifierLabels, TroubleLabels, CompensationLabels, ClosingLabels
    <3>4. QED
      BY <3>1, <3>2, <3>3, RequestQuiet
  <2>3. QED
    BY <2>1, <2>2
<1>2. {"fail_verify_step", "fail_activate_step"} \subseteq TroubleLabels
  BY DEF TroubleLabels, ClosingLabels
<1>3. QED
  BY <1>1, <1>2, EntryOutcome, VerifierOutcome, CompletedIsPublished, FailureIsWritten DEF ServeRequest

\* OutcomeInvariant is inductive.
LEMMA NextOutcome == PlainAnswers /\ OutcomeInvariant /\ TypeOK' /\ [Next]_vars => OutcomeInvariant'
<1> SUFFICES ASSUME PlainAnswers, OutcomeInvariant, TypeOK', [Next]_vars PROVE OutcomeInvariant'
  OBVIOUS
<1>1. ProvenNext
  BY NextClaim, NextSuccess, NextCommand, RejectedForGood DEF OutcomeInvariant, SuccessInvariant, ProvenNext
<1>2. CASE UNCHANGED vars
  BY <1>1, <1>2, OutcomeFrame DEF vars, rows, inbox, accounts, Troubled, AllSucceeded, Succeeded
<1>3. CASE Next
  BY <1>1, <1>3, StartOutcome, ReportOutcome, ResultOutcome, RequestOutcome, QueryOutcome, RestartOutcome DEF Next
<1>4. QED
  BY <1>2, <1>3

\* The invariant holds in every reachable state of a saga whose errors hide
\* no effect and whose services answer each command once, whatever else
\* fails and however often the process is restarted.
THEOREM OutcomesAreDecided == PlainAnswers => (Spec => []OutcomeInvariant)
<1> SUFFICES ASSUME PlainAnswers PROVE Spec => []OutcomeInvariant
  OBVIOUS
<1>1. Init => OutcomeInvariant
  BY InitOutcome
<1>2. OutcomeInvariant /\ TypeOK' /\ [Next]_vars => OutcomeInvariant'
  BY NextOutcome
<1>3. QED
  BY <1>1, <1>2, TypeCorrect, PTL DEF Spec

\* The client is never told both that the registration completed and that it
\* failed.
THEOREM OneOutcome == PlainAnswers => (Spec => []OutcomesExclusive)
<1> SUFFICES ASSUME PlainAnswers PROVE Spec => []OutcomesExclusive
  OBVIOUS
<1>1. OutcomeInvariant => OutcomesExclusive
  BY DEF OutcomeInvariant, ConcludedInPeace, Concluding, Troubled, OutcomesExclusive
<1>2. QED
  BY <1>1, OutcomesAreDecided, PTL

\* A completed registration has an active profile and a verified credential:
\* no compensation strikes it.
THEOREM CompletionIsBacked == PlainAnswers => (Spec => []CompletedIsBacked)
<1> SUFFICES ASSUME PlainAnswers PROVE Spec => []CompletedIsBacked
  OBVIOUS
<1>1. OutcomeInvariant => CompletedIsBacked
  BY DEF OutcomeInvariant
<1>2. QED
  BY <1>1, OutcomesAreDecided, PTL

-----------------------------------------------------------------------------
(* The saga implements AccountActivation.                                  *)

PromiseStep == [Promise!Next]_<<reportedBar, stageBar>>

\* What the account's stage and the reports are read from.
LEMMA PromiseStutters ==
    ASSUME outcome' = outcome, claims' = claims,
           steps'["verify"] = steps["verify"], steps'["activate"] = steps["activate"]
    PROVE  PromiseStep
BY DEF PromiseStep, reportedBar, stageBar, Succeeded

\* A report adds its step to the successes, or nothing.
LEMMA ReportKeepsPromise ==
    ASSUME TypeOK, NEW r \in Results, NEW o \in {"success", "failed"}, DownstreamReports(r, o)
    PROVE  PromiseStep
<1> USE DEF DownstreamReports, rows, client
<1>1. stageBar' = stageBar
  BY DEF stageBar
<1>2. \A a \in Results : outcome'[a] = IF a = r THEN o ELSE outcome[a]
  BY DEF TypeOK
<1>3. CASE o = "success"
  <2>1. reportedBar' = reportedBar \cup {StepOf[r]} /\ StepOf[r] \in InitialSteps
    BY <1>2, <1>3, SagaAssumption DEF reportedBar, Succeeded
  <2>2. QED
    BY <1>1, <2>1 DEF PromiseStep, Promise!Next, Promise!Report
<1>4. CASE o = "failed"
  <2>1. reportedBar' = reportedBar
    BY <1>2, <1>4 DEF reportedBar, Succeeded
  <2>2. QED
    BY <1>1, <2>1 DEF PromiseStep
<1>5. QED
  BY <1>3, <1>4

\* A query that claims finds the account activated and unclaimed.
LEMMA QueryKeepsPromise ==
    ASSUME OutcomeInvariant, NEW g \in Queries,
           GetRegistrationStatus(g) \/ ClaimCompleted(g) \/ ClaimFails(g)
    PROVE  PromiseStep
<1> USE DEF GetRegistrationStatus, ClaimCompleted, ClaimFails, rows, inbox, client
<1>1. CASE claims' = claims
  BY <1>1, PromiseStutters
<1>2. CASE claims' # claims
  <2>1. session = "completed" /\ claims' = claims + 1 /\ steps' = steps /\ outcome' = outcome
    BY <1>2
  <2>2. claims = 0
    BY <2>1 DEF OutcomeInvariant, ClaimInvariant, ClaimedForGood
  <2>3. steps["activate"] = "completed" /\ steps["verify"] # "failed"
    BY <2>1 DEF OutcomeInvariant, CompletedIsBacked, ConcludedInPeace, Concluding
  <2>4. stageBar = "activated" /\ stageBar' = "claimed"
    BY <2>1, <2>2, <2>3 DEF stageBar
  <2>5. reportedBar' = reportedBar
    BY <2>1 DEF reportedBar, Succeeded
  <2>6. QED
    BY <2>4, <2>5 DEF PromiseStep, Promise!Next, Promise!Claim, Promise!Advance
<1>3. QED
  BY <1>1, <1>2

\* Only the insertion of the verification step opens the account to a
\* verification, and then every service has reported success.
LEMMA VerifierBeginsPromise ==
    ASSUME PlainAnswers, OutcomeInvariant, NEW q \in Requests,
           CreateVerificationStep(q, "create_verify", "verify", "in_progress", "create_activate")
    PROVE  PromiseStep
<1> USE DEF CreateVerificationStep, inbox, client
<1>1. TypeOK
  BY DEF OutcomeInvariant, SuccessInvariant
<1>2. CASE steps["verify"] # "none"
  BY <1>2, PromiseStutters DEF InsertStep
<1>3. CASE steps["verify"] = "none"
  <2>1. pc[q] = "create_verify" /\ steps'["verify"] = "in_progress" /\ steps'["activate"] = steps["activate"]
    BY <1>1, <1>3 DEF InsertStep, TypeOK, StepKeys, Goto
  <2>2. AllSucceeded
    BY <2>1 DEF OutcomeInvariant, SuccessInvariant, OpenLabels
  <2>3. claims = 0 /\ steps["activate"] = "none"
    BY <1>3 DEF OutcomeInvariant, ClaimInvariant, NoVerifierBeforeStep, TroubleHasCause
  <2>4. stageBar = "open" /\ stageBar' = "verifying"
    BY <1>3, <2>1, <2>3 DEF stageBar
  <2>5. reportedBar = InitialSteps /\ reportedBar' = reportedBar
    BY <2>2 DEF reportedBar, AllSucceeded, Succeeded
  <2>6. QED
    BY <2>4, <2>5 DEF PromiseStep, Promise!Next, Promise!BeginVerification, Promise!Advance
<1>4. QED
  BY <1>2, <1>3

\* The verifier's step rows: only the completion of the activation is seen.
LEMMA VerifierKeepsPromise ==
    ASSUME PlainAnswers, OutcomeInvariant, NEW q \in Requests,
           \/ CreateVerificationStep(q, "create_activate", "activate", "pending", "set_verifying")
           \/ SetVerificationStep(q, "complete_verify_step", "verify", "completed", "set_activating")
           \/ SetVerificationStep(q, "start_activate_step", "activate", "in_progress", "activate_user")
           \/ SetVerificationStep(q, "complete_activate_step", "activate", "completed", "set_completed")
    PROVE  PromiseStep
<1> USE DEF CreateVerificationStep, SetVerificationStep, inbox, client
<1>1. TypeOK
  BY DEF OutcomeInvariant, SuccessInvariant
<1>2. Verifying(q)
  BY DEF Goto, Verifying, VerifierLabels
<1>3. /\ steps["verify"] \notin {"none", "failed"} /\ steps["activate"] # "failed"
      /\ claims = 0 /\ claims' = claims /\ reportedBar' = reportedBar
  BY <1>2, VerifierAlone DEF OutcomeInvariant, ClaimInvariant, VerifierBeforeClaim, reportedBar, Succeeded
<1>4. CASE SetVerificationStep(q, "complete_activate_step", "activate", "completed", "set_completed")
  <2>1. steps["activate"] # "none"
    BY <1>4 DEF OutcomeInvariant, Backing, Goto, Verified, Activated
  <2>2. steps'["activate"] = "completed" /\ steps'["verify"] = steps["verify"]
    BY <1>1, <1>4, <2>1 DEF WriteStep, NextStepStatus, TypeOK, StepKeys
  <2>3. stageBar' = "activated" /\ stageBar \in {"verifying", "activated"}
    BY <1>3, <2>2 DEF stageBar
  <2>4. QED
    BY <1>3, <2>3 DEF PromiseStep, Promise!Next, Promise!Activate, Promise!Advance
<1>5. CASE ~SetVerificationStep(q, "complete_activate_step", "activate", "completed", "set_completed")
  <2>1. /\ steps'["verify"] \notin {"none", "failed"} /\ steps'["activate"] # "failed"
        /\ steps'["activate"] = "completed" <=> steps["activate"] = "completed"
    BY <1>1, <1>3, <1>5 DEF WriteStep, InsertStep, NextStepStatus, TypeOK, StepKeys
  <2>2. QED
    BY <1>3, <2>1 DEF PromiseStep, stageBar
<1>6. QED
  BY <1>4, <1>5

\* A verification that fails abandons the account it was verifying, unless
\* its tokens were claimed.
LEMMA FailureKeepsPromise ==
    ASSUME OutcomeInvariant, NEW q \in Requests, NEW from \in ClosingLabels,
           NEW k \in {"verify", "activate"}, FailVerificationStep(q, from, k)
    PROVE  PromiseStep
<1> USE DEF FailVerificationStep, inbox, client
<1>1. TypeOK
  BY DEF OutcomeInvariant, SuccessInvariant
<1>2. steps["verify"] # "none"
  BY DEF Goto, OutcomeInvariant, ClaimInvariant, NoVerifierBeforeStep, EntryLabels, CompensationLabels, ClosingLabels
<1>3. claims' = claims /\ reportedBar' = reportedBar
  BY DEF reportedBar, Succeeded
<1>4. \/ steps' = steps
      \/ \E j \in {"verify", "activate"} :
            steps[j] # "none" /\ steps' = [steps EXCEPT ![j] = "failed"]
  BY <1>1 DEF WriteStep, NextStepStatus, TypeOK, StepKeys
<1>5. CASE steps' = steps
  BY <1>3, <1>5 DEF PromiseStep, stageBar
<1>6. CASE steps' # steps
  <2>1. steps'["verify"] = "failed" \/ steps'["activate"] = "failed"
    BY <1>1, <1>4, <1>6 DEF TypeOK, StepKeys
  <2>2. CASE claims > 0
    BY <1>3, <2>2 DEF PromiseStep, stageBar
  <2>3. CASE ~(claims > 0)
    <3>1. stageBar \in {"verifying", "activated", "abandoned"} /\ stageBar' = "abandoned"
      BY <1>2, <1>3, <2>1, <2>3 DEF stageBar
    <3>2. QED
      BY <1>3, <3>1 DEF PromiseStep, Promise!Next, Promise!Abandon, Promise!Advance
  <2>4. QED
    BY <2>2, <2>3
<1>7. QED
  BY <1>5, <1>6

\* The calls that write no step of the verification change nothing here.
LEMMA OthersKeepPromise ==
    ASSUME TypeOK,
           \/ StartSession \/ RunStart \/ StartStops \/ Restart
           \/ \E r \in Results : HandleResult(r) \/ HandlerFails(r)
           \/ \E q \in Requests :
                \/ VerifyEmail(q) \/ SyncSession(q) \/ RereadSession(q) \/ Compensate(q)
                \/ SetSession(q, "set_verifying", "verifying_email", "verify_code")
                \/ VerifyCode(q)
                \/ SetSession(q, "set_activating", "activating_user", "start_activate_step")
                \/ ActivateUser(q)
                \/ SetSession(q, "set_completed", "completed", "publish_completed")
                \/ PublishCompleted(q) \/ RequestFails(q) \/ VerificationFails(q)
    PROVE  PromiseStep
<1> SUFFICES /\ outcome' = outcome /\ claims' = claims
             /\ steps'["verify"] = steps["verify"] /\ steps'["activate"] = steps["activate"]
  BY PromiseStutters
<1> USE DEF rows, inbox, client, InsertStep, WriteStep, TypeOK, StepKeys, InitialSteps
<1>1. CASE StartSession \/ RunStart \/ StartStops \/ Restart
  BY <1>1
  DEF StartSession, RunStart, StartStops, CreateStartStep, HashPassword, MarkSessionInProgress,
      MarkStepInProgress, PublishCommand, FailStartStep, FailStartSession, Restart
<1>2. ASSUME NEW r \in Results, HandleResult(r) \/ HandlerFails(r)
      PROVE  /\ outcome' = outcome /\ claims' = claims
             /\ steps'["verify"] = steps["verify"] /\ steps'["activate"] = steps["activate"]
  BY <1>2, SagaAssumption
  DEF HandleResult, ClaimResult, UpdateResultStep, StartMailStep, PublishCodeSent, NotifyCodeSent,
      HandlerFails, SyncSession, Compensate, FailSession, DeactivateUser, DeactivateAuth, PublishFailed
<1>3. QED
  BY <1>1, <1>2
  DEF VerifyEmail, SyncSession, RereadSession, Compensate, FailSession, DeactivateUser, DeactivateAuth,
      PublishFailed, SetSession, VerifyCode, ActivateUser, PublishCompleted, RequestFails, VerificationFails

\* Every step of the saga is a step of AccountActivation or leaves it alone.
LEMMA NextKeepsPromise == PlainAnswers /\ OutcomeInvariant /\ [Next]_vars => PromiseStep
<1> SUFFICES ASSUME PlainAnswers, OutcomeInvariant, [Next]_vars PROVE PromiseStep
  OBVIOUS
<1>1. TypeOK
  BY DEF OutcomeInvariant, SuccessInvariant
<1>2. CASE UNCHANGED vars
  BY <1>2, PromiseStutters DEF vars, rows, inbox, client
<1>3. CASE Next
  <2>1. {"fail_verify_step", "fail_activate_step"} \subseteq ClosingLabels
    BY DEF ClosingLabels
  <2>2. QED
    BY <1>1, <1>3, <2>1, ReportKeepsPromise, QueryKeepsPromise, VerifierBeginsPromise,
       VerifierKeepsPromise, FailureKeepsPromise, OthersKeepPromise
    DEF Next, ServeRequest
<1>4. QED
  BY <1>2, <1>3

\* The saga implements AccountActivation: a registration opens to one
\* verification after three successes, is activated by it alone, and hands
\* out its tokens once and only when activated.
THEOREM PromiseIsKept == PlainAnswers => (Spec => KeepsPromise)
<1> SUFFICES ASSUME PlainAnswers PROVE Spec => KeepsPromise
  OBVIOUS
<1>1. Init => Promise!Init
  <2> SUFFICES ASSUME Init PROVE Promise!Init
    OBVIOUS
  <2>1. reportedBar = {}
    BY DEF Init, reportedBar, Succeeded
  <2>2. stageBar = "open"
    BY DEF Init, stageBar, StepKeys
  <2>3. QED
    BY <2>1, <2>2 DEF Promise!Init
<1>2. OutcomeInvariant /\ [Next]_vars => [Promise!Next]_<<reportedBar, stageBar>>
  BY NextKeepsPromise DEF PromiseStep
<1>3. QED
  BY <1>1, <1>2, OutcomesAreDecided, PTL DEF Spec, KeepsPromise, Promise!Spec
=============================================================================
