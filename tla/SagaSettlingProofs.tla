-------------------------- MODULE SagaSettlingProofs --------------------------
(***************************************************************************)
(* Where registrations end: proof that a failed session stays failed when  *)
(* failures are firm, and that a registration at rest is settled when the  *)
(* saga is undisturbed, for every number of requests and queries.          *)
(***************************************************************************)
EXTENDS SagaReconcileProofs

-----------------------------------------------------------------------------
(* What a failed step excludes.                                            *)

\* mail-service reports no failure, and no other call fails its step.
LEMMA MailStepNeverFails ==
    FirmFailures /\ FailuresHaveReasons => steps["mail"] # "failed"
BY DEF FirmFailures, FailuresHaveReasons, InitialSteps

\* The step of a success is not failed: another result for it does not exist,
\* and a step that failed for want of its command has no result.
LEMMA SuccessIsNotFailed ==
    ASSUME FirmFailures, FinalInvariant, NEW r \in Results, outcome[r] = "success"
    PROVE  steps[StepOf[r]] # "failed"
<1> SUFFICES ASSUME steps[StepOf[r]] = "failed" PROVE FALSE
  OBVIOUS
<1>1. StepOf[r] \in InitialSteps
  BY SagaAssumption
<1>2. ~\E a \in Results : StepOf[a] = StepOf[r] /\ outcome[a] = "failed"
  BY DEF FirmFailures, PlainAnswers
<1>3. StepOf[r] \in {"user", "auth"} \ commands
  BY <1>1, <1>2 DEF FinalInvariant, FailuresHaveReasons
<1>4. QED
  BY <1>3 DEF FinalInvariant, ReconcileInvariant, OutcomeInvariant, UserCommandFirst, CommandComesLast

\* After three successes no initial step is failed, and Start is done.
LEMMA SuccessExcludesFailure ==
    ASSUME FirmFailures, FinalInvariant, AllSucceeded
    PROVE  starter = "done" /\ \A k \in InitialSteps : steps[k] # "failed"
<1>1. PICK a \in Results : StepOf[a] = "auth" /\ outcome[a] = "success"
  BY DEF AllSucceeded, Succeeded, InitialSteps
<1>2. starter = "done"
  BY <1>1 DEF FinalInvariant, ReconcileInvariant, OutcomeInvariant, CommandComesLast
<1>3. ASSUME NEW k \in InitialSteps PROVE steps[k] # "failed"
  <2>1. PICK r \in Results : StepOf[r] = k /\ outcome[r] = "success"
    BY DEF AllSucceeded, Succeeded
  <2>2. QED
    BY <2>1, SuccessIsNotFailed
<1>4. QED
  BY <1>2, <1>3

\* While VerifyEmail's goroutine is on its way to "completed" no step is failed.
LEMMA VerifierExcludesFailure ==
    ASSUME FirmFailures, FinalInvariant, NEW q \in Requests, Verifying(q)
    PROVE  ~SomeStepFailed
<1>1. AllSucceeded /\ steps["verify"] # "failed" /\ steps["activate"] # "failed"
  BY DEF FinalInvariant, ReconcileInvariant, OutcomeInvariant, ConcludedInPeace, Concluding, Verifying
<1>2. QED
  BY <1>1, SuccessExcludesFailure DEF SomeStepFailed, StepKeys

\* Before the first command is published no step is failed.
LEMMA EarlyStartExcludesFailure ==
    ASSUME FirmFailures, FinalInvariant, starter \in {"mark_session", "mark_user", "mark_auth"}
    PROVE  ~SomeStepFailed
<1> USE DEF FinalInvariant, ReconcileInvariant, OutcomeInvariant
<1>1. \A r \in Results : StepOf[r] \in {"user", "auth"} => outcome[r] = "none"
  BY DEF UserCommandFirst, CommandComesLast
<1>2. \A k \in InitialSteps : steps[k] # "failed"
  BY <1>1, MailStepNeverFails DEF FailuresHaveReasons, InitialSteps
<1>3. ~AllSucceeded
  BY SuccessExcludesFailure
<1>4. steps["verify"] = "none" /\ steps["activate"] = "none"
  BY <1>3 DEF StagesInOrder, TroubleHasCause
<1>5. QED
  BY <1>2, <1>4 DEF SomeStepFailed, StepKeys

-----------------------------------------------------------------------------
(* A failed step stays failed.                                             *)

\* Start finds no failed step to write over.
LEMMA StartKeepsFailed ==
    ASSUME FirmFailures, FinalInvariant, StartSession \/ RunStart \/ StartStops,
           NEW k \in StepKeys, steps[k] = "failed"
    PROVE  steps'[k] = "failed"
<1>1. steps \in [StepKeys -> StepStatus]
  BY DEF FinalInvariant, ReconcileInvariant, OutcomeInvariant, SuccessInvariant, TypeOK
<1>2. starter \notin {"mark_session", "mark_user", "mark_auth"}
  BY EarlyStartExcludesFailure DEF SomeStepFailed
<1>3. CASE StartSession \/ StartStops \/ HashPassword \/ FailStartSession
  BY <1>3 DEF StartSession, StartStops, HashPassword, FailStartSession, rows
<1>4. ASSUME NEW from, NEW j, NEW to, CreateStartStep(from, j, to)
      PROVE  steps'[k] = "failed"
  BY <1>1, <1>4 DEF CreateStartStep, InsertStep
<1>5. ASSUME NEW from, NEW j, NEW to, NEW failing, PublishCommand(from, j, to, failing)
      PROVE  steps'[k] = "failed"
  BY <1>5 DEF PublishCommand, rows
<1>6. ASSUME NEW from, NEW j, FailStartStep(from, j)
      PROVE  steps'[k] = "failed"
  BY <1>1, <1>6 DEF FailStartStep, WriteStep, NextStepStatus
<1>7. ~MarkSessionInProgress /\ ~MarkStepInProgress("mark_user", "user", "mark_auth")
      /\ ~MarkStepInProgress("mark_auth", "auth", "publish_user")
  BY <1>2 DEF MarkSessionInProgress, MarkStepInProgress
<1>8. QED
  BY <1>3, <1>4, <1>5, <1>6, <1>7 DEF RunStart

\* A handler completes the step of a success only, and puts only the mail step
\* in progress.
LEMMA ResultKeepsFailed ==
    ASSUME FirmFailures, FinalInvariant, NEW r \in Results, HandleResult(r) \/ HandlerFails(r),
           NEW k \in StepKeys, steps[k] = "failed"
    PROVE  steps'[k] = "failed"
<1>1. steps \in [StepKeys -> StepStatus] /\ StepOf[r] \in StepKeys
  BY SagaAssumption DEF FinalInvariant, ReconcileInvariant, OutcomeInvariant, SuccessInvariant, TypeOK, StepKeys
<1>2. CASE UpdateResultStep(r)
  <2>1. outcome[r] = "success" => StepOf[r] # k
    BY SuccessIsNotFailed
  <2>2. QED
    BY <1>1, <1>2, <2>1 DEF UpdateResultStep, WriteStep, NextStepStatus
<1>3. CASE StartMailStep(r)
  <2>1. k # "mail"
    BY MailStepNeverFails DEF FinalInvariant
  <2>2. QED
    BY <1>1, <1>3, <2>1 DEF StartMailStep, WriteStep
<1>4. CASE ~UpdateResultStep(r) /\ ~StartMailStep(r)
  BY <1>1, <1>4
  DEF HandleResult, ClaimResult, PublishCodeSent, NotifyCodeSent, HandlerFails, SyncSession,
      Compensate, FailSession, DeactivateUser, DeactivateAuth, PublishFailed, rows
<1>5. QED
  BY <1>2, <1>3, <1>4

\* VerifyEmail writes its own two steps, which are not failed before the end.
LEMMA RequestKeepsFailed ==
    ASSUME FirmFailures, FinalInvariant, NEW q \in Requests,
           VerifyEmail(q) \/ ServeRequest(q) \/ RequestFails(q) \/ VerificationFails(q),
           NEW k \in StepKeys, steps[k] = "failed"
    PROVE  steps'[k] = "failed"
<1>1. steps \in [StepKeys -> StepStatus]
  BY DEF FinalInvariant, ReconcileInvariant, OutcomeInvariant, SuccessInvariant, TypeOK
<1>2. pc[q] \notin VerifierLabels
  BY VerifierExcludesFailure DEF Verifying, SomeStepFailed
<1>3. ASSUME NEW from \in VerifierLabels, NEW j, NEW s, NEW to, SetVerificationStep(q, from, j, s, to)
      PROVE  FALSE
  BY <1>2, <1>3 DEF SetVerificationStep, Goto
<1>4. ASSUME NEW from, NEW j, NEW s, NEW to, CreateVerificationStep(q, from, j, s, to)
      PROVE  steps'[k] = "failed"
  BY <1>1, <1>4 DEF CreateVerificationStep, InsertStep
<1>5. ASSUME NEW from, NEW j, FailVerificationStep(q, from, j)
      PROVE  steps'[k] = "failed"
  BY <1>1, <1>5 DEF FailVerificationStep, WriteStep, NextStepStatus
<1>6. CASE UNCHANGED steps
  BY <1>6
<1>7. \/ UNCHANGED steps
      \/ \E from, j, s, to : CreateVerificationStep(q, from, j, s, to)
      \/ \E from, j : FailVerificationStep(q, from, j)
      \/ \E from \in VerifierLabels : \E j, s, to : SetVerificationStep(q, from, j, s, to)
  BY DEF VerifyEmail, ServeRequest, RequestFails, VerificationFails, RereadSession, SyncSession,
         Compensate, FailSession, DeactivateUser, DeactivateAuth, PublishFailed,
         SetSession, VerifyCode, ActivateUser, PublishCompleted, rows, VerifierLabels
<1>8. QED
  BY <1>3, <1>4, <1>5, <1>6, <1>7

\* A failed step is failed for good.
LEMMA FailedForGood ==
    ASSUME FirmFailures, FinalInvariant, [Next]_vars, NEW k \in StepKeys, steps[k] = "failed"
    PROVE  steps'[k] = "failed"
<1>1. CASE \/ \E r \in Results, o \in {"success", "failed"} : DownstreamReports(r, o)
           \/ \E g \in Queries : GetRegistrationStatus(g) \/ ClaimCompleted(g) \/ ClaimFails(g)
           \/ Restart \/ UNCHANGED vars
  BY <1>1 DEF DownstreamReports, GetRegistrationStatus, ClaimCompleted, ClaimFails, Restart, vars, rows
<1>2. QED
  BY <1>1, StartKeepsFailed, ResultKeepsFailed, RequestKeepsFailed DEF Next

-----------------------------------------------------------------------------
(* Who writes a variable.                                                  *)

\* What a service has reported is not taken back.
LEMMA OutcomeStays ==
    ASSUME TypeOK, [Next]_vars, NEW r \in Results, outcome[r] # "none"
    PROVE  outcome'[r] = outcome[r]
<1>1. ASSUME NEW a \in Results, NEW o \in {"success", "failed"}, DownstreamReports(a, o)
      PROVE  outcome'[r] = outcome[r]
  BY <1>1 DEF DownstreamReports, TypeOK
<1>2. HandleResult(r) \/ HandlerFails(r) \/ Restart => outcome' = outcome
  BY DEF HandleResult, ClaimResult, UpdateResultStep, StartMailStep, PublishCodeSent, NotifyCodeSent,
         HandlerFails, SyncSession, Compensate, FailSession, DeactivateUser, DeactivateAuth, PublishFailed,
         Restart, inbox
<1>3. QED
  BY <1>1, <1>2, ResultAlone

\* Three successes stay three successes.
LEMMA SuccessStays ==
    TypeOK /\ [Next]_vars /\ AllSucceeded => AllSucceeded'
BY OutcomeStays DEF AllSucceeded, Succeeded

\* The writers of the session's status, with what they find and write.
LEMMA SessionWriters ==
    ASSUME [Next]_vars
    PROVE  \/ session' = session
           \/ starter = "idle" /\ session' = "started"
           \/ starter = "mark_session" /\ session' = "in_progress"
           \/ starter = "fail_session" /\ session' = "failed"
           \/ (\E p \in Processes : pc[p] = "sync") /\ session' = ReconciledStatus(steps)
           \/ (\E p \in Processes : pc[p] \in {"fail_session", "abandon_session"}) /\ session' = "failed"
           \/ (\E q \in Requests : Verifying(q)) /\ session' # "failed"
           \/ session = "completed" /\ session' = "tokens_claimed"
<1> USE DEF rows
<1>1. CASE StartSession \/ RunStart \/ StartStops
  BY <1>1
  DEF StartSession, RunStart, StartStops, CreateStartStep, HashPassword, MarkSessionInProgress,
      MarkStepInProgress, PublishCommand, FailStartStep, FailStartSession
<1>2. ASSUME NEW r \in Results, HandleResult(r) \/ HandlerFails(r), session' # session
      PROVE  \/ pc[r] = "sync" /\ session' = ReconciledStatus(steps)
             \/ pc[r] \in {"fail_session", "abandon_session"} /\ session' = "failed"
  BY <1>2
  DEF HandleResult, ClaimResult, UpdateResultStep, StartMailStep, PublishCodeSent, NotifyCodeSent,
      HandlerFails, SyncSession, Compensate, FailSession, DeactivateUser, DeactivateAuth, PublishFailed, Goto
<1>3. ASSUME NEW q \in Requests, session' # session,
             VerifyEmail(q) \/ ServeRequest(q) \/ RequestFails(q) \/ VerificationFails(q)
      PROVE  \/ pc[q] = "sync" /\ session' = ReconciledStatus(steps)
             \/ pc[q] \in {"fail_session", "abandon_session"} /\ session' = "failed"
             \/ Verifying(q) /\ session' # "failed"
  BY <1>3
  DEF VerifyEmail, ServeRequest, RequestFails, VerificationFails, RereadSession, SyncSession,
      Compensate, FailSession, DeactivateUser, DeactivateAuth, PublishFailed, CreateVerificationStep,
      SetSession, SetVerificationStep, VerifyCode, ActivateUser, PublishCompleted, FailVerificationStep,
      Goto, Verifying, VerifierLabels
<1>4. CASE \/ \E r \in Results, o \in {"success", "failed"} : DownstreamReports(r, o)
           \/ \E g \in Queries : GetRegistrationStatus(g) \/ ClaimCompleted(g) \/ ClaimFails(g)
           \/ Restart \/ UNCHANGED vars
  BY <1>4 DEF DownstreamReports, GetRegistrationStatus, ClaimCompleted, ClaimFails, Restart, vars
<1>5. QED
  BY <1>1, <1>2, <1>3, <1>4 DEF Next, Processes

\* The writers of the step rows.
LEMMA StepWriters ==
    ASSUME [Next]_vars, steps' # steps
    PROVE  starter # "idle" \/ \E p \in Processes : pc[p] # "idle"
<1> USE DEF rows
<1>1. CASE StartSession \/ RunStart \/ StartStops
  BY <1>1
  DEF StartSession, RunStart, StartStops, CreateStartStep, HashPassword, MarkSessionInProgress,
      MarkStepInProgress, PublishCommand, FailStartStep, FailStartSession
<1>2. ASSUME NEW r \in Results, HandleResult(r) \/ HandlerFails(r)
      PROVE  pc[r] # "idle"
  BY <1>2
  DEF HandleResult, ClaimResult, UpdateResultStep, StartMailStep, PublishCodeSent, NotifyCodeSent,
      HandlerFails, SyncSession, Compensate, FailSession, DeactivateUser, DeactivateAuth, PublishFailed, Goto
<1>3. ASSUME NEW q \in Requests,
             VerifyEmail(q) \/ ServeRequest(q) \/ RequestFails(q) \/ VerificationFails(q)
      PROVE  pc[q] # "idle"
  BY <1>3
  DEF VerifyEmail, ServeRequest, RequestFails, VerificationFails, RereadSession, SyncSession,
      Compensate, FailSession, DeactivateUser, DeactivateAuth, PublishFailed, CreateVerificationStep,
      SetSession, SetVerificationStep, VerifyCode, ActivateUser, PublishCompleted, FailVerificationStep, Goto
<1>4. CASE \/ \E r \in Results, o \in {"success", "failed"} : DownstreamReports(r, o)
           \/ \E g \in Queries : GetRegistrationStatus(g) \/ ClaimCompleted(g) \/ ClaimFails(g)
           \/ Restart \/ UNCHANGED vars
  BY <1>4 DEF DownstreamReports, GetRegistrationStatus, ClaimCompleted, ClaimFails, Restart, vars
<1>5. QED
  BY <1>1, <1>2, <1>3, <1>4 DEF Next, Processes

-----------------------------------------------------------------------------
(* A failed session stays failed.                                          *)

\* A reconciliation writes "failed" exactly when a step is failed.
LEMMA ReconciledFailure == ReconciledStatus(steps) = "failed" <=> SomeStepFailed
BY DEF ReconciledStatus, SomeStepFailed

\* No writer of the session's status finds it failed and writes another one.
LEMMA FailedSessionStays ==
    ASSUME FirmFailures, FinalInvariant, [Next]_vars, session = "failed"
    PROVE  session' = "failed"
<1>1. SomeStepFailed
  BY DEF FinalInvariant, FailureIsRecorded
<1>2. starter # "idle"
  BY DEF FinalInvariant, StagesInOrder
<1>3. starter # "mark_session"
  BY <1>1, EarlyStartExcludesFailure
<1>4. \A q \in Requests : ~Verifying(q)
  BY <1>1, VerifierExcludesFailure
<1>5. QED
  BY <1>1, <1>2, <1>3, <1>4, SessionWriters, ReconciledFailure

\* Before Start has stored anything nobody else can run.
LEMMA NothingRunsBeforeStart ==
    ASSUME FinalInvariant, starter = "idle"
    PROVE  \A p \in Processes : pc[p] = "idle"
<1>1. ~RowsStored
  BY DEF FinalInvariant, StagesInOrder, RowsStored, StepKeys, InitialSteps
<1>2. QED
  BY <1>1 DEF FinalInvariant, ReconcileInvariant, OutcomeInvariant, SuccessInvariant, RowsComeFirst, RowsRelied

\* Start never becomes idle again.
LEMMA StartBeginsOnce ==
    ASSUME [Next]_vars, starter' = "idle"
    PROVE  starter = "idle" /\ ~StartSession
BY DEF Next, vars, StartSession, RunStart, StartStops, CreateStartStep, HashPassword, MarkSessionInProgress,
     MarkStepInProgress, PublishCommand, FailStartStep, FailStartSession, DownstreamReports,
     HandleResult, ClaimResult, UpdateResultStep, StartMailStep, PublishCodeSent, NotifyCodeSent,
     HandlerFails, SyncSession, Compensate, FailSession, DeactivateUser, DeactivateAuth, PublishFailed,
     VerifyEmail, ServeRequest, RequestFails, VerificationFails, RereadSession, CreateVerificationStep,
     SetSession, SetVerificationStep, VerifyCode, ActivateUser, PublishCompleted, FailVerificationStep,
     GetRegistrationStatus, ClaimCompleted, ClaimFails, Restart

\* The verification step is inserted by a VerifyEmail that found three successes.
LEMMA VerificationFollowsSuccess ==
    ASSUME FinalInvariant, [Next]_vars, steps["verify"] = "none", steps'["verify"] # "none"
    PROVE  AllSucceeded
<1> USE DEF rows, WriteStep, InsertStep, NextStepStatus
<1>1. SuccessInvariant /\ steps \in [StepKeys -> StepStatus] /\ "verify" \in StepKeys
  BY DEF FinalInvariant, ReconcileInvariant, OutcomeInvariant, SuccessInvariant, TypeOK, StepKeys
<1>2. ~(StartSession \/ RunStart \/ StartStops)
  BY <1>1
  DEF StartSession, RunStart, StartStops, CreateStartStep, HashPassword, MarkSessionInProgress,
      MarkStepInProgress, PublishCommand, FailStartStep, FailStartSession
<1>3. ASSUME NEW r \in Results, HandleResult(r) \/ HandlerFails(r)
      PROVE  FALSE
  BY <1>1, <1>3
  DEF HandleResult, ClaimResult, UpdateResultStep, StartMailStep, PublishCodeSent, NotifyCodeSent,
      HandlerFails, SyncSession, Compensate, FailSession, DeactivateUser, DeactivateAuth, PublishFailed
<1>4. ASSUME NEW q \in Requests,
             VerifyEmail(q) \/ ServeRequest(q) \/ RequestFails(q) \/ VerificationFails(q)
      PROVE  pc[q] = "create_verify"
  BY <1>1, <1>4
  DEF VerifyEmail, ServeRequest, RequestFails, VerificationFails, RereadSession, SyncSession,
      Compensate, FailSession, DeactivateUser, DeactivateAuth, PublishFailed, CreateVerificationStep,
      SetSession, SetVerificationStep, VerifyCode, ActivateUser, PublishCompleted, FailVerificationStep, Goto
<1>5. ~(\/ \E r \in Results, o \in {"success", "failed"} : DownstreamReports(r, o)
        \/ \E g \in Queries : GetRegistrationStatus(g) \/ ClaimCompleted(g) \/ ClaimFails(g)
        \/ Restart \/ UNCHANGED vars)
  BY DEF DownstreamReports, GetRegistrationStatus, ClaimCompleted, ClaimFails, Restart, vars
<1>6. PICK q \in Requests : pc[q] = "create_verify"
  BY <1>2, <1>3, <1>4, <1>5 DEF Next
<1>7. QED
  BY <1>1, <1>6 DEF SuccessInvariant, OpenLabels

\* Only its own request or a restart moves VerifyEmail.
LEMMA RequestAlone ==
    ASSUME TypeOK, [Next]_vars, NEW q \in Requests
    PROVE  \/ pc'[q] = pc[q]
           \/ VerifyEmail(q) \/ ServeRequest(q) \/ RequestFails(q) \/ VerificationFails(q)
           \/ Restart
<1>1. q \in Processes /\ q \notin Results /\ q \notin Queries
  BY SagaAssumption DEF Processes
<1>2. CASE StartSession \/ RunStart \/ StartStops
  BY <1>2
  DEF StartSession, RunStart, StartStops, CreateStartStep, HashPassword, MarkSessionInProgress,
      MarkStepInProgress, PublishCommand, FailStartStep, FailStartSession
<1>3. ASSUME NEW r \in Results, HandleResult(r) \/ HandlerFails(r)
                                \/ \E o \in {"success", "failed"} : DownstreamReports(r, o)
      PROVE  pc'[q] = pc[q]
  BY <1>1, <1>3
  DEF HandleResult, ClaimResult, UpdateResultStep, StartMailStep, PublishCodeSent, NotifyCodeSent,
      HandlerFails, SyncSession, Compensate, FailSession, DeactivateUser, DeactivateAuth, PublishFailed,
      DownstreamReports, Goto, TypeOK, PcTypeOK
<1>4. ASSUME NEW p \in Requests, p # q,
             VerifyEmail(p) \/ ServeRequest(p) \/ RequestFails(p) \/ VerificationFails(p)
      PROVE  pc'[q] = pc[q]
  BY <1>1, <1>4
  DEF VerifyEmail, ServeRequest, RequestFails, VerificationFails, RereadSession, SyncSession,
      Compensate, FailSession, DeactivateUser, DeactivateAuth, PublishFailed, CreateVerificationStep,
      SetSession, SetVerificationStep, VerifyCode, ActivateUser, PublishCompleted, FailVerificationStep,
      Goto, TypeOK, PcTypeOK
<1>5. ASSUME NEW g \in Queries, GetRegistrationStatus(g) \/ ClaimCompleted(g) \/ ClaimFails(g)
      PROVE  pc'[q] = pc[q]
  BY <1>1, <1>5 DEF GetRegistrationStatus, ClaimCompleted, ClaimFails, Goto, TypeOK, PcTypeOK
<1>6. QED
  BY <1>2, <1>3, <1>4, <1>5 DEF Next, vars

\* The order of the stages is kept.
LEMMA NextStages ==
    ASSUME FirmFailures, FinalInvariant, [Next]_vars
    PROVE  StagesInOrder'
<1>1. TypeOK
  BY DEF FinalInvariant, ReconcileInvariant, OutcomeInvariant, SuccessInvariant
<1>2. ASSUME starter' = "idle" PROVE session' = "none" /\ \A k \in StepKeys : steps'[k] = "none"
  <2>1. starter = "idle" /\ ~StartSession /\ \A p \in Processes : pc[p] = "idle"
    BY <1>2, StartBeginsOnce, NothingRunsBeforeStart
  <2>2. session = "none" /\ \A k \in StepKeys : steps[k] = "none"
    BY <2>1 DEF FinalInvariant, StagesInOrder
  <2>3. steps' = steps
    BY <2>1, StepWriters
  <2>4. session' # "started"
    BY <2>1, <2>2
    DEF Next, vars, rows, RunStart, StartStops, CreateStartStep, HashPassword, MarkSessionInProgress,
        MarkStepInProgress, PublishCommand, FailStartStep, FailStartSession, DownstreamReports,
        HandleResult, ClaimResult, UpdateResultStep, StartMailStep, PublishCodeSent, NotifyCodeSent,
        HandlerFails, SyncSession, Compensate, FailSession, DeactivateUser, DeactivateAuth, PublishFailed,
        VerifyEmail, ServeRequest, RequestFails, VerificationFails, RereadSession, CreateVerificationStep,
        SetSession, SetVerificationStep, VerifyCode, ActivateUser, PublishCompleted, FailVerificationStep,
        GetRegistrationStatus, ClaimCompleted, ClaimFails, Restart, Goto, Processes
  <2>5. \A q \in Requests : q \in Processes /\ ~Verifying(q)
    BY <2>1 DEF Verifying, VerifierLabels, Processes
  <2>6. session' = session
    BY <2>1, <2>2, <2>4, <2>5, SessionWriters
  <2>7. QED
    BY <2>2, <2>3, <2>6
<1>3. ASSUME steps'["verify"] # "none" PROVE AllSucceeded'
  BY <1>1, <1>3, VerificationFollowsSuccess, SuccessStays DEF FinalInvariant, StagesInOrder
<1>4. ASSUME NEW q \in Requests, pc'[q] = "fail_activate_step" PROVE steps'["activate"] # "none"
  <2>1. CASE pc[q] = "fail_activate_step"
    BY <1>1, <2>1, RowsStay DEF FinalInvariant, StagesInOrder, StepKeys
  <2>2. CASE ActivateUser(q)
    BY <1>1, <2>2, RowsStay
    DEF ActivateUser, Goto, rows, FinalInvariant, ReconcileInvariant, OutcomeInvariant, Backing, Verified
  <2>3. ~VerificationFails(q)
    BY DEF VerificationFails, FirmFailures, PlainAnswers
  <2>4. q \in Processes
    BY DEF Processes
  <2>5. CASE pc[q] # "fail_activate_step" /\ ~ActivateUser(q)
    <3>1. ~Restart
      BY <1>4, <2>4, SagaAssumption DEF Restart, Processes
    <3>2. VerifyEmail(q) \/ ServeRequest(q) \/ RequestFails(q)
      BY <1>1, <1>4, <2>3, <2>5, <3>1, RequestAlone
    <3>3. pc'[q] # "fail_activate_step"
      BY <1>1, <2>4, <2>5, <3>2, SagaAssumption
      DEF VerifyEmail, ServeRequest, RequestFails, RereadSession, SyncSession,
          Compensate, FailSession, DeactivateUser, DeactivateAuth, PublishFailed, AfterCompensation,
          CreateVerificationStep, SetSession, SetVerificationStep, VerifyCode, PublishCompleted,
          FailVerificationStep, Goto, TypeOK, PcTypeOK
    <3>4. QED
      BY <1>4, <3>3
  <2>6. QED
    BY <2>1, <2>2, <2>5
<1>5. QED
  BY <1>2, <1>3, <1>4 DEF StagesInOrder

\* A step that failed for want of its command has none in the end: Start has
\* published its last command before it ends.
LEMMA NoLateCommand ==
    ASSUME FinalInvariant, [Next]_vars, starter \in {"fail_session", "done"}
    PROVE  commands' = commands /\ starter' \in {"fail_session", "done"}
BY DEF Next, vars, inbox, StartSession, RunStart, StartStops, CreateStartStep, HashPassword,
     MarkSessionInProgress, MarkStepInProgress, PublishCommand, FailStartStep, FailStartSession,
     DownstreamReports, HandleResult, ClaimResult, UpdateResultStep, StartMailStep, PublishCodeSent,
     NotifyCodeSent, HandlerFails, SyncSession, Compensate, FailSession, DeactivateUser, DeactivateAuth,
     PublishFailed, VerifyEmail, ServeRequest, RequestFails, VerificationFails, RereadSession,
     CreateVerificationStep, SetSession, SetVerificationStep, VerifyCode, ActivateUser, PublishCompleted,
     FailVerificationStep, GetRegistrationStatus, ClaimCompleted, ClaimFails, Restart

\* An initial step fails because Start could not publish its command, or
\* because its service reported a failure.
LEMMA FailureOrigins ==
    ASSUME FinalInvariant, [Next]_vars, NEW k \in InitialSteps,
           steps[k] # "failed", steps'[k] = "failed"
    PROVE  \/ FailStartStep("fail_user", "user") /\ k = "user"
           \/ FailStartStep("fail_auth", "auth") /\ k = "auth"
           \/ \E r \in Results : StepOf[r] = k /\ pc[r] # "idle" /\ outcome[r] = "failed"
<1> USE DEF rows, WriteStep, InsertStep, NextStepStatus
<1>1. TypeOK /\ TroubleHasCause /\ k \in StepKeys
  BY DEF FinalInvariant, ReconcileInvariant, OutcomeInvariant, SuccessInvariant, StepKeys
<1>2. CASE StartSession \/ RunStart \/ StartStops
  BY <1>1, <1>2
  DEF StartSession, RunStart, StartStops, CreateStartStep, HashPassword, MarkSessionInProgress,
      MarkStepInProgress, PublishCommand, FailStartStep, FailStartSession, TypeOK
<1>3. ASSUME NEW r \in Results, UpdateResultStep(r)
      PROVE  StepOf[r] = k /\ pc[r] # "idle" /\ outcome[r] = "failed"
  <2>1. pc[r] # "idle" /\ outcome[r] \in {"success", "failed"}
    BY <1>1, <1>3 DEF UpdateResultStep, Goto, TroubleHasCause, TypeOK
  <2>2. StepOf[r] = k /\ outcome[r] # "success"
    BY <1>1, <1>3 DEF UpdateResultStep, TypeOK
  <2>3. QED
    BY <2>1, <2>2
<1>4. ASSUME NEW r \in Results, HandleResult(r) \/ HandlerFails(r), ~UpdateResultStep(r)
      PROVE  FALSE
  BY <1>1, <1>4
  DEF HandleResult, ClaimResult, StartMailStep, PublishCodeSent, NotifyCodeSent, HandlerFails,
      SyncSession, Compensate, FailSession, DeactivateUser, DeactivateAuth, PublishFailed, TypeOK
<1>5. CASE \/ \E q \in Requests : VerifyEmail(q) \/ ServeRequest(q) \/ RequestFails(q) \/ VerificationFails(q)
           \/ \E g \in Queries : GetRegistrationStatus(g) \/ ClaimCompleted(g) \/ ClaimFails(g)
  BY <1>1, <1>5, RequestsKeepInitialSteps
<1>6. ~(\/ \E r \in Results, o \in {"success", "failed"} : DownstreamReports(r, o)
        \/ Restart \/ UNCHANGED vars)
  BY DEF DownstreamReports, Restart, vars
<1>7. QED
  BY <1>2, <1>3, <1>4, <1>5, <1>6 DEF Next

\* Every failed initial step keeps its reason.
LEMMA NextReasons ==
    ASSUME FirmFailures, FinalInvariant, [Next]_vars
    PROVE  FailuresHaveReasons'
<1>1. TypeOK /\ FailuresHaveReasons /\ CommandComesLast /\ UserCommandFirst
  BY DEF FinalInvariant, ReconcileInvariant, OutcomeInvariant, SuccessInvariant
<1>2. ASSUME NEW r \in Results, outcome'[r] = "failed" PROVE StepOf[r] \in MayReject
  <2>1. CASE outcome[r] # "none"
    BY <1>1, <1>2, <2>1, OutcomeStays DEF FailuresHaveReasons
  <2>2. CASE \E o \in {"success", "failed"} : DownstreamReports(r, o)
    BY <1>1, <1>2, <2>2 DEF DownstreamReports, TypeOK
  <2>3. HandleResult(r) \/ HandlerFails(r) \/ Restart => outcome' = outcome
    BY DEF HandleResult, ClaimResult, UpdateResultStep, StartMailStep, PublishCodeSent, NotifyCodeSent,
           HandlerFails, SyncSession, Compensate, FailSession, DeactivateUser, DeactivateAuth, PublishFailed,
           Restart, inbox
  <2>4. QED
    BY <1>1, <1>2, <2>1, <2>2, <2>3, ResultAlone
<1>3. ASSUME NEW k \in InitialSteps, steps'[k] = "failed"
      PROVE  \/ \E r \in Results : StepOf[r] = k /\ outcome'[r] = "failed"
             \/ k \in {"user", "auth"} \ commands' /\ starter' \in {"fail_session", "done"}
  <2>1. CASE \E r \in Results : StepOf[r] = k /\ outcome[r] = "failed"
    BY <1>1, <2>1, OutcomeStays
  <2>2. CASE k \in {"user", "auth"} \ commands /\ starter \in {"fail_session", "done"}
    BY <2>2, NoLateCommand
  <2>3. CASE steps[k] # "failed"
    <3>1. CASE FailStartStep("fail_user", "user") /\ k = "user"
      BY <1>1, <3>1 DEF FailStartStep, UserCommandFirst, inbox
    <3>2. CASE FailStartStep("fail_auth", "auth") /\ k = "auth"
      BY <1>1, <3>2 DEF FailStartStep, CommandComesLast, inbox
    <3>3. QED
      BY <1>3, <2>1, <2>3, <3>1, <3>2, FailureOrigins
  <2>4. QED
    BY <1>1, <2>1, <2>2, <2>3 DEF FailuresHaveReasons
<1>4. QED
  BY <1>2, <1>3 DEF FailuresHaveReasons

\* Start's last write follows that of a step.
LEMMA StartRecordsFailure ==
    ASSUME FirmFailures, FinalInvariant, [Next]_vars, starter' = "fail_session", starter # "fail_session"
    PROVE  \E k \in StepKeys : steps'[k] = "failed"
<1>1. CASE FailStartStep("fail_user", "user") \/ FailStartStep("fail_auth", "auth")
  <2>1. steps \in [StepKeys -> StepStatus] /\ RowsStored
    BY <1>1
    DEF FailStartStep, FinalInvariant, ReconcileInvariant, OutcomeInvariant, SuccessInvariant, TypeOK,
        RowsComeFirst, RowsRelied
  <2>2. QED
    BY <1>1, <2>1
    DEF FailStartStep, WriteStep, NextStepStatus, FirmFailures, RowsStored, InitialSteps, StepKeys
<1>2. QED
  BY <1>1
  DEF Next, vars, StartSession, RunStart, StartStops, CreateStartStep, HashPassword, MarkSessionInProgress,
      MarkStepInProgress, PublishCommand, FailStartSession, DownstreamReports,
      HandleResult, ClaimResult, UpdateResultStep, StartMailStep, PublishCodeSent, NotifyCodeSent,
      HandlerFails, SyncSession, Compensate, FailSession, DeactivateUser, DeactivateAuth, PublishFailed,
      VerifyEmail, ServeRequest, RequestFails, VerificationFails, RereadSession, CreateVerificationStep,
      SetSession, SetVerificationStep, VerifyCode, ActivateUser, PublishCompleted, FailVerificationStep,
      GetRegistrationStatus, ClaimCompleted, ClaimFails, Restart

\* A reconciliation that leads to a compensation has seen a failed step.
LEMMA SyncSeesFailure ==
    ASSUME TypeOK, NEW p \in Processes, SyncSession(p), pc'[p] = "fail_session"
    PROVE  SomeStepFailed /\ steps' = steps
BY ReconciledFailure DEF SyncSession, Goto, TypeOK, PcTypeOK

\* A handler begins a compensation when its own step, or another one, failed.
LEMMA ResultRecordsFailure ==
    ASSUME FirmFailures, FinalInvariant, [Next]_vars, NEW r \in Results,
           pc'[r] = "fail_session", pc[r] # "fail_session"
    PROVE  \E k \in StepKeys : steps'[k] = "failed"
<1>1. TypeOK /\ r \in Processes /\ StepOf[r] \in StepKeys /\ steps \in [StepKeys -> StepStatus]
  BY SagaAssumption
  DEF FinalInvariant, ReconcileInvariant, OutcomeInvariant, SuccessInvariant, Processes, StepKeys, TypeOK
<1>2. CASE UpdateResultStep(r)
  <2>1. outcome[r] # "success"
    BY <1>1, <1>2, SagaAssumption DEF UpdateResultStep, AfterUpdateStep, Goto, InitialSteps, TypeOK, PcTypeOK
  <2>2. steps[StepOf[r]] # "none"
    BY <1>2, <1>1, SagaAssumption
    DEF UpdateResultStep, Goto, FinalInvariant, ReconcileInvariant, OutcomeInvariant, SuccessInvariant,
        RowsComeFirst, RowsRelied, RowsStored
  <2>3. QED
    BY <1>1, <1>2, <2>1, <2>2 DEF UpdateResultStep, WriteStep, NextStepStatus
<1>3. CASE SyncSession(r)
  BY <1>1, <1>3, SyncSeesFailure DEF SomeStepFailed
<1>4. CASE HandleResult(r) /\ ~UpdateResultStep(r) /\ ~SyncSession(r)
  BY <1>1, <1>4
  DEF HandleResult, ClaimResult, StartMailStep, PublishCodeSent, NotifyCodeSent, Compensate, FailSession,
      DeactivateUser, DeactivateAuth, PublishFailed, AfterCompensation, Goto, TypeOK, PcTypeOK
<1>5. ~HandlerFails(r) /\ ~Restart /\ ~\E o \in {"success", "failed"} : DownstreamReports(r, o)
  BY <1>1 DEF HandlerFails, Restart, DownstreamReports, TypeOK, PcTypeOK
<1>6. QED
  BY <1>1, <1>2, <1>3, <1>4, <1>5, ResultAlone

\* So does VerifyEmail, and its goroutine after it recorded its own failure.
LEMMA RequestRecordsFailure ==
    ASSUME FirmFailures, FinalInvariant, [Next]_vars, NEW q \in Requests,
           pc'[q] \in {"fail_session", "abandon_session"}, pc[q] \notin {"fail_session", "abandon_session"}
    PROVE  \E k \in StepKeys : steps'[k] = "failed"
<1>1. TypeOK /\ q \in Processes /\ q \notin Results /\ steps \in [StepKeys -> StepStatus]
  BY SagaAssumption
  DEF FinalInvariant, ReconcileInvariant, OutcomeInvariant, SuccessInvariant, Processes, TypeOK
<1>2. CASE SyncSession(q)
  <2>1. pc'[q] = "fail_session"
    BY <1>1, <1>2 DEF SyncSession, Goto, TypeOK, PcTypeOK
  <2>2. QED
    BY <1>1, <1>2, <2>1, SyncSeesFailure DEF SomeStepFailed
<1>3. CASE \/ FailVerificationStep(q, "fail_verify_step", "verify")
           \/ FailVerificationStep(q, "fail_activate_step", "activate")
  <2>1. pc[q] = "fail_verify_step" => steps["verify"] # "none"
    BY DEF FinalInvariant, ReconcileInvariant, OutcomeInvariant, ClaimInvariant, NoVerifierBeforeStep,
           EntryLabels, CompensationLabels
  <2>2. pc[q] = "fail_activate_step" => steps["activate"] # "none"
    BY DEF FinalInvariant, StagesInOrder
  <2>3. QED
    BY <1>1, <1>3, <2>1, <2>2
    DEF FailVerificationStep, Goto, WriteStep, NextStepStatus, FirmFailures, StepKeys
<1>4. ~RequestFails(q) \/ pc'[q] = "idle"
  BY <1>1 DEF RequestFails, TypeOK, PcTypeOK
<1>5. ~Restart /\ ~VerificationFails(q)
  BY <1>1 DEF Restart, VerificationFails, FirmFailures, PlainAnswers
<1>6. CASE /\ VerifyEmail(q) \/ ServeRequest(q)
           /\ ~SyncSession(q) /\ ~FailVerificationStep(q, "fail_verify_step", "verify")
           /\ ~FailVerificationStep(q, "fail_activate_step", "activate")
  BY <1>1, <1>6
  DEF VerifyEmail, ServeRequest, RereadSession, Compensate, FailSession, DeactivateUser, DeactivateAuth,
      PublishFailed, AfterCompensation, CreateVerificationStep, SetSession, SetVerificationStep, VerifyCode,
      ActivateUser, PublishCompleted, Goto, TypeOK, PcTypeOK
<1>7. QED
  BY <1>1, <1>2, <1>3, <1>4, <1>5, <1>6, RequestAlone

\* Whoever is about to fail the session has a failed step to show.
LEMMA NextRecorded ==
    ASSUME FirmFailures, FinalInvariant, TypeOK', [Next]_vars
    PROVE  FailureIsRecorded'
<1> SUFFICES ASSUME \/ session' = "failed" \/ starter' = "fail_session"
                    \/ \E p \in Processes : pc'[p] \in {"fail_session", "abandon_session"}
             PROVE  \E k \in StepKeys : steps'[k] = "failed"
  BY DEF FailureIsRecorded, SomeStepFailed
<1>1. CASE SomeStepFailed
  BY <1>1, FailedForGood DEF SomeStepFailed
<1>2. CASE ~SomeStepFailed
  <2>1. /\ session # "failed" /\ starter # "fail_session"
        /\ \A p \in Processes : pc[p] \notin {"fail_session", "abandon_session"}
    BY <1>2 DEF FinalInvariant, FailureIsRecorded
  <2>2. session' # "failed"
    BY <1>2, <2>1, SessionWriters, ReconciledFailure
  <2>3. CASE starter' = "fail_session"
    BY <2>1, <2>3, StartRecordsFailure
  <2>4. ASSUME NEW p \in Processes, pc'[p] \in {"fail_session", "abandon_session"}
        PROVE  \E k \in StepKeys : steps'[k] = "failed"
    <3>1. p \in Results \/ p \in Requests
      BY <2>4 DEF TypeOK, PcTypeOK, Processes, QueryLabels
    <3>2. p \in Results => pc'[p] = "fail_session"
      BY <2>4 DEF TypeOK, PcTypeOK, ResultLabels, CompensationLabels
    <3>3. QED
      BY <2>1, <2>4, <3>1, <3>2, ResultRecordsFailure, RequestRecordsFailure
  <2>5. QED
    BY <2>2, <2>3, <2>4
<1>3. QED
  BY <1>1, <1>2

\* Initially nothing has failed.
LEMMA InitFinal == Init => FinalInvariant
<1> SUFFICES ASSUME Init PROVE FinalInvariant
  OBVIOUS
<1>1. ReconcileInvariant
  BY InitReconcile
<1>2. StagesInOrder
  BY DEF Init, StagesInOrder, StepKeys, Processes
<1>3. FailuresHaveReasons
  BY DEF Init, FailuresHaveReasons, InitialSteps, StepKeys
<1>4. FailureIsRecorded
  BY DEF Init, FailureIsRecorded
<1>5. QED
  BY <1>1, <1>2, <1>3, <1>4 DEF FinalInvariant

\* When failures are firm, every failure of the session rests on a failed step
\* and every failed initial step on its service: for any number of requests,
\* queries and restarts, and whatever publishes and RPCs fail.
THEOREM FailuresAreRecorded == FirmFailures => (Spec => []FinalInvariant)
<1> SUFFICES ASSUME FirmFailures PROVE Spec => []FinalInvariant
  OBVIOUS
<1>1. PlainAnswers
  BY DEF FirmFailures
<1>2. Spec => []ReconcileInvariant
  BY <1>1, HandlersReconcile
<1>3. FinalInvariant /\ ReconcileInvariant' /\ [Next]_vars => FinalInvariant'
  <2>1. ReconcileInvariant => TypeOK
    BY DEF ReconcileInvariant, OutcomeInvariant, SuccessInvariant
  <2>2. ReconcileInvariant' => TypeOK'
    BY DEF ReconcileInvariant, OutcomeInvariant, SuccessInvariant
  <2>3. QED
    BY <2>2, NextStages, NextReasons, NextRecorded DEF FinalInvariant
<1>4. QED
  BY <1>2, <1>3, InitFinal, PTL DEF Spec

\* session.go's "failed marks a non-recoverable failure" is true when failures
\* are firm: no late result, reconciliation or verification revives the session.
THEOREM FailureIsFinal == FirmFailures => (Spec => FailedIsFinal)
<1> SUFFICES ASSUME FirmFailures PROVE Spec => FailedIsFinal
  OBVIOUS
<1>1. FinalInvariant /\ [Next]_vars => [session = "failed" => session' = "failed"]_session
  BY FailedSessionStays
<1>2. QED
  BY <1>1, FailuresAreRecorded, PTL DEF Spec, FailedIsFinal

-----------------------------------------------------------------------------
(* What can happen to an undisturbed saga.                                 *)

\* Nothing fails but the hashing of a password, and nothing is restarted.
LEMMA NothingDisturbs ==
    ASSUME UndisturbedSaga, TypeOK
    PROVE  /\ \A r \in Results : ~HandlerFails(r)
           /\ \A q \in Requests : ~RequestFails(q) /\ ~VerificationFails(q)
           /\ \A g \in Queries : ~ClaimFails(g)
           /\ ~Restart
           /\ {"db", "rpc", "publish", "ambiguous"} \cap Faults = {}
<1>1. {"db", "rpc", "publish", "ambiguous"} \cap Faults = {}
  BY DEF UndisturbedSaga
<1>2. ~Restart
  BY DEF UndisturbedSaga, Restart, TypeOK
<1>3. QED
  BY <1>1, <1>2 DEF HandlerFails, RequestFails, VerificationFails, ClaimFails

\* The writers of the profile, with what they find and write.
LEMMA ProfileWriters ==
    ASSUME [Next]_vars
    PROVE  \/ profile' = profile
           \/ /\ profile = "absent" /\ profile' = "pending"
              /\ \E r \in Results : DownstreamReports(r, "success") /\ StepOf[r] = "user"
           \/ /\ \E p \in Processes : pc[p] \in {"deactivate_user", "abandon_user"}
              /\ profile' = IF profile = "absent" THEN "absent" ELSE "inactive"
           \/ (\E q \in Requests : pc[q] = "activate_user") /\ profile' = "active"
<1> USE DEF accounts
<1>1. ASSUME NEW r \in Results, NEW o \in {"success", "failed"}, DownstreamReports(r, o), profile' # profile
      PROVE  /\ profile = "absent" /\ profile' = "pending"
             /\ DownstreamReports(r, "success") /\ StepOf[r] = "user"
  BY <1>1 DEF DownstreamReports
<1>2. ASSUME NEW r \in Results, HandleResult(r) \/ HandlerFails(r), profile' # profile
      PROVE  /\ pc[r] \in {"deactivate_user", "abandon_user"}
             /\ profile' = IF profile = "absent" THEN "absent" ELSE "inactive"
  BY <1>2
  DEF HandleResult, ClaimResult, UpdateResultStep, StartMailStep, PublishCodeSent, NotifyCodeSent,
      HandlerFails, SyncSession, Compensate, FailSession, DeactivateUser, DeactivateAuth, PublishFailed, Goto
<1>3. ASSUME NEW q \in Requests, profile' # profile,
             VerifyEmail(q) \/ ServeRequest(q) \/ RequestFails(q) \/ VerificationFails(q)
      PROVE  \/ /\ pc[q] \in {"deactivate_user", "abandon_user"}
                /\ profile' = IF profile = "absent" THEN "absent" ELSE "inactive"
             \/ pc[q] = "activate_user" /\ profile' = "active"
  BY <1>3
  DEF VerifyEmail, ServeRequest, RequestFails, VerificationFails, RereadSession, SyncSession,
      Compensate, FailSession, DeactivateUser, DeactivateAuth, PublishFailed, CreateVerificationStep,
      SetSession, SetVerificationStep, VerifyCode, ActivateUser, PublishCompleted, FailVerificationStep, Goto
<1>4. CASE \/ StartSession \/ RunStart \/ StartStops
           \/ \E g \in Queries : GetRegistrationStatus(g) \/ ClaimCompleted(g) \/ ClaimFails(g)
           \/ Restart \/ UNCHANGED vars
  BY <1>4
  DEF StartSession, RunStart, StartStops, CreateStartStep, HashPassword, MarkSessionInProgress,
      MarkStepInProgress, PublishCommand, FailStartStep, FailStartSession,
      GetRegistrationStatus, ClaimCompleted, ClaimFails, Restart, vars
<1>5. QED
  BY <1>1, <1>2, <1>3, <1>4 DEF Next, Processes

\* The writers of the credential.
LEMMA CredentialWriters ==
    ASSUME [Next]_vars
    PROVE  \/ credential' = credential
           \/ /\ credential = "absent" /\ credential' = "pending"
              /\ \E r \in Results : DownstreamReports(r, "success") /\ StepOf[r] = "auth"
           \/ /\ \E p \in Processes : pc[p] \in {"deactivate_auth", "abandon_auth"}
              /\ credential' = IF credential = "absent" THEN "absent" ELSE "inactive"
           \/ (\E q \in Requests : pc[q] = "verify_code") /\ credential' = "verified"
<1> USE DEF accounts
<1>1. ASSUME NEW r \in Results, NEW o \in {"success", "failed"}, DownstreamReports(r, o),
             credential' # credential
      PROVE  /\ credential = "absent" /\ credential' = "pending"
             /\ DownstreamReports(r, "success") /\ StepOf[r] = "auth"
  BY <1>1 DEF DownstreamReports
<1>2. ASSUME NEW r \in Results, HandleResult(r) \/ HandlerFails(r), credential' # credential
      PROVE  /\ pc[r] \in {"deactivate_auth", "abandon_auth"}
             /\ credential' = IF credential = "absent" THEN "absent" ELSE "inactive"
  BY <1>2
  DEF HandleResult, ClaimResult, UpdateResultStep, StartMailStep, PublishCodeSent, NotifyCodeSent,
      HandlerFails, SyncSession, Compensate, FailSession, DeactivateUser, DeactivateAuth, PublishFailed, Goto
<1>3. ASSUME NEW q \in Requests, credential' # credential,
             VerifyEmail(q) \/ ServeRequest(q) \/ RequestFails(q) \/ VerificationFails(q)
      PROVE  \/ /\ pc[q] \in {"deactivate_auth", "abandon_auth"}
                /\ credential' = IF credential = "absent" THEN "absent" ELSE "inactive"
             \/ pc[q] = "verify_code" /\ credential' = "verified"
  BY <1>3
  DEF VerifyEmail, ServeRequest, RequestFails, VerificationFails, RereadSession, SyncSession,
      Compensate, FailSession, DeactivateUser, DeactivateAuth, PublishFailed, CreateVerificationStep,
      SetSession, SetVerificationStep, VerifyCode, ActivateUser, PublishCompleted, FailVerificationStep, Goto
<1>4. CASE \/ StartSession \/ RunStart \/ StartStops
           \/ \E g \in Queries : GetRegistrationStatus(g) \/ ClaimCompleted(g) \/ ClaimFails(g)
           \/ Restart \/ UNCHANGED vars
  BY <1>4
  DEF StartSession, RunStart, StartStops, CreateStartStep, HashPassword, MarkSessionInProgress,
      MarkStepInProgress, PublishCommand, FailStartStep, FailStartSession,
      GetRegistrationStatus, ClaimCompleted, ClaimFails, Restart, vars
<1>5. QED
  BY <1>1, <1>2, <1>3, <1>4 DEF Next, Processes

\* No event is taken back, and only the end of a verification publishes
\* "completed".
LEMMA EventsStay ==
    ASSUME [Next]_vars
    PROVE  /\ events \subseteq events'
           /\ \/ "completed" \in events' => "completed" \in events
              \/ \E q \in Requests : PublishCompleted(q)
<1>1. ASSUME NEW r \in Results, HandleResult(r) \/ HandlerFails(r)
      PROVE  events' \in {events, events \cup {"code_sent"}, events \cup {"failed"}}
  BY <1>1
  DEF HandleResult, ClaimResult, UpdateResultStep, StartMailStep, PublishCodeSent, NotifyCodeSent,
      HandlerFails, SyncSession, Compensate, FailSession, DeactivateUser, DeactivateAuth, PublishFailed
<1>2. ASSUME NEW q \in Requests,
             VerifyEmail(q) \/ ServeRequest(q) \/ RequestFails(q) \/ VerificationFails(q)
      PROVE  \/ events' \in {events, events \cup {"failed"}}
             \/ PublishCompleted(q) /\ events' = events \cup {"completed"}
  BY <1>2
  DEF VerifyEmail, ServeRequest, RequestFails, VerificationFails, RereadSession, SyncSession,
      Compensate, FailSession, DeactivateUser, DeactivateAuth, PublishFailed, CreateVerificationStep,
      SetSession, SetVerificationStep, VerifyCode, ActivateUser, PublishCompleted, FailVerificationStep
<1>3. CASE \/ StartSession \/ RunStart \/ StartStops
           \/ \E r \in Results, o \in {"success", "failed"} : DownstreamReports(r, o)
           \/ \E g \in Queries : GetRegistrationStatus(g) \/ ClaimCompleted(g) \/ ClaimFails(g)
           \/ Restart \/ UNCHANGED vars
  BY <1>3
  DEF StartSession, RunStart, StartStops, CreateStartStep, HashPassword, MarkSessionInProgress,
      MarkStepInProgress, PublishCommand, FailStartStep, FailStartSession, DownstreamReports,
      GetRegistrationStatus, ClaimCompleted, ClaimFails, Restart, vars
<1>4. QED
  BY <1>1, <1>2, <1>3 DEF Next

\* No process is about to undo what a verification is about to conclude.
LEMMA PeaceOrTrouble ==
    ASSUME FinalInvariant, Troubled
    PROVE  ~Concluding /\ \A q \in Requests : ~Verifying(q)
BY DEF FinalInvariant, ReconcileInvariant, OutcomeInvariant, ConcludedInPeace, Concluding, Verifying

\* Three successes and a reported failure exclude each other.
LEMMA SuccessOrFailure ==
    ASSUME PlainAnswers, AllSucceeded
    PROVE  ~ReportedFailure
BY SagaAssumption DEF PlainAnswers, AllSucceeded, Succeeded, ReportedFailure

-----------------------------------------------------------------------------
(* Failures are carried out, successes announced.                          *)

\* The moves of an undisturbed result.
LEMMA ResultMoves ==
    ASSUME UndisturbedSaga, TypeOK, [Next]_vars, NEW r \in Results
    PROVE  \/ pc'[r] = pc[r] /\ outcome'[r] = outcome[r]
           \/ \E o \in {"success", "failed"} :
                 DownstreamReports(r, o) /\ outcome'[r] = o /\ pc'[r] = "queued"
           \/ HandleResult(r) /\ outcome'[r] = outcome[r]
<1>1. \A o \in {"success", "failed"} : DownstreamReports(r, o) => outcome'[r] = o /\ pc'[r] = "queued"
  BY DEF DownstreamReports, TypeOK, PcTypeOK, Processes
<1>2. HandleResult(r) => outcome' = outcome
  BY DEF HandleResult, ClaimResult, UpdateResultStep, StartMailStep, PublishCodeSent, NotifyCodeSent,
         SyncSession, Compensate, FailSession, DeactivateUser, DeactivateAuth, PublishFailed, inbox
<1>3. QED
  BY <1>1, <1>2, ResultAlone, NothingDisturbs

\* The way of an undisturbed handler from call to call.
HandlerStep(r) ==
    \/ pc[r] = "queued" /\ pc'[r] = "update_step"
    \/ pc[r] = "update_step" /\ pc'[r] = AfterUpdateStep(r)
    \/ pc[r] = "start_mail_step" /\ pc'[r] = "sync"
    \/ pc[r] = "publish_code_sent" /\ pc'[r] = "sync" /\ "code_sent" \in events'
    \/ pc[r] = "sync" /\ SomeStepFailed /\ pc'[r] = "fail_session"
    \/ pc[r] = "sync" /\ ~SomeStepFailed /\ pc'[r] = "notify"
    \/ pc[r] = "notify" /\ pc'[r] = "done"
    \/ pc[r] = "fail_session" /\ pc'[r] = "deactivate_user" /\ session' = "failed"
    \/ pc[r] = "deactivate_user" /\ pc'[r] = "deactivate_auth" /\ profile' \in {"absent", "inactive"}
    \/ pc[r] = "deactivate_auth" /\ pc'[r] = "publish_failed" /\ credential' \in {"absent", "inactive"}
    \/ /\ pc[r] = "publish_failed" /\ "failed" \in events'
       /\ pc'[r] = IF outcome[r] = "success" THEN "notify" ELSE "done"

\* Those are its calls.
LEMMA HandlerSteps ==
    ASSUME UndisturbedSaga, TypeOK, NEW r \in Results, HandleResult(r)
    PROVE  HandlerStep(r)
<1>1. /\ r \in Processes /\ pc \in [Processes -> ResultLabels \cup RequestLabels \cup QueryLabels]
      /\ pc[r] \in ResultLabels
  BY DEF Processes, TypeOK, PcTypeOK
<1>2. ASSUME NEW from, NEW to, Goto(r, from, to)
      PROVE  pc[r] = from /\ pc'[r] = to
  BY <1>1, <1>2 DEF Goto
<1>3. {"db", "rpc", "publish", "ambiguous"} \cap Faults = {}
  BY NothingDisturbs
<1> USE DEF HandlerStep
<1>4. CASE ClaimResult(r) \/ UpdateResultStep(r) \/ StartMailStep(r) \/ PublishCodeSent(r) \/ NotifyCodeSent(r)
  BY <1>2, <1>4 DEF ClaimResult, UpdateResultStep, StartMailStep, PublishCodeSent, NotifyCodeSent
<1>5. CASE SyncSession(r)
  BY <1>2, <1>5, ReconciledFailure DEF SyncSession
<1>6. pc[r] \notin {"abandon_session", "abandon_user", "abandon_auth", "publish_abandoned"}
  BY <1>1 DEF ResultLabels, CompensationLabels
<1>7. CASE FailSession(r) \/ PublishFailed(r)
  BY <1>2, <1>3, <1>6, <1>7 DEF FailSession, PublishFailed, AfterCompensation
<1>8. CASE DeactivateUser(r) \/ DeactivateAuth(r)
  BY <1>2, <1>3, <1>6, <1>8 DEF DeactivateUser, DeactivateAuth
<1>9. QED
  BY <1>4, <1>5, <1>7, <1>8 DEF HandleResult, Compensate

\* Where a handler goes after its first statement.
LEMMA AfterFirstStatement ==
    ASSUME NEW r \in Results
    PROVE  /\ outcome[r] = "failed" => AfterUpdateStep(r) = "fail_session"
           /\ outcome[r] = "success" /\ StepOf[r] = "user" => AfterUpdateStep(r) = "sync"
           /\ outcome[r] = "success" /\ StepOf[r] = "auth" => AfterUpdateStep(r) = "start_mail_step"
           /\ outcome[r] = "success" /\ StepOf[r] = "mail" => AfterUpdateStep(r) = "publish_code_sent"
           /\ outcome[r] # "failed" =>
                 AfterUpdateStep(r) \in {"sync", "start_mail_step", "publish_code_sent"}
BY SagaAssumption DEF AfterUpdateStep, InitialSteps

\* No result is lost or taken for another one.
LEMMA NextInHand ==
    ASSUME UndisturbedSaga, SettlingInvariant, [Next]_vars
    PROVE  ResultsInHand'
<1>1. TypeOK /\ ResultsInHand
  BY DEF SettlingInvariant, FinalInvariant, ReconcileInvariant, OutcomeInvariant, SuccessInvariant
<1> SUFFICES ASSUME NEW r \in Results
             PROVE  /\ pc'[r] # "lost"
                    /\ outcome'[r] # "none" => pc'[r] # "idle"
                    /\ outcome'[r] = "failed" =>
                          pc'[r] \notin {"start_mail_step", "publish_code_sent", "sync", "notify"}
  BY DEF ResultsInHand
<1>2. CASE HandleResult(r) /\ outcome'[r] = outcome[r]
  <2>1. HandlerStep(r)
    BY <1>1, <1>2, HandlerSteps
  <2>2. outcome[r] \in {"none", "success", "failed"}
    BY <1>1 DEF TypeOK
  <2>3. QED
    BY <1>1, <1>2, <2>1, <2>2, AfterFirstStatement DEF HandlerStep, ResultsInHand
<1>3. QED
  BY <1>1, <1>2, ResultMoves DEF ResultsInHand

\* A reported failure is written to a step row, then to the session, and told.
LEMMA NextCarriedOut ==
    ASSUME UndisturbedSaga, SettlingInvariant, [Next]_vars
    PROVE  FailureIsCarriedOut'
<1>1. /\ TypeOK /\ ResultsInHand /\ FailureIsCarriedOut /\ FinalInvariant /\ FirmFailures
      /\ events \subseteq events'
  BY EventsStay
  DEF SettlingInvariant, FinalInvariant, ReconcileInvariant, OutcomeInvariant, SuccessInvariant, UndisturbedSaga
<1>2. SomeStepFailed => SomeStepFailed'
  BY <1>1, FailedForGood DEF SomeStepFailed
<1>3. session = "failed" => session' = "failed"
  BY <1>1, FailedSessionStays
<1> SUFFICES ASSUME NEW r \in Results, outcome'[r] = "failed"
             PROVE  /\ pc'[r] \notin {"queued", "update_step"} => SomeStepFailed'
                    /\ pc'[r] \notin {"queued", "update_step", "fail_session"} => session' = "failed"
                    /\ pc'[r] = "done" => "failed" \in events'
  BY DEF FailureIsCarriedOut
<1>4. CASE pc'[r] = pc[r] /\ outcome'[r] = outcome[r]
  BY <1>1, <1>2, <1>3, <1>4 DEF FailureIsCarriedOut
<1>5. CASE HandleResult(r) /\ outcome'[r] = outcome[r]
  <2>1. HandlerStep(r) /\ AfterUpdateStep(r) = "fail_session"
    BY <1>1, <1>5, HandlerSteps, AfterFirstStatement
  <2>2. pc'[r] = "fail_session" => SomeStepFailed'
    BY <1>1, <1>2, ResultRecordsFailure DEF FinalInvariant, FailureIsRecorded, Processes, SomeStepFailed
  <2>3. QED
    BY <1>1, <1>2, <1>3, <1>5, <2>1, <2>2 DEF HandlerStep, FailureIsCarriedOut, ResultsInHand
<1>6. QED
  BY <1>1, <1>4, <1>5, ResultMoves

\* The code-sent event follows the handling of the mail result.
LEMMA NextAnnounced ==
    ASSUME UndisturbedSaga, SettlingInvariant, [Next]_vars
    PROVE  SuccessIsAnnounced'
<1>1. TypeOK /\ SuccessIsAnnounced /\ ResultsInHand /\ events \subseteq events'
  BY EventsStay
  DEF SettlingInvariant, FinalInvariant, ReconcileInvariant, OutcomeInvariant, SuccessInvariant
<1> SUFFICES ASSUME NEW r \in Results, outcome'[r] = "success", StepOf[r] = "mail"
             PROVE  pc'[r] \in {"queued", "update_step", "publish_code_sent"} \/ "code_sent" \in events'
  BY DEF SuccessIsAnnounced
<1>2. CASE HandleResult(r) /\ outcome'[r] = outcome[r]
  BY <1>1, <1>2, HandlerSteps, AfterFirstStatement DEF HandlerStep, SuccessIsAnnounced
<1>3. QED
  BY <1>1, <1>2, ResultMoves DEF SuccessIsAnnounced

\* A failure whose handler has not written its step will still undo both.
LEMMA FreshFailureUndoes ==
    ASSUME UndisturbedSaga, TypeOK, [Next]_vars, NEW k \in {"user", "auth"}, NEW r \in Results,
           outcome[r] = "failed", pc[r] \in {"queued", "update_step"}
    PROVE  WillUndo(r, k)'
<1>1. HandleResult(r) => HandlerStep(r)
  BY HandlerSteps
<1>2. outcome'[r] = "failed" /\ pc'[r] \in {"queued", "update_step", "fail_session"}
  BY <1>1, ResultMoves, OutcomeStays, AfterFirstStatement DEF HandlerStep, DownstreamReports
<1>3. QED
  BY <1>2 DEF WillUndo, BeforeDeactivation

\* A handler that will undo what a service created remains on its way, or
\* leaves it to the failure it has not seen, or has just undone it.
LEMMA UndoerMoves ==
    ASSUME UndisturbedSaga, SettlingInvariant, [Next]_vars, ReportedFailure,
           NEW k \in {"user", "auth"}, NEW r \in Results, WillUndo(r, k)
    PROVE  \/ \E a \in Results : WillUndo(a, k)'
           \/ k = "user" /\ profile' \in {"absent", "inactive"}
           \/ k = "auth" /\ credential' \in {"absent", "inactive"}
<1>1. TypeOK /\ ResultsInHand /\ FailureIsCarriedOut
  BY DEF SettlingInvariant, FinalInvariant, ReconcileInvariant, OutcomeInvariant, SuccessInvariant
<1>2. outcome[r] # "none" /\ outcome'[r] = outcome[r]
  BY <1>1, OutcomeStays DEF WillUndo
<1>3. CASE pc'[r] = pc[r]
  BY <1>2, <1>3 DEF WillUndo
<1>4. CASE HandlerStep(r) /\ pc[r] = "sync" /\ ~SomeStepFailed
  <2>1. PICK a \in Results : outcome[a] = "failed"
    BY DEF ReportedFailure
  <2>2. pc[a] \in {"queued", "update_step"}
    BY <1>1, <1>4, <2>1 DEF FailureIsCarriedOut
  <2>3. QED
    BY <1>1, <2>1, <2>2, FreshFailureUndoes
<1>5. CASE HandlerStep(r) /\ pc[r] = "update_step"
  <2>1. pc'[r] \in {"fail_session", "sync", "start_mail_step"}
    BY <1>5, AfterFirstStatement DEF HandlerStep, WillUndo
  <2>2. QED
    BY <1>2, <2>1 DEF WillUndo, BeforeDeactivation
<1>6. CASE HandlerStep(r) /\ pc[r] # "update_step" /\ (pc[r] = "sync" => SomeStepFailed)
  <2>1. \/ pc[r] = "queued" /\ pc'[r] = "update_step"
        \/ pc[r] = "start_mail_step" /\ pc'[r] = "sync"
        \/ pc[r] = "sync" /\ pc'[r] = "fail_session"
        \/ pc[r] = "fail_session" /\ pc'[r] = "deactivate_user"
        \/ pc[r] = "deactivate_user" /\ pc'[r] = "deactivate_auth" /\ profile' \in {"absent", "inactive"}
        \/ pc[r] = "deactivate_auth" /\ k = "auth" /\ credential' \in {"absent", "inactive"}
    BY <1>6 DEF HandlerStep, WillUndo, BeforeDeactivation
  <2>2. QED
    BY <1>2, <2>1 DEF WillUndo, BeforeDeactivation
<1>7. QED
  BY <1>1, <1>2, <1>3, <1>4, <1>5, <1>6, ResultMoves, HandlerSteps DEF DownstreamReports

\* Whatever a service created beside a failure will be undone.
LEMMA NextNothingLeft ==
    ASSUME UndisturbedSaga, SettlingInvariant, [Next]_vars
    PROVE  NothingIsLeft'
<1>1. TypeOK /\ NothingIsLeft
  BY DEF SettlingInvariant, FinalInvariant, ReconcileInvariant, OutcomeInvariant, SuccessInvariant
<1>2. ASSUME NEW k \in {"user", "auth"}, NEW r \in Results, NEW o \in {"success", "failed"},
             DownstreamReports(r, o), o = "failed" \/ StepOf[r] = k
      PROVE  WillUndo(r, k)'
  BY <1>1, <1>2 DEF DownstreamReports, WillUndo, BeforeDeactivation, TypeOK, PcTypeOK, Processes
<1>3. CASE ~ReportedFailure /\ ReportedFailure'
  <2>1. PICK r \in Results : outcome[r] # "failed" /\ outcome'[r] = "failed"
    BY <1>3 DEF ReportedFailure
  <2>2. DownstreamReports(r, "failed")
    BY <1>1, <2>1, ResultMoves
  <2>3. \A k \in {"user", "auth"} : WillUndo(r, k)'
    BY <1>2, <2>2
  <2>4. QED
    BY <2>3 DEF NothingIsLeft
<1>4. CASE ReportedFailure
  <2>1. ASSUME profile' = "pending" PROVE \E r \in Results : WillUndo(r, "user")'
    <3>1. CASE profile = "pending"
      BY <1>1, <1>4, <2>1, <3>1, UndoerMoves DEF NothingIsLeft
    <3>2. CASE \E r \in Results : DownstreamReports(r, "success") /\ StepOf[r] = "user"
      BY <1>2, <3>2
    <3>3. QED
      BY <2>1, <3>1, <3>2, ProfileWriters
  <2>2. ASSUME credential' = "pending" PROVE \E r \in Results : WillUndo(r, "auth")'
    <3>1. CASE credential = "pending"
      BY <1>1, <1>4, <2>2, <3>1, UndoerMoves DEF NothingIsLeft
    <3>2. CASE \E r \in Results : DownstreamReports(r, "success") /\ StepOf[r] = "auth"
      BY <1>2, <3>2
    <3>3. QED
      BY <2>2, <3>1, <3>2, CredentialWriters
  <2>3. QED
    BY <2>1, <2>2 DEF NothingIsLeft
<1>5. QED
  BY <1>3, <1>4 DEF NothingIsLeft

\* Accounts are created with the success that reports them and not removed.
LEMMA NextAccounts ==
    ASSUME UndisturbedSaga, SettlingInvariant, [Next]_vars
    PROVE  AccountsExist'
<1>1. TypeOK /\ AccountsExist /\ SuccessInvariant
  BY DEF SettlingInvariant, FinalInvariant, ReconcileInvariant, OutcomeInvariant, SuccessInvariant
<1>2. profile # "absent" => profile' # "absent"
  BY ProfileWriters
<1>3. credential # "absent" => credential' # "absent"
  BY CredentialWriters
<1>4. ASSUME NEW r \in Results, outcome'[r] = "success"
      PROVE  /\ StepOf[r] = "user" => profile' # "absent"
             /\ StepOf[r] = "auth" => credential' # "absent"
  <2>1. CASE outcome[r] = "success"
    BY <1>1, <1>2, <1>3, <2>1 DEF AccountsExist, Succeeded
  <2>2. CASE DownstreamReports(r, "success")
    BY <2>2 DEF DownstreamReports
  <2>3. QED
    BY <1>1, <1>4, <2>1, <2>2, ResultMoves
<1>5. ASSUME credential' = "verified" PROVE AllSucceeded
  BY <1>1, <1>5, CredentialWriters DEF AccountsExist, SuccessInvariant, OpenLabels, VerifierLabels
<1>6. QED
  BY <1>1, <1>4, <1>5, SuccessStays DEF AccountsExist, Succeeded

-----------------------------------------------------------------------------
(* Verifications are carried out.                                          *)

\* The moves of an undisturbed VerifyEmail.
LEMMA RequestMoves ==
    ASSUME UndisturbedSaga, TypeOK, [Next]_vars, NEW q \in Requests
    PROVE  pc'[q] = pc[q] \/ VerifyEmail(q) \/ ServeRequest(q)
BY RequestAlone, NothingDisturbs

\* The rows of a verification are inserted by the request that goes on to
\* their use.
LEMMA RowInsertion ==
    ASSUME TypeOK, [Next]_vars, NEW k \in {"verify", "activate"}, steps[k] = "none", steps'[k] # "none"
    PROVE  \E q \in Requests : \/ k = "verify" /\ pc[q] = "create_verify" /\ pc'[q] = "create_activate"
                               \/ k = "activate" /\ pc[q] = "create_activate" /\ pc'[q] = "set_verifying"
<1> USE DEF rows, WriteStep, InsertStep, NextStepStatus
<1>1. steps \in [StepKeys -> StepStatus] /\ k \in StepKeys
  BY DEF TypeOK, StepKeys
<1>2. ~(StartSession \/ RunStart \/ StartStops)
  BY <1>1
  DEF StartSession, RunStart, StartStops, CreateStartStep, HashPassword, MarkSessionInProgress,
      MarkStepInProgress, PublishCommand, FailStartStep, FailStartSession
<1>3. ASSUME NEW r \in Results, HandleResult(r) \/ HandlerFails(r)
      PROVE  FALSE
  BY <1>1, <1>3
  DEF HandleResult, ClaimResult, UpdateResultStep, StartMailStep, PublishCodeSent, NotifyCodeSent,
      HandlerFails, SyncSession, Compensate, FailSession, DeactivateUser, DeactivateAuth, PublishFailed
<1>4. ASSUME NEW q \in Requests,
             VerifyEmail(q) \/ ServeRequest(q) \/ RequestFails(q) \/ VerificationFails(q)
      PROVE  \/ CreateVerificationStep(q, "create_verify", "verify", "in_progress", "create_activate")
             \/ CreateVerificationStep(q, "create_activate", "activate", "pending", "set_verifying")
  BY <1>1, <1>4
  DEF VerifyEmail, ServeRequest, RequestFails, VerificationFails, RereadSession, SyncSession,
      Compensate, FailSession, DeactivateUser, DeactivateAuth, PublishFailed,
      SetSession, SetVerificationStep, VerifyCode, ActivateUser, PublishCompleted, FailVerificationStep
<1>5. ~(\/ \E r \in Results, o \in {"success", "failed"} : DownstreamReports(r, o)
        \/ \E g \in Queries : GetRegistrationStatus(g) \/ ClaimCompleted(g) \/ ClaimFails(g)
        \/ Restart \/ UNCHANGED vars)
  BY DEF DownstreamReports, GetRegistrationStatus, ClaimCompleted, ClaimFails, Restart, vars
<1>6. PICK q \in Requests :
         \/ CreateVerificationStep(q, "create_verify", "verify", "in_progress", "create_activate")
         \/ CreateVerificationStep(q, "create_activate", "activate", "pending", "set_verifying")
  BY <1>2, <1>3, <1>4, <1>5 DEF Next
<1>7. QED
  BY <1>1, <1>6 DEF CreateVerificationStep, Goto, TypeOK, PcTypeOK, Processes

\* The way of a verification that failed.
LEMMA AbandonSteps ==
    ASSUME UndisturbedSaga, TypeOK, NEW q \in Requests, VerifyEmail(q) \/ ServeRequest(q)
    PROVE  /\ pc'[q] = "abandon_user" => pc[q] = "abandon_session" /\ session' = "failed"
           /\ pc'[q] = "abandon_auth" =>
                 pc[q] = "abandon_user" /\ profile' = IF profile = "absent" THEN "absent" ELSE "inactive"
           /\ pc'[q] = "publish_abandoned" =>
                 /\ pc[q] = "abandon_auth"
                 /\ credential' = IF credential = "absent" THEN "absent" ELSE "inactive"
<1>1. q \in Processes /\ q \notin Results /\ pc \in [Processes -> ResultLabels \cup RequestLabels \cup QueryLabels]
  BY SagaAssumption DEF Processes, TypeOK, PcTypeOK
<1>2. {"db", "rpc", "publish", "ambiguous"} \cap Faults = {}
  BY NothingDisturbs
<1>3. CASE Compensate(q)
  BY <1>1, <1>2, <1>3
  DEF Compensate, FailSession, DeactivateUser, DeactivateAuth, PublishFailed, AfterCompensation, Goto
<1>4. CASE (VerifyEmail(q) \/ ServeRequest(q)) /\ ~Compensate(q)
  BY <1>1, <1>4
  DEF VerifyEmail, ServeRequest, RereadSession, SyncSession, CreateVerificationStep, SetSession,
      SetVerificationStep, VerifyCode, ActivateUser, PublishCompleted, FailVerificationStep, Goto
<1>5. QED
  BY <1>3, <1>4

\* A verification ends with one of its two events, unless it lost the
\* insertion of the activation step.
LEMMA VerificationSteps ==
    ASSUME UndisturbedSaga, TypeOK, NEW q \in Requests, VerifyEmail(q) \/ ServeRequest(q),
           pc[q] \in VerifierLabels \cup ClosingLabels
    PROVE  \/ pc'[q] \in VerifierLabels \cup ClosingLabels
           \/ PublishCompleted(q)
           \/ /\ pc[q] = "publish_abandoned" /\ events' = events \cup {"failed"}
              /\ UNCHANGED <<rows, accounts>>
           \/ pc[q] = "create_activate" /\ steps["activate"] # "none"
<1>1. q \in Processes /\ q \notin Results /\ pc \in [Processes -> ResultLabels \cup RequestLabels \cup QueryLabels]
  BY SagaAssumption DEF Processes, TypeOK, PcTypeOK
<1>2. {"db", "rpc", "publish", "ambiguous"} \cap Faults = {}
  BY NothingDisturbs
<1> USE DEF VerifierLabels, ClosingLabels
<1>3. CASE Compensate(q)
  BY <1>1, <1>2, <1>3
  DEF Compensate, FailSession, DeactivateUser, DeactivateAuth, PublishFailed, Goto
<1>4. CASE (VerifyEmail(q) \/ ServeRequest(q)) /\ ~Compensate(q)
  BY <1>1, <1>4
  DEF VerifyEmail, ServeRequest, RereadSession, SyncSession, CreateVerificationStep, SetSession,
      SetVerificationStep, VerifyCode, ActivateUser, PublishCompleted, FailVerificationStep, Goto
<1>5. QED
  BY <1>3, <1>4

\* A call of a verification comes after the insertion of its step, and that
\* after three successes and the creation of both accounts.
LEMMA VerificationHasAccounts ==
    ASSUME SettlingInvariant, NEW q \in Requests, pc[q] \in VerifierLabels \cup ClosingLabels
    PROVE  steps["verify"] # "none" /\ AllSucceeded /\ profile # "absent" /\ credential # "absent"
<1>1. steps["verify"] # "none"
  BY DEF SettlingInvariant, FinalInvariant, ReconcileInvariant, OutcomeInvariant, ClaimInvariant,
         NoVerifierBeforeStep, EntryLabels, CompensationLabels, VerifierLabels, ClosingLabels
<1>2. AllSucceeded
  BY <1>1 DEF SettlingInvariant, FinalInvariant, StagesInOrder
<1>3. QED
  BY <1>1, <1>2 DEF SettlingInvariant, AccountsExist, AllSucceeded, InitialSteps

\* What is undone stays undone after three successes.
LEMMA UndoneForGood ==
    ASSUME SettlingInvariant, [Next]_vars, Troubled
    PROVE  /\ profile = "inactive" => profile' = "inactive"
           /\ credential = "inactive" => credential' = "inactive"
<1>1. \A q \in Requests : pc[q] \notin {"activate_user", "verify_code"}
  BY PeaceOrTrouble DEF SettlingInvariant, Verifying, VerifierLabels
<1>2. QED
  BY <1>1, ProfileWriters, CredentialWriters

\* What is opened stays open.
LEMMA OpenedForGood ==
    ASSUME SettlingInvariant, [Next]_vars, Opened
    PROVE  Opened'
<1>1. ~Troubled
  BY PeaceOrTrouble DEF SettlingInvariant, Opened, Concluding
<1>2. \A p \in Processes : pc[p] \notin {"deactivate_user", "abandon_user", "deactivate_auth", "abandon_auth"}
  BY <1>1 DEF Troubled, TroubleLabels, CompensationLabels, ClosingLabels
<1>3. QED
  BY <1>2, ProfileWriters, CredentialWriters, EventsStay DEF Opened

\* A verification is abandoned in the order session, profile, credential.
LEMMA NextAbandoned ==
    ASSUME UndisturbedSaga, SettlingInvariant, [Next]_vars
    PROVE  AbandonedInOrder'
<1>1. TypeOK /\ AbandonedInOrder /\ FinalInvariant /\ FirmFailures
  BY DEF SettlingInvariant, FinalInvariant, ReconcileInvariant, OutcomeInvariant, SuccessInvariant, UndisturbedSaga
<1> SUFFICES ASSUME NEW q \in Requests
             PROVE  /\ pc'[q] \in {"abandon_user", "abandon_auth", "publish_abandoned"} => session' = "failed"
                    /\ pc'[q] \in {"abandon_auth", "publish_abandoned"} => profile' = "inactive"
                    /\ pc'[q] = "publish_abandoned" => credential' = "inactive"
  BY DEF AbandonedInOrder
<1>2. session = "failed" => session' = "failed"
  BY <1>1, FailedSessionStays
<1>3. CASE pc[q] \notin {"abandon_session", "abandon_user", "abandon_auth", "publish_abandoned"}
  BY <1>1, <1>3, RequestMoves, AbandonSteps
<1>4. CASE pc[q] \in {"abandon_session", "abandon_user", "abandon_auth", "publish_abandoned"}
  <2>1. Troubled /\ profile # "absent" /\ credential # "absent"
    BY <1>4, VerificationHasAccounts DEF Troubled, TroubleLabels, ClosingLabels, Processes
  <2>2. /\ profile = "inactive" => profile' = "inactive"
        /\ credential = "inactive" => credential' = "inactive"
    BY <2>1, UndoneForGood
  <2>3. CASE pc'[q] = pc[q]
    BY <1>1, <1>2, <2>2, <2>3 DEF AbandonedInOrder
  <2>4. CASE VerifyEmail(q) \/ ServeRequest(q)
    BY <1>1, <1>2, <2>1, <2>2, <2>4, AbandonSteps DEF AbandonedInOrder
  <2>5. QED
    BY <1>1, <2>3, <2>4, RequestMoves
<1>5. QED
  BY <1>3, <1>4

\* The completed event is published for an open account.
LEMMA CompletionOpens ==
    ASSUME SettlingInvariant, NEW q \in Requests, PublishCompleted(q), UndisturbedSaga
    PROVE  Opened'
<1>1. Backing /\ pc[q] = "publish_completed" /\ "publish" \notin Faults
  BY DEF SettlingInvariant, FinalInvariant, ReconcileInvariant, OutcomeInvariant, PublishCompleted, Goto, UndisturbedSaga
<1>2. QED
  BY <1>1 DEF Backing, Activated, PublishCompleted, accounts, Opened

\* An accepted verification opens the account, or is undone, or is at work.
LEMMA NextVerified ==
    ASSUME UndisturbedSaga, SettlingInvariant, [Next]_vars
    PROVE  VerificationIsCarriedOut'
<1>1. TypeOK /\ VerificationIsCarriedOut /\ FinalInvariant /\ FirmFailures /\ AbandonedInOrder
  BY DEF SettlingInvariant, FinalInvariant, ReconcileInvariant, OutcomeInvariant, SuccessInvariant, UndisturbedSaga
<1>2. /\ SingleVerifier
      /\ steps["verify"] = "none" => steps["activate"] = "none"
  BY <1>1 DEF FinalInvariant, ReconcileInvariant, OutcomeInvariant, ClaimInvariant, TroubleHasCause
<1>3. ASSUME NEW q \in Requests, pc'[q] = "create_activate" PROVE steps'["activate"] = "none"
  <2>1. steps["activate"] = "none"
    <3>1. CASE pc[q] = "create_activate"
      BY <1>1, <3>1 DEF VerificationIsCarriedOut
    <3>2. CASE pc[q] # "create_activate"
      <4>1. VerifyEmail(q) \/ ServeRequest(q)
        BY <1>1, <1>3, <3>2, RequestMoves
      <4>2. CreateVerificationStep(q, "create_verify", "verify", "in_progress", "create_activate")
        BY <1>1, <1>3, <3>2, <4>1, SagaAssumption
        DEF VerifyEmail, ServeRequest, RereadSession, SyncSession, Compensate, FailSession, DeactivateUser,
            DeactivateAuth, PublishFailed, AfterCompensation, CreateVerificationStep, SetSession,
            SetVerificationStep, VerifyCode, ActivateUser, PublishCompleted, FailVerificationStep, Goto,
            TypeOK, PcTypeOK, Processes
      <4>3. steps["verify"] = "none"
        BY <1>1, <1>3, <4>2 DEF CreateVerificationStep, InsertStep, Goto, TypeOK, PcTypeOK, Processes
      <4>4. QED
        BY <1>2, <4>3
    <3>3. QED
      BY <3>1, <3>2
  <2>2. SUFFICES ASSUME steps'["activate"] # "none" PROVE FALSE
    OBVIOUS
  <2>3. PICK p \in Requests : pc[p] = "create_activate" /\ pc'[p] = "set_verifying"
    BY <1>1, <2>1, <2>2, RowInsertion
  <2>4. CASE pc[q] = "create_activate"
    BY <1>2, <1>3, <2>3, <2>4 DEF SingleVerifier, Verifying, VerifierLabels
  <2>5. CASE pc[q] # "create_activate"
    <3>1. VerifyEmail(q) \/ ServeRequest(q)
      BY <1>1, <1>3, <2>5, RequestMoves
    <3>2. p # q
      BY <2>3, <2>5
    <3>3. pc'[p] = pc[p]
      BY <1>1, <3>1, <3>2
      DEF VerifyEmail, ServeRequest, RereadSession, SyncSession, Compensate, FailSession, DeactivateUser,
          DeactivateAuth, PublishFailed, CreateVerificationStep, SetSession,
          SetVerificationStep, VerifyCode, ActivateUser, PublishCompleted, FailVerificationStep, Goto,
          TypeOK, PcTypeOK, Processes
    <3>4. QED
      BY <2>3, <3>3
  <2>6. QED
    BY <2>4, <2>5
<1>4. ASSUME steps'["verify"] # "none"
      PROVE  Opened' \/ CleanedUp' \/ \E q \in Requests : pc'[q] \in VerifierLabels \cup ClosingLabels
  <2>1. CASE steps["verify"] = "none"
    BY <1>1, <1>4, <2>1, RowInsertion DEF VerifierLabels
  <2>2. CASE Opened
    BY <2>2, OpenedForGood
  <2>3. CASE steps["verify"] # "none" /\ CleanedUp
    <3>1. Troubled /\ AllSucceeded
      BY <1>1, <2>3 DEF CleanedUp, Troubled, FinalInvariant, StagesInOrder
    <3>2. profile = "inactive" /\ credential = "inactive"
      BY <2>3, <3>1 DEF CleanedUp, SettlingInvariant, AccountsExist, AllSucceeded, InitialSteps
    <3>3. QED
      BY <1>1, <2>3, <3>1, <3>2, UndoneForGood, FailedSessionStays, EventsStay DEF CleanedUp
  <2>4. ASSUME NEW q \in Requests, pc[q] \in VerifierLabels \cup ClosingLabels,
               pc'[q] \notin VerifierLabels \cup ClosingLabels
        PROVE  Opened' \/ CleanedUp'
    <3>1. VerifyEmail(q) \/ ServeRequest(q)
      BY <1>1, <2>4, RequestMoves
    <3>2. CASE PublishCompleted(q)
      BY <3>2, CompletionOpens
    <3>3. CASE pc[q] = "publish_abandoned" /\ events' = events \cup {"failed"} /\ UNCHANGED <<rows, accounts>>
      BY <1>1, <3>3 DEF AbandonedInOrder, CleanedUp, rows, accounts
    <3>4. QED
      BY <1>1, <2>4, <3>1, <3>2, <3>3, VerificationSteps DEF VerificationIsCarriedOut
  <2>5. QED
    BY <1>1, <2>1, <2>2, <2>3, <2>4 DEF VerificationIsCarriedOut
<1>5. "completed" \in events' => Opened'
  BY <1>1, EventsStay, OpenedForGood, CompletionOpens DEF VerificationIsCarriedOut
<1>6. QED
  BY <1>3, <1>4, <1>5 DEF VerificationIsCarriedOut

-----------------------------------------------------------------------------
(* Registrations settle.                                                   *)

\* Initially nothing is reported, created or accepted.
LEMMA InitSettling == Init => SettlingInvariant
<1> SUFFICES ASSUME Init PROVE SettlingInvariant
  OBVIOUS
<1>1. FinalInvariant
  BY InitFinal
<1>2. ResultsInHand /\ FailureIsCarriedOut /\ NothingIsLeft /\ SuccessIsAnnounced
  BY DEF Init, ResultsInHand, FailureIsCarriedOut, NothingIsLeft, SuccessIsAnnounced, ReportedFailure, Processes
<1>3. AccountsExist /\ AbandonedInOrder
  BY DEF Init, AccountsExist, AbandonedInOrder, Succeeded, Processes
<1>4. VerificationIsCarriedOut
  BY DEF Init, VerificationIsCarriedOut, StepKeys, Processes
<1>5. QED
  BY <1>1, <1>2, <1>3, <1>4 DEF SettlingInvariant

\* When only the hashing of the password can fail and the process is not
\* restarted, whatever handlers, compensations and requests have not done yet
\* is in the hands of one of them, in every interleaving.
THEOREM RegistrationsSettle == UndisturbedSaga => (Spec => []SettlingInvariant)
<1> SUFFICES ASSUME UndisturbedSaga PROVE Spec => []SettlingInvariant
  OBVIOUS
<1>1. Spec => []FinalInvariant
  BY FailuresAreRecorded DEF UndisturbedSaga
<1>2. SettlingInvariant /\ FinalInvariant' /\ [Next]_vars => SettlingInvariant'
  BY NextInHand, NextCarriedOut, NextNothingLeft, NextAnnounced, NextAccounts, NextAbandoned, NextVerified
  DEF SettlingInvariant
<1>3. QED
  BY <1>1, <1>2, InitSettling, PTL DEF Spec

\* At rest nothing is left to do.
LEMMA QuietSettles == UndisturbedSaga /\ SettlingInvariant => QuietIsSettled
<1> SUFFICES ASSUME UndisturbedSaga, SettlingInvariant, Quiet
             PROVE  /\ ReportedFailure => CleanedUp
                    /\ AllSucceeded => /\ "code_sent" \in events
                                       /\ session = "code_sent" \/ steps["verify"] # "none"
                    /\ steps["verify"] # "none" => Opened \/ CleanedUp
  BY DEF QuietIsSettled
<1>1. TypeOK /\ SuccessInvariant /\ SomeoneReconciles /\ PlainAnswers
  BY DEF SettlingInvariant, FinalInvariant, ReconcileInvariant, OutcomeInvariant, SuccessInvariant,
         UndisturbedSaga, FirmFailures
<1>2. ASSUME NEW r \in Results, outcome[r] # "none" PROVE pc[r] = "done"
  BY <1>2 DEF Quiet, SettlingInvariant, ResultsInHand
<1>3. ASSUME ReportedFailure PROVE CleanedUp
  <2>1. session = "failed" /\ "failed" \in events
    BY <1>2, <1>3 DEF ReportedFailure, SettlingInvariant, FailureIsCarriedOut
  <2>2. \A r \in Results, k \in {"user", "auth"} : ~WillUndo(r, k)
    BY DEF Quiet, WillUndo, BeforeDeactivation
  <2>3. profile # "active" /\ credential # "verified"
    BY <1>1, <1>3, SuccessOrFailure DEF SuccessInvariant, SettlingInvariant, AccountsExist
  <2>4. QED
    BY <1>1, <1>3, <2>1, <2>2, <2>3 DEF TypeOK, CleanedUp, SettlingInvariant, NothingIsLeft
<1>4. ASSUME AllSucceeded
      PROVE  "code_sent" \in events /\ (session = "code_sent" \/ steps["verify"] # "none")
  <2>1. PICK m \in Results : StepOf[m] = "mail" /\ outcome[m] = "success"
    BY <1>4 DEF AllSucceeded, Succeeded, InitialSteps
  <2>2. "code_sent" \in events
    BY <1>2, <2>1 DEF SettlingInvariant, SuccessIsAnnounced
  <2>3. \A r \in Results : outcome[r] = "success"
    BY <1>1, <1>4, SagaAssumption DEF PlainAnswers, AllSucceeded, Succeeded
  <2>4. QED
    BY <1>1, <1>2, <1>4, <2>2, <2>3 DEF SomeoneReconciles
<1>5. steps["verify"] # "none" => Opened \/ CleanedUp
  BY DEF Quiet, SettlingInvariant, VerificationIsCarriedOut, VerifierLabels, ClosingLabels
<1>6. QED
  BY <1>3, <1>4, <1>5

\* An undisturbed registration at rest is settled: a reported failure has been
\* undone as a whole, three successes have been announced and accept a code,
\* and an accepted verification has opened the account or has been undone.
THEOREM QuietRegistrationsAreSettled == UndisturbedSaga => (Spec => []QuietIsSettled)
<1> SUFFICES ASSUME UndisturbedSaga PROVE Spec => []QuietIsSettled
  OBVIOUS
<1>1. SettlingInvariant => QuietIsSettled
  BY QuietSettles
<1>2. QED
  BY <1>1, RegistrationsSettle, PTL
=============================================================================
