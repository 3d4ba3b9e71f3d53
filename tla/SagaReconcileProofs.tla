-------------------------- MODULE SagaReconcileProofs --------------------------
(***************************************************************************)
(* Three successful results, handled in whatever order, leave the session  *)
(* ready for the code: proof of ReconcileConverges from                    *)
(* ReconcileInvariant, for every set of requests and queries and any       *)
(* number of restarts.                                                     *)
(***************************************************************************)
EXTENDS SagaOutcomeProofs

-----------------------------------------------------------------------------
(* What the actions leave alone.                                           *)

\* Only its own handler, its publication or a restart moves a result.
LEMMA ResultAlone ==
    ASSUME TypeOK, [Next]_vars, NEW r \in Results
    PROVE  \/ pc'[r] = pc[r] /\ outcome'[r] = outcome[r]
           \/ \E o \in {"success", "failed"} : DownstreamReports(r, o)
           \/ HandleResult(r) \/ HandlerFails(r) \/ Restart
<1> USE DEF inbox
<1>1. r \in Processes /\ r \notin Requests /\ r \notin Queries
  BY SagaAssumption DEF Processes
<1>2. CASE StartSession \/ RunStart \/ StartStops
  BY <1>2
  DEF StartSession, RunStart, StartStops, CreateStartStep, HashPassword, MarkSessionInProgress,
      MarkStepInProgress, PublishCommand, FailStartStep, FailStartSession
<1>3. ASSUME NEW a \in Results, NEW o \in {"success", "failed"}, DownstreamReports(a, o), a # r
      PROVE  pc'[r] = pc[r] /\ outcome'[r] = outcome[r]
  BY <1>1, <1>3 DEF DownstreamReports, TypeOK, PcTypeOK
<1>4. ASSUME NEW p \in Processes, p # r, NEW from, NEW to, Goto(p, from, to)
      PROVE  pc'[r] = pc[r]
  BY <1>1, <1>4 DEF Goto, TypeOK, PcTypeOK
<1>5. ASSUME NEW a \in Results, HandleResult(a) \/ HandlerFails(a), a # r
      PROVE  pc'[r] = pc[r] /\ outcome'[r] = outcome[r]
  BY <1>1, <1>5
  DEF HandleResult, ClaimResult, UpdateResultStep, StartMailStep, PublishCodeSent, NotifyCodeSent,
      HandlerFails, SyncSession, Compensate, FailSession, DeactivateUser, DeactivateAuth, PublishFailed,
      Goto, TypeOK, PcTypeOK
<1>6. ASSUME NEW q \in Requests,
             VerifyEmail(q) \/ ServeRequest(q) \/ RequestFails(q) \/ VerificationFails(q)
      PROVE  pc'[r] = pc[r] /\ outcome'[r] = outcome[r]
  BY <1>1, <1>6
  DEF VerifyEmail, ServeRequest, RequestFails, VerificationFails, RereadSession, SyncSession,
      Compensate, FailSession, DeactivateUser, DeactivateAuth, PublishFailed, CreateVerificationStep,
      SetSession, SetVerificationStep, VerifyCode, ActivateUser, PublishCompleted, FailVerificationStep,
      Goto, TypeOK, PcTypeOK
<1>7. ASSUME NEW g \in Queries, GetRegistrationStatus(g) \/ ClaimCompleted(g) \/ ClaimFails(g)
      PROVE  pc'[r] = pc[r] /\ outcome'[r] = outcome[r]
  BY <1>1, <1>7 DEF GetRegistrationStatus, ClaimCompleted, ClaimFails, Goto, TypeOK, PcTypeOK
<1>8. QED
  BY <1>2, <1>3, <1>5, <1>6, <1>7 DEF Next, vars

\* VerifyEmail and GetRegistrationStatus write no initial step.
LEMMA RequestsKeepInitialSteps ==
    ASSUME TypeOK,
           \/ \E q \in Requests : VerifyEmail(q) \/ ServeRequest(q) \/ RequestFails(q) \/ VerificationFails(q)
           \/ \E g \in Queries : GetRegistrationStatus(g) \/ ClaimCompleted(g) \/ ClaimFails(g),
           NEW k \in InitialSteps
    PROVE  steps'[k] = steps[k]
BY DEF VerifyEmail, ServeRequest, RequestFails, VerificationFails, RereadSession, SyncSession,
     Compensate, FailSession, DeactivateUser, DeactivateAuth, PublishFailed, CreateVerificationStep,
     SetSession, SetVerificationStep, VerifyCode, ActivateUser, PublishCompleted, FailVerificationStep,
     GetRegistrationStatus, ClaimCompleted, ClaimFails,
     rows, WriteStep, InsertStep, TypeOK, StepKeys, InitialSteps

\* No step row is removed.
LEMMA RowsStay ==
    ASSUME TypeOK, [Next]_vars, NEW k \in StepKeys, steps[k] # "none"
    PROVE  steps'[k] # "none"
<1> USE DEF rows, WriteStep, InsertStep, NextStepStatus, TypeOK
<1>1. CASE StartSession \/ RunStart \/ StartStops \/ Restart
  BY <1>1
  DEF StartSession, RunStart, StartStops, CreateStartStep, HashPassword, MarkSessionInProgress,
      MarkStepInProgress, PublishCommand, FailStartStep, FailStartSession, Restart
<1>2. ASSUME NEW r \in Results, HandleResult(r) \/ HandlerFails(r)
      PROVE  steps'[k] # "none"
  BY <1>2
  DEF HandleResult, ClaimResult, UpdateResultStep, StartMailStep, PublishCodeSent, NotifyCodeSent,
      HandlerFails, SyncSession, Compensate, FailSession, DeactivateUser, DeactivateAuth, PublishFailed
<1>3. ASSUME NEW q \in Requests,
             VerifyEmail(q) \/ ServeRequest(q) \/ RequestFails(q) \/ VerificationFails(q)
      PROVE  steps'[k] # "none"
  BY <1>3
  DEF VerifyEmail, ServeRequest, RequestFails, VerificationFails, RereadSession, SyncSession,
      Compensate, FailSession, DeactivateUser, DeactivateAuth, PublishFailed, CreateVerificationStep,
      SetSession, SetVerificationStep, VerifyCode, ActivateUser, PublishCompleted, FailVerificationStep
<1>4. CASE \/ \E r \in Results, o \in {"success", "failed"} : DownstreamReports(r, o)
           \/ \E g \in Queries : GetRegistrationStatus(g) \/ ClaimCompleted(g) \/ ClaimFails(g)
           \/ UNCHANGED vars
  BY <1>4 DEF DownstreamReports, GetRegistrationStatus, ClaimCompleted, ClaimFails, vars
<1>5. QED
  BY <1>1, <1>2, <1>3, <1>4 DEF Next

-----------------------------------------------------------------------------
(* The successes handled stay completed.                                   *)

\* Only the command to user-service makes it answer.
LEMMA NextUserCommand ==
    ASSUME PlainAnswers, TypeOK, UserCommandFirst, [Next]_vars
    PROVE  UserCommandFirst'
<1>1. CASE StartSession \/ RunStart \/ StartStops
  BY <1>1
  DEF StartSession, RunStart, StartStops, CreateStartStep, HashPassword, MarkSessionInProgress,
      MarkStepInProgress, PublishCommand, FailStartStep, FailStartSession, inbox, UserCommandFirst, PlainAnswers
<1>2. ASSUME NEW r \in Results, NEW o \in {"success", "failed"}, DownstreamReports(r, o)
      PROVE  UserCommandFirst'
  BY <1>2 DEF DownstreamReports, Answerable, UserCommandFirst, TypeOK
<1>3. CASE Restart
  BY <1>3 DEF Restart, inbox, UserCommandFirst
<1>4. CASE UNCHANGED <<starter, inbox>>
  BY <1>4 DEF inbox, UserCommandFirst
<1>5. QED
  BY <1>1, <1>2, <1>3, <1>4
  DEF Next, vars, HandleResult, ClaimResult, UpdateResultStep, StartMailStep, PublishCodeSent, NotifyCodeSent,
      HandlerFails, SyncSession, Compensate, FailSession, DeactivateUser, DeactivateAuth, PublishFailed,
      VerifyEmail, ServeRequest, RequestFails, VerificationFails, RereadSession, CreateVerificationStep,
      SetSession, SetVerificationStep, VerifyCode, ActivateUser, PublishCompleted, FailVerificationStep,
      GetRegistrationStatus, ClaimCompleted, ClaimFails

\* Start writes no failure over a step whose service has answered.
LEMMA StartKeepsCompleted ==
    ASSUME PlainAnswers, ReconcileInvariant, StartSession \/ RunStart \/ StartStops,
           NEW r \in Results, outcome[r] = "success", steps[StepOf[r]] = "completed"
    PROVE  steps'[StepOf[r]] = "completed"
<1>1. TypeOK /\ CommandComesLast /\ UserCommandFirst /\ StepOf[r] \in StepKeys
  BY SagaAssumption DEF ReconcileInvariant, OutcomeInvariant, SuccessInvariant, StepKeys
<1>2. CASE FailStartStep("fail_user", "user") \/ FailStartStep("fail_auth", "auth")
  <2>1. \/ starter = "fail_user" /\ StepOf[r] # "user" /\ (steps' = steps \/ WriteStep("user", "failed"))
        \/ starter = "fail_auth" /\ StepOf[r] # "auth" /\ (steps' = steps \/ WriteStep("auth", "failed"))
    BY <1>1, <1>2 DEF FailStartStep, CommandComesLast, UserCommandFirst
  <2>2. QED
    BY <1>1, <2>1 DEF WriteStep, TypeOK
<1>3. CASE ~(FailStartStep("fail_user", "user") \/ FailStartStep("fail_auth", "auth"))
  BY <1>1, <1>3
  DEF StartSession, RunStart, StartStops, CreateStartStep, HashPassword, MarkSessionInProgress,
      MarkStepInProgress, PublishCommand, FailStartSession, rows, InsertStep, WriteStep, NextStepStatus, TypeOK
<1>4. QED
  BY <1>2, <1>3

\* A completed step is completed for good: the only failure that could be
\* written over it is that of another result for the same step.
LEMMA CompletedForGood ==
    ASSUME PlainAnswers, ReconcileInvariant, [Next]_vars,
           NEW r \in Results, outcome[r] = "success", steps[StepOf[r]] = "completed"
    PROVE  steps'[StepOf[r]] = "completed"
<1>1. TypeOK /\ StepOf[r] \in InitialSteps /\ InitialSteps \subseteq StepKeys
  BY SagaAssumption DEF ReconcileInvariant, OutcomeInvariant, SuccessInvariant, StepKeys
<1>2. ASSUME NEW a \in Results, HandleResult(a) \/ HandlerFails(a)
      PROVE  steps'[StepOf[r]] = "completed"
  <2>1. CASE UpdateResultStep(a)
    <3>1. StepOf[a] = StepOf[r] => outcome[a] = "success"
      BY DEF PlainAnswers
    <3>2. QED
      BY <1>1, <2>1, <3>1 DEF UpdateResultStep, WriteStep, NextStepStatus, TypeOK
  <2>2. CASE ~UpdateResultStep(a)
    BY <1>1, <1>2, <2>2
    DEF HandleResult, ClaimResult, StartMailStep, PublishCodeSent, NotifyCodeSent, HandlerFails, SyncSession,
        Compensate, FailSession, DeactivateUser, DeactivateAuth, PublishFailed, rows, WriteStep,
        NextStepStatus, TypeOK
  <2>3. QED
    BY <2>1, <2>2
<1>3. CASE \/ \E a \in Results, o \in {"success", "failed"} : DownstreamReports(a, o)
           \/ Restart \/ UNCHANGED vars
  BY <1>3 DEF DownstreamReports, Restart, vars, rows
<1>4. QED
  BY <1>1, <1>2, <1>3, StartKeepsCompleted, RequestsKeepInitialSteps DEF Next

\* A success is completed by its handler before the handler goes on.
LEMMA NextHandled ==
    ASSUME PlainAnswers, ReconcileInvariant, [Next]_vars
    PROVE  HandledIsCompleted'
<1>1. TypeOK /\ HandledIsCompleted /\ RowsComeFirst
  BY DEF ReconcileInvariant, OutcomeInvariant, SuccessInvariant
<1> SUFFICES ASSUME NEW r \in Results, outcome'[r] = "success"
             PROVE  pc'[r] \in {"queued", "update_step", "lost"} \/ steps'[StepOf[r]] = "completed"
  BY DEF HandledIsCompleted
<1>2. r \in Processes /\ StepOf[r] \in InitialSteps /\ InitialSteps \subseteq StepKeys
  BY SagaAssumption DEF Processes, StepKeys
<1>3. CASE \E o \in {"success", "failed"} : DownstreamReports(r, o)
  BY <1>1, <1>2, <1>3 DEF DownstreamReports, TypeOK, PcTypeOK
<1>4. CASE outcome[r] = "success" /\ steps[StepOf[r]] = "completed"
  BY <1>4, CompletedForGood
<1>5. CASE outcome[r] = "success" /\ pc[r] \in {"queued", "update_step", "lost"}
  <2>1. CASE UpdateResultStep(r)
    <3>1. steps[StepOf[r]] # "none"
      BY <1>1, <1>2, <2>1 DEF UpdateResultStep, Goto, RowsComeFirst, RowsRelied, RowsStored
    <3>2. QED
      BY <1>1, <1>2, <1>5, <2>1, <3>1 DEF UpdateResultStep, WriteStep, NextStepStatus, TypeOK
  <2>2. CASE ClaimResult(r) \/ HandlerFails(r)
    BY <1>1, <1>2, <2>2 DEF ClaimResult, HandlerFails, Goto, TypeOK, PcTypeOK
  <2>3. CASE Restart
    BY <1>2, <1>5, <2>3 DEF Restart
  <2>4. ~(StartMailStep(r) \/ PublishCodeSent(r) \/ SyncSession(r) \/ NotifyCodeSent(r) \/ Compensate(r))
    BY <1>5 DEF StartMailStep, PublishCodeSent, SyncSession, NotifyCodeSent, Compensate, FailSession,
                DeactivateUser, DeactivateAuth, PublishFailed, Goto
  <2>5. QED
    BY <1>1, <1>3, <1>5, <2>1, <2>2, <2>3, <2>4, ResultAlone DEF HandleResult
<1>6. outcome[r] = "success" \/ \E o \in {"success", "failed"} : DownstreamReports(r, o)
  <2>1. HandleResult(r) \/ HandlerFails(r) \/ Restart => outcome' = outcome
    BY DEF HandleResult, ClaimResult, UpdateResultStep, StartMailStep, PublishCodeSent, NotifyCodeSent,
           HandlerFails, SyncSession, Compensate, FailSession, DeactivateUser, DeactivateAuth, PublishFailed,
           Restart, inbox
  <2>2. QED
    BY <1>1, <2>1, ResultAlone
<1>7. QED
  BY <1>1, <1>3, <1>4, <1>5, <1>6 DEF HandledIsCompleted

-----------------------------------------------------------------------------
(* Whoever reconciles last opens the session.                              *)

\* What is known once all three succeeded and verification has not begun.
LEMMA SuccessIsQuiet ==
    ASSUME PlainAnswers, ReconcileInvariant, AllSucceeded, steps["verify"] = "none"
    PROVE  /\ ~Troubled /\ starter = "done" /\ steps["activate"] = "none"
           /\ \A q \in Requests : pc[q] \in EntryLabels
           /\ session \notin {"completed", "tokens_claimed"}
<1> USE DEF ReconcileInvariant, OutcomeInvariant
<1>1. ~Rejected
  BY SuccessExcludesRejection DEF ClaimInvariant
<1>2. starter = "done"
  <2>1. PICK a \in Results : StepOf[a] = "auth" /\ outcome[a] = "success"
    BY DEF AllSucceeded, Succeeded, InitialSteps
  <2>2. QED
    BY <2>1 DEF CommandComesLast
<1>3. QED
  BY <1>1, <1>2 DEF TroubleHasCause, ClaimInvariant, NoVerifierBeforeStep

\* A reconciliation finds three completed steps once no handler has yet to
\* record its success.
LEMMA LastReconciles ==
    ASSUME PlainAnswers, ReconcileInvariant, AllSucceeded, steps["verify"] = "none",
           \A r \in Results : pc[r] \notin {"queued", "update_step", "lost"}
    PROVE  ReconciledStatus(steps) = "code_sent"
<1>1. \A k \in InitialSteps : steps[k] = "completed"
  BY DEF ReconcileInvariant, HandledIsCompleted, AllSucceeded, Succeeded
<1>2. steps["activate"] = "none"
  BY SuccessIsQuiet
<1>3. QED
  BY <1>1, <1>2 DEF ReconciledStatus, StepKeys

\* The step that leaves no handler with a reconciliation to make leaves the
\* session ready for the code.
LEMMA NextReconciles ==
    ASSUME PlainAnswers, ReconcileInvariant, [Next]_vars
    PROVE  SomeoneReconciles'
<1>1. TypeOK
  BY DEF ReconcileInvariant, OutcomeInvariant, SuccessInvariant
<1> SUFFICES ASSUME AllSucceeded', steps'["verify"] = "none",
                    \A r \in Results : pc'[r] \in {"notify", "done"}
             PROVE  session' = "code_sent"
  BY DEF SomeoneReconciles
<1>2. steps["verify"] = "none"
  BY <1>1, RowsStay DEF StepKeys
<1>3. ASSUME NEW r \in Results, NEW o \in {"success", "failed"}, DownstreamReports(r, o)
      PROVE  FALSE
  BY <1>1, <1>3 DEF DownstreamReports, TypeOK, PcTypeOK, Processes
<1>4. outcome' = outcome
  BY <1>3
  DEF Next, vars, inbox, StartSession, RunStart, StartStops, CreateStartStep, HashPassword, MarkSessionInProgress,
      MarkStepInProgress, PublishCommand, FailStartStep, FailStartSession,
      HandleResult, ClaimResult, UpdateResultStep, StartMailStep, PublishCodeSent, NotifyCodeSent,
      HandlerFails, SyncSession, Compensate, FailSession, DeactivateUser, DeactivateAuth, PublishFailed,
      VerifyEmail, ServeRequest, RequestFails, VerificationFails, RereadSession, CreateVerificationStep,
      SetSession, SetVerificationStep, VerifyCode, ActivateUser, PublishCompleted, FailVerificationStep,
      GetRegistrationStatus, ClaimCompleted, ClaimFails, Restart
<1>5. AllSucceeded
  BY <1>4 DEF AllSucceeded, Succeeded
<1>6. /\ ~Troubled /\ starter = "done" /\ \A q \in Requests : pc[q] \in EntryLabels
      /\ session \notin {"completed", "tokens_claimed"}
  BY <1>2, <1>5, SuccessIsQuiet
<1>7. (\A r \in Results : pc[r] \in {"notify", "done"}) => session = "code_sent"
  BY <1>2, <1>5 DEF ReconcileInvariant, SomeoneReconciles
<1>8. \A p \in Processes : ~Compensate(p)
  <2>1. \A p \in Processes : Compensate(p) => pc[p] \in TroubleLabels
    BY DEF Compensate, FailSession, DeactivateUser, DeactivateAuth, PublishFailed, Goto,
           TroubleLabels, CompensationLabels, ClosingLabels
  <2>2. QED
    BY <1>6, <2>1 DEF Troubled
<1>9. ASSUME NEW r \in Results, HandleResult(r) \/ HandlerFails(r)
      PROVE  session' = "code_sent"
  <2>1. r \in Processes /\ \A a \in Results \ {r} : pc[a] = pc'[a]
    BY <1>1, <1>9
    DEF HandleResult, ClaimResult, UpdateResultStep, StartMailStep, PublishCodeSent, NotifyCodeSent,
        HandlerFails, SyncSession, Compensate, FailSession, DeactivateUser, DeactivateAuth, PublishFailed,
        Goto, TypeOK, PcTypeOK, Processes
  <2>2. CASE SyncSession(r)
    <3>1. \A a \in Results : pc[a] \notin {"queued", "update_step", "lost"}
      BY <2>1, <2>2 DEF SyncSession, Goto
    <3>2. QED
      BY <1>2, <1>5, <2>2, <3>1, LastReconciles DEF SyncSession
  <2>3. CASE NotifyCodeSent(r)
    BY <1>7, <2>1, <2>3 DEF NotifyCodeSent, Goto, rows
  <2>4. CASE UpdateResultStep(r)
    <3>1. pc'[r] = AfterUpdateStep(r) /\ StepOf[r] \in InitialSteps
      BY <1>1, <2>1, <2>4, SagaAssumption DEF UpdateResultStep, Goto, TypeOK, PcTypeOK
    <3>2. AfterUpdateStep(r) \notin {"notify", "done"}
      BY <3>1 DEF AfterUpdateStep, InitialSteps
    <3>3. QED
      BY <3>1, <3>2
  <2>5. CASE ClaimResult(r) \/ StartMailStep(r) \/ PublishCodeSent(r) \/ HandlerFails(r)
    BY <1>1, <2>1, <2>5
    DEF ClaimResult, StartMailStep, PublishCodeSent, HandlerFails, Goto, TypeOK, PcTypeOK
  <2>6. QED
    BY <1>8, <1>9, <2>1, <2>2, <2>3, <2>4, <2>5 DEF HandleResult
<1>10. CASE Restart
  <2>1. \A r \in Results : pc[r] = "done"
    BY <1>10 DEF Restart, Processes
  <2>2. QED
    BY <1>7, <1>10, <2>1 DEF Restart, rows
<1>11. CASE /\ ~Restart /\ \A r \in Results : ~(HandleResult(r) \/ HandlerFails(r))
  <2>1. \A r \in Results : pc[r] \in {"notify", "done"}
    BY <1>1, <1>3, <1>11, ResultAlone
  <2>2. session = "code_sent"
    BY <1>7, <2>1
  <2>3. ASSUME NEW q \in Requests,
               VerifyEmail(q) \/ ServeRequest(q) \/ RequestFails(q) \/ VerificationFails(q)
        PROVE  session' = "code_sent"
    <3>1. q \in Processes /\ pc[q] \in EntryLabels
      BY <1>6 DEF Processes
    <3>2. CASE SyncSession(q)
      BY <1>2, <1>5, <2>1, <3>2, LastReconciles DEF SyncSession
    <3>3. \A from, s, to : from \in VerifierLabels => ~SetSession(q, from, s, to)
      BY <3>1 DEF SetSession, Goto, VerifierLabels, EntryLabels, CompensationLabels
    <3>4. CASE ~SyncSession(q)
      BY <1>8, <2>2, <2>3, <3>1, <3>3, <3>4
      DEF VerifyEmail, ServeRequest, RequestFails, VerificationFails, RereadSession, CreateVerificationStep,
          SetVerificationStep, VerifyCode, ActivateUser, PublishCompleted, FailVerificationStep, rows, VerifierLabels
    <3>5. QED
      BY <3>2, <3>4
  <2>4. ~(StartSession \/ RunStart \/ StartStops)
    BY <1>6 DEF StartSession, RunStart, StartStops, CreateStartStep, HashPassword, MarkSessionInProgress,
                MarkStepInProgress, PublishCommand, FailStartStep, FailStartSession
  <2>5. QED
    BY <1>3, <1>11, <2>2, <2>3, <2>4
    DEF Next, vars, GetRegistrationStatus, ClaimCompleted, ClaimFails, rows
<1>12. QED
  BY <1>9, <1>10, <1>11

\* Initially nothing has succeeded.
LEMMA InitReconcile == Init => ReconcileInvariant
<1> SUFFICES ASSUME Init PROVE ReconcileInvariant
  OBVIOUS
<1>1. OutcomeInvariant
  BY InitOutcome
<1>2. UserCommandFirst /\ HandledIsCompleted
  BY DEF Init, UserCommandFirst, HandledIsCompleted
<1>3. ~AllSucceeded
  BY DEF Init, AllSucceeded, Succeeded, InitialSteps
<1>4. QED
  BY <1>1, <1>2, <1>3 DEF ReconcileInvariant, SomeoneReconciles

\* The invariant holds in every reachable state, under the same assumption.
THEOREM HandlersReconcile == PlainAnswers => (Spec => []ReconcileInvariant)
<1> SUFFICES ASSUME PlainAnswers PROVE Spec => []ReconcileInvariant
  OBVIOUS
<1>1. Init => ReconcileInvariant
  BY InitReconcile
<1>2. ReconcileInvariant /\ OutcomeInvariant' /\ [Next]_vars => ReconcileInvariant'
  <2>1. ReconcileInvariant => TypeOK /\ UserCommandFirst
    BY DEF ReconcileInvariant, OutcomeInvariant, SuccessInvariant
  <2>2. QED
    BY <2>1, NextUserCommand, NextHandled, NextReconciles DEF ReconcileInvariant
<1>3. QED
  BY <1>1, <1>2, OutcomesAreDecided, PTL DEF Spec

\* Whatever the order in which the handlers of three successful results
\* interleave, with failed statements, retries and restarts among them: once
\* all have run and verification has not begun, the session accepts a code.
THEOREM ReconciliationConverges == PlainAnswers => (Spec => []ReconcileConverges)
<1> SUFFICES ASSUME PlainAnswers PROVE Spec => []ReconcileConverges
  OBVIOUS
<1>1. ReconcileInvariant => ReconcileConverges
  BY DEF ReconcileInvariant, SomeoneReconciles, ReconcileConverges
<1>2. QED
  BY <1>1, HandlersReconcile, PTL
=============================================================================
