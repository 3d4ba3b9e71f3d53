----------------------- MODULE RegistrationSagaProofs -----------------------
(***************************************************************************)
(* Proofs about RegistrationSaga for every set of result messages,         *)
(* requests and queries, every assignment of results to steps, every       *)
(* combination of faults and any number of restarts.                       *)
(***************************************************************************)
EXTENDS RegistrationSagaProperties, TLAPS

-----------------------------------------------------------------------------
(* Type correctness. *)

\* The values a step row takes stay step statuses.
LEMMA NextStepStatusType ==
    ASSUME NEW old \in StepStatus, NEW new \in StepStatus
    PROVE  NextStepStatus(old, new) \in StepStatus
BY DEF NextStepStatus

\* Reconciliation yields one of three session statuses.
LEMMA ReconciledStatusType ==
    ASSUME NEW st
    PROVE  ReconciledStatus(st) \in {"failed", "code_sent", "in_progress"}
BY DEF ReconciledStatus

\* Initially every variable has its type.
LEMMA InitTypeOK == Init => TypeOK
<1> SUFFICES ASSUME Init PROVE TypeOK
  OBVIOUS
<1> USE DEF Init
<1>1. session \in SessionStatus /\ steps \in [StepKeys -> StepStatus] /\ starter \in StarterLabels
  BY DEF SessionStatus, StepStatus, StarterLabels
<1>2. PcTypeOK
  BY DEF PcTypeOK, Processes, ResultLabels, RequestLabels, EntryLabels, QueryLabels
<1>3. restarts \in 0..MaxRestarts /\ claims \in Nat
  BY SagaAssumption
<1>4. notified \in BOOLEAN
  OBVIOUS
<1>5. QED
  BY <1>1, <1>2, <1>3, <1>4 DEF TypeOK

\* A step of Start or of its goroutine keeps the types.
LEMMA StartTypeOK == TypeOK /\ (StartSession \/ RunStart \/ StartStops) => TypeOK'
<1> SUFFICES ASSUME TypeOK, StartSession \/ RunStart \/ StartStops PROVE TypeOK'
  OBVIOUS
<1> USE DEF TypeOK, PcTypeOK, rows, accounts, inbox, client
<1>1. CASE StartSession
  BY <1>1 DEF StartSession, SessionStatus, StarterLabels
<1>2. CASE StartStops
  BY <1>2 DEF StartStops, StarterLabels
<1>3. ASSUME NEW from, NEW k \in InitialSteps, NEW to \in StarterLabels, CreateStartStep(from, k, to)
      PROVE TypeOK'
  BY <1>3 DEF CreateStartStep, InsertStep, StepStatus, StepKeys
<1>4. ASSUME NEW from, NEW k \in InitialSteps, NEW to \in StarterLabels, MarkStepInProgress(from, k, to)
      PROVE TypeOK'
  <2>1. NextStepStatus(steps[k], "in_progress") \in StepStatus
    BY NextStepStatusType DEF StepStatus, StepKeys
  <2>2. QED
    BY <1>4, <2>1 DEF MarkStepInProgress, WriteStep
<1>5. ASSUME NEW from, NEW k \in {"user", "auth"}, NEW to \in StarterLabels,
             NEW failing \in StarterLabels, PublishCommand(from, k, to, failing)
      PROVE TypeOK'
  BY <1>5 DEF PublishCommand
<1>6. ASSUME NEW from, NEW k \in InitialSteps, FailStartStep(from, k)
      PROVE TypeOK'
  <2>1. NextStepStatus(steps[k], "failed") \in StepStatus
    BY NextStepStatusType DEF StepStatus, StepKeys
  <2>2. QED
    BY <1>6, <2>1 DEF FailStartStep, WriteStep, StarterLabels
<1>7. CASE HashPassword
  BY <1>7 DEF HashPassword, StarterLabels
<1>8. CASE MarkSessionInProgress
  BY <1>8 DEF MarkSessionInProgress, StarterLabels, SessionStatus
<1>9. CASE FailStartSession
  BY <1>9 DEF FailStartSession, StarterLabels, SessionStatus
<1>10. QED
  BY <1>1, <1>2, <1>3, <1>4, <1>5, <1>6, <1>7, <1>8, <1>9 DEF RunStart, StarterLabels, InitialSteps

\* A process that moves to a label of its own kind keeps the types of pc.
LEMMA GotoType ==
    ASSUME PcTypeOK, NEW p \in Processes, NEW from, NEW to, Goto(p, from, to),
           p \in Results => to \in ResultLabels,
           p \in Requests => to \in RequestLabels,
           p \in Queries => to \in QueryLabels
    PROVE  PcTypeOK'
<1>1. to \in ResultLabels \cup RequestLabels \cup QueryLabels
  BY DEF Processes
<1>2. pc' = [pc EXCEPT ![p] = to]
  BY DEF Goto
<1>3. QED
  BY <1>1, <1>2 DEF PcTypeOK, Processes

\* A step of the compensation shared by the handlers and VerifyEmail.
LEMMA CompensateTypeOK ==
    ASSUME TypeOK, NEW p \in Results \cup Requests, Compensate(p)
    PROVE  TypeOK'
<1> USE DEF TypeOK, rows, accounts, inbox, client
<1>1. p \in Processes /\ p \notin Queries
  BY SagaAssumption DEF Processes
<1>2. /\ p \in Results => pc[p] \in ResultLabels
      /\ p \in Requests => pc[p] \in RequestLabels
  BY DEF PcTypeOK
<1>3. CASE FailSession(p)
  <2>1. PcTypeOK'
    BY <1>1, <1>2, <1>3, GotoType DEF FailSession, Goto, ResultLabels, RequestLabels, EntryLabels,
       ClosingLabels, CompensationLabels
  <2>2. QED
    BY <1>3, <2>1 DEF FailSession, SessionStatus
<1>4. CASE DeactivateUser(p)
  <2>1. PcTypeOK'
    BY <1>1, <1>2, <1>4, GotoType DEF DeactivateUser, Goto, ResultLabels, RequestLabels, EntryLabels,
       ClosingLabels, CompensationLabels
  <2>2. QED
    BY <1>4, <2>1 DEF DeactivateUser
<1>5. CASE DeactivateAuth(p)
  <2>1. PcTypeOK'
    BY <1>1, <1>2, <1>5, GotoType DEF DeactivateAuth, Goto, ResultLabels, RequestLabels, EntryLabels,
       ClosingLabels, CompensationLabels
  <2>2. QED
    BY <1>5, <2>1 DEF DeactivateAuth
<1>6. CASE PublishFailed(p)
  <2>1. PcTypeOK'
    BY <1>1, <1>2, <1>6, GotoType, SagaAssumption DEF PublishFailed, Goto, AfterCompensation, ResultLabels,
       RequestLabels, EntryLabels, ClosingLabels, CompensationLabels
  <2>2. QED
    BY <1>6, <2>1 DEF PublishFailed
<1>7. QED
  BY <1>3, <1>4, <1>5, <1>6 DEF Compensate

\* A reconciliation, by a handler or by VerifyEmail, keeps the types.
LEMMA SyncTypeOK ==
    ASSUME TypeOK, NEW p \in Results \cup Requests, SyncSession(p)
    PROVE  TypeOK'
<1>1. session' \in SessionStatus
  BY ReconciledStatusType DEF SyncSession, SessionStatus
<1>2. PcTypeOK'
  BY SagaAssumption, GotoType
  DEF SyncSession, TypeOK, Processes, ResultLabels, RequestLabels, EntryLabels, CompensationLabels
<1>3. QED
  BY <1>1, <1>2 DEF SyncSession, TypeOK, rows, accounts, inbox, client

\* A write to a step row keeps the type of the rows and creates none.
LEMMA WriteStepRows ==
    ASSUME TypeOK, NEW k \in StepKeys, NEW s \in StepStatus \ {"none"}, WriteStep(k, s)
    PROVE  /\ steps' \in [StepKeys -> StepStatus]
           /\ \A j \in StepKeys : steps'[j] = "none" <=> steps[j] = "none"
<1>1. NextStepStatus(steps[k], s) \in StepStatus
  BY NextStepStatusType DEF TypeOK
<1>2. NextStepStatus(steps[k], s) = "none" <=> steps[k] = "none"
  BY DEF NextStepStatus
<1>3. QED
  BY <1>1, <1>2 DEF WriteStep, TypeOK

\* A result handler keeps the types.
LEMMA ResultTypeOK ==
    ASSUME TypeOK, NEW r \in Results, HandleResult(r) \/ HandlerFails(r)
    PROVE  TypeOK'
<1> USE DEF TypeOK, rows, accounts, inbox, client, StepKeys, InitialSteps, StepStatus
<1>1. r \in Processes /\ r \notin Requests /\ r \notin Queries /\ StepOf[r] \in InitialSteps
  BY SagaAssumption DEF Processes
<1>2. CASE ClaimResult(r)
  <2>1. PcTypeOK'
    BY <1>1, <1>2, GotoType DEF ClaimResult, ResultLabels
  <2>2. QED
    BY <1>2, <2>1 DEF ClaimResult
<1>3. CASE UpdateResultStep(r)
  <2>1. AfterUpdateStep(r) \in ResultLabels
    BY <1>1 DEF AfterUpdateStep, ResultLabels, CompensationLabels
  <2>2. PcTypeOK'
    BY <1>1, <1>3, <2>1, GotoType DEF UpdateResultStep
  <2>3. steps' \in [StepKeys -> StepStatus]
    BY <1>1, <1>3, WriteStepRows DEF UpdateResultStep
  <2>4. QED
    BY <1>3, <2>2, <2>3 DEF UpdateResultStep
<1>4. CASE StartMailStep(r)
  <2>1. PcTypeOK'
    BY <1>1, <1>4, GotoType DEF StartMailStep, ResultLabels
  <2>2. steps' \in [StepKeys -> StepStatus]
    BY <1>4, WriteStepRows DEF StartMailStep
  <2>3. QED
    BY <1>4, <2>1, <2>2 DEF StartMailStep
<1>5. CASE PublishCodeSent(r)
  <2>1. PcTypeOK'
    BY <1>1, <1>5, GotoType DEF PublishCodeSent, ResultLabels
  <2>2. QED
    BY <1>5, <2>1 DEF PublishCodeSent
<1>6. CASE NotifyCodeSent(r)
  <2>1. PcTypeOK'
    BY <1>1, <1>6, GotoType DEF NotifyCodeSent, ResultLabels
  <2>2. notified' \in BOOLEAN
    BY <1>6 DEF NotifyCodeSent
  <2>3. QED
    BY <1>6, <2>1, <2>2 DEF NotifyCodeSent
<1>7. CASE HandlerFails(r)
  <2>1. PcTypeOK'
    BY <1>1, <1>7 DEF HandlerFails, PcTypeOK, ResultLabels
  <2>2. QED
    BY <1>7, <2>1 DEF HandlerFails
<1>8. QED
  BY <1>2, <1>3, <1>4, <1>5, <1>6, <1>7, SyncTypeOK, CompensateTypeOK DEF HandleResult

\* A report of a downstream service keeps the types.
LEMMA ReportTypeOK ==
    ASSUME TypeOK, NEW r \in Results, NEW o \in {"success", "failed"}, DownstreamReports(r, o)
    PROVE  TypeOK'
<1>1. PcTypeOK'
  BY SagaAssumption DEF DownstreamReports, TypeOK, PcTypeOK, Processes, ResultLabels
<1>2. QED
  BY <1>1 DEF DownstreamReports, TypeOK, rows, client

\* GetRegistrationStatus keeps the types.
LEMMA QueryTypeOK ==
    ASSUME TypeOK, NEW g \in Queries, GetRegistrationStatus(g) \/ ClaimCompleted(g) \/ ClaimFails(g)
    PROVE  TypeOK'
<1>1. PcTypeOK'
  BY SagaAssumption, GotoType
  DEF GetRegistrationStatus, ClaimCompleted, ClaimFails, TypeOK, Processes, QueryLabels
<1>2. session' \in SessionStatus /\ claims' \in Nat
  BY DEF GetRegistrationStatus, ClaimCompleted, ClaimFails, TypeOK, SessionStatus, rows, client
<1>3. QED
  BY <1>1, <1>2 DEF GetRegistrationStatus, ClaimCompleted, ClaimFails, TypeOK, rows, accounts, inbox, client

\* A restart keeps the types.
LEMMA RestartTypeOK == TypeOK /\ Restart => TypeOK'
<1> SUFFICES ASSUME TypeOK, Restart PROVE TypeOK'
  OBVIOUS
<1>1. PcTypeOK'
  BY SagaAssumption DEF Restart, TypeOK, PcTypeOK, Processes, ResultLabels, RequestLabels, EntryLabels,
     QueryLabels
<1>2. restarts' \in 0..MaxRestarts
  BY SagaAssumption DEF Restart, TypeOK
<1>3. QED
  BY <1>1, <1>2 DEF Restart, TypeOK, rows, accounts, inbox, StarterLabels

\* VerifyEmail and the verification goroutine keep the types.
LEMMA RequestTypeOK ==
    ASSUME TypeOK, NEW q \in Requests,
           VerifyEmail(q) \/ ServeRequest(q) \/ RequestFails(q) \/ VerificationFails(q)
    PROVE  TypeOK'
<1> USE DEF TypeOK, rows, accounts, inbox, client
<1>1. q \in Processes /\ q \notin Results /\ q \notin Queries
  BY SagaAssumption DEF Processes
<1>2. ASSUME NEW from, NEW to \in RequestLabels, Goto(q, from, to)
      PROVE PcTypeOK'
  BY <1>1, <1>2, GotoType
<1>3. CASE VerifyEmail(q)
  <2>1. PcTypeOK'
    BY <1>2, <1>3 DEF VerifyEmail, RequestLabels, EntryLabels
  <2>2. QED
    BY <1>3, <2>1 DEF VerifyEmail
<1>4. CASE RereadSession(q)
  <2>1. PcTypeOK'
    BY <1>2, <1>4 DEF RereadSession, RequestLabels, EntryLabels
  <2>2. QED
    BY <1>4, <2>1 DEF RereadSession
<1>5. ASSUME NEW from, NEW k \in StepKeys, NEW s \in StepStatus, NEW to \in RequestLabels,
             CreateVerificationStep(q, from, k, s, to)
      PROVE TypeOK'
  <2>1. PcTypeOK'
    BY <1>2, <1>5 DEF CreateVerificationStep, RequestLabels, EntryLabels
  <2>2. QED
    BY <1>5, <2>1 DEF CreateVerificationStep, InsertStep
<1>6. ASSUME NEW from, NEW s \in SessionStatus, NEW to \in RequestLabels, SetSession(q, from, s, to)
      PROVE TypeOK'
  <2>1. PcTypeOK'
    BY <1>2, <1>6 DEF SetSession
  <2>2. QED
    BY <1>6, <2>1 DEF SetSession
<1>7. ASSUME NEW from, NEW k \in StepKeys, NEW s \in StepStatus \ {"none"}, NEW to \in RequestLabels,
             SetVerificationStep(q, from, k, s, to)
      PROVE TypeOK'
  <2>1. PcTypeOK'
    BY <1>2, <1>7 DEF SetVerificationStep
  <2>2. steps' \in [StepKeys -> StepStatus]
    BY <1>7, WriteStepRows DEF SetVerificationStep
  <2>3. QED
    BY <1>7, <2>1, <2>2 DEF SetVerificationStep
<1>8. CASE VerifyCode(q)
  <2>1. PcTypeOK'
    BY <1>2, <1>8 DEF VerifyCode, RequestLabels, VerifierLabels, ClosingLabels
  <2>2. QED
    BY <1>8, <2>1 DEF VerifyCode
<1>9. CASE ActivateUser(q)
  <2>1. PcTypeOK'
    BY <1>2, <1>9 DEF ActivateUser, RequestLabels, VerifierLabels, ClosingLabels
  <2>2. QED
    BY <1>9, <2>1 DEF ActivateUser
<1>10. CASE PublishCompleted(q)
  <2>1. PcTypeOK'
    BY <1>2, <1>10 DEF PublishCompleted, RequestLabels, EntryLabels
  <2>2. QED
    BY <1>10, <2>1 DEF PublishCompleted
<1>11. ASSUME NEW from, NEW k \in StepKeys, FailVerificationStep(q, from, k)
       PROVE TypeOK'
  <2>1. PcTypeOK'
    BY <1>2, <1>11 DEF FailVerificationStep, RequestLabels, ClosingLabels
  <2>2. steps' \in [StepKeys -> StepStatus]
    BY <1>11, WriteStepRows DEF FailVerificationStep, StepStatus
  <2>3. QED
    BY <1>11, <2>1, <2>2 DEF FailVerificationStep
<1>12. CASE RequestFails(q) \/ VerificationFails(q)
  <2>1. PICK to \in {"idle", "fail_verify_step", "fail_activate_step"} : Goto(q, pc[q], to)
    BY <1>12 DEF RequestFails, VerificationFails, Goto
  <2>2. PcTypeOK'
    BY <1>2, <2>1 DEF RequestLabels, EntryLabels, ClosingLabels
  <2>3. QED
    BY <1>12, <2>2 DEF RequestFails, VerificationFails
<1>13. CASE ServeRequest(q)
  <2> USE DEF StepKeys, InitialSteps, StepStatus, SessionStatus, RequestLabels, VerifierLabels, ClosingLabels
  <2>1. CASE SyncSession(q) \/ Compensate(q)
    BY <2>1, SyncTypeOK, CompensateTypeOK
  <2>2. QED
    BY <1>4, <1>5, <1>6, <1>7, <1>8, <1>9, <1>10, <1>11, <1>13, <2>1 DEF ServeRequest
<1>14. QED
  BY <1>3, <1>12, <1>13

\* Every variable keeps its type in every behaviour: no handler, request or
\* goroutine ever reaches a call that is not its own.
THEOREM TypeCorrect == Spec => []TypeOK
<1>1. TypeOK /\ [Next]_vars => TypeOK'
  <2> SUFFICES ASSUME TypeOK, [Next]_vars PROVE TypeOK'
    OBVIOUS
  <2>1. CASE UNCHANGED vars
    BY <2>1 DEF vars, rows, accounts, inbox, client, TypeOK, PcTypeOK
  <2>2. CASE Next
    BY <2>2, StartTypeOK, ReportTypeOK, ResultTypeOK, RequestTypeOK, QueryTypeOK, RestartTypeOK DEF Next
  <2>3. QED
    BY <2>1, <2>2
<1>2. QED
  BY InitTypeOK, <1>1, PTL DEF Spec

-----------------------------------------------------------------------------
(* Tokens are claimed once. ClaimInvariant is inductive: TokensClaimedOnce *)
(* alone is not, since a state with one claim and a session put back to    *)
(* "completed" satisfies it.                                               *)

\* A step that makes no request a verifier, takes no entering request further
\* and neither completes nor claims the session keeps the invariant.
LEMMA QuietStep ==
    ASSUME ClaimInvariant, TypeOK', claims' = claims,
           session' \in {"completed", "tokens_claimed"} => session \in {"completed", "tokens_claimed"},
           session' = "completed" => session = "completed",
           steps'["verify"] = "none" => steps["verify"] = "none",
           \A q \in Requests : /\ pc'[q] \in VerifierLabels => pc[q] \in VerifierLabels
                               /\ pc[q] \in EntryLabels => pc'[q] \in EntryLabels
    PROVE  ClaimInvariant'
<1> USE DEF ClaimInvariant, Verifying
<1>1. NoVerifierBeforeStep'
  BY DEF NoVerifierBeforeStep
<1>2. SingleVerifier'
  BY DEF SingleVerifier
<1>3. VerifierBeforeClaim'
  BY DEF VerifierBeforeClaim
<1>4. ClaimedForGood'
  BY DEF ClaimedForGood
<1>5. QED
  BY <1>1, <1>2, <1>3, <1>4

\* The initial states satisfy the invariant.
LEMMA InitClaim == Init => ClaimInvariant
<1> SUFFICES ASSUME Init PROVE ClaimInvariant
  OBVIOUS
<1>1. TypeOK
  BY InitTypeOK
<1>2. \A q \in Requests : pc[q] = "idle"
  BY DEF Init, Processes
<1>3. NoVerifierBeforeStep
  BY <1>2 DEF Init, NoVerifierBeforeStep, EntryLabels
<1>4. SingleVerifier /\ VerifierBeforeClaim
  BY <1>2 DEF SingleVerifier, VerifierBeforeClaim, Verifying, VerifierLabels
<1>5. ClaimedForGood
  BY DEF Init, ClaimedForGood
<1>6. QED
  BY <1>1, <1>3, <1>4, <1>5 DEF ClaimInvariant

\* Start, its goroutine and the downstream services are quiet.
LEMMA StartClaim ==
    ASSUME ClaimInvariant, TypeOK', StartSession \/ RunStart \/ StartStops
    PROVE  ClaimInvariant'
<1>1. TypeOK
  BY DEF ClaimInvariant
<1>2. pc' = pc /\ claims' = claims
  BY DEF StartSession, RunStart, StartStops, CreateStartStep, HashPassword, MarkSessionInProgress,
     MarkStepInProgress, PublishCommand, FailStartStep, FailStartSession, client
<1>3. session' = session \/ session' \in {"started", "in_progress", "failed"}
  BY DEF StartSession, RunStart, StartStops, CreateStartStep, HashPassword, MarkSessionInProgress,
     MarkStepInProgress, PublishCommand, FailStartStep, FailStartSession, rows
<1>4. steps'["verify"] = steps["verify"]
  BY <1>1 DEF StartSession, RunStart, StartStops, CreateStartStep, HashPassword, MarkSessionInProgress,
     MarkStepInProgress, PublishCommand, FailStartStep, FailStartSession, rows, InsertStep, WriteStep,
     TypeOK, StepKeys, InitialSteps
<1>5. QED
  BY <1>2, <1>3, <1>4, QuietStep

\* A result handler is quiet: it may overwrite the session's status, but
\* never with "completed".
LEMMA ResultClaim ==
    ASSUME ClaimInvariant, TypeOK', NEW r \in Results, HandleResult(r) \/ HandlerFails(r)
    PROVE  ClaimInvariant'
<1>1. TypeOK
  BY DEF ClaimInvariant
<1>2. claims' = claims
  BY DEF HandleResult, ClaimResult, UpdateResultStep, StartMailStep, PublishCodeSent, NotifyCodeSent,
     HandlerFails, SyncSession, Compensate, FailSession, DeactivateUser, DeactivateAuth, PublishFailed, client
<1>3. session' = session \/ session' \in {"failed", "code_sent", "in_progress"}
  BY ReconciledStatusType
  DEF HandleResult, ClaimResult, UpdateResultStep, StartMailStep, PublishCodeSent, NotifyCodeSent,
     HandlerFails, SyncSession, Compensate, FailSession, DeactivateUser, DeactivateAuth, PublishFailed, rows
<1>4. steps'["verify"] = steps["verify"]
  <2>1. StepOf[r] # "verify"
    BY SagaAssumption DEF InitialSteps
  <2>2. QED
    BY <1>1, <2>1
    DEF HandleResult, ClaimResult, UpdateResultStep, StartMailStep, PublishCodeSent, NotifyCodeSent,
     HandlerFails, SyncSession, Compensate, FailSession, DeactivateUser, DeactivateAuth, PublishFailed, rows,
     WriteStep, TypeOK, StepKeys, InitialSteps
<1>5. \A q \in Requests : pc'[q] = pc[q]
  <2>1. PICK to : pc' = [pc EXCEPT ![r] = to]
    BY DEF HandleResult, ClaimResult, UpdateResultStep, StartMailStep, PublishCodeSent, NotifyCodeSent,
     HandlerFails, SyncSession, Compensate, FailSession, DeactivateUser, DeactivateAuth, PublishFailed, Goto
  <2>2. QED
    BY <1>1, <2>1, SagaAssumption DEF TypeOK, PcTypeOK, Processes
<1>6. QED
  BY <1>2, <1>3, <1>4, <1>5, QuietStep

\* A report leaves the rows and the requests alone.
LEMMA ReportClaim ==
    ASSUME ClaimInvariant, TypeOK', NEW r \in Results, NEW o \in {"success", "failed"},
           DownstreamReports(r, o)
    PROVE  ClaimInvariant'
<1>1. \A q \in Requests : pc'[q] = pc[q]
  BY SagaAssumption DEF DownstreamReports, ClaimInvariant, TypeOK, PcTypeOK, Processes
<1>2. QED
  BY <1>1, QuietStep DEF DownstreamReports, rows, client

\* Of two racing queries ClaimCompleted lets one claim: the statement both
\* tests and changes the status.
LEMMA QueryClaim ==
    ASSUME ClaimInvariant, TypeOK', NEW g \in Queries,
           GetRegistrationStatus(g) \/ ClaimCompleted(g) \/ ClaimFails(g)
    PROVE  ClaimInvariant'
<1>1. \A q \in Requests : pc'[q] = pc[q]
  BY SagaAssumption
  DEF GetRegistrationStatus, ClaimCompleted, ClaimFails, Goto, ClaimInvariant, TypeOK, PcTypeOK, Processes
<1>2. steps' = steps
  BY DEF GetRegistrationStatus, ClaimCompleted, ClaimFails, rows
<1>3. CASE claims' = claims
  <2>1. /\ session' \in {"completed", "tokens_claimed"} => session \in {"completed", "tokens_claimed"}
        /\ session' = "completed" => session = "completed"
    BY DEF GetRegistrationStatus, ClaimCompleted, ClaimFails, rows
  <2>2. QED
    BY <1>1, <1>2, <1>3, <2>1, QuietStep
<1>4. CASE claims' # claims
  <2>1. session = "completed" /\ session' = "tokens_claimed" /\ claims' = claims + 1
    BY <1>4 DEF GetRegistrationStatus, ClaimCompleted, ClaimFails, client
  <2>2. claims' = 1
    BY <2>1 DEF ClaimInvariant, ClaimedForGood
  <2>3. steps'["verify"] # "none"
    BY <1>2, <2>1 DEF ClaimInvariant, NoVerifierBeforeStep
  <2>4. \A q \in Requests : pc'[q] \notin VerifierLabels
    BY <1>1, <2>1 DEF ClaimInvariant, VerifierBeforeClaim, Verifying
  <2>5. QED
    BY <2>1, <2>2, <2>3, <2>4
    DEF ClaimInvariant, NoVerifierBeforeStep, SingleVerifier, VerifierBeforeClaim, ClaimedForGood, Verifying
<1>5. QED
  BY <1>3, <1>4

\* A restart ends every verifier.
LEMMA RestartClaim == ClaimInvariant /\ TypeOK' /\ Restart => ClaimInvariant'
<1> SUFFICES ASSUME ClaimInvariant, TypeOK', Restart PROVE ClaimInvariant'
  OBVIOUS
<1>1. \A q \in Requests : pc'[q] = "idle"
  BY SagaAssumption DEF Restart, Processes
<1>2. QED
  BY <1>1, QuietStep DEF Restart, rows, EntryLabels, VerifierLabels

\* Of the steps of VerifyEmail and its goroutine two are not quiet: the
\* insertion of the verification step, which admits one verifier, and the
\* write of "completed", which ends it.
LEMMA RequestClaim ==
    ASSUME ClaimInvariant, TypeOK', NEW q \in Requests,
           VerifyEmail(q) \/ ServeRequest(q) \/ RequestFails(q) \/ VerificationFails(q)
    PROVE  ClaimInvariant'
<1>1. TypeOK /\ q \in Processes /\ q \notin Results
  BY SagaAssumption DEF ClaimInvariant, Processes
<1>2. ASSUME NEW from, NEW to, Goto(q, from, to)
      PROVE  pc[q] = from /\ pc' = [pc EXCEPT ![q] = to] /\ pc'[q] = to
             /\ \A p \in Requests \ {q} : pc'[p] = pc[p]
  BY <1>1, <1>2 DEF Goto, TypeOK, PcTypeOK, Processes
<1>3. ASSUME NEW from, NEW to, Goto(q, from, to), claims' = claims,
             session' = session \/ session' \in SessionStatus \ {"completed", "tokens_claimed"},
             steps'["verify"] = "none" => steps["verify"] = "none",
             to \in VerifierLabels => from \in VerifierLabels,
             from \in EntryLabels => to \in EntryLabels
      PROVE  ClaimInvariant'
  BY <1>2, <1>3, QuietStep
<1> USE DEF rows, client, SessionStatus
<1>4. CASE VerifyEmail(q)
  BY <1>3, <1>4 DEF VerifyEmail, EntryLabels, VerifierLabels
<1>5. CASE RereadSession(q)
  BY <1>3, <1>5 DEF RereadSession, EntryLabels, VerifierLabels
<1>6. CASE SyncSession(q)
  <2>1. session' \in {"failed", "code_sent", "in_progress"} /\ UNCHANGED <<steps, claims>>
    BY <1>6, ReconciledStatusType DEF SyncSession
  <2>2. PICK to \in {"fail_session", "reread"} : Goto(q, "sync", to)
    BY <1>1, <1>6 DEF SyncSession
  <2>3. QED
    BY <1>3, <2>1, <2>2 DEF EntryLabels, CompensationLabels, VerifierLabels
<1>7. CASE Compensate(q)
  <2>1. UNCHANGED <<steps, claims>> /\ (session' = session \/ session' = "failed")
    BY <1>7 DEF Compensate, FailSession, DeactivateUser, DeactivateAuth, PublishFailed
  <2>2. QED
    BY <1>1, <1>3, <1>7, <2>1
    DEF Compensate, FailSession, DeactivateUser, DeactivateAuth, PublishFailed, AfterCompensation,
        EntryLabels, CompensationLabels, VerifierLabels
<1>8. ASSUME NEW from, NEW k \in StepKeys, NEW s \in StepStatus \ {"none"}, NEW to,
             SetVerificationStep(q, from, k, s, to), from \in VerifierLabels, to \in VerifierLabels
      PROVE  ClaimInvariant'
  <2>1. steps'["verify"] = "none" => steps["verify"] = "none"
    BY <1>1, <1>8, WriteStepRows DEF SetVerificationStep, StepKeys
  <2>2. QED
    BY <1>3, <1>8, <2>1 DEF SetVerificationStep, EntryLabels, CompensationLabels, VerifierLabels
<1>9. ASSUME NEW from, NEW k \in StepKeys, FailVerificationStep(q, from, k),
             from \in ClosingLabels
      PROVE  ClaimInvariant'
  <2>1. steps'["verify"] = "none" => steps["verify"] = "none"
    BY <1>1, <1>9, WriteStepRows DEF FailVerificationStep, StepKeys, StepStatus
  <2>2. QED
    BY <1>3, <1>9, <2>1
    DEF FailVerificationStep, EntryLabels, CompensationLabels, VerifierLabels, ClosingLabels
<1>10. CASE VerifyCode(q) \/ ActivateUser(q) \/ PublishCompleted(q)
  BY <1>3, <1>10
  DEF VerifyCode, ActivateUser, PublishCompleted, EntryLabels, CompensationLabels, VerifierLabels
<1>11. CASE \/ SetSession(q, "set_verifying", "verifying_email", "verify_code")
            \/ SetSession(q, "set_activating", "activating_user", "start_activate_step")
  BY <1>3, <1>11 DEF SetSession, EntryLabels, CompensationLabels, VerifierLabels
<1>12. CASE CreateVerificationStep(q, "create_activate", "activate", "pending", "set_verifying")
  <2>1. steps'["verify"] = steps["verify"]
    BY <1>1, <1>12 DEF CreateVerificationStep, InsertStep, TypeOK, StepKeys
  <2>2. QED
    BY <1>3, <1>12, <2>1
    DEF CreateVerificationStep, EntryLabels, CompensationLabels, VerifierLabels
<1>13. CASE RequestFails(q) \/ VerificationFails(q)
  <2>1. \/ Goto(q, pc[q], "idle")
        \/ pc[q] \notin EntryLabels /\ Goto(q, pc[q], "fail_verify_step")
        \/ pc[q] \notin EntryLabels /\ Goto(q, pc[q], "fail_activate_step")
    BY <1>13 DEF RequestFails, VerificationFails, Goto, EntryLabels, CompensationLabels
  <2>2. UNCHANGED <<session, steps, claims>>
    BY <1>13 DEF RequestFails, VerificationFails
  <2>3. QED
    BY <1>3, <2>1, <2>2 DEF EntryLabels, VerifierLabels
<1>14. CASE CreateVerificationStep(q, "create_verify", "verify", "in_progress", "create_activate")
  <2>1. CASE steps["verify"] # "none"
    <3>1. Goto(q, "create_verify", "idle") /\ UNCHANGED <<session, steps, claims>>
      BY <1>14, <2>1 DEF CreateVerificationStep, InsertStep
    <3>2. QED
      BY <1>3, <3>1 DEF EntryLabels, VerifierLabels
  <2>2. CASE steps["verify"] = "none"
    <3>1. steps'["verify"] = "in_progress" /\ UNCHANGED <<session, claims>>
      BY <1>1, <1>14, <2>2 DEF CreateVerificationStep, InsertStep, TypeOK, StepKeys
    <3>2. \A p \in Requests \ {q} : pc'[p] \in EntryLabels
      BY <1>2, <1>14, <2>2 DEF CreateVerificationStep, ClaimInvariant, NoVerifierBeforeStep
    <3>3. \A p \in Requests \ {q} : pc'[p] \notin VerifierLabels
      BY <3>2 DEF EntryLabels, CompensationLabels, VerifierLabels
    <3>4. session' \notin {"completed", "tokens_claimed"} /\ claims' = 0
      BY <2>2, <3>1 DEF ClaimInvariant, NoVerifierBeforeStep
    <3>5. QED
      BY <3>1, <3>3, <3>4
      DEF ClaimInvariant, NoVerifierBeforeStep, SingleVerifier, VerifierBeforeClaim, ClaimedForGood, Verifying
  <2>3. QED
    BY <2>1, <2>2
<1>15. CASE SetSession(q, "set_completed", "completed", "publish_completed")
  <2>1. Verifying(q) /\ pc'[q] = "publish_completed" /\ UNCHANGED <<steps, claims>>
    BY <1>2, <1>15 DEF SetSession, Goto, Verifying, VerifierLabels
  <2>2. claims' = 0
    BY <2>1 DEF ClaimInvariant, VerifierBeforeClaim
  <2>3. steps'["verify"] # "none"
    BY <2>1 DEF ClaimInvariant, NoVerifierBeforeStep, Verifying, VerifierLabels, EntryLabels, CompensationLabels
  <2>4. \A p \in Requests : pc'[p] \notin VerifierLabels
    BY <1>2, <1>15, <2>1 DEF SetSession, ClaimInvariant, SingleVerifier, Verifying, VerifierLabels
  <2>5. QED
    BY <2>2, <2>3, <2>4
    DEF ClaimInvariant, NoVerifierBeforeStep, SingleVerifier, VerifierBeforeClaim, ClaimedForGood, Verifying
<1>16. CASE ServeRequest(q)
  BY <1>5, <1>6, <1>7, <1>8, <1>9, <1>10, <1>11, <1>12, <1>14, <1>15, <1>16
  DEF ServeRequest, StepKeys, InitialSteps, StepStatus, VerifierLabels, ClosingLabels
<1>17. QED
  BY <1>4, <1>13, <1>16

\* ClaimInvariant is inductive.
LEMMA NextClaim == ClaimInvariant /\ TypeOK' /\ [Next]_vars => ClaimInvariant'
<1> SUFFICES ASSUME ClaimInvariant, TypeOK', [Next]_vars PROVE ClaimInvariant'
  OBVIOUS
<1>1. CASE UNCHANGED vars
  BY <1>1, QuietStep DEF vars, rows, client
<1>2. CASE Next
  BY <1>2, StartClaim, ReportClaim, ResultClaim, RequestClaim, QueryClaim, RestartClaim DEF Next
<1>3. QED
  BY <1>1, <1>2

\* The invariant holds in every reachable state.
THEOREM ClaimsAreGuarded == Spec => []ClaimInvariant
BY InitClaim, NextClaim, TypeCorrect, PTL DEF Spec

\* GetRegistrationStatus lets the tokens of a registration be issued at most
\* once, for any number of queries, verification requests, faults and restarts
\* and although a late reconciliation may overwrite the status "tokens_claimed".
THEOREM TokensAreClaimedOnce == Spec => []TokensClaimedOnce
<1>1. ClaimInvariant => TokensClaimedOnce
  BY DEF ClaimInvariant, ClaimedForGood, TokensClaimedOnce
<1>2. QED
  BY <1>1, ClaimsAreGuarded, PTL

\* However many VerifyEmail calls read code_sent, at most one goes on to check
\* the code, activate the user and complete the registration.
THEOREM OneVerifier == Spec => []SingleVerifier
<1>1. ClaimInvariant => SingleVerifier
  BY DEF ClaimInvariant
<1>2. QED
  BY <1>1, ClaimsAreGuarded, PTL
=============================================================================
