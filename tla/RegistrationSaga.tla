-------------------------- MODULE RegistrationSaga --------------------------
(***************************************************************************)
(* One registration session of registration-saga-service: the session row  *)
(* and its step rows in PostgreSQL, the Start request and its dispatch     *)
(* goroutine, the handlers of the user, auth and mail results, VerifyEmail *)
(* with its verification goroutine, and GetRegistrationStatus.             *)
(*                                                                         *)
(* A process makes one external call (SQL statement or transaction, RPC,   *)
(* broker publish) per action: between two calls every other process may   *)
(* run.  pc[p] names the call process p makes next.  user-service,         *)
(* auth-service, mail-service and the broker are modelled from the way the *)
(* saga uses them.                                                         *)
(***************************************************************************)
EXTENDS Naturals

CONSTANTS
    Results,     \* result messages the downstream services may publish
    StepOf,      \* the step each result message reports on
    Requests,    \* concurrent VerifyEmail calls
    Queries,     \* concurrent GetRegistrationStatus calls
    MayReject,   \* the steps whose service may answer with a failure
    Faults,      \* the calls that may fail, see below
    MaxRestarts  \* how often the process is restarted

InitialSteps == {"user", "auth", "mail"}
StepKeys == InitialSteps \cup {"verify", "activate"}

(***************************************************************************)
(* "db": a statement fails and changes nothing.  "rpc", "publish": the     *)
(* same for a gRPC call and for a publish.  "ambiguous": a call takes      *)
(* effect and still returns an error.  "hash": bcrypt rejects a password.  *)
(***************************************************************************)
FaultKinds == {"db", "rpc", "publish", "ambiguous", "hash"}

ASSUME SagaAssumption ==
    /\ StepOf \in [Results -> InitialSteps]
    /\ Results \cap Requests = {}
    /\ Results \cap Queries = {}
    /\ Requests \cap Queries = {}
    /\ MayReject \subseteq InitialSteps
    /\ Faults \subseteq FaultKinds
    /\ MaxRestarts \in Nat

Processes == Results \cup Requests \cup Queries

SessionStatus == {"none", "started", "in_progress", "code_sent",
                  "verifying_email", "activating_user", "completed",
                  "tokens_claimed", "failed"}
StepStatus == {"none", "pending", "in_progress", "completed", "failed"}

VARIABLES
    session,     \* status of the session row, "none" before it is inserted
    steps,       \* status of each step row, "none" before it is inserted
    starter,     \* the call Start or its dispatch goroutine makes next
    pc,          \* the call each other process makes next
    outcome,     \* what each result message says, "none" if not published
    commands,    \* commands delivered to user-service and auth-service
    profile,     \* user-service's profile
    credential,  \* auth-service's credential
    events,      \* registration events on the saga's topics
    notified,    \* codeSentNotified holds the session
    claims,      \* GetRegistrationStatus answers that let tokens be issued
    restarts     \* restarts so far

rows == <<session, steps>>
accounts == <<profile, credential>>
inbox == <<outcome, commands>>
client == <<notified, claims>>
vars == <<rows, starter, pc, inbox, accounts, events, client, restarts>>

-----------------------------------------------------------------------------
(* The program counters.                                                   *)

StarterLabels == {"idle", "create_user", "create_auth", "create_mail", "hash",
                  "mark_session", "mark_user", "mark_auth", "publish_user",
                  "publish_auth", "fail_user", "fail_auth", "fail_session",
                  "done"}

\* compensateRegistrationFailure, reached from a result or from a reconciliation
CompensationLabels == {"fail_session", "deactivate_user", "deactivate_auth",
                       "publish_failed"}

ResultLabels == {"idle", "queued", "update_step", "start_mail_step",
                 "publish_code_sent", "sync", "notify", "done", "lost"}
                \cup CompensationLabels

\* VerifyEmail's calls up to the insertion of the verification step
EntryLabels == {"idle", "sync", "reread", "create_verify"} \cup CompensationLabels
\* its calls from there to the write of "completed", which is the only one
\* that can make the registration's tokens claimable
VerifierLabels == {"create_activate", "set_verifying", "verify_code",
                   "complete_verify_step", "set_activating",
                   "start_activate_step", "activate_user",
                   "complete_activate_step", "set_completed"}
\* the calls after that write, and those of a verification that failed
ClosingLabels == {"publish_completed", "fail_verify_step", "fail_activate_step",
                  "abandon_session", "abandon_user", "abandon_auth",
                  "publish_abandoned"}
RequestLabels == EntryLabels \cup VerifierLabels \cup ClosingLabels

QueryLabels == {"idle", "claim"}

PcTypeOK ==
    /\ pc \in [Processes -> ResultLabels \cup RequestLabels \cup QueryLabels]
    /\ \A r \in Results : pc[r] \in ResultLabels
    /\ \A q \in Requests : pc[q] \in RequestLabels
    /\ \A g \in Queries : pc[g] \in QueryLabels

TypeOK ==
    /\ session \in SessionStatus
    /\ steps \in [StepKeys -> StepStatus]
    /\ starter \in StarterLabels
    /\ PcTypeOK
    /\ outcome \in [Results -> {"none", "success", "failed"}]
    /\ commands \subseteq {"user", "auth"}
    /\ profile \in {"absent", "pending", "active", "inactive"}
    /\ credential \in {"absent", "pending", "verified", "inactive"}
    /\ events \subseteq {"code_sent", "completed", "failed"}
    /\ notified \in BOOLEAN
    /\ claims \in Nat
    /\ restarts \in 0..MaxRestarts

Init ==
    /\ session = "none"
    /\ steps = [k \in StepKeys |-> "none"]
    /\ starter = "idle"
    /\ pc = [p \in Processes |-> "idle"]
    /\ outcome = [r \in Results |-> "none"]
    /\ commands = {}
    /\ profile = "absent"
    /\ credential = "absent"
    /\ events = {}
    /\ notified = FALSE
    /\ claims = 0
    /\ restarts = 0

Goto(p, from, to) == pc[p] = from /\ pc' = [pc EXCEPT ![p] = to]

-----------------------------------------------------------------------------
(* The rows in PostgreSQL.                                                 *)

\* mutation: without the condition in the UPDATE's WHERE clause
NextStepStatusUnguarded(old, new) == IF old = "none" THEN old ELSE new

\* the UPDATE of a step row: no row, no effect; a completed step is never
\* put back in progress, every other change is made
NextStepStatus(old, new) ==
    IF old = "none" \/ (old = "completed" /\ new = "in_progress") THEN old ELSE new

WriteStep(k, s) == steps' = [steps EXCEPT ![k] = NextStepStatus(@, s)]

\* mutation: an upsert in place of the insert
UpsertStep(k, s) == steps' = [steps EXCEPT ![k] = s]

\* the INSERT of a step row fails on the primary key when the row exists
InsertStep(k, s) == steps[k] = "none" /\ steps' = [steps EXCEPT ![k] = s]

\* mutation: failed steps are not looked at
ReconciledStatusWithoutFailed(st) ==
    IF \A k \in StepKeys : st[k] \in {"none", "completed"} THEN "code_sent"
    ELSE "in_progress"

\* the status ReconcileStatus derives from the step rows it finds
ReconciledStatus(st) ==
    IF \E k \in StepKeys : st[k] = "failed" THEN "failed"
    ELSE IF \A k \in StepKeys : st[k] \in {"none", "completed"} THEN "code_sent"
    ELSE "in_progress"

-----------------------------------------------------------------------------
(* Start and dispatchStartCommands.                                        *)

\* the INSERT of the session row, after the conflict checks found nothing
StartSession ==
    /\ starter = "idle"
    /\ session' = "started"
    /\ starter' = "create_user"
    /\ UNCHANGED <<steps, pc, inbox, accounts, events, client, restarts>>

CreateStartStep(from, k, to) ==
    /\ starter = from
    /\ InsertStep(k, "pending")
    /\ starter' = to
    /\ UNCHANGED <<session, pc, inbox, accounts, events, client, restarts>>

\* the password is hashed only after the rows are written
HashPassword ==
    /\ starter = "hash"
    /\ starter' = "mark_session"
    /\ UNCHANGED <<rows, pc, inbox, accounts, events, client, restarts>>

MarkSessionInProgress ==
    /\ starter = "mark_session"
    /\ session' = "in_progress"
    /\ starter' = "mark_user"
    /\ UNCHANGED <<steps, pc, inbox, accounts, events, client, restarts>>

MarkStepInProgress(from, k, to) ==
    /\ starter = from
    /\ WriteStep(k, "in_progress")
    /\ starter' = to
    /\ UNCHANGED <<session, pc, inbox, accounts, events, client, restarts>>

\* a failed publish sends the goroutine to failStartStep; the broker may
\* have stored the command although the writer reports an error
PublishCommand(from, k, to, failing) ==
    /\ starter = from
    /\ \/ commands' = commands \cup {k} /\ starter' = to
       \/ "publish" \in Faults /\ UNCHANGED commands /\ starter' = failing
       \/ "ambiguous" \in Faults /\ commands' = commands \cup {k} /\ starter' = failing
    /\ UNCHANGED <<rows, pc, outcome, accounts, events, client, restarts>>

\* failStartStep ignores the errors of both its statements
FailStartStep(from, k) ==
    /\ starter = from
    /\ \/ WriteStep(k, "failed")
       \/ "db" \in Faults /\ UNCHANGED steps
    /\ starter' = "fail_session"
    /\ UNCHANGED <<session, pc, inbox, accounts, events, client, restarts>>

FailStartSession ==
    /\ starter = "fail_session"
    /\ \/ session' = "failed"
       \/ "db" \in Faults /\ UNCHANGED session
    /\ starter' = "done"
    /\ UNCHANGED <<steps, pc, inbox, accounts, events, client, restarts>>

\* every other error ends Start or the goroutine where it stands
StartStops ==
    /\ \/ "hash" \in Faults /\ starter = "hash"
       \/ /\ "db" \in Faults
          /\ starter \in {"create_user", "create_auth", "create_mail",
                          "mark_session", "mark_user", "mark_auth"}
       \/ /\ "ambiguous" \in Faults
          /\ starter \in {"create_user", "create_auth", "create_mail", "hash",
                          "mark_user", "mark_auth", "publish_user"}
    /\ starter' = "done"
    /\ UNCHANGED <<rows, pc, inbox, accounts, events, client, restarts>>

RunStart ==
    \/ CreateStartStep("create_user", "user", "create_auth")
    \/ CreateStartStep("create_auth", "auth", "create_mail")
    \/ CreateStartStep("create_mail", "mail", "hash")
    \/ HashPassword
    \/ MarkSessionInProgress
    \/ MarkStepInProgress("mark_user", "user", "mark_auth")
    \/ MarkStepInProgress("mark_auth", "auth", "publish_user")
    \/ PublishCommand("publish_user", "user", "publish_auth", "fail_user")
    \/ PublishCommand("publish_auth", "auth", "done", "fail_auth")
    \/ FailStartStep("fail_user", "user")
    \/ FailStartStep("fail_auth", "auth")
    \/ FailStartSession

-----------------------------------------------------------------------------
(* The downstream services.                                                *)

\* user-service and auth-service answer their command; mail-service sends
\* the code auth-service generated, so it reports after auth-service did
Answerable(k) ==
    IF k = "mail"
      THEN \E a \in Results : StepOf[a] = "auth" /\ outcome[a] = "success"
      ELSE k \in commands

DownstreamReports(r, o) ==
    /\ pc[r] = "idle" /\ outcome[r] = "none"
    /\ Answerable(StepOf[r])
    /\ o = "failed" => StepOf[r] \in MayReject
    /\ outcome' = [outcome EXCEPT ![r] = o]
    /\ pc' = [pc EXCEPT ![r] = "queued"]
    /\ profile' = IF StepOf[r] = "user" /\ o = "success" /\ profile = "absent"
                    THEN "pending" ELSE profile
    /\ credential' = IF StepOf[r] = "auth" /\ o = "success" /\ credential = "absent"
                       THEN "pending" ELSE credential
    /\ UNCHANGED <<rows, starter, commands, events, client, restarts>>

-----------------------------------------------------------------------------
(* The result handlers.                                                    *)

\* the consumer claims the event before it runs the handler
ClaimResult(r) ==
    /\ Goto(r, "queued", "update_step")
    /\ UNCHANGED <<rows, starter, inbox, accounts, events, client, restarts>>

AfterUpdateStep(r) ==
    CASE outcome[r] = "failed" -> "fail_session"
      [] outcome[r] # "failed" /\ StepOf[r] = "user" -> "sync"
      [] outcome[r] # "failed" /\ StepOf[r] = "auth" -> "start_mail_step"
      [] outcome[r] # "failed" /\ StepOf[r] = "mail" -> "publish_code_sent"

UpdateResultStep(r) ==
    /\ Goto(r, "update_step", AfterUpdateStep(r))
    /\ WriteStep(StepOf[r], IF outcome[r] = "success" THEN "completed" ELSE "failed")
    /\ UNCHANGED <<session, starter, inbox, accounts, events, client, restarts>>

StartMailStep(r) ==
    /\ Goto(r, "start_mail_step", "sync")
    /\ WriteStep("mail", "in_progress")
    /\ UNCHANGED <<session, starter, inbox, accounts, events, client, restarts>>

\* mutation: the mail handler leaves the reconciliation to the others
PublishCodeSentOnly(r) ==
    /\ Goto(r, "publish_code_sent", "notify")
    /\ events' = events \cup {"code_sent"}
    /\ UNCHANGED <<rows, starter, inbox, accounts, client, restarts>>

\* published whatever the session's status is
PublishCodeSent(r) ==
    /\ Goto(r, "publish_code_sent", "sync")
    /\ events' = events \cup {"code_sent"}
    /\ UNCHANGED <<rows, starter, inbox, accounts, client, restarts>>

\* mutation: the notice is sent without looking at the session
NotifyCodeSentAlways(r) ==
    /\ Goto(r, "notify", "done")
    /\ notified' = TRUE
    /\ UNCHANGED <<rows, starter, inbox, accounts, events, claims, restarts>>

\* publishCodeSentIfReady: at most one notification per process lifetime
NotifyCodeSent(r) ==
    /\ Goto(r, "notify", "done")
    /\ notified' = (notified \/ session = "code_sent")
    /\ UNCHANGED <<rows, starter, inbox, accounts, events, claims, restarts>>

\* the handler returns an error: the claim is released and the message is
\* retried, or the release fails or the attempts are used up; a claim that took
\* effect and reported an error is an error before the first statement
HandlerFails(r) ==
    /\ \/ /\ "db" \in Faults
          /\ pc[r] \in {"update_step", "start_mail_step", "sync", "fail_session", "notify"}
       \/ "publish" \in Faults /\ pc[r] = "publish_code_sent"
       \/ /\ "ambiguous" \in Faults
          /\ pc[r] \in {"update_step", "start_mail_step", "publish_code_sent", "sync",
                        "fail_session", "deactivate_user", "notify"}
    /\ \E fate \in {"queued", "lost"} : pc' = [pc EXCEPT ![r] = fate]
    /\ UNCHANGED <<rows, starter, inbox, accounts, events, client, restarts>>

-----------------------------------------------------------------------------
(* Reconciliation and compensation, in a result handler or in VerifyEmail. *)

\* mutation: a reconciliation that finds a failure does not compensate
SyncSessionOnly(p) ==
    /\ session' = ReconciledStatus(steps)
    /\ Goto(p, "sync", IF p \in Results THEN "notify" ELSE "reread")
    /\ UNCHANGED <<steps, starter, inbox, accounts, events, client, restarts>>

\* ReconcileStatus overwrites the session's status whatever it was
SyncSession(p) ==
    /\ session' = ReconciledStatus(steps)
    /\ Goto(p, "sync", IF session' = "failed" THEN "fail_session"
                       ELSE IF p \in Results THEN "notify" ELSE "reread")
    /\ UNCHANGED <<steps, starter, inbox, accounts, events, client, restarts>>

\* the write of compensateRegistrationFailure, whose error is returned, and
\* that of failEmailVerification, whose error is ignored
FailSession(p) ==
    /\ \/ Goto(p, "fail_session", "deactivate_user") /\ session' = "failed"
       \/ Goto(p, "abandon_session", "abandon_user") /\ session' = "failed"
       \/ /\ "db" \in Faults
          /\ Goto(p, "abandon_session", "abandon_user")
          /\ UNCHANGED session
    /\ UNCHANGED <<steps, starter, inbox, accounts, events, client, restarts>>

\* a failed deactivation is logged and never retried
DeactivateUser(p) ==
    /\ \/ Goto(p, "deactivate_user", "deactivate_auth")
       \/ Goto(p, "abandon_user", "abandon_auth")
    /\ \/ profile' = IF profile = "absent" THEN "absent" ELSE "inactive"
       \/ "rpc" \in Faults /\ UNCHANGED profile
    /\ UNCHANGED <<rows, starter, inbox, credential, events, client, restarts>>

DeactivateAuth(p) ==
    /\ \/ Goto(p, "deactivate_auth", "publish_failed")
       \/ Goto(p, "abandon_auth", "publish_abandoned")
    /\ \/ credential' = IF credential = "absent" THEN "absent" ELSE "inactive"
       \/ "rpc" \in Faults /\ UNCHANGED credential
    /\ UNCHANGED <<rows, starter, inbox, profile, events, client, restarts>>

\* compensateRegistrationFailure returns nil: a handler that came here from
\* a reconciliation goes on to publishCodeSentIfReady, VerifyEmail rereads
AfterCompensation(p) ==
    IF p \notin Results THEN "reread"
    ELSE IF outcome[p] = "success" THEN "notify" ELSE "done"

PublishFailed(p) ==
    /\ \/ Goto(p, "publish_failed", AfterCompensation(p))
       \/ Goto(p, "publish_abandoned", "idle")
    /\ \/ events' = events \cup {"failed"}
       \/ "publish" \in Faults /\ UNCHANGED events
    /\ UNCHANGED <<rows, starter, inbox, accounts, client, restarts>>

Compensate(p) == FailSession(p) \/ DeactivateUser(p) \/ DeactivateAuth(p) \/ PublishFailed(p)

HandleResult(r) ==
    \/ ClaimResult(r) \/ UpdateResultStep(r) \/ StartMailStep(r)
    \/ PublishCodeSent(r) \/ SyncSession(r) \/ NotifyCodeSent(r)
    \/ Compensate(r)

-----------------------------------------------------------------------------
(* VerifyEmail and completeEmailVerification.                              *)

\* VerifyEmail reads the session: a status it does not accept is answered
\* at once and changes nothing
VerifyEmail(q) ==
    /\ \/ session = "code_sent" /\ Goto(q, "idle", "create_verify")
       \/ session = "in_progress" /\ Goto(q, "idle", "sync")
    /\ UNCHANGED <<rows, starter, inbox, accounts, events, client, restarts>>

\* mutation: the status read again is not checked
RereadSessionUnchecked(q) ==
    /\ Goto(q, "reread", "create_verify")
    /\ UNCHANGED <<rows, starter, inbox, accounts, events, client, restarts>>

RereadSession(q) ==
    /\ Goto(q, "reread", IF session = "code_sent" THEN "create_verify" ELSE "idle")
    /\ UNCHANGED <<rows, starter, inbox, accounts, events, client, restarts>>

\* the row's primary key turns away every VerifyEmail but the first
CreateVerificationStep(q, from, k, s, to) ==
    /\ \/ InsertStep(k, s) /\ Goto(q, from, to)
       \/ steps[k] # "none" /\ Goto(q, from, "idle") /\ UNCHANGED steps
    /\ UNCHANGED <<session, starter, inbox, accounts, events, client, restarts>>

SetSession(q, from, s, to) ==
    /\ Goto(q, from, to)
    /\ session' = s
    /\ UNCHANGED <<steps, starter, inbox, accounts, events, client, restarts>>

SetVerificationStep(q, from, k, s, to) ==
    /\ Goto(q, from, to)
    /\ WriteStep(k, s)
    /\ UNCHANGED <<session, starter, inbox, accounts, events, client, restarts>>

\* mutation: the answer of auth-service is not looked at
VerifyCodeUnchecked(q) ==
    /\ Goto(q, "verify_code", "complete_verify_step")
    /\ credential' \in {credential, "verified"}
    /\ UNCHANGED <<rows, starter, inbox, profile, events, client, restarts>>

\* mutation: the goroutine returns on a wrong code and records nothing
VerifyCodeUnrecorded(q) ==
    /\ \/ /\ credential = "pending"
          /\ Goto(q, "verify_code", "complete_verify_step")
          /\ credential' = "verified"
       \/ Goto(q, "verify_code", "idle") /\ UNCHANGED credential
    /\ UNCHANGED <<rows, starter, inbox, profile, events, client, restarts>>

\* a wrong code, or a credential that is not pending, is an error
VerifyCode(q) ==
    /\ \/ /\ credential = "pending"
          /\ Goto(q, "verify_code", "complete_verify_step")
          /\ credential' = "verified"
       \/ Goto(q, "verify_code", "fail_verify_step") /\ UNCHANGED credential
    /\ UNCHANGED <<rows, starter, inbox, profile, events, client, restarts>>

\* mutation: the answer of user-service is not looked at
ActivateUserUnchecked(q) ==
    /\ Goto(q, "activate_user", "complete_activate_step")
    /\ \/ profile' = "active"
       \/ "rpc" \in Faults /\ UNCHANGED profile
    /\ UNCHANGED <<rows, starter, inbox, credential, events, client, restarts>>

ActivateUser(q) ==
    /\ \/ /\ profile # "absent"
          /\ Goto(q, "activate_user", "complete_activate_step")
          /\ profile' = "active"
       \/ /\ profile = "absent" \/ "rpc" \in Faults
          /\ Goto(q, "activate_user", "fail_activate_step")
          /\ UNCHANGED profile
    /\ UNCHANGED <<rows, starter, inbox, credential, events, client, restarts>>

PublishCompleted(q) ==
    /\ Goto(q, "publish_completed", "idle")
    /\ \/ events' = events \cup {"completed"}
       \/ "publish" \in Faults /\ UNCHANGED events
    /\ UNCHANGED <<rows, starter, inbox, accounts, client, restarts>>

\* failEmailVerification ignores the error of its step update
FailVerificationStep(q, from, k) ==
    /\ Goto(q, from, "abandon_session")
    /\ \/ WriteStep(k, "failed")
       \/ "db" \in Faults /\ UNCHANGED steps
    /\ UNCHANGED <<session, starter, inbox, accounts, events, client, restarts>>

\* an error before the goroutine is started is returned to the caller
RequestFails(q) ==
    /\ \/ /\ "db" \in Faults
          /\ pc[q] \in {"sync", "fail_session", "reread", "create_verify",
                        "create_activate", "set_verifying"}
       \/ /\ "ambiguous" \in Faults
          /\ pc[q] \in {"fail_session", "deactivate_user", "reread",
                        "create_activate", "set_verifying", "verify_code"}
    /\ pc' = [pc EXCEPT ![q] = "idle"]
    /\ UNCHANGED <<rows, starter, inbox, accounts, events, client, restarts>>

\* an error in the goroutine leads to failEmailVerification
VerificationFails(q) ==
    /\ \/ /\ \/ "db" \in Faults /\ pc[q] = "complete_verify_step"
             \/ "ambiguous" \in Faults /\ pc[q] \in {"complete_verify_step", "set_activating"}
          /\ pc' = [pc EXCEPT ![q] = "fail_verify_step"]
       \/ /\ \/ /\ "db" \in Faults
                /\ pc[q] \in {"set_activating", "start_activate_step",
                              "complete_activate_step", "set_completed"}
             \/ /\ "ambiguous" \in Faults
                /\ pc[q] \in {"start_activate_step", "activate_user",
                              "complete_activate_step", "set_completed",
                              "publish_completed"}
          /\ pc' = [pc EXCEPT ![q] = "fail_activate_step"]
    /\ UNCHANGED <<rows, starter, inbox, accounts, events, client, restarts>>

ServeRequest(q) ==
    \/ SyncSession(q) \/ RereadSession(q) \/ Compensate(q)
    \/ CreateVerificationStep(q, "create_verify", "verify", "in_progress", "create_activate")
    \/ CreateVerificationStep(q, "create_activate", "activate", "pending", "set_verifying")
    \/ SetSession(q, "set_verifying", "verifying_email", "verify_code")
    \/ VerifyCode(q)
    \/ SetVerificationStep(q, "complete_verify_step", "verify", "completed", "set_activating")
    \/ SetSession(q, "set_activating", "activating_user", "start_activate_step")
    \/ SetVerificationStep(q, "start_activate_step", "activate", "in_progress", "activate_user")
    \/ ActivateUser(q)
    \/ SetVerificationStep(q, "complete_activate_step", "activate", "completed", "set_completed")
    \/ SetSession(q, "set_completed", "completed", "publish_completed")
    \/ PublishCompleted(q)
    \/ FailVerificationStep(q, "fail_verify_step", "verify")
    \/ FailVerificationStep(q, "fail_activate_step", "activate")

-----------------------------------------------------------------------------
(* GetRegistrationStatus.                                                  *)

\* every status but "completed" is answered as read
GetRegistrationStatus(g) ==
    /\ session = "completed"
    /\ Goto(g, "idle", "claim")
    /\ UNCHANGED <<rows, starter, inbox, accounts, events, client, restarts>>

\* mutation: without the condition in the UPDATE's WHERE clause
ClaimUnconditionally(g) ==
    /\ Goto(g, "claim", "idle")
    /\ session' = "tokens_claimed" /\ claims' = claims + 1
    /\ UNCHANGED <<steps, starter, inbox, accounts, events, notified, restarts>>

\* the conditional UPDATE; the answer "completed" lets the caller issue tokens
ClaimCompleted(g) ==
    /\ Goto(g, "claim", "idle")
    /\ IF session = "completed"
         THEN session' = "tokens_claimed" /\ claims' = claims + 1
         ELSE UNCHANGED <<session, claims>>
    /\ UNCHANGED <<steps, starter, inbox, accounts, events, notified, restarts>>

\* the statement fails, or is committed and the answer lost
ClaimFails(g) ==
    /\ Goto(g, "claim", "idle")
    /\ \/ "db" \in Faults /\ UNCHANGED session
       \/ "ambiguous" \in Faults /\ session = "completed" /\ session' = "tokens_claimed"
    /\ UNCHANGED <<steps, starter, inbox, accounts, events, client, restarts>>

-----------------------------------------------------------------------------
\* A restart ends every goroutine.  A result whose handler was running is
\* delivered again, but its claim is committed and the message is skipped.
Restart ==
    /\ restarts < MaxRestarts
    /\ restarts' = restarts + 1
    /\ starter' = IF starter = "idle" THEN "idle" ELSE "done"
    /\ pc' = [p \in Processes |->
                IF p \notin Results THEN "idle"
                ELSE IF pc[p] \in {"idle", "queued", "done"} THEN pc[p] ELSE "lost"]
    /\ notified' = FALSE
    /\ UNCHANGED <<rows, inbox, accounts, events, claims>>

Next ==
    \/ StartSession
    \/ RunStart
    \/ StartStops
    \/ \E r \in Results, o \in {"success", "failed"} : DownstreamReports(r, o)
    \/ \E r \in Results : HandleResult(r) \/ HandlerFails(r)
    \/ \E q \in Requests : VerifyEmail(q) \/ ServeRequest(q)
                           \/ RequestFails(q) \/ VerificationFails(q)
    \/ \E g \in Queries : GetRegistrationStatus(g) \/ ClaimCompleted(g) \/ ClaimFails(g)
    \/ Restart

Spec == Init /\ [][Next]_vars

\* The scheduler runs every goroutine that can run, the broker delivers what
\* it holds, and each downstream service answers the command it received.
\* No client is obliged to call.
Fairness ==
    /\ WF_vars(RunStart)
    /\ \A r \in Results :
          /\ WF_vars(\E o \in {"success", "failed"} : DownstreamReports(r, o))
          /\ WF_vars(HandleResult(r))
    /\ \A q \in Requests : WF_vars(ServeRequest(q))

FairSpec == Spec /\ Fairness
=============================================================================
