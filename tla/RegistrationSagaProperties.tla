--------------------- MODULE RegistrationSagaProperties ---------------------
(***************************************************************************)
(* What a registration must do and must never do, whatever the order of    *)
(* the results, requests, failures and restarts.                           *)
(***************************************************************************)
EXTENDS RegistrationSaga

\* a success was reported for the step, and for every initial step
Succeeded(k) == \E r \in Results : StepOf[r] = k /\ outcome[r] = "success"
AllSucceeded == \A k \in InitialSteps : Succeeded(k)

Verifying(q) == pc[q] \in VerifierLabels

-----------------------------------------------------------------------------
(* Safety. *)

\* Tokens are issued at most once for a registration, however many status
\* queries race: ClaimCompleted is a compare-and-set, but ReconcileStatus may
\* put a claimed session back to code_sent, and no second verification may
\* then complete it again, also when the write of "completed" took effect and
\* was reported as an error.
TokensClaimedOnce == claims <= 1

\* Two VerifyEmail calls that both read code_sent never both verify the code:
\* one of them loses the insertion of the verification step.
SingleVerifier == \A q1, q2 \in Requests : Verifying(q1) /\ Verifying(q2) => q1 = q2

\* An account becomes usable only when all three services reported success,
\* whatever stale status the session shows: user-service is told to activate
\* a profile and the registration completes only after that.
ActivationFollowsAllResults ==
    profile = "active" \/ session \in {"completed", "tokens_claimed"} => AllSucceeded

\* A client is never told both that the registration completed and that it
\* failed: compensation and verification cannot both run to their end.
OutcomesExclusive == ~({"completed", "failed"} \subseteq events)

\* A registration whose tokens can be or were claimed has an active profile
\* and a verified credential: no compensation strikes a completed account.
CompletedIsBacked ==
    session \in {"completed", "tokens_claimed"} =>
        profile = "active" /\ credential = "verified" /\ steps["activate"] = "completed"

\* Whatever the order in which the three handlers interleaved, once all have
\* run and verification has not begun the session accepts a code: the handler
\* that reconciles last sees all three steps completed.
ReconcileConverges ==
    AllSucceeded /\ (\A r \in Results : pc[r] = "done") /\ steps["verify"] = "none"
        => session = "code_sent"

\* publishCodeSentIfReady tells the client to enter the code only when the
\* code was sent, even though any of the three handlers may send the notice.
NoticeIsTruthful == notified => AllSucceeded

\* session.go: failed is non-recoverable; a later result or reconciliation
\* never revives the session.
FailedIsFinal == [][session = "failed" => session' = "failed"]_session

\* repository.go: the lock taken by ReconcileStatus keeps a reconciliation
\* from overwriting the status of a verification that has begun since.
NewerStatusIsKept ==
    [][(session \in {"verifying_email", "activating_user", "completed", "tokens_claimed"}
          => session' \notin {"in_progress", "code_sent"})]_session

-----------------------------------------------------------------------------
(* Liveness. *)

\* If every service succeeds the code-sent event is published and the session
\* accepts a code, unless a verification has begun already.
SuccessReachesCodeSent ==
    AllSucceeded ~> /\ "code_sent" \in events
                    /\ session = "code_sent" \/ steps["verify"] # "none"

\* A failure reported for any step undoes what the other service did, also
\* when that service's success is handled later: the profile and the
\* credential do not stay behind, and the client is told.
FailureIsCompensated ==
    (\E r \in Results : outcome[r] = "failed") ~>
        [](session = "failed" /\ "failed" \in events
           /\ profile \in {"absent", "inactive"} /\ credential \in {"absent", "inactive"})

\* A verification that was accepted is answered with one of its two events, and
\* the profile is then what the event says.
VerificationIsAnswered ==
    steps["verify"] # "none" ~> \/ "completed" \in events /\ profile = "active"
                                \/ "failed" \in events /\ profile = "inactive"

-----------------------------------------------------------------------------
(* The registration implements AccountActivation. The session's status has *)
(* no part in the mapping: it can be overwritten, the step rows cannot.    *)

reportedBar == {k \in InitialSteps : Succeeded(k)}

stageBar ==
    IF claims > 0 THEN "claimed"
    ELSE IF steps["verify"] = "failed" \/ steps["activate"] = "failed" THEN "abandoned"
    ELSE IF steps["activate"] = "completed" THEN "activated"
    ELSE IF steps["verify"] # "none" THEN "verifying"
    ELSE "open"

Promise == INSTANCE AccountActivation
             WITH Services <- InitialSteps, reported <- reportedBar, stage <- stageBar

\* Every step of the saga is a step of AccountActivation or leaves it alone,
\* unless a write that took effect is reported as an error.
KeepsPromise == Promise!Spec

-----------------------------------------------------------------------------
(* The inductive invariants behind TokensClaimedOnce and SingleVerifier.   *)

\* before the verification step exists nobody is past its insertion
NoVerifierBeforeStep ==
    steps["verify"] = "none" =>
        /\ \A q \in Requests : pc[q] \in EntryLabels
        /\ session \notin {"completed", "tokens_claimed"}
        /\ claims = 0

\* while a verifier may still write "completed" nobody has claimed
VerifierBeforeClaim ==
    \A q \in Requests : Verifying(q) => session # "completed" /\ claims = 0

\* after a claim the session cannot become claimable again
ClaimedForGood == claims = 0 \/ (claims = 1 /\ session # "completed")

ClaimInvariant ==
    /\ TypeOK
    /\ NoVerifierBeforeStep
    /\ SingleVerifier
    /\ VerifierBeforeClaim
    /\ ClaimedForGood

-----------------------------------------------------------------------------
(* The inductive invariant behind ActivationFollowsAllResults and          *)
(* NoticeIsTruthful: whatever opens the account knows of three successes.  *)

\* a completed initial step records a reported success
CompletedStepsWereReported ==
    \A k \in InitialSteps : steps[k] = "completed" => Succeeded(k)

\* Start inserts the three rows before anything else can look at them, so
\* that no reconciliation takes a missing row for a completed step
RowsStored == \A k \in InitialSteps : steps[k] # "none"
RowsRelied ==
    \/ starter \notin {"idle", "create_user", "create_auth", "create_mail", "done"}
    \/ session \notin {"none", "started"}
    \/ commands # {}
    \/ \E r \in Results : outcome[r] # "none"
    \/ \E p \in Processes : pc[p] # "idle"
RowsComeFirst ==
    /\ starter \in {"create_auth", "create_mail"} => steps["user"] # "none"
    /\ starter = "create_mail" => steps["auth"] # "none"
    /\ RowsRelied => RowsStored

OpenStatus == {"code_sent", "completed", "tokens_claimed"}
OpenLabels == {"create_verify"} \cup VerifierLabels

SuccessInvariant ==
    /\ TypeOK
    /\ CompletedStepsWereReported
    /\ RowsComeFirst
    /\ session \in OpenStatus => AllSucceeded
    /\ \A q \in Requests : pc[q] \in OpenLabels => AllSucceeded
    /\ profile = "active" \/ notified => AllSucceeded

-----------------------------------------------------------------------------
(* The inductive invariant behind OutcomesExclusive, CompletedIsBacked and *)
(* KeepsPromise, when no error hides an effect and each service answers    *)
(* its command once: a registration is either rejected, or concluded by    *)
(* the one verifier, whom no compensation disturbs.                        *)

PlainAnswers ==
    /\ "ambiguous" \notin Faults
    /\ \A r1, r2 \in Results : StepOf[r1] = StepOf[r2] => r1 = r2

\* a service reported a failure, or Start ended without its last command
Rejected ==
    \/ \E r \in Results : outcome[r] = "failed"
    \/ /\ starter \in {"fail_user", "fail_auth", "fail_session", "done"}
       /\ "auth" \notin commands

CommandComesLast ==
    /\ starter # "done" => "auth" \notin commands
    /\ \A r \in Results : StepOf[r] = "auth" /\ outcome[r] # "none" => "auth" \in commands

\* the calls of a compensation and of a verification that failed
TroubleLabels == CompensationLabels \cup (ClosingLabels \ {"publish_completed"})

Troubled ==
    \/ "failed" \in events
    \/ \E p \in Processes : pc[p] \in TroubleLabels

\* only a rejection or a failed verification makes trouble
TroubleHasCause ==
    /\ \A k \in InitialSteps : steps[k] = "failed" => Rejected
    /\ \A r \in Results : pc[r] # "idle" => outcome[r] # "none"
    /\ Troubled => Rejected \/ steps["verify"] # "none"
    /\ steps["verify"] = "none" => steps["activate"] = "none" /\ "completed" \notin events

Concluding ==
    \/ \E q \in Requests : pc[q] \in VerifierLabels \cup {"publish_completed"}
    \/ "completed" \in events
    \/ session \in {"completed", "tokens_claimed"}

ConcludedInPeace ==
    Concluding => /\ AllSucceeded /\ ~Troubled
                  /\ steps["verify"] # "failed" /\ steps["activate"] # "failed"

\* a verifier has not concluded
VerifierBeforeConclusion ==
    \A q \in Requests : Verifying(q) =>
        /\ "completed" \notin events /\ session \notin {"completed", "tokens_claimed"}
        /\ \A p \in Requests : pc[p] # "publish_completed"

\* what the verifier has achieved by the time it reaches a call
Verified == {"complete_verify_step", "set_activating", "start_activate_step", "activate_user"}
Activated == {"complete_activate_step", "set_completed", "publish_completed"}
Backing ==
    \A q \in Requests :
        /\ pc[q] \in Verified \cup Activated => credential = "verified"
        /\ pc[q] \in Activated => profile = "active"
        /\ pc[q] \in Verified \cup Activated \cup {"set_verifying", "verify_code"} =>
              steps["activate"] # "none"
        /\ pc[q] \in {"set_completed", "publish_completed"} => steps["activate"] = "completed"

OutcomeInvariant ==
    /\ ClaimInvariant /\ SuccessInvariant
    /\ CommandComesLast /\ TroubleHasCause
    /\ ConcludedInPeace /\ VerifierBeforeConclusion
    /\ Backing /\ CompletedIsBacked

-----------------------------------------------------------------------------
(* The inductive invariant behind ReconcileConverges, for the same answers *)
(* and errors: the steps of the successes handled are completed for good,  *)
(* so that whoever reconciles last finds all of them.                      *)

\* user-service answers the command that Start published for it
UserCommandFirst ==
    /\ starter \in {"idle", "create_user", "create_auth", "create_mail", "hash", "mark_session",
                    "mark_user", "mark_auth", "publish_user", "fail_user"} => "user" \notin commands
    /\ \A r \in Results : StepOf[r] = "user" /\ outcome[r] # "none" => "user" \in commands

HandledIsCompleted ==
    \A r \in Results : outcome[r] = "success" =>
        pc[r] \in {"queued", "update_step", "lost"} \/ steps[StepOf[r]] = "completed"

SomeoneReconciles ==
    AllSucceeded /\ steps["verify"] = "none" =>
        session = "code_sent" \/ \E r \in Results : pc[r] \notin {"notify", "done"}

ReconcileInvariant ==
    OutcomeInvariant /\ UserCommandFirst /\ HandledIsCompleted /\ SomeoneReconciles

-----------------------------------------------------------------------------
(* The inductive invariant behind FailedIsFinal, for which three things     *)
(* are needed: plain answers, statements that do not fail, since those of   *)
(* failStartStep and failEmailVerification are not repeated, and no failure *)
(* of mail-service, over which the auth handler may write "in_progress".    *)

FirmFailures == PlainAnswers /\ "db" \notin Faults /\ "mail" \notin MayReject

\* Start begins with nothing stored, and a code is only checked after success
StagesInOrder ==
    /\ starter = "idle" => session = "none" /\ \A k \in StepKeys : steps[k] = "none"
    /\ steps["verify"] # "none" => AllSucceeded
    /\ \A q \in Requests : pc[q] = "fail_activate_step" => steps["activate"] # "none"

\* a failed initial step is one whose service failed or never got its command
FailuresHaveReasons ==
    /\ \A r \in Results : outcome[r] = "failed" => StepOf[r] \in MayReject
    /\ \A k \in InitialSteps : steps[k] = "failed" =>
          \/ \E r \in Results : StepOf[r] = k /\ outcome[r] = "failed"
          \/ k \in {"user", "auth"} \ commands /\ starter \in {"fail_session", "done"}

SomeStepFailed == \E k \in StepKeys : steps[k] = "failed"

\* nobody writes "failed" to the session before a step row says so
FailureIsRecorded ==
    session = "failed" \/ starter = "fail_session"
       \/ (\E p \in Processes : pc[p] \in {"fail_session", "abandon_session"})
     => SomeStepFailed

FinalInvariant ==
    ReconcileInvariant /\ StagesInOrder /\ FailuresHaveReasons /\ FailureIsRecorded

-----------------------------------------------------------------------------
(* Where a registration comes to rest when nothing but bcrypt fails and     *)
(* nothing is restarted: the part of the liveness properties above that     *)
(* does not need fairness.                                                  *)

UndisturbedSaga == FirmFailures /\ Faults \subseteq {"hash"} /\ MaxRestarts = 0

\* no result is queued or being handled and no VerifyEmail is at work
Quiet ==
    /\ \A r \in Results : pc[r] \in {"idle", "done"}
    /\ \A q \in Requests : pc[q] = "idle"

ReportedFailure == \E r \in Results : outcome[r] = "failed"

CleanedUp ==
    /\ session = "failed" /\ "failed" \in events
    /\ profile \in {"absent", "inactive"} /\ credential \in {"absent", "inactive"}

Opened == "completed" \in events /\ profile = "active" /\ credential = "verified"

\* At rest a registration is settled, whatever the order of the handlers,
\* compensations and requests: a reported failure has been undone as a whole,
\* three successes have been announced, and a verification that was accepted
\* has opened the account or has been undone.
QuietIsSettled ==
    Quiet =>
        /\ ReportedFailure => CleanedUp
        /\ AllSucceeded => "code_sent" \in events
                           /\ (session = "code_sent" \/ steps["verify"] # "none")
        /\ steps["verify"] # "none" => Opened \/ CleanedUp

\* The inductive invariant behind it: what is not done yet, somebody will do.
ResultsInHand ==
    \A r \in Results :
        /\ pc[r] # "lost"
        /\ outcome[r] # "none" => pc[r] # "idle"
        /\ outcome[r] = "failed" => pc[r] \notin {"start_mail_step", "publish_code_sent", "sync", "notify"}

FailureIsCarriedOut ==
    \A r \in Results : outcome[r] = "failed" =>
        /\ pc[r] \notin {"queued", "update_step"} => SomeStepFailed
        /\ pc[r] \notin {"queued", "update_step", "fail_session"} => session = "failed"
        /\ pc[r] = "done" => "failed" \in events

\* the calls of a handler that lie before its deactivation of the profile
BeforeDeactivation == {"queued", "update_step", "start_mail_step", "sync", "fail_session", "deactivate_user"}

\* a handler that comes past the deactivation of what k's service created:
\* that of a failure, or that of k's own success
WillUndo(r, k) ==
    /\ outcome[r] = "failed" \/ (outcome[r] = "success" /\ StepOf[r] = k)
    /\ pc[r] \in BeforeDeactivation \cup (IF k = "auth" THEN {"deactivate_auth"} ELSE {})

NothingIsLeft ==
    ReportedFailure =>
        /\ profile = "pending" => \E r \in Results : WillUndo(r, "user")
        /\ credential = "pending" => \E r \in Results : WillUndo(r, "auth")

SuccessIsAnnounced ==
    \A r \in Results : outcome[r] = "success" /\ StepOf[r] = "mail" =>
        pc[r] \in {"queued", "update_step", "publish_code_sent"} \/ "code_sent" \in events

\* what was created before a code is checked, and what is undone step by step
\* when the verification fails
AccountsExist ==
    /\ Succeeded("user") => profile # "absent"
    /\ Succeeded("auth") => credential # "absent"
    /\ credential = "verified" => AllSucceeded

AbandonedInOrder ==
    \A q \in Requests :
        /\ pc[q] \in {"abandon_user", "abandon_auth", "publish_abandoned"} => session = "failed"
        /\ pc[q] \in {"abandon_auth", "publish_abandoned"} => profile = "inactive"
        /\ pc[q] = "publish_abandoned" => credential = "inactive"

VerificationIsCarriedOut ==
    /\ \A q \in Requests : pc[q] = "create_activate" => steps["activate"] = "none"
    /\ steps["verify"] # "none" =>
          Opened \/ CleanedUp \/ \E q \in Requests : pc[q] \in VerifierLabels \cup ClosingLabels
    /\ "completed" \in events => Opened

SettlingInvariant ==
    /\ FinalInvariant
    /\ ResultsInHand /\ FailureIsCarriedOut /\ NothingIsLeft /\ SuccessIsAnnounced
    /\ AccountsExist /\ AbandonedInOrder /\ VerificationIsCarriedOut
=============================================================================
