# TLA+ models of registration-saga-service

The service owns the registration workflow: it stores a session and its steps
in PostgreSQL, sends commands to user-service and auth-service, consumes their
results and mail-service's over Kafka, verifies the e-mailed code and lets the
tokens of a finished registration be claimed once. This directory holds models
of it, the TLC runs that check them and machine-checked proofs of the
properties that matter most.

## Inventory

| part | source | state | operations |
|---|---|---|---|
| application service | `internal/application/*.go` | none of its own but `codeSentNotified`, the set of sessions already notified | `Start` and its dispatch goroutine, the three result handlers, `syncSessionStatus`, `compensateRegistrationFailure`, `VerifyEmail` and its goroutine, `GetRegistrationStatus` |
| repositories | `internal/infra/postgres/repository.go`, migration 000001 | session rows (unique e-mail and username), step rows (primary key session, step) | `Create`, `UpdateStatus`, `ReconcileStatus`, `ClaimCompleted`, lookups |
| event claims | `internal/fx/messaging.go` | rows of `processed_events` | claim before the handler, release after its error |
| Kafka consumer | `event_broker/kafka/broker.go`, `result_subscriber.go` | jobs channel, worker goroutines, the group's offset | fetch, hand over, retry, dead-letter, commit, stop, run again |
| recovery consumer | `event_broker/kafka/recovery_subscriber.go` | the claim and the attempt of each command | validation, `Start` for a recovery command, then a completed event; release, retry, dead letter |
| gRPC server and clients | `internal/presentation/grpc` | the calls in flight | mapping and error translation, the two existence queries of `Start`, the graceful stop |
| NATS transport | `event_broker/nats`, `pkg/messaging/nats` | the durable consumer, the jobs channel, fetcher and workers | fetch with an adaptive plan, hand over, acknowledge, stop; kept for compatibility, wired by no fx module |
| outbox triggers | migration 000002 | `outbox_events` | a copy of every row change |
| wiring, configuration, connection | `internal/fx`, `config`, `pkg/storage`, `cmd` | the process, from serving to its end | start and stop hooks, the validation of the pull consumer's configuration |

How the parts interact. A gRPC `Start` inserts the rows, hashes the password
and leaves the commands to a goroutine. The three results arrive on three
topics, each consumed by eight workers, so the handlers of one session run
concurrently with each other, with the dispatch goroutine, with `VerifyEmail`
calls and with status queries. All of them share only the rows: one statement
at a time for the steps, a transaction with an advisory lock for
`ReconcileStatus`, a conditional UPDATE for `ClaimCompleted`. Nothing is held
across two statements. Several sessions share the unique indexes on e-mail and
username: `Start` asks the two tables and the two services one after the other
before it inserts, so requests and recovery commands for one identity race up to
the insertion. At a stop fx runs the hooks in reverse: the server is drained,
then the consumers' contexts are cancelled, then clients and pool are closed.

What is hard, therefore:

* the order in which handlers update a step and derive the session's status,
  and the status being overwritten by a late derivation;
* `VerifyEmail` acting on a status read earlier, twice at once;
* compensation running in one goroutine while another still advances;
* one statement, RPC or publish of several failing, or taking effect and
  reporting an error;
* a claim of an event committed before its handler ran, and a restart between;
* retried, redelivered and out-of-order committed messages, and a consumer
  that stops;
* calls that compete for an identity between their lookups and the insertion,
  and a retried command that meets what its first attempt left;
* a stop while calls, commands and handlers are under way, and its order;
* a bounded channel between a fetcher and its workers that must neither block
  a stop nor keep messages for good.

`PROJECT.json` lists these at their lines under `hazards`, with the properties
that cover each.

## Modules

| module | content |
|---|---|
| `RegistrationSaga` | one session, all processes that touch it, the downstream services as the saga uses them |
| `RegistrationSagaProperties` | its properties, the inductive invariants, the refinement mapping |
| `AccountActivation` | the abstract promise: open, verifying, activated, claimed or abandoned |
| `ResultHandling` | the abstract promise of the consumption of results to their handlers |
| `RegistrationSagaProofs` | TLAPS proofs about the saga: types, the claim, the one verifier |
| `SagaOutcomeProofs` | extends it: activation, outcomes, the refinement of `AccountActivation` |
| `SagaReconcileProofs` | extends that: the convergence of the handlers |
| `SagaSettlingProofs` | extends that: failed sessions stay failed, and a registration at rest is settled |
| `MCRegistrationSaga` | one result per step, symmetry |
| `ResultConsumer` | one topic of results or recovery commands: fetch loop, workers, claims, retries, dead letters, commits, resumption, and its properties |
| `ResultConsumerProofs` | TLAPS proofs about the consumer, with the refinement of `ResultHandling` |
| `MCResultConsumer` | symmetry |
| `StartAdmission` | several requests and recovery commands in `Start`, the unique indexes, the stages of the process, and its properties |
| `StartAdmissionProofs` | TLAPS proofs about the admission |
| `MCStartAdmission` | two requests and a command, with the forms that compete |
| `PullConsumer` | the JetStream pull consumer: fetcher and adaptive plan, channel, workers, acknowledgements, end, and its properties |
| `PullConsumerProofs` | TLAPS proofs about the pull consumer |
| `MCPullConsumer` | the batch sizes of the tiers |

`RegistrationSaga` and `StartAdmission` divide `Start` between them: the first
has all that happens to one admitted session, the second how a call becomes an
admitted session among others. There the later life of a session is only
`Progress`, which gives the status of a dispatched session any later value. In
the same way `ResultConsumer` has the messages around a handler, and
`RegistrationSaga` and `StartAdmission` have the calls of the handlers of
results and of recovery commands.

Operators that begin with a comment `mutation:` are faulty variants of the
operator that follows them. No specification uses them; they show that the
properties notice such a fault.

### RegistrationSaga

`session` and `steps` are the rows, `"none"` standing for a row not inserted.
`starter` is the next call of `Start` or of its goroutine, `pc[p]` that of every
other process: a result's handler, a `VerifyEmail` request with its goroutine,
a status query. One action is one external call of the code, so everything can
happen between two calls and nothing inside one. `ReconcileStatus` is one
action because its lock and transaction make it one; it writes the derived
status whatever the status was, as the code does. `NextStepStatus` is the WHERE
clause of the step update: a completed step never goes back in progress, any
other change is made.

Failures are chosen by `Faults`: a statement (`db`), an RPC (`rpc`) or a publish
(`publish`) that fails without effect, a call that takes effect and reports an
error (`ambiguous`), a password bcrypt rejects (`hash`). Each error goes where
the code sends it: out of `Start`, to `failStartStep`, back to the consumer,
which retries or gives up (`HandlerFails`), to `failEmailVerification`, or into
a log line. `Restart` ends all goroutines; a result whose handler ran is lost,
because its claim is committed and the redelivered message is skipped.

The environment is as weak as the saga's use of it: user-service and
auth-service answer a command once, with success or, for the steps in
`MayReject`, failure; mail-service reports after auth-service succeeded, since
auth-service generates the code; a profile or credential exists from a
success on; verification succeeds only for a pending credential and may always
fail; activation needs a profile, of whatever state; a deactivation of an
absent account does nothing.

### AccountActivation and its refinement

The session's status cannot be trusted to tell the stage of a registration,
since a late reconciliation may put it back. The step rows can, and the
refinement mapping (`stageBar`) uses only them and the claims. `KeepsPromise`
says that every step of the saga is then a step of the abstract account: it is
opened to a verification only when all three services reported success,
activated only by that verification, claimed once and only when activated.

### ResultHandling

`ResultHandling` is what the consumer promises to handlers: one runs for a
published event only, one run at a time, may run again after its claim was given
back, and never again once it succeeded or once a claim was left in place
without a run. Such a claim comes from a run that was cut off or whose release
failed (`Lose`), or from a claim that was committed and reported an error, so
that the handler was never called (`Miss`).

`ResultConsumer` implements it (`HandlesAsPromised`). An event is mapped to
`handled` when its handler has succeeded, to `running` when a worker holds it, to
`lost` when it is claimed and neither, to `waiting` when it is in the log. Two
runs at once, a run after a success and a second success are mapped to a state
the contract does not have (`Overrun`), so that none of them can pass for a step
that leaves it alone. The topics, offsets, retries, duplicates, resumptions and
cancellations have no part in the mapping: whatever they do is a step of the
contract or leaves it alone. A dead-lettered event just waits for ever there.

The saga's model relies on this promise, and that it does so rightly is a matter
of reading the two side by side, not of a check. Its labels `idle` and `queued`
are before the claim, `done` and `lost` after the last run, all others are
`running`; `ClaimResult` is `Begin`, the last call of a handler `Succeed`,
`HandlerFails` is `GiveBack` or `Lose`, `Restart` loses all running handlers at
once, and a `Miss` is a run lost before its first statement. `lost` in the saga
also stands for results whose attempts are used up.

### ResultConsumer

`log`, `committed`, `retries` and `dead` are the topic, the group's offset and
the two side topics; `loop` and `position` the goroutine of `RunPullConsumer`;
`at` and `item` the workers; `cancelled` is `workerCtx` with the error in
`errs`; `claimed` is `processed_events`. The handler is one action that
succeeds or fails, for good (`permanent`, which only a recovery command's handler
may) or not, its calls being those of the other two modules. A claim or a broker
write may also take effect and report an error (`ambiguous`): such a claim is
followed by a retry that is skipped, such a write ends its worker like one that
failed. A worker whose
broker call fails cancels the others, whose handler, release, retry and commit
then fail too. A retried message is not committed; commits are made in the
order workers finish. The deferred calls run in Go's order: the channel is
closed and the workers awaited before the context is cancelled.

### StartAdmission

`at[c]` is the next call of `c`, a `StartRegistration` request or a recovery
command; `form[c]` is what it submits. One action is one statement, RPC or
publish. The lookups read what other calls may change before the insertion:
`LookupEmail` and `LookupUsername` are the two reads of
`lookupIncompleteConflict`, and `Occupied` is the status test of the mapper,
with `tokens_claimed` counted as occupied, as in the code. `Insertable` is the
primary key and both unique indexes. `CreateStep` inserts one of the three step
rows, `HashPassword` ends in the dispatch goroutine and the answer. An error
becomes an answer (`ToStartError`); what was written before it stays written, in
the model as in the code, which has no transaction around `Start`.

`CheckEmail` and `CheckUsername` are the two queries to auth-service and
user-service. Those own identities of their own, with or without a session
here (`application_test.go:169-183` has a username taken that no session
holds), so each query may be answered either way at any time. A `found_completed`
conflict therefore says what the services said, and only a `found_incomplete`
one says something about the sessions.

A command is claimed before its handler, which refuses it permanently without
its ids, runs `Start`, takes every answer without an error for success and
publishes the completed event. After an error its claim is released, or stays if
the release fails. What the consumer then does with the message is
`ResultConsumer`'s subject: there an event may be delivered again after a retry,
an uncommitted offset, a re-run of the consumer within the process or a new
process, or be buried. Here the command whose event is unclaimed may be handled
again at any time, any number of times, or never, which allows all of these.
A broker error of some worker cancels the context of all handlers of that
consumer (`broker`), so that any statement or release of a command may fail for
it, and likewise while the consumers are being stopped. A claim that stays
because of it, or because it reported an error (`ClaimUnseen`), leaves the
command skipped for good, in the same process or a later one.

`stage` is the process: `StopServer` begins the stop, `CancelConsumers` follows
when no call is in flight, `Exit` is the last hooks or, at any moment, a crash.

### PullConsumer

`stream` and `deliveries` are what JetStream knows of a message, `expired` the
messages whose AckWait has passed; `fetcher` and `tier` are `runFetcher` with
its plan, `batch` what it fetched and has not handed over, `jobs` the channel,
`at` and `item` the workers. `ResolvePullPlan` is the choice of a tier from the
number of pending messages. `Fetch` may lose what it fetched; an acknowledgement
may be lost or come late; AckWait may pass for a message that is still held.
`Expire` without a fault applies to messages nobody holds any more. A
cancellation may find the fetcher blocked on a full channel (`DropBatch`); the
deferred calls wait for the workers and then close the channel.

## Runs

| run | question | result |
|---|---|---|
| `saga_interleavings` | no faults, each service may fail; three results, two requests, two queries in every order, one restart anywhere | types, one claim of the tokens, the inductive claim invariant with the one verifier, activation only after three successes, completed and failed never both told, a completed registration has its accounts, late handlers converge, the notice is truthful, `AccountActivation` is implemented |
| `saga_faults` | every call may fail without effect | the inductive invariants of the outcome and of the reconciliation hold |
| `saga_ambiguous` | calls that take effect and report errors; one request, two racing queries | one claim; the inductive invariant of the successes, so no account opens before three of them |
| `saga_liveness` | fair processes, user and auth creation may fail | success reaches `code_sent`, failure is compensated for good, verification is answered, failed is final; and in every state without a handler or request at work the registration is settled |
| `saga_status_overwritten` | `NewerStatusIsKept`, from the comment on `ReconcileStatus` | violated |
| `saga_failed_revived` | `FailedIsFinal`, from the comment on `SessionStatusFailed`, when the mail step fails | violated |
| `consumer_faults` | two workers, duplicated events, every call may fail, with or without effect, one resumption | one handler per event at a time, one success per event, as `ResultHandling` promises |
| `consumer_liveness` | handlers may fail every attempt, for good or not | every result is handled or dead-lettered, none slips away before, no failed attempt leaves its claim |
| `consumer_stuck` | `StoppedConsumerRetries`, from the subscriber's log line | violated |
| `admission` | two requests and a command compete in four ways, with services that answer as they like; statements, RPCs, publishes and broker calls fail or report errors; a command is handled again and again; one stop or crash | no identity is admitted twice, a conflict names something and one with an open registration what a session holds, an admission is whole, a refusal leaves nothing, a session is dispatched once, the server is drained first, a stop ends |
| `admission_unapplied` | `RecoveryIsApplied`, from the comment on `RecoverySubscriber` | violated |
| `pull_consumer` | two messages, two workers, a channel of one, two deliveries; lost fetches and acknowledgements, failing and slow handlers, cancellation and restart | acknowledged means handled, one place per delivery, two handlers of a message only after AckWait passed, every message settled, every cancelled consumer stops |

### What the violations show

* `ReconcileStatus` promises that its lock keeps a stale reconciliation from
  overwriting a newer status. The lock serialises reconciliations, but
  `UpdateStatus` does not take it and the derived status is written without
  looking at the present one. A handler that reconciles after verification
  began puts `verifying_email`, or even `completed` or `tokens_claimed`, back to
  `in_progress` or `code_sent`. A client that polls then sees a finished
  registration as unfinished; tokens are nevertheless never issued twice, which
  is what `TokensClaimedOnce` and its proof say.
* `failed` is documented as non-recoverable. The auth handler completes its
  step and then sets the mail step in progress; a mail failure handled between
  the two is overwritten, and the next reconciliation moves the failed and
  compensated session to `in_progress`, where it stays.
* A consumer whose `FetchMessage` fails never returns, because its workers
  keep receiving zero messages from the closed channel. If writing those to the
  retry topic fails too, the workers are cancelled and the consumer does
  recover, so the violation needs a broker that still accepts writes.
* The recovery consumer is documented to apply commands, and publishes
  `migration.recovery.completed` for every answer of `Start` that is not an
  error. A password of more than 72 bytes is refused by bcrypt after the
  session was stored. The retry finds that session, `Start` answers with a
  conflict, and the command is reported as completed. Nobody was ever sent a
  command for it, and its e-mail and username stay taken.

### Bounds

Three results are all there are for a session, one per step. Two requests and
two queries are enough for each race, since every property about them speaks
of at most two; where faults multiply the states there is one of each. The run
with ambiguous errors has two queries, whose race for the tokens is its subject
(4.3 million states), and one request: two of each with those errors are too
many states. The race of two `VerifyEmail` calls, and of two queries beside it,
is in `saga_interleavings`, and `TokensAreClaimedOnce` proves the property for
any number of both under all faults.
One restart reaches the loss of every result and of every goroutine; a second
would find the goroutines of the first gone and the rows as they are.
The saga has no counters or queues. `restarts` is bounded by `MaxRestarts`.
The consumer has two workers, a channel of capacity one, two attempts, two
events and two or three published messages: enough for a duplicate in the log
next to another event, a full channel, an exhausted retry, two workers with
copies of one event and an out-of-order commit. `produced` and `resumes` are
bounded in guards.
The admission has two requests and one command over two e-mails and two
usernames, in four assignments (`Competing`), in each of which two calls that
can be started share the e-mail or the username: two requests with one e-mail
beside a command that is refused for its ids; two with one username beside a
malformed command; a request and a command with one e-mail beside a malformed
request; and three calls that can all be started, of which one has a password
that is refused late and shares its username with the second and its e-mail with
the command. Every property speaks of at most two calls, and the third keeps the
other two from being alone. One end of the process reaches its loss at every
label, and only commands come back after it; how often a command is handled is
not bounded. The pull consumer has two messages, two workers, a channel of one
and two deliveries: a batch larger than the room in the channel, a tier that
changes under queued messages, two deliveries of one message in two workers, and
an exhausted one. Its restarts are not counted: a restart keeps only JetStream's
state, which is finite. Symmetry is used only in runs without liveness
properties.
The sets of real size (eight workers, a channel of 32) are covered by the
proofs, which have no bounds.

`CHECK_DEADLOCK FALSE` is set throughout: a registration ends, and a consumer
whose topic is empty waits.

### Fairness

Weak fairness of the dispatch goroutine, of each handler and of each accepted
request, as the Go scheduler runs every goroutine that is ready and calls
return; of each downstream service's answer to a delivered command, as the
broker keeps commands and results until they are consumed. Clients are never
obliged to call: there is no fairness on starting a request or a query. For the
consumer: its loop, each worker and the retry queue. Nothing is assumed to fail
fairly, and the liveness runs of the saga contain no faults other than
rejections, since the code retries neither a compensation RPC nor a lost result.
For the admission: each call of `Start` under way and, once a stop has begun,
its hooks. No client has to call, no command has to be delivered, nobody has to
stop the process, and no new start is assumed after an end. For the pull
consumer: the fetcher, the workers and the expiry of AckWait, weakly, and
`Fetch` strongly: a fetch is enabled again and again while messages are ready,
and a connection that fails every single time would settle nothing.

## Proofs

`RegistrationSagaProofs` proves, for any number of results, requests and
queries, any fault kinds and any number of restarts, from `SagaAssumption`:

* `TypeCorrect`: `TypeOK`;
* `ClaimsAreGuarded`: the inductive `ClaimInvariant`, and from it
  `TokensAreClaimedOnce` and `OneVerifier`.

`TokensClaimedOnce` alone is not inductive: a reconciliation can put a claimed
session back, and a verification could complete it again. The argument rests on
the verification step's row. While it does not exist nobody is past its
insertion and nothing is completed or claimed (`NoVerifierBeforeStep`); its
primary key lets one request past (`SingleVerifier`); while that request can
still write `completed` nothing has been claimed (`VerifierBeforeClaim`); and
after the claim nobody can write it (`ClaimedForGood`). There is one lemma per
group of actions.

`ResultConsumerProofs` proves from `ConsumerAssumption`, for any number of
events, workers, attempts, faults and resumptions:

* `ConsumerIsGuarded`: the inductive `ConsumerInvariant`, and from it
  `ResultsAreHandledOnce` and `HandlersExcludeEachOther`.

"At most one success" needs to know that whoever runs a handler holds the claim
(`HandlerHoldsClaim`), alone (`OneHandlerPerEvent`), and that no release can hit
the claim of a finished event (`FinishedStaysClaimed`).

`ClaimsStandForHandling` proves `ClaimsAreLive` under `UndisturbedConsumer` (no
failing statement or broker call, no restart), the case in which the code gives
every claim back: then no context is cancelled and only events are claimed
(`LiveInvariant`).

`ResultsAreNotLost` proves `NothingIsLost` under the same hypothesis, with
handlers and fetches that may fail: every published result is handled,
dead-lettered, or in a place from which the code goes on with it (`InHand`:
unread, handed over, in the channel, with a worker before its commit, in the
retry topic). It is the part of `EveryResultSettled` that needs no fairness. The
delicate step is the commit of a message that found its event claimed: it is
safe only because the claim is live, so that the proof needs `LiveInvariant`
(`SettledInvariant`). TLC refutes the property when statements may fail: a
release that fails leaves a claim on which the retry is committed unhandled.

`HandlingIsKept` proves, without any hypothesis on what fails, that the consumer
implements `ResultHandling`. Beside `ConsumerInvariant` it needs that nothing is
processed or retried that was not published (`OnlyPublishedIsHandled`); the empty
messages of a closed channel are the exception, and no event. That no event is
overrun is what `ConsumerInvariant` gives.

`SagaOutcomeProofs` proves, from `SagaAssumption` alone, so with ambiguous
errors too:

* `SuccessIsRecorded`: the inductive `SuccessInvariant`, and from it
  `ActivationIsEarned` and `NoticesAreTruthful`.

A completed step records a reported success, but a reconciliation also takes a
missing row for a completed one. So the argument needs that the three rows are
stored before anything can reconcile (`RowsComeFirst`); then an open status, a
request past its reading of it, and the notice all rest on three successes.

Under `PlainAnswers` (no error hides an effect, and each service answers its
command once) it proves for the rest of the faults and any number of restarts:

* `OutcomesAreDecided`: the inductive `OutcomeInvariant`, and from it
  `OneOutcome` and `CompletionIsBacked`;
* `PromiseIsKept`: the refinement of `AccountActivation`, each action being a
  step of it or a stutter.

Whoever compensates is caused by a reported failure, by a `Start` that ended
before its last command, or by a failed verification (`TroubleHasCause`). The
first two are final (`RejectedForGood`) and exclude three successes, because
the command to auth-service is the last one sent (`CommandComesLast`). So a
registration in which one verifier concludes sees no trouble
(`ConcludedInPeace`), and what the verifier achieved stays (`Backing`). The
assumption is needed: with ambiguous errors the code does compensate
verifications that completed.

`SagaReconcileProofs` proves under the same assumption `HandlersReconcile` (the
inductive `ReconcileInvariant`) and `ReconciliationConverges`. The step of a
success that was handled stays completed (`HandledIsCompleted`), although
`Start`, a compensation or the auth handler may write to the step later. Hence,
while verification has not begun, some handler has its reconciliation still
ahead of it or the session is at `code_sent` (`SomeoneReconciles`).

`SagaSettlingProofs` has the theorems about failure and rest:

* `FailureIsFinal` proves `FailedIsFinal` under `FirmFailures`: `PlainAnswers`,
  no failing statement, and no failure of mail-service. Each of the last two is
  needed. The run `saga_failed_revived` shows the mail step; with failing
  statements a session is marked failed although the write of its failed step
  was lost, and the next reconciliation revives it. Under the hypothesis, the
  session is written as failed only after a step row says so
  (`FailureIsRecorded`), and such a row never changes again: it belongs to a
  service that failed or never got its command (`FailuresHaveReasons`), so that
  no handler completes it, or to the one verification, which ends with it.
  Every reconciliation then finds the failed row (`FinalInvariant`).
* `QuietRegistrationsAreSettled` proves `QuietIsSettled` under `UndisturbedSaga`
  (`FirmFailures`, nothing failing but bcrypt, no restart): whenever no handler
  and no `VerifyEmail` is at work, a reported failure has been undone as a whole
  (session, event, profile and credential), three successes have been announced,
  and an accepted verification has opened the account or has been undone. This is
  what the three liveness properties of the saga say without their fairness:
  the schedule can delay the settlement but cannot end without it. The inductive
  `SettlingInvariant` (`RegistrationsSettle`) names for everything that is still
  owed the one who will do it: for a profile or credential that must go, a
  handler that has its deactivation ahead (`NothingIsLeft`); for the announcement,
  the mail handler (`SuccessIsAnnounced`); for the verification, its goroutine
  (`VerificationIsCarriedOut`). It does not follow from the handlers alone which
  of them that is: a success handled after a failure must find the failed step
  and compensate for itself.

The hypotheses are constants of the model, and the liveness run satisfies them.

`StartAdmissionProofs` proves from `AdmissionAssumption` the inductive
`AdmissionInvariant` (`AdmissionIsConsistent`) and from it the safety
properties of the `admission` run and `DrainedBeforeCancel`, for any number of
calls, sessions and identities, any submissions, faults, answers of the services
and ends of the process. The unique indexes give `UniqueIdentity`; that an
admitted call works on its own row alone (`SessionsHaveAuthors`,
`StartFollowsRows`) carries it over to the answers. `SessionsAreDispatchedOnce`
rests on the primary key: a command that is handled again after its dispatch
finds its own row and never reaches the steps or the hash. The invariant is
taken apart by calls (`ByCalls`), so that each action is shown to preserve the
part of its own call, and frame lemmas do the rest.

`PullConsumerProofs` proves from `PullAssumption` and `ConfigAssumption`, the
assumption being what the validator accepts, the inductive `PullInvariant`
(`PullConsumerIsConsistent`) and from it the safety properties of the run.
Overlaps need `HeldIsDelivered`: while AckWait has not passed, what the consumer
holds of a message is its latest delivery, and there is one of it.

Only model-checked: the liveness properties, which are out of the prover's
reach (`SuccessReachesCodeSent`, `FailureIsCompensated`,
`VerificationIsAnswered`, `EveryResultSettled`, `StopCompletes`,
`MessagesSettled`, `CancelledStops`). For the saga's three and for
`EveryResultSettled` the part that needs no fairness is proved. What a recursive
definition computes for every input is out of its reach too; the modules have
none. Every invariant, action property and refinement of the passing runs is
proved; those of the outcome, `AccountActivation` and `ReconcileConverges` under
`PlainAnswers`, `FailedIsFinal` under `FirmFailures`, `QuietIsSettled` under
`UndisturbedSaga`, `ClaimsAreLive` and `NothingIsLost` under
`UndisturbedConsumer`, all others from the assumptions on the constants alone.

## What the models do not promise

The checks also reach states in which the code leaves a registration without a
way on. They break no stated property, and are the code's behaviour:

* if the second step's insertion or the status update in `VerifyEmail` fails,
  or the process stops there, the verification step exists and every later
  `VerifyEmail` fails on its primary key;
* a result or a recovery command being handled at a crash or a shutdown is lost
  with its claim, and so is one whose worker is cancelled by another worker's
  broker error, one whose release fails, and one whose claim was committed and
  reported an error: delivered again, by the re-run consumer of the same process
  or by a later process, it is skipped, neither handled nor dead-lettered;
* a commit may pass a message that another worker still holds, and a stop then
  skips that message;
* after a worker's broker error the consumer notices it only when it hands over
  the next message, which an empty topic does not bring;
* a failed compensation RPC is logged and not repeated, and `failStartStep`
  does not compensate at all;
* under ambiguous errors a verification that did complete may be compensated;
* `tokens_claimed` is neither `failed` nor `completed` for
  `ToIncompleteConflictResult`, so a finished registration whose tokens were
  claimed is answered as an incomplete one (`found_incomplete`), although
  `session.go` says the status marks a completed registration;
* a failed session counts as free in the lookups, but its row still holds its
  e-mail and username in the unique indexes: a new submission of them passes
  all lookups and ends with `Internal`;
* a client whose `Start` fails after the insertion is told `Internal`, and the
  session it left turns its next attempt away;
* the mail handler publishes the code-sent event without looking at the session,
  also for a registration that has failed.

## Not modelled

* The reconciliation that `syncSessionStatus` uses when a repository lacks
  `ReconcileStatus`: the PostgreSQL one has it, and no other is wired.
* Several replicas as such: their goroutines are processes like any other, but
  `Restart`, `Exit` and the stages end all of them.
* NATS `Subscribe` (push) and the bootstrap of streams, which nothing calls
  while the adapter is unused.
* The RPCs `VerifyEmail` and `GetRegistrationStatus` in the server and the
  remaining field mapping of server, clients and events: they carry values and
  decide nothing; the errors of `StartRegistration` are translated in the model.
* Construction of the objects, environment variables, the connection pool and
  the migration runner: pure input and output.
* The outbox triggers: a copy of each row change by the database, read by
  another service.
* Payloads, metrics, tracing and logging.

## Plan

Done: the core saga, its consumer, the admission, the pull consumer; proofs of
every invariant, action property and refinement the passing runs check, and of
the safety halves of the liveness properties of saga and consumer.
What is left, in order:

1. An abstract registry of identities that `StartAdmission` implements: an
   identity is given to one session in one step, for good, however the lookups
   before it interleave.
2. The safety half of `MessagesSettled` and of `CancelledStops` for the pull
   consumer: where a message that is neither handled nor exhausted still is.
3. `OutcomeInvariant` for services that answer a command more than once, with
   the claims of `processed_events` in place of the second half of
   `PlainAnswers`.
4. The fallback reconciliation of `syncSessionStatus` as a variant of
   `SyncSession` with its separate reads and writes, against its comment that
   result events are consumed serially.
