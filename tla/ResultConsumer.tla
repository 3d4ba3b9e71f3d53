---------------------------- MODULE ResultConsumer ----------------------------
(***************************************************************************)
(* The consumption of one topic: RunPullConsumer's fetch loop and workers, *)
(* the retry and dead-letter topics, offset commits, the claim of an event *)
(* in processed_events around its handler, and the loop of                 *)
(* resultSubscriber, or of InvokeSubscribeRecovery for recovery commands,  *)
(* that runs the consumer again.                                           *)
(*                                                                         *)
(* A worker makes one call (SQL, handler, broker) per action.  The handler *)
(* is one action here: RegistrationSaga and StartAdmission model the calls *)
(* of the handlers of results and of recovery commands.  The topic has     *)
(* one partition; Kafka and ofm-common's retry queue are modelled from the *)
(* way the consumer uses them.                                             *)
(***************************************************************************)
EXTENDS Naturals, Sequences

CONSTANTS
    Events,       \* distinct events: results, or recovery commands
    Workers,      \* goroutines of one RunPullConsumer call
    Empty,        \* what a receive from the closed jobs channel yields
    JobsCap,      \* capacity of the jobs channel
    MaxAttempts,  \* resilience.DefaultRetryPolicy.MaxAttempts
    Faults,       \* the calls that may fail, see below
    MaxProduced,  \* messages the services publish, duplicates included
    MaxResumes    \* how often the consumer or the process starts again

\* "fetch": FetchMessage; "db": the claim and its release; "handler": the
\* wrapped handler; "permanent": its error is a resilience.PermanentError, as only
\* the recovery handler's may be; "broker": the retry and dead-letter writes and
\* the commit; "ambiguous": a claim or such a write takes effect and reports an error
FaultKinds == {"fetch", "db", "handler", "permanent", "broker", "ambiguous"}

ASSUME ConsumerAssumption ==
    /\ Empty \notin Events
    /\ JobsCap \in Nat \ {0}
    /\ MaxAttempts \in Nat /\ MaxAttempts > 1
    /\ Faults \subseteq FaultKinds
    /\ MaxProduced \in Nat
    /\ MaxResumes \in Nat

\* a message keeps its place in the log, 0 for the one of a closed channel
Messages == [event : Events \cup {Empty}, attempt : Nat \ {0}, offset : Nat]
EmptyMessage == [event |-> Empty, attempt |-> 1, offset |-> 0]

VARIABLES
    log,        \* the topic's messages, in offset order
    committed,  \* the consumer group's offset
    retries,    \* messages in the retry topic
    dead,       \* events written to the dead-letter topic
    claimed,    \* rows of processed_events
    finished,   \* how often the handler of each event returned nil
    loop,       \* where the consuming goroutine is
    position,   \* messages the reader has fetched
    jobs,       \* the jobs channel
    at,         \* the call each worker makes next
    item,       \* the message each worker holds
    cancelled,  \* workerCtx is done, and errs holds an error
    produced,   \* messages produced so far
    resumes     \* resumptions so far

topic == <<log, committed, retries, dead>>
store == <<claimed, finished>>
reader == <<loop, position>>
bounds == <<produced, resumes>>
vars == <<topic, store, reader, jobs, at, item, cancelled, bounds>>

LoopLabels == {"fetch", "hand_over", "closed", "backoff"}
WorkerLabels == {"idle", "claim", "handle", "release", "retry", "bury", "commit", "gone"}

TypeOK ==
    /\ log \in Seq(Messages) /\ committed \in Nat
    /\ retries \in Seq(Messages)
    /\ dead \subseteq Events \cup {Empty}
    /\ claimed \subseteq Events \cup {Empty}
    /\ finished \in [Events -> Nat]
    /\ loop \in LoopLabels /\ position \in Nat
    /\ jobs \in Seq(Messages)
    /\ at \in [Workers -> WorkerLabels]
    /\ item \in [Workers -> Messages]
    /\ cancelled \in BOOLEAN
    /\ produced \in 0..MaxProduced /\ resumes \in 0..MaxResumes

\* what RunPullConsumer creates, reading on from the group's offset
FreshConsumer(from) ==
    /\ loop' = "fetch" /\ position' = from
    /\ jobs' = <<>>
    /\ at' = [w \in Workers |-> "idle"]
    /\ item' = [w \in Workers |-> EmptyMessage]
    /\ cancelled' = FALSE

Init ==
    /\ log = <<>> /\ committed = 0
    /\ retries = <<>>
    /\ dead = {}
    /\ claimed = {}
    /\ finished = [e \in Events |-> 0]
    /\ loop = "fetch" /\ position = 0
    /\ jobs = <<>>
    /\ at = [w \in Workers |-> "idle"]
    /\ item = [w \in Workers |-> EmptyMessage]
    /\ cancelled = FALSE
    /\ produced = 0 /\ resumes = 0

-----------------------------------------------------------------------------
(* The topic.                                                              *)

AppendToLog(e, n) ==
    log' = Append(log, [event |-> e, attempt |-> n, offset |-> Len(log) + 1])

\* a service publishes a result, perhaps not for the first time
Produce(e) ==
    /\ produced < MaxProduced
    /\ produced' = produced + 1
    /\ AppendToLog(e, 1)
    /\ UNCHANGED <<committed, retries, dead, store, reader, jobs, at, item, cancelled, resumes>>

\* the retry queue puts a message back on its topic
Redeliver ==
    /\ retries # <<>>
    /\ AppendToLog(Head(retries).event, Head(retries).attempt)
    /\ retries' = Tail(retries)
    /\ UNCHANGED <<committed, dead, store, reader, jobs, at, item, cancelled, bounds>>

-----------------------------------------------------------------------------
(* The consuming goroutine.                                                *)

FetchMessage ==
    /\ loop = "fetch" /\ position < Len(log)
    /\ loop' = "hand_over" /\ position' = position + 1
    /\ UNCHANGED <<topic, store, jobs, at, item, cancelled, bounds>>

HandOver ==
    /\ loop = "hand_over" /\ Len(jobs) < JobsCap
    /\ jobs' = Append(jobs, log[position])
    /\ loop' = "fetch"
    /\ UNCHANGED <<topic, store, position, at, item, cancelled, bounds>>

\* FetchMessage returns an error, or a worker's error is received while a
\* message is handed over; either way the jobs channel is closed
StopConsuming ==
    /\ \/ loop = "fetch" /\ "fetch" \in Faults
       \/ loop = "hand_over" /\ cancelled
    /\ loop' = "closed"
    /\ UNCHANGED <<topic, store, position, jobs, at, item, cancelled, bounds>>

\* workers.Wait returns only when every worker has left its loop
ConsumerReturns ==
    /\ loop = "closed"
    /\ \A w \in Workers : at[w] = "gone"
    /\ loop' = "backoff"
    /\ UNCHANGED <<topic, store, position, jobs, at, item, cancelled, bounds>>

\* the subscriber runs the consumer again after the backoff
Resume ==
    /\ loop = "backoff" /\ resumes < MaxResumes
    /\ FreshConsumer(committed)
    /\ resumes' = resumes + 1
    /\ UNCHANGED <<topic, store, produced>>

\* the process stops or crashes at any moment and is started again
Restart ==
    /\ resumes < MaxResumes
    /\ FreshConsumer(committed)
    /\ resumes' = resumes + 1
    /\ UNCHANGED <<topic, store, produced>>

Consume == FetchMessage \/ HandOver \/ ConsumerReturns \/ Resume

-----------------------------------------------------------------------------
(* The workers.                                                            *)

Goto(w, from, to) == at[w] = from /\ at' = [at EXCEPT ![w] = to]

\* mutation: a message whose attempts are used up is committed as it is
AfterFailureUnburied(w) == IF item[w].attempt < MaxAttempts THEN "retry" ELSE "commit"

\* a message whose attempts are used up goes to the dead-letter topic
AfterFailure(w) == IF item[w].attempt < MaxAttempts THEN "retry" ELSE "bury"

TakeJob(w) ==
    /\ Goto(w, "idle", "claim")
    /\ jobs # <<>>
    /\ item' = [item EXCEPT ![w] = Head(jobs)]
    /\ jobs' = Tail(jobs)
    /\ UNCHANGED <<topic, store, reader, cancelled, bounds>>

\* the closed channel yields zero messages, which no handler can decode
TakeEmpty(w) ==
    /\ loop = "closed" /\ jobs = <<>>
    /\ item' = [item EXCEPT ![w] = EmptyMessage]
    /\ Goto(w, "idle", "retry")
    /\ UNCHANGED <<topic, store, reader, jobs, cancelled, bounds>>

Leave(w) ==
    /\ cancelled
    /\ Goto(w, "idle", "gone")
    /\ UNCHANGED <<topic, store, reader, jobs, item, cancelled, bounds>>

\* mutation: the worker runs the handler whether or not it got the claim
ClaimEventUnchecked(w) ==
    /\ ~cancelled
    /\ claimed' = claimed \cup {item[w].event}
    /\ Goto(w, "claim", "handle")
    /\ UNCHANGED <<topic, finished, reader, jobs, item, cancelled, bounds>>

\* an event that is claimed already is skipped and its message committed
ClaimEvent(w) ==
    /\ ~cancelled
    /\ claimed' = claimed \cup {item[w].event}
    /\ Goto(w, "claim", IF item[w].event \in claimed THEN "commit" ELSE "handle")
    /\ UNCHANGED <<topic, finished, reader, jobs, item, cancelled, bounds>>

\* the claim reports an error, though its row may have been inserted
ClaimFails(w) ==
    /\ Goto(w, "claim", AfterFailure(w))
    /\ \/ (cancelled \/ "db" \in Faults) /\ UNCHANGED claimed
       \/ "ambiguous" \in Faults /\ claimed' = claimed \cup {item[w].event}
    /\ UNCHANGED <<topic, finished, reader, jobs, item, cancelled, bounds>>

\* mutation: the claim is given up after a success as well
HandlerSucceedsAndReleases(w) ==
    /\ ~cancelled
    /\ Goto(w, "handle", "commit")
    /\ finished' = [finished EXCEPT ![item[w].event] = @ + 1]
    /\ claimed' = claimed \ {item[w].event}
    /\ UNCHANGED <<topic, reader, jobs, item, cancelled, bounds>>

HandlerSucceeds(w) ==
    /\ ~cancelled
    /\ Goto(w, "handle", "commit")
    /\ finished' = [finished EXCEPT ![item[w].event] = @ + 1]
    /\ UNCHANGED <<topic, claimed, reader, jobs, item, cancelled, bounds>>

HandlerFails(w) ==
    /\ cancelled \/ "handler" \in Faults
    /\ Goto(w, "handle", "release")
    /\ UNCHANGED <<topic, store, reader, jobs, item, cancelled, bounds>>

\* mutation: an error of the handler leaves the claim in place
ReleaseForgotten(w) ==
    /\ Goto(w, "release", AfterFailure(w))
    /\ UNCHANGED <<topic, store, reader, jobs, item, cancelled, bounds>>

\* the release uses the handler's context, and its error is ignored; a permanent
\* error of the handler is not retried
ReleaseClaim(w) ==
    /\ \/ Goto(w, "release", AfterFailure(w))
       \/ "permanent" \in Faults /\ Goto(w, "release", "bury")
    /\ \/ ~cancelled /\ claimed' = claimed \ {item[w].event}
       \/ (cancelled \/ "db" \in Faults) /\ UNCHANGED claimed
    /\ UNCHANGED <<topic, finished, reader, jobs, item, cancelled, bounds>>

\* a broker call takes effect; the error it may still report ends the worker and,
\* through workerCtx, the others
Write(w, from, to) ==
    /\ ~cancelled
    /\ \/ Goto(w, from, to) /\ UNCHANGED cancelled
       \/ "ambiguous" \in Faults /\ Goto(w, from, "gone") /\ cancelled' = TRUE

\* the original message is not committed; the zero messages of a closed channel
\* are written too, but not kept here: they carry no event
EnqueueRetry(w) ==
    /\ Write(w, "retry", "idle")
    /\ retries' = IF item[w].event = Empty THEN retries
                  ELSE Append(retries, [item[w] EXCEPT !.attempt = @ + 1])
    /\ UNCHANGED <<log, committed, dead, store, reader, jobs, item, bounds>>

WriteDeadLetter(w) ==
    /\ Write(w, "bury", "commit")
    /\ dead' = dead \cup {item[w].event}
    /\ UNCHANGED <<log, committed, retries, store, reader, jobs, item, bounds>>

\* workers commit in the order they finish, not in the order of the log
CommitMessage(w) ==
    /\ Write(w, "commit", "idle")
    /\ committed' = item[w].offset
    /\ UNCHANGED <<log, retries, dead, store, reader, jobs, item, bounds>>

\* a broker call that fails without effect ends the worker and, through workerCtx, the others
WorkerStops(w) ==
    /\ cancelled \/ "broker" \in Faults
    /\ at[w] \in {"retry", "bury", "commit"}
    /\ at' = [at EXCEPT ![w] = "gone"]
    /\ cancelled' = TRUE
    /\ UNCHANGED <<topic, store, reader, jobs, item, bounds>>

Work(w) ==
    \/ TakeJob(w) \/ TakeEmpty(w) \/ Leave(w)
    \/ ClaimEvent(w) \/ ClaimFails(w)
    \/ HandlerSucceeds(w) \/ HandlerFails(w) \/ ReleaseClaim(w)
    \/ EnqueueRetry(w) \/ WriteDeadLetter(w) \/ CommitMessage(w)
    \/ WorkerStops(w)

Next ==
    \/ \E e \in Events : Produce(e)
    \/ Redeliver
    \/ Consume \/ StopConsuming
    \/ \E w \in Workers : Work(w)
    \/ Restart

Spec == Init /\ [][Next]_vars

\* Goroutines that can run do run, and the retry queue gives back what it
\* holds.  Nothing has to fail, and no service has to publish.
Fairness ==
    /\ WF_vars(Redeliver)
    /\ WF_vars(Consume)
    /\ \A w \in Workers : WF_vars(Work(w))

FairSpec == Spec /\ Fairness

-----------------------------------------------------------------------------
(* Properties.                                                             *)

\* processed_events: the handler of an event succeeds at most once, however
\* often the event is published, retried, fetched again after an uncommitted
\* offset or a restart, and by whichever worker.
HandledOnce == \A e \in Events : finished[e] <= 1

Holding(w) == at[w] \in {"handle", "release"}

\* Two workers never run the handler of the same event at the same time, and
\* a worker that gives up its claim never gives up another worker's.
OneHandlerPerEvent ==
    \A v, w \in Workers :
        Holding(v) /\ Holding(w) /\ item[v].event = item[w].event => v = w

\* the message that is handed over has been read from the log
HandOverInLog == loop = "hand_over" => position \in 1..Len(log)

\* The invariant behind both: who runs a handler holds the claim, and the
\* claim of a finished event is never given up.
HandlerHoldsClaim == \A w \in Workers : Holding(w) => item[w].event \in claimed

FinishedStaysClaimed ==
    \A e \in Events :
        /\ finished[e] <= 1
        /\ finished[e] = 1 => /\ e \in claimed
                              /\ \A w \in Workers : Holding(w) => item[w].event # e

ConsumerInvariant ==
    /\ TypeOK
    /\ HandOverInLog
    /\ OneHandlerPerEvent
    /\ HandlerHoldsClaim
    /\ FinishedStaysClaimed

\* As long as nothing is cancelled and the database answers for sure, a row of
\* processed_events stands for an event that is handled or being handled:
\* a failed attempt never leaves the row behind that would make its own
\* retry a no-op.
ClaimsAreLive ==
    \A e \in claimed : finished[e] = 1 \/ \E w \in Workers : Holding(w) /\ item[w].event = e

\* The invariant behind ClaimsAreLive, when neither a broker call nor a
\* statement fails, for sure or not, and nothing is restarted: no context is
\* cancelled, and the messages worked on are those of events.
UndisturbedConsumer == Faults \cap {"db", "broker", "ambiguous"} = {} /\ MaxResumes = 0

EventMessages == {m \in Messages : m.event \in Events}

OnlyEventsAreClaimed ==
    /\ log \in Seq(EventMessages) /\ retries \in Seq(EventMessages) /\ jobs \in Seq(EventMessages)
    /\ \A w \in Workers : at[w] = "claim" \/ Holding(w) => item[w] \in EventMessages

LiveInvariant == ConsumerInvariant /\ ~cancelled /\ OnlyEventsAreClaimed /\ ClaimsAreLive

\* where a result that is neither handled nor buried still is: unread, handed
\* over, with a worker before its commit, or in the retry topic
InHand(e) ==
    \/ \E i \in position + 1 .. Len(log) : log[i].event = e
    \/ loop = "hand_over" /\ log[position].event = e
    \/ \E i \in 1 .. Len(jobs) : jobs[i].event = e
    \/ \E w \in Workers : at[w] \in WorkerLabels \ {"idle", "commit", "gone"} /\ item[w].event = e
    \/ \E i \in 1 .. Len(retries) : retries[i].event = e

\* The safety half of EveryResultSettled: in no state has a published result
\* slipped out of the consumer's hands, although the message of a failed
\* attempt stays uncommitted, one that finds its event claimed is committed
\* unhandled, and a failed fetch ends the loop.
Settled(e) == finished[e] = 1 \/ e \in dead
NothingIsLost == \A i \in 1 .. Len(log) : Settled(log[i].event) \/ InHand(log[i].event)

SettledInvariant == LiveInvariant /\ position <= Len(log) /\ NothingIsLost

\* Every published result is handled or ends in the dead-letter topic, though
\* handlers may fail, when the broker and the database answer.
EveryResultSettled ==
    \A e \in Events :
        (\E i \in 1..Len(log) : log[i].event = e) ~> Settled(e)

\* result_subscriber.go: a consumer that stops is run again after a backoff.
StoppedConsumerRetries == loop = "closed" ~> loop = "backoff"

-----------------------------------------------------------------------------
(* The consumer implements ResultHandling.                                 *)

PublishedEvents == {log[i].event : i \in 1 .. Len(log)}

Running(e) == \E w \in Workers : Holding(w) /\ item[w].event = e

\* a second success, or a run beside a success or another run: the contract has
\* no such state
Overrun(e) ==
    \/ finished[e] > 1 \/ (finished[e] = 1 /\ Running(e))
    \/ \E v, w \in Workers :
          v # w /\ Holding(v) /\ Holding(w) /\ item[v].event = e /\ item[w].event = e

handlingBar ==
    [e \in Events |->
        IF Overrun(e) THEN "overrun"
        ELSE IF finished[e] = 1 THEN "handled"
        ELSE IF Running(e) THEN "running"
        ELSE IF e \in claimed THEN "lost"
        ELSE IF e \in PublishedEvents THEN "waiting"
        ELSE "unpublished"]

Handling == INSTANCE ResultHandling WITH Results <- Events, handling <- handlingBar

\* Whatever the workers, the retry queue, failing calls, duplicates and
\* restarts do, a handler runs as ResultHandling promises.
HandlesAsPromised == Handling!Spec

\* The invariant it needs beside ConsumerInvariant: what is processed or
\* retried has been published.
OnlyPublishedIsHandled ==
    /\ \A i \in 1 .. Len(jobs) : jobs[i].event \in PublishedEvents
    /\ \A i \in 1 .. Len(retries) : retries[i].event \in PublishedEvents
    /\ \A w \in Workers : item[w].event \in PublishedEvents \cup {Empty}
=============================================================================
