----------------------------- MODULE PullConsumer -----------------------------
(***************************************************************************)
(* The JetStream pull consumer of the NATS adapter: the fetcher with its   *)
(* adaptive plan, the jobs channel, the workers with their explicit        *)
(* acknowledgements, and the end of all of them when the context is done.  *)
(*                                                                         *)
(* JetStream is modelled from the configuration Create gives it: explicit  *)
(* acknowledgements, redelivery after a negative acknowledgement or after  *)
(* AckWait, at most MaxDeliver deliveries.  The order of messages in the   *)
(* jobs channel is left out: no property depends on it.                    *)
(***************************************************************************)
EXTENDS Naturals, FiniteSets

CONSTANTS
    Messages,    \* messages of the consumer's subject
    Workers,     \* cfg.Workers goroutines
    QueueSize,   \* capacity of the jobs channel
    MaxDeliver,  \* deliveries of a message
    Plans,       \* the batch size of each tier
    Adaptive,    \* cfg.Adaptive.Enabled
    MediumPending, HighPending,  \* the backlogs at which a tier begins
    Faults       \* what may fail, see below

Tiers == {"base", "low", "medium", "high"}

\* "fetch": fetched messages are lost on the way; "handler": the handler fails;
\* "ack": an acknowledgement, negative or not, is lost; "slow": AckWait expires
\* for a message that is still held
FaultKinds == {"fetch", "handler", "ack", "slow"}

ASSUME PullAssumption ==
    /\ Messages # {} /\ IsFiniteSet(Messages)
    /\ IsFiniteSet(Workers)
    /\ Plans \in [Tiers -> Nat]
    /\ {QueueSize, MaxDeliver, MediumPending, HighPending} \subseteq Nat
    /\ Adaptive \in BOOLEAN
    /\ Faults \subseteq FaultKinds

\* what pullConsumerConfigValidator.Validate requires
ValidConfig ==
    /\ Plans["base"] > 0 /\ Workers # {} /\ QueueSize > 0 /\ MaxDeliver > 0
    /\ Adaptive => HighPending > MediumPending /\ \A t \in Tiers : Plans[t] > 0

ASSUME ConfigAssumption == ValidConfig

VARIABLES
    stream,      \* what JetStream knows of each message
    deliveries,  \* how often it has delivered the message
    expired,     \* messages for which AckWait has passed once
    fetcher,     \* where runFetcher is
    tier,        \* the plan it fetches with
    batch,       \* deliveries fetched and not handed over
    jobs,        \* the jobs channel
    at,          \* where each worker is
    item,        \* the delivery each worker holds
    handled,     \* messages whose handler succeeded once
    cancelled    \* the context is done

server == <<stream, deliveries, expired>>
plan == <<fetcher, tier>>
worker == <<at, item>>
vars == <<server, plan, batch, jobs, worker, handled, cancelled>>

\* the n-th delivery of a message, as the client holds it
Deliveries == Messages \X (1..MaxDeliver)

\* what an idle worker's variable holds does not matter
NoItem == CHOOSE d \in Deliveries : TRUE

TypeOK ==
    /\ stream \in [Messages -> {"unpublished", "ready", "out", "acked", "exhausted"}]
    /\ deliveries \in [Messages -> 0..MaxDeliver]
    /\ fetcher \in {"none", "loop", "fetch", "dispatch", "wait", "closed"}
    /\ tier \in Tiers
    /\ batch \subseteq Deliveries /\ jobs \subseteq Deliveries
    /\ at \in [Workers -> {"idle", "handle", "ack", "nak", "gone"}]
    /\ item \in [Workers -> Deliveries]
    /\ handled \subseteq Messages /\ expired \subseteq Messages
    /\ cancelled \in BOOLEAN
    /\ Cardinality(jobs) <= QueueSize

Init ==
    /\ stream = [m \in Messages |-> "unpublished"]
    /\ deliveries = [m \in Messages |-> 0]
    /\ fetcher = "none" /\ tier = "base"
    /\ batch = {} /\ jobs = {} /\ handled = {} /\ expired = {}
    /\ at = [w \in Workers |-> "gone"]
    /\ item = [w \in Workers |-> NoItem]
    /\ cancelled = FALSE

-----------------------------------------------------------------------------
(* The plan.                                                               *)

\* ResolvePullPlan
ResolvePullPlan(pending) ==
    CASE ~Adaptive -> "base"
      [] Adaptive /\ pending >= HighPending -> "high"
      [] Adaptive /\ pending < HighPending /\ pending >= MediumPending -> "medium"
      [] OTHER -> "low"

Ready == {m \in Messages : stream[m] = "ready"}
\* ConsumerInfo's NumPending: the messages not delivered so far
NumPending == Cardinality({m \in Ready : deliveries[m] = 0})

-----------------------------------------------------------------------------
(* JetStream.                                                              *)

\* user-service, auth-service or mail-service publishes a result
Publish(m) ==
    /\ stream[m] = "unpublished"
    /\ stream' = [stream EXCEPT ![m] = "ready"]
    /\ UNCHANGED <<deliveries, expired, plan, batch, jobs, worker, handled, cancelled>>

\* a message that was delivered and not acknowledged
Redeliverable(m) == IF deliveries[m] < MaxDeliver THEN "ready" ELSE "exhausted"

Busy(w) == at[w] \in {"handle", "ack", "nak"}
Held(d) == d \in batch \/ d \in jobs \/ \E w \in Workers : Busy(w) /\ item[w] = d

\* AckWait passes without an acknowledgement
Expire(m) ==
    /\ stream[m] = "out"
    /\ "slow" \in Faults \/ ~Held(<<m, deliveries[m]>>)
    /\ stream' = [stream EXCEPT ![m] = Redeliverable(m)]
    /\ expired' = expired \cup {m}
    /\ UNCHANGED <<deliveries, plan, batch, jobs, worker, handled, cancelled>>

-----------------------------------------------------------------------------
(* runFetcher.                                                             *)

\* Create and Start: the durable consumer is added or updated, the workers and
\* the fetcher are started
Create ==
    /\ fetcher = "none"
    /\ fetcher' = "loop"
    /\ at' = [w \in Workers |-> "idle"]
    /\ UNCHANGED <<server, tier, batch, jobs, item, handled, cancelled>>

\* shouldStop
StopFetching ==
    /\ fetcher = "loop" /\ cancelled
    /\ fetcher' = "wait"
    /\ UNCHANGED <<server, tier, batch, jobs, worker, handled, cancelled>>

\* maybeUpdateAdaptivePlan: not due, or no information, or the plan for the backlog
UpdatePlan ==
    /\ fetcher = "loop" /\ ~cancelled
    /\ fetcher' = "fetch"
    /\ \/ UNCHANGED tier
       \/ Adaptive /\ tier' = ResolvePullPlan(NumPending)
    /\ UNCHANGED <<server, batch, jobs, worker, handled, cancelled>>

\* Fetch takes some messages, which may be lost on the way, then the error is
\* handled by the next round
Fetch ==
    /\ fetcher = "fetch"
    /\ \E some \in SUBSET Ready :
          /\ some # {} /\ Cardinality(some) <= Plans[tier]
          /\ stream' = [m \in Messages |-> IF m \in some THEN "out" ELSE stream[m]]
          /\ deliveries' = [m \in Messages |->
                               IF m \in some THEN deliveries[m] + 1 ELSE deliveries[m]]
          /\ \/ /\ batch' = {<<m, deliveries[m] + 1>> : m \in some}
                /\ fetcher' = "dispatch"
             \/ /\ "fetch" \in Faults
                /\ fetcher' = "loop" /\ UNCHANGED batch
    /\ UNCHANGED <<expired, tier, jobs, worker, handled, cancelled>>

\* mutation: the fetcher returns on an error
FetchFailsForGood ==
    /\ fetcher = "fetch" /\ (Ready = {} \/ "fetch" \in Faults)
    /\ fetcher' = "wait"
    /\ UNCHANGED <<server, tier, batch, jobs, worker, handled, cancelled>>

\* handleFetchError for a timeout or another error
FetchFails ==
    /\ fetcher = "fetch" /\ (Ready = {} \/ "fetch" \in Faults)
    /\ fetcher' = "loop"
    /\ UNCHANGED <<server, tier, batch, jobs, worker, handled, cancelled>>

\* mutation: a message handed over stays in the batch
HandOverTwice ==
    /\ fetcher = "dispatch" /\ Cardinality(jobs) < QueueSize
    /\ \E d \in batch :
          /\ jobs' = jobs \cup {d}
          /\ \/ batch' = batch \ {d} /\ fetcher' = IF batch = {d} THEN "loop" ELSE "dispatch"
             \/ UNCHANGED <<batch, fetcher>>
    /\ UNCHANGED <<server, tier, worker, handled, cancelled>>

\* dispatchFetchedMessages: one message into the channel
HandOver ==
    /\ fetcher = "dispatch" /\ Cardinality(jobs) < QueueSize
    /\ \E d \in batch :
          /\ jobs' = jobs \cup {d}
          /\ batch' = batch \ {d}
          /\ fetcher' = IF batch = {d} THEN "loop" ELSE "dispatch"
    /\ UNCHANGED <<server, tier, worker, handled, cancelled>>

\* mutation: the hand-over waits for room only, not for the context
DropBatchNever ==
    /\ fetcher = "dispatch" /\ cancelled /\ batch = {}
    /\ batch' = {} /\ fetcher' = "wait"
    /\ UNCHANGED <<server, tier, jobs, worker, handled, cancelled>>

\* dispatchFetchedMessages: the context is done, the rest is left to AckWait
DropBatch ==
    /\ fetcher = "dispatch" /\ cancelled
    /\ batch' = {} /\ fetcher' = "wait"
    /\ UNCHANGED <<server, tier, jobs, worker, handled, cancelled>>

\* the deferred calls: wg.Wait, then close(jobs)
CloseJobs ==
    /\ fetcher = "wait" /\ \A w \in Workers : at[w] = "gone"
    /\ fetcher' = "closed"
    /\ UNCHANGED <<server, tier, batch, jobs, worker, handled, cancelled>>

\* whoever runs the consumer ends its context
Cancel ==
    /\ fetcher # "none" /\ ~cancelled
    /\ cancelled' = TRUE
    /\ UNCHANGED <<server, plan, batch, jobs, worker, handled>>

\* the process ends, at any moment after the context is done, and is started
\* again: a crash is a cancellation that nobody lives to see
Restart ==
    /\ cancelled
    /\ fetcher' = "none" /\ tier' = "base" /\ batch' = {} /\ jobs' = {} /\ cancelled' = FALSE
    /\ at' = [w \in Workers |-> "gone"] /\ item' = [w \in Workers |-> NoItem]
    /\ UNCHANGED <<server, handled>>

-----------------------------------------------------------------------------
(* runWorker.                                                              *)

Goto(w, from, to) == at[w] = from /\ at' = [at EXCEPT ![w] = to]

\* mutation: a message is acknowledged when it is received
TakeJobAcked(w) ==
    /\ Goto(w, "idle", "ack")
    /\ \E d \in jobs : jobs' = jobs \ {d} /\ item' = [item EXCEPT ![w] = d]
    /\ UNCHANGED <<server, plan, batch, handled, cancelled>>

TakeJob(w) ==
    /\ Goto(w, "idle", "handle")
    /\ \E d \in jobs : jobs' = jobs \ {d} /\ item' = [item EXCEPT ![w] = d]
    /\ UNCHANGED <<server, plan, batch, handled, cancelled>>

\* the context is done; both cases of the select may be ready
Leave(w) ==
    /\ cancelled /\ Goto(w, "idle", "gone")
    /\ UNCHANGED <<server, plan, batch, jobs, item, handled, cancelled>>

HandlerSucceeds(w) ==
    /\ Goto(w, "handle", "ack")
    /\ handled' = handled \cup {item[w][1]}
    /\ UNCHANGED <<server, plan, batch, jobs, item, cancelled>>

\* mutation: a failed message is acknowledged like any other
HandlerFailsAcked(w) ==
    /\ "handler" \in Faults \/ cancelled
    /\ Goto(w, "handle", "ack")
    /\ UNCHANGED <<server, plan, batch, jobs, item, handled, cancelled>>

HandlerFails(w) ==
    /\ "handler" \in Faults \/ cancelled
    /\ Goto(w, "handle", "nak")
    /\ UNCHANGED <<server, plan, batch, jobs, item, handled, cancelled>>

\* JetStream accepts a late acknowledgement of an earlier delivery
Ack(w) ==
    LET m == item[w][1] IN
    /\ Goto(w, "ack", "idle") /\ item' = [item EXCEPT ![w] = NoItem]
    /\ \/ /\ stream[m] \in {"ready", "out"}
          /\ stream' = [stream EXCEPT ![m] = "acked"]
       \/ /\ stream[m] \notin {"ready", "out"} \/ "ack" \in Faults
          /\ UNCHANGED stream
    /\ UNCHANGED <<deliveries, expired, plan, batch, jobs, handled, cancelled>>

Nak(w) ==
    LET m == item[w][1] IN
    /\ Goto(w, "nak", "idle") /\ item' = [item EXCEPT ![w] = NoItem]
    /\ \/ /\ stream[m] = "out"
          /\ stream' = [stream EXCEPT ![m] = Redeliverable(m)]
       \/ /\ stream[m] # "out" \/ "ack" \in Faults
          /\ UNCHANGED stream
    /\ UNCHANGED <<deliveries, expired, plan, batch, jobs, handled, cancelled>>

-----------------------------------------------------------------------------
RunFetcher ==
    \/ Create \/ StopFetching \/ UpdatePlan \/ Fetch \/ FetchFails
    \/ HandOver \/ DropBatch \/ CloseJobs

RunWorker(w) ==
    \/ TakeJob(w) \/ Leave(w) \/ HandlerSucceeds(w) \/ HandlerFails(w)
    \/ Ack(w) \/ Nak(w)

Next ==
    \/ \E m \in Messages : Publish(m) \/ Expire(m)
    \/ RunFetcher \/ Cancel \/ Restart
    \/ \E w \in Workers : RunWorker(w)

Spec == Init /\ [][Next]_vars

\* goroutines run, handlers return, JetStream redelivers; Fetch returns the
\* messages there are when it is called again and again, since the connection
\* is restored for ever
FairSpec ==
    /\ Spec
    /\ WF_vars(RunFetcher) /\ SF_vars(Fetch)
    /\ WF_vars(\E m \in Messages : Expire(m))
    /\ WF_vars(\E w \in Workers : RunWorker(w))

-----------------------------------------------------------------------------
(* Properties.                                                             *)

\* A message is acknowledged only after a handler succeeded on one of its
\* deliveries: at least once, whatever is lost, late or cancelled.
AckedWasHandled ==
    \A m \in Messages : stream[m] = "acked" => m \in handled

\* One delivery is in one place: the batch, the channel or one worker.  So
\* no message is handled more often than MaxDeliver.
DeliveryHeldOnce ==
    /\ batch \cap jobs = {}
    /\ \A w \in Workers : Busy(w) => item[w] \notin batch \cup jobs
    /\ \A v, w \in Workers : v # w /\ Busy(v) /\ Busy(w) => item[v] # item[w]

\* Two workers run the handler on one message only after AckWait expired for
\* one of its deliveries: a negative acknowledgement never causes this.
OverlapNeedsExpiry ==
    \A v, w \in Workers :
        v # w /\ at[v] = "handle" /\ at[w] = "handle" /\ item[v][1] = item[w][1] =>
            item[v][1] \in expired

\* The inductive invariant.  What the consumer holds has been delivered, and is
\* the latest delivery of its message, still awaited by the server, as long as
\* AckWait never passed for the message.
HeldIsDelivered ==
    \A d \in Deliveries : Held(d) =>
        /\ d[2] <= deliveries[d[1]]
        /\ d[1] \notin expired => d[2] = deliveries[d[1]] /\ stream[d[1]] = "out"

\* a message that may be delivered has deliveries left
DeliveriesLeft ==
    \A m \in Messages : stream[m] \in {"unpublished", "ready"} => deliveries[m] < MaxDeliver

AckFollowsHandler == \A w \in Workers : at[w] = "ack" => item[w][1] \in handled

PullInvariant ==
    /\ TypeOK /\ DeliveriesLeft
    /\ AckedWasHandled /\ AckFollowsHandler
    /\ DeliveryHeldOnce /\ HeldIsDelivered

\* Every message is acknowledged or has used up its deliveries in the end,
\* however fetches, handlers and acknowledgements fail, unless the consumer is
\* stopped: no loss on the way leaves a message neither held nor redelivered.
MessagesSettled ==
    (Ready # {} /\ fetcher # "none") ~>
        ((\A m \in Messages : stream[m] \in {"unpublished", "acked", "exhausted"}) \/ cancelled \/ fetcher = "none")

\* A cancelled consumer stops: fetcher and workers return, in every state of
\* the channel, unless the process ends before.
CancelledStops ==
    cancelled ~> (fetcher = "closed" /\ \A w \in Workers : at[w] = "gone") \/ ~cancelled
=============================================================================
