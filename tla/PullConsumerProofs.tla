-------------------------- MODULE PullConsumerProofs --------------------------
(***************************************************************************)
(* A message of the pull consumer is acknowledged only when it was handled *)
(* and is in one pair of hands per delivery, for any number of messages,   *)
(* workers and deliveries, any plan and any faults.                        *)
(***************************************************************************)
EXTENDS PullConsumer, FiniteSetTheorems, TLAPS

USE ConfigAssumption, PullAssumption DEF ValidConfig

Labels == {"idle", "handle", "ack", "nak", "gone"}

\* The channel is a finite set: its capacity can be counted.
LEMMA JobsAreFinite ==
    ASSUME TypeOK
    PROVE  IsFiniteSet(jobs) /\ Cardinality(jobs) \in Nat
  <1>1. IsFiniteSet(1..MaxDeliver)
    BY FS_Interval
  <1>2. IsFiniteSet(Deliveries)
    BY <1>1, FS_Product DEF Deliveries
  <1>3. IsFiniteSet(jobs)
    BY <1>2, FS_Subset DEF TypeOK
  <1> QED
    BY <1>3, FS_CardinalityType

\* There is a delivery, since there are messages and deliveries to make.
LEMMA NoItemIsDelivery == NoItem \in Deliveries
  <1>1. PICK m \in Messages : TRUE
    OBVIOUS
  <1>2. <<m, 1>> \in Deliveries
    BY DEF Deliveries
  <1> QED
    BY <1>2 DEF NoItem

\* A delivery is a message and a number.
LEMMA DeliveryParts ==
    ASSUME NEW d \in Deliveries
    PROVE  d[1] \in Messages /\ d[2] \in 1..MaxDeliver /\ d = <<d[1], d[2]>>
  BY DEF Deliveries

\* A step that gives nobody a delivery and leaves the counts alone keeps what
\* is said of held deliveries, if the messages still held stay out.
LEMMA HeldFrame ==
    ASSUME PullInvariant, UNCHANGED deliveries, expired \subseteq expired',
           \A d \in Deliveries : Held(d)' =>
               Held(d) /\ (d[1] \notin expired' => stream'[d[1]] = stream[d[1]])
    PROVE  HeldIsDelivered'
  BY DEF PullInvariant, HeldIsDelivered

\* A step that changes no worker and no place of a delivery keeps each in one.
LEMMA QuietHands ==
    ASSUME PullInvariant, UNCHANGED <<batch, jobs, worker>>
    PROVE  DeliveryHeldOnce' /\ \A d \in Deliveries : Held(d)' = Held(d)
  BY DEF PullInvariant, DeliveryHeldOnce, Held, Busy, worker

-----------------------------------------------------------------------------
(* JetStream and the fetcher.                                              *)

\* Publishing and expiring leave the client alone.
LEMMA StreamInvariant ==
    ASSUME PullInvariant, NEW m \in Messages, Publish(m) \/ Expire(m)
    PROVE  PullInvariant'
  <1>1. TypeOK /\ UNCHANGED <<deliveries, plan, batch, jobs, worker, handled, cancelled>>
    BY DEF PullInvariant, Publish, Expire
  <1>2. PICK x \in {"ready", "exhausted"} : stream' = [stream EXCEPT ![m] = x]
    BY DEF Publish, Expire, Redeliverable
  <1>3. TypeOK'
    BY <1>1, <1>2 DEF TypeOK, plan, worker, Publish, Expire
  <1>6. DeliveriesLeft'
    BY <1>1, <1>2 DEF PullInvariant, DeliveriesLeft, TypeOK, Publish, Expire, Redeliverable
  <1>4. AckedWasHandled' /\ AckFollowsHandler'
    BY <1>1, <1>2 DEF PullInvariant, AckedWasHandled, AckFollowsHandler, TypeOK, worker, plan
  <1>5. HeldIsDelivered'
    <2>1. CASE Publish(m)
      <3>1. stream[m] = "unpublished" /\ UNCHANGED expired
        BY <2>1 DEF Publish
      <3>2. \A d \in Deliveries : Held(d)' = Held(d)
        BY <1>1, QuietHands
      <3>3. ASSUME NEW d \in Deliveries, Held(d), d[1] \notin expired PROVE stream'[d[1]] = stream[d[1]]
        BY <1>1, <1>2, <3>1, <3>3, DeliveryParts DEF PullInvariant, HeldIsDelivered, TypeOK
      <3> QED
        BY <1>1, <3>1, <3>2, <3>3, HeldFrame
    <2>2. CASE Expire(m)
      <3>1. expired' = expired \cup {m}
        BY <2>2 DEF Expire
      <3>2. ASSUME NEW d \in Deliveries, d[1] # m PROVE stream'[d[1]] = stream[d[1]]
        BY <1>1, <1>2, <3>2, DeliveryParts DEF TypeOK
      <3> QED
        BY <1>1, <3>1, <3>2, QuietHands, HeldFrame
    <2> QED
      BY <2>1, <2>2
  <1> QED
    BY <1>1, <1>3, <1>4, <1>5, <1>6, QuietHands DEF PullInvariant

\* Starting, planning, failing, closing and cancelling move no delivery.
LEMMA FetcherInvariant ==
    ASSUME PullInvariant,
           StopFetching \/ UpdatePlan \/ FetchFails \/ CloseJobs \/ Cancel
    PROVE  PullInvariant'
  <1>1. TypeOK /\ UNCHANGED <<server, batch, jobs, worker, handled>>
    BY DEF PullInvariant, StopFetching, UpdatePlan, FetchFails, CloseJobs, Cancel
  <1>2. TypeOK'
    BY <1>1 DEF TypeOK, server, worker, plan, Tiers, ResolvePullPlan, StopFetching, UpdatePlan,
                FetchFails, CloseJobs, Cancel
  <1>3. AckedWasHandled' /\ AckFollowsHandler' /\ DeliveriesLeft'
    BY <1>1 DEF PullInvariant, AckedWasHandled, AckFollowsHandler, DeliveriesLeft, server, worker
  <1>5. HeldIsDelivered'
    BY <1>1, QuietHands, HeldFrame DEF server
  <1> QED
    BY <1>1, <1>2, <1>3, <1>5, QuietHands DEF PullInvariant

\* Create and Restart give up whatever the workers held.
LEMMA LifecycleInvariant ==
    ASSUME PullInvariant, Create \/ Restart
    PROVE  PullInvariant'
  <1>1. /\ TypeOK /\ UNCHANGED <<server, handled>>
        /\ \A w \in Workers : at'[w] \in {"idle", "gone"}
        /\ batch' \subseteq batch /\ jobs' \subseteq jobs /\ jobs' \in {jobs, {}} /\ batch' \in {batch, {}}
    BY DEF PullInvariant, Create, Restart
  <1>2. TypeOK'
    <2>1. Cardinality(jobs') <= QueueSize
      BY <1>1, FS_EmptySet DEF TypeOK
    <2>2. at' \in [Workers -> Labels] /\ item' \in [Workers -> Deliveries]
      BY <1>1, NoItemIsDelivery DEF Create, Restart, TypeOK, Labels
    <2>3. fetcher' \in {"none", "loop", "fetch", "dispatch", "wait", "closed"} /\ tier' \in Tiers
          /\ cancelled' \in BOOLEAN
      BY <1>1 DEF Create, Restart, TypeOK, Tiers
    <2> QED
      BY <1>1, <2>1, <2>2, <2>3 DEF TypeOK, server, Labels
  <1>3. AckedWasHandled' /\ AckFollowsHandler' /\ DeliveriesLeft'
    BY <1>1 DEF PullInvariant, AckedWasHandled, AckFollowsHandler, DeliveriesLeft, server
  <1>5. DeliveryHeldOnce'
    BY <1>1 DEF PullInvariant, DeliveryHeldOnce, Busy
  <1>6. \A d \in Deliveries : Held(d)' => Held(d)
    BY <1>1 DEF Held, Busy
  <1>7. HeldIsDelivered'
    BY <1>1, <1>6, HeldFrame DEF server
  <1> QED
    BY <1>2, <1>3, <1>5, <1>7 DEF PullInvariant

\* A fetched message is delivered under a number nobody holds yet.
LEMMA FetchInvariant ==
    ASSUME PullInvariant, Fetch
    PROVE  PullInvariant'
  <1>1. PICK some \in SUBSET Ready :
           /\ stream' = [m \in Messages |-> IF m \in some THEN "out" ELSE stream[m]]
           /\ deliveries' = [m \in Messages |->
                                IF m \in some THEN deliveries[m] + 1 ELSE deliveries[m]]
           /\ \/ batch' = {<<m, deliveries[m] + 1>> : m \in some} /\ fetcher' = "dispatch"
              \/ fetcher' = "loop" /\ UNCHANGED batch
    BY DEF Fetch
  <1>2. TypeOK /\ UNCHANGED <<expired, tier, jobs, worker, handled, cancelled>>
    BY DEF PullInvariant, Fetch
  <1>3. \A m \in some : m \in Messages /\ stream[m] = "ready" /\ deliveries[m] < MaxDeliver
    BY DEF PullInvariant, DeliveriesLeft, Ready
  <1>4. ASSUME NEW d \in batch' \ batch
        PROVE  d[1] \in some /\ d[2] = deliveries[d[1]] + 1 /\ d = <<d[1], d[2]>>
    <2>1. batch' = {<<m, deliveries[m] + 1>> : m \in some}
      BY <1>1
    <2>2. PICK m \in some : d = <<m, deliveries[m] + 1>>
      BY <2>1
    <2> QED
      BY <2>2
  <1>5. TypeOK'
    <2>1. /\ stream' \in [Messages -> {"unpublished", "ready", "out", "acked", "exhausted"}]
          /\ deliveries' \in [Messages -> 0..MaxDeliver]
      BY <1>1, <1>2, <1>3 DEF TypeOK
    <2>2. batch' \subseteq Deliveries
      BY <1>2, <1>3, <1>4 DEF TypeOK, Deliveries
    <2> QED
      BY <1>1, <1>2, <2>1, <2>2 DEF TypeOK, worker
  <1>6. AckedWasHandled' /\ AckFollowsHandler' /\ DeliveriesLeft'
    BY <1>1, <1>2
    DEF PullInvariant, AckedWasHandled, AckFollowsHandler, DeliveriesLeft, worker
  <1>7. ASSUME NEW d \in Deliveries, Held(d)
        PROVE  /\ d[2] <= deliveries[d[1]] /\ d[2] <= deliveries'[d[1]]
               /\ d[1] \notin expired =>
                     d[1] \notin some /\ d[2] = deliveries'[d[1]] /\ stream'[d[1]] = "out"
    <2>1. d[1] \in Messages /\ d[2] \in Nat /\ deliveries[d[1]] \in Nat
      BY <1>2, DeliveryParts DEF TypeOK
    <2>2. /\ d[2] <= deliveries[d[1]]
          /\ d[1] \notin expired => d[2] = deliveries[d[1]] /\ stream[d[1]] = "out"
      BY <1>7 DEF PullInvariant, HeldIsDelivered
    <2> QED
      BY <1>1, <1>3, <2>1, <2>2
  <1>8. \A d \in batch' \ batch : d \in Deliveries /\ ~Held(d)
    <2> SUFFICES ASSUME NEW d \in batch' \ batch PROVE d \in Deliveries /\ ~Held(d)
      OBVIOUS
    <2>1. d[1] \in some /\ d[2] = deliveries[d[1]] + 1 /\ d \in Deliveries
      BY <1>4, <1>5 DEF TypeOK
    <2>2. deliveries[d[1]] \in Nat
      BY <1>2, <1>3, <2>1 DEF TypeOK
    <2> QED
      BY <1>7, <2>1, <2>2
  <1>9. DeliveryHeldOnce'
    BY <1>2, <1>8
    DEF PullInvariant, DeliveryHeldOnce, Held, Busy, worker
  <1>10. HeldIsDelivered'
    <2> SUFFICES ASSUME NEW d \in Deliveries, Held(d)'
                 PROVE  /\ d[2] <= deliveries'[d[1]]
                        /\ d[1] \notin expired => d[2] = deliveries'[d[1]] /\ stream'[d[1]] = "out"
      BY <1>2 DEF HeldIsDelivered
    <2>1. CASE Held(d)
      BY <1>7, <2>1
    <2>2. CASE ~Held(d)
      <3>1. d \in batch' \ batch
        BY <1>2, <2>2 DEF Held, Busy, worker
      <3>2. d[1] \in some /\ d[2] = deliveries[d[1]] + 1
        BY <1>4, <3>1
      <3>3. stream'[d[1]] = "out" /\ deliveries'[d[1]] = deliveries[d[1]] + 1
            /\ deliveries[d[1]] \in Nat
        BY <1>1, <1>2, <1>3, <3>2 DEF TypeOK
      <3> QED
        BY <3>2, <3>3
    <2> QED
      BY <2>1, <2>2
  <1> QED
    BY <1>5, <1>6, <1>9, <1>10 DEF PullInvariant

\* A delivery handed over leaves the batch, and a dropped batch is held by nobody.
LEMMA DispatchInvariant ==
    ASSUME PullInvariant, HandOver \/ DropBatch
    PROVE  PullInvariant'
  <1>1. TypeOK /\ UNCHANGED <<server, tier, worker, handled, cancelled>>
        /\ fetcher' \in {"loop", "dispatch", "wait"}
    BY DEF PullInvariant, HandOver, DropBatch
  <1>2. AckedWasHandled' /\ AckFollowsHandler' /\ DeliveriesLeft'
    BY <1>1 DEF PullInvariant, AckedWasHandled, AckFollowsHandler, DeliveriesLeft,
                server, worker
  <1>3. CASE HandOver
    <2>1. PICK d \in batch : jobs' = jobs \cup {d} /\ batch' = batch \ {d}
      BY <1>3 DEF HandOver
    <2>2. Cardinality(jobs') <= QueueSize
      <3>1. IsFiniteSet(jobs) /\ Cardinality(jobs) \in Nat
        BY <1>1, JobsAreFinite
      <3>2. Cardinality(jobs') = IF d \in jobs THEN Cardinality(jobs) ELSE Cardinality(jobs) + 1
        BY <2>1, <3>1, FS_AddElement
      <3>3. Cardinality(jobs) < QueueSize /\ QueueSize \in Nat
        BY <1>3 DEF HandOver
      <3> QED
        BY <3>1, <3>2, <3>3
    <2>3. TypeOK'
      BY <1>1, <2>1, <2>2 DEF TypeOK, server, worker
    <2>4. DeliveryHeldOnce' /\ \A e \in Deliveries : Held(e)' => Held(e)
      BY <1>1, <2>1 DEF PullInvariant, DeliveryHeldOnce, Held, Busy, worker
    <2>5. HeldIsDelivered'
      BY <1>1, <2>4, HeldFrame DEF server
    <2> QED
      BY <1>2, <2>3, <2>4, <2>5 DEF PullInvariant
  <1>4. CASE DropBatch
    <2>1. batch' = {} /\ UNCHANGED jobs
      BY <1>4 DEF DropBatch
    <2>2. TypeOK'
      BY <1>1, <2>1 DEF TypeOK, server, worker
    <2>3. DeliveryHeldOnce' /\ \A e \in Deliveries : Held(e)' => Held(e)
      BY <1>1, <2>1 DEF PullInvariant, DeliveryHeldOnce, Held, Busy, worker
    <2>4. HeldIsDelivered'
      BY <1>1, <2>3, HeldFrame DEF server
    <2> QED
      BY <1>2, <2>2, <2>3, <2>4 DEF PullInvariant
  <1> QED
    BY <1>3, <1>4

-----------------------------------------------------------------------------
(* The workers.                                                            *)

\* A worker that takes a job takes it out of the channel.
LEMMA TakeJobInvariant ==
    ASSUME PullInvariant, NEW w \in Workers, TakeJob(w)
    PROVE  PullInvariant'
  <1>1. /\ TypeOK /\ at[w] = "idle" /\ at' = [at EXCEPT ![w] = "handle"]
        /\ UNCHANGED <<server, plan, batch, handled, cancelled>>
    BY DEF PullInvariant, TakeJob, Goto
  <1>2. PICK d \in jobs : jobs' = jobs \ {d} /\ item' = [item EXCEPT ![w] = d]
    BY DEF TakeJob
  <1>3. /\ at'[w] = "handle" /\ item'[w] = d
        /\ \A v \in Workers \ {w} : at'[v] = at[v] /\ item'[v] = item[v]
    BY <1>1, <1>2 DEF TypeOK
  <1>4. Cardinality(jobs') <= QueueSize
    <2>1. Cardinality(jobs') = Cardinality(jobs) - 1 /\ Cardinality(jobs) \in Nat
      BY <1>1, <1>2, JobsAreFinite, FS_RemoveElement
    <2> QED
      BY <1>1, <2>1 DEF TypeOK
  <1>5. TypeOK'
    BY <1>1, <1>2, <1>4 DEF TypeOK, server, plan
  <1>6. AckedWasHandled' /\ AckFollowsHandler' /\ DeliveriesLeft'
    BY <1>1, <1>3
    DEF PullInvariant, AckedWasHandled, AckFollowsHandler, DeliveriesLeft, server, plan
  <1>7. DeliveryHeldOnce'
    BY <1>1, <1>2, <1>3 DEF PullInvariant, DeliveryHeldOnce, Busy
  <1>8. \A e \in Deliveries : Held(e)' => Held(e)
    BY <1>1, <1>2, <1>3 DEF Held, Busy
  <1>9. HeldIsDelivered'
    BY <1>1, <1>8, HeldFrame DEF server
  <1> QED
    BY <1>5, <1>6, <1>7, <1>9 DEF PullInvariant

\* A worker that leaves or learns how its handler ended keeps what it held.
LEMMA HandlerInvariant ==
    ASSUME PullInvariant, NEW w \in Workers,
           Leave(w) \/ HandlerSucceeds(w) \/ HandlerFails(w)
    PROVE  PullInvariant'
  <1>1. PICK l \in {"gone", "ack", "nak"} :
           /\ at' = [at EXCEPT ![w] = l]
           /\ l = "gone" \/ at[w] = "handle"
           /\ l = "ack" => handled' = handled \cup {item[w][1]}
    BY DEF Leave, HandlerSucceeds, HandlerFails, Goto
  <1>2. /\ TypeOK /\ UNCHANGED <<server, plan, batch, jobs, item, cancelled>>
        /\ handled \subseteq handled' /\ handled' \subseteq handled \cup {item[w][1]}
        /\ item[w] \in Deliveries
    BY DEF PullInvariant, Leave, HandlerSucceeds, HandlerFails, TypeOK
  <1>3. at'[w] = l /\ \A v \in Workers \ {w} : at'[v] = at[v]
    BY <1>1, <1>2 DEF TypeOK
  <1>4. TypeOK'
    BY <1>1, <1>2, DeliveryParts DEF TypeOK, server, plan
  <1>5. AckedWasHandled' /\ AckFollowsHandler' /\ DeliveriesLeft'
    BY <1>1, <1>2, <1>3
    DEF PullInvariant, AckedWasHandled, AckFollowsHandler, DeliveriesLeft, server
  <1>7. DeliveryHeldOnce'
    BY <1>1, <1>2, <1>3 DEF PullInvariant, DeliveryHeldOnce, Busy
  <1>8. \A d \in Deliveries : Held(d)' => Held(d)
    BY <1>1, <1>2, <1>3 DEF Held, Busy
  <1>9. HeldIsDelivered'
    BY <1>2, <1>8, HeldFrame DEF server
  <1> QED
    BY <1>4, <1>5, <1>7, <1>9 DEF PullInvariant

\* A worker gives up its delivery with the acknowledgement, so that nobody holds
\* a message of which no acknowledgement is awaited.
LEMMA AcknowledgeInvariant ==
    ASSUME PullInvariant, NEW w \in Workers, Ack(w) \/ Nak(w)
    PROVE  PullInvariant'
  <1> DEFINE m == item[w][1]
  <1>1. /\ TypeOK /\ at' = [at EXCEPT ![w] = "idle"] /\ item' = [item EXCEPT ![w] = NoItem]
        /\ at[w] \in {"ack", "nak"} /\ item[w] \in Deliveries /\ m \in Messages
        /\ UNCHANGED <<deliveries, expired, plan, batch, jobs, handled, cancelled>>
    BY DeliveryParts DEF PullInvariant, Ack, Nak, Goto, TypeOK
  <1>2. /\ at'[w] = "idle" /\ item'[w] = NoItem
        /\ \A v \in Workers \ {w} : at'[v] = at[v] /\ item'[v] = item[v]
    BY <1>1 DEF TypeOK
  <1>3. PICK x \in {"acked", "ready", "exhausted", stream[m]} :
           /\ stream' = [stream EXCEPT ![m] = x]
           /\ x = "acked" => at[w] = "ack" \/ x = stream[m]
           /\ x = "ready" => deliveries[m] < MaxDeliver \/ x = stream[m]
    BY <1>1 DEF Ack, Nak, Goto, Redeliverable, TypeOK
  <1>4. TypeOK'
    BY <1>1, <1>3, NoItemIsDelivery DEF TypeOK, plan
  <1>5. AckedWasHandled' /\ AckFollowsHandler'
    BY <1>1, <1>2, <1>3 DEF PullInvariant, AckedWasHandled, AckFollowsHandler, TypeOK
  <1>6. DeliveriesLeft'
    BY <1>1, <1>2, <1>3 DEF PullInvariant, DeliveriesLeft, plan, TypeOK
  <1>7. DeliveryHeldOnce'
    BY <1>1, <1>2 DEF PullInvariant, DeliveryHeldOnce, Busy
  <1>8. ASSUME NEW d \in Deliveries, Held(d)'
        PROVE  Held(d) /\ d # item[w]
    BY <1>1, <1>2, <1>8 DEF PullInvariant, DeliveryHeldOnce, Held, Busy
  <1>9. ASSUME NEW d \in Deliveries, Held(d), d # item[w], d[1] \notin expired
        PROVE  stream'[d[1]] = stream[d[1]]
    <2>1. Held(item[w])
      BY <1>1 DEF Held, Busy
    <2>2. d[1] = m => d = item[w]
      BY <1>1, <1>9, <2>1, DeliveryParts DEF PullInvariant, HeldIsDelivered
    <2> QED
      BY <1>1, <1>3, <1>9, <2>2, DeliveryParts DEF TypeOK
  <1>10. HeldIsDelivered'
    BY <1>1, <1>8, <1>9, HeldFrame
  <1> QED
    BY <1>4, <1>5, <1>6, <1>7, <1>10 DEF PullInvariant

-----------------------------------------------------------------------------
(* The invariant.                                                          *)

\* The initial state satisfies the invariant: nothing is published or held.
LEMMA InitInvariant == Init => PullInvariant
  <1> SUFFICES ASSUME Init PROVE PullInvariant
    OBVIOUS
  <1>1. TypeOK
    <2>1. Cardinality(jobs) <= QueueSize
      BY FS_EmptySet DEF Init
    <2>2. item \in [Workers -> Deliveries]
      BY NoItemIsDelivery DEF Init
    <2>3. deliveries \in [Messages -> 0..MaxDeliver]
      BY DEF Init
    <2> QED
      BY <2>1, <2>2, <2>3 DEF Init, TypeOK, Tiers
  <1>2. DeliveriesLeft /\ AckedWasHandled /\ AckFollowsHandler
    BY DEF Init, DeliveriesLeft, AckedWasHandled, AckFollowsHandler
  <1>3. DeliveryHeldOnce /\ HeldIsDelivered
    BY DEF Init, DeliveryHeldOnce, HeldIsDelivered, Held, Busy
  <1> QED
    BY <1>1, <1>2, <1>3 DEF PullInvariant

\* Every step preserves the invariant.
LEMMA NextInvariant == PullInvariant /\ [Next]_vars => PullInvariant'
  <1> SUFFICES ASSUME PullInvariant, [Next]_vars PROVE PullInvariant'
    OBVIOUS
  <1>1. ASSUME NEW m \in Messages, Publish(m) \/ Expire(m) PROVE PullInvariant'
    BY <1>1, StreamInvariant
  <1>2. CASE RunFetcher \/ Cancel \/ Restart
    BY <1>2, FetcherInvariant, LifecycleInvariant, FetchInvariant, DispatchInvariant DEF RunFetcher
  <1>3. ASSUME NEW w \in Workers, RunWorker(w) PROVE PullInvariant'
    BY <1>3, TakeJobInvariant, HandlerInvariant, AcknowledgeInvariant DEF RunWorker
  <1>4. CASE UNCHANGED vars
    <2>1. UNCHANGED <<server, plan, batch, jobs, worker, handled, cancelled>>
      BY <1>4 DEF vars
    <2>2. TypeOK' /\ DeliveriesLeft' /\ AckedWasHandled' /\ AckFollowsHandler'
      BY <2>1 DEF PullInvariant, TypeOK, DeliveriesLeft, AckedWasHandled, AckFollowsHandler,
                  server, plan, worker
    <2>3. HeldIsDelivered'
      BY <2>1, QuietHands, HeldFrame DEF server
    <2> QED
      BY <2>1, <2>2, <2>3, QuietHands DEF PullInvariant
  <1> QED
    BY <1>1, <1>2, <1>3, <1>4 DEF Next

\* The consumer's deliveries, acknowledgements and channel fit together in every
\* reachable state: the inductive invariant of the pull consumer.
THEOREM PullConsumerIsConsistent == Spec => []PullInvariant
  BY InitInvariant, NextInvariant, PTL DEF Spec

\* No message is acknowledged without a handler that succeeded on it.
THEOREM AcknowledgedMessagesWereHandled == Spec => []AckedWasHandled
  <1>1. PullInvariant => AckedWasHandled
    BY DEF PullInvariant
  <1> QED
    BY <1>1, PullConsumerIsConsistent, PTL

\* A delivery is in the batch, in the channel or with one worker.
THEOREM DeliveriesAreHeldOnce == Spec => []DeliveryHeldOnce
  <1>1. PullInvariant => DeliveryHeldOnce
    BY DEF PullInvariant
  <1> QED
    BY <1>1, PullConsumerIsConsistent, PTL

\* Two workers handle one message at once only when AckWait passed for it.
THEOREM OverlapsComeFromExpiry == Spec => []OverlapNeedsExpiry
  <1>1. PullInvariant => OverlapNeedsExpiry
    <2> SUFFICES ASSUME PullInvariant, NEW v \in Workers, NEW w \in Workers, v # w,
                        at[v] = "handle", at[w] = "handle", item[v][1] = item[w][1],
                        item[v][1] \notin expired
                 PROVE  FALSE
      BY DEF OverlapNeedsExpiry
    <2>1. /\ item[v] \in Deliveries /\ item[w] \in Deliveries /\ Held(item[v]) /\ Held(item[w])
          /\ item[v] # item[w]
      BY DEF PullInvariant, TypeOK, Held, Busy, DeliveryHeldOnce
    <2> QED
      BY <2>1, DeliveryParts DEF PullInvariant, HeldIsDelivered
  <1> QED
    BY <1>1, PullConsumerIsConsistent, PTL
=============================================================================
