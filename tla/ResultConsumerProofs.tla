------------------------- MODULE ResultConsumerProofs -------------------------
(***************************************************************************)
(* Every event is handled by one worker at a time and to success at most   *)
(* once, for any number of events, workers, faults and resumptions.        *)
(***************************************************************************)
EXTENDS ResultConsumer, TLAPS

USE DEF WorkerLabels, LoopLabels

\* A move of one worker keeps the labels well typed.
LEMMA GotoType ==
    ASSUME TypeOK, NEW w \in Workers, NEW l \in WorkerLabels,
           at' = [at EXCEPT ![w] = l]
    PROVE  at' \in [Workers -> WorkerLabels]
  BY DEF TypeOK

\* A message keeps its type when its attempt is counted.
LEMMA RetriedMessage ==
    ASSUME NEW m \in Messages
    PROVE  /\ m.event \in Events \cup {Empty}
           /\ m.attempt \in Nat \ {0}
           /\ m.offset \in Nat
           /\ [m EXCEPT !.attempt = @ + 1] \in Messages
  BY DEF Messages

\* What a worker holds is a message.
LEMMA HeldMessage ==
    ASSUME TypeOK, NEW w \in Workers
    PROVE  item[w] \in Messages
  BY DEF TypeOK

\* The zero message of a closed channel is a message.
LEMMA EmptyIsMessage == EmptyMessage \in Messages
  BY DEF EmptyMessage, Messages

\* The initial state satisfies the invariant: nothing is claimed or held.
LEMMA InitInvariant == Init => ConsumerInvariant
  <1> SUFFICES ASSUME Init PROVE ConsumerInvariant
    OBVIOUS
  <1>1. TypeOK
    <2>1. log \in Seq(Messages) /\ retries \in Seq(Messages) /\ jobs \in Seq(Messages)
      BY DEF Init
    <2>2. at \in [Workers -> WorkerLabels] /\ item \in [Workers -> Messages]
      BY EmptyIsMessage DEF Init
    <2>3. finished \in [Events -> Nat]
      BY DEF Init
    <2>4. produced \in 0..MaxProduced /\ resumes \in 0..MaxResumes
      BY ConsumerAssumption DEF Init
    <2> QED
      BY <2>1, <2>2, <2>3, <2>4 DEF Init, TypeOK
  <1>2. HandOverInLog /\ OneHandlerPerEvent /\ HandlerHoldsClaim /\ FinishedStaysClaimed
    BY DEF Init, HandOverInLog, OneHandlerPerEvent, HandlerHoldsClaim,
           FinishedStaysClaimed, Holding
  <1> QED
    BY <1>1, <1>2 DEF ConsumerInvariant

\* The claims are undisturbed by a step that gives up none of them, and starts
\* and finishes no handler.
LEMMA QuietClaims ==
    ASSUME ConsumerInvariant, UNCHANGED finished, claimed \subseteq claimed',
           \A w \in Workers : Holding(w)' => Holding(w) /\ item'[w] = item[w]
    PROVE  OneHandlerPerEvent' /\ HandlerHoldsClaim' /\ FinishedStaysClaimed'
  BY DEF ConsumerInvariant, OneHandlerPerEvent, HandlerHoldsClaim,
         FinishedStaysClaimed

-----------------------------------------------------------------------------
(* The topic and the consuming goroutine.                                  *)

\* Publishing and redelivering append a message and disturb nothing else.
LEMMA AppendInvariant ==
    ASSUME ConsumerInvariant, Redeliver \/ \E e \in Events : Produce(e)
    PROVE  ConsumerInvariant'
  <1>1. TypeOK'
    <2>1. ASSUME NEW e \in Events, Produce(e) PROVE TypeOK'
      <3>1. [event |-> e, attempt |-> 1, offset |-> Len(log) + 1] \in Messages
        BY DEF Messages, ConsumerInvariant, TypeOK
      <3>2. log' \in Seq(Messages)
        BY <2>1, <3>1 DEF Produce, AppendToLog, ConsumerInvariant, TypeOK
      <3>3. produced' \in 0..MaxProduced
        BY <2>1, ConsumerAssumption DEF Produce, ConsumerInvariant, TypeOK
      <3> QED
        BY <2>1, <3>2, <3>3
           DEF Produce, ConsumerInvariant, TypeOK, store, reader
    <2>2. CASE Redeliver
      <3> DEFINE m == Head(retries)
      <3>1. m \in Messages /\ Tail(retries) \in Seq(Messages)
        BY <2>2 DEF Redeliver, ConsumerInvariant, TypeOK
      <3>2. [event |-> m.event, attempt |-> m.attempt, offset |-> Len(log) + 1] \in Messages
        BY <3>1, RetriedMessage DEF Messages, ConsumerInvariant, TypeOK
      <3>3. log' \in Seq(Messages)
        BY <2>2, <3>2 DEF Redeliver, AppendToLog, ConsumerInvariant, TypeOK
      <3> QED
        BY <2>2, <3>1, <3>3
           DEF Redeliver, ConsumerInvariant, TypeOK, store, reader, bounds
    <2> QED
      BY <2>1, <2>2
  <1>2. HandOverInLog'
    <2>1. PICK e, n : AppendToLog(e, n) /\ UNCHANGED reader
      BY DEF Produce, Redeliver
    <2>2. Len(log') = Len(log) + 1 /\ Len(log) \in Nat
      BY <2>1 DEF AppendToLog, ConsumerInvariant, TypeOK
    <2> QED
      BY <2>1, <2>2 DEF HandOverInLog, reader, ConsumerInvariant, TypeOK
  <1>3. OneHandlerPerEvent' /\ HandlerHoldsClaim' /\ FinishedStaysClaimed'
    <2>1. UNCHANGED <<store, at, item>>
      BY DEF Produce, Redeliver
    <2> QED
      BY <2>1, QuietClaims DEF Holding, store
  <1> QED
    BY <1>1, <1>2, <1>3 DEF ConsumerInvariant

\* A step of the consuming goroutine that leaves the workers alone.
LEMMA LoopInvariant ==
    ASSUME ConsumerInvariant,
           FetchMessage \/ HandOver \/ StopConsuming \/ ConsumerReturns
    PROVE  ConsumerInvariant'
  <1>1. TypeOK' /\ HandOverInLog'
    <2>1. CASE FetchMessage
      <3>1. position + 1 \in 1..Len(log)
        BY <2>1 DEF FetchMessage, ConsumerInvariant, TypeOK
      <3> QED
        BY <2>1, <3>1
           DEF FetchMessage, ConsumerInvariant, TypeOK, HandOverInLog, topic, store, bounds
    <2>2. CASE HandOver
      <3>1. log[position] \in Messages
        BY <2>2 DEF HandOver, ConsumerInvariant, TypeOK, HandOverInLog
      <3>2. jobs' \in Seq(Messages)
        BY <2>2, <3>1 DEF HandOver, ConsumerInvariant, TypeOK
      <3> QED
        BY <2>2, <3>2
           DEF HandOver, ConsumerInvariant, TypeOK, HandOverInLog, topic, store, bounds
    <2>3. CASE StopConsuming \/ ConsumerReturns
      BY <2>3 DEF StopConsuming, ConsumerReturns, ConsumerInvariant, TypeOK,
                  HandOverInLog, topic, store, bounds
    <2> QED
      BY <2>1, <2>2, <2>3
  <1>2. UNCHANGED <<store, at, item>>
    BY DEF FetchMessage, HandOver, StopConsuming, ConsumerReturns
  <1> QED
    BY <1>1, <1>2, QuietClaims DEF Holding, ConsumerInvariant, store

\* A fresh consumer holds nothing; what was claimed stays claimed.
LEMMA ResumeInvariant ==
    ASSUME ConsumerInvariant, Resume \/ Restart
    PROVE  ConsumerInvariant'
  <1>1. FreshConsumer(committed) /\ resumes < MaxResumes /\ resumes' = resumes + 1
        /\ UNCHANGED <<topic, store, produced>>
    BY DEF Resume, Restart
  <1>2. TypeOK' /\ HandOverInLog'
    <2>1. jobs' \in Seq(Messages)
      BY <1>1 DEF FreshConsumer
    <2>2. at' \in [Workers -> WorkerLabels] /\ item' \in [Workers -> Messages]
      BY <1>1, EmptyIsMessage DEF FreshConsumer
    <2>3. resumes' \in 0..MaxResumes
      BY <1>1, ConsumerAssumption DEF ConsumerInvariant, TypeOK
    <2> QED
      BY <1>1, <2>1, <2>2, <2>3
         DEF FreshConsumer, ConsumerInvariant, TypeOK, HandOverInLog, topic, store
  <1>3. \A w \in Workers : ~Holding(w)'
    BY <1>1 DEF FreshConsumer, Holding
  <1> QED
    BY <1>1, <1>2, <1>3, QuietClaims DEF ConsumerInvariant, store
-----------------------------------------------------------------------------
(* The workers.                                                            *)

\* Moves that hold no claim before or after, or keep what they hold.
LEMMA QuietWorkInvariant ==
    ASSUME ConsumerInvariant, NEW w \in Workers,
           \/ TakeJob(w) \/ TakeEmpty(w) \/ Leave(w) \/ ClaimFails(w)
           \/ HandlerFails(w) \/ EnqueueRetry(w) \/ WriteDeadLetter(w)
           \/ CommitMessage(w) \/ WorkerStops(w)
    PROVE  ConsumerInvariant'
  <1> DEFINE m == item[w]
  <1>0. TypeOK /\ HandOverInLog
    BY DEF ConsumerInvariant
  <1>1. m \in Messages
    BY <1>0, HeldMessage
  <1>2. PICK l \in WorkerLabels :
          /\ at' = [at EXCEPT ![w] = l]
          /\ l \in {"handle", "release"} => Holding(w) /\ item' = item
    BY DEF TakeJob, TakeEmpty, Leave, ClaimFails, HandlerFails, EnqueueRetry,
           WriteDeadLetter, CommitMessage, WorkerStops, Write, Goto, AfterFailure, Holding
  <1>3. at' \in [Workers -> WorkerLabels]
    BY <1>0, <1>2, GotoType
  <1>4. /\ UNCHANGED <<finished, log, reader, bounds>>
        /\ claimed \subseteq claimed' /\ claimed' \subseteq claimed \cup {m.event}
    BY DEF TakeJob, TakeEmpty, Leave, ClaimFails, HandlerFails, EnqueueRetry,
           WriteDeadLetter, CommitMessage, WorkerStops, topic, store
  <1>5. /\ item' \in [Workers -> Messages] /\ jobs' \in Seq(Messages)
        /\ \A v \in Workers \ {w} : item'[v] = item[v]
    <2>1. CASE TakeJob(w)
      <3>1. Head(jobs) \in Messages /\ Tail(jobs) \in Seq(Messages)
        BY <1>0, <2>1 DEF TakeJob, TypeOK
      <3> QED
        BY <1>0, <2>1, <3>1 DEF TakeJob, TypeOK
    <2>2. CASE TakeEmpty(w)
      BY <1>0, <2>2, EmptyIsMessage DEF TakeEmpty, TypeOK
    <2>3. CASE UNCHANGED <<item, jobs>>
      BY <1>0, <2>3 DEF TypeOK
    <2> QED
      BY <2>1, <2>2, <2>3
         DEF Leave, ClaimFails, HandlerFails, EnqueueRetry, WriteDeadLetter,
             CommitMessage, WorkerStops
  <1>6. retries' \in Seq(Messages) /\ dead' \subseteq Events \cup {Empty}
        /\ committed' \in Nat /\ cancelled' \in BOOLEAN
    <2>1. CASE EnqueueRetry(w)
      <3>1. [m EXCEPT !.attempt = @ + 1] \in Messages
        BY <1>1, RetriedMessage
      <3>2. cancelled' \in BOOLEAN
        BY <1>0, <2>1 DEF EnqueueRetry, Write, TypeOK
      <3> QED
        BY <1>0, <2>1, <3>1, <3>2 DEF EnqueueRetry, TypeOK
    <2>2. CASE WriteDeadLetter(w)
      BY <1>0, <1>1, <2>2, RetriedMessage DEF WriteDeadLetter, Write, TypeOK
    <2>3. CASE CommitMessage(w)
      BY <1>0, <1>1, <2>3, RetriedMessage DEF CommitMessage, Write, TypeOK
    <2>4. CASE UNCHANGED topic /\ cancelled' \in {cancelled, TRUE}
      BY <1>0, <2>4 DEF TypeOK, topic
    <2> QED
      BY <2>1, <2>2, <2>3, <2>4
         DEF TakeJob, TakeEmpty, Leave, ClaimFails, HandlerFails, WorkerStops
  <1>7. TypeOK' /\ HandOverInLog'
    <2>1. claimed' \subseteq Events \cup {Empty}
      BY <1>0, <1>1, <1>4, RetriedMessage DEF TypeOK
    <2> QED
      BY <1>0, <1>3, <1>4, <1>5, <1>6, <2>1 DEF TypeOK, HandOverInLog, reader, bounds
  <1>8. \A v \in Workers : Holding(v)' => Holding(v) /\ item'[v] = item[v]
    BY <1>0, <1>2, <1>5 DEF Holding, TypeOK
  <1> QED
    BY <1>4, <1>7, <1>8, QuietClaims DEF ConsumerInvariant

\* A worker starts a handler only for an event nobody has claimed.
LEMMA ClaimInvariant ==
    ASSUME ConsumerInvariant, NEW w \in Workers, ClaimEvent(w)
    PROVE  ConsumerInvariant'
  <1> DEFINE e == item[w].event
  <1>0. TypeOK /\ HandOverInLog /\ OneHandlerPerEvent /\ HandlerHoldsClaim
        /\ FinishedStaysClaimed
    BY DEF ConsumerInvariant
  <1>1. e \in Events \cup {Empty}
    BY <1>0, HeldMessage, RetriedMessage
  <1>2. PICK l \in {"commit", "handle"} :
          at' = [at EXCEPT ![w] = l] /\ (l = "handle" => e \notin claimed)
    BY DEF ClaimEvent, Goto
  <1>3. TypeOK' /\ HandOverInLog'
    <2>1. at' \in [Workers -> WorkerLabels]
      BY <1>0, <1>2, GotoType
    <2> QED
      BY <1>0, <1>1, <2>1 DEF ClaimEvent, TypeOK, HandOverInLog, topic, reader, bounds
  <1>4. /\ UNCHANGED <<item, finished>> /\ claimed' = claimed \cup {e}
        /\ \A v \in Workers : Holding(v)' => Holding(v) \/ (v = w /\ e \notin claimed)
    BY <1>0, <1>2 DEF ClaimEvent, Holding, TypeOK
  <1> QED
    BY <1>0, <1>3, <1>4
       DEF ConsumerInvariant, OneHandlerPerEvent, HandlerHoldsClaim, FinishedStaysClaimed

\* A success is counted by the only worker that holds the event, and ends its
\* hold.
LEMMA SuccessInvariant ==
    ASSUME ConsumerInvariant, NEW w \in Workers, HandlerSucceeds(w)
    PROVE  ConsumerInvariant'
  <1> DEFINE e == item[w].event
  <1>0. TypeOK /\ HandOverInLog /\ OneHandlerPerEvent /\ HandlerHoldsClaim
        /\ FinishedStaysClaimed
    BY DEF ConsumerInvariant
  <1>1. at' = [at EXCEPT ![w] = "commit"] /\ Holding(w)
    BY DEF HandlerSucceeds, Goto, Holding
  <1>2. TypeOK' /\ HandOverInLog'
    <2>1. at' \in [Workers -> WorkerLabels]
      BY <1>0, <1>1, GotoType
    <2>2. CASE e \in Events
      <3>1. finished[e] + 1 \in Nat
        BY <1>0, <2>2 DEF TypeOK
      <3>2. finished' \in [Events -> Nat]
        BY <1>0, <3>1 DEF HandlerSucceeds, TypeOK
      <3> QED
        BY <1>0, <2>1, <3>2 DEF HandlerSucceeds, TypeOK, HandOverInLog, topic, reader, bounds
    <2>3. CASE e \notin Events
      <3>1. finished' = finished
        BY <1>0, <2>3 DEF HandlerSucceeds, TypeOK
      <3> QED
        BY <1>0, <2>1, <3>1 DEF HandlerSucceeds, TypeOK, HandOverInLog, topic, reader, bounds
    <2> QED
      BY <2>2, <2>3
  <1>3. /\ UNCHANGED <<item, claimed>>
        /\ \A v \in Workers : Holding(v)' => Holding(v) /\ v # w
    BY <1>0, <1>1 DEF HandlerSucceeds, Holding, TypeOK
  <1>4. ASSUME NEW x \in Events
        PROVE  /\ finished'[x] <= 1
               /\ finished'[x] = 1 => /\ x \in claimed
                                      /\ \A v \in Workers : Holding(v)' => item[v].event # x
    <2>1. CASE x = e
      <3>1. finished[x] = 0 /\ finished'[x] = finished[x] + 1
        BY <1>0, <1>1, <2>1 DEF FinishedStaysClaimed, HandlerSucceeds, TypeOK
      <3> QED
        BY <1>0, <1>1, <1>3, <2>1, <3>1 DEF HandlerHoldsClaim, OneHandlerPerEvent
    <2>2. CASE x # e
      <3>1. finished'[x] = finished[x]
        BY <1>0, <2>2 DEF HandlerSucceeds, TypeOK
      <3> QED
        BY <1>0, <1>3, <3>1 DEF FinishedStaysClaimed
    <2> QED
      BY <2>1, <2>2
  <1> QED
    BY <1>0, <1>2, <1>3, <1>4
       DEF ConsumerInvariant, OneHandlerPerEvent, HandlerHoldsClaim, FinishedStaysClaimed

\* A worker gives up the claim of an event that only it holds and that has
\* not been handled.
LEMMA ReleaseInvariant ==
    ASSUME ConsumerInvariant, NEW w \in Workers, ReleaseClaim(w)
    PROVE  ConsumerInvariant'
  <1> DEFINE e == item[w].event
  <1>0. TypeOK /\ HandOverInLog /\ OneHandlerPerEvent /\ HandlerHoldsClaim
        /\ FinishedStaysClaimed
    BY DEF ConsumerInvariant
  <1>1. PICK l \in {"retry", "bury"} : at' = [at EXCEPT ![w] = l]
    BY DEF ReleaseClaim, Goto, AfterFailure
  <1>2. Holding(w)
    BY DEF ReleaseClaim, Goto, Holding
  <1>3. TypeOK' /\ HandOverInLog'
    <2>1. at' \in [Workers -> WorkerLabels]
      BY <1>0, <1>1, GotoType
    <2> QED
      BY <1>0, <2>1 DEF ReleaseClaim, TypeOK, HandOverInLog, topic, reader, bounds
  <1>4. /\ UNCHANGED <<item, finished>>
        /\ claimed' \in {claimed, claimed \ {e}}
        /\ \A v \in Workers : Holding(v)' => Holding(v) /\ v # w
    BY <1>0, <1>1 DEF ReleaseClaim, Holding, TypeOK
  <1> QED
    BY <1>0, <1>2, <1>3, <1>4
       DEF ConsumerInvariant, OneHandlerPerEvent, HandlerHoldsClaim, FinishedStaysClaimed

-----------------------------------------------------------------------------
(* The theorems.                                                           *)

\* Every step preserves the invariant.
LEMMA NextInvariant == ConsumerInvariant /\ [Next]_vars => ConsumerInvariant'
  <1> SUFFICES ASSUME ConsumerInvariant, [Next]_vars PROVE ConsumerInvariant'
    OBVIOUS
  <1>1. CASE Redeliver \/ \E e \in Events : Produce(e)
    BY <1>1, AppendInvariant
  <1>2. CASE Consume \/ StopConsuming \/ Restart
    BY <1>2, LoopInvariant, ResumeInvariant DEF Consume
  <1>3. ASSUME NEW w \in Workers, Work(w) PROVE ConsumerInvariant'
    BY <1>3, QuietWorkInvariant, ClaimInvariant, SuccessInvariant, ReleaseInvariant DEF Work
  <1>4. CASE UNCHANGED vars
    <2>1. UNCHANGED <<topic, store, reader, jobs, at, item, cancelled, bounds>>
      BY <1>4 DEF vars
    <2>2. TypeOK' /\ HandOverInLog'
      BY <2>1 DEF ConsumerInvariant, TypeOK, HandOverInLog, topic, store, reader, bounds
    <2> QED
      BY <2>1, <2>2, QuietClaims DEF Holding, ConsumerInvariant, store
  <1> QED
    BY <1>1, <1>2, <1>3, <1>4 DEF Next

\* The claims in processed_events protect the handlers in every reachable
\* state: the inductive invariant of the consumer.
THEOREM ConsumerIsGuarded == Spec => []ConsumerInvariant
  BY InitInvariant, NextInvariant, PTL DEF Spec

\* However often a result is published, retried, fetched again or handed to
\* two workers, its handler succeeds at most once.
THEOREM ResultsAreHandledOnce == Spec => []HandledOnce
  <1>1. ConsumerInvariant => HandledOnce
    BY DEF ConsumerInvariant, FinishedStaysClaimed, HandledOnce
  <1> QED
    BY <1>1, ConsumerIsGuarded, PTL

\* Two workers never run the handler of one event at the same time.
THEOREM HandlersExcludeEachOther == Spec => []OneHandlerPerEvent
  <1>1. ConsumerInvariant => OneHandlerPerEvent
    BY DEF ConsumerInvariant
  <1> QED
    BY <1>1, ConsumerIsGuarded, PTL

-----------------------------------------------------------------------------
(* A claim that outlives its handler stands for an event that was handled. *)

\* A message of an event is appended, taken and retried as one.
LEMMA EventMessage ==
    ASSUME NEW m \in EventMessages
    PROVE  /\ m \in Messages /\ m.event \in Events
           /\ [m EXCEPT !.attempt = @ + 1] \in EventMessages
  BY DEF EventMessages, Messages

\* A step that claims nothing, and ends no hold, keeps the claims alive.
LEMMA ClaimsStayLive ==
    ASSUME LiveInvariant, UNCHANGED store,
           \A w \in Workers : Holding(w) => Holding(w)' /\ item'[w] = item[w]
    PROVE  ClaimsAreLive'
  BY DEF LiveInvariant, ClaimsAreLive, store

\* The topic and the consuming goroutine handle messages of events only.
LEMMA LoopStaysLive ==
    ASSUME LiveInvariant,
           \/ \E e \in Events : Produce(e)
           \/ Redeliver \/ FetchMessage \/ HandOver \/ StopConsuming \/ ConsumerReturns
    PROVE  ~cancelled' /\ OnlyEventsAreClaimed' /\ ClaimsAreLive'
  <1>0. TypeOK /\ HandOverInLog /\ OnlyEventsAreClaimed /\ ~cancelled
    BY DEF LiveInvariant, ConsumerInvariant
  <1>1. UNCHANGED <<store, at, item, cancelled>>
    BY DEF Produce, Redeliver, FetchMessage, HandOver, StopConsuming, ConsumerReturns
  <1>2. log' \in Seq(EventMessages) /\ retries' \in Seq(EventMessages) /\ jobs' \in Seq(EventMessages)
    <2>1. ASSUME NEW e \in Events, Produce(e)
          PROVE  log' \in Seq(EventMessages) /\ UNCHANGED <<retries, jobs>>
      <3>1. [event |-> e, attempt |-> 1, offset |-> Len(log) + 1] \in EventMessages
        BY <1>0 DEF EventMessages, Messages, TypeOK
      <3> QED
        BY <1>0, <2>1, <3>1 DEF Produce, AppendToLog, OnlyEventsAreClaimed
    <2>2. CASE Redeliver
      <3> DEFINE m == Head(retries)
      <3>1. m \in EventMessages /\ Tail(retries) \in Seq(EventMessages)
        BY <1>0, <2>2 DEF Redeliver, OnlyEventsAreClaimed
      <3>2. [event |-> m.event, attempt |-> m.attempt, offset |-> Len(log) + 1] \in EventMessages
        BY <1>0, <3>1, EventMessage DEF EventMessages, Messages, TypeOK
      <3> QED
        BY <1>0, <2>2, <3>1, <3>2 DEF Redeliver, AppendToLog, OnlyEventsAreClaimed
    <2>3. CASE HandOver
      <3>1. log[position] \in EventMessages
        BY <1>0, <2>3 DEF HandOver, HandOverInLog, OnlyEventsAreClaimed
      <3> QED
        BY <1>0, <2>3, <3>1 DEF HandOver, OnlyEventsAreClaimed, topic
    <2>4. CASE FetchMessage \/ StopConsuming \/ ConsumerReturns
      BY <1>0, <2>4 DEF FetchMessage, StopConsuming, ConsumerReturns, OnlyEventsAreClaimed, topic
    <2> QED
      BY <1>0, <2>1, <2>2, <2>3, <2>4 DEF OnlyEventsAreClaimed
  <1>3. OnlyEventsAreClaimed'
    BY <1>0, <1>1, <1>2 DEF OnlyEventsAreClaimed, Holding
  <1>4. ClaimsAreLive'
    BY <1>1, ClaimsStayLive DEF Holding
  <1> QED
    BY <1>0, <1>1, <1>3, <1>4

\* A worker ends its hold by recording the success or by giving up the claim:
\* nothing has cancelled its context, and the statement does not fail.
LEMMA WorkStaysLive ==
    ASSUME UndisturbedConsumer, LiveInvariant, NEW w \in Workers, Work(w)
    PROVE  ~cancelled' /\ OnlyEventsAreClaimed' /\ ClaimsAreLive'
  <1> DEFINE m == item[w]
             e == item[w].event
  <1>0. TypeOK /\ OnlyEventsAreClaimed /\ ~cancelled /\ ClaimsAreLive
    BY DEF LiveInvariant, ConsumerInvariant
  <1>1. /\ ~Leave(w) /\ ~ClaimFails(w) /\ ~WorkerStops(w)
        /\ ReleaseClaim(w) => claimed' = claimed \ {e}
    BY <1>0 DEF Leave, ClaimFails, WorkerStops, ReleaseClaim, UndisturbedConsumer
  <1>2. CASE TakeJob(w) \/ TakeEmpty(w)
    <2>1. /\ ~Holding(w) /\ ~Holding(w)' /\ UNCHANGED <<store, log, retries, cancelled>>
          /\ \A v \in Workers \ {w} : at'[v] = at[v] /\ item'[v] = item[v]
      BY <1>0, <1>2 DEF TakeJob, TakeEmpty, Goto, Holding, TypeOK, topic
    <2>2. /\ jobs' \in Seq(EventMessages)
          /\ at'[w] = "claim" => item'[w] \in EventMessages
      <3>1. jobs \in Seq(EventMessages)
        BY <1>0 DEF OnlyEventsAreClaimed
      <3>2. CASE TakeJob(w)
        <4>1. Head(jobs) \in EventMessages /\ Tail(jobs) \in Seq(EventMessages)
          BY <3>1, <3>2 DEF TakeJob
        <4>2. item'[w] = Head(jobs)
          BY <1>0, <3>2 DEF TakeJob, TypeOK
        <4> QED
          BY <3>2, <4>1, <4>2 DEF TakeJob
      <3>3. CASE TakeEmpty(w)
        BY <1>0, <3>1, <3>3 DEF TakeEmpty, Goto, TypeOK
      <3> QED
        BY <1>2, <3>2, <3>3
    <2>3. OnlyEventsAreClaimed'
      BY <1>0, <2>1, <2>2 DEF OnlyEventsAreClaimed, Holding
    <2>4. ClaimsAreLive'
      BY <2>1, ClaimsStayLive DEF Holding
    <2> QED
      BY <1>0, <2>1, <2>3, <2>4
  <1>3. CASE EnqueueRetry(w) \/ WriteDeadLetter(w) \/ CommitMessage(w) \/ HandlerFails(w)
    <2>1. PICK l \in {"idle", "commit", "release"} :
            /\ at' = [at EXCEPT ![w] = l] /\ (l = "release" <=> Holding(w))
            /\ UNCHANGED <<store, log, jobs, item, cancelled>>
      BY <1>0, <1>3 DEF EnqueueRetry, WriteDeadLetter, CommitMessage, HandlerFails, Write, UndisturbedConsumer,
                        Goto, Holding, topic
    <2>2. retries' \in Seq(EventMessages)
      <3>1. CASE EnqueueRetry(w) /\ e # Empty
        <4>1. m \in Messages
          BY <1>0, HeldMessage
        <4>2. m.event \in Events
          BY <3>1, <4>1, RetriedMessage
        <4>3. m \in EventMessages
          BY <4>1, <4>2 DEF EventMessages
        <4>4. [m EXCEPT !.attempt = @ + 1] \in EventMessages
          BY <4>3, EventMessage
        <4> QED
          BY <1>0, <3>1, <4>4 DEF EnqueueRetry, OnlyEventsAreClaimed
      <3>2. CASE retries' = retries
        BY <1>0, <3>2 DEF OnlyEventsAreClaimed
      <3> QED
        BY <1>3, <3>1, <3>2 DEF EnqueueRetry, WriteDeadLetter, CommitMessage, HandlerFails, topic
    <2>3. \A v \in Workers : Holding(v)' <=> Holding(v)
      BY <1>0, <2>1 DEF Holding, TypeOK
    <2>4. \A v \in Workers : at'[v] = "claim" => at[v] = "claim"
      BY <1>0, <2>1 DEF TypeOK
    <2>5. OnlyEventsAreClaimed'
      BY <1>0, <2>1, <2>2, <2>3, <2>4 DEF OnlyEventsAreClaimed
    <2>6. ClaimsAreLive'
      BY <2>1, <2>3, ClaimsStayLive
    <2> QED
      BY <1>0, <2>1, <2>5, <2>6
  <1>4. CASE ClaimEvent(w) \/ HandlerSucceeds(w) \/ ReleaseClaim(w)
    <2>1. UNCHANGED <<log, retries, jobs, item, cancelled>> /\ m \in EventMessages
      BY <1>0, <1>4 DEF ClaimEvent, HandlerSucceeds, ReleaseClaim, Goto, Holding, OnlyEventsAreClaimed, topic
    <2>2. \A v \in Workers \ {w} : at'[v] = at[v]
      BY <1>0, <1>4 DEF ClaimEvent, HandlerSucceeds, ReleaseClaim, Goto, TypeOK
    <2>3. OnlyEventsAreClaimed'
      BY <1>0, <2>1, <2>2 DEF OnlyEventsAreClaimed, Holding
    <2>4. ASSUME NEW x \in claimed'
          PROVE  finished'[x] = 1 \/ \E v \in Workers : Holding(v)' /\ item'[v].event = x
      <3>1. CASE ClaimEvent(w) /\ e \notin claimed /\ x = e
        BY <1>0, <2>1, <3>1 DEF ClaimEvent, Goto, Holding, TypeOK
      <3>2. CASE ClaimEvent(w) /\ ~(e \notin claimed /\ x = e)
        <4>1. x \in claimed /\ finished' = finished /\ ~Holding(w)
          BY <2>4, <3>2 DEF ClaimEvent, Goto, Holding
        <4> QED
          BY <1>0, <2>1, <2>2, <4>1 DEF ClaimsAreLive, Holding
      <3>3. CASE HandlerSucceeds(w) /\ x = e
        <4>1. e \in Events /\ Holding(w)
          BY <2>1, <3>3, EventMessage DEF HandlerSucceeds, Goto, Holding
        <4>2. finished[e] = 0
          BY <1>0, <4>1 DEF LiveInvariant, ConsumerInvariant, FinishedStaysClaimed, TypeOK
        <4> QED
          BY <1>0, <3>3, <4>1, <4>2 DEF HandlerSucceeds, TypeOK
      <3>4. CASE HandlerSucceeds(w) /\ x # e
        <4>1. x \in claimed /\ finished'[x] = finished[x]
          BY <1>0, <2>4, <3>4 DEF HandlerSucceeds, TypeOK
        <4>2. finished[x] = 1 \/ \E v \in Workers \ {w} : Holding(v) /\ item[v].event = x
          BY <1>0, <3>4, <4>1 DEF ClaimsAreLive
        <4> QED
          BY <2>1, <2>2, <4>1, <4>2 DEF Holding
      <3>5. CASE ReleaseClaim(w)
        <4>1. x \in claimed /\ x # e /\ finished' = finished
          BY <1>1, <2>4, <3>5 DEF ReleaseClaim
        <4>2. finished[x] = 1 \/ \E v \in Workers \ {w} : Holding(v) /\ item[v].event = x
          BY <1>0, <4>1 DEF ClaimsAreLive
        <4> QED
          BY <2>1, <2>2, <4>1, <4>2 DEF Holding
      <3> QED
        BY <1>4, <3>1, <3>2, <3>3, <3>4, <3>5
    <2>5. ClaimsAreLive'
      BY <2>4 DEF ClaimsAreLive
    <2> QED
      BY <1>0, <2>1, <2>3, <2>5
  <1> QED
    BY <1>1, <1>2, <1>3, <1>4 DEF Work

\* The claims stay alive in every step.
LEMMA ClaimsAreKeptLive == UndisturbedConsumer => (Spec => []LiveInvariant)
  <1> SUFFICES ASSUME UndisturbedConsumer PROVE Spec => []LiveInvariant
    OBVIOUS
  <1>1. Init => LiveInvariant
    BY InitInvariant DEF Init, LiveInvariant, OnlyEventsAreClaimed, ClaimsAreLive, Holding
  <1>2. LiveInvariant /\ ConsumerInvariant' /\ [Next]_vars => LiveInvariant'
    <2> SUFFICES ASSUME LiveInvariant, ConsumerInvariant', [Next]_vars PROVE LiveInvariant'
      OBVIOUS
    <2>1. ~Restart /\ ~Resume
      BY ConsumerAssumption
         DEF Restart, Resume, UndisturbedConsumer, LiveInvariant, ConsumerInvariant, TypeOK
    <2>2. CASE UNCHANGED vars
      BY <2>2 DEF vars, topic, store, LiveInvariant, OnlyEventsAreClaimed, ClaimsAreLive, Holding
    <2>3. CASE Next
      <3>1. ~cancelled' /\ OnlyEventsAreClaimed' /\ ClaimsAreLive'
        BY <2>1, <2>3, LoopStaysLive, WorkStaysLive DEF Next, Consume
      <3> QED
        BY <3>1 DEF LiveInvariant
    <2> QED
      BY <2>2, <2>3
  <1> QED
    BY <1>1, <1>2, ConsumerIsGuarded, PTL DEF Spec

\* As long as no statement and no broker call fails and nothing is restarted,
\* a row of processed_events stands for an event that was handled or is being
\* handled: a failed attempt leaves no row that would make its retry a no-op.
THEOREM ClaimsStandForHandling == UndisturbedConsumer => (Spec => []ClaimsAreLive)
  <1> SUFFICES ASSUME UndisturbedConsumer PROVE Spec => []ClaimsAreLive
    OBVIOUS
  <1>1. LiveInvariant => ClaimsAreLive
    BY DEF LiveInvariant
  <1> QED
    BY <1>1, ClaimsAreKeptLive, PTL

-----------------------------------------------------------------------------
(* No published result slips out of the consumer's hands.                  *)

\* What is appended is the last element, and the others keep their places.
LEMMA AppendedElements ==
    ASSUME NEW S, NEW s \in Seq(S), NEW x \in S
    PROVE  /\ Len(Append(s, x)) = Len(s) + 1
           /\ \A i \in 1 .. Len(s) : Append(s, x)[i] = s[i]
           /\ Append(s, x)[Len(s) + 1] = x
  OBVIOUS

\* What is not the first element is in the tail.
LEMMA RemainingElements ==
    ASSUME NEW S, NEW s \in Seq(S), s # <<>>, NEW i \in 1 .. Len(s), s[i] # Head(s)
    PROVE  \E j \in 1 .. Len(Tail(s)) : Tail(s)[j] = s[i]
  <1>1. i - 1 \in 1 .. Len(Tail(s)) /\ Tail(s)[i - 1] = s[i]
    OBVIOUS
  <1> QED
    BY <1>1

\* The topic keeps what it holds: a message given back by the retry queue is
\* unread again.
LEMMA TopicKeeps ==
    ASSUME LiveInvariant, position <= Len(log), NEW e \in Events, InHand(e),
           Redeliver \/ \E x \in Events : Produce(x)
    PROVE  InHand(e)'
  <1>0. TypeOK /\ HandOverInLog
    BY DEF LiveInvariant, ConsumerInvariant
  <1>1. PICK m \in Messages :
          /\ log' = Append(log, m) /\ UNCHANGED <<reader, jobs, at, item>>
          /\ \/ retries' = retries
             \/ retries # <<>> /\ m.event = Head(retries).event /\ retries' = Tail(retries)
    <2>1. ASSUME NEW x \in Events, Produce(x)
          PROVE  /\ [event |-> x, attempt |-> 1, offset |-> Len(log) + 1] \in Messages
                 /\ log' = Append(log, [event |-> x, attempt |-> 1, offset |-> Len(log) + 1])
      BY <1>0, <2>1 DEF Produce, AppendToLog, Messages, TypeOK
    <2>2. CASE Redeliver
      <3> DEFINE m == [event |-> Head(retries).event, attempt |-> Head(retries).attempt, offset |-> Len(log) + 1]
      <3>1. Head(retries) \in Messages
        BY <1>0, <2>2 DEF Redeliver, TypeOK
      <3>2. m \in Messages /\ m.event = Head(retries).event
        BY <1>0, <3>1, RetriedMessage DEF Messages, TypeOK
      <3> QED
        BY <2>2, <3>2 DEF Redeliver, AppendToLog
    <2> QED
      BY <2>1, <2>2 DEF Produce
  <1>2. /\ Len(log') = Len(log) + 1 /\ log'[Len(log) + 1] = m
        /\ \A i \in 1 .. Len(log) : log'[i] = log[i]
    BY <1>0, <1>1, AppendedElements DEF TypeOK
  <1>3. position \in Nat /\ Len(log) \in Nat /\ position' = position /\ loop' = loop
    BY <1>0, <1>1 DEF TypeOK, reader
  <1>4. CASE \E i \in position + 1 .. Len(log) : log[i].event = e
    BY <1>2, <1>3, <1>4 DEF InHand
  <1>5. CASE loop = "hand_over" /\ log[position].event = e
    BY <1>0, <1>2, <1>3, <1>5 DEF InHand, HandOverInLog
  <1>6. CASE \/ \E i \in 1 .. Len(jobs) : jobs[i].event = e
             \/ \E w \in Workers : at[w] \in WorkerLabels \ {"idle", "commit", "gone"} /\ item[w].event = e
    BY <1>1, <1>6 DEF InHand
  <1>7. ASSUME NEW i \in 1 .. Len(retries), retries[i].event = e
        PROVE  InHand(e)'
    <2>1. CASE retries' = retries
      BY <1>7, <2>1 DEF InHand
    <2>2. CASE retries' = Tail(retries) /\ m.event # e
      <3>1. retries # <<>> /\ retries[i] # Head(retries)
        BY <1>0, <1>1, <1>7, <2>2 DEF TypeOK
      <3>2. \E j \in 1 .. Len(Tail(retries)) : Tail(retries)[j] = retries[i]
        BY <1>0, <3>1, RemainingElements DEF TypeOK
      <3> QED
        BY <1>7, <2>2, <3>2 DEF InHand
    <2>3. CASE m.event = e
      <3>1. Len(log) + 1 \in position' + 1 .. Len(log')
        BY <1>2, <1>3
      <3> QED
        BY <1>2, <2>3, <3>1 DEF InHand
    <2> QED
      BY <1>1, <2>1, <2>2, <2>3
  <1> QED
    BY <1>4, <1>5, <1>6, <1>7 DEF InHand

\* So does the consuming goroutine: with nothing cancelled it stops between two
\* messages only.
LEMMA LoopKeeps ==
    ASSUME LiveInvariant, NEW e \in Events, InHand(e),
           FetchMessage \/ HandOver \/ StopConsuming \/ ConsumerReturns
    PROVE  InHand(e)'
  <1>0. TypeOK /\ HandOverInLog /\ ~cancelled
    BY DEF LiveInvariant, ConsumerInvariant
  <1>1. UNCHANGED <<log, retries, at, item>>
    BY DEF FetchMessage, HandOver, StopConsuming, ConsumerReturns, topic
  <1>2. CASE \/ \E w \in Workers : at[w] \in WorkerLabels \ {"idle", "commit", "gone"} /\ item[w].event = e
             \/ \E i \in 1 .. Len(retries) : retries[i].event = e
    BY <1>1, <1>2 DEF InHand
  <1>3. CASE FetchMessage
    <2>1. position' = position + 1 /\ loop' = "hand_over" /\ loop # "hand_over" /\ jobs' = jobs
      BY <1>3 DEF FetchMessage
    <2>2. ASSUME NEW i \in position + 1 .. Len(log), log[i].event = e
          PROVE  InHand(e)'
      <3>1. i = position + 1 \/ i \in position' + 1 .. Len(log)
        BY <1>0, <2>1 DEF TypeOK
      <3> QED
        BY <1>1, <2>1, <2>2, <3>1 DEF InHand
    <2> QED
      BY <1>2, <2>1, <2>2 DEF InHand
  <1>4. CASE HandOver
    <2>1. log[position] \in Messages
      BY <1>0, <1>4 DEF HandOver, HandOverInLog, TypeOK
    <2>2. /\ Len(jobs') = Len(jobs) + 1 /\ jobs'[Len(jobs) + 1] = log[position]
          /\ \A i \in 1 .. Len(jobs) : jobs'[i] = jobs[i]
          /\ position' = position /\ Len(jobs) \in Nat
      BY <1>0, <1>4, <2>1, AppendedElements DEF HandOver, TypeOK
    <2> QED
      BY <1>1, <1>2, <2>2 DEF InHand
  <1>5. CASE StopConsuming \/ ConsumerReturns
    BY <1>0, <1>1, <1>5 DEF StopConsuming, ConsumerReturns, InHand
  <1> QED
    BY <1>3, <1>4, <1>5

\* A worker lets go of a message when its event is handled, dead or in the
\* hands of another worker.
LEMMA WorkKeeps ==
    ASSUME UndisturbedConsumer, LiveInvariant, ConsumerInvariant', NEW w \in Workers, Work(w),
           NEW e \in Events, Settled(e) \/ InHand(e)
    PROVE  Settled(e)' \/ InHand(e)'
  <1>0. TypeOK /\ OnlyEventsAreClaimed /\ ~cancelled /\ ClaimsAreLive
    BY DEF LiveInvariant, ConsumerInvariant
  <1>1. ~Leave(w) /\ ~ClaimFails(w) /\ ~WorkerStops(w)
    BY <1>0 DEF Leave, ClaimFails, WorkerStops, UndisturbedConsumer
  <1>2. UNCHANGED <<log, reader>>
    BY DEF Work, TakeJob, TakeEmpty, Leave, ClaimEvent, ClaimFails, HandlerSucceeds, HandlerFails,
           ReleaseClaim, EnqueueRetry, WriteDeadLetter, CommitMessage, WorkerStops, topic
  <1>3. \A v \in Workers \ {w} : at'[v] = at[v] /\ item'[v] = item[v]
    BY <1>0
    DEF Work, TakeJob, TakeEmpty, Leave, ClaimEvent, ClaimFails, HandlerSucceeds, HandlerFails,
        ReleaseClaim, EnqueueRetry, WriteDeadLetter, CommitMessage, WorkerStops, Write, Goto, TypeOK
  <1>4. CASE Settled(e)
    <2>1. dead \subseteq dead'
      BY DEF Work, TakeJob, TakeEmpty, Leave, ClaimEvent, ClaimFails, HandlerSucceeds, HandlerFails,
             ReleaseClaim, EnqueueRetry, WriteDeadLetter, CommitMessage, WorkerStops, topic
    <2>2. CASE finished[e] = 1 /\ HandlerSucceeds(w)
      <3>1. finished'[e] \in {finished[e], finished[e] + 1} /\ finished'[e] <= 1
        BY <1>0, <2>2 DEF HandlerSucceeds, TypeOK, ConsumerInvariant, FinishedStaysClaimed
      <3> QED
        BY <2>2, <3>1 DEF Settled
    <2>3. CASE ~HandlerSucceeds(w)
      <3>1. finished' = finished
        BY <2>3
        DEF Work, TakeJob, TakeEmpty, Leave, ClaimEvent, ClaimFails, HandlerFails,
            ReleaseClaim, EnqueueRetry, WriteDeadLetter, CommitMessage, WorkerStops, store
      <3> QED
        BY <1>4, <2>1, <3>1 DEF Settled
    <2> QED
      BY <1>4, <2>1, <2>2, <2>3 DEF Settled
  <1>5. CASE \/ \E i \in position + 1 .. Len(log) : log[i].event = e
             \/ loop = "hand_over" /\ log[position].event = e
             \/ \E v \in Workers \ {w} :
                   at[v] \in WorkerLabels \ {"idle", "commit", "gone"} /\ item[v].event = e
    BY <1>2, <1>3, <1>5 DEF InHand, reader
  <1>6. ASSUME NEW i \in 1 .. Len(jobs), jobs[i].event = e
        PROVE  InHand(e)'
    <2>1. CASE TakeJob(w) /\ jobs[i] = Head(jobs)
      <3>1. at'[w] = "claim" /\ item'[w] = Head(jobs)
        BY <1>0, <2>1 DEF TakeJob, Goto, TypeOK
      <3> QED
        BY <1>6, <2>1, <3>1 DEF InHand
    <2>2. CASE TakeJob(w) /\ jobs[i] # Head(jobs)
      <3>1. \E j \in 1 .. Len(Tail(jobs)) : Tail(jobs)[j] = jobs[i]
        BY <1>0, <2>2, RemainingElements DEF TakeJob, TypeOK
      <3> QED
        BY <1>6, <2>2, <3>1 DEF TakeJob, InHand
    <2>3. CASE jobs' = jobs
      BY <1>6, <2>3 DEF InHand
    <2> QED
      BY <2>1, <2>2, <2>3
      DEF Work, TakeEmpty, Leave, ClaimEvent, ClaimFails, HandlerSucceeds, HandlerFails,
          ReleaseClaim, EnqueueRetry, WriteDeadLetter, CommitMessage, WorkerStops
  <1>7. ASSUME NEW i \in 1 .. Len(retries), retries[i].event = e
        PROVE  InHand(e)'
    <2>1. CASE EnqueueRetry(w) /\ retries' # retries
      <3>1. [item[w] EXCEPT !.attempt = @ + 1] \in Messages
        BY <1>0, HeldMessage, RetriedMessage
      <3>2. Len(retries') = Len(retries) + 1 /\ retries'[i] = retries[i] /\ Len(retries) \in Nat
        BY <1>0, <2>1, <3>1, AppendedElements DEF EnqueueRetry, TypeOK
      <3> QED
        BY <1>7, <3>2 DEF InHand
    <2>2. CASE retries' = retries
      BY <1>7, <2>2 DEF InHand
    <2> QED
      BY <2>1, <2>2
      DEF Work, TakeJob, TakeEmpty, Leave, ClaimEvent, ClaimFails, HandlerSucceeds, HandlerFails,
          ReleaseClaim, WriteDeadLetter, CommitMessage, WorkerStops, topic
  <1>8. CASE at[w] \in WorkerLabels \ {"idle", "commit", "gone"} /\ item[w].event = e
    <2>1. CASE ClaimEvent(w) /\ e \in claimed
      <3>1. PICK v \in Workers : finished[e] = 1 \/ (Holding(v) /\ item[v].event = e)
        BY <1>0, <2>1 DEF ClaimsAreLive
      <3>2. at[w] = "claim" /\ finished' = finished
        BY <2>1 DEF ClaimEvent, Goto
      <3> QED
        BY <1>3, <3>1, <3>2 DEF Settled, InHand, Holding
    <2>2. CASE \/ ClaimEvent(w) /\ e \notin claimed
               \/ HandlerFails(w) \/ ReleaseClaim(w)
      <3>1. at'[w] \in {"handle", "release", "retry", "bury"} /\ item' = item
        BY <1>0, <1>8, <2>2 DEF ClaimEvent, HandlerFails, ReleaseClaim, AfterFailure, Goto, TypeOK
      <3> QED
        BY <1>8, <3>1 DEF InHand
    <2>3. CASE HandlerSucceeds(w)
      <3>1. finished'[e] = finished[e] + 1 /\ finished[e] \in Nat /\ finished'[e] <= 1
        BY <1>0, <1>8, <2>3 DEF HandlerSucceeds, TypeOK, ConsumerInvariant, FinishedStaysClaimed
      <3> QED
        BY <3>1 DEF Settled
    <2>4. CASE EnqueueRetry(w)
      <3> DEFINE m == [item[w] EXCEPT !.attempt = @ + 1]
      <3>1. m \in Messages /\ m.event = e
        <4>1. item[w] \in Messages
          BY <1>0, HeldMessage
        <4> QED
          BY <1>8, <4>1, RetriedMessage DEF Messages
      <3>2. retries' = Append(retries, m)
        BY <1>8, <2>4, ConsumerAssumption DEF EnqueueRetry
      <3>3. retries'[Len(retries) + 1] = m /\ Len(retries') = Len(retries) + 1 /\ Len(retries) \in Nat
        BY <1>0, <3>1, <3>2, AppendedElements DEF TypeOK
      <3> HIDE DEF m
      <3>4. \E i \in 1 .. Len(retries') : retries'[i].event = e
        BY <3>1, <3>3
      <3> QED
        BY <3>4 DEF InHand
    <2>5. CASE WriteDeadLetter(w)
      BY <1>8, <2>5 DEF WriteDeadLetter, Settled
    <2>6. CASE TakeJob(w) \/ TakeEmpty(w) \/ CommitMessage(w)
      BY <1>8, <2>6 DEF TakeJob, TakeEmpty, CommitMessage, Write, Goto
    <2> QED
      BY <1>1, <2>1, <2>2, <2>3, <2>4, <2>5, <2>6 DEF Work
  <1> QED
    BY <1>4, <1>5, <1>6, <1>7, <1>8 DEF InHand

\* The log only grows, and what is added to it is unread.
LEMMA LogGrows ==
    ASSUME LiveInvariant, position <= Len(log), [Next]_vars, ~Restart, ~Resume
    PROVE  /\ position' <= Len(log')
           /\ \A i \in 1 .. Len(log') : \/ i \in 1 .. Len(log) /\ log'[i] = log[i]
                                        \/ i \in position' + 1 .. Len(log')
  <1>0. TypeOK
    BY DEF LiveInvariant, ConsumerInvariant
  <1>1. CASE Redeliver \/ \E e \in Events : Produce(e)
    <2>1. PICK e, n : AppendToLog(e, n) /\ position' = position
      BY <1>1 DEF Produce, Redeliver, reader
    <2>2. /\ Len(log') = Len(log) + 1 /\ Len(log) \in Nat
          /\ \A i \in 1 .. Len(log) : log'[i] = log[i]
      BY <1>0, <2>1 DEF AppendToLog, TypeOK
    <2> QED
      BY <1>0, <2>1, <2>2 DEF TypeOK
  <1>2. CASE FetchMessage
    BY <1>0, <1>2 DEF FetchMessage, topic, TypeOK
  <1>3. CASE UNCHANGED <<log, position>>
    BY <1>0, <1>3
  <1>4. HandOver \/ StopConsuming \/ ConsumerReturns \/ UNCHANGED vars => UNCHANGED <<log, position>>
    BY DEF HandOver, StopConsuming, ConsumerReturns, vars, topic, reader
  <1>5. ASSUME NEW w \in Workers, Work(w) PROVE UNCHANGED <<log, position>>
    BY <1>5
    DEF Work, TakeJob, TakeEmpty, Leave, ClaimEvent, ClaimFails, HandlerSucceeds, HandlerFails,
        ReleaseClaim, EnqueueRetry, WriteDeadLetter, CommitMessage, WorkerStops, topic, reader
  <1> QED
    BY <1>1, <1>2, <1>3, <1>4, <1>5 DEF Next, Consume

\* Every step keeps every published result settled or in hand.
LEMMA NextSettled ==
    ASSUME UndisturbedConsumer, SettledInvariant, LiveInvariant', [Next]_vars
    PROVE  SettledInvariant'
  <1>0. LiveInvariant /\ TypeOK /\ position <= Len(log) /\ ConsumerInvariant'
    BY DEF SettledInvariant, LiveInvariant, ConsumerInvariant
  <1>1. ~Restart /\ ~Resume
    BY <1>0, ConsumerAssumption DEF Restart, Resume, UndisturbedConsumer, TypeOK
  <1>2. /\ position' <= Len(log')
        /\ \A i \in 1 .. Len(log') : \/ i \in 1 .. Len(log) /\ log'[i] = log[i]
                                     \/ i \in position' + 1 .. Len(log')
    BY <1>0, <1>1, LogGrows
  <1>3. ASSUME NEW e \in Events, Settled(e) \/ InHand(e)
        PROVE  Settled(e)' \/ InHand(e)'
    <2>1. CASE Redeliver \/ \E x \in Events : Produce(x)
      <3>1. finished' = finished /\ dead' = dead
        BY <2>1 DEF Redeliver, Produce, store
      <3> QED
        BY <1>0, <1>3, <2>1, <3>1, TopicKeeps DEF Settled
    <2>2. CASE FetchMessage \/ HandOver \/ StopConsuming \/ ConsumerReturns
      <3>1. finished' = finished /\ dead' = dead
        BY <2>2 DEF FetchMessage, HandOver, StopConsuming, ConsumerReturns, store, topic
      <3> QED
        BY <1>0, <1>3, <2>2, <3>1, LoopKeeps DEF Settled
    <2>3. CASE \E w \in Workers : Work(w)
      BY <1>0, <1>3, <2>3, WorkKeeps
    <2>4. CASE UNCHANGED vars
      BY <1>3, <2>4 DEF vars, topic, store, reader, Settled, InHand
    <2> QED
      BY <1>1, <2>1, <2>2, <2>3, <2>4 DEF Next, Consume
  <1>4. ASSUME NEW i \in 1 .. Len(log) PROVE log[i].event \in Events
    <2>1. log \in Seq(EventMessages)
      BY <1>0 DEF LiveInvariant, OnlyEventsAreClaimed
    <2>2. log[i] \in EventMessages
      BY <2>1
    <2> QED
      BY <2>2, EventMessage
  <1>5. ASSUME NEW i \in 1 .. Len(log') PROVE Settled(log[i].event)' \/ InHand(log[i].event)'
    <2>1. CASE i \in 1 .. Len(log) /\ log'[i] = log[i]
      <3> DEFINE e == log[i].event
      <3>1. e \in Events /\ (Settled(e) \/ InHand(e)) /\ e' = e
        BY <1>4, <2>1 DEF SettledInvariant, NothingIsLost
      <3> QED
        BY <1>3, <3>1 DEF Settled, InHand
    <2>2. CASE i \in position' + 1 .. Len(log')
      BY <2>2 DEF InHand
    <2> QED
      BY <1>2, <2>1, <2>2
  <1> QED
    BY <1>2, <1>5 DEF SettledInvariant, NothingIsLost

\* When neither a statement nor a broker call fails and nothing is restarted,
\* no published result is ever lost: it is handled, in the dead-letter topic,
\* or in a queue, a channel or a worker from which it will be taken.
THEOREM ResultsAreNotLost == UndisturbedConsumer => (Spec => []NothingIsLost)
  <1> SUFFICES ASSUME UndisturbedConsumer PROVE Spec => []NothingIsLost
    OBVIOUS
  <1>1. Spec => []LiveInvariant
    BY ClaimsAreKeptLive
  <1>2. Init => position <= Len(log) /\ NothingIsLost
    BY DEF Init, NothingIsLost
  <1>3. Init /\ LiveInvariant => SettledInvariant
    BY <1>2 DEF SettledInvariant
  <1>4. SettledInvariant /\ LiveInvariant' /\ [Next]_vars => SettledInvariant'
    BY NextSettled
  <1>5. SettledInvariant => NothingIsLost
    BY DEF SettledInvariant
  <1> QED
    BY <1>1, <1>3, <1>4, <1>5, PTL DEF Spec

-----------------------------------------------------------------------------
(* The consumer implements ResultHandling.                                 *)

\* An appended message is published, and nothing else becomes so.
LEMMA PublishedByAppend ==
    ASSUME TypeOK, NEW m \in Messages, log' = Append(log, m)
    PROVE  PublishedEvents' = PublishedEvents \cup {m.event}
  <1>1. /\ Len(log') = Len(log) + 1 /\ log'[Len(log) + 1] = m /\ Len(log) \in Nat
        /\ \A i \in 1 .. Len(log) : log'[i] = log[i]
    BY AppendedElements DEF TypeOK
  <1>2. 1 .. Len(log') = (1 .. Len(log)) \cup {Len(log) + 1}
    BY <1>1
  <1> QED
    BY <1>1, <1>2 DEF PublishedEvents

\* The messages the topic gains.
LEMMA TopicGains ==
    ASSUME TypeOK, OnlyPublishedIsHandled, Redeliver \/ \E x \in Events : Produce(x)
    PROVE  \/ \E x \in Events : Produce(x) /\ PublishedEvents' = PublishedEvents \cup {x}
           \/ Redeliver /\ PublishedEvents' = PublishedEvents
  <1>1. ASSUME NEW x \in Events, Produce(x) PROVE PublishedEvents' = PublishedEvents \cup {x}
    <2> DEFINE m == [event |-> x, attempt |-> 1, offset |-> Len(log) + 1]
    <2>1. m \in Messages /\ m.event = x /\ log' = Append(log, m)
      BY <1>1 DEF Produce, AppendToLog, Messages, TypeOK
    <2> HIDE DEF m
    <2> QED
      BY <2>1, PublishedByAppend
  <1>2. ASSUME Redeliver PROVE PublishedEvents' = PublishedEvents
    <2> DEFINE m == [event |-> Head(retries).event, attempt |-> Head(retries).attempt, offset |-> Len(log) + 1]
    <2>1. retries # <<>> /\ Head(retries) \in Messages /\ Head(retries) = retries[1] /\ 1 \in 1 .. Len(retries)
      BY <1>2 DEF Redeliver, TypeOK
    <2>2. m \in Messages /\ m.event = retries[1].event /\ log' = Append(log, m)
      BY <1>2, <2>1, RetriedMessage DEF Redeliver, AppendToLog, Messages, TypeOK
    <2>3. retries[1].event \in PublishedEvents
      BY <2>1 DEF OnlyPublishedIsHandled
    <2> HIDE DEF m
    <2> QED
      BY <2>2, <2>3, PublishedByAppend
  <1> QED
    BY <1>1, <1>2

\* What is not appended to the log is published already.
LEMMA TopicStays ==
    ASSUME [Next]_vars, ~Redeliver, \A x \in Events : ~Produce(x)
    PROVE  log' = log /\ PublishedEvents' = PublishedEvents
  <1>1. log' = log
    BY DEF Next, Consume, FetchMessage, HandOver, StopConsuming, ConsumerReturns, Resume, Restart,
           Work, TakeJob, TakeEmpty, Leave, ClaimEvent, ClaimFails, HandlerSucceeds, HandlerFails,
           ReleaseClaim, EnqueueRetry, WriteDeadLetter, CommitMessage, WorkerStops, vars, topic
  <1> QED
    BY <1>1 DEF PublishedEvents

\* Every step keeps to published messages.
LEMMA NextPublished ==
    ASSUME ConsumerInvariant, OnlyPublishedIsHandled, [Next]_vars
    PROVE  OnlyPublishedIsHandled'
  <1>0. TypeOK /\ HandOverInLog
    BY DEF ConsumerInvariant
  <1>1. PublishedEvents \subseteq PublishedEvents'
    BY <1>0, TopicGains, TopicStays
  <1>2. CASE UNCHANGED <<jobs, retries, item>>
    BY <1>1, <1>2 DEF OnlyPublishedIsHandled
  <1>3. CASE Redeliver
    <2>1. retries' = Tail(retries) /\ retries # <<>> /\ UNCHANGED <<jobs, item>>
      BY <1>3 DEF Redeliver
    <2>2. \A i \in 1 .. Len(retries') : i + 1 \in 1 .. Len(retries) /\ retries'[i] = retries[i + 1]
      BY <1>0, <2>1 DEF TypeOK
    <2> QED
      BY <1>1, <2>1, <2>2 DEF OnlyPublishedIsHandled
  <1>4. CASE HandOver
    <2>1. log[position] \in Messages /\ position \in 1 .. Len(log)
      BY <1>0, <1>4 DEF HandOver, HandOverInLog, TypeOK
    <2>2. /\ Len(jobs') = Len(jobs) + 1 /\ jobs'[Len(jobs) + 1] = log[position] /\ Len(jobs) \in Nat
          /\ \A i \in 1 .. Len(jobs) : jobs'[i] = jobs[i]
      BY <1>0, <1>4, <2>1, AppendedElements DEF HandOver, TypeOK
    <2>3. \A i \in 1 .. Len(jobs') : i \in 1 .. Len(jobs) \/ i = Len(jobs) + 1
      BY <2>2
    <2>4. log[position].event \in PublishedEvents
      BY <2>1 DEF PublishedEvents
    <2>5. UNCHANGED <<retries, item>>
      BY <1>4 DEF HandOver, topic
    <2>6. \A i \in 1 .. Len(jobs') : jobs'[i].event \in PublishedEvents
      BY <2>2, <2>3, <2>4 DEF OnlyPublishedIsHandled
    <2> QED
      BY <1>1, <2>5, <2>6 DEF OnlyPublishedIsHandled
  <1>5. CASE Resume \/ Restart
    <2>1. retries' = retries /\ jobs' = <<>> /\ \A w \in Workers : item'[w].event = Empty
      BY <1>5 DEF Resume, Restart, FreshConsumer, EmptyMessage, topic
    <2> QED
      BY <1>1, <2>1 DEF OnlyPublishedIsHandled
  <1>6. ASSUME NEW w \in Workers, TakeJob(w) PROVE OnlyPublishedIsHandled'
    <2>1. jobs # <<>> /\ jobs' = Tail(jobs) /\ retries' = retries /\ item' = [item EXCEPT ![w] = Head(jobs)]
      BY <1>6 DEF TakeJob, topic
    <2>2. /\ \A i \in 1 .. Len(jobs') : i + 1 \in 1 .. Len(jobs) /\ jobs'[i] = jobs[i + 1]
          /\ Head(jobs) = jobs[1] /\ 1 \in 1 .. Len(jobs)
      BY <1>0, <2>1 DEF TypeOK
    <2>3. \A v \in Workers : item'[v] = IF v = w THEN jobs[1] ELSE item[v]
      BY <1>0, <2>1, <2>2 DEF TypeOK
    <2> QED
      BY <1>1, <2>1, <2>2, <2>3 DEF OnlyPublishedIsHandled
  <1>7. ASSUME NEW w \in Workers, TakeEmpty(w) PROVE OnlyPublishedIsHandled'
    <2>1. \A v \in Workers : item'[v].event \in {item[v].event, Empty}
      BY <1>0, <1>7 DEF TakeEmpty, EmptyMessage, TypeOK
    <2>2. UNCHANGED <<jobs, retries>>
      BY <1>7 DEF TakeEmpty, topic
    <2> QED
      BY <1>1, <2>1, <2>2 DEF OnlyPublishedIsHandled
  <1>8. ASSUME NEW w \in Workers, EnqueueRetry(w), retries' # retries PROVE OnlyPublishedIsHandled'
    <2> DEFINE m == [item[w] EXCEPT !.attempt = @ + 1]
    <2>1. m \in Messages /\ m.event = item[w].event
      <3>1. item[w] \in Messages
        BY <1>0, HeldMessage
      <3> QED
        BY <3>1, RetriedMessage DEF Messages
    <2>2. retries' = Append(retries, m) /\ item[w].event # Empty /\ UNCHANGED <<jobs, item>>
      BY <1>8 DEF EnqueueRetry
    <2> HIDE DEF m
    <2>3. /\ Len(retries') = Len(retries) + 1 /\ retries'[Len(retries) + 1] = m /\ Len(retries) \in Nat
          /\ \A i \in 1 .. Len(retries) : retries'[i] = retries[i]
      BY <1>0, <2>1, <2>2, AppendedElements DEF TypeOK
    <2>4. \A i \in 1 .. Len(retries') : i \in 1 .. Len(retries) \/ i = Len(retries) + 1
      BY <2>3
    <2>5. \A i \in 1 .. Len(retries') : retries'[i].event \in PublishedEvents
      BY <2>1, <2>2, <2>3, <2>4 DEF OnlyPublishedIsHandled
    <2> QED
      BY <1>1, <2>2, <2>5 DEF OnlyPublishedIsHandled
  <1>9. ASSUME NEW w \in Workers, Work(w), ~TakeJob(w), ~TakeEmpty(w)
        PROVE  UNCHANGED <<jobs, item>> /\ (EnqueueRetry(w) \/ retries' = retries)
    BY <1>9
    DEF Work, Leave, ClaimEvent, ClaimFails, HandlerSucceeds, HandlerFails,
        ReleaseClaim, EnqueueRetry, WriteDeadLetter, CommitMessage, WorkerStops, topic
  <1>10. \/ \E x \in Events : Produce(x)
         \/ FetchMessage \/ StopConsuming \/ ConsumerReturns \/ UNCHANGED vars
         => UNCHANGED <<jobs, retries, item>>
    BY DEF Produce, FetchMessage, StopConsuming, ConsumerReturns, vars, topic
  <1> QED
    BY <1>2, <1>3, <1>4, <1>5, <1>6, <1>7, <1>8, <1>9, <1>10 DEF Next, Consume

HandlingStep == [Handling!Next]_handlingBar

\* A set of events moves when its members do and the others stay.
LEMMA EventsMove ==
    ASSUME NEW S \in SUBSET Events, NEW from, NEW to,
           \A e \in S : handlingBar[e] = from /\ handlingBar'[e] = to,
           \A e \in Events \ S : handlingBar'[e] = handlingBar[e]
    PROVE  Handling!Move(S, from, to)
  <1>1. handlingBar' = [e \in Events |-> handlingBar'[e]]
    BY DEF handlingBar
  <1> HIDE DEF handlingBar
  <1>2. handlingBar' = [e \in Events |-> IF e \in S THEN to ELSE handlingBar[e]]
    BY <1>1
  <1> QED
    BY <1>2 DEF Handling!Move

\* No event is run twice: what the consumer's invariant says of the mapping.
LEMMA NothingIsOverrun ==
    ASSUME ConsumerInvariant, NEW e \in Events
    PROVE  ~Overrun(e)
  <1>1. TypeOK /\ OneHandlerPerEvent /\ FinishedStaysClaimed
    BY DEF ConsumerInvariant
  <1>2. finished[e] \in {0, 1} /\ (finished[e] = 1 => ~Running(e))
    BY <1>1 DEF TypeOK, FinishedStaysClaimed, Running
  <1>3. \A v, w \in Workers :
            Holding(v) /\ Holding(w) /\ item[v].event = e /\ item[w].event = e => v = w
    BY <1>1 DEF OneHandlerPerEvent
  <1> QED
    BY <1>2, <1>3 DEF Overrun

NoOverrun == \A e \in Events : ~Overrun(e)

\* What an event's state is read from.
LEMMA HandlingOf ==
    ASSUME NEW e \in Events
    PROVE  /\ ~Overrun(e) =>
                 handlingBar[e] = IF finished[e] = 1 THEN "handled"
                                  ELSE IF Running(e) THEN "running"
                                  ELSE IF e \in claimed THEN "lost"
                                  ELSE IF e \in PublishedEvents THEN "waiting"
                                  ELSE "unpublished"
           /\ ~Overrun(e)' =>
                 handlingBar'[e] = IF finished'[e] = 1 THEN "handled"
                                   ELSE IF Running(e)' THEN "running"
                                   ELSE IF e \in claimed' THEN "lost"
                                   ELSE IF e \in PublishedEvents' THEN "waiting"
                                   ELSE "unpublished"
  BY DEF handlingBar

\* A step that touches no claim, run or publication stutters.
LEMMA HandlingStutters ==
    ASSUME \A e \in Events : ~Overrun(e) /\ ~Overrun(e)',
           \A e \in Events : /\ finished'[e] = finished[e] /\ Running(e)' = Running(e)
                             /\ (e \in claimed') = (e \in claimed)
                             /\ (e \in PublishedEvents') = (e \in PublishedEvents)
    PROVE  HandlingStep
  <1>1. \A e \in Events : handlingBar'[e] = handlingBar[e]
    BY HandlingOf
  <1>2. handlingBar' = [e \in Events |-> handlingBar'[e]] /\ handlingBar = [e \in Events |-> handlingBar[e]]
    BY DEF handlingBar
  <1> HIDE DEF handlingBar
  <1>3. handlingBar' = handlingBar
    BY <1>1, <1>2
  <1> QED
    BY <1>3 DEF HandlingStep

\* A first publication makes an event available to handlers.
LEMMA TopicHandles ==
    ASSUME TypeOK, OnlyPublishedIsHandled, Redeliver \/ \E x \in Events : Produce(x),
           \A e \in Events : ~Overrun(e) /\ ~Overrun(e)'
    PROVE  HandlingStep
  <1>1. UNCHANGED <<store, at, item>>
    BY DEF Redeliver, Produce
  <1>2. finished' = finished /\ claimed' = claimed /\ \A e \in Events : Running(e)' = Running(e)
    BY <1>1 DEF store, Running, Holding
  <1>3. CASE PublishedEvents' = PublishedEvents
    BY <1>2, <1>3, HandlingStutters
  <1>4. ASSUME NEW x \in Events, PublishedEvents' = PublishedEvents \cup {x}
        PROVE  HandlingStep
    <2>1. \A e \in Events \ {x} : handlingBar'[e] = handlingBar[e]
      BY <1>2, <1>4, HandlingOf
    <2>2. CASE finished[x] = 1 \/ Running(x) \/ x \in claimed \/ x \in PublishedEvents
      <3>1. handlingBar'[x] = handlingBar[x]
        BY <1>2, <1>4, <2>2, HandlingOf
      <3>2. \A e \in Events : handlingBar'[e] = handlingBar[e]
        BY <2>1, <3>1
      <3>3. handlingBar' = [e \in Events |-> handlingBar'[e]] /\ handlingBar = [e \in Events |-> handlingBar[e]]
        BY DEF handlingBar
      <3> HIDE DEF handlingBar
      <3>4. handlingBar' = handlingBar
        BY <3>2, <3>3
      <3> QED
        BY <3>4 DEF HandlingStep
    <2>3. CASE ~(finished[x] = 1 \/ Running(x) \/ x \in claimed \/ x \in PublishedEvents)
      <3>1. handlingBar[x] = "unpublished" /\ handlingBar'[x] = "waiting"
        BY <1>2, <1>4, <2>3, HandlingOf
      <3>2. Handling!Move({x}, "unpublished", "waiting")
        BY <2>1, <3>1, EventsMove
      <3> QED
        BY <3>2 DEF HandlingStep, Handling!Next, Handling!Publish
    <2> QED
      BY <2>2, <2>3
  <1> QED
    BY <1>3, <1>4, TopicGains

\* A fresh consumer has lost the events whose handlers were cut off.
LEMMA ResumeHandles ==
    ASSUME ConsumerInvariant, Resume \/ Restart, PublishedEvents' = PublishedEvents,
           \A e \in Events : ~Overrun(e) /\ ~Overrun(e)'
    PROVE  HandlingStep
  <1>1. finished' = finished /\ claimed' = claimed /\ \A e \in Events : ~Running(e)'
    BY DEF Resume, Restart, FreshConsumer, store, Running, Holding
  <1> DEFINE S == {e \in Events : finished[e] # 1 /\ Running(e)}
  <1>2. \A e \in Events : finished[e] \in Nat /\ (Running(e) => e \in claimed)
    BY DEF ConsumerInvariant, TypeOK, HandlerHoldsClaim, Running
  <1>3. \A e \in S : handlingBar[e] = "running" /\ handlingBar'[e] = "lost"
    BY <1>1, <1>2, HandlingOf
  <1>4. \A e \in Events \ S : handlingBar'[e] = handlingBar[e]
    BY <1>1, <1>2, HandlingOf
  <1> HIDE DEF S
  <1>5. S \in SUBSET Events
    BY DEF S
  <1>6. Handling!Move(S, "running", "lost")
    BY <1>3, <1>4, <1>5, EventsMove
  <1> QED
    BY <1>5, <1>6 DEF HandlingStep, Handling!Next, Handling!Lose

\* A worker begins, ends and gives up runs one event at a time.
LEMMA WorkHandles ==
    ASSUME ConsumerInvariant, OnlyPublishedIsHandled, NEW w \in Workers, Work(w),
           PublishedEvents' = PublishedEvents,
           \A e \in Events : ~Overrun(e) /\ ~Overrun(e)'
    PROVE  HandlingStep
  <1>x. PICK x : x = item[w].event
    OBVIOUS
  <1>0. TypeOK /\ OneHandlerPerEvent /\ HandlerHoldsClaim /\ FinishedStaysClaimed
    BY DEF ConsumerInvariant
  <1>1. ASSUME NEW e \in Events
        PROVE  /\ finished[e] \in {0, 1}
               /\ Running(e) => e \in claimed /\ finished[e] = 0
               /\ finished[e] = 1 => e \in claimed
    BY <1>0 DEF TypeOK, HandlerHoldsClaim, FinishedStaysClaimed, Running
  <1>2. CASE /\ UNCHANGED store
             /\ \A v \in Workers : Holding(v)' = Holding(v) /\ (Holding(v) => item'[v] = item[v])
    <2>1. \A e \in Events : Running(e)' = Running(e)
      BY <1>2 DEF Running
    <2> QED
      BY <1>2, <2>1, HandlingStutters DEF store
  <1>3. CASE TakeJob(w) \/ TakeEmpty(w) \/ Leave(w) \/ HandlerFails(w)
             \/ EnqueueRetry(w) \/ WriteDeadLetter(w) \/ CommitMessage(w) \/ WorkerStops(w)
    <2>1. UNCHANGED store
      BY <1>3 DEF TakeJob, TakeEmpty, Leave, HandlerFails, EnqueueRetry, WriteDeadLetter,
                  CommitMessage, WorkerStops
    <2>2. \A v \in Workers : Holding(v)' = Holding(v)
      BY <1>0, <1>3
      DEF TakeJob, TakeEmpty, Leave, HandlerFails, EnqueueRetry, WriteDeadLetter,
          CommitMessage, WorkerStops, Write, Goto, Holding, TypeOK
    <2>3. \A v \in Workers : Holding(v) => item'[v] = item[v]
      BY <1>0, <1>3
      DEF TakeJob, TakeEmpty, Leave, HandlerFails, EnqueueRetry, WriteDeadLetter,
          CommitMessage, WorkerStops, Write, Goto, Holding, TypeOK
    <2> QED
      BY <1>2, <2>1, <2>2, <2>3
  <1>4. CASE ClaimEvent(w)
    <2>1. /\ item' = item /\ finished' = finished /\ claimed' = claimed \cup {x} /\ ~Holding(w)
          /\ \A v \in Workers \ {w} : at'[v] = at[v]
          /\ Holding(w)' <=> x \notin claimed
      BY <1>x, <1>0, <1>4 DEF ClaimEvent, Goto, Holding, TypeOK
    <2>2. \A e \in Events \ {x} : Running(e)' = Running(e)
      BY <1>x, <2>1 DEF Running, Holding
    <2>3. \A e \in Events \ {x} : handlingBar'[e] = handlingBar[e]
      BY <2>1, <2>2, HandlingOf
    <2>4. CASE x \in claimed
      BY <1>2, <2>1, <2>4 DEF Holding, store
    <2>5. CASE x \notin claimed /\ x \in Events
      <3>1. x \in PublishedEvents
        BY <1>x, <2>5, ConsumerAssumption DEF OnlyPublishedIsHandled
      <3>2. handlingBar[x] = "waiting"
        BY <1>1, <2>5, <3>1, HandlingOf
      <3>3. Running(x)'
        BY <1>x, <2>1, <2>5 DEF Running
      <3>4. handlingBar'[x] = "running"
        BY <1>1, <2>1, <2>5, <3>3, HandlingOf
      <3>5. Handling!Move({x}, "waiting", "running")
        BY <2>3, <2>5, <3>2, <3>4, EventsMove
      <3> QED
        BY <2>5, <3>5 DEF HandlingStep, Handling!Next, Handling!Begin
    <2>6. CASE x \notin Events
      BY <2>1, <2>2, <2>6, HandlingStutters
    <2> QED
      BY <2>4, <2>5, <2>6
  <1>5. CASE HandlerSucceeds(w) \/ ReleaseClaim(w)
    <2>1. /\ item' = item /\ Holding(w) /\ ~Holding(w)'
          /\ \A v \in Workers \ {w} : at'[v] = at[v] /\ (item[v].event = x => ~Holding(v))
          /\ claimed' \in {claimed, claimed \ {x}}
      BY <1>x, <1>0, <1>5
      DEF HandlerSucceeds, ReleaseClaim, AfterFailure, Goto, Holding, TypeOK, OneHandlerPerEvent
    <2>2. /\ \A e \in Events \ {x} : Running(e)' = Running(e)
          /\ ~Running(x)' /\ Running(x)
      BY <1>x, <2>1 DEF Running, Holding
    <2>3. \A e \in Events \ {x} : finished'[e] = finished[e]
      BY <1>x, <1>0, <1>5 DEF HandlerSucceeds, ReleaseClaim, TypeOK
    <2>4. \A e \in Events \ {x} : handlingBar'[e] = handlingBar[e]
      BY <2>1, <2>2, <2>3, HandlingOf
    <2>5. CASE x \notin Events
      BY <2>1, <2>2, <2>3, <2>5, HandlingStutters
    <2>6. CASE x \in Events
      <3>1. handlingBar[x] = "running" /\ finished[x] = 0 /\ x \in claimed
        BY <1>1, <2>2, <2>6, HandlingOf
      <3>2. x \in PublishedEvents
        BY <1>x, <2>6, ConsumerAssumption DEF OnlyPublishedIsHandled
      <3>3. CASE HandlerSucceeds(w)
        <4>1. finished'[x] = 1
          BY <1>x, <1>0, <2>6, <3>1, <3>3 DEF HandlerSucceeds, TypeOK
        <4>2. handlingBar'[x] = "handled"
          BY <2>6, <4>1, HandlingOf
        <4>3. Handling!Move({x}, "running", "handled")
          BY <2>4, <2>6, <3>1, <4>2, EventsMove
        <4> QED
          BY <2>6, <4>3 DEF HandlingStep, Handling!Next, Handling!Succeed
      <3>4. CASE ReleaseClaim(w)
        <4>1. finished'[x] = 0
          BY <3>1, <3>4 DEF ReleaseClaim
        <4>2. handlingBar'[x] \in {"waiting", "lost"}
          BY <2>2, <2>6, <3>2, <4>1, HandlingOf
        <4>3. \/ Handling!Move({x}, "running", "waiting")
              \/ Handling!Move({x}, "running", "lost")
          BY <2>4, <2>6, <3>1, <4>2, EventsMove
        <4> QED
          BY <2>6, <4>3 DEF HandlingStep, Handling!Next, Handling!GiveBack, Handling!Lose
      <3> QED
        BY <1>5, <3>3, <3>4
    <2> QED
      BY <2>5, <2>6
  <1>6. CASE ClaimFails(w)
    <2>1. /\ item' = item /\ finished' = finished
          /\ claimed' \in {claimed, claimed \cup {x}}
          /\ \A v \in Workers : Holding(v)' = Holding(v)
      BY <1>x, <1>0, <1>6 DEF ClaimFails, AfterFailure, Goto, Holding, TypeOK
    <2>2. \A e \in Events : Running(e)' = Running(e)
      BY <2>1 DEF Running
    <2>3. CASE claimed' = claimed \/ x \in claimed \/ x \notin Events
      BY <2>1, <2>2, <2>3, HandlingStutters
    <2>4. CASE claimed' = claimed \cup {x} /\ x \notin claimed /\ x \in Events
      <3>1. x \in PublishedEvents
        BY <1>x, <2>4, ConsumerAssumption DEF OnlyPublishedIsHandled
      <3>2. finished[x] = 0 /\ ~Running(x)
        BY <1>1, <2>4
      <3>3. handlingBar[x] = "waiting" /\ handlingBar'[x] = "lost"
        BY <2>1, <2>2, <2>4, <3>1, <3>2, HandlingOf
      <3>4. \A e \in Events \ {x} : handlingBar'[e] = handlingBar[e]
        BY <2>1, <2>2, <2>4, HandlingOf
      <3>5. Handling!Move({x}, "waiting", "lost")
        BY <2>4, <3>3, <3>4, EventsMove
      <3> QED
        BY <2>4, <3>5 DEF HandlingStep, Handling!Next, Handling!Miss
    <2> QED
      BY <2>1, <2>3, <2>4
  <1> QED
    BY <1>3, <1>4, <1>5, <1>6 DEF Work

\* The consumption of results implements ResultHandling: for any number of
\* events, workers and resumptions, and whatever calls fail or messages are
\* duplicated, a handler runs for a published result only, one run at a time,
\* and never again after it succeeded or after its claim outlived its run.
THEOREM HandlingIsKept == Spec => HandlesAsPromised
  <1>1. Init => Handling!Init /\ OnlyPublishedIsHandled
    <2> SUFFICES ASSUME Init PROVE Handling!Init /\ OnlyPublishedIsHandled
      OBVIOUS
    <2>1. \A e \in Events : handlingBar[e] = "unpublished"
      <3>1. PublishedEvents = {}
        BY DEF Init, PublishedEvents
      <3>2. \A e \in Events : finished[e] = 0 /\ e \notin claimed
        BY DEF Init
      <3>3. \A w \in Workers : ~Holding(w)
        BY DEF Init, Holding
      <3>4. \A e \in Events : ~Running(e)
        BY <3>3 DEF Running
      <3>5. ASSUME NEW e \in Events PROVE ~Overrun(e)
        <4>1. ~(finished[e] > 1) /\ finished[e] # 1
          BY <3>2
        <4> QED
          BY <3>3, <4>1 DEF Overrun
      <3> QED
        BY <3>1, <3>2, <3>4, <3>5, HandlingOf
    <2>2. handlingBar = [e \in Events |-> handlingBar[e]]
      BY DEF handlingBar
    <2>3. OnlyPublishedIsHandled
      BY DEF Init, OnlyPublishedIsHandled, EmptyMessage
    <2> HIDE DEF handlingBar
    <2>4. handlingBar = [e \in Events |-> "unpublished"]
      BY <2>1, <2>2
    <2> QED
      BY <2>3, <2>4 DEF Handling!Init
  <1>2. ConsumerInvariant /\ OnlyPublishedIsHandled /\ [Next]_vars => OnlyPublishedIsHandled'
    BY NextPublished
  <1>4. ConsumerInvariant => NoOverrun
    BY NothingIsOverrun DEF NoOverrun
  <1>5. ConsumerInvariant' => NoOverrun'
    BY <1>4, PTL
  <1>3. ConsumerInvariant /\ ConsumerInvariant' /\ OnlyPublishedIsHandled /\ [Next]_vars
          => [Handling!Next]_handlingBar
    <2> SUFFICES ASSUME ConsumerInvariant, ConsumerInvariant', OnlyPublishedIsHandled, [Next]_vars
                 PROVE  HandlingStep
      BY DEF HandlingStep
    <2>0. \A e \in Events : ~Overrun(e) /\ ~Overrun(e)'
      BY <1>4, <1>5 DEF NoOverrun
    <2>1. CASE Redeliver \/ \E x \in Events : Produce(x)
      BY <2>0, <2>1, TopicHandles DEF ConsumerInvariant
    <2>2. CASE ~Redeliver /\ \A x \in Events : ~Produce(x)
      <3>1. PublishedEvents' = PublishedEvents
        BY <2>2, TopicStays
      <3>2. CASE FetchMessage \/ HandOver \/ StopConsuming \/ ConsumerReturns \/ UNCHANGED vars
        <4>1. UNCHANGED <<store, at, item>>
          BY <3>2 DEF FetchMessage, HandOver, StopConsuming, ConsumerReturns, vars
        <4>2. \A e \in Events : Running(e)' = Running(e)
          BY <4>1 DEF Running, Holding
        <4> QED
          BY <2>0, <3>1, <4>1, <4>2, HandlingStutters DEF store
      <3>3. CASE Resume \/ Restart
        BY <2>0, <3>1, <3>3, ResumeHandles
      <3>4. CASE \E w \in Workers : Work(w)
        BY <2>0, <3>1, <3>4, WorkHandles
      <3> QED
        BY <2>2, <3>2, <3>3, <3>4 DEF Next, Consume
    <2> QED
      BY <2>1, <2>2
  <1> QED
    BY <1>1, <1>2, <1>3, ConsumerIsGuarded, PTL DEF Spec, HandlesAsPromised, Handling!Spec
=============================================================================
