--------------------------- MODULE Dispatcher_proofs ---------------------------
(***************************************************************************)
(* What holds of the offer dispatcher for any number of workers, any       *)
(* channel capacity and retry limit, and whatever the sender answers.      *)
(***************************************************************************)
EXTENDS Dispatcher, TLAPS

(* An offer that may still be sent.                                        *)
Live(o) == o.attempts < MaxRetries

(* The inductive invariant: a channel of live offers, and workers each of  *)
(* which holds a live offer exactly while it sends or sleeps.              *)
Bounded ==
  /\ queue \in Seq(Offer)
  /\ Len(queue) <= QueueCap
  /\ \A i \in 1 .. Len(queue) : Live(queue[i])
  /\ worker \in [Workers -> WorkerState]
  /\ \A w \in Workers :
       /\ worker[w].at \in {"sending", "sleeping"} <=> worker[w].offer # NoOffer
       /\ worker[w].offer # NoOffer => Live(worker[w].offer)
  /\ stopped \in BOOLEAN

LEMMA BoundedGives == Bounded => TypeOK /\ RetryBounded
BY DEF Bounded, TypeOK, RetryBounded, Live

LEMMA FirstOfferFacts ==
  ASSUME NEW d \in Drivers, NEW r \in Riders
  PROVE  FirstOffer(d, r) \in Offer /\ Live(FirstOffer(d, r))
BY DispatcherAssumption DEF FirstOffer, Offer, Live

(* An offer that is not given up has attempts left after it is retried.    *)
LEMMA RetriedFacts ==
  ASSUME NEW o \in Offer, ~GivesUp(o)
  PROVE  Retried(o) \in Offer /\ Live(Retried(o))
BY DispatcherAssumption DEF GivesUp, Retried, Offer, Live

LEMMA PutFacts ==
  ASSUME queue \in Seq(Offer), Len(queue) <= QueueCap,
         \A i \in 1 .. Len(queue) : Live(queue[i]),
         NEW o \in Offer, Live(o), Put(o)
  PROVE  /\ queue' \in Seq(Offer) /\ Len(queue') <= QueueCap
         /\ \A i \in 1 .. Len(queue') : Live(queue'[i])
<1>1. CASE HasRoom
  <2>1. /\ queue' = Append(queue, o) /\ Len(queue') = Len(queue) + 1
        /\ queue' \in Seq(Offer)
        /\ \A i \in 1 .. Len(queue') : queue'[i] = IF i = Len(queue) + 1 THEN o ELSE queue[i]
    BY <1>1 DEF Put
  <2>2. Len(queue') <= QueueCap
    BY <1>1, <2>1, DispatcherAssumption DEF HasRoom
  <2>3. \A i \in 1 .. Len(queue') : Live(queue'[i])
    BY <2>1
  <2>4. QED
    BY <2>1, <2>2, <2>3
<1>2. CASE ~HasRoom
  BY <1>2 DEF Put
<1>3. QED
  BY <1>1, <1>2

LEMMA TailFacts ==
  ASSUME queue \in Seq(Offer), queue # << >>, Len(queue) <= QueueCap,
         \A i \in 1 .. Len(queue) : Live(queue[i])
  PROVE  /\ Head(queue) \in Offer /\ Live(Head(queue))
         /\ Tail(queue) \in Seq(Offer) /\ Len(Tail(queue)) <= QueueCap
         /\ \A i \in 1 .. Len(Tail(queue)) : Live(Tail(queue)[i])
<1>1. Len(queue) \in Nat /\ Len(queue) >= 1 /\ Head(queue) = queue[1]
  OBVIOUS
<1>2. Tail(queue) \in Seq(Offer) /\ Len(Tail(queue)) = Len(queue) - 1
  OBVIOUS
<1>3. \A i \in 1 .. Len(Tail(queue)) : Tail(queue)[i] = queue[i + 1] /\ i + 1 \in 1 .. Len(queue)
  BY <1>1, <1>2
<1>4. QED
  BY <1>1, <1>2, <1>3, DispatcherAssumption

LEMMA InitBounded == Init => Bounded
<1> SUFFICES ASSUME Init PROVE Bounded
  OBVIOUS
<1>1. queue = << >> /\ Len(queue) = 0
  BY DEF Init
<1>2. queue \in Seq(Offer) /\ Len(queue) <= QueueCap
  BY <1>1, DispatcherAssumption
<1>3. \A w \in Workers : worker[w] = Waiting
  BY DEF Init
<1>4. worker \in [Workers -> WorkerState]
  BY DEF Init, WorkerState, Waiting
<1>5. \A i \in 1 .. Len(queue) : Live(queue[i])
  BY <1>1
<1>6. \A w \in Workers : worker[w].at = "waiting" /\ worker[w].offer = NoOffer
  BY <1>3 DEF Waiting
<1>7. stopped \in BOOLEAN
  BY DEF Init
<1>8. QED
  BY <1>2, <1>4, <1>5, <1>6, <1>7 DEF Bounded

LEMMA StepBounded == Bounded /\ [Next]_vars => Bounded'
<1> SUFFICES ASSUME Bounded, [Next]_vars PROVE Bounded'
  OBVIOUS
<1> USE DEF Bounded, Live
<1>1. \A w \in Workers : worker[w].offer # NoOffer => worker[w].offer \in Offer
  BY DEF WorkerState
<1>2. CASE UNCHANGED vars
  BY <1>1, <1>2 DEF vars
<1>3. ASSUME NEW d \in Drivers, NEW r \in Riders, EnqueueDriverOffer(d, r)
      PROVE  Bounded'
  BY <1>1, <1>3, FirstOfferFacts, PutFacts DEF EnqueueDriverOffer
<1>4. ASSUME NEW w \in Workers, Take(w)
      PROVE  Bounded'
  <2>1. Head(queue) \in Offer /\ Live(Head(queue)) /\ Head(queue) # NoOffer
    BY <1>1, <1>4, TailFacts, DispatcherAssumption DEF Take
  <2>2. QED
    BY <1>1, <1>4, <2>1, TailFacts DEF Take, WorkerState
<1>5. ASSUME NEW w \in Workers, Exit(w)
      PROVE  Bounded'
  BY <1>1, <1>5 DEF Exit, Gone, WorkerState
<1>6. ASSUME NEW w \in Workers, NEW ok \in BOOLEAN, Return(w, ok)
      PROVE  Bounded'
  <2>1. worker[w].offer \in Offer
    BY <1>1, <1>6 DEF Return
  <2> DEFINE state == AfterSend(worker[w].offer, ok)
  <2>3. /\ state \in WorkerState
        /\ state.at \in {"sending", "sleeping"} <=> state.offer # NoOffer
        /\ state.offer # NoOffer => Live(state.offer)
    BY <2>1, RetriedFacts, DispatcherAssumption DEF AfterSend, Waiting, WorkerState
  <2>4. worker' = [worker EXCEPT ![w] = state] /\ UNCHANGED <<queue, stopped>>
    BY <1>6 DEF Return
  <2> HIDE DEF state
  <2>5. QED
    BY <1>1, <2>3, <2>4
<1>7. ASSUME NEW w \in Workers, Retry(w)
      PROVE  Bounded'
  <2>1. worker[w].offer \in Offer /\ Live(worker[w].offer)
    BY <1>1, <1>7 DEF Retry
  <2>2. QED
    BY <1>1, <1>7, <2>1, PutFacts DEF Retry, Waiting, WorkerState
<1>8. CASE Stop
  BY <1>1, <1>8 DEF Stop
<1>9. QED
  BY <1>2, <1>3, <1>4, <1>5, <1>6, <1>7, <1>8 DEF Next, WorkerStep

(* The channel never holds more than its capacity, and a worker holds an   *)
(* offer exactly while it sends one or sleeps on one.                      *)
THEOREM DispatcherTypeCorrect == Spec => []TypeOK
<1>1. Bounded => TypeOK
  BY BoundedGives
<1>2. QED
  BY <1>1, InitBounded, StepBounded, PTL DEF Spec

(* Retries are bounded: no offer in the channel or in a worker's hands has *)
(* been sent maxRetries times, however often the sender fails and whatever *)
(* the workers do in between.                                              *)
THEOREM RetriesAreBounded == Spec => []RetryBounded
<1>1. Bounded => RetryBounded
  BY BoundedGives
<1>2. QED
  BY <1>1, InitBounded, StepBounded, PTL DEF Spec
=============================================================================
