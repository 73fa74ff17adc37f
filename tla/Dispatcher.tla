------------------------------ MODULE Dispatcher -------------------------------
(***************************************************************************)
(* The offer dispatcher: internal/events/async_dispatcher.go.  A bounded   *)
(* channel of offers is drained by a fixed set of worker goroutines, which *)
(* are also the ones that put a failed offer back for a retry.             *)
(*                                                                         *)
(* This module runs the dispatcher against an arbitrary sender: a delivery *)
(* ends with success or with an error at any time.  Matching.tla gives it  *)
(* the sender that the program wires in.                                   *)
(***************************************************************************)
EXTENDS Naturals, Sequences

CONSTANTS
  Drivers,      \* driver IDs
  Riders,       \* rider IDs
  Workers,      \* worker goroutines
  QueueCap,     \* capacity of the channel
  MaxRetries,   \* maxRetries of handle
  NoOffer       \* a worker that holds no offer

Offer == [driver: Drivers, rider: Riders, attempts: 0 .. MaxRetries]

ASSUME DispatcherAssumption ==
  /\ QueueCap \in Nat \ {0}
  /\ MaxRetries \in Nat \ {0}
  /\ NoOffer \notin Offer

VARIABLES
  queue,     \* d.queue
  worker,    \* worker -> where its goroutine is and the offer it handles
  stopped    \* whether d.ctx is cancelled

vars == <<queue, worker, stopped>>

WorkerState == [at: {"waiting", "sending", "sleeping", "gone"},
                offer: Offer \cup {NoOffer}]

Waiting == [at |-> "waiting", offer |-> NoOffer]
Gone    == [at |-> "gone",    offer |-> NoOffer]

TypeOK ==
  /\ queue \in Seq(Offer)
  /\ Len(queue) <= QueueCap
  /\ worker \in [Workers -> WorkerState]
  /\ \A w \in Workers :
       worker[w].at \in {"sending", "sleeping"} <=> worker[w].offer # NoOffer
  /\ stopped \in BOOLEAN

Init ==
  /\ queue = << >>
  /\ worker = [w \in Workers |-> Waiting]
  /\ stopped = FALSE

-----------------------------------------------------------------------------
(* A send on the channel in a select with a default: it never blocks, and  *)
(* a full channel loses the offer.                                         *)

HasRoom == Len(queue) < QueueCap

Put(o) == queue' = IF HasRoom THEN Append(queue, o) ELSE queue

FirstOffer(d, r) == [driver |-> d, rider |-> r, attempts |-> 0]

EnqueueDriverOffer(d, r) ==
  /\ Put(FirstOffer(d, r))
  /\ UNCHANGED <<worker, stopped>>

(* A worker waits in a select on ctx.Done() and on the channel.  When both *)
(* are ready Go picks either, so a stopped worker may still take an offer. *)
Take(w) ==
  /\ worker[w].at = "waiting"
  /\ queue # << >>
  /\ worker' = [worker EXCEPT ![w] = [at |-> "sending", offer |-> Head(queue)]]
  /\ queue' = Tail(queue)
  /\ UNCHANGED stopped

Exit_WhenDrained(w) ==
  /\ worker[w].at = "waiting"
  /\ stopped
  /\ queue = << >>
  /\ worker' = [worker EXCEPT ![w] = Gone]
  /\ UNCHANGED <<queue, stopped>>

Exit(w) ==
  /\ worker[w].at = "waiting"
  /\ stopped
  /\ worker' = [worker EXCEPT ![w] = Gone]
  /\ UNCHANGED <<queue, stopped>>

(* SendDriverOffer returns: the offer is done with, or it failed and is    *)
(* either given up or slept on before the retry.                           *)
Retried(o) == [o EXCEPT !.attempts = @ + 1]

GivesUp_Late(o) == o.attempts + 1 > MaxRetries

GivesUp(o) == o.attempts + 1 >= MaxRetries

AfterSend(o, ok) ==
  IF ok \/ GivesUp(o) THEN Waiting ELSE [at |-> "sleeping", offer |-> Retried(o)]

Return(w, ok) ==
  /\ worker[w].at = "sending"
  /\ worker' = [worker EXCEPT ![w] = AfterSend(@.offer, ok)]
  /\ UNCHANGED <<queue, stopped>>

(* After the 50 ms sleep the worker puts the offer back itself.            *)
Retry_Blocking(w) ==
  /\ worker[w].at = "sleeping"
  /\ HasRoom
  /\ Put(worker[w].offer)
  /\ worker' = [worker EXCEPT ![w] = Waiting]
  /\ UNCHANGED stopped

Retry(w) ==
  /\ worker[w].at = "sleeping"
  /\ Put(worker[w].offer)
  /\ worker' = [worker EXCEPT ![w] = Waiting]
  /\ UNCHANGED stopped

Stop == ~stopped /\ stopped' = TRUE /\ UNCHANGED <<queue, worker>>

-----------------------------------------------------------------------------
WorkerStep(w) ==
  Take(w) \/ Exit(w) \/ (\E ok \in BOOLEAN : Return(w, ok)) \/ Retry(w)

Next ==
  \/ \E d \in Drivers, r \in Riders : EnqueueDriverOffer(d, r)
  \/ \E w \in Workers : WorkerStep(w)
  \/ Stop

(* A worker goroutine that can run does run; the sender returns.  A worker *)
(* that finds both select cases ready again and again picks ctx.Done() at  *)
(* some point, since Go chooses among ready cases uniformly at random:     *)
(* strong fairness of Exit.                                                *)
Fairness == \A w \in Workers : WF_vars(WorkerStep(w)) /\ SF_vars(Exit(w))

Spec == Init /\ [][Next]_vars /\ Fairness

-----------------------------------------------------------------------------
(* "Retry bounded" (async_dispatcher.go:133): an offer that is in the      *)
(* channel or in a worker's hands has been sent fewer than maxRetries      *)
(* times, so no poisoned offer can circulate for ever.                     *)
RetryBounded ==
  /\ \A i \in 1 .. Len(queue) : queue[i].attempts < MaxRetries
  /\ \A w \in Workers :
       worker[w].offer # NoOffer => worker[w].offer.attempts < MaxRetries

(* "System stays alive" (async_dispatcher.go:41): the workers, which also  *)
(* feed the channel they drain, never all block on a full channel; a full  *)
(* channel gets room again unless the dispatcher is stopped.               *)
FullQueueDrains == ~HasRoom ~> (HasRoom \/ stopped)

(* "No goroutine leaks", "Predictable shutdown" (async_dispatcher.go:130,  *)
(* 137): after Stop every worker returns, even with offers still queued    *)
(* and even though nobody stops enqueueing.                                *)
WorkersReturn == stopped ~> (\A w \in Workers : worker[w].at = "gone")
=============================================================================
