------------------------------- MODULE EventBus -------------------------------
(***************************************************************************)
(* pkg/messaging/rabbitmq.go: the topic exchange threadly.events, one      *)
(* durable queue and one dead-letter queue per consuming service, and the  *)
(* consumer goroutine of each service.                                     *)
(*                                                                         *)
(* A copy of a message is its event and its x-retry-count.  A queue is a   *)
(* bag of copies: requeues, redeliveries and retries (which go to the      *)
(* tail) make any order possible.  No prefetch limit is set, but copies    *)
(* delivered and not yet picked up by the goroutine behave as if still in  *)
(* the queue, so only the copy being handled is modelled apart.            *)
(*                                                                         *)
(* Publish and Ack are written to one TCP connection in order and take     *)
(* effect here when the broker gets them; a connection or process that     *)
(* dies between the two leaves the copy in the queue and its retry too.    *)
(***************************************************************************)
EXTENDS Integers, FiniteSets

CONSTANTS Queues,       \* one per consuming service
          Events,       \* the messages that may be published
          Bound,        \* the events whose routing key the queue binds
          Malformed,    \* events whose body is not an Event
          MaxRetries,
          MaxCrashes    \* bound on lost connections and dead processes

ASSUME BusAssumption == /\ IsFiniteSet(Queues)
                        /\ Bound \in [Queues -> SUBSET Events]
                        /\ Malformed \subseteq Events
                        /\ MaxRetries \in Nat /\ MaxCrashes \in Nat

VARIABLES
  unsent,     \* events nobody has published yet
  declared,   \* queues that exist in the broker
  consumer,   \* "down": no process; "deaf": process without a subscription; "on"
  ready,      \* ready[q][e][n]: copies of e with x-retry-count n in q
  job,        \* what the goroutine of q is doing
  dlq,        \* dlq[q][e]: dead letters
  owed,       \* owed[q]: well-formed events that have been routed to q
  done,       \* done[q]: events the handler of q has succeeded on
  failures,   \* failures[e]: failed handlings of e in any queue, up to MaxRetries + 1
  crashes

vars == <<unsent, declared, consumer, ready, job, dlq, owed, done, failures, crashes>>

Counts == 0 .. MaxRetries
Idle == [stage |-> "idle"]
Busy(q) == job[q].stage # "idle"
Stage(q, s) == job' = [job EXCEPT ![q].stage = s]
Free(q) == job' = [job EXCEPT ![q] = Idle]
-----------------------------------------------------------------------------
Init ==
  /\ unsent = Events
  /\ declared = {}
  /\ consumer = [q \in Queues |-> "down"]
  /\ ready = [q \in Queues |-> [e \in Events |-> [n \in Counts |-> 0]]]
  /\ job = [q \in Queues |-> Idle]
  /\ dlq = [q \in Queues |-> [e \in Events |-> 0]]
  /\ owed = [q \in Queues |-> {}]
  /\ done = [q \in Queues |-> {}]
  /\ failures = [e \in Events |-> 0]
  /\ crashes = 0

(* Main connects and calls Consume, which declares and binds both queues   *)
(* and subscribes; should any of that fail, the service starts without a   *)
(* consumer.                                                               *)
Boot(q) ==
  /\ consumer[q] = "down"
  /\ declared' \in {declared, declared \cup {q}}
  /\ \/ q \in declared' /\ consumer' = [consumer EXCEPT ![q] = "on"]
     \/ consumer' = [consumer EXCEPT ![q] = "deaf"]
  /\ UNCHANGED <<unsent, ready, job, dlq, owed, done, failures, crashes>>

(* What the exchange does: a copy for every queue that binds the routing   *)
(* key of e.  mandatory is false, so with no such queue it is dropped.     *)
Targets(e) == {q \in declared : e \in Bound[q]}
Route(e, n) ==
  /\ ready' = [q \in Queues |->
                 IF q \in Targets(e) THEN [ready[q] EXCEPT ![e][n] = @ + 1] ELSE ready[q]]
  /\ owed' = [q \in Queues |->
                IF q \in Targets(e) \ {x \in Queues : e \in Malformed}
                  THEN owed[q] \cup {e} ELSE owed[q]]

(* Publish, by content-service.                                            *)
Send(e) ==
  /\ e \in unsent
  /\ unsent' = unsent \ {e}
  /\ Route(e, 0)
  /\ UNCHANGED <<declared, consumer, job, dlq, done, failures, crashes>>

(* The goroutine takes a copy; one it cannot unmarshal it Nacks without    *)
(* requeue, and the queue has no dead-letter exchange.                     *)
Deliver(q, e, n) ==
  /\ consumer[q] = "on" /\ ~Busy(q)
  /\ ready[q][e][n] > 0
  /\ ready' = [ready EXCEPT ![q][e][n] = @ - 1]
  /\ job' = IF e \in Malformed
              THEN job
              ELSE [job EXCEPT ![q] = [stage |-> "run", event |-> e, count |-> n]]
  /\ UNCHANGED <<unsent, declared, consumer, dlq, owed, done, failures, crashes>>

Succeed(q) ==
  /\ job[q].stage = "run"
  /\ Stage(q, "settled")
  /\ done' = [done EXCEPT ![q] = @ \cup {job[q].event}]
  /\ UNCHANGED <<unsent, declared, consumer, ready, dlq, owed, failures, crashes>>

HandlerFails(q) ==
  /\ job[q].stage = "run"
  /\ Stage(q, "failed")
  /\ failures' = [failures EXCEPT ![job[q].event] = IF @ > MaxRetries THEN @ ELSE @ + 1]
  /\ UNCHANGED <<unsent, declared, consumer, ready, dlq, owed, done, crashes>>

(* Mutants: the retry is published again although it went out; its         *)
(* x-retry-count is copied and not incremented.                            *)
RetryTwice(q) ==
  /\ job[q].stage = "failed" /\ job[q].count < MaxRetries
  /\ Route(job[q].event, job[q].count + 1)
  /\ UNCHANGED <<unsent, declared, consumer, job, dlq, done, failures, crashes>>

RetrySameCount(q) ==
  /\ job[q].stage = "failed" /\ job[q].count < MaxRetries
  /\ Route(job[q].event, job[q].count)
  /\ Stage(q, "settled")
  /\ UNCHANGED <<unsent, declared, consumer, dlq, done, failures, crashes>>

(* The retry goes back through the exchange under the original routing     *)
(* key, hence to the other services' queues too.                           *)
Retry(q) ==
  /\ job[q].stage = "failed" /\ job[q].count < MaxRetries
  /\ Route(job[q].event, job[q].count + 1)
  /\ Stage(q, "settled")
  /\ UNCHANGED <<unsent, declared, consumer, dlq, done, failures, crashes>>

PutBack(q) == ready' = [ready EXCEPT ![q][job[q].event][job[q].count] = @ + 1]

(* Mutants: one retry fewer; an exhausted copy is requeued instead. *)
DeadLetterEarly(q) ==
  /\ job[q].stage = "failed" /\ job[q].count + 1 >= MaxRetries
  /\ dlq' = [dlq EXCEPT ![q][job[q].event] = @ + 1]
  /\ Stage(q, "settled")
  /\ UNCHANGED <<unsent, declared, consumer, ready, owed, done, failures, crashes>>

DeadLetterNever(q) ==
  /\ job[q].stage = "failed" /\ job[q].count >= MaxRetries
  /\ PutBack(q) /\ Free(q)
  /\ UNCHANGED <<unsent, declared, consumer, dlq, owed, done, failures, crashes>>

DeadLetter(q) ==
  /\ job[q].stage = "failed" /\ job[q].count >= MaxRetries
  /\ dlq' = [dlq EXCEPT ![q][job[q].event] = @ + 1]
  /\ Stage(q, "settled")
  /\ UNCHANGED <<unsent, declared, consumer, ready, owed, done, failures, crashes>>

(* Mutant: Nack without requeue. *)
RequeueDrops(q) ==
  /\ job[q].stage = "failed"
  /\ Free(q)
  /\ UNCHANGED <<unsent, declared, consumer, ready, dlq, owed, done, failures, crashes>>

(* Nack(false, true) when the retry or the dead letter cannot be published *)
Requeue(q) ==
  /\ job[q].stage = "failed"
  /\ PutBack(q) /\ Free(q)
  /\ UNCHANGED <<unsent, declared, consumer, dlq, owed, done, failures, crashes>>

Ack(q) ==
  /\ job[q].stage = "settled"
  /\ Free(q)
  /\ UNCHANGED <<unsent, declared, consumer, ready, dlq, owed, done, failures, crashes>>

(* The process dies, or its channel closes and the goroutine returns for   *)
(* good while the process lives on.  The broker requeues what was not      *)
(* acknowledged.                                                           *)
Disconnect(q) ==
  /\ consumer[q] = "on" /\ crashes < MaxCrashes
  /\ crashes' = crashes + 1
  /\ \E what \in {"down", "deaf"} : consumer' = [consumer EXCEPT ![q] = what]
  /\ IF Busy(q) THEN PutBack(q) /\ Free(q) ELSE UNCHANGED <<ready, job>>
  /\ UNCHANGED <<unsent, declared, dlq, owed, done, failures>>

(* Somebody restarts a process that has lost its consumer.                 *)
Redeploy(q) ==
  /\ consumer[q] = "deaf"
  /\ consumer' = [consumer EXCEPT ![q] = "down"]
  /\ UNCHANGED <<unsent, declared, ready, job, dlq, owed, done, failures, crashes>>

Handle(q) == Succeed(q) \/ HandlerFails(q)
Settle(q) == Retry(q) \/ DeadLetter(q)
Take(q) == \E e \in Events, n \in Counts : Deliver(q, e, n)

Next == \/ \E e \in Events : Send(e)
        \/ \E q \in Queues : \/ Boot(q) \/ Take(q) \/ Handle(q) \/ Settle(q)
                             \/ Requeue(q) \/ Ack(q) \/ Disconnect(q) \/ Redeploy(q)

Spec == Init /\ [][Next]_vars
-----------------------------------------------------------------------------
Stages == {"run", "settled", "failed"}

(* Types.  No handler is ever given a malformed event.                     *)
TypeOK ==
  /\ unsent \subseteq Events /\ declared \subseteq Queues
  /\ consumer \in [Queues -> {"down", "deaf", "on"}]
  /\ ready \in [Queues -> [Events -> [Counts -> Nat]]]
  /\ job \in [Queues -> {Idle} \cup [stage : Stages, event : Events \ Malformed, count : Counts]]
  /\ dlq \in [Queues -> [Events -> Nat]]
  /\ owed \in [Queues -> SUBSET (Events \ Malformed)]
  /\ done \in [Queues -> SUBSET (Events \ Malformed)]
  /\ failures \in [Events -> 0 .. MaxRetries + 1]
  /\ crashes \in Nat

Held(q, e, n) == IF Busy(q) /\ job[q].event = e /\ job[q].count = n THEN 1 ELSE 0

(* At-least-once: an event that has reached the queue of a service is      *)
(* handled, dead-lettered, waiting or in hand.  No crash, retry, failed    *)
(* publish or requeue loses it.                                            *)
NoEventLost ==
  \A q \in Queues : \A e \in owed[q] :
    \/ e \in done[q]
    \/ dlq[q][e] > 0
    \/ \E n \in Counts : ready[q][e][n] + Held(q, e, n) > 0

(* Fan-out of retries: a copy that fails becomes one copy, with a higher   *)
(* count, in each of the B queues of its routing key.  A fate of e is a    *)
(* dead letter of e, or one that a copy of e can still become: a way to    *)
(* choose the queue of each retry it has left.  An event never has more    *)
(* fates than its first B copies and the copies duplicated by crashes, so  *)
(* a handler that always fails leaves at most B^(MaxRetries+1) dead        *)
(* letters, not B.                                                         *)
Homes(e) == {q \in Queues : e \in Bound[q]}
Futures(e, n) == [n + 1 .. MaxRetries -> Homes(e)]
Amount(q, e, n) ==
  IF n > MaxRetries THEN dlq[q][e]
    ELSE ready[q][e][n] + (IF job[q].stage = "settled" THEN 0 ELSE Held(q, e, n))
Fates(e) ==
  UNION {{q} \X {n} \X (1 .. Amount(q, e, n)) \X Futures(e, n) :
           q \in Queues, n \in 0 .. MaxRetries + 1}
RetriesBounded ==
  \A e \in Events :
    Cardinality(Fates(e)) =< (Cardinality(Homes(e)) + crashes) * Cardinality(Futures(e, 0))

(* A dead letter is earned: handlers have failed on the event more than    *)
(* MaxRetries times.  They need not be the handlers of this queue: the     *)
(* count travels with the copies the other queues get.                     *)
DeadLettersEarned ==
  \A e \in Events : (\E q \in Queues : dlq[q][e] > 0) => failures[e] > MaxRetries

(* A service whose consumer eventually stays up handles or dead-letters    *)
(* every event routed to it, however often handlers fail (the fairness is  *)
(* Deployment's).                                                          *)
EveryEventSettles ==
  \A q \in Queues : <>[](consumer[q] = "on") =>
    \A e \in Events : (e \in owed[q]) ~> (e \in done[q] \/ dlq[q][e] > 0)
=============================================================================
