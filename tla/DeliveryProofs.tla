---------------------------- MODULE DeliveryProofs ----------------------------
(* Theorems about the event bus, about notification-service on it and      *)
(* about the deployment around it, for any services, events, bindings and  *)
(* inbox calls.                                                            *)
EXTENDS NotificationDelivery, Deployment, Sequences, FiniteSetTheorems, TLAPS

USE BusAssumption, DeliveryAssumption

(* A copy of e that has been retried n times, waiting or in hand.          *)
Copy(q, e, n) == \/ ready[q][e][n] > 0
                 \/ Busy(q) /\ job[q].event = e /\ job[q].count = n

(* Copies come from the exchange, and their count from failures.           *)
Routed(q, e, n) == /\ q \in declared /\ e \in Bound[q]
                   /\ e \notin Malformed => e \in owed[q]
                   /\ failures[e] >= n
Copies == \A q \in Queues, e \in Events, n \in Counts : Copy(q, e, n) => Routed(q, e, n)
Failures == \A q \in Queues : job[q].stage = "failed" => failures[job[q].event] > job[q].count

(* What a queue is owed is settled or waiting - or in hand, but not yet    *)
(* answered for by the retry or the dead letter.                           *)
Safe(q, e) == \/ e \in done[q]
              \/ dlq[q][e] > 0
              \/ \E n \in Counts : ready[q][e][n] > 0
InHand(q, e) == job[q].stage \in {"run", "failed"} /\ job[q].event = e
Kept == \A q \in Queues : \A e \in owed[q] : Safe(q, e) \/ InHand(q, e)

BusInv == TypeOK /\ Copies /\ Failures /\ Kept /\ DeadLettersEarned

(* The store holds what was due and has come, all that the handler has     *)
(* answered with nil and each once.                                        *)
Stored ==
  /\ rows \in Seq(WellFormed) /\ N!IsInjective(rows)
  /\ \A e \in N!ToSet(rows) : N!Due(e) /\ e \in owed[NotificationQueue]
  /\ \A e \in done[NotificationQueue] : N!Due(e) => e \in N!ToSet(rows)

DInv == BusInv /\ Stored
-----------------------------------------------------------------------------
(* What a consumer has in hand.                                            *)
LEMMA JobTypes ==
  ASSUME TypeOK, NEW q \in Queues
  PROVE  /\ job[q].stage \in {"idle"} \cup Stages
         /\ ~Busy(q) => job[q] = Idle
         /\ Busy(q) => /\ job[q].event \in Events \ Malformed /\ job[q].count \in Counts
                       /\ job[q].stage \in Stages
                       /\ job[q] \in [stage : Stages, event : Events \ Malformed, count : Counts]
  BY DEF TypeOK, Idle, Busy, Stages

(* Its job goes on to the next stage, is given up, or another one begins.  *)
LEMMA StageJob ==
  ASSUME TypeOK, NEW q \in Queues, Busy(q), NEW s \in Stages, Stage(q, s)
  PROVE  /\ job' \in [Queues -> {Idle} \cup
                        [stage : Stages, event : Events \ Malformed, count : Counts]]
         /\ job'[q].stage = s /\ job'[q].event = job[q].event /\ job'[q].count = job[q].count
         /\ \A x \in Queues \ {q} : job'[x] = job[x]
  BY JobTypes DEF TypeOK, Stage

LEMMA FreeJob ==
  ASSUME TypeOK, NEW q \in Queues, Free(q)
  PROVE  /\ job' \in [Queues -> {Idle} \cup
                        [stage : Stages, event : Events \ Malformed, count : Counts]]
         /\ job'[q].stage = "idle"
         /\ \A x \in Queues \ {q} : job'[x] = job[x]
  BY DEF TypeOK, Free, Idle

(* A copy for every queue that binds the event.                            *)
LEMMA RouteCopies ==
  ASSUME TypeOK, NEW e \in Events, NEW n \in Counts, Route(e, n)
  PROVE  /\ ready' \in [Queues -> [Events -> [Counts -> Nat]]]
         /\ owed' \in [Queues -> SUBSET (Events \ Malformed)]
         /\ \A x \in Queues, y \in Events, z \in Counts :
              ready'[x][y][z] = IF y = e /\ z = n /\ x \in declared /\ e \in Bound[x]
                                  THEN ready[x][y][z] + 1 ELSE ready[x][y][z]
         /\ \A x \in Queues :
              owed'[x] = IF x \in declared /\ e \in Bound[x] /\ e \notin Malformed
                           THEN owed[x] \cup {e} ELSE owed[x]
<1>1. \A x \in Queues : x \in Targets(e) <=> x \in declared /\ e \in Bound[x]
  BY DEF Targets, TypeOK
<1>2. \A x \in Queues : ready'[x] \in [Events -> [Counts -> Nat]]
  BY DEF Route, TypeOK
<1>3. ready' \in [Queues -> [Events -> [Counts -> Nat]]]
  BY <1>2 DEF Route
<1>4. \A x \in Queues :
        owed'[x] = IF x \in declared /\ e \in Bound[x] /\ e \notin Malformed
                     THEN owed[x] \cup {e} ELSE owed[x]
  BY <1>1 DEF Route
<1>5. owed' \in [Queues -> SUBSET (Events \ Malformed)]
  <2>1. ASSUME NEW x \in Queues PROVE owed'[x] \subseteq Events \ Malformed
    <3>1. owed[x] \subseteq Events \ Malformed
      BY DEF TypeOK
    <3>2. QED  BY <1>4, <3>1
  <2>2. QED  BY <2>1 DEF Route
<1>6. \A x \in Queues, y \in Events, z \in Counts :
        ready'[x][y][z] = IF y = e /\ z = n /\ x \in declared /\ e \in Bound[x]
                            THEN ready[x][y][z] + 1 ELSE ready[x][y][z]
  <2> SUFFICES ASSUME NEW x \in Queues, NEW y \in Events, NEW z \in Counts
               PROVE  ready'[x][y][z] = IF y = e /\ z = n /\ x \in declared /\ e \in Bound[x]
                                          THEN ready[x][y][z] + 1 ELSE ready[x][y][z]
    OBVIOUS
  <2>1. ready'[x] = IF x \in declared /\ e \in Bound[x]
                      THEN [ready[x] EXCEPT ![e][n] = @ + 1] ELSE ready[x]
    BY <1>1 DEF Route
  <2>2. ready[x] \in [Events -> [Counts -> Nat]]
    BY DEF TypeOK
  <2>3. QED  BY <2>1, <2>2
<1>7. QED  BY <1>3, <1>4, <1>5, <1>6

(* The invariant holds before the first message.                           *)
LEMMA InitBusInv == Init => BusInv
<1> SUFFICES ASSUME Init PROVE BusInv
  OBVIOUS
<1>1. TypeOK
  <2>1. failures \in [Events -> 0 .. MaxRetries + 1]
    BY DEF Init
  <2>2. QED  BY <2>1 DEF Init, TypeOK, Idle
<1>2. Copies /\ Failures /\ Kept /\ DeadLettersEarned
  BY DEF Init, Copies, Copy, Routed, Failures, Kept, DeadLettersEarned, Busy, Idle
<1>3. QED  BY <1>1, <1>2 DEF BusInv

(* Processes that start and stop without a copy in hand change no copy.    *)
LEMMA IdleBusInv ==
  ASSUME BusInv, UNCHANGED <<ready, job, dlq, owed, done, failures>>,
         declared \subseteq declared', declared' \subseteq Queues, unsent' \subseteq Events,
         consumer' \in [Queues -> {"down", "deaf", "on"}], crashes' \in Nat
  PROVE  BusInv'
<1> USE DEF BusInv
<1>1. TypeOK'
  BY DEF TypeOK
<1>2. Copies' /\ Failures' /\ Kept' /\ DeadLettersEarned'
  BY DEF Copies, Copy, Routed, Failures, Kept, Safe, InHand, DeadLettersEarned, Busy
<1>3. QED  BY <1>1, <1>2

(* The exchange copies an event that has failed often enough; consumers    *)
(* may settle what they have in hand if a copy of it comes back.           *)
LEMMA RouteBusInv ==
  ASSUME BusInv, NEW e \in Events, NEW n \in Counts, Route(e, n), failures[e] >= n,
         UNCHANGED <<declared, consumer, dlq, done, failures, crashes>>, unsent' \subseteq Events,
         job' \in [Queues -> {Idle} \cup
                     [stage : Stages, event : Events \ Malformed, count : Counts]],
         \A x \in Queues : \/ job'[x] = job[x]
                          \/ /\ Busy(x) /\ job[x].event = e
                             /\ job'[x].stage = "settled"
                             /\ job'[x].event = job[x].event /\ job'[x].count = job[x].count
  PROVE  BusInv'
<1> USE DEF BusInv
<1>1. /\ ready' \in [Queues -> [Events -> [Counts -> Nat]]]
      /\ owed' \in [Queues -> SUBSET (Events \ Malformed)]
  BY RouteCopies
<1>2. \A x \in Queues, y \in Events, z \in Counts :
        ready'[x][y][z] = IF y = e /\ z = n /\ x \in declared /\ e \in Bound[x]
                            THEN ready[x][y][z] + 1 ELSE ready[x][y][z]
  BY RouteCopies
<1>3. \A x \in Queues :
        owed'[x] = IF x \in declared /\ e \in Bound[x] /\ e \notin Malformed
                     THEN owed[x] \cup {e} ELSE owed[x]
  BY RouteCopies
<1>4. TypeOK'
  BY <1>1 DEF TypeOK
<1>5. Copies'
  <2> SUFFICES ASSUME NEW x \in Queues, NEW y \in Events, NEW z \in Counts, Copy(x, y, z)'
               PROVE  Routed(x, y, z)'
    BY DEF Copies
  <2>1. CASE Copy(x, y, z)
    <3>1. Routed(x, y, z)
      BY <2>1 DEF Copies
    <3>2. QED  BY <1>3, <3>1 DEF Routed
  <2>2. CASE ~Copy(x, y, z)
    <3>1. ~(Busy(x)' /\ job'[x].event = y /\ job'[x].count = z)
      BY <2>2 DEF Copy, Busy
    <3>2. ready'[x][y][z] > 0 /\ ~(ready[x][y][z] > 0)
      BY <2>2, <3>1 DEF Copy
    <3>3. y = e /\ z = n /\ x \in declared /\ e \in Bound[x]
      BY <1>2, <3>2
    <3>4. QED  BY <1>3, <3>3 DEF Routed
  <2>3. QED  BY <2>1, <2>2
<1>6. Failures'
  BY DEF Failures
<1>7. Kept'
  <2> SUFFICES ASSUME NEW x \in Queues, NEW y \in owed'[x] PROVE Safe(x, y)' \/ InHand(x, y)'
    BY DEF Kept
  <2>0. y \in Events
    BY <1>1
  <2>1. CASE y = e /\ x \in declared /\ e \in Bound[x]
    <3>1. ready[x][y][n] \in Nat
      BY <2>1 DEF TypeOK
    <3>2. ready'[x][y][n] > 0
      BY <1>2, <2>1, <3>1
    <3>3. QED  BY <3>2 DEF Safe
  <2>2. CASE ~(y = e /\ x \in declared /\ e \in Bound[x])
    <3>1. y \in owed[x]
      <4>1. \/ owed'[x] = owed[x]
            \/ x \in declared /\ e \in Bound[x] /\ owed'[x] = owed[x] \cup {e}
        BY <1>3
      <4>2. QED  BY <2>2, <4>1
    <3>2. CASE Safe(x, y)
      <4>1. \A z \in Counts : ready'[x][y][z] = ready[x][y][z]
        BY <1>2, <2>0, <2>2
      <4>2. QED  BY <3>2, <4>1 DEF Safe
    <3>3. CASE InHand(x, y)
      <4>1. CASE job'[x] = job[x]
        BY <3>3, <4>1 DEF InHand
      <4>2. CASE job[x].event = e
        <5>1. Busy(x) /\ y = e /\ job[x].count \in Counts
          BY <3>3, <4>2, JobTypes DEF InHand, Busy
        <5>2. Routed(x, e, job[x].count)
          BY <5>1, <4>2 DEF Copies, Copy
        <5>3. QED  BY <2>2, <5>1, <5>2 DEF Routed
      <4>3. QED  BY <4>1, <4>2
    <3>4. QED  BY <3>1, <3>2, <3>3 DEF Kept
  <2>3. QED  BY <2>1, <2>2
<1>8. DeadLettersEarned'
  BY DEF DeadLettersEarned
<1>9. QED  BY <1>4, <1>5, <1>6, <1>7, <1>8

(* Publishing puts copies that were not retried into the queues.           *)
LEMMA SendBusInv == ASSUME BusInv, NEW e \in Events, Send(e) PROVE BusInv'
<1>1. /\ Route(e, 0) /\ unsent' \subseteq Events /\ 0 \in Counts
      /\ UNCHANGED <<declared, consumer, dlq, done, failures, crashes>> /\ job' = job
  BY DEF Send, Counts, TypeOK, BusInv
<1>2. failures[e] >= 0 /\ job \in [Queues -> {Idle} \cup
        [stage : Stages, event : Events \ Malformed, count : Counts]]
  BY DEF BusInv, TypeOK
<1>3. QED  BY <1>1, <1>2, RouteBusInv

(* The goroutine publishes its copy again, or gives it a dead letter.      *)
LEMMA SettleBusInv == ASSUME BusInv, NEW q \in Queues, Settle(q) PROVE BusInv'
<1> USE DEF BusInv
<1> DEFINE e == job[q].event
<1>1. /\ job[q].stage = "failed" /\ Busy(q) /\ e \in Events \ Malformed
      /\ job[q].count \in Counts /\ failures[e] > job[q].count
      /\ Stage(q, "settled")
      /\ UNCHANGED <<unsent, declared, consumer, done, failures, crashes>>
  BY JobTypes DEF Settle, Retry, DeadLetter, Busy, Failures
<1>2. /\ job' \in [Queues -> {Idle} \cup
                     [stage : Stages, event : Events \ Malformed, count : Counts]]
      /\ job'[q].stage = "settled" /\ job'[q].event = e /\ job'[q].count = job[q].count
      /\ \A x \in Queues \ {q} : job'[x] = job[x]
  BY <1>1, StageJob DEF Stages
<1>3. failures[e] \in Nat /\ unsent \subseteq Events
  BY <1>1 DEF TypeOK
<1>4. CASE Retry(q)
  <2> DEFINE n == job[q].count + 1
  <2>1. Route(e, n) /\ n \in Counts /\ failures[e] >= n /\ dlq' = dlq
    BY <1>1, <1>3, <1>4 DEF Retry, Counts
  <2> HIDE DEF n
  <2>2. \A x \in Queues : \/ job'[x] = job[x]
                         \/ /\ Busy(x) /\ job[x].event = e
                            /\ job'[x].stage = "settled"
                            /\ job'[x].event = job[x].event /\ job'[x].count = job[x].count
    BY <1>1, <1>2
  <2> HIDE DEF e
  <2>3. QED  BY <1>1, <1>2, <1>3, <2>1, <2>2, RouteBusInv
<1>5. CASE DeadLetter(q)
  <2>1. /\ dlq' = [dlq EXCEPT ![q][e] = @ + 1] /\ job[q].count >= MaxRetries
        /\ UNCHANGED <<ready, owed>>
    BY <1>5 DEF DeadLetter
  <2>2. /\ dlq' \in [Queues -> [Events -> Nat]] /\ dlq'[q][e] > 0
        /\ \A x \in Queues, y \in Events : x # q \/ y # e => dlq'[x][y] = dlq[x][y]
    BY <1>1, <2>1 DEF TypeOK
  <2> HIDE DEF e
  <2>3. TypeOK'
    BY <1>1, <1>2, <2>1, <2>2 DEF TypeOK
  <2>4. Copies'
    <3>1. \A x \in Queues, y \in Events, z \in Counts : Copy(x, y, z)' => Copy(x, y, z)
      BY <1>1, <1>2, <2>1 DEF Copy, Busy, e
    <3>2. QED  BY <1>1, <2>1, <3>1 DEF Copies, Routed
  <2>5. Failures'
    BY <1>1, <1>2 DEF Failures
  <2>6. Kept'
    <3> SUFFICES ASSUME NEW x \in Queues, NEW y \in owed[x] PROVE Safe(x, y)' \/ InHand(x, y)'
      BY <2>1 DEF Kept
    <3>0. y \in Events
      BY DEF TypeOK
    <3>1. CASE x = q /\ y = e
      BY <2>2, <3>1 DEF Safe
    <3>2. CASE ~(x = q /\ y = e)
      <4>1. Safe(x, y) => Safe(x, y)'
        BY <1>1, <2>1, <2>2, <3>0, <3>2 DEF Safe
      <4>2. InHand(x, y) => InHand(x, y)'
        BY <1>2, <3>2 DEF InHand, e
      <4>3. QED  BY <4>1, <4>2 DEF Kept
    <3>3. QED  BY <3>1, <3>2
  <2>7. DeadLettersEarned'
    <3> SUFFICES ASSUME NEW y \in Events, NEW x \in Queues, dlq'[x][y] > 0
                 PROVE  failures[y] > MaxRetries
      BY <1>1 DEF DeadLettersEarned
    <3>1. CASE y = e
      BY <1>1, <1>3, <2>1, <3>1 DEF Counts
    <3>2. CASE y # e
      BY <2>2, <3>2 DEF DeadLettersEarned
    <3>3. QED  BY <3>1, <3>2
  <2>8. QED  BY <2>3, <2>4, <2>5, <2>6, <2>7
<1>6. QED  BY <1>4, <1>5 DEF Settle

(* A copy is taken from the queue into the hand of its consumer.           *)
LEMMA DeliverBusInv ==
  ASSUME BusInv, NEW q \in Queues, NEW e \in Events, NEW n \in Counts, Deliver(q, e, n)
  PROVE  BusInv'
<1> USE DEF BusInv
<1> DEFINE k == ready[q][e][n] - 1
<1>1. /\ ~Busy(q) /\ ready[q][e][n] > 0 /\ ready' = [ready EXCEPT ![q][e][n] = k] /\ k \in Nat
      /\ UNCHANGED <<unsent, declared, consumer, dlq, owed, done, failures, crashes>>
  BY DEF Deliver, TypeOK
<1>2. /\ e \in Malformed => job' = job
      /\ e \notin Malformed =>
           /\ job'[q].stage = "run" /\ job'[q].event = e /\ job'[q].count = n
           /\ \A x \in Queues \ {q} : job'[x] = job[x]
      /\ job' \in [Queues -> {Idle} \cup
                     [stage : Stages, event : Events \ Malformed, count : Counts]]
  BY DEF Deliver, TypeOK, Stages
<1> HIDE DEF k
<1>3. /\ ready' \in [Queues -> [Events -> [Counts -> Nat]]]
      /\ ready'[q][e][n] = k
      /\ \A x \in Queues, y \in Events, z \in Counts :
           x # q \/ y # e \/ z # n => ready'[x][y][z] = ready[x][y][z]
  BY <1>1 DEF TypeOK
<1>4. TypeOK'
  BY <1>1, <1>2, <1>3 DEF TypeOK
<1>5. Copies'
  <2> SUFFICES ASSUME NEW x \in Queues, NEW y \in Events, NEW z \in Counts, Copy(x, y, z)'
               PROVE  Copy(x, y, z)
    BY <1>1 DEF Copies, Routed
  <2>1. CASE ready'[x][y][z] > 0
    BY <1>1, <1>3, <2>1 DEF Copy
  <2>2. CASE Busy(x)' /\ job'[x].event = y /\ job'[x].count = z
    BY <1>1, <1>2, <2>2 DEF Copy, Busy
  <2>3. QED  BY <2>1, <2>2 DEF Copy
<1>6. Failures'
  BY <1>1, <1>2 DEF Failures
<1>7. Kept'
  <2> SUFFICES ASSUME NEW x \in Queues, NEW y \in owed[x] PROVE Safe(x, y)' \/ InHand(x, y)'
    BY <1>1 DEF Kept
  <2>1. y \in Events /\ y \notin Malformed
    BY DEF TypeOK
  <2>2. CASE x = q /\ y = e
    BY <1>2, <2>1, <2>2 DEF InHand
  <2>3. CASE ~(x = q /\ y = e)
    <3>1. Safe(x, y) => Safe(x, y)'
      BY <1>1, <1>3, <2>1, <2>3 DEF Safe
    <3>2. InHand(x, y) => InHand(x, y)'
      BY <1>1, <1>2 DEF InHand, Busy
    <3>3. QED  BY <3>1, <3>2 DEF Kept
  <2>4. QED  BY <2>2, <2>3
<1>8. DeadLettersEarned'
  BY <1>1 DEF DeadLettersEarned
<1>9. QED  BY <1>4, <1>5, <1>6, <1>7, <1>8

(* The handler succeeds, or fails once more.                               *)
LEMMA HandleBusInv == ASSUME BusInv, NEW q \in Queues, Handle(q) PROVE BusInv'
<1> USE DEF BusInv
<1>1. /\ job[q].stage = "run" /\ Busy(q) /\ job[q].event \in Events \ Malformed
      /\ job[q].count \in Counts
      /\ UNCHANGED <<unsent, declared, consumer, ready, dlq, owed, crashes>>
  BY JobTypes DEF Handle, Succeed, HandlerFails, Busy
<1> DEFINE e == job[q].event
<1>2. CASE Stage(q, "settled") /\ UNCHANGED failures /\ done' = [done EXCEPT ![q] = @ \cup {e}]
  <2>1. /\ job' \in [Queues -> {Idle} \cup
                       [stage : Stages, event : Events \ Malformed, count : Counts]]
        /\ job'[q].stage = "settled" /\ job'[q].event = e /\ job'[q].count = job[q].count
        /\ \A x \in Queues \ {q} : job'[x] = job[x]
    BY <1>1, <1>2, StageJob DEF Stages
  <2>2. /\ done' \in [Queues -> SUBSET (Events \ Malformed)]
        /\ e \in done'[q] /\ \A x \in Queues : done[x] \subseteq done'[x]
    BY <1>1, <1>2 DEF TypeOK
  <2>3. TypeOK'
    BY <1>1, <1>2, <2>1, <2>2 DEF TypeOK
  <2>4. Copies'
    <3>1. \A x \in Queues, y \in Events, z \in Counts : Copy(x, y, z)' => Copy(x, y, z)
      BY <1>1, <2>1 DEF Copy, Busy
    <3>2. QED  BY <1>1, <1>2, <3>1 DEF Copies, Routed
  <2>5. Failures' /\ DeadLettersEarned'
    BY <1>1, <1>2, <2>1 DEF Failures, DeadLettersEarned
  <2>6. Kept'
    BY <1>1, <2>1, <2>2 DEF Kept, Safe, InHand
  <2>7. QED  BY <2>3, <2>4, <2>5, <2>6
<1>3. CASE /\ Stage(q, "failed") /\ UNCHANGED done
           /\ failures' = [failures EXCEPT ![e] = IF @ > MaxRetries THEN @ ELSE @ + 1]
  <2>1. /\ job' \in [Queues -> {Idle} \cup
                       [stage : Stages, event : Events \ Malformed, count : Counts]]
        /\ job'[q].stage = "failed" /\ job'[q].event = e /\ job'[q].count = job[q].count
        /\ \A x \in Queues \ {q} : job'[x] = job[x]
    BY <1>1, <1>3, StageJob DEF Stages
  <2>2. /\ failures' \in [Events -> 0 .. MaxRetries + 1]
        /\ \A y \in Events : failures'[y] >= failures[y]
        /\ failures'[e] = IF failures[e] > MaxRetries THEN failures[e] ELSE failures[e] + 1
    BY <1>1, <1>3 DEF TypeOK
  <2>3. TypeOK'
    BY <1>1, <1>3, <2>1, <2>2 DEF TypeOK
  <2>4. Copies'
    <3>1. \A x \in Queues, y \in Events, z \in Counts : Copy(x, y, z)' => Copy(x, y, z)
      BY <1>1, <2>1 DEF Copy, Busy
    <3>2. QED  BY <1>1, <2>2, <3>1 DEF Copies, Routed, TypeOK, Counts
  <2>5. Failures'
    <3>1. failures[e] >= job[q].count /\ job[q].count =< MaxRetries
      BY <1>1 DEF Copies, Copy, Routed, Counts
    <3>2. failures'[e] > job[q].count
      BY <1>1, <2>2, <3>1 DEF TypeOK, Counts
    <3> SUFFICES ASSUME NEW x \in Queues, job'[x].stage = "failed"
                 PROVE  failures'[job'[x].event] > job'[x].count
      BY DEF Failures
    <3>3. CASE x = q
      BY <2>1, <3>2, <3>3
    <3>4. CASE x # q
      <4> DEFINE y == job[x].event
                 z == job[x].count
      <4>1. job'[x] = job[x] /\ job[x].stage = "failed"
        BY <2>1, <3>4
      <4>2. y \in Events /\ z \in Nat /\ failures[y] > z
        BY <4>1, JobTypes DEF Busy, Counts, Failures
      <4>3. failures'[y] >= failures[y] /\ failures[y] \in Nat /\ failures'[y] \in Nat
        BY <2>2, <4>2 DEF TypeOK
      <4> HIDE DEF y, z
      <4>4. failures'[y] > z
        BY <4>2, <4>3
      <4>5. QED  BY <4>1, <4>4 DEF y, z
    <3>5. QED  BY <3>3, <3>4
  <2>6. Kept'
    BY <1>1, <1>3, <2>1 DEF Kept, Safe, InHand
  <2>7. DeadLettersEarned'
    <3> SUFFICES ASSUME NEW y \in Events, NEW x \in Queues, dlq[x][y] > 0
                 PROVE  failures'[y] > MaxRetries
      BY <1>1 DEF DeadLettersEarned
    <3>1. failures[y] > MaxRetries
      BY DEF DeadLettersEarned
    <3>2. failures'[y] >= failures[y] /\ failures[y] \in Nat /\ failures'[y] \in Nat
      BY <2>2 DEF TypeOK
    <3>3. QED  BY <3>1, <3>2
  <2>8. QED  BY <2>3, <2>4, <2>5, <2>6, <2>7
<1>4. QED  BY <1>2, <1>3 DEF Handle, Succeed, HandlerFails
(* What a consumer had in hand goes back to its queue.                     *)
LEMMA PutBackBusInv ==
  ASSUME BusInv, NEW q \in Queues, Busy(q), PutBack(q), Free(q),
         UNCHANGED <<unsent, declared, dlq, owed, done, failures>>,
         consumer' \in [Queues -> {"down", "deaf", "on"}], crashes' \in Nat
  PROVE  BusInv'
<1> USE DEF BusInv
<1> DEFINE e == job[q].event
           n == job[q].count
<1>1. e \in Events \ Malformed /\ n \in Counts
  BY JobTypes
<1>2. /\ ready' \in [Queues -> [Events -> [Counts -> Nat]]]
      /\ ready'[q][e][n] = ready[q][e][n] + 1
      /\ \A x \in Queues, y \in Events, z \in Counts :
           x # q \/ y # e \/ z # n => ready'[x][y][z] = ready[x][y][z]
  BY <1>1 DEF PutBack, TypeOK
<1>3. /\ job' \in [Queues -> {Idle} \cup
                     [stage : Stages, event : Events \ Malformed, count : Counts]]
      /\ job'[q].stage = "idle" /\ \A x \in Queues \ {q} : job'[x] = job[x]
  BY FreeJob
<1>4. ready[q][e][n] \in Nat /\ ready'[q][e][n] > 0
  BY <1>1, <1>2 DEF TypeOK
<1>5. Copy(q, e, n)
  BY <1>1 DEF Copy
<1>6. \A y, z : Busy(q) /\ job[q].event = y /\ job[q].count = z <=> y = e /\ z = n
  OBVIOUS
<1> HIDE DEF e, n
<1>7. TypeOK'
  BY <1>2, <1>3 DEF TypeOK
<1>8. Copies'
  <2> SUFFICES ASSUME NEW x \in Queues, NEW y \in Events, NEW z \in Counts, Copy(x, y, z)'
               PROVE  Copy(x, y, z)
    BY DEF Copies, Routed
  <2>1. CASE x = q /\ y = e /\ z = n
    BY <1>5, <2>1
  <2>2. CASE ~(x = q /\ y = e /\ z = n)
    <3>1. ready'[x][y][z] = ready[x][y][z]
      BY <1>2, <2>2
    <3>2. CASE ready'[x][y][z] > 0
      BY <3>1, <3>2 DEF Copy
    <3>3. CASE Busy(x)' /\ job'[x].event = y /\ job'[x].count = z
      BY <1>3, <3>3 DEF Copy, Busy
    <3>4. QED  BY <3>2, <3>3 DEF Copy
  <2>3. QED  BY <2>1, <2>2
<1>9. Failures' /\ DeadLettersEarned'
  BY <1>3 DEF Failures, DeadLettersEarned
<1>10. Kept'
  <2> SUFFICES ASSUME NEW x \in Queues, NEW y \in owed[x] PROVE Safe(x, y)' \/ InHand(x, y)'
    BY DEF Kept
  <2>0. y \in Events
    BY DEF TypeOK
  <2>1. CASE x = q /\ y = e
    BY <1>1, <1>4, <2>1 DEF Safe
  <2>2. CASE ~(x = q /\ y = e)
    <3>1. Safe(x, y) => Safe(x, y)'
      BY <1>2, <2>0, <2>2 DEF Safe
    <3>2. InHand(x, y) => InHand(x, y)'
      BY <1>3, <2>2 DEF InHand, e
    <3>3. QED  BY <3>1, <3>2 DEF Kept
  <2>3. QED  BY <2>1, <2>2
<1>11. QED  BY <1>7, <1>8, <1>9, <1>10

(* What is acknowledged has been settled.                                  *)
LEMMA AckBusInv == ASSUME BusInv, NEW q \in Queues, Ack(q) PROVE BusInv'
<1> USE DEF BusInv
<1>1. /\ job[q].stage = "settled" /\ Free(q)
      /\ UNCHANGED <<unsent, declared, consumer, ready, dlq, owed, done, failures, crashes>>
  BY DEF Ack
<1>2. /\ job' \in [Queues -> {Idle} \cup
                     [stage : Stages, event : Events \ Malformed, count : Counts]]
      /\ job'[q].stage = "idle" /\ \A x \in Queues \ {q} : job'[x] = job[x]
  BY <1>1, FreeJob
<1>3. TypeOK'
  BY <1>1, <1>2 DEF TypeOK
<1>4. Copies'
  <2>1. \A x \in Queues, y \in Events, z \in Counts : Copy(x, y, z)' => Copy(x, y, z)
    BY <1>1, <1>2 DEF Copy, Busy
  <2>2. QED  BY <1>1, <2>1 DEF Copies, Routed
<1>5. Failures' /\ DeadLettersEarned'
  BY <1>1, <1>2 DEF Failures, DeadLettersEarned
<1>6. Kept'
  <2>1. \A x \in Queues, y \in Events : InHand(x, y) => InHand(x, y)'
    BY <1>1, <1>2 DEF InHand
  <2>2. \A x \in Queues, y \in Events : Safe(x, y) => Safe(x, y)'
    BY <1>1 DEF Safe
  <2>3. QED  BY <1>1, <2>1, <2>2 DEF Kept, TypeOK
<1>7. QED  BY <1>3, <1>4, <1>5, <1>6

(* Every step of the bus keeps the invariant.                              *)
LEMMA StepBusInv == BusInv /\ [Next]_vars => BusInv'
<1> SUFFICES ASSUME BusInv, [Next]_vars PROVE BusInv'
  OBVIOUS
<1>0. TypeOK
  BY DEF BusInv
<1>1. ASSUME NEW e \in Events, Send(e) PROVE BusInv'
  BY <1>1, SendBusInv
<1>2. ASSUME NEW q \in Queues, Boot(q) PROVE BusInv'
  <2>1. /\ UNCHANGED <<unsent, ready, job, dlq, owed, done, failures, crashes>>
        /\ declared \subseteq declared' /\ declared' \subseteq Queues
        /\ unsent' \subseteq Events /\ crashes' \in Nat
    BY <1>0, <1>2 DEF Boot, TypeOK
  <2>2. consumer' \in [Queues -> {"down", "deaf", "on"}]
    BY <1>0, <1>2 DEF Boot, TypeOK
  <2>3. QED  BY <2>1, <2>2, IdleBusInv
<1>3. ASSUME NEW q \in Queues, Take(q) PROVE BusInv'
  BY <1>3, DeliverBusInv DEF Take
<1>4. ASSUME NEW q \in Queues, Handle(q) PROVE BusInv'
  BY <1>4, HandleBusInv
<1>5. ASSUME NEW q \in Queues, Settle(q) PROVE BusInv'
  BY <1>5, SettleBusInv
<1>6. ASSUME NEW q \in Queues, Requeue(q) PROVE BusInv'
  <2>1. /\ Busy(q) /\ PutBack(q) /\ Free(q)
        /\ UNCHANGED <<unsent, declared, dlq, owed, done, failures>>
        /\ consumer' = consumer /\ crashes' = crashes
    BY <1>6 DEF Requeue, Busy
  <2>2. consumer' \in [Queues -> {"down", "deaf", "on"}] /\ crashes' \in Nat
    BY <1>0, <2>1 DEF TypeOK
  <2>3. QED  BY <2>1, <2>2, PutBackBusInv
<1>7. ASSUME NEW q \in Queues, Ack(q) PROVE BusInv'
  BY <1>7, AckBusInv
<1>8. ASSUME NEW q \in Queues, Disconnect(q) PROVE BusInv'
  <2>1. /\ UNCHANGED <<unsent, declared, dlq, owed, done, failures>>
        /\ IF Busy(q) THEN PutBack(q) /\ Free(q) ELSE UNCHANGED <<ready, job>>
    BY <1>8 DEF Disconnect
  <2>2. consumer' \in [Queues -> {"down", "deaf", "on"}] /\ crashes' \in Nat
    BY <1>0, <1>8 DEF Disconnect, TypeOK
  <2>3. CASE Busy(q)
    BY <2>1, <2>2, <2>3, PutBackBusInv
  <2>4. CASE ~Busy(q)
    BY <1>0, <2>1, <2>2, <2>4, IdleBusInv DEF TypeOK
  <2>5. QED  BY <2>3, <2>4
<1>9. ASSUME NEW q \in Queues, Redeploy(q) PROVE BusInv'
  <2>1. UNCHANGED <<unsent, declared, ready, job, dlq, owed, done, failures, crashes>>
    BY <1>9 DEF Redeploy
  <2>2. consumer' \in [Queues -> {"down", "deaf", "on"}]
    BY <1>0, <1>9 DEF Redeploy, TypeOK
  <2>3. QED  BY <1>0, <2>1, <2>2, IdleBusInv DEF TypeOK
<1>10. CASE UNCHANGED vars
  BY <1>0, <1>10, IdleBusInv DEF vars, TypeOK
<1>11. QED
  BY <1>1, <1>2, <1>3, <1>4, <1>5, <1>6, <1>7, <1>8, <1>9, <1>10 DEF Next

(* The bus keeps its inductive invariant.                                  *)
THEOREM BusInvariant == Spec => []BusInv
BY InitBusInv, StepBusInv, PTL DEF Spec

(* No handler is ever given a malformed event.                             *)
THEOREM TypeCorrect == Spec => []TypeOK
<1>1. BusInv => TypeOK
  BY DEF BusInv
<1>2. QED  BY <1>1, BusInvariant, PTL

(* What is kept is not lost.                                               *)
LEMMA KeptIsNotLost == BusInv => NoEventLost
<1> SUFFICES ASSUME BusInv, NEW q \in Queues, NEW e \in owed[q], e \notin done[q],
                    ~(dlq[q][e] > 0)
             PROVE  \E n \in Counts : ready[q][e][n] + Held(q, e, n) > 0
  BY DEF NoEventLost
<1>0. TypeOK /\ e \in Events
  BY DEF BusInv, TypeOK
<1>1. \A n \in Counts : ready[q][e][n] \in Nat /\ Held(q, e, n) \in {0, 1}
  BY <1>0 DEF TypeOK, Held
<1>2. CASE Safe(q, e)
  <2>1. PICK n \in Counts : ready[q][e][n] > 0
    BY <1>2 DEF Safe
  <2>2. QED  BY <1>1, <2>1
<1>3. CASE InHand(q, e)
  <2> DEFINE n == job[q].count
  <2>1. Busy(q) /\ n \in Counts
    BY <1>0, <1>3, JobTypes DEF InHand, Busy
  <2>2. Held(q, e, n) = 1
    BY <1>3, <2>1 DEF InHand, Held
  <2> HIDE DEF n
  <2>3. QED  BY <1>1, <2>1, <2>2
<1>4. QED  BY <1>2, <1>3 DEF BusInv, Kept

(* At-least-once: whatever crashes, fails to publish or is requeued, an    *)
(* event that has reached the queue of a service is handled, dead-lettered,*)
(* waiting or in hand (ConsumeEvents, publishRetry and publishDLQ).        *)
THEOREM NothingLost == Spec => []NoEventLost
BY KeptIsNotLost, BusInvariant, PTL

(* An event is dead-lettered only after more than MaxRetries handlings of  *)
(* it have failed (the x-retry-count that ConsumeEvents compares).         *)
THEOREM DeadLettersAreEarned == Spec => []DeadLettersEarned
<1>1. BusInv => DeadLettersEarned
  BY DEF BusInv
<1>2. QED  BY <1>1, BusInvariant, PTL
-----------------------------------------------------------------------------
(* Retries.  Fates are counted as tokens: n is a retry count, or one more  *)
(* for a dead letter, i tells the copies in a queue apart, and f is a way  *)
(* to go on.                                                               *)
Ns == 0 .. MaxRetries + 1
Amounts == [Queues -> [Ns -> Nat]]
Tokens(a, e) ==
  UNION {{q} \X {n} \X (1 .. a[q][n]) \X Futures(e, n) : q \in Queues, n \in Ns}
Newest(a, e, G, n) == {<<q, n, a[q][n] + 1, f>> : q \in G, f \in Futures(e, n)}

(* A copy in hand and not answered for; the amounts; the fates fit in the  *)
(* room of r first copies.                                                 *)
Mine(q, e, n) == IF InHand(q, e) /\ job[q].count = n THEN 1 ELSE 0
Amt(e) == [q \in Queues |-> [n \in Ns |-> Amount(q, e, n)]]
Fit(e, r) == /\ IsFiniteSet(Fates(e))
             /\ Cardinality(Fates(e)) =< r * Cardinality(Futures(e, 0))

Counted(e) ==
  /\ Fates(e) = Tokens(Amt(e), e) /\ Amt(e) \in Amounts
  /\ \A q \in Queues, n \in Ns : Amt(e)[q][n] = Amount(q, e, n)
  /\ \A q \in Queues : Amount(q, e, MaxRetries + 1) = dlq[q][e]
  /\ \A q \in Queues, n \in Counts : Amount(q, e, n) = ready[q][e][n] + Mine(q, e, n)

(* One that maps different elements to different ones.                     *)
LEMMA Smaller ==
  ASSUME NEW S, NEW T, IsFiniteSet(T), NEW f, f \in [S -> T],
         \A x, y \in S : f[x] = f[y] => x = y
  PROVE  IsFiniteSet(S) /\ Cardinality(S) =< Cardinality(T)
<1>1. f \in Injection(S, T)
  BY DEF Injection, IsInjective, Restrict
<1>2. QED  BY <1>1, FS_Injection

(* Some elements leave a finite set and others come.                       *)
LEMMA Exchange ==
  ASSUME NEW S, IsFiniteSet(S), NEW X \in SUBSET S, NEW Y, IsFiniteSet(Y), NEW T,
         T \subseteq (S \ X) \cup Y
  PROVE  /\ IsFiniteSet(T) /\ Cardinality(T) \in Nat /\ Cardinality(S) \in Nat
         /\ Cardinality(X) \in Nat /\ Cardinality(Y) \in Nat
         /\ Cardinality(T) =< Cardinality(S) - Cardinality(X) + Cardinality(Y)
<1> DEFINE R == S \ X
<1>1. IsFiniteSet(R) /\ Cardinality(R) = Cardinality(S) - Cardinality(S \cap X)
  BY FS_Difference
<1>2. S \cap X = X /\ IsFiniteSet(X)
  BY FS_Subset
<1> HIDE DEF R
<1>3. /\ IsFiniteSet(R \cup Y)
      /\ Cardinality(R \cup Y) = Cardinality(R) + Cardinality(Y) - Cardinality(R \cap Y)
  BY <1>1, FS_Union
<1>4. IsFiniteSet(T) /\ Cardinality(T) =< Cardinality(R \cup Y)
  <2>1. T \in SUBSET (R \cup Y)
    BY DEF R
  <2>2. QED  BY <1>3, <2>1, FS_Subset
<1>5. IsFiniteSet(R \cap Y)
  BY <1>1, FS_Intersection
<1>6. /\ Cardinality(T) \in Nat /\ Cardinality(S) \in Nat /\ Cardinality(X) \in Nat
      /\ Cardinality(Y) \in Nat /\ Cardinality(R) \in Nat /\ Cardinality(R \cup Y) \in Nat
      /\ Cardinality(R \cap Y) \in Nat
  BY <1>1, <1>2, <1>3, <1>4, <1>5, FS_CardinalityType
<1>7. Cardinality(R) = Cardinality(S) - Cardinality(X)
  BY <1>1, <1>2
<1>8. QED  BY <1>3, <1>4, <1>6, <1>7

(* Functions that agree are the same.                                      *)
LEMMA SameFunction ==
  ASSUME NEW K, NEW S, NEW f \in [K -> S], NEW h \in [K -> S], \A k \in K : f[k] = h[k]
  PROVE  f = h
OBVIOUS

(* What a token is.                                                        *)
LEMMA TokenMember ==
  ASSUME NEW a, NEW e, NEW x
  PROVE  x \in Tokens(a, e) <=>
           \E q \in Queues, n \in Ns : \E i \in 1 .. a[q][n], f \in Futures(e, n) :
             x = <<q, n, i, f>>
<1> DEFINE P(q, n) == {q} \X {n} \X (1 .. a[q][n]) \X Futures(e, n)
<1>1. x \in Tokens(a, e) <=> \E q \in Queues, n \in Ns : x \in P(q, n)
  <2>1. Tokens(a, e) = UNION {P(q, n) : q \in Queues, n \in Ns}
    BY DEF Tokens
  <2> HIDE DEF P
  <2>2. QED  BY <2>1
<1>2. ASSUME NEW q \in Queues, NEW n \in Ns
      PROVE  x \in P(q, n) <=> \E i \in 1 .. a[q][n], f \in Futures(e, n) : x = <<q, n, i, f>>
  OBVIOUS
<1> HIDE DEF P
<1>3. QED  BY <1>1, <1>2

(* When only the amounts of the queues G for n grow, and by one.           *)
LEMMA Grown ==
  ASSUME NEW a \in Amounts, NEW b \in Amounts, NEW e, NEW G \in SUBSET Queues, NEW n \in Ns,
         \A q \in Queues, m \in Ns :
           b[q][m] =< IF q \in G /\ m = n THEN a[q][m] + 1 ELSE a[q][m]
  PROVE  Tokens(b, e) \subseteq Tokens(a, e) \cup Newest(a, e, G, n)
<1> SUFFICES ASSUME NEW x \in Tokens(b, e), x \notin Newest(a, e, G, n)
             PROVE  x \in Tokens(a, e)
  OBVIOUS
<1>0. PICK q \in Queues, m \in Ns :
        \E i \in 1 .. b[q][m], f \in Futures(e, m) : x = <<q, m, i, f>>
  BY TokenMember
<1>1. PICK i \in 1 .. b[q][m], f \in Futures(e, m) : x = <<q, m, i, f>>
  BY <1>0
<1>2. a[q][m] \in Nat /\ b[q][m] \in Nat
  BY DEF Amounts
<1>3. CASE i \in 1 .. a[q][m]
  BY <1>1, <1>3, TokenMember
<1>4. CASE i \notin 1 .. a[q][m]
  <2>1. q \in G /\ m = n /\ i = a[q][m] + 1
    BY <1>2, <1>4
  <2>2. x \in Newest(a, e, G, n)
    BY <1>1, <2>1 DEF Newest
  <2>3. QED  BY <2>2
<1>5. QED  BY <1>3, <1>4

(* A copy can go finitely many ways.                                       *)
LEMMA FinitelyManyFutures ==
  ASSUME NEW e, NEW n \in Nat
  PROVE  /\ IsFiniteSet(Homes(e)) /\ Cardinality(Homes(e)) \in Nat
         /\ IsFiniteSet(Futures(e, n)) /\ Cardinality(Futures(e, n)) \in Nat
<1> DEFINE K == n + 1 .. MaxRetries
           P == K \X Homes(e)
           g == [f \in Futures(e, n) |-> {p \in P : f[p[1]] = p[2]}]
<1>1. IsFiniteSet(Homes(e))
  <2>1. Homes(e) \in SUBSET Queues
    BY DEF Homes
  <2>2. QED  BY <2>1, FS_Subset
<1>2. IsFiniteSet(SUBSET P)
  <2>1. IsFiniteSet(K)
    BY FS_Interval
  <2> HIDE DEF K
  <2>2. IsFiniteSet(P)
    BY <1>1, <2>1, FS_Product
  <2>3. QED  BY <2>2, FS_SUBSET
<1>3. g \in [Futures(e, n) -> SUBSET P]
  OBVIOUS
<1>4. ASSUME NEW f \in Futures(e, n), NEW h \in Futures(e, n), g[f] = g[h]
      PROVE  f = h
  <2> SUFFICES ASSUME NEW k \in K PROVE f[k] = h[k]
    BY SameFunction DEF Futures
  <2>1. f[k] \in Homes(e) /\ h[k] \in Homes(e)
    BY DEF Futures
  <2>2. <<k, f[k]>> \in g[f]
    BY <2>1
  <2>3. <<k, f[k]>> \in {p \in P : h[p[1]] = p[2]}
    BY <1>4, <2>2
  <2>4. QED  BY <2>3
<1> HIDE DEF g, P
<1>5. IsFiniteSet(Futures(e, n))
  BY <1>2, <1>3, <1>4, Smaller
<1>6. QED  BY <1>1, <1>5, FS_CardinalityType

(* It has fewer ways to go the more often it has been retried.             *)
LEMMA FewerFutures ==
  ASSUME NEW e, NEW n \in Ns, Homes(e) # {}
  PROVE  Cardinality(Futures(e, n)) =< Cardinality(Futures(e, 0))
<1>1. PICK d \in Homes(e) : TRUE
  OBVIOUS
<1> DEFINE g == [f \in Futures(e, n) |-> [k \in 0 + 1 .. MaxRetries |-> IF k > n THEN f[k] ELSE d]]
<1>2. g \in [Futures(e, n) -> Futures(e, 0)]
  <2> SUFFICES ASSUME NEW f \in Futures(e, n) PROVE g[f] \in Futures(e, 0)
    OBVIOUS
  <2>1. ASSUME NEW k \in 0 + 1 .. MaxRetries PROVE (IF k > n THEN f[k] ELSE d) \in Homes(e)
    BY DEF Futures, Ns
  <2>2. QED  BY <2>1 DEF Futures
<1>3. ASSUME NEW f \in Futures(e, n), NEW h \in Futures(e, n), g[f] = g[h]
      PROVE  f = h
  <2>1. ASSUME NEW k \in n + 1 .. MaxRetries PROVE f[k] = h[k]
    <3>1. k \in 0 + 1 .. MaxRetries /\ k > n
      BY DEF Ns
    <3>2. g[f][k] = f[k] /\ g[h][k] = h[k]
      BY <3>1
    <3>3. QED  BY <1>3, <3>2
  <2> HIDE DEF g
  <2>2. f \in [n + 1 .. MaxRetries -> Homes(e)] /\ h \in [n + 1 .. MaxRetries -> Homes(e)]
    BY DEF Futures
  <2> DEFINE K == n + 1 .. MaxRetries
  <2> HIDE DEF K
  <2>3. f \in [K -> Homes(e)] /\ h \in [K -> Homes(e)] /\ \A k \in K : f[k] = h[k]
    BY <2>1, <2>2 DEF K
  <2>4. QED  BY <2>3, SameFunction
<1>4. IsFiniteSet(Futures(e, 0))
  BY FinitelyManyFutures
<1> HIDE DEF g
<1>5. QED  BY <1>2, <1>3, <1>4, Smaller

(* There are as many new tokens as queues that grow, times their futures.  *)
LEMMA CountNewest ==
  ASSUME NEW a, NEW e, NEW G, IsFiniteSet(G), NEW n \in Nat
  PROVE  /\ IsFiniteSet(Newest(a, e, G, n)) /\ Cardinality(Newest(a, e, G, n)) \in Nat
         /\ Cardinality(G) \in Nat
         /\ Cardinality(Newest(a, e, G, n)) =< Cardinality(G) * Cardinality(Futures(e, n))
<1> DEFINE Y == Newest(a, e, G, n)
           g == [y \in Y |-> <<y[1], y[4]>>]
<1>1. g \in [Y -> G \X Futures(e, n)]
  BY DEF Newest
<1>2. \A x, y \in Y : g[x] = g[y] => x = y
  <2> SUFFICES ASSUME NEW x \in Y, NEW y \in Y, g[x] = g[y] PROVE x = y
    OBVIOUS
  <2>1. PICK q \in G, f \in Futures(e, n) : x = <<q, n, a[q][n] + 1, f>>
    BY DEF Newest
  <2>2. PICK r \in G, h \in Futures(e, n) : y = <<r, n, a[r][n] + 1, h>>
    BY DEF Newest
  <2>3. q = r /\ f = h
    BY <2>1, <2>2
  <2>4. QED  BY <2>1, <2>2, <2>3
<1>3. IsFiniteSet(Futures(e, n))
  BY FinitelyManyFutures
<1>4. /\ IsFiniteSet(G \X Futures(e, n))
      /\ Cardinality(G \X Futures(e, n)) = Cardinality(G) * Cardinality(Futures(e, n))
  BY <1>3, FS_Product
<1> HIDE DEF g, Y
<1>5. IsFiniteSet(Y) /\ Cardinality(Y) =< Cardinality(G \X Futures(e, n))
  BY <1>1, <1>2, <1>4, Smaller
<1>6. QED  BY <1>4, <1>5, FS_CardinalityType DEF Y

(* One more copy, in each queue of G.                                      *)
LEMMA MoreTokens ==
  ASSUME NEW a \in Amounts, NEW b \in Amounts, NEW e, IsFiniteSet(Tokens(a, e)),
         NEW G \in SUBSET Queues, NEW n \in Ns,
         \A q \in Queues, m \in Ns :
           b[q][m] =< IF q \in G /\ m = n THEN a[q][m] + 1 ELSE a[q][m]
  PROVE  /\ IsFiniteSet(Tokens(b, e)) /\ Cardinality(Tokens(b, e)) \in Nat
         /\ Cardinality(Tokens(a, e)) \in Nat /\ Cardinality(G) \in Nat
         /\ Cardinality(Futures(e, n)) \in Nat
         /\ Cardinality(Tokens(b, e)) =< Cardinality(Tokens(a, e))
                                           + Cardinality(G) * Cardinality(Futures(e, n))
<1>1. IsFiniteSet(G)
  BY FS_Subset
<1>2. Tokens(b, e) \subseteq (Tokens(a, e) \ {}) \cup Newest(a, e, G, n)
  BY Grown
<1>3. /\ IsFiniteSet(Newest(a, e, G, n)) /\ Cardinality(Newest(a, e, G, n)) \in Nat
      /\ Cardinality(G) \in Nat /\ Cardinality(Futures(e, n)) \in Nat
      /\ Cardinality(Newest(a, e, G, n)) =< Cardinality(G) * Cardinality(Futures(e, n))
  BY <1>1, CountNewest, FinitelyManyFutures DEF Ns
<1>4. {} \in SUBSET Tokens(a, e) /\ Cardinality({}) = 0
  BY FS_EmptySet
<1>5. /\ IsFiniteSet(Tokens(b, e)) /\ Cardinality(Tokens(b, e)) \in Nat
      /\ Cardinality(Tokens(a, e)) \in Nat
      /\ Cardinality(Tokens(b, e)) =< Cardinality(Tokens(a, e)) - Cardinality({})
                                        + Cardinality(Newest(a, e, G, n))
  BY <1>2, <1>3, <1>4, Exchange
<1> DEFINE k == Cardinality(G) * Cardinality(Futures(e, n))
<1>6. k \in Nat
  BY <1>3
<1> HIDE DEF k
<1>7. Cardinality(Newest(a, e, G, n)) =< k
  BY <1>3 DEF k
<1>8. Cardinality(Tokens(b, e)) =< Cardinality(Tokens(a, e)) + k
  BY <1>3, <1>4, <1>5, <1>6, <1>7
<1>9. QED  BY <1>3, <1>5, <1>8 DEF k

(* One copy fewer in q, and instead one more for each way it could go on.  *)
LEMMA MovedTokens ==
  ASSUME NEW a \in Amounts, NEW b \in Amounts, NEW e, IsFiniteSet(Tokens(a, e)),
         NEW q \in Queues, NEW n \in Counts, a[q][n] > 0, b[q][n] < a[q][n],
         NEW G \in SUBSET Homes(e), n = MaxRetries => G \subseteq {q},
         \A x \in Queues, m \in Ns :
           b[x][m] =< IF x \in G /\ m = n + 1 THEN a[x][m] + 1 ELSE a[x][m]
  PROVE  /\ IsFiniteSet(Tokens(b, e)) /\ Cardinality(Tokens(b, e)) \in Nat
         /\ Cardinality(Tokens(a, e)) \in Nat
         /\ Cardinality(Tokens(b, e)) =< Cardinality(Tokens(a, e))
<1> DEFINE X == {<<q, n, a[q][n], f>> : f \in Futures(e, n)}
           Y == Newest(a, e, G, n + 1)
<1>0. n \in Ns /\ n + 1 \in Ns /\ n \in Nat /\ n + 1 \in Nat /\ n =< MaxRetries
  BY DEF Ns, Counts
<1>00. /\ a[q][n] \in Nat /\ b[q][n] \in Nat /\ G \in SUBSET Queues
       /\ \A f : f \in Futures(e, n) => <<q, n, a[q][n], f>> \in X
  BY <1>0 DEF Amounts, Homes
<1>1. X \in SUBSET Tokens(a, e)
  <2> SUFFICES ASSUME NEW f \in Futures(e, n) PROVE <<q, n, a[q][n], f>> \in Tokens(a, e)
    OBVIOUS
  <2>1. a[q][n] \in 1 .. a[q][n]
    BY <1>00
  <2>2. QED  BY <1>0, <2>1, TokenMember
<1>2. Tokens(b, e) \subseteq (Tokens(a, e) \ X) \cup Y
  <2>1. Tokens(b, e) \subseteq Tokens(a, e) \cup Y
    BY <1>0, <1>00, Grown
  <2>2. ASSUME NEW x \in Tokens(b, e), x \in X PROVE FALSE
    <3>1. PICK f \in Futures(e, n) : x = <<q, n, a[q][n], f>>
      BY <2>2
    <3>2. PICK r \in Queues, m \in Ns :
            \E i \in 1 .. b[r][m], h \in Futures(e, m) : x = <<r, m, i, h>>
      BY TokenMember
    <3>3. r = q /\ m = n /\ a[q][n] \in 1 .. b[q][n]
      BY <3>1, <3>2
    <3>4. QED  BY <1>00, <3>3
  <2>3. QED  BY <2>1, <2>2
<1>3. IsFiniteSet(X)
  BY <1>1, FS_Subset
<1>4. IsFiniteSet(Y) /\ Cardinality(Y) =< Cardinality(X)
  <2> DEFINE Longer(r, f) == [k \in n + 1 .. MaxRetries |-> IF k = n + 1 THEN r ELSE f[k]]
             g == [y \in Y |-> <<q, n, a[q][n], Longer(y[1], y[4])>>]
  <2>1. ASSUME NEW r \in G, NEW f \in Futures(e, n + 1) PROVE Longer(r, f) \in Futures(e, n)
    <3>1. ASSUME NEW k \in n + 1 .. MaxRetries PROVE (IF k = n + 1 THEN r ELSE f[k]) \in Homes(e)
      <4>1. k # n + 1 => k \in n + 1 + 1 .. MaxRetries
        BY <1>0
      <4>2. QED  BY <4>1 DEF Futures
    <3>2. QED  BY <3>1 DEF Futures
  <2>2. g \in [Y -> X]
    <3>1. ASSUME NEW y \in Y PROVE <<q, n, a[q][n], Longer(y[1], y[4])>> \in X
      <4>1. y[1] \in G /\ y[4] \in Futures(e, n + 1)
        BY <3>1 DEF Newest
      <4> HIDE DEF X, Y, Longer
      <4>2. QED  BY <1>00, <2>1, <4>1
    <3> HIDE DEF X, Y, Longer
    <3>2. QED  BY <3>1
  <2>3. ASSUME NEW x \in Y, NEW y \in Y, g[x] = g[y] PROVE x = y
    <3>1. PICK r \in G, f \in Futures(e, n + 1) : x = <<r, n + 1, a[r][n + 1] + 1, f>>
      BY DEF Newest
    <3>2. PICK s \in G, h \in Futures(e, n + 1) : y = <<s, n + 1, a[s][n + 1] + 1, h>>
      BY DEF Newest
    <3> HIDE DEF Y
    <3>3. Longer(r, f) = Longer(s, h)
      <4> HIDE DEF Longer
      <4>1. g[x] = <<q, n, a[q][n], Longer(r, f)>> /\ g[y] = <<q, n, a[q][n], Longer(s, h)>>
        BY <3>1, <3>2
      <4>2. QED  BY <2>3, <4>1
    <3>4. r = s
      <4>1. CASE n = MaxRetries
        BY <4>1
      <4>2. CASE n # MaxRetries
        <5>1. n + 1 \in n + 1 .. MaxRetries
          BY <1>0, <4>2
        <5>2. Longer(r, f)[n + 1] = r /\ Longer(s, h)[n + 1] = s
          BY <5>1
        <5>3. QED  BY <3>3, <5>2
      <4>3. QED  BY <4>1, <4>2
    <3>5. ASSUME NEW k \in n + 1 + 1 .. MaxRetries PROVE f[k] = h[k]
      <4>1. k \in n + 1 .. MaxRetries /\ k # n + 1
        BY <1>0
      <4>2. Longer(r, f)[k] = f[k] /\ Longer(s, h)[k] = h[k]
        BY <4>1
      <4>3. QED  BY <3>3, <4>2
    <3> DEFINE K == n + 1 + 1 .. MaxRetries
    <3> HIDE DEF Longer, g, X
    <3>6. f \in [K -> Homes(e)] /\ h \in [K -> Homes(e)] /\ \A k \in K : f[k] = h[k]
      BY <3>5 DEF Futures
    <3> HIDE DEF K
    <3>7. f = h
      BY <3>6, SameFunction
    <3>8. QED  BY <3>1, <3>2, <3>4, <3>7
  <2> HIDE DEF g, X, Y, Longer
  <2>4. QED  BY <1>3, <2>2, <2>3, Smaller
<1> HIDE DEF X, Y
<1>5. /\ IsFiniteSet(Tokens(b, e)) /\ Cardinality(Tokens(b, e)) \in Nat
      /\ Cardinality(Tokens(a, e)) \in Nat /\ Cardinality(X) \in Nat /\ Cardinality(Y) \in Nat
      /\ Cardinality(Tokens(b, e)) =< Cardinality(Tokens(a, e)) - Cardinality(X) + Cardinality(Y)
  BY <1>1, <1>2, <1>4, Exchange
<1>6. QED  BY <1>4, <1>5

(* The fates of e are the tokens of its copies: those waiting and those in *)
(* hand and not answered for, and its dead letters.                        *)
LEMMA CountFates == TypeOK => \A e \in Events : Counted(e)
<1> SUFFICES ASSUME TypeOK, NEW e \in Events PROVE Counted(e)
  OBVIOUS
<1>1. ASSUME NEW q \in Queues, NEW n \in Counts
      PROVE  Amount(q, e, n) = ready[q][e][n] + Mine(q, e, n) /\ Amount(q, e, n) \in Nat
  <2>1. ~(n > MaxRetries) /\ ready[q][e][n] \in Nat
    BY DEF Counts, TypeOK
  <2>2. (IF job[q].stage = "settled" THEN 0 ELSE Held(q, e, n)) = Mine(q, e, n)
    BY JobTypes DEF Held, Mine, InHand, Busy, Stages
  <2>3. Mine(q, e, n) \in Nat
    BY DEF Mine
  <2>4. QED  BY <2>1, <2>2, <2>3 DEF Amount
<1>2. \A q \in Queues : Amount(q, e, MaxRetries + 1) = dlq[q][e] /\ dlq[q][e] \in Nat
  BY DEF Amount, TypeOK
<1>3. \A q \in Queues, n \in Ns : Amount(q, e, n) \in Nat
  <2>1. \A n \in Ns : n \in Counts \/ n = MaxRetries + 1
    BY DEF Ns, Counts
  <2>2. QED  BY <1>1, <1>2, <2>1
<1>4. Amt(e) \in Amounts /\ \A q \in Queues, n \in Ns : Amt(e)[q][n] = Amount(q, e, n)
  BY <1>3 DEF Amt, Amounts
<1>5. Fates(e) = Tokens(Amt(e), e)
  <2>1. \A q \in Queues, n \in Ns :
          {q} \X {n} \X (1 .. Amount(q, e, n)) \X Futures(e, n)
            = {q} \X {n} \X (1 .. Amt(e)[q][n]) \X Futures(e, n)
    BY <1>4
  <2>2. QED  BY <2>1 DEF Fates, Tokens, Ns
<1>6. QED  BY <1>1, <1>2, <1>4, <1>5 DEF Counted

(* So they are after a step.                                               *)
LEMMA CountFatesNext == TypeOK' => \A e \in Events : Counted(e)'
<1>1. (TypeOK => \A e \in Events : Counted(e))'
  BY CountFates, PTL
<1>2. QED  BY <1>1

(* What comes with no more futures than the first copies had needs no more *)
(* room than those.                                                        *)
LEMMA Room ==
  ASSUME NEW k \in Nat, NEW l \in Nat, NEW r \in Nat, NEW f \in Nat, NEW g \in Nat, NEW h \in Nat,
         k =< r * f, l =< k + g * h, h =< f
  PROVE  l =< (r + g) * f
<1>1. g * h =< g * f
  OBVIOUS
<1>2. (r + g) * f = r * f + g * f
  OBVIOUS
<1>3. r * f \in Nat /\ g * f \in Nat /\ g * h \in Nat
  OBVIOUS
<1>4. QED  BY <1>1, <1>2, <1>3

(* What fits fits in more room.                                            *)
LEMMA MoreRoom ==
  ASSUME NEW k \in Nat, NEW r \in Nat, NEW s \in Nat, NEW f \in Nat, k =< r * f, r =< s
  PROVE  k =< s * f
<1>1. r * f =< s * f /\ r * f \in Nat /\ s * f \in Nat
  OBVIOUS
<1>2. QED  BY <1>1

(* One more copy, in each of the queues G.                                 *)
LEMMA MoreFit ==
  ASSUME TypeOK, TypeOK', NEW e \in Events, NEW r \in Nat, Fit(e, r),
         NEW G \in SUBSET Queues, NEW n \in Ns, Homes(e) = {} => n = 0,
         \A q \in Queues, m \in Ns :
           Amount(q, e, m)' =< IF q \in G /\ m = n THEN Amount(q, e, m) + 1 ELSE Amount(q, e, m)
  PROVE  Cardinality(G) \in Nat /\ Fit(e, r + Cardinality(G))'
<1>1. Counted(e) /\ Counted(e)'
  BY CountFates, CountFatesNext
<1> DEFINE a == Amt(e)
           b == Amt(e)'
<1>2. a \in Amounts /\ b \in Amounts /\ Fates(e) = Tokens(a, e) /\ Fates(e)' = Tokens(b, e)
  BY <1>1 DEF Counted
<1>3. \A q \in Queues, m \in Ns : b[q][m] =< IF q \in G /\ m = n THEN a[q][m] + 1 ELSE a[q][m]
  BY <1>1 DEF Counted
<1>4. IsFiniteSet(Tokens(a, e))
  BY <1>2 DEF Fit
<1> HIDE DEF a, b
<1>5. /\ IsFiniteSet(Tokens(b, e)) /\ Cardinality(Tokens(b, e)) \in Nat
      /\ Cardinality(Tokens(a, e)) \in Nat /\ Cardinality(G) \in Nat
      /\ Cardinality(Futures(e, n)) \in Nat
      /\ Cardinality(Tokens(b, e)) =< Cardinality(Tokens(a, e))
                                        + Cardinality(G) * Cardinality(Futures(e, n))
  BY <1>2, <1>3, <1>4, MoreTokens
<1>6. Cardinality(Futures(e, n)) =< Cardinality(Futures(e, 0)) /\ Cardinality(Futures(e, 0)) \in Nat
  BY <1>5, FewerFutures, FinitelyManyFutures
<1>7. Cardinality(Tokens(a, e)) =< r * Cardinality(Futures(e, 0))
  BY <1>2 DEF Fit
<1>8. Cardinality(Tokens(b, e)) =< (r + Cardinality(G)) * Cardinality(Futures(e, 0))
  BY <1>5, <1>6, <1>7, Room
<1>9. QED  BY <1>2, <1>5, <1>8 DEF Fit, Futures, Homes

(* No copy is there that was not.                                          *)
LEMMA StillFit ==
  ASSUME TypeOK, TypeOK', NEW e \in Events, NEW r \in Nat, Fit(e, r),
         \A q \in Queues, m \in Ns : Amount(q, e, m)' =< Amount(q, e, m)
  PROVE  Fit(e, r)'
<1>1. Cardinality({}) = 0 /\ {} \in SUBSET Queues /\ 0 \in Ns /\ r + 0 = r
  BY FS_EmptySet DEF Ns
<1>2. Fit(e, r + Cardinality({}))'
  BY <1>1, MoreFit
<1>3. QED  BY <1>1, <1>2

(* One copy has become another in each of the queues G.                    *)
LEMMA MovedFit ==
  ASSUME TypeOK, TypeOK', NEW e \in Events, NEW r \in Nat, Fit(e, r),
         NEW q \in Queues, NEW n \in Counts, Amount(q, e, n)' < Amount(q, e, n),
         NEW G \in SUBSET Homes(e), n = MaxRetries => G \subseteq {q},
         \A x \in Queues, m \in Ns :
           Amount(x, e, m)' =< IF x \in G /\ m = n + 1 THEN Amount(x, e, m) + 1 ELSE Amount(x, e, m)
  PROVE  Fit(e, r)'
<1>1. Counted(e) /\ Counted(e)' /\ n \in Ns
  BY CountFates, CountFatesNext DEF Ns, Counts
<1> DEFINE a == Amt(e)
           b == Amt(e)'
<1>2. a \in Amounts /\ b \in Amounts /\ Fates(e) = Tokens(a, e) /\ Fates(e)' = Tokens(b, e)
  BY <1>1 DEF Counted
<1>3. /\ \A x \in Queues, m \in Ns :
           b[x][m] =< IF x \in G /\ m = n + 1 THEN a[x][m] + 1 ELSE a[x][m]
      /\ b[q][n] < a[q][n]
  BY <1>1 DEF Counted
<1>4. IsFiniteSet(Tokens(a, e))
  BY <1>2 DEF Fit
<1> HIDE DEF a, b
<1>5. a[q][n] > 0
  <2>1. a[q][n] \in Nat /\ b[q][n] \in Nat
    BY <1>1, <1>2 DEF Amounts
  <2>2. QED  BY <1>3, <2>1
<1>6. /\ IsFiniteSet(Tokens(b, e)) /\ Cardinality(Tokens(b, e)) \in Nat
      /\ Cardinality(Tokens(a, e)) \in Nat
      /\ Cardinality(Tokens(b, e)) =< Cardinality(Tokens(a, e))
  BY <1>2, <1>3, <1>4, <1>5, MovedTokens
<1> DEFINE k == r * Cardinality(Futures(e, 0))
<1>7. k \in Nat
  BY FinitelyManyFutures
<1>8. Cardinality(Tokens(a, e)) =< k
  BY <1>2 DEF Fit
<1> HIDE DEF k
<1>9. Cardinality(Tokens(b, e)) =< k
  BY <1>6, <1>7, <1>8
<1>10. QED  BY <1>2, <1>6, <1>9 DEF Fit, Futures, Homes, k

(* An amount is a number of copies or of dead letters.                     *)
LEMMA AmountsOf ==
  ASSUME TypeOK, TypeOK', NEW e \in Events
  PROVE  \A q \in Queues, m \in Ns :
           \/ /\ m \in Counts /\ m # MaxRetries + 1
              /\ Amount(q, e, m) = ready[q][e][m] + Mine(q, e, m)
              /\ Amount(q, e, m)' = ready'[q][e][m] + Mine(q, e, m)'
              /\ ready[q][e][m] \in Nat /\ ready'[q][e][m] \in Nat
              /\ Mine(q, e, m) \in {0, 1} /\ Mine(q, e, m)' \in {0, 1}
           \/ /\ m = MaxRetries + 1 /\ m \notin Counts
              /\ Amount(q, e, m) = dlq[q][e] /\ Amount(q, e, m)' = dlq'[q][e]
              /\ dlq[q][e] \in Nat /\ dlq'[q][e] \in Nat
<1>1. Counted(e) /\ Counted(e)'
  BY CountFates, CountFatesNext
<1> SUFFICES ASSUME NEW q \in Queues, NEW m \in Ns
             PROVE \/ /\ m \in Counts /\ m # MaxRetries + 1
                      /\ Amount(q, e, m) = ready[q][e][m] + Mine(q, e, m)
                      /\ Amount(q, e, m)' = ready'[q][e][m] + Mine(q, e, m)'
                      /\ ready[q][e][m] \in Nat /\ ready'[q][e][m] \in Nat
                      /\ Mine(q, e, m) \in {0, 1} /\ Mine(q, e, m)' \in {0, 1}
                   \/ /\ m = MaxRetries + 1 /\ m \notin Counts
                      /\ Amount(q, e, m) = dlq[q][e] /\ Amount(q, e, m)' = dlq'[q][e]
                      /\ dlq[q][e] \in Nat /\ dlq'[q][e] \in Nat
  OBVIOUS
<1>2. (m \in Counts /\ m # MaxRetries + 1) \/ (m = MaxRetries + 1 /\ m \notin Counts)
  BY DEF Ns, Counts
<1>3. CASE m \in Counts
  <2>1. ready[q][e][m] \in Nat /\ ready'[q][e][m] \in Nat
    BY <1>3 DEF TypeOK
  <2>2. Mine(q, e, m) \in {0, 1} /\ Mine(q, e, m)' \in {0, 1}
    BY DEF Mine
  <2>3. Amount(q, e, m) = ready[q][e][m] + Mine(q, e, m)
    BY <1>1, <1>3 DEF Counted
  <2>4. Amount(q, e, m)' = ready'[q][e][m] + Mine(q, e, m)'
    BY <1>1, <1>3 DEF Counted
  <2>5. QED  BY <1>2, <1>3, <2>1, <2>2, <2>3, <2>4
<1>4. CASE m = MaxRetries + 1
  <2>1. dlq[q][e] \in Nat /\ dlq'[q][e] \in Nat
    BY DEF TypeOK
  <2>2. QED  BY <1>1, <1>2, <1>4, <2>1 DEF Counted
<1>5. QED  BY <1>2, <1>3, <1>4

(* Starting, stopping and acknowledging copy nothing.                      *)
LEMMA IdleFit ==
  ASSUME TypeOK, TypeOK', NEW e \in Events, NEW r \in Nat, Fit(e, r), UNCHANGED <<ready, dlq>>,
         \A q \in Queues, m \in Counts : Mine(q, e, m)' =< Mine(q, e, m)
  PROVE  Fit(e, r)'
<1>1. ASSUME NEW q \in Queues, NEW m \in Ns PROVE Amount(q, e, m)' =< Amount(q, e, m)
  <2>1. CASE m \in Counts
    <3>1. Mine(q, e, m)' =< Mine(q, e, m)
      BY <2>1
    <3>2. QED  BY <2>1, <3>1, AmountsOf
  <2>2. CASE m \notin Counts
    BY <2>2, AmountsOf
  <2>3. QED  BY <2>1, <2>2
<1>2. QED  BY <1>1, StillFit

(* Publishing: its room is that of the first copies.                       *)
LEMMA SendFit ==
  ASSUME TypeOK, TypeOK', NEW e \in Events, NEW r \in Nat, Fit(e, r), NEW x \in Events, Send(x)
  PROVE  IF e = x THEN Fit(e, r + Cardinality(Homes(e)))' ELSE Fit(e, r)'
<1>1. /\ \A q \in Queues, y \in Events, z \in Counts :
           ready'[q][y][z] = IF y = x /\ z = 0 /\ q \in declared /\ x \in Bound[q]
                               THEN ready[q][y][z] + 1 ELSE ready[q][y][z]
      /\ UNCHANGED <<job, dlq>>
  <2>1. Route(x, 0) /\ 0 \in Counts
    BY DEF Send, Counts
  <2>2. QED  BY <2>1, RouteCopies DEF Send
<1>2. \A q \in Queues, m \in Counts : Mine(q, e, m)' = Mine(q, e, m)
  BY <1>1 DEF Mine, InHand
<1>3. CASE e = x
  <2>1. \A q \in Queues, m \in Ns :
          Amount(q, e, m)' =< IF q \in Homes(e) /\ m = 0 THEN Amount(q, e, m) + 1
                                                        ELSE Amount(q, e, m)
    <3> SUFFICES ASSUME NEW q \in Queues, NEW m \in Ns
                 PROVE  Amount(q, e, m)' =< IF q \in Homes(e) /\ m = 0
                                              THEN Amount(q, e, m) + 1 ELSE Amount(q, e, m)
      OBVIOUS
    <3>1. CASE m \in Counts
      <4>1. /\ Amount(q, e, m) = ready[q][e][m] + Mine(q, e, m)
            /\ Amount(q, e, m)' = ready'[q][e][m] + Mine(q, e, m)
            /\ ready[q][e][m] \in Nat /\ ready'[q][e][m] \in Nat /\ Mine(q, e, m) \in {0, 1}
        BY <1>2, <3>1, AmountsOf
      <4>2. ready'[q][e][m] =< IF q \in Homes(e) /\ m = 0
                                 THEN ready[q][e][m] + 1 ELSE ready[q][e][m]
        BY <1>1, <1>3, <3>1, <4>1 DEF Homes
      <4>3. QED  BY <4>1, <4>2
    <3>2. CASE m \notin Counts
      BY <1>1, <3>2, AmountsOf
    <3>3. QED  BY <3>1, <3>2
  <2>2. Homes(e) \in SUBSET Queues /\ 0 \in Ns
    BY DEF Homes, Ns
  <2>3. Fit(e, r + Cardinality(Homes(e)))'
    BY <2>1, <2>2, MoreFit
  <2>4. QED  BY <1>3, <2>3
<1>4. CASE e # x
  <2>1. \A q \in Queues, m \in Ns : Amount(q, e, m)' =< Amount(q, e, m)
    BY <1>1, <1>2, <1>4, AmountsOf
  <2>2. QED  BY <1>4, <2>1, StillFit
<1>5. QED  BY <1>3, <1>4

(* Taking a copy in hand, or throwing it away.                             *)
LEMMA DeliverFit ==
  ASSUME TypeOK, TypeOK', NEW e \in Events, NEW r \in Nat, Fit(e, r),
         NEW q \in Queues, NEW x \in Events, NEW n \in Counts, Deliver(q, x, n)
  PROVE  Fit(e, r)'
<1>1. /\ ready[q][x][n] > 0 /\ UNCHANGED dlq
      /\ \A p \in Queues, y \in Events, z \in Counts :
           ready'[p][y][z] = IF p = q /\ y = x /\ z = n THEN ready[p][y][z] - 1
                                                       ELSE ready[p][y][z]
  BY DEF Deliver, TypeOK
<1>2. ASSUME NEW p \in Queues, NEW z \in Counts
      PROVE  Mine(p, e, z)' =< IF p = q /\ e = x /\ z = n THEN Mine(p, e, z) + 1
                                                         ELSE Mine(p, e, z)
  <2>1. CASE job' = job
    BY <2>1 DEF Mine, InHand
  <2>2. CASE job' = [job EXCEPT ![q] = [stage |-> "run", event |-> x, count |-> n]]
    <3>1. /\ job'[q].event = x /\ job'[q].count = n /\ ~InHand(q, e)
          /\ p # q => job'[p] = job[p]
      BY <2>2 DEF TypeOK, Deliver, Busy, InHand
    <3>2. QED  BY <3>1 DEF Mine, InHand
  <2>3. QED  BY <2>1, <2>2 DEF Deliver
<1>3. ASSUME NEW p \in Queues, NEW m \in Ns PROVE Amount(p, e, m)' =< Amount(p, e, m)
  <2>1. CASE m \in Counts
    <3>1. /\ Amount(p, e, m) = ready[p][e][m] + Mine(p, e, m)
          /\ Amount(p, e, m)' = ready'[p][e][m] + Mine(p, e, m)'
          /\ ready[p][e][m] \in Nat /\ ready'[p][e][m] \in Nat
          /\ Mine(p, e, m) \in {0, 1} /\ Mine(p, e, m)' \in {0, 1}
      BY <2>1, AmountsOf
    <3>2. CASE p = q /\ e = x /\ m = n
      <4>1. ready'[p][e][m] = ready[p][e][m] - 1 /\ Mine(p, e, m)' =< Mine(p, e, m) + 1
        BY <1>1, <1>2, <2>1, <3>2
      <4>2. QED  BY <3>1, <4>1
    <3>3. CASE ~(p = q /\ e = x /\ m = n)
      <4>1. ready'[p][e][m] = ready[p][e][m] /\ Mine(p, e, m)' =< Mine(p, e, m)
        BY <1>1, <1>2, <2>1, <3>3
      <4>2. QED  BY <3>1, <4>1
    <3>4. QED  BY <3>2, <3>3
  <2>2. CASE m \notin Counts
    BY <1>1, <2>2, AmountsOf
  <2>3. QED  BY <2>1, <2>2
<1>4. QED  BY <1>3, StillFit

(* A job that ends, or goes on.                                            *)
LEMMA JobFit ==
  ASSUME TypeOK, TypeOK', NEW e \in Events, NEW r \in Nat, Fit(e, r), NEW q \in Queues,
         Handle(q) \/ Ack(q)
  PROVE  Fit(e, r)'
<1>1. Busy(q) /\ UNCHANGED <<ready, dlq>>
  BY DEF Handle, Succeed, HandlerFails, Ack, Busy, TypeOK
<1>2. \/ job[q].stage = "run" /\ \E s \in Stages : Stage(q, s)
      \/ Free(q)
  BY DEF Handle, Succeed, HandlerFails, Ack, Stages
<1>3. ASSUME NEW p \in Queues, NEW m \in Counts PROVE Mine(p, e, m)' =< Mine(p, e, m)
  <2>1. InHand(p, e)' => InHand(p, e) /\ job'[p].count = job[p].count
    <3>1. CASE job[q].stage = "run" /\ \E s \in Stages : Stage(q, s)
      BY <1>1, <3>1, StageJob DEF InHand
    <3>2. CASE Free(q)
      BY <3>2, FreeJob DEF InHand
    <3>3. QED  BY <1>2, <3>1, <3>2
  <2>2. QED  BY <2>1 DEF Mine
<1>4. QED  BY <1>1, <1>3, IdleFit

(* A copy in hand goes back into its queue.  If it was settled already it  *)
(* is there once more, and needs room.                                     *)
LEMMA PutBackFit ==
  ASSUME BusInv, TypeOK', NEW e \in Events, NEW r \in Nat, Fit(e, r), NEW q \in Queues, Busy(q),
         PutBack(q), Free(q), UNCHANGED dlq
  PROVE  \/ Fit(e, r)'
         \/ q \in Homes(e) /\ job[q].stage = "settled" /\ Fit(e, r + 1)'
<1>0. TypeOK
  BY DEF BusInv
<1>1. PICK x \in Events, n \in Counts :
        x = job[q].event /\ n = job[q].count /\ n \in Ns /\ job[q].stage \in Stages
  BY <1>0, JobTypes DEF Ns, Counts
<1>2. /\ \A p \in Queues, y \in Events, z \in Counts :
           ready'[p][y][z] = IF p = q /\ y = x /\ z = n THEN ready[p][y][z] + 1
                                                       ELSE ready[p][y][z]
      /\ job'[q].stage = "idle" /\ \A p \in Queues \ {q} : job'[p] = job[p]
  BY <1>0, <1>1, FreeJob DEF PutBack, TypeOK
<1>3. \A p \in Queues, z \in Counts :
        Mine(p, e, z)' = IF p = q THEN 0 ELSE Mine(p, e, z)
  BY <1>2 DEF Mine, InHand
<1>5. CASE e = x /\ job[q].stage = "settled"
  <2>1. q \in Homes(e)
    <3>1. Copy(q, e, n)
      BY <1>1, <1>5 DEF Copy
    <3>2. Routed(q, e, n)
      BY <1>1, <3>1 DEF BusInv, Copies
    <3>3. QED  BY <3>2 DEF Routed, Homes
  <2>2. ASSUME NEW p \in Queues, NEW m \in Ns
        PROVE  Amount(p, e, m)' =< IF p \in {q} /\ m = n THEN Amount(p, e, m) + 1
                                                        ELSE Amount(p, e, m)
    <3>1. CASE m \in Counts
      <4>1. /\ Amount(p, e, m) = ready[p][e][m] + Mine(p, e, m)
            /\ Amount(p, e, m)' = ready'[p][e][m] + Mine(p, e, m)'
            /\ ready[p][e][m] \in Nat /\ ready'[p][e][m] \in Nat
            /\ Mine(p, e, m) \in {0, 1} /\ Mine(p, e, m)' \in {0, 1}
        BY <1>0, <3>1, AmountsOf
      <4>2. ready'[p][e][m] =< IF p \in {q} /\ m = n THEN ready[p][e][m] + 1
                                                    ELSE ready[p][e][m]
        BY <1>2, <3>1, <4>1
      <4>3. Mine(p, e, m)' =< Mine(p, e, m)
        BY <1>3, <3>1, <4>1
      <4>4. QED  BY <4>1, <4>2, <4>3
    <3>2. CASE m \notin Counts
      <4>1. Amount(p, e, m)' = Amount(p, e, m) /\ Amount(p, e, m) \in Nat
        BY <1>0, <3>2, AmountsOf
      <4>2. QED  BY <4>1
    <3>3. QED  BY <3>1, <3>2
  <2>3. Cardinality({q}) = 1 /\ {q} \in SUBSET Queues
    BY FS_Singleton
  <2>4. Fit(e, r + 1)'
    <3>1. Fit(e, r + Cardinality({q}))'
      BY <1>0, <1>1, <2>1, <2>2, <2>3, MoreFit
    <3>2. QED  BY <2>3, <3>1
  <2>5. QED  BY <1>5, <2>1, <2>4
<1>6. CASE ~(e = x /\ job[q].stage = "settled")
  <2>1. ASSUME NEW p \in Queues, NEW m \in Ns PROVE Amount(p, e, m)' =< Amount(p, e, m)
    <3>1. CASE m \in Counts
      <4>1. /\ Amount(p, e, m) = ready[p][e][m] + Mine(p, e, m)
            /\ Amount(p, e, m)' = ready'[p][e][m] + Mine(p, e, m)'
            /\ ready[p][e][m] \in Nat /\ ready'[p][e][m] \in Nat
            /\ Mine(p, e, m) \in {0, 1} /\ Mine(p, e, m)' \in {0, 1}
        BY <1>0, <3>1, AmountsOf
      <4>2. CASE p = q /\ e = x /\ m = n
        <5>1. ready'[p][e][m] = ready[p][e][m] + 1 /\ Mine(p, e, m)' = 0
          BY <1>2, <1>3, <3>1, <4>2
        <5>2. Mine(p, e, m) = 1
          BY <1>1, <1>6, <4>2 DEF Mine, InHand, Stages
        <5>3. QED  BY <4>1, <5>1, <5>2
      <4>3. CASE ~(p = q /\ e = x /\ m = n)
        <5>1. ready'[p][e][m] = ready[p][e][m] /\ Mine(p, e, m)' =< Mine(p, e, m)
          BY <1>2, <1>3, <3>1, <4>1, <4>3
        <5>2. QED  BY <4>1, <5>1
      <4>4. QED  BY <4>2, <4>3
    <3>2. CASE m \notin Counts
      BY <1>0, <3>2, AmountsOf
    <3>3. QED  BY <3>1, <3>2
  <2>2. QED  BY <1>0, <2>1, StillFit
<1>7. QED  BY <1>5, <1>6

(* The copy in hand becomes its retries, or a dead letter.                 *)
LEMMA SettleFit ==
  ASSUME BusInv, TypeOK', NEW e \in Events, NEW r \in Nat, Fit(e, r), NEW q \in Queues, Settle(q)
  PROVE  Fit(e, r)'
<1>0. TypeOK
  BY DEF BusInv
<1>1. PICK x \in Events, n \in Counts :
      /\ x = job[q].event /\ n = job[q].count /\ job[q].stage = "failed" /\ Busy(q)
      /\ n \in Ns /\ n + 1 \in Ns /\ Stage(q, "settled") /\ UNCHANGED declared
  BY <1>0, JobTypes DEF Settle, Retry, DeadLetter, Busy, Ns, Counts
<1>2. job'[q].stage = "settled" /\ \A p \in Queues \ {q} : job'[p] = job[p]
  BY <1>0, <1>1, StageJob DEF Stages
<1>3. \A p \in Queues, z \in Counts :
        Mine(p, e, z)' = IF p = q THEN 0 ELSE Mine(p, e, z)
  BY <1>2 DEF Mine, InHand
<1>5. /\ q \in Homes(x) /\ Targets(x) \in SUBSET Homes(x)
      /\ e = x => Mine(q, e, n) = 1
  <2>1. Copy(q, x, n)
    BY <1>1 DEF Copy
  <2>2. Routed(q, x, n)
    BY <1>1, <2>1 DEF BusInv, Copies
  <2>3. QED  BY <1>0, <1>1, <2>2 DEF Routed, Homes, Targets, TypeOK, Mine, InHand
<1>G. PICK G : G = IF Retry(q) THEN Targets(x) ELSE {q}
  OBVIOUS
<1>6. \A p \in Queues, y \in Events, z \in Counts :
        ready'[p][y][z] =< IF y = x /\ z = n + 1 /\ p \in G THEN ready[p][y][z] + 1
                                                           ELSE ready[p][y][z]
  <2>1. CASE Retry(q)
    <3>1. Route(x, n + 1) /\ n + 1 \in Counts
      BY <1>1, <2>1 DEF Retry, Counts
    <3>2. \A p \in Queues, y \in Events, z \in Counts :
            ready'[p][y][z] = IF y = x /\ z = n + 1 /\ p \in declared /\ x \in Bound[p]
                                THEN ready[p][y][z] + 1 ELSE ready[p][y][z]
      BY <1>0, <1>1, <3>1, RouteCopies
    <3>3. \A p \in Queues, y \in Events, z \in Counts : ready[p][y][z] \in Nat
      BY <1>0 DEF TypeOK
    <3>4. QED  BY <1>0, <1>G, <2>1, <3>2, <3>3 DEF Targets, TypeOK
  <2>2. CASE DeadLetter(q) /\ ~Retry(q)
    <3>1. ready' = ready /\ \A p \in Queues, y \in Events, z \in Counts : ready[p][y][z] \in Nat
      BY <1>0, <2>2 DEF DeadLetter, TypeOK
    <3>2. QED  BY <3>1
  <2>3. QED  BY <2>1, <2>2 DEF Settle
<1>7. \A p \in Queues, y \in Events :
        dlq'[p][y] =< IF y = x /\ n + 1 = MaxRetries + 1 /\ p \in G THEN dlq[p][y] + 1
                                                                   ELSE dlq[p][y]
  <2>0. \A p \in Queues, y \in Events : dlq[p][y] \in Nat
    BY <1>0 DEF TypeOK
  <2>1. CASE Retry(q)
    <3>1. dlq' = dlq
      BY <2>1 DEF Retry
    <3>2. QED  BY <2>0, <3>1
  <2>2. CASE DeadLetter(q) /\ ~Retry(q)
    <3>1. dlq' = [dlq EXCEPT ![q][x] = @ + 1] /\ n = MaxRetries /\ q \in G
      BY <1>1, <1>G, <2>2 DEF DeadLetter, Counts
    <3>2. QED  BY <1>0, <1>1, <2>0, <3>1 DEF TypeOK
  <2>3. QED  BY <2>1, <2>2 DEF Settle
<1>8. /\ G \in SUBSET Homes(x)
      /\ n = MaxRetries => G \subseteq {q}
  <2>1. Retry(q) => n # MaxRetries
    BY <1>1 DEF Retry, Counts
  <2>2. QED  BY <1>5, <1>G, <2>1
<1>9. CASE e = x
  <2>1. ASSUME NEW p \in Queues, NEW m \in Ns
        PROVE  Amount(p, e, m)' =< IF p \in G /\ m = n + 1 THEN Amount(p, e, m) + 1
                                                          ELSE Amount(p, e, m)
    <3>1. CASE m \in Counts
      <4>1. /\ Amount(p, e, m) = ready[p][e][m] + Mine(p, e, m)
            /\ Amount(p, e, m)' = ready'[p][e][m] + Mine(p, e, m)'
            /\ ready[p][e][m] \in Nat /\ ready'[p][e][m] \in Nat
            /\ Mine(p, e, m) \in {0, 1} /\ Mine(p, e, m)' \in {0, 1}
        BY <1>0, <3>1, AmountsOf
      <4>2. Mine(p, e, m)' =< Mine(p, e, m)
        BY <1>3, <3>1, <4>1
      <4>3. ready'[p][e][m] =< IF p \in G /\ m = n + 1 THEN ready[p][e][m] + 1
                                                      ELSE ready[p][e][m]
        BY <1>6, <1>9, <3>1
      <4>4. QED  BY <4>1, <4>2, <4>3
    <3>2. CASE m \notin Counts
      <4>1. /\ m = MaxRetries + 1 /\ Amount(p, e, m) = dlq[p][e] /\ Amount(p, e, m)' = dlq'[p][e]
        BY <1>0, <3>2, AmountsOf
      <4>2. dlq'[p][e] =< IF p \in G /\ m = n + 1 THEN dlq[p][e] + 1 ELSE dlq[p][e]
        BY <1>7, <1>9, <4>1
      <4>3. QED  BY <4>1, <4>2
    <3>3. QED  BY <3>1, <3>2
  <2>2. Amount(q, e, n)' < Amount(q, e, n)
    <3>1. /\ Amount(q, e, n) = ready[q][e][n] + Mine(q, e, n)
          /\ Amount(q, e, n)' = ready'[q][e][n] + Mine(q, e, n)'
          /\ ready[q][e][n] \in Nat /\ ready'[q][e][n] \in Nat
      BY <1>0, <1>1, AmountsOf
    <3>2. Mine(q, e, n) = 1 /\ Mine(q, e, n)' = 0
      BY <1>1, <1>3, <1>5, <1>9
    <3>3. n # n + 1
      BY <1>1 DEF Counts
    <3>4. ready'[q][e][n] =< ready[q][e][n]
      BY <1>1, <1>6, <1>9, <3>3
    <3>5. QED  BY <3>1, <3>2, <3>4
  <2>3. G \in SUBSET Homes(e) /\ (n = MaxRetries => G \subseteq {q})
    BY <1>8, <1>9
  <2>4. QED  BY <1>0, <1>1, <2>1, <2>2, <2>3, MovedFit
<1>10. CASE e # x
  <2>1. ASSUME NEW p \in Queues, NEW m \in Ns PROVE Amount(p, e, m)' =< Amount(p, e, m)
    <3>1. CASE m \in Counts
      <4>1. /\ Amount(p, e, m) = ready[p][e][m] + Mine(p, e, m)
            /\ Amount(p, e, m)' = ready'[p][e][m] + Mine(p, e, m)'
            /\ ready[p][e][m] \in Nat /\ ready'[p][e][m] \in Nat
            /\ Mine(p, e, m) \in {0, 1} /\ Mine(p, e, m)' \in {0, 1}
        BY <1>0, <3>1, AmountsOf
      <4>2. Mine(p, e, m)' =< Mine(p, e, m) /\ ready'[p][e][m] =< ready[p][e][m]
        BY <1>3, <1>6, <1>10, <3>1, <4>1
      <4>3. QED  BY <4>1, <4>2
    <3>2. CASE m \notin Counts
      <4>1. Amount(p, e, m) = dlq[p][e] /\ Amount(p, e, m)' = dlq'[p][e]
        BY <1>0, <3>2, AmountsOf
      <4>2. QED  BY <1>7, <1>10, <4>1
    <3>3. QED  BY <3>1, <3>2
  <2>2. QED  BY <1>0, <2>1, StillFit
<1>11. QED  BY <1>9, <1>10

(* The room there is for the copies of e.                                  *)
Credit(e) == IF e \in unsent THEN 0 ELSE Cardinality(Homes(e))
AllFit == \A e \in Events : Fit(e, Credit(e) + crashes)

(* A step of the bus needs no more room than it makes.                     *)
LEMMA NextFit ==
  ASSUME BusInv, [Next]_vars, NEW e \in Events, NEW r \in Nat, Fit(e, r)
  PROVE  /\ Credit(e) \in Nat /\ Credit(e)' \in Nat /\ crashes \in Nat /\ crashes' \in Nat
         /\ Credit(e) =< Credit(e)' /\ crashes =< crashes'
         /\ \E s \in Nat : /\ Fit(e, s)'
                           /\ s =< r + (Credit(e)' - Credit(e)) + (crashes' - crashes)
<1> DEFINE h == Cardinality(Homes(e))
<1>0. TypeOK /\ TypeOK' /\ BusInv'
  BY StepBusInv DEF BusInv
<1>00. h \in Nat /\ Credit(e) = (IF e \in unsent THEN 0 ELSE h)
       /\ Credit(e)' = (IF e \in unsent' THEN 0 ELSE h)
       /\ crashes \in Nat /\ crashes' \in Nat
  BY <1>0, FinitelyManyFutures DEF Credit, Homes, TypeOK
<1> HIDE DEF h
<1>13. ASSUME Fit(e, r)', unsent' = unsent, crashes =< crashes'
      PROVE  /\ Credit(e) =< Credit(e)'
             /\ \E s \in Nat : /\ Fit(e, s)'
                               /\ s =< r + (Credit(e)' - Credit(e)) + (crashes' - crashes)
  <2>1. Credit(e)' = Credit(e)
    BY <1>13 DEF Credit, Homes
  <2>2. PICK c \in Nat, d \in Nat, k \in Nat, l \in Nat :
          c = Credit(e) /\ d = Credit(e)' /\ k = crashes /\ l = crashes'
    BY <1>00
  <2>3. c = d /\ k =< l
    BY <1>13, <2>1, <2>2
  <2>4. c =< d /\ r =< r + (d - c) + (l - k)
    BY <2>3
  <2>5. QED  BY <1>13, <2>2, <2>4
<1>1. ASSUME UNCHANGED <<ready, job, dlq>> PROVE Fit(e, r)'
  <2>1. \A q \in Queues, m \in Counts : Mine(q, e, m)' =< Mine(q, e, m)
    BY <1>1 DEF Mine, InHand
  <2>2. QED  BY <1>0, <1>1, <2>1, IdleFit
<1>2. ASSUME NEW x \in Events, Send(x)
      PROVE  /\ Credit(e) =< Credit(e)' /\ crashes =< crashes'
             /\ \E s \in Nat : /\ Fit(e, s)'
                               /\ s =< r + (Credit(e)' - Credit(e)) + (crashes' - crashes)
  <2>1. x \in unsent /\ unsent' = unsent \ {x} /\ crashes' = crashes
    BY <1>2 DEF Send
  <2>2. CASE e = x
    <3>1. Fit(e, r + h)' /\ Credit(e) = 0 /\ Credit(e)' = h
      BY <1>0, <1>00, <1>2, <2>1, <2>2, SendFit DEF h
    <3>2. r + h \in Nat /\ r + h =< r + (Credit(e)' - Credit(e)) + (crashes' - crashes)
      BY <1>00, <2>1, <3>1
    <3>3. QED  BY <1>00, <2>1, <3>1, <3>2
  <2>3. CASE e # x
    <3>1. Fit(e, r)' /\ Credit(e) = Credit(e)'
      BY <1>0, <1>00, <1>2, <2>1, <2>3, SendFit
    <3>2. r =< r + (Credit(e)' - Credit(e)) + (crashes' - crashes)
      BY <1>00, <2>1, <3>1
    <3>3. QED  BY <1>00, <2>1, <3>1, <3>2
  <2>4. QED  BY <2>2, <2>3
<1>3. ASSUME NEW q \in Queues, Boot(q) \/ Redeploy(q)
      PROVE  Fit(e, r)' /\ unsent' = unsent /\ crashes' = crashes
  BY <1>1, <1>3 DEF Boot, Redeploy
<1>4. ASSUME NEW q \in Queues, Take(q)
      PROVE  Fit(e, r)' /\ unsent' = unsent /\ crashes' = crashes
  <2>1. PICK x \in Events, n \in Counts : Deliver(q, x, n)
    BY <1>4 DEF Take
  <2>2. QED  BY <1>0, <2>1, DeliverFit DEF Deliver
<1>5. ASSUME NEW q \in Queues, Handle(q) \/ Ack(q)
      PROVE  Fit(e, r)' /\ unsent' = unsent /\ crashes' = crashes
  BY <1>0, <1>5, JobFit DEF Handle, Succeed, HandlerFails, Ack
<1>6. ASSUME NEW q \in Queues, Settle(q)
      PROVE  Fit(e, r)' /\ unsent' = unsent /\ crashes' = crashes
  BY <1>0, <1>6, SettleFit DEF Settle, Retry, DeadLetter
<1>7. ASSUME NEW q \in Queues, Requeue(q)
      PROVE  Fit(e, r)' /\ unsent' = unsent /\ crashes' = crashes
  <2>1. /\ job[q].stage = "failed" /\ Busy(q) /\ PutBack(q) /\ Free(q)
        /\ UNCHANGED <<unsent, dlq, crashes>>
    BY <1>7 DEF Requeue, Busy
  <2>2. QED  BY <1>0, <2>1, PutBackFit
<1>8. ASSUME NEW q \in Queues, Disconnect(q)
      PROVE  /\ Credit(e) =< Credit(e)' /\ crashes =< crashes'
             /\ \E s \in Nat : /\ Fit(e, s)'
                               /\ s =< r + (Credit(e)' - Credit(e)) + (crashes' - crashes)
  <2>1. /\ UNCHANGED <<unsent, dlq>> /\ crashes' = crashes + 1
        /\ IF Busy(q) THEN PutBack(q) /\ Free(q) ELSE UNCHANGED <<ready, job>>
    BY <1>8 DEF Disconnect
  <2>2. Fit(e, r)' \/ Fit(e, r + 1)'
    <3>1. CASE Busy(q)
      BY <1>0, <2>1, <3>1, PutBackFit
    <3>2. CASE ~Busy(q)
      BY <1>1, <2>1, <3>2
    <3>3. QED  BY <3>1, <3>2
  <2>3. /\ Credit(e) =< Credit(e)' /\ crashes =< crashes'
        /\ r =< r + (Credit(e)' - Credit(e)) + (crashes' - crashes)
        /\ r + 1 =< r + (Credit(e)' - Credit(e)) + (crashes' - crashes)
        /\ r + 1 \in Nat
    BY <1>00, <2>1
  <2>4. QED  BY <2>2, <2>3
<1>9. CASE UNCHANGED vars
  <2>1. Fit(e, r)' /\ unsent' = unsent /\ crashes' = crashes
    BY <1>1, <1>9 DEF vars
  <2>2. crashes =< crashes'
    BY <1>00, <2>1
  <2>3. QED  BY <1>00, <1>13, <2>1, <2>2
<1>10. ASSUME Fit(e, r)', unsent' = unsent, crashes' = crashes
       PROVE  /\ Credit(e) =< Credit(e)' /\ crashes =< crashes'
              /\ \E s \in Nat : /\ Fit(e, s)'
                                /\ s =< r + (Credit(e)' - Credit(e)) + (crashes' - crashes)
  <2>1. crashes =< crashes'
    BY <1>00, <1>10
  <2>2. QED  BY <1>13, <1>10, <2>1
<1>11. ASSUME Next
       PROVE  /\ Credit(e) =< Credit(e)' /\ crashes =< crashes'
              /\ \E s \in Nat : /\ Fit(e, s)'
                                /\ s =< r + (Credit(e)' - Credit(e)) + (crashes' - crashes)
  BY <1>2, <1>3, <1>4, <1>5, <1>6, <1>7, <1>8, <1>10, <1>11 DEF Next
<1>12. CASE Next
  <2>1. /\ Credit(e) \in Nat /\ Credit(e)' \in Nat /\ crashes \in Nat /\ crashes' \in Nat
    BY <1>00
  <2> HIDE DEF Credit, Fit
  <2>2. QED  BY <1>11, <1>12, <2>1
<1>14. QED  BY <1>9, <1>12

(* Before the first message there is nothing.                              *)
LEMMA NoFates == ASSUME Init, NEW e \in Events PROVE Fit(e, 0) /\ Credit(e) = 0
<1>1. \A q \in Queues, n \in Ns : Amount(q, e, n) = 0
  BY DEF Init, Amount, Held, Busy, Idle, Ns, Counts
<1>2. Fates(e) = {}
  <2>1. TypeOK
    BY InitBusInv DEF BusInv
  <2>2. Counted(e)
    BY <2>1, CountFates
  <2>3. \A q \in Queues, n \in Ns : Amt(e)[q][n] = 0
    BY <1>1, <2>2 DEF Counted
  <2>4. ASSUME NEW z \in Tokens(Amt(e), e) PROVE FALSE
    <3>1. PICK q \in Queues, n \in Ns :
            \E i \in 1 .. Amt(e)[q][n], f \in Futures(e, n) : z = <<q, n, i, f>>
      BY TokenMember
    <3>2. QED  BY <2>3, <3>1
  <2>5. QED  BY <2>2, <2>4 DEF Counted
<1>3. IsFiniteSet(Fates(e)) /\ Cardinality(Fates(e)) = 0
  BY <1>2, FS_EmptySet
<1>4. Cardinality(Futures(e, 0)) \in Nat
  BY FinitelyManyFutures
<1>5. QED  BY <1>3, <1>4 DEF Fit, Credit, Init

(* What fits in r copies' room fits in that of more.                       *)
LEMMA FitsInMore ==
  ASSUME NEW e, NEW r \in Nat, NEW s \in Nat, r =< s
  PROVE  (Fit(e, r) => Fit(e, s)) /\ (Fit(e, r)' => Fit(e, s)')
<1>1. Cardinality(Futures(e, 0)) \in Nat
  BY FinitelyManyFutures
<1>2. Fit(e, r) => Fit(e, s)
  <2>1. Fit(e, r) => Cardinality(Fates(e)) \in Nat
    BY FS_CardinalityType DEF Fit
  <2>2. QED  BY <1>1, <2>1, MoreRoom DEF Fit
<1>3. Fit(e, r)' => Fit(e, s)'
  <2>1. Fit(e, r)' => Cardinality(Fates(e)') \in Nat
    BY FS_CardinalityType DEF Fit
  <2>2. Futures(e, 0)' = Futures(e, 0)
    BY DEF Futures, Homes
  <2>3. QED  BY <1>1, <2>1, <2>2, MoreRoom DEF Fit
<1>4. QED  BY <1>2, <1>3

(* Every step of the bus leaves room.                                      *)
LEMMA StepFit == ASSUME BusInv, AllFit, [Next]_vars PROVE AllFit'
<1> SUFFICES ASSUME NEW e \in Events PROVE Fit(e, Credit(e) + crashes)'
  BY DEF AllFit
<1>1. Credit(e) \in Nat /\ crashes \in Nat
  BY FinitelyManyFutures DEF Credit, BusInv, TypeOK
<1>2. PICK r \in Nat : r = Credit(e) + crashes
  BY <1>1
<1>3. Fit(e, r)
  BY <1>2 DEF AllFit
<1>4. /\ Credit(e)' \in Nat /\ crashes' \in Nat
      /\ \E s \in Nat : /\ Fit(e, s)'
                        /\ s =< r + (Credit(e)' - Credit(e)) + (crashes' - crashes)
  BY <1>3, NextFit
<1>5. PICK s \in Nat : Fit(e, s)' /\ s =< r + (Credit(e)' - Credit(e)) + (crashes' - crashes)
  BY <1>4
<1>6. PICK t \in Nat : t = Credit(e)' + crashes'
  BY <1>4
<1>7. s =< t
  BY <1>1, <1>2, <1>4, <1>5, <1>6
<1>8. Fit(e, t)'
  BY <1>5, <1>7, FitsInMore
<1>9. QED  BY <1>6, <1>8

(* However often handlers fail, an event leaves no more than the dead      *)
(* letters of its first copies and of those that crashes duplicated: B to  *)
(* the power of MaxRetries each (publishRetry publishes on the exchange).  *)
THEOREM RetriesAreBounded == Spec => []RetriesBounded
<1>1. Init => AllFit
  BY NoFates DEF AllFit, Init
<1>2. BusInv /\ AllFit => RetriesBounded
  <2> SUFFICES ASSUME BusInv, AllFit, NEW e \in Events
               PROVE  Fit(e, Cardinality(Homes(e)) + crashes)
    BY DEF RetriesBounded, Fit
  <2>0. Cardinality(Homes(e)) \in Nat /\ crashes \in Nat
    BY FinitelyManyFutures DEF BusInv, TypeOK
  <2>1. Credit(e) \in Nat /\ Credit(e) =< Cardinality(Homes(e))
    BY <2>0 DEF Credit
  <2>2. Fit(e, Credit(e) + crashes)
    BY DEF AllFit
  <2>3. PICK r \in Nat, t \in Nat :
          r = Credit(e) + crashes /\ t = Cardinality(Homes(e)) + crashes
    BY <2>0, <2>1
  <2>4. r =< t /\ Fit(e, r)
    BY <2>0, <2>1, <2>2, <2>3
  <2>5. QED  BY <2>3, <2>4, FitsInMore
<1>3. Spec => [](BusInv /\ AllFit)
  BY <1>1, InitBusInv, StepBusInv, StepFit, PTL DEF Spec
<1>4. QED  BY <1>2, <1>3, PTL
-----------------------------------------------------------------------------
(* With the store behind a handler, its step is one of the bus.            *)
LEMMA DStep == ASSUME DNext PROVE [Next]_vars
<1>1. ASSUME NEW q \in Queues, DHandle(q) PROVE Handle(q)
  BY <1>1 DEF DHandle, Handle
<1>2. CASE \E e \in Events : Send(e) /\ UNCHANGED storeVars
  BY <1>2 DEF Next
<1>3. CASE \E q \in Queues : DHandle(q)
  BY <1>1, <1>3 DEF Next
<1>4. CASE \E q \in Queues : /\ \/ Boot(q) \/ Take(q) \/ Settle(q) \/ Requeue(q) \/ Ack(q)
                                \/ Disconnect(q) \/ Redeploy(q)
                             /\ UNCHANGED storeVars
  BY <1>4 DEF Next
<1>5. CASE N!Inbox /\ UNCHANGED vars
  BY <1>5
<1>6. QED  BY <1>2, <1>3, <1>4, <1>5 DEF DNext

(* notification-service on the bus is the bus: whatever holds of every     *)
(* service's queue holds of its queue.                                     *)
THEOREM DeliveryIsTheBus == DSpec => Spec
<1>1. DInit => Init
  BY DEF DInit
<1>2. BusInv /\ [DNext]_dvars => [Next]_vars
  BY DStep DEF BusInv, dvars, vars
<1>3. BusInv /\ [Next]_vars => BusInv'
  BY StepBusInv
<1>4. QED  BY <1>1, <1>2, <1>3, InitBusInv, PTL DEF DSpec, Spec

(* A row put at the end is one more row, of a new event.                   *)
LEMMA StoreRow ==
  ASSUME NEW s \in Seq(WellFormed), NEW e \in WellFormed, e \notin N!ToSet(s), N!IsInjective(s)
  PROVE  /\ Append(s, e) \in Seq(WellFormed) /\ N!IsInjective(Append(s, e))
         /\ N!ToSet(Append(s, e)) = N!ToSet(s) \cup {e}
<1>1. /\ Append(s, e) \in Seq(WellFormed) /\ Len(Append(s, e)) = Len(s) + 1
      /\ \A i \in 1 .. Len(s) : Append(s, e)[i] = s[i]
      /\ Append(s, e)[Len(s) + 1] = e
      /\ DOMAIN s = 1 .. Len(s) /\ DOMAIN Append(s, e) = 1 .. Len(s) + 1
      /\ Len(s) \in Nat
  OBVIOUS
<1>2. \A i \in 1 .. Len(s) : s[i] # e
  BY <1>1 DEF N!ToSet
<1>3. N!IsInjective(Append(s, e))
  <2> SUFFICES ASSUME NEW i \in 1 .. Len(s) + 1, NEW j \in 1 .. Len(s) + 1,
                      Append(s, e)[i] = Append(s, e)[j]
               PROVE  i = j
    BY <1>1 DEF N!IsInjective
  <2>1. i \in 1 .. Len(s) \/ i = Len(s) + 1
    BY <1>1
  <2>2. j \in 1 .. Len(s) \/ j = Len(s) + 1
    BY <1>1
  <2>3. QED  BY <1>1, <1>2, <2>1, <2>2 DEF N!IsInjective
<1>4. N!ToSet(Append(s, e)) = N!ToSet(s) \cup {e}
  <2>1. 1 .. Len(s) + 1 = (1 .. Len(s)) \cup {Len(s) + 1}
    BY <1>1
  <2>2. QED  BY <1>1, <2>1 DEF N!ToSet
<1>5. QED  BY <1>1, <1>3, <1>4

(* A queue is not owed less than before.                                   *)
LEMMA OwedGrows == ASSUME TypeOK, Next PROVE \A q \in Queues : owed[q] \subseteq owed'[q]
<1>1. \A e, n : Route(e, n) => \A q \in Queues : owed[q] \subseteq owed'[q]
  BY DEF Route
<1>2. CASE \E e \in Events : Send(e)
  BY <1>1, <1>2 DEF Send
<1>3. CASE \E q \in Queues : Retry(q)
  BY <1>1, <1>3 DEF Retry
<1>4. CASE UNCHANGED owed
  BY <1>4
<1>5. QED
  BY <1>2, <1>3, <1>4
  DEF Next, Boot, Take, Deliver, Handle, Succeed, HandlerFails, Settle, DeadLetter, Requeue,
      Ack, Disconnect, Redeploy

(* Creating the notification of an event that has come, or not.            *)
LEMMA CreateStored ==
  ASSUME Stored, NEW e \in WellFormed, e \in owed'[NotificationQueue],
         owed[NotificationQueue] \subseteq owed'[NotificationQueue],
         N!Due(e), N!Create(e)
  PROVE  /\ rows' \in Seq(WellFormed) /\ N!IsInjective(rows')
         /\ N!ToSet(rows') = N!ToSet(rows) \cup {e}
         /\ \A x \in N!ToSet(rows') : N!Due(x) /\ x \in owed'[NotificationQueue]
<1>1. CASE e \notin N!ToSet(rows)
  <2>1. rows' = Append(rows, e)
    BY <1>1 DEF N!Create
  <2>2. /\ rows' \in Seq(WellFormed) /\ N!IsInjective(rows')
        /\ N!ToSet(rows') = N!ToSet(rows) \cup {e}
    BY <1>1, <2>1, StoreRow DEF Stored
  <2>3. QED  BY <2>2 DEF Stored
<1>2. CASE e \in N!ToSet(rows)
  <2>1. rows' = rows
    BY <1>2 DEF N!Create
  <2>2. QED  BY <1>2, <2>1 DEF Stored
<1>3. QED  BY <1>1, <1>2

(* Every step keeps what the store holds.                                  *)
LEMMA StepStored == ASSUME BusInv, Stored, [DNext]_dvars PROVE Stored'
<1> USE DEF BusInv
<1>0. owed[NotificationQueue] \subseteq owed'[NotificationQueue]
  BY DStep, OwedGrows DEF dvars, vars
<1>1. CASE rows' = rows /\ done'[NotificationQueue] = done[NotificationQueue]
  BY <1>0, <1>1 DEF Stored
<1>2. CASE DHandle(NotificationQueue)
  <2> DEFINE e == job[NotificationQueue].event
  <2>1. /\ Handle(NotificationQueue) /\ Busy(NotificationQueue)
        /\ \/ Succeed(NotificationQueue) /\ N!Accept(e)
           \/ HandlerFails(NotificationQueue) /\ N!Reject(e)
    BY <1>2 DEF DHandle, Handle, Succeed, HandlerFails, Busy
  <2>2. e \in WellFormed
    BY <2>1, JobTypes DEF WellFormed
  <2>3. e \in owed[NotificationQueue]
    BY <2>1, <2>2, JobTypes DEF Copies, Copy, Routed, WellFormed
  <2>4. CASE Succeed(NotificationQueue) /\ N!Accept(e)
    <3>1. done'[NotificationQueue] = done[NotificationQueue] \cup {e}
      BY <2>4 DEF Succeed, TypeOK
    <3>2. CASE N!Due(e)
      <4>1. N!Create(e)
        BY <2>4, <3>2 DEF N!Accept
      <4> HIDE DEF e
      <4>2. /\ rows' \in Seq(WellFormed) /\ N!IsInjective(rows')
            /\ N!ToSet(rows') = N!ToSet(rows) \cup {e}
            /\ \A x \in N!ToSet(rows') : N!Due(x) /\ x \in owed'[NotificationQueue]
        BY <1>0, <2>2, <2>3, <3>2, <4>1, CreateStored
      <4>3. QED  BY <3>1, <4>2 DEF Stored
    <3>3. CASE ~N!Due(e)
      <4>1. rows' = rows
        BY <2>4, <3>3 DEF N!Accept, N!nvars
      <4>2. QED  BY <1>0, <3>1, <3>3, <4>1 DEF Stored
    <3>4. QED  BY <3>2, <3>3
  <2>5. CASE HandlerFails(NotificationQueue) /\ N!Reject(e)
    <3>1. done' = done
      BY <2>5 DEF HandlerFails
    <3>2. CASE N!Due(e) /\ N!Create(e)
      <4> HIDE DEF e
      <4>1. /\ rows' \in Seq(WellFormed) /\ N!IsInjective(rows')
            /\ N!ToSet(rows') = N!ToSet(rows) \cup {e}
            /\ \A x \in N!ToSet(rows') : N!Due(x) /\ x \in owed'[NotificationQueue]
        BY <1>0, <2>2, <2>3, <3>2, CreateStored
      <4>2. QED  BY <3>1, <4>1 DEF Stored
    <3>3. CASE rows' = rows
      BY <1>1, <3>1, <3>3
    <3>4. QED  BY <2>5, <3>2, <3>3 DEF N!Reject, N!nvars
  <2>6. QED  BY <2>1, <2>4, <2>5
<1>3. ASSUME NEW q \in Queues, q # NotificationQueue, DHandle(q)
      PROVE  rows' = rows /\ done'[NotificationQueue] = done[NotificationQueue]
  BY <1>3 DEF DHandle, Handle, Succeed, HandlerFails, storeVars, TypeOK
<1>4. ASSUME N!Inbox, UNCHANGED vars PROVE rows' = rows /\ done' = done
  BY <1>4 DEF N!Inbox, N!Look, N!Start, N!Finish, N!FinishUnheard, N!Commit, N!Rollback,
              N!Visit, vars
<1>5. ASSUME NEW e \in Events, Send(e), UNCHANGED storeVars PROVE rows' = rows /\ done' = done
  BY <1>5 DEF Send, storeVars
<1>6. ASSUME NEW q \in Queues, UNCHANGED storeVars,
             \/ Boot(q) \/ Take(q) \/ Settle(q) \/ Requeue(q) \/ Ack(q)
             \/ Disconnect(q) \/ Redeploy(q)
      PROVE  rows' = rows /\ done' = done
  BY <1>6 DEF Boot, Take, Deliver, Settle, Retry, DeadLetter, Requeue, Ack, Disconnect,
              Redeploy, storeVars
<1>7. CASE UNCHANGED dvars
  BY <1>1, <1>7 DEF dvars, vars, storeVars
<1>8. QED  BY <1>1, <1>2, <1>3, <1>4, <1>5, <1>6, <1>7 DEF DNext

(* Exactly-once effect over at-least-once delivery: what the handler has   *)
(* answered with nil has its one row if somebody is due one, and no row is *)
(* there without an event that was sent (CreateFromEvent).                 *)
THEOREM NotifiedExactlyOnce == DSpec => []ExactlyOnce
<1>1. DInit => Stored
  <2> SUFFICES ASSUME DInit PROVE Stored
    OBVIOUS
  <2>1. rows = <<>> /\ done[NotificationQueue] = {}
    BY DEF DInit, Init, N!NInit
  <2>2. rows \in Seq(WellFormed) /\ N!IsInjective(rows) /\ N!ToSet(rows) = {}
    BY <2>1 DEF N!ToSet, N!IsInjective
  <2>3. QED  BY <2>1, <2>2 DEF Stored
<1>2. DSpec => []BusInv
  BY DeliveryIsTheBus, BusInvariant, PTL
<1>3. BusInv /\ Stored /\ [DNext]_dvars => Stored'
  BY StepStored
<1>4. BusInv /\ Stored => ExactlyOnce
  <2> SUFFICES ASSUME Stored, NEW e \in WellFormed
               PROVE  LET copies == Cardinality({i \in DOMAIN rows : rows[i] = e}) IN
                      /\ copies =< 1
                      /\ e \in done[NotificationQueue] /\ N!Due(e) => copies = 1
                      /\ copies > 0 => N!Due(e) /\ e \in owed[NotificationQueue]
    BY DEF ExactlyOnce
  <2> DEFINE copies == Cardinality({i \in DOMAIN rows : rows[i] = e})
  <2> SUFFICES /\ copies =< 1
               /\ e \in done[NotificationQueue] /\ N!Due(e) => copies = 1
               /\ copies > 0 => N!Due(e) /\ e \in owed[NotificationQueue]
    OBVIOUS
  <2>1. CASE e \in N!ToSet(rows)
    <3>1. PICK i \in DOMAIN rows : rows[i] = e
      BY <2>1 DEF N!ToSet, Stored
    <3>2. {j \in DOMAIN rows : rows[j] = e} = {i}
      BY <3>1 DEF N!IsInjective, Stored
    <3>3. Cardinality({i}) = 1
      BY FS_Singleton
    <3>4. copies = 1
      BY <3>2, <3>3
    <3>5. N!Due(e) /\ e \in owed[NotificationQueue]
      BY <2>1 DEF Stored
    <3> HIDE DEF copies
    <3>6. QED  BY <3>4, <3>5
  <2>2. CASE e \notin N!ToSet(rows)
    <3>1. {j \in DOMAIN rows : rows[j] = e} = {}
      BY <2>2 DEF N!ToSet, Stored
    <3>2. Cardinality({}) = 0
      BY FS_EmptySet
    <3>3. copies = 0
      BY <3>1, <3>2
    <3>4. ~(e \in done[NotificationQueue] /\ N!Due(e))
      BY <2>2 DEF Stored
    <3> HIDE DEF copies
    <3>5. QED  BY <3>3, <3>4
  <2>3. QED  BY <2>1, <2>2
<1>5. QED  BY <1>1, <1>2, <1>3, <1>4, PTL DEF DSpec
-----------------------------------------------------------------------------
(* With processes that start, die and lose the broker, and events that are *)
(* never published: no step of the deployment breaks the bus.              *)
LEMMA DeployedStep == BusInv /\ [PNext]_pvars => BusInv'
<1> SUFFICES ASSUME BusInv, [PNext]_pvars PROVE BusInv'
  OBVIOUS
<1>0. TypeOK
  BY DEF BusInv
<1>1. ASSUME UNCHANGED vars PROVE BusInv'
  BY <1>1, StepBusInv
<1>2. ASSUME Next PROVE BusInv'
  BY <1>2, StepBusInv
<1>3. ASSUME NEW s \in Services, Connect(s) \/ ServeAlone(s) PROVE BusInv'
  BY <1>1, <1>3 DEF Connect, ServeAlone
<1>4. ASSUME NEW s \in Services, Die(s) PROVE BusInv'
  <2>1. CASE s \in Queues
    BY <1>2, <1>4, <2>1 DEF Die, Next
  <2>2. CASE s \notin Queues
    BY <1>1, <1>4, <2>2 DEF Die
  <2>3. QED  BY <2>1, <2>2
<1>5. ASSUME \/ ServeMedia \/ OpenGateway \/ JoinAsPublisher \/ PostgresChanges
             \/ BrokerFails \/ BrokerReturns \/ LoseLink
      PROVE  BusInv'
  BY <1>1, <1>5
  DEF ServeMedia, OpenGateway, JoinAsPublisher, PostgresChanges, BrokerFails, BrokerReturns,
      LoseLink
<1>6. ASSUME NEW e \in Events, Announce(e) PROVE BusInv'
  <2>1. CASE Send(e)
    BY <2>1, SendBusInv
  <2>2. CASE /\ unsent' = unsent \ {e}
             /\ UNCHANGED <<declared, consumer, ready, job, dlq, owed, done, failures, crashes>>
    <3>1. consumer' \in [Queues -> {"down", "deaf", "on"}] /\ unsent' \subseteq Events
      BY <1>0, <2>2 DEF TypeOK
    <3>2. declared \subseteq declared' /\ declared' \subseteq Queues /\ crashes' \in Nat
      BY <1>0, <2>2 DEF TypeOK
    <3>3. QED  BY <2>2, <3>1, <3>2, IdleBusInv
  <2>3. QED  BY <1>6, <2>1, <2>2 DEF Announce
<1>7. ASSUME NEW q \in Queues, GoDeaf(q) PROVE BusInv'
  <2>1. /\ UNCHANGED <<unsent, declared, dlq, owed, done, failures>> /\ crashes' = crashes
        /\ IF Busy(q) THEN PutBack(q) /\ Free(q) ELSE UNCHANGED <<ready, job>>
    BY <1>7 DEF GoDeaf
  <2>2. consumer' \in [Queues -> {"down", "deaf", "on"}] /\ crashes' \in Nat
    BY <1>0, <1>7, <2>1 DEF GoDeaf, TypeOK
  <2>3. CASE Busy(q)
    BY <2>1, <2>2, <2>3, PutBackBusInv
  <2>4. CASE ~Busy(q)
    BY <1>0, <2>1, <2>2, <2>4, IdleBusInv DEF TypeOK
  <2>5. QED  BY <2>3, <2>4
<1>8. ASSUME NEW q \in Queues,
             \/ JoinAsConsumer(q) \/ Serve(q) \/ OnBus(Take(q)) \/ OnBus(Settle(q))
             \/ OnBus(Requeue(q)) \/ OnBus(Ack(q))
      PROVE  BusInv'
  BY <1>2, <1>8 DEF JoinAsConsumer, Serve, OnBus, Next
<1>9. CASE UNCHANGED pvars
  BY <1>1, <1>9 DEF pvars
<1>10. QED  BY <1>3, <1>4, <1>5, <1>6, <1>7, <1>8, <1>9 DEF PNext

(* Whatever dies, restarts or goes away for a while, RabbitMQ included:    *)
(* what has been routed to a service is not lost, and dead letters are     *)
(* earned (main of each service, and the broker's redelivery).             *)
THEOREM DeploymentLosesNothing == PSpec => [](NoEventLost /\ DeadLettersEarned)
<1>1. PInit => BusInv
  BY InitBusInv DEF PInit
<1>2. BusInv => NoEventLost /\ DeadLettersEarned
  BY KeptIsNotLost DEF BusInv
<1>3. QED  BY <1>1, <1>2, DeployedStep, PTL DEF PSpec

(* The consumers of e that an outage has not reached yet, and the room     *)
(* there is then: each outage makes some for all queues of e at once.      *)
Listening(e) == IF BrokerUp THEN {} ELSE {q \in Homes(e) : consumer[q] = "on"}
PRoom(e) == Credit(e) + crashes + outages * Cardinality(Homes(e)) - Cardinality(Listening(e))
Outages == outages \in Nat /\ (BrokerUp \/ outages > 0)
PFit == Outages /\ \A e \in Events : Fit(e, PRoom(e))

(* How much room there is.                                                 *)
HasRoom(e) ==
  /\ Credit(e) \in Nat /\ Credit(e) =< Cardinality(Homes(e))
  /\ Cardinality(Listening(e)) \in Nat
  /\ Cardinality(Listening(e)) =< outages * Cardinality(Homes(e))
  /\ outages * Cardinality(Homes(e)) \in Nat
  /\ PRoom(e) \in Nat
(* There is no less than none.                                             *)
LEMMA RoomThere == TypeOK /\ Outages => \A e \in Events : HasRoom(e)
<1> SUFFICES ASSUME TypeOK, Outages, NEW e \in Events PROVE HasRoom(e)
  OBVIOUS
<1> DEFINE h == Cardinality(Homes(e))
           l == Cardinality(Listening(e))
           o == outages * h
<1>1. h \in Nat /\ IsFiniteSet(Homes(e))
  BY FinitelyManyFutures
<1>2. Credit(e) \in Nat /\ Credit(e) =< h
  BY <1>1 DEF Credit
<1>3. l \in Nat /\ l =< h /\ (BrokerUp => l = 0)
  <2>1. Listening(e) \in SUBSET Homes(e)
    BY DEF Listening
  <2>2. IsFiniteSet(Listening(e)) /\ l =< h
    BY <1>1, <2>1, FS_Subset
  <2>3. l \in Nat
    BY <2>2, FS_CardinalityType
  <2>4. BrokerUp => l = 0
    BY FS_EmptySet DEF Listening
  <2>5. QED  BY <2>2, <2>3, <2>4
<1> HIDE DEF l, h
<1>4. o \in Nat /\ l =< o
  <2>1. CASE outages = 0
    BY <1>1, <1>3, <2>1 DEF Outages
  <2>2. CASE outages > 0
    <3>1. outages \in Nat /\ outages - 1 \in Nat
      BY <2>2 DEF Outages
    <3>2. outages * h = (outages - 1) * h + h /\ (outages - 1) * h \in Nat
      BY <1>1, <3>1
    <3>3. QED  BY <1>1, <1>3, <3>2
  <2>3. QED  BY <2>1, <2>2 DEF Outages
<1>5. PRoom(e) = Credit(e) + crashes + o - l /\ crashes \in Nat
  BY DEF PRoom, h, l, TypeOK
<1> HIDE DEF o
<1>6. PRoom(e) \in Nat
  BY <1>2, <1>3, <1>4, <1>5
<1>7. QED  BY <1>2, <1>3, <1>4, <1>6 DEF HasRoom, h, l, o

(* Nor after a step.                                                       *)
LEMMA RoomThereNext == TypeOK' /\ Outages' => \A e \in Events : HasRoom(e)'
<1>1. (TypeOK /\ Outages => \A e \in Events : HasRoom(e))'
  BY RoomThere, PTL
<1>2. QED  BY <1>1

(* With no new outage, and nobody who listens in the middle of one.        *)
LEMMA SameOutage ==
  ASSUME BusInv, BusInv', PFit, [Next]_vars, outages' = outages,
         Outages', NEW e \in Events, Listening(e)' \subseteq Listening(e)
  PROVE  Fit(e, PRoom(e))'
<1>1. HasRoom(e) /\ HasRoom(e)'
  BY RoomThere, RoomThereNext DEF BusInv, PFit
<1>2. PICK r \in Nat : r = PRoom(e)
  BY <1>1 DEF HasRoom
<1>3. Fit(e, r)
  BY <1>2 DEF PFit
<1>4. /\ Credit(e) \in Nat /\ Credit(e)' \in Nat /\ crashes \in Nat /\ crashes' \in Nat
      /\ \E s \in Nat : /\ Fit(e, s)'
                        /\ s =< r + (Credit(e)' - Credit(e)) + (crashes' - crashes)
  BY <1>3, NextFit
<1>5. PICK s \in Nat : Fit(e, s)' /\ s =< r + (Credit(e)' - Credit(e)) + (crashes' - crashes)
  BY <1>4
<1>6. Cardinality(Listening(e)') =< Cardinality(Listening(e))
  <2>1. IsFiniteSet(Listening(e))
    <3>1. Listening(e) \in SUBSET Homes(e) /\ IsFiniteSet(Homes(e))
      BY FinitelyManyFutures DEF Listening
    <3>2. QED  BY <3>1, FS_Subset
  <2>2. QED  BY <2>1, FS_Subset
<1>7. PICK t \in Nat : t = PRoom(e)'
  BY <1>1 DEF HasRoom
<1>8. s =< t
  <2> DEFINE o == outages * Cardinality(Homes(e))
  <2>1. /\ o \in Nat /\ r = Credit(e) + crashes + o - Cardinality(Listening(e))
        /\ Cardinality(Listening(e)) \in Nat
    BY <1>1, <1>2 DEF PRoom, HasRoom
  <2>2. /\ t = Credit(e)' + crashes' + o - Cardinality(Listening(e)')
        /\ Cardinality(Listening(e)') \in Nat
    BY <1>1, <1>7 DEF PRoom, HasRoom, Homes
  <2> HIDE DEF o
  <2>3. QED  BY <1>4, <1>5, <1>6, <2>1, <2>2
<1>9. Fit(e, t)'
  BY <1>5, <1>8, FitsInMore
<1>10. QED  BY <1>7, <1>9

(* A consumer that goes deaf in an outage: one that listened.              *)
LEMMA DeafFit ==
  ASSUME BusInv, BusInv', PFit, NEW q \in Queues, GoDeaf(q), NEW e \in Events
  PROVE  Outages' /\ Fit(e, PRoom(e))'
<1>1. /\ ~ BrokerUp /\ ~ BrokerUp' /\ outages' = outages /\ consumer[q] = "on"
      /\ consumer' = [consumer EXCEPT ![q] = "deaf"]
      /\ UNCHANGED <<unsent, dlq, crashes>>
      /\ IF Busy(q) THEN PutBack(q) /\ Free(q) ELSE UNCHANGED <<ready, job>>
  BY DEF GoDeaf, deployment, BrokerUp
<1>0. TypeOK /\ TypeOK' /\ Outages'
  BY <1>1 DEF BusInv, PFit, Outages
<1>2. HasRoom(e) /\ HasRoom(e)'
  BY <1>0, RoomThere, RoomThereNext DEF PFit
<1>3. PICK r \in Nat : r = PRoom(e)
  BY <1>2 DEF HasRoom
<1>4. PICK t \in Nat : t = PRoom(e)'
  BY <1>2 DEF HasRoom
<1>5. Fit(e, r)
  BY <1>3 DEF PFit
<1>6. Fit(e, r)' \/ (q \in Homes(e) /\ Fit(e, r + 1)')
  <2>1. CASE Busy(q)
    BY <1>0, <1>1, <1>5, <2>1, PutBackFit
  <2>2. CASE ~Busy(q)
    <3>1. \A p \in Queues, m \in Counts : Mine(p, e, m)' =< Mine(p, e, m)
      BY <1>1, <2>2 DEF Mine, InHand
    <3>2. QED  BY <1>0, <1>1, <1>5, <2>2, <3>1, IdleFit
  <2>3. QED  BY <2>1, <2>2
<1>7. /\ IsFiniteSet(Listening(e)) /\ Listening(e)' = Listening(e) \ {q}
      /\ q \in Homes(e) => q \in Listening(e)
  <2>1. Listening(e) \in SUBSET Homes(e) /\ IsFiniteSet(Homes(e))
    BY FinitelyManyFutures DEF Listening
  <2>2. IsFiniteSet(Listening(e))
    BY <2>1, FS_Subset
  <2>3. \A p \in Queues : consumer'[p] = "on" <=> consumer[p] = "on" /\ p # q
    BY <1>0, <1>1 DEF TypeOK
  <2>4. Listening(e)' = Listening(e) \ {q}
    BY <1>1, <2>3 DEF Listening, Homes
  <2>5. q \in Homes(e) => q \in Listening(e)
    BY <1>1 DEF Listening
  <2>6. QED  BY <2>2, <2>4, <2>5
<1>8. /\ Cardinality(Listening(e)') =< Cardinality(Listening(e))
      /\ q \in Homes(e) => Cardinality(Listening(e)') = Cardinality(Listening(e)) - 1
  <2>1. Cardinality(Listening(e) \ {q})
          = IF q \in Listening(e) THEN Cardinality(Listening(e)) - 1 ELSE Cardinality(Listening(e))
    BY <1>7, FS_RemoveElement
  <2>2. Cardinality(Listening(e)) \in Nat
    BY <1>2 DEF HasRoom
  <2>3. QED  BY <1>7, <2>1, <2>2
<1>9. /\ r =< t /\ (q \in Homes(e) => r + 1 =< t)
  <2> DEFINE o == outages * Cardinality(Homes(e))
             c == Credit(e)
  <2>1. /\ o \in Nat /\ r = c + crashes + o - Cardinality(Listening(e))
        /\ Cardinality(Listening(e)) \in Nat /\ c \in Nat /\ crashes \in Nat
    BY <1>0, <1>2, <1>3 DEF PRoom, HasRoom, TypeOK
  <2>2. /\ t = c + crashes + o - Cardinality(Listening(e)')
        /\ Cardinality(Listening(e)') \in Nat
    BY <1>1, <1>2, <1>4 DEF PRoom, HasRoom, Homes, Credit
  <2> HIDE DEF o, c
  <2>3. QED  BY <1>8, <2>1, <2>2
<1>10. Fit(e, t)'
  BY <1>6, <1>9, FitsInMore
<1>11. QED  BY <1>0, <1>4, <1>10

(* Every step of the deployment leaves room.                               *)
LEMMA DeployedFit == ASSUME BusInv, PFit, [PNext]_pvars PROVE PFit'
<1>1. BusInv' /\ TypeOK /\ TypeOK'
  BY DeployedStep DEF BusInv
<1>2. ASSUME [Next]_vars, outages' = outages, up' = up,
             ~ BrokerUp => \A q \in Queues : consumer'[q] = "on" => consumer[q] = "on"
      PROVE  PFit'
  <2>1. Outages'
    BY <1>2 DEF PFit, Outages, BrokerUp
  <2>2. ASSUME NEW e \in Events PROVE Listening(e)' \subseteq Listening(e)
    BY <1>2 DEF Listening, BrokerUp, Homes
  <2>3. QED  BY <1>1, <1>2, <2>1, <2>2, SameOutage DEF PFit
<1>3. ASSUME UNCHANGED vars, outages' = outages, up' = up PROVE PFit'
  BY <1>2, <1>3 DEF vars
<1>4. ASSUME NEW s \in Services, Connect(s) \/ ServeAlone(s) PROVE PFit'
  BY <1>3, <1>4 DEF Connect, ServeAlone
<1>5. ASSUME NEW s \in Services, Die(s) PROVE PFit'
  <2>1. CASE s \in Queues
    <3>1. (Disconnect(s) \/ Redeploy(s)) /\ UNCHANGED <<up, outages>>
      BY <1>5, <2>1 DEF Die
    <3>2. \A q \in Queues : consumer'[q] = "on" => consumer[q] = "on"
      BY <1>1, <3>1 DEF Disconnect, Redeploy, TypeOK
    <3>3. Next
      BY <2>1, <3>1 DEF Next
    <3>4. QED  BY <1>2, <3>1, <3>2, <3>3
  <2>2. CASE s \notin Queues
    BY <1>3, <1>5, <2>2 DEF Die
  <2>3. QED  BY <2>1, <2>2
<1>6. ASSUME ServeMedia \/ OpenGateway \/ JoinAsPublisher \/ LoseLink PROVE PFit'
  <2>1. UNCHANGED vars /\ outages' = outages /\ up' = up
    BY <1>6 DEF ServeMedia, OpenGateway, JoinAsPublisher, LoseLink
  <2>2. QED  BY <1>3, <2>1
<1>7. ASSUME PostgresChanges \/ BrokerReturns PROVE PFit'
  <2>1. UNCHANGED vars /\ outages' = outages
    BY <1>7 DEF PostgresChanges, BrokerReturns
  <2>2. Outages' /\ (BrokerUp => BrokerUp')
    BY <1>7 DEF PostgresChanges, BrokerReturns, PFit, Outages, BrokerUp
  <2>3. ASSUME NEW e \in Events PROVE Listening(e)' \subseteq Listening(e)
    BY <2>1, <2>2 DEF Listening, Homes, vars
  <2>4. QED  BY <1>1, <2>1, <2>2, <2>3, SameOutage DEF PFit
<1>8. ASSUME BrokerFails PROVE PFit'
  <2>1. BrokerUp /\ outages' = outages + 1 /\ UNCHANGED vars /\ outages \in Nat
    BY <1>8 DEF BrokerFails, PFit, Outages
  <2>2. Outages'
    BY <2>1 DEF Outages
  <2>3. ASSUME NEW e \in Events PROVE Fit(e, PRoom(e))'
    <3>1. HasRoom(e) /\ HasRoom(e)'
      BY <1>1, <2>2, RoomThere, RoomThereNext DEF PFit
    <3>2. PICK r \in Nat : r = PRoom(e)
      BY <3>1 DEF HasRoom
    <3>3. PICK t \in Nat : t = PRoom(e)'
      BY <3>1 DEF HasRoom
    <3>4. Fit(e, r)
      BY <3>2 DEF PFit
    <3>5. Fit(e, r)'
      <4>1. \A p \in Queues, m \in Counts : Mine(p, e, m)' =< Mine(p, e, m)
        BY <2>1 DEF Mine, InHand, vars
      <4>2. QED  BY <1>1, <2>1, <3>4, <4>1, IdleFit DEF vars
    <3>6. r =< t
      <4> DEFINE h == Cardinality(Homes(e))
                 o == outages * h
                 l == Cardinality(Listening(e)')
      <4>1. h \in Nat /\ o \in Nat /\ (outages + 1) * h = o + h
        BY <2>1, FinitelyManyFutures
      <4>2. l =< h
        <5>1. Listening(e)' \in SUBSET Homes(e) /\ IsFiniteSet(Homes(e))
          BY FinitelyManyFutures DEF Listening, Homes
        <5>2. QED  BY <5>1, FS_Subset
      <4>3. l \in Nat
        BY <3>1 DEF HasRoom
      <4>4. t = Credit(e) + crashes + (outages + 1) * h - l
        BY <2>1, <3>3 DEF PRoom, Credit, Homes, vars
      <4>5. r = Credit(e) + crashes + o - 0
        BY <2>1, <3>2, FS_EmptySet DEF PRoom, Listening
      <4>6. Credit(e) \in Nat /\ crashes \in Nat
        BY <1>1, <3>1 DEF HasRoom, TypeOK
      <4> DEFINE k == (outages + 1) * h
      <4>7. t = Credit(e) + crashes + k - l /\ k = o + h
        BY <4>1, <4>4
      <4> HIDE DEF h, o, l, k
      <4>8. QED  BY <4>1, <4>2, <4>3, <4>5, <4>6, <4>7
    <3>7. Fit(e, t)'
      BY <3>5, <3>6, FitsInMore
    <3>8. QED  BY <3>3, <3>7
  <2>4. QED  BY <2>2, <2>3 DEF PFit
<1>9. ASSUME NEW x \in Events, Announce(x) PROVE PFit'
  <2>1. UNCHANGED deployment
    BY <1>9 DEF Announce
  <2>2. CASE Send(x)
    <3>1. Next /\ consumer' = consumer
      BY <2>2 DEF Next, Send
    <3>2. QED  BY <1>2, <2>1, <3>1 DEF deployment
  <2>3. CASE /\ unsent' = unsent \ {x}
             /\ UNCHANGED <<declared, consumer, ready, job, dlq, owed, done, failures, crashes>>
    <3>1. Outages'
      BY <2>1 DEF deployment, PFit, Outages, BrokerUp
    <3>2. ASSUME NEW e \in Events PROVE Fit(e, PRoom(e))'
      <4>1. HasRoom(e) /\ HasRoom(e)'
        BY <1>1, <3>1, RoomThere, RoomThereNext DEF PFit
      <4>2. PICK r \in Nat : r = PRoom(e)
        BY <4>1 DEF HasRoom
      <4>3. PICK t \in Nat : t = PRoom(e)'
        BY <4>1 DEF HasRoom
      <4>4. Fit(e, r)
        BY <4>2 DEF PFit
      <4>5. Fit(e, r)'
        <5>1. \A p \in Queues, m \in Counts : Mine(p, e, m)' =< Mine(p, e, m)
          BY <2>3 DEF Mine, InHand
        <5>2. QED  BY <1>1, <2>3, <4>4, <5>1, IdleFit
      <4>6. r =< t
        <5> DEFINE o == outages * Cardinality(Homes(e))
                   l == Cardinality(Listening(e))
        <5>1. o \in Nat /\ l \in Nat /\ crashes \in Nat
          BY <1>1, <4>1 DEF HasRoom, TypeOK
        <5>2. r = Credit(e) + crashes + o - l
          BY <4>2 DEF PRoom
        <5>3. t = Credit(e)' + crashes + o - l
          BY <2>1, <2>3, <4>3 DEF PRoom, Listening, Homes, BrokerUp, deployment
        <5>4. Credit(e) \in Nat /\ Credit(e)' \in Nat /\ Credit(e) =< Credit(e)'
          <6>1. Cardinality(Homes(e)) \in Nat
            BY FinitelyManyFutures
          <6>2. Credit(e)' = IF e \in unsent' THEN 0 ELSE Cardinality(Homes(e))
            BY DEF Credit, Homes
          <6>3. QED  BY <2>3, <6>1, <6>2 DEF Credit
        <5> HIDE DEF o, l
        <5>5. QED  BY <5>1, <5>2, <5>3, <5>4
      <4>7. Fit(e, t)'
        BY <4>5, <4>6, FitsInMore
      <4>8. QED  BY <4>3, <4>7
    <3>3. QED  BY <3>1, <3>2 DEF PFit
  <2>4. QED  BY <1>9, <2>2, <2>3 DEF Announce
<1>10. ASSUME NEW q \in Queues, JoinAsConsumer(q) PROVE PFit'
  <2>1. Boot(q) /\ (consumer'[q] = "on" => BrokerUp) /\ UNCHANGED <<up, outages>>
    BY <1>10 DEF JoinAsConsumer
  <2>2. ~ BrokerUp => \A p \in Queues : consumer'[p] = "on" => consumer[p] = "on"
    BY <1>1, <2>1 DEF Boot, TypeOK
  <2>3. QED  BY <1>2, <2>1, <2>2 DEF Next
<1>11. ASSUME NEW q \in Queues, GoDeaf(q) PROVE PFit'
  <2>1. ASSUME NEW e \in Events PROVE Outages' /\ Fit(e, PRoom(e))'
    BY <1>1, <1>11, DeafFit
  <2>2. Outages'
    BY <1>11 DEF GoDeaf, deployment, PFit, Outages, BrokerUp
  <2>3. QED  BY <2>1, <2>2 DEF PFit
<1>12. ASSUME NEW q \in Queues,
              \/ Serve(q) \/ OnBus(Take(q)) \/ OnBus(Settle(q)) \/ OnBus(Requeue(q))
              \/ OnBus(Ack(q))
       PROVE  PFit'
  <2>1. \/ Handle(q) \/ Take(q) \/ Settle(q) \/ Requeue(q) \/ Ack(q)
    BY <1>12 DEF Serve, OnBus
  <2>2. UNCHANGED deployment
    BY <1>12 DEF Serve, OnBus
  <2>3. consumer' = consumer
    BY <2>1 DEF Handle, Succeed, HandlerFails, Take, Deliver, Settle, Retry, DeadLetter,
                Requeue, Ack
  <2>4. Next
    BY <2>1 DEF Next
  <2>5. QED  BY <1>2, <2>2, <2>3, <2>4 DEF deployment
<1>13. CASE UNCHANGED pvars
  BY <1>3, <1>13 DEF pvars, deployment
<1>14. QED
  BY <1>4, <1>5, <1>6, <1>7, <1>8, <1>9, <1>10, <1>11, <1>12, <1>13 DEF PNext

(* In the deployment outages of RabbitMQ duplicate too, once per queue and *)
(* outage (the channels that main never opens again).                      *)
THEOREM DeployedDuplicatesBounded == PSpec => []DuplicatesBounded
<1>1. PInit => BusInv /\ PFit
  <2> SUFFICES ASSUME PInit PROVE BusInv /\ PFit
    OBVIOUS
  <2>1. Init /\ BrokerUp /\ outages = 0 /\ crashes = 0
    BY DEF PInit, Init, BrokerUp
  <2>2. ASSUME NEW e \in Events PROVE Fit(e, PRoom(e))
    <3>1. Fit(e, 0) /\ Credit(e) = 0
      BY <2>1, NoFates
    <3>2. PRoom(e) = 0
      <4>1. Cardinality(Listening(e)) = 0 /\ Cardinality(Homes(e)) \in Nat
        BY <2>1, FS_EmptySet, FinitelyManyFutures DEF Listening
      <4>2. QED  BY <2>1, <3>1, <4>1 DEF PRoom
    <3>3. QED  BY <3>1, <3>2
  <2>3. QED  BY <2>1, <2>2, InitBusInv DEF PFit, Outages
<1>2. BusInv /\ PFit => DuplicatesBounded
  <2> SUFFICES ASSUME BusInv, PFit, NEW e \in Events
               PROVE  Fit(e, Cardinality(Homes(e)) * (1 + outages) + crashes)
    BY DEF DuplicatesBounded, Fit
  <2>1. TypeOK /\ HasRoom(e)
    BY RoomThere DEF BusInv, PFit
  <2>2. PICK r \in Nat : r = PRoom(e)
    BY <2>1 DEF HasRoom
  <2>3. Fit(e, r)
    BY <2>2 DEF PFit
  <2> DEFINE h == Cardinality(Homes(e))
             o == outages * h
             l == Cardinality(Listening(e))
             t == h * (1 + outages) + crashes
  <2>4. /\ o \in Nat /\ l \in Nat /\ h \in Nat /\ crashes \in Nat /\ outages \in Nat
        /\ Credit(e) \in Nat /\ Credit(e) =< h
    BY <2>1, FinitelyManyFutures DEF HasRoom, TypeOK, PFit, Outages
  <2>5. r = Credit(e) + crashes + o - l
    BY <2>2 DEF PRoom
  <2>6. h * (1 + outages) = h + o
    BY <2>4
  <2>7. t = h + o + crashes
    BY <2>6
  <2> HIDE DEF h, o, l, t
  <2>8. r =< t /\ t \in Nat
    BY <2>4, <2>5, <2>7
  <2>9. QED  BY <2>3, <2>8, FitsInMore DEF t, h
<1>3. BusInv /\ PFit /\ [PNext]_pvars => PFit'
  BY DeployedFit
<1>4. QED  BY <1>1, <1>2, <1>3, DeployedStep, PTL DEF PSpec
=============================================================================
