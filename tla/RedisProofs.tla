------------------------------ MODULE RedisProofs ------------------------------
(* Theorems about what is kept in Redis: the counters of RateLimiter, for  *)
(* any number of requests, any limits and any window; and the pages of     *)
(* FeedCache, for any users, pages, requests and changes.                  *)
EXTENDS RateLimiter, FeedCache, FiniteSetTheorems, SequenceTheorems, TLAPS
-----------------------------------------------------------------------------
(* An EXPIRE that is owed is owed to a key that cannot expire.             *)
OwedKeys == owes # {} => count > 0 /\ ttl = Forever

(* Every request the last limiter let pass has raised the counter.         *)
CountedOnce == counted =< count /\ counted =< Limits[Last]

(* A request that owes an EXPIRE stands at a limiter.                      *)
OwedAtALimiter == \A r \in owes : layer[r] > 0

IInv == TypeOK /\ OwedKeys /\ CountedOnce /\ OwedAtALimiter /\ LockoutOnlyByLeak
-----------------------------------------------------------------------------
(* The limits are numbers between 1 and Top.                               *)
LEMMA LimitsType ==
  /\ Last \in Nat \ {0}
  /\ \A i \in 1 .. Last : Limits[i] \in Nat \ {0} /\ Limits[i] < Top
  /\ Top \in Nat /\ Top > 1
  /\ Window \in Nat \ {0} /\ Forever = Window + 1
  BY LimitsAssumption, WindowAssumption DEF Last, Forever

(* A limiter is followed by the next one or by the handler.                *)
LEMMA SuccessorType == \A i \in 1 .. Last : Successor(i) \in 0 .. Last
  BY LimitsType DEF Successor

(* The invariant holds before the first request.                           *)
LEMMA InitIInv == Init => IInv
<1> SUFFICES ASSUME Init PROVE IInv
  OBVIOUS
<1>1. Last \in 1 .. Last /\ Limits[Last] \in Nat
  BY LimitsType
<1>2. TypeOK
  <2>1. leaked \in BOOLEAN
    BY DEF Init
  <2>2. layer \in [Requests -> 0 .. Last]
    BY <1>1, LimitsType DEF Init
  <2>3. QED  BY <2>1, <2>2, LimitsType DEF Init, TypeOK
<1>3. CountedOnce
  BY <1>1 DEF Init, CountedOnce
<1>4. OwedKeys /\ OwedAtALimiter /\ LockoutOnlyByLeak
  BY DEF Init, OwedKeys, OwedAtALimiter, LockoutOnlyByLeak
<1>5. QED  BY <1>2, <1>3, <1>4 DEF IInv

(* Counting a request keeps the invariant.                                 *)
LEMMA IncrIInv == ASSUME IInv, NEW r \in Requests, Incr(r) PROVE IInv'
<1> USE DEF IInv
<1> DEFINE n == Up(count)
<1>1. /\ At(r) /\ count' = n /\ Judge(r, n, Limits[layer[r]])
      /\ ttl' = ttl /\ local' = local /\ leaked' = leaked
  BY DEF Incr
<1>2. /\ layer[r] \in 1 .. Last /\ r \notin owes
      /\ Successor(layer[r]) \in 0 .. Last
  BY <1>1, LimitsType, SuccessorType DEF At, TypeOK
<1>3. /\ n \in 1 .. Top /\ count =< n
      /\ n =< Limits[layer[r]] => n = count + 1
      /\ n = 1 => count = 0
      /\ Limits[layer[r]] >= 1
  BY <1>2, LimitsType DEF Up, TypeOK
<1> HIDE DEF n
<1>4. CASE n > Limits[layer[r]]
  <2>1. /\ layer' = [layer EXCEPT ![r] = 0]
        /\ owes' = owes /\ counted' = counted /\ whole' = whole
    BY <1>1, <1>4 DEF Judge
  <2>2. n # 1 /\ count > 0
    BY <1>2, <1>3, <1>4, LimitsType DEF Up, TypeOK, n
  <2>3. TypeOK'
    BY <1>1, <1>2, <1>3, <2>1, <2>2, LimitsType DEF TypeOK
  <2>4. OwedKeys' /\ CountedOnce' /\ LockoutOnlyByLeak'
    BY <1>1, <1>3, <2>1, <2>2, LimitsType
    DEF TypeOK, OwedKeys, CountedOnce, LockoutOnlyByLeak
  <2>5. OwedAtALimiter'
    BY <1>2, <2>1 DEF TypeOK, OwedAtALimiter
  <2>6. QED  BY <2>3, <2>4, <2>5
<1>5. CASE ~(n > Limits[layer[r]])
  <2>1. n = count + 1 /\ n =< Limits[layer[r]]
    BY <1>2, <1>3, <1>5, LimitsType
  <2>2. /\ counted' = counted + (IF layer[r] = Last THEN 1 ELSE 0)
        /\ whole' = whole + (IF layer[r] = Last /\ r \in local THEN 1 ELSE 0)
    BY <1>1, <1>5 DEF Judge
  <2>3. CountedOnce'
    BY <1>1, <1>2, <2>1, <2>2, LimitsType DEF TypeOK, CountedOnce
  <2>4. counted' \in Nat /\ whole' \in 0 .. counted'
    BY <2>2 DEF TypeOK
  <2>5. CASE n = 1
    <3>1. owes' = owes \cup {r} /\ layer' = layer
      BY <1>1, <1>5, <2>5 DEF Judge
    <3>2. count = 0 /\ owes = {} /\ ttl = Forever
      BY <1>3, <2>5 DEF TypeOK, OwedKeys
    <3>3. TypeOK'
      BY <1>1, <1>3, <2>4, <2>5, <3>1, <3>2, LimitsType DEF TypeOK
    <3>4. OwedKeys' /\ LockoutOnlyByLeak'
      BY <1>1, <2>5, <3>1, <3>2 DEF OwedKeys, LockoutOnlyByLeak
    <3>5. OwedAtALimiter'
      BY <1>2, <3>1 DEF OwedAtALimiter
    <3>6. QED  BY <2>3, <3>3, <3>4, <3>5
  <2>6. CASE n # 1
    <3>1. owes' = owes /\ layer' = [layer EXCEPT ![r] = Successor(@)]
      BY <1>1, <1>5, <2>6 DEF Judge
    <3>2. count > 0
      BY <2>1, <2>6 DEF TypeOK
    <3>3. TypeOK'
      BY <1>1, <1>2, <1>3, <2>4, <2>6, <3>1, <3>2, LimitsType DEF TypeOK
    <3>4. OwedKeys' /\ LockoutOnlyByLeak'
      BY <1>1, <1>3, <3>1, <3>2, LimitsType DEF OwedKeys, LockoutOnlyByLeak, TypeOK
    <3>5. OwedAtALimiter'
      BY <1>2, <3>1 DEF TypeOK, OwedAtALimiter
    <3>6. QED  BY <2>3, <3>3, <3>4, <3>5
  <2>7. QED  BY <2>5, <2>6
<1>6. QED  BY <1>4, <1>5

(* A request that leaves its EXPIRE behind, sent or lost, goes on.         *)
LEMMA ExpiryIInv ==
  ASSUME IInv, NEW r \in Requests, SetExpiry(r) \/ LoseExpiry(r) PROVE IInv'
<1> USE DEF IInv
<1>1. /\ r \in owes /\ owes' = owes \ {r}
      /\ layer' = [layer EXCEPT ![r] = Successor(layer[r])]
      /\ count' = count /\ local' = local /\ counted' = counted /\ whole' = whole
      /\ \/ ttl' = Window /\ leaked' = leaked
         \/ ttl' = ttl /\ leaked' = TRUE
  BY DEF SetExpiry, LoseExpiry
<1>2. /\ owes' = {} /\ count > 0
      /\ layer[r] \in 1 .. Last /\ Successor(layer[r]) \in 0 .. Last
  BY <1>1, SuccessorType, LimitsType DEF TypeOK, OwedKeys, OwedAtALimiter
<1>3. TypeOK'
  <2>1. leaked' \in BOOLEAN
    BY <1>1 DEF TypeOK
  <2>2. ttl' \in 1 .. Forever
    BY <1>1, LimitsType DEF TypeOK
  <2>3. layer' \in [Requests -> 0 .. Last]
    BY <1>1, <1>2 DEF TypeOK
  <2>4. QED  BY <1>1, <1>2, <2>1, <2>2, <2>3 DEF TypeOK
<1>4. OwedKeys' /\ OwedAtALimiter'
  BY <1>2 DEF OwedKeys, OwedAtALimiter
<1>5. CountedOnce'
  BY <1>1 DEF CountedOnce
<1>6. LockoutOnlyByLeak'
  BY <1>1, LimitsType DEF LockoutOnlyByLeak
<1>7. QED  BY <1>3, <1>4, <1>5, <1>6

(* Every step keeps the invariant.                                         *)
LEMMA StepIInv == IInv /\ [Next]_vars => IInv'
<1> SUFFICES ASSUME IInv, [Next]_vars PROVE IInv'
  OBVIOUS
<1> USE DEF IInv
<1>1. ASSUME NEW r \in Requests, Arrive(r) PROVE IInv'
  <2>1. /\ Idle(r) /\ layer' = [layer EXCEPT ![r] = 1] /\ local' = local \cup {r}
        /\ UNCHANGED <<count, ttl, owes, counted, whole, leaked>>
    BY <1>1 DEF Arrive
  <2>2. TypeOK'
    BY <2>1, LimitsType DEF TypeOK
  <2>3. OwedKeys' /\ CountedOnce' /\ LockoutOnlyByLeak'
    BY <2>1 DEF OwedKeys, CountedOnce, LockoutOnlyByLeak
  <2>4. OwedAtALimiter'
    BY <2>1 DEF OwedAtALimiter, TypeOK
  <2>5. QED  BY <2>2, <2>3, <2>4
<1>2. ASSUME NEW r \in Requests, Incr(r) PROVE IInv'
  BY <1>2, IncrIInv
<1>3. ASSUME NEW r \in Requests, IncrFails(r) PROVE IInv'
  <2>1. /\ At(r) /\ layer' = [layer EXCEPT ![r] = Successor(layer[r])]
        /\ local' = local \ {r}
        /\ UNCHANGED <<ttl, owes, counted, whole>>
        /\ \/ count' = count /\ leaked' = leaked
           \/ count' = Up(count) /\ leaked' = (leaked \/ count = 0)
    BY <1>3 DEF IncrFails
  <2>2. /\ layer[r] \in 1 .. Last /\ r \notin owes
        /\ Successor(layer[r]) \in 0 .. Last
    BY <2>1, LimitsType, SuccessorType DEF At, TypeOK
  <2>3. count' \in 0 .. Top /\ count =< count' /\ (count' = 0 => count = 0)
    BY <2>1, LimitsType DEF TypeOK, Up
  <2>4. leaked' \in BOOLEAN
    BY <2>1 DEF TypeOK
  <2>5. TypeOK'
    BY <2>1, <2>2, <2>3, <2>4 DEF TypeOK
  <2>6. OwedKeys' /\ CountedOnce'
    BY <2>1, <2>3, LimitsType DEF TypeOK, OwedKeys, CountedOnce
  <2>7. OwedAtALimiter'
    BY <2>1, <2>2 DEF TypeOK, OwedAtALimiter
  <2>8. LockoutOnlyByLeak'
    <3>1. count = 0 \/ count > 0
      BY DEF TypeOK
    <3>2. CASE leaked'
      BY <3>2 DEF LockoutOnlyByLeak
    <3>3. CASE ~leaked'
      <4>1. ~leaked /\ (count = 0 => count' = count)
        <5>1. CASE count' = count /\ leaked' = leaked
          BY <3>3, <5>1
        <5>2. CASE leaked' = (leaked \/ count = 0)
          BY <3>3, <5>2, Zenon
        <5>3. QED  BY <2>1, <5>1, <5>2
      <4>2. count' > 0 => count > 0
        BY <3>1, <4>1
      <4>3. QED  BY <2>1, <4>1, <4>2 DEF LockoutOnlyByLeak
    <3>4. QED  BY <3>2, <3>3
  <2>9. QED  BY <2>5, <2>6, <2>7, <2>8
<1>4. ASSUME NEW r \in Requests, SetExpiry(r) \/ LoseExpiry(r) PROVE IInv'
  BY <1>4, ExpiryIInv
<1>5. ASSUME Tick PROVE IInv'
  <2>1. ttl # Forever /\ owes = {} /\ UNCHANGED <<layer, owes>>
    BY <1>5 DEF Tick, OwedKeys
  <2>2. CASE ttl > 1
    <3>1. ttl' = ttl - 1 /\ UNCHANGED <<count, local, counted, whole, leaked>>
      BY <1>5, <2>2 DEF Tick
    <3>2. ttl' \in 1 .. Forever /\ count # 0 /\ ttl' # Forever
      BY <2>1, <2>2, <3>1, LimitsType DEF TypeOK
    <3>3. TypeOK'
      BY <2>1, <3>1, <3>2 DEF TypeOK
    <3>4. OwedKeys' /\ CountedOnce' /\ OwedAtALimiter' /\ LockoutOnlyByLeak'
      BY <2>1, <3>1, <3>2 DEF OwedKeys, CountedOnce, OwedAtALimiter, LockoutOnlyByLeak
    <3>5. QED  BY <3>3, <3>4
  <2>3. CASE ~(ttl > 1)
    <3>1. /\ count' = 0 /\ ttl' = Forever /\ counted' = 0 /\ whole' = 0
          /\ local' = {r \in local : layer[r] =< 1}
      BY <1>5, <2>3 DEF Tick
    <3>2. leaked' \in BOOLEAN
      BY <1>5, <2>3 DEF Tick
    <3>3. local' \subseteq Requests
      BY <3>1 DEF TypeOK
    <3>4. Limits[Last] \in Nat
      BY LimitsType
    <3>5. TypeOK'
      BY <2>1, <3>1, <3>2, <3>3, LimitsType DEF TypeOK
    <3>6. OwedKeys' /\ CountedOnce' /\ OwedAtALimiter' /\ LockoutOnlyByLeak'
      BY <2>1, <3>1, <3>4 DEF OwedKeys, CountedOnce, OwedAtALimiter, LockoutOnlyByLeak
    <3>7. QED  BY <3>5, <3>6
  <2>4. QED  BY <2>2, <2>3
<1>6. CASE UNCHANGED vars
  BY <1>6 DEF vars, TypeOK, OwedKeys, CountedOnce, OwedAtALimiter, LockoutOnlyByLeak
<1>7. QED
  BY <1>1, <1>2, <1>3, <1>4, <1>5, <1>6 DEF Next
-----------------------------------------------------------------------------
(* The inductive invariant holds in every reachable state.                 *)
THEOREM InductiveInvariant == Spec => []IInv
  BY InitIInv, StepIInv, PTL DEF Spec

(* Type correctness: one request at most owes the key its EXPIRE.          *)
THEOREM TypeCorrect == Spec => []TypeOK
  BY InductiveInvariant, PTL DEF IInv

(* Whatever the limits, the number of requests and their interleaving with *)
(* the end of the window, the last limiter counts in no more than its      *)
(* limit during the life of one key.                                       *)
THEOREM LimitIsKept == Spec => []LimitKept
<1>1. IInv => LimitKept
  BY DEF IInv, CountedOnce, LimitKept
<1>2. QED  BY <1>1, InductiveInvariant, PTL

(* A key without a TTL is always the trace of a lost EXPIRE or a lost      *)
(* answer to INCR: interleaving alone locks no client out.                 *)
THEOREM LockoutsAreLeaks == Spec => []LockoutOnlyByLeak
  BY InductiveInvariant, PTL DEF IInv
-----------------------------------------------------------------------------
(* The limiters that have counted a request on its way, by this key; those *)
(* of a request that is through are in whole.                              *)
Done(r) == IF r \notin owes THEN layer[r] - 1 ELSE IF layer[r] = Last THEN 0 ELSE layer[r]
Passed == {p \in Requests \X (1 .. Last) : p[1] \in local /\ p[2] =< Done(p[1])}

(* Each of them has raised the counter, Last times for a request that is   *)
(* through.                                                                *)
Used == Last * whole + Cardinality(Passed) =< count /\ LimitDivided

(* There are finitely many.                                                *)
LEMMA PassedFinite == IsFiniteSet(Passed) /\ Cardinality(Passed) \in Nat
<1>1. IsFiniteSet(1 .. Last)
  BY LimitsType, FS_Interval
<1>2. IsFiniteSet(Requests \X (1 .. Last))
  BY <1>1, FiniteAssumption, FS_Product
<1>3. IsFiniteSet(Passed)
  BY <1>2, FS_Subset DEF Passed
<1>4. QED  BY <1>3, FS_CardinalityType

(* A step that lets no local request pass a limiter keeps this.            *)
LEMMA UsedKept ==
  ASSUME IInv, Used, whole' = whole, count' \in Nat, count =< count',
         \A r \in Requests, i \in 1 .. Last :
           r \in local' /\ i =< Done(r)' => r \in local /\ i =< Done(r)
  PROVE  Used'
<1>1. Passed' \subseteq Passed
  <2>1. ASSUME NEW p \in Passed' PROVE p \in Passed
    <3>1. p \in Requests \X (1 .. Last) /\ p[1] \in local' /\ p[2] =< Done(p[1])'
      BY <2>1 DEF Passed
    <3>2. p[1] \in local /\ p[2] =< Done(p[1])
      BY <3>1
    <3>3. QED  BY <3>1, <3>2 DEF Passed
  <2>2. QED  BY <2>1
<1>2. Cardinality(Passed') =< Cardinality(Passed) /\ IsFiniteSet(Passed')
  BY <1>1, PassedFinite, FS_Subset
<1>3. Cardinality(Passed') \in Nat
  BY <1>2, FS_CardinalityType
<1>4. Last * whole \in Nat /\ count \in Nat
  BY LimitsType DEF IInv, TypeOK
<1>5. (Last * whole)' = Last * whole /\ Limits[Last] \in Nat
  BY LimitsType DEF Last
<1>6. Last * whole' + Cardinality(Passed') =< count'
  BY <1>2, <1>3, <1>4, PassedFinite DEF Used
<1>7. QED  BY <1>6 DEF Used, LimitDivided, Last
(* A local request that passes a limiter has raised the counter; one that  *)
(* passes the last has done so once per limiter.                           *)
LEMMA IncrUsed == ASSUME IInv, Used, NEW r \in Requests, Incr(r) PROVE Used'
<1> USE DEF IInv
<1> DEFINE n == Up(count)
           l == layer[r]
<1>1. /\ At(r) /\ count' = n /\ Judge(r, n, Limits[l])
      /\ local' = local /\ r \notin owes /\ l \in 1 .. Last
      /\ layer \in [Requests -> 0 .. Last]
  BY LimitsType DEF Incr, At, TypeOK
<1>2. /\ n \in Nat /\ count \in Nat /\ count =< n
      /\ n =< Limits[l] => n = count + 1
  BY <1>1, LimitsType DEF Up, TypeOK
<1> HIDE DEF n
<1>3. CASE n > Limits[l]
  <2>1. layer' = [layer EXCEPT ![r] = 0] /\ owes' = owes /\ whole' = whole
    BY <1>1, <1>3 DEF Judge
  <2>2. \A t \in Requests, i \in 1 .. Last : i =< Done(t)' => i =< Done(t)
    BY <1>1, <2>1, LimitsType DEF Done
  <2>3. QED  BY <1>1, <1>2, <2>1, <2>2, UsedKept
<1>4. CASE ~(n > Limits[l])
  <2>1. n = count + 1 /\ n =< Limits[l]
    BY <1>1, <1>2, <1>4, LimitsType
  <2>2. /\ \/ owes' = owes \cup {r} /\ layer' = layer
           \/ owes' = owes /\ layer' = [layer EXCEPT ![r] = Successor(l)]
        /\ whole' = whole + (IF l = Last /\ r \in local THEN 1 ELSE 0)
    BY <1>1, <1>4 DEF Judge
  <2>3. /\ \A t \in Requests \ {r} : Done(t)' = Done(t)
        /\ Done(r) = l - 1
        /\ l < Last => Done(r)' = l
        /\ l = Last => \A t \in Requests, i \in 1 .. Last : t = r => ~(i =< Done(t)')
    BY <1>1, <2>2, LimitsType DEF Done, Successor
  <2>4. CASE r \notin local
    <3>1. \A t \in Requests, i \in 1 .. Last :
             t \in local' /\ i =< Done(t)' => t \in local /\ i =< Done(t)
      BY <1>1, <2>3, <2>4
    <3>2. whole' = whole
      BY <2>2, <2>4 DEF TypeOK
    <3>3. QED  BY <1>1, <1>2, <3>1, <3>2, UsedKept
  <2>5. CASE r \in local /\ l < Last
    <3>1. /\ Passed' \subseteq Passed \cup {<<r, l>>}
          /\ <<r, l>> \notin Passed
      <4>1. ASSUME NEW p \in Passed' PROVE p \in Passed \cup {<<r, l>>}
        <5>1. p \in Requests \X (1 .. Last) /\ p[1] \in local /\ p[2] =< Done(p[1])'
          BY <1>1, <4>1 DEF Passed
        <5>2. CASE p[1] = r /\ p[2] = l
          BY <5>1, <5>2
        <5>3. CASE ~(p[1] = r /\ p[2] = l)
          <6>1. p[2] =< Done(p[1])
            <7>1. CASE p[1] = r
              <8>1. Done(p[1])' = l /\ Done(p[1]) = l - 1
                BY <2>3, <2>5, <7>1 DEF Done
              <8>2. QED  BY <1>1, <5>1, <5>3, <7>1, <8>1
            <7>2. CASE p[1] # r
              BY <2>3, <5>1, <7>2
            <7>3. QED  BY <7>1, <7>2
          <6>2. QED  BY <5>1, <6>1 DEF Passed
        <5>4. QED  BY <5>2, <5>3
      <4>2. <<r, l>> \notin Passed
        BY <1>1, <2>3 DEF Passed
      <4>3. QED  BY <4>1, <4>2
    <3>2. Cardinality(Passed \cup {<<r, l>>}) = Cardinality(Passed) + 1
      BY <3>1, PassedFinite, FS_AddElement
    <3>3. IsFiniteSet(Passed \cup {<<r, l>>})
      BY PassedFinite, FS_AddElement
    <3>4. Cardinality(Passed') =< Cardinality(Passed) + 1 /\ IsFiniteSet(Passed')
      BY <3>1, <3>2, <3>3, FS_Subset
    <3>5. Cardinality(Passed') \in Nat
      BY <3>4, FS_CardinalityType
    <3>6. whole' = whole /\ Last * whole \in Nat
      BY <2>2, <2>5, LimitsType DEF TypeOK
    <3>7. Last * whole' + Cardinality(Passed') =< count'
      BY <1>1, <1>2, <2>1, <3>4, <3>5, <3>6, PassedFinite DEF Used
    <3>8. QED  BY <3>6, <3>7 DEF Used, LimitDivided, Last
  <2>6. CASE r \in local /\ l = Last
    <3> DEFINE his == {r} \X (1 .. Last - 1)
    <3>1. his \subseteq Passed /\ Passed' \subseteq Passed \ his
      <4>1. his \subseteq Passed
        BY <1>1, <2>3, <2>6, LimitsType DEF Passed
      <4>2. ASSUME NEW p \in Passed' PROVE p \in Passed \ his
        <5>1. p \in Requests \X (1 .. Last) /\ p[1] \in local /\ p[2] =< Done(p[1])'
          BY <1>1, <4>2 DEF Passed
        <5>2. p[1] # r
          BY <2>3, <2>6, <5>1
        <5>3. p[2] =< Done(p[1])
          BY <2>3, <5>1, <5>2
        <5>4. QED  BY <5>1, <5>2, <5>3 DEF Passed
      <4>3. QED  BY <4>1, <4>2
    <3>2. IsFiniteSet(his) /\ Cardinality(his) = Last - 1
      <4>1. IsFiniteSet({r}) /\ Cardinality({r}) = 1
        BY FS_Singleton
      <4>2. IsFiniteSet(1 .. Last - 1) /\ Cardinality(1 .. Last - 1) = Last - 1
        BY LimitsType, FS_Interval
      <4>3. IsFiniteSet(his) /\ Cardinality(his) = 1 * (Last - 1)
        <5>1. Cardinality(his) = Cardinality({r}) * Cardinality(1 .. Last - 1)
          BY <4>1, <4>2, FS_Product
        <5>2. IsFiniteSet(his)
          BY <4>1, <4>2, FS_Product
        <5>3. QED  BY <4>1, <4>2, <5>1, <5>2
      <4>4. QED  BY <4>3, LimitsType
    <3>3. Passed \cap his = his
      BY <3>1
    <3>4. /\ IsFiniteSet(Passed \ his)
          /\ Cardinality(Passed \ his) = Cardinality(Passed) - (Last - 1)
      <4>1. Cardinality(Passed \cap his) = Last - 1
        BY <3>2, <3>3
      <4>2. /\ IsFiniteSet(Passed \ his)
            /\ Cardinality(Passed \ his) = Cardinality(Passed) - Cardinality(Passed \cap his)
        BY <3>2, PassedFinite, FS_Difference
      <4>3. QED  BY <4>1, <4>2
    <3>5. Cardinality(Passed') =< Cardinality(Passed) - (Last - 1) /\ IsFiniteSet(Passed')
      BY <3>1, <3>4, FS_Subset
    <3>6. Cardinality(Passed') \in Nat
      BY <3>5, FS_CardinalityType
    <3>7. whole' = whole + 1 /\ whole \in Nat
      BY <2>2, <2>6 DEF TypeOK
    <3>8. Last * whole' = Last * whole + Last /\ Last * whole \in Nat
      BY <3>7, LimitsType
    <3>9. Last * whole' + Cardinality(Passed') =< count'
      BY <1>1, <1>2, <2>1, <3>5, <3>6, <3>8, PassedFinite, LimitsType DEF Used
    <3>10. Last * whole' =< Limits[Last] /\ Limits[Last] \in Nat
      BY <1>1, <2>1, <2>6, <3>6, <3>8, <3>9, LimitsType
    <3>11. QED  BY <3>9, <3>10 DEF Used, LimitDivided, Last
  <2>7. QED  BY <1>1, <2>4, <2>5, <2>6, LimitsType
<1>5. QED  BY <1>3, <1>4

(* Every step keeps this: the end of the window forgets counter and        *)
(* requests together.                                                      *)
LEMMA StepUsed == IInv /\ Used /\ [Next]_vars => Used'
<1> SUFFICES ASSUME IInv, Used, [Next]_vars PROVE Used'
  OBVIOUS
<1> USE DEF IInv
<1>1. ASSUME NEW r \in Requests, Arrive(r) PROVE Used'
  <2>1. /\ layer[r] = 0 /\ layer' = [layer EXCEPT ![r] = 1] /\ local' = local \cup {r}
        /\ UNCHANGED <<count, owes, whole>> /\ r \notin owes
        /\ layer \in [Requests -> 0 .. Last] /\ count \in Nat
    BY <1>1 DEF Arrive, Idle, OwedAtALimiter, TypeOK
  <2>2. \A t \in Requests, i \in 1 .. Last :
          t \in local' /\ i =< Done(t)' => t \in local /\ i =< Done(t)
    BY <2>1, LimitsType DEF Done
  <2>3. QED  BY <2>1, <2>2, UsedKept
<1>2. ASSUME NEW r \in Requests, Incr(r) PROVE Used'
  BY <1>2, IncrUsed
<1>3. ASSUME NEW r \in Requests, IncrFails(r) PROVE Used'
  <2>1. /\ local' = local \ {r} /\ whole' = whole /\ owes' = owes
        /\ \A t \in Requests \ {r} : layer'[t] = layer[t]
        /\ count' \in Nat /\ count =< count'
    BY <1>3, LimitsType DEF IncrFails, TypeOK, Up
  <2>2. \A t \in Requests, i \in 1 .. Last :
          t \in local' /\ i =< Done(t)' => t \in local /\ i =< Done(t)
    BY <2>1 DEF Done
  <2>3. QED  BY <2>1, <2>2, UsedKept
<1>4. ASSUME NEW r \in Requests, SetExpiry(r) \/ LoseExpiry(r) PROVE Used'
  <2>1. /\ UNCHANGED <<count, local, whole>> /\ count \in Nat
        /\ r \in owes /\ owes' = owes \ {r}
        /\ layer' = [layer EXCEPT ![r] = Successor(layer[r])]
        /\ layer \in [Requests -> 0 .. Last] /\ layer[r] > 0
    BY <1>4 DEF SetExpiry, LoseExpiry, TypeOK, OwedAtALimiter
  <2>2. \A t \in Requests, i \in 1 .. Last : i =< Done(t)' => i =< Done(t)
    BY <2>1, LimitsType DEF Done, Successor
  <2>3. QED  BY <2>1, <2>2, UsedKept
<1>5. ASSUME Tick PROVE Used'
  <2>1. /\ owes = {} /\ UNCHANGED <<layer, owes>> /\ count \in Nat
        /\ layer \in [Requests -> 0 .. Last]
    BY <1>5 DEF Tick, OwedKeys, TypeOK
  <2>2. CASE UNCHANGED <<count, local, whole>>
    <3>1. \A t \in Requests, i \in 1 .. Last : i =< Done(t)' => i =< Done(t)
      BY <2>1 DEF Done
    <3>2. QED  BY <2>1, <2>2, <3>1, UsedKept
  <2>3. CASE count' = 0 /\ whole' = 0 /\ local' = {r \in local : layer[r] =< 1}
    <3>1. \A t \in Requests, i \in 1 .. Last : t \in local' => ~(i =< Done(t)')
      BY <2>1, <2>3, LimitsType DEF Done
    <3>2. Passed' = {}
      <4>1. ASSUME NEW p \in Passed' PROVE FALSE
        <5>1. p \in Requests \X (1 .. Last) /\ p[1] \in local' /\ p[2] =< Done(p[1])'
          BY <4>1 DEF Passed
        <5>2. QED  BY <3>1, <5>1
      <4>2. QED  BY <4>1
    <3>3. Cardinality(Passed') = 0
      BY <3>2, FS_EmptySet
    <3>4. Last * 0 = 0 /\ Limits[Last] \in Nat
      BY LimitsType
    <3>5. QED  BY <2>3, <3>3, <3>4 DEF Used, LimitDivided, Last
  <2>4. QED  BY <1>5, <2>2, <2>3 DEF Tick
<1>6. CASE UNCHANGED vars
  <2>1. count \in Nat
    BY DEF TypeOK
  <2>2. \A t \in Requests, i \in 1 .. Last : i =< Done(t)' => i =< Done(t)
    BY <1>6 DEF vars, Done
  <2>3. QED  BY <1>6, <2>1, <2>2, UsedKept DEF vars
<1>7. QED
  BY <1>1, <1>2, <1>3, <1>4, <1>5, <1>6 DEF Next

(* Before the first request nothing is counted.                            *)
LEMMA InitUsed == Init => Used
<1> SUFFICES ASSUME Init PROVE Used
  OBVIOUS
<1>1. Passed = {}
  BY DEF Init, Passed
<1>2. Cardinality(Passed) = 0
  BY <1>1, FS_EmptySet
<1>3. Last * 0 = 0 /\ Limits[Last] \in Nat
  BY LimitsType
<1>4. QED  BY <1>2, <1>3 DEF Init, Used, LimitDivided

(* With several limiters on one counter the last one lets only its limit,  *)
(* divided by their number, pass.                                          *)
THEOREM LimitIsDivided == Spec => []LimitDivided
<1>1. Spec => []Used
  BY InitUsed, StepUsed, InductiveInvariant, PTL DEF Spec
<1>2. Used => LimitDivided
  BY DEF Used
<1>3. QED  BY <1>1, <1>2, PTL
-----------------------------------------------------------------------------
(* The feed cache.                                                         *)
USE FeedAssumption

(* The changes and what excuses each, in step.                             *)
Records == [target : Users, affected : SUBSET Users]
Logs == /\ changes \in Seq(Records) /\ excused \in Seq(SUBSET Fetches)
        /\ Len(excused) = Len(changes)

(* An entry of u's feed that lacks change i is by a fill that i excuses.   *)
Covered(e, u, i) == changes[i].target = u /\ e.asOf < i => e.by \in excused[i]

(* A fill in flight that lacks a change is excused by it as soon as the    *)
(* change is being handled.                                                *)
Begun == handled \cup ({inval} \ {0})
Filling(r) == at[r] = "set" =>
  /\ res[r].by = r
  /\ \A i \in Begun : res[r].asOf < i => r \in excused[i]

(* So what is in the cache lacks no other change that was handled, nor,    *)
(* where the SCAN has been, the one that is being handled.                 *)
Cleared(page) ==
  /\ \A i \in handled : Covered(cache[page], page[1], i)
  /\ inval # 0 /\ page \notin todo => Covered(cache[page], page[1], inval)

Served(r) ==
  /\ known[r] \subseteq handled
  /\ at[r] = "answered" => \A i \in known[r] : Covered(res[r], req[r][1], i)

(* The age of an entry makes up for what is left of its TTL, and a fill    *)
(* starts it with what the fill took.                                      *)
Fresh(page) == cache[page].age + cache[page].left =< TTL + MaxFill
Slow(r) == /\ at[r] = "set" => res[r].age =< MaxFill /\ res[r].left = TTL
           /\ at[r] = "answered" => res[r].age < TTL + MaxFill

CacheInv == /\ FeedTypeOK /\ Logs
            /\ \A r \in Fetches : Filling(r) /\ Served(r) /\ Slow(r)
            /\ \A page \in DOMAIN cache : Cleared(page) /\ Fresh(page)
-----------------------------------------------------------------------------
(* Changes are numbered, and a handled one is one of them.                 *)
LEMMA Numbered ==
  ASSUME CacheInv
  PROVE  /\ Version \in Nat /\ Version =< MaxChanges
         /\ handled \subseteq 1 .. Version /\ inval \in 0 .. Version
         /\ Begun \subseteq 1 .. Version
  <1>1. Version \in Nat
    BY LenProperties DEF CacheInv, Logs, Version
  <1>2. QED  BY <1>1 DEF CacheInv, FeedTypeOK, Begun

(* In the beginning there is nothing to be stale.                          *)
LEMMA InitCached == FeedInit => CacheInv
<1> SUFFICES ASSUME FeedInit PROVE CacheInv
  OBVIOUS
<1>1. DOMAIN cache = {}
  BY DEF FeedInit
<1>2. Logs /\ Version = 0
  BY EmptySeq DEF FeedInit, Logs, Version
<1>3. NoFeed \in Entries
  BY DEF NoFeed, Feed, Entries
<1>4. FeedTypeOK
  BY <1>1, <1>2, <1>3 DEF FeedInit, FeedTypeOK, Pages, Logs, Version
<1>5. ASSUME NEW r \in Fetches PROVE Filling(r) /\ Served(r) /\ Slow(r)
  BY DEF FeedInit, Filling, Served, Slow
<1>6. QED  BY <1>1, <1>2, <1>4, <1>5 DEF CacheInv

(* A new change is not yet handled, and the old ones stay as they are.     *)
LEMMA ChangeCached ==
  ASSUME CacheInv, NEW a \in Users, NEW A \in SUBSET Users, Change(a, A),
         follows' \subseteq Users \X Users
  PROVE  CacheInv'
<1>1. /\ Version \in Nat /\ Version =< MaxChanges
      /\ handled \subseteq 1 .. Version /\ inval \in 0 .. Version
      /\ Begun \subseteq 1 .. Version
  BY Numbered
<1> DEFINE c == [target |-> a, affected |-> A]
<1>2. /\ Version < MaxChanges /\ changes' = Append(changes, c) /\ excused' = Append(excused, {})
      /\ queue' \subseteq queue \cup {Version + 1}
      /\ UNCHANGED <<handled, inval, todo, cache, req, at, res, known>>
  BY DEF Change
<1>3. /\ changes' \in Seq(Records) /\ Version' = Version + 1
      /\ \A i \in 1 .. Version : changes'[i] = changes[i]
      /\ changes'[Version + 1] = c
  <2>1. c \in Records /\ changes \in Seq(Records)
    BY DEF Records, CacheInv, Logs
  <2>2. QED  BY <1>1, <1>2, <2>1, AppendProperties DEF Version
<1>4. /\ excused' \in Seq(SUBSET Fetches) /\ Len(excused') = Version + 1
      /\ \A i \in 1 .. Version : excused'[i] = excused[i]
      /\ excused'[Version + 1] = {}
  <2>1. {} \in SUBSET Fetches /\ excused \in Seq(SUBSET Fetches) /\ Len(excused) = Version
    BY DEF CacheInv, Logs, Version
  <2>2. QED  BY <1>1, <1>2, <2>1, AppendProperties
<1>5. Logs'
  BY <1>3, <1>4 DEF Logs, Version
<1>6. FeedTypeOK'
  <2>1. \A i \in 1 .. Version' : changes'[i] \in Records /\ excused'[i] \in SUBSET Fetches
    BY <1>1, <1>3, <1>4, <1>5, ElementOfSeq DEF Logs, Version
  <2>2. queue' \cup handled' \subseteq 1 .. Version' /\ inval' \in 0 .. Version'
    BY <1>1, <1>2, <1>3 DEF CacheInv, FeedTypeOK
  <2>3. Version' =< MaxChanges /\ Len(excused') = Version'
    BY <1>1, <1>2, <1>3, <1>4
  <2>4. QED  BY <1>2, <2>1, <2>2, <2>3 DEF CacheInv, FeedTypeOK, Records
<1>7. \A i \in Begun : changes'[i] = changes[i] /\ excused'[i] = excused[i]
  BY <1>1, <1>3, <1>4
<1>8. Begun' = Begun
  BY <1>2 DEF Begun
<1>9. ASSUME NEW r \in Fetches PROVE (Filling(r) /\ Served(r) /\ Slow(r))'
  <2>1. Filling(r)'
    BY <1>2, <1>7, <1>8 DEF CacheInv, Filling
  <2>2. Served(r)'
    BY <1>2, <1>7 DEF CacheInv, Served, Covered, Begun
  <2>3. Slow(r)'
    BY <1>2 DEF CacheInv, Slow
  <2>4. QED  BY <2>1, <2>2, <2>3
<1>10. ASSUME NEW page \in DOMAIN cache' PROVE (Cleared(page) /\ Fresh(page))'
  BY <1>2, <1>7 DEF CacheInv, Cleared, Fresh, Covered, Begun
<1>11. QED  BY <1>5, <1>6, <1>9, <1>10 DEF CacheInv

(* What the steps of the consumer and of requests leave alone.             *)
LEMMA SameLogs ==
  ASSUME CacheInv, UNCHANGED <<changes, excused>> PROVE Logs' /\ Version' = Version
  BY DEF CacheInv, Logs, Version

(* The handler starts: whoever is in flight without the change is excused  *)
(* now, and its SCAN is to come to every page of the user.                 *)
LEMMA StartCached == ASSUME CacheInv, NEW i \in queue, StartInvalidation(i) PROVE CacheInv'
<1>1. /\ Version \in Nat /\ handled \subseteq 1 .. Version /\ Begun \subseteq 1 .. Version
      /\ i \in 1 .. Version
  BY Numbered DEF CacheInv, FeedTypeOK
<1>2. /\ inval = 0 /\ inval' = i /\ todo' = {changes[i].target} \X Keys
      /\ UNCHANGED <<follows, changes, queue, handled, cache, req, at, res, known>>
  BY DEF StartInvalidation
<1>3. changes \in Seq(Records) /\ excused \in Seq(SUBSET Fetches) /\ Len(excused) = Version
  BY DEF CacheInv, Logs, Version
<1> DEFINE X == {r \in Fetches : InFlight(r) /\ res[r].asOf < i}
<1>4. /\ excused' \in Seq(SUBSET Fetches) /\ Len(excused') = Version
      /\ \A j \in 1 .. Version : j # i => excused'[j] = excused[j]
      /\ i \in handled => excused'[i] = excused[i]
      /\ i \notin handled => excused'[i] = X
  <2>1. CASE i \in handled
    BY <1>3, <2>1 DEF StartInvalidation
  <2>2. CASE i \notin handled
    <3>1. excused' = [excused EXCEPT ![i] = X] /\ X \in SUBSET Fetches
      BY <2>2 DEF StartInvalidation
    <3>2. DOMAIN excused = 1 .. Version
      BY <1>3, LenProperties
    <3>3. QED  BY <1>1, <1>3, <2>2, <3>1, <3>2, ExceptSeq
  <2>3. QED  BY <2>1, <2>2
<1> HIDE DEF X
<1>5. Logs' /\ Version' = Version
  BY <1>2, <1>3, <1>4 DEF Logs, Version
<1>6. FeedTypeOK'
  <2>1. changes[i] \in Records
    BY <1>1, <1>3, ElementOfSeq DEF Version
  <2>2. todo' \subseteq Pages
    BY <1>2, <2>1 DEF Pages, Records
  <2>3. \A j \in 1 .. Version : excused'[j] \in SUBSET Fetches
    BY <1>4, ElementOfSeq
  <2>4. QED  BY <1>1, <1>2, <1>4, <1>5, <2>2, <2>3 DEF CacheInv, FeedTypeOK
<1>7. \A j \in handled : excused'[j] = excused[j]
  BY <1>1, <1>4
<1>8. Begun' = handled \cup {i}
  BY <1>1, <1>2 DEF Begun
<1>9. ASSUME NEW r \in Fetches PROVE (Filling(r) /\ Served(r) /\ Slow(r))'
  <2>1. Filling(r)'
    <3> SUFFICES ASSUME at[r] = "set", NEW j \in handled \cup {i}, res[r].asOf < j
                 PROVE  r \in excused'[j]
      BY <1>2, <1>8 DEF CacheInv, Filling
    <3>1. CASE j \in handled
      BY <1>7, <3>1 DEF CacheInv, Filling, Begun
    <3>2. CASE j \notin handled
      BY <1>4, <3>2 DEF X, InFlight
    <3>3. QED  BY <3>1, <3>2
  <2>2. Served(r)'
    BY <1>2, <1>7 DEF CacheInv, Served, Covered
  <2>3. Slow(r)'
    BY <1>2 DEF CacheInv, Slow
  <2>4. QED  BY <2>1, <2>2, <2>3
<1>10. ASSUME NEW page \in DOMAIN cache' PROVE (Cleared(page) /\ Fresh(page))'
  <2>1. page \in Pages /\ Cleared(page) /\ Fresh(page)
    BY <1>2 DEF CacheInv, FeedTypeOK
  <2>2. \A j \in handled : Covered(cache[page], page[1], j)'
    BY <1>2, <1>7, <2>1 DEF Cleared, Covered
  <2>3. page \notin todo' => changes[i].target # page[1]
    BY <1>2, <2>1 DEF Pages
  <2>4. Cleared(page)'
    BY <1>2, <2>2, <2>3 DEF Cleared, Covered
  <2>5. QED  BY <1>2, <2>1, <2>4 DEF Fresh
<1>11. QED  BY <1>5, <1>6, <1>9, <1>10 DEF CacheInv

(* What becomes of the pages, for steps that touch nothing but them and    *)
(* the handler: they go, or the handler is through with them.              *)
LEMMA ConsumerKeeps ==
  ASSUME CacheInv, UNCHANGED <<follows, changes, excused, req, at, res, known>>,
         handled \subseteq handled', Begun' \subseteq Begun,
         queue' \cup handled' \subseteq 1 .. Version, inval' \in 0 .. Version,
         todo' \subseteq Pages,
         DOMAIN cache' \subseteq DOMAIN cache,
         \A page \in DOMAIN cache' : cache'[page] = cache[page],
         \A page \in DOMAIN cache' : Cleared(page)'
  PROVE  CacheInv'
<1>1. Logs' /\ Version' = Version
  BY SameLogs
<1>2. FeedTypeOK'
  BY <1>1 DEF CacheInv, FeedTypeOK
<1>3. ASSUME NEW r \in Fetches PROVE (Filling(r) /\ Served(r) /\ Slow(r))'
  BY DEF CacheInv, Filling, Served, Slow, Covered
<1>4. ASSUME NEW page \in DOMAIN cache' PROVE Fresh(page)'
  BY DEF CacheInv, Fresh
<1>5. QED  BY <1>1, <1>2, <1>3, <1>4 DEF CacheInv

(* A page that SCAN has come to is gone.                                   *)
LEMMA ScanCached == ASSUME CacheInv, NEW page \in Pages, ScanKey(page) PROVE CacheInv'
<1>1. /\ inval # 0 /\ todo' = todo \ {page}
      /\ UNCHANGED <<follows, changes, queue, handled, inval, req, at, res, known, excused>>
  BY DEF ScanKey
<1>2. /\ DOMAIN cache' = DOMAIN cache \ {page}
      /\ \A x \in DOMAIN cache' : cache'[x] = cache[x]
  <2>1. CASE Exists(page)
    BY <2>1 DEF ScanKey, Del
  <2>2. CASE ~ Exists(page)
    BY <2>2 DEF ScanKey, Exists
  <2>3. QED  BY <2>1, <2>2
<1>3. ASSUME NEW x \in DOMAIN cache' PROVE Cleared(x)'
  BY <1>1, <1>2 DEF CacheInv, Cleared, Covered
<1>4. Begun' = Begun
  BY <1>1 DEF Begun
<1>5. /\ queue' \cup handled' \subseteq 1 .. Version /\ inval' \in 0 .. Version
      /\ todo' \subseteq Pages
  BY <1>1 DEF CacheInv, FeedTypeOK
<1>6. QED  BY <1>1, <1>2, <1>3, <1>4, <1>5, ConsumerKeeps

(* When it has been everywhere, no page lacks the change.                  *)
LEMMA EndCached == ASSUME CacheInv, EndInvalidation PROVE CacheInv'
<1>1. /\ inval # 0 /\ todo = {} /\ handled' = handled \cup {inval} /\ inval' = 0
      /\ queue' \subseteq queue
      /\ UNCHANGED <<follows, changes, todo, cache, req, at, res, known, excused>>
  BY DEF EndInvalidation
<1>2. ASSUME NEW x \in DOMAIN cache' PROVE Cleared(x)'
  BY <1>1 DEF CacheInv, Cleared, Covered
<1>3. Begun' \subseteq Begun
  BY <1>1 DEF Begun
<1>4. /\ Version \in Nat /\ inval \in 1 .. Version /\ handled \subseteq 1 .. Version
      /\ queue \subseteq 1 .. Version /\ todo \subseteq Pages
  BY <1>1, Numbered DEF CacheInv, FeedTypeOK
<1>5. queue' \cup handled' \subseteq 1 .. Version /\ inval' \in 0 .. Version
  BY <1>1, <1>4
<1>6. QED  BY <1>1, <1>2, <1>3, <1>4, <1>5, ConsumerKeeps

(* A handling that fails promises nothing.                                 *)
LEMMA FailCached == ASSUME CacheInv, FailInvalidation PROVE CacheInv'
<1>1. /\ inval' = 0 /\ todo' = {} /\ queue' \subseteq queue
      /\ UNCHANGED <<follows, changes, handled, cache, req, at, res, known, excused>>
  BY DEF FailInvalidation
<1>2. ASSUME NEW x \in DOMAIN cache' PROVE Cleared(x)'
  BY <1>1 DEF CacheInv, Cleared, Covered
<1>3. Begun' \subseteq Begun
  BY <1>1 DEF Begun
<1>4. /\ queue' \cup handled' \subseteq 1 .. Version /\ inval' \in 0 .. Version
      /\ todo' \subseteq Pages
  BY <1>1, Numbered DEF CacheInv, FeedTypeOK
<1>5. QED  BY <1>1, <1>2, <1>3, <1>4, ConsumerKeeps
-----------------------------------------------------------------------------
(* A step of one request that leaves the cache alone.                      *)
LEMMA RequestKeeps ==
  ASSUME CacheInv, NEW r \in Fetches,
         UNCHANGED <<follows, changes, queue, handled, inval, todo, cache, req, excused>>,
         at' \in [Fetches -> {"get", "query", "set", "answered", "failed"}],
         res' \in [Fetches -> Entries], known' \in [Fetches -> SUBSET handled],
         \A s \in Fetches \ {r} : at'[s] = at[s] /\ res'[s] = res[s] /\ known'[s] = known[s],
         (Filling(r) /\ Served(r) /\ Slow(r))'
  PROVE  CacheInv'
<1>1. Logs' /\ Version' = Version
  BY SameLogs
<1>2. known' \in [Fetches -> SUBSET (1 .. MaxChanges)]
  <2>1. handled \subseteq 1 .. MaxChanges
    BY Numbered
  <2>2. QED  BY <2>1
<1>3. FeedTypeOK'
  BY <1>1, <1>2 DEF CacheInv, FeedTypeOK
<1>4. ASSUME NEW s \in Fetches PROVE (Filling(s) /\ Served(s) /\ Slow(s))'
  <2>1. CASE s = r
    BY <2>1
  <2>2. CASE s # r
    BY <2>2 DEF CacheInv, Filling, Served, Slow, Covered, Begun
  <2>3. QED  BY <2>1, <2>2
<1>5. ASSUME NEW page \in DOMAIN cache' PROVE (Cleared(page) /\ Fresh(page))'
  BY DEF CacheInv, Cleared, Fresh, Covered
<1>6. QED  BY <1>1, <1>3, <1>4, <1>5 DEF CacheInv

(* What the functions of a request hold.                                   *)
LEMMA RequestTypes ==
  ASSUME CacheInv
  PROVE  /\ at \in [Fetches -> {"get", "query", "set", "answered", "failed"}]
         /\ res \in [Fetches -> Entries] /\ req \in [Fetches -> Pages]
         /\ known \in [Fetches -> SUBSET handled]
  BY DEF CacheInv, FeedTypeOK, Served

(* A hit answers with a page that lacks nothing it would not be excused    *)
(* for; a miss has everything still to do.                                 *)
LEMMA GetCached == ASSUME CacheInv, NEW r \in Fetches, Get(r) PROVE CacheInv'
<1>1. /\ at[r] = "get" /\ known' = [known EXCEPT ![r] = handled]
      /\ UNCHANGED <<follows, changes, queue, handled, inval, todo, cache, req, excused>>
  BY DEF Get
<1>2. known' \in [Fetches -> SUBSET handled] /\ known'[r] = handled
  BY <1>1, RequestTypes
<1>3. CASE Exists(req[r]) /\ res' = [res EXCEPT ![r] = cache[req[r]]]
           /\ at' = [at EXCEPT ![r] = "answered"]
  <2>1. /\ cache[req[r]] \in Entries /\ Cleared(req[r]) /\ Fresh(req[r])
    BY <1>3 DEF Exists, CacheInv, FeedTypeOK
  <2>2. /\ at' \in [Fetches -> {"get", "query", "set", "answered", "failed"}]
        /\ res' \in [Fetches -> Entries] /\ at'[r] = "answered" /\ res'[r] = cache[req[r]]
    BY <1>3, <2>1, RequestTypes
  <2>3. Filling(r)' /\ Served(r)'
    BY <1>1, <1>2, <2>1, <2>2 DEF Filling, Served, Cleared, Covered
  <2>4. Slow(r)'
    BY <2>1, <2>2 DEF Slow, Fresh, Entries
  <2>5. \A s \in Fetches \ {r} : at'[s] = at[s] /\ res'[s] = res[s] /\ known'[s] = known[s]
    BY <1>1, <1>3
  <2>6. QED  BY <1>1, <1>2, <2>2, <2>3, <2>4, <2>5, RequestKeeps
<1>4. CASE at' = [at EXCEPT ![r] = "query"] /\ UNCHANGED res
  <2>1. /\ at' \in [Fetches -> {"get", "query", "set", "answered", "failed"}]
        /\ res' \in [Fetches -> Entries] /\ at'[r] = "query"
    BY <1>4, RequestTypes
  <2>2. (Filling(r) /\ Served(r) /\ Slow(r))'
    BY <1>1, <1>2, <2>1 DEF Filling, Served, Slow
  <2>3. \A s \in Fetches \ {r} : at'[s] = at[s] /\ res'[s] = res[s] /\ known'[s] = known[s]
    BY <1>1, <1>4
  <2>4. QED  BY <1>1, <1>2, <2>1, <2>2, <2>3, RequestKeeps
<1>5. QED  BY <1>3, <1>4 DEF Get

(* Postgres has every change there is.                                     *)
LEMMA QueryCached == ASSUME CacheInv, NEW r \in Fetches, Query(r) PROVE CacheInv'
<1>1. /\ res' = [res EXCEPT ![r] = Feed(Version, r)] /\ at' = [at EXCEPT ![r] = "set"]
      /\ UNCHANGED <<follows, changes, queue, handled, inval, todo, cache, req, known, excused>>
  BY DEF Query
<1>2. /\ Feed(Version, r) \in Entries /\ Feed(Version, r).by = r
      /\ Feed(Version, r).asOf = Version /\ Feed(Version, r).age = 0
      /\ Feed(Version, r).left = TTL
  BY Numbered DEF Feed, Entries
<1>3. /\ at' \in [Fetches -> {"get", "query", "set", "answered", "failed"}]
      /\ res' \in [Fetches -> Entries] /\ at'[r] = "set" /\ res'[r] = Feed(Version, r)
      /\ known' \in [Fetches -> SUBSET handled]
  BY <1>1, <1>2, RequestTypes
<1>4. Filling(r)'
  <2>1. Begun' = Begun /\ \A i \in Begun : ~ (Version < i)
    BY <1>1, Numbered DEF Begun
  <2>2. QED  BY <1>2, <1>3, <2>1 DEF Filling
<1>5. Served(r)' /\ Slow(r)'
  BY <1>1, <1>2, <1>3, RequestTypes DEF Served, Slow
<1>6. \A s \in Fetches \ {r} : at'[s] = at[s] /\ res'[s] = res[s] /\ known'[s] = known[s]
  BY <1>1
<1>7. QED  BY <1>1, <1>3, <1>4, <1>5, <1>6, RequestKeeps

(* The race: what SET writes may lack a change that was handled since, but *)
(* then the request is excused.                                            *)
LEMMA SetCached == ASSUME CacheInv, NEW r \in Fetches, Set(r) PROVE CacheInv'
<1>1. /\ at[r] = "set" /\ at' = [at EXCEPT ![r] = "answered"]
      /\ UNCHANGED <<follows, changes, queue, handled, inval, todo, req, res, known, excused>>
  BY DEF Set
<1>2. /\ res[r] \in Entries /\ res[r].by = r /\ res[r].age =< MaxFill /\ res[r].left = TTL
      /\ \A i \in Begun : res[r].asOf < i => r \in excused[i]
  BY <1>1, RequestTypes DEF CacheInv, Filling, Slow
<1>3. \A i \in Begun, u \in Users : Covered(res[r], u, i)
  BY <1>2 DEF Covered
<1>4. /\ DOMAIN cache' \subseteq DOMAIN cache \cup {req[r]}
      /\ \A x \in DOMAIN cache' :
           \/ x \in DOMAIN cache /\ cache'[x] = cache[x]
           \/ x = req[r] /\ cache'[x] = res[r]
  <2>1. CASE UNCHANGED cache
    BY <2>1
  <2>2. CASE cache' = [x \in DOMAIN cache \cup {req[r]} |->
                         IF x = req[r] THEN res[r] ELSE cache[x]]
    BY <2>2
  <2>3. QED  BY <2>1, <2>2 DEF Set
<1>5. Logs' /\ Version' = Version
  BY <1>1, SameLogs
<1>6. FeedTypeOK'
  <2>1. at' \in [Fetches -> {"get", "query", "set", "answered", "failed"}]
    BY <1>1, RequestTypes
  <2>2. DOMAIN cache' \subseteq Pages /\ \A x \in DOMAIN cache' : cache'[x] \in Entries
    BY <1>2, <1>4, RequestTypes DEF CacheInv, FeedTypeOK
  <2>3. QED  BY <1>1, <1>5, <2>1, <2>2 DEF CacheInv, FeedTypeOK
<1>7. ASSUME NEW s \in Fetches PROVE (Filling(s) /\ Served(s) /\ Slow(s))'
  <2>1. CASE s = r
    <3>1. at'[r] = "answered" /\ known[r] \subseteq handled
      BY <1>1, RequestTypes
    <3>2. Served(r)'
      BY <1>1, <1>2, <3>1 DEF Served, Covered, Begun
    <3>3. Filling(r)' /\ Slow(r)'
      BY <1>1, <1>2, <3>1 DEF Filling, Slow, Entries
    <3>4. QED  BY <2>1, <3>2, <3>3
  <2>2. CASE s # r
    BY <1>1, <2>2 DEF CacheInv, Filling, Served, Slow, Covered, Begun
  <2>3. QED  BY <2>1, <2>2
<1>8. ASSUME NEW page \in DOMAIN cache' PROVE (Cleared(page) /\ Fresh(page))'
  <2>1. CASE page \in DOMAIN cache /\ cache'[page] = cache[page]
    BY <1>1, <2>1 DEF CacheInv, Cleared, Fresh, Covered
  <2>2. CASE page = req[r] /\ cache'[page] = res[r]
    <3>1. Cleared(page)'
      BY <1>1, <1>2, <2>2 DEF Cleared, Covered, Begun
    <3>2. Fresh(page)'
      BY <1>2, <2>2 DEF Fresh, Entries
    <3>3. QED  BY <3>1, <3>2
  <2>3. QED  BY <1>4, <2>1, <2>2
<1>9. QED  BY <1>5, <1>6, <1>7, <1>8 DEF CacheInv

(* Whoever gives up answers nothing.                                       *)
LEMMA GiveUpCached == ASSUME CacheInv, NEW r \in Fetches, GiveUp(r) PROVE CacheInv'
<1>1. /\ at' = [at EXCEPT ![r] = "failed"]
      /\ UNCHANGED <<follows, changes, queue, handled, inval, todo, cache, req, res, known, excused>>
  BY DEF GiveUp
<1>2. /\ at' \in [Fetches -> {"get", "query", "set", "answered", "failed"}] /\ at'[r] = "failed"
      /\ res' \in [Fetches -> Entries] /\ known' \in [Fetches -> SUBSET handled]
  BY <1>1, RequestTypes
<1>3. (Filling(r) /\ Served(r) /\ Slow(r))'
  BY <1>1, <1>2 DEF Filling, Served, Slow
<1>4. \A s \in Fetches \ {r} : at'[s] = at[s] /\ res'[s] = res[s] /\ known'[s] = known[s]
  BY <1>1
<1>5. QED  BY <1>1, <1>2, <1>3, <1>4, RequestKeeps

(* An entry that gets older keeps its content, and its age grows by what   *)
(* its time to live loses.                                                 *)
LEMMA OlderEntry ==
  ASSUME NEW e \in Entries, NEW t \in {0, 1}
  PROVE  /\ Older(e, t).asOf = e.asOf /\ Older(e, t).by = e.by
         /\ Older(e, t).age = e.age + 1 /\ Older(e, t).left = e.left - t
         /\ e.age < TTL + MaxFill /\ e.left > t => Older(e, t) \in Entries
<1>1. Older(e, t).asOf = e.asOf /\ Older(e, t).by = e.by
  BY DEF Older, Entries
<1>2. Older(e, t).age = e.age + 1
  BY DEF Older, Entries
<1>3. Older(e, t).left = e.left - t
  BY DEF Older, Entries
<1>4. ASSUME e.age < TTL + MaxFill, e.left > t PROVE Older(e, t) \in Entries
  <2>1. e.age + 1 \in 0 .. TTL + MaxFill /\ e.left - t \in 1 .. TTL
    BY <1>4 DEF Entries
  <2>2. QED  BY <2>1 DEF Older, Entries
<1>5. QED  BY <1>1, <1>2, <1>3, <1>4

(* Time: entries age towards the end of their TTL, fills towards their     *)
(* deadline.                                                               *)
LEMMA TickCached == ASSUME CacheInv, Elapse PROVE CacheInv'
<1>1. /\ \A r \in Fetches : InFlight(r) => res[r].age < MaxFill
      /\ cache' = [x \in {y \in DOMAIN cache : cache[y].left > 1} |-> Older(cache[x], 1)]
      /\ res' = [r \in Fetches |-> IF InFlight(r) THEN Older(res[r], 0) ELSE res[r]]
      /\ UNCHANGED <<follows, changes, queue, handled, inval, todo, req, at, known, excused>>
  BY DEF Elapse
<1>2. Logs' /\ Version' = Version
  BY <1>1, SameLogs
<1>3. ASSUME NEW page \in DOMAIN cache'
      PROVE  /\ page \in DOMAIN cache /\ page \in Pages
             /\ cache'[page] \in Entries
             /\ cache'[page].asOf = cache[page].asOf /\ cache'[page].by = cache[page].by
             /\ cache'[page].age + cache'[page].left =< TTL + MaxFill
  <2>1. /\ page \in DOMAIN cache /\ cache[page].left > 1 /\ cache'[page] = Older(cache[page], 1)
    BY <1>1
  <2>2. page \in Pages /\ cache[page] \in Entries /\ Fresh(page)
    BY <2>1 DEF CacheInv, FeedTypeOK
  <2>3. /\ cache[page].age \in Nat /\ cache[page].left \in Nat
        /\ cache[page].age + cache[page].left =< TTL + MaxFill
    BY <2>2 DEF Fresh, Entries
  <2>4. cache[page].age < TTL + MaxFill
    BY <2>1, <2>3
  <2>5. QED  BY <2>1, <2>2, <2>3, <2>4, OlderEntry
<1>4. ASSUME NEW r \in Fetches
      PROVE  /\ res'[r] \in Entries /\ res'[r].asOf = res[r].asOf /\ res'[r].by = res[r].by
             /\ Slow(r)'
  <2>1. res[r] \in Entries
    BY RequestTypes
  <2>2. CASE InFlight(r)
    <3>1. /\ res'[r] = Older(res[r], 0) /\ res[r].age < MaxFill /\ at'[r] = "set"
          /\ res[r].left = TTL /\ res[r].age \in Nat
      BY <1>1, <2>1, <2>2 DEF CacheInv, Slow, InFlight, Entries
    <3>2. res[r].age < TTL + MaxFill /\ res[r].left > 0
      BY <3>1
    <3>3. /\ Older(res[r], 0) \in Entries /\ Older(res[r], 0).asOf = res[r].asOf
          /\ Older(res[r], 0).by = res[r].by
          /\ Older(res[r], 0).age = res[r].age + 1 /\ Older(res[r], 0).left = res[r].left - 0
      BY <2>1, <3>2, OlderEntry
    <3>4. QED  BY <3>1, <3>3 DEF Slow
  <2>3. CASE ~ InFlight(r)
    BY <1>1, <2>1, <2>3 DEF CacheInv, Slow
  <2>4. QED  BY <2>2, <2>3
<1>5. FeedTypeOK'
  <2>1. res' \in [Fetches -> Entries]
    BY <1>1, <1>4
  <2>2. DOMAIN cache' \subseteq Pages /\ \A x \in DOMAIN cache' : cache'[x] \in Entries
    BY <1>3
  <2>3. QED  BY <1>1, <1>2, <2>1, <2>2 DEF CacheInv, FeedTypeOK
<1>6. ASSUME NEW r \in Fetches PROVE (Filling(r) /\ Served(r))'
  BY <1>1, <1>4 DEF CacheInv, Filling, Served, Covered, Begun
<1>7. ASSUME NEW page \in DOMAIN cache' PROVE (Cleared(page) /\ Fresh(page))'
  BY <1>1, <1>3 DEF CacheInv, Cleared, Fresh, Covered
<1>8. QED  BY <1>2, <1>4, <1>5, <1>6, <1>7 DEF CacheInv
-----------------------------------------------------------------------------
(* Whatever happens next keeps the invariant.                              *)
LEMMA NextCached == CacheInv /\ [FeedNext]_feedVars => CacheInv'
<1> SUFFICES ASSUME CacheInv, [FeedNext]_feedVars PROVE CacheInv'
  OBVIOUS
<1>1. CASE \E a \in Users : ChangePosts(a) \/ \E u \in Users : ToggleFollow(u, a)
  <2>1. PICK a \in Users : ChangePosts(a) \/ \E u \in Users : ToggleFollow(u, a)
    BY <1>1
  <2>2. follows \subseteq Users \X Users
    BY DEF CacheInv, FeedTypeOK
  <2>3. CASE ChangePosts(a)
    <3> DEFINE A == {a} \cup {u \in Users : <<u, a>> \in follows}
    <3>1. Change(a, A) /\ follows' \subseteq Users \X Users /\ A \in SUBSET Users
      BY <2>2, <2>3 DEF ChangePosts
    <3>2. QED  BY <3>1, ChangeCached
  <2>4. ASSUME NEW u \in Users, ToggleFollow(u, a) PROVE CacheInv'
    <3>1. Change(u, {u}) /\ follows' \subseteq Users \X Users
      BY <2>2, <2>4 DEF ToggleFollow
    <3>2. QED  BY <3>1, ChangeCached
  <2>5. QED  BY <2>1, <2>3, <2>4
<1>2. CASE \E i \in queue : StartInvalidation(i)
  BY <1>2, StartCached
<1>3. CASE \E page \in Pages : ScanKey(page)
  BY <1>3, ScanCached
<1>4. CASE EndInvalidation \/ FailInvalidation
  BY <1>4, EndCached, FailCached
<1>5. CASE \E r \in Fetches : Get(r) \/ Query(r) \/ Set(r) \/ GiveUp(r)
  BY <1>5, GetCached, QueryCached, SetCached, GiveUpCached
<1>6. CASE Elapse
  BY <1>6, TickCached
<1>7. CASE UNCHANGED feedVars
  <2>1. Logs' /\ Version' = Version
    BY <1>7, SameLogs DEF feedVars
  <2>2. FeedTypeOK'
    BY <1>7, <2>1 DEF feedVars, CacheInv, FeedTypeOK
  <2>3. \A r \in Fetches : (Filling(r) /\ Served(r) /\ Slow(r))'
    BY <1>7 DEF feedVars, CacheInv, Filling, Served, Slow, Covered, Begun
  <2>4. \A page \in DOMAIN cache' : (Cleared(page) /\ Fresh(page))'
    BY <1>7 DEF feedVars, CacheInv, Cleared, Fresh, Covered
  <2>5. QED  BY <2>1, <2>2, <2>3, <2>4 DEF CacheInv
<1>8. QED  BY <1>1, <1>2, <1>3, <1>4, <1>5, <1>6, <1>7 DEF FeedNext

(* The cache's inductive invariant.                                        *)
THEOREM CacheInvariant == FeedSpec => []CacheInv
  BY InitCached, NextCached, PTL DEF FeedSpec

(* Types of the cache, the consumer and the requests.                      *)
THEOREM CacheTypeCorrect == FeedSpec => []FeedTypeOK
<1>1. CacheInv => FeedTypeOK
  BY DEF CacheInv
<1>2. QED  BY <1>1, CacheInvariant, PTL

(* An answer that lacks a change handled before its request came in is by  *)
(* a fill that was in flight when the handler started.                     *)
THEOREM StaleByRaceOnly == FeedSpec => []StaleOnlyByRace
<1>1. CacheInv => StaleOnlyByRace
  BY DEF CacheInv, Served, Covered, StaleOnlyByRace
<1>2. QED  BY <1>1, CacheInvariant, PTL

(* No answer is older than a TTL on top of the slowest fill.               *)
THEOREM AnswersAreRecent == FeedSpec => []AnswersRecent
<1>1. CacheInv => AnswersRecent
  BY DEF CacheInv, Slow, AnswersRecent
<1>2. QED  BY <1>1, CacheInvariant, PTL
=============================================================================
