------------------------------ MODULE RateLimiter ------------------------------
(***************************************************************************)
(* pkg/middleware/rate-limiting.go: a fixed-window counter in Redis, INCR  *)
(* and then, by the request that read 1, EXPIRE.  The api-gateway puts one *)
(* limiter on /api and a second one on register, login and refresh; both   *)
(* run before authentication and name their counter by route and client    *)
(* address, so the limiters a request passes share one counter.  This      *)
(* module is that counter: Limits[i] is the limit of the i-th limiter.     *)
(*                                                                         *)
(* Time is counted in ticks, a window is Window of them.  Above the        *)
(* largest limit all counts are answered alike: the counter stops at Top.  *)
(***************************************************************************)
EXTENDS Integers, Sequences, FiniteSets

CONSTANTS
  Requests,  \* requests in progress at one time; a slot is used again and again
  Limits,    \* the limits on this route, in the order they are applied
  Window,    \* ticks until EXPIRE removes the counter
  Top        \* where the count saturates

ASSUME LimitsAssumption ==
  /\ Limits \in Seq(Nat \ {0}) /\ Limits # <<>>
  /\ Top \in Nat /\ \A i \in DOMAIN Limits : Limits[i] < Top
ASSUME WindowAssumption == Window \in Nat \ {0}
ASSUME FiniteAssumption == IsFiniteSet(Requests)

Forever == Window + 1    \* the TTL of a key without one
Last == Len(Limits)

VARIABLES
  count,   \* value of the key, 0 when there is none
  ttl,     \* ticks left to the key, or Forever
  layer,   \* the limiter a request is at, 0 outside the limiters
  owes,    \* requests that read 1 and have not sent EXPIRE
  local,   \* requests that were counted by every limiter so far, by this key
  counted, \* requests the last limiter counted and let pass, by this key
  whole,   \* those of them that are local
  leaked   \* the EXPIRE of this key was lost

vars == <<count, ttl, layer, owes, local, counted, whole, leaked>>

Idle(r) == layer[r] = 0
At(r) == layer[r] > 0 /\ r \notin owes
Successor(i) == IF i < Last THEN i + 1 ELSE 0
-----------------------------------------------------------------------------
Init ==
  /\ count = 0
  /\ ttl = Forever
  /\ layer = [r \in Requests |-> 0]
  /\ owes = {} /\ local = {}
  /\ counted = 0 /\ whole = 0
  /\ leaked = FALSE

(* A client's request reaches the first limiter.                           *)
Arrive(r) ==
  /\ Idle(r)
  /\ layer' = [layer EXCEPT ![r] = 1]
  /\ local' = local \cup {r}
  /\ UNCHANGED <<count, ttl, owes, counted, whole, leaked>>

(* What a limiter does with the count it got; n = 1 is never above a limit. *)
Judge(r, n, limit) ==
  IF n > limit
    THEN layer' = [layer EXCEPT ![r] = 0] /\ UNCHANGED <<owes, counted, whole>>
    ELSE /\ IF n = 1
              THEN owes' = owes \cup {r} /\ UNCHANGED layer
              ELSE layer' = [layer EXCEPT ![r] = Successor(@)] /\ UNCHANGED owes
         /\ counted' = counted + (IF layer[r] = Last THEN 1 ELSE 0)
         /\ whole' = whole + (IF layer[r] = Last /\ r \in local THEN 1 ELSE 0)

Up(n) == IF n < Top THEN n + 1 ELSE Top

(* Mutants: one request too many; the later limiters do not store theirs;  *)
(* every request renews the window.                                         *)
IncrOneMore(r) ==
  /\ At(r)
  /\ count' = Up(count)
  /\ Judge(r, count', Limits[layer[r]] + 1)
  /\ UNCHANGED <<ttl, local, leaked>>

IncrOnce(r) ==
  /\ At(r)
  /\ count' = IF layer[r] = 1 \/ count = 0 THEN Up(count) ELSE count
  /\ Judge(r, Up(count), Limits[layer[r]])
  /\ UNCHANGED <<ttl, local, leaked>>

IncrRenews(r) ==
  /\ At(r)
  /\ count' = Up(count)
  /\ ttl' = IF ttl = Forever THEN ttl ELSE Window
  /\ Judge(r, count', Limits[layer[r]])
  /\ UNCHANGED <<local, leaked>>

(* INCR, which makes the key if need be, and the comparison.               *)
Incr(r) ==
  /\ At(r)
  /\ count' = Up(count)
  /\ Judge(r, count', Limits[layer[r]])
  /\ UNCHANGED <<ttl, local, leaked>>

(* INCR returns an error, whether or not Redis did it (the client of the   *)
(* API may have left, which cancels the request's context): c.Next().      *)
IncrFails(r) ==
  /\ At(r)
  /\ \/ UNCHANGED <<count, leaked>>
     \/ count' = Up(count) /\ leaked' = (leaked \/ count = 0)
  /\ layer' = [layer EXCEPT ![r] = Successor(@)]
  /\ local' = local \ {r}
  /\ UNCHANGED <<ttl, owes, counted, whole>>

(* Mutant: EXPIRE sent ahead of INCR, when there is no key to expire.      *)
SetExpiryFirst(r) ==
  /\ r \in owes
  /\ owes' = owes \ {r}
  /\ layer' = [layer EXCEPT ![r] = Successor(@)]
  /\ UNCHANGED <<count, ttl, local, counted, whole, leaked>>

(* EXPIRE, by the request that read 1, which then goes on.                 *)
SetExpiry(r) ==
  /\ r \in owes
  /\ ttl' = Window
  /\ owes' = owes \ {r}
  /\ layer' = [layer EXCEPT ![r] = Successor(@)]
  /\ UNCHANGED <<count, local, counted, whole, leaked>>

(* Its error is discarded, or the gateway stops before it is sent.         *)
LoseExpiry(r) ==
  /\ r \in owes
  /\ leaked' = TRUE
  /\ owes' = owes \ {r}
  /\ layer' = [layer EXCEPT ![r] = Successor(@)]
  /\ UNCHANGED <<count, ttl, local, counted, whole>>

(* Time passes; at the end of its window the key is gone, and with it the  *)
(* history of this key.                                                    *)
Tick ==
  /\ ttl # Forever
  /\ IF ttl > 1
       THEN ttl' = ttl - 1 /\ UNCHANGED <<count, local, counted, whole, leaked>>
       ELSE /\ count' = 0 /\ ttl' = Forever
            /\ local' = {r \in local : layer[r] =< 1}
            /\ counted' = 0 /\ whole' = 0 /\ leaked' = FALSE
  /\ UNCHANGED <<layer, owes>>

Next ==
  \/ \E r \in Requests : Arrive(r) \/ Incr(r) \/ IncrFails(r) \/ SetExpiry(r) \/ LoseExpiry(r)
  \/ Tick

(* The goroutine of a request goes on, and time passes.                    *)
Fairness == WF_vars(Tick) /\ \A r \in Requests : WF_vars(SetExpiry(r) \/ LoseExpiry(r))

Spec == Init /\ [][Next]_vars /\ Fairness
-----------------------------------------------------------------------------
(* Types; an absent key has no TTL, and only one request owes an EXPIRE.   *)
TypeOK ==
  /\ count \in 0 .. Top
  /\ ttl \in 1 .. Forever
  /\ count = 0 => ttl = Forever
  /\ layer \in [Requests -> 0 .. Last]
  /\ owes \subseteq Requests /\ local \subseteq Requests
  /\ \A r, s \in owes : r = s
  /\ counted \in Nat /\ whole \in 0 .. counted
  /\ leaked \in BOOLEAN

(* Between two expiries of the key the last limiter counts in no more      *)
(* requests than its limit, however they interleave with the window's end. *)
LimitKept == counted =< Limits[Last]

(* The limiters of a route share the counter, so a request that passes all *)
(* of them uses it up once per limiter: with two limiters, register and    *)
(* login admit half of the number the code gives.                          *)
LimitDivided == Last * whole =< Limits[Last]

(* A counter without a TTL, which locks the client out for good once it is *)
(* above the limit, is always the trace of a lost EXPIRE (or of an INCR    *)
(* whose answer was lost): no interleaving of requests leaves one behind.  *)
LockoutOnlyByLeak == count > 0 /\ ttl = Forever => owes # {} \/ leaked

(* A client above the limit is let in again, requests it goes on sending   *)
(* notwithstanding, unless the EXPIRE was lost.                            *)
WindowReopens == count > Limits[Last] ~> (count = 0 \/ leaked)
=============================================================================
