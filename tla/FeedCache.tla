------------------------------ MODULE FeedCache ------------------------------
(***************************************************************************)
(* The home-feed cache of feed-service: GetHomeFeed fills Redis, the       *)
(* consumer of feed-service.cache-invalidation empties it, the TTL expires *)
(* it, and content-service changes the posts and follows underneath.       *)
(*                                                                         *)
(* What a feed says is abstracted to when Postgres was asked: the number   *)
(* of changes made by then (asOf) and the time since (age).  Change i      *)
(* touches the feeds of changes[i].affected and publishes event i, whose   *)
(* handler clears the feeds of changes[i].target.                          *)
(***************************************************************************)
EXTENDS Integers, Sequences, FiniteSets

CONSTANTS Users,
          Keys,         \* the pages (limit and cursor) of a user's feed
          Fetches,      \* GetHomeFeed calls
          TTL,          \* the 60 s of main.go, in ticks
          MaxFill,      \* the gateway's 3 s deadline, in ticks
          MaxChanges    \* bound on changes made by content-service

ASSUME FeedAssumption == TTL \in Nat \ {0} /\ MaxFill \in Nat /\ MaxChanges \in Nat

VARIABLES
  follows,   \* follower, followed
  changes,   \* the changes so far: [target, affected]
  queue,     \* events waiting for the consumer
  handled,   \* events whose handler has succeeded
  inval,     \* the event being handled, 0 if none
  todo,      \* the keys its SCAN has still to come to
  cache,     \* Redis: key to entry, for the keys that exist
  req,       \* the page each request is for
  at,        \* where its handler is
  res,       \* the response it has built or found
  known,     \* the events already handled when the request came in
  excused    \* excused[i]: fills in flight when event i was handled

feedVars == <<follows, changes, queue, handled, inval, todo, cache, req, at, res, known, excused>>

Pages == Users \X Keys
Version == Len(changes)
Feed(n, r) == [asOf |-> n, age |-> 0, left |-> TTL, by |-> r]
NoFeed == Feed(0, "nobody")
Exists(page) == page \in DOMAIN cache
Del(page) == cache' = [x \in DOMAIN cache \ {page} |-> cache[x]]
-----------------------------------------------------------------------------
FeedInit ==
  /\ follows \in SUBSET {f \in Users \X Users : f[1] # f[2]}
  /\ changes = <<>>
  /\ queue = {} /\ handled = {} /\ inval = 0 /\ todo = {}
  /\ cache = [x \in {} |-> NoFeed]
  /\ req \in [Fetches -> Pages]
  /\ at = [r \in Fetches |-> "get"]
  /\ res = [r \in Fetches |-> NoFeed]
  /\ known = [r \in Fetches |-> {}]
  /\ excused = <<>>

(* A change is committed; its event is published, or lost (publishEvent    *)
(* only logs).                                                             *)
Change(target, affected) ==
  /\ Version < MaxChanges
  /\ changes' = Append(changes, [target |-> target, affected |-> affected])
  /\ excused' = Append(excused, {})
  /\ queue' \in {queue, queue \cup {Version + 1}}
  /\ UNCHANGED <<handled, inval, todo, cache, req, at, res, known>>

(* CreatePost, DeletePost: the event names the author.                     *)
ChangePosts(a) ==
  /\ Change(a, {a} \cup {u \in Users : <<u, a>> \in follows})
  /\ UNCHANGED follows

(* FollowUser, UnfollowUser: the event names the actor.                    *)
ToggleFollow(u, a) ==
  /\ u # a
  /\ Change(u, {u})
  /\ follows' = IF <<u, a>> \in follows THEN follows \ {<<u, a>>} ELSE follows \cup {<<u, a>>}

InFlight(r) == at[r] = "set"

(* handleEvent: DeleteHomeFeedByUserID starts its SCAN.                    *)
StartInvalidation(i) ==
  /\ inval = 0 /\ i \in queue
  /\ inval' = i /\ todo' = {changes[i].target} \X Keys
  /\ excused' = IF i \in handled THEN excused
                ELSE [excused EXCEPT ![i] = {r \in Fetches : InFlight(r) /\ res[r].asOf < i}]
  /\ UNCHANGED <<follows, changes, queue, handled, cache, req, at, res, known>>

(* SCAN comes to a key and DEL removes it, if it is there by then.         *)
ScanKey(page) ==
  /\ inval # 0 /\ page \in todo
  /\ todo' = todo \ {page}
  /\ IF Exists(page) THEN Del(page) ELSE UNCHANGED cache
  /\ UNCHANGED <<follows, changes, queue, handled, inval, req, at, res, known, excused>>

(* Mutant: the handler returns after the first key. *)
EndInvalidationEarly ==
  /\ inval # 0
  /\ handled' = handled \cup {inval}
  /\ inval' = 0 /\ todo' = {}
  /\ queue' \in {queue, queue \ {inval}}
  /\ UNCHANGED <<follows, changes, cache, req, at, res, known, excused>>

(* The handler is through; the Ack may be lost, and the event comes again. *)
EndInvalidation ==
  /\ inval # 0 /\ todo = {}
  /\ handled' = handled \cup {inval}
  /\ inval' = 0
  /\ queue' \in {queue, queue \ {inval}}
  /\ UNCHANGED <<follows, changes, todo, cache, req, at, res, known, excused>>

(* Redis fails under it: retried, or a dead letter after MaxRetries.       *)
FailInvalidation ==
  /\ inval # 0
  /\ inval' = 0 /\ todo' = {}
  /\ queue' \in {queue, queue \ {inval}}
  /\ UNCHANGED <<follows, changes, handled, cache, req, at, res, known, excused>>

(* GET: a hit is the answer; a miss and any error go on to Postgres.       *)
Get(r) ==
  /\ at[r] = "get"
  /\ known' = [known EXCEPT ![r] = handled]
  /\ \/ /\ Exists(req[r])
        /\ res' = [res EXCEPT ![r] = cache[req[r]]]
        /\ at' = [at EXCEPT ![r] = "answered"]
     \/ at' = [at EXCEPT ![r] = "query"] /\ UNCHANGED res
  /\ UNCHANGED <<follows, changes, queue, handled, inval, todo, cache, req, excused>>

Query(r) ==
  /\ at[r] = "query"
  /\ res' = [res EXCEPT ![r] = Feed(Version, r)]
  /\ at' = [at EXCEPT ![r] = "set"]
  /\ UNCHANGED <<follows, changes, queue, handled, inval, todo, cache, req, known, excused>>

(* SET with the TTL; if it fails the response is sent all the same.        *)
Set(r) ==
  /\ at[r] = "set"
  /\ \/ cache' = [x \in DOMAIN cache \cup {req[r]} |-> IF x = req[r] THEN res[r] ELSE cache[x]]
     \/ UNCHANGED cache
  /\ at' = [at EXCEPT ![r] = "answered"]
  /\ UNCHANGED <<follows, changes, queue, handled, inval, todo, req, res, known, excused>>

(* The query fails, or the gateway's deadline cancels the context.         *)
GiveUp(r) ==
  /\ at[r] \in {"get", "query", "set"}
  /\ at' = [at EXCEPT ![r] = "failed"]
  /\ UNCHANGED <<follows, changes, queue, handled, inval, todo, cache, req, res, known, excused>>

(* Mutant: SET without an expiry. *)
OlderForever(e, ticking) == [e EXCEPT !.age = @ + 1]

(* Time passes: entries age and expire; no fill outlives its deadline.     *)
Older(e, ticking) == [e EXCEPT !.age = @ + 1, !.left = @ - ticking]
Elapse ==
  /\ \A r \in Fetches : InFlight(r) => res[r].age < MaxFill
  /\ cache' = [x \in {y \in DOMAIN cache : cache[y].left > 1} |-> Older(cache[x], 1)]
  /\ res' = [r \in Fetches |-> IF InFlight(r) THEN Older(res[r], 0) ELSE res[r]]
  /\ UNCHANGED <<follows, changes, queue, handled, inval, todo, req, at, known, excused>>

FeedNext == \/ \E a \in Users : ChangePosts(a) \/ \E u \in Users : ToggleFollow(u, a)
            \/ \E i \in queue : StartInvalidation(i)
            \/ \E page \in Pages : ScanKey(page)
            \/ EndInvalidation \/ FailInvalidation
            \/ \E r \in Fetches : Get(r) \/ Query(r) \/ Set(r) \/ GiveUp(r)
            \/ Elapse

FeedSpec == FeedInit /\ [][FeedNext]_feedVars
-----------------------------------------------------------------------------
Entries == [asOf : 0 .. MaxChanges, age : 0 .. TTL + MaxFill, left : 1 .. TTL,
            by : Fetches \cup {"nobody"}]

(* Types.  Every event in the queue is that of a change already committed. *)
FeedTypeOK ==
  /\ follows \subseteq Users \X Users
  /\ Version =< MaxChanges /\ Len(excused) = Version
  /\ \A i \in 1 .. Version : /\ changes[i] \in [target : Users, affected : SUBSET Users]
                             /\ excused[i] \subseteq Fetches
  /\ queue \cup handled \subseteq 1 .. Version
  /\ inval \in 0 .. Version /\ todo \subseteq Pages
  /\ DOMAIN cache \subseteq Pages /\ \A page \in DOMAIN cache : cache[page] \in Entries
  /\ req \in [Fetches -> Pages]
  /\ at \in [Fetches -> {"get", "query", "set", "answered", "failed"}]
  /\ res \in [Fetches -> Entries]
  /\ known \in [Fetches -> SUBSET (1 .. MaxChanges)]

(* An answer misses a change whose event had been handled for this user    *)
(* before the request came in only through the one race there is: a fill   *)
(* that asked Postgres before the change was still in flight when the      *)
(* handler started, and wrote its page afterwards.                         *)
StaleOnlyByRace ==
  \A r \in Fetches : at[r] = "answered" =>
    \A i \in known[r] :
      changes[i].target = req[r][1] /\ res[r].asOf < i => res[r].by \in excused[i]

(* No answer is older than a full TTL on top of the slowest fill, whatever *)
(* events are lost, late or dead-lettered: the bound on what any of the    *)
(* faults of invalidation can do.                                          *)
AnswersRecent == \A r \in Fetches : at[r] = "answered" => res[r].age < TTL + MaxFill

(* README.md: after RabbitMQ's event the feed cache is invalidated and the *)
(* "next request rebuilds cache".                                          *)
NextRequestRebuilds ==
  \A r \in Fetches : at[r] = "answered" =>
    \A i \in known[r] : changes[i].target = req[r][1] => res[r].asOf >= i

(* README.md: "Invalidate affected user feed cache".  Once an event is     *)
(* handled, no page from before it is left of any feed the change touches. *)
AffectedFeedsInvalidated ==
  \A i \in handled : excused[i] = {} =>
    \A page \in DOMAIN cache : page[1] \in changes[i].affected => cache[page].asOf >= i
=============================================================================
