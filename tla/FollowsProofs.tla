---------------------------- MODULE FollowsProofs ----------------------------
(* Theorems about Follows, for any users, calls and follows made before.   *)
EXTENDS Follows, FiniteSetTheorems, TLAPS

USE FollowAssumption, FiniteAssumption

(* Which call is at which statement, and the rows it has locked there.     *)
AtStage(r) ==
  /\ pc[r] \in {"row", "first", "second", "commit", "publish"} =>
       call[r].op \in {"follow", "unfollow"} /\ call[r].from # call[r].to
  /\ pc[r] = "erase" => call[r].op = "delete"
  /\ pc[r] \in {"find", "row", "first", "second", "commit", "erase"} => outcome[r] = "none"
  /\ pc[r] \in {"find", "row", "first"} => hit[r] = {}
  /\ pc[r] = "second" => hit[r] \subseteq {call[r].from}
  /\ pc[r] = "commit" => hit[r] \subseteq {call[r].from, call[r].to}
Stages == \A r \in Requests : AtStage(r)

(* An entry and a row of users have one transaction at a time.             *)
EntryLocks ==
  \A r, s \in Requests :
    InTransaction(r) /\ InTransaction(s) /\ r # s => Key(r) # Key(s)
RowLocks ==
  \A r, s \in Requests :
    InTransaction(r) /\ InTransaction(s) /\ r # s => hit[r] \cap hit[s] = {}

(* So what it saw there is still so: the entry, and who is alive.          *)
SeenBy(r) ==
  /\ InTransaction(r) => (call[r].op = "follow" <=> Key(r) \notin follows)
  /\ pc[r] \in {"second", "commit"} => (call[r].from \in hit[r] <=> call[r].from \in alive)
  /\ pc[r] = "commit" => (call[r].to \in hit[r] <=> call[r].to \in alive)
Seen == \A r \in Requests : SeenBy(r)

(* The calls that reported a change of an entry, by kind.                  *)
Changed(op, key) == {r \in Requests : outcome[r] = "changed" /\ call[r].op = op /\ Key(r) = key}
Explained ==
  \A u, v \in Users :
    Cardinality(Changed("follow", <<u, v>>)) + (IF <<u, v>> \in Before THEN 1 ELSE 0)
      = Cardinality(Changed("unfollow", <<u, v>>)) + (IF <<u, v>> \in follows THEN 1 ELSE 0)

(* Whom a user follows, and who follows him.                               *)
Followed(u) == {v \in Users : <<u, v>> \in follows}
Following(u) == {v \in Users : <<v, u>> \in follows}
Counted == \A u \in alive : /\ following[u] = Cardinality(Followed(u))
                            /\ followers[u] = Cardinality(Following(u))

IInv == /\ TypeOK /\ Stages /\ EntryLocks /\ RowLocks /\ Seen /\ Counted /\ Explained
-----------------------------------------------------------------------------
(* What a call is about.                                                   *)
LEMMA CallTypes ==
  ASSUME TypeOK, NEW r \in Requests
  PROVE  /\ call[r].op \in {"follow", "unfollow", "delete"}
         /\ call[r].from \in Users
         /\ call[r].op # "delete" => call[r].to \in Users /\ Key(r) \in Users \X Users
BY DEF TypeOK, Calls, Key

(* It does not change.                                                     *)
LEMMA SameKeys ==
  ASSUME UNCHANGED call PROVE \A r \in Requests : Key(r)' = Key(r)
BY DEF Key

(* The sets that are counted are finite.                                   *)
LEMMA Countable ==
  /\ \A u : /\ IsFiniteSet(Followed(u)) /\ Cardinality(Followed(u)) \in Nat
            /\ IsFiniteSet(Following(u)) /\ Cardinality(Following(u)) \in Nat
  /\ \A op, key : IsFiniteSet(Changed(op, key)) /\ Cardinality(Changed(op, key)) \in Nat
<1>1. \A u : IsFiniteSet(Followed(u)) /\ IsFiniteSet(Following(u))
  BY FS_Subset DEF Followed, Following
<1>2. \A op, key : IsFiniteSet(Changed(op, key))
  BY FS_Subset DEF Changed
<1>3. QED  BY <1>1, <1>2, FS_CardinalityType

(* A step that leaves the tables alone keeps the counters right, even if   *)
(* an account goes.                                                        *)
LEMMA SameCounters ==
  ASSUME Counted, UNCHANGED <<follows, following, followers>>, alive' \subseteq alive
  PROVE  Counted'
<1>1. \A u : Followed(u)' = Followed(u) /\ Following(u)' = Following(u)
  BY DEF Followed, Following
<1>2. QED  BY <1>1 DEF Counted

(* So does one without a change reported.                                  *)
LEMMA SameChanges ==
  ASSUME Explained, UNCHANGED <<call, follows>>,
         \A r \in Requests : call[r].op # "delete" =>
           (outcome'[r] = "changed" <=> outcome[r] = "changed")
  PROVE  Explained'
<1>1. \A op \in {"follow", "unfollow"} : \A key : Changed(op, key)' = Changed(op, key)
  BY SameKeys DEF Changed
<1>2. QED  BY <1>1 DEF Explained

(* Before the first call.                                                  *)
LEMMA InitIInv == Init => IInv
<1> SUFFICES ASSUME Init PROVE IInv
  OBVIOUS
<1>1. \A u : /\ Followed(u) = {v \in Users : <<u, v>> \in Before}
             /\ Following(u) = {v \in Users : <<v, u>> \in Before}
  BY DEF Init, Followed, Following
<1>2. Counted
  BY <1>1 DEF Init, Counted
<1>3. TypeOK
  <2>1. following \in [Users -> Nat] /\ followers \in [Users -> Nat]
    BY <1>1, Countable DEF Init
  <2>2. QED  BY <2>1 DEF Init, TypeOK
<1>4. Stages /\ EntryLocks /\ RowLocks /\ Seen
  BY DEF Init, Stages, AtStage, EntryLocks, RowLocks, Seen, SeenBy, InTransaction
<1>5. Explained
  <2>1. \A op, key : Changed(op, key) = {}
    BY DEF Init, Changed
  <2>2. QED  BY <2>1, FS_EmptySet DEF Init, Explained
<1>6. QED  BY <1>2, <1>3, <1>4, <1>5 DEF IInv

(* A statement that writes no row, of a call that stays or goes out of its *)
(* transaction, whose locks are then free.                                 *)
LEMMA MoveIInv ==
  ASSUME IInv, NEW r \in Requests, NEW l \in {"row", "erase", "done"},
         NEW o \in {"none", "refused", "unchanged", "changed", "failed"},
         pc' = [pc EXCEPT ![r] = l], outcome' = [outcome EXCEPT ![r] = o],
         UNCHANGED <<call, hit, store>>, published' \subseteq Requests,
         o = "changed" <=> outcome[r] = "changed",
         l # "done" => o = "none" /\ hit[r] = {},
         l = "row" => call[r].op \in {"follow", "unfollow"} /\ call[r].from # call[r].to,
         l = "erase" => call[r].op = "delete"
  PROVE  IInv'
<1> USE DEF IInv, store
<1>1. TypeOK'
  BY DEF TypeOK
<1>2. Stages'
  BY DEF Stages, AtStage, TypeOK
<1>3. EntryLocks' /\ RowLocks'
  BY SameKeys DEF EntryLocks, RowLocks, InTransaction, TypeOK
<1>4. Seen'
  BY SameKeys DEF Seen, SeenBy, InTransaction, TypeOK
<1>5. Counted' /\ Explained'
  BY SameCounters, SameChanges DEF TypeOK
<1>6. QED  BY <1>1, <1>2, <1>3, <1>4, <1>5
(* Find is such a move: it takes no lock and writes nothing.               *)
LEMMA FindIInv == ASSUME IInv, NEW r \in Requests, Find(r) PROVE IInv'
<1> USE DEF IInv, Goto, Settle
<1>1. /\ pc[r] = "find" /\ outcome[r] = "none" /\ hit[r] = {}
      /\ UNCHANGED <<call, hit, store, published>> /\ published \subseteq Requests
  BY DEF Find, Stages, AtStage, TypeOK
<1>2. CASE pc' = [pc EXCEPT ![r] = "done"] /\ outcome' = [outcome EXCEPT ![r] = "refused"]
  BY <1>1, <1>2, MoveIInv
<1>3. ASSUME NEW l \in {"row", "erase"}, pc' = [pc EXCEPT ![r] = l], UNCHANGED outcome,
             l = "row" => call[r].op # "delete" /\ call[r].from # call[r].to,
             l = "erase" => call[r].op = "delete"
      PROVE  IInv'
  <2>1. outcome' = [outcome EXCEPT ![r] = "none"]
    BY <1>1, <1>3 DEF TypeOK
  <2>2. l = "row" => call[r].op \in {"follow", "unfollow"}
    BY <1>3, CallTypes
  <2>3. QED  BY <1>1, <1>3, <2>1, <2>2, MoveIInv
<1>4. QED  BY <1>2, <1>3 DEF Find

(* Publish is one: the locks have gone with COMMIT.                        *)
LEMMA PublishIInv == ASSUME IInv, NEW r \in Requests, Publish(r) PROVE IInv'
<1> USE DEF IInv, Goto
<1>1. outcome' = [outcome EXCEPT ![r] = outcome[r]] /\ published' \subseteq Requests
  BY DEF Publish, TypeOK
<1>2. outcome[r] \in {"none", "refused", "unchanged", "changed", "failed"}
  BY DEF TypeOK
<1>3. QED  BY <1>1, <1>2, MoveIInv DEF Publish

(* So is whatever ends a call with an error: rollback frees its locks.     *)
LEMMA AbortIInv ==
  ASSUME IInv, NEW r \in Requests, outcome[r] # "changed", Abort(r) PROVE IInv'
BY MoveIInv DEF IInv, Abort, Goto, Settle, TypeOK

(* A call in a ring is in its transaction or before it.                    *)
LEMMA FailIInv == ASSUME IInv, NEW r \in Requests, BreakDeadlock(r) \/ Fail(r) PROVE IInv'
<1>1. Abort(r) /\ pc[r] \in {"find", "row", "first", "second", "commit", "erase"}
  BY DEF Fail, BreakDeadlock, Deadlocked, Waiting, WaitsFor
<1>2. QED  BY <1>1, AbortIInv DEF IInv, Stages, AtStage

(* The first statement locks an entry that nobody else holds.              *)
LEMMA WriteRowIInv == ASSUME IInv, NEW r \in Requests, WriteRow(r) PROVE IInv'
<1> USE DEF IInv, Goto, Settle
<1>1. /\ pc[r] = "row" /\ call[r].op \in {"follow", "unfollow"}
      /\ call[r].from # call[r].to /\ outcome[r] = "none" /\ hit[r] = {}
      /\ UNCHANGED <<call, hit, store, published>>
  BY DEF WriteRow, Stages, AtStage
<1>2. CASE pc' = [pc EXCEPT ![r] = "done"] /\ outcome' = [outcome EXCEPT ![r] = "unchanged"]
  BY <1>1, <1>2, MoveIInv DEF TypeOK
<1>3. CASE /\ EntryHolders(Key(r)) = {}
           /\ call[r].op = "follow" <=> Key(r) \notin follows
           /\ pc' = [pc EXCEPT ![r] = "first"] /\ UNCHANGED outcome
  <2> USE <1>1, <1>3 DEF store
  <2>1. TypeOK'
    BY DEF TypeOK
  <2>2. Stages'
    BY DEF Stages, AtStage, TypeOK
  <2>3. EntryLocks' /\ RowLocks'
    BY SameKeys DEF EntryLocks, RowLocks, InTransaction, EntryHolders, TypeOK
  <2>4. Seen'
    BY SameKeys DEF Seen, SeenBy, InTransaction, TypeOK
  <2>5. Counted' /\ Explained'
    BY SameCounters, SameChanges
  <2>6. QED  BY <2>1, <2>2, <2>3, <2>4, <2>5
<1>4. QED  BY <1>2, <1>3 DEF WriteRow

(* An unfollow of a living user finds his counter above 0: the row it has  *)
(* locked is one of those counted.                                         *)
LEMMA AliveMatches ==
  ASSUME IInv, NEW r \in Requests, InTransaction(r), call[r].op \in {"follow", "unfollow"}
  PROVE  \A u \in {call[r].from, call[r].to} : Matches(r, u) <=> u \in alive
<1> USE DEF IInv
<1> SUFFICES ASSUME NEW u \in {call[r].from, call[r].to}, u \in alive, call[r].op = "unfollow"
             PROVE  Count(call[r], u) > 0
  BY DEF Matches
<1>1. Key(r) \in follows /\ call[r].from \in Users /\ call[r].to \in Users
  BY CallTypes DEF Seen, SeenBy
<1>2. call[r].to \in Followed(call[r].from) /\ call[r].from \in Following(call[r].to)
  BY <1>1 DEF Followed, Following, Key
<1>3. CASE u = call[r].from
  <2>1. Cardinality(Followed(u)) # 0
    BY <1>2, <1>3, Countable, FS_EmptySet
  <2>2. QED  BY <1>3, <2>1, Countable DEF Counted, Count
<1>4. CASE u # call[r].from
  <2>1. Cardinality(Following(u)) # 0
    BY <1>2, <1>4, Countable, FS_EmptySet
  <2>2. QED  BY <1>4, <2>1, Countable DEF Counted, Count
<1>5. QED  BY <1>3, <1>4

(* An UPDATE of the users locks the row if its user is alive, and nobody   *)
(* else holds it.                                                          *)
LEMMA UpdateIInv ==
  ASSUME IInv, NEW r \in Requests, UpdateFirst(r) \/ UpdateSecond(r) PROVE IInv'
<1> USE DEF IInv
<1> DEFINE u == IF pc[r] = "first" THEN call[r].from ELSE call[r].to
           l == IF pc[r] = "first" THEN "second" ELSE "commit"
<1>1. /\ pc[r] \in {"first", "second"} /\ call[r].op \in {"follow", "unfollow"}
      /\ call[r].from # call[r].to /\ outcome[r] = "none" /\ InTransaction(r)
      /\ pc' = [pc EXCEPT ![r] = l] /\ UNCHANGED <<call, outcome, store, published>>
      /\ Awaited(r, u) = {} /\ u \in Users
      /\ hit' = IF Matches(r, u) THEN [hit EXCEPT ![r] = @ \cup {u}] ELSE hit
  BY CallTypes
  DEF UpdateFirst, UpdateSecond, UpdateUser, FirstRow, SecondRow, Goto, Stages, AtStage,
      InTransaction
<1>2. Matches(r, u) <=> u \in alive
  BY <1>1, AliveMatches
<1>3. u \in alive => RowHolders(u) = {}
  BY <1>1, <1>2 DEF Awaited
<1>4. /\ hit'[r] = IF u \in alive THEN hit[r] \cup {u} ELSE hit[r]
      /\ \A s \in Requests \ {r} : hit'[s] = hit[s] /\ pc'[s] = pc[s]
      /\ pc'[r] = l
  BY <1>1, <1>2 DEF TypeOK
<1>5. TypeOK'
  BY <1>1 DEF TypeOK, store
<1>6. Stages'
  BY <1>1, <1>4 DEF Stages, AtStage
<1>7. EntryLocks'
  BY <1>1, <1>4, SameKeys DEF EntryLocks, InTransaction
<1>8. RowLocks'
  BY <1>1, <1>3, <1>4 DEF RowLocks, InTransaction, RowHolders
<1>9. Seen'
  BY <1>1, <1>3, <1>4, SameKeys DEF Seen, SeenBy, Stages, AtStage, InTransaction, store
<1>10. Counted' /\ Explained'
  BY <1>1, SameCounters, SameChanges DEF store
<1>11. QED  BY <1>5, <1>6, <1>7, <1>8, <1>9, <1>10

(* The account of a locked row is not deleted.                             *)
LEMMA EraseIInv == ASSUME IInv, NEW r \in Requests, Erase(r) PROVE IInv'
<1> USE DEF IInv, Goto, Settle
<1>1. /\ pc[r] = "erase" /\ call[r].op = "delete" /\ RowHolders(call[r].from) = {}
      /\ alive' = alive \ {call[r].from} /\ pc' = [pc EXCEPT ![r] = "done"]
      /\ UNCHANGED <<call, hit, follows, following, followers, published>>
      /\ \A s \in Requests \ {r} : outcome'[s] = outcome[s]
      /\ outcome' \in [Requests -> {"none", "refused", "unchanged", "changed", "failed"}]
  BY DEF Erase, Stages, AtStage, TypeOK
<1>2. TypeOK'
  BY <1>1 DEF TypeOK
<1>3. Stages'
  BY <1>1 DEF Stages, AtStage, TypeOK
<1>4. EntryLocks' /\ RowLocks'
  BY <1>1, SameKeys DEF EntryLocks, RowLocks, InTransaction, TypeOK
<1>5. Seen'
  BY <1>1, SameKeys DEF Seen, SeenBy, InTransaction, RowHolders, TypeOK
<1>6. Counted' /\ Explained'
  BY <1>1, SameCounters, SameChanges
<1>7. QED  BY <1>2, <1>3, <1>4, <1>5, <1>6
(* A row more or less of follows is one more or less for either end, and   *)
(* the same for everybody else.                                            *)
LEMMA OneMore ==
  ASSUME NEW u \in Users, NEW v \in Users, <<u, v>> \notin follows,
         follows' = follows \cup {<<u, v>>}
  PROVE  /\ Cardinality(Followed(u)') = Cardinality(Followed(u)) + 1
         /\ Cardinality(Following(v)') = Cardinality(Following(v)) + 1
<1>1. Followed(u)' = Followed(u) \cup {v} /\ v \notin Followed(u)
  BY DEF Followed
<1>2. Following(v)' = Following(v) \cup {u} /\ u \notin Following(v)
  BY DEF Following
<1>3. QED  BY <1>1, <1>2, Countable, FS_AddElement

(* A row that goes was counted.                                            *)
LEMMA OneLess ==
  ASSUME NEW u \in Users, NEW v \in Users, <<u, v>> \in follows,
         follows' = follows \ {<<u, v>>}
  PROVE  /\ Cardinality(Followed(u)') = Cardinality(Followed(u)) - 1
         /\ Cardinality(Following(v)') = Cardinality(Following(v)) - 1
         /\ Cardinality(Followed(u)) >= 1 /\ Cardinality(Following(v)) >= 1
<1>1. Followed(u)' = Followed(u) \ {v} /\ v \in Followed(u)
  BY DEF Followed
<1>2. Following(v)' = Following(v) \ {u} /\ u \in Following(v)
  BY DEF Following
<1>3. Cardinality(Followed(u)) # 0 /\ Cardinality(Following(v)) # 0
  BY <1>1, <1>2, Countable, FS_EmptySet
<1>4. /\ Cardinality(Followed(u)') = Cardinality(Followed(u)) - 1
      /\ Cardinality(Following(v)') = Cardinality(Following(v)) - 1
  BY <1>1, <1>2, Countable, FS_RemoveElement
<1>5. QED  BY <1>3, <1>4, Countable

(* COMMIT: the row and both counters change together, and nobody else can  *)
(* have changed them since the call looked.                                *)
LEMMA CommitIInv == ASSUME IInv, NEW r \in Requests, Commit(r) PROVE IInv'
<1> USE DEF IInv, Goto, Settle
<1> DEFINE u == call[r].from
           v == call[r].to
           op == call[r].op
<1>1. /\ pc[r] = "commit" /\ op \in {"follow", "unfollow"} /\ u # v
      /\ u \in Users /\ v \in Users /\ Key(r) = <<u, v>>
      /\ op = "follow" <=> <<u, v>> \notin follows
      /\ u \in hit[r] <=> u \in alive
      /\ v \in hit[r] <=> v \in alive
      /\ outcome[r] = "none"
      /\ pc' = [pc EXCEPT ![r] = "publish"] /\ outcome' = [outcome EXCEPT ![r] = "changed"]
      /\ UNCHANGED <<call, hit, alive, published>>
      /\ following \in [Users -> Nat] /\ followers \in [Users -> Nat]
  BY CallTypes DEF Commit, Stages, AtStage, Seen, SeenBy, InTransaction, Key, TypeOK
<1>2. /\ op = "follow" => follows' = follows \cup {<<u, v>>}
      /\ op = "unfollow" => follows' = follows \ {<<u, v>>}
  BY <1>1 DEF Commit
<1>3. /\ \A x \in Users : following'[x] = IF x = u THEN following[u] + Delta(r, u) ELSE following[x]
      /\ \A x \in Users : followers'[x] = IF x = v THEN followers[v] + Delta(r, v) ELSE followers[x]
      /\ following' = [following EXCEPT ![u] = following[u] + Delta(r, u)]
      /\ followers' = [followers EXCEPT ![v] = followers[v] + Delta(r, v)]
  BY <1>1 DEF Commit
<1>4. /\ \A x \in Users : x # u => Followed(x)' = Followed(x)
      /\ \A x \in Users : x # v => Following(x)' = Following(x)
  BY <1>1, <1>2 DEF Followed, Following
<1>5. u \in alive => following'[u] = Cardinality(Followed(u)') /\ following'[u] \in Nat
  <2>1. CASE op = "follow"
    BY <1>1, <1>2, <1>3, <2>1, OneMore, Countable DEF Counted, Delta
  <2>2. CASE op = "unfollow"
    BY <1>1, <1>2, <1>3, <2>2, OneLess, Countable DEF Counted, Delta
  <2>3. QED  BY <1>1, <2>1, <2>2
<1>6. v \in alive => followers'[v] = Cardinality(Following(v)') /\ followers'[v] \in Nat
  <2>1. CASE op = "follow"
    BY <1>1, <1>2, <1>3, <2>1, OneMore, Countable DEF Counted, Delta
  <2>2. CASE op = "unfollow"
    BY <1>1, <1>2, <1>3, <2>2, OneLess, Countable DEF Counted, Delta
  <2>3. QED  BY <1>1, <2>1, <2>2
<1>7. TypeOK'
  <2>1. following'[u] \in Nat /\ followers'[v] \in Nat
    BY <1>1, <1>3, <1>5, <1>6 DEF Delta
  <2>2. following' \in [Users -> Nat] /\ followers' \in [Users -> Nat]
    BY <1>1, <1>3, <2>1
  <2>3. follows' \subseteq Users \X Users
    BY <1>1, <1>2 DEF TypeOK
  <2>4. QED  BY <1>1, <2>2, <2>3 DEF TypeOK
<1>8. Stages'
  BY <1>1 DEF Stages, AtStage, TypeOK
<1>9. EntryLocks' /\ RowLocks'
  BY <1>1, SameKeys DEF EntryLocks, RowLocks, InTransaction, TypeOK
<1>10. Seen'
  <2> SUFFICES ASSUME NEW t \in Requests PROVE SeenBy(t)'
    BY DEF Seen
  <2>1. CASE t = r
    BY <1>1, <2>1 DEF SeenBy, InTransaction, TypeOK
  <2>2. CASE t # r
    <3>1. pc'[t] = pc[t]
      BY <1>1, <2>2 DEF TypeOK
    <3>2. InTransaction(t) => Key(t) # <<u, v>>
      BY <1>1, <2>2 DEF EntryLocks, InTransaction
    <3>3. InTransaction(t) => (Key(t) \in follows' <=> Key(t) \in follows)
      BY <1>1, <1>2, <3>2
    <3>4. QED  BY <1>1, <3>1, <3>3, SameKeys DEF Seen, SeenBy, InTransaction
  <2>3. QED  BY <2>1, <2>2
<1>11. Counted'
  BY <1>1, <1>3, <1>4, <1>5, <1>6 DEF Counted, TypeOK
<1>12. Explained'
  <2>1. \A o \in {"follow", "unfollow"}, x, y \in Users :
          ~(o = op /\ x = u /\ y = v) => Changed(o, <<x, y>>)' = Changed(o, <<x, y>>)
    BY <1>1, SameKeys DEF Changed, TypeOK
  <2>2. Changed(op, <<u, v>>)' = Changed(op, <<u, v>>) \cup {r} /\ r \notin Changed(op, <<u, v>>)
    BY <1>1, SameKeys DEF Changed, TypeOK
  <2>3. Cardinality(Changed(op, <<u, v>>)') = Cardinality(Changed(op, <<u, v>>)) + 1
    BY <2>2, Countable, FS_AddElement
  <2> SUFFICES ASSUME NEW x \in Users, NEW y \in Users
               PROVE  Cardinality(Changed("follow", <<x, y>>)') + (IF <<x, y>> \in Before THEN 1 ELSE 0)
                        = Cardinality(Changed("unfollow", <<x, y>>)')
                            + (IF <<x, y>> \in follows' THEN 1 ELSE 0)
    BY DEF Explained
  <2>4. CASE x = u /\ y = v
    BY <1>1, <1>2, <2>1, <2>3, <2>4, Countable DEF Explained
  <2>5. CASE ~(x = u /\ y = v)
    <3>1. <<x, y>> \in follows' <=> <<x, y>> \in follows
      BY <1>1, <1>2, <2>5
    <3>2. QED  BY <2>1, <2>5, <3>1 DEF Explained
  <2>6. QED  BY <2>4, <2>5
<1>13. QED  BY <1>7, <1>8, <1>9, <1>10, <1>11, <1>12

(* Every step of every call keeps the inductive invariant.                 *)
LEMMA StepIInv == IInv /\ [Next]_vars => IInv'
<1> SUFFICES ASSUME IInv, [Next]_vars PROVE IInv'
  OBVIOUS
<1>1. ASSUME NEW r \in Requests, Handle(r) \/ BreakDeadlock(r) \/ Fail(r) PROVE IInv'
  BY <1>1, FindIInv, WriteRowIInv, UpdateIInv, CommitIInv, EraseIInv, PublishIInv, FailIInv
  DEF Handle
<1>2. CASE UNCHANGED vars
  <2> USE <1>2 DEF IInv, vars, store
  <2>1. TypeOK' /\ Stages' /\ RowLocks'
    BY DEF TypeOK, Stages, AtStage, RowLocks, InTransaction
  <2>2. EntryLocks' /\ Seen'
    BY SameKeys DEF EntryLocks, Seen, SeenBy, InTransaction
  <2>3. Counted' /\ Explained'
    BY SameCounters, SameChanges
  <2>4. QED  BY <2>1, <2>2, <2>3
<1>3. QED  BY <1>1, <1>2 DEF Next, Terminated
-----------------------------------------------------------------------------
(* The inductive invariant: the locks exclude, what was seen under a lock  *)
(* stays so, counters equal rows, and reports account for rows.            *)
THEOREM InductiveInvariant == Spec => []IInv
  BY InitIInv, StepIInv, PTL DEF Spec

(* Type correctness; that the counters are naturals means the CHECK        *)
(* constraints of users never fail.                                        *)
THEOREM TypeCorrect == Spec => []TypeOK
  BY InductiveInvariant, PTL DEF IInv

(* For any number of users, and any calls and deletions at the same time,  *)
(* an existing user's counters are the numbers of rows that name him.      *)
THEOREM CountersCorrect == Spec => []CountsMatchFollows
<1>1. IInv => CountsMatchFollows
  BY DEF IInv, Counted, Followed, Following, CountsMatchFollows
<1>2. QED  BY <1>1, InductiveInvariant, PTL

(* For each pair of users, what calls reported and what the table says     *)
(* agree: follows and unfollows alternate.                                 *)
THEOREM ReportsCorrect == Spec => []ChangesExplainFollows
<1>1. IInv => ChangesExplainFollows
  BY DEF IInv, Explained, Changed, ChangesExplainFollows
<1>2. QED  BY <1>1, InductiveInvariant, PTL

(* However many transactions there are, those that wait for each other in  *)
(* a ring all hold their own user's row and want the next one's: locking   *)
(* the follower first leaves no other deadlock.                            *)
THEOREM OnlyRingsDeadlock == Spec => []DeadlocksAreRings
<1>1. IInv => DeadlocksAreRings
  <2> SUFFICES ASSUME IInv, NEW r \in Requests, Deadlocked(r)
               PROVE  /\ pc[r] = "second"
                      /\ \E s \in WaitsFor(r) : Deadlocked(s) /\ call[s].from = call[r].to
    BY DEF DeadlocksAreRings
  <2> USE DEF IInv
  <2>1. PICK S \in SUBSET Waiting : r \in S /\ Ring(S)
    BY DEF Deadlocked
  <2>2. \A s \in S : s \in Requests /\ Deadlocked(s)
    BY <2>1 DEF Deadlocked, Waiting
  <2>3. ASSUME NEW s \in S PROVE pc[s] = "second"
    <3>1. PICK t \in S : s \in WaitsFor(t)
      BY <2>1 DEF Ring
    <3>2. InTransaction(s)
      BY <3>1 DEF WaitsFor, Awaited, EntryHolders, RowHolders
    <3>3. pc[s] # "commit"
      BY <2>1 DEF Waiting, WaitsFor
    <3>4. InTransaction(t)
      <4>1. PICK q \in S : t \in WaitsFor(q)
        BY <2>1 DEF Ring
      <4>2. QED  BY <4>1 DEF WaitsFor, Awaited, EntryHolders, RowHolders
    <3>5. hit[s] # {}
      BY <3>1, <3>4 DEF WaitsFor, Awaited, RowHolders, InTransaction
    <3>6. pc[s] # "first"
      BY <2>2, <3>5 DEF Stages, AtStage
    <3>7. QED  BY <3>2, <3>3, <3>6 DEF InTransaction
  <2>4. PICK s \in S : s \in WaitsFor(r)
    BY <2>1 DEF Ring
  <2>5. call[r].to \in hit[s]
    BY <2>1, <2>3, <2>4 DEF WaitsFor, Awaited, RowHolders, FirstRow, SecondRow
  <2>6. hit[s] \subseteq {call[s].from}
    BY <2>2, <2>3 DEF Stages, AtStage
  <2>7. QED  BY <2>1, <2>2, <2>3, <2>4, <2>5, <2>6
<1>2. QED  BY <1>1, InductiveInvariant, PTL
-----------------------------------------------------------------------------
(* Every statement is a step of the abstract graph or leaves it alone: the *)
(* COMMIT is the instant of a follow or unfollow, whose locks have kept    *)
(* the entry, and who is alive, as its statements saw them.                *)
LEMMA GraphStep == IInv /\ [Next]_vars => [Graph!GraphNext]_(Graph!gvars)
<1> SUFFICES ASSUME IInv, [Next]_vars PROVE [Graph!GraphNext]_(Graph!gvars)
  OBVIOUS
<1> USE DEF IInv, Goto, Settle, Graph!gvars, Graph!Answer, Graph!Pending, Graph!Edge,
            Graph!From, Graph!To, Key, store
<1>1. ASSUME NEW r \in Requests, Find(r) PROVE Graph!Refuse(r) \/ UNCHANGED Graph!gvars
  BY <1>1, CallTypes DEF Find, Stages, AtStage, Graph!Refuse
<1>2. ASSUME NEW r \in Requests, WriteRow(r) PROVE Graph!Nothing(r) \/ UNCHANGED Graph!gvars
  BY <1>2 DEF WriteRow, Stages, AtStage, Graph!Nothing
<1>3. ASSUME NEW r \in Requests, UpdateFirst(r) \/ UpdateSecond(r) \/ Publish(r)
      PROVE  UNCHANGED Graph!gvars
  BY <1>3 DEF UpdateFirst, UpdateSecond, UpdateUser, Publish
<1>4. ASSUME NEW r \in Requests, Erase(r) PROVE Graph!Leave(r) \/ Graph!Refuse(r)
  BY <1>4 DEF Erase, Stages, AtStage, Graph!Leave, Graph!Refuse
<1>5. ASSUME NEW r \in Requests, BreakDeadlock(r) \/ Fail(r) PROVE Graph!Abort(r)
  <2>1. pc[r] \in {"find", "row", "first", "second", "commit", "erase"}
    BY <1>5 DEF Fail, BreakDeadlock, Deadlocked, Waiting, WaitsFor
  <2>2. QED  BY <1>5, <2>1 DEF Fail, BreakDeadlock, Abort, Stages, AtStage, Graph!Abort
<1>6. ASSUME NEW r \in Requests, Commit(r) PROVE Graph!Follow(r) \/ Graph!Unfollow(r)
  <2> DEFINE from == call[r].from  to == call[r].to
  <2>1. /\ outcome[r] = "none" /\ call[r].op \in {"follow", "unfollow"} /\ from # to
        /\ call[r].op = "follow" <=> Key(r) \notin follows
        /\ from \in hit[r] <=> from \in alive
        /\ to \in hit[r] <=> to \in alive
    BY <1>6 DEF Commit, Stages, AtStage, Seen, SeenBy, InTransaction
  <2>2. /\ following \in [Users -> Nat] /\ followers \in [Users -> Nat]
        /\ from \in Users /\ to \in Users
    BY <2>1, CallTypes DEF TypeOK
  <2>3. /\ following' = Graph!Moved(following, from, IF call[r].op = "follow" THEN 1 ELSE -1)
        /\ followers' = Graph!Moved(followers, to, IF call[r].op = "follow" THEN 1 ELSE -1)
    <3>1. /\ following' = [following EXCEPT ![from] = @ + Delta(r, from)]
          /\ followers' = [followers EXCEPT ![to] = @ + Delta(r, to)]
      BY <1>6 DEF Commit
    <3>2. ASSUME from \in alive
          PROVE  Delta(r, from) = IF call[r].op = "follow" THEN 1 ELSE -1
      BY <2>1, <3>2 DEF Delta
    <3>3. ASSUME from \notin alive PROVE following' = following
      BY <2>1, <2>2, <3>1, <3>3 DEF Delta
    <3>4. ASSUME to \in alive PROVE Delta(r, to) = IF call[r].op = "follow" THEN 1 ELSE -1
      BY <2>1, <3>4 DEF Delta
    <3>5. ASSUME to \notin alive PROVE followers' = followers
      BY <2>1, <2>2, <3>1, <3>5 DEF Delta
    <3>6. following' = Graph!Moved(following, from, IF call[r].op = "follow" THEN 1 ELSE -1)
      BY <3>1, <3>2, <3>3 DEF Graph!Moved
    <3>7. followers' = Graph!Moved(followers, to, IF call[r].op = "follow" THEN 1 ELSE -1)
      BY <3>1, <3>4, <3>5 DEF Graph!Moved
    <3> QED  BY <3>6, <3>7
  <2>4. CASE call[r].op = "follow"
    BY <1>6, <2>1, <2>3, <2>4 DEF Commit, Graph!Follow, Graph!Count
  <2>5. CASE call[r].op = "unfollow"
    BY <1>6, <2>1, <2>3, <2>5 DEF Commit, Graph!Unfollow, Graph!Count
  <2> QED  BY <2>1, <2>4, <2>5
<1>7. UNCHANGED vars => UNCHANGED Graph!gvars
  BY DEF vars
<1> QED
  BY <1>1, <1>2, <1>3, <1>4, <1>5, <1>6, <1>7
  DEF Next, Handle, Terminated, Graph!GraphNext

(* OneStepEach: the specification of statements, locks and deadlocks       *)
(* implements the graph whose calls take effect at once (FollowGraph).     *)
THEOREM FollowsAreAtomic == Spec => OneStepEach
<1>1. Init => Graph!GraphInit
  BY DEF Init, Graph!GraphInit, Graph!Pending, Graph!Cardinality, Cardinality
<1> QED  BY <1>1, InductiveInvariant, GraphStep, PTL DEF Spec, OneStepEach, Graph!GraphSpec
=============================================================================
