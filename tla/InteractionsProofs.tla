-------------------------- MODULE InteractionsProofs --------------------------
(* Theorems about Interactions, for any calls, users, posts and authors.   *)
EXTENDS Interactions, FiniteSetTheorems, TLAPS

USE KindsAssumption, AuthorAssumption, FiniteAssumption

(* The inductive invariant.  An entry has one transaction at a time, so    *)
(* what DeleteRow or InsertRow saw of it still holds at Commit; a matched  *)
(* row of posts has one too, and cannot be deleted under it, so hit still  *)
(* says whether the post is live.                                          *)
InTransaction(r) == pc[r] \in {"count", "commit"}

Stages ==
  \A r \in Requests :
    /\ pc[r] \in {"row", "count", "commit"} => call[r].op \in {"add", "remove"}
    /\ pc[r] = "erase" => call[r].op = "delete"
    /\ pc[r] \in {"find", "row", "count", "commit", "erase"} => outcome[r] = "none"
    /\ pc[r] = "publish" => outcome[r] = "changed"
    /\ pc[r] = "done" => outcome[r] # "none"

EntryLocks ==
  \A r, s \in Requests :
    InTransaction(r) /\ InTransaction(s) /\ r # s => Key(r) # Key(s)

SeenEntry ==
  \A r \in Requests : InTransaction(r) => (call[r].op = "add" <=> Key(r) \notin rows)

PostLocks ==
  \A r, s \in Requests :
    /\ pc[r] = "commit" /\ pc[s] = "commit" /\ r # s
    /\ hit[r] /\ hit[s]
    => call[r].post # call[s].post

SeenPost == \A r \in Requests : pc[r] = "commit" => (hit[r] <=> call[r].post \in live)

IInv == /\ TypeOK /\ Stages /\ EntryLocks /\ SeenEntry
        /\ PostLocks /\ SeenPost /\ CountersMatchRows
-----------------------------------------------------------------------------
(* The users with an entry for a post can be counted, and an entry that    *)
(* comes or goes changes their number by one.                              *)
LEMMA FansFinite ==
  ASSUME NEW k, NEW p
  PROVE  IsFiniteSet(Fans(k, p)) /\ Cardinality(Fans(k, p)) \in Nat
BY FS_Subset, FS_CardinalityType DEF Fans

(* A user who is not among them makes them one more ...                    *)
LEMMA FansGrow ==
  ASSUME NEW k, NEW u \in Users, NEW p, <<k, u, p>> \notin rows,
         rows' = rows \cup {<<k, u, p>>}
  PROVE  Cardinality(Fans(k, p)') = Cardinality(Fans(k, p)) + 1
<1>1. Fans(k, p)' = Fans(k, p) \cup {u} /\ u \notin Fans(k, p)
  BY DEF Fans
<1> QED BY <1>1, FansFinite, FS_AddElement

(* ... and one who is, and leaves, one fewer.                              *)
LEMMA FansShrink ==
  ASSUME NEW k, NEW u \in Users, NEW p, <<k, u, p>> \in rows,
         rows' = rows \ {<<k, u, p>>}
  PROVE  /\ Cardinality(Fans(k, p)') = Cardinality(Fans(k, p)) - 1
         /\ Cardinality(Fans(k, p)) >= 1
<1>1. Fans(k, p)' = Fans(k, p) \ {u} /\ u \in Fans(k, p)
  BY DEF Fans
<1>2. Cardinality(Fans(k, p)') = Cardinality(Fans(k, p)) - 1
  BY <1>1, FansFinite, FS_RemoveElement
<1>3. Cardinality(Fans(k, p)') \in Nat
  BY <1>1, FansFinite, FS_RemoveElement, FS_CardinalityType
<1> QED BY <1>2, <1>3, FansFinite

(* What the handler was asked for, where it matters.                       *)
LEMMA CallTypes ==
  ASSUME TypeOK, NEW r \in Requests
  PROVE  /\ call[r].op \in {"add", "remove", "delete"}
         /\ call[r].user \in Users /\ call[r].post \in Posts
         /\ call[r].op # "delete" => call[r].kind \in Kinds
         /\ call[r].op # "delete" => Key(r) \in Kinds \X Users \X Posts
BY DEF TypeOK, Calls, Key

(* A counter is a natural number.                                          *)
LEMMA CountTypes ==
  ASSUME TypeOK, NEW k \in Kinds, NEW p \in Posts PROVE count[k][p] \in Nat
BY DEF TypeOK

(* A step that changes no entry and no counter keeps them equal.           *)
LEMMA SameCounters ==
  ASSUME CountersMatchRows, UNCHANGED <<rows, count>>, live' \subseteq live
  PROVE  CountersMatchRows'
<1>1. \A k, p : Fans(k, p)' = Fans(k, p)
  BY DEF Fans
<1> QED BY <1>1 DEF CountersMatchRows

(* What a call is about does not change.                                   *)
LEMMA SameKeys ==
  ASSUME UNCHANGED call PROVE \A r \in Requests : Key(r)' = Key(r)
BY DEF Key

(* The inductive invariant holds when no call has begun.                   *)
THEOREM InitIInv == Init => IInv
<1> SUFFICES ASSUME Init PROVE IInv
  OBVIOUS
<1>1. TypeOK
  BY DEF Init, TypeOK
<1>2. Stages /\ EntryLocks /\ SeenEntry /\ PostLocks /\ SeenPost
  BY DEF Init, Stages, EntryLocks, SeenEntry, PostLocks, SeenPost, InTransaction
<1>3. CountersMatchRows
  <2> SUFFICES ASSUME NEW k \in Kinds, NEW p \in Posts
               PROVE  Cardinality(Fans(k, p)) = 0
    BY DEF CountersMatchRows, Init
  <2>1. Fans(k, p) = {}
    BY DEF Fans, Init
  <2> QED BY <2>1, FS_EmptySet
<1> QED BY <1>1, <1>2, <1>3 DEF IInv

(* Find takes no lock and writes nothing.                                  *)
LEMMA FindStep ==
  ASSUME IInv, NEW r \in Requests, Find(r) PROVE IInv'
<1> USE DEF IInv, Find, Goto, Settle
<1>0. TypeOK'
  BY DEF TypeOK
<1>1. Stages'
  BY CallTypes DEF TypeOK, Stages
<1>2. EntryLocks' /\ SeenEntry' /\ PostLocks' /\ SeenPost'
  BY SameKeys DEF TypeOK, EntryLocks, SeenEntry, PostLocks, SeenPost, InTransaction
<1>3. CountersMatchRows'
  BY SameCounters
<1> QED BY <1>0, <1>1, <1>2, <1>3

(* The INSERT locks an entry that is not there and nobody else holds.      *)
LEMMA InsertRowStep ==
  ASSUME IInv, NEW r \in Requests, InsertRow(r) PROVE IInv'
<1> USE DEF IInv, InsertRow, Goto, Settle
<1>0. TypeOK'
  BY DEF TypeOK
<1>1. Stages'
  BY CallTypes DEF TypeOK, Stages
<1>2. EntryLocks' /\ SeenEntry'
  BY SameKeys DEF TypeOK, EntryLocks, SeenEntry, InTransaction, EntryLocked
<1>3. PostLocks' /\ SeenPost'
  BY DEF TypeOK, PostLocks, SeenPost
<1>4. CountersMatchRows'
  BY SameCounters
<1> QED BY <1>0, <1>1, <1>2, <1>3, <1>4

(* The DELETE locks an entry that is there and nobody else holds.          *)
LEMMA DeleteRowStep ==
  ASSUME IInv, NEW r \in Requests, DeleteRow(r) PROVE IInv'
<1> USE DEF IInv, DeleteRow, Goto, Settle
<1>0. TypeOK'
  BY DEF TypeOK
<1>1. Stages'
  BY CallTypes DEF TypeOK, Stages
<1>2. EntryLocks' /\ SeenEntry'
  BY SameKeys DEF TypeOK, EntryLocks, SeenEntry, InTransaction, EntryLocked
<1>3. PostLocks' /\ SeenPost'
  BY DEF TypeOK, PostLocks, SeenPost
<1>4. CountersMatchRows'
  BY SameCounters
<1> QED BY <1>0, <1>1, <1>2, <1>3, <1>4

(* An unlike finds a counter above 0 on a live post: its own entry counts. *)
LEMMA UpdateCounterStep ==
  ASSUME IInv, NEW r \in Requests, UpdateCounter(r) PROVE IInv'
<1> USE DEF IInv, UpdateCounter, Matches, Goto
<1>0. TypeOK'
  BY DEF TypeOK
<1>1. Stages'
  BY DEF TypeOK, Stages
<1>2. EntryLocks' /\ SeenEntry'
  BY SameKeys DEF TypeOK, EntryLocks, SeenEntry, InTransaction
<1>3. PostLocks'
  BY DEF TypeOK, PostLocks, PostLocked
<1>4. hit'[r] <=> call[r].post \in live
  <2> DEFINE k == call[r].kind  u == call[r].user  p == call[r].post
  <2> SUFFICES ASSUME p \in live, call[r].op = "remove" PROVE count[k][p] > 0
    BY DEF TypeOK
  <2>1. k \in Kinds /\ u \in Users /\ <<k, u, p>> \in rows
    BY CallTypes DEF SeenEntry, InTransaction, Key
  <2>2. u \in Fans(k, p)
    BY <2>1 DEF Fans
  <2>3. Cardinality(Fans(k, p)) # 0
    BY <2>2, FansFinite, FS_EmptySet
  <2>4. count[k][p] = Cardinality(Fans(k, p))
    BY <2>1 DEF CountersMatchRows
  <2> QED BY <2>3, <2>4, FansFinite
<1>5. SeenPost'
  BY <1>4 DEF TypeOK, SeenPost
<1>6. CountersMatchRows'
  BY SameCounters
<1> QED BY <1>0, <1>1, <1>2, <1>3, <1>5, <1>6

(* COMMIT: entry and counter change together, and only the holder of both  *)
(* locks can have changed either since it looked.                          *)
LEMMA CommitStep ==
  ASSUME IInv, NEW r \in Requests, Commit(r) PROVE IInv'
<1> DEFINE k == call[r].kind  u == call[r].user  p == call[r].post
<1> USE DEF IInv, Commit, Goto, Settle
<1>1. /\ k \in Kinds /\ u \in Users /\ p \in Posts /\ Key(r) = <<k, u, p>>
      /\ call[r].op \in {"add", "remove"}
      /\ call[r].op = "add" <=> <<k, u, p>> \notin rows
      /\ hit[r] <=> p \in live
  BY CallTypes DEF Stages, SeenEntry, SeenPost, InTransaction, Key
<1>2. p \in live => /\ count[k][p] + Delta(r) = Cardinality(Fans(k, p)')
                    /\ count[k][p] + Delta(r) \in Nat
  <2> SUFFICES ASSUME p \in live PROVE count[k][p] + Delta(r) = Cardinality(Fans(k, p)')
    BY FansFinite, FS_CardinalityType, FS_Subset DEF Fans
  <2>1. count[k][p] = Cardinality(Fans(k, p))
    BY <1>1 DEF CountersMatchRows
  <2>2. CASE call[r].op = "add"
    BY <2>1, <2>2, <1>1, FansGrow DEF Delta
  <2>3. CASE call[r].op = "remove"
    BY <2>1, <2>3, <1>1, FansShrink, FansFinite DEF Delta
  <2> QED BY <2>2, <2>3, <1>1
<1>3. count[k][p] + Delta(r) \in Nat
  <2>1. p \notin live => Delta(r) = 0
    BY <1>1 DEF Delta
  <2>2. count[k][p] \in Nat
    BY <1>1, CountTypes
  <2> QED BY <1>2, <2>1, <2>2
<1>4. \A x \in Kinds, q \in Posts :
        count'[x][q] = IF x = k /\ q = p THEN count[k][p] + Delta(r) ELSE count[x][q]
  BY <1>1 DEF TypeOK
<1>5. TypeOK'
  <2>1. count' \in [Kinds -> [Posts -> Nat]]
    BY <1>1, <1>2, <1>3 DEF TypeOK
  <2>2. rows' \subseteq Kinds \X Users \X Posts
    BY <1>1 DEF TypeOK
  <2> QED BY <2>1, <2>2 DEF TypeOK
<1>6. Stages'
  BY DEF TypeOK, Stages
<1>7. EntryLocks' /\ SeenEntry'
  BY SameKeys DEF TypeOK, EntryLocks, SeenEntry, InTransaction
<1>8. PostLocks' /\ SeenPost'
  BY DEF TypeOK, PostLocks, SeenPost
<1>9. CountersMatchRows'
  <2> SUFFICES ASSUME NEW x \in Kinds, NEW q \in live
               PROVE  count'[x][q] = Cardinality(Fans(x, q)')
    BY DEF CountersMatchRows
  <2>1. CASE x = k /\ q = p
    BY <2>1, <1>1, <1>2, <1>4
  <2>2. CASE ~(x = k /\ q = p)
    <3>1. Fans(x, q)' = Fans(x, q)
      BY <2>2, <1>1 DEF Fans
    <3>2. count'[x][q] = count[x][q]
      BY <2>2, <1>4 DEF TypeOK
    <3> QED BY <3>1, <3>2 DEF CountersMatchRows
  <2> QED BY <2>1, <2>2
<1> QED BY <1>5, <1>6, <1>7, <1>8, <1>9

(* A post is not deleted while a transaction holds its row.                *)
LEMMA EraseStep ==
  ASSUME IInv, NEW r \in Requests, Erase(r) PROVE IInv'
<1> USE DEF IInv, Erase, Goto, Settle
<1>0. TypeOK'
  BY DEF TypeOK
<1>1. Stages'
  BY DEF TypeOK, Stages
<1>2. EntryLocks' /\ SeenEntry'
  BY SameKeys DEF TypeOK, EntryLocks, SeenEntry, InTransaction
<1>3. PostLocks' /\ SeenPost'
  BY DEF TypeOK, PostLocks, SeenPost, PostLocked
<1>4. CountersMatchRows'
  BY SameCounters
<1> QED BY <1>0, <1>1, <1>2, <1>3, <1>4

(* Leaving a handler early, or after the database is done, frees locks.    *)
LEMMA LeaveStep ==
  ASSUME IInv, NEW r \in Requests, Publish(r) \/ SkipPublish(r) \/ Fail(r)
  PROVE  IInv'
<1> USE DEF IInv, Publish, SkipPublish, Fail, Goto, Settle
<1>0. TypeOK'
  BY DEF TypeOK
<1>1. Stages'
  BY DEF TypeOK, Stages
<1>2. EntryLocks' /\ SeenEntry'
  BY SameKeys DEF TypeOK, EntryLocks, SeenEntry, InTransaction
<1>3. PostLocks' /\ SeenPost'
  BY DEF TypeOK, PostLocks, SeenPost
<1>4. CountersMatchRows'
  BY SameCounters
<1> QED BY <1>0, <1>1, <1>2, <1>3, <1>4

(* A step that changes nothing.                                            *)
LEMMA StutterStep == IInv /\ UNCHANGED vars => IInv'
<1> SUFFICES ASSUME IInv, UNCHANGED vars PROVE IInv'
  OBVIOUS
<1> USE DEF IInv, vars
<1>1. TypeOK' /\ Stages' /\ PostLocks' /\ SeenPost'
  BY DEF TypeOK, Stages, PostLocks, SeenPost
<1>2. EntryLocks' /\ SeenEntry'
  BY SameKeys DEF EntryLocks, SeenEntry, InTransaction
<1>3. CountersMatchRows'
  BY SameCounters
<1> QED BY <1>1, <1>2, <1>3

(* Every step of every call preserves the inductive invariant.             *)
THEOREM StepIInv == IInv /\ [Next]_vars => IInv'
<1> SUFFICES ASSUME IInv, [Next]_vars PROVE IInv'
  OBVIOUS
<1>1. ASSUME NEW r \in Requests, Handle(r) \/ Fail(r) PROVE IInv'
  BY <1>1, FindStep, InsertRowStep, DeleteRowStep, UpdateCounterStep, CommitStep,
     EraseStep, LeaveStep DEF Handle
<1>2. CASE Terminated \/ UNCHANGED vars
  BY <1>2, StutterStep DEF Terminated
<1> QED BY <1>1, <1>2 DEF Next

(* So it holds throughout: the lock discipline of the two statements, what *)
(* a transaction saw is still so while it holds the lock, and the counters *)
(* equal the entries.                                                      *)
THEOREM InductiveInvariant == Spec => []IInv
BY InitIInv, StepIInv, PTL DEF Spec

(* Type correctness; that the counters are naturals is the CHECK           *)
(* constraints of posts never failing.                                     *)
THEOREM TypeCorrect == Spec => []TypeOK
BY InductiveInvariant, PTL DEF IInv

(* For any number of users and concurrent calls, a live post's counters    *)
(* equal the numbers of its likes, bookmarks and reposts.                  *)
THEOREM CountersCorrect == Spec => []CountersMatchRows
BY InductiveInvariant, PTL DEF IInv

(* The counters of a deleted post never change again.                      *)
THEOREM DeletedPostsFrozen == Spec => DeletedPostsAreFrozen
<1>1. ASSUME IInv, [Next]_vars, NEW p \in Posts \ live, NEW k \in Kinds
      PROVE  count'[k][p] = count[k][p]
  <2> USE DEF IInv
  <2>1. ASSUME NEW r \in Requests, Commit(r) PROVE count'[k][p] = count[k][p]
    <3>1. CASE p = call[r].post
      <4>1. Delta(r) = 0
        BY <1>1, <3>1, <2>1 DEF SeenPost, Commit, Delta
      <4>2. count[k][p] \in Nat
        BY <1>1, CountTypes
      <4> QED BY <1>1, <2>1, <4>1, <4>2 DEF Commit, TypeOK
    <3>2. CASE p # call[r].post
      BY <1>1, <2>1, <3>2 DEF Commit, TypeOK
    <3> QED BY <3>1, <3>2
  <2>2. ASSUME count' = count PROVE count'[k][p] = count[k][p]
    BY <2>2
  <2> QED
    BY <1>1, <2>1, <2>2 DEF Next, Handle, Terminated, vars, Find, InsertRow, DeleteRow,
       UpdateCounter, Erase, Publish, SkipPublish, Fail
<1>2. IInv /\ [Next]_vars =>
        [\A p \in Posts \ live : \A k \in Kinds : count'[k][p] = count[k][p]]_vars
  BY <1>1
<1> QED BY <1>2, InductiveInvariant, PTL DEF Spec, DeletedPostsAreFrozen

(* The transactions of two statements implement calls that change entry    *)
(* and counter in one step and answer truthfully.                          *)
LEMMA StoreStep == IInv /\ [Next]_vars => [Store!StoreNext]_(Store!svars)
<1> SUFFICES ASSUME IInv, [Next]_vars PROVE [Store!StoreNext]_(Store!svars)
  OBVIOUS
<1> USE DEF IInv, Goto, Settle, Store!svars, Store!Answer, Store!Pending, Store!Entry, Key
<1>1. ASSUME NEW r \in Requests, Find(r) PROVE Store!Refuse(r) \/ UNCHANGED Store!svars
  BY <1>1 DEF Find, Stages, Store!Refuse
<1>2. ASSUME NEW r \in Requests, InsertRow(r) \/ DeleteRow(r)
      PROVE  Store!Nothing(r) \/ UNCHANGED Store!svars
  BY <1>2 DEF InsertRow, DeleteRow, Stages, Store!Nothing
<1>3. ASSUME NEW r \in Requests, UpdateCounter(r) \/ Publish(r) \/ SkipPublish(r)
      PROVE  UNCHANGED Store!svars
  BY <1>3 DEF UpdateCounter, Publish, SkipPublish
<1>4. ASSUME NEW r \in Requests, Erase(r) PROVE Store!Delete(r) \/ Store!Refuse(r)
  BY <1>4 DEF Erase, Stages, Store!Delete, Store!Refuse
<1>5. ASSUME NEW r \in Requests, Fail(r) PROVE Store!Abort(r)
  BY <1>5 DEF Fail, Stages, Store!Abort
<1>6. ASSUME NEW r \in Requests, Commit(r) PROVE Store!Add(r) \/ Store!Remove(r)
  <2> DEFINE k == call[r].kind  p == call[r].post
  <2>1. /\ outcome[r] = "none"
        /\ call[r].op \in {"add", "remove"}
        /\ call[r].op = "add" <=> Key(r) \notin rows
        /\ hit[r] <=> p \in live
    BY <1>6 DEF Commit, Stages, SeenEntry, InTransaction, SeenPost
  <2>2. k \in Kinds /\ p \in Posts
    BY <2>1, CallTypes
  <2>3. ASSUME p \notin live PROVE count' = count
    <3>1. Delta(r) = 0
      BY <2>1, <2>3 DEF Delta
    <3>2. count[k][p] + Delta(r) = count[k][p]
      <4>1. count[k][p] \in Nat
        BY <2>2, CountTypes
      <4> QED BY <3>1, <4>1
    <3>3. count' = [count EXCEPT ![k] = [count[k] EXCEPT ![p] = count[k][p] + Delta(r)]]
      BY <1>6 DEF Commit
    <3>4. count[k] = [count[k] EXCEPT ![p] = count[k][p] + Delta(r)]
      BY <2>2, <3>2 DEF TypeOK
    <3> QED BY <2>2, <3>3, <3>4 DEF TypeOK
  <2>4. CASE call[r].op = "add"
    BY <1>6, <2>1, <2>3, <2>4 DEF Commit, Delta, Store!Add, Store!Count
  <2>5. CASE call[r].op = "remove"
    BY <1>6, <2>1, <2>3, <2>5 DEF Commit, Delta, Store!Remove, Store!Count
  <2> QED BY <2>1, <2>4, <2>5
<1>7. UNCHANGED vars => UNCHANGED Store!svars
  BY DEF vars
<1> QED
  BY <1>1, <1>2, <1>3, <1>4, <1>5, <1>6, <1>7
  DEF Next, Handle, Terminated, Store!StoreNext

(* Atomic: the specification of statements and locks implements that of    *)
(* calls taking effect at once (InteractionStore).                         *)
THEOREM TransactionsAreAtomic == Spec => Atomic
<1>1. Init => Store!StoreInit
  BY DEF Init, Store!StoreInit, Store!Pending
<1> QED BY <1>1, InductiveInvariant, StoreStep, PTL DEF Spec, Atomic, Store!StoreSpec
-----------------------------------------------------------------------------
(* What was told and what is in the tables.  An event, on its way or out,  *)
(* is of a call that made a change somebody else has to hear of.           *)
HeardOf(r) ==
  pc[r] = "publish" \/ r \in published =>
    outcome[r] = "changed" /\ (call[r].op # "delete" => Notifies(call[r]))
Heard == \A r \in Requests : HeardOf(r)

Account == ChangesAlternate /\ Heard

(* The calls told of a change can be counted.                              *)
LEMMA ChangedFinite ==
  \A op, key : IsFiniteSet(Changed(op, key)) /\ Cardinality(Changed(op, key)) \in Nat
BY FS_Subset, FS_CardinalityType DEF Changed

(* A step that changes no entry and reports no change keeps the account.   *)
LEMMA QuietStep ==
  ASSUME Account, UNCHANGED <<call, rows>>,
         \A r \in Requests : call[r].op \in {"add", "remove"} =>
           (outcome'[r] = "changed" <=> outcome[r] = "changed"),
         \A r \in Requests : HeardOf(r)'
  PROVE  Account'
<1>1. \A op \in {"add", "remove"} : \A key : Changed(op, key)' = Changed(op, key)
  BY SameKeys DEF Changed
<1>2. ChangesAlternate'
  BY <1>1 DEF Account, ChangesAlternate
<1> QED BY <1>2 DEF Account, Heard

(* The statements before COMMIT, and what ends a call, report no change.   *)
LEMMA OtherStepsAccount ==
  ASSUME IInv, Account, NEW r \in Requests,
         Find(r) \/ InsertRow(r) \/ DeleteRow(r) \/ UpdateCounter(r) \/ Fail(r)
           \/ Publish(r) \/ SkipPublish(r)
  PROVE  Account'
<1> USE DEF IInv, Goto, Settle
<1>1. UNCHANGED <<call, rows>>
  BY DEF Find, InsertRow, DeleteRow, UpdateCounter, Fail, Publish, SkipPublish
<1>2. /\ \A s \in Requests \ {r} : pc'[s] = pc[s] /\ outcome'[s] = outcome[s]
      /\ \A s \in Requests \ {r} : s \in published' <=> s \in published
      /\ r \in published' => r \in published \/ pc[r] = "publish"
      /\ outcome'[r] = "changed" <=> outcome[r] = "changed"
      /\ pc'[r] # "publish"
  BY DEF Find, InsertRow, DeleteRow, UpdateCounter, Fail, Publish, SkipPublish, Stages, TypeOK
<1>3. \A s \in Requests : HeardOf(s)'
  BY <1>1, <1>2 DEF Account, Heard, HeardOf
<1> QED BY <1>1, <1>2, <1>3, QuietStep

(* A deletion reports its own change only.                                 *)
LEMMA EraseAccount ==
  ASSUME IInv, Account, NEW r \in Requests, Erase(r) PROVE Account'
<1> USE DEF IInv, Goto, Settle
<1>1. /\ UNCHANGED <<call, rows, published>> /\ call[r].op = "delete"
      /\ \A s \in Requests \ {r} : pc'[s] = pc[s] /\ outcome'[s] = outcome[s]
      /\ pc'[r] = "publish" => outcome'[r] = "changed"
      /\ outcome[r] = "none"
  BY DEF Erase, Stages, TypeOK
<1>2. \A s \in Requests : HeardOf(s)'
  BY <1>1 DEF Account, Heard, HeardOf
<1> QED BY <1>1, <1>2, QuietStep

(* COMMIT makes a like of an entry that was not there, an unlike of one    *)
(* that was.                                                               *)
LEMMA CommitAccount ==
  ASSUME IInv, Account, NEW r \in Requests, Commit(r) PROVE Account'
<1> USE DEF IInv, Goto, Settle
<1> DEFINE op == call[r].op
<1>1. /\ op \in {"add", "remove"} /\ outcome[r] = "none" /\ UNCHANGED <<call, published>>
      /\ op = "add" <=> Key(r) \notin rows
      /\ outcome' = [outcome EXCEPT ![r] = "changed"]
      /\ \A s \in Requests \ {r} : pc'[s] = pc[s]
      /\ pc'[r] = "publish" => Notifies(call[r])
  BY DEF Commit, Stages, SeenEntry, InTransaction, TypeOK
<1>2. /\ op = "add" => rows' = rows \cup {Key(r)}
      /\ op = "remove" => rows' = rows \ {Key(r)}
  BY <1>1 DEF Commit
<1>3. Heard'
  <2>1. \A s \in Requests \ {r} : outcome'[s] = outcome[s]
    BY <1>1
  <2>2. outcome'[r] = "changed"
    BY <1>1 DEF TypeOK
  <2>3. r \notin published
    BY <1>1 DEF Account, Heard, HeardOf
  <2> QED BY <1>1, <2>1, <2>2, <2>3 DEF Account, Heard, HeardOf
<1>4. \A x \in {"add", "remove"} : \A key :
        ~(x = op /\ key = Key(r)) => Changed(x, key)' = Changed(x, key)
  BY <1>1, SameKeys DEF Changed, TypeOK
<1>5. ChangesAlternate'
  <2> SUFFICES ASSUME NEW key \in Kinds \X Users \X Posts
               PROVE  Cardinality(Changed("add", key)') =
                        Cardinality(Changed("remove", key)') + (IF key \in rows' THEN 1 ELSE 0)
    BY DEF ChangesAlternate
  <2>1. Cardinality(Changed("add", key)) =
          Cardinality(Changed("remove", key)) + (IF key \in rows THEN 1 ELSE 0)
    BY DEF Account, ChangesAlternate
  <2>2. CASE key = Key(r)
    <3>1. Changed(op, key)' = Changed(op, key) \cup {r} /\ r \notin Changed(op, key)
      BY <1>1, <2>2, SameKeys DEF Changed, TypeOK
    <3>2. Cardinality(Changed(op, key)') = Cardinality(Changed(op, key)) + 1
      BY <3>1, ChangedFinite, FS_AddElement
    <3> QED BY <1>1, <1>2, <1>4, <2>1, <2>2, <3>2, ChangedFinite
  <2>3. CASE key # Key(r)
    BY <1>1, <1>2, <1>4, <2>1, <2>3
  <2> QED BY <2>2, <2>3
<1> QED BY <1>3, <1>5 DEF Account

(* The account is kept by every step.                                      *)
LEMMA StepAccount == IInv /\ Account /\ [Next]_vars => Account'
<1> SUFFICES ASSUME IInv, Account, [Next]_vars PROVE Account'
  OBVIOUS
<1>1. ASSUME NEW r \in Requests, Handle(r) \/ Fail(r) PROVE Account'
  BY <1>1, OtherStepsAccount, EraseAccount, CommitAccount DEF Handle
<1>2. CASE UNCHANGED vars
  BY <1>2, QuietStep DEF vars, Account, Heard, HeardOf
<1> QED BY <1>1, <1>2 DEF Next, Terminated

(* It holds at first: nothing was told and there are no entries.           *)
LEMMA InitAccount == Init => Account
<1> SUFFICES ASSUME Init PROVE Account
  OBVIOUS
<1>1. \A op, key : Changed(op, key) = {}
  BY DEF Init, Changed
<1>2. \A op, key : Cardinality(Changed(op, key)) = 0
  BY <1>1, FS_EmptySet
<1>3. ChangesAlternate
  BY <1>2 DEF Init, ChangesAlternate
<1> QED BY <1>3 DEF Init, Account, Heard, HeardOf

(* For any number of users, posts and concurrent calls, the changes told   *)
(* for one entry alternate.                                                *)
THEOREM AccountKept == Spec => []Account
BY InitAccount, StepAccount, InductiveInvariant, PTL DEF Spec

(* Two concurrent likes are not both told "liked", and no unlike is told   *)
(* twice.                                                                  *)
THEOREM AnswersAlternate == Spec => []ChangesAlternate
BY AccountKept, PTL DEF Account

(* No author hears of one like twice, of a like that did not happen, of    *)
(* his own or of a bookmark.                                               *)
THEOREM EventsEarned == Spec => []OneEventPerChange
<1>1. TypeOK /\ Account => OneEventPerChange
  <2> SUFFICES ASSUME TypeOK, Account, NEW key \in Kinds \X Users \X Posts
               PROVE  LET sent == {r \in published : call[r].op # "delete" /\ Key(r) = key} IN
                      /\ Cardinality(sent) =< Cardinality(Changed("remove", key)) + 1
                      /\ sent # {} => Author[key[3]] # key[2] /\ key[1] \in EventKinds
    BY DEF OneEventPerChange
  <2> DEFINE sent == {r \in published : call[r].op # "delete" /\ Key(r) = key}
  <2>1. sent \subseteq Changed("add", key)
    BY DEF TypeOK, Account, Heard, HeardOf, Changed, Notifies
  <2>2. IsFiniteSet(sent) /\ Cardinality(sent) =< Cardinality(Changed("add", key))
    BY <2>1, ChangedFinite, FS_Subset
  <2>3. Cardinality(Changed("add", key)) =< Cardinality(Changed("remove", key)) + 1
    BY ChangedFinite DEF Account, ChangesAlternate
  <2>4. Cardinality(sent) =< Cardinality(Changed("remove", key)) + 1
    BY <2>2, <2>3, ChangedFinite, FS_CardinalityType
  <2>5. ASSUME NEW r \in sent PROVE Author[key[3]] # key[2] /\ key[1] \in EventKinds
    BY <2>5 DEF TypeOK, Account, Heard, HeardOf, Notifies, Key
  <2> QED BY <2>4, <2>5
<1> QED BY <1>1, AccountKept, TypeCorrect, PTL
=============================================================================
