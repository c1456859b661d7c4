------------------------------ MODULE PostsProofs ------------------------------
(* Theorems about posts, replies and media, for any number of calls, users *)
(* and media.                                                              *)
EXTENDS Posts, FiniteSetTheorems, TLAPS

USE PostAssumption, FiniteAssumption

Calls == [op : Ops, user : Users, post : Posts \cup {None}, media : SUBSET Media]

(* Statements: past the check of the post; of an UpdatePost that has made  *)
(* sure whose post it is; of a reply that has been counted.                *)
Writing == {"count", "detach", "detaching", "attach", "attaching", "commit"}
Checked == {"reread", "detach", "detaching", "attach", "attaching", "commit"}
Counted == {"attach", "attaching", "read"}

Makes(r) == call[r].op \in {"create", "reply"}

(* Which kind of call is at which statement, and what it has made.         *)
AtStage(r) ==
  /\ (pc[r] = "idle") <=> (call[r].op = "nothing")
  /\ pc[r] = "find" => call[r].op \in {"reply", "delete"}
  /\ pc[r] = "insert" => Makes(r)
  /\ pc[r] = "count" => call[r].op = "reply"
  /\ pc[r] \in {"update", "reread", "detach", "detaching", "commit"} => call[r].op = "update"
  /\ pc[r] \in {"attach", "attaching", "read"} => Makes(r) \/ call[r].op = "update"
  /\ pc[r] \in {"erase", "sweep", "sweeping"} => call[r].op = "delete"
  /\ answer[r] # "none" => pc[r] = "done"
  /\ r \in born => Makes(r) /\ pc[r] \notin {"find", "insert"}
  /\ Makes(r) /\ pc[r] \in {"count", "attach", "attaching", "read"} => r \in born
  /\ call[r].op \in {"reply", "update", "delete"} => call[r].post \in born
  /\ pc[r] \in Checked /\ call[r].op = "update" => AuthorOf(call[r].post) = call[r].user

(* What a transaction holds: rows of its user, on its post or on none.     *)
Holds(r) ==
  /\ off[r] # {} => pc[r] \in {"attach", "attaching", "commit"} /\ call[r].op = "update"
  /\ on[r] = IF pc[r] = "commit" THEN call[r].media ELSE {}
  /\ \A m \in off[r] : home[m] = call[r].post /\ Uploader[m] = call[r].user
  /\ \A m \in on[r] : home[m] \in {None, call[r].post} /\ Uploader[m] = call[r].user

(* Whoever still writes to a deleted post was past its check then.         *)
Raced(r) == pc[r] \in Writing /\ Target(r) \in born \ live => r \in racing[Target(r)]

(* A deleted post has the media its sweep has found and those of calls     *)
(* that were under way, and in the end only the latter.                    *)
Late(p, m) == \E s \in racing[p] : m \in call[s].media
Swept(r) ==
  call[r].op = "delete" =>
    /\ pc[r] \in {"sweep", "sweeping"} \/ answer[r] = "ok" => call[r].post \notin live
    /\ pc[r] = "sweeping" => \A m \in Media :
         home[m] = call[r].post => m \in seen[r] \/ Late(call[r].post, m)
    /\ answer[r] = "ok" => \A m \in Media :
         home[m] = call[r].post /\ status[m] # "deleted" => Late(call[r].post, m)

(* The post of an UpdatePost has what is to be detached and what others    *)
(* have attached since it looked.                                          *)
Joined(r, m) == \E s \in joined[r] : m \in call[s].media
Replaces(r) ==
  call[r].op = "update" =>
    /\ pc[r] = "detaching" => \A m \in Media :
         home[m] = call[r].post => m \in seen[r] \/ Joined(r, m)
    /\ pc[r] \in {"attach", "attaching", "commit"} => \A m \in Media :
         home[m] = call[r].post => m \in off[r] \/ Joined(r, m)

Own(r) == AtStage(r) /\ Holds(r) /\ Raced(r) /\ Swept(r) /\ Replaces(r)
Owns == \A r \in Requests : Own(r)

(* Row locks.                                                              *)
Locks == \A r, s \in Requests : r # s => (off[r] \cup on[r]) \cap (off[s] \cup on[s]) = {}

(* Calls that others know of have begun.                                   *)
Known == /\ \A p \in Posts : \A s \in racing[p] : pc[s] # "idle"
         /\ \A r \in Requests : \A s \in joined[r] : pc[s] # "idle"

(* Replies that are certainly counted, and those that may be.              *)
ReplyTo(r, p) == r \in born /\ call[r].op = "reply" /\ call[r].post = p
Sure(p) == {r \in Requests : ReplyTo(r, p) /\ (pc[r] \in Counted \/ answer[r] = "ok")}
Maybe(p) == {r \in Requests : ReplyTo(r, p) /\ pc[r] # "count"}
Counting ==
  /\ \A p \in Posts \ born : replies[p] = 0
  /\ \A p \in live : Cardinality(Sure(p)) =< replies[p] /\ replies[p] =< Cardinality(Maybe(p))

IInv == /\ TypeOK /\ call \in [Requests -> Calls \cup {Nothing}]
        /\ Owns /\ Locks /\ Known /\ MediaStaysWithUploader /\ Counting
-----------------------------------------------------------------------------
(* What a call is.                                                         *)
LEMMA CallTypes ==
  ASSUME call \in [Requests -> Calls \cup {Nothing}], NEW r \in Requests
  PROVE  /\ call[r].op \in {"nothing", "create", "reply", "update", "delete"}
         /\ call[r].media \subseteq Media /\ call[r].post \in Posts \cup {None}
         /\ call[r].op # "nothing" => call[r] # Nothing /\ call[r] \in Calls
         /\ call[r].op = "nothing" => call[r] = Nothing
<1>1. CASE call[r] \in Calls
  <2>1. /\ call[r].op \in Ops /\ call[r].media \subseteq Media
        /\ call[r].post \in Posts \cup {None}
    BY <1>1 DEF Calls
  <2>2. call[r].op \in {"create", "reply", "update", "delete"}
    BY <2>1
  <2>3. QED  BY <1>1, <2>1, <2>2 DEF Nothing
<1>2. CASE call[r] = Nothing
  BY <1>2 DEF Nothing
<1>3. QED  BY <1>1, <1>2

(* The type invariant says less of the calls than is known.                *)
LEMMA CallsTyped ==
  ASSUME call \in [Requests -> Calls \cup {Nothing}]
  PROVE  \A r \in Requests : call[r] # Nothing =>
           call[r] \in [op : Ops, user : Users, post : Posts \cup {None}, media : SUBSET Media]
  BY DEF Calls

(* A set of calls has no more members than one that contains it.           *)
LEMMA FewerCalls ==
  ASSUME NEW S \in SUBSET Requests, NEW T \in SUBSET S
  PROVE  /\ IsFiniteSet(S) /\ Cardinality(S) \in Nat /\ Cardinality(T) \in Nat
         /\ Cardinality(T) =< Cardinality(S)
<1>1. IsFiniteSet(S)
  BY FS_Subset
<1>2. QED  BY <1>1, FS_Subset, FS_CardinalityType

(* The invariant holds before the first call.                              *)
LEMMA InitIInv == Init => IInv
<1> SUFFICES ASSUME Init PROVE IInv
  OBVIOUS
<1>1. call \in [Requests -> Calls \cup {Nothing}] /\ \A r \in Requests : call[r].op = "nothing"
  BY DEF Init, Nothing
<1>2. TypeOK
  <2>1. home \in [Media -> born \cup {None}] /\ born \subseteq Posts
    BY DEF Init, Posts
  <2>2. status \in [Media -> {"uploaded", "attached", "deleted"}]
    BY DEF Init
  <2>3. QED  BY <1>1, <2>1, <2>2 DEF Init, TypeOK
<1>3. \A r \in Requests : r \notin born
  BY DEF Init
<1>4. Owns
  BY <1>1, <1>3
  DEF Init, Owns, Own, AtStage, Makes, Holds, Raced, Writing, Swept, Replaces, Checked
<1>5. Locks /\ Known
  BY DEF Init, Locks, Known
<1>6. MediaStaysWithUploader
  <2> SUFFICES ASSUME NEW m \in Media
               PROVE  /\ home[m] # None => Uploader[m] = AuthorOf(home[m])
                      /\ (status[m] = "uploaded") <=> (home[m] = None)
    BY DEF MediaStaysWithUploader
  <2>1. /\ home[m] = OldHome[m] /\ OldHome[m] \in Old \cup {None}
        /\ status[m] = IF OldHome[m] = None THEN "uploaded" ELSE "attached"
    BY DEF Init
  <2>2. QED  BY <2>1 DEF AuthorOf
<1>7. Counting
  <2>1. \A p \in Posts : Sure(p) = {} /\ Maybe(p) = {}
    BY <1>3 DEF Sure, Maybe, ReplyTo
  <2>2. Cardinality({}) = 0
    BY FS_EmptySet
  <2>3. \A p \in Posts : replies[p] = 0
    BY DEF Init
  <2>4. live \subseteq Posts
    BY DEF Init, Posts
  <2>5. QED  BY <2>1, <2>2, <2>3, <2>4 DEF Counting
<1>8. QED  BY <1>1, <1>2, <1>4, <1>5, <1>6, <1>7 DEF IInv

(* Replies that are counted no better and no worse than before.            *)
LEMMA SameCounting ==
  ASSUME IInv, UNCHANGED <<call, born, live, replies>>,
         \A t \in Requests : t \in born /\ call[t].op = "reply" =>
           /\ pc'[t] \in Counted \/ answer'[t] = "ok" => pc[t] \in Counted \/ answer[t] = "ok"
           /\ pc'[t] = "count" => pc[t] = "count"
  PROVE  Counting'
<1> SUFFICES ASSUME NEW p \in live
             PROVE  Cardinality(Sure(p)') =< replies[p] /\ replies[p] =< Cardinality(Maybe(p)')
  BY DEF IInv, Counting
<1>1. p \in Posts /\ replies[p] \in Nat
  BY DEF IInv, TypeOK
<1>2. Sure(p)' \subseteq Sure(p) /\ Sure(p) \subseteq Requests
  BY DEF Sure, ReplyTo
<1>3. Maybe(p) \subseteq Maybe(p)' /\ Maybe(p)' \subseteq Requests
  BY DEF Maybe, ReplyTo
<1>4. Cardinality(Sure(p)) =< replies[p] /\ replies[p] =< Cardinality(Maybe(p))
  BY DEF IInv, Counting
<1>5. /\ Cardinality(Sure(p)) \in Nat /\ Cardinality(Sure(p)') \in Nat
      /\ Cardinality(Sure(p)') =< Cardinality(Sure(p))
  BY <1>2, FewerCalls
<1>6. /\ Cardinality(Maybe(p)) \in Nat /\ Cardinality(Maybe(p)') \in Nat
      /\ Cardinality(Maybe(p)) =< Cardinality(Maybe(p)')
  BY <1>3, FewerCalls
<1>7. QED  BY <1>1, <1>4, <1>5, <1>6

(* A step of one call that commits nothing: the call has to keep its own   *)
(* part of the invariant, and its hands off rows that others hold.         *)
LEMMA OwnIInv ==
  ASSUME IInv, TypeOK', NEW r \in Requests,
         UNCHANGED <<call, born, live, replies, home, status, racing>>,
         \A t \in Requests \ {r} :
           /\ pc'[t] = pc[t] /\ answer'[t] = answer[t] /\ seen'[t] = seen[t]
           /\ off'[t] = off[t] /\ on'[t] = on[t] /\ joined'[t] = joined[t],
         pc'[r] \notin {"idle", "count"}, joined'[r] \subseteq joined[r], Own(r)',
         \A s \in Requests \ {r} : (off'[r] \cup on'[r]) \cap (off[s] \cup on[s]) = {},
         call[r].op = "reply" /\ (pc'[r] \in Counted \/ answer'[r] = "ok") =>
           pc[r] \in Counted
  PROVE  IInv'
<1> USE DEF IInv
<1>1. Owns'
  <2> SUFFICES ASSUME NEW t \in Requests \ {r} PROVE Own(t)'
    BY DEF Owns
  <2>1. Own(t)
    BY DEF Owns
  <2>2. AtStage(t)' /\ Holds(t)'
    BY <2>1 DEF Own, AtStage, Makes, AuthorOf, Holds
  <2>3. Raced(t)' /\ Swept(t)' /\ Replaces(t)'
    BY <2>1 DEF Own, Raced, Target, Swept, Late, Replaces, Joined
  <2>4. QED  BY <2>2, <2>3 DEF Own
<1>2. Locks'
  BY DEF Locks
<1>3. Known'
  BY DEF Known, TypeOK
<1>4. MediaStaysWithUploader'
  BY DEF MediaStaysWithUploader, AuthorOf
<1>5. Counting'
  BY SameCounting
<1>6. QED  BY <1>1, <1>2, <1>3, <1>4, <1>5
(* A SELECT, or UpdateOwnPost: nothing changes but where the call is.      *)
LEMMA LookIInv ==
  ASSUME IInv, NEW r \in Requests, Find(r) \/ UpdateRow(r) \/ Reread(r) \/ Read(r)
  PROVE  IInv'
<1> USE DEF IInv
<1>1. UNCHANGED <<call, born, live, replies, home, status, seen, off, on, joined, racing>>
  BY DEF Find, UpdateRow, Reread, Read, media
<1>2. /\ pc \in [Requests -> {"idle", "find", "insert", "count", "update", "reread", "detach",
                             "detaching", "attach", "attaching", "commit", "read", "erase",
                             "sweep", "sweeping", "done"}]
      /\ answer \in [Requests -> {"none", "ok", "error"}]
  BY DEF TypeOK
<1>3. Own(r)
  BY DEF Owns
<1>4. \A t \in Requests \ {r} : pc'[t] = pc[t] /\ answer'[t] = answer[t]
  BY <1>2 DEF Find, UpdateRow, Reread, Read, Goto, Answer
<1>5. \/ /\ pc[r] = "find" /\ pc'[r] \in {"insert", "erase"} /\ answer'[r] = answer[r]
         /\ pc'[r] = "insert" => call[r].op = "reply"
         /\ pc'[r] = "erase" => call[r].op = "delete"
      \/ /\ pc[r] = "update" /\ pc'[r] = "reread" /\ answer'[r] = answer[r]
         /\ AuthorOf(call[r].post) = call[r].user
      \/ /\ pc[r] = "reread" /\ pc'[r] = "detach" /\ answer'[r] = answer[r]
         /\ call[r].post \in live
      \/ pc[r] = "read" /\ pc'[r] = "done" /\ answer'[r] = "ok"
      \/ /\ pc[r] \in {"find", "update", "reread", "read"}
         /\ pc'[r] = "done" /\ answer'[r] = "error"
  <2>1. CASE Find(r)
    BY <1>2, <1>3, <2>1 DEF Find, Goto, Answer, Own, AtStage
  <2>2. CASE UpdateRow(r)
    BY <1>2, <2>2 DEF UpdateRow, Goto, Answer
  <2>3. CASE Reread(r)
    BY <1>2, <2>3 DEF Reread, Goto, Answer
  <2>4. CASE Read(r)
    BY <1>2, <2>4 DEF Read, Goto, Answer
  <2>5. QED  BY <2>1, <2>2, <2>3, <2>4
<1>6. TypeOK'
  <2>1. pc' \in [Requests -> {"idle", "find", "insert", "count", "update", "reread", "detach",
                             "detaching", "attach", "attaching", "commit", "read", "erase",
                             "sweep", "sweeping", "done"}]
        /\ answer' \in [Requests -> {"none", "ok", "error"}]
    BY <1>2 DEF Find, UpdateRow, Reread, Read, Goto, Answer
  <2>2. QED  BY <1>1, <2>1 DEF TypeOK
<1>7. Own(r)'
  <2>1. AtStage(r)'
    BY <1>1, <1>3, <1>5 DEF Own, AtStage, Makes, Checked, AuthorOf
  <2>2. Holds(r)'
    BY <1>1, <1>3, <1>5 DEF Own, Holds
  <2>3. Raced(r)'
    BY <1>1, <1>3, <1>5 DEF Own, AtStage, Raced, Writing, Target
  <2>4. Swept(r)'
    BY <1>1, <1>3, <1>5 DEF Own, AtStage, Swept, Makes
  <2>5. Replaces(r)'
    BY <1>1, <1>5 DEF Replaces
  <2>6. QED  BY <2>1, <2>2, <2>3, <2>4, <2>5 DEF Own
<1>8. \A s \in Requests \ {r} : (off'[r] \cup on'[r]) \cap (off[s] \cup on[s]) = {}
  BY <1>1 DEF Locks
<1>9. /\ pc'[r] \notin {"idle", "count"} /\ joined'[r] \subseteq joined[r]
      /\ pc'[r] \in Counted \/ answer'[r] = "ok" => pc[r] \in Counted
  BY <1>1, <1>3, <1>5 DEF Own, AtStage, Counted
<1>10. QED  BY <1>1, <1>4, <1>6, <1>7, <1>8, <1>9, OwnIInv

(* A call that breaks off, whatever it held.                               *)
LEMMA FailIInv == ASSUME IInv, NEW r \in Requests, Fail(r) PROVE IInv'
<1> USE DEF IInv
<1>1. /\ pc[r] \notin {"idle", "done"} /\ pc' = [pc EXCEPT ![r] = "done"]
      /\ answer' = [answer EXCEPT ![r] = "error"]
      /\ off' = [off EXCEPT ![r] = {}] /\ on' = [on EXCEPT ![r] = {}]
      /\ UNCHANGED <<call, born, live, replies, home, status, seen, joined, racing>>
  BY DEF Fail, Answer
<1>2. Own(r)
  BY DEF Owns
<1>3. TypeOK'
  BY <1>1 DEF TypeOK
<1>4. /\ pc'[r] = "done" /\ answer'[r] = "error" /\ off'[r] = {} /\ on'[r] = {}
      /\ \A t \in Requests \ {r} : /\ pc'[t] = pc[t] /\ answer'[t] = answer[t]
                                   /\ off'[t] = off[t] /\ on'[t] = on[t]
  BY <1>1 DEF TypeOK
<1>5. Own(r)'
  <2>1. AtStage(r)'
    BY <1>1, <1>2, <1>4 DEF Own, AtStage, Makes, Checked, AuthorOf
  <2>2. Holds(r)' /\ Raced(r)' /\ Swept(r)' /\ Replaces(r)'
    BY <1>4 DEF Holds, Raced, Writing, Swept, Replaces
  <2>3. QED  BY <2>1, <2>2 DEF Own
<1>6. QED  BY <1>1, <1>3, <1>4, <1>5, OwnIInv DEF Counted
(* What is on the post of an UpdatePost that has passed is its user's.     *)
LEMMA AllMine ==
  ASSUME IInv, NEW r \in Requests, call[r].op = "update", pc[r] \in Checked
  PROVE  \A m \in Media : home[m] = call[r].post => m \in Mine(r)
<1>1. AtStage(r)
  BY DEF IInv, Owns, Own
<1>2. call[r].post \in born /\ AuthorOf(call[r].post) = call[r].user
  BY <1>1 DEF AtStage
<1>3. call[r].post # None
  BY <1>2 DEF IInv, TypeOK
<1>4. QED  BY <1>2, <1>3 DEF IInv, MediaStaysWithUploader, Mine, Attached

(* The snapshot of an UPDATE of media.                                     *)
LEMMA StartIInv == ASSUME IInv, NEW r \in Requests, StartMedia(r) PROVE IInv'
<1> USE DEF IInv
<1>1. PICK from, to, rows :
        /\ StartUpdate(r, from, to, rows)
        /\ \/ from = "detach" /\ to = "detaching" /\ rows = Mine(r)
           \/ from = "attach" /\ to = "attaching" /\ rows = Free(r)
           \/ from = "sweep" /\ to = "sweeping" /\ rows = Attached(r)
  BY DEF StartMedia
<1>2. /\ pc[r] = from /\ pc' = [pc EXCEPT ![r] = to] /\ seen' = [seen EXCEPT ![r] = rows]
      /\ joined' = IF from = "detach" THEN [joined EXCEPT ![r] = {}] ELSE joined
      /\ UNCHANGED <<call, answer, born, live, replies, home, status, off, on, racing>>
  BY <1>1 DEF StartUpdate, Goto
<1>3. Own(r)
  BY DEF Owns
<1>4. call[r].media \subseteq Media
  BY CallTypes
<1>5. rows \in SUBSET Media
  BY <1>1, <1>4 DEF Mine, Attached, Free
<1>6. TypeOK'
  <2>1. pc' \in [Requests -> {"idle", "find", "insert", "count", "update", "reread", "detach",
                             "detaching", "attach", "attaching", "commit", "read", "erase",
                             "sweep", "sweeping", "done"}]
    BY <1>1, <1>2 DEF TypeOK
  <2>2. seen' \in [Requests -> SUBSET Media] /\ joined' \in [Requests -> SUBSET Requests]
    BY <1>2, <1>5 DEF TypeOK
  <2>3. QED  BY <1>2, <2>1, <2>2 DEF TypeOK
<1>7. /\ pc'[r] = to /\ seen'[r] = rows /\ joined'[r] \subseteq joined[r]
      /\ from # "detach" => joined'[r] = joined[r]
      /\ \A t \in Requests \ {r} : pc'[t] = pc[t] /\ seen'[t] = seen[t] /\ joined'[t] = joined[t]
  BY <1>2 DEF TypeOK
<1>8. Own(r)'
  <2>1. AtStage(r)'
    BY <1>1, <1>2, <1>3, <1>7 DEF Own, AtStage, Makes, Checked, AuthorOf
  <2>2. Holds(r)'
    BY <1>1, <1>2, <1>3, <1>7 DEF Own, Holds
  <2>3. Raced(r)'
    BY <1>1, <1>2, <1>3, <1>7 DEF Own, Raced, Writing, Target, AtStage, Swept
  <2>4. Swept(r)'
    BY <1>1, <1>2, <1>3, <1>7 DEF Own, Swept, Late, Attached, AtStage
  <2>5. Replaces(r)'
    <3>1. CASE from = "detach"
      <4>1. \A m \in Media : home[m] = call[r].post => m \in Mine(r)
        BY <1>2, <1>3, <3>1, AllMine DEF Own, AtStage, Checked
      <4>2. QED  BY <1>1, <1>2, <1>7, <3>1, <4>1 DEF Replaces
    <3>2. CASE from # "detach"
      BY <1>1, <1>2, <1>3, <1>7, <3>2 DEF Own, Replaces, Joined
    <3>3. QED  BY <3>1, <3>2
  <2>6. QED  BY <2>1, <2>2, <2>3, <2>4, <2>5 DEF Own
<1>9. \A s \in Requests \ {r} : (off'[r] \cup on'[r]) \cap (off[s] \cup on[s]) = {}
  BY <1>2 DEF Locks
<1>10. /\ pc'[r] \notin {"idle", "count"}
       /\ pc'[r] \in Counted \/ answer'[r] = "ok" => pc[r] \in Counted
  BY <1>1, <1>2, <1>3, <1>7 DEF Own, AtStage, Counted
<1>11. QED  BY <1>2, <1>6, <1>7, <1>8, <1>9, <1>10, OwnIInv

(* The old media are taken off the post, and its rows are held.            *)
LEMMA DetachIInv == ASSUME IInv, NEW r \in Requests, Detach(r) PROVE IInv'
<1> USE DEF IInv
<1> DEFINE to == AttachOr(r, "commit")
           rows == seen[r] \cap Mine(r)
<1>1. /\ pc[r] = "detaching" /\ pc' = [pc EXCEPT ![r] = to] /\ off' = [off EXCEPT ![r] = rows]
      /\ \A s \in Requests \ {r} : (off[s] \cup on[s]) \cap seen[r] = {}
      /\ UNCHANGED <<call, answer, born, live, replies, home, status, seen, on, joined, racing>>
  BY DEF Detach, Goto, Unlocked
<1>2. Own(r)
  BY DEF Owns
<1>3. /\ call[r].op = "update" /\ on[r] = {} /\ to \in {"attach", "commit"}
      /\ to = "commit" => call[r].media = {}
  BY <1>1, <1>2 DEF Own, AtStage, Holds, AttachOr
<1>4. \A m \in Media : home[m] = call[r].post => m \in Mine(r)
  BY <1>1, <1>3, AllMine DEF Checked
<1>5. \A m \in rows : home[m] = call[r].post /\ Uploader[m] = call[r].user
  BY DEF Mine, Attached
<1>6. /\ rows \in SUBSET Media /\ rows \subseteq seen[r]
      /\ \A m \in Media : home[m] = call[r].post /\ m \in seen[r] => m \in rows
  BY <1>4 DEF TypeOK
<1> HIDE DEF to, rows
<1>7. TypeOK'
  BY <1>1, <1>3, <1>6 DEF TypeOK
<1>8. /\ pc'[r] = to /\ off'[r] = rows
      /\ \A t \in Requests \ {r} : pc'[t] = pc[t] /\ off'[t] = off[t]
  BY <1>1 DEF TypeOK
<1>9. Own(r)'
  <2>1. AtStage(r)'
    BY <1>1, <1>2, <1>3, <1>8 DEF Own, AtStage, Makes, Checked, AuthorOf
  <2>2. Holds(r)'
    BY <1>1, <1>3, <1>5, <1>8 DEF Holds
  <2>3. Raced(r)'
    BY <1>1, <1>2, <1>8 DEF Own, Raced, Writing, Target
  <2>4. Swept(r)'
    BY <1>1, <1>3 DEF Swept
  <2>5. Replaces(r)'
    BY <1>1, <1>2, <1>3, <1>6, <1>8 DEF Own, Replaces, Joined
  <2>6. QED  BY <2>1, <2>2, <2>3, <2>4, <2>5 DEF Own
<1>10. \A s \in Requests \ {r} : (off'[r] \cup on'[r]) \cap (off[s] \cup on[s]) = {}
  BY <1>1, <1>3, <1>6, <1>8
<1>11. QED  BY <1>1, <1>3, <1>7, <1>8, <1>9, <1>10, OwnIInv

(* All the media asked for are held, or the transaction is rolled back.    *)
LEMMA AttachInTransactionIInv ==
  ASSUME IInv, NEW r \in Requests, AttachInTransaction(r) PROVE IInv'
<1> USE DEF IInv
<1>1. /\ pc[r] = "attaching" /\ call[r].op = "update"
      /\ \A s \in Requests \ {r} : (off[s] \cup on[s]) \cap seen[r] = {}
      /\ UNCHANGED <<call, born, live, replies, home, status, seen, joined, racing>>
  BY DEF AttachInTransaction, Unlocked
<1>2. Own(r)
  BY DEF Owns
<1>3. call[r].media \subseteq Media /\ on[r] = {}
  BY <1>1, <1>2, CallTypes DEF Own, Holds
<1>4. CASE /\ seen[r] \cap Free(r) = call[r].media
           /\ on' = [on EXCEPT ![r] = call[r].media] /\ pc' = [pc EXCEPT ![r] = "commit"]
           /\ UNCHANGED <<answer, off>>
  <2>1. TypeOK'
    BY <1>1, <1>3, <1>4 DEF TypeOK
  <2>2. /\ pc'[r] = "commit" /\ on'[r] = call[r].media
        /\ \A t \in Requests \ {r} : pc'[t] = pc[t] /\ on'[t] = on[t]
    BY <1>4 DEF TypeOK
  <2>3. \A m \in call[r].media :
          m \in seen[r] /\ home[m] \in {None, call[r].post} /\ Uploader[m] = call[r].user
    BY <1>1, <1>2, <1>4 DEF Free, Home, Target, Own, Holds
  <2>4. Own(r)'
    <3>1. AtStage(r)'
      BY <1>1, <1>2, <1>4, <2>2 DEF Own, AtStage, Makes, Checked, AuthorOf
    <3>2. Holds(r)'
      BY <1>1, <1>2, <1>4, <2>2, <2>3 DEF Own, Holds
    <3>3. Raced(r)'
      BY <1>1, <1>2, <2>2 DEF Own, Raced, Writing, Target
    <3>4. Swept(r)'
      BY <1>1 DEF Swept
    <3>5. Replaces(r)'
      BY <1>1, <1>2, <1>4, <2>2 DEF Own, Replaces, Joined
    <3>6. QED  BY <3>1, <3>2, <3>3, <3>4, <3>5 DEF Own
  <2>5. \A s \in Requests \ {r} : (off'[r] \cup on'[r]) \cap (off[s] \cup on[s]) = {}
    BY <1>1, <1>4, <2>2, <2>3 DEF Locks
  <2>6. QED  BY <1>1, <1>4, <2>1, <2>2, <2>4, <2>5, OwnIInv
<1>5. CASE /\ off' = [off EXCEPT ![r] = {}] /\ pc' = [pc EXCEPT ![r] = "done"]
           /\ answer' = [answer EXCEPT ![r] = "error"] /\ on' = on
  <2>1. TypeOK'
    BY <1>1, <1>5 DEF TypeOK
  <2>2. /\ pc'[r] = "done" /\ answer'[r] = "error" /\ off'[r] = {}
        /\ \A t \in Requests \ {r} : pc'[t] = pc[t] /\ answer'[t] = answer[t] /\ off'[t] = off[t]
    BY <1>5 DEF TypeOK
  <2>3. Own(r)'
    <3>1. AtStage(r)'
      BY <1>1, <1>2, <2>2 DEF Own, AtStage, Makes, Checked, AuthorOf
    <3>2. Holds(r)' /\ Raced(r)' /\ Swept(r)' /\ Replaces(r)'
      BY <1>1, <1>3, <1>5, <2>2 DEF Holds, Raced, Writing, Swept, Replaces
    <3>3. QED  BY <3>1, <3>2 DEF Own
  <2>4. QED  BY <1>1, <1>3, <1>5, <2>1, <2>2, <2>3, OwnIInv
<1>6. QED  BY <1>4, <1>5 DEF AttachInTransaction, Goto, Answer
(* A request comes in; posts that are there keep their authors.            *)
LEMMA BeginIInv == ASSUME IInv, NEW r \in Requests, Begin(r) PROVE IInv'
<1> USE DEF IInv
<1>1. PICK op \in Ops, u \in Users, p \in born \cup {None}, ms \in SUBSET Media :
        /\ pc[r] = "idle" /\ ((p = None) <=> (op = "create"))
        /\ call' = [call EXCEPT ![r] = [op |-> op, user |-> u, post |-> p, media |-> ms]]
        /\ pc' = [pc EXCEPT ![r] = CASE op = "create" -> "insert"
                                     [] op = "update" -> "update"
                                     [] OTHER -> "find"]
        /\ answer' = answer
  BY DEF Begin, Goto
<1>2. UNCHANGED <<born, live, replies, home, status, seen, off, on, joined, racing>>
  BY DEF Begin, media
<1>3. op \in {"create", "reply", "update", "delete"} /\ p \in Posts \cup {None}
  BY DEF TypeOK
<1>4. Own(r)
  BY DEF Owns
<1>5. /\ r \notin born /\ off[r] = {} /\ on[r] = {} /\ answer[r] = "none"
  BY <1>1, <1>4 DEF Own, AtStage, Makes, Holds, TypeOK
<1>6. /\ call' \in [Requests -> Calls \cup {Nothing}]
      /\ call'[r].op = op /\ call'[r].post = p
      /\ \A t \in Requests \ {r} : call'[t] = call[t]
  <2>1. [op |-> op, user |-> u, post |-> p, media |-> ms] \in Calls
    BY <1>3 DEF Calls
  <2>2. QED  BY <1>1, <2>1
<1>7. /\ pc'[r] = IF op = "create" THEN "insert" ELSE IF op = "update" THEN "update" ELSE "find"
      /\ \A t \in Requests \ {r} : pc'[t] = pc[t]
  BY <1>1, <1>3 DEF TypeOK
<1>8. TypeOK'
  <2>1. pc' \in [Requests -> {"idle", "find", "insert", "count", "update", "reread", "detach",
                             "detaching", "attach", "attaching", "commit", "read", "erase",
                             "sweep", "sweeping", "done"}]
    BY <1>1, <1>3 DEF TypeOK
  <2>2. \A t \in Requests : call'[t] # Nothing => call'[t] \in
          [op : Ops, user : Users, post : Posts \cup {None}, media : SUBSET Media]
    BY <1>6 DEF Calls
  <2>3. QED  BY <1>1, <1>2, <2>1, <2>2 DEF TypeOK
<1>9. \A x \in born : AuthorOf(x)' = AuthorOf(x)
  <2>1. \A x \in born : x \in Old \/ x \in Requests \ {r}
    BY <1>5 DEF TypeOK, Posts
  <2>2. QED  BY <1>6, <2>1 DEF AuthorOf
<1>10. ASSUME NEW t \in Requests \ {r} PROVE Own(t)'
  <2>1. Own(t) /\ call'[t] = call[t] /\ pc'[t] = pc[t] /\ answer'[t] = answer[t]
    BY <1>1, <1>6, <1>7 DEF Owns
  <2>2. AtStage(t)'
    BY <1>2, <1>9, <2>1 DEF Own, AtStage, Makes
  <2>3. Holds(t)' /\ Raced(t)'
    BY <1>2, <2>1 DEF Own, Holds, Raced, Target
  <2>4. Swept(t)'
    <3>1. CASE call[t].op = "delete"
      <4>1. \A s \in racing[call[t].post] : s \in Requests /\ s # r
        BY <1>1, <2>1, <3>1 DEF Own, AtStage, Known, TypeOK
      <4>2. \A m : Late(call[t].post, m)' <=> Late(call[t].post, m)
        BY <1>2, <1>6, <2>1, <4>1 DEF Late
      <4>3. QED  BY <1>2, <2>1, <4>2 DEF Own, Swept
    <3>2. QED  BY <2>1, <3>1 DEF Swept
  <2>5. Replaces(t)'
    <3>1. \A s \in joined[t] : s \in Requests /\ s # r
      BY <1>1 DEF Known, TypeOK
    <3>2. \A m : Joined(t, m)' <=> Joined(t, m)
      BY <1>2, <1>6, <3>1 DEF Joined
    <3>3. QED  BY <1>2, <2>1, <3>2 DEF Own, Replaces
  <2>6. QED  BY <2>2, <2>3, <2>4, <2>5 DEF Own
<1>11. Own(r)'
  <2>1. AtStage(r)'
    BY <1>1, <1>2, <1>3, <1>5, <1>6, <1>7 DEF AtStage, Makes, Checked
  <2>2. Holds(r)' /\ Raced(r)' /\ Swept(r)' /\ Replaces(r)'
    BY <1>1, <1>2, <1>5, <1>7 DEF Holds, Raced, Writing, Swept, Replaces
  <2>3. QED  BY <2>1, <2>2 DEF Own
<1>12. Owns'
  BY <1>10, <1>11 DEF Owns
<1>13. Locks' /\ Known'
  BY <1>1, <1>2, <1>3, <1>7 DEF Locks, Known, TypeOK
<1>14. MediaStaysWithUploader'
  BY <1>2, <1>9 DEF MediaStaysWithUploader, TypeOK
<1>15. Counting'
  <2>1. \A x : Sure(x)' = Sure(x)
    BY <1>1, <1>2, <1>5, <1>6, <1>7 DEF Sure, ReplyTo
  <2>2. \A x : Maybe(x)' = Maybe(x)
    BY <1>1, <1>2, <1>5, <1>6, <1>7 DEF Maybe, ReplyTo
  <2>3. QED  BY <1>2, <2>1, <2>2 DEF Counting
<1>16. QED  BY <1>6, <1>8, <1>12, <1>13, <1>14, <1>15

(* The row of a new post: it is live, and nobody has replied to it.        *)
LEMMA InsertIInv == ASSUME IInv, NEW r \in Requests, Insert(r) PROVE IInv'
<1> USE DEF IInv
<1> DEFINE to == IF call[r].op = "reply" THEN "count" ELSE AttachOr(r, "read")
<1>1. /\ pc[r] = "insert" /\ born' = born \cup {r} /\ live' = live \cup {r}
      /\ pc' = [pc EXCEPT ![r] = to]
      /\ UNCHANGED <<call, answer, replies, home, status, seen, off, on, joined, racing>>
  BY DEF Insert, Goto, media
<1>2. Own(r)
  BY DEF Owns
<1>3. /\ Makes(r) /\ r \notin born /\ off[r] = {} /\ on[r] = {} /\ answer[r] = "none"
      /\ call[r].op = "reply" => call[r].post \in born
  BY <1>1, <1>2 DEF Own, AtStage, Holds, TypeOK
<1>4. to \in {"count", "attach", "read"} /\ (call[r].op = "reply" <=> to = "count")
  BY DEF AttachOr
<1> HIDE DEF to
<1>5. pc'[r] = to /\ \A t \in Requests \ {r} : pc'[t] = pc[t]
  BY <1>1 DEF TypeOK
<1>6. TypeOK'
  BY <1>1, <1>4 DEF TypeOK, Posts
<1>7. ASSUME NEW t \in Requests \ {r} PROVE Own(t)'
  <2>1. Own(t)
    BY DEF Owns
  <2>2. AtStage(t)'
    BY <1>1, <1>5, <2>1 DEF Own, AtStage, Makes, AuthorOf
  <2>3. Holds(t)' /\ Replaces(t)'
    BY <1>1, <1>5, <2>1 DEF Own, Holds, Replaces, Joined
  <2>4. Raced(t)' /\ Swept(t)'
    BY <1>1, <1>3, <1>5, <2>1 DEF Own, AtStage, Raced, Target, Swept, Late
  <2>5. QED  BY <2>2, <2>3, <2>4 DEF Own
<1>8. Own(r)'
  <2>1. AtStage(r)'
    BY <1>1, <1>2, <1>3, <1>4, <1>5 DEF Own, AtStage, Makes, Checked, AuthorOf
  <2>2. Holds(r)' /\ Raced(r)' /\ Swept(r)' /\ Replaces(r)'
    BY <1>1, <1>3, <1>4, <1>5 DEF Holds, Raced, Target, Swept, Replaces, Makes
  <2>3. QED  BY <2>1, <2>2 DEF Own
<1>9. Owns'
  BY <1>7, <1>8 DEF Owns
<1>10. Locks' /\ Known'
  BY <1>1, <1>4, <1>5 DEF Locks, Known, TypeOK
<1>11. MediaStaysWithUploader'
  BY <1>1 DEF MediaStaysWithUploader, AuthorOf
<1>12. Counting'
  <2>1. \A p : p # r => Sure(p)' = Sure(p) /\ Maybe(p)' = Maybe(p)
    BY <1>1, <1>3, <1>4, <1>5 DEF Sure, Maybe, ReplyTo, Counted
  <2>2. \A t \in Requests : t \in born' /\ call[t].op = "reply" => call[t].post \in born
    BY <1>1, <1>3 DEF Owns, Own, AtStage
  <2>3. Sure(r)' = {} /\ Maybe(r)' = {}
    BY <1>1, <1>3, <2>2 DEF Sure, Maybe, ReplyTo
  <2>4. Cardinality({}) = 0
    BY FS_EmptySet
  <2>5. replies[r] = 0
    BY <1>3 DEF Counting, Posts
  <2>6. \A p \in live : p # r
    BY <1>3 DEF TypeOK
  <2>7. \A p \in Posts \ born' : replies'[p] = 0
    BY <1>1 DEF Counting
  <2>8. ASSUME NEW p \in live'
        PROVE  Cardinality(Sure(p)') =< replies[p] /\ replies[p] =< Cardinality(Maybe(p)')
    <3>1. CASE p = r
      <4>1. Sure(p)' = {} /\ Maybe(p)' = {}
        BY <2>3, <3>1
      <4>2. QED  BY <2>4, <2>5, <3>1, <4>1
    <3>2. CASE p # r
      <4>1. p \in live
        BY <1>1, <3>2
      <4>2. QED  BY <2>1, <3>2, <4>1 DEF Counting
    <3>3. QED  BY <3>1, <3>2
  <2>9. QED  BY <1>1, <2>7, <2>8 DEF Counting
<1>13. QED  BY <1>1, <1>6, <1>9, <1>10, <1>11, <1>12
(* The parent is told of one more reply, if it has not been deleted.       *)
LEMMA CountReplyIInv == ASSUME IInv, NEW r \in Requests, CountReply(r) PROVE IInv'
<1> USE DEF IInv
<1> DEFINE to == AttachOr(r, "read")
           q == call[r].post
<1>1. /\ pc[r] = "count" /\ pc' = [pc EXCEPT ![r] = to]
      /\ replies' = IF q \in live THEN [replies EXCEPT ![q] = @ + 1] ELSE replies
      /\ UNCHANGED <<call, answer, born, live, home, status, seen, off, on, joined, racing>>
  BY DEF CountReply, Goto, media
<1>2. Own(r)
  BY DEF Owns
<1>3. /\ call[r].op = "reply" /\ r \in born /\ off[r] = {} /\ on[r] = {} /\ answer[r] = "none"
  BY <1>1, <1>2 DEF Own, AtStage, Holds, TypeOK, Makes
<1>4. to \in {"attach", "read"}
  BY DEF AttachOr
<1> HIDE DEF to
<1>5. pc'[r] = to /\ \A t \in Requests \ {r} : pc'[t] = pc[t]
  BY <1>1 DEF TypeOK
<1>6. live \subseteq Posts /\ live \subseteq born
  BY DEF TypeOK
<1>7. /\ replies' \in [Posts -> Nat]
      /\ q \in live => replies'[q] = replies[q] + 1
      /\ \A p \in Posts : p # q \/ q \notin live => replies'[p] = replies[p]
  BY <1>1, <1>6 DEF TypeOK
<1>8. TypeOK'
  BY <1>1, <1>4, <1>7 DEF TypeOK
<1>9. ASSUME NEW t \in Requests \ {r} PROVE Own(t)'
  <2>1. Own(t)
    BY DEF Owns
  <2>2. AtStage(t)' /\ Holds(t)'
    BY <1>1, <1>5, <2>1 DEF Own, AtStage, Makes, AuthorOf, Holds
  <2>3. Raced(t)' /\ Swept(t)' /\ Replaces(t)'
    BY <1>1, <1>5, <2>1 DEF Own, Raced, Target, Swept, Late, Replaces, Joined
  <2>4. QED  BY <2>2, <2>3 DEF Own
<1>10. Own(r)'
  <2>1. AtStage(r)'
    BY <1>1, <1>2, <1>3, <1>4, <1>5 DEF Own, AtStage, Makes, Checked, AuthorOf
  <2>2. Raced(r)'
    BY <1>1, <1>2, <1>5 DEF Own, Raced, Target, Writing
  <2>3. Holds(r)' /\ Swept(r)' /\ Replaces(r)'
    BY <1>1, <1>3, <1>4, <1>5 DEF Holds, Swept, Replaces
  <2>4. QED  BY <2>1, <2>2, <2>3 DEF Own
<1>11. Owns'
  BY <1>9, <1>10 DEF Owns
<1>12. Locks' /\ Known'
  BY <1>1, <1>4, <1>5 DEF Locks, Known, TypeOK
<1>13. MediaStaysWithUploader'
  BY <1>1 DEF MediaStaysWithUploader, AuthorOf
<1>14. Counting'
  <2>1. \A p \in Posts \ born' : replies'[p] = 0
    BY <1>1, <1>6, <1>7 DEF Counting
  <2>2. ASSUME NEW p \in live
        PROVE  Cardinality(Sure(p)') =< replies'[p] /\ replies'[p] =< Cardinality(Maybe(p)')
    <3>1. /\ Cardinality(Sure(p)) =< replies[p] /\ replies[p] =< Cardinality(Maybe(p))
          /\ replies[p] \in Nat
      BY <1>6 DEF Counting, TypeOK
    <3>2. CASE p # q
      <4>1. Sure(p)' = Sure(p)
        BY <1>1, <1>5, <3>2 DEF Sure, ReplyTo
      <4>2. Maybe(p)' = Maybe(p)
        BY <1>1, <1>5, <3>2 DEF Maybe, ReplyTo
      <4>3. QED  BY <1>6, <1>7, <3>1, <3>2, <4>1, <4>2
    <3>3. CASE p = q
      <4>1. Sure(p)' = Sure(p) \cup {r} /\ r \notin Sure(p)
        BY <1>1, <1>3, <1>4, <1>5, <3>3 DEF Sure, ReplyTo, Counted
      <4>2. Maybe(p)' = Maybe(p) \cup {r} /\ r \notin Maybe(p)
        BY <1>1, <1>3, <1>4, <1>5, <3>3 DEF Maybe, ReplyTo
      <4>3. /\ IsFiniteSet(Sure(p)) /\ Cardinality(Sure(p)) \in Nat
            /\ IsFiniteSet(Maybe(p)) /\ Cardinality(Maybe(p)) \in Nat
        BY FewerCalls DEF Sure, Maybe
      <4>4. Cardinality(Sure(p) \cup {r}) = Cardinality(Sure(p)) + 1
        BY <4>1, <4>3, FS_AddElement
      <4>5. Cardinality(Maybe(p) \cup {r}) = Cardinality(Maybe(p)) + 1
        BY <4>2, <4>3, FS_AddElement
      <4>6. replies'[p] = replies[p] + 1
        BY <1>7, <3>3
      <4>7. Cardinality(Sure(p)') = Cardinality(Sure(p) \cup {r})
        BY <4>1
      <4>8. Cardinality(Maybe(p)') = Cardinality(Maybe(p) \cup {r})
        BY <4>2
      <4>9. QED  BY <3>1, <4>3, <4>4, <4>5, <4>6, <4>7, <4>8
    <3>4. QED  BY <3>2, <3>3
  <2>3. QED  BY <1>1, <2>1, <2>2 DEF Counting
<1>15. QED  BY <1>1, <1>8, <1>11, <1>12, <1>13, <1>14

(* Media are attached to the post of a call and detached from it, at one   *)
(* commit, and nobody else holds them.                                     *)
Writes(r, got, gone) ==
  /\ got \subseteq call[r].media /\ gone \subseteq Media
  /\ \A m \in got : home[m] \in {None, Target(r)} /\ Uploader[m] = call[r].user
  /\ \A m \in gone : home[m] = Target(r)
  /\ \A s \in Requests \ {r} : (got \cup gone) \cap (off[s] \cup on[s]) = {}
  /\ \A m \in Media :
       /\ home'[m] = IF m \in got THEN Target(r) ELSE IF m \in gone THEN None ELSE home[m]
       /\ status'[m] = IF m \in got THEN "attached"
                        ELSE IF m \in gone THEN "uploaded" ELSE status[m]

(* Whoever has to know of it is told.                                      *)
LEMMA WriteIInv ==
  ASSUME IInv, TypeOK', NEW r \in Requests, pc[r] \in {"attaching", "commit"},
         Target(r) \in born, AuthorOf(Target(r)) = call[r].user,
         NEW got, NEW gone, Writes(r, got, gone),
         Join(r), UNCHANGED <<call, born, live, replies, seen, racing>>,
         pc'[r] \in {"read", "done"}, pc'[r] = "done" => answer'[r] = "error", AtStage(r)',
         off'[r] = {}, on'[r] = {},
         \A t \in Requests \ {r} : /\ pc'[t] = pc[t] /\ answer'[t] = answer[t]
                                   /\ off'[t] = off[t] /\ on'[t] = on[t]
  PROVE  IInv'
<1> USE DEF IInv, Writes
<1>1. Own(r) /\ answer[r] = "none"
  BY DEF Owns, Own, AtStage, TypeOK
<1>2. /\ call[r].media \subseteq Media /\ None \notin born
      /\ \A m \in gone : m \notin got => home'[m] = None
  BY CallTypes DEF TypeOK
<1>3. \A t \in Requests : /\ joined[t] \subseteq joined'[t] /\ joined'[t] \subseteq joined[t] \cup {r}
                          /\ t # r /\ call[t].op = "update" /\ call[t].post = Target(r) =>
                               r \in joined'[t]
  BY DEF Join, TypeOK
<1>4. answer'[r] # "ok"
  BY <1>1 DEF AtStage
<1>5. ASSUME NEW t \in Requests \ {r} PROVE Own(t)'
  <2>1. Own(t)
    BY DEF Owns
  <2>2. AtStage(t)' /\ Raced(t)'
    BY <2>1 DEF Own, AtStage, Makes, AuthorOf, Raced, Target
  <2>3. Holds(t)'
    <3>1. \A m \in off[t] \cup on[t] : m \in Media /\ m \notin got /\ m \notin gone
      BY DEF TypeOK
    <3>2. \A m \in off[t] \cup on[t] : home'[m] = home[m]
      BY <3>1
    <3>3. QED  BY <2>1, <3>2 DEF Own, Holds
  <2>4. Swept(t)'
    <3> SUFFICES ASSUME call[t].op = "delete" PROVE Swept(t)'
      BY DEF Swept
    <3>1. call[t].post \in born
      BY <2>1 DEF Own, AtStage
    <3>2. \A p, m : Late(p, m)' <=> Late(p, m)
      BY DEF Late
    <3>3. \A m \in got : call[t].post = Target(r) /\ Target(r) \notin live => Late(Target(r), m)
      BY <1>1 DEF Own, Raced, Writing, Late
    <3>4. \A m \in Media : home'[m] = call[t].post /\ m \notin got =>
                             home[m] = call[t].post /\ status'[m] = status[m]
      BY <1>2, <3>1
    <3>5. QED  BY <2>1, <3>1, <3>2, <3>3, <3>4 DEF Own, Swept
  <2>5. Replaces(t)'
    <3> SUFFICES ASSUME call[t].op = "update" PROVE Replaces(t)'
      BY DEF Replaces
    <3>1. call[t].post \in born
      BY <2>1 DEF Own, AtStage
    <3>2. \A m : Joined(t, m) => Joined(t, m)'
      BY <1>3 DEF Joined
    <3>3. \A m \in got : call[t].post = Target(r) => Joined(t, m)'
      BY <1>3 DEF Joined
    <3>4. \A m \in Media : home'[m] = call[t].post /\ m \notin got => home[m] = call[t].post
      BY <1>2, <3>1
    <3>5. QED  BY <2>1, <3>2, <3>3, <3>4 DEF Own, Replaces
  <2>6. QED  BY <2>2, <2>3, <2>4, <2>5 DEF Own
<1>6. Own(r)'
  <2>1. Holds(r)' /\ Raced(r)' /\ Replaces(r)'
    BY DEF Holds, Raced, Writing, Replaces
  <2>2. Swept(r)'
    BY <1>4 DEF Swept
  <2>3. QED  BY <2>1, <2>2 DEF Own
<1>7. Owns'
  BY <1>5, <1>6 DEF Owns
<1>8. Locks'
  BY DEF Locks
<1>9. Known'
  BY <1>3 DEF Known, TypeOK
<1>10. MediaStaysWithUploader'
  BY <1>2 DEF MediaStaysWithUploader, AuthorOf
<1>11. Counting'
  <2>1. pc[r] = "commit" => call[r].op = "update"
    BY <1>1 DEF Own, AtStage
  <2>2. QED  BY <1>4, <2>1, SameCounting DEF Counted
<1>12. QED  BY <1>7, <1>8, <1>9, <1>10, <1>11
(* What AttachMediaToPost finds stays attached, whatever the count.        *)
LEMMA AttachIInv == ASSUME IInv, NEW r \in Requests, Attach(r) PROVE IInv'
<1> USE DEF IInv
<1> DEFINE got == seen[r] \cap Free(r)
<1>1. /\ pc[r] = "attaching" /\ call[r].op # "update"
      /\ \A s \in Requests \ {r} : (off[s] \cup on[s]) \cap seen[r] = {}
      /\ home' = [m \in Media |-> IF m \in got THEN r ELSE home[m]]
      /\ status' = [m \in Media |-> IF m \in got THEN "attached" ELSE status[m]]
      /\ Join(r)
      /\ UNCHANGED <<call, born, live, replies, seen, off, on, racing>>
  BY DEF Attach, Unlocked
<1>2. Own(r)
  BY DEF Owns
<1>3. /\ Makes(r) /\ r \in born /\ off[r] = {} /\ on[r] = {} /\ Target(r) = r
      /\ AuthorOf(r) = call[r].user /\ call[r].media \subseteq Media
  BY <1>1, <1>2, CallTypes DEF Own, AtStage, Holds, Makes, Target, AuthorOf
<1>4. /\ got \in SUBSET call[r].media /\ got \subseteq seen[r]
      /\ \A m \in got : home[m] \in {None, r} /\ Uploader[m] = call[r].user
  BY <1>3 DEF Free, Home
<1> HIDE DEF got
<1>5. /\ pc' \in [Requests -> {"idle", "find", "insert", "count", "update", "reread", "detach",
                             "detaching", "attach", "attaching", "commit", "read", "erase",
                             "sweep", "sweeping", "done"}]
      /\ answer' \in [Requests -> {"none", "ok", "error"}]
      /\ \/ pc'[r] = "read" /\ answer'[r] = answer[r]
         \/ pc'[r] = "done" /\ answer'[r] = "error"
      /\ \A t \in Requests \ {r} : pc'[t] = pc[t] /\ answer'[t] = answer[t]
  BY DEF Attach, Goto, Answer, TypeOK
<1>6. joined' \in [Requests -> SUBSET Requests]
  BY <1>1 DEF Join, TypeOK
<1>7. TypeOK'
  <2>1. /\ home' \in [Media -> born \cup {None}]
        /\ status' \in [Media -> {"uploaded", "attached", "deleted"}]
    BY <1>1, <1>3 DEF TypeOK
  <2>2. QED  BY <1>1, <1>5, <1>6, <2>1 DEF TypeOK
<1>8. AtStage(r)'
  BY <1>1, <1>2, <1>3, <1>5 DEF Own, AtStage, Makes, Checked
<1>9. Writes(r, got, {})
  BY <1>1, <1>3, <1>4 DEF Writes
<1>10. QED  BY <1>1, <1>3, <1>5, <1>7, <1>8, <1>9, WriteIInv

(* COMMIT of ReplacePostMedia.                                             *)
LEMMA CommitIInv == ASSUME IInv, NEW r \in Requests, Commit(r) PROVE IInv'
<1> USE DEF IInv
<1>1. /\ pc[r] = "commit" /\ pc' = [pc EXCEPT ![r] = "read"] /\ answer' = answer
      /\ home' = [m \in Media |-> IF m \in on[r] THEN call[r].post ELSE Home(r, m)]
      /\ status' = [m \in Media |-> IF m \in on[r] THEN "attached"
                                     ELSE IF m \in off[r] THEN "uploaded" ELSE status[m]]
      /\ off' = [off EXCEPT ![r] = {}] /\ on' = [on EXCEPT ![r] = {}]
      /\ Join(r)
      /\ UNCHANGED <<call, born, live, replies, seen, racing>>
  BY DEF Commit, Goto
<1>2. Own(r)
  BY DEF Owns
<1>3. /\ call[r].op = "update" /\ Target(r) = call[r].post /\ call[r].post \in born
      /\ AuthorOf(call[r].post) = call[r].user /\ on[r] = call[r].media
      /\ off[r] \in SUBSET Media /\ call[r].media \subseteq Media
      /\ \A m \in off[r] : home[m] = call[r].post
      /\ \A m \in on[r] : home[m] \in {None, call[r].post} /\ Uploader[m] = call[r].user
  BY <1>1, <1>2, CallTypes DEF Own, AtStage, Checked, Holds, Target, TypeOK
<1>4. /\ pc'[r] = "read" /\ off'[r] = {} /\ on'[r] = {}
      /\ \A t \in Requests \ {r} : /\ pc'[t] = pc[t] /\ answer'[t] = answer[t]
                                   /\ off'[t] = off[t] /\ on'[t] = on[t]
  BY <1>1 DEF TypeOK
<1>5. \A m \in Media :
        /\ home'[m] = IF m \in on[r] THEN Target(r) ELSE IF m \in off[r] THEN None ELSE home[m]
        /\ status'[m] = IF m \in on[r] THEN "attached"
                         ELSE IF m \in off[r] THEN "uploaded" ELSE status[m]
  BY <1>1, <1>3 DEF Home
<1>6. joined' \in [Requests -> SUBSET Requests]
  BY <1>1 DEF Join, TypeOK
<1>7. TypeOK'
  <2>1. \A m \in Media : home'[m] \in born \cup {None}
    BY <1>3, <1>5 DEF TypeOK
  <2>2. \A m \in Media : status'[m] \in {"uploaded", "attached", "deleted"}
    BY <1>5 DEF TypeOK
  <2>3. /\ home' \in [Media -> born \cup {None}]
        /\ status' \in [Media -> {"uploaded", "attached", "deleted"}]
    BY <1>1, <2>1, <2>2
  <2>4. QED  BY <1>1, <1>6, <2>3 DEF TypeOK
<1>8. AtStage(r)'
  BY <1>1, <1>2, <1>3, <1>4 DEF Own, AtStage, Makes, Checked
<1>9. \A s \in Requests \ {r} : (on[r] \cup off[r]) \cap (off[s] \cup on[s]) = {}
  BY DEF Locks
<1>10. Writes(r, on[r], off[r])
  BY <1>3, <1>5, <1>9 DEF Writes
<1>11. QED  BY <1>1, <1>3, <1>4, <1>7, <1>8, <1>10, WriteIInv

(* The row is marked deleted: whoever is past its check of it is noted.    *)
LEMMA EraseIInv == ASSUME IInv, NEW r \in Requests, Erase(r) PROVE IInv'
<1> USE DEF IInv
<1> DEFINE q == call[r].post
<1>1. /\ pc[r] = "erase"
      /\ UNCHANGED <<call, born, replies, home, status, seen, off, on, joined>>
  BY DEF Erase, media
<1>2. Own(r)
  BY DEF Owns
<1>3. /\ call[r].op = "delete" /\ off[r] = {} /\ on[r] = {} /\ answer[r] = "none"
      /\ q \in born /\ q \in Posts /\ r \notin born
  BY <1>1, <1>2 DEF Own, AtStage, Holds, TypeOK, Makes
<1>4. CASE /\ q \in live /\ live' = live \ {q}
           /\ racing' = [racing EXCEPT ![q] =
                {s \in Requests : Target(s) = q
                   /\ pc[s] \in {"count", "detach", "detaching", "attach", "attaching", "commit"}}]
           /\ pc' = [pc EXCEPT ![r] = "sweep"] /\ answer' = answer
  <2>1. /\ pc'[r] = "sweep" /\ \A t \in Requests \ {r} : pc'[t] = pc[t]
        /\ racing'[q] = {s \in Requests : Target(s) = q /\ pc[s] \in Writing}
        /\ \A p \in Posts \ {q} : racing'[p] = racing[p]
    BY <1>3, <1>4 DEF TypeOK, Writing
  <2>2. TypeOK'
    BY <1>1, <1>3, <1>4 DEF TypeOK
  <2>3. born \subseteq Posts
    BY DEF TypeOK
  <2>4. ASSUME NEW t \in Requests \ {r} PROVE Own(t)'
    <3>1. Own(t)
      BY DEF Owns
    <3>2. AtStage(t)' /\ Holds(t)' /\ Replaces(t)'
      BY <1>1, <1>4, <2>1, <3>1
      DEF Own, AtStage, Makes, AuthorOf, Holds, Replaces, Joined
    <3>3. Raced(t)'
      BY <1>1, <1>4, <2>1, <2>3, <3>1 DEF Own, Raced, Target
    <3>4. Swept(t)'
      BY <1>1, <1>4, <2>1, <2>3, <3>1 DEF Own, AtStage, Swept, Late
    <3>5. QED  BY <3>2, <3>3, <3>4 DEF Own
  <2>5. Own(r)'
    <3>1. AtStage(r)'
      BY <1>1, <1>2, <1>3, <1>4, <2>1 DEF Own, AtStage, Makes, Checked
    <3>2. Holds(r)' /\ Raced(r)' /\ Swept(r)' /\ Replaces(r)'
      BY <1>1, <1>3, <1>4, <2>1 DEF Holds, Raced, Writing, Swept, Replaces
    <3>3. QED  BY <3>1, <3>2 DEF Own
  <2>6. Owns'
    BY <2>4, <2>5 DEF Owns
  <2>7. Locks'
    BY <1>1 DEF Locks
  <2>8. Known'
    <3>1. \A s \in Requests : pc[s] # "idle" => pc'[s] # "idle"
      BY <2>1
    <3>2. \A p \in Posts : \A s \in racing'[p] : s \in Requests /\ pc[s] # "idle"
      BY <2>1 DEF Known, TypeOK, Writing
    <3>3. \A t \in Requests : \A s \in joined[t] : s \in Requests /\ pc[s] # "idle"
      BY DEF Known, TypeOK
    <3>4. QED  BY <1>1, <3>1, <3>2, <3>3 DEF Known
  <2>9. MediaStaysWithUploader'
    BY <1>1 DEF MediaStaysWithUploader, AuthorOf
  <2>10. Counting'
    <3>1. \A p : Sure(p)' = Sure(p)
      BY <1>1, <1>3, <1>4, <2>1 DEF Sure, ReplyTo
    <3>2. \A p : Maybe(p)' = Maybe(p)
      BY <1>1, <1>3, <2>1 DEF Maybe, ReplyTo
    <3>3. QED  BY <1>1, <1>4, <3>1, <3>2 DEF Counting
  <2>11. QED  BY <1>1, <2>2, <2>6, <2>7, <2>8, <2>9, <2>10
<1>5. CASE /\ pc' = [pc EXCEPT ![r] = "done"] /\ answer' = [answer EXCEPT ![r] = "error"]
           /\ UNCHANGED <<live, racing>>
  <2>1. TypeOK'
    BY <1>1, <1>5 DEF TypeOK
  <2>2. /\ pc'[r] = "done" /\ answer'[r] = "error"
        /\ \A t \in Requests \ {r} : pc'[t] = pc[t] /\ answer'[t] = answer[t]
    BY <1>5 DEF TypeOK
  <2>3. Own(r)'
    <3>1. AtStage(r)'
      BY <1>1, <1>2, <1>3, <2>2 DEF Own, AtStage, Makes, Checked
    <3>2. Holds(r)' /\ Raced(r)' /\ Swept(r)' /\ Replaces(r)'
      BY <1>1, <1>3, <2>2 DEF Holds, Raced, Writing, Swept, Replaces
    <3>3. QED  BY <3>1, <3>2 DEF Own
  <2>4. QED  BY <1>1, <1>3, <1>5, <2>1, <2>2, <2>3, OwnIInv DEF Counted
<1>6. QED  BY <1>4, <1>5 DEF Erase, Goto, Answer

(* What the sweep has found and still finds on the post is deleted.        *)
LEMMA SweepIInv == ASSUME IInv, NEW r \in Requests, Sweep(r) PROVE IInv'
<1> USE DEF IInv
<1> DEFINE rows == seen[r] \cap Attached(r)
<1>1. /\ pc[r] = "sweeping" /\ pc' = [pc EXCEPT ![r] = "done"]
      /\ answer' = [answer EXCEPT ![r] = "ok"]
      /\ status' = [m \in Media |-> IF m \in rows THEN "deleted" ELSE status[m]]
      /\ UNCHANGED <<call, born, live, replies, home, seen, off, on, joined, racing>>
  BY DEF Sweep, Answer
<1>2. Own(r)
  BY DEF Owns
<1>3. /\ call[r].op = "delete" /\ off[r] = {} /\ on[r] = {} /\ r \notin born
      /\ call[r].post \in born /\ call[r].post # None
  BY <1>1, <1>2 DEF Own, AtStage, Holds, Makes, TypeOK
<1>4. /\ \A m \in rows : home[m] = call[r].post
      /\ \A m \in Media : home[m] = call[r].post /\ m \in seen[r] => m \in rows
  BY DEF Attached
<1> HIDE DEF rows
<1>5. /\ pc'[r] = "done" /\ answer'[r] = "ok"
      /\ \A t \in Requests \ {r} : pc'[t] = pc[t] /\ answer'[t] = answer[t]
      /\ \A m \in Media : status'[m] = IF m \in rows THEN "deleted" ELSE status[m]
  BY <1>1 DEF TypeOK
<1>6. TypeOK'
  BY <1>1 DEF TypeOK
<1>7. ASSUME NEW t \in Requests \ {r} PROVE Own(t)'
  <2>1. Own(t)
    BY DEF Owns
  <2>2. AtStage(t)' /\ Holds(t)' /\ Raced(t)' /\ Replaces(t)'
    BY <1>1, <1>5, <2>1
    DEF Own, AtStage, Makes, AuthorOf, Holds, Raced, Target, Replaces, Joined
  <2>3. Swept(t)'
    BY <1>1, <1>5, <2>1 DEF Own, Swept, Late
  <2>4. QED  BY <2>2, <2>3 DEF Own
<1>8. Own(r)'
  <2>1. AtStage(r)'
    BY <1>1, <1>2, <1>3, <1>5 DEF Own, AtStage, Makes, Checked
  <2>2. Swept(r)'
    BY <1>1, <1>2, <1>4, <1>5 DEF Own, Swept, Late
  <2>3. Holds(r)' /\ Raced(r)' /\ Replaces(r)'
    BY <1>1, <1>3, <1>5 DEF Holds, Raced, Writing, Replaces
  <2>4. QED  BY <2>1, <2>2, <2>3 DEF Own
<1>9. Owns'
  BY <1>7, <1>8 DEF Owns
<1>10. Locks' /\ Known'
  BY <1>1, <1>5 DEF Locks, Known, TypeOK
<1>11. MediaStaysWithUploader'
  BY <1>1, <1>3, <1>4, <1>5 DEF MediaStaysWithUploader, AuthorOf
<1>12. Counting'
  BY <1>1, <1>3, <1>5, SameCounting
<1>13. QED  BY <1>1, <1>6, <1>9, <1>10, <1>11, <1>12

(* Every step keeps the invariant.                                         *)
LEMMA StepIInv == IInv /\ [Next]_vars => IInv'
<1> SUFFICES ASSUME IInv, [Next]_vars PROVE IInv'
  OBVIOUS
<1>1. ASSUME NEW r \in Requests, Step(r) PROVE IInv'
  BY <1>1, LookIInv, InsertIInv, CountReplyIInv, StartIInv, DetachIInv, AttachIInv,
     AttachInTransactionIInv, CommitIInv, EraseIInv, SweepIInv
  DEF Step
<1>2. CASE UNCHANGED vars
  <2>1. TypeOK' /\ Locks' /\ Known' /\ MediaStaysWithUploader'
    BY <1>2 DEF IInv, vars, TypeOK, Locks, Known, MediaStaysWithUploader, AuthorOf
  <2>2. Owns'
    BY <1>2 DEF IInv, vars, Owns, Own, AtStage, Makes, AuthorOf, Holds, Raced, Target, Swept,
                Late, Replaces, Joined
  <2>3. Counting'
    BY <1>2, SameCounting DEF IInv, vars
  <2>4. QED  BY <1>2, <2>1, <2>2, <2>3 DEF IInv, vars
<1>3. QED  BY <1>1, <1>2, BeginIInv, FailIInv DEF Next

(* Posts keeps its inductive invariant.                                    *)
THEOREM InductiveInvariant == Spec => []IInv
BY InitIInv, StepIInv, PTL DEF Spec

(* The variables keep their types.                                         *)
THEOREM TypeCorrect == Spec => []TypeOK
<1>1. IInv => TypeOK
  BY DEF IInv
<1>2. QED  BY <1>1, InductiveInvariant, PTL

(* Nobody's upload ends up on somebody else's post, and "uploaded" means   *)
(* being on no post (AttachMediaToPost, ReplacePostMedia).                 *)
THEOREM MediaAreTheAuthors == Spec => []MediaStaysWithUploader
<1>1. IInv => MediaStaysWithUploader
  BY DEF IInv
<1>2. QED  BY <1>1, InductiveInvariant, PTL

(* When DeletePost has succeeded all media of the post are deleted, but    *)
(* for those of calls that were past their check (DeleteOwnPost).          *)
THEOREM DeletedPostsAreSwept == Spec => []DeletedPostsLoseMedia
<1>1. IInv => DeletedPostsLoseMedia
  BY DEF IInv, Owns, Own, Swept, Late, DeletedPostsLoseMedia
<1>2. QED  BY <1>1, InductiveInvariant, PTL

(* reply_count counts every reply that was answered with success and       *)
(* nothing that is not a reply (IncrementReplyCount).                      *)
THEOREM ReplyCountsCorrect == Spec => []RepliesCounted
<1>1. IInv => RepliesCounted
  <2> SUFFICES ASSUME IInv, NEW p \in live
               PROVE  LET made == {r \in born \ Old : call[r].op = "reply" /\ call[r].post = p} IN
                      /\ Cardinality({r \in made : answer[r] = "ok"}) =< replies[p]
                      /\ replies[p] =< Cardinality(made)
    BY DEF RepliesCounted
  <2> DEFINE made == {r \in born \ Old : call[r].op = "reply" /\ call[r].post = p}
             good == {r \in made : answer[r] = "ok"}
  <2>1. made \subseteq Requests /\ Maybe(p) \subseteq made
    BY DEF IInv, TypeOK, Posts, Maybe, ReplyTo
  <2>2. good \subseteq Sure(p) /\ Sure(p) \subseteq Requests
    BY <2>1 DEF Sure, ReplyTo
  <2>3. /\ Cardinality(Sure(p)) =< replies[p] /\ replies[p] =< Cardinality(Maybe(p))
        /\ replies[p] \in Nat
    BY DEF IInv, Counting, TypeOK
  <2> HIDE DEF made, good
  <2>4. /\ Cardinality(good) \in Nat /\ Cardinality(Sure(p)) \in Nat
        /\ Cardinality(good) =< Cardinality(Sure(p))
    BY <2>2, FewerCalls
  <2>5. /\ Cardinality(made) \in Nat /\ Cardinality(Maybe(p)) \in Nat
        /\ Cardinality(Maybe(p)) =< Cardinality(made)
    BY <2>1, FewerCalls
  <2>6. Cardinality(good) =< replies[p] /\ replies[p] =< Cardinality(made)
    BY <2>3, <2>4, <2>5
  <2>7. QED  BY <2>6 DEF made, good
<1>2. QED  BY <1>1, InductiveInvariant, PTL
(* Media leave a post only by an UpdatePost of that post that goes through *)
(* (ReplacePostMedia commits or rolls back).                               *)
THEOREM MediaLeaveOnlyByUpdate == Spec => MediaLeaveByUpdate
<1> DEFINE A == \A m \in Media : home[m] # None /\ home'[m] # home[m] =>
                  \E r \in Requests : pc[r] = "commit" /\ pc'[r] = "read" /\ call[r].post = home[m]
<1>1. IInv /\ [Next]_vars => [A]_vars
  <2> SUFFICES ASSUME IInv, Next PROVE A
    OBVIOUS
  <2>1. CASE home' = home
    BY <2>1
  <2>2. ASSUME NEW r \in Requests, Attach(r) PROVE home' = home \/ A
    <3>1. /\ pc[r] = "attaching" /\ call[r].op # "update" /\ Holds(r)
          /\ home' = [m \in Media |-> IF m \in seen[r] \cap Free(r) THEN r ELSE home[m]]
      BY <2>2 DEF Attach, IInv, Owns, Own
    <3>2. off[r] = {} /\ (Makes(r) => Target(r) = r) /\ Makes(r)
      BY <3>1 DEF Holds, Makes, Target, IInv, Owns, Own, AtStage
    <3>3. \A m \in Free(r) : home[m] \in {None, r}
      BY <3>2 DEF Free, Home
    <3>4. QED  BY <3>1, <3>3
  <2>3. ASSUME NEW r \in Requests, Commit(r) PROVE A
    <3>1. /\ pc[r] = "commit" /\ pc' = [pc EXCEPT ![r] = "read"] /\ Holds(r)
          /\ home' = [m \in Media |-> IF m \in on[r] THEN call[r].post ELSE Home(r, m)]
      BY <2>3 DEF Commit, Goto, IInv, Owns, Own
    <3>2. pc'[r] = "read"
      BY <3>1 DEF IInv, TypeOK
    <3>3. \A m \in Media : home[m] # None /\ home'[m] # home[m] => home[m] = call[r].post
      BY <3>1 DEF Holds, Home
    <3>4. QED  BY <3>1, <3>2, <3>3
  <2>4. QED
    BY <2>1, <2>2, <2>3
    DEF Next, Step, Begin, Find, Insert, CountReply, UpdateRow, Reread, StartMedia, StartUpdate,
        Detach, AttachInTransaction, Read, Erase, Sweep, Fail, media
<1>2. QED  BY <1>1, InductiveInvariant, PTL DEF Spec, MediaLeaveByUpdate

(* After UpdatePost a post has the media asked for; others on it were      *)
(* attached meanwhile by another call on the same post.                    *)
THEOREM UpdatedMediaAsAsked == Spec => UpdateReplacesMedia
<1> DEFINE A == \A r \in Requests : pc[r] = "commit" /\ pc'[r] = "read" =>
                  LET result == {m \in Media : home'[m] = call[r].post} IN
                  /\ call[r].media \subseteq result
                  /\ \A m \in result \ call[r].media : \E s \in joined[r] : m \in call[s].media
<1>1. IInv /\ [Next]_vars => [A]_vars
  <2> SUFFICES ASSUME IInv, [Next]_vars, NEW r \in Requests, pc[r] = "commit", pc'[r] = "read"
               PROVE  LET result == {m \in Media : home'[m] = call[r].post} IN
                      /\ call[r].media \subseteq result
                      /\ \A m \in result \ call[r].media :
                           \E s \in joined[r] : m \in call[s].media
    OBVIOUS
  <2>1. Commit(r)
    <3>1. \A t \in Requests \ {r} : Begin(t) \/ Step(t) \/ Fail(t) => pc'[r] = pc[r]
      BY DEF IInv, TypeOK, Begin, Step, Find, Insert, CountReply, UpdateRow, Reread, StartMedia,
             StartUpdate, Detach, Attach, AttachInTransaction, Commit, Read, Erase, Sweep, Fail,
             Goto, Answer
    <3>2. Begin(r) \/ Step(r) \/ Fail(r)
      BY <3>1 DEF Next, vars
    <3>3. QED
      BY <3>2
      DEF IInv, TypeOK, Begin, Step, Find, Insert, CountReply, UpdateRow, Reread, StartMedia,
          StartUpdate, Detach, Attach, AttachInTransaction, Read, Erase, Sweep, Fail, Answer
  <2>2. Own(r) /\ call[r].media \subseteq Media
    BY CallTypes DEF IInv, Owns
  <2>3. /\ on[r] = call[r].media /\ call[r].op = "update" /\ call[r].post \in born
        /\ \A m \in Media : home[m] = call[r].post => m \in off[r] \/ Joined(r, m)
    BY <2>2 DEF Own, AtStage, Holds, Replaces
  <2>4. call[r].post # None
    BY <2>3 DEF IInv, TypeOK
  <2>5. \A m \in Media : home'[m] = IF m \in on[r] THEN call[r].post
                                     ELSE IF m \in off[r] THEN None ELSE home[m]
    BY <2>1 DEF Commit, Home
  <2>6. QED  BY <2>2, <2>3, <2>4, <2>5 DEF Joined
<1>2. QED  BY <1>1, InductiveInvariant, PTL DEF Spec, UpdateReplacesMedia
=============================================================================
