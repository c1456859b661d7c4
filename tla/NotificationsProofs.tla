-------------------------- MODULE NotificationsProofs --------------------------
(* Theorems about the store of notification-service, for any events, users *)
(* and inbox calls.                                                        *)
EXTENDS Notifications, FiniteSetTheorems, TLAPS

USE InboxAssumption

(* An UPDATE visits and marks its own user's rows, none of them twice; a   *)
(* row it has found unread is still to come, marked by it, or read.        *)
Visiting(r) ==
  /\ at[r] = "start" => earlier[r] = {} /\ left[r] = {} /\ marked[r] = {}
  /\ \A e \in left[r] \cup marked[r] : Recipient[e] = inbox[r].user
  /\ left[r] \cup marked[r] \cup seen[r] \subseteq ToSet(rows)
  /\ at[r] = "update" => seen[r] \cap unread \subseteq left[r] \cup marked[r]
Visits == \A r \in Requests : Visiting(r)

(* The locks: what an UPDATE has marked is unread until it commits, and    *)
(* nobody else's.                                                          *)
Locks ==
  \A r \in Requests : at[r] = "update" =>
    /\ marked[r] \subseteq unread
    /\ \A s \in Requests \ {r} : at[s] = "update" => marked[r] \cap marked[s] = {}

(* A row that is read was marked by exactly one call that has ended,       *)
(* whatever its caller was told.                                           *)
Over(r) == at[r] \in {"done", "failed"}
Markers(e) == {r \in Requests : Over(r) /\ e \in marked[r]}
Marked ==
  /\ \A r \in Requests : Over(r) => marked[r] \cap unread = {}
  /\ \A r, s \in Requests : Over(r) /\ Over(s) /\ r # s => marked[r] \cap marked[s] = {}
  /\ \A e \in ToSet(rows) \ unread : Markers(e) # {}

(* A call that has returned left nothing it had found, and whoever began   *)
(* later did not find it.                                                  *)
Returned(r) ==
  /\ at[r] = "done" /\ Marks(r) => seen[r] \cap unread = {}
  /\ \A m \in earlier[r] : at[m] = "done" /\ (Marks(m) => seen[m] \cap seen[r] = {})
Order == \A r \in Requests : Returned(r)

IInv == NTypeOK /\ Visits /\ Locks /\ Marked /\ Order
-----------------------------------------------------------------------------
(* A row put at the end is one more row, of a new event.                   *)
LEMMA AppendRow ==
  ASSUME NEW s \in Seq(Events), NEW e \in Events, e \notin ToSet(s), IsInjective(s)
  PROVE  /\ Append(s, e) \in Seq(Events) /\ IsInjective(Append(s, e))
         /\ ToSet(Append(s, e)) = ToSet(s) \cup {e}
<1>1. /\ Append(s, e) \in Seq(Events) /\ Len(Append(s, e)) = Len(s) + 1
      /\ \A i \in 1 .. Len(s) : Append(s, e)[i] = s[i]
      /\ Append(s, e)[Len(s) + 1] = e
      /\ DOMAIN s = 1 .. Len(s) /\ DOMAIN Append(s, e) = 1 .. Len(s) + 1
      /\ Len(s) \in Nat
  OBVIOUS
<1>2. \A i \in 1 .. Len(s) : s[i] # e
  BY <1>1 DEF ToSet
<1>3. IsInjective(Append(s, e))
  <2> SUFFICES ASSUME NEW i \in 1 .. Len(s) + 1, NEW j \in 1 .. Len(s) + 1,
                      Append(s, e)[i] = Append(s, e)[j]
               PROVE  i = j
    BY <1>1 DEF IsInjective
  <2>1. i \in 1 .. Len(s) \/ i = Len(s) + 1
    BY <1>1
  <2>2. j \in 1 .. Len(s) \/ j = Len(s) + 1
    BY <1>1
  <2>3. QED  BY <1>1, <1>2, <2>1, <2>2 DEF IsInjective
<1>4. ToSet(Append(s, e)) = ToSet(s) \cup {e}
  <2>1. 1 .. Len(s) + 1 = (1 .. Len(s)) \cup {Len(s) + 1}
    BY <1>1
  <2>2. QED  BY <1>1, <2>1 DEF ToSet
<1>5. QED  BY <1>1, <1>3, <1>4

(* What a call asks for does not change.                                   *)
LEMMA SameMarks == ASSUME UNCHANGED inbox PROVE \A r \in Requests : Marks(r)' = Marks(r)
  BY DEF Marks

(* A call that returns having read what it found keeps the order of calls. *)
LEMMA SameOrder ==
  ASSUME NTypeOK, Order, UNCHANGED <<inbox, earlier, seen>>,
         \A s \in Requests : at[s] = "done" => at'[s] = "done",
         \A s \in Requests : at'[s] = "done" /\ Marks(s) => seen[s] \cap unread' = {}
  PROVE  Order'
<1> SUFFICES ASSUME NEW s \in Requests PROVE Returned(s)'
  BY DEF Order
<1>1. \A m \in earlier[s] : m \in Requests
  BY DEF NTypeOK
<1>2. \A m \in earlier[s] : at[m] = "done" /\ (Marks(m) => seen[m] \cap seen[s] = {})
  BY DEF Order, Returned
<1>3. QED  BY <1>1, <1>2, SameMarks DEF Returned

(* The invariant holds while the store is empty.                           *)
LEMMA InitIInv == NInit => IInv
<1> SUFFICES ASSUME NInit PROVE IInv
  OBVIOUS
<1>1. rows \in Seq(Events) /\ IsInjective(rows) /\ ToSet(rows) = {}
  BY DEF NInit, ToSet, IsInjective
<1>2. NTypeOK
  BY <1>1 DEF NInit, NTypeOK
<1>3. Visits /\ Locks /\ Order
  BY DEF NInit, Visits, Visiting, Locks, Order, Returned
<1>4. Marked
  BY <1>1 DEF NInit, Marked, Over
<1>5. QED  BY <1>2, <1>3, <1>4 DEF IInv

(* A new row is one that nobody has come across.                           *)
LEMMA CreateIInv == ASSUME IInv, NEW e \in Events, Create(e) PROVE IInv'
<1> USE DEF IInv
<1>1. UNCHANGED <<inbox, at, earlier, seen, left, marked>>
  BY DEF Create
<1>2. CASE rows' = Append(rows, e) /\ unread' = unread \cup {e} /\ e \notin ToSet(rows)
  <2>1. rows' \in Seq(Events) /\ IsInjective(rows')
    BY <1>2, AppendRow DEF NTypeOK
  <2>2. ToSet(rows') = ToSet(rows) \cup {e}
    BY <1>2, AppendRow DEF NTypeOK
  <2>3. \A r \in Requests : e \notin left[r] \cup marked[r] \cup seen[r]
    BY <1>2 DEF Visits, Visiting
  <2>4. NTypeOK'
    BY <1>1, <1>2, <2>1, <2>2 DEF NTypeOK
  <2>5. Visits'
    BY <1>1, <1>2, <2>2, <2>3 DEF Visits, Visiting
  <2>6. Locks'
    BY <1>1, <1>2 DEF Locks
  <2>7. Marked'
    BY <1>1, <1>2, <2>2, <2>3 DEF Marked, Markers, Over
  <2>8. Order'
    BY <1>1, <1>2, <2>3, SameOrder DEF Order, Returned
  <2>9. QED  BY <2>4, <2>5, <2>6, <2>7, <2>8
<1>3. CASE UNCHANGED <<rows, unread>>
  BY <1>1, <1>3, SameMarks
  DEF NTypeOK, Visits, Visiting, Locks, Marked, Markers, Over, Order, Returned
<1>4. QED  BY <1>2, <1>3 DEF Create

(* A statement that begins finds what is unread: nothing that a call which *)
(* had returned was to mark.                                               *)
LEMMA FindIInv == ASSUME IInv, NEW r \in Requests, Look(r) \/ Start(r) PROVE IInv'
<1> USE DEF IInv
<1> DEFINE mine == Mine(r)
<1>1. /\ at[r] = "start" /\ UNCHANGED <<rows, unread, inbox, marked>>
      /\ earlier' = [earlier EXCEPT ![r] = {m \in Requests : at[m] = "done"}]
      /\ seen' = [seen EXCEPT ![r] = mine]
      /\ \/ ~Marks(r) /\ at' = [at EXCEPT ![r] = "done"] /\ left' = left
         \/ /\ Marks(r) /\ at' = [at EXCEPT ![r] = "update"]
            /\ left' = [left EXCEPT ![r] = mine]
  BY DEF Look, Start, Find
<1>2. /\ mine \subseteq unread /\ \A e \in mine : Recipient[e] = inbox[r].user
      /\ unread \subseteq ToSet(rows) /\ unread \subseteq Events
      /\ marked[r] = {} /\ left[r] = {} /\ earlier[r] = {}
  <2>1. mine \subseteq unread /\ \A e \in mine : Recipient[e] = inbox[r].user
    BY DEF Mine
  <2>2. unread \subseteq ToSet(rows) /\ ToSet(rows) \subseteq Events
    BY DEF NTypeOK, ToSet
  <2>3. marked[r] = {} /\ left[r] = {} /\ earlier[r] = {}
    BY <1>1 DEF Visits, Visiting
  <2>4. QED  BY <2>1, <2>2, <2>3
<1> HIDE DEF mine
<1>3. NTypeOK'
  BY <1>1, <1>2 DEF NTypeOK
<1>4. /\ at'[r] \in {"update", "done"} /\ seen'[r] = mine
      /\ earlier'[r] = {m \in Requests : at[m] = "done"}
      /\ at'[r] = "update" => left'[r] = mine /\ Marks(r)
      /\ at'[r] = "done" => left'[r] = {} /\ ~Marks(r)
      /\ \A s \in Requests \ {r} : /\ at'[s] = at[s] /\ seen'[s] = seen[s]
                                   /\ earlier'[s] = earlier[s] /\ left'[s] = left[s]
  BY <1>1, <1>2 DEF NTypeOK
<1>5. Visits'
  BY <1>1, <1>2, <1>4 DEF Visits, Visiting
<1>6. Locks'
  BY <1>1, <1>2, <1>4 DEF Locks
<1>7. Marked'
  <2>1. \A e : Markers(e)' = Markers(e)
    BY <1>1, <1>2, <1>4 DEF Markers, Over
  <2>2. QED  BY <1>1, <1>2, <1>4, <2>1 DEF Marked, Over
<1>8. Order'
  <2> SUFFICES ASSUME NEW s \in Requests PROVE Returned(s)'
    BY DEF Order
  <2>1. CASE s = r
    <3>1. \A m \in earlier'[s] : /\ m \in Requests /\ m # r /\ at[m] = "done"
                                 /\ Marks(m) => seen[m] \cap mine = {}
      BY <1>1, <1>2, <1>4, <2>1 DEF Order, Returned
    <3>2. QED  BY <1>1, <1>4, <2>1, <3>1, SameMarks DEF Returned
  <2>2. CASE s # r
    <3>1. \A m \in earlier[s] : m \in Requests /\ m # r
      BY <1>1, <2>2 DEF Order, Returned, NTypeOK
    <3>2. QED  BY <1>1, <1>4, <2>2, <3>1, SameMarks DEF Order, Returned
  <2>3. QED  BY <2>1, <2>2
<1>9. QED  BY <1>3, <1>5, <1>6, <1>7, <1>8

(* A row that is visited is nobody else's, and marked if it is unread.     *)
LEMMA VisitIInv == ASSUME IInv, NEW r \in Requests, NEW e \in Events, Visit(r, e) PROVE IInv'
<1> USE DEF IInv
<1>1. /\ at[r] = "update" /\ e \in left[r] /\ ~RowLocked(e)
      /\ UNCHANGED <<rows, unread, inbox, at, earlier, seen>>
      /\ left' = [left EXCEPT ![r] = left[r] \ {e}]
      /\ marked' = [marked EXCEPT ![r] = IF e \in unread THEN marked[r] \cup {e} ELSE marked[r]]
  BY DEF Visit
<1>2. /\ left'[r] = left[r] \ {e}
      /\ marked'[r] = IF e \in unread THEN marked[r] \cup {e} ELSE marked[r]
      /\ \A s \in Requests \ {r} : left'[s] = left[s] /\ marked'[s] = marked[s]
  BY <1>1 DEF NTypeOK
<1>3. NTypeOK'
  BY <1>1 DEF NTypeOK
<1>4. Visits'
  BY <1>1, <1>2 DEF Visits, Visiting
<1>5. Locks'
  BY <1>1, <1>2 DEF Locks, RowLocked
<1>6. Marked'
  <2>1. \A x : Markers(x)' = Markers(x)
    BY <1>1, <1>2 DEF Markers, Over
  <2>2. QED  BY <1>1, <1>2, <2>1 DEF Marked, Over
<1>7. Order'
  BY <1>1, SameOrder DEF Order, Returned
<1>8. QED  BY <1>3, <1>4, <1>5, <1>6, <1>7

(* COMMIT of the marks: they were all unread, and nobody else's.           *)
LEMMA CommitIInv ==
  ASSUME IInv, NEW r \in Requests, NEW end \in {"done", "failed"}, Commit(r, end)
  PROVE  IInv'
<1> USE DEF IInv
<1>1. /\ at[r] = "update" /\ left[r] = {} /\ unread' = unread \ marked[r]
      /\ at' = [at EXCEPT ![r] = end]
      /\ UNCHANGED <<rows, inbox, earlier, seen, left, marked>>
  BY DEF Commit
<1>2. at'[r] = end /\ \A s \in Requests \ {r} : at'[s] = at[s]
  BY <1>1 DEF NTypeOK
<1>3. NTypeOK'
  BY <1>1 DEF NTypeOK
<1>4. Visits'
  BY <1>1, <1>2 DEF Visits, Visiting
<1>5. Locks'
  BY <1>1, <1>2 DEF Locks
<1>6. Marked'
  <2>0. Over(r)' /\ ~Over(r) /\ \A s \in Requests \ {r} : Over(s)' = Over(s)
    BY <1>1, <1>2 DEF Over
  <2>1. \A e : Markers(e)' = IF e \in marked[r] THEN Markers(e) \cup {r} ELSE Markers(e)
    BY <1>1, <2>0 DEF Markers
  <2>2. \A e \in ToSet(rows)' \ unread' : Markers(e)' # {}
    BY <1>1, <2>1 DEF Marked
  <2>3. \A s \in Requests : Over(s)' => marked'[s] \cap unread' = {}
    BY <1>1, <2>0 DEF Marked
  <2>4. \A s \in Requests : Over(s) => marked[s] \cap marked[r] = {}
    BY <1>1 DEF Marked, Locks
  <2>5. \A s, t \in Requests : Over(s)' /\ Over(t)' /\ s # t =>
          marked'[s] \cap marked'[t] = {}
    BY <1>1, <2>0, <2>4 DEF Marked
  <2>6. QED  BY <2>2, <2>3, <2>5 DEF Marked
<1>7. Order'
  <2>1. seen[r] \cap unread' = {}
    BY <1>1 DEF Visits, Visiting
  <2>2. QED  BY <1>1, <1>2, <2>1, SameOrder DEF Order, Returned
<1>8. QED  BY <1>3, <1>4, <1>5, <1>6, <1>7

(* Rolled back, a call has marked nothing.                                 *)
LEMMA RollbackIInv == ASSUME IInv, NEW r \in Requests, Rollback(r) PROVE IInv'
<1> USE DEF IInv
<1>1. /\ at[r] \in {"start", "update"} /\ at' = [at EXCEPT ![r] = "failed"]
      /\ marked' = [marked EXCEPT ![r] = {}]
      /\ UNCHANGED <<rows, unread, inbox, earlier, seen, left>>
  BY DEF Rollback
<1>2. /\ at'[r] = "failed" /\ marked'[r] = {}
      /\ \A s \in Requests \ {r} : at'[s] = at[s] /\ marked'[s] = marked[s]
  BY <1>1 DEF NTypeOK
<1>3. NTypeOK'
  BY <1>1 DEF NTypeOK
<1>4. Visits' /\ Locks'
  BY <1>1, <1>2 DEF Visits, Visiting, Locks
<1>5. Marked'
  <2>1. \A e : Markers(e)' = Markers(e)
    BY <1>1, <1>2 DEF Markers, Over
  <2>2. QED  BY <1>1, <1>2, <2>1 DEF Marked, Over
<1>6. Order'
  BY <1>1, <1>2, SameOrder DEF Order, Returned
<1>7. QED  BY <1>3, <1>4, <1>5, <1>6

(* Every step keeps the invariant.                                         *)
LEMMA StepIInv == IInv /\ [NNext]_nvars => IInv'
<1> SUFFICES ASSUME IInv, [NNext]_nvars PROVE IInv'
  OBVIOUS
<1>1. CASE UNCHANGED nvars
  BY <1>1, SameMarks
  DEF IInv, nvars, NTypeOK, Visits, Visiting, Locks, Marked, Markers, Over, Order, Returned
<1>2. ASSUME NEW e \in Events, Accept(e) \/ Reject(e) PROVE IInv'
  BY <1>1, <1>2, CreateIInv DEF Accept, Reject
<1>3. CASE Inbox
  BY <1>3, FindIInv, VisitIInv, CommitIInv, RollbackIInv DEF Inbox, Finish, FinishUnheard
<1>4. QED  BY <1>1, <1>2, <1>3 DEF NNext
-----------------------------------------------------------------------------
(* The inductive invariant holds in every reachable state.                 *)
THEOREM InductiveInvariant == NSpec => []IInv
  BY InitIInv, StepIInv, PTL DEF NSpec

(* Type correctness, and one row per event.                                *)
THEOREM TypeCorrect == NSpec => []NTypeOK
  BY InductiveInvariant, PTL DEF IInv

(* Of any number of concurrent marks exactly one marks a given             *)
(* notification, its recipient's; it is told so if it is told anything.    *)
THEOREM OneMarkerEach == NSpec => []MarkedOnce
<1>1. IInv => MarkedOnce
  <2> SUFFICES ASSUME IInv, NEW e \in Events
               PROVE  /\ Cardinality(Markers(e)) = IF e \in ToSet(rows) \ unread THEN 1 ELSE 0
                      /\ \A r \in Markers(e) : inbox[r].user = Recipient[e]
    BY DEF MarkedOnce, Markers, Over
  <2> USE DEF IInv
  <2>1. \A r \in Markers(e) : inbox[r].user = Recipient[e] /\ e \in ToSet(rows) \ unread
    BY DEF Markers, Visits, Visiting, Marked
  <2>2. CASE e \in ToSet(rows) \ unread
    <3>1. PICK r : r \in Markers(e)
      BY <2>2 DEF Marked
    <3>2. Markers(e) = {r}
      BY <3>1 DEF Markers, Marked
    <3>3. Cardinality({r}) = 1
      BY FS_Singleton
    <3>4. QED  BY <2>1, <2>2, <3>2, <3>3
  <2>3. CASE e \notin ToSet(rows) \ unread
    <3>1. Markers(e) = {}
      BY <2>1, <2>3
    <3>2. QED  BY <2>1, <2>3, <3>1, FS_EmptySet
  <2>4. QED  BY <2>2, <2>3
<1>2. QED  BY <1>1, InductiveInvariant, PTL

(* What a call that marks found unread when it began is read when it has   *)
(* returned, and nobody who comes later finds it.                          *)
THEOREM MarksAreComplete == NSpec => []NothingLeftBehind
<1>1. IInv => NothingLeftBehind
  BY DEF IInv, Order, Returned, NothingLeftBehind
<1>2. QED  BY <1>1, InductiveInvariant, PTL

(* However often its event comes again, a notification stays read.         *)
THEOREM ReadStaysRead == NSpec => ReadForGood
<1>1. ASSUME NTypeOK, [NNext]_nvars PROVE [(ToSet(rows) \ unread) \cap unread' = {}]_nvars
  <2>1. ASSUME NEW e, Create(e) PROVE (ToSet(rows) \ unread) \cap unread' = {}
    BY <2>1 DEF Create
  <2>2. ASSUME UNCHANGED unread PROVE (ToSet(rows) \ unread) \cap unread' = {}
    BY <2>2
  <2>3. ASSUME Inbox PROVE (ToSet(rows) \ unread) \cap unread' = {}
    BY <2>3 DEF Inbox, Look, Start, Visit, Finish, FinishUnheard, Commit, Rollback
  <2>4. QED  BY <1>1, <2>1, <2>2, <2>3 DEF NNext, Accept, Reject, nvars
<1>2. QED  BY <1>1, TypeCorrect, PTL DEF NSpec, ReadForGood
=============================================================================
