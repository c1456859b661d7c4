---------------------------- MODULE Notifications ----------------------------
(***************************************************************************)
(* The store of notification-service: CreateFromEvent, called for an event *)
(* any number of times (delivery is at least once), against the inbox      *)
(* calls MarkNotificationRead, MarkAllNotificationsRead, GetNotifications  *)
(* and GetUnreadNotificationCount.  The last two are one SELECT.           *)
(*                                                                         *)
(* The first two are one UPDATE ... WHERE recipient_id = ? AND read_at  *)
(* IS NULL.  Under READ COMMITTED it finds its rows in the snapshot it     *)
(* starts with and locks them one by one, looking again at a row it had to *)
(* wait for.                                                               *)
(***************************************************************************)
EXTENDS Integers, FiniteSets, SequencesExt

CONSTANTS Events, Users, Actor, Recipient,
          Invalid,     \* events with an id or a user missing or unparsable
          Requests,    \* inbox calls
          Asks,        \* what they may be: a notification to mark, "all", "list", "count"
          PageSize     \* the limit of a list

ASSUME InboxAssumption == /\ Actor \in [Events -> Users]
                          /\ Recipient \in [Events -> Users]
                          /\ Invalid \subseteq Events
                          /\ Asks \subseteq Events \cup {"all", "list", "count"}
                          /\ PageSize \in Nat \ {0}

VARIABLES
  rows,      \* the event_ids of the rows of notifications, in order of created_at
  unread,    \* the events of rows with read_at NULL
  inbox,     \* the inbox call: its user, and what it asks for
  at,        \* where its statement is
  earlier,   \* the calls that had returned when it began
  seen,      \* the unread rows it finds in its snapshot
  left,      \* those it has still to visit
  marked     \* the rows it has marked; none once it is rolled back

nvars == <<rows, unread, inbox, at, earlier, seen, left, marked>>

Due(e) == e \notin Invalid /\ Actor[e] # Recipient[e]

NInit ==
  /\ rows = <<>>
  /\ unread = {}
  /\ inbox \in [Requests -> [user : Users, what : Asks]]
  /\ at = [r \in Requests |-> "start"]
  /\ earlier = [r \in Requests |-> {}]
  /\ seen = [r \in Requests |-> {}]
  /\ left = [r \in Requests |-> {}]
  /\ marked = [r \in Requests |-> {}]

(* INSERT ... ON CONFLICT (event_id) DO NOTHING                            *)
Create(e) ==
  /\ IF e \notin ToSet(rows)
       THEN rows' = Append(rows, e) /\ unread' = unread \cup {e}
       ELSE UNCHANGED <<rows, unread>>
  /\ UNCHANGED <<inbox, at, earlier, seen, left, marked>>

(* CreateFromEvent returning nil: nobody is told of his own doings.        *)
Accept(e) ==
  /\ e \notin Invalid
  /\ IF Due(e) THEN Create(e) ELSE UNCHANGED nvars

(* CreateFromEvent returning an error: the event is invalid, the INSERT    *)
(* failed, or it went through and only its answer was lost.                *)
Reject(e) ==
  \/ UNCHANGED nvars
  \/ Due(e) /\ Create(e)

(* FindByRecipientID: ORDER BY created_at DESC LIMIT                       *)
Page(u) ==
  LET his == SelectSeq(rows, LAMBDA e : Recipient[e] = u) IN
  {his[i] : i \in {j \in DOMAIN his : j > Len(his) - PageSize}}

Mine(r) == {e \in unread : /\ Recipient[e] = inbox[r].user
                           /\ inbox[r].what \in {e, "all", "count", "list"}
                           /\ inbox[r].what = "list" => e \in Page(inbox[r].user)}

Marks(r) == inbox[r].what \in Events \cup {"all"}

Find(r) ==
  /\ at[r] = "start"
  /\ earlier' = [earlier EXCEPT ![r] = {m \in Requests : at[m] = "done"}]
  /\ seen' = [seen EXCEPT ![r] = Mine(r)]

(* A list, of which seen keeps what it shows as unread; a count.           *)
Look(r) ==
  /\ ~ Marks(r) /\ Find(r)
  /\ at' = [at EXCEPT ![r] = "done"]
  /\ UNCHANGED <<rows, unread, inbox, left, marked>>

Start(r) ==
  /\ Marks(r) /\ Find(r)
  /\ at' = [at EXCEPT ![r] = "update"]
  /\ left' = [left EXCEPT ![r] = Mine(r)]
  /\ UNCHANGED <<rows, unread, inbox, marked>>

RowLocked(e) == \E r \in Requests : at[r] = "update" /\ e \in marked[r]

(* Mutants: read_at is not looked at; locked rows are skipped. *)
VisitUnchecked(r, e) ==
  /\ at[r] = "update" /\ e \in left[r]
  /\ ~RowLocked(e)
  /\ left' = [left EXCEPT ![r] = @ \ {e}]
  /\ marked' = [marked EXCEPT ![r] = @ \cup {e}]
  /\ UNCHANGED <<rows, unread, inbox, at, earlier, seen>>

VisitSkipLocked(r, e) ==
  /\ at[r] = "update" /\ e \in left[r]
  /\ left' = [left EXCEPT ![r] = @ \ {e}]
  /\ marked' = [marked EXCEPT ![r] = IF e \in unread /\ ~RowLocked(e) THEN @ \cup {e} ELSE @]
  /\ UNCHANGED <<rows, unread, inbox, at, earlier, seen>>

(* The next row: read_at IS NULL is checked again under the lock.          *)
Visit(r, e) ==
  /\ at[r] = "update" /\ e \in left[r]
  /\ ~RowLocked(e)
  /\ left' = [left EXCEPT ![r] = @ \ {e}]
  /\ marked' = [marked EXCEPT ![r] = IF e \in unread THEN @ \cup {e} ELSE @]
  /\ UNCHANGED <<rows, unread, inbox, at, earlier, seen>>

Commit(r, end) ==
  /\ at[r] = "update" /\ left[r] = {}
  /\ unread' = unread \ marked[r]
  /\ at' = [at EXCEPT ![r] = end]
  /\ UNCHANGED <<rows, inbox, earlier, seen, left, marked>>

Finish(r) == Commit(r, "done")

(* The rows are read, but the call returns an error: the answer to COMMIT  *)
(* is lost, or the deadline of the gateway passes before it comes.         *)
FinishUnheard(r) == Commit(r, "failed")

(* The statement fails, or Postgres breaks a deadlock of two mark-alls.    *)
Rollback(r) ==
  /\ at[r] \in {"start", "update"}
  /\ at' = [at EXCEPT ![r] = "failed"]
  /\ marked' = [marked EXCEPT ![r] = {}]
  /\ UNCHANGED <<rows, unread, inbox, earlier, seen, left>>

Inbox == \E r \in Requests : \/ Look(r) \/ Start(r) \/ Rollback(r)
                             \/ Finish(r) \/ FinishUnheard(r)
                             \/ \E e \in Events : Visit(r, e)

NNext == (\E e \in Events : Accept(e) \/ Reject(e)) \/ Inbox

NSpec == NInit /\ [][NNext]_nvars
-----------------------------------------------------------------------------
(* Types.  One row per event at most, the unique index on event_id.        *)
NTypeOK ==
  /\ rows \in Seq(Events) /\ IsInjective(rows)
  /\ unread \subseteq ToSet(rows)
  /\ inbox \in [Requests -> [user : Users, what : Asks]]
  /\ at \in [Requests -> {"start", "update", "done", "failed"}]
  /\ earlier \in [Requests -> SUBSET Requests]
  /\ seen \in [Requests -> SUBSET Events]
  /\ left \in [Requests -> SUBSET Events]
  /\ marked \in [Requests -> SUBSET Events]

(* Concurrent marks are neither doubled nor dropped.  A read notification  *)
(* was marked by one call only, and it was the recipient's; that call was  *)
(* told so ("notification marked as read", updated_count) unless it failed *)
(* when its UPDATE had gone through.  No call that was told has marked     *)
(* what is unread.                                                         *)
MarkedOnce ==
  \A e \in Events :
    LET markers == {r \in Requests : at[r] \in {"done", "failed"} /\ e \in marked[r]} IN
    /\ Cardinality(markers) = IF e \in ToSet(rows) \ unread THEN 1 ELSE 0
    /\ \A r \in markers : inbox[r].user = Recipient[e]

(* A notification that was read never turns unread again, however often    *)
(* its event is delivered afterwards.                                      *)
ReadForGood == [][(ToSet(rows) \ unread) \cap unread' = {}]_nvars

(* After a mark that returned, every notification that was unread when its *)
(* UPDATE began is read - a row that another caller had locked and then    *)
(* rolled back is not skipped - and no later list, count or mark finds it  *)
(* unread.                                                                 *)
NothingLeftBehind ==
  \A r \in Requests : at[r] = "done" =>
    /\ Marks(r) => seen[r] \cap unread = {}
    /\ \A m \in earlier[r] : Marks(m) => seen[m] \cap seen[r] = {}
=============================================================================
