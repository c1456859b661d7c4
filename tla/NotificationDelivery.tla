------------------------- MODULE NotificationDelivery -------------------------
(***************************************************************************)
(* notification-service on the bus: the handler of its queue is            *)
(* CreateFromEvent, the other queues' handlers do not touch the store.     *)
(* Main hands notificationService.CreateFromEvent to Consume; the inbox    *)
(* calls come in over gRPC meanwhile, and a process that dies takes them   *)
(* with it (Rollback).                                                     *)
(***************************************************************************)
EXTENDS EventBus

CONSTANTS NotificationQueue, Users, Actor, Recipient, Invalid, Requests, Asks, PageSize

ASSUME DeliveryAssumption == NotificationQueue \in Queues

VARIABLES rows, unread, inbox, at, earlier, seen, left, marked

(* What cannot be unmarshalled never gets to CreateFromEvent.              *)
WellFormed == Events \ Malformed
N == INSTANCE Notifications WITH Events <- WellFormed

storeVars == <<rows, unread, inbox, at, earlier, seen, left, marked>>
dvars == <<vars, storeVars>>

DInit == Init /\ N!NInit

(* Mutant: the store's error is logged and not returned.                   *)
DHandleLogsErrors(q) ==
  IF q = NotificationQueue
    THEN Succeed(q) /\ (N!Accept(job[q].event) \/ N!Reject(job[q].event))
    ELSE Handle(q) /\ UNCHANGED storeVars

(* handleEvent: nil and error decide between Ack and retry.                *)
DHandle(q) ==
  IF q = NotificationQueue
    THEN \/ Succeed(q) /\ N!Accept(job[q].event)
         \/ HandlerFails(q) /\ N!Reject(job[q].event)
    ELSE Handle(q) /\ UNCHANGED storeVars

DNext ==
  \/ \E e \in Events : Send(e) /\ UNCHANGED storeVars
  \/ \E q \in Queues :
       \/ DHandle(q)
       \/ /\ Boot(q) \/ Take(q) \/ Settle(q) \/ Requeue(q) \/ Ack(q)
             \/ Disconnect(q) \/ Redeploy(q)
          /\ UNCHANGED storeVars
  \/ N!Inbox /\ UNCHANGED vars

DSpec == DInit /\ [][DNext]_dvars
-----------------------------------------------------------------------------
(* Exactly-once effect over at-least-once delivery: an event the handler   *)
(* has succeeded on has its one notification if somebody is due one, and   *)
(* there is no notification without an event that was sent.                *)
ExactlyOnce ==
  \A e \in WellFormed :
    LET copies == Cardinality({i \in DOMAIN rows : rows[i] = e}) IN
    /\ copies =< 1
    /\ e \in done[NotificationQueue] /\ N!Due(e) => copies = 1
    /\ copies > 0 => N!Due(e) /\ e \in owed[NotificationQueue]
=============================================================================
