------------------------ MODULE MCNotificationDelivery ------------------------
(* Two services on the bus: bob follows ann (both queues), and a message   *)
(* that is no Event comes to notification-service.                         *)
EXTENDS NotificationDelivery

CONSTANTS ann, bob, followed, garbage, r1

MCQueues == {"feed", "notification"}
MCBound == [q \in Queues |-> IF q = "feed" THEN {followed} ELSE Events]
MCActor == [e \in WellFormed |-> bob]
MCRecipient == [e \in WellFormed |-> ann]
=============================================================================
