----------------------------- MODULE MCDeployment -----------------------------
(* content-service, one consumer of its events, user-service, the gateway, *)
(* and a storage-service that cannot start.                                *)
EXTENDS Deployment

CONSTANT followed

MCQueues == {"notification"}
MCServices == {"content", "notification", "user", "storage", "gateway"}
MCBound == [q \in Queues |-> {followed}]
=============================================================================
