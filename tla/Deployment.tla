------------------------------ MODULE Deployment ------------------------------
(***************************************************************************)
(* The processes of docker-compose.yml: how main of each starts, what it   *)
(* insists on and what it does without, and what an outage of PostgreSQL   *)
(* or RabbitMQ leaves behind, around the queues and consumers of EventBus. *)
(* Compose creates the containers when Redis and RabbitMQ are healthy; the *)
(* restarts by docker later on (restart: unless-stopped) wait for nothing. *)
(***************************************************************************)
EXTENDS EventBus

CONSTANTS Services,       \* the processes, those of Queues among them
          Publisher,      \* content-service
          MediaService,   \* storage-service
          Gateway,        \* api-gateway
          Misconfigured,  \* those whose environment lacks what main insists on
          MaxOutages      \* bound on outages of RabbitMQ

ASSUME DeploymentAssumption ==
  /\ Queues \cup {Publisher, MediaService, Gateway} \subseteq Services
  /\ Misconfigured \subseteq Services \ {Gateway}
  /\ MaxOutages \in Nat

VARIABLES
  up,       \* which of "postgres" and "rabbitmq" answer
  stage,    \* how far main has come in each process
  linked,   \* content-service has a connection to RabbitMQ
  outages

deployment == <<up, stage, linked, outages>>
pvars == <<vars, deployment>>

Enter(s, x) == stage' = [stage EXCEPT ![s] = x]
Exit(s) == Enter(s, "starting")     \* docker starts main again
BrokerUp == "rabbitmq" \in up

PInit ==
  /\ Init
  /\ up \in {{"rabbitmq"}, {"postgres", "rabbitmq"}}
  /\ stage = [s \in Services |-> "starting"]
  /\ linked = FALSE /\ outages = 0
-----------------------------------------------------------------------------
(* NewRouter: the clients of the gateway connect when they are used, and   *)
(* so does that of Redis.                                                  *)
Independent == {Gateway}

OpenGateway ==
  /\ stage[Gateway] = "starting" /\ Gateway \in Independent
  /\ Enter(Gateway, "serving")
  /\ UNCHANGED <<vars, up, linked, outages>>

(* config.Load takes a default or "" for what the environment lacks.       *)
(* ConnectPostgres insists on DATABASE_URL and on the answer to a ping;    *)
(* main gives up without them (log.Fatal).                                 *)
Configured(s) == s \notin Misconfigured
Connects(s) == "postgres" \in up /\ (Configured(s) \/ s = MediaService)

Connect(s) ==
  /\ stage[s] = "starting" /\ s \notin Independent
  /\ IF Connects(s) THEN Enter(s, "connected") ELSE Exit(s)
  /\ UNCHANGED <<vars, up, linked, outages>>

(* The services without events.                                            *)
ServeAlone(s) ==
  /\ stage[s] = "connected" /\ s \notin Queues \cup {Publisher, MediaService}
  /\ Enter(s, "serving")
  /\ UNCHANGED <<vars, up, linked, outages>>

(* NewSupabaseStorageProvider loads the configuration and calls nobody: a  *)
(* bucket that is not there is found out by the first upload.              *)
ProviderReady == Configured(MediaService)
ServeMedia ==
  /\ stage[MediaService] = "connected"
  /\ IF ProviderReady THEN Enter(MediaService, "serving") ELSE Exit(MediaService)
  /\ UNCHANGED <<vars, up, linked, outages>>

(* NewRabbitMQ, and for the consumers Consume: a failure is a warning, and *)
(* the service serves without events for as long as it lives.              *)
JoinAsPublisher ==
  /\ stage[Publisher] = "connected" /\ Enter(Publisher, "serving")
  /\ linked' \in {FALSE, BrokerUp}
  /\ UNCHANGED <<vars, up, outages>>

(* Mutant: the consumers insist on RabbitMQ as all do on PostgreSQL. *)
JoinOrDie(q) ==
  /\ stage[q] = "connected"
  /\ \/ Boot(q) /\ BrokerUp /\ Enter(q, "serving")
     \/ ~ BrokerUp /\ Exit(q) /\ UNCHANGED vars
  /\ UNCHANGED <<up, linked, outages>>

JoinAsConsumer(q) ==
  /\ stage[q] = "connected" /\ Enter(q, "serving")
  /\ Boot(q) /\ (consumer'[q] = "on" => BrokerUp)
  /\ UNCHANGED <<up, linked, outages>>

(* A process dies, or somebody restarts it.                                *)
Die(s) ==
  /\ stage[s] = "serving" /\ Exit(s)
  /\ IF s \in Queues
       THEN (Disconnect(s) \/ Redeploy(s)) /\ consumer'[s] = "down"
       ELSE UNCHANGED vars
  /\ linked' = (linked /\ s # Publisher)
  /\ UNCHANGED <<up, outages>>
-----------------------------------------------------------------------------
PostgresChanges ==
  /\ up' \in {up \cup {"postgres"}, up \ {"postgres"}} /\ up' # up
  /\ UNCHANGED <<vars, stage, linked, outages>>

BrokerFails ==
  /\ BrokerUp /\ outages < MaxOutages /\ outages' = outages + 1
  /\ up' = up \ {"rabbitmq"}
  /\ UNCHANGED <<vars, stage, linked>>

(* Every connection has noticed by the time RabbitMQ is back.              *)
BrokerReturns ==
  /\ ~ BrokerUp /\ ~ linked /\ \A q \in Queues : consumer[q] # "on"
  /\ up' = up \cup {"rabbitmq"}
  /\ UNCHANGED <<vars, stage, linked, outages>>

(* The library closes the channels; nobody opens new ones.  The broker has *)
(* the deliveries that were not acknowledged in the queue when it is back  *)
(* (mutant: it has lost them).                                             *)
LoseLink ==
  /\ ~ BrokerUp /\ linked /\ linked' = FALSE
  /\ UNCHANGED <<vars, up, stage, outages>>

GoDeafDrops(q) ==
  /\ ~ BrokerUp /\ consumer[q] = "on"
  /\ consumer' = [consumer EXCEPT ![q] = "deaf"]
  /\ Free(q)
  /\ UNCHANGED <<unsent, declared, ready, dlq, owed, done, failures, crashes, deployment>>

GoDeaf(q) ==
  /\ ~ BrokerUp /\ consumer[q] = "on"
  /\ consumer' = [consumer EXCEPT ![q] = "deaf"]
  /\ IF Busy(q) THEN PutBack(q) /\ Free(q) ELSE UNCHANGED <<ready, job>>
  /\ UNCHANGED <<unsent, declared, dlq, owed, done, failures, crashes, deployment>>

(* On the bus itself: publishing, consuming and acknowledging need the     *)
(* broker, the handler that runs does not.                                 *)
OnBus(A) == BrokerUp /\ A /\ UNCHANGED deployment
Serve(q) == Handle(q) /\ UNCHANGED deployment

(* publishEvent: without a publisher, or with one whose connection is      *)
(* gone, the event is dropped; the request succeeds all the same.          *)
Announce(e) ==
  /\ stage[Publisher] = "serving"
  /\ IF linked /\ BrokerUp
       THEN Send(e)
       ELSE /\ e \in unsent /\ unsent' = unsent \ {e}
            /\ UNCHANGED <<declared, consumer, ready, job, dlq, owed, done, failures, crashes>>
  /\ UNCHANGED deployment

PNext ==
  \/ \E s \in Services : Connect(s) \/ ServeAlone(s) \/ Die(s)
  \/ ServeMedia \/ OpenGateway \/ JoinAsPublisher \/ PostgresChanges
  \/ BrokerFails \/ BrokerReturns \/ LoseLink
  \/ \E e \in Events : Announce(e)
  \/ \E q \in Queues : \/ JoinAsConsumer(q) \/ GoDeaf(q) \/ Serve(q)
                       \/ OnBus(Take(q)) \/ OnBus(Settle(q)) \/ OnBus(Requeue(q))
                       \/ OnBus(Ack(q))

PSpec == PInit /\ [][PNext]_pvars

(* Docker and main go on, a dead connection is noticed; the bus delivers   *)
(* and the consumers work.  Nothing makes PostgreSQL or RabbitMQ come      *)
(* back, and nothing revives a service that serves without events.         *)
PFairness ==
  /\ \A s \in Services : WF_pvars(Connect(s)) /\ WF_pvars(ServeAlone(s))
  /\ WF_pvars(ServeMedia) /\ WF_pvars(OpenGateway) /\ WF_pvars(JoinAsPublisher) /\ WF_pvars(LoseLink)
  /\ \A q \in Queues :
       /\ WF_pvars(JoinAsConsumer(q)) /\ WF_pvars(GoDeaf(q))
       /\ WF_pvars(Serve(q)) /\ WF_pvars(OnBus(Ack(q))) /\ SF_pvars(OnBus(Settle(q)))
       /\ \A e \in Events, n \in Counts : SF_pvars(OnBus(Deliver(q, e, n)))

PFairSpec == PSpec /\ PFairness
-----------------------------------------------------------------------------
(* An outage copies like a crash: what a consumer of e has answered and    *)
(* not yet acknowledged is delivered again, by every queue of e at most.   *)
DuplicatesBounded ==
  \A e \in Events :
    Cardinality(Fates(e)) =< (Cardinality(Homes(e)) * (1 + outages) + crashes)
                               * Cardinality(Futures(e, 0))

(* The API comes back by itself: whatever happens to the processes and to  *)
(* RabbitMQ, and whichever services cannot start, once PostgreSQL stays up *)
(* every other service serves again and again, and the gateway does in any *)
(* case.                                                                   *)
ComesBack ==
  /\ []<>(stage[Gateway] = "serving")
  /\ <>[]("postgres" \in up) =>
       \A s \in Services : Configured(s) => []<>(stage[s] = "serving")
=============================================================================
