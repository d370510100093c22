--------------------------- MODULE ClusterLifecycle ---------------------------
(***************************************************************************)
(* The life of the clusters of one fuzzer engine over several test runs:   *)
(* creation with retries (error_handler.py, cluster_coordinator.py), the   *)
(* spawning, awaiting, forming and terminating of node processes           *)
(* (orchestrator.py), clean-up, and the client caches that the engine's    *)
(* two cluster managers keep from run to run.                              *)
(***************************************************************************)
EXTENDS Integers, FiniteSets, Countdown

CONSTANTS
  NumNodes,     \* nodes of a cluster
  BasePorts,    \* base ports a scenario may have
  MaxAttempts,  \* attempts at creating a cluster
  MaxRuns,      \* bound: test runs of the engine
  MaxPolls      \* bound: polls of a node within its deadline

ASSUME LifecycleAssumption ==
  /\ NumNodes \in Nat \ {0}
  /\ BasePorts \subseteq Nat \ {0}
  /\ MaxAttempts \in Nat \ {0}
  /\ MaxRuns \in Nat
  /\ MaxPolls \in Nat \ {0}

Index == 0 .. NumNodes - 1      \* node-0, node-1, ...

\* A node process: the cluster it was spawned for and the port it listens on.
Process == [run : 1..MaxRuns, attempt : 1..MaxAttempts, index : Index, port : Nat]

\* ClusterManager.connections: the port of the client cached for each node.
NoClient == 0
NoConnections == [i \in Index |-> NoClient]

VARIABLES
  stage,        \* what the engine is doing
  run,          \* the current test run
  attempt,      \* its attempt at creating a cluster
  basePort,     \* the base port of its scenario
  spawned,      \* node_info_list: nodes spawned so far in this attempt
  ready,        \* nodes found ready so far
  polls,        \* polls of the node being waited for
  starting,     \* processes that do not listen yet
  up,           \* processes that listen on their port
  coordinatorClients,   \* the cluster coordinator's cached clients
  operationClients,     \* the operation orchestrator's cached clients
  activeClusters,       \* runs whose cluster the coordinator knows
  escaped               \* history: attempts an exception escaped from

engineVars  == <<run, attempt, basePort>>
spawnVars   == <<spawned, ready, polls>>
processVars == <<starting, up>>
clientVars  == <<coordinatorClients, operationClients>>
vars == <<stage, engineVars, spawnVars, processVars, clientVars, activeClusters, escaped>>

\* PortManager hands out the ports from the base port upwards.
Port(i) == basePort + i

Own(i) == [run |-> run, attempt |-> attempt, index |-> i, port |-> Port(i)]

\* The attempt process p belongs to.
AttemptOf(p) == <<p.run, p.attempt>>

OwnNodes == {Own(i) : i \in 0 .. spawned - 1}

Processes == starting \cup up

\* Ports on which somebody answers.
Answering == {p.port : p \in up}

----------------------------------------------------------------------------
(* Processes (external) *)

\* A process binds its port, which at most one can.
Listen(p) ==
  /\ p \in starting
  /\ p.port \notin Answering
  /\ starting' = starting \ {p}
  /\ up' = up \cup {p}
  /\ UNCHANGED <<stage, engineVars, spawnVars, clientVars, activeClusters, escaped>>

\* A process cannot bind its port, crashes, or is killed by chaos.
Die(p) ==
  /\ p \in Processes
  /\ starting' = starting \ {p}
  /\ up' = up \ {p}
  /\ UNCHANGED <<stage, engineVars, spawnVars, clientVars, activeClusters, escaped>>

----------------------------------------------------------------------------
(* Spawning *)

\* execute_test, up to the first attempt at creating the cluster.
BeginRun ==
  /\ stage = "idle"
  /\ run < MaxRuns
  /\ \E b \in BasePorts : basePort' = b
  /\ run' = run + 1
  /\ attempt' = 1
  /\ spawned' = 0
  /\ stage' = "create"
  /\ UNCHANGED <<ready, polls, processVars, clientVars, activeClusters, escaped>>

\* The binary is found or built and the topology planned, or one of them fails.
PlanCluster ==
  /\ stage = "create"
  /\ stage' \in {"spawn", "failed"}
  /\ UNCHANGED <<engineVars, spawnVars, processVars, clientVars, activeClusters, escaped>>

SpawnNode ==
  /\ stage = "spawn"
  /\ starting' = starting \cup {Own(spawned)}
  /\ spawned' = spawned + 1
  /\ ready' = 0
  /\ polls' = 0
  /\ stage' = IF spawned' = NumNodes THEN "await" ELSE "spawn"
  /\ UNCHANGED <<engineVars, up, clientVars, activeClusters, escaped>>

\* terminate_node on each of some nodes: SIGTERM, then SIGKILL, and wait.
Terminate(nodes) ==
  /\ starting' = starting \ nodes
  /\ up' = up \ nodes

FailAttempt ==
  /\ stage' = "failed"
  /\ UNCHANGED <<engineVars, spawnVars, operationClients, activeClusters>>

\* Faulty variant of SpawnError: the nodes spawned so far are left running.
SpawnErrorLeaking ==
  /\ stage = "spawn"
  /\ FailAttempt
  /\ UNCHANGED <<processVars, coordinatorClients, escaped>>

\* The process cannot be started.
SpawnError ==
  /\ stage = "spawn"
  /\ Terminate(OwnNodes)
  /\ FailAttempt
  /\ UNCHANGED <<coordinatorClients, escaped>>

\* create_node_directories raises outside the try block, or the ping raises
\* something else than a connection error or a time-out: the nodes spawned so
\* far are in no list that create_cluster has.
EscapingError ==
  /\ stage \in {"spawn", "ping"}
  /\ escaped' = escaped \cup {<<run, attempt>>}
  /\ FailAttempt
  /\ UNCHANGED <<processVars, coordinatorClients>>

\* Each node in turn: is its process alive, and does its port answer.
PollNode ==
  /\ stage = "await"
  /\ polls < MaxPolls
  /\ Own(ready) \in Processes
  /\ polls' = polls + 1
  /\ stage' = "ping"
  /\ UNCHANGED <<engineVars, spawned, ready, processVars, clientVars, activeClusters, escaped>>

PingAnswered ==
  /\ stage = "ping"
  /\ Port(ready) \in Answering
  /\ ready' = ready + 1
  /\ polls' = 0
  /\ stage' = IF ready' = NumNodes THEN "form" ELSE "await"
  /\ UNCHANGED <<engineVars, spawned, processVars, clientVars, activeClusters, escaped>>

PingUnanswered ==
  /\ stage = "ping"
  /\ stage' = "await"
  /\ UNCHANGED <<engineVars, spawnVars, processVars, clientVars, activeClusters, escaped>>

\* The process died or the deadline passed.
NodeNotReady ==
  /\ stage = "await"
  /\ polls > 0 \/ Own(ready) \notin Processes
  /\ Terminate(OwnNodes)
  /\ FailAttempt
  /\ UNCHANGED <<coordinatorClients, escaped>>

----------------------------------------------------------------------------
(* Forming *)

\* get_client for the nodes of a set: a cached client is used whatever port it
\* was made for.
Connect(clients, nodes) ==
  [i \in Index |-> IF i \in nodes /\ clients[i] = NoClient THEN Port(i) ELSE clients[i]]

\* The nodes CLUSTER MEET brings together: the one the first client reaches,
\* and the other nodes by their ports.
Met(clients) == {clients[0]} \cup {Port(i) : i \in Index \ {0}}

\* form_cluster succeeds only if every client reaches a node that has met
\* NumNodes nodes.
FormCluster ==
  /\ stage = "form"
  /\ LET clients == Connect(coordinatorClients, Index)
     IN /\ \A i \in Index : clients[i] \in Met(clients)
        /\ Met(clients) \subseteq Answering
        /\ Cardinality(Met(clients)) = NumNodes
        /\ coordinatorClients' = clients
  /\ activeClusters' = activeClusters \cup {run}
  /\ stage' = "readiness"
  /\ UNCHANGED <<engineVars, spawnVars, processVars, operationClients, escaped>>

\* Formation stops at node k; the nodes before it answered.
StopForming ==
  /\ stage = "form"
  /\ \E k \in Index :
       LET clients == Connect(coordinatorClients, 0..k)
       IN /\ \A i \in 0 .. k - 1 : clients[i] \in Answering \cup {Port(j) : j \in Index}
          /\ coordinatorClients' = clients

\* Faulty variant of FormError: the nodes are left running.
FormErrorLeaking ==
  /\ StopForming
  /\ FailAttempt
  /\ UNCHANGED <<processVars, escaped>>

\* form_cluster returns None and create_cluster terminates the nodes; the
\* clients stay cached.
FormError ==
  /\ StopForming
  /\ Terminate(OwnNodes)
  /\ FailAttempt
  /\ UNCHANGED escaped

\* Faulty variant of RetryCreation: the attempts are not counted.
RetryForever ==
  /\ stage = "failed"
  /\ spawned' = 0
  /\ stage' = "create"
  /\ UNCHANGED <<run, attempt, basePort, ready, polls, processVars, clientVars, activeClusters, escaped>>

\* retry_with_backoff: another attempt with the same ports, or none.
RetryCreation ==
  /\ stage = "failed"
  /\ IF attempt < MaxAttempts
     THEN attempt' = attempt + 1 /\ spawned' = 0 /\ stage' = "create"
     ELSE stage' = "cleanup" /\ UNCHANGED <<attempt, spawned>>
  /\ UNCHANGED <<run, basePort, ready, polls, processVars, clientVars, activeClusters, escaped>>

----------------------------------------------------------------------------
(* The run and its clean-up *)

LiveIndex == {i \in Index : Own(i) \in Processes}

\* The cluster is found ready within the retries, which takes an answer from
\* every live node, or the run is abandoned.
CheckReadiness ==
  /\ stage = "readiness"
  /\ \/ /\ \A i \in LiveIndex : coordinatorClients[i] \in Answering
        /\ stage' = "running"
     \/ stage' = "cleanup"
  /\ UNCHANGED <<engineVars, spawnVars, processVars, clientVars, activeClusters, escaped>>

\* An operation waits for its completion: check_replication_links asks the
\* live nodes in order, up to the first that does not answer or is not in sync.
CheckReplicationLinks ==
  /\ stage = "running"
  /\ \E k \in LiveIndex :
       LET clients == Connect(operationClients, LiveIndex \cap 0..k)
       IN /\ \A i \in LiveIndex : i < k => clients[i] \in Answering
          /\ operationClients' = clients
  /\ UNCHANGED <<stage, engineVars, spawnVars, processVars, coordinatorClients, activeClusters, escaped>>

\* The run completes or raises.
FinishRun ==
  /\ stage = "running"
  /\ stage' = "cleanup"
  /\ UNCHANGED <<engineVars, spawnVars, processVars, clientVars, activeClusters, escaped>>

\* Faulty variant of DestroyCluster: destroy_cluster's clean-up alone, which
\* may fail before the processes are terminated.
DestroyWithoutForce ==
  /\ run \in activeClusters
  /\ coordinatorClients' = NoConnections
  /\ Terminate(OwnNodes) \/ UNCHANGED processVars
  /\ activeClusters' \in {activeClusters, activeClusters \ {run}}

\* destroy_cluster closes the coordinator's clients and terminates the nodes;
\* if deleting the data directory fails, the cluster stays listed.  What is
\* left of the processes is then terminated by force.
DestroyCluster ==
  /\ run \in activeClusters
  /\ coordinatorClients' = NoConnections
  /\ Terminate(OwnNodes)
  /\ activeClusters' \in {activeClusters, activeClusters \ {run}}

\* Without a cluster instance there is nothing to destroy.
CleanupResources ==
  /\ stage = "cleanup"
  /\ \/ DestroyCluster
     \/ /\ run \notin activeClusters
        /\ UNCHANGED <<processVars, coordinatorClients, activeClusters, escaped>>
  /\ stage' = "idle"
  /\ UNCHANGED <<engineVars, spawnVars, operationClients, escaped>>

----------------------------------------------------------------------------
(* Specification *)

Init ==
  /\ stage = "idle"
  /\ run = 0
  /\ attempt = 0
  /\ basePort = 0
  /\ spawned = 0
  /\ ready = 0
  /\ polls = 0
  /\ starting = {}
  /\ up = {}
  /\ coordinatorClients = NoConnections
  /\ operationClients = NoConnections
  /\ activeClusters = {}
  /\ escaped = {}

EngineStep ==
  \/ PlanCluster
  \/ SpawnNode
  \/ SpawnError
  \/ EscapingError
  \/ PollNode
  \/ PingAnswered
  \/ PingUnanswered
  \/ NodeNotReady
  \/ FormCluster
  \/ FormError
  \/ RetryCreation
  \/ CheckReadiness
  \/ CheckReplicationLinks
  \/ FinishRun
  \/ CleanupResources

ProcessStep == \E p \in Processes : Listen(p) \/ Die(p)

Finished == stage = "idle" /\ run = MaxRuns /\ UNCHANGED vars

Next == BeginRun \/ EngineStep \/ ProcessStep \/ Finished

Spec == Init /\ [][Next]_vars

\* The engine is one thread and its calls return: they have time-outs, and
\* every loop has a deadline or a count.
FairSpec == Spec /\ WF_vars(EngineStep)

----------------------------------------------------------------------------
(* Properties *)

TypeOK ==
  /\ stage \in {"idle", "create", "spawn", "await", "ping", "form", "failed",
                "readiness", "running", "cleanup"}
  /\ run \in 0..MaxRuns
  /\ attempt \in 0..MaxAttempts
  /\ basePort \in {0} \cup BasePorts
  /\ spawned \in 0..NumNodes
  /\ ready \in 0..NumNodes
  /\ polls \in 0..MaxPolls
  /\ starting \subseteq Process
  /\ up \subseteq Process
  /\ coordinatorClients \in [Index -> Nat]
  /\ operationClients \in [Index -> Nat]
  /\ activeClusters \subseteq 0..MaxRuns
  /\ escaped \subseteq (1..MaxRuns) \X (1..MaxAttempts)

\* Nothing outlives its attempt or its run: when a failed attempt is about to
\* be retried, and between runs, no node process is left, whichever of
\* spawning, waiting, forming, readiness or clean-up failed -- unless an
\* exception escaped spawn_all_nodes (cluster_coordinator.py:86).
NothingLeaks ==
  stage \in {"idle", "failed"} => \A p \in Processes : AttemptOf(p) \in escaped

\* A node counts as ready only if its own process answered, as long as no earlier
\* attempt left processes on the ports: the code polls the process and pings the
\* port, which are two things (orchestrator.py:289-299).
AnsweredByOwnUnlessEscaped ==
  [][escaped = {} /\ ready' > ready => Own(ready) \in up]_vars

\* What is left to the engine: runs, attempts, stages of an attempt or of the run
\* after it, nodes to spawn or to find ready, polls of a node, and an answer.
StagesLeft ==
  CASE stage = "create"                   -> 7
    [] stage = "spawn"                    -> 6
    [] stage \in {"await", "ping"}        -> 5
    [] stage = "form"                     -> 4
    [] stage \in {"readiness", "failed"}  -> 3
    [] stage = "running"                  -> 2
    [] stage = "cleanup"                  -> 1
    [] stage = "idle"                     -> 0

NodesLeft == NumNodes - IF stage = "spawn" THEN spawned ELSE ready

AnswersLeft == IF stage = "ping" THEN 1 ELSE 0

Left ==
  <<MaxRuns - run, MaxAttempts - attempt, StagesLeft, NodesLeft, MaxPolls - polls, AnswersLeft>>

\* Whatever step the engine takes through a run leaves less of it, wherever the
\* creation fails and whatever the processes do: no failure gives an attempt
\* back, and no node is waited for again, or longer than its deadline, which is
\* a number of polls here (error_handler.py:130, orchestrator.py:283-311).
EngineRunsOut ==
  [][Left' \in Amounts(6) /\ Less(Left', Left)]_<<stage, engineVars, spawnVars>>

\* Every run ends, and with it the program (error_handler.py:130).
EveryRunEnds == (stage # "idle") ~> (stage = "idle")

\* A client the operation orchestrator has for a node is a client to that node
\* (comment "Get or create Valkey client connection for a node",
\* orchestrator.py:400); it asks whether replication links are up after a
\* failover (operation_orchestrator.py:306).
OperationsReachNodes ==
  stage = "running" => \A i \in Index : operationClients[i] \in {NoClient, Port(i)}

(***************************************************************************)
(* The argument: all processes belong to the current attempt or to one an  *)
(* exception escaped from, and a stage that follows a termination, or      *)
(* comes before the first spawn, has none of the current attempt.          *)
(***************************************************************************)
OwnOrEscaped == \A p \in Processes : p \in OwnNodes \/ AttemptOf(p) \in escaped

Quiet ==
  \/ stage \in {"idle", "create", "failed"}
  \/ stage = "cleanup" /\ run \notin activeClusters

OnlyEscaped == \A p \in Processes : AttemptOf(p) \in escaped

\* The control of the engine agrees with its counters.
ControlInv ==
  /\ stage # "idle" => run > 0 /\ attempt > 0 /\ basePort \in BasePorts
  /\ stage = "create" => spawned = 0
  /\ stage = "spawn" => spawned < NumNodes
  /\ stage \in {"await", "ping", "form", "readiness", "running"} => spawned = NumNodes
  /\ stage \in {"await", "ping"} => ready < NumNodes
  /\ stage \in {"readiness", "running"} => run \in activeClusters

IInv == TypeOK /\ ControlInv /\ OwnOrEscaped /\ (Quiet => OnlyEscaped)
=============================================================================
