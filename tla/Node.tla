-------------------------------- MODULE Node --------------------------------
(***************************************************************************)
(* The node program: how service.rs assembles a full or a light client out *)
(* of Substrate's parts, which tasks it spawns in which order, and what    *)
(* command.rs runs.  Every call that ends in `?` may fail; the node then   *)
(* exits and the TaskManager, dropped, stops what was spawned.  A spawned  *)
(* task runs while the assembly goes on, and an essential task that fails  *)
(* takes the node down once run_node_until_exit watches over it.           *)
(*                                                                         *)
(* The client, the pool, the queues and what the tasks do is Substrate's   *)
(* and not modelled here; LocalNet models what the consensus tasks do.     *)
(***************************************************************************)
EXTENDS Genesis

CONSTANTS
  Nodes,
  Configs,       \* the configurations a node may be started with
  MaxFailures    \* bound on the failures of a behaviour

VARIABLES
  config,     \* node -> [chain, role, disable_grandpa, offchain_worker]
  at,         \* node -> the step it is about to make; 0: no process
  tasks,      \* node -> the tasks that run
  broken,     \* node -> an essential task of it has failed
  db,         \* node -> its database holds the chain
  failures    \* failures so far

nodeVars == <<config, at, tasks, broken, db, failures>>

Roles == {"Authority", "Sentry", "Full", "Light"}
AllConfigs ==
  [chain: {"dev", "local"}, role: Roles, disable_grandpa: BOOLEAN, offchain_worker: BOOLEAN]

ASSUME NodeAssumption == Configs \subseteq AllConfigs /\ MaxFailures \in Nat
-----------------------------------------------------------------------------
(* The steps of new_full and new_light.  start_network comes last: blocks   *)
(* and votes reach the node when everything that handles them is in place.  *)
new_full_network_first ==       \* mutant: the network is started where it is built
  <<"new_partial", "build_network", "start_network", "offchain_workers", "spawn_tasks",
    "aura", "grandpa">>
new_full ==
  <<"new_partial", "build_network", "offchain_workers", "spawn_tasks", "aura", "grandpa",
    "start_network">>
new_light ==
  <<"new_light_parts", "build_network", "offchain_workers", "spawn_tasks", "start_network">>

(* run, without a subcommand. *)
StepsAlwaysFull(c) == new_full     \* mutant: Role::Light not told apart
Steps(c) == IF c.role = "Light" THEN new_light ELSE new_full
Running(n) == at[n] = Len(Steps(config[n])) + 1
Step(n) == Steps(config[n])[at[n]]
Starting(n) == at[n] > 0 /\ ~Running(n)

(* The RPC that a node adds to Substrate's: create_full, and nothing for a  *)
(* light client.                                                            *)
create_full(role) == IF role = "Light" THEN {} ELSE {"SystemApi", "TransactionPaymentApi"}

is_authority(c) == c.role = "Authority"

(* What a step spawns.  A full client authors blocks if it is an authority, *)
(* and votes, or follows the votes, unless GRANDPA is disabled.             *)
Spawns(c, step) ==
  CASE step = "offchain_workers" -> {t \in {"offchain"} : c.offchain_worker}
    [] step = "spawn_tasks" -> {"rpc"} \cup create_full(c.role)
    [] step = "aura" -> {t \in {"aura"} : is_authority(c)}
    [] step = "grandpa" -> {t \in {"grandpa-voter"} : ~c.disable_grandpa}
    [] step = "start_network" -> {"network"}
    [] OTHER -> {}
Essential == {"aura", "grandpa-voter"}

(* The steps with a `?`.  Who is no authority only passes through aura. *)
Fallible(c, step) ==
  step \notin {"offchain_workers", "start_network"} /\ (step = "aura" => is_authority(c))

(* new_partial and new_light_parts open the database, and build the genesis *)
(* state in an empty one.                                                   *)
Opens(step) == step \in {"new_partial", "new_light_parts"}
CanOpen(n) == db[n] \/ Buildable(testnet_genesis(load_spec(config[n].chain)))
-----------------------------------------------------------------------------
(* The tasks that a role can have.  A light client takes no part in consensus. *)
TasksOf(role) ==
  {"offchain", "rpc", "network"}
    \cup (IF role = "Light" THEN {}
          ELSE {"SystemApi", "TransactionPaymentApi", "grandpa-voter"})
    \cup {t \in {"aura"} : role = "Authority"}

NodeTypeOK ==
  /\ config \in [Nodes -> Configs]
  /\ \A n \in Nodes : at[n] \in 0 .. Len(Steps(config[n])) + 1
  /\ \A n \in Nodes : tasks[n] \subseteq TasksOf(config[n].role)
  /\ broken \in [Nodes -> BOOLEAN] /\ db \in [Nodes -> BOOLEAN]
  /\ failures \in 0 .. MaxFailures

NodeInit ==
  /\ config \in [Nodes -> Configs]
  /\ at = [n \in Nodes |-> 0]
  /\ tasks = [n \in Nodes |-> {}]
  /\ broken = [n \in Nodes |-> FALSE] /\ db = [n \in Nodes |-> FALSE]
  /\ failures = 0

start(n) ==
  /\ at[n] = 0
  /\ at' = [at EXCEPT ![n] = 1]
  /\ UNCHANGED <<config, tasks, broken, db, failures>>

assemble(n) ==
  /\ Starting(n)
  /\ Opens(Step(n)) => CanOpen(n)
  /\ at' = [at EXCEPT ![n] = @ + 1]
  /\ tasks' = [tasks EXCEPT ![n] = @ \cup Spawns(config[n], Step(n))]
  /\ db' = [db EXCEPT ![n] = TRUE]
  /\ UNCHANGED <<config, broken, failures>>

(* The process ends, and with it all that it has spawned. *)
StoppedLeaving(n) ==          \* mutant: the tasks outlive the TaskManager
  /\ at' = [at EXCEPT ![n] = 0]
  /\ broken' = [broken EXCEPT ![n] = FALSE]
  /\ UNCHANGED tasks
Stopped(n) ==
  /\ at' = [at EXCEPT ![n] = 0]
  /\ tasks' = [tasks EXCEPT ![n] = {}]
  /\ broken' = [broken EXCEPT ![n] = FALSE]

assembly_fails(n) ==
  /\ Starting(n)
  /\ Fallible(config[n], Step(n))
  /\ failures < MaxFailures
  /\ failures' = failures + 1
  /\ Stopped(n)
  /\ UNCHANGED <<config, db>>

(* The genesis state cannot be built: a panic. *)
genesis_panics(n) ==
  /\ Starting(n)
  /\ Opens(Step(n)) /\ ~CanOpen(n)
  /\ Stopped(n)
  /\ UNCHANGED <<config, db, failures>>

task_fails(n, task) ==
  /\ task \in tasks[n]
  /\ failures < MaxFailures
  /\ failures' = failures + 1
  /\ tasks' = [tasks EXCEPT ![n] = @ \ {task}]
  /\ broken' = [broken EXCEPT ![n] = @ \/ task \in Essential]
  /\ UNCHANGED <<config, at, db>>

(* run_node_until_exit: the TaskManager that new_full returned reports the  *)
(* failure of an essential task.                                            *)
WatchedNever(n) == FALSE         \* mutant: the tasks are not spawned as essential
Watched(n) == Running(n) /\ broken[n]

node_exits(n) ==
  /\ Watched(n)
  /\ Stopped(n)
  /\ UNCHANGED <<config, db, failures>>

(* run_node_until_exit also ends on a signal. *)
interrupted(n) ==
  /\ Running(n)
  /\ Stopped(n)
  /\ UNCHANGED <<config, db, failures>>

(* The subcommands that work on the blocks (check, export, import, revert)  *)
(* begin with new_partial; build-spec and benchmark change nothing.         *)
block_command(n) ==
  /\ at[n] = 0
  /\ CanOpen(n)
  /\ db' = [db EXCEPT ![n] = TRUE]
  /\ UNCHANGED <<config, at, tasks, broken, failures>>

purge_chain(n) ==
  /\ at[n] = 0
  /\ db' = [db EXCEPT ![n] = FALSE]
  /\ UNCHANGED <<config, at, tasks, broken, failures>>

NodeNext ==
  \E n \in Nodes :
    \/ start(n)
    \/ assemble(n)
    \/ assembly_fails(n)
    \/ genesis_panics(n)
    \/ \E task \in tasks[n] : task_fails(n, task)
    \/ node_exits(n)
    \/ interrupted(n)
    \/ block_command(n)
    \/ purge_chain(n)

(* A process that was started goes on by itself. *)
NodeFairness ==
  \A n \in Nodes : WF_nodeVars(assemble(n)) /\ WF_nodeVars(node_exits(n))

NodeSpec == NodeInit /\ [][NodeNext]_nodeVars /\ NodeFairness
-----------------------------------------------------------------------------
(* No half a node: nothing runs of a node that has ended, wherever its      *)
(* assembly failed; and a node that is on the network has the tasks that    *)
(* its role and its flags ask for, unless one has failed.                   *)
Wanted(c) ==
  {t \in {"aura"} : is_authority(c)}
    \cup {t \in {"grandpa-voter"} : ~c.disable_grandpa /\ c.role # "Light"}
ServiceWhole ==
  \A n \in Nodes :
    /\ at[n] = 0 => tasks[n] = {} /\ ~broken[n]
    /\ "network" \in tasks[n] => broken[n] \/ Wanted(config[n]) \subseteq tasks[n]

(* "if it fails we take down the service with it": also when the task fails *)
(* while the node is still being assembled.                                 *)
EssentialTakesDown == \A n \in Nodes : broken[n] ~> at[n] = 0

(* The local testnet's genesis can be built and its nodes get to run unless *)
(* a part of them fails.  (The genesis of "dev" does not endow the stash of *)
(* its validator and cannot be built.)                                      *)
LocalStarts ==
  \A n \in Nodes :
    (at[n] = 1 /\ config[n].chain = "local") ~> (Running(n) \/ failures > 0)
=============================================================================
