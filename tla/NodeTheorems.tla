---------------------------- MODULE NodeTheorems ----------------------------
(***************************************************************************)
(* Proofs about Node and LocalNet, for any nodes, configurations, numbers  *)
(* of failures and lengths of the chain: a node that has ended leaves      *)
(* nothing behind, one that is on the network is whole, and the sessions   *)
(* of the local testnet report nobody who was there.                       *)
(***************************************************************************)
EXTENDS LocalNet, StorageTheorems

AllTasks == {"offchain", "rpc", "network", "SystemApi", "TransactionPaymentApi",
             "grandpa-voter", "aura"}

(* What the steps that a node has behind it have left running. *)
Fits(c, place, running, failed) ==
  /\ place = 0 => running = {} /\ ~failed
  /\ "network" \in running => place = Len(Steps(c)) + 1
  /\ place > 5 /\ c.role # "Light" /\ is_authority(c) => failed \/ "aura" \in running
  /\ place > 6 /\ c.role # "Light" /\ ~c.disable_grandpa => failed \/ "grandpa-voter" \in running
Assembled(n) == Fits(config[n], at[n], tasks[n], broken[n])

NodeInv ==
  /\ NodeTypeOK
  /\ at \in [Nodes -> Nat] /\ tasks \in [Nodes -> SUBSET AllTasks]
  /\ \A n \in Nodes : Assembled(n)

LEMMA ConfigTypes ==
  ASSUME NodeTypeOK, NEW n \in Nodes
  PROVE  /\ config[n] \in AllConfigs
         /\ config[n].role \in Roles
         /\ config[n].disable_grandpa \in BOOLEAN
  BY NodeAssumption DEF NodeTypeOK, AllConfigs

(* The lengths and the steps of new_full and new_light. *)
LEMMA StepsAre ==
  ASSUME NEW c
  PROVE  /\ c.role = "Light" => Len(Steps(c)) = 5
         /\ c.role # "Light" => Len(Steps(c)) = 7
  BY DEF Steps, new_full, new_light

LEMMA LightSteps ==
  ASSUME NEW c, c.role = "Light", NEW k \in 1 .. 5
  PROVE  /\ k = 1 => Steps(c)[k] = "new_light_parts"
         /\ k = 2 => Steps(c)[k] = "build_network"
         /\ k = 3 => Steps(c)[k] = "offchain_workers"
         /\ k = 4 => Steps(c)[k] = "spawn_tasks"
         /\ k = 5 => Steps(c)[k] = "start_network"
  BY DEF Steps, new_light

LEMMA FullSteps ==
  ASSUME NEW c, c.role # "Light", NEW k \in 1 .. 7
  PROVE  /\ k = 1 => Steps(c)[k] = "new_partial"
         /\ k = 2 => Steps(c)[k] = "build_network"
         /\ k = 3 => Steps(c)[k] = "offchain_workers"
         /\ k = 4 => Steps(c)[k] = "spawn_tasks"
         /\ k = 5 => Steps(c)[k] = "aura"
         /\ k = 6 => Steps(c)[k] = "grandpa"
         /\ k = 7 => Steps(c)[k] = "start_network"
  BY DEF Steps, new_full

(* What each of them spawns. *)
LEMMA SpawnsAre ==
  ASSUME NEW c
  PROVE  /\ Spawns(c, "new_partial") = {} /\ Spawns(c, "new_light_parts") = {}
         /\ Spawns(c, "build_network") = {}
         /\ Spawns(c, "offchain_workers") = {t \in {"offchain"} : c.offchain_worker}
         /\ Spawns(c, "spawn_tasks") = {"rpc"} \cup create_full(c.role)
         /\ Spawns(c, "aura") = {t \in {"aura"} : is_authority(c)}
         /\ Spawns(c, "grandpa") = {t \in {"grandpa-voter"} : ~c.disable_grandpa}
         /\ Spawns(c, "start_network") = {"network"}
  BY Zenon DEF Spawns

LEMMA SpawnsFit ==
  ASSUME NEW c, NEW k \in 1 .. Len(Steps(c))
  PROVE  LET new == Spawns(c, Steps(c)[k]) IN
         /\ new \subseteq TasksOf(c.role) /\ new \subseteq AllTasks
         /\ "network" \in new => k = Len(Steps(c))
         /\ k = 5 /\ c.role # "Light" /\ is_authority(c) => "aura" \in new
         /\ k = 6 /\ c.role # "Light" /\ ~c.disable_grandpa => "grandpa-voter" \in new
  <1> DEFINE new == Spawns(c, Steps(c)[k])
             Goal == /\ new \subseteq TasksOf(c.role) /\ new \subseteq AllTasks
                     /\ "network" \in new => k = Len(Steps(c))
                     /\ k = 5 /\ c.role # "Light" /\ is_authority(c) => "aura" \in new
                     /\ k = 6 /\ c.role # "Light" /\ ~c.disable_grandpa => "grandpa-voter" \in new
  <1> SUFFICES Goal
    OBVIOUS
  <1>1. CASE c.role = "Light"
    <2>0. Len(Steps(c)) = 5 /\ k \in 1 .. 5
      BY <1>1, StepsAre
    <2>1. \/ new = {} \/ new = {t \in {"offchain"} : c.offchain_worker}
          \/ new = {"rpc"} \cup create_full(c.role)
          \/ new = {"network"} /\ k = 5
      BY <1>1, <2>0, LightSteps, SpawnsAre
    <2>2. create_full(c.role) = {}
      BY <1>1 DEF create_full
    <2> QED BY <1>1, <2>0, <2>1, <2>2 DEF TasksOf, AllTasks
  <1>2. CASE c.role # "Light"
    <2>0. Len(Steps(c)) = 7 /\ k \in 1 .. 7
      BY <1>2, StepsAre
    <2>1. \/ new = {} /\ k < 5
          \/ new = {t \in {"offchain"} : c.offchain_worker} /\ k < 5
          \/ new = {"rpc"} \cup create_full(c.role) /\ k < 5
          \/ new = {t \in {"aura"} : is_authority(c)} /\ k = 5
          \/ new = {t \in {"grandpa-voter"} : ~c.disable_grandpa} /\ k = 6
          \/ new = {"network"} /\ k = 7
      BY <1>2, <2>0, FullSteps, SpawnsAre
    <2>2. create_full(c.role) = {"SystemApi", "TransactionPaymentApi"}
      BY <1>2 DEF create_full
    <2> QED BY <1>2, <2>0, <2>1, <2>2 DEF TasksOf, AllTasks, is_authority
  <1> QED BY <1>1, <1>2
-----------------------------------------------------------------------------
(* A step changes what one node is at. *)
LEMMA OneNode ==
  ASSUME NodeInv, NEW n \in Nodes, config' = config,
         NEW place \in 0 .. Len(Steps(config[n])) + 1,
         NEW running \in SUBSET TasksOf(config[n].role), running \subseteq AllTasks,
         NEW failed \in BOOLEAN,
         at' = [at EXCEPT ![n] = place], tasks' = [tasks EXCEPT ![n] = running],
         broken' = [broken EXCEPT ![n] = failed],
         db' \in [Nodes -> BOOLEAN], failures' \in 0 .. MaxFailures,
         Fits(config[n], place, running, failed)
  PROVE  NodeInv'
  <1>0. Len(Steps(config[n])) \in Nat
    BY StepsAre
  <1>1. at' \in [Nodes -> Nat] /\ tasks' \in [Nodes -> SUBSET AllTasks] /\ broken' \in [Nodes -> BOOLEAN]
    BY <1>0 DEF NodeInv, NodeTypeOK
  <1>2. ASSUME NEW m \in Nodes
        PROVE  /\ at'[m] = IF m = n THEN place ELSE at[m]
               /\ tasks'[m] = IF m = n THEN running ELSE tasks[m]
               /\ broken'[m] = IF m = n THEN failed ELSE broken[m]
    BY DEF NodeInv, NodeTypeOK
  <1>3. \A m \in Nodes : Assembled(m)'
    BY <1>2 DEF NodeInv, Assembled
  <1>4. \A m \in Nodes : /\ at'[m] \in 0 .. Len(Steps(config[m])) + 1
                         /\ tasks'[m] \subseteq TasksOf(config[m].role)
    BY <1>2 DEF NodeInv, NodeTypeOK
  <1>5. NodeTypeOK'
    BY <1>1, <1>4 DEF NodeInv, NodeTypeOK
  <1> QED BY <1>1, <1>3, <1>5 DEF NodeInv

LEMMA OneNodeTypes ==
  ASSUME NodeInv, NEW n \in Nodes
  PROVE  /\ at[n] \in Nat /\ at[n] \in 0 .. Len(Steps(config[n])) + 1
         /\ Len(Steps(config[n])) \in {5, 7}
         /\ tasks[n] \subseteq TasksOf(config[n].role) /\ tasks[n] \subseteq AllTasks
         /\ broken[n] \in BOOLEAN /\ failures \in 0 .. MaxFailures
         /\ db \in [Nodes -> BOOLEAN]
         /\ at = [at EXCEPT ![n] = at[n]] /\ tasks = [tasks EXCEPT ![n] = tasks[n]]
         /\ broken = [broken EXCEPT ![n] = broken[n]]
         /\ Fits(config[n], at[n], tasks[n], broken[n])
  <1>1. Len(Steps(config[n])) \in {5, 7}
    BY StepsAre
  <1>2. /\ at = [at EXCEPT ![n] = at[n]] /\ tasks = [tasks EXCEPT ![n] = tasks[n]]
        /\ broken = [broken EXCEPT ![n] = broken[n]]
    BY DEF NodeInv, NodeTypeOK
  <1> QED BY <1>1, <1>2 DEF NodeInv, NodeTypeOK, Assembled

LEMMA StoppedKeeps ==
  ASSUME NodeInv, NEW n \in Nodes, Stopped(n), config' = config, db' = db,
         failures' \in 0 .. MaxFailures
  PROVE  NodeInv'
  <1>1. Len(Steps(config[n])) \in {5, 7} /\ db \in [Nodes -> BOOLEAN]
    BY OneNodeTypes
  <1>2. Fits(config[n], 0, {}, FALSE)
    BY DEF Fits
  <1>3. /\ at' = [at EXCEPT ![n] = 0] /\ tasks' = [tasks EXCEPT ![n] = {}]
        /\ broken' = [broken EXCEPT ![n] = FALSE]
    BY DEF Stopped
  <1>4. 0 \in 0 .. Len(Steps(config[n])) + 1
    BY <1>1
  <1> QED BY <1>1, <1>2, <1>3, <1>4, OneNode

LEMMA StartKeeps ==
  ASSUME NodeInv, NEW n \in Nodes, start(n)
  PROVE  NodeInv'
  <1>1. Fits(config[n], 1, tasks[n], broken[n])
    <2>1. tasks[n] = {} /\ ~broken[n]
      BY OneNodeTypes DEF start, Fits
    <2> QED BY <2>1 DEF Fits
  <1>2. 1 \in 0 .. Len(Steps(config[n])) + 1
    BY OneNodeTypes
  <1>3. /\ config' = config /\ at' = [at EXCEPT ![n] = 1]
        /\ tasks' = [tasks EXCEPT ![n] = tasks[n]] /\ broken' = [broken EXCEPT ![n] = broken[n]]
        /\ db' \in [Nodes -> BOOLEAN] /\ failures' \in 0 .. MaxFailures
    BY OneNodeTypes DEF start
  <1> QED BY <1>1, <1>2, <1>3, OneNode, OneNodeTypes

LEMMA AssembleKeeps ==
  ASSUME NodeInv, NEW n \in Nodes, assemble(n)
  PROVE  NodeInv'
  <1> DEFINE c == config[n]
             k == at[n]
             new == Spawns(c, Steps(c)[k])
  <1>1. k \in 1 .. Len(Steps(c)) /\ Len(Steps(c)) \in {5, 7}
    BY OneNodeTypes DEF assemble, Starting, Running
  <1>2. /\ new \subseteq TasksOf(c.role) /\ new \subseteq AllTasks
        /\ "network" \in new => k = Len(Steps(c))
        /\ k = 5 /\ c.role # "Light" /\ is_authority(c) => "aura" \in new
        /\ k = 6 /\ c.role # "Light" /\ ~c.disable_grandpa => "grandpa-voter" \in new
    BY <1>1, SpawnsFit
  <1>3. Fits(c, k, tasks[n], broken[n])
    BY OneNodeTypes
  <1>4. /\ config' = config /\ at' = [at EXCEPT ![n] = k + 1]
        /\ tasks' = [tasks EXCEPT ![n] = tasks[n] \cup new]
        /\ broken' = [broken EXCEPT ![n] = broken[n]]
        /\ db' \in [Nodes -> BOOLEAN] /\ failures' \in 0 .. MaxFailures
    BY OneNodeTypes DEF assemble, Step
  <1>5. tasks[n] \cup new \subseteq TasksOf(c.role) /\ tasks[n] \cup new \subseteq AllTasks
    BY <1>2, OneNodeTypes
  <1> HIDE DEF c, k, new
  <1>6. k \in Int /\ k + 1 \in 0 .. Len(Steps(c)) + 1 /\ (k + 1 > 5 => k > 5 \/ k = 5)
        /\ (k + 1 > 6 => k > 6 \/ k = 6) /\ k # Len(Steps(c)) + 1 /\ k + 1 # 0
    BY <1>1
  <1>7. Fits(c, k + 1, tasks[n] \cup new, broken[n])
    BY <1>2, <1>3, <1>6 DEF Fits
  <1> QED BY <1>4, <1>5, <1>6, <1>7, OneNode, OneNodeTypes DEF c

LEMMA TaskFailsKeeps ==
  ASSUME NodeInv, NEW n \in Nodes, NEW task \in tasks[n], task_fails(n, task)
  PROVE  NodeInv'
  <1> DEFINE failed == broken[n] \/ task \in Essential
  <1>1. Fits(config[n], at[n], tasks[n], broken[n])
    BY OneNodeTypes
  <1>2. Fits(config[n], at[n], tasks[n] \ {task}, failed)
    BY <1>1 DEF Fits, Essential
  <1>3. /\ config' = config /\ at' = [at EXCEPT ![n] = at[n]]
        /\ tasks' = [tasks EXCEPT ![n] = tasks[n] \ {task}]
        /\ broken' = [broken EXCEPT ![n] = failed]
        /\ db' \in [Nodes -> BOOLEAN] /\ failures' \in 0 .. MaxFailures
    BY OneNodeTypes, NodeAssumption DEF task_fails
  <1>4. failed \in BOOLEAN
    BY OneNodeTypes
  <1>5. tasks[n] \ {task} \subseteq TasksOf(config[n].role) /\ tasks[n] \ {task} \subseteq AllTasks
    BY OneNodeTypes
  <1>6. at[n] \in 0 .. Len(Steps(config[n])) + 1
    BY OneNodeTypes
  <1> DEFINE running == tasks[n] \ {task}
             place == at[n]
  <1>7. running \in SUBSET TasksOf(config[n].role)
    BY <1>5
  <1> HIDE DEF failed, running, place
  <1> QED BY <1>2, <1>3, <1>4, <1>5, <1>6, <1>7, OneNode DEF running, place

LEMMA NodeStep ==
  ASSUME NodeInv, [NodeNext]_nodeVars
  PROVE  NodeInv'
  <1>f. failures \in 0 .. MaxFailures /\ MaxFailures \in Nat
    BY NodeAssumption DEF NodeInv, NodeTypeOK
  <1>1. ASSUME NEW n \in Nodes,
               assembly_fails(n) \/ genesis_panics(n) \/ node_exits(n) \/ interrupted(n)
        PROVE  NodeInv'
    <2>1. Stopped(n) /\ config' = config /\ db' = db
      BY <1>1 DEF assembly_fails, genesis_panics, node_exits, interrupted
    <2>2. failures' \in 0 .. MaxFailures
      BY <1>1, <1>f DEF assembly_fails, genesis_panics, node_exits, interrupted
    <2> QED BY <2>1, <2>2, StoppedKeeps
  <1>2. ASSUME NEW n \in Nodes, block_command(n) \/ purge_chain(n)
        PROVE  NodeInv'
    <2>1. UNCHANGED <<config, at, tasks, broken, failures>> /\ db' \in [Nodes -> BOOLEAN]
      BY <1>2 DEF block_command, purge_chain, NodeInv, NodeTypeOK
    <2> QED BY <2>1 DEF NodeInv, NodeTypeOK, Assembled
  <1>3. ASSUME UNCHANGED nodeVars
        PROVE  NodeInv'
    BY <1>3 DEF nodeVars, NodeInv, NodeTypeOK, Assembled
  <1> QED BY <1>1, <1>2, <1>3, StartKeeps, AssembleKeeps, TaskFailsKeeps DEF NodeNext

LEMMA NodeStart ==
  ASSUME NodeInit
  PROVE  NodeInv
  <1>1. \A c : Fits(c, 0, {}, FALSE)
    BY DEF Fits
  <1>2. \A n \in Nodes : at[n] = 0 /\ tasks[n] = {} /\ broken[n] = FALSE
    BY DEF NodeInit
  <1>3. \A n \in Nodes : 0 \in 0 .. Len(Steps(config[n])) + 1
    BY StepsAre
  <1>4. NodeTypeOK
    BY <1>2, <1>3, NodeAssumption DEF NodeInit, NodeTypeOK
  <1>5. at \in [Nodes -> Nat] /\ tasks \in [Nodes -> SUBSET AllTasks]
    BY DEF NodeInit
  <1> QED BY <1>1, <1>2, <1>4, <1>5 DEF NodeInv, Assembled

LEMMA WholeIs ==
  ASSUME NodeInv
  PROVE  ServiceWhole
  <1> SUFFICES ASSUME NEW n \in Nodes
               PROVE  /\ at[n] = 0 => tasks[n] = {} /\ ~broken[n]
                      /\ "network" \in tasks[n] => broken[n] \/ Wanted(config[n]) \subseteq tasks[n]
    BY DEF ServiceWhole
  <1>1. Fits(config[n], at[n], tasks[n], broken[n])
    BY OneNodeTypes
  <1>2. CASE config[n].role = "Light"
    BY <1>1, <1>2 DEF Fits, Wanted, is_authority
  <1>3. CASE config[n].role # "Light"
    <2>1. Len(Steps(config[n])) = 7
      BY <1>3, StepsAre
    <2>2. "network" \in tasks[n] => at[n] > 5 /\ at[n] > 6
      BY <1>1, <2>1 DEF Fits
    <2> QED BY <1>1, <1>3, <2>2 DEF Fits, Wanted
  <1> QED BY <1>2, <1>3

(* Wherever the assembly of a node fails, and whichever of its tasks: what  *)
(* has ended has left nothing running, and a node that start_network has    *)
(* put on the network authors and votes as its role and its flags ask for   *)
(* or knows that it is broken.                                              *)
THEOREM ServiceWholeCorrect == NodeSpec => []ServiceWhole
  <1>1. NodeInit => NodeInv
    BY NodeStart
  <1>2. NodeInv /\ [NodeNext]_nodeVars => NodeInv'
    BY NodeStep
  <1>3. NodeInv => ServiceWhole
    BY WholeIs
  <1> QED BY <1>1, <1>2, <1>3, PTL DEF NodeSpec
-----------------------------------------------------------------------------
(* The two authorities of the local testnet. *)
LEMMA TwoAuthorities == Validators = {1, 2} /\ Len(Authorities) = 2
  <1> DEFINE initial == local_testnet_config.initial_authorities
             Key(i) == [validator |-> initial[i].stash, keys |-> initial[i].keys]
  <1>1. DOMAIN initial = 1 .. 2
    BY DEF local_testnet_config
  <1>2. Authorities = [i \in DOMAIN initial |-> Key(i)]
    BY Zenon DEF Authorities, testnet_genesis
  <1> HIDE DEF initial, Key
  <1>3. Authorities = [i \in 1 .. 2 |-> Key(i)]
    BY <1>1, <1>2
  <1> QED BY <1>3 DEF Validators

(* The blocks of a session, counted. *)
LEMMA NextInSession ==
  ASSUME NEW n \in Nat
  PROVE  /\ n % Period \in 0 .. (Period - 1)
         /\ (n + 1) % Period = IF n % Period = Period - 1 THEN 0 ELSE (n % Period) + 1
  <1>1. Period \in Nat /\ Period > 0 /\ Period \in Int
    BY NetAssumption
  <1>2. n % Period \in 0 .. (Period - 1)
    BY <1>1
  <1>3. PICK q \in Int : n = q * Period + (n % Period)
    BY <1>1, Division
  <1> DEFINE r == n % Period
  <1> HIDE DEF r
  <1>4. r \in 0 .. (Period - 1) /\ r \in Int /\ n = q * Period + r
    BY <1>2, <1>3 DEF r
  <1>5. PICK P \in Int : P = q * Period
    BY <1>1
  <1>6. CASE r = Period - 1
    <2>1. (q + 1) * Period = q * Period + Period
      BY <1>1
    <2>2. n + 1 = (q + 1) * Period + 0
      BY <1>1, <1>4, <1>5, <1>6, <2>1
    <2>3. q + 1 \in Int /\ n + 1 \in Int /\ 0 \in 0 .. (Period - 1)
      BY <1>1
    <2>4. PICK k \in Int, z \in 0 .. (Period - 1), x \in Int :
            z = 0 /\ x = n + 1 /\ x = k * Period + z
      BY <2>2, <2>3
    <2>5. x % Period = z
      BY <1>1, <2>4, Remainder
    <2> QED BY <1>2, <1>6, <2>4, <2>5 DEF r
  <1>7. CASE r # Period - 1
    <2>1. r + 1 \in 0 .. (Period - 1) /\ n + 1 \in Int
      BY <1>1, <1>4, <1>7
    <2>2. n + 1 = q * Period + (r + 1)
      BY <1>4, <1>5
    <2>3. (n + 1) % Period = r + 1
      BY <1>1, <2>1, <2>2, Remainder
    <2> QED BY <1>2, <1>7, <2>3 DEF r
  <1> QED BY <1>6, <1>7
-----------------------------------------------------------------------------
NetInv == NodeInv /\ NetTypeOK

LEMMA NodeStepKeeps ==
  ASSUME NodeInv, node_step
  PROVE  NodeInv'
  <1>1. NodeNext
    BY DEF node_step, NodeNext, task_fails
  <1> QED BY <1>1, NodeStep

LEMMA NetStep ==
  ASSUME NetInv, [NetNext]_netVars
  PROVE  NetInv'
  <1>t. /\ slot \in {0, 1} /\ best \in Nat /\ best <= MaxBlocks /\ finalized \in 0 .. best
        /\ MaxBlocks \in Nat /\ Period \in Nat \ {0}
        /\ authored \subseteq Validators /\ heartbeats \subseteq Validators
        /\ HeartbeatAfter \in Nat /\ inserted \subseteq Nodes
        /\ reported \subseteq Validators /\ absent \subseteq Validators
    BY TwoAuthorities, NetAssumption DEF NetInv, NetTypeOK
  <1>s. 0 .. Len(Authorities) - 1 = {0, 1}
    BY TwoAuthorities
  <1> DEFINE ChainOK ==
        /\ slot \in {0, 1} /\ best \in 0 .. MaxBlocks /\ finalized \in 0 .. best
        /\ authored \subseteq Validators /\ heartbeats \subseteq Validators
        /\ HeartbeatAfter \in Nat /\ inserted \subseteq Nodes
        /\ reported \subseteq Validators /\ absent \subseteq Validators
  <1>g. ASSUME NodeInv', ChainOK' PROVE NetInv'
    <2>1. NodeTypeOK'
      BY <1>g DEF NodeInv
    <2>2. Validators' = Validators /\ Len(Authorities)' = Len(Authorities)
      BY DEF Validators, Authorities
    <2>3. slot' \in 0 .. Len(Authorities) - 1
      BY <1>g, <1>s
    <2> QED BY <1>g, <2>1, <2>2, <2>3 DEF NetInv, NetTypeOK
  <1>v. Validators' = Validators
    BY DEF Validators, Authorities
  <1>n. UNCHANGED nodeVars => NodeInv'
    BY NodeStep DEF NetInv
  <1>1. ASSUME node_step PROVE NetInv'
    <2>1. NodeInv'
      BY <1>1, NodeStepKeeps DEF NetInv
    <2>2. ChainOK'
      BY <1>1, <1>t, <1>v DEF node_step, chainVars
    <2> QED BY <1>g, <2>1, <2>2
  <1>2. ASSUME slot_passes PROVE NetInv'
    <2>1. slot' = (slot + 1) % 2 /\ slot + 1 \in Validators
      BY <1>2, <1>t, TwoAuthorities DEF slot_passes
    <2>2. slot' \in {0, 1}
      BY <1>t, <2>1
    <2>3. ASSUME best < MaxBlocks, best' = best + 1, block(best + 1, slot + 1)
          PROVE  ChainOK'
      BY <1>2, <1>t, <1>v, <2>1, <2>2, <2>3 DEF slot_passes, block, NoteAuthor
    <2>4. ASSUME best < MaxBlocks, best' = best + 1, session_block(best + 1, slot + 1)
          PROVE  ChainOK'
      <3>1. HeartbeatAfter' \in Nat
        <4>1. HeartbeatAfter' = best + 1 + (3 * Period) \div 2
          BY <2>4 DEF session_block, SessionDuration
        <4> QED BY <1>t, <4>1
      <3>2. reported' \subseteq Validators /\ authored' \subseteq Validators
            /\ heartbeats' \subseteq Validators /\ absent' \subseteq Validators
        BY <1>t, <2>1, <2>4 DEF session_block, NoteAuthor
      <3> QED BY <1>2, <1>t, <1>v, <2>2, <2>4, <3>1, <3>2 DEF slot_passes
    <2>5. ASSUME UNCHANGED <<best, authored, heartbeats, HeartbeatAfter, reported, absent>>
          PROVE  ChainOK'
      BY <1>2, <1>t, <1>v, <2>2, <2>5 DEF slot_passes
    <2>6. NodeInv'
      BY <1>2, <1>n DEF slot_passes
    <2>7. ChainOK'
      BY <1>2, <2>3, <2>4, <2>5 DEF slot_passes
    <2> QED BY <1>g, <2>6, <2>7
  <1>3. ASSUME NEW n \in Nodes, author_insertKey(n) PROVE NetInv'
    <2>1. ChainOK' /\ NodeInv'
      BY <1>3, <1>n, <1>t, <1>v DEF author_insertKey, chainVars
    <2> QED BY <1>g, <2>1
  <1>4. ASSUME NEW v \in Validators, heartbeat(v) PROVE NetInv'
    <2>1. ChainOK' /\ NodeInv'
      BY <1>4, <1>n, <1>t, <1>v DEF heartbeat
    <2> QED BY <1>g, <2>1
  <1>5. ASSUME finalize PROVE NetInv'
    <2>1. ChainOK' /\ NodeInv'
      BY <1>5, <1>n, <1>t, <1>v DEF finalize
    <2> QED BY <1>g, <2>1
  <1>6. ASSUME UNCHANGED netVars PROVE NetInv'
    <2>1. ChainOK' /\ NodeInv'
      BY <1>6, <1>n, <1>t, <1>v DEF netVars, chainVars
    <2> QED BY <1>g, <2>1
  <1> QED BY <1>1, <1>2, <1>3, <1>4, <1>5, <1>6 DEF NetNext

LEMMA NetStart ==
  ASSUME NetInit
  PROVE  NetInv
  <1>1. NodeInv
    BY NodeStart DEF NetInit
  <1>2. NodeTypeOK
    BY <1>1 DEF NodeInv
  <1> QED BY <1>1, <1>2, TwoAuthorities, NetAssumption DEF NetInit, NetInv, NetTypeOK

(* Blocks, finality, sessions and the nodes keep within their bounds, in    *)
(* every interleaving of slots, votes, heartbeats and failures.             *)
THEOREM NetTypeCorrect == NetSpec => []NetTypeOK
  <1>1. NetInit => NetInv
    BY NetStart
  <1>2. NetInv /\ [NetNext]_netVars => NetInv'
    BY NetStep
  <1>3. NetInv => NetTypeOK
    BY DEF NetInv
  <1> QED BY <1>1, <1>2, <1>3, PTL DEF NetSpec
-----------------------------------------------------------------------------
(* The runtime's Period is 20 minutes of blocks.  Of two validators, one    *)
(* that authors the first block of a session and is noted too early for it  *)
(* needs the third.                                                         *)
TurnComes == Period > Len(Authorities)

(* Who was up for the whole session so far has authored in it, or its turn  *)
(* has not come: at most one block has been authored since, by the other.   *)
Awaited(v) ==
  \/ v \in authored
  \/ best % Period = 0
  \/ best % Period = 1 /\ slot + 1 = v
PresentInv ==
  /\ \A v \in Validators \ absent : Up(v)
  /\ best < MaxBlocks => \A v \in Validators \ absent : Awaited(v)

LEMMA SameUp ==
  ASSUME config' = config, tasks' = tasks, NEW v
  PROVE  Up(v)' = Up(v)
  <1>1. "aura" \in generate_session_keys
    BY DEF generate_session_keys, opaque_SessionKeys
  <1>2. ASSUME NEW n \in Nodes PROVE Holds(n, v, "aura")' = Holds(n, v, "aura")
    BY <1>1 DEF Holds, Authorities
  <1> QED BY <1>2 DEF Up, Acts

LEMMA PresentNext ==
  ASSUME TurnComes, NetInv, PresentInv, [NetNext]_netVars
  PROVE  /\ PresentInv'
         /\ best' # best /\ ShouldEndSession(best') => reported' \subseteq absent
  <1> DEFINE Goal == /\ PresentInv'
                     /\ best' # best /\ ShouldEndSession(best') => reported' \subseteq absent
             r == best % Period
             r2 == (best + 1) % Period
  <1>t. /\ best \in Nat /\ best <= MaxBlocks /\ MaxBlocks \in Nat /\ slot \in {0, 1}
        /\ Period \in Nat /\ Period >= 3 /\ absent \subseteq Validators
        /\ Validators = {1, 2} /\ Validators' = Validators
    <2>1. Validators = {1, 2} /\ Len(Authorities) = 2
      BY TwoAuthorities
    <2>2. Validators' = Validators
      BY DEF Validators, Authorities
    <2> QED BY <2>1, <2>2, NetAssumption DEF NetInv, NetTypeOK, TurnComes
  <1>m. /\ r \in 0 .. (Period - 1) /\ r2 \in 0 .. (Period - 1)
        /\ r2 = IF r = Period - 1 THEN 0 ELSE r + 1
    <2>1. best + 1 \in Nat
      BY <1>t
    <2>2. r \in 0 .. (Period - 1) /\ r2 = IF r = Period - 1 THEN 0 ELSE r + 1
      BY <1>t, NextInSession
    <2>3. r2 \in 0 .. (Period - 1)
      BY <2>1, NextInSession
    <2> QED BY <2>2, <2>3
  <1>1. ASSUME node_step PROVE Goal
    <2>1. UNCHANGED <<best, slot, authored>> /\ absent' = absent \cup {v \in Validators : ~Up(v)'}
      BY <1>1 DEF node_step, chainVars
    <2>2. \A v \in Validators \ absent' : Up(v)' /\ v \notin absent
      BY <2>1
    <2>3. \A v : Awaited(v)' <=> Awaited(v)
      BY <2>1 DEF Awaited
    <2> QED BY <1>t, <2>1, <2>2, <2>3 DEF PresentInv
  <1>2. ASSUME slot_passes PROVE Goal
    <2>0. /\ slot' = (slot + 1) % 2 /\ config' = config /\ tasks' = tasks
      BY <1>2, TwoAuthorities DEF slot_passes, nodeVars
    <2>1. \A v \in Validators : v # slot + 1 => v = slot' + 1
      <3>1. (slot = 0 => slot' = 1) /\ (slot = 1 => slot' = 0)
        BY <1>t, <2>0
      <3> QED BY <1>t, <3>1
    <2>2. \A v : Up(v)' = Up(v)
      BY <2>0, SameUp
    <2>3. ASSUME best < MaxBlocks, best' = best + 1, block(best + 1, slot + 1)
          PROVE  Goal
      <3>1. r2 # 0 /\ authored' = authored \cup {slot + 1} /\ absent' = absent
        BY <2>3 DEF block, ShouldEndSession, NoteAuthor
      <3>2. ASSUME NEW v \in Validators \ absent PROVE Awaited(v)'
        <4>1. CASE v = slot + 1
          BY <3>1, <4>1 DEF Awaited
        <4>2. CASE v # slot + 1
          <5>1. v \in authored \/ r = 0
            BY <2>3, <4>2 DEF PresentInv, Awaited
          <5>2. r = 0 => r2 = 1
            BY <1>m, <3>1, <1>t
          <5>3. v = slot' + 1
            BY <2>1, <4>2
          <5> QED BY <2>3, <3>1, <5>1, <5>2, <5>3 DEF Awaited
        <4> QED BY <4>1, <4>2
      <3>3. PresentInv'
        BY <1>t, <2>2, <3>1, <3>2 DEF PresentInv
      <3>4. ~ShouldEndSession(best')
        BY <2>3, <3>1 DEF ShouldEndSession
      <3> QED BY <3>3, <3>4
    <2>4. ASSUME best < MaxBlocks, best' = best + 1, session_block(best + 1, slot + 1)
          PROVE  Goal
      <3>1. r2 = 0 /\ absent' = {v \in Validators : ~Up(v)}
        BY <2>4 DEF session_block, ShouldEndSession
      <3>2. PresentInv'
        <4>1. \A v : Awaited(v)'
          BY <2>4, <3>1 DEF Awaited
        <4> QED BY <1>t, <2>2, <3>1, <4>1 DEF PresentInv
      <3>3. r # 0 /\ r # 1
        BY <1>m, <1>t, <3>1
      <3>4. \A v \in Validators \ absent : v \in authored
        BY <2>4, <3>3 DEF PresentInv, Awaited
      <3>5. \A v \in reported' : v \in Validators /\ v \notin authored
        BY <2>4 DEF session_block, IsOnline, NoteAuthor
      <3> QED BY <3>2, <3>4, <3>5
    <2>5. ASSUME ~Up(slot + 1) \/ best = MaxBlocks,
                 UNCHANGED <<best, authored, heartbeats, HeartbeatAfter, reported, absent>>
          PROVE  Goal
      <3>1. ASSUME best < MaxBlocks, NEW v \in Validators \ absent PROVE Awaited(v)'
        <4>1. v # slot + 1
          BY <1>t, <2>5, <3>1 DEF PresentInv
        <4>2. v \in authored \/ r = 0
          BY <3>1, <4>1 DEF PresentInv, Awaited
        <4> QED BY <2>5, <4>2 DEF Awaited
      <3> QED BY <1>t, <2>2, <2>5, <3>1 DEF PresentInv
    <2> QED BY <1>2, <2>3, <2>4, <2>5 DEF slot_passes
  <1>3. ASSUME UNCHANGED <<config, tasks, best, slot, authored, absent>> PROVE Goal
    <2>1. \A v : Up(v)' = Up(v)
      BY <1>3, SameUp
    <2>2. \A v : Awaited(v)' <=> Awaited(v)
      BY <1>3 DEF Awaited
    <2> QED BY <1>3, <1>t, <2>1, <2>2 DEF PresentInv
  <1>4. ASSUME \/ \E n \in Nodes : author_insertKey(n)
               \/ \E v \in Validators : heartbeat(v)
               \/ finalize \/ UNCHANGED netVars
        PROVE  UNCHANGED <<config, tasks, best, slot, authored, absent>>
    BY <1>4 DEF author_insertKey, heartbeat, finalize, netVars, nodeVars, chainVars
  <1> QED BY <1>1, <1>2, <1>3, <1>4 DEF NetNext

(* A validator that could author during the whole of a session is not       *)
(* reported at its end, for sessions of any length that give every          *)
(* validator a turn, and however often the others fail and return.          *)
THEOREM PresentCorrect ==
  ASSUME TurnComes
  PROVE  NetSpec => PresentNotReported
  <1> DEFINE Just == (best' # best /\ ShouldEndSession(best')) => reported' \subseteq absent
  <1>1. NetInit => NetInv /\ PresentInv
    <2> SUFFICES ASSUME NetInit PROVE PresentInv
      BY NetStart
    <2>1. Validators \ absent = {}
      BY DEF NetInit
    <2> QED BY <2>1 DEF PresentInv
  <1>2. (NetInv /\ PresentInv) /\ [NetNext]_netVars => (NetInv /\ PresentInv)'
    BY NetStep, PresentNext
  <1>3. (NetInv /\ PresentInv) /\ [NetNext]_netVars => [Just]_netVars
    BY PresentNext
  <1>4. PresentNotReported <=> [][Just]_netVars
    BY DEF PresentNotReported
  <1> HIDE DEF Just
  <1> QED BY <1>1, <1>2, <1>3, <1>4, PTL DEF NetSpec
=============================================================================
