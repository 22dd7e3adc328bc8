------------------------------ MODULE LocalNet ------------------------------
(***************************************************************************)
(* The local testnet: the nodes of Node, whose validators author blocks    *)
(* with Aura, finalize them with GRANDPA, and are reported by im-online    *)
(* when a session ends in which they gave no sign of life.  Aura, GRANDPA, *)
(* sessions, im-online and offences are Substrate's; which of them hear of *)
(* what, the lengths of time and the keys are the runtime's.               *)
(*                                                                         *)
(* Abstractions: a block reaches every node at once and there are no       *)
(* forks; the authorities are those of the genesis state throughout        *)
(* (elections and set_keys are not modelled).  An authority is named by    *)
(* its position among them.                                                *)
(***************************************************************************)
EXTENDS Node

CONSTANTS
  Period,        \* blocks of a session: 20 minutes
  MaxBlocks      \* bound on the length of the chain

ASSUME NetAssumption == Period \in Nat \ {0} /\ MaxBlocks \in Nat

VARIABLES
  slot,             \* whose turn it is to author
  best, finalized,  \* numbers of the best and of the last finalized block
  authored,         \* AuthoredBlocks: who has authored in this session
  heartbeats,       \* ReceivedHeartbeats of this session
  HeartbeatAfter,   \* the block from which on heartbeats are sent
  inserted,         \* nodes whose operator has inserted an im_online key
  reported,         \* who was reported when the last session ended
  absent            \* history: who could not author at some time of this session

chainVars == <<slot, best, finalized, authored, heartbeats, HeartbeatAfter, reported>>
netVars == <<nodeVars, chainVars, inserted, absent>>
-----------------------------------------------------------------------------
Authorities == testnet_genesis(local_testnet_config).session
Validators == DOMAIN Authorities

(* EPOCH_DURATION_IN_SLOTS is one hour, three times the Period. *)
SessionDuration == 3 * Period

(* The keys of the runtime's SessionKeys, those of opaque::SessionKeys, and *)
(* which of the two generate_session_keys makes.                            *)
SessionKeys == {"grandpa", "aura", "im_online", "authority_discovery"}
opaque_SessionKeys_aura == {"aura"}        \* mutant: pub grandpa left out
opaque_SessionKeys == {"aura", "grandpa"}
generate_session_keys == opaque_SessionKeys

(* A node that is started with --alice or --bob generates, in spawn_tasks,  *)
(* the keys of that seed; the others come with author_insertKey.            *)
Holds(n, v, kind) ==
  /\ kind \in generate_session_keys \/ (kind = "im_online" /\ n \in inserted)
  /\ "rpc" \in tasks[n]
  /\ Authorities[v].keys[kind] = get_from_seed(kind, <<n>>)

(* Nodes that can do something for validator v; only an authority is given  *)
(* the keystore.                                                            *)
Acts(v, task, kind) ==
  \E n \in Nodes :
    is_authority(config[n]) /\ {task, "network"} \subseteq tasks[n] /\ Holds(n, v, kind)
Up(v) == Acts(v, "aura", "aura")

(* PeriodicSessions<Period, Offset> *)
ShouldEndSession(now) == now % Period = 0

(* EventHandler = (Staking, ImOnline): im-online hears of every author. *)
NoteAuthorIndex(noted, author) == noted \cup {author - 1}   \* mutant: the raw index
NoteAuthorStaking(noted, author) == noted       \* mutant: EventHandler = Staking
NoteAuthor(noted, author) == noted \cup {author}

IsOnline(v, noted) == v \in noted \/ v \in heartbeats
-----------------------------------------------------------------------------
NetInit ==
  /\ NodeInit
  /\ slot = 0 /\ best = 0 /\ finalized = 0
  /\ authored = {} /\ heartbeats = {} /\ HeartbeatAfter = 0
  /\ inserted = {} /\ reported = {} /\ absent = Validators

(* A node starts, fails or ends: Node's actions. *)
node_step ==
  /\ \E n \in Nodes :
       \/ start(n)
       \/ assemble(n)
       \/ assembly_fails(n)
       \/ \E task \in Essential : task_fails(n, task)
       \/ node_exits(n)
  /\ absent' = absent \cup {v \in Validators : ~Up(v)'}
  /\ UNCHANGED <<chainVars, inserted>>

(* Block `now` by `author`, in the middle of a session and as the first of  *)
(* a new one.  Of the author of the latter, im-online may hear before or    *)
(* after the session ends.                                                  *)
block(now, author) ==
  /\ ~ShouldEndSession(now)
  /\ authored' = NoteAuthor(authored, author)
  /\ UNCHANGED <<heartbeats, HeartbeatAfter, reported, absent>>

session_block(now, author) ==
  /\ ShouldEndSession(now)
  /\ \E before \in BOOLEAN :
       LET noted == IF before THEN NoteAuthor(authored, author) ELSE authored IN
       /\ reported' = {v \in Validators : ~IsOnline(v, noted)}
       /\ authored' = IF before THEN {} ELSE NoteAuthor({}, author)
  /\ heartbeats' = {}
  /\ HeartbeatAfter' = now + SessionDuration \div 2
  /\ absent' = {v \in Validators : ~Up(v)}

slot_passes ==
  LET author == slot + 1 IN
  /\ slot' = (slot + 1) % Len(Authorities)
  /\ \/ /\ Up(author) /\ best < MaxBlocks
        /\ best' = best + 1
        /\ block(best + 1, author) \/ session_block(best + 1, author)
     \/ /\ ~Up(author) \/ best = MaxBlocks
        /\ UNCHANGED <<best, authored, heartbeats, HeartbeatAfter, reported, absent>>
  /\ UNCHANGED <<nodeVars, finalized, inserted>>

(* The RPC author_insertKey; the keystore is on disk and outlives the process. *)
author_insertKey(n) ==
  /\ "rpc" \in tasks[n]
  /\ n \notin inserted
  /\ inserted' = inserted \cup {n}
  /\ UNCHANGED <<nodeVars, chainVars, absent>>

(* The off-chain worker of im-online. *)
heartbeat(v) ==
  /\ Acts(v, "offchain", "im_online")
  /\ v \notin heartbeats
  /\ best >= HeartbeatAfter
  /\ heartbeats' = heartbeats \cup {v}
  /\ UNCHANGED <<nodeVars, slot, best, finalized, authored, HeartbeatAfter, inserted, reported, absent>>

(* More than two thirds of the voters finalize a block that is at least two *)
(* below the best one (VotingRulesBuilder::default).                        *)
Voters == {v \in Validators : Acts(v, "grandpa-voter", "grandpa")}
finalize ==
  /\ 3 * Cardinality(Voters) > 2 * Cardinality(Validators)
  /\ finalized' \in finalized + 1 .. best - 2
  /\ UNCHANGED <<nodeVars, slot, best, authored, heartbeats, HeartbeatAfter, inserted, reported, absent>>

NetNext ==
  \/ node_step
  \/ slot_passes
  \/ \E n \in Nodes : author_insertKey(n)
  \/ \E v \in Validators : heartbeat(v)
  \/ finalize

(* Time passes, nodes that were started go on, and voters vote. *)
NetFairness ==
  /\ WF_netVars(slot_passes)
  /\ WF_netVars(finalize)
  /\ \A n \in Nodes : WF_netVars(assemble(n) /\ node_step) /\ WF_netVars(node_exits(n) /\ node_step)

NetSpec == NetInit /\ [][NetNext]_netVars /\ NetFairness
-----------------------------------------------------------------------------
NetTypeOK ==
  /\ NodeTypeOK
  /\ slot \in 0 .. Len(Authorities) - 1
  /\ best \in 0 .. MaxBlocks /\ finalized \in 0 .. best
  /\ authored \subseteq Validators /\ heartbeats \subseteq Validators
  /\ HeartbeatAfter \in Nat /\ inserted \subseteq Nodes
  /\ reported \subseteq Validators /\ absent \subseteq Validators

(* A validator that could author during the whole of a session is not       *)
(* reported as offline at its end, however often the others fail and        *)
(* return: its turn comes before the session is over, and the block that it *)
(* authors counts.                                                          *)
PresentNotReported ==
  [][(best' # best /\ ShouldEndSession(best')) => reported' \subseteq absent]_netVars

(* While all validators stay up, every block that the voting rule lets them *)
(* vote for is finalized; a validator that has failed before does not       *)
(* prevent it.                                                              *)
FinalityFollows ==
  (\A n \in Nodes : <>[](Running(n) /\ ~broken[n])) => <>(finalized = MaxBlocks - 2)
=============================================================================
