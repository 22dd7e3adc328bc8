----------------------------- MODULE MCLocalNet -----------------------------
(***************************************************************************)
(* The two genesis validators among the nodes that                         *)
(* scripts/start_local_net.sh starts, --alice and --bob, for TLC.          *)
(***************************************************************************)
EXTENDS LocalNet

ValidatorConfig ==
  {[chain |-> "local", role |-> "Authority", disable_grandpa |-> FALSE,
    offchain_worker |-> TRUE]}
=============================================================================
