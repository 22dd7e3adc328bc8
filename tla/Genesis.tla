------------------------------ MODULE Genesis ------------------------------
(***************************************************************************)
(* The genesis state of the chains that the node knows by name, as         *)
(* chain_spec.rs builds it: who is endowed, who validates with which       *)
(* session keys, who sits on the carbon committee.  Balances are counted   *)
(* in COINs.  The code of the runtime, the properties of the token and the *)
(* pallets that start empty are left out.                                  *)
(***************************************************************************)
EXTENDS Integers, Sequences, FiniteSets

STASH == 1000

(* A key of kind `kind` derived from a seed, and the account of a seed,     *)
(* which is its sr25519 key.  "//Alice//stash" is <<"Alice", "stash">>.     *)
get_from_seed(kind, seed) == <<kind, seed>>
get_account_id_from_seed(seed) == get_from_seed("sr25519", seed)

authority_keys_from_seed(name) ==
  [stash |-> get_account_id_from_seed(<<name, "stash">>),
   controller |-> get_account_id_from_seed(<<name>>),
   keys |-> [kind \in {"grandpa", "aura", "im_online", "authority_discovery"} |->
               get_from_seed(kind, <<name>>)]]

(* endowed_accounts is a sequence: testnet_genesis takes the committee from *)
(* its positions.                                                           *)
development_config ==
  [initial_authorities |-> <<authority_keys_from_seed("Alice")>>,
   root_key |-> get_account_id_from_seed(<<"Alice">>),
   endowed_accounts |->
     <<<<get_account_id_from_seed(<<"Alice">>), 999997000>>,
       <<get_account_id_from_seed(<<"Bob">>), 1000>>,
       <<get_account_id_from_seed(<<"Charlie">>), 1000>>,
       <<get_account_id_from_seed(<<"Dave">>), 1000>>>>]

local_testnet_config_without_stash ==    \* mutant: a stash is not endowed, as in "dev"
  [initial_authorities |-> <<authority_keys_from_seed("Alice"), authority_keys_from_seed("Bob")>>,
   root_key |-> get_account_id_from_seed(<<"Alice">>),
   endowed_accounts |->
     <<<<get_account_id_from_seed(<<"Alice">>), 999996000>>,
       <<get_account_id_from_seed(<<"Alice", "stash">>), 1000>>,
       <<get_account_id_from_seed(<<"Bob">>), 1000>>,
       <<get_account_id_from_seed(<<"Charlie">>), 1000>>,
       <<get_account_id_from_seed(<<"Dave">>), 1000>>>>]
local_testnet_config ==
  [initial_authorities |-> <<authority_keys_from_seed("Alice"), authority_keys_from_seed("Bob")>>,
   root_key |-> get_account_id_from_seed(<<"Alice">>),
   endowed_accounts |->
     <<<<get_account_id_from_seed(<<"Alice">>), 999995000>>,
       <<get_account_id_from_seed(<<"Alice", "stash">>), 1000>>,
       <<get_account_id_from_seed(<<"Bob">>), 1000>>,
       <<get_account_id_from_seed(<<"Bob", "stash">>), 1000>>,
       <<get_account_id_from_seed(<<"Charlie">>), 1000>>,
       <<get_account_id_from_seed(<<"Dave">>), 1000>>>>]

(* endowed_accounts[1..4] counts from zero. *)
testnet_genesis(config) ==
  LET endowed == {config.endowed_accounts[i] : i \in DOMAIN config.endowed_accounts}
      authorities == config.initial_authorities
  IN
  [balances |-> [account \in {e[1] : e \in endowed} |->
                   (CHOOSE e \in endowed : e[1] = account)[2]],
   sudo |-> config.root_key,
   committee |-> {config.endowed_accounts[i][1] : i \in 2 .. 4},
   session |-> [i \in DOMAIN authorities |->
                  [validator |-> authorities[i].stash, keys |-> authorities[i].keys]],
   stakers |-> {[stash |-> authorities[i].stash, controller |-> authorities[i].controller,
                 value |-> STASH] : i \in DOMAIN authorities}]

(* SubstrateCli::load_spec, for the chains that it has a name for; a chain  *)
(* read from a file, such as config/local-testnet.json, was built from one  *)
(* of them.                                                                 *)
load_spec(id) == IF id = "dev" THEN development_config ELSE local_testnet_config

(* pallet-staking's genesis asserts, for every staker, that the stash has   *)
(* the balance that it bonds.  The storage cannot be built otherwise.       *)
Buildable(genesis) ==
  \A s \in genesis.stakers :
    s.stash \in DOMAIN genesis.balances /\ genesis.balances[s.stash] >= s.value
=============================================================================
