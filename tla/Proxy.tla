------------------------------- MODULE Proxy -------------------------------
(***************************************************************************)
(* Proxies of the runtime: an account lets delegates make calls for it,    *)
(* each within a ProxyType.  Which calls a type lets through (filter), and *)
(* which types a delegate may hand on (is_superset), are the runtime's;    *)
(* the pallet that applies them is Substrate's pallet-proxy.               *)
(*                                                                         *)
(* Left out: proxies with a delay and their announcements, deposits, and   *)
(* the calls that change nothing modelled here.  A batch of Utility keeps  *)
(* the filter of the origin it runs with, so it lets through what each of  *)
(* its calls would.  Multisig, which makes a new origin as Proxy::proxy    *)
(* does, but for an account of its own, is not modelled.                   *)
(***************************************************************************)
EXTENDS Integers, FiniteSets

CONSTANTS
  Owners,       \* the accounts that others act for
  Delegates,    \* the accounts that act for others
  MaxProxies    \* of one account

ASSUME ProxyAssumption == MaxProxies \in Nat

VARIABLES
  Proxies,   \* [real, delegate, type, root]; root is history: the type of the
             \* proxy, granted by the owner itself, that this one comes from
  spent,     \* history: <<through, owner>>: a delegate of through moved what owner holds
  trusting,  \* history: owners who have themselves granted Any
  opening    \* history: owners who have themselves granted Any or NonTransfer

vars == <<Proxies, spent, trusting, opening>>
-----------------------------------------------------------------------------
ProxyTypes == {"Any", "NonTransfer", "Governance", "Staking", "IdentityJudgement"}

(* The calls of construct_runtime!, by pallet; of Indices and Identity by   *)
(* the parts that a filter tells apart.                                     *)
Calls ==
  {"System", "Utility", "Timestamp", "Authorship", "Indices", "IndicesTransfer",
   "Balances", "Staking", "Session", "Democracy", "Council", "Elections", "Grandpa",
   "Treasury", "Sudo", "ImOnline", "AuthorityDiscovery", "Offences",
   "RandomnessCollectiveFlip", "Identity", "ProvideJudgement", "Recovery", "Scheduler",
   "Proxy", "Multisig", "CarbonCommittee", "CarbonMembership", "CarbonAssets",
   "StandardAssets", "CarbonExchange"}

(* The calls with which an account gives away what it holds: money, units   *)
(* of an asset, an index, or control over itself.                           *)
Transfers ==
  {"Balances", "CarbonAssets", "StandardAssets", "CarbonExchange", "IndicesTransfer",
   "Recovery", "Sudo"}

(* ProxyType::filter, as the set of the calls let through. *)
NonTransferCalls ==
  {"System", "Scheduler", "Timestamp", "Indices", "Authorship", "Staking", "Offences",
   "Session", "Grandpa", "ImOnline", "AuthorityDiscovery", "Democracy", "Council",
   "Treasury", "Utility", "Identity", "ProvideJudgement", "Proxy", "Multisig"}
filterWithIndices(type) ==     \* mutant: Call::Indices(..) for NonTransfer
  IF type = "Any" THEN Calls
  ELSE IF type = "NonTransfer" THEN NonTransferCalls \cup {"IndicesTransfer"}
  ELSE {"Utility"}
filterGovernanceProxies(type) ==     \* mutant: Call::Proxy(..) for Governance
  IF type = "Any" THEN Calls
  ELSE IF type = "NonTransfer" THEN NonTransferCalls
  ELSE IF type = "Governance" THEN {"Democracy", "Council", "Treasury", "Utility", "Proxy"}
  ELSE {"Utility"}
filter(type) ==
  [Any |-> Calls,
   NonTransfer |-> NonTransferCalls,
   Governance |-> {"Democracy", "Council", "Treasury", "Utility"},
   Staking |-> {"Staking", "Session", "Utility"},
   IdentityJudgement |-> {"ProvideJudgement", "Utility"}][type]

(* ProxyType::is_superset, its match arms from the first. *)
is_superset_swapped(type, other) ==    \* mutant: (NonTransfer, _) before (_, Any)
  type = other \/ type \in {"Any", "NonTransfer"}
is_superset(type, other) ==
  \/ type = other
  \/ type = "Any"
  \/ other # "Any" /\ type = "NonTransfer"
-----------------------------------------------------------------------------
Records(root) == [real: Owners, delegate: Delegates, type: ProxyTypes, root: root]
Of(real) == {p \in Proxies : p.real = real}

TypeOK ==
  /\ Proxies \subseteq Records(ProxyTypes)
  /\ \A real \in Owners : Cardinality(Of(real)) <= MaxProxies
  /\ spent \subseteq Owners \X Owners
  /\ trusting \subseteq Owners /\ opening \subseteq Owners

Init ==
  /\ Proxies = {} /\ spent = {}
  /\ trusting = {} /\ opening = {}

(* The proxies under which a delegate who starts with the first one can     *)
(* make a call.  The call that he makes for its owner may be Proxy::proxy   *)
(* again, when the filter lets Proxy through: that runs with a new origin,  *)
(* Signed(real), which carries the filter of the next proxy only.  A chain  *)
(* need not come back to a proxy.                                           *)
Reached(first) ==
  {last \in Proxies :
     \E n \in 1 .. Cardinality(Proxies) : \E path \in [1 .. n -> Proxies] :
       /\ path[1] = first /\ path[n] = last
       /\ \A i \in 1 .. n - 1 : /\ "Proxy" \in filter(path[i].type)
                                /\ path[i + 1].delegate = path[i].real}

(* The body of add_proxy. *)
AddBeyondMax(real, delegate, type, root) ==    \* mutant: MaxProxies not enforced
  /\ delegate # real
  /\ ~\E p \in Of(real) : p.delegate = delegate /\ p.type = type
  /\ Proxies' = Proxies \cup
       {[real |-> real, delegate |-> delegate, type |-> type, root |-> root]}
Add(real, delegate, type, root) ==
  /\ delegate # real
  /\ ~\E p \in Of(real) : p.delegate = delegate /\ p.type = type
  /\ Cardinality(Of(real)) < MaxProxies
  /\ Proxies' = Proxies \cup
       {[real |-> real, delegate |-> delegate, type |-> type, root |-> root]}

(* The calls that an owner signs itself. *)
add_proxy(real, delegate, type) ==
  /\ Add(real, delegate, type, type)
  /\ trusting' = IF type = "Any" THEN trusting \cup {real} ELSE trusting
  /\ opening' = IF type \in {"Any", "NonTransfer"} THEN opening \cup {real} ELSE opening
  /\ UNCHANGED spent

remove_proxy(gone) ==
  /\ Proxies' = Proxies \ {gone}
  /\ UNCHANGED <<spent, trusting, opening>>

(* proxy(real, ..): a call is made for the owner of a proxy that is reached. *)
(* Calls that change the proxies are held to is_superset, those that remove *)
(* all of them to ProxyType::default(), and every other one to the filter.  *)
proxied_add(proxy, delegate, type) ==
  /\ "Proxy" \in filter(proxy.type) /\ is_superset(proxy.type, type)
  /\ Add(proxy.real, delegate, type, proxy.root)
  /\ UNCHANGED <<spent, trusting, opening>>

proxied_remove(proxy, gone) ==
  /\ gone.real = proxy.real
  /\ "Proxy" \in filter(proxy.type) /\ is_superset(proxy.type, gone.type)
  /\ Proxies' = Proxies \ {gone}
  /\ UNCHANGED <<spent, trusting, opening>>

proxied_remove_proxies(proxy) ==
  /\ proxy.type = "Any"
  /\ Proxies' = Proxies \ Of(proxy.real)
  /\ UNCHANGED <<spent, trusting, opening>>

proxied_transfer(first, proxy) ==
  /\ filter(proxy.type) \cap Transfers # {}
  /\ spent' = spent \cup {<<first.real, proxy.real>>}
  /\ UNCHANGED <<Proxies, trusting, opening>>

Next ==
  \/ \E real \in Owners, delegate \in Delegates, type \in ProxyTypes :
       add_proxy(real, delegate, type)
  \/ \E gone \in Proxies : remove_proxy(gone)
  \/ \E first \in Proxies : \E proxy \in Reached(first) :
       \/ \E delegate \in Delegates, type \in ProxyTypes : proxied_add(proxy, delegate, type)
       \/ \E gone \in Proxies : proxied_remove(proxy, gone)
       \/ proxied_remove_proxies(proxy)
       \/ proxied_transfer(first, proxy)

Spec == Init /\ [][Next]_vars
-----------------------------------------------------------------------------
(* However delegates pass their proxies on, none of them can make a call    *)
(* that the owner did not allow the first of them: filter and is_superset,  *)
(* written apart, agree.                                                    *)
PowersShrink ==
  \A p \in Proxies : filter(p.type) \subseteq filter(p.root)

(* The holdings of an account that never granted Any itself are never moved *)
(* by a delegate: not directly, not through a proxy that a delegate of a    *)
(* lesser type has added, and not through a chain of proxied calls.         *)
OnlyTrustedSpend == \A s \in spent : s[2] \in trusting

(* An account that has itself granted nothing above Governance, Staking and *)
(* IdentityJudgement is not a way to what others hold: nothing is moved     *)
(* through it, its own holdings or those of the accounts that it acts for,  *)
(* whatever its delegates add and however they chain their calls.  (A       *)
(* NonTransfer delegate is such a way: Call::Proxy(..) lets him reach the   *)
(* Any that others have granted to the account.)                            *)
NarrowGrantsReachNothing == \A s \in spent : s[1] \in opening
=============================================================================
