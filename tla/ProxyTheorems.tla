--------------------------- MODULE ProxyTheorems ---------------------------
(***************************************************************************)
(* Proofs about Proxy, for any owners, delegates and MaxProxies.  They     *)
(* need filter and is_superset through two lemmas only.                    *)
(***************************************************************************)
EXTENDS Proxy, FiniteSetTheorems, TLAPS

(* The part of the type invariant that the proofs need. *)
Recorded ==
  /\ Proxies \subseteq Records(ProxyTypes)
  /\ spent \subseteq Owners \X Owners
  /\ trusting \subseteq Owners /\ opening \subseteq Owners

(* A proxy that goes back to Any was let in by an owner who granted it. *)
RootsGranted ==
  \A p \in Proxies : p.root = "Any" => p.real \in trusting

(* A proxy that goes back to one with Call::Proxy(..) was let in by an owner *)
(* who granted Any or NonTransfer.                                           *)
RootsOpened ==
  \A p \in Proxies : "Proxy" \in filter(p.root) => p.real \in opening

ProxyInv ==
  /\ Recorded /\ PowersShrink /\ RootsGranted /\ RootsOpened
  /\ OnlyTrustedSpend /\ NarrowGrantsReachNothing
-----------------------------------------------------------------------------
(* The two tables agree: a type that is_superset puts above another one     *)
(* lets through every call that the other one does.                         *)
LEMMA SupersetFilters ==
  ASSUME NEW type \in ProxyTypes, NEW other \in ProxyTypes, is_superset(type, other)
  PROVE  filter(other) \subseteq filter(type)
<1>1. CASE type = other
  BY <1>1
<1>2. CASE type = "Any"
  BY <1>2 DEF filter, ProxyTypes, Calls, NonTransferCalls
<1>3. CASE type = "NonTransfer" /\ other # "Any"
  BY <1>3 DEF filter, ProxyTypes, NonTransferCalls
<1> QED
  BY <1>1, <1>2, <1>3 DEF is_superset

(* Of all types, only Any lets through a call that moves holdings. *)
LEMMA OnlyAnyTransfers ==
  ASSUME NEW type \in ProxyTypes, filter(type) \cap Transfers # {}
  PROVE  type = "Any"
BY DEF filter, ProxyTypes, NonTransferCalls, Transfers

(* Nothing but Any reaches as far as Any. *)
LEMMA AnyAbove ==
  ASSUME NEW type \in ProxyTypes, filter("Any") \subseteq filter(type)
  PROVE  type = "Any"
<1>1. filter("Any") \cap Transfers # {}
  BY DEF filter, Calls, Transfers
<1> QED
  BY <1>1, OnlyAnyTransfers

(* Only Any and NonTransfer let through calls of the proxy pallet. *)
LEMMA ProxyCallers ==
  ASSUME NEW type \in ProxyTypes, "Proxy" \in filter(type)
  PROVE  type \in {"Any", "NonTransfer"}
BY DEF filter, ProxyTypes

LEMMA AnyCallsProxy == "Proxy" \in filter("Any")
BY DEF filter, Calls

(* Whoever reaches a proxy that moves holdings starts with one that lets    *)
(* him call the proxy pallet.                                               *)
LEMMA ReachedFrom ==
  ASSUME Recorded, NEW first \in Proxies, NEW proxy \in Reached(first),
         proxy.type = "Any"
  PROVE  "Proxy" \in filter(first.type)
<1>1. PICK n \in 1 .. Cardinality(Proxies) : \E path \in [1 .. n -> Proxies] :
        /\ path[1] = first /\ path[n] = proxy
        /\ \A i \in 1 .. n - 1 : /\ "Proxy" \in filter(path[i].type)
                                 /\ path[i + 1].delegate = path[i].real
  BY DEF Reached
<1>2. PICK path \in [1 .. n -> Proxies] :
        /\ path[1] = first /\ path[n] = proxy
        /\ \A i \in 1 .. n - 1 : "Proxy" \in filter(path[i].type)
  BY <1>1
<1>3. CASE n = 1
  BY <1>2, <1>3, AnyCallsProxy
<1>4. CASE n # 1
  <2>1. 1 \in 1 .. n - 1
    BY <1>4
  <2> QED
    BY <1>2, <2>1
<1> QED
  BY <1>3, <1>4

(* Add, whoever calls it, keeps what is true of the proxies. *)
LEMMA AddKeeps ==
  ASSUME Recorded, PowersShrink,
         NEW real \in Owners, NEW delegate \in Delegates,
         NEW type \in ProxyTypes, NEW root \in ProxyTypes,
         filter(type) \subseteq filter(root),
         Add(real, delegate, type, root)
  PROVE  /\ Proxies' \subseteq Records(ProxyTypes)
         /\ PowersShrink'
         /\ \A p \in Proxies' : p \in Proxies \/ (p.real = real /\ p.root = root)
<1> DEFINE new == [real |-> real, delegate |-> delegate, type |-> type, root |-> root]
<1>1. Proxies' = Proxies \cup {new}
  BY DEF Add
<1>2. new \in Records(ProxyTypes) /\ new.type = type /\ new.root = root /\ new.real = real
  BY DEF Records
<1> HIDE DEF new
<1>3. \A p \in Proxies' : filter(p.type) \subseteq filter(p.root)
  BY <1>1, <1>2 DEF PowersShrink
<1>4. Proxies' \subseteq Records(ProxyTypes)
  BY <1>1, <1>2 DEF Recorded
<1>5. \A p \in Proxies' : p \in Proxies \/ (p.real = real /\ p.root = root)
  BY <1>1, <1>2
<1> QED
  BY <1>3, <1>4, <1>5 DEF PowersShrink

(* Removing proxies keeps everything. *)
LEMMA FewerKeep ==
  ASSUME ProxyInv, Proxies' \subseteq Proxies,
         spent' = spent, trusting' = trusting, opening' = opening
  PROVE  ProxyInv'
<1>1. \A p \in Proxies' : filter(p.type) \subseteq filter(p.root)
  BY DEF ProxyInv, PowersShrink
<1>2. PowersShrink'
  BY <1>1 DEF PowersShrink
<1>3. Recorded' /\ RootsGranted' /\ OnlyTrustedSpend' /\ NarrowGrantsReachNothing'
  BY DEF ProxyInv, Recorded, RootsGranted, OnlyTrustedSpend, NarrowGrantsReachNothing, Records
<1>4. RootsOpened'
  <2>1. \A p \in Proxies' : "Proxy" \in filter(p.root) => p.real \in opening'
    BY DEF ProxyInv, RootsOpened
  <2> QED
    BY <2>1 DEF RootsOpened
<1> QED
  BY <1>2, <1>3, <1>4 DEF ProxyInv

LEMMA ProxyInit == Init => ProxyInv
BY DEF Init, ProxyInv, Recorded, PowersShrink, RootsGranted, RootsOpened, OnlyTrustedSpend,
       NarrowGrantsReachNothing

LEMMA ProxyStep ==
  ASSUME ProxyInv, [Next]_vars
  PROVE  ProxyInv'
<1>0. /\ Recorded /\ PowersShrink /\ RootsGranted /\ RootsOpened
      /\ OnlyTrustedSpend /\ NarrowGrantsReachNothing
  BY DEF ProxyInv
<1>1. ASSUME NEW real \in Owners, NEW delegate \in Delegates, NEW type \in ProxyTypes,
             add_proxy(real, delegate, type)
      PROVE  ProxyInv'
  <2>1. /\ Proxies' \subseteq Records(ProxyTypes)
        /\ PowersShrink'
        /\ \A p \in Proxies' : p \in Proxies \/ (p.real = real /\ p.root = type)
    <3>1. Add(real, delegate, type, type)
      BY <1>1 DEF add_proxy
    <3> QED
      BY <3>1, <1>0, AddKeeps
  <2>2. /\ trusting \subseteq trusting' /\ trusting' \subseteq Owners /\ spent' = spent
        /\ type = "Any" => real \in trusting'
        /\ opening \subseteq opening' /\ opening' \subseteq Owners
        /\ type \in {"Any", "NonTransfer"} => real \in opening'
    BY <1>0, <1>1 DEF add_proxy, Recorded
  <2>3. Recorded' /\ OnlyTrustedSpend' /\ NarrowGrantsReachNothing'
    BY <2>1, <2>2, <1>0 DEF Recorded, OnlyTrustedSpend, NarrowGrantsReachNothing, Records
  <2>4. RootsGranted'
    BY <2>1, <2>2, <1>0 DEF RootsGranted
  <2>5. RootsOpened'
    <3>1. \A p \in Proxies' : "Proxy" \in filter(p.root) => p.real \in opening'
      BY <2>1, <2>2, <1>0, ProxyCallers DEF RootsOpened
    <3> QED
      BY <3>1 DEF RootsOpened
  <2> QED
    BY <2>1, <2>3, <2>4, <2>5 DEF ProxyInv
<1>2. ASSUME NEW gone \in Proxies, remove_proxy(gone)
      PROVE  ProxyInv'
  BY <1>2, FewerKeep DEF remove_proxy
<1>3. ASSUME NEW proxy \in Proxies, NEW delegate \in Delegates, NEW type \in ProxyTypes,
             proxied_add(proxy, delegate, type)
      PROVE  ProxyInv'
  <2>1. proxy.real \in Owners /\ proxy.type \in ProxyTypes /\ proxy.root \in ProxyTypes
    BY <1>0 DEF Recorded, Records
  <2>2. filter(type) \subseteq filter(proxy.root)
    <3>1. is_superset(proxy.type, type)
      BY <1>3 DEF proxied_add
    <3>2. filter(type) \subseteq filter(proxy.type)
      BY <3>1, <2>1, SupersetFilters
    <3>3. filter(proxy.type) \subseteq filter(proxy.root)
      BY <1>0 DEF PowersShrink
    <3> QED
      BY <3>2, <3>3
  <2>3. /\ Proxies' \subseteq Records(ProxyTypes)
        /\ PowersShrink'
        /\ \A p \in Proxies' : p \in Proxies \/ (p.real = proxy.real /\ p.root = proxy.root)
    <3>1. Add(proxy.real, delegate, type, proxy.root)
      BY <1>3 DEF proxied_add
    <3> QED
      BY <3>1, <2>1, <2>2, <1>0, AddKeeps
  <2>4. spent' = spent /\ trusting' = trusting /\ opening' = opening
    BY <1>3 DEF proxied_add
  <2>5. Recorded' /\ OnlyTrustedSpend' /\ NarrowGrantsReachNothing'
    BY <2>3, <2>4, <1>0 DEF Recorded, OnlyTrustedSpend, NarrowGrantsReachNothing, Records
  <2>6. RootsGranted'
    BY <2>3, <2>4, <1>0 DEF RootsGranted
  <2>7. RootsOpened'
    <3>1. \A p \in Proxies' : "Proxy" \in filter(p.root) => p.real \in opening'
      BY <2>3, <2>4, <1>0 DEF RootsOpened
    <3> QED
      BY <3>1 DEF RootsOpened
  <2> QED
    BY <2>3, <2>5, <2>6, <2>7 DEF ProxyInv
<1>4. ASSUME NEW proxy \in Proxies, NEW gone \in Proxies, proxied_remove(proxy, gone)
      PROVE  ProxyInv'
  BY <1>4, FewerKeep DEF proxied_remove
<1>5. ASSUME NEW proxy \in Proxies, proxied_remove_proxies(proxy)
      PROVE  ProxyInv'
  BY <1>5, FewerKeep DEF proxied_remove_proxies
<1>6. ASSUME NEW first \in Proxies, NEW proxy \in Reached(first),
             proxied_transfer(first, proxy)
      PROVE  ProxyInv'
  <2>0. proxy \in Proxies
    BY DEF Reached
  <2>1. /\ proxy.real \in Owners /\ proxy.type \in ProxyTypes /\ proxy.root \in ProxyTypes
        /\ first.real \in Owners
    BY <1>0, <2>0 DEF Recorded, Records
  <2>2. proxy.type = "Any"
    BY <1>6, <2>1, OnlyAnyTransfers DEF proxied_transfer
  <2>3. proxy.real \in trusting
    <3>1. filter("Any") \subseteq filter(proxy.root)
      BY <2>0, <2>2, <1>0 DEF PowersShrink
    <3> QED
      BY <2>0, <2>1, <3>1, AnyAbove, <1>0 DEF RootsGranted
  <2>4. first.real \in opening
    <3>1. "Proxy" \in filter(first.type)
      BY <1>0, <2>2, ReachedFrom
    <3>2. "Proxy" \in filter(first.root)
      BY <3>1, <1>0 DEF PowersShrink
    <3> QED
      BY <3>2, <1>0 DEF RootsOpened
  <2>5. /\ Proxies' = Proxies /\ trusting' = trusting /\ opening' = opening
        /\ spent' = spent \cup {<<first.real, proxy.real>>}
    BY <1>6 DEF proxied_transfer
  <2>6. Recorded' /\ RootsGranted'
    BY <2>1, <2>5, <1>0 DEF Recorded, RootsGranted, Records
  <2>7. OnlyTrustedSpend' /\ NarrowGrantsReachNothing'
    BY <2>3, <2>4, <2>5, <1>0 DEF OnlyTrustedSpend, NarrowGrantsReachNothing
  <2>8. PowersShrink' /\ RootsOpened'
    BY <2>5, <1>0 DEF PowersShrink, RootsOpened
  <2> QED
    BY <2>6, <2>7, <2>8 DEF ProxyInv
<1>7. ASSUME UNCHANGED vars
      PROVE  ProxyInv'
  BY <1>7, FewerKeep DEF vars
<1>8. \A first : Reached(first) \subseteq Proxies
  BY DEF Reached
<1> QED
  BY <1>1, <1>2, <1>3, <1>4, <1>5, <1>6, <1>7, <1>8 DEF Next

LEMMA ProxyAlways == Spec => []ProxyInv
BY ProxyInit, ProxyStep, PTL DEF Spec

(* However far delegates pass their proxies on, with the runtime's filter   *)
(* and is_superset none of them ever gains a call that the owner did not    *)
(* allow the first of them: for any accounts and any number of proxies.     *)
THEOREM PowersShrinkCorrect == Spec => []PowersShrink
<1>1. ProxyInv => PowersShrink
  BY DEF ProxyInv
<1> QED
  BY <1>1, ProxyAlways, PTL

(* An owner who has never granted Any keeps what it holds, whatever its     *)
(* delegates and theirs do.                                                 *)
THEOREM OnlyTrustedSpendCorrect == Spec => []OnlyTrustedSpend
<1>1. ProxyInv => OnlyTrustedSpend
  BY DEF ProxyInv
<1> QED
  BY <1>1, ProxyAlways, PTL

(* Nothing is moved through an account that has itself granted no more than *)
(* Governance, Staking or IdentityJudgement, along chains of proxied calls  *)
(* of any length and whatever its delegates add.                            *)
THEOREM NarrowGrantsReachNothingCorrect == Spec => []NarrowGrantsReachNothing
<1>1. ProxyInv => NarrowGrantsReachNothing
  BY DEF ProxyInv
<1> QED
  BY <1>1, ProxyAlways, PTL
-----------------------------------------------------------------------------
(* MaxProxies: Add compares before it inserts, and every other call removes. *)
Limited ==
  \A real \in Owners : IsFiniteSet(Of(real)) /\ Cardinality(Of(real)) <= MaxProxies

LEMMA AddLimited ==
  ASSUME Limited, NEW real \in Owners, NEW delegate, NEW type, NEW root,
         Add(real, delegate, type, root), NEW owner \in Owners
  PROVE  IsFiniteSet(Of(owner)') /\ Cardinality(Of(owner)') <= MaxProxies
<1> DEFINE new == [real |-> real, delegate |-> delegate, type |-> type, root |-> root]
<1>1. Proxies' = Proxies \cup {new} /\ new.real = real
  BY DEF Add
<1> HIDE DEF new
<1>2. CASE owner = real
  <2>1. Of(owner)' = Of(real) \cup {new}
    BY <1>1, <1>2 DEF Of
  <2>2. /\ IsFiniteSet(Of(real)) /\ Cardinality(Of(real)) < MaxProxies
        /\ Cardinality(Of(real)) \in Nat
    BY FS_CardinalityType DEF Limited, Add
  <2>3. /\ IsFiniteSet(Of(real) \cup {new})
        /\ Cardinality(Of(real) \cup {new}) =
             IF new \in Of(real) THEN Cardinality(Of(real)) ELSE Cardinality(Of(real)) + 1
    BY <2>2, FS_AddElement
  <2>4. Cardinality(Of(real) \cup {new}) <= MaxProxies
    BY <2>2, <2>3, ProxyAssumption
  <2> QED
    BY <2>1, <2>3, <2>4
<1>3. CASE owner # real
  <2>1. Of(owner)' = Of(owner)
    BY <1>1, <1>3 DEF Of
  <2> QED
    BY <2>1 DEF Limited
<1> QED
  BY <1>2, <1>3

LEMMA FewerLimited ==
  ASSUME Limited, Proxies' \subseteq Proxies, NEW owner \in Owners
  PROVE  IsFiniteSet(Of(owner)') /\ Cardinality(Of(owner)') <= MaxProxies
<1>1. Of(owner)' \in SUBSET Of(owner)
  BY DEF Of
<1>2. IsFiniteSet(Of(owner)) /\ Cardinality(Of(owner)) <= MaxProxies
  BY DEF Limited
<1>3. IsFiniteSet(Of(owner)') /\ Cardinality(Of(owner)') <= Cardinality(Of(owner))
  BY <1>1, <1>2, FS_Subset
<1>4. Cardinality(Of(owner)) \in Nat /\ Cardinality(Of(owner)') \in Nat
  BY <1>2, <1>3, FS_CardinalityType
<1> QED
  BY <1>2, <1>3, <1>4, ProxyAssumption

LEMMA LimitedStep ==
  ASSUME ProxyInv, Limited, [Next]_vars
  PROVE  Limited'
<1>0. \A proxy \in Proxies : proxy.real \in Owners /\ proxy.type \in ProxyTypes
  BY DEF ProxyInv, Recorded, Records
<1>1. ASSUME NEW real \in Owners, NEW delegate \in Delegates, NEW type \in ProxyTypes,
             add_proxy(real, delegate, type)
      PROVE  Limited'
  BY <1>1, AddLimited DEF add_proxy, Limited
<1>2. ASSUME NEW proxy \in Proxies, NEW delegate \in Delegates, NEW type \in ProxyTypes,
             proxied_add(proxy, delegate, type)
      PROVE  Limited'
  BY <1>0, <1>2, AddLimited DEF proxied_add, Limited
<1>3. ASSUME Proxies' \subseteq Proxies
      PROVE  Limited'
  BY <1>3, FewerLimited DEF Limited
<1>4. ASSUME \/ \E gone \in Proxies : remove_proxy(gone)
             \/ \E first, proxy \in Proxies :
                  \/ \E gone \in Proxies : proxied_remove(proxy, gone)
                  \/ proxied_remove_proxies(proxy)
                  \/ proxied_transfer(first, proxy)
             \/ UNCHANGED vars
      PROVE  Proxies' \subseteq Proxies
  BY <1>4 DEF remove_proxy, proxied_remove, proxied_remove_proxies, proxied_transfer, vars
<1>5. \A first : Reached(first) \subseteq Proxies
  BY DEF Reached
<1> QED
  BY <1>1, <1>2, <1>3, <1>4, <1>5 DEF Next

(* No account ever has more than MaxProxies, although delegates add proxies *)
(* for it as well, and every proxy on record is one of the runtime's types. *)
THEOREM ProxyTypeCorrect == Spec => []TypeOK
<1>1. Init => ProxyInv /\ Limited
  <2>1. Init => \A real \in Owners : Of(real) = {}
    BY DEF Init, Of
  <2>2. Init => Limited
    BY <2>1, FS_EmptySet, ProxyAssumption DEF Init, Limited
  <2> QED
    BY <2>2, ProxyInit
<1>2. (ProxyInv /\ Limited) /\ [Next]_vars => (ProxyInv /\ Limited)'
  BY ProxyStep, LimitedStep
<1>3. ProxyInv /\ Limited => TypeOK
  BY DEF ProxyInv, Recorded, Limited, TypeOK
<1> QED
  BY <1>1, <1>2, <1>3, PTL DEF Spec
=============================================================================
