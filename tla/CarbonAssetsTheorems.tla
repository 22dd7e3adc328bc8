------------------------ MODULE CarbonAssetsTheorems ------------------------
(***************************************************************************)
(* Proofs about CarbonAssets, for every number of accounts, every set of   *)
(* amounts and every u64::MAX.                                             *)
(***************************************************************************)
EXTENDS CarbonAssets, StorageTheorems

(* The ids that the submit calls compute are ids of their kind. *)
LEMMA IdTypes ==
  /\ \A s \in Signers, m \in MaxSupplies, t \in Texts : <<"project", s, m, t>> \in ProjectIds
  /\ \A s \in Signers, p \in ProjectIds, n \in InitialSupplies, t \in Texts :
       <<"asset", s, p, n, t>> \in AssetIds
  /\ \A s \in Signers, id \in AssetIds, n \in IssueAmounts, t \in Texts :
       <<"issue", s, id, n, t>> \in IssueIds
  /\ \A s \in Signers, id \in AssetIds, n \in BurnAmounts, t \in Texts :
       <<"burn", s, id, n, t>> \in BurnIds
BY DEF ProjectIds, AssetIds, IssueIds, BurnIds

(* What inserting a key does to a map. *)
LEMMA InsertMap ==
  ASSUME NEW map, NEW key, NEW value, NEW K, NEW V,
         map \in [DOMAIN map -> V], DOMAIN map \subseteq K, IsFiniteSet(DOMAIN map),
         key \in K, value \in V
  PROVE  /\ DOMAIN Insert(map, key, value) = DOMAIN map \cup {key}
         /\ DOMAIN Insert(map, key, value) \subseteq K
         /\ IsFiniteSet(DOMAIN Insert(map, key, value))
         /\ Insert(map, key, value) \in [DOMAIN Insert(map, key, value) -> V]
         /\ Insert(map, key, value)[key] = value
         /\ \A k \in DOMAIN map \ {key} : Insert(map, key, value)[k] = map[k]
<1>1. DOMAIN Insert(map, key, value) = DOMAIN map \cup {key}
  BY DEF Insert
<1>2. IsFiniteSet(DOMAIN map \cup {key})
  BY FS_AddElement
<1>3. QED
  BY <1>1, <1>2 DEF Insert
-----------------------------------------------------------------------------
(* Empty storage is well typed. *)
LEMMA TypeInit == Init => TypeOK
<1> SUFFICES ASSUME Init PROVE TypeOK
  OBVIOUS
<1>1. \A V : <<>> \in [DOMAIN <<>> -> V] /\ DOMAIN <<>> = {}
  OBVIOUS
<1>2. IsFiniteSet({}) /\ 0 \in U64 /\ 0 \in Nat
  BY FS_EmptySet, MaxU64Assumption DEF U64
<1>3. QED
  BY <1>1, <1>2 DEF Init, TypeOK

(* Types: u64 counters stay within u64 through every wrap-around, and the   *)
(* maps stay finite.                                                        *)
LEMMA TypeNext == TypeOK /\ [Next]_vars => TypeOK'
<1> SUFFICES ASSUME TypeOK, [Next]_vars PROVE TypeOK'
  OBVIOUS
<1> USE CarbonAssumption
<1>a. \A a, b \in U64 : WrapAdd(a, b) \in U64 /\ WrapSub(a, b) \in U64
  BY WrapType
<1>b. 0 \in U64 /\ U64 \subseteq Nat
  BY MaxU64Assumption DEF U64
<1>1. ASSUME NEW s \in Signers, NEW m \in MaxSupplies, NEW t \in Texts, submit_project(s, m, t)
      PROVE  TypeOK'
  <2> DEFINE id == <<"project", s, m, t>>
             rec == [max_supply |-> m, total_supply |-> 0, status |-> 0, owner |-> s]
  <2>1. id \in ProjectIds
    BY IdTypes
  <2>2. rec \in CarbonProject
    BY <1>b DEF CarbonProject
  <2>3. Projects' = Insert(Projects, id, rec)
    BY <1>1 DEF submit_project
  <2> HIDE DEF id, rec
  <2>4. /\ DOMAIN Projects' \subseteq ProjectIds /\ IsFiniteSet(DOMAIN Projects')
        /\ Projects' \in [DOMAIN Projects' -> CarbonProject]
    BY <2>1, <2>2, <2>3, InsertMap DEF TypeOK
  <2>5. QED
    BY <1>1, <2>4 DEF submit_project, TypeOK, history
<1>2. ASSUME NEW p \in DOMAIN Projects, approve_project(p)
      PROVE  TypeOK'
  BY <1>2 DEF approve_project, TypeOK, history, CarbonProject
<1>3. ASSUME NEW s \in Signers, NEW p \in DOMAIN Projects, NEW n \in InitialSupplies,
             NEW t \in Texts, submit_asset(s, p, n, t)
      PROVE  TypeOK'
  <2> DEFINE id == <<"asset", s, p, n, t>>
             rec == [project_id |-> p, initial_supply |-> n, total_supply |-> 0, status |-> 0]
  <2>1. id \in AssetIds /\ p \in ProjectIds
    BY IdTypes DEF TypeOK
  <2>2. rec \in CarbonAsset
    BY <1>b, <2>1 DEF CarbonAsset
  <2>3. Assets' = Insert(Assets, id, rec)
    BY <1>3 DEF submit_asset
  <2> HIDE DEF id, rec
  <2>4. /\ DOMAIN Assets' \subseteq AssetIds /\ IsFiniteSet(DOMAIN Assets')
        /\ Assets' \in [DOMAIN Assets' -> CarbonAsset]
    BY <2>1, <2>2, <2>3, InsertMap DEF TypeOK
  <2>5. QED
    BY <1>3, <2>4 DEF submit_asset, TypeOK, history
<1>4. ASSUME NEW id \in DOMAIN Assets, approve_asset(id)
      PROVE  TypeOK'
  <2>1. Assets[id] \in CarbonAsset
    BY DEF TypeOK
  <2>2. Assets' \in [DOMAIN Assets -> CarbonAsset] /\ DOMAIN Assets' = DOMAIN Assets
    BY <1>4, <2>1 DEF approve_asset, TypeOK, CarbonAsset
  <2>3. Balances' \in [AssetIds \X Accounts -> U64]
    BY <1>4, <2>1 DEF approve_asset, TypeOK, CarbonAsset
  <2>4. QED
    BY <1>4, <2>2, <2>3 DEF approve_asset, TypeOK, history
<1>5. ASSUME NEW s \in Signers, NEW id \in DOMAIN Assets, NEW n \in IssueAmounts,
             NEW t \in Texts, submit_issue(s, id, n, t)
      PROVE  TypeOK'
  <2> DEFINE i == <<"issue", s, id, n, t>>
             rec == [asset_id |-> id, amount |-> n, status |-> 0]
  <2>1. i \in IssueIds /\ id \in AssetIds
    BY IdTypes DEF TypeOK
  <2>2. rec \in IssueInfo
    BY <2>1 DEF IssueInfo
  <2>3. Issues' = Insert(Issues, i, rec)
    BY <1>5 DEF submit_issue
  <2> HIDE DEF i, rec
  <2>4. /\ DOMAIN Issues' \subseteq IssueIds /\ IsFiniteSet(DOMAIN Issues')
        /\ Issues' \in [DOMAIN Issues' -> IssueInfo]
    BY <2>1, <2>2, <2>3, InsertMap DEF TypeOK
  <2>5. QED
    BY <1>5, <2>4 DEF submit_issue, TypeOK, history
<1>6. ASSUME NEW i \in DOMAIN Issues, approve_issue(i)
      PROVE  TypeOK'
  <2> DEFINE id == Issues[i].asset_id
             n == Issues[i].amount
             p == Assets[id].project_id
  <2>1. n \in U64 /\ id \in AssetIds
    BY DEF TypeOK, IssueInfo
  <2>2. id \in DOMAIN Assets /\ p \in DOMAIN Projects
    BY <1>6 DEF approve_issue
  <2>3. Issues' \in [DOMAIN Issues -> IssueInfo] /\ DOMAIN Issues' = DOMAIN Issues
    BY <1>6 DEF approve_issue, TypeOK, IssueInfo
  <2>4. Projects' \in [DOMAIN Projects -> CarbonProject] /\ DOMAIN Projects' = DOMAIN Projects
    BY <1>6, <1>a, <2>1, <2>2 DEF approve_issue, TypeOK, CarbonProject
  <2>5. Assets' \in [DOMAIN Assets -> CarbonAsset] /\ DOMAIN Assets' = DOMAIN Assets
    BY <1>6, <1>a, <2>1, <2>2 DEF approve_issue, TypeOK, CarbonAsset
  <2>6. Balances' \in [AssetIds \X Accounts -> U64]
    BY <1>6, <1>a, <2>1, <2>2 DEF approve_issue, TypeOK
  <2>7. overflowed' \subseteq ProjectIds \cup AssetIds
    BY <1>6, <2>1, <2>2 DEF approve_issue, TypeOK
  <2>8. QED
    BY <1>6, <2>3, <2>4, <2>5, <2>6, <2>7 DEF approve_issue, TypeOK
<1>7. ASSUME NEW s \in Signers, NEW id \in DOMAIN Assets, NEW n \in BurnAmounts,
             NEW t \in Texts, submit_burn(s, id, n, t)
      PROVE  TypeOK'
  <2> DEFINE b == <<"burn", s, id, n, t>>
             rec == [asset_id |-> id, amount |-> n, status |-> 0]
  <2>1. b \in BurnIds /\ id \in AssetIds
    BY IdTypes DEF TypeOK
  <2>2. rec \in BurnInfo
    BY <2>1 DEF BurnInfo
  <2>3. Burns' = Insert(Burns, b, rec)
    BY <1>7 DEF submit_burn
  <2>4. Balances' \in [AssetIds \X Accounts -> U64]
    BY <1>7, <1>a, <2>1 DEF submit_burn, TypeOK
  <2>5. displaced' \in [AssetIds -> Nat]
    BY <1>7, <1>b, <2>1 DEF submit_burn, TypeOK
  <2> HIDE DEF b, rec
  <2>6. /\ DOMAIN Burns' \subseteq BurnIds /\ IsFiniteSet(DOMAIN Burns')
        /\ Burns' \in [DOMAIN Burns' -> BurnInfo]
    BY <2>1, <2>2, <2>3, InsertMap DEF TypeOK
  <2>7. QED
    BY <1>7, <2>4, <2>5, <2>6 DEF submit_burn, TypeOK
<1>8. ASSUME NEW b \in DOMAIN Burns, approve_burn(b)
      PROVE  TypeOK'
  <2> DEFINE id == Burns[b].asset_id
             n == Burns[b].amount
             p == Assets[id].project_id
  <2>1. n \in U64 /\ id \in AssetIds
    BY DEF TypeOK, BurnInfo
  <2>2. id \in DOMAIN Assets /\ p \in DOMAIN Projects
    BY <1>8 DEF approve_burn
  <2>3. Burns' \in [DOMAIN Burns -> BurnInfo] /\ DOMAIN Burns' = DOMAIN Burns
    BY <1>8 DEF approve_burn, TypeOK, BurnInfo
  <2>4. Projects' \in [DOMAIN Projects -> CarbonProject] /\ DOMAIN Projects' = DOMAIN Projects
    BY <1>8, <1>a, <2>1, <2>2 DEF approve_burn, TypeOK, CarbonProject
  <2>5. Assets' \in [DOMAIN Assets -> CarbonAsset] /\ DOMAIN Assets' = DOMAIN Assets
    BY <1>8, <1>a, <2>1, <2>2 DEF approve_burn, TypeOK, CarbonAsset
  <2>6. burned' \in [AssetIds -> Nat]
    BY <1>8, <1>b, <2>1 DEF approve_burn, TypeOK
  <2>7. QED
    BY <1>8, <2>3, <2>4, <2>5, <2>6 DEF approve_burn, TypeOK
<1>9. ASSUME NEW s \in Signers, NEW id \in AssetIds, NEW to \in Accounts,
             NEW n \in MoveAmounts, transfer(s, id, to, n)
      PROVE  TypeOK'
  <2>1. Balances' \in [AssetIds \X Accounts -> U64]
    BY <1>9, <1>a DEF transfer, MakeTransfer, TypeOK
  <2>2. QED
    BY <1>9, <2>1 DEF transfer, TypeOK, history
<1>10. ASSUME NEW s \in Signers, NEW id \in AssetIds, NEW n \in MoveAmounts,
              neutralize(s, id, n)
       PROVE  TypeOK'
  <2>1. Balances' \in [AssetIds \X Accounts -> U64] /\ neutralized' \in [AssetIds -> Nat]
    BY <1>10, <1>a, <1>b DEF neutralize, TypeOK
  <2>2. QED
    BY <1>10, <2>1 DEF neutralize, TypeOK
<1>11. CASE UNCHANGED vars
  BY <1>11 DEF vars, carbonVars, history, TypeOK
<1>12. QED
  BY <1>1, <1>2, <1>3, <1>4, <1>5, <1>6, <1>7, <1>8, <1>9, <1>10, <1>11 DEF Next, Requests, approve

(* Every behaviour of the pallet keeps its storage well typed. *)
THEOREM TypeCorrect == Spec => []TypeOK
BY TypeInit, TypeNext, PTL DEF Spec
-----------------------------------------------------------------------------
(* Nothing precedes its approval.  Approvals are never taken back, so it is *)
(* enough to look at what an action adds.                                   *)
LEMMA ChainNext == TypeOK /\ ApprovalChain /\ [Next]_vars => ApprovalChain'
<1> SUFFICES ASSUME TypeOK, ApprovalChain, [Next]_vars PROVE ApprovalChain'
  OBVIOUS
<1> USE CarbonAssumption
<1>a. MaxU64 \in Nat
  BY MaxU64Assumption
<1>1. ASSUME NEW s \in Signers, NEW m \in MaxSupplies, NEW t \in Texts, submit_project(s, m, t)
      PROVE  ApprovalChain'
  BY <1>1 DEF submit_project, Insert, ApprovalChain, has_asset, history
<1>2. ASSUME NEW p \in DOMAIN Projects, approve_project(p)
      PROVE  ApprovalChain'
  BY <1>2 DEF approve_project, ApprovalChain, has_asset, history, TypeOK, CarbonProject
<1>3. ASSUME NEW s \in Signers, NEW p \in DOMAIN Projects, NEW n \in InitialSupplies,
             NEW t \in Texts, submit_asset(s, p, n, t)
      PROVE  ApprovalChain'
  <2>1. \A id \in DOMAIN Assets : Assets'[id] = Assets[id] /\ id \in DOMAIN Assets'
    BY <1>3 DEF submit_asset, Insert
  <2>2. \A id : has_asset(id) => has_asset(id)'
    BY <2>1 DEF has_asset
  <2>3. \A id \in DOMAIN Assets' :
          /\ Assets'[id].project_id \in DOMAIN Projects'
          /\ Projects'[Assets'[id].project_id].status = 1
          /\ Projects'[Assets'[id].project_id].owner = id[2]
    BY <1>3 DEF submit_asset, Insert, ApprovalChain
  <2>4. QED
    BY <1>3, <2>2, <2>3 DEF submit_asset, ApprovalChain
<1>4. ASSUME NEW id \in DOMAIN Assets, approve_asset(id)
      PROVE  ApprovalChain'
  <2>1. /\ DOMAIN Assets' = DOMAIN Assets
        /\ \A i \in DOMAIN Assets : /\ Assets'[i].project_id = Assets[i].project_id
                                    /\ Assets[i].status = 1 => Assets'[i].status = 1
        /\ Assets'[id].status = 1
    BY <1>4 DEF approve_asset, TypeOK, CarbonAsset
  <2>2. has_asset(id)' /\ \A i : has_asset(i) => has_asset(i)'
    BY <2>1 DEF has_asset
  <2>3. \A i \in AssetIds, a \in Accounts : Balances'[<<i, a>>] > 0 => has_asset(i)'
    <3> SUFFICES ASSUME NEW i \in AssetIds, NEW a \in Accounts, Balances'[<<i, a>>] > 0, i # id
                 PROVE  has_asset(i)'
      BY <2>2
    <3>1. Balances'[<<i, a>>] = Balances[<<i, a>>]
      BY <1>4 DEF approve_asset, TypeOK
    <3>2. QED
      BY <2>2, <3>1 DEF ApprovalChain
  <2>4. QED
    BY <1>4, <2>1, <2>2, <2>3 DEF approve_asset, ApprovalChain
<1>5. ASSUME NEW s \in Signers, NEW id \in DOMAIN Assets, NEW n \in IssueAmounts,
             NEW t \in Texts, submit_issue(s, id, n, t)
      PROVE  ApprovalChain'
  <2>1. has_asset(id) /\ \A i : has_asset(i)' <=> has_asset(i)
    BY <1>5 DEF submit_issue, MayRequest, has_asset
  <2>2. \A i \in DOMAIN Issues' : has_asset(Issues[i].asset_id)'
    BY <1>5, <2>1 DEF submit_issue, Insert, ApprovalChain
  <2>3. QED
    BY <1>5, <2>1, <2>2 DEF submit_issue, ApprovalChain
<1>6. ASSUME NEW i \in DOMAIN Issues, approve_issue(i)
      PROVE  ApprovalChain'
  <2> DEFINE id == Issues[i].asset_id
             p == Assets[id].project_id
  <2>1. id \in AssetIds /\ id \in DOMAIN Assets /\ p \in DOMAIN Projects /\ has_asset(id)
    BY <1>6 DEF approve_issue, TypeOK, IssueInfo, ApprovalChain
  <2>2. /\ DOMAIN Assets' = DOMAIN Assets
        /\ \A j \in DOMAIN Assets : /\ Assets'[j].project_id = Assets[j].project_id
                                    /\ Assets'[j].status = Assets[j].status
    BY <1>6 DEF approve_issue, TypeOK, CarbonAsset
  <2>3. /\ DOMAIN Projects' = DOMAIN Projects
        /\ \A q \in DOMAIN Projects : /\ Projects'[q].owner = Projects[q].owner
                                      /\ Projects'[q].status = Projects[q].status
    BY <1>6 DEF approve_issue, TypeOK, CarbonProject
  <2>4. \A j : has_asset(j)' <=> has_asset(j)
    BY <2>2 DEF has_asset
  <2>5. \A j \in AssetIds, a \in Accounts : Balances'[<<j, a>>] > 0 => has_asset(j)'
    <3> SUFFICES ASSUME NEW j \in AssetIds, NEW a \in Accounts, Balances'[<<j, a>>] > 0, j # id
                 PROVE  has_asset(j)'
      BY <2>1, <2>4
    <3>1. Balances'[<<j, a>>] = Balances[<<j, a>>]
      BY <1>6 DEF approve_issue, TypeOK
    <3>2. QED
      BY <2>4, <3>1 DEF ApprovalChain
  <2>6. DOMAIN Issues' = DOMAIN Issues
        /\ \A j \in DOMAIN Issues : Issues'[j].asset_id = Issues[j].asset_id
    BY <1>6 DEF approve_issue, TypeOK, IssueInfo
  <2>7. Burns' = Burns
    BY <1>6 DEF approve_issue
  <2>8. QED
    BY <2>2, <2>3, <2>4, <2>5, <2>6, <2>7 DEF ApprovalChain
<1>7. ASSUME NEW s \in Signers, NEW id \in DOMAIN Assets, NEW n \in BurnAmounts,
             NEW t \in Texts, submit_burn(s, id, n, t)
      PROVE  ApprovalChain'
  <2>1. has_asset(id) /\ id \in AssetIds /\ \A i : has_asset(i)' <=> has_asset(i)
    BY <1>7 DEF submit_burn, MayRequest, has_asset, TypeOK
  <2>2. \A i \in DOMAIN Burns' : has_asset(Burns[i].asset_id)'
    BY <1>7, <2>1 DEF submit_burn, Insert, ApprovalChain
  <2>3. \A j \in AssetIds, a \in Accounts : Balances'[<<j, a>>] > 0 => has_asset(j)'
    <3> SUFFICES ASSUME NEW j \in AssetIds, NEW a \in Accounts, Balances'[<<j, a>>] > 0, j # id
                 PROVE  has_asset(j)'
      BY <2>1
    <3>1. Balances'[<<j, a>>] = Balances[<<j, a>>]
      BY <1>7 DEF submit_burn, TypeOK
    <3>2. QED
      BY <2>1, <3>1 DEF ApprovalChain
  <2>4. QED
    BY <1>7, <2>1, <2>2, <2>3 DEF submit_burn, ApprovalChain
<1>8. ASSUME NEW b \in DOMAIN Burns, approve_burn(b)
      PROVE  ApprovalChain'
  <2>1. /\ DOMAIN Assets' = DOMAIN Assets
        /\ \A j \in DOMAIN Assets : /\ Assets'[j].project_id = Assets[j].project_id
                                    /\ Assets'[j].status = Assets[j].status
    BY <1>8 DEF approve_burn, TypeOK, CarbonAsset
  <2>2. /\ DOMAIN Projects' = DOMAIN Projects
        /\ \A q \in DOMAIN Projects : /\ Projects'[q].owner = Projects[q].owner
                                      /\ Projects'[q].status = Projects[q].status
    BY <1>8 DEF approve_burn, TypeOK, CarbonProject
  <2>3. \A j : has_asset(j)' <=> has_asset(j)
    BY <2>1 DEF has_asset
  <2>4. DOMAIN Burns' = DOMAIN Burns
        /\ \A j \in DOMAIN Burns : Burns'[j].asset_id = Burns[j].asset_id
    BY <1>8 DEF approve_burn, TypeOK, BurnInfo
  <2>5. Issues' = Issues /\ Balances' = Balances
    BY <1>8 DEF approve_burn
  <2>6. QED
    BY <2>1, <2>2, <2>3, <2>4, <2>5 DEF ApprovalChain
<1>9. ASSUME NEW s \in Signers, NEW id \in AssetIds, NEW to \in Accounts,
             NEW n \in MoveAmounts, transfer(s, id, to, n)
      PROVE  ApprovalChain'
  <2>1. \A i : has_asset(i)' <=> has_asset(i)
    BY <1>9 DEF transfer, has_asset
  <2>2. Balances[<<id, s>>] > 0
    BY <1>9, <1>a DEF transfer, TypeOK, U64
  <2>3. has_asset(id)
    BY <2>2 DEF ApprovalChain
  <2>4. \A j \in AssetIds, a \in Accounts : j # id => Balances'[<<j, a>>] = Balances[<<j, a>>]
    BY <1>9 DEF transfer, MakeTransfer, TypeOK
  <2>5. \A j \in AssetIds, a \in Accounts : Balances'[<<j, a>>] > 0 => has_asset(j)'
    BY <2>1, <2>3, <2>4 DEF ApprovalChain
  <2>6. QED
    BY <1>9, <2>1, <2>5 DEF transfer, ApprovalChain
<1>10. ASSUME NEW s \in Signers, NEW id \in AssetIds, NEW n \in MoveAmounts,
              neutralize(s, id, n)
       PROVE  ApprovalChain'
  <2>1. \A i : has_asset(i)' <=> has_asset(i)
    BY <1>10 DEF neutralize, has_asset
  <2>2. Balances[<<id, s>>] > 0
    BY <1>10, <1>a DEF neutralize, TypeOK, U64
  <2>3. has_asset(id)
    BY <2>2 DEF ApprovalChain
  <2>4. \A j \in AssetIds, a \in Accounts : j # id => Balances'[<<j, a>>] = Balances[<<j, a>>]
    BY <1>10 DEF neutralize, TypeOK
  <2>5. \A j \in AssetIds, a \in Accounts : Balances'[<<j, a>>] > 0 => has_asset(j)'
    BY <2>1, <2>3, <2>4 DEF ApprovalChain
  <2>6. QED
    BY <1>10, <2>1, <2>5 DEF neutralize, ApprovalChain
<1>11. CASE UNCHANGED vars
  BY <1>11 DEF vars, carbonVars, ApprovalChain, has_asset
<1>12. QED
  BY <1>1, <1>2, <1>3, <1>4, <1>5, <1>6, <1>7, <1>8, <1>9, <1>10, <1>11 DEF Next, Requests, approve

(* Units, issue requests and burn requests exist for approved assets only,  *)
(* and assets for approved projects only.                                   *)
THEOREM ApprovalCorrect == Spec => []ApprovalChain
<1>1. Init => ApprovalChain
  BY DEF Init, ApprovalChain
<1>2. QED
  BY <1>1, TypeCorrect, ChainNext, PTL DEF Spec
-----------------------------------------------------------------------------
(* Held and Pending as functions of the map they sum over, so that one      *)
(* lemma speaks of the state before and after a write.                      *)
HeldIn(balances, id) == Total([account \in Accounts |-> balances[<<id, account>>]])
PendingOf(burns, id) == {b \in DOMAIN burns : burns[b].asset_id = id /\ burns[b].status = 0}
PendingIn(burns, id) == Total([b \in PendingOf(burns, id) |-> burns[b].amount])

(* The effect on the sums of setting the balance <<id, a>> to v, which      *)
(* takes the map B to C.                                                    *)
HeldMoves(B, C, id, a, v) ==
  /\ HeldIn(B, id) \in Nat /\ HeldIn(C, id) \in Nat /\ v \in Nat
  /\ B[<<id, a>>] \in Nat /\ B[<<id, a>>] <= HeldIn(B, id)
  /\ HeldIn(C, id) + B[<<id, a>>] = HeldIn(B, id) + v
  /\ \A other \in AssetIds \ {id} : HeldIn(C, other) = HeldIn(B, other)

(* Writing one balance changes what is held of that asset by as much. *)
LEMMA HeldUpdate ==
  ASSUME NEW B \in [AssetIds \X Accounts -> U64], NEW C \in [AssetIds \X Accounts -> U64],
         NEW id \in AssetIds, NEW a \in Accounts,
         \A x \in AssetIds, k \in Accounts : (x # id \/ k # a) => C[<<x, k>>] = B[<<x, k>>]
  PROVE  HeldMoves(B, C, id, a, C[<<id, a>>])
<1> DEFINE f == [account \in Accounts |-> B[<<id, account>>]]
           g == [account \in Accounts |-> C[<<id, account>>]]
<1>1. DOMAIN f = Accounts /\ DOMAIN g = Accounts /\ IsFiniteSet(Accounts)
  BY CarbonAssumption
<1>2. \A k \in Accounts : f[k] \in U64 /\ g[k] \in U64
  OBVIOUS
<1>3. /\ f[a] = B[<<id, a>>] /\ g[a] = C[<<id, a>>]
      /\ \A k \in Accounts \ {a} : g[k] = f[k]
  OBVIOUS
<1>4. Total(f) = HeldIn(B, id) /\ Total(g) = HeldIn(C, id)
  BY DEF HeldIn
<1>5. f[a] \in Nat /\ g[a] \in Nat
  BY <1>2, MaxU64Assumption DEF U64
<1> HIDE DEF f, g
<1>6. Total(f) \in Nat /\ Total(g) \in Nat /\ Total(g) + f[a] = Total(f) + g[a]
  BY <1>1, <1>2, <1>3, TotalChange
<1>7. f[a] <= Total(f) /\ g[a] <= Total(g)
  BY <1>1, <1>2, TotalBound
<1>8. ASSUME NEW other \in AssetIds \ {id}
      PROVE  HeldIn(C, other) = HeldIn(B, other)
  <2>1. \A k \in Accounts : C[<<other, k>>] = B[<<other, k>>]
    OBVIOUS
  <2>2. QED
    BY <2>1, TotalSame DEF HeldIn
<1>9. QED
  BY <1>3, <1>4, <1>5, <1>6, <1>7, <1>8 DEF HeldMoves

(* The same for an assignment to one balance. *)
LEMMA HeldWrite ==
  ASSUME NEW B \in [AssetIds \X Accounts -> U64], NEW x \in AssetIds, NEW a \in Accounts,
         NEW v \in U64, NEW C, C = [B EXCEPT ![<<x, a>>] = v]
  PROVE  C \in [AssetIds \X Accounts -> U64] /\ HeldMoves(B, C, x, a, v)
<1>1. C \in [AssetIds \X Accounts -> U64] /\ C[<<x, a>>] = v
  OBVIOUS
<1>2. \A y \in AssetIds, k \in Accounts : (y # x \/ k # a) => C[<<y, k>>] = B[<<y, k>>]
  OBVIOUS
<1>3. HeldMoves(B, C, x, a, C[<<x, a>>])
  BY <1>1, <1>2, HeldUpdate
<1>4. QED
  BY <1>1, <1>3

(* C holds n units less than B of one asset, and as much of every other.    *)
HeldLess(B, C, id, n) ==
  /\ HeldIn(B, id) \in Nat /\ HeldIn(C, id) \in Nat /\ n \in Nat
  /\ HeldIn(C, id) + n = HeldIn(B, id)
  /\ \A other \in AssetIds \ {id} : HeldIn(C, other) = HeldIn(B, other)

(* submit_burn, neutralize and the sender of a transfer. *)
LEMMA HeldDebit ==
  ASSUME NEW B \in [AssetIds \X Accounts -> U64], NEW x \in AssetIds, NEW a \in Accounts,
         NEW n \in U64, n <= B[<<x, a>>],
         NEW C, C = [B EXCEPT ![<<x, a>>] = WrapSub(@, n)]
  PROVE  C \in [AssetIds \X Accounts -> U64] /\ HeldLess(B, C, x, n)
<1>1. B[<<x, a>>] \in U64
  OBVIOUS
<1>2. PICK v \in U64 : v = WrapSub(B[<<x, a>>], n)
  BY <1>1, WrapType
<1>3. n \in Nat /\ v \in Nat /\ B[<<x, a>>] \in Nat /\ v = B[<<x, a>>] - n
  BY <1>1, <1>2, MaxU64Assumption DEF U64, WrapSub
<1>4. C = [B EXCEPT ![<<x, a>>] = v]
  BY <1>2
<1>5. C \in [AssetIds \X Accounts -> U64] /\ HeldMoves(B, C, x, a, v)
  BY <1>4, HeldWrite
<1>6. /\ HeldIn(B, x) \in Nat /\ HeldIn(C, x) \in Nat
      /\ HeldIn(C, x) + B[<<x, a>>] = HeldIn(B, x) + v
      /\ \A other \in AssetIds \ {x} : HeldIn(C, other) = HeldIn(B, other)
  BY <1>5 DEF HeldMoves
<1>7. HeldIn(C, x) + n = HeldIn(B, x)
  BY <1>3, <1>6
<1>8. QED
  BY <1>3, <1>5, <1>6, <1>7 DEF HeldLess

(* The receiver of a transfer. *)
LEMMA HeldCredit ==
  ASSUME NEW B \in [AssetIds \X Accounts -> U64], NEW x \in AssetIds, NEW a \in Accounts,
         NEW n \in U64, B[<<x, a>>] + n <= MaxU64,
         NEW C, C = [B EXCEPT ![<<x, a>>] = WrapAdd(@, n)]
  PROVE  C \in [AssetIds \X Accounts -> U64] /\ HeldLess(C, B, x, n)
<1>1. B[<<x, a>>] \in U64
  OBVIOUS
<1>2. PICK v \in U64 : v = WrapAdd(B[<<x, a>>], n)
  BY <1>1, WrapType
<1>3. n \in Nat /\ v \in Nat /\ B[<<x, a>>] \in Nat /\ v = B[<<x, a>>] + n
  BY <1>1, <1>2, MaxU64Assumption DEF U64, WrapAdd
<1>4. C = [B EXCEPT ![<<x, a>>] = v]
  BY <1>2
<1>5. C \in [AssetIds \X Accounts -> U64] /\ HeldMoves(B, C, x, a, v)
  BY <1>4, HeldWrite
<1>6. /\ HeldIn(B, x) \in Nat /\ HeldIn(C, x) \in Nat
      /\ HeldIn(C, x) + B[<<x, a>>] = HeldIn(B, x) + v
      /\ \A other \in AssetIds \ {x} : HeldIn(C, other) = HeldIn(B, other)
  BY <1>5 DEF HeldMoves
<1>7. HeldIn(B, x) + n = HeldIn(C, x)
  BY <1>3, <1>6
<1>8. QED
  BY <1>3, <1>5, <1>6, <1>7 DEF HeldLess

(* No balance exceeds what is held. *)
LEMMA HeldBound ==
  ASSUME NEW B \in [AssetIds \X Accounts -> U64], NEW x \in AssetIds, NEW a \in Accounts
  PROVE  B[<<x, a>>] \in Nat /\ HeldIn(B, x) \in Nat /\ B[<<x, a>>] <= HeldIn(B, x)
<1>1. HeldMoves(B, B, x, a, B[<<x, a>>])
  BY HeldUpdate
<1>2. QED
  BY <1>1 DEF HeldMoves

(* What a map of burn requests is. *)
BurnMap(R) == R \in [DOMAIN R -> BurnInfo] /\ IsFiniteSet(DOMAIN R)

(* Finitely many requests are pending, for a natural number of units. *)
LEMMA PendingFinite ==
  ASSUME NEW R, BurnMap(R), NEW id
  PROVE  /\ IsFiniteSet(PendingOf(R, id))
         /\ \A b \in PendingOf(R, id) : R[b].amount \in U64
         /\ PendingIn(R, id) \in Nat
<1> DEFINE f == [b \in PendingOf(R, id) |-> R[b].amount]
<1>1. IsFiniteSet(PendingOf(R, id))
  BY FS_Subset DEF PendingOf, BurnMap
<1>2. \A b \in PendingOf(R, id) : R[b].amount \in U64
  BY DEF PendingOf, BurnMap, BurnInfo
<1>3. DOMAIN f = PendingOf(R, id) /\ \A k \in DOMAIN f : f[k] \in U64
  BY <1>2
<1>4. Total(f) = PendingIn(R, id)
  BY DEF PendingIn
<1> HIDE DEF f
<1>5. Total(f) \in Nat
  BY <1>1, <1>3, TotalType
<1>6. QED
  BY <1>1, <1>2, <1>4, <1>5

(* A pending request that is new to an asset adds its amount. *)
LEMMA PendingGrows ==
  ASSUME NEW R, BurnMap(R), NEW S, BurnMap(S), NEW id, NEW b,
         b \in DOMAIN S, b \notin PendingOf(R, id),
         PendingOf(S, id) = PendingOf(R, id) \cup {b},
         \A k \in PendingOf(R, id) : S[k].amount = R[k].amount
  PROVE  PendingIn(S, id) = PendingIn(R, id) + S[b].amount
<1> DEFINE f == [k \in PendingOf(R, id) |-> R[k].amount]
           g == [k \in PendingOf(S, id) |-> S[k].amount]
<1>1. IsFiniteSet(PendingOf(R, id)) /\ \A k \in PendingOf(R, id) : R[k].amount \in U64
  BY PendingFinite
<1>2. DOMAIN f = PendingOf(R, id) /\ DOMAIN g = PendingOf(R, id) \cup {b}
  OBVIOUS
<1>3. \A k \in PendingOf(R, id) : f[k] \in U64 /\ g[k] = f[k]
  BY <1>1
<1>4. g[b] = S[b].amount /\ g[b] \in U64
  BY DEF BurnMap, BurnInfo
<1>5. Total(f) = PendingIn(R, id) /\ Total(g) = PendingIn(S, id)
  BY DEF PendingIn
<1> HIDE DEF f, g
<1>6. Total(g) = Total(f) + g[b]
  BY <1>1, <1>2, <1>3, <1>4, TotalAdd
<1>7. QED
  BY <1>4, <1>5, <1>6

(* The same pending requests for the same amounts. *)
LEMMA PendingSame ==
  ASSUME NEW R, NEW S, NEW id, PendingOf(S, id) = PendingOf(R, id),
         \A k \in PendingOf(R, id) : S[k].amount = R[k].amount
  PROVE  PendingIn(S, id) = PendingIn(R, id)
<1> DEFINE f == [k \in PendingOf(R, id) |-> R[k].amount]
           g == [k \in PendingOf(S, id) |-> S[k].amount]
<1>1. DOMAIN g = DOMAIN f /\ \A k \in DOMAIN f : g[k] = f[k]
  OBVIOUS
<1>2. Total(f) = PendingIn(R, id) /\ Total(g) = PendingIn(S, id)
  BY DEF PendingIn
<1> HIDE DEF f, g
<1>3. QED
  BY <1>1, <1>2, TotalSame
-----------------------------------------------------------------------------
(* A burn record is for the asset and the amount in its id. *)
LEMMA BurnsMatchNext == TypeOK /\ BurnsMatchIds /\ [Next]_vars => BurnsMatchIds'
<1> SUFFICES ASSUME TypeOK, BurnsMatchIds, [Next]_vars PROVE BurnsMatchIds'
  OBVIOUS
<1>1. ASSUME NEW s \in Signers, NEW id \in DOMAIN Assets, NEW n \in BurnAmounts,
             NEW t \in Texts, submit_burn(s, id, n, t)
      PROVE  BurnsMatchIds'
  BY <1>1 DEF submit_burn, Insert, BurnsMatchIds
<1>2. ASSUME NEW b \in DOMAIN Burns, approve_burn(b)
      PROVE  BurnsMatchIds'
  BY <1>2 DEF approve_burn, BurnsMatchIds, TypeOK, BurnInfo
<1>3. CASE Burns' = Burns
  BY <1>3 DEF BurnsMatchIds
<1>4. QED
  BY <1>1, <1>2, <1>3 DEF Next, Requests, approve, vars, carbonVars, submit_project, approve_project,
     submit_asset, approve_asset, submit_issue, approve_issue, transfer, neutralize

(* An asset that is not approved has no supply, and nothing of it was ever  *)
(* neutralized, displaced or burned.                                        *)
LEMMA UntouchedNext ==
  TypeOK /\ ApprovalChain /\ UnapprovedUntouched /\ [Next]_vars => UnapprovedUntouched'
<1> SUFFICES ASSUME TypeOK, ApprovalChain, UnapprovedUntouched, [Next]_vars,
                    NEW id \in AssetIds, ~has_asset(id)'
             PROVE  /\ neutralized'[id] = 0 /\ displaced'[id] = 0 /\ burned'[id] = 0
                    /\ id \notin overflowed'
                    /\ id \in DOMAIN Assets' => Assets'[id].total_supply = 0
  BY DEF UnapprovedUntouched
<1> DEFINE Goal == /\ neutralized'[id] = 0 /\ displaced'[id] = 0 /\ burned'[id] = 0
                   /\ id \notin overflowed'
                   /\ id \in DOMAIN Assets' => Assets'[id].total_supply = 0
<1> USE CarbonAssumption
<1>a. ~has_asset(id) =>
        /\ neutralized[id] = 0 /\ displaced[id] = 0 /\ burned[id] = 0
        /\ id \notin overflowed
        /\ id \in DOMAIN Assets => Assets[id].total_supply = 0
  BY DEF UnapprovedUntouched
<1>b. MaxU64 \in Nat
  BY MaxU64Assumption
<1>1. ASSUME UNCHANGED <<Assets, history>>
      PROVE  Goal
  BY <1>1, <1>a DEF has_asset, history
<1>2. ASSUME NEW s \in Signers, NEW p \in DOMAIN Projects, NEW n \in InitialSupplies,
             NEW t \in Texts, submit_asset(s, p, n, t)
      PROVE  Goal
  BY <1>2, <1>a DEF submit_asset, Insert, has_asset, history
<1>3. ASSUME NEW x \in DOMAIN Assets, approve_asset(x)
      PROVE  Goal
  BY <1>3, <1>a DEF approve_asset, has_asset, history, TypeOK, CarbonAsset
<1>4. ASSUME NEW i \in DOMAIN Issues, approve_issue(i)
      PROVE  Goal
  <2>1. has_asset(Issues[i].asset_id)
    BY DEF ApprovalChain
  <2>2. /\ DOMAIN Assets' = DOMAIN Assets
        /\ \A x \in DOMAIN Assets :
             /\ Assets'[x].status = Assets[x].status
             /\ x # Issues[i].asset_id => Assets'[x].total_supply = Assets[x].total_supply
    BY <1>4 DEF approve_issue, TypeOK, CarbonAsset
  <2>3. ~has_asset(id) /\ id # Issues[i].asset_id
    BY <2>1, <2>2 DEF has_asset
  <2>4. id \notin ProjectIds
    BY DEF ProjectIds, AssetIds
  <2>5. id \notin overflowed'
    BY <1>4, <1>a, <2>3, <2>4 DEF approve_issue, TypeOK
  <2>6. QED
    BY <1>4, <1>a, <2>2, <2>3, <2>5 DEF approve_issue
<1>5. ASSUME NEW s \in Signers, NEW x \in DOMAIN Assets, NEW n \in BurnAmounts,
             NEW t \in Texts, submit_burn(s, x, n, t)
      PROVE  Goal
  <2>1. has_asset(x) /\ x \in AssetIds
    BY <1>5 DEF submit_burn, MayRequest, has_asset, TypeOK
  <2>2. id # x /\ ~has_asset(id)
    BY <1>5, <2>1 DEF submit_burn, has_asset
  <2>3. QED
    BY <1>5, <1>a, <2>2 DEF submit_burn, TypeOK
<1>6. ASSUME NEW b \in DOMAIN Burns, approve_burn(b)
      PROVE  Goal
  <2>1. has_asset(Burns[b].asset_id)
    BY DEF ApprovalChain
  <2>2. /\ DOMAIN Assets' = DOMAIN Assets
        /\ \A x \in DOMAIN Assets :
             /\ Assets'[x].status = Assets[x].status
             /\ x # Burns[b].asset_id => Assets'[x].total_supply = Assets[x].total_supply
    BY <1>6 DEF approve_burn, TypeOK, CarbonAsset
  <2>3. ~has_asset(id) /\ id # Burns[b].asset_id
    BY <2>1, <2>2 DEF has_asset
  <2>4. burned'[id] = burned[id]
    BY <1>6, <2>3 DEF approve_burn, TypeOK
  <2>5. QED
    BY <1>6, <1>a, <2>2, <2>3, <2>4 DEF approve_burn
<1>7. ASSUME NEW s \in Signers, NEW x \in AssetIds, NEW n \in MoveAmounts,
             neutralize(s, x, n)
      PROVE  Goal
  <2>1. Balances[<<x, s>>] > 0
    BY <1>7, <1>b DEF neutralize, TypeOK, U64
  <2>2. has_asset(x)
    BY <2>1 DEF ApprovalChain
  <2>3. id # x /\ ~has_asset(id)
    BY <1>7, <2>2 DEF neutralize, has_asset
  <2>4. QED
    BY <1>7, <1>a, <2>3 DEF neutralize, TypeOK
<1>8. QED
  <2>1. \/ \E s \in Signers, m \in MaxSupplies, t \in Texts : submit_project(s, m, t)
        \/ \E p \in DOMAIN Projects : approve_project(p)
        \/ \E s \in Signers, x \in DOMAIN Assets, n \in IssueAmounts, t \in Texts :
             submit_issue(s, x, n, t)
        \/ \E s \in Signers, x \in AssetIds, to \in Accounts, n \in MoveAmounts :
             transfer(s, x, to, n)
        \/ UNCHANGED vars
        => UNCHANGED <<Assets, history>>
    BY DEF vars, carbonVars, history, submit_project, approve_project, submit_issue, transfer
  <2> HIDE DEF Goal
  <2>2. Goal
    BY <1>1, <1>2, <1>3, <1>4, <1>5, <1>6, <1>7, <2>1 DEF Next, Requests, approve
  <2>3. QED
    BY <2>2 DEF Goal
-----------------------------------------------------------------------------
(* What is held of an asset is a natural number, and none if no balance is  *)
(* positive.                                                                *)
LEMMA HeldType ==
  ASSUME NEW B \in [AssetIds \X Accounts -> U64], NEW id \in AssetIds
  PROVE  /\ HeldIn(B, id) \in Nat
         /\ (\A a \in Accounts : B[<<id, a>>] = 0) => HeldIn(B, id) = 0
<1> DEFINE f == [account \in Accounts |-> B[<<id, account>>]]
<1>1. DOMAIN f = Accounts /\ IsFiniteSet(Accounts) /\ \A k \in Accounts : f[k] \in U64
  BY CarbonAssumption
<1>2. (\A a \in Accounts : B[<<id, a>>] = 0) => \A k \in DOMAIN f : f[k] = 0
  OBVIOUS
<1>3. Total(f) = HeldIn(B, id)
  BY DEF HeldIn
<1> HIDE DEF f
<1>4. QED
  BY <1>1, <1>2, <1>3, TotalType, TotalZero

(* The conservation of supply, with the sums written over the maps. *)
LEMMA SupplyForm ==
  SupplyConserved <=>
    \A id \in DOMAIN Assets : id \notin overflowed =>
      HeldIn(Balances, id) + PendingIn(Burns, id) + neutralized[id] + displaced[id]
        = Assets[id].total_supply
BY Zenon DEF SupplyConserved, Accounted, Held, HeldIn, Pending, PendingIn, PendingBurns, PendingOf

(* A burn request moves units from its sender to the pending requests, or   *)
(* to what was displaced if it overwrites a pending one.                    *)
LEMMA SubmitBurnMoves ==
  ASSUME TypeOK, TypeOK', BurnsMatchIds, NEW id \in AssetIds,
         NEW s \in Signers, NEW x \in DOMAIN Assets, NEW n \in BurnAmounts, NEW t \in Texts,
         submit_burn(s, x, n, t)
  PROVE  HeldIn(Balances', id) + PendingIn(Burns', id) + displaced'[id]
           = HeldIn(Balances, id) + PendingIn(Burns, id) + displaced[id]
<1> DEFINE b == <<"burn", s, x, n, t>>
<1>1. x \in AssetIds /\ s \in Accounts /\ n \in U64 /\ n \in Nat
  BY CarbonAssumption, MaxU64Assumption DEF TypeOK, U64
<1>2. /\ Balances \in [AssetIds \X Accounts -> U64]
      /\ Balances' \in [AssetIds \X Accounts -> U64]
      /\ BurnMap(Burns) /\ BurnMap(Burns')
  BY DEF TypeOK, BurnMap
<1>3. /\ HeldIn(Balances, id) \in Nat /\ PendingIn(Burns, id) \in Nat
      /\ HeldIn(Balances', id) \in Nat /\ PendingIn(Burns', id) \in Nat
      /\ displaced[id] \in Nat /\ displaced'[id] \in Nat
  BY <1>2, HeldType, PendingFinite DEF TypeOK
<1>4. n <= Balances[<<x, s>>] /\ Balances' = [Balances EXCEPT ![<<x, s>>] = WrapSub(@, n)]
  BY DEF submit_burn
<1>5. HeldLess(Balances, Balances', x, n)
  BY <1>1, <1>2, <1>4, HeldDebit
<1>6. /\ DOMAIN Burns' = DOMAIN Burns \cup {b}
      /\ Burns'[b] = [asset_id |-> x, amount |-> n, status |-> 0]
      /\ \A k \in DOMAIN Burns : k # b => Burns'[k] = Burns[k]
  BY DEF submit_burn, Insert
<1>7. b \in DOMAIN Burns => Burns[b].asset_id = x /\ Burns[b].amount = n
  BY DEF BurnsMatchIds
<1>8. displaced' = IF b \in DOMAIN Burns /\ Burns[b].status = 0
                     THEN [displaced EXCEPT ![x] = @ + n] ELSE displaced
  BY DEF submit_burn
<1> HIDE DEF b
<1>9. CASE id # x
  <2>1. HeldIn(Balances', id) = HeldIn(Balances, id)
    BY <1>5, <1>9 DEF HeldLess
  <2>2. PendingOf(Burns', id) = PendingOf(Burns, id)
    BY <1>6, <1>7, <1>9 DEF PendingOf
  <2>3. \A k \in PendingOf(Burns, id) : Burns'[k].amount = Burns[k].amount
    BY <1>6, <1>7, <1>9 DEF PendingOf
  <2>4. PendingIn(Burns', id) = PendingIn(Burns, id)
    BY <2>2, <2>3, PendingSame
  <2>5. displaced'[id] = displaced[id]
    BY <1>8, <1>9 DEF TypeOK
  <2> QED
    BY <2>1, <2>4, <2>5
<1>10. CASE id = x
  <2>1. HeldIn(Balances', id) + n = HeldIn(Balances, id)
    BY <1>5, <1>10 DEF HeldLess
  <2>2. CASE b \in DOMAIN Burns /\ Burns[b].status = 0
    <3>1. PendingOf(Burns', id) = PendingOf(Burns, id)
      BY <1>6, <1>7, <1>10, <2>2 DEF PendingOf
    <3>2. \A k \in PendingOf(Burns, id) : Burns'[k].amount = Burns[k].amount
      BY <1>6, <1>7, <1>10 DEF PendingOf
    <3>3. PendingIn(Burns', id) = PendingIn(Burns, id)
      BY <3>1, <3>2, PendingSame
    <3>4. displaced'[id] = displaced[id] + n
      BY <1>8, <1>10, <2>2 DEF TypeOK
    <3> QED
      BY <1>1, <1>3, <2>1, <3>3, <3>4
  <2>3. CASE ~(b \in DOMAIN Burns /\ Burns[b].status = 0)
    <3>1. b \in DOMAIN Burns' /\ b \notin PendingOf(Burns, id)
      BY <1>6, <2>3 DEF PendingOf
    <3>2. PendingOf(Burns', id) = PendingOf(Burns, id) \cup {b}
      BY <1>6, <1>10, <2>3 DEF PendingOf
    <3>3. \A k \in PendingOf(Burns, id) : Burns'[k].amount = Burns[k].amount
      BY <1>6, <3>1 DEF PendingOf
    <3>4. PendingIn(Burns', id) = PendingIn(Burns, id) + Burns'[b].amount
      BY <1>2, <3>1, <3>2, <3>3, PendingGrows
    <3>5. Burns'[b].amount = n /\ displaced' = displaced
      BY <1>6, <1>8, <2>3
    <3> QED
      BY <1>1, <1>3, <2>1, <3>4, <3>5
  <2> QED
    BY <2>2, <2>3
<1> QED
  BY <1>9, <1>10

(* An approved burn request is no longer pending. *)
LEMMA ApproveBurnMoves ==
  ASSUME TypeOK, TypeOK', NEW id, NEW b \in DOMAIN Burns, approve_burn(b)
  PROVE  PendingIn(Burns, id) = PendingIn(Burns', id)
           + (IF id = Burns[b].asset_id THEN Burns[b].amount ELSE 0)
<1>1. BurnMap(Burns) /\ BurnMap(Burns')
  BY DEF TypeOK, BurnMap
<1>2. PendingIn(Burns, id) \in Nat /\ PendingIn(Burns', id) \in Nat
  BY <1>1, PendingFinite
<1>3. /\ DOMAIN Burns' = DOMAIN Burns
      /\ Burns[b].status = 0 /\ Burns'[b].status = 1
      /\ \A k \in DOMAIN Burns : /\ k # b => Burns'[k] = Burns[k]
                                 /\ Burns'[k].amount = Burns[k].amount
                                 /\ Burns'[k].asset_id = Burns[k].asset_id
  BY DEF approve_burn, TypeOK, BurnInfo
<1>4. CASE id # Burns[b].asset_id
  <2>1. PendingOf(Burns', id) = PendingOf(Burns, id)
    BY <1>3, <1>4 DEF PendingOf
  <2>2. \A k \in PendingOf(Burns, id) : Burns'[k].amount = Burns[k].amount
    BY <1>3 DEF PendingOf
  <2>3. PendingIn(Burns', id) = PendingIn(Burns, id)
    BY <2>1, <2>2, PendingSame
  <2> QED
    BY <1>2, <1>4, <2>3
<1>5. CASE id = Burns[b].asset_id
  <2>1. b \notin PendingOf(Burns', id)
    BY <1>3 DEF PendingOf
  <2>2. PendingOf(Burns, id) = PendingOf(Burns', id) \cup {b}
    BY <1>3, <1>5 DEF PendingOf
  <2>3. \A k \in PendingOf(Burns', id) : Burns[k].amount = Burns'[k].amount
    BY <1>3 DEF PendingOf
  <2>4. PendingIn(Burns, id) = PendingIn(Burns', id) + Burns[b].amount
    BY <1>1, <2>1, <2>2, <2>3, PendingGrows
  <2> QED
    BY <1>5, <2>4
<1> QED
  BY <1>4, <1>5

(* No action creates or destroys a unit without counting it. *)
LEMMA SupplyNext == SupplyInv /\ TypeOK' /\ [Next]_vars => SupplyConserved'
<1> SUFFICES ASSUME SupplyInv, TypeOK', [Next]_vars,
                    NEW id \in DOMAIN Assets', id \notin overflowed'
             PROVE  HeldIn(Balances', id) + PendingIn(Burns', id)
                      + neutralized'[id] + displaced'[id] = Assets'[id].total_supply
  BY Zenon DEF SupplyConserved, Accounted, Held, HeldIn, Pending, PendingIn, PendingBurns, PendingOf
<1> USE CarbonAssumption
<1> DEFINE Goal == HeldIn(Balances', id) + PendingIn(Burns', id)
                     + neutralized'[id] + displaced'[id] = Assets'[id].total_supply
<1>a. /\ TypeOK /\ ApprovalChain /\ UnapprovedUntouched /\ BurnsMatchIds
      /\ \A x \in DOMAIN Assets : x \notin overflowed =>
           HeldIn(Balances, x) + PendingIn(Burns, x) + neutralized[x] + displaced[x]
             = Assets[x].total_supply
  BY SupplyForm DEF SupplyInv
<1>b. MaxU64 \in Nat /\ U64 \subseteq Nat /\ \A n : n \in U64 <=> n \in Nat /\ n <= MaxU64
  BY MaxU64Assumption DEF U64
<1>c. /\ Balances \in [AssetIds \X Accounts -> U64]
      /\ Balances' \in [AssetIds \X Accounts -> U64]
      /\ BurnMap(Burns) /\ BurnMap(Burns')
  BY <1>a DEF TypeOK, BurnMap
<1>d. /\ id \in AssetIds
      /\ HeldIn(Balances, id) \in Nat /\ PendingIn(Burns, id) \in Nat
      /\ neutralized[id] \in Nat /\ displaced[id] \in Nat
      /\ HeldIn(Balances', id) \in Nat /\ PendingIn(Burns', id) \in Nat
  BY <1>a, <1>c, HeldType, PendingFinite DEF TypeOK
<1>1. ASSUME UNCHANGED <<Assets, Balances, Burns, history>>
      PROVE  Goal
  BY <1>1, <1>a DEF history
<1>2. ASSUME NEW s \in Signers, NEW p \in DOMAIN Projects, NEW n \in InitialSupplies,
             NEW t \in Texts, submit_asset(s, p, n, t)
      PROVE  Goal
  <2>1. CASE id \in DOMAIN Assets
    BY <1>2, <1>a, <2>1 DEF submit_asset, Insert, history
  <2>2. CASE id \notin DOMAIN Assets
    <3>1. ~has_asset(id)
      BY <2>2 DEF has_asset
    <3>2. \A a \in Accounts : Balances[<<id, a>>] = 0
      BY <1>a, <1>b, <1>c, <1>d, <3>1 DEF ApprovalChain
    <3>3. HeldIn(Balances, id) = 0
      BY <1>c, <1>d, <3>2, HeldType
    <3>4. PendingOf(Burns, id) = {}
      BY <1>a, <3>1 DEF ApprovalChain, PendingOf
    <3>5. PendingIn(Burns, id) = 0
      BY <3>4, TotalZero DEF PendingIn
    <3>6. neutralized[id] = 0 /\ displaced[id] = 0
      BY <1>a, <1>d, <3>1 DEF UnapprovedUntouched
    <3>7. Assets'[id].total_supply = 0
      BY <1>2, <2>2 DEF submit_asset, Insert
    <3>8. QED
      BY <1>2, <3>3, <3>5, <3>6, <3>7 DEF submit_asset, history
  <2>3. QED
    BY <2>1, <2>2
<1>3. ASSUME NEW x \in DOMAIN Assets, approve_asset(x)
      PROVE  Goal
  <2>1. PICK owner \in Accounts, n \in U64 :
          /\ n = Assets[x].initial_supply
          /\ Balances' = [Balances EXCEPT ![<<x, owner>>] = n]
    BY <1>3, <1>a DEF approve_asset, TypeOK, CarbonProject, CarbonAsset
  <2>2. x \in AssetIds /\ id \in DOMAIN Assets
    BY <1>3, <1>a DEF approve_asset, TypeOK
  <2>3. UNCHANGED <<Burns, neutralized, displaced, overflowed>>
    BY <1>3 DEF approve_asset, history
  <2>4. HeldMoves(Balances, Balances', x, owner, n)
    BY <1>c, <2>1, <2>2, HeldWrite
  <2>5. CASE id # x
    <3>1. Assets'[id] = Assets[id]
      BY <1>3, <2>2, <2>5 DEF approve_asset
    <3>2. HeldIn(Balances', id) = HeldIn(Balances, id)
      BY <1>d, <2>4, <2>5 DEF HeldMoves
    <3>3. QED
      BY <1>a, <2>2, <2>3, <3>1, <3>2
  <2>6. CASE id = x
    <3>1. ~has_asset(x)
      BY <1>3 DEF approve_asset, has_asset
    <3>2. /\ Assets[id].total_supply = 0 /\ id \notin overflowed
          /\ neutralized[id] = 0 /\ displaced[id] = 0
      BY <1>a, <2>2, <2>6, <3>1 DEF UnapprovedUntouched
    <3>3. HeldIn(Balances, id) + PendingIn(Burns, id) = 0
      BY <1>a, <1>d, <2>2, <3>2
    <3>4. HeldIn(Balances, id) = 0 /\ PendingIn(Burns, id) = 0
      BY <1>d, <3>3
    <3>5. HeldIn(Balances', id) = n
      BY <1>d, <2>4, <2>6, <3>4 DEF HeldMoves
    <3>6. Assets'[id].total_supply = n
      BY <1>3, <1>a, <2>1, <2>6 DEF approve_asset, TypeOK, CarbonAsset
    <3>7. QED
      BY <2>3, <2>4, <3>2, <3>4, <3>5, <3>6 DEF HeldMoves
  <2>7. QED
    BY <2>5, <2>6
<1>4. ASSUME NEW i \in DOMAIN Issues, approve_issue(i)
      PROVE  Goal
  <2>1. PICK x \in DOMAIN Assets, n \in U64, owner \in Accounts :
          /\ x = Issues[i].asset_id /\ n = Issues[i].amount
          /\ Balances' = [Balances EXCEPT ![<<x, owner>>] = WrapAdd(@, n)]
          /\ Assets' = [Assets EXCEPT ![x].total_supply = WrapAdd(@, n)]
    BY <1>4, <1>a DEF approve_issue, TypeOK, IssueInfo, CarbonProject
  <2>2. x \in AssetIds /\ id \in DOMAIN Assets /\ id \notin overflowed
    BY <1>4, <1>a DEF approve_issue, TypeOK
  <2>3. UNCHANGED <<Burns, neutralized, displaced>>
    BY <1>4 DEF approve_issue
  <2>4. PICK v \in U64 : /\ v = WrapAdd(Balances[<<x, owner>>], n)
                         /\ Balances' = [Balances EXCEPT ![<<x, owner>>] = v]
    BY <1>c, <2>1, <2>2, WrapType
  <2>5. HeldMoves(Balances, Balances', x, owner, v)
    BY <1>c, <2>2, <2>4, HeldWrite
  <2>6. CASE id # x
    <3>1. Assets'[id] = Assets[id]
      BY <2>1, <2>2, <2>6
    <3>2. HeldIn(Balances', id) = HeldIn(Balances, id)
      BY <1>d, <2>5, <2>6 DEF HeldMoves
    <3>3. QED
      BY <1>a, <2>2, <2>3, <3>1, <3>2
  <2>7. CASE id = x
    <3>1. Assets[id].total_supply \in Nat /\ n \in Nat
      BY <1>a, <1>b, <2>2 DEF TypeOK, CarbonAsset
    <3>2. ~(Assets[id].total_supply + n > MaxU64)
      BY <1>4, <2>1, <2>7 DEF approve_issue
    <3>3. Assets'[id].total_supply = Assets[id].total_supply + n
      BY <1>a, <2>1, <2>7, <3>2 DEF WrapAdd, TypeOK, CarbonAsset
    <3>4. HeldIn(Balances, id) + PendingIn(Burns, id) + neutralized[id] + displaced[id]
            = Assets[id].total_supply
      BY <1>a, <2>2
    <3>5. Balances[<<id, owner>>] <= Assets[id].total_supply
      BY <1>d, <2>5, <2>7, <3>1, <3>4 DEF HeldMoves
    <3>6. v = Balances[<<id, owner>>] + n
      BY <1>b, <2>4, <2>5, <2>7, <3>1, <3>2, <3>5 DEF WrapAdd, HeldMoves
    <3>7. HeldIn(Balances', id) = HeldIn(Balances, id) + n
      BY <1>d, <2>5, <2>7, <3>1, <3>6 DEF HeldMoves
    <3>8. QED
      BY <1>d, <2>3, <3>1, <3>3, <3>4, <3>7
  <2>8. QED
    BY <2>6, <2>7
<1>5. ASSUME NEW s \in Signers, NEW x \in DOMAIN Assets, NEW n \in BurnAmounts,
             NEW t \in Texts, submit_burn(s, x, n, t)
      PROVE  Goal
  <2>1. HeldIn(Balances', id) + PendingIn(Burns', id) + displaced'[id]
          = HeldIn(Balances, id) + PendingIn(Burns, id) + displaced[id]
    BY <1>5, <1>a, <1>d, SubmitBurnMoves
  <2>2. id \in DOMAIN Assets /\ id \notin overflowed /\ UNCHANGED <<Assets, neutralized>>
    BY <1>5 DEF submit_burn
  <2>3. HeldIn(Balances, id) + PendingIn(Burns, id) + neutralized[id] + displaced[id]
          = Assets[id].total_supply
    BY <1>a, <2>2
  <2>4. displaced'[id] \in Nat
    BY <1>d DEF TypeOK
  <2>5. Assets'[id] = Assets[id] /\ neutralized'[id] = neutralized[id]
    BY <2>2
  <2>6. neutralized[id] \in Nat /\ Assets[id].total_supply \in Int
    BY <1>a, <2>2 DEF TypeOK, CarbonAsset, U64
  <2> HIDE DEF HeldIn, PendingIn
  <2> QED
    BY <1>d, <2>1, <2>3, <2>4, <2>5, <2>6
<1>6. ASSUME NEW b \in DOMAIN Burns, approve_burn(b)
      PROVE  Goal
  <2>1. PICK x \in DOMAIN Assets, n \in U64 :
          /\ x = Burns[b].asset_id /\ n = Burns[b].amount
          /\ Assets' = [Assets EXCEPT ![x].total_supply = WrapSub(@, n)]
    BY <1>6, <1>a DEF approve_burn, TypeOK, BurnInfo
  <2>2. /\ id \in DOMAIN Assets /\ id \notin overflowed /\ Balances' = Balances
        /\ neutralized' = neutralized /\ displaced' = displaced
    BY <1>6 DEF approve_burn
  <2>3. PendingIn(Burns, id) = PendingIn(Burns', id) + (IF id = x THEN n ELSE 0)
    BY <1>6, <1>a, <2>1, ApproveBurnMoves
  <2>4. CASE id # x
    <3>1. Assets'[id] = Assets[id]
      BY <2>1, <2>2, <2>4
    <3> QED
      BY <1>a, <1>d, <2>2, <2>3, <2>4, <3>1
  <2>5. CASE id = x
    <3>1. Assets[id].total_supply \in Nat /\ n \in Nat
      BY <1>a, <1>b, <2>2 DEF TypeOK, CarbonAsset
    <3>2. HeldIn(Balances, id) + PendingIn(Burns, id) + neutralized[id] + displaced[id]
            = Assets[id].total_supply
      BY <1>a, <2>2
    <3>3. n <= Assets[id].total_supply
      BY <1>d, <2>3, <2>5, <3>1, <3>2
    <3>4. Assets'[id].total_supply = WrapSub(Assets[id].total_supply, n)
      BY <1>a, <2>1, <2>5 DEF TypeOK, CarbonAsset
    <3>5. Assets'[id].total_supply = Assets[id].total_supply - n
      BY <3>1, <3>3, <3>4 DEF WrapSub
    <3> QED
      BY <1>d, <2>2, <2>3, <2>5, <3>1, <3>2, <3>5
  <2>6. QED
    BY <2>4, <2>5
<1>7. ASSUME NEW s \in Signers, NEW x \in AssetIds, NEW n \in MoveAmounts,
             neutralize(s, x, n)
      PROVE  Goal
  <2>1. s \in Accounts /\ n \in U64 /\ n \in Nat
    BY <1>b
  <2>2. /\ id \in DOMAIN Assets /\ Assets'[id] = Assets[id] /\ id \notin overflowed
        /\ Burns' = Burns /\ displaced' = displaced
    BY <1>7 DEF neutralize
  <2>3. Balances[<<x, s>>] \in U64 /\ n <= Balances[<<x, s>>]
    BY <1>7, <1>b, <1>c, <2>1 DEF neutralize
  <2>4. Balances' = [Balances EXCEPT ![<<x, s>>] = WrapSub(@, n)]
    BY <1>7 DEF neutralize
  <2>5. HeldLess(Balances, Balances', x, n)
    BY <1>c, <2>1, <2>3, <2>4, HeldDebit
  <2>6. neutralized' = [neutralized EXCEPT ![x] = @ + n]
    BY <1>7 DEF neutralize
  <2>7. CASE id # x
    <3>1. HeldIn(Balances', id) = HeldIn(Balances, id)
      BY <1>d, <2>5, <2>7 DEF HeldLess
    <3>2. neutralized'[id] = neutralized[id]
      BY <1>a, <1>d, <2>6, <2>7 DEF TypeOK
    <3>3. QED
      BY <1>a, <2>2, <3>1, <3>2
  <2>8. CASE id = x
    <3>1. HeldIn(Balances', id) + n = HeldIn(Balances, id)
      BY <2>5, <2>8 DEF HeldLess
    <3>2. neutralized'[id] = neutralized[id] + n
      BY <1>a, <2>6, <2>8 DEF TypeOK
    <3>3. HeldIn(Balances, id) + PendingIn(Burns, id) + neutralized[id] + displaced[id]
            = Assets[id].total_supply
      BY <1>a, <2>2
    <3>4. QED
      BY <1>d, <2>1, <2>2, <3>1, <3>2, <3>3
  <2>9. QED
    BY <2>7, <2>8
<1>8. ASSUME NEW s \in Signers, NEW x \in AssetIds, NEW to \in Accounts,
             NEW n \in MoveAmounts, transfer(s, x, to, n)
      PROVE  Goal
  <2>1. s \in Accounts /\ n \in U64 /\ n \in Nat
    BY <1>b
  <2>2. /\ id \in DOMAIN Assets /\ Assets'[id] = Assets[id] /\ id \notin overflowed
        /\ Burns' = Burns /\ neutralized' = neutralized /\ displaced' = displaced
        /\ Balances' = MakeTransfer(Balances, x, s, to, n)
    BY <1>8 DEF transfer, history
  <2>3. HeldIn(Balances, id) + PendingIn(Burns, id) + neutralized[id] + displaced[id]
          = Assets[id].total_supply
    BY <1>a, <2>2
  <2>4. CASE s = to
    BY <2>2, <2>3, <2>4 DEF MakeTransfer
  <2>5. CASE s # to
    <3>1. Balances[<<x, s>>] \in U64 /\ n <= Balances[<<x, s>>]
      BY <1>8, <1>b, <1>c, <2>1 DEF transfer
    <3>2. PICK C : C = [Balances EXCEPT ![<<x, s>>] = WrapSub(@, n)]
      OBVIOUS
    <3>3. C \in [AssetIds \X Accounts -> U64] /\ HeldLess(Balances, C, x, n)
      BY <1>c, <2>1, <3>1, <3>2, HeldDebit
    <3>4. Balances' = [C EXCEPT ![<<x, to>>] = WrapAdd(@, n)]
      BY <2>2, <2>5, <3>2 DEF MakeTransfer
    <3>5. CASE id # x
      <4>1. PICK v \in U64 : Balances' = [C EXCEPT ![<<x, to>>] = v]
        BY <2>1, <3>3, <3>4, WrapType
      <4>2. HeldMoves(C, Balances', x, to, v)
        BY <3>3, <4>1, HeldWrite
      <4>3. HeldIn(Balances', id) = HeldIn(Balances, id)
        BY <1>d, <3>3, <3>5, <4>2 DEF HeldLess, HeldMoves
      <4>4. QED
        BY <2>2, <2>3, <4>3
    <3>6. CASE id = x
      <4>1. C[<<x, to>>] \in Nat /\ C[<<x, to>>] <= HeldIn(C, x)
        BY <3>3, HeldBound
      <4>2. Assets[id].total_supply \in Nat /\ Assets[id].total_supply <= MaxU64
        BY <1>a, <1>b, <2>2 DEF TypeOK, CarbonAsset
      <4>3. HeldIn(Balances, x) <= MaxU64
        BY <1>b, <1>d, <2>3, <3>6, <4>2
      <4>4. C[<<x, to>>] + n <= MaxU64
        BY <1>b, <3>3, <4>1, <4>3 DEF HeldLess
      <4>5. HeldLess(Balances', C, x, n)
        BY <2>1, <3>3, <3>4, <4>4, HeldCredit
      <4>6. HeldIn(Balances', id) = HeldIn(Balances, id)
        BY <3>3, <3>6, <4>5 DEF HeldLess
      <4>7. QED
        BY <2>2, <2>3, <4>6
    <3>7. QED
      BY <3>5, <3>6
  <2>6. QED
    BY <2>4, <2>5
<1>9. QED
  <2>1. \/ \E s \in Signers, m \in MaxSupplies, t \in Texts : submit_project(s, m, t)
        \/ \E p \in DOMAIN Projects : approve_project(p)
        \/ \E s \in Signers, x \in DOMAIN Assets, n \in IssueAmounts, t \in Texts :
             submit_issue(s, x, n, t)
        \/ UNCHANGED vars
        => UNCHANGED <<Assets, Balances, Burns, history>>
    BY DEF vars, carbonVars, history, submit_project, approve_project, submit_issue
  <2> HIDE DEF Goal
  <2>2. Goal
    BY <1>1, <1>2, <1>3, <1>4, <1>5, <1>6, <1>7, <1>8, <2>1 DEF Next, Requests, approve
  <2>3. QED
    BY <2>2 DEF Goal

(* The inductive invariant behind the two theorems below. *)
LEMMA SupplyInit == Init => SupplyInv
<1>1. Init => ApprovalChain
  BY DEF Init, ApprovalChain
<1>2. Init => UnapprovedUntouched /\ BurnsMatchIds /\ SupplyConserved
  BY DEF Init, UnapprovedUntouched, BurnsMatchIds, SupplyConserved
<1>3. QED
  BY <1>1, <1>2, TypeInit DEF SupplyInv

LEMMA SupplyStep == SupplyInv /\ [Next]_vars => SupplyInv'
<1> SUFFICES ASSUME SupplyInv, [Next]_vars PROVE SupplyInv'
  OBVIOUS
<1>1. TypeOK /\ ApprovalChain /\ UnapprovedUntouched /\ BurnsMatchIds
  BY DEF SupplyInv
<1>2. TypeOK'
  BY <1>1, TypeNext
<1>3. QED
  BY <1>1, <1>2, ChainNext, UntouchedNext, BurnsMatchNext, SupplyNext DEF SupplyInv

LEMMA SupplyInvariant == Spec => []SupplyInv
BY SupplyInit, SupplyStep, PTL DEF Spec

(* Nothing appears in or disappears from the ledger of carbon assets: every *)
(* unit of an asset's total_supply is held, waits to be burned, was         *)
(* neutralized, or was displaced by a repeated burn request; for any number *)
(* of accounts, records and units.                                          *)
THEOREM SupplyCorrect == Spec => []SupplyConserved
<1>1. SupplyInv => SupplyConserved
  BY DEF SupplyInv
<1>2. QED
  BY <1>1, SupplyInvariant, PTL

(* A pending burn is part of the supply. *)
LEMMA PendingCovered == SupplyInv => BurnsCovered
<1> SUFFICES ASSUME SupplyInv, NEW b \in DOMAIN Burns, Burns[b].status = 0,
                    Burns[b].asset_id \notin overflowed
             PROVE  Burns[b].amount <= Assets[Burns[b].asset_id].total_supply
  BY DEF BurnsCovered
<1>1. TypeOK /\ ApprovalChain /\ SupplyConserved
  BY DEF SupplyInv
<1>2. PICK id \in DOMAIN Assets : id = Burns[b].asset_id
  BY <1>1 DEF ApprovalChain, has_asset
<1>3. id \in AssetIds /\ BurnMap(Burns) /\ Balances \in [AssetIds \X Accounts -> U64]
  BY <1>1 DEF TypeOK, BurnMap
<1>4. HeldIn(Balances, id) + PendingIn(Burns, id) + neutralized[id] + displaced[id]
        = Assets[id].total_supply
  BY <1>1, <1>2, SupplyForm
<1>5. /\ HeldIn(Balances, id) \in Nat /\ PendingIn(Burns, id) \in Nat
      /\ neutralized[id] \in Nat /\ displaced[id] \in Nat
  BY <1>1, <1>3, HeldType, PendingFinite DEF TypeOK
<1>6. Burns[b].amount <= PendingIn(Burns, id)
  <2> DEFINE f == [k \in PendingOf(Burns, id) |-> Burns[k].amount]
  <2>1. IsFiniteSet(DOMAIN f) /\ \A k \in DOMAIN f : f[k] \in U64
    BY <1>3, PendingFinite
  <2>2. b \in DOMAIN f /\ f[b] = Burns[b].amount
    BY <1>2 DEF PendingOf
  <2>3. Total(f) = PendingIn(Burns, id)
    BY DEF PendingIn
  <2> HIDE DEF f
  <2>4. QED
    BY <2>1, <2>2, <2>3, TotalBound
<1>7. Burns[b].amount \in Nat
  BY <1>1, MaxU64Assumption DEF TypeOK, BurnInfo, U64
<1>8. QED
  BY <1>2, <1>4, <1>5, <1>6, <1>7

(* The committee can approve a pending burn request at any later time: the  *)
(* total_supply -= of approve_burn does not underflow.                      *)
THEOREM BurnsCoveredCorrect == Spec => []BurnsCovered
BY PendingCovered, SupplyInvariant, PTL
-----------------------------------------------------------------------------
(* The same conservation modulo 2^64, with the sums written over the maps.  *)
LEMMA ModuloForm ==
  SupplyConservedModulo <=>
    \A id \in DOMAIN Assets :
      SameModulo(HeldIn(Balances, id) + PendingIn(Burns, id) + neutralized[id] + displaced[id],
                 Assets[id].total_supply)
BY Zenon DEF SupplyConservedModulo, Accounted, Held, HeldIn, Pending, PendingIn, PendingBurns, PendingOf

(* One step takes the sum A and the total_supply T of an asset to C and S,  *)
(* and their difference changes by a multiple of 2^64.                      *)
InStep(A, T, C, S) ==
  /\ C \in Int /\ S \in Int
  /\ \E j \in Int : C - S = A - T + j * (MaxU64 + 1)

(* Only an asset that has overflowed depends on the wrapping staying in     *)
(* step; for such an asset every action keeps sum and total_supply so.      *)
LEMMA ModuloStep ==
  ASSUME SupplyInv, TypeOK', [Next]_vars, NEW id \in DOMAIN Assets, Assets[id].status = 1
  PROVE  InStep(HeldIn(Balances, id) + PendingIn(Burns, id) + neutralized[id] + displaced[id],
                Assets[id].total_supply,
                HeldIn(Balances', id) + PendingIn(Burns', id) + neutralized'[id] + displaced'[id],
                Assets'[id].total_supply)
<1> USE CarbonAssumption
<1> DEFINE H == HeldIn(Balances, id)
           P == PendingIn(Burns, id)
           N == neutralized[id]
           D == displaced[id]
           T == Assets[id].total_supply
           Goal == InStep(H + P + N + D, T,
                     HeldIn(Balances', id) + PendingIn(Burns', id) + neutralized'[id] + displaced'[id],
                     Assets'[id].total_supply)
<1>a. TypeOK /\ BurnsMatchIds /\ id \in AssetIds
  BY DEF SupplyInv, TypeOK
<1>b. MaxU64 \in Int /\ MaxU64 + 1 \in Int /\ U64 \subseteq Int
  BY MaxU64Assumption DEF U64
<1>c. /\ Balances \in [AssetIds \X Accounts -> U64]
      /\ Balances' \in [AssetIds \X Accounts -> U64]
      /\ BurnMap(Burns) /\ BurnMap(Burns')
  BY <1>a DEF TypeOK, BurnMap
<1>d. /\ H \in Int /\ P \in Int /\ N \in Int /\ D \in Int /\ T \in Int /\ T \in U64
      /\ HeldIn(Balances', id) \in Int /\ PendingIn(Burns', id) \in Int
      /\ neutralized'[id] \in Int /\ displaced'[id] \in Int
  <2>1. T \in U64
    BY <1>a DEF TypeOK, CarbonAsset
  <2>2. H \in Nat /\ HeldIn(Balances', id) \in Nat
    BY <1>a, <1>c, HeldType
  <2>3. P \in Nat /\ PendingIn(Burns', id) \in Nat
    BY <1>c, PendingFinite
  <2>4. N \in Nat /\ D \in Nat /\ neutralized'[id] \in Nat /\ displaced'[id] \in Nat
    BY <1>a DEF TypeOK
  <2> HIDE DEF H, P, N, D, T
  <2> QED
    BY <1>b, <2>1, <2>2, <2>3, <2>4
<1> HIDE DEF H, P, N, D, T
<1>0. ASSUME NEW h \in Int, NEW p \in Int, NEW n \in Int, NEW d \in Int, NEW t \in Int,
             HeldIn(Balances', id) = h, PendingIn(Burns', id) = p,
             neutralized'[id] = n, displaced'[id] = d, Assets'[id].total_supply = t,
             NEW j \in Int, (h + p + n + d) - t = (H + P + N + D) - T + j * (MaxU64 + 1)
      PROVE  Goal
  <2>a. h + p + n + d \in Int
    OBVIOUS
  <2>b. (h + p + n + d) - t = (H + P + N + D) - T + j * (MaxU64 + 1)
    BY <1>0, Zenon
  <2>1. InStep(H + P + N + D, T, h + p + n + d, t)
    BY <2>a, <2>b, Zenon DEF InStep
  <2> QED
    BY <1>0, <2>1, Zenon
<1>1. ASSUME NEW h \in Int, NEW p \in Int, NEW n \in Int, NEW d \in Int, NEW t \in Int,
             HeldIn(Balances', id) = h, PendingIn(Burns', id) = p,
             neutralized'[id] = n, displaced'[id] = d, Assets'[id].total_supply = t,
             (h + p + n + d) - t = (H + P + N + D) - T
      PROVE  Goal
  <2>1. (h + p + n + d) - t = (H + P + N + D) - T + 0 * (MaxU64 + 1)
    BY <1>1, <1>b, <1>d
  <2> QED
    BY <1>0, <1>1, <2>1
<1>2. ASSUME UNCHANGED <<Balances, Burns, history>>, Assets'[id].total_supply = T
      PROVE  Goal
  BY <1>1, <1>2, <1>d DEF history, H, P, N, D
<1>3. ASSUME NEW s \in Signers, NEW p \in DOMAIN Projects, NEW n \in InitialSupplies,
             NEW t \in Texts, submit_asset(s, p, n, t)
      PROVE  Goal
  BY <1>2, <1>3 DEF submit_asset, Insert, T
<1>4. ASSUME NEW x \in DOMAIN Assets, approve_asset(x)
      PROVE  Goal
  <2>1. x # id /\ x \in AssetIds
    BY <1>4, <1>a DEF approve_asset, TypeOK
  <2>2. PICK owner \in Accounts, n \in U64 :
          Balances' = [Balances EXCEPT ![<<x, owner>>] = n]
    BY <1>4, <1>a DEF approve_asset, TypeOK, CarbonProject, CarbonAsset
  <2>3. HeldMoves(Balances, Balances', x, owner, n)
    BY <1>c, <2>1, <2>2, HeldWrite
  <2>4. HeldIn(Balances', id) = H
    BY <1>a, <2>1, <2>3 DEF HeldMoves, H
  <2>5. /\ PendingIn(Burns', id) = P /\ neutralized'[id] = N /\ displaced'[id] = D
        /\ Assets'[id].total_supply = T
    BY <1>4, <2>1 DEF approve_asset, history, P, N, D, T
  <2> QED
    BY <1>1, <1>d, <2>4, <2>5
<1>5. ASSUME NEW i \in DOMAIN Issues, approve_issue(i)
      PROVE  Goal
  <2>1. PICK x \in DOMAIN Assets, n \in U64, owner \in Accounts :
          /\ Balances' = [Balances EXCEPT ![<<x, owner>>] = WrapAdd(@, n)]
          /\ Assets' = [Assets EXCEPT ![x].total_supply = WrapAdd(@, n)]
    BY <1>5, <1>a DEF approve_issue, TypeOK, IssueInfo, CarbonProject
  <2>2. x \in AssetIds /\ n \in Int
    BY <1>a, <1>b DEF TypeOK
  <2>3. PendingIn(Burns', id) = P /\ neutralized'[id] = N /\ displaced'[id] = D
    BY <1>5 DEF approve_issue, P, N, D
  <2>a. Balances[<<x, owner>>] \in U64
    BY <1>c, <2>2
  <2>4. PICK v \in U64 : /\ v = WrapAdd(Balances[<<x, owner>>], n)
                         /\ Balances' = [Balances EXCEPT ![<<x, owner>>] = v]
    BY <2>1, <2>a, WrapType
  <2>5. HeldMoves(Balances, Balances', x, owner, v)
    BY <1>c, <2>2, <2>4, HeldWrite
  <2>6. CASE id # x
    <3>1. HeldIn(Balances', id) = H
      BY <1>a, <2>5, <2>6 DEF HeldMoves, H
    <3>2. Assets'[id].total_supply = T
      BY <2>1, <2>6 DEF T
    <3> QED
      BY <1>1, <1>d, <2>3, <3>1, <3>2
  <2>7. CASE id = x
    <3>1. PICK j \in Int : v = Balances[<<x, owner>>] + n + j * (MaxU64 + 1)
      BY <2>4, <2>a, WrapMultiple
    <3>2. Assets'[id].total_supply = WrapAdd(T, n)
      BY <1>a, <2>1, <2>7 DEF TypeOK, CarbonAsset, T
    <3>3. PICK k \in Int : Assets'[id].total_supply = T + n + k * (MaxU64 + 1)
      BY <1>d, <3>2, WrapMultiple
    <3>4. PICK J \in Int, K \in Int : J = j * (MaxU64 + 1) /\ K = k * (MaxU64 + 1)
      BY <1>b
    <3>5. HeldIn(Balances', id) = H + n + J
      BY <1>d, <2>2, <2>5, <2>7, <3>1, <3>4 DEF HeldMoves, H
    <3>a. MaxU64 + 1 \in Int
      BY <1>b
    <3>b. (j - k) * (MaxU64 + 1) = j * (MaxU64 + 1) - k * (MaxU64 + 1)
      BY <3>a, Distribution, Zenon
    <3>6. (j - k) * (MaxU64 + 1) = J - K
      BY <3>4, <3>b, Zenon
    <3>7. Assets'[id].total_supply = T + n + K
      BY <3>3, <3>4
    <3>8. /\ j - k \in Int /\ H + n + J \in Int /\ T + n + K \in Int
          /\ ((H + n + J) + P + N + D) - (T + n + K) = (H + P + N + D) - T + (J - K)
      BY <1>d, <2>2, <3>4
    <3> QED
      BY <1>0, <1>d, <2>3, <3>5, <3>6, <3>7, <3>8
  <2> QED
    BY <2>6, <2>7
<1>6. ASSUME NEW s \in Signers, NEW x \in DOMAIN Assets, NEW n \in BurnAmounts,
             NEW t \in Texts, submit_burn(s, x, n, t)
      PROVE  Goal
  <2>1. HeldIn(Balances', id) + PendingIn(Burns', id) + displaced'[id] = H + P + D
    BY <1>6, <1>a, SubmitBurnMoves DEF H, P, D
  <2>2. Assets'[id].total_supply = T /\ neutralized'[id] = N
    BY <1>6 DEF submit_burn, T, N
  <2>3. PICK h \in Int, p \in Int, d \in Int :
          h = HeldIn(Balances', id) /\ p = PendingIn(Burns', id) /\ d = displaced'[id]
    BY <1>d
  <2>4. (h + p + N + d) - T = (H + P + N + D) - T
    BY <1>d, <2>1, <2>3
  <2>5. N \in Int /\ T \in Int
    BY <1>d
  <2> QED
    BY <1>1, <2>2, <2>3, <2>4, <2>5
<1>7. ASSUME NEW b \in DOMAIN Burns, approve_burn(b)
      PROVE  Goal
  <2>1. PICK x \in DOMAIN Assets, n \in U64 :
          /\ x = Burns[b].asset_id /\ n = Burns[b].amount
          /\ Assets' = [Assets EXCEPT ![x].total_supply = WrapSub(@, n)]
    BY <1>7, <1>a DEF approve_burn, TypeOK, BurnInfo
  <2>2. HeldIn(Balances', id) = H /\ neutralized'[id] = N /\ displaced'[id] = D
    BY <1>7 DEF approve_burn, H, N, D
  <2>3. P = PendingIn(Burns', id) + (IF id = x THEN n ELSE 0)
    BY <1>7, <1>a, <2>1, ApproveBurnMoves DEF P
  <2>4. CASE id # x
    <3>1. Assets'[id].total_supply = T
      BY <2>1, <2>4 DEF T
    <3>2. PendingIn(Burns', id) = P
      BY <1>d, <2>3, <2>4
    <3> QED
      BY <1>1, <1>d, <2>2, <3>1, <3>2
  <2>5. CASE id = x
    <3>1. Assets'[id].total_supply = WrapSub(T, n)
      BY <1>a, <2>1, <2>5 DEF TypeOK, CarbonAsset, T
    <3>2. PICK k \in Int : Assets'[id].total_supply = T - n + k * (MaxU64 + 1)
      BY <1>d, <3>1, WrapMultiple
    <3>3. PICK K \in Int : K = k * (MaxU64 + 1)
      BY <1>b
    <3>4. n \in Int /\ PendingIn(Burns', id) = P - n
      BY <1>b, <1>d, <2>3, <2>5
    <3>5. /\ 0 \in Int /\ -k \in Int /\ T - n + K \in Int /\ P - n \in Int
          /\ (H + (P - n) + N + D) - (T - n + K) = (H + P + N + D) - T + (-K)
      BY <1>d, <3>3, <3>4
    <3>a. MaxU64 + 1 \in Int
      BY <1>b
    <3>b. 0 \in Int
      OBVIOUS
    <3>6. (0 - k) * (MaxU64 + 1) = 0 * (MaxU64 + 1) - k * (MaxU64 + 1)
      BY <3>a, <3>b, Distribution, Zenon
    <3>7. 0 - k = -k /\ 0 * (MaxU64 + 1) = 0
      BY <1>b
    <3>8. (-k) * (MaxU64 + 1) = -K
      BY <3>3, <3>6, <3>7
    <3>9. Assets'[id].total_supply = T - n + K
      BY <3>2, <3>3
    <3> QED
      BY <1>0, <1>d, <2>2, <3>4, <3>5, <3>8, <3>9
  <2> QED
    BY <2>4, <2>5
<1>8. ASSUME NEW s \in Signers, NEW x \in AssetIds, NEW n \in MoveAmounts,
             neutralize(s, x, n)
      PROVE  Goal
  <2>1. s \in Accounts /\ n \in U64 /\ n \in Int
    BY <1>b
  <2>2. Assets'[id].total_supply = T /\ PendingIn(Burns', id) = P /\ displaced'[id] = D
    BY <1>8 DEF neutralize, T, P, D
  <2>3. Balances[<<x, s>>] \in U64 /\ n <= Balances[<<x, s>>]
    BY <1>8, <1>b, <1>c, <2>1 DEF neutralize
  <2>4. Balances' = [Balances EXCEPT ![<<x, s>>] = WrapSub(@, n)]
    BY <1>8 DEF neutralize
  <2>5. HeldLess(Balances, Balances', x, n)
    BY <1>c, <2>1, <2>3, <2>4, HeldDebit
  <2>6. neutralized' = [neutralized EXCEPT ![x] = @ + n]
    BY <1>8 DEF neutralize
  <2>7. CASE id # x
    <3>1. HeldIn(Balances', id) = H
      BY <1>a, <2>5, <2>7 DEF HeldLess, H
    <3>2. neutralized'[id] = N
      BY <1>a, <2>6, <2>7 DEF TypeOK, N
    <3> QED
      BY <1>1, <1>d, <2>2, <3>1, <3>2
  <2>8. CASE id = x
    <3>1. HeldIn(Balances', id) = H - n
      BY <1>d, <2>1, <2>5, <2>8 DEF HeldLess, H
    <3>2. neutralized'[id] = N + n
      BY <1>a, <2>6, <2>8 DEF TypeOK, N
    <3>3. H - n \in Int /\ N + n \in Int /\ ((H - n) + P + (N + n) + D) - T = (H + P + N + D) - T
      BY <1>d, <2>1
    <3> QED
      BY <1>1, <1>d, <2>2, <3>1, <3>2, <3>3
  <2> QED
    BY <2>7, <2>8
<1>9. ASSUME NEW s \in Signers, NEW x \in AssetIds, NEW to \in Accounts,
             NEW n \in MoveAmounts, transfer(s, x, to, n)
      PROVE  Goal
  <2>1. s \in Accounts /\ n \in U64 /\ n \in Int
    BY <1>b
  <2>2. /\ Assets'[id].total_supply = T /\ PendingIn(Burns', id) = P
        /\ neutralized'[id] = N /\ displaced'[id] = D
        /\ Balances' = MakeTransfer(Balances, x, s, to, n)
    BY <1>9 DEF transfer, history, T, P, N, D
  <2>4. CASE s = to
    <3>1. HeldIn(Balances', id) = H
      BY <2>2, <2>4 DEF MakeTransfer, H
    <3> QED
      BY <1>1, <1>d, <2>2, <3>1
  <2>5. CASE s # to
    <3>1. Balances[<<x, s>>] \in U64 /\ n <= Balances[<<x, s>>]
      BY <1>9, <1>b, <1>c, <2>1 DEF transfer
    <3>2. PICK C : C = [Balances EXCEPT ![<<x, s>>] = WrapSub(@, n)]
      OBVIOUS
    <3>3. C \in [AssetIds \X Accounts -> U64] /\ HeldLess(Balances, C, x, n)
      BY <1>c, <2>1, <3>1, <3>2, HeldDebit
    <3>4. Balances' = [C EXCEPT ![<<x, to>>] = WrapAdd(@, n)]
      BY <2>2, <2>5, <3>2 DEF MakeTransfer
    <3>a. C[<<x, to>>] \in U64
      BY <3>3
    <3>b. PICK v \in U64 : /\ v = WrapAdd(C[<<x, to>>], n)
                           /\ Balances' = [C EXCEPT ![<<x, to>>] = v]
      BY <2>1, <3>a, <3>4, WrapType
    <3>c. HeldMoves(C, Balances', x, to, v)
      BY <3>3, <3>b, HeldWrite
    <3>5. CASE id # x
      <4>1. HeldIn(Balances', id) = H
        BY <1>a, <3>3, <3>5, <3>c DEF HeldLess, HeldMoves, H
      <4> QED
        BY <1>1, <1>d, <2>2, <4>1
    <3>6. CASE id = x
      <4>1. PICK j \in Int : v = C[<<x, to>>] + n + j * (MaxU64 + 1)
        BY <2>1, <3>a, <3>b, WrapMultiple
      <4>2. PICK J \in Int : J = j * (MaxU64 + 1)
        BY <1>b
      <4>3. HeldIn(Balances', id) = H + J
        BY <1>d, <2>1, <3>3, <3>6, <3>c, <4>1, <4>2 DEF HeldLess, HeldMoves, H
      <4>4. H + J \in Int /\ ((H + J) + P + N + D) - T = (H + P + N + D) - T + J
        BY <1>d
      <4> QED
        BY <1>0, <1>d, <2>2, <4>2, <4>3, <4>4
    <3> QED
      BY <3>5, <3>6
  <2> QED
    BY <2>4, <2>5
<1> QED
  <2>1. \/ \E s \in Signers, m \in MaxSupplies, t \in Texts : submit_project(s, m, t)
        \/ \E p \in DOMAIN Projects : approve_project(p)
        \/ \E s \in Signers, x \in DOMAIN Assets, n \in IssueAmounts, t \in Texts :
             submit_issue(s, x, n, t)
        \/ UNCHANGED vars
        => UNCHANGED <<Balances, Burns, history>> /\ Assets'[id].total_supply = T
    BY DEF vars, carbonVars, history, submit_project, approve_project, submit_issue, T
  <2> HIDE DEF Goal
  <2>2. Goal
    BY <1>2, <1>3, <1>4, <1>5, <1>6, <1>7, <1>8, <1>9, <2>1 DEF Next, Requests, approve
  <2> QED
    BY <2>2 DEF Goal, H, P, N, D, T

(* Only approve_issue adds to a total_supply that can overflow. *)
LEMMA OnlyIssuesOverflow ==
  ASSUME [Next]_vars, NEW id, id \in overflowed', id \notin overflowed
  PROVE  \E i \in DOMAIN Issues : approve_issue(i)
<1>1. overflowed' # overflowed
  OBVIOUS
<1>2. \A s, m, t : ~submit_project(s, m, t)
  BY <1>1 DEF submit_project, history
<1>3. \A s, p, n, t : ~submit_asset(s, p, n, t)
  BY <1>1 DEF submit_asset, history
<1>4. \A s, x, n, t : ~submit_issue(s, x, n, t) /\ ~submit_burn(s, x, n, t)
  BY <1>1 DEF submit_issue, submit_burn, history
<1>5. \A s, x, to, n : ~transfer(s, x, to, n) /\ ~neutralize(s, x, n)
  BY <1>1 DEF transfer, neutralize, history
<1>6. \A x : ~approve_project(x) /\ ~approve_asset(x) /\ ~approve_burn(x)
  BY <1>1 DEF approve_project, approve_asset, approve_burn, history
<1>7. ~UNCHANGED vars
  BY <1>1 DEF vars, history
<1> QED
  BY <1>2, <1>3, <1>4, <1>5, <1>6, <1>7, Zenon DEF Next, Requests, approve

LEMMA ModuloNext ==
  SupplyInv /\ SupplyInv' /\ SupplyConservedModulo /\ [Next]_vars => SupplyConservedModulo'
<1> SUFFICES ASSUME SupplyInv, SupplyInv', SupplyConservedModulo, [Next]_vars,
                    NEW id \in DOMAIN Assets'
             PROVE  SameModulo(HeldIn(Balances', id) + PendingIn(Burns', id)
                                 + neutralized'[id] + displaced'[id], Assets'[id].total_supply)
  BY Zenon DEF SupplyConservedModulo, Accounted, Held, HeldIn, Pending, PendingIn, PendingBurns,
     PendingOf
<1> DEFINE A == HeldIn(Balances, id) + PendingIn(Burns, id) + neutralized[id] + displaced[id]
           C == HeldIn(Balances', id) + PendingIn(Burns', id) + neutralized'[id] + displaced'[id]
<1>1. TypeOK /\ TypeOK' /\ UnapprovedUntouched /\ UnapprovedUntouched' /\ SupplyConserved'
  BY DEF SupplyInv
<1>2. id \in AssetIds /\ MaxU64 \in Int /\ U64 \subseteq Int
  BY <1>1, MaxU64Assumption DEF TypeOK, U64
<1>3. Assets'[id].total_supply \in Int
  BY <1>1, <1>2 DEF TypeOK, CarbonAsset
<1>4. CASE id \notin overflowed'
  <2>1. C = Assets'[id].total_supply
    BY <1>1, <1>4, Zenon DEF SupplyConserved, Accounted, Held, HeldIn, Pending, PendingIn,
       PendingBurns, PendingOf
  <2> HIDE DEF C
  <2>2. C - Assets'[id].total_supply = 0 * (MaxU64 + 1)
    BY <1>2, <1>3, <2>1
  <2>3. SameModulo(C, Assets'[id].total_supply)
    BY <1>3, <2>1, <2>2, SameModuloMultiple
  <2> QED
    BY <2>3 DEF C
<1>5. CASE id \in overflowed'
  <2>1. id \in DOMAIN Assets /\ Assets[id].status = 1
    <3>1. CASE id \in overflowed
      BY <1>1, <1>2, <3>1 DEF UnapprovedUntouched, has_asset
    <3>2. CASE id \notin overflowed
      <4>1. PICK i \in DOMAIN Issues : approve_issue(i)
        BY <1>5, <3>2, OnlyIssuesOverflow
      <4>2. id \notin ProjectIds
        BY <1>2 DEF ProjectIds, AssetIds
      <4>3. id = Issues[i].asset_id
        BY <1>1, <1>5, <3>2, <4>1, <4>2 DEF approve_issue, TypeOK
      <4>4. ApprovalChain
        BY DEF SupplyInv
      <4> QED
        BY <4>1, <4>3, <4>4 DEF ApprovalChain, has_asset
    <3> QED
      BY <3>1, <3>2
  <2>2. SameModulo(A, Assets[id].total_supply)
    BY <2>1, ModuloForm
  <2>3. InStep(A, Assets[id].total_supply, C, Assets'[id].total_supply)
    BY <1>1, <2>1, ModuloStep
  <2>4. A \in Int /\ Assets[id].total_supply \in Int
    <3>1. BurnMap(Burns) /\ Balances \in [AssetIds \X Accounts -> U64]
      BY <1>1 DEF TypeOK, BurnMap
    <3>2. /\ HeldIn(Balances, id) \in Nat /\ PendingIn(Burns, id) \in Nat
          /\ neutralized[id] \in Nat /\ displaced[id] \in Nat
      BY <1>1, <1>2, <3>1, HeldType, PendingFinite DEF TypeOK
    <3>3. Assets[id].total_supply \in Int
      BY <1>1, <1>2, <2>1 DEF TypeOK, CarbonAsset
    <3> QED
      BY <3>2, <3>3
  <2> HIDE DEF A, C
  <2>5. SameModulo(C, Assets'[id].total_supply)
    BY <2>2, <2>3, <2>4, SameModuloShift DEF InStep
  <2> QED
    BY <2>5 DEF C
<1> QED
  BY <1>4, <1>5

(* Even after a total_supply has wrapped around, what is held, pending,     *)
(* neutralized and displaced of every asset adds up to it modulo 2^64.      *)
THEOREM SupplyModuloCorrect == Spec => []SupplyConservedModulo
<1>1. Init => SupplyConservedModulo
  BY DEF Init, SupplyConservedModulo
<1>2. QED
  BY <1>1, ModuloNext, SupplyInvariant, PTL DEF Spec
-----------------------------------------------------------------------------
(* The approved issue requests of an asset as a sum over records. *)
IssueMap(I) == I \in [DOMAIN I -> IssueInfo] /\ IsFiniteSet(DOMAIN I)
IssueRecords(id) == {r \in IssueInfo : r.asset_id = id /\ r.status = 1}
IssuedIn(I, id) == SumOver(I, IssueRecords(id), "amount")

LEMMA IssuesSummable ==
  ASSUME NEW I, IssueMap(I)
  PROVE  AmountMap(I, "amount")
BY DEF IssueMap, AmountMap, IssueInfo

LEMMA IssuedIs ==
  ASSUME NEW I, IssueMap(I), NEW id
  PROVE  Total([i \in {i \in DOMAIN I : I[i].asset_id = id /\ I[i].status = 1} |-> I[i].amount])
           = IssuedIn(I, id)
<1>1. {i \in DOMAIN I : I[i] \in IssueRecords(id)}
        = {i \in DOMAIN I : I[i].asset_id = id /\ I[i].status = 1}
  BY DEF IssueRecords, IssueMap
<1> QED
  BY <1>1 DEF IssuedIn, SumOver

(* A request counts from its approval on, for its own asset. *)
LEMMA IssueCounted ==
  ASSUME TypeOK, TypeOK', NEW id, NEW i \in DOMAIN Issues, approve_issue(i)
  PROVE  IssuedIn(Issues', id)
           = IssuedIn(Issues, id) + (IF id = Issues[i].asset_id THEN Issues[i].amount ELSE 0)
<1> DEFINE K == IssueRecords(id)
<1>1. /\ Issues' = [Issues EXCEPT ![i].status = 1] /\ Issues[i].status = 0
      /\ Issues[i] \in IssueInfo /\ IssueMap(Issues) /\ IssueMap(Issues')
  BY DEF approve_issue, TypeOK, IssueMap
<1>2. AmountMap(Issues, "amount") /\ AmountMap(Issues', "amount") /\ SameBut(Issues, Issues', i)
  BY <1>1, IssuesSummable DEF SameBut
<1>3. PartOf(Issues, i, K, "amount") = 0
  BY <1>1 DEF PartOf, IssueRecords
<1>4. /\ i \in DOMAIN Issues' /\ Issues'[i] \in IssueInfo /\ Issues'[i].status = 1
      /\ Issues'[i].asset_id = Issues[i].asset_id /\ Issues'[i].amount = Issues[i].amount
  BY <1>1 DEF IssueInfo
<1>5. PartOf(Issues', i, K, "amount") = IF id = Issues[i].asset_id THEN Issues[i].amount ELSE 0
  BY <1>4 DEF PartOf, IssueRecords
<1> HIDE DEF K
<1>6. /\ SumOver(Issues, K, "amount") \in Nat /\ SumOver(Issues', K, "amount") \in Nat
      /\ PartOf(Issues', i, K, "amount") \in Nat
      /\ SumOver(Issues', K, "amount") + PartOf(Issues, i, K, "amount")
           = SumOver(Issues, K, "amount") + PartOf(Issues', i, K, "amount")
  BY <1>2, SumUpdate
<1>7. SumOver(Issues', K, "amount") = SumOver(Issues, K, "amount") + PartOf(Issues', i, K, "amount")
  BY <1>3, <1>6
<1> QED
  BY <1>5, <1>7 DEF IssuedIn, K

(* A new request is not approved. *)
LEMMA IssueRequested ==
  ASSUME TypeOK, TypeOK', NEW id, NEW s \in Signers, NEW x \in DOMAIN Assets,
         NEW n \in IssueAmounts, NEW t \in Texts, submit_issue(s, x, n, t)
  PROVE  IssuedIn(Issues', id) = IssuedIn(Issues, id)
<1> DEFINE K == IssueRecords(id)
           i == <<"issue", s, x, n, t>>
<1>1. /\ Issues' = Insert(Issues, i, [asset_id |-> x, amount |-> n, status |-> 0])
      /\ i \notin DOMAIN Issues /\ IssueMap(Issues) /\ IssueMap(Issues')
  BY DEF submit_issue, IssueExists, TypeOK, IssueMap
<1> HIDE DEF i
<1>2. DOMAIN Issues' = DOMAIN Issues \cup {i} /\ Issues'[i].status = 0
      /\ \A k \in DOMAIN Issues \ {i} : Issues'[k] = Issues[k]
  BY <1>1 DEF Insert
<1>3. AmountMap(Issues, "amount") /\ AmountMap(Issues', "amount") /\ SameBut(Issues, Issues', i)
  BY <1>1, <1>2, IssuesSummable DEF SameBut
<1>4. PartOf(Issues, i, K, "amount") = 0 /\ PartOf(Issues', i, K, "amount") = 0
  BY <1>1, <1>2 DEF PartOf, IssueRecords
<1> HIDE DEF K
<1>5. /\ SumOver(Issues, K, "amount") \in Nat /\ SumOver(Issues', K, "amount") \in Nat
      /\ SumOver(Issues', K, "amount") + PartOf(Issues, i, K, "amount")
           = SumOver(Issues, K, "amount") + PartOf(Issues', i, K, "amount")
  BY <1>3, SumUpdate
<1> QED
  BY <1>4, <1>5 DEF IssuedIn, K

LEMMA IssuesForm ==
  ASSUME TypeOK
  PROVE  IssuesAccounted <=>
    \A id \in DOMAIN Assets : (Assets[id].status = 1 /\ id \notin overflowed) =>
      Assets[id].total_supply + burned[id] = Assets[id].initial_supply + IssuedIn(Issues, id)
<1>1. IssueMap(Issues)
  BY DEF TypeOK, IssueMap
<1>2. \A id : Issued(id) = IssuedIn(Issues, id)
  BY <1>1, IssuedIs, Zenon DEF Issued, ApprovedIssues
<1> QED
  BY <1>2, Zenon DEF IssuesAccounted

(* Every approved issue request is in the supply of its asset, once. *)
LEMMA IssuesNext ==
  SupplyInv /\ SupplyInv' /\ IssuesAccounted /\ [Next]_vars => IssuesAccounted'
<1> SUFFICES ASSUME SupplyInv, SupplyInv', IssuesAccounted, [Next]_vars
             PROVE  IssuesAccounted'
  OBVIOUS
<1>a. TypeOK /\ TypeOK' /\ ApprovalChain /\ UnapprovedUntouched
  BY DEF SupplyInv
<1> SUFFICES ASSUME NEW id \in DOMAIN Assets', Assets'[id].status = 1, id \notin overflowed'
             PROVE  Assets'[id].total_supply + burned'[id]
                      = Assets'[id].initial_supply + IssuedIn(Issues', id)
  <2>1. IssueMap(Issues')
    BY <1>a DEF TypeOK, IssueMap
  <2>2. \A x : Issued(x)' = IssuedIn(Issues', x)
    BY <2>1, IssuedIs, Zenon DEF Issued, ApprovedIssues
  <2> QED
    BY <2>2, Zenon DEF IssuesAccounted
<1> USE CarbonAssumption
<1> DEFINE Goal == Assets'[id].total_supply + burned'[id]
                     = Assets'[id].initial_supply + IssuedIn(Issues', id)
           Past == Assets[id].total_supply + burned[id]
                     = Assets[id].initial_supply + IssuedIn(Issues, id)
<1>b. (id \in DOMAIN Assets /\ Assets[id].status = 1 /\ id \notin overflowed) => Past
  BY <1>a, IssuesForm
<1>c. id \in AssetIds /\ burned[id] \in Nat /\ burned'[id] \in Nat
  BY <1>a DEF TypeOK
<1>d. IssuedIn(Issues, id) \in Nat /\ IssuedIn(Issues', id) \in Nat
  <2>1. AmountMap(Issues, "amount") /\ AmountMap(Issues', "amount")
    BY <1>a, IssuesSummable DEF TypeOK, IssueMap
  <2> QED
    BY <2>1, SumBound DEF IssuedIn
<1>e. \A x \in DOMAIN Assets : Assets[x].total_supply \in Nat /\ Assets[x].initial_supply \in Nat
  BY <1>a, MaxU64Assumption DEF TypeOK, CarbonAsset, U64
<1>1. ASSUME UNCHANGED <<Assets, Issues, burned, overflowed>>
      PROVE  Goal
  BY <1>1, <1>b
<1>2. ASSUME NEW s \in Signers, NEW p \in DOMAIN Projects, NEW n \in InitialSupplies,
             NEW t \in Texts, submit_asset(s, p, n, t)
      PROVE  Goal
  <2>1. id \in DOMAIN Assets /\ Assets'[id] = Assets[id]
    BY <1>2 DEF submit_asset, Insert
  <2>2. UNCHANGED <<Issues, burned, overflowed>>
    BY <1>2 DEF submit_asset, history
  <2> QED
    BY <1>b, <2>1, <2>2
<1>3. ASSUME NEW x \in DOMAIN Assets, approve_asset(x)
      PROVE  Goal
  <2>1. UNCHANGED <<Issues, burned, overflowed>> /\ DOMAIN Assets' = DOMAIN Assets
    BY <1>3 DEF approve_asset, history
  <2>2. CASE id # x
    <3>1. Assets'[id] = Assets[id]
      BY <1>3, <2>2 DEF approve_asset
    <3> QED
      BY <1>b, <2>1, <3>1
  <2>3. CASE id = x
    <3>1. ~has_asset(id)
      BY <1>3, <2>3 DEF approve_asset, has_asset
    <3>2. burned[id] = 0
      BY <1>a, <1>c, <3>1 DEF UnapprovedUntouched
    <3>3. \A i \in DOMAIN Issues : Issues[i] \notin IssueRecords(id)
      BY <1>a, <3>1 DEF ApprovalChain, IssueRecords
    <3>4. IssuedIn(Issues, id) = 0
      <4>1. AmountMap(Issues, "amount")
        BY <1>a, IssuesSummable DEF TypeOK, IssueMap
      <4> QED
        BY <3>3, <4>1, SumBound DEF IssuedIn
    <3>5. /\ Assets'[id].total_supply = Assets[id].initial_supply
          /\ Assets'[id].initial_supply = Assets[id].initial_supply
      BY <1>3, <1>a, <2>3 DEF approve_asset, TypeOK, CarbonAsset
    <3> QED
      BY <2>1, <3>2, <3>4, <3>5
  <2> QED
    BY <2>2, <2>3
<1>4. ASSUME NEW s \in Signers, NEW x \in DOMAIN Assets, NEW n \in IssueAmounts,
             NEW t \in Texts, submit_issue(s, x, n, t)
      PROVE  Goal
  <2>1. IssuedIn(Issues', id) = IssuedIn(Issues, id)
    BY <1>4, <1>a, IssueRequested
  <2>2. UNCHANGED <<Assets, burned, overflowed>>
    BY <1>4 DEF submit_issue, history
  <2> QED
    BY <1>b, <2>1, <2>2
<1>5. ASSUME NEW i \in DOMAIN Issues, approve_issue(i)
      PROVE  Goal
  <2>1. PICK x \in DOMAIN Assets, n \in U64 :
          /\ x = Issues[i].asset_id /\ n = Issues[i].amount
          /\ Assets' = [Assets EXCEPT ![x].total_supply = WrapAdd(@, n)]
    BY <1>5, <1>a DEF approve_issue, TypeOK, IssueInfo
  <2>2. /\ IssuedIn(Issues', id) = IssuedIn(Issues, id) + (IF id = x THEN n ELSE 0)
        /\ burned' = burned /\ id \in DOMAIN Assets /\ id \notin overflowed
        /\ Assets'[id].initial_supply = Assets[id].initial_supply
        /\ Assets'[id].status = Assets[id].status
    <3>1. IssuedIn(Issues', id) = IssuedIn(Issues, id) + (IF id = x THEN n ELSE 0)
      BY <1>5, <1>a, <2>1, IssueCounted
    <3>2. burned' = burned /\ id \notin overflowed
      BY <1>5 DEF approve_issue
    <3> QED
      BY <1>a, <2>1, <3>1, <3>2 DEF TypeOK, CarbonAsset
  <2>3. CASE id # x
    <3>1. Assets'[id] = Assets[id]
      BY <2>1, <2>2, <2>3
    <3> QED
      BY <1>b, <1>d, <2>2, <2>3, <3>1
  <2>4. CASE id = x
    <3>1. Assets[id].total_supply \in Nat /\ Assets[id].initial_supply \in Nat /\ n \in Nat
      BY <1>e, <2>2, MaxU64Assumption DEF U64
    <3>2. ~(Assets[id].total_supply + n > MaxU64)
      BY <1>5, <2>1, <2>4 DEF approve_issue
    <3>3. Assets'[id].total_supply = Assets[id].total_supply + n
      BY <1>a, <2>1, <2>4, <3>2 DEF WrapAdd, TypeOK, CarbonAsset
    <3> QED
      BY <1>b, <1>c, <1>d, <2>2, <2>4, <3>1, <3>3
  <2> QED
    BY <2>3, <2>4
<1>6. ASSUME NEW b \in DOMAIN Burns, approve_burn(b)
      PROVE  Goal
  <2>1. PICK x \in DOMAIN Assets, n \in U64 :
          /\ x = Burns[b].asset_id /\ n = Burns[b].amount /\ Burns[b].status = 0
          /\ Assets' = [Assets EXCEPT ![x].total_supply = WrapSub(@, n)]
          /\ burned' = [burned EXCEPT ![x] = @ + n]
    BY <1>6, <1>a DEF approve_burn, TypeOK, BurnInfo
  <2>2. /\ IssuedIn(Issues', id) = IssuedIn(Issues, id)
        /\ id \in DOMAIN Assets /\ id \notin overflowed
        /\ Assets'[id].initial_supply = Assets[id].initial_supply
        /\ Assets'[id].status = Assets[id].status
    <3>1. Issues' = Issues /\ overflowed' = overflowed
      BY <1>6 DEF approve_burn
    <3> QED
      BY <1>a, <2>1, <3>1 DEF TypeOK, CarbonAsset
  <2>3. CASE id # x
    <3>1. Assets'[id] = Assets[id] /\ burned'[id] = burned[id]
      BY <1>a, <1>c, <2>1, <2>2, <2>3 DEF TypeOK
    <3> QED
      BY <1>b, <2>2, <3>1
  <2>4. CASE id = x
    <3>1. Assets[id].total_supply \in Nat /\ Assets[id].initial_supply \in Nat /\ n \in Nat
      BY <1>e, <2>2, MaxU64Assumption DEF U64
    <3>2. n <= Assets[id].total_supply
      BY <2>1, <2>2, <2>4, PendingCovered DEF BurnsCovered
    <3>3. Assets'[id].total_supply = WrapSub(Assets[id].total_supply, n)
      BY <1>a, <2>1, <2>4 DEF TypeOK, CarbonAsset
    <3>4. Assets'[id].total_supply = Assets[id].total_supply - n
      BY <3>1, <3>2, <3>3 DEF WrapSub
    <3>5. burned'[id] = burned[id] + n
      BY <1>a, <1>c, <2>1, <2>4 DEF TypeOK
    <3> QED
      BY <1>b, <1>c, <1>d, <2>2, <3>1, <3>4, <3>5
  <2> QED
    BY <2>3, <2>4
<1> QED
  <2>1. ASSUME NEW s, NEW m, NEW t, submit_project(s, m, t)
        PROVE  Goal
    BY <1>1, <2>1 DEF submit_project, history
  <2>2. ASSUME NEW p, approve_project(p)
        PROVE  Goal
    BY <1>1, <2>2 DEF approve_project, history
  <2>3. ASSUME NEW s, NEW x, NEW n, NEW t, submit_burn(s, x, n, t)
        PROVE  Goal
    BY <1>1, <2>3 DEF submit_burn
  <2>4. ASSUME NEW s, NEW x, NEW to, NEW n, transfer(s, x, to, n)
        PROVE  Goal
    BY <1>1, <2>4 DEF transfer, history
  <2>5. ASSUME NEW s, NEW x, NEW n, neutralize(s, x, n)
        PROVE  Goal
    BY <1>1, <2>5 DEF neutralize
  <2>6. UNCHANGED vars => Goal
    BY <1>1 DEF vars, carbonVars, history
  <2> HIDE DEF Goal
  <2>7. Goal
    BY <1>2, <1>3, <1>4, <1>5, <1>6, <2>1, <2>2, <2>3, <2>4, <2>5, <2>6
       DEF Next, Requests, approve
  <2> QED
    BY <2>7 DEF Goal

(* The records explain the supply: an approved asset's total_supply is its  *)
(* initial supply, plus every approved issue request once, less what was    *)
(* burned.                                                                  *)
THEOREM IssuesCorrect == Spec => []IssuesAccounted
<1>1. Init => IssuesAccounted
  BY DEF Init, IssuesAccounted
<1>2. QED
  BY <1>1, IssuesNext, SupplyInvariant, PTL DEF Spec
-----------------------------------------------------------------------------
(* The supply of a project's approved assets, and their initial supply, as  *)
(* sums over records.                                                       *)
AssetMap(A) == A \in [DOMAIN A -> CarbonAsset] /\ IsFiniteSet(DOMAIN A)
AssetRecords(p) == {r \in CarbonAsset : r.project_id = p /\ r.status = 1}
SupplyIn(A, p) == SumOver(A, AssetRecords(p), "total_supply")
InitialIn(A, p) == SumOver(A, AssetRecords(p), "initial_supply")
Counts(A, x, p) == x \in DOMAIN A /\ A[x].project_id = p /\ A[x].status = 1

LEMMA AssetsSummable ==
  ASSUME NEW A, AssetMap(A)
  PROVE  AmountMap(A, "total_supply") /\ AmountMap(A, "initial_supply")
BY DEF AssetMap, AmountMap, CarbonAsset

LEMMA ProjectSumsAre ==
  ASSUME NEW A, AssetMap(A), NEW p
  PROVE  LET approved == {id \in DOMAIN A : A[id].project_id = p /\ A[id].status = 1} IN
         /\ Total([id \in approved |-> A[id].total_supply]) = SupplyIn(A, p)
         /\ Total([id \in approved |-> A[id].initial_supply]) = InitialIn(A, p)
<1>1. {id \in DOMAIN A : A[id] \in AssetRecords(p)}
        = {id \in DOMAIN A : A[id].project_id = p /\ A[id].status = 1}
  BY DEF AssetRecords, AssetMap
<1> QED
  BY <1>1 DEF SupplyIn, InitialIn, SumOver

(* What one asset changes in the two sums, from A to C. *)
ProjectMoves(A, C, x, p) ==
  /\ SupplyIn(A, p) \in Nat /\ SupplyIn(C, p) \in Nat
  /\ InitialIn(A, p) \in Nat /\ InitialIn(C, p) \in Nat
  /\ SupplyIn(C, p) + (IF Counts(A, x, p) THEN A[x].total_supply ELSE 0)
       = SupplyIn(A, p) + (IF Counts(C, x, p) THEN C[x].total_supply ELSE 0)
  /\ InitialIn(C, p) + (IF Counts(A, x, p) THEN A[x].initial_supply ELSE 0)
       = InitialIn(A, p) + (IF Counts(C, x, p) THEN C[x].initial_supply ELSE 0)

LEMMA ProjectSumsMove ==
  ASSUME NEW A, AssetMap(A), NEW C, AssetMap(C), NEW x, SameBut(A, C, x), NEW p
  PROVE  ProjectMoves(A, C, x, p)
<1> DEFINE K == AssetRecords(p)
<1>1. /\ AmountMap(A, "total_supply") /\ AmountMap(A, "initial_supply")
      /\ AmountMap(C, "total_supply") /\ AmountMap(C, "initial_supply")
  BY AssetsSummable
<1>2. /\ PartOf(A, x, K, "total_supply") = IF Counts(A, x, p) THEN A[x].total_supply ELSE 0
      /\ PartOf(C, x, K, "total_supply") = IF Counts(C, x, p) THEN C[x].total_supply ELSE 0
      /\ PartOf(A, x, K, "initial_supply") = IF Counts(A, x, p) THEN A[x].initial_supply ELSE 0
      /\ PartOf(C, x, K, "initial_supply") = IF Counts(C, x, p) THEN C[x].initial_supply ELSE 0
  BY DEF PartOf, Counts, AssetRecords, AssetMap
<1> HIDE DEF K
<1>3. /\ SumOver(A, K, "total_supply") \in Nat /\ SumOver(C, K, "total_supply") \in Nat
      /\ SumOver(C, K, "total_supply") + PartOf(A, x, K, "total_supply")
           = SumOver(A, K, "total_supply") + PartOf(C, x, K, "total_supply")
  BY <1>1, SumUpdate
<1>4. /\ SumOver(A, K, "initial_supply") \in Nat /\ SumOver(C, K, "initial_supply") \in Nat
      /\ SumOver(C, K, "initial_supply") + PartOf(A, x, K, "initial_supply")
           = SumOver(A, K, "initial_supply") + PartOf(C, x, K, "initial_supply")
  BY <1>1, SumUpdate
<1>5. /\ SupplyIn(A, p) = SumOver(A, K, "total_supply")
      /\ SupplyIn(C, p) = SumOver(C, K, "total_supply")
      /\ InitialIn(A, p) = SumOver(A, K, "initial_supply")
      /\ InitialIn(C, p) = SumOver(C, K, "initial_supply")
  BY DEF SupplyIn, InitialIn, K
<1> QED
  BY <1>2, <1>3, <1>4, <1>5 DEF ProjectMoves

(* A u64 counter that follows the number net: it never exceeds max, and it  *)
(* is net up to a multiple of 2^64.                                         *)
Follows(counter, net, max) ==
  /\ net <= max
  /\ \E k \in Int : net = k * (MaxU64 + 1) + counter

LEMMA FollowsIs ==
  ASSUME NEW net \in Int, NEW T \in U64, NEW max
  PROVE  (net <= max /\ T = net % (MaxU64 + 1)) <=> Follows(T, net, max)
<1> DEFINE m == MaxU64 + 1
<1>1. m \in Nat /\ m > 0 /\ T \in 0 .. (m - 1)
  BY MaxU64Assumption DEF U64
<1> HIDE DEF m
<1>2. T = net % m => \E k \in Int : net = k * m + T
  BY <1>1, Division
<1>3. (\E k \in Int : net = k * m + T) => T = net % m
  BY <1>1, Remainder
<1> QED
  BY <1>2, <1>3 DEF Follows, m

(* The net supply falls by n, and so does the counter, which may wrap. *)
LEMMA FollowsDown ==
  ASSUME NEW net \in Int, NEW T \in U64, NEW max \in U64, Follows(T, net, max), NEW n \in U64
  PROVE  Follows(WrapSub(T, n), net - n, max)
<1>1. n \in Nat /\ T \in Nat /\ max \in Nat /\ MaxU64 \in Nat
  BY MaxU64Assumption DEF U64
<1>2. net - n <= max
  BY <1>1 DEF Follows
<1>3. PICK k \in Int : net = k * (MaxU64 + 1) + T
  BY DEF Follows
<1>4. PICK j \in Int : WrapSub(T, n) = T - n + j * (MaxU64 + 1)
  BY WrapMultiple
<1>5. PICK J \in Int, K \in Int : J = j * (MaxU64 + 1) /\ K = k * (MaxU64 + 1)
  BY <1>1
<1>7. (k - j) * (MaxU64 + 1) = k * (MaxU64 + 1) - j * (MaxU64 + 1)
  BY Multiples, Zenon
<1>8. (k - j) * (MaxU64 + 1) = K - J
  BY <1>5, <1>7, Zenon
<1>9. WrapSub(T, n) = T - n + J /\ net = K + T
  BY <1>3, <1>4, <1>5
<1>10. net - n = (K - J) + WrapSub(T, n)
  BY <1>1, <1>5, <1>9
<1>11. k - j \in Int /\ net - n = (k - j) * (MaxU64 + 1) + WrapSub(T, n)
  BY <1>8, <1>10
<1> QED
  BY <1>2, <1>11 DEF Follows

(* The net supply rises by n within the limit that the code checks on the   *)
(* counter.                                                                 *)
LEMMA FollowsUp ==
  ASSUME NEW net \in Int, NEW T \in U64, NEW max \in U64, Follows(T, net, max), NEW n \in U64,
         T + n <= max
  PROVE  Follows(T + n, net + n, max)
<1> DEFINE m == MaxU64 + 1
<1>1. n \in Nat /\ T \in Nat /\ max \in Nat /\ max < m /\ m \in Nat /\ m > 0
  BY MaxU64Assumption DEF U64
<1>2. net <= max
  BY DEF Follows
<1>3. PICK k \in Int : net = k * m + T
  BY DEF Follows
<1> HIDE DEF m
<1>4. k * m <= 0
  <2>1. CASE k >= 1
    <3>1. k * m >= m
      BY <1>1, <2>1
    <3>2. k * m \in Int
      BY <1>1
    <3> QED
      BY <1>1, <1>2, <1>3, <3>1, <3>2
  <2>2. CASE k <= 0
    BY <1>1, <2>2
  <2> QED
    BY <2>1, <2>2
<1>5. PICK K \in Int : K = k * m
  BY <1>1
<1>6. net + n <= max /\ net + n = K + (T + n)
  BY <1>1, <1>3, <1>4, <1>5
<1>7. net + n = k * m + (T + n)
  BY <1>5, <1>6
<1> QED
  BY <1>6, <1>7 DEF Follows, m

(* What ProjectSupplyTracks says of one project. *)
Sound(A, over, p) == p \notin over /\ \A id \in over : ~Counts(A, id, p)
Tracks(A, project, p) ==
  Follows(project.total_supply, SupplyIn(A, p) - InitialIn(A, p), project.max_supply)

Stated(A, over, project, p) ==
  LET approved == {id \in DOMAIN A : A[id].project_id = p /\ A[id].status = 1}
      net == Total([id \in approved |-> A[id].total_supply])
               - Total([id \in approved |-> A[id].initial_supply])
  IN ({p} \cup approved) \cap over = {} =>
       net <= project.max_supply /\ project.total_supply = net % (MaxU64 + 1)

LEMMA TracksForm ==
  ASSUME NEW A, AssetMap(A), NEW project \in CarbonProject, NEW over, NEW p
  PROVE  Stated(A, over, project, p) <=> (Sound(A, over, p) => Tracks(A, project, p))
<1> DEFINE approved == {id \in DOMAIN A : A[id].project_id = p /\ A[id].status = 1}
           net == SupplyIn(A, p) - InitialIn(A, p)
<1>1. /\ Total([id \in approved |-> A[id].total_supply]) = SupplyIn(A, p)
      /\ Total([id \in approved |-> A[id].initial_supply]) = InitialIn(A, p)
  BY ProjectSumsAre
<1>2. Sound(A, over, p) <=> ({p} \cup approved) \cap over = {}
  BY DEF Sound, Counts
<1>3. net \in Int
  <2>1. SupplyIn(A, p) \in Nat /\ InitialIn(A, p) \in Nat
    BY AssetsSummable, SumBound DEF SupplyIn, InitialIn
  <2> QED
    BY <2>1
<1>4. project.total_supply \in U64
  BY DEF CarbonProject
<1>5. (net <= project.max_supply /\ project.total_supply = net % (MaxU64 + 1)) <=> Tracks(A, project, p)
  <2> HIDE DEF net
  <2>1. (net <= project.max_supply /\ project.total_supply = net % (MaxU64 + 1))
          <=> Follows(project.total_supply, net, project.max_supply)
    BY <1>3, <1>4, FollowsIs
  <2> QED
    BY <2>1, Zenon DEF Tracks, net
<1> HIDE DEF approved
<1>6. (({p} \cup approved) \cap over = {} =>
         net <= project.max_supply /\ project.total_supply = net % (MaxU64 + 1))
      <=> (Sound(A, over, p) => Tracks(A, project, p))
  BY <1>2, <1>5, Zenon
<1> QED
  BY <1>1, <1>6, Zenon DEF Stated, approved, net
LEMMA ProjectForm ==
  ASSUME TypeOK
  PROVE  ProjectSupplyTracks <=>
           \A p \in DOMAIN Projects :
             Sound(Assets, overflowed, p) => Tracks(Assets, Projects[p], p)
<1>1. AssetMap(Assets) /\ \A p \in DOMAIN Projects : Projects[p] \in CarbonProject
  BY DEF TypeOK, AssetMap
<1>2. \A p \in DOMAIN Projects : Stated(Assets, overflowed, Projects[p], p)
        <=> (Sound(Assets, overflowed, p) => Tracks(Assets, Projects[p], p))
  BY <1>1, TracksForm, Zenon
<1>3. ProjectSupplyTracks <=>
        \A p \in DOMAIN Projects : Stated(Assets, overflowed, Projects[p], p)
  BY Zenon DEF ProjectSupplyTracks, Stated, Supply, Initial, ApprovedAssets
<1> QED
  BY <1>2, <1>3, Zenon

(* A project stays sound backwards: an approved asset stays approved, and   *)
(* what has overflowed stays recorded.                                      *)
LEMMA SoundBefore ==
  ASSUME TypeOK, [Next]_vars, NEW p, Sound(Assets', overflowed', p)
  PROVE  Sound(Assets, overflowed, p)
<1> DEFINE Goal == /\ overflowed \subseteq overflowed'
                   /\ \A x : Counts(Assets, x, p) => Counts(Assets', x, p)
<1> SUFFICES Goal
  BY DEF Sound
<1>1. ASSUME UNCHANGED <<Assets, overflowed>>
      PROVE  Goal
  BY <1>1
<1>2. ASSUME NEW s, NEW m, NEW t, submit_project(s, m, t) PROVE Goal
  BY <1>1, <1>2 DEF submit_project, history
<1>3. ASSUME NEW q, approve_project(q) PROVE Goal
  BY <1>1, <1>3 DEF approve_project, history
<1>4. ASSUME NEW s, NEW q, NEW n, NEW t, submit_asset(s, q, n, t) PROVE Goal
  BY <1>4 DEF submit_asset, Insert, history, Counts
<1>5. ASSUME NEW x, approve_asset(x) PROVE Goal
  <2>1. /\ overflowed' = overflowed /\ DOMAIN Assets' = DOMAIN Assets
        /\ x \in DOMAIN Assets /\ Assets[x].status = 0
        /\ \A y \in DOMAIN Assets : y # x => Assets'[y] = Assets[y]
    BY <1>5 DEF approve_asset, history
  <2> QED
    BY <2>1 DEF Counts
<1>6. ASSUME NEW s, NEW x, NEW n, NEW t, submit_issue(s, x, n, t) PROVE Goal
  BY <1>1, <1>6 DEF submit_issue, history
<1>7. ASSUME NEW i, approve_issue(i) PROVE Goal
  <2>1. /\ overflowed \subseteq overflowed' /\ DOMAIN Assets' = DOMAIN Assets
        /\ \A y \in DOMAIN Assets : /\ Assets'[y].project_id = Assets[y].project_id
                                    /\ Assets'[y].status = Assets[y].status
    BY <1>7 DEF approve_issue, TypeOK, CarbonAsset
  <2> QED
    BY <2>1 DEF Counts
<1>8. ASSUME NEW s, NEW x, NEW n, NEW t, submit_burn(s, x, n, t) PROVE Goal
  BY <1>1, <1>8 DEF submit_burn
<1>9. ASSUME NEW b, approve_burn(b) PROVE Goal
  <2>1. /\ overflowed' = overflowed /\ DOMAIN Assets' = DOMAIN Assets
        /\ \A y \in DOMAIN Assets : /\ Assets'[y].project_id = Assets[y].project_id
                                    /\ Assets'[y].status = Assets[y].status
    BY <1>9 DEF approve_burn, TypeOK, CarbonAsset
  <2> QED
    BY <2>1 DEF Counts
<1>10. ASSUME NEW s, NEW x, NEW to, NEW n, transfer(s, x, to, n) PROVE Goal
  BY <1>1, <1>10 DEF transfer, history
<1>11. ASSUME NEW s, NEW x, NEW n, neutralize(s, x, n) PROVE Goal
  BY <1>1, <1>11 DEF neutralize
<1>12. UNCHANGED vars => Goal
  BY <1>1 DEF vars, carbonVars, history
<1> HIDE DEF Goal
<1> QED
  BY <1>2, <1>3, <1>4, <1>5, <1>6, <1>7, <1>8, <1>9, <1>10, <1>11, <1>12
     DEF Next, Requests, approve

(* Every action that moves a project's total_supply moves the supply of its *)
(* assets less their initial supplies by as much.                           *)
LEMMA ProjectNext ==
  SupplyInv /\ SupplyInv' /\ ProjectSupplyTracks /\ [Next]_vars => ProjectSupplyTracks'
<1> SUFFICES ASSUME SupplyInv, SupplyInv', ProjectSupplyTracks, [Next]_vars
             PROVE  ProjectSupplyTracks'
  OBVIOUS
<1>a. TypeOK /\ TypeOK' /\ ApprovalChain /\ AssetMap(Assets) /\ AssetMap(Assets')
  BY DEF SupplyInv, TypeOK, AssetMap
<1> SUFFICES ASSUME NEW p \in DOMAIN Projects', Sound(Assets', overflowed', p)
             PROVE  Tracks(Assets', Projects'[p], p)
  <2>1. \A q \in DOMAIN Projects' : Projects'[q] \in CarbonProject
    BY <1>a DEF TypeOK
  <2>2. \A q \in DOMAIN Projects' : Stated(Assets', overflowed', Projects'[q], q)
          <=> (Sound(Assets', overflowed', q) => Tracks(Assets', Projects'[q], q))
    BY <1>a, <2>1, TracksForm, Zenon
  <2>3. ProjectSupplyTracks' <=>
          \A q \in DOMAIN Projects' : Stated(Assets', overflowed', Projects'[q], q)
    BY Zenon DEF ProjectSupplyTracks, Stated, Supply, Initial, ApprovedAssets
  <2> QED
    BY <2>2, <2>3, Zenon
<1> USE CarbonAssumption
<1> DEFINE S == SupplyIn(Assets, p)
           I == InitialIn(Assets, p)
           Goal == Tracks(Assets', Projects'[p], p)
<1>b. Sound(Assets, overflowed, p)
  BY <1>a, SoundBefore
<1>c. p \in DOMAIN Projects => Follows(Projects[p].total_supply, S - I, Projects[p].max_supply)
  BY <1>a, <1>b, ProjectForm DEF Tracks
<1>d. \A A, C, x : AssetMap(A) /\ AssetMap(C) /\ SameBut(A, C, x) => ProjectMoves(A, C, x, p)
  BY ProjectSumsMove
<1>e. S \in Nat /\ I \in Nat
  BY <1>a, AssetsSummable, SumBound DEF SupplyIn, InitialIn
<1>f. /\ \A x \in DOMAIN Assets : Assets[x].total_supply \in Nat /\ Assets[x].initial_supply \in Nat
      /\ MaxU64 \in Nat /\ \A n \in U64 : n \in Nat /\ n <= MaxU64
  BY <1>a, MaxU64Assumption DEF TypeOK, CarbonAsset, U64
<1>g. p \in DOMAIN Projects => Projects[p].total_supply \in U64 /\ Projects[p].max_supply \in U64
  BY <1>a DEF TypeOK, CarbonProject
<1> HIDE DEF S, I
<1>0. ASSUME p \in DOMAIN Projects, NEW n \in Nat,
             SupplyIn(Assets', p) = S + n, InitialIn(Assets', p) = I + n,
             Projects'[p].total_supply = Projects[p].total_supply,
             Projects'[p].max_supply = Projects[p].max_supply
      PROVE  Goal
  <2>1. (S + n) - (I + n) = S - I
    BY <1>e
  <2> QED
    BY <1>0, <1>c, <2>1 DEF Tracks
<1>1. ASSUME Assets' = Assets, p \in DOMAIN Projects,
             Projects'[p].total_supply = Projects[p].total_supply,
             Projects'[p].max_supply = Projects[p].max_supply
      PROVE  Goal
  BY <1>1, <1>c DEF Tracks, S, I
<1>2. ASSUME NEW s \in Signers, NEW m \in MaxSupplies, NEW t \in Texts, submit_project(s, m, t)
      PROVE  Goal
  <2>1. Assets' = Assets
    BY <1>2 DEF submit_project
  <2>2. CASE p \in DOMAIN Projects
    BY <1>1, <1>2, <2>1, <2>2 DEF submit_project, Insert
  <2>3. CASE p \notin DOMAIN Projects
    <3>1. \A x \in DOMAIN Assets : Assets[x] \notin AssetRecords(p)
      BY <1>a, <2>3 DEF ApprovalChain, AssetRecords
    <3>2. S = 0 /\ I = 0
      BY <1>a, <3>1, AssetsSummable, SumBound DEF S, I, SupplyIn, InitialIn
    <3>3. Projects'[p].total_supply = 0 /\ Projects'[p].max_supply = m
      BY <1>2, <2>3 DEF submit_project, Insert
    <3>4. 0 - 0 <= m /\ 0 - 0 = 0 * (MaxU64 + 1) + 0
      BY <1>f
    <3>5. Follows(0, 0 - 0, m)
      BY <3>4 DEF Follows
    <3> QED
      BY <2>1, <3>2, <3>3, <3>5 DEF Tracks, S, I
  <2> QED
    BY <2>2, <2>3
<1>3. ASSUME NEW q \in DOMAIN Projects, approve_project(q)
      PROVE  Goal
  <2>1. /\ Assets' = Assets /\ p \in DOMAIN Projects
        /\ Projects'[p].total_supply = Projects[p].total_supply
        /\ Projects'[p].max_supply = Projects[p].max_supply
    BY <1>3, <1>a DEF approve_project, TypeOK, CarbonProject
  <2> QED
    BY <1>1, <2>1
<1>4. ASSUME NEW s \in Signers, NEW q \in DOMAIN Projects, NEW n \in InitialSupplies,
             NEW t \in Texts, submit_asset(s, q, n, t)
      PROVE  Goal
  <2> DEFINE x == <<"asset", s, q, n, t>>
  <2>1. /\ x \notin DOMAIN Assets /\ Projects' = Projects
        /\ DOMAIN Assets' = DOMAIN Assets \cup {x} /\ Assets'[x].status = 0
        /\ \A k \in DOMAIN Assets \ {x} : Assets'[k] = Assets[k]
    BY <1>4 DEF submit_asset, Insert
  <2> HIDE DEF x
  <2>2. ~Counts(Assets, x, p) /\ ~Counts(Assets', x, p) /\ SameBut(Assets, Assets', x)
    BY <2>1 DEF Counts, SameBut
  <2>3. ProjectMoves(Assets, Assets', x, p)
    BY <1>a, <1>d, <2>2
  <2>4. SupplyIn(Assets', p) = S + 0 /\ InitialIn(Assets', p) = I + 0
    BY <2>2, <2>3 DEF ProjectMoves, S, I
  <2> QED
    BY <1>0, <2>1, <2>4
<1>5. ASSUME NEW x \in DOMAIN Assets, approve_asset(x)
      PROVE  Goal
  <2>1. PICK n \in Nat : n = Assets[x].initial_supply
    BY <1>f
  <2>2. /\ Projects' = Projects /\ Assets[x].status = 0
        /\ DOMAIN Assets' = DOMAIN Assets /\ Assets'[x].status = 1
        /\ Assets'[x].total_supply = n /\ Assets'[x].initial_supply = n
        /\ Assets'[x].project_id = Assets[x].project_id
        /\ \A k \in DOMAIN Assets \ {x} : Assets'[k] = Assets[k]
    BY <1>5, <1>a, <2>1 DEF approve_asset, TypeOK, CarbonAsset
  <2>3. ~Counts(Assets, x, p) /\ SameBut(Assets, Assets', x)
    BY <2>2 DEF Counts, SameBut
  <2>4. ProjectMoves(Assets, Assets', x, p)
    BY <1>a, <1>d, <2>3
  <2>5. CASE Counts(Assets', x, p)
    <3>1. SupplyIn(Assets', p) = S + n /\ InitialIn(Assets', p) = I + n
      BY <2>2, <2>3, <2>4, <2>5 DEF ProjectMoves, S, I
    <3> QED
      BY <1>0, <2>2, <3>1
  <2>6. CASE ~Counts(Assets', x, p)
    <3>1. SupplyIn(Assets', p) = S + 0 /\ InitialIn(Assets', p) = I + 0
      BY <2>3, <2>4, <2>6 DEF ProjectMoves, S, I
    <3> QED
      BY <1>0, <2>2, <3>1
  <2> QED
    BY <2>5, <2>6
<1>6. ASSUME NEW i \in DOMAIN Issues, approve_issue(i)
      PROVE  Goal
  <2>1. PICK x \in DOMAIN Assets, q \in DOMAIN Projects, n \in U64 :
          /\ x = Issues[i].asset_id /\ n = Issues[i].amount /\ q = Assets[x].project_id
          /\ Assets' = [Assets EXCEPT ![x].total_supply = WrapAdd(@, n)]
          /\ Projects' = [Projects EXCEPT ![q].total_supply = WrapAdd(@, n)]
          /\ WithinLimit(Projects[q], n)
    BY <1>6, <1>a DEF approve_issue, TypeOK, IssueInfo
  <2>2. /\ Assets[x].status = 1 /\ DOMAIN Assets' = DOMAIN Assets
        /\ Assets'[x].status = 1 /\ Assets'[x].project_id = q
        /\ Assets'[x].initial_supply = Assets[x].initial_supply
        /\ \A k \in DOMAIN Assets \ {x} : Assets'[k] = Assets[k]
    BY <1>a, <2>1 DEF ApprovalChain, has_asset, TypeOK, CarbonAsset
  <2>3. SameBut(Assets, Assets', x)
    BY <2>2 DEF SameBut
  <2>4. ProjectMoves(Assets, Assets', x, p)
    BY <1>a, <1>d, <2>3
  <2>5. p \in DOMAIN Projects /\ Projects'[p].max_supply = Projects[p].max_supply
    BY <1>a, <2>1 DEF TypeOK, CarbonProject
  <2>6. CASE q # p
    <3>1. ~Counts(Assets, x, p) /\ ~Counts(Assets', x, p)
      BY <2>1, <2>2, <2>6 DEF Counts
    <3>2. SupplyIn(Assets', p) = S + 0 /\ InitialIn(Assets', p) = I + 0
      BY <2>4, <3>1 DEF ProjectMoves, S, I
    <3>3. Projects'[p].total_supply = Projects[p].total_supply
      BY <2>1, <2>5, <2>6
    <3> QED
      BY <1>0, <2>5, <3>2, <3>3
  <2>7. CASE q = p
    <3>1. Counts(Assets, x, p) /\ Counts(Assets', x, p)
      BY <2>1, <2>2, <2>7 DEF Counts
    <3>2. x \notin overflowed' /\ p \notin overflowed'
      BY <3>1 DEF Sound
    <3>3. /\ ~(Projects[p].total_supply + n > MaxU64)
          /\ ~(Assets[x].total_supply + n > MaxU64)
      BY <1>6, <2>1, <2>7, <3>2 DEF approve_issue
    <3>4. Assets'[x].total_supply = Assets[x].total_supply + n
      BY <1>a, <2>1, <3>3 DEF WrapAdd, TypeOK, CarbonAsset
    <3>5. Projects'[p].total_supply = Projects[p].total_supply + n
      BY <1>a, <2>1, <2>7, <3>3 DEF WrapAdd, TypeOK, CarbonProject
    <3>6. n \in Nat /\ Assets[x].total_supply \in Nat /\ Assets[x].initial_supply \in Nat
      BY <1>f
    <3>7. SupplyIn(Assets', p) = S + n /\ InitialIn(Assets', p) = I
      BY <1>e, <2>2, <2>4, <3>1, <3>4, <3>6 DEF ProjectMoves, S, I
    <3>8. PICK T \in U64, max \in U64 :
            T = Projects[p].total_supply /\ max = Projects[p].max_supply
      BY <1>g, <2>5
    <3>9. T + n <= max
      <4>1. T \in Nat /\ max \in Nat
        BY <1>f
      <4>2. n + T <= MaxU64
        BY <1>f, <3>3, <3>6, <3>8, <4>1
      <4>3. WrapAdd(n, T) <= max
        BY <2>1, <2>7, <3>8 DEF WithinLimit
      <4> QED
        BY <1>f, <3>6, <4>1, <4>2, <4>3 DEF WrapAdd
    <3>10. Follows(T, S - I, max) /\ S - I \in Int
      BY <1>c, <1>e, <2>5, <3>8
    <3>11. Follows(T + n, (S - I) + n, max)
      BY <3>9, <3>10, FollowsUp
    <3>12. (S - I) + n = (S + n) - I
      BY <1>e, <3>6
    <3> QED
      BY <2>5, <3>5, <3>7, <3>8, <3>11, <3>12 DEF Tracks
  <2> QED
    BY <2>6, <2>7
<1>7. ASSUME NEW b \in DOMAIN Burns, approve_burn(b)
      PROVE  Goal
  <2>1. PICK x \in DOMAIN Assets, q \in DOMAIN Projects, n \in U64 :
          /\ x = Burns[b].asset_id /\ n = Burns[b].amount /\ q = Assets[x].project_id
          /\ Burns[b].status = 0
          /\ Assets' = [Assets EXCEPT ![x].total_supply = WrapSub(@, n)]
          /\ Projects' = [Projects EXCEPT ![q].total_supply = WrapSub(@, n)]
    BY <1>7, <1>a DEF approve_burn, TypeOK, BurnInfo
  <2>2. /\ Assets[x].status = 1 /\ DOMAIN Assets' = DOMAIN Assets
        /\ Assets'[x].status = 1 /\ Assets'[x].project_id = q
        /\ Assets'[x].initial_supply = Assets[x].initial_supply
        /\ \A k \in DOMAIN Assets \ {x} : Assets'[k] = Assets[k]
    BY <1>a, <2>1 DEF ApprovalChain, has_asset, TypeOK, CarbonAsset
  <2>3. SameBut(Assets, Assets', x)
    BY <2>2 DEF SameBut
  <2>4. ProjectMoves(Assets, Assets', x, p)
    BY <1>a, <1>d, <2>3
  <2>5. p \in DOMAIN Projects /\ Projects'[p].max_supply = Projects[p].max_supply
    BY <1>a, <2>1 DEF TypeOK, CarbonProject
  <2>6. CASE q # p
    <3>1. ~Counts(Assets, x, p) /\ ~Counts(Assets', x, p)
      BY <2>1, <2>2, <2>6 DEF Counts
    <3>2. SupplyIn(Assets', p) = S + 0 /\ InitialIn(Assets', p) = I + 0
      BY <2>4, <3>1 DEF ProjectMoves, S, I
    <3>3. Projects'[p].total_supply = Projects[p].total_supply
      BY <2>1, <2>5, <2>6
    <3> QED
      BY <1>0, <2>5, <3>2, <3>3
  <2>7. CASE q = p
    <3>1. Counts(Assets, x, p) /\ Counts(Assets', x, p)
      BY <2>1, <2>2, <2>7 DEF Counts
    <3>2. x \notin overflowed
      BY <1>b, <3>1 DEF Sound
    <3>3. n <= Assets[x].total_supply
      BY <2>1, <3>2, PendingCovered DEF BurnsCovered
    <3>6. n \in Nat /\ Assets[x].total_supply \in Nat /\ Assets[x].initial_supply \in Nat
      BY <1>f
    <3>4. Assets'[x].total_supply = Assets[x].total_supply - n
      BY <1>a, <2>1, <3>3, <3>6 DEF WrapSub, TypeOK, CarbonAsset
    <3>5. Projects'[p].total_supply = WrapSub(Projects[p].total_supply, n)
      BY <1>a, <2>1, <2>7 DEF TypeOK, CarbonProject
    <3>7. SupplyIn(Assets', p) = S - n /\ InitialIn(Assets', p) = I
      BY <1>e, <2>2, <2>4, <3>1, <3>4, <3>6 DEF ProjectMoves, S, I
    <3>8. PICK T \in U64, max \in U64 :
            T = Projects[p].total_supply /\ max = Projects[p].max_supply
      BY <1>g, <2>5
    <3>10. Follows(T, S - I, max) /\ S - I \in Int
      BY <1>c, <1>e, <2>5, <3>8
    <3>11. Follows(WrapSub(T, n), (S - I) - n, max)
      BY <3>10, FollowsDown
    <3>12. (S - I) - n = (S - n) - I
      BY <1>e, <3>6
    <3> QED
      BY <2>5, <3>5, <3>7, <3>8, <3>11, <3>12 DEF Tracks
  <2> QED
    BY <2>6, <2>7
<1>8. ASSUME UNCHANGED <<Assets, Projects>>
      PROVE  Goal
  BY <1>1, <1>8
<1>9. ASSUME NEW s, NEW x, NEW n, NEW t, submit_issue(s, x, n, t) PROVE Goal
  BY <1>8, <1>9 DEF submit_issue
<1>10. ASSUME NEW s, NEW x, NEW n, NEW t, submit_burn(s, x, n, t) PROVE Goal
  BY <1>8, <1>10 DEF submit_burn
<1>11. ASSUME NEW s, NEW x, NEW to, NEW n, transfer(s, x, to, n) PROVE Goal
  BY <1>8, <1>11 DEF transfer
<1>12. ASSUME NEW s, NEW x, NEW n, neutralize(s, x, n) PROVE Goal
  BY <1>8, <1>12 DEF neutralize
<1>13. UNCHANGED vars => Goal
  BY <1>8 DEF vars, carbonVars
<1> QED
  <2> HIDE DEF Goal
  <2>1. Goal
    BY <1>2, <1>3, <1>4, <1>5, <1>6, <1>7, <1>9, <1>10, <1>11, <1>12, <1>13
       DEF Next, Requests, approve
  <2> QED
    BY <2>1 DEF Goal

(* What a project's total_supply counts, for any number of projects and     *)
(* assets: the supply of its approved assets less their initial supplies,   *)
(* never more than max_supply, and modulo 2^64 when it is negative.         *)
THEOREM ProjectSupplyCorrect == Spec => []ProjectSupplyTracks
<1>1. Init => ProjectSupplyTracks
  BY DEF Init, ProjectSupplyTracks
<1>2. QED
  BY <1>1, ProjectNext, SupplyInvariant, PTL DEF Spec
=============================================================================
