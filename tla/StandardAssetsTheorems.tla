----------------------- MODULE StandardAssetsTheorems -----------------------
(***************************************************************************)
(* Proofs about StandardAssets, for any accounts, ids and amounts.         *)
(***************************************************************************)
EXTENDS StandardAssets, StorageTheorems

BalanceMap == [Ids \X Accounts -> U64]

(* HeldBy as a function of the balances. *)
HeldIn(B, id, holders) == Total([a \in holders |-> B[<<id, a>>]])

(* The difference between what is held and the total is what issue passed  *)
(* over, for ever: the inductive form of HeldMatchesTotal.                  *)
HeldAndStray ==
  \A id \in Ids : SameModulo(HeldBy(id, Accounts), TotalSupply[id] + stray[id])

StandardInv == TypeOK /\ HeldAndStray
-----------------------------------------------------------------------------
LEMMA U64Facts ==
  /\ MaxU64 \in Nat /\ U64 \subseteq Nat /\ 0 \in U64
  /\ \A n : n \in U64 <=> n \in Nat /\ n <= MaxU64
BY MaxU64Assumption DEF U64

LEMMA HeldNat ==
  ASSUME NEW B \in BalanceMap, NEW id \in Ids, NEW holders, holders \subseteq Accounts
  PROVE  HeldIn(B, id, holders) \in Nat
<1> DEFINE f == [a \in holders |-> B[<<id, a>>]]
<1>1. IsFiniteSet(DOMAIN f) /\ \A k \in DOMAIN f : f[k] \in U64
  BY StandardAssumption, FS_Subset DEF BalanceMap
<1>2. HeldIn(B, id, holders) = Total(f)
  BY DEF HeldIn
<1> HIDE DEF f
<1> QED
  BY <1>1, <1>2, TotalType

(* C is B after one write: what is held of that id changes by as much, and  *)
(* nothing else does.                                                       *)
Written(B, C, x, a, v) ==
  /\ C \in BalanceMap
  /\ HeldIn(B, x, Accounts) \in Nat /\ HeldIn(C, x, Accounts) \in Nat
  /\ B[<<x, a>>] \in Nat /\ v \in Nat
  /\ HeldIn(C, x, Accounts) + B[<<x, a>>] = HeldIn(B, x, Accounts) + v
  /\ \A id \in Ids \ {x} : HeldIn(C, id, Accounts) = HeldIn(B, id, Accounts)

LEMMA HeldWrite ==
  ASSUME NEW B \in BalanceMap, NEW x \in Ids, NEW a \in Accounts, NEW v \in U64,
         NEW C, C = [B EXCEPT ![<<x, a>>] = v]
  PROVE  Written(B, C, x, a, v)
<1> DEFINE f == [k \in Accounts |-> B[<<x, k>>]]
           g == [k \in Accounts |-> C[<<x, k>>]]
<1>1. C \in BalanceMap
  BY DEF BalanceMap
<1>2. /\ DOMAIN f = Accounts /\ DOMAIN g = Accounts /\ IsFiniteSet(Accounts)
      /\ \A k \in Accounts : f[k] \in U64
      /\ \A k \in Accounts \ {a} : g[k] = f[k]
      /\ f[a] = B[<<x, a>>] /\ g[a] = v
  BY StandardAssumption DEF BalanceMap
<1>3. HeldIn(B, x, Accounts) = Total(f) /\ HeldIn(C, x, Accounts) = Total(g)
  BY DEF HeldIn
<1>4. B[<<x, a>>] \in Nat /\ v \in Nat
  BY U64Facts DEF BalanceMap
<1> HIDE DEF f, g
<1>5. Total(f) \in Nat /\ Total(g) \in Nat /\ Total(g) + f[a] = Total(f) + g[a]
  BY <1>2, TotalChange
<1>6. ASSUME NEW id \in Ids \ {x}
      PROVE  HeldIn(C, id, Accounts) = HeldIn(B, id, Accounts)
  <2>1. \A k \in Accounts : C[<<id, k>>] = B[<<id, k>>]
    BY DEF BalanceMap
  <2> QED
    BY <2>1, TotalSame DEF HeldIn
<1> QED
  BY <1>1, <1>2, <1>3, <1>4, <1>5, <1>6 DEF Written

(* What is held is what one account holds and what the others hold. *)
LEMMA HeldSplit ==
  ASSUME NEW B \in BalanceMap, NEW id \in Ids, NEW a \in Accounts
  PROVE  HeldIn(B, id, Accounts) = HeldIn(B, id, Accounts \ {a}) + B[<<id, a>>]
<1> DEFINE f == [k \in Accounts \ {a} |-> B[<<id, k>>]]
           g == [k \in Accounts |-> B[<<id, k>>]]
<1>1. /\ DOMAIN f = Accounts \ {a} /\ DOMAIN g = DOMAIN f \cup {a}
      /\ \A k \in DOMAIN f : f[k] \in U64 /\ g[k] = f[k]
      /\ g[a] = B[<<id, a>>] /\ g[a] \in U64
  BY DEF BalanceMap
<1>2. IsFiniteSet(DOMAIN f)
  BY <1>1, StandardAssumption, FS_Subset
<1>3. HeldIn(B, id, Accounts \ {a}) = Total(f) /\ HeldIn(B, id, Accounts) = Total(g)
  BY DEF HeldIn
<1> HIDE DEF f, g
<1>4. Total(g) = Total(f) + g[a]
  BY <1>1, <1>2, TotalAdd
<1> QED
  BY <1>1, <1>3, <1>4
-----------------------------------------------------------------------------
LEMMA StandardInit == Init => StandardInv
<1> SUFFICES ASSUME Init PROVE StandardInv
  OBVIOUS
<1>1. TypeOK
  BY U64Facts DEF Init, TypeOK
<1>2. ASSUME NEW id \in Ids
      PROVE  SameModulo(HeldBy(id, Accounts), TotalSupply[id] + stray[id])
  <2>1. HeldBy(id, Accounts) = 0
    BY TotalZero DEF Init, HeldBy
  <2>2. TotalSupply[id] + stray[id] = 0
    BY DEF Init
  <2>3. 0 - 0 = 0 * (MaxU64 + 1)
    BY U64Facts
  <2> QED
    BY <2>1, <2>2, <2>3, SameModuloMultiple
<1> QED
  BY <1>1, <1>2 DEF StandardInv, HeldAndStray

LEMMA TypeStep ==
  ASSUME TypeOK, [Next]_vars
  PROVE  TypeOK'
<1> USE StandardAssumption
<1>a. \A a, b \in U64 : WrapAdd(a, b) \in U64 /\ WrapSub(a, b) \in U64
  BY WrapType
<1>1. ASSUME NEW origin \in Accounts, NEW name \in Names, NEW max \in MaxSupplies,
             NEW first \in FirstSupplies, issue(origin, name, max, first)
      PROVE  TypeOK'
  <2> DEFINE id == <<"ECRC10", origin, name, max, first>>
  <2>1. id \in Ids
    BY DEF Ids
  <2>2. max \in U64 /\ first \in U64
    OBVIOUS
  <2>3. /\ AssetInfos' = Insert(AssetInfos, id, max)
        /\ Balances' = [Balances EXCEPT ![<<id, origin>>] = first]
        /\ TotalSupply' = [TotalSupply EXCEPT ![id] = first]
        /\ stray' = [stray EXCEPT ![id] = HeldIn(Balances, id, Accounts \ {origin})]
    BY <1>1 DEF issue, HeldBy, HeldIn
  <2> HIDE DEF id
  <2>4. HeldIn(Balances, id, Accounts \ {origin}) \in Nat
    BY <2>1, HeldNat DEF TypeOK, BalanceMap
  <2> QED
    BY <2>1, <2>2, <2>3, <2>4 DEF TypeOK, Insert
<1>2. ASSUME NEW origin \in Accounts, NEW id \in Ids, NEW target \in Accounts,
             NEW amount \in Amounts, transfer(origin, id, target, amount)
      PROVE  TypeOK'
  <2>1. Balances[<<id, origin>>] - amount \in U64
    BY <1>2, U64Facts DEF transfer, TypeOK
  <2>2. Balances' \in BalanceMap
    BY <1>2, <1>a, <2>1 DEF transfer, Moved, TypeOK, BalanceMap
  <2> QED
    BY <1>2, <2>2 DEF transfer, TypeOK, BalanceMap
<1>3. ASSUME NEW origin \in Accounts, NEW id \in Ids, NEW amount \in Amounts,
             mint(origin, id, amount)
      PROVE  TypeOK'
  BY <1>3, <1>a DEF mint, TypeOK
<1>4. ASSUME NEW origin \in Accounts, NEW id \in Ids, NEW amount \in Amounts,
             burn(origin, id, amount)
      PROVE  TypeOK'
  <2>1. Balances[<<id, origin>>] - amount \in U64
    BY <1>4, U64Facts DEF burn, TypeOK
  <2> QED
    BY <1>4, <1>a, <2>1 DEF burn, TypeOK
<1>5. CASE UNCHANGED vars
  BY <1>5 DEF vars, TypeOK
<1> QED
  BY <1>1, <1>2, <1>3, <1>4, <1>5 DEF Next

(* Every call changes what is held and the total alike, but for wrapping. *)
LEMMA HeldStep ==
  ASSUME StandardInv, [Next]_vars, NEW x \in Ids
  PROVE  SameModulo(HeldIn(Balances', x, Accounts), TotalSupply'[x] + stray'[x])
<1> USE StandardAssumption
<1> DEFINE Goal == SameModulo(HeldIn(Balances', x, Accounts), TotalSupply'[x] + stray'[x])
           H == HeldIn(Balances, x, Accounts)
           T == TotalSupply[x]
<1>a. TypeOK /\ Balances \in BalanceMap /\ SameModulo(H, T + stray[x])
  BY DEF StandardInv, TypeOK, BalanceMap, HeldAndStray, HeldBy, HeldIn
<1>b. TypeOK'
  BY <1>a, TypeStep
<1>c. H \in Int /\ T \in Int /\ stray[x] \in Int /\ T \in U64
  BY <1>a, HeldNat, U64Facts DEF TypeOK
<1> HIDE DEF H, T
<1>0. ASSUME HeldIn(Balances', x, Accounts) = H, TotalSupply'[x] = T, stray'[x] = stray[x]
      PROVE  Goal
  BY <1>a, <1>0
<1>1. ASSUME NEW origin \in Accounts, NEW name \in Names, NEW max \in MaxSupplies,
             NEW first \in FirstSupplies, issue(origin, name, max, first)
      PROVE  Goal
  <2> DEFINE id == <<"ECRC10", origin, name, max, first>>
             others == HeldIn(Balances, id, Accounts \ {origin})
  <2>1. id \in Ids /\ first \in U64
    BY DEF Ids
  <2>2. /\ Balances' = [Balances EXCEPT ![<<id, origin>>] = first]
        /\ TotalSupply' = [TotalSupply EXCEPT ![id] = first]
        /\ stray' = [stray EXCEPT ![id] = others]
    BY <1>1 DEF issue, HeldBy, HeldIn
  <2> HIDE DEF id
  <2>3. CASE x # id
    <3>1. TotalSupply'[x] = T /\ stray'[x] = stray[x]
      BY <1>a, <2>2, <2>3 DEF TypeOK, T
    <3>2. Written(Balances, Balances', id, origin, first)
      BY <1>a, <2>1, <2>2, HeldWrite, Zenon
    <3>3. HeldIn(Balances', x, Accounts) = H
      BY <2>3, <3>2 DEF Written, H
    <3> QED
      BY <1>0, <3>1, <3>3
  <2>4. CASE x = id
    <3>1. TotalSupply'[x] = first /\ stray'[x] = others
      BY <1>a, <2>1, <2>2, <2>4 DEF TypeOK
    <3>2. Balances' \in BalanceMap /\ Balances'[<<id, origin>>] = first
      BY <1>a, <2>1, <2>2 DEF BalanceMap
    <3>3. HeldIn(Balances', id, Accounts \ {origin}) = others
      <4>1. \A k \in Accounts \ {origin} : Balances'[<<id, k>>] = Balances[<<id, k>>]
        BY <1>a, <2>1, <2>2 DEF BalanceMap
      <4> QED
        BY <4>1, TotalSame DEF HeldIn
    <3>4. HeldIn(Balances', id, Accounts) = others + first
      BY <2>1, <3>2, <3>3, HeldSplit
    <3>5. others \in Int /\ first \in Int
      BY <1>a, <2>1, HeldNat, U64Facts
    <3> HIDE DEF others
    <3>6. (others + first) - (first + others) = 0 * (MaxU64 + 1)
      BY <3>5, U64Facts
    <3>7. SameModulo(others + first, first + others)
      BY <3>5, <3>6, SameModuloMultiple
    <3> QED
      BY <2>4, <3>1, <3>4, <3>7
  <2> QED
    BY <2>3, <2>4
<1>2. ASSUME NEW origin \in Accounts, NEW id \in Ids, NEW target \in Accounts,
             NEW amount \in Amounts, transfer(origin, id, target, amount)
      PROVE  Goal
  <2>1. TotalSupply'[x] = T /\ stray'[x] = stray[x]
    BY <1>2 DEF transfer, T
  <2>2. PICK u \in U64 : u = Balances[<<id, origin>>] - amount
    BY <1>2, <1>a, U64Facts DEF transfer, TypeOK
  <2>3. PICK B : B = [Balances EXCEPT ![<<id, origin>>] = u]
    OBVIOUS
  <2>4. Written(Balances, B, id, origin, u)
    BY <1>a, <2>3, HeldWrite, Zenon
  <2>a. B[<<id, target>>] \in U64 /\ amount \in U64
    BY <2>4 DEF Written, BalanceMap
  <2>5. PICK v \in U64 : v = WrapAdd(B[<<id, target>>], amount)
    BY <2>a, WrapType
  <2>6. Balances' = [B EXCEPT ![<<id, target>>] = v]
    BY <1>2, <1>a, <2>2, <2>3, <2>5 DEF transfer, Moved, BalanceMap
  <2>b. B \in BalanceMap
    BY <2>4 DEF Written
  <2>7. Written(B, Balances', id, target, v)
    BY <2>b, <2>6, HeldWrite, Zenon
  <2>8. CASE x # id
    BY <1>0, <2>1, <2>4, <2>7, <2>8 DEF H, Written
  <2>9. CASE x = id
    <3>2. PICK j \in Int : v = B[<<id, target>>] + amount + j * (MaxU64 + 1)
      BY <2>5, <2>a, WrapMultiple
    <3>3. amount \in Int /\ j * (MaxU64 + 1) \in Int
      BY U64Facts
    <3>4. HeldIn(Balances', x, Accounts) = H + j * (MaxU64 + 1)
      BY <2>2, <2>4, <2>7, <2>9, <3>2, <3>3 DEF H, Written
    <3>5. HeldIn(Balances', x, Accounts) - (T + stray[x])
            = H - (T + stray[x]) + j * (MaxU64 + 1)
      BY <1>c, <3>3, <3>4
    <3>6. HeldIn(Balances', x, Accounts) \in Int /\ T + stray[x] \in Int
      BY <1>c, <2>7, <2>9 DEF Written
    <3> QED
      BY <1>a, <1>c, <2>1, <3>5, <3>6, SameModuloShift
  <2> QED
    BY <2>8, <2>9
<1>3. ASSUME NEW origin \in Accounts, NEW id \in Ids, NEW amount \in Amounts,
             mint(origin, id, amount)
      PROVE  Goal
  <2>0. Balances[<<id, origin>>] \in U64 /\ amount \in U64
    BY <1>a DEF BalanceMap
  <2>1. PICK v \in U64 : v = WrapAdd(Balances[<<id, origin>>], amount)
    BY <2>0, WrapType
  <2>2. Balances' = [Balances EXCEPT ![<<id, origin>>] = v]
    BY <1>3, <2>1 DEF mint
  <2>3. Written(Balances, Balances', id, origin, v)
    BY <1>a, <2>2, HeldWrite, Zenon
  <2>4. CASE x # id
    BY <1>3, <1>0, <1>a, <2>3, <2>4 DEF H, T, mint, TypeOK, Written
  <2>5. CASE x = id
    <3>1. TotalSupply'[x] = WrapAdd(T, amount) /\ stray'[x] = stray[x]
      BY <1>3, <1>a, <2>5 DEF mint, TypeOK, T
    <3>2. PICK j \in Int : v = Balances[<<id, origin>>] + amount + j * (MaxU64 + 1)
      BY <2>0, <2>1, WrapMultiple
    <3>3. PICK i \in Int : TotalSupply'[x] = T + amount + i * (MaxU64 + 1)
      BY <1>c, <2>0, <3>1, WrapMultiple
    <3>4. amount \in Int /\ j * (MaxU64 + 1) \in Int /\ i * (MaxU64 + 1) \in Int
      BY U64Facts
    <3>5. HeldIn(Balances', x, Accounts) = H + amount + j * (MaxU64 + 1)
      BY <1>c, <2>3, <2>5, <3>2, <3>4 DEF H, Written
    <3>6. HeldIn(Balances', x, Accounts) - (TotalSupply'[x] + stray[x])
            = H - (T + stray[x]) + (j * (MaxU64 + 1) - i * (MaxU64 + 1))
      BY <1>c, <3>3, <3>4, <3>5
    <3>7. MaxU64 + 1 \in Int /\ j - i \in Int
      BY U64Facts
    <3>8. j * (MaxU64 + 1) - i * (MaxU64 + 1) = (j - i) * (MaxU64 + 1)
      BY <3>7, Distribution, Zenon
    <3>9. HeldIn(Balances', x, Accounts) \in Int /\ TotalSupply'[x] + stray[x] \in Int
          /\ T + stray[x] \in Int
      BY <1>c, <2>3, <2>5, <3>3, <3>4 DEF Written
    <3> QED
      BY <1>a, <1>c, <3>1, <3>6, <3>7, <3>8, <3>9, SameModuloShift
  <2> QED
    BY <2>4, <2>5
<1>4. ASSUME NEW origin \in Accounts, NEW id \in Ids, NEW amount \in Amounts,
             burn(origin, id, amount)
      PROVE  Goal
  <2>1. PICK v \in U64 : v = Balances[<<id, origin>>] - amount
    BY <1>4, <1>a, U64Facts DEF burn, TypeOK
  <2>2. Balances' = [Balances EXCEPT ![<<id, origin>>] = v]
    BY <1>4, <2>1 DEF burn
  <2>3. Written(Balances, Balances', id, origin, v)
    BY <1>a, <2>2, HeldWrite, Zenon
  <2>4. CASE x # id
    BY <1>4, <1>0, <1>a, <2>3, <2>4 DEF H, T, burn, TypeOK, Written
  <2>5. CASE x = id
    <3>1. TotalSupply'[x] = WrapSub(T, amount) /\ stray'[x] = stray[x]
      BY <1>4, <1>a, <2>5 DEF burn, TypeOK, T
    <3>2. PICK i \in Int : TotalSupply'[x] = T - amount + i * (MaxU64 + 1)
      BY <1>c, <3>1, WrapMultiple
    <3>3. amount \in Int /\ i * (MaxU64 + 1) \in Int /\ MaxU64 + 1 \in Int
      BY U64Facts
    <3>4. HeldIn(Balances', x, Accounts) = H - amount
      BY <1>c, <2>1, <2>3, <2>5, <3>3 DEF H, Written
    <3>5. HeldIn(Balances', x, Accounts) - (TotalSupply'[x] + stray[x])
            = H - (T + stray[x]) - i * (MaxU64 + 1)
      BY <1>c, <3>2, <3>3, <3>4
    <3>6. (0 - i) * (MaxU64 + 1) = 0 * (MaxU64 + 1) - i * (MaxU64 + 1)
      BY <3>3, Distribution
    <3>7. H - (T + stray[x]) - i * (MaxU64 + 1) = H - (T + stray[x]) + (0 - i) * (MaxU64 + 1)
      BY <1>c, <3>3, <3>6
    <3>8. HeldIn(Balances', x, Accounts) \in Int /\ TotalSupply'[x] + stray[x] \in Int
          /\ T + stray[x] \in Int /\ 0 - i \in Int
      BY <1>c, <2>3, <2>5, <3>2, <3>3 DEF Written
    <3> QED
      BY <1>a, <1>c, <3>1, <3>5, <3>7, <3>8, SameModuloShift
  <2> QED
    BY <2>4, <2>5
<1>5. UNCHANGED vars => Goal
  BY <1>0 DEF vars, H, T
<1> HIDE DEF Goal
<1>6. Next \/ UNCHANGED vars
  OBVIOUS
<1>7. Next => Goal
  BY <1>1, <1>2, <1>3, <1>4, Zenon DEF Next
<1>8. Goal
  BY <1>5, <1>6, <1>7
<1> QED
  BY <1>8 DEF Goal

LEMMA StandardInvariant == Spec => []StandardInv
<1>1. ASSUME StandardInv, [Next]_vars
      PROVE  StandardInv'
  <2>1. TypeOK'
    BY <1>1, TypeStep DEF StandardInv
  <2>2. HeldAndStray'
    BY <1>1, HeldStep DEF HeldAndStray, HeldBy, HeldIn
  <2> QED
    BY <2>1, <2>2 DEF StandardInv
<1> QED
  BY <1>1, StandardInit, PTL DEF Spec

(* For any accounts, ids and amounts, an asset nobody else held units of   *)
(* when it was issued has a TotalSupply that is what the accounts hold,     *)
(* modulo 2^64, after any sequence of transfers, mints and burns.           *)
THEOREM HeldMatchesTotalCorrect == Spec => []HeldMatchesTotal
<1>1. StandardInv => HeldMatchesTotal
  <2> SUFFICES ASSUME StandardInv, NEW id \in Ids, stray[id] = 0
               PROVE  SameModulo(HeldBy(id, Accounts), TotalSupply[id])
    BY DEF HeldMatchesTotal
  <2>1. TotalSupply[id] + stray[id] = TotalSupply[id]
    BY U64Facts DEF StandardInv, TypeOK
  <2> QED
    BY <2>1 DEF StandardInv, HeldAndStray
<1> QED
  BY <1>1, StandardInvariant, PTL
=============================================================================
