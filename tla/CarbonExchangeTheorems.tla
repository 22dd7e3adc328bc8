----------------------- MODULE CarbonExchangeTheorems -----------------------
(***************************************************************************)
(* Proofs about CarbonExchange composed with CarbonAssets, for any         *)
(* accounts, amounts, prices and number of orders.                         *)
(***************************************************************************)
EXTENDS CarbonExchange, CarbonAssetsTheorems

BalanceMap == [AssetIds \X Accounts -> U64]

LEMMA U64Facts ==
  /\ MaxU64 \in Nat /\ U64 \subseteq Nat /\ 0 \in U64
  /\ \A n : n \in U64 <=> n \in Nat /\ n <= MaxU64
BY MaxU64Assumption DEF U64

LEMMA SaturatingMulType ==
  ASSUME NEW a \in U64, NEW b \in U64
  PROVE  /\ SaturatingMul(a, b) \in U64
         /\ a * b \in Nat
         /\ a * b <= MaxU64 => SaturatingMul(a, b) = a * b
<1>1. a \in Nat /\ b \in Nat
  BY U64Facts
<1>2. a * b \in Nat
  BY <1>1
<1> QED
  BY <1>2, U64Facts DEF SaturatingMul
-----------------------------------------------------------------------------
(* make_transfer touches two balances of one asset and no others, and       *)
(* keeps them within u64.                                                   *)
LEMMA MakeTransferType ==
  ASSUME NEW B \in BalanceMap, NEW x \in AssetIds, NEW from \in Accounts,
         NEW to \in Accounts, NEW n \in U64,
         NEW C, C = MakeTransfer(B, x, from, to, n)
  PROVE  /\ C \in BalanceMap
         /\ \A y \in AssetIds, a \in Accounts :
              (y # x \/ (a # from /\ a # to)) => C[<<y, a>>] = B[<<y, a>>]
         /\ \A y \in AssetIds \ {x} : HeldIn(C, y) = HeldIn(B, y)
<1>1. WrapSub(B[<<x, from>>], n) \in U64 /\ WrapAdd(B[<<x, to>>], n) \in U64
  BY WrapType DEF BalanceMap
<1>2. C \in BalanceMap
  BY <1>1 DEF BalanceMap, MakeTransfer
<1>3. \A y \in AssetIds, a \in Accounts :
        (y # x \/ (a # from /\ a # to)) => C[<<y, a>>] = B[<<y, a>>]
  BY DEF BalanceMap, MakeTransfer
<1>4. ASSUME NEW y \in AssetIds \ {x}
      PROVE  HeldIn(C, y) = HeldIn(B, y)
  <2>1. \A a \in Accounts : C[<<y, a>>] = B[<<y, a>>]
    BY <1>3
  <2> QED
    BY <2>1, TotalSame DEF HeldIn
<1> QED
  BY <1>2, <1>3, <1>4

(* A transfer that the sender can afford, of an asset that is not held      *)
(* more than a u64 counts, neither wraps nor changes what is held.          *)
Transferred(B, C, x, from, to, n) ==
  /\ HeldIn(C, x) = HeldIn(B, x)
  /\ from = to => C = B
  /\ from # to => /\ C[<<x, from>>] = B[<<x, from>>] - n
                  /\ C[<<x, to>>] = B[<<x, to>>] + n

LEMMA MakeTransferExact ==
  ASSUME NEW B \in BalanceMap, NEW x \in AssetIds, NEW from \in Accounts,
         NEW to \in Accounts, NEW n \in U64,
         NEW D, D = MakeTransfer(B, x, from, to, n),
         n <= B[<<x, from>>], HeldIn(B, x) <= MaxU64
  PROVE  Transferred(B, D, x, from, to, n)
<1>1. CASE from = to
  BY <1>1 DEF MakeTransfer, Transferred
<1>2. CASE from # to
  <2>1. PICK C : C = [B EXCEPT ![<<x, from>>] = WrapSub(@, n)]
    OBVIOUS
  <2>a. B \in [AssetIds \X Accounts -> U64]
    BY DEF BalanceMap
  <2>2. C \in [AssetIds \X Accounts -> U64] /\ HeldLess(B, C, x, n)
    BY <2>a, <2>1, HeldDebit
  <2>3. C[<<x, to>>] = B[<<x, to>>]
    BY <1>2, <2>1, <2>a
  <2>4. D = [C EXCEPT ![<<x, to>>] = WrapAdd(@, n)]
    BY <1>2, <2>1, <2>3 DEF MakeTransfer
  <2>5. C[<<x, to>>] \in Nat /\ C[<<x, to>>] <= HeldIn(C, x)
    BY <2>2, HeldBound
  <2>6. C[<<x, to>>] + n <= MaxU64
    BY <2>2, <2>5, U64Facts DEF HeldLess
  <2>7. HeldLess(D, C, x, n)
    BY <2>2, <2>4, <2>6, HeldCredit
  <2>8. HeldIn(D, x) = HeldIn(B, x)
    BY <2>2, <2>7 DEF HeldLess
  <2>9. B[<<x, from>>] \in Nat /\ n \in Nat
    BY <2>a, U64Facts
  <2>10. C[<<x, from>>] = B[<<x, from>>] - n
    BY <2>1, <2>9, <2>a DEF WrapSub
  <2>11. D[<<x, from>>] = C[<<x, from>>]
    BY <1>2, <2>2, <2>4
  <2>12. D[<<x, to>>] = C[<<x, to>>] + n
    BY <2>2, <2>4, <2>5, <2>6, <2>9, U64Facts DEF WrapAdd
  <2> QED
    BY <1>2, <2>3, <2>8, <2>10, <2>11, <2>12 DEF Transferred
<1> QED
  BY <1>1, <1>2
-----------------------------------------------------------------------------
OrderMap(O) == /\ DOMAIN O \subseteq OrderIds /\ IsFiniteSet(DOMAIN O)
               /\ O \in [DOMAIN O -> Order]

Fields == {"left_amount", "locked_balance"}

LEMMA OrderFields ==
  ASSUME NEW r \in Order, NEW field \in Fields
  PROVE  r[field] \in U64
BY DEF Order, Fields

(* Orders as a map that can be summed over, and the two facts about sums    *)
(* for it.                                                                  *)
LEMMA OrdersSummable ==
  ASSUME NEW O, OrderMap(O), NEW field \in Fields
  PROVE  AmountMap(O, field)
BY OrderFields DEF OrderMap, AmountMap

LEMMA CustodyUpdate ==
  ASSUME NEW O, OrderMap(O), NEW P, OrderMap(P), NEW o, SameBut(O, P, o),
         NEW K, NEW field \in Fields
  PROVE  /\ SumOver(O, K, field) \in Nat /\ SumOver(P, K, field) \in Nat
         /\ PartOf(O, o, K, field) \in Nat /\ PartOf(P, o, K, field) \in Nat
         /\ PartOf(O, o, K, field) <= SumOver(O, K, field)
         /\ SumOver(P, K, field) + PartOf(O, o, K, field)
              = SumOver(O, K, field) + PartOf(P, o, K, field)
<1>1. AmountMap(O, field) /\ AmountMap(P, field)
  BY OrdersSummable
<1> QED
  BY <1>1, SumUpdate

LEMMA CustodyBound ==
  ASSUME NEW O, OrderMap(O), NEW K, NEW field \in Fields
  PROVE  /\ SumOver(O, K, field) \in Nat
         /\ \A o \in DOMAIN O : O[o] \in K => O[o][field] <= SumOver(O, K, field)
         /\ (\A o \in DOMAIN O : O[o] \notin K) => SumOver(O, K, field) = 0
<1>1. AmountMap(O, field)
  BY OrdersSummable
<1> QED
  BY <1>1, SumBound

(* What the pot keeps for the open asks of an asset, and for all open bids. *)
AskRecords(id) == {r \in Order : r.direction = ASK /\ r.asset_id = id}
BidRecords == {r \in Order : r.direction = BID}
AskSum(O, id) == SumOver(O, AskRecords(id), "left_amount")
BidSum(O) == SumOver(O, BidRecords, "locked_balance")

LEMMA AskSumIs ==
  ASSUME NEW O, OrderMap(O), NEW id
  PROVE  Total([o \in {o \in DOMAIN O : O[o].direction = ASK /\ O[o].asset_id = id} |->
                  O[o].left_amount]) = AskSum(O, id)
<1>1. {o \in DOMAIN O : O[o] \in AskRecords(id)}
        = {o \in DOMAIN O : O[o].direction = ASK /\ O[o].asset_id = id}
  BY DEF AskRecords, OrderMap
<1> QED
  BY <1>1 DEF AskSum, SumOver

LEMMA BidSumIs ==
  ASSUME NEW O, OrderMap(O)
  PROVE  Total([o \in {o \in DOMAIN O : O[o].direction = BID} |-> O[o].locked_balance])
           = BidSum(O)
<1>1. {o \in DOMAIN O : O[o] \in BidRecords} = {o \in DOMAIN O : O[o].direction = BID}
  BY DEF BidRecords, OrderMap
<1> QED
  BY <1>1 DEF BidSum, SumOver
-----------------------------------------------------------------------------
(* Orders are for approved assets only, so a new asset has no asks.         *)
OrdersKnown == \A o \in DOMAIN Orders : has_asset(Orders[o].asset_id)

(* The inductive invariant of the composition.  PotHoldsAsks needs the      *)
(* whole of SupplyInv: that a credit to the pot does not wrap follows from  *)
(* the conservation of supply.  And SupplyInv needs PotHoldsAsks:           *)
(* cancel_order debits the pot without a check.                             *)
ExchangeCore ==
  /\ SupplyInv
  /\ OrderMap(Orders)
  /\ money \in [Accounts -> Nat]
  /\ OrdersKnown
ExchangeInv == ExchangeCore /\ PotHoldsAsks

LEMMA PotForm ==
  ASSUME OrderMap(Orders)
  PROVE  PotHoldsAsks <=>
           \A id \in DOMAIN Assets : id \notin overflowed =>
             Balances[<<id, Pot>>] >= AskSum(Orders, id)
<1>1. \A id : Total([o \in Asks(id) |-> Orders[o].left_amount]) = AskSum(Orders, id)
  BY AskSumIs DEF Asks
<1> QED
  BY <1>1 DEF PotHoldsAsks

(* What is held of a sound asset fits a u64. *)
LEMMA HeldFits ==
  ASSUME SupplyInv, NEW x \in DOMAIN Assets, x \notin overflowed
  PROVE  HeldIn(Balances, x) \in Nat /\ HeldIn(Balances, x) <= MaxU64
<1>1. TypeOK /\ SupplyConserved
  BY DEF SupplyInv
<1>2. x \in AssetIds /\ BurnMap(Burns) /\ Balances \in [AssetIds \X Accounts -> U64]
  BY <1>1 DEF TypeOK, BurnMap
<1>3. HeldIn(Balances, x) + PendingIn(Burns, x) + neutralized[x] + displaced[x]
        = Assets[x].total_supply
  BY <1>1, SupplyForm
<1>4. /\ HeldIn(Balances, x) \in Nat /\ PendingIn(Burns, x) \in Nat
      /\ neutralized[x] \in Nat /\ displaced[x] \in Nat
  BY <1>1, <1>2, HeldType, PendingFinite DEF TypeOK
<1>5. Assets[x].total_supply \in Nat /\ Assets[x].total_supply <= MaxU64
  BY <1>1, U64Facts DEF TypeOK, CarbonAsset
<1> QED
  BY <1>3, <1>4, <1>5, U64Facts

(* The exchange moves assets through make_transfer only, and so keeps the   *)
(* invariant of the ledger.                                                 *)
LEMMA LedgerMove ==
  ASSUME SupplyInv, UNCHANGED <<Projects, Assets, Issues, Burns, history>>,
         NEW x \in AssetIds, has_asset(x), NEW from \in Accounts, NEW to \in Accounts,
         NEW n \in U64, x \notin overflowed => n <= Balances[<<x, from>>],
         Balances' = MakeTransfer(Balances, x, from, to, n)
  PROVE  /\ SupplyInv' /\ Balances' \in BalanceMap
         /\ \A y \in AssetIds, a \in Accounts :
              (y # x \/ (a # from /\ a # to)) => Balances'[<<y, a>>] = Balances[<<y, a>>]
         /\ x \notin overflowed => Transferred(Balances, Balances', x, from, to, n)
<1>1. TypeOK /\ ApprovalChain /\ UnapprovedUntouched /\ BurnsMatchIds /\ SupplyConserved
  BY DEF SupplyInv
<1>2. Balances \in BalanceMap
  BY <1>1 DEF TypeOK, BalanceMap
<1>3. /\ Balances' \in BalanceMap
      /\ \A y \in AssetIds, a \in Accounts :
           (y # x \/ (a # from /\ a # to)) => Balances'[<<y, a>>] = Balances[<<y, a>>]
      /\ \A y \in AssetIds \ {x} : HeldIn(Balances', y) = HeldIn(Balances, y)
  BY <1>2, MakeTransferType
<1>4. x \notin overflowed => Transferred(Balances, Balances', x, from, to, n)
  <2> SUFFICES ASSUME x \notin overflowed
               PROVE  Transferred(Balances, Balances', x, from, to, n)
    OBVIOUS
  <2>1. HeldIn(Balances, x) <= MaxU64
    BY HeldFits DEF has_asset
  <2> QED
    BY <1>2, <2>1, MakeTransferExact
<1>5. TypeOK'
  BY <1>1, <1>3 DEF TypeOK, BalanceMap, history
<1>6. \A y : has_asset(y)' <=> has_asset(y)
  BY DEF has_asset
<1>7. ApprovalChain'
  <2>1. \A y \in AssetIds, a \in Accounts : Balances'[<<y, a>>] > 0 => has_asset(y)
    BY <1>1, <1>3 DEF ApprovalChain
  <2> QED
    BY <1>1, <1>6, <2>1 DEF ApprovalChain
<1>8. UnapprovedUntouched' /\ BurnsMatchIds'
  BY <1>1, <1>6 DEF UnapprovedUntouched, BurnsMatchIds, history
<1>9. SupplyConserved'
  <2> SUFFICES ASSUME NEW id \in DOMAIN Assets, id \notin overflowed
               PROVE  HeldIn(Balances', id) + PendingIn(Burns, id)
                        + neutralized[id] + displaced[id] = Assets[id].total_supply
    BY Zenon DEF SupplyConserved, Accounted, Held, HeldIn, Pending, PendingIn, PendingBurns,
       PendingOf, history
  <2>1. HeldIn(Balances, id) + PendingIn(Burns, id) + neutralized[id] + displaced[id]
          = Assets[id].total_supply
    BY <1>1, SupplyForm
  <2>2. id \in AssetIds
    BY <1>1 DEF TypeOK
  <2>3. HeldIn(Balances', id) = HeldIn(Balances, id)
    BY <1>3, <1>4, <2>2 DEF Transferred
  <2> QED
    BY <2>1, <2>3
<1> QED
  BY <1>3, <1>4, <1>5, <1>7, <1>8, <1>9 DEF SupplyInv

(* Nor does a step that leaves the ledger alone disturb it. *)
LEMMA LedgerSame ==
  ASSUME SupplyInv, UNCHANGED <<Projects, Assets, Issues, Burns, history>>, UNCHANGED Balances
  PROVE  SupplyInv'
<1>1. TypeOK'
  BY DEF SupplyInv, TypeOK, history
<1>2. \A y : has_asset(y)' <=> has_asset(y)
  BY DEF has_asset
<1>3. ApprovalChain' /\ UnapprovedUntouched' /\ BurnsMatchIds'
  BY <1>2 DEF SupplyInv, ApprovalChain, UnapprovedUntouched, BurnsMatchIds, history
<1>4. SupplyConserved'
  BY Zenon DEF SupplyInv, SupplyConserved, Accounted, Held, Pending, PendingBurns, history
<1> QED
  BY <1>1, <1>3, <1>4 DEF SupplyInv

(* No call of carbon-assets takes anything from the pot, and approvals are  *)
(* never taken back.                                                        *)
LEMMA PotUntouched ==
  ASSUME SupplyInv, SupplyInv', Next
  PROVE  /\ \A id : has_asset(id) => has_asset(id)'
         /\ overflowed \subseteq overflowed'
         /\ \A id \in DOMAIN Assets : id \notin overflowed' =>
              Balances'[<<id, Pot>>] >= Balances[<<id, Pot>>]
         /\ \A id \in DOMAIN Assets' : id \notin DOMAIN Assets => ~has_asset(id)
<1> USE CarbonAssumption
<1> DEFINE Goal ==
      /\ \A id : has_asset(id) => has_asset(id)'
      /\ overflowed \subseteq overflowed'
      /\ \A id \in DOMAIN Assets : id \notin overflowed' =>
           Balances'[<<id, Pot>>] >= Balances[<<id, Pot>>]
<1>a. TypeOK /\ TypeOK'
  BY DEF SupplyInv
<1>b. Pot \in Accounts /\ Pot \notin Signers
  BY ExchangeAssumption
<1>c. \A id \in DOMAIN Assets : Balances[<<id, Pot>>] \in Nat
  BY <1>a, <1>b, U64Facts DEF TypeOK
<1>1. ASSUME UNCHANGED <<Assets, Balances, overflowed>>
      PROVE  Goal
  BY <1>1, <1>c DEF has_asset
<1>2. ASSUME NEW s \in Signers, NEW p \in DOMAIN Projects, NEW n \in InitialSupplies,
             NEW t \in Texts, submit_asset(s, p, n, t)
      PROVE  Goal
  BY <1>2, <1>c DEF submit_asset, Insert, has_asset, history
<1>3. ASSUME NEW x \in DOMAIN Assets, approve_asset(x)
      PROVE  Goal
  <2>1. PICK owner, n :
          owner \in Signers /\ Balances' = [Balances EXCEPT ![<<x, owner>>] = n]
    BY <1>3, <1>a DEF approve_asset, TypeOK, CarbonProject
  <2>2. \A id \in DOMAIN Assets : Balances'[<<id, Pot>>] = Balances[<<id, Pot>>]
    BY <1>a, <1>b, <2>1 DEF TypeOK
  <2>3. \A id : has_asset(id) => has_asset(id)'
    BY <1>3, <1>a DEF approve_asset, has_asset, TypeOK, CarbonAsset
  <2> QED
    BY <1>3, <1>c, <2>2, <2>3 DEF approve_asset, history
<1>4. ASSUME NEW i \in DOMAIN Issues, approve_issue(i)
      PROVE  Goal
  <2>1. PICK owner, x, n :
          owner \in Signers /\ Balances' = [Balances EXCEPT ![<<x, owner>>] = n]
    BY <1>4, <1>a DEF approve_issue, TypeOK, CarbonProject
  <2>2. \A id \in DOMAIN Assets : Balances'[<<id, Pot>>] = Balances[<<id, Pot>>]
    BY <1>a, <1>b, <2>1 DEF TypeOK
  <2>3. \A id : has_asset(id) => has_asset(id)'
    BY <1>4, <1>a DEF approve_issue, has_asset, TypeOK, CarbonAsset
  <2>4. overflowed \subseteq overflowed'
    BY <1>4 DEF approve_issue
  <2> QED
    BY <1>c, <2>2, <2>3, <2>4
<1>5. ASSUME NEW s \in Signers, NEW x \in DOMAIN Assets, NEW n \in BurnAmounts,
             NEW t \in Texts, submit_burn(s, x, n, t)
      PROVE  Goal
  <2>1. \A id \in DOMAIN Assets : Balances'[<<id, Pot>>] = Balances[<<id, Pot>>]
    BY <1>5, <1>a, <1>b DEF submit_burn, TypeOK
  <2> QED
    BY <1>5, <1>c, <2>1 DEF submit_burn, has_asset
<1>6. ASSUME NEW b \in DOMAIN Burns, approve_burn(b)
      PROVE  Goal
  <2>1. \A id : has_asset(id) => has_asset(id)'
    BY <1>6, <1>a DEF approve_burn, has_asset, TypeOK, CarbonAsset
  <2> QED
    BY <1>6, <1>c, <2>1 DEF approve_burn
<1>7. ASSUME NEW s \in Signers, NEW x \in AssetIds, NEW to \in Accounts,
             NEW n \in MoveAmounts, transfer(s, x, to, n)
      PROVE  Goal
  <2>1. \A id : has_asset(id) => has_asset(id)'
    BY <1>7 DEF transfer, has_asset
  <2>2. overflowed' = overflowed
    BY <1>7 DEF transfer, history
  <2>3. ASSUME NEW id \in DOMAIN Assets, id \notin overflowed
        PROVE  Balances'[<<id, Pot>>] >= Balances[<<id, Pot>>]
    <3>1. Balances \in BalanceMap /\ id \in AssetIds
      BY <1>a DEF TypeOK, BalanceMap
    <3>2. HeldIn(Balances, id) <= MaxU64
      BY <2>3, HeldFits
    <3>3. n \in U64 /\ s \in Accounts
      OBVIOUS
    <3>4. Balances' = MakeTransfer(Balances, x, s, to, n)
      BY <1>7 DEF transfer
    <3>5. n <= Balances[<<x, s>>]
      BY <1>7, <3>1, <3>3, U64Facts DEF transfer, BalanceMap
    <3>6. CASE id # x \/ to # Pot
      <4>1. Balances'[<<id, Pot>>] = Balances[<<id, Pot>>]
        BY <1>b, <3>1, <3>3, <3>4, <3>6, MakeTransferType
      <4> QED
        BY <1>c, <4>1
    <3>7. CASE id = x /\ to = Pot
      <4>1. Transferred(Balances, Balances', id, s, Pot, n)
        BY <1>b, <3>1, <3>2, <3>3, <3>4, <3>5, <3>7, MakeTransferExact
      <4>2. Balances'[<<id, Pot>>] = Balances[<<id, Pot>>] + n
        BY <1>b, <4>1 DEF Transferred
      <4> QED
        BY <1>c, <3>3, <4>2, U64Facts
    <3> QED
      BY <3>6, <3>7
  <2> QED
    BY <2>1, <2>2, <2>3
<1>8. ASSUME NEW s \in Signers, NEW x \in AssetIds, NEW n \in MoveAmounts,
             neutralize(s, x, n)
      PROVE  Goal
  <2>1. \A id \in DOMAIN Assets : Balances'[<<id, Pot>>] = Balances[<<id, Pot>>]
    BY <1>8, <1>a, <1>b DEF neutralize, TypeOK
  <2> QED
    BY <1>8, <1>c, <2>1 DEF neutralize, has_asset
<1>9. Goal
  <2>1. \/ \E s \in Signers, m \in MaxSupplies, t \in Texts : submit_project(s, m, t)
        \/ \E p \in DOMAIN Projects : approve_project(p)
        \/ \E s \in Signers, x \in DOMAIN Assets, n \in IssueAmounts, t \in Texts :
             submit_issue(s, x, n, t)
        => UNCHANGED <<Assets, Balances, overflowed>>
    BY DEF history, submit_project, approve_project, submit_issue
  <2> HIDE DEF Goal
  <2> QED
    BY <1>1, <1>2, <1>3, <1>4, <1>5, <1>6, <1>7, <1>8, <2>1 DEF Next, Requests, approve
<1> QED
  BY <1>9 DEF has_asset
-----------------------------------------------------------------------------
(* What a payment that pallet_balances accepts does. *)
PaymentMade(from, to, value) ==
  /\ Paid(from, to, value) \in [Accounts -> Nat]
  /\ \A a \in Accounts \ {from, to} : Paid(from, to, value)[a] = money[a]
  /\ (value = 0 \/ from = to) => Paid(from, to, value) = money
  /\ ~(value = 0 \/ from = to) =>
       /\ value <= money[from]
       /\ Paid(from, to, value)[from] =
            IF money[from] - value < ExistentialDeposit THEN 0 ELSE money[from] - value
       /\ Paid(from, to, value)[to] = money[to] + value

LEMMA Payment ==
  ASSUME money \in [Accounts -> Nat], NEW from \in Accounts, NEW to \in Accounts,
         NEW value \in Nat, CanPay(from, to, value)
  PROVE  PaymentMade(from, to, value)
<1>1. CASE value = 0 \/ from = to
  BY <1>1 DEF PaymentMade, Paid
<1>2. CASE ~(value = 0 \/ from = to)
  <2>1. value <= money[from] /\ money[from] \in Nat /\ money[to] \in Nat
    BY <1>2 DEF CanPay
  <2>2. PICK rest \in Nat :
          rest = IF money[from] - value < ExistentialDeposit THEN 0 ELSE money[from] - value
    BY <2>1, ExchangeAssumption
  <2>3. Paid(from, to, value) = [money EXCEPT ![from] = rest, ![to] = money[to] + value]
    BY <1>2, <2>2 DEF Paid
  <2>4. /\ Paid(from, to, value) \in [Accounts -> Nat]
        /\ \A a \in Accounts \ {from, to} : Paid(from, to, value)[a] = money[a]
        /\ Paid(from, to, value)[from] = rest
        /\ Paid(from, to, value)[to] = money[to] + value
    BY <1>2, <2>1, <2>3
  <2> QED
    BY <1>2, <2>1, <2>2, <2>4 DEF PaymentMade
<1> QED
  BY <1>1, <1>2

(* Storing and removing an order. *)
Stored(O, P, o, r) ==
  /\ OrderMap(P) /\ SameBut(O, P, o)
  /\ DOMAIN P = DOMAIN O \cup {o} /\ P[o] = r

LEMMA InsertOrder ==
  ASSUME NEW O, OrderMap(O), NEW o \in OrderIds, NEW r \in Order, NEW P, P = Insert(O, o, r)
  PROVE  Stored(O, P, o, r)
<1>1. /\ DOMAIN P = DOMAIN O \cup {o} /\ P[o] = r
      /\ \A k \in DOMAIN O \ {o} : P[k] = O[k]
  BY DEF Insert
<1>2. IsFiniteSet(DOMAIN P) /\ DOMAIN P \subseteq OrderIds
  BY <1>1, FS_AddElement DEF OrderMap
<1>3. P \in [DOMAIN P -> Order]
  BY <1>1 DEF OrderMap, Insert
<1> QED
  BY <1>1, <1>2, <1>3 DEF Stored, OrderMap, SameBut

LEMMA RemoveOrder ==
  ASSUME NEW O, OrderMap(O), NEW o, NEW P, P = Remove(O, o)
  PROVE  OrderMap(P) /\ SameBut(O, P, o) /\ o \notin DOMAIN P /\ DOMAIN P \subseteq DOMAIN O
<1>1. DOMAIN P = DOMAIN O \ {o} /\ \A k \in DOMAIN P : P[k] = O[k]
  BY DEF Remove
<1>2. IsFiniteSet(DOMAIN P)
  BY <1>1, FS_Subset DEF OrderMap
<1>3. P \in [DOMAIN P -> Order]
  BY <1>1 DEF OrderMap, Remove
<1> QED
  BY <1>1, <1>2, <1>3 DEF OrderMap, SameBut

(* What take_order leaves of an order. *)
LEMMA FilledType ==
  ASSUME NEW r \in Order, NEW n \in U64, n <= r.left_amount, NEW m \in U64
  PROVE  /\ Filled(r, n, m) \in Order
         /\ Filled(r, n, m).asset_id = r.asset_id /\ Filled(r, n, m).maker = r.maker
         /\ Filled(r, n, m).price = r.price /\ Filled(r, n, m).direction = r.direction
         /\ Filled(r, n, m).amount = r.amount
         /\ Filled(r, n, m).left_amount = r.left_amount - n
         /\ r.direction = BID =>
              Filled(r, n, m).locked_balance = WrapSub(r.locked_balance, m)
         /\ r.direction # BID => Filled(r, n, m).locked_balance = r.locked_balance
<1>1. r.left_amount \in U64 /\ r.locked_balance \in U64
  BY DEF Order
<1>2. r.left_amount - n \in U64
  BY <1>1, U64Facts
<1>3. WrapSub(r.locked_balance, m) \in U64
  BY <1>1, WrapType
<1> QED
  BY <1>1, <1>2, <1>3 DEF Filled, Order

(* The end of take_order. *)
LEMMA DealtEffect ==
  ASSUME OrderMap(Orders), NEW o \in DOMAIN Orders, NEW r \in Order, Dealt(o, r)
  PROVE  /\ OrderMap(Orders') /\ SameBut(Orders, Orders', o)
         /\ DOMAIN Orders' \subseteq DOMAIN Orders
         /\ \A K : PartOf(Orders', o, K, "left_amount") = IF r \in K THEN r.left_amount ELSE 0
         /\ o \in DOMAIN Orders' => Orders'[o] = r /\ r.left_amount > 0
         /\ o \notin DOMAIN Orders' => r.left_amount = 0
         /\ events' # <<>>
<1>0. r.left_amount \in Nat /\ o \in OrderIds
  BY U64Facts DEF Order, OrderMap
<1>1. CASE r.left_amount > 0
  <2>1. Orders' = Insert(Orders, o, r) /\ events' # <<>>
    <3>1. Orders' = Insert(Orders, o, r) /\ \E x : events' = <<x>>
      BY <1>1, Zenon DEF Dealt
    <3> QED
      BY <3>1
  <2>2. Stored(Orders, Orders', o, r)
    BY <1>0, <2>1, InsertOrder
  <2> QED
    BY <1>1, <2>1, <2>2 DEF PartOf, Stored
<1>2. CASE r.left_amount = 0
  <2>1. Orders' = Remove(Orders, o) /\ events' # <<>>
    BY <1>2 DEF Dealt
  <2>2. /\ OrderMap(Orders') /\ SameBut(Orders, Orders', o)
        /\ o \notin DOMAIN Orders' /\ DOMAIN Orders' \subseteq DOMAIN Orders
    BY <2>1, RemoveOrder
  <2> QED
    BY <1>2, <2>1, <2>2 DEF PartOf
<1> QED
  BY <1>0, <1>1, <1>2

(* What the pot has beyond the asks changes by what the pot gets, less what *)
(* the one order offers more than before.                                   *)
LEMMA SurplusBy ==
  ASSUME NEW O, OrderMap(O), NEW P, OrderMap(P), NEW o, SameBut(O, P, o), NEW id,
         NEW b \in Nat, NEW c \in Nat,
         c - PartOf(P, o, AskRecords(id), "left_amount")
           >= b - PartOf(O, o, AskRecords(id), "left_amount")
  PROVE  c - AskSum(P, id) >= b - AskSum(O, id)
<1> DEFINE K == AskRecords(id)
<1>1. "left_amount" \in Fields
  BY DEF Fields
<1> HIDE DEF K
<1>2. /\ SumOver(O, K, "left_amount") \in Nat /\ SumOver(P, K, "left_amount") \in Nat
      /\ PartOf(O, o, K, "left_amount") \in Nat /\ PartOf(P, o, K, "left_amount") \in Nat
      /\ SumOver(P, K, "left_amount") + PartOf(O, o, K, "left_amount")
           = SumOver(O, K, "left_amount") + PartOf(P, o, K, "left_amount")
  BY <1>1, CustodyUpdate
<1>3. c - PartOf(P, o, K, "left_amount") >= b - PartOf(O, o, K, "left_amount")
  BY DEF K
<1>4. c - SumOver(P, K, "left_amount") >= b - SumOver(O, K, "left_amount")
  BY <1>2, <1>3
<1> QED
  BY <1>4 DEF K, AskSum
-----------------------------------------------------------------------------
(* What a step of the exchange proper does to the pot's surplus of assets.  *)
SurplusKept ==
  \A id \in DOMAIN Assets : id \notin overflowed =>
    Balances'[<<id, Pot>>] - AskSum(Orders', id) >= Balances[<<id, Pot>>] - AskSum(Orders, id)

LEMMA PotFacts ==
  ASSUME SupplyInv
  PROVE  /\ TypeOK /\ Balances \in BalanceMap
         /\ Pot \in Accounts /\ Pot \notin Signers /\ Signers \subseteq Accounts
         /\ \A id \in DOMAIN Assets : id \in AssetIds /\ Balances[<<id, Pot>>] \in Nat
<1>1. TypeOK
  BY DEF SupplyInv
<1> QED
  BY <1>1, U64Facts, ExchangeAssumption, CarbonAssumption DEF TypeOK, BalanceMap

LEMMA MakeStep ==
  ASSUME ExchangeInv, NEW maker \in Signers, NEW x \in AssetIds, NEW price \in Prices,
         NEW n \in OrderAmounts, NEW direction \in {ASK, BID}, NEW salt \in Salts,
         make_order(maker, x, price, n, direction, salt)
  PROVE  ExchangeCore' /\ SurplusKept
<1> DEFINE o == <<"order", maker, x, price, n, direction, salt>>
           locked == Locked(direction, n, price)
           r == [asset_id |-> x, maker |-> maker, amount |-> n, price |-> price, left_amount |-> n,
                 direction |-> direction, locked_balance |-> locked]
<1>1. /\ SupplyInv /\ OrderMap(Orders) /\ money \in [Accounts -> Nat] /\ OrdersKnown
  BY DEF ExchangeInv, ExchangeCore
<1>2. /\ TypeOK /\ Balances \in BalanceMap
      /\ Pot \in Accounts /\ Pot \notin Signers /\ maker \in Accounts /\ maker # Pot
      /\ \A id \in DOMAIN Assets : id \in AssetIds /\ Balances[<<id, Pot>>] \in Nat
  BY <1>1, PotFacts
<1>3. n \in U64 /\ price \in U64 /\ n \in Nat
  BY ExchangeAssumption, U64Facts
<1>4. locked \in U64 /\ locked \in Nat
  BY <1>3, SaturatingMulType, U64Facts DEF Locked
<1>5. o \in OrderIds
  BY DEF OrderIds
<1>6. /\ r.left_amount = n /\ r.direction = direction /\ r.asset_id = x
  OBVIOUS
<1>7. r \in Order
  BY <1>3, <1>4 DEF Order
<1>8. /\ has_asset(x) /\ o \notin DOMAIN Orders /\ Orders' = Insert(Orders, o, r)
      /\ UNCHANGED <<Projects, Assets, Issues, Burns, history>>
      /\ overflowed' = overflowed
      /\ \/ /\ direction = ASK
            /\ Balances[<<x, maker>>] >= n
            /\ Balances' = MakeTransfer(Balances, x, maker, Pot, n)
            /\ UNCHANGED money
         \/ /\ direction = BID
            /\ CanPay(maker, Pot, locked)
            /\ money' = Paid(maker, Pot, locked)
            /\ UNCHANGED Balances
  BY DEF make_order, history
<1> HIDE DEF o, r, locked
<1>9. Stored(Orders, Orders', o, r)
  BY <1>1, <1>5, <1>7, <1>8, InsertOrder
<1>10. OrderMap(Orders') /\ SameBut(Orders, Orders', o)
  BY <1>9 DEF Stored
<1>11. OrdersKnown'
  <2>1. \A y : has_asset(y)' <=> has_asset(y)
    BY <1>8 DEF has_asset
  <2>2. \A k \in DOMAIN Orders' : has_asset(Orders'[k].asset_id)
    BY <1>1, <1>6, <1>8, <1>9 DEF OrdersKnown, Stored, SameBut
  <2> QED
    BY <2>1, <2>2 DEF OrdersKnown
<1>12. \A id : PartOf(Orders, o, AskRecords(id), "left_amount") = 0
  BY <1>8 DEF PartOf
<1>13. \A id : PartOf(Orders', o, AskRecords(id), "left_amount")
                 = IF direction = ASK /\ id = x THEN n ELSE 0
  BY <1>6, <1>7, <1>9 DEF PartOf, AskRecords, Stored
<1>14. CASE direction = BID
  <2>1. CanPay(maker, Pot, locked) /\ money' = Paid(maker, Pot, locked) /\ UNCHANGED Balances
    BY <1>8, <1>14 DEF ASK, BID
  <2>2. PaymentMade(maker, Pot, locked)
    BY <1>1, <1>2, <1>4, <2>1, Payment
  <2>3. money' \in [Accounts -> Nat]
    BY <2>1, <2>2 DEF PaymentMade
  <2>4. SupplyInv'
    BY <1>1, <1>8, <2>1, LedgerSame
  <2>5. ASSUME NEW id \in DOMAIN Assets, id \notin overflowed
        PROVE  Balances'[<<id, Pot>>] - AskSum(Orders', id)
                 >= Balances[<<id, Pot>>] - AskSum(Orders, id)
    <3>1. PartOf(Orders', o, AskRecords(id), "left_amount") = 0
      BY <1>13, <1>14 DEF ASK, BID
    <3> QED
      BY <1>1, <1>2, <1>10, <1>12, <2>1, <3>1, SurplusBy
  <2> QED
    BY <1>10, <1>11, <2>3, <2>4, <2>5 DEF ExchangeCore, SurplusKept
<1>15. CASE direction = ASK
  <2>1. /\ n <= Balances[<<x, maker>>] /\ UNCHANGED money
        /\ Balances' = MakeTransfer(Balances, x, maker, Pot, n)
    BY <1>2, <1>3, <1>8, <1>15, U64Facts DEF ASK, BID, BalanceMap
  <2>2. /\ SupplyInv' /\ Balances' \in BalanceMap
        /\ \A y \in AssetIds, a \in Accounts :
             (y # x \/ (a # maker /\ a # Pot)) => Balances'[<<y, a>>] = Balances[<<y, a>>]
        /\ x \notin overflowed => Transferred(Balances, Balances', x, maker, Pot, n)
    BY <1>1, <1>2, <1>3, <1>8, <2>1, LedgerMove
  <2>3. ASSUME NEW id \in DOMAIN Assets, id \notin overflowed
        PROVE  Balances'[<<id, Pot>>] - AskSum(Orders', id)
                 >= Balances[<<id, Pot>>] - AskSum(Orders, id)
    <3>1. CASE id = x
      <4>1. PartOf(Orders', o, AskRecords(id), "left_amount") = n
        BY <1>13, <1>15, <3>1
      <4>2. Balances'[<<id, Pot>>] = Balances[<<id, Pot>>] + n
        BY <1>2, <2>2, <2>3, <3>1 DEF Transferred
      <4>3. /\ Balances'[<<id, Pot>>] - n >= Balances[<<id, Pot>>] - 0
            /\ Balances'[<<id, Pot>>] \in Nat /\ Balances[<<id, Pot>>] \in Nat
        BY <1>2, <1>3, <2>3, <4>2
      <4> QED
        BY <1>1, <1>10, <1>12, <4>1, <4>3, SurplusBy
    <3>2. CASE id # x
      <4>1. PartOf(Orders', o, AskRecords(id), "left_amount") = 0
        BY <1>13, <3>2
      <4>2. Balances'[<<id, Pot>>] = Balances[<<id, Pot>>]
        BY <1>2, <2>2, <2>3, <3>2
      <4> QED
        BY <1>1, <1>2, <1>10, <1>12, <4>1, <4>2, SurplusBy
    <3> QED
      BY <3>1, <3>2
  <2> QED
    BY <1>1, <1>10, <1>11, <2>1, <2>2, <2>3 DEF ExchangeCore, SurplusKept
<1> QED
  BY <1>14, <1>15

(* What an open order is, in a state that satisfies the invariant. *)
LEMMA OrderFacts ==
  ASSUME ExchangeCore, NEW o \in DOMAIN Orders
  PROVE  /\ Orders[o] \in Order /\ o \in OrderIds
         /\ Orders[o].asset_id \in AssetIds /\ has_asset(Orders[o].asset_id)
         /\ Orders[o].maker \in Signers /\ Orders[o].price \in U64
         /\ Orders[o].left_amount \in U64 /\ Orders[o].locked_balance \in U64
         /\ Orders[o].direction \in {ASK, BID}
<1>1. Orders[o] \in Order /\ o \in OrderIds /\ has_asset(Orders[o].asset_id)
  BY DEF ExchangeCore, OrderMap, OrdersKnown
<1> QED
  BY <1>1 DEF Order

(* Removed or changed orders keep their asset. *)
LEMMA KnownStays ==
  ASSUME ExchangeCore, UNCHANGED Assets, NEW o \in DOMAIN Orders, SameBut(Orders, Orders', o),
         o \in DOMAIN Orders' => Orders'[o].asset_id = Orders[o].asset_id
  PROVE  OrdersKnown'
<1>1. \A y : has_asset(y)' <=> has_asset(y)
  BY DEF has_asset
<1>2. \A k \in DOMAIN Orders' : has_asset(Orders'[k].asset_id)
  BY DEF ExchangeCore, OrdersKnown, SameBut
<1> QED
  BY <1>1, <1>2 DEF OrdersKnown

LEMMA TakeStep ==
  ASSUME ExchangeInv, NEW taker \in Signers, NEW o \in DOMAIN Orders, NEW n \in TakeAmounts,
         take_order(taker, o, n)
  PROVE  ExchangeCore' /\ SurplusKept
<1> DEFINE r == Orders[o]
           m == SaturatingMul(n, r.price)
           q == Filled(r, n, m)
           x == r.asset_id
<1>1. /\ ExchangeCore /\ SupplyInv /\ OrderMap(Orders) /\ money \in [Accounts -> Nat]
  BY DEF ExchangeInv, ExchangeCore
<1>2. /\ TypeOK /\ Balances \in BalanceMap
      /\ Pot \in Accounts /\ Pot \notin Signers /\ taker \in Accounts /\ taker # Pot
      /\ \A id \in DOMAIN Assets : id \in AssetIds /\ Balances[<<id, Pot>>] \in Nat
  BY <1>1, PotFacts
<1>3. /\ r \in Order /\ x \in AssetIds /\ has_asset(x)
      /\ r.maker \in Signers /\ r.maker \in Accounts /\ r.maker # Pot /\ r.price \in U64
      /\ r.left_amount \in U64 /\ r.direction \in {ASK, BID}
  BY <1>1, <1>2, PotFacts, OrderFacts
<1>4. n \in U64 /\ n \in Nat /\ m \in U64 /\ m \in Nat
  BY <1>3, SaturatingMulType, ExchangeAssumption, U64Facts
<1>5. /\ r.left_amount >= n /\ UNCHANGED <<Projects, Assets, Issues, Burns, history>>
      /\ Dealt(o, q)
      /\ \/ /\ r.direction = ASK
            /\ Balances[<<x, Pot>>] >= n
            /\ CanPay(taker, r.maker, m)
            /\ money' = Paid(taker, r.maker, m)
            /\ Balances' = MakeTransfer(Balances, x, Pot, taker, n)
         \/ /\ r.direction = BID
            /\ Balances[<<x, taker>>] >= n
            /\ Balances' = MakeTransfer(Balances, x, taker, r.maker, n)
            /\ CanPay(Pot, taker, m)
            /\ money' = Paid(Pot, taker, m)
  BY DEF take_order
<1>6. n <= r.left_amount /\ r.left_amount \in Nat
  BY <1>3, <1>4, <1>5, U64Facts
<1>7. /\ q \in Order /\ q.asset_id = x /\ q.direction = r.direction
      /\ q.left_amount = r.left_amount - n
  BY <1>3, <1>4, <1>6, FilledType
<1> HIDE DEF m, q
<1>8. /\ OrderMap(Orders') /\ SameBut(Orders, Orders', o)
      /\ \A K : PartOf(Orders', o, K, "left_amount") = IF q \in K THEN q.left_amount ELSE 0
      /\ o \in DOMAIN Orders' => Orders'[o] = q
  BY <1>1, <1>5, <1>7, DealtEffect
<1>9. OrdersKnown'
  BY <1>1, <1>5, <1>7, <1>8, KnownStays
<1>10. \A id : PartOf(Orders, o, AskRecords(id), "left_amount")
                 = IF r.direction = ASK /\ id = x THEN r.left_amount ELSE 0
  BY <1>3 DEF PartOf, AskRecords
<1>11. \A id : PartOf(Orders', o, AskRecords(id), "left_amount")
                 = IF r.direction = ASK /\ id = x THEN r.left_amount - n ELSE 0
  BY <1>7, <1>8 DEF AskRecords
<1> HIDE DEF r, x
<1>12. CASE r.direction = ASK
  <2>1. /\ n <= Balances[<<x, Pot>>] /\ CanPay(taker, r.maker, m)
        /\ money' = Paid(taker, r.maker, m)
        /\ Balances' = MakeTransfer(Balances, x, Pot, taker, n)
    BY <1>2, <1>3, <1>4, <1>5, <1>12, U64Facts DEF ASK, BID, BalanceMap
  <2>2. /\ SupplyInv' /\ Balances' \in BalanceMap
        /\ \A y \in AssetIds, a \in Accounts :
             (y # x \/ (a # Pot /\ a # taker)) => Balances'[<<y, a>>] = Balances[<<y, a>>]
        /\ x \notin overflowed => Transferred(Balances, Balances', x, Pot, taker, n)
    BY <1>1, <1>2, <1>3, <1>4, <1>5, <2>1, LedgerMove
  <2>3. PaymentMade(taker, r.maker, m)
    BY <1>1, <1>2, <1>3, <1>4, <2>1, Payment
  <2>4. money' \in [Accounts -> Nat]
    BY <2>1, <2>3 DEF PaymentMade
  <2>5. ASSUME NEW id \in DOMAIN Assets, id \notin overflowed
        PROVE  Balances'[<<id, Pot>>] - AskSum(Orders', id)
                 >= Balances[<<id, Pot>>] - AskSum(Orders, id)
    <3>1. Balances'[<<id, Pot>>] \in Nat /\ Balances[<<id, Pot>>] \in Nat
      BY <1>2, <2>2, <2>5, U64Facts DEF BalanceMap
    <3>2. CASE id = x
      <4>1. Balances'[<<id, Pot>>] = Balances[<<id, Pot>>] - n
        BY <1>2, <2>2, <2>5, <3>2 DEF Transferred
      <4>2. /\ PartOf(Orders', o, AskRecords(id), "left_amount") = r.left_amount - n
            /\ PartOf(Orders, o, AskRecords(id), "left_amount") = r.left_amount
        BY <1>10, <1>11, <1>12, <3>2
      <4>3. Balances'[<<id, Pot>>] - (r.left_amount - n) >= Balances[<<id, Pot>>] - r.left_amount
        BY <1>4, <1>6, <3>1, <4>1
      <4> QED
        BY <1>1, <1>8, <3>1, <4>2, <4>3, SurplusBy
    <3>3. CASE id # x
      <4>1. Balances'[<<id, Pot>>] = Balances[<<id, Pot>>]
        BY <1>2, <2>2, <2>5, <3>3
      <4>2. /\ PartOf(Orders', o, AskRecords(id), "left_amount") = 0
            /\ PartOf(Orders, o, AskRecords(id), "left_amount") = 0
        BY <1>10, <1>11, <3>3
      <4> QED
        BY <1>1, <1>8, <3>1, <4>1, <4>2, SurplusBy
    <3> QED
      BY <3>2, <3>3
  <2> QED
    BY <1>8, <1>9, <2>2, <2>4, <2>5 DEF ExchangeCore, SurplusKept
<1>13. CASE r.direction = BID
  <2>1. /\ n <= Balances[<<x, taker>>] /\ CanPay(Pot, taker, m)
        /\ money' = Paid(Pot, taker, m)
        /\ Balances' = MakeTransfer(Balances, x, taker, r.maker, n)
    BY <1>2, <1>3, <1>4, <1>5, <1>13, U64Facts DEF ASK, BID, BalanceMap
  <2>2. /\ SupplyInv' /\ Balances' \in BalanceMap
        /\ \A y \in AssetIds, a \in Accounts :
             (y # x \/ (a # taker /\ a # r.maker)) => Balances'[<<y, a>>] = Balances[<<y, a>>]
    BY <1>1, <1>2, <1>3, <1>4, <1>5, <2>1, LedgerMove
  <2>3. PaymentMade(Pot, taker, m)
    BY <1>1, <1>2, <1>3, <1>4, <2>1, Payment
  <2>4. money' \in [Accounts -> Nat]
    BY <2>1, <2>3 DEF PaymentMade
  <2>5. ASSUME NEW id \in DOMAIN Assets, id \notin overflowed
        PROVE  Balances'[<<id, Pot>>] - AskSum(Orders', id)
                 >= Balances[<<id, Pot>>] - AskSum(Orders, id)
    <3>1. Balances'[<<id, Pot>>] = Balances[<<id, Pot>>] /\ Balances[<<id, Pot>>] \in Nat
      BY <1>2, <1>3, <2>2, <2>5
    <3>2. /\ PartOf(Orders', o, AskRecords(id), "left_amount") = 0
          /\ PartOf(Orders, o, AskRecords(id), "left_amount") = 0
      BY <1>10, <1>11, <1>13 DEF ASK, BID
    <3> QED
      BY <1>1, <1>8, <3>1, <3>2, SurplusBy
  <2> QED
    BY <1>8, <1>9, <2>2, <2>4, <2>5 DEF ExchangeCore, SurplusKept
<1> QED
  BY <1>3, <1>12, <1>13 DEF r

LEMMA TakeFailsStep ==
  ASSUME ExchangeInv, NEW taker \in Signers, NEW o \in DOMAIN Orders, NEW n \in TakeAmounts,
         take_order_fails(taker, o, n)
  PROVE  ExchangeCore' /\ SurplusKept
<1> DEFINE r == Orders[o]
           x == r.asset_id
<1>1. /\ ExchangeCore /\ SupplyInv /\ OrderMap(Orders) /\ money \in [Accounts -> Nat]
  BY DEF ExchangeInv, ExchangeCore
<1>2. /\ TypeOK /\ Balances \in BalanceMap
      /\ Pot \in Accounts /\ Pot \notin Signers /\ taker \in Accounts /\ taker # Pot
      /\ \A id \in DOMAIN Assets : id \in AssetIds /\ Balances[<<id, Pot>>] \in Nat
  BY <1>1, PotFacts
<1>3. /\ x \in AssetIds /\ has_asset(x) /\ r.maker \in Accounts /\ r.maker # Pot
  BY <1>1, <1>2, PotFacts, OrderFacts
<1>4. n \in U64 /\ n \in Nat
  BY ExchangeAssumption, U64Facts
<1>5. /\ UNCHANGED <<Projects, Assets, Issues, Burns, history>> /\ UNCHANGED <<Orders, money>>
      /\ Balances[<<x, taker>>] >= n
      /\ Balances' = MakeTransfer(Balances, x, taker, r.maker, n)
  BY DEF take_order_fails
<1> HIDE DEF r, x
<1>6. n <= Balances[<<x, taker>>]
  BY <1>2, <1>3, <1>4, <1>5, U64Facts DEF BalanceMap
<1>7. /\ SupplyInv' /\ Balances' \in BalanceMap
      /\ \A y \in AssetIds, a \in Accounts :
           (y # x \/ (a # taker /\ a # r.maker)) => Balances'[<<y, a>>] = Balances[<<y, a>>]
  BY <1>1, <1>2, <1>3, <1>4, <1>5, <1>6, LedgerMove
<1>8. SurplusKept
  <2> SUFFICES ASSUME NEW id \in DOMAIN Assets
               PROVE  Balances'[<<id, Pot>>] - AskSum(Orders', id)
                        >= Balances[<<id, Pot>>] - AskSum(Orders, id)
    BY DEF SurplusKept
  <2>1. Balances'[<<id, Pot>>] = Balances[<<id, Pot>>] /\ Balances[<<id, Pot>>] \in Nat
    BY <1>2, <1>3, <1>7
  <2>2. AskSum(Orders, id) \in Nat
    BY <1>1, CustodyBound DEF AskSum, Fields
  <2> QED
    BY <1>5, <2>1, <2>2
<1>9. OrdersKnown'
  <2>1. OrdersKnown
    BY <1>1 DEF ExchangeCore
  <2> QED
    BY <1>5, <2>1 DEF OrdersKnown, has_asset
<1> QED
  BY <1>1, <1>5, <1>7, <1>8, <1>9 DEF ExchangeCore

LEMMA CancelStep ==
  ASSUME ExchangeInv, NEW sender \in Signers, NEW o \in DOMAIN Orders,
         cancel_order(sender, o)
  PROVE  ExchangeCore' /\ SurplusKept
<1> DEFINE r == Orders[o]
           x == r.asset_id
           n == r.left_amount
<1>1. /\ ExchangeCore /\ SupplyInv /\ OrderMap(Orders) /\ money \in [Accounts -> Nat]
  BY DEF ExchangeInv, ExchangeCore
<1>2. /\ TypeOK /\ Balances \in BalanceMap
      /\ Pot \in Accounts /\ Pot \notin Signers /\ sender \in Accounts /\ sender # Pot
      /\ \A id \in DOMAIN Assets : id \in AssetIds /\ Balances[<<id, Pot>>] \in Nat
  BY <1>1, PotFacts
<1>3. /\ r \in Order /\ x \in AssetIds /\ has_asset(x) /\ x \in DOMAIN Assets
      /\ n \in U64 /\ n \in Nat /\ r.direction \in {ASK, BID}
      /\ r.locked_balance \in Nat
  BY <1>1, <1>2, PotFacts, OrderFacts, U64Facts DEF has_asset
<1>4. /\ UNCHANGED <<Projects, Assets, Issues, Burns, history>>
      /\ Orders' = Remove(Orders, o)
      /\ \/ /\ r.direction = ASK
            /\ Balances' = MakeTransfer(Balances, x, Pot, sender, n)
            /\ UNCHANGED money
         \/ /\ r.direction = BID
            /\ CanPay(Pot, sender, r.locked_balance)
            /\ money' = Paid(Pot, sender, r.locked_balance)
            /\ UNCHANGED Balances
  BY DEF cancel_order
<1>5. OrderMap(Orders') /\ SameBut(Orders, Orders', o) /\ o \notin DOMAIN Orders'
  BY <1>1, <1>4, RemoveOrder
<1>6. OrdersKnown'
  BY <1>1, <1>4, <1>5, KnownStays
<1>7. \A id : PartOf(Orders, o, AskRecords(id), "left_amount")
                = IF r.direction = ASK /\ id = x THEN n ELSE 0
  BY <1>3 DEF PartOf, AskRecords
<1>8. \A id : PartOf(Orders', o, AskRecords(id), "left_amount") = 0
  BY <1>5 DEF PartOf
<1>9. ASSUME r.direction = ASK, x \notin overflowed
      PROVE  n <= Balances[<<x, Pot>>]
  <2>1. Balances[<<x, Pot>>] >= AskSum(Orders, x)
    BY <1>1, <1>3, <1>9, PotForm DEF ExchangeInv
  <2>2. r \in AskRecords(x)
    BY <1>3, <1>9 DEF AskRecords
  <2>3. /\ AskSum(Orders, x) \in Nat
        /\ n <= AskSum(Orders, x)
    BY <1>1, <2>2, CustodyBound DEF AskSum, Fields
  <2> QED
    BY <1>2, <1>3, <2>1, <2>3
<1> HIDE DEF r, x, n
<1>10. CASE r.direction = ASK
  <2>1. Balances' = MakeTransfer(Balances, x, Pot, sender, n) /\ UNCHANGED money
    BY <1>4, <1>10 DEF ASK, BID
  <2>2. /\ SupplyInv' /\ Balances' \in BalanceMap
        /\ \A y \in AssetIds, a \in Accounts :
             (y # x \/ (a # Pot /\ a # sender)) => Balances'[<<y, a>>] = Balances[<<y, a>>]
        /\ x \notin overflowed => Transferred(Balances, Balances', x, Pot, sender, n)
    BY <1>1, <1>2, <1>3, <1>4, <1>9, <1>10, <2>1, LedgerMove
  <2>3. ASSUME NEW id \in DOMAIN Assets, id \notin overflowed
        PROVE  Balances'[<<id, Pot>>] - AskSum(Orders', id)
                 >= Balances[<<id, Pot>>] - AskSum(Orders, id)
    <3>1. Balances'[<<id, Pot>>] \in Nat /\ Balances[<<id, Pot>>] \in Nat
      BY <1>2, <2>2, <2>3, U64Facts DEF BalanceMap
    <3>2. CASE id = x
      <4>1. Balances'[<<id, Pot>>] = Balances[<<id, Pot>>] - n
        BY <1>2, <2>2, <2>3, <3>2 DEF Transferred
      <4>2. PartOf(Orders, o, AskRecords(id), "left_amount") = n
        BY <1>7, <1>10, <3>2
      <4>3. Balances'[<<id, Pot>>] - 0 >= Balances[<<id, Pot>>] - n
        BY <1>3, <3>1, <4>1
      <4> QED
        BY <1>1, <1>5, <1>8, <3>1, <4>2, <4>3, SurplusBy
    <3>3. CASE id # x
      <4>1. Balances'[<<id, Pot>>] = Balances[<<id, Pot>>]
        BY <1>2, <2>2, <2>3, <3>3
      <4>2. PartOf(Orders, o, AskRecords(id), "left_amount") = 0
        BY <1>7, <3>3
      <4> QED
        BY <1>1, <1>5, <1>8, <3>1, <4>1, <4>2, SurplusBy
    <3> QED
      BY <3>2, <3>3
  <2> QED
    BY <1>1, <1>5, <1>6, <2>1, <2>2, <2>3 DEF ExchangeCore, SurplusKept
<1>11. CASE r.direction = BID
  <2>1. /\ CanPay(Pot, sender, r.locked_balance) /\ UNCHANGED Balances
        /\ money' = Paid(Pot, sender, r.locked_balance)
    BY <1>4, <1>11 DEF ASK, BID
  <2>2. PaymentMade(Pot, sender, r.locked_balance)
    BY <1>1, <1>2, <1>3, <2>1, Payment
  <2>3. money' \in [Accounts -> Nat]
    BY <2>1, <2>2 DEF PaymentMade
  <2>4. SupplyInv'
    BY <1>1, <1>4, <2>1, LedgerSame
  <2>5. ASSUME NEW id \in DOMAIN Assets, id \notin overflowed
        PROVE  Balances'[<<id, Pot>>] - AskSum(Orders', id)
                 >= Balances[<<id, Pot>>] - AskSum(Orders, id)
    <3>1. PartOf(Orders, o, AskRecords(id), "left_amount") = 0
      BY <1>7, <1>11 DEF ASK, BID
    <3> QED
      BY <1>1, <1>2, <1>5, <1>8, <2>1, <3>1, SurplusBy
  <2> QED
    BY <1>5, <1>6, <2>3, <2>4, <2>5 DEF ExchangeCore, SurplusKept
<1> QED
  BY <1>3, <1>10, <1>11 DEF r

LEMMA NativeStep ==
  ASSUME ExchangeInv, NEW sender \in Signers, NEW to \in Accounts, NEW value \in NativeAmounts,
         native_transfer(sender, to, value)
  PROVE  ExchangeCore' /\ UNCHANGED <<carbonVars, history, Orders>>
<1>1. /\ SupplyInv /\ OrderMap(Orders) /\ money \in [Accounts -> Nat] /\ OrdersKnown
  BY DEF ExchangeInv, ExchangeCore
<1>2. /\ CanPay(sender, to, value) /\ money' = Paid(sender, to, value)
      /\ UNCHANGED <<carbonVars, history, Orders>>
  BY DEF native_transfer
<1>3. value \in Nat /\ sender \in Accounts
  BY ExchangeAssumption, CarbonAssumption
<1>4. PaymentMade(sender, to, value)
  BY <1>1, <1>2, <1>3, Payment
<1>5. SupplyInv'
  BY <1>1, <1>2, LedgerSame DEF carbonVars
<1>6. OrdersKnown'
  BY <1>1, <1>2 DEF OrdersKnown, has_asset, carbonVars
<1> QED
  BY <1>1, <1>2, <1>4, <1>5, <1>6 DEF ExchangeCore, PaymentMade

(* A call of carbon-assets leaves orders and money alone. *)
LEMMA AssetStep ==
  ASSUME ExchangeInv, Next, UNCHANGED <<Orders, money>>
  PROVE  /\ ExchangeCore' /\ overflowed \subseteq overflowed'
         /\ \A id \in DOMAIN Assets : id \notin overflowed' =>
              Balances'[<<id, Pot>>] - AskSum(Orders', id)
                >= Balances[<<id, Pot>>] - AskSum(Orders, id)
         /\ \A id \in DOMAIN Assets' : id \notin DOMAIN Assets => ~has_asset(id)
<1>1. /\ SupplyInv /\ OrderMap(Orders) /\ money \in [Accounts -> Nat] /\ OrdersKnown
  BY DEF ExchangeInv, ExchangeCore
<1>2. SupplyInv'
  BY <1>1, SupplyStep
<1>3. /\ \A id : has_asset(id) => has_asset(id)'
      /\ overflowed \subseteq overflowed'
      /\ \A id \in DOMAIN Assets : id \notin overflowed' =>
           Balances'[<<id, Pot>>] >= Balances[<<id, Pot>>]
      /\ \A id \in DOMAIN Assets' : id \notin DOMAIN Assets => ~has_asset(id)
  BY <1>1, <1>2, PotUntouched
<1>4. OrdersKnown'
  BY <1>1, <1>3 DEF OrdersKnown
<1>5. ASSUME NEW id \in DOMAIN Assets, id \notin overflowed'
      PROVE  Balances'[<<id, Pot>>] - AskSum(Orders', id)
               >= Balances[<<id, Pot>>] - AskSum(Orders, id)
  <2>1. AskSum(Orders, id) \in Nat
    BY <1>1, CustodyBound DEF AskSum, Fields
  <2>2. Balances'[<<id, Pot>>] \in Nat /\ Balances[<<id, Pot>>] \in Nat
    <3>1. TypeOK /\ TypeOK' /\ Pot \in Accounts
      BY <1>1, <1>2, PotFacts DEF SupplyInv
    <3> QED
      BY <3>1, U64Facts DEF TypeOK
  <2>3. Balances'[<<id, Pot>>] >= Balances[<<id, Pot>>]
    BY <1>3, <1>5
  <2> QED
    BY <2>1, <2>2, <2>3
<1> QED
  BY <1>1, <1>2, <1>3, <1>4, <1>5 DEF ExchangeCore

(* Every step of the composition keeps the invariant and the surplus. *)
LEMMA ExchangeStep ==
  ASSUME ExchangeInv, [ExchangeNext]_exchangeVars
  PROVE  /\ ExchangeInv' /\ overflowed \subseteq overflowed'
         /\ \A id \in DOMAIN Assets : id \notin overflowed' =>
              Balances'[<<id, Pot>>] - AskSum(Orders', id)
                >= Balances[<<id, Pot>>] - AskSum(Orders, id)
<1> DEFINE Kept == \A id \in DOMAIN Assets : id \notin overflowed' =>
                     Balances'[<<id, Pot>>] - AskSum(Orders', id)
                       >= Balances[<<id, Pot>>] - AskSum(Orders, id)
           Grown == /\ \A id \in DOMAIN Assets' : id \notin DOMAIN Assets => ~has_asset(id)
                    /\ Orders' = Orders \/ Assets' = Assets
           Goal == ExchangeCore' /\ overflowed \subseteq overflowed' /\ Kept /\ Grown
<1>a. /\ ExchangeCore /\ SupplyInv /\ OrderMap(Orders)
  BY DEF ExchangeInv, ExchangeCore
<1>b. \A id : AskSum(Orders, id) \in Nat
  BY <1>a, CustodyBound DEF AskSum, Fields
<1>c. \A id \in DOMAIN Assets : Balances[<<id, Pot>>] \in Nat
  BY <1>a, PotFacts
<1>d. ASSUME ExchangeCore', SurplusKept, UNCHANGED <<Assets, history>>
      PROVE  Goal
  BY <1>d DEF SurplusKept, history
<1>e. ASSUME ExchangeCore', UNCHANGED <<carbonVars, history, Orders>>
      PROVE  Goal
  BY <1>b, <1>c, <1>e DEF carbonVars, history
<1>1. ASSUME Next, UNCHANGED <<Orders, money>>
      PROVE  Goal
  BY <1>1, AssetStep
<1>2. ASSUME NEW maker \in Signers, NEW x \in AssetIds, NEW price \in Prices,
             NEW n \in OrderAmounts, NEW direction \in {ASK, BID}, NEW salt \in Salts,
             make_order(maker, x, price, n, direction, salt)
      PROVE  Goal
  <2>1. UNCHANGED <<Assets, history>>
    BY <1>2 DEF make_order
  <2> QED
    BY <1>2, <1>d, <2>1, MakeStep
<1>3. ASSUME NEW taker \in Signers, NEW o \in DOMAIN Orders, NEW n \in TakeAmounts,
             take_order(taker, o, n)
      PROVE  Goal
  <2>1. UNCHANGED <<Assets, history>>
    BY <1>3 DEF take_order
  <2> QED
    BY <1>3, <1>d, <2>1, TakeStep
<1>4. ASSUME NEW taker \in Signers, NEW o \in DOMAIN Orders, NEW n \in TakeAmounts,
             take_order_fails(taker, o, n)
      PROVE  Goal
  <2>1. UNCHANGED <<Assets, history>>
    BY <1>4 DEF take_order_fails
  <2> QED
    BY <1>4, <1>d, <2>1, TakeFailsStep
<1>5. ASSUME NEW sender \in Signers, NEW o \in DOMAIN Orders, cancel_order(sender, o)
      PROVE  Goal
  <2>1. UNCHANGED <<Assets, history>>
    BY <1>5 DEF cancel_order
  <2> QED
    BY <1>5, <1>d, <2>1, CancelStep
<1>6. ASSUME NEW sender \in Signers, NEW to \in Accounts, NEW value \in NativeAmounts,
             native_transfer(sender, to, value)
      PROVE  Goal
  BY <1>6, <1>e, NativeStep
<1>7. ASSUME UNCHANGED exchangeVars
      PROVE  Goal
  <2>1. UNCHANGED <<carbonVars, history, Orders>> /\ UNCHANGED money
    BY <1>7 DEF exchangeVars, vars
  <2>2. SupplyInv'
    BY <1>a, <2>1, LedgerSame DEF carbonVars
  <2>3. OrdersKnown'
    BY <1>a, <2>1 DEF ExchangeCore, OrdersKnown, has_asset, carbonVars
  <2>4. ExchangeCore'
    BY <1>a, <2>1, <2>2, <2>3 DEF ExchangeCore
  <2> QED
    BY <1>e, <2>1, <2>4
<1> HIDE DEF Goal
<1>8. Goal
  <2>1. ExchangeNext => Goal
    BY <1>1, <1>2, <1>3, <1>4, <1>5, <1>6, Zenon DEF ExchangeNext
  <2>2. ExchangeNext \/ UNCHANGED exchangeVars
    OBVIOUS
  <2> QED
    BY <1>7, <2>1, <2>2
<1>9. ExchangeCore' /\ overflowed \subseteq overflowed' /\ Kept /\ Grown
  BY <1>8 DEF Goal
<1>10. OrderMap(Orders') /\ SupplyInv'
  BY <1>9 DEF ExchangeCore
<1>11. ASSUME NEW id \in DOMAIN Assets', id \notin overflowed'
       PROVE  Balances'[<<id, Pot>>] >= AskSum(Orders', id)
  <2>1. AskSum(Orders', id) \in Nat
    BY <1>10, CustodyBound DEF AskSum, Fields
  <2>2. Balances'[<<id, Pot>>] \in Nat
    <3>1. TypeOK' /\ Pot \in Accounts
      BY <1>10, ExchangeAssumption DEF SupplyInv
    <3> QED
      BY <3>1, U64Facts DEF TypeOK
  <2>3. CASE id \in DOMAIN Assets
    <3>1. Balances[<<id, Pot>>] >= AskSum(Orders, id)
      BY <1>9, <1>11, <1>a, <2>3, PotForm DEF ExchangeInv
    <3>2. Balances'[<<id, Pot>>] - AskSum(Orders', id)
            >= Balances[<<id, Pot>>] - AskSum(Orders, id)
      BY <1>9, <1>11, <2>3
    <3> QED
      BY <1>b, <1>c, <2>1, <2>2, <2>3, <3>1, <3>2
  <2>4. CASE id \notin DOMAIN Assets
    <3>1. UNCHANGED Orders
      BY <1>9, <1>11, <2>4
    <3>2. ~has_asset(id)
      BY <1>9, <1>11, <2>4
    <3>3. \A o \in DOMAIN Orders : Orders[o] \notin AskRecords(id)
      BY <1>a, <3>2 DEF ExchangeCore, OrdersKnown, AskRecords
    <3>4. AskSum(Orders, id) = 0
      BY <1>a, <3>3, CustodyBound DEF AskSum, Fields
    <3> QED
      BY <2>2, <3>1, <3>4
  <2> QED
    BY <2>3, <2>4
<1>12. PotHoldsAsks'
  <2>1. \A id : Total([o \in Asks(id)' |-> Orders'[o].left_amount]) = AskSum(Orders', id)
    BY <1>10, AskSumIs DEF Asks
  <2> QED
    BY <1>11, <2>1 DEF PotHoldsAsks
<1> QED
  BY <1>9, <1>12 DEF ExchangeInv

LEMMA ExchangeStart == ExchangeInit => ExchangeInv
<1> SUFFICES ASSUME ExchangeInit PROVE ExchangeInv
  OBVIOUS
<1>1. /\ SupplyInv /\ Orders = <<>> /\ DOMAIN Orders = {} /\ DOMAIN Assets = {}
  BY SupplyInit DEF ExchangeInit, Init
<1>2. OrderMap(Orders)
  BY <1>1, FS_EmptySet DEF OrderMap
<1>3. money \in [Accounts -> Nat]
  BY ExchangeAssumption DEF ExchangeInit
<1> QED
  BY <1>1, <1>2, <1>3 DEF ExchangeInv, ExchangeCore, OrdersKnown, PotHoldsAsks

LEMMA ExchangeInvariant == ExchangeSpec => []ExchangeInv
BY ExchangeStart, ExchangeStep, PTL DEF ExchangeSpec

(* The supply of every asset is still conserved when the exchange takes     *)
(* part, calls that fail half-way included.                                 *)
THEOREM ExchangeSupplyCorrect == ExchangeSpec => []SupplyConserved
<1>1. ExchangeInv => SupplyConserved
  BY DEF ExchangeInv, ExchangeCore, SupplyInv
<1> QED
  BY <1>1, ExchangeInvariant, PTL

(* The pot always holds what the open asks offer: take_order never meets    *)
(* InsuffientPotAsset, and the unchecked debit of cancel_order never wraps. *)
THEOREM PotHoldsAsksCorrect == ExchangeSpec => []PotHoldsAsks
<1>1. ExchangeInv => PotHoldsAsks
  BY DEF ExchangeInv
<1> QED
  BY <1>1, ExchangeInvariant, PTL

(* No step of anyone touches what the pot holds beyond the open asks. *)
THEOREM PotSurplusCorrect == ExchangeSpec => PotSurplusKept
<1> DEFINE Kept ==
      \A id \in DOMAIN Assets :
        Balances'[<<id, Pot>>] - Total([o \in Asks(id)' |-> Orders'[o].left_amount])
          >= Balances[<<id, Pot>>] - Total([o \in Asks(id) |-> Orders[o].left_amount])
        \/ id \in overflowed'
<1>1. ASSUME ExchangeInv, [ExchangeNext]_exchangeVars
      PROVE  Kept
  <2>1. ExchangeInv'
    BY <1>1, ExchangeStep
  <2>2. OrderMap(Orders) /\ OrderMap(Orders')
    BY <1>1, <2>1 DEF ExchangeInv, ExchangeCore
  <2>3. ASSUME NEW id \in DOMAIN Assets
        PROVE  Balances'[<<id, Pot>>] - Total([o \in Asks(id)' |-> Orders'[o].left_amount])
                 >= Balances[<<id, Pot>>] - Total([o \in Asks(id) |-> Orders[o].left_amount])
               \/ id \in overflowed'
    <3>1. Total([o \in Asks(id)' |-> Orders'[o].left_amount]) = AskSum(Orders', id)
      BY <2>2, AskSumIs, Zenon DEF Asks
    <3>2. Total([o \in Asks(id) |-> Orders[o].left_amount]) = AskSum(Orders, id)
      BY <2>2, AskSumIs, Zenon DEF Asks
    <3>3. Balances'[<<id, Pot>>] - AskSum(Orders', id)
            >= Balances[<<id, Pot>>] - AskSum(Orders, id) \/ id \in overflowed'
      BY <1>1, ExchangeStep
    <3> QED
      BY <3>1, <3>2, <3>3, Zenon
  <2> QED
    BY <2>3, Zenon
<1>2. ExchangeInv /\ [ExchangeNext]_exchangeVars => [Kept]_exchangeVars
  BY <1>1
<1> HIDE DEF Kept
<1>3. ExchangeSpec => [][Kept]_exchangeVars
  BY <1>2, ExchangeInvariant, PTL DEF ExchangeSpec
<1> QED
  BY <1>3 DEF Kept, PotSurplusKept
-----------------------------------------------------------------------------
(* BidBacking for one order: what it has locked when amount * price fits a  *)
(* u64, and how much at most when saturating_mul cut the product off.       *)
Fits(r) == r.amount * r.price <= MaxU64
Backed(r) ==
  /\ r.left_amount > 0 /\ r.left_amount <= r.amount
  /\ r.direction = ASK => r.locked_balance = 0
  /\ r.direction = BID /\ Fits(r) => r.locked_balance = r.left_amount * r.price
Limited(r) == r.direction = BID => r.locked_balance <= SaturatingMul(r.left_amount, r.price)
AllBacked == \A o \in DOMAIN Orders :
               Backed(Orders[o]) /\ (o \in wrapped \/ Limited(Orders[o]))

(* Two parts of an order cost no less than the whole of it. *)
LEMMA SaturatedSplit ==
  ASSUME NEW l \in U64, NEW n \in U64, n <= l, NEW p \in U64
  PROVE  /\ l - n \in U64
         /\ SaturatingMul(l, p) \in Nat /\ SaturatingMul(n, p) \in Nat
         /\ SaturatingMul(l - n, p) \in Nat
         /\ SaturatingMul(l, p) <= SaturatingMul(n, p) + SaturatingMul(l - n, p)
         /\ n * p \in Nat /\ n * p <= l * p /\ (l - n) * p = l * p - n * p
         /\ l = n => SaturatingMul(l - n, p) = 0
<1>1. l \in Nat /\ n \in Nat /\ p \in Nat /\ MaxU64 \in Nat
  BY U64Facts
<1>2. l - n \in Nat /\ l - n \in U64
  BY <1>1, U64Facts
<1>3. /\ l * p \in Nat /\ n * p \in Nat /\ (l - n) * p \in Nat
      /\ n * p <= l * p /\ (l - n) * p = l * p - n * p
  BY <1>1, <1>2, Products
<1>4. /\ SaturatingMul(l, p) \in Nat /\ SaturatingMul(n, p) \in Nat
      /\ SaturatingMul(l - n, p) \in Nat
      /\ SaturatingMul(l, p) <= SaturatingMul(n, p) + SaturatingMul(l - n, p)
  BY <1>1, <1>3 DEF SaturatingMul
<1>5. l = n => SaturatingMul(l - n, p) = 0
  <2>1. l = n => (l - n) * p = 0
    BY <1>1
  <2> QED
    BY <1>1, <2>1 DEF SaturatingMul
<1> QED
  BY <1>2, <1>3, <1>4, <1>5

(* The part of a bid that is taken is paid from the bid's own lock, unless  *)
(* that was cut off, and what is left is backed again.                      *)
LEMMA FilledBacked ==
  ASSUME NEW r \in Order, Backed(r), NEW n \in U64, n <= r.left_amount,
         NEW m, m = SaturatingMul(n, r.price)
  PROVE  /\ m \in Nat /\ m \in U64
         /\ Filled(r, n, m).left_amount > 0 => Backed(Filled(r, n, m))
         /\ r.direction = BID /\ Fits(r) => m <= r.locked_balance
         /\ r.direction = BID /\ m <= r.locked_balance =>
              Filled(r, n, m).locked_balance = r.locked_balance - m
         /\ r.direction = BID /\ m <= r.locked_balance /\ Limited(r) =>
              /\ Limited(Filled(r, n, m))
              /\ Filled(r, n, m).left_amount = 0 => Filled(r, n, m).locked_balance = 0
<1> DEFINE q == Filled(r, n, m)
           left == r.left_amount
           price == r.price
<1>1. /\ left \in Nat /\ price \in Nat /\ n \in Nat /\ price \in U64 /\ left \in U64
      /\ r.amount \in U64 /\ r.amount \in Nat /\ left <= r.amount /\ left > 0
      /\ r.locked_balance \in U64 /\ r.locked_balance \in Nat /\ MaxU64 \in Nat
      /\ r.direction \in {ASK, BID}
  BY U64Facts DEF Order, Backed
<1>2. m \in U64 /\ m \in Nat
  BY <1>1, SaturatingMulType, U64Facts
<1>3. /\ q.price = price /\ q.direction = r.direction /\ q.left_amount = left - n
      /\ q.amount = r.amount
      /\ r.direction = BID => q.locked_balance = WrapSub(r.locked_balance, m)
      /\ r.direction # BID => q.locked_balance = r.locked_balance
  BY <1>1, <1>2, FilledType
<1>4. /\ SaturatingMul(left, price) \in Nat /\ SaturatingMul(left - n, price) \in Nat
      /\ SaturatingMul(left, price) <= m + SaturatingMul(left - n, price)
      /\ n * price \in Nat /\ n * price <= left * price
      /\ (left - n) * price = left * price - n * price
      /\ left = n => SaturatingMul(left - n, price) = 0
  BY <1>1, SaturatedSplit
<1>5. left * price <= r.amount * price /\ left * price \in Nat /\ r.amount * price \in Nat
  BY <1>1, Products
<1>6. r.direction = BID /\ Fits(r) =>
        m = n * price /\ m <= r.locked_balance /\ r.locked_balance = left * price
  <2> SUFFICES ASSUME r.direction = BID, Fits(r)
               PROVE  m = n * price /\ m <= r.locked_balance /\ r.locked_balance = left * price
    OBVIOUS
  <2>1. n * price <= MaxU64
    BY <1>1, <1>4, <1>5 DEF Fits
  <2>2. m = n * price
    BY <1>1, <2>1, SaturatingMulType
  <2>3. r.locked_balance = left * price
    BY DEF Backed
  <2> QED
    BY <1>4, <2>2, <2>3
<1>7. m <= r.locked_balance => WrapSub(r.locked_balance, m) = r.locked_balance - m
  BY <1>1, <1>2 DEF WrapSub
<1> HIDE DEF q, left, price
<1>8. r.direction = BID /\ m <= r.locked_balance => q.locked_balance = r.locked_balance - m
  BY <1>3, <1>7
<1>9. q.left_amount > 0 => Backed(q)
  <2> SUFFICES ASSUME q.left_amount > 0
               PROVE  /\ q.left_amount <= q.amount
                      /\ q.direction = ASK => q.locked_balance = 0
                      /\ q.direction = BID /\ Fits(q) =>
                           q.locked_balance = q.left_amount * q.price
    BY DEF Backed
  <2>1. q.left_amount <= q.amount
    BY <1>1, <1>3
  <2>2. q.direction = ASK => q.locked_balance = 0
    BY <1>3 DEF Backed, ASK, BID
  <2>3. Fits(q) <=> Fits(r)
    BY <1>3 DEF Fits, price
  <2>4. q.direction = BID /\ Fits(r) => q.locked_balance = (left - n) * price
    BY <1>3, <1>4, <1>6, <1>8
  <2> QED
    BY <1>3, <2>1, <2>2, <2>3, <2>4
<1>10. r.direction = BID /\ m <= r.locked_balance /\ Limited(r) =>
         q.locked_balance <= SaturatingMul(left - n, price) /\ q.locked_balance \in Nat
  <2>1. r.direction = BID /\ Limited(r) => r.locked_balance <= SaturatingMul(left, price)
    BY DEF Limited, left, price
  <2> QED
    BY <1>1, <1>2, <1>4, <1>8, <2>1
<1>11. r.direction = BID /\ m <= r.locked_balance /\ Limited(r) =>
         /\ Limited(q)
         /\ q.left_amount = 0 => q.locked_balance = 0
  BY <1>1, <1>3, <1>4, <1>10 DEF Limited
<1> QED
  BY <1>2, <1>6, <1>8, <1>9, <1>11 DEF q, left

(* Every order is backed when it is made and stays so. *)
LEMMA BackedStep ==
  ASSUME ExchangeInv, AllBacked, [ExchangeNext]_exchangeVars
  PROVE  AllBacked'
<1> DEFINE Goal == \A k \in DOMAIN Orders' :
                     Backed(Orders'[k]) /\ (k \in wrapped' \/ Limited(Orders'[k]))
<1> SUFFICES Goal
  BY DEF AllBacked, Backed, Limited, Fits
<1>a. ExchangeCore /\ OrderMap(Orders)
  BY DEF ExchangeInv, ExchangeCore
<1>b. \A k \in DOMAIN Orders : Backed(Orders[k]) /\ (k \in wrapped \/ Limited(Orders[k]))
  BY DEF AllBacked
<1>1. ASSUME NEW maker \in Signers, NEW x \in AssetIds, NEW price \in Prices,
             NEW n \in OrderAmounts, NEW direction \in {ASK, BID}, NEW salt \in Salts,
             make_order(maker, x, price, n, direction, salt)
      PROVE  Goal
  <2> DEFINE o == <<"order", maker, x, price, n, direction, salt>>
             locked == Locked(direction, n, price)
             r == [asset_id |-> x, maker |-> maker, amount |-> n, price |-> price,
                   left_amount |-> n, direction |-> direction, locked_balance |-> locked]
  <2>1. n \in U64 /\ price \in U64 /\ n \in Nat
    BY ExchangeAssumption, U64Facts
  <2>2. /\ n * price <= MaxU64 => SaturatingMul(n, price) = n * price
        /\ SaturatingMul(n, price) \in Nat
    BY <2>1, SaturatingMulType, U64Facts
  <2>3. locked = IF direction = BID THEN SaturatingMul(n, price) ELSE 0
    BY DEF Locked
  <2>4. n > 0 /\ Orders' = Insert(Orders, o, r) /\ UNCHANGED wrapped
    BY <1>1 DEF make_order, potHistory
  <2> HIDE DEF locked, o
  <2>5. Backed(r) /\ Limited(r)
    BY <2>1, <2>2, <2>3, <2>4 DEF Backed, Limited, Fits, ASK, BID
  <2> HIDE DEF r
  <2> QED
    BY <1>b, <2>4, <2>5 DEF Insert
<1>2. ASSUME NEW taker \in Signers, NEW o \in DOMAIN Orders, NEW n \in TakeAmounts,
             take_order(taker, o, n)
      PROVE  Goal
  <2> DEFINE r == Orders[o]
             m == SaturatingMul(n, r.price)
             q == Filled(r, n, m)
  <2>1. /\ r \in Order /\ Backed(r) /\ (o \in wrapped \/ Limited(r))
        /\ r.price \in U64 /\ r.left_amount \in U64 /\ r.locked_balance \in Nat
        /\ r.direction \in {ASK, BID}
    BY <1>a, <1>b, OrderFacts, U64Facts
  <2>2. n \in U64 /\ m \in U64 /\ m \in Nat
    BY <2>1, SaturatingMulType, ExchangeAssumption, U64Facts
  <2>3. /\ r.left_amount >= n /\ Dealt(o, q)
        /\ wrapped \subseteq wrapped'
        /\ r.direction = BID /\ ~(m <= r.locked_balance) => o \in wrapped'
    <3>1. /\ r.left_amount >= n /\ Dealt(o, q)
          /\ r.direction = ASK => UNCHANGED wrapped
          /\ r.direction = BID => wrapped' = wrapped \cup {k \in {o} : r.locked_balance < m}
      BY <1>2 DEF take_order, ASK, BID, potHistory
    <3> HIDE DEF q, m, r
    <3> QED
      BY <2>1, <2>2, <3>1 DEF ASK, BID
  <2>4. n <= r.left_amount
    BY <2>1, <2>2, <2>3, U64Facts
  <2>5. q \in Order /\ q.direction = r.direction
    BY <2>1, <2>2, <2>4, FilledType
  <2>6. /\ q.left_amount > 0 => Backed(q)
        /\ r.direction = BID /\ m <= r.locked_balance /\ Limited(r) => Limited(q)
    BY <2>1, <2>2, <2>4, FilledBacked
  <2>7. r.direction # BID => Limited(q)
    BY <2>5 DEF Limited
  <2> HIDE DEF q, m, r
  <2>8. o \in wrapped' \/ Limited(q)
    BY <2>1, <2>3, <2>6, <2>7
  <2>9. /\ SameBut(Orders, Orders', o)
        /\ o \in DOMAIN Orders' => Orders'[o] = q /\ q.left_amount > 0
    BY <1>a, <2>3, <2>5, DealtEffect
  <2> QED
    BY <1>b, <2>3, <2>6, <2>8, <2>9 DEF SameBut
<1>3. ASSUME NEW sender \in Signers, NEW o \in DOMAIN Orders, cancel_order(sender, o)
      PROVE  Goal
  BY <1>3, <1>b DEF cancel_order, Remove
<1>4. ASSUME UNCHANGED <<Orders, wrapped>>
      PROVE  Goal
  BY <1>4, <1>b
<1> HIDE DEF Goal
<1>5. Goal
  <2>1. \/ Next /\ UNCHANGED <<Orders, money, potHistory>>
        \/ \E taker \in Signers, o \in DOMAIN Orders, n \in TakeAmounts :
             take_order_fails(taker, o, n)
        \/ \E sender \in Signers, to \in Accounts, value \in NativeAmounts :
             native_transfer(sender, to, value)
        \/ UNCHANGED exchangeVars
        => UNCHANGED <<Orders, wrapped>>
    BY DEF take_order_fails, native_transfer, exchangeVars, potHistory
  <2> QED
    BY <1>1, <1>2, <1>3, <1>4, <2>1 DEF ExchangeNext
<1> QED
  BY <1>5

(* Whatever the prices and amounts: an open bid has always locked exactly   *)
(* the price of what it still asks for, however it was filled; or, where    *)
(* saturating_mul cut its price off, no more than that.                     *)
THEOREM BidBackingCorrect == ExchangeSpec => []BidBacking
<1>1. ExchangeInit => AllBacked
  BY DEF ExchangeInit, AllBacked
<1>2. AllBacked => BidBacking
  BY DEF AllBacked, Backed, Limited, Fits, BidBacking
<1>3. ExchangeInv /\ AllBacked /\ [ExchangeNext]_exchangeVars => AllBacked'
  BY BackedStep
<1> QED
  BY <1>1, <1>2, <1>3, ExchangeInvariant, PTL DEF ExchangeSpec
-----------------------------------------------------------------------------
(* What the pot has lost by being reaped, and what it still has, cover the  *)
(* open bids, until a locked_balance wraps.                                 *)
PotPaysBids == wrapped = {} => money[Pot] + dust >= BidSum(Orders)
MoneyInv ==
  ExchangeInv /\ AllBacked /\ dust \in Nat /\ wrapped \subseteq OrderIds /\ PotPaysBids

(* A payment takes from the pot what is paid, and the dust of it. *)
LEMMA PotDust ==
  ASSUME money \in [Accounts -> Nat], NEW to \in Accounts, to # Pot, NEW v \in Nat,
         CanPay(Pot, to, v), money' = Paid(Pot, to, v)
  PROVE  /\ money[Pot] \in Nat /\ money'[Pot] \in Nat /\ Dust(Pot, to, v) \in Nat
         /\ money'[Pot] + Dust(Pot, to, v) = money[Pot] - v
<1>1. Pot \in Accounts /\ ExistentialDeposit \in Nat
  BY ExchangeAssumption
<1>2. PaymentMade(Pot, to, v) /\ money[Pot] \in Nat
  BY <1>1, Payment
<1>3. CASE v = 0
  BY <1>1, <1>2, <1>3 DEF PaymentMade, Dust
<1>4. CASE v # 0
  <2>1. /\ v <= money[Pot]
        /\ money'[Pot] = IF money[Pot] - v < ExistentialDeposit THEN 0 ELSE money[Pot] - v
    BY <1>2, <1>4 DEF PaymentMade
  <2> QED
    BY <1>1, <1>2, <1>4, <2>1 DEF Dust
<1> QED
  BY <1>3, <1>4

(* What the pot pays for one order comes out of that order's lock. *)
LEMMA PotPays ==
  ASSUME OrderMap(Orders), money \in [Accounts -> Nat], OrderMap(Orders'), dust \in Nat,
         money[Pot] + dust >= BidSum(Orders), NEW o, SameBut(Orders, Orders', o),
         NEW to \in Accounts, to # Pot, NEW v \in Nat, CanPay(Pot, to, v),
         money' = Paid(Pot, to, v), dust' = dust + Dust(Pot, to, v),
         PartOf(Orders', o, BidRecords, "locked_balance") + v
           = PartOf(Orders, o, BidRecords, "locked_balance")
  PROVE  money'[Pot] + dust' >= BidSum(Orders')
<1>1. "locked_balance" \in Fields
  BY DEF Fields
<1>2. /\ BidSum(Orders) \in Nat /\ BidSum(Orders') \in Nat
      /\ PartOf(Orders, o, BidRecords, "locked_balance") \in Nat
      /\ PartOf(Orders', o, BidRecords, "locked_balance") \in Nat
      /\ BidSum(Orders') + PartOf(Orders, o, BidRecords, "locked_balance")
           = BidSum(Orders) + PartOf(Orders', o, BidRecords, "locked_balance")
  BY <1>1, CustodyUpdate DEF BidSum
<1>3. BidSum(Orders') + v = BidSum(Orders)
  BY <1>2
<1>4. /\ money[Pot] \in Nat /\ money'[Pot] \in Nat /\ Dust(Pot, to, v) \in Nat
      /\ money'[Pot] + Dust(Pot, to, v) = money[Pot] - v
  BY PotDust
<1> QED
  BY <1>2, <1>3, <1>4

(* Others' payments leave the pot's money alone or add to it. *)
LEMMA PotReceives ==
  ASSUME money \in [Accounts -> Nat], NEW from \in Accounts, from # Pot, NEW to \in Accounts,
         NEW v \in Nat, CanPay(from, to, v), money' = Paid(from, to, v)
  PROVE  /\ money'[Pot] \in Nat /\ money[Pot] \in Nat
         /\ money'[Pot] = IF to = Pot THEN money[Pot] + v ELSE money[Pot]
<1>1. PaymentMade(from, to, v)
  BY Payment
<1>2. Pot \in Accounts
  BY ExchangeAssumption
<1> QED
  BY <1>1, <1>2 DEF PaymentMade

LEMMA MoneyStep ==
  ASSUME MoneyInv, [ExchangeNext]_exchangeVars
  PROVE  MoneyInv'
<1>a. ExchangeInv /\ ExchangeCore /\ OrderMap(Orders) /\ money \in [Accounts -> Nat]
  BY DEF MoneyInv, ExchangeInv, ExchangeCore
<1>b. /\ AllBacked /\ dust \in Nat /\ wrapped \subseteq OrderIds
      /\ \A k \in DOMAIN Orders : Backed(Orders[k]) /\ (k \in wrapped \/ Limited(Orders[k]))
      /\ wrapped = {} => money[Pot] + dust >= BidSum(Orders)
  BY DEF MoneyInv, AllBacked, PotPaysBids
<1>c. ExchangeInv' /\ AllBacked'
  BY <1>a, <1>b, ExchangeStep, BackedStep
<1>d. OrderMap(Orders')
  BY <1>c DEF ExchangeInv, ExchangeCore
<1>e. Pot \in Accounts /\ Pot \notin Signers /\ Signers \subseteq Accounts
  BY ExchangeAssumption, CarbonAssumption
<1>f. BidSum(Orders) \in Nat /\ money[Pot] \in Nat
  BY <1>a, <1>e, CustodyBound DEF BidSum, Fields
<1>g. \A k : SameBut(Orders, Orders', k) =>
        /\ BidSum(Orders') \in Nat
        /\ PartOf(Orders, k, BidRecords, "locked_balance") \in Nat
        /\ PartOf(Orders', k, BidRecords, "locked_balance") \in Nat
        /\ BidSum(Orders') + PartOf(Orders, k, BidRecords, "locked_balance")
             = BidSum(Orders) + PartOf(Orders', k, BidRecords, "locked_balance")
  BY <1>a, <1>d, CustodyUpdate DEF BidSum, Fields
<1> DEFINE Goal == /\ dust' \in Nat /\ wrapped' \subseteq OrderIds
                   /\ wrapped' = {} => money'[Pot] + dust' >= BidSum(Orders')
<1>1. ASSUME UNCHANGED <<Orders, money, dust, wrapped>>
      PROVE  Goal
  BY <1>b, <1>1
<1>2. ASSUME NEW maker \in Signers, NEW x \in AssetIds, NEW price \in Prices,
             NEW n \in OrderAmounts, NEW direction \in {ASK, BID}, NEW salt \in Salts,
             make_order(maker, x, price, n, direction, salt)
      PROVE  Goal
  <2> DEFINE o == <<"order", maker, x, price, n, direction, salt>>
             locked == Locked(direction, n, price)
             r == [asset_id |-> x, maker |-> maker, amount |-> n, price |-> price, left_amount |-> n,
                   direction |-> direction, locked_balance |-> locked]
  <2>1. n \in U64 /\ price \in U64
    BY ExchangeAssumption
  <2>2. locked \in U64 /\ locked \in Nat
    BY <2>1, SaturatingMulType, U64Facts DEF Locked
  <2>3. o \in OrderIds
    BY DEF OrderIds
  <2>4. r \in Order /\ r.direction = direction /\ r.locked_balance = locked
    BY <2>1, <2>2 DEF Order
  <2>5. /\ o \notin DOMAIN Orders /\ Orders' = Insert(Orders, o, r)
        /\ UNCHANGED <<dust, wrapped>>
        /\ direction = ASK => UNCHANGED money
        /\ direction = BID => CanPay(maker, Pot, locked) /\ money' = Paid(maker, Pot, locked)
    BY <1>2 DEF make_order, ASK, BID, potHistory
  <2> HIDE DEF o, r, locked
  <2>6. Stored(Orders, Orders', o, r)
    BY <1>a, <2>3, <2>4, <2>5, InsertOrder
  <2>7. SameBut(Orders, Orders', o) /\ PartOf(Orders, o, BidRecords, "locked_balance") = 0
    BY <2>5, <2>6 DEF Stored, PartOf
  <2>8. PartOf(Orders', o, BidRecords, "locked_balance") = IF direction = BID THEN locked ELSE 0
    BY <2>4, <2>6 DEF PartOf, BidRecords, Stored
  <2>9. CASE direction = BID
    <3>1. money'[Pot] = money[Pot] + locked
      BY <1>a, <1>e, <2>2, <2>5, <2>9, PotReceives
    <3> QED
      BY <1>b, <1>f, <1>g, <2>2, <2>5, <2>7, <2>8, <2>9, <3>1
  <2>10. CASE direction = ASK
    <3>1. direction # BID /\ UNCHANGED money
      BY <2>5, <2>10 DEF ASK, BID
    <3> QED
      BY <1>b, <1>f, <1>g, <2>5, <2>7, <2>8, <3>1
  <2> QED
    BY <2>9, <2>10
<1>3. ASSUME NEW taker \in Signers, NEW o \in DOMAIN Orders, NEW n \in TakeAmounts,
             take_order(taker, o, n)
      PROVE  Goal
  <2> DEFINE r == Orders[o]
             m == SaturatingMul(n, r.price)
             q == Filled(r, n, m)
  <2>1. /\ r \in Order /\ Backed(r) /\ (o \in wrapped \/ Limited(r)) /\ r.price \in U64 /\ r.left_amount \in U64
        /\ r.maker \in Signers /\ r.direction \in {ASK, BID} /\ r.locked_balance \in Nat
        /\ o \in OrderIds
    BY <1>a, <1>b, OrderFacts, U64Facts DEF OrderMap
  <2>2. n \in U64 /\ m \in U64 /\ m \in Nat
    BY <2>1, SaturatingMulType, ExchangeAssumption, U64Facts
  <2>3. /\ r.left_amount >= n /\ Dealt(o, q)
        /\ r.direction = ASK => /\ CanPay(taker, r.maker, m) /\ money' = Paid(taker, r.maker, m)
                                /\ UNCHANGED <<dust, wrapped>>
        /\ r.direction = BID => /\ CanPay(Pot, taker, m) /\ money' = Paid(Pot, taker, m)
                                /\ dust' = dust + Dust(Pot, taker, m)
                                /\ wrapped' = wrapped \cup {k \in {o} : r.locked_balance < m}
    BY <1>3 DEF take_order, ASK, BID, potHistory
  <2>4. n <= r.left_amount
    BY <2>1, <2>2, <2>3, U64Facts
  <2>5. q \in Order /\ q.direction = r.direction /\ q.left_amount \in Nat
    BY <2>1, <2>2, <2>4, FilledType, U64Facts DEF Order
  <2>6. r.direction = BID /\ m <= r.locked_balance =>
          /\ q.locked_balance = r.locked_balance - m
          /\ Limited(r) /\ q.left_amount = 0 => q.locked_balance = 0
    BY <2>1, <2>2, <2>4, FilledBacked
  <2> HIDE DEF m, q
  <2>7. /\ SameBut(Orders, Orders', o)
        /\ o \in DOMAIN Orders' => Orders'[o] = q
        /\ o \notin DOMAIN Orders' => q.left_amount = 0
    BY <1>a, <2>3, <2>5, DealtEffect
  <2>8. PartOf(Orders, o, BidRecords, "locked_balance")
          = IF r.direction = BID THEN r.locked_balance ELSE 0
    BY <2>1 DEF PartOf, BidRecords
  <2>9. \/ o \in DOMAIN Orders' \/ q.locked_balance = 0 \/ r.direction # BID
        => PartOf(Orders', o, BidRecords, "locked_balance")
             = IF r.direction = BID THEN q.locked_balance ELSE 0
    BY <2>5, <2>7 DEF PartOf, BidRecords
  <2> HIDE DEF r
  <2>10. CASE r.direction = ASK
    <3>1. r.direction # BID
      BY <2>10 DEF ASK, BID
    <3>2. money'[Pot] = money[Pot]
      BY <1>a, <1>e, <2>1, <2>2, <2>3, <2>10, PotReceives
    <3> QED
      BY <1>b, <1>f, <1>g, <2>3, <2>7, <2>8, <2>9, <2>10, <3>1, <3>2
  <2>11. CASE r.direction = BID
    <3>1. taker \in Accounts /\ taker # Pot
      BY <1>e
    <3>2. dust' \in Nat /\ wrapped' \subseteq OrderIds
      BY <1>a, <1>b, <2>1, <2>2, <2>3, <2>11, <3>1, PotDust
    <3>3. ASSUME wrapped' = {}
          PROVE  money'[Pot] + dust' >= BidSum(Orders')
      <4>1. wrapped = {} /\ ~(r.locked_balance < m)
        BY <2>3, <2>11, <3>3
      <4>2. m <= r.locked_balance /\ Limited(r)
        BY <2>1, <2>2, <4>1
      <4>3. q.locked_balance = r.locked_balance - m
            /\ (o \notin DOMAIN Orders' => q.locked_balance = 0)
        BY <2>6, <2>7, <2>11, <4>2
      <4>4. PartOf(Orders', o, BidRecords, "locked_balance") + m
              = PartOf(Orders, o, BidRecords, "locked_balance")
        BY <2>1, <2>2, <2>8, <2>9, <2>11, <4>2, <4>3
      <4>5. money[Pot] + dust >= BidSum(Orders)
        BY <1>b, <4>1
      <4> QED
        BY <1>a, <1>b, <1>d, <2>2, <2>3, <2>7, <2>11, <3>1, <4>4, <4>5, PotPays
    <3> QED
      BY <3>2, <3>3
  <2> QED
    BY <2>1, <2>10, <2>11
<1>4. ASSUME NEW sender \in Signers, NEW o \in DOMAIN Orders, cancel_order(sender, o)
      PROVE  Goal
  <2> DEFINE r == Orders[o]
  <2>1. r \in Order /\ r.direction \in {ASK, BID} /\ r.locked_balance \in Nat
    BY <1>a, OrderFacts, U64Facts
  <2>2. /\ Orders' = Remove(Orders, o)
        /\ UNCHANGED wrapped
        /\ r.direction = ASK => UNCHANGED <<money, dust>>
        /\ r.direction = BID => /\ CanPay(Pot, sender, r.locked_balance)
                                /\ money' = Paid(Pot, sender, r.locked_balance)
                                /\ dust' = dust + Dust(Pot, sender, r.locked_balance)
    BY <1>4 DEF cancel_order, ASK, BID
  <2>3. SameBut(Orders, Orders', o) /\ o \notin DOMAIN Orders'
    BY <1>a, <2>2, RemoveOrder
  <2>4. /\ PartOf(Orders, o, BidRecords, "locked_balance")
             = IF r.direction = BID THEN r.locked_balance ELSE 0
        /\ PartOf(Orders', o, BidRecords, "locked_balance") = 0
    BY <2>1, <2>3 DEF PartOf, BidRecords
  <2> HIDE DEF r
  <2>5. CASE r.direction = ASK
    <3>1. r.direction # BID /\ UNCHANGED <<money, dust>>
      BY <2>2, <2>5 DEF ASK, BID
    <3> QED
      BY <1>b, <1>f, <1>g, <2>2, <2>3, <2>4, <3>1
  <2>6. CASE r.direction = BID
    <3>1. PartOf(Orders', o, BidRecords, "locked_balance") + r.locked_balance
            = PartOf(Orders, o, BidRecords, "locked_balance")
      BY <2>1, <2>4, <2>6
    <3>2. sender \in Accounts /\ sender # Pot
      BY <1>e
    <3>3. dust' \in Nat /\ wrapped' \subseteq OrderIds
      BY <1>a, <1>b, <2>1, <2>2, <2>6, <3>2, PotDust
    <3>4. wrapped = {} => money'[Pot] + dust' >= BidSum(Orders')
      BY <1>a, <1>b, <1>d, <2>1, <2>2, <2>3, <2>6, <3>1, <3>2, PotPays
    <3> QED
      BY <2>2, <3>3, <3>4
  <2> QED
    BY <2>1, <2>5, <2>6
<1>5. ASSUME NEW sender \in Signers, NEW to \in Accounts, NEW value \in NativeAmounts,
             native_transfer(sender, to, value)
      PROVE  Goal
  <2>1. /\ CanPay(sender, to, value) /\ money' = Paid(sender, to, value) /\ Orders' = Orders
        /\ UNCHANGED <<dust, wrapped>>
        /\ value \in Nat /\ sender \in Accounts /\ sender # Pot
    BY <1>5, <1>e, ExchangeAssumption DEF native_transfer, potHistory
  <2>2. money'[Pot] = IF to = Pot THEN money[Pot] + value ELSE money[Pot]
    BY <1>a, <2>1, PotReceives
  <2> QED
    BY <1>b, <1>f, <2>1, <2>2
<1> HIDE DEF Goal
<1>6. Goal
  <2>1. \/ Next /\ UNCHANGED <<Orders, money, potHistory>>
        \/ \E taker \in Signers, o \in DOMAIN Orders, n \in TakeAmounts :
             take_order_fails(taker, o, n)
        \/ UNCHANGED exchangeVars
        => UNCHANGED <<Orders, money, dust, wrapped>>
    BY DEF take_order_fails, exchangeVars, potHistory
  <2> QED
    BY <1>1, <1>2, <1>3, <1>4, <1>5, <2>1 DEF ExchangeNext
<1> QED
  BY <1>6, <1>c DEF Goal, MoneyInv, PotPaysBids

LEMMA MoneyStart == ExchangeInit => MoneyInv
<1> SUFFICES ASSUME ExchangeInit PROVE MoneyInv
  OBVIOUS
<1>1. ExchangeInv
  BY ExchangeStart
<1>2. OrderMap(Orders) /\ DOMAIN Orders = {} /\ dust = 0 /\ wrapped = {}
  BY <1>1 DEF ExchangeInv, ExchangeCore, ExchangeInit
<1>3. BidSum(Orders) = 0
  BY <1>2, CustodyBound DEF BidSum, Fields
<1>4. money[Pot] = 0
  BY ExchangeAssumption DEF ExchangeInit
<1> QED
  BY <1>1, <1>2, <1>3, <1>4 DEF MoneyInv, AllBacked, PotPaysBids

(* The composed state keeps its types. *)
THEOREM ExchangeTypeCorrect == ExchangeSpec => []ExchangeTypeOK
<1>1. MoneyInv => ExchangeTypeOK
  BY DEF MoneyInv, ExchangeInv, ExchangeCore, SupplyInv, OrderMap, ExchangeTypeOK
<1>2. MoneyInv /\ [ExchangeNext]_exchangeVars => MoneyInv'
  BY MoneyStep
<1> QED
  BY <1>1, <1>2, MoneyStart, PTL DEF ExchangeSpec

(* Whatever the prices and amounts: what the open bids have locked is in    *)
(* the pot, but for the dust it lost by being reaped, after any             *)
(* interleaving of deals, cancellations and payments, until a               *)
(* locked_balance wraps.                                                    *)
THEOREM PotCoversBidsCorrect == ExchangeSpec => []PotCoversBids
<1>1. MoneyInv => PotCoversBids
  <2> SUFFICES ASSUME MoneyInv PROVE PotCoversBids
    OBVIOUS
  <2>1. OrderMap(Orders) /\ (wrapped = {} => money[Pot] + dust >= BidSum(Orders))
    BY DEF MoneyInv, ExchangeInv, ExchangeCore, PotPaysBids
  <2> QED
    BY <2>1, BidSumIs DEF PotCoversBids, Bids
<1>2. MoneyInv /\ [ExchangeNext]_exchangeVars => MoneyInv'
  BY MoneyStep
<1> QED
  BY <1>1, <1>2, MoneyStart, PTL DEF ExchangeSpec
-----------------------------------------------------------------------------
(* The payment of take_order fails for one of the four reasons only. *)
Excused(taker, r, n) ==
  \/ money[taker] + SaturatingMul(n, r.price) < ExistentialDeposit
  \/ dust > 0
  \/ r.amount * r.price > MaxU64
  \/ wrapped # {}

LEMMA FailsExcused ==
  ASSUME MoneyInv, NEW taker \in Signers, NEW o \in DOMAIN Orders,
         NEW n \in TakeAmounts, take_order_fails(taker, o, n)
  PROVE  Excused(taker, Orders[o], n)
<1> DEFINE r == Orders[o]
           m == SaturatingMul(n, r.price)
<1> SUFFICES ASSUME dust = 0, wrapped = {}, Fits(r), money[taker] + m >= ExistentialDeposit
             PROVE  FALSE
  <2>1. /\ dust \in Nat /\ money \in [Accounts -> Nat] /\ taker \in Accounts
        /\ r.price \in U64 /\ r.price \in Nat /\ r.amount \in Nat /\ n \in U64
    BY OrderFacts, U64Facts, ExchangeAssumption, CarbonAssumption
       DEF MoneyInv, ExchangeInv, ExchangeCore, Order
  <2>2. m \in Nat /\ r.amount * r.price \in Nat /\ MaxU64 \in Nat
    BY <2>1, SaturatingMulType, U64Facts, Products
  <2> HIDE DEF m
  <2>3. /\ money[taker] + m \in Nat /\ ExistentialDeposit \in Nat
    BY <2>1, <2>2, ExchangeAssumption
  <2> QED
    BY <2>1, <2>2, <2>3 DEF Excused, Fits, m
<1>1. /\ ExchangeCore /\ OrderMap(Orders) /\ money \in [Accounts -> Nat]
      /\ money[Pot] >= BidSum(Orders) /\ Backed(r)
  BY ExchangeAssumption
     DEF MoneyInv, ExchangeInv, ExchangeCore, AllBacked, PotPaysBids
<1>2. r \in Order /\ r.price \in U64 /\ r.left_amount \in U64 /\ r.locked_balance \in Nat
  BY <1>1, OrderFacts, U64Facts
<1>3. n \in U64 /\ n \in Nat
  BY ExchangeAssumption, U64Facts
<1>4. r.left_amount >= n /\ r.direction = BID /\ ~CanPay(Pot, taker, m)
  BY DEF take_order_fails
<1>5. n <= r.left_amount
  BY <1>2, <1>3, <1>4, U64Facts
<1>6. m \in Nat /\ m <= r.locked_balance
  BY <1>1, <1>2, <1>3, <1>4, <1>5, FilledBacked
<1>7. r \in BidRecords
  BY <1>2, <1>4 DEF BidRecords
<1>8. BidSum(Orders) \in Nat /\ r.locked_balance <= BidSum(Orders)
  BY <1>1, <1>7, CustodyBound DEF BidSum, Fields
<1>9. Pot \in Accounts /\ money[Pot] \in Nat
  BY <1>1, ExchangeAssumption
<1>10. m <= money[Pot]
  BY <1>1, <1>2, <1>6, <1>8, <1>9
<1> QED
  BY <1>4, <1>10 DEF CanPay

(* Every call that succeeds deposits an event. *)
LEMMA EventsDeposited ==
  ASSUME ExchangeInv, ExchangeNext
  PROVE  \/ events' # <<>>
         \/ \E taker \in Signers, o \in DOMAIN Orders, n \in TakeAmounts :
              take_order_fails(taker, o, n)
<1>0. \A x, y : <<x>> # <<>> /\ <<x, y>> # <<>>
  OBVIOUS
<1>1. Next => events' # <<>>
  <2>1. Requests => events' # <<>>
    <3>1. \A a, b, c : submit_project(a, b, c) => events' # <<>>
      BY DEF submit_project
    <3>2. \A a, b, c, d : submit_asset(a, b, c, d) => events' # <<>>
      BY DEF submit_asset
    <3>3. \A a, b, c, d : submit_issue(a, b, c, d) => events' # <<>>
      BY DEF submit_issue
    <3>4. \A a, b, c, d : submit_burn(a, b, c, d) => events' # <<>>
      BY DEF submit_burn
    <3>5. \A a, b, c, d : transfer(a, b, c, d) => events' # <<>>
      BY DEF transfer
    <3>6. \A a, b, c : neutralize(a, b, c) => events' # <<>>
      BY DEF neutralize
    <3> QED
      BY <3>1, <3>2, <3>3, <3>4, <3>5, <3>6, Zenon DEF Requests
  <2>2. \A id : approve(id) => \E x : events' = <<x>>
    BY Zenon DEF approve, approve_project, approve_asset, approve_issue, approve_burn
  <2> QED
    BY <1>0, <2>1, <2>2, Zenon DEF Next
<1>2. ASSUME NEW maker \in Signers, NEW x \in AssetIds, NEW price \in Prices,
             NEW n \in OrderAmounts, NEW direction \in {ASK, BID}, NEW salt \in Salts,
             make_order(maker, x, price, n, direction, salt)
      PROVE  events' # <<>>
  BY <1>2 DEF make_order
<1>3. ASSUME NEW taker \in Signers, NEW o \in DOMAIN Orders, NEW n \in TakeAmounts,
             take_order(taker, o, n)
      PROVE  events' # <<>>
  <2>1. PICK r : Dealt(o, r)
    BY <1>3, Zenon DEF take_order
  <2>2. (\E x : events' = <<x>>) \/ (\E x, y : events' = <<x, y>>)
    BY <2>1, Zenon DEF Dealt
  <2> QED
    BY <1>0, <2>2, Zenon
<1>4. ASSUME NEW sender \in Signers, NEW o \in DOMAIN Orders, cancel_order(sender, o)
      PROVE  events' # <<>>
  BY <1>4 DEF cancel_order
<1>5. ASSUME NEW sender \in Signers, NEW to \in Accounts, NEW value \in NativeAmounts,
             native_transfer(sender, to, value)
      PROVE  events' # <<>>
  BY <1>5 DEF native_transfer
<1> QED
  BY <1>1, <1>2, <1>3, <1>4, <1>5 DEF ExchangeNext

(* Whatever the prices and amounts: a call that fails after it has written  *)
(* something is a take of an open bid, it moves the taker's units and       *)
(* nothing else, and the payment failed because the taker would have ended  *)
(* below the existential deposit, because the pot had been reaped, or       *)
(* because a bid's price did not fit a u64.                                 *)
THEOREM UnpaidTakesCorrect == ExchangeSpec => UnpaidTakes
<1> DEFINE Unpaid(taker, o, amount) ==
             /\ amount <= Orders[o].left_amount
             /\ Balances' = MakeTransfer(Balances, Orders[o].asset_id, taker,
                                         Orders[o].maker, amount)
             /\ UNCHANGED <<Projects, Assets, Issues, Burns, Orders, money>>
             /\ \/ money[taker] + SaturatingMul(amount, Orders[o].price) < ExistentialDeposit
                \/ dust > 0
                \/ Orders[o].amount * Orders[o].price > MaxU64
                \/ wrapped # {}
           Nothing == events' = <<>> =>
             \E taker \in Signers, o \in Bids, amount \in TakeAmounts :
               Unpaid(taker, o, amount)
<1>1. ASSUME MoneyInv, [ExchangeNext]_exchangeVars
      PROVE  [Nothing]_exchangeVars
  <2>1. CASE ExchangeNext
    <3> SUFFICES ASSUME events' = <<>> PROVE Nothing
      OBVIOUS
    <3>1. PICK taker \in Signers, o \in DOMAIN Orders, n \in TakeAmounts :
            take_order_fails(taker, o, n)
      BY <1>1, <2>1, EventsDeposited DEF MoneyInv
    <3>2. Excused(taker, Orders[o], n)
      BY <1>1, <3>1, FailsExcused
    <3>3. Orders[o].left_amount \in Nat /\ n \in Nat
      BY <1>1, OrderFacts, U64Facts, ExchangeAssumption DEF MoneyInv, ExchangeInv, ExchangeCore
    <3>4. n <= Orders[o].left_amount /\ o \in Bids
      BY <3>1, <3>3 DEF take_order_fails, Bids
    <3>5. Unpaid(taker, o, n)
      BY <3>1, <3>2, <3>4 DEF take_order_fails, Excused
    <3> HIDE DEF Unpaid
    <3> QED
      BY <3>4, <3>5
  <2>2. CASE UNCHANGED exchangeVars
    BY <2>2
  <2> QED
    BY <1>1, <2>1, <2>2
<1>2. MoneyInv /\ [ExchangeNext]_exchangeVars => MoneyInv'
  BY MoneyStep
<1>3. MoneyInv /\ [ExchangeNext]_exchangeVars => [Nothing]_exchangeVars
  BY <1>1
<1> HIDE DEF Nothing
<1>4. ExchangeSpec => [][Nothing]_exchangeVars
  BY <1>2, <1>3, MoneyStart, PTL DEF ExchangeSpec
<1> QED
  BY <1>4 DEF Nothing, UnpaidTakes
-----------------------------------------------------------------------------
(* The refinement of Market.  What the pot keeps for one maker: of the      *)
(* asks of an asset, and of the bids.                                       *)
AskRecordsOf(id, a) == {r \in AskRecords(id) : r.maker = a}
BidRecordsOf(a) == {r \in BidRecords : r.maker = a}
AskOf(O, id, a) == SumOver(O, AskRecordsOf(id, a), "left_amount")
BidOf(O, a) == SumOver(O, BidRecordsOf(a), "locked_balance")

(* The refinement mapping, in these terms. *)
Own(B, O, id, a) == B[<<id, a>>] + AskOf(O, id, a) - (IF a = Pot THEN AskSum(O, id) ELSE 0)
Cash(mon, O, a) == mon[a] + BidOf(O, a) - (IF a = Pot THEN BidSum(O) ELSE 0)
OffersOf(O) == [o \in DOMAIN O |->
                  [maker |-> O[o].maker, asset |-> O[o].asset_id, price |-> O[o].price,
                   left |-> O[o].left_amount, locked |-> O[o].locked_balance,
                   selling |-> O[o].direction = ASK]]

OwnMap == [k \in AssetIds \X Accounts |-> UnitsOf(k[1], k[2])]
CashMap == [a \in Accounts |-> MoneyOf(a)]
OfferMap == OffersOf(Orders)

LEMMA CustodyIs ==
  ASSUME NEW O, OrderMap(O), NEW id, NEW a
  PROVE  /\ Total([o \in {o \in {o \in DOMAIN O : O[o].direction = ASK /\ O[o].asset_id = id} :
                            O[o].maker \in {a}} |-> O[o].left_amount]) = AskOf(O, id, a)
         /\ Total([o \in {o \in {o \in DOMAIN O : O[o].direction = ASK /\ O[o].asset_id = id} :
                            O[o].maker \in Signers} |-> O[o].left_amount]) = AskSum(O, id)
         /\ Total([o \in {o \in {o \in DOMAIN O : O[o].direction = BID} :
                            O[o].maker \in {a}} |-> O[o].locked_balance]) = BidOf(O, a)
         /\ Total([o \in {o \in {o \in DOMAIN O : O[o].direction = BID} :
                            O[o].maker \in Signers} |-> O[o].locked_balance]) = BidSum(O)
<1>0. \A o \in DOMAIN O : O[o] \in Order /\ O[o].maker \in Signers
  BY DEF OrderMap, Order
<1>1. {o \in DOMAIN O : O[o] \in AskRecordsOf(id, a)}
        = {o \in {o \in DOMAIN O : O[o].direction = ASK /\ O[o].asset_id = id} :
             O[o].maker \in {a}}
  BY <1>0 DEF AskRecordsOf, AskRecords
<1>2. {o \in DOMAIN O : O[o].direction = ASK /\ O[o].asset_id = id}
        = {o \in {o \in DOMAIN O : O[o].direction = ASK /\ O[o].asset_id = id} :
             O[o].maker \in Signers}
  BY <1>0
<1>3. {o \in DOMAIN O : O[o] \in BidRecordsOf(a)}
        = {o \in {o \in DOMAIN O : O[o].direction = BID} : O[o].maker \in {a}}
  BY <1>0 DEF BidRecordsOf, BidRecords
<1>4. {o \in DOMAIN O : O[o].direction = BID}
        = {o \in {o \in DOMAIN O : O[o].direction = BID} : O[o].maker \in Signers}
  BY <1>0
<1>5. Total([o \in {o \in {o \in DOMAIN O : O[o].direction = ASK /\ O[o].asset_id = id} :
                      O[o].maker \in {a}} |-> O[o].left_amount]) = AskOf(O, id, a)
  BY <1>1 DEF AskOf, SumOver
<1>6. Total([o \in {o \in {o \in DOMAIN O : O[o].direction = BID} :
                      O[o].maker \in {a}} |-> O[o].locked_balance]) = BidOf(O, a)
  BY <1>3 DEF BidOf, SumOver
<1> QED
  BY <1>2, <1>4, <1>5, <1>6, AskSumIs, BidSumIs

(* What an account has on offer is what the pot keeps for it. *)
OfferedIn(offers, id, a) ==
  Total([o \in {o \in DOMAIN offers : offers[o].selling /\ offers[o].maker = a
                                         /\ offers[o].asset = id} |-> offers[o].left])
BiddenIn(offers, a) ==
  Total([o \in {o \in DOMAIN offers : ~offers[o].selling /\ offers[o].maker = a} |->
           offers[o].locked])

LEMMA OfferedIs ==
  ASSUME NEW O, OrderMap(O), NEW id, NEW a, NEW offers, offers = OffersOf(O)
  PROVE  OfferedIn(offers, id, a) = AskOf(O, id, a) /\ BiddenIn(offers, a) = BidOf(O, a)
<1>0. /\ DOMAIN offers = DOMAIN O
      /\ \A o \in DOMAIN O :
           /\ O[o] \in Order /\ O[o].direction \in {ASK, BID}
           /\ offers[o].maker = O[o].maker /\ offers[o].asset = O[o].asset_id
           /\ offers[o].price = O[o].price /\ offers[o].left = O[o].left_amount
           /\ offers[o].selling = (O[o].direction = ASK)
           /\ offers[o].locked = O[o].locked_balance
  BY DEF OrderMap, Order, OffersOf
<1>1. {o \in DOMAIN offers : offers[o].selling /\ offers[o].maker = a /\ offers[o].asset = id}
        = {o \in DOMAIN O : O[o] \in AskRecordsOf(id, a)}
  BY <1>0 DEF AskRecordsOf, AskRecords
<1>2. {o \in DOMAIN offers : ~offers[o].selling /\ offers[o].maker = a}
        = {o \in DOMAIN O : O[o] \in BidRecordsOf(a)}
  <2>1. \A o \in DOMAIN O : ~(O[o].direction = ASK) <=> O[o].direction = BID
    BY <1>0 DEF ASK, BID
  <2>2. \A o \in DOMAIN O : ~offers[o].selling <=> O[o].direction = BID
    BY <1>0, <2>1, Zenon
  <2>3. \A o \in DOMAIN O : O[o] \in BidRecordsOf(a)
                            <=> O[o].direction = BID /\ O[o].maker = a
    BY <1>0 DEF BidRecordsOf, BidRecords
  <2> QED
    BY <1>0, <2>2, <2>3
<1>3. OfferedIn(offers, id, a) = AskOf(O, id, a)
  <2>1. [o \in {o \in DOMAIN O : O[o] \in AskRecordsOf(id, a)} |-> offers[o].left]
          = [o \in {o \in DOMAIN O : O[o] \in AskRecordsOf(id, a)} |-> O[o].left_amount]
    BY <1>0
  <2> QED
    BY <1>1, <2>1 DEF AskOf, SumOver, OfferedIn
<1>4. BiddenIn(offers, a) = BidOf(O, a)
  <2>1. [o \in {o \in DOMAIN O : O[o] \in BidRecordsOf(a)} |-> offers[o].locked]
          = [o \in {o \in DOMAIN O : O[o] \in BidRecordsOf(a)} |-> O[o].locked_balance]
    BY <1>0
  <2> QED
    BY <1>2, <2>1 DEF BidOf, SumOver, BiddenIn
<1> QED
  BY <1>3, <1>4

LEMMA SameTotal == \A f : M!Total(f) = Total(f)
BY DEF M!Total, Total, M!Units, Units, M!Cardinality, Cardinality

LEMMA SameCost == \A n, price : M!Cost(n, price) = SaturatingMul(n, price)
BY DEF M!Cost, M!SaturatingMul, SaturatingMul

(* The mapped state, and the mapped next state. *)
LEMMA View ==
  ASSUME OrderMap(Orders), NEW id, NEW a
  PROVE  /\ UnitsOf(id, a) = Own(Balances, Orders, id, a)
         /\ MoneyOf(a) = Cash(money, Orders, a)
         /\ M!Offered(id, a) = AskOf(Orders, id, a)
         /\ M!Bidden(a) = BidOf(Orders, a)
<1>1. UnitsOf(id, a) = Own(Balances, Orders, id, a)
  <2>1. /\ Total([o \in {o \in Asks(id) : Orders[o].maker \in {a}} |->
                    Orders[o].left_amount]) = AskOf(Orders, id, a)
        /\ Total([o \in {o \in Asks(id) : Orders[o].maker \in Signers} |->
                    Orders[o].left_amount]) = AskSum(Orders, id)
    BY CustodyIs, Zenon DEF Asks
  <2> QED
    BY <2>1, Zenon DEF UnitsOf, Own
<1>2. MoneyOf(a) = Cash(money, Orders, a)
  <2>1. /\ Total([o \in {o \in Bids : Orders[o].maker \in {a}} |->
                    Orders[o].locked_balance]) = BidOf(Orders, a)
        /\ Total([o \in {o \in Bids : Orders[o].maker \in Signers} |->
                    Orders[o].locked_balance]) = BidSum(Orders)
    BY CustodyIs, Zenon DEF Bids
  <2> QED
    BY <2>1, Zenon DEF MoneyOf, Cash
<1>3. M!Offered(id, a) = AskOf(Orders, id, a) /\ M!Bidden(a) = BidOf(Orders, a)
  <2>1. PICK offers : offers = OffersOf(Orders)
    OBVIOUS
  <2>2. M!Offered(id, a) = OfferedIn(offers, id, a) /\ M!Bidden(a) = BiddenIn(offers, a)
    BY <2>1, SameTotal, Zenon DEF M!Offered, M!Bidden, OffersOf, OfferedIn, BiddenIn
  <2> QED
    BY <2>1, <2>2, OfferedIs
<1> QED
  BY <1>1, <1>2, <1>3

LEMMA ViewNext ==
  ASSUME OrderMap(Orders'), NEW id, NEW a
  PROVE  /\ UnitsOf(id, a)' = Own(Balances', Orders', id, a)
         /\ MoneyOf(a)' = Cash(money', Orders', a)
         /\ M!Offered(id, a)' = AskOf(Orders', id, a)
         /\ M!Bidden(a)' = BidOf(Orders', a)
<1>1. UnitsOf(id, a)' = Own(Balances', Orders', id, a)
  <2>1. /\ Total([o \in {o \in Asks(id)' : Orders'[o].maker \in {a}} |->
                    Orders'[o].left_amount]) = AskOf(Orders', id, a)
        /\ Total([o \in {o \in Asks(id)' : Orders'[o].maker \in Signers} |->
                    Orders'[o].left_amount]) = AskSum(Orders', id)
    BY CustodyIs, Zenon DEF Asks
  <2> QED
    BY <2>1, Zenon DEF UnitsOf, Own
<1>2. MoneyOf(a)' = Cash(money', Orders', a)
  <2>1. /\ Total([o \in {o \in Bids' : Orders'[o].maker \in {a}} |->
                    Orders'[o].locked_balance]) = BidOf(Orders', a)
        /\ Total([o \in {o \in Bids' : Orders'[o].maker \in Signers} |->
                    Orders'[o].locked_balance]) = BidSum(Orders')
    BY CustodyIs, Zenon DEF Bids
  <2> QED
    BY <2>1, Zenon DEF MoneyOf, Cash
<1>3. M!Offered(id, a)' = AskOf(Orders', id, a) /\ M!Bidden(a)' = BidOf(Orders', a)
  <2>1. PICK offers : offers = OffersOf(Orders')
    OBVIOUS
  <2>2. M!Offered(id, a)' = OfferedIn(offers, id, a) /\ M!Bidden(a)' = BiddenIn(offers, a)
    BY <2>1, SameTotal, Zenon DEF M!Offered, M!Bidden, OffersOf, OfferedIn, BiddenIn
  <2> QED
    BY <2>1, <2>2, OfferedIs
<1> QED
  BY <1>1, <1>2, <1>3

(* Orders as the invariant has them, as long as no locked_balance wraps. *)
SoundOrders(O) == OrderMap(O) /\ \A o \in DOMAIN O : Backed(O[o]) /\ Limited(O[o])

LEMMA CustodyTypes ==
  ASSUME NEW O, OrderMap(O)
  PROVE  /\ \A id, a : AskOf(O, id, a) \in Nat
         /\ \A id : AskSum(O, id) \in Nat /\ AskOf(O, id, Pot) = 0
         /\ \A a : BidOf(O, a) \in Nat
         /\ BidSum(O) \in Nat /\ BidOf(O, Pot) = 0
<1>0. \A o \in DOMAIN O : O[o].maker # Pot
  BY ExchangeAssumption DEF OrderMap, Order
<1>1. \A id, a : AskOf(O, id, a) \in Nat
  BY CustodyBound DEF AskOf, Fields
<1>2. \A id : AskSum(O, id) \in Nat
  BY CustodyBound DEF AskSum, Fields
<1>3. \A id : AskOf(O, id, Pot) = 0
  <2> TAKE id
  <2>1. \A o \in DOMAIN O : O[o] \notin AskRecordsOf(id, Pot)
    BY <1>0 DEF AskRecordsOf
  <2> QED
    BY <2>1, CustodyBound DEF AskOf, Fields
<1>4. \A a : BidOf(O, a) \in Nat
  BY CustodyBound DEF BidOf, Fields
<1>5. BidSum(O) \in Nat
  BY CustodyBound DEF BidSum, Fields
<1>6. BidOf(O, Pot) = 0
  <2>1. \A o \in DOMAIN O : O[o] \notin BidRecordsOf(Pot)
    BY <1>0 DEF BidRecordsOf
  <2> QED
    BY <2>1, CustodyBound DEF BidOf, Fields
<1> QED
  BY <1>1, <1>2, <1>3, <1>4, <1>5, <1>6

(* At o the orders O have one of maker mk for the asset x, with the amounts *)
(* left and locked; or they have none, and both are zero.                   *)
OrderAt(O, o, d, x, mk, left, locked) ==
  /\ o \in DOMAIN O => /\ O[o].direction = d /\ O[o].asset_id = x /\ O[o].maker = mk
                       /\ O[o].left_amount = left /\ O[o].locked_balance = locked
  /\ o \notin DOMAIN O => left = 0 /\ locked = 0

LEMMA PartsAre ==
  ASSUME NEW O, OrderMap(O), NEW o, NEW d, NEW x, NEW mk, NEW left, NEW locked,
         OrderAt(O, o, d, x, mk, left, locked)
  PROVE  /\ \A id, a : PartOf(O, o, AskRecordsOf(id, a), "left_amount")
                         = IF d = ASK /\ id = x /\ a = mk THEN left ELSE 0
         /\ \A id : PartOf(O, o, AskRecords(id), "left_amount")
                      = IF d = ASK /\ id = x THEN left ELSE 0
         /\ \A a : PartOf(O, o, BidRecordsOf(a), "locked_balance")
                     = IF d = BID /\ a = mk THEN locked ELSE 0
         /\ PartOf(O, o, BidRecords, "locked_balance") = IF d = BID THEN locked ELSE 0
<1>1. CASE o \in DOMAIN O
  <2>1. /\ O[o] \in Order /\ O[o].direction = d /\ O[o].asset_id = x /\ O[o].maker = mk
        /\ O[o].left_amount = left /\ O[o].locked_balance = locked
    BY <1>1 DEF OrderMap, OrderAt
  <2> QED
    BY <1>1, <2>1 DEF PartOf, AskRecordsOf, AskRecords, BidRecordsOf, BidRecords
<1>2. CASE o \notin DOMAIN O
  BY <1>2 DEF PartOf, OrderAt
<1> QED
  BY <1>1, <1>2

(* One order that comes, goes or changes moves the custody for its maker,   *)
(* and no other.                                                            *)
Moves(O, P, d, x, mk, l0, l1, b0, b1) ==
  /\ \A id, a : AskOf(P, id, a) + (IF d = ASK /\ id = x /\ a = mk THEN l0 ELSE 0)
                  = AskOf(O, id, a) + (IF d = ASK /\ id = x /\ a = mk THEN l1 ELSE 0)
  /\ \A id : AskSum(P, id) + (IF d = ASK /\ id = x THEN l0 ELSE 0)
               = AskSum(O, id) + (IF d = ASK /\ id = x THEN l1 ELSE 0)
  /\ \A a : BidOf(P, a) + (IF d = BID /\ a = mk THEN b0 ELSE 0)
              = BidOf(O, a) + (IF d = BID /\ a = mk THEN b1 ELSE 0)
  /\ BidSum(P) + (IF d = BID THEN b0 ELSE 0) = BidSum(O) + (IF d = BID THEN b1 ELSE 0)

LEMMA CustodyMoves ==
  ASSUME NEW O, OrderMap(O), NEW P, OrderMap(P), NEW o, SameBut(O, P, o),
         NEW d, NEW x, NEW mk, NEW l0, NEW l1, NEW b0, NEW b1,
         OrderAt(O, o, d, x, mk, l0, b0), OrderAt(P, o, d, x, mk, l1, b1)
  PROVE  Moves(O, P, d, x, mk, l0, l1, b0, b1)
<1>0. "left_amount" \in Fields /\ "locked_balance" \in Fields
  BY DEF Fields
<1>1. \A id, a : AskOf(P, id, a) + PartOf(O, o, AskRecordsOf(id, a), "left_amount")
                   = AskOf(O, id, a) + PartOf(P, o, AskRecordsOf(id, a), "left_amount")
  BY <1>0, CustodyUpdate DEF AskOf
<1>2. \A id : AskSum(P, id) + PartOf(O, o, AskRecords(id), "left_amount")
                = AskSum(O, id) + PartOf(P, o, AskRecords(id), "left_amount")
  BY <1>0, CustodyUpdate DEF AskSum
<1>3. \A a : BidOf(P, a) + PartOf(O, o, BidRecordsOf(a), "locked_balance")
               = BidOf(O, a) + PartOf(P, o, BidRecordsOf(a), "locked_balance")
  BY <1>0, CustodyUpdate DEF BidOf
<1>4. BidSum(P) + PartOf(O, o, BidRecords, "locked_balance")
        = BidSum(O) + PartOf(P, o, BidRecords, "locked_balance")
  BY <1>0, CustodyUpdate DEF BidSum
<1>5. /\ \A id, a : PartOf(O, o, AskRecordsOf(id, a), "left_amount")
                      = IF d = ASK /\ id = x /\ a = mk THEN l0 ELSE 0
      /\ \A id : PartOf(O, o, AskRecords(id), "left_amount")
                   = IF d = ASK /\ id = x THEN l0 ELSE 0
      /\ \A a : PartOf(O, o, BidRecordsOf(a), "locked_balance")
                  = IF d = BID /\ a = mk THEN b0 ELSE 0
      /\ PartOf(O, o, BidRecords, "locked_balance") = IF d = BID THEN b0 ELSE 0
  BY PartsAre
<1>6. /\ \A id, a : PartOf(P, o, AskRecordsOf(id, a), "left_amount")
                      = IF d = ASK /\ id = x /\ a = mk THEN l1 ELSE 0
      /\ \A id : PartOf(P, o, AskRecords(id), "left_amount")
                   = IF d = ASK /\ id = x THEN l1 ELSE 0
      /\ \A a : PartOf(P, o, BidRecordsOf(a), "locked_balance")
                  = IF d = BID /\ a = mk THEN b1 ELSE 0
      /\ PartOf(P, o, BidRecords, "locked_balance") = IF d = BID THEN b1 ELSE 0
  BY PartsAre
<1>7. \A id, a : AskOf(P, id, a) + (IF d = ASK /\ id = x /\ a = mk THEN l0 ELSE 0)
                   = AskOf(O, id, a) + (IF d = ASK /\ id = x /\ a = mk THEN l1 ELSE 0)
  BY <1>1, <1>5, <1>6
<1>8. \A id : AskSum(P, id) + (IF d = ASK /\ id = x THEN l0 ELSE 0)
                = AskSum(O, id) + (IF d = ASK /\ id = x THEN l1 ELSE 0)
  BY <1>2, <1>5, <1>6
<1>9. \A a : BidOf(P, a) + (IF d = BID /\ a = mk THEN b0 ELSE 0)
               = BidOf(O, a) + (IF d = BID /\ a = mk THEN b1 ELSE 0)
  BY <1>3, <1>5, <1>6
<1> QED
  BY <1>4, <1>5, <1>6, <1>7, <1>8, <1>9 DEF Moves
-----------------------------------------------------------------------------
(* What every account would have after a payment, were none reaped. *)
Due(from, to, v) ==
  [a \in Accounts |-> IF v = 0 \/ from = to THEN money[a]
                      ELSE IF a = from THEN money[a] - v
                      ELSE IF a = to THEN money[a] + v ELSE money[a]]

(* The market allows for reaping: what an account loses is free money, less *)
(* than the existential deposit, and the house loses no more than that.     *)
LEMMA PaymentSettles ==
  ASSUME money \in [Accounts -> Nat], SoundOrders(Orders'),
         NEW from \in Accounts, NEW to \in Accounts, NEW v \in Nat,
         CanPay(from, to, v), money' = Paid(from, to, v),
         NEW c, \A a \in Accounts : c[a] = Cash(Due(from, to, v), Orders', a)
  PROVE  M!Settles(c)
<1>1. PaymentMade(from, to, v)
  BY Payment
<1>2. /\ \A a : BidOf(Orders', a) \in Nat
      /\ BidSum(Orders') \in Nat /\ BidOf(Orders', Pot) = 0
  BY CustodyTypes DEF SoundOrders
<1>3. \A a \in Accounts : money[a] \in Nat /\ money'[a] \in Nat
  BY <1>1 DEF PaymentMade
<1>4. ASSUME NEW a \in Accounts
      PROVE  \/ Cash(money', Orders', a) = c[a]
             \/ /\ Cash(money', Orders', a) = BidOf(Orders', a)
                /\ c[a] - BidOf(Orders', a) \in 0 .. ExistentialDeposit - 1
             \/ /\ a = Pot
                /\ c[a] - Cash(money', Orders', a) \in 0 .. ExistentialDeposit - 1
  <2>0. Due(from, to, v)[a] = IF v = 0 \/ from = to THEN money[a]
                              ELSE IF a = from THEN money[a] - v
                              ELSE IF a = to THEN money[a] + v ELSE money[a]
    BY DEF Due
  <2>1. c[a] = Cash(Due(from, to, v), Orders', a)
    OBVIOUS
  <2>2. CASE money'[a] = Due(from, to, v)[a]
    BY <2>1, <2>2 DEF Cash
  <2>3. CASE money'[a] # Due(from, to, v)[a]
    <3>1. /\ v # 0 /\ from # to /\ a = from /\ money'[a] = 0
          /\ money[a] - v \in 0 .. ExistentialDeposit - 1
          /\ Due(from, to, v)[a] = money[a] - v
      BY <1>1, <1>3, <2>0, <2>3, ExchangeAssumption DEF PaymentMade
    <3>2. CASE a = Pot
      BY <1>2, <2>1, <3>1, <3>2 DEF Cash
    <3>3. CASE a # Pot
      BY <1>2, <2>1, <3>1, <3>3 DEF Cash
    <3> QED
      BY <3>2, <3>3
  <2> QED
    BY <2>2, <2>3
<1>5. \A a \in Accounts : MoneyOf(a)' = Cash(money', Orders', a)
                            /\ M!Bidden(a)' = BidOf(Orders', a)
  BY ViewNext DEF SoundOrders
<1> QED
  BY <1>4, <1>5 DEF M!Settles
-----------------------------------------------------------------------------
(* Neither a total_supply nor a locked_balance has wrapped: the market's    *)
(* promises are not void.  The code excludes neither.                       *)
NoWrap == overflowed \cap AssetIds = {} /\ wrapped = {}

LEMMA MarketFacts ==
  ASSUME MoneyInv, NoWrap
  PROVE  /\ SoundOrders(Orders) /\ OrderMap(Orders) /\ ExchangeCore /\ SupplyInv
         /\ money \in [Accounts -> Nat] /\ Balances \in BalanceMap
         /\ Pot \in Accounts /\ Pot \notin Signers /\ Signers \subseteq Accounts
         /\ \A id \in AssetIds, a \in Accounts :
              Balances[<<id, a>>] \in U64 /\ Balances[<<id, a>>] \in Nat
         /\ \A a \in Accounts : money[a] \in Nat
<1>1. /\ ExchangeCore /\ SupplyInv /\ OrderMap(Orders) /\ money \in [Accounts -> Nat]
      /\ \A o \in DOMAIN Orders : Backed(Orders[o]) /\ Limited(Orders[o])
  BY DEF MoneyInv, ExchangeInv, ExchangeCore, AllBacked, NoWrap
<1>2. Balances \in BalanceMap
  BY <1>1, PotFacts
<1> QED
  BY <1>1, <1>2, U64Facts, ExchangeAssumption, CarbonAssumption DEF SoundOrders, BalanceMap

(* The pot covers the asks of every asset, known or not. *)
Covered == \A id \in AssetIds : AskSum(Orders, id) <= Balances[<<id, Pot>>]

LEMMA PotCoversAsks == MoneyInv /\ NoWrap => Covered
<1> SUFFICES ASSUME MoneyInv, NoWrap, NEW id \in AssetIds
             PROVE  AskSum(Orders, id) <= Balances[<<id, Pot>>]
  BY DEF Covered
<1>1. /\ OrderMap(Orders) /\ OrdersKnown /\ PotHoldsAsks
      /\ Balances[<<id, Pot>>] \in Nat /\ AskSum(Orders, id) \in Nat
  BY MarketFacts, CustodyTypes DEF MoneyInv, ExchangeInv, ExchangeCore
<1>2. CASE id \in DOMAIN Assets
  BY <1>1, <1>2, PotForm DEF NoWrap
<1>3. CASE id \notin DOMAIN Assets
  <2>1. \A o \in DOMAIN Orders : Orders[o] \notin AskRecords(id)
    BY <1>1, <1>3 DEF OrdersKnown, has_asset, AskRecords
  <2>2. AskSum(Orders, id) = 0
    BY <1>1, <2>1, CustodyBound DEF AskSum, Fields
  <2> QED
    BY <1>1, <2>2
<1> QED
  BY <1>2, <1>3

LEMMA MarketFactsNext ==
  ASSUME MoneyInv', NoWrap'
  PROVE  /\ SoundOrders(Orders') /\ OrderMap(Orders')
         /\ \A id \in AssetIds, a \in Accounts : Balances'[<<id, a>>] \in Nat
         /\ Covered'
<1>1. SoundOrders(Orders') /\ OrderMap(Orders')
  <2>1. OrderMap(Orders')
    BY DEF MoneyInv, ExchangeInv, ExchangeCore
  <2>2. AllBacked' /\ wrapped' = {}
    BY DEF MoneyInv, NoWrap
  <2>3. \A o \in DOMAIN Orders' : Backed(Orders'[o]) /\ Limited(Orders'[o])
    BY <2>2 DEF AllBacked, Backed, Limited, Fits
  <2> QED
    BY <2>1, <2>3 DEF SoundOrders
<1>2. Balances' \in [AssetIds \X Accounts -> U64]
  BY DEF MoneyInv, ExchangeInv, ExchangeCore, SupplyInv, TypeOK
<1>3. Covered'
  BY PotCoversAsks, PTL
<1> QED
  BY <1>1, <1>2, <1>3, U64Facts

(* What an account other than the pot is free to give is what it holds. *)
LEMMA FreeIs ==
  ASSUME MoneyInv, NoWrap, NEW id \in AssetIds, NEW a \in Accounts, a # Pot
  PROVE  M!FreeUnits(id, a) = Balances[<<id, a>>] /\ M!FreeCash(a) = money[a]
<1>1. /\ SoundOrders(Orders) /\ OrderMap(Orders)
      /\ Balances[<<id, a>>] \in Nat /\ money[a] \in Nat
  BY MarketFacts
<1>2. AskOf(Orders, id, a) \in Nat /\ BidOf(Orders, a) \in Nat
  BY <1>1, CustodyTypes
<1>3. /\ UnitsOf(id, a) = Own(Balances, Orders, id, a)
      /\ MoneyOf(a) = Cash(money, Orders, a)
      /\ M!Offered(id, a) = AskOf(Orders, id, a)
      /\ M!Bidden(a) = BidOf(Orders, a)
  BY <1>1, View DEF SoundOrders
<1>4. M!FreeUnits(id, a) = UnitsOf(id, a) - M!Offered(id, a)
  <2>1. <<id, a>> \in AssetIds \X Accounts /\ <<id, a>>[1] = id /\ <<id, a>>[2] = a
    OBVIOUS
  <2> QED
    BY <2>1 DEF M!FreeUnits
<1>5. M!FreeCash(a) = MoneyOf(a) - M!Bidden(a)
  BY DEF M!FreeCash
<1> QED
  BY <1>1, <1>2, <1>3, <1>4, <1>5 DEF Own, Cash

(* make_transfer, seen on every balance. *)
LEMMA UnitsMove ==
  ASSUME SupplyInv, NoWrap, UNCHANGED <<Projects, Assets, Issues, Burns, history>>,
         NEW x \in AssetIds, has_asset(x), NEW from \in Accounts, NEW to \in Accounts,
         NEW n \in U64, n <= Balances[<<x, from>>],
         Balances' = MakeTransfer(Balances, x, from, to, n)
  PROVE  \A y \in AssetIds, a \in Accounts :
           Balances'[<<y, a>>] = (Balances[<<y, a>>] + (IF y = x /\ a = to THEN n ELSE 0))
                                   - (IF y = x /\ a = from THEN n ELSE 0)
<1>1. /\ Balances' \in BalanceMap
      /\ \A y \in AssetIds, a \in Accounts :
           (y # x \/ (a # from /\ a # to)) => Balances'[<<y, a>>] = Balances[<<y, a>>]
      /\ Transferred(Balances, Balances', x, from, to, n)
  BY LedgerMove DEF NoWrap
<1>2. Balances \in BalanceMap /\ n \in Nat
  BY PotFacts, U64Facts
<1>3. \A y \in AssetIds, a \in Accounts : Balances[<<y, a>>] \in Nat
  BY <1>2, U64Facts DEF BalanceMap
<1> SUFFICES ASSUME NEW y \in AssetIds, NEW a \in Accounts
             PROVE  Balances'[<<y, a>>]
                      = (Balances[<<y, a>>] + (IF y = x /\ a = to THEN n ELSE 0))
                          - (IF y = x /\ a = from THEN n ELSE 0)
  OBVIOUS
<1>4. CASE y # x \/ (a # from /\ a # to)
  BY <1>1, <1>2, <1>3, <1>4
<1>5. CASE y = x /\ from = to /\ a = from
  <2>1. Balances'[<<y, a>>] = Balances[<<y, a>>]
    BY <1>1, <1>5 DEF Transferred
  <2> QED
    BY <1>2, <1>3, <1>5, <2>1
<1>6. CASE y = x /\ from # to /\ a = from
  BY <1>1, <1>2, <1>3, <1>6 DEF Transferred
<1>7. CASE y = x /\ from # to /\ a = to
  BY <1>1, <1>2, <1>3, <1>7 DEF Transferred
<1> QED
  BY <1>4, <1>5, <1>6, <1>7
-----------------------------------------------------------------------------
LEMMA LedgerRefines ==
  ASSUME MoneyInv, MoneyInv', NoWrap, NoWrap', UNCHANGED <<Orders, money>>
  PROVE  M!MarketNext
<1>1. /\ OrderMap(Orders) /\ SoundOrders(Orders) /\ Pot \in Accounts
  BY MarketFacts
<1>2. \A a : MoneyOf(a)' = MoneyOf(a)
  BY DEF MoneyOf, Bids
<1>3. ASSUME NEW id \in AssetIds, NEW a \in Accounts
      PROVE  UnitsOf(id, a)' >= M!Offered(id, a)
  <2>1. /\ UnitsOf(id, a)' = Own(Balances', Orders, id, a)
        /\ M!Offered(id, a) = AskOf(Orders, id, a)
    BY <1>1, View, ViewNext DEF SoundOrders
  <2>2. /\ AskOf(Orders, id, a) \in Nat /\ AskSum(Orders, id) \in Nat
        /\ AskOf(Orders, id, Pot) = 0
    BY <1>1, CustodyTypes
  <2>3. Balances'[<<id, a>>] \in Nat
    BY MarketFactsNext
  <2>4. a = Pot => AskSum(Orders, id) <= Balances'[<<id, a>>]
    BY MarketFactsNext DEF Covered
  <2> QED
    BY <2>1, <2>2, <2>3, <2>4 DEF Own
<1>4. M!ledger_step
  <2>1. \A id \in AssetIds, a \in Accounts :
          [k \in AssetIds \X Accounts |-> UnitsOf(k[1], k[2])]'[<<id, a>>] = UnitsOf(id, a)'
    OBVIOUS
  <2> QED
    BY <1>2, <1>3, <2>1 DEF M!ledger_step
<1> QED
  BY <1>4 DEF M!MarketNext

(* What a new offer must satisfy to be posted in the market. *)
LEMMA PostRefines ==
  ASSUME NEW o \in DOMAIN Orders' \ DOMAIN Orders,
         \A k \in DOMAIN Orders' \ {o} : Orders'[k] = Orders[k],
         DOMAIN Orders' = DOMAIN Orders \cup {o},
         NEW r, r = Orders'[o], r.left_amount > 0,
         r.direction = ASK => r.left_amount <= M!FreeUnits(r.asset_id, r.maker),
         r.direction # ASK => /\ r.locked_balance = SaturatingMul(r.left_amount, r.price)
                              /\ r.locked_balance <= M!FreeCash(r.maker),
         \A id \in AssetIds, a \in Accounts : UnitsOf(id, a)' = UnitsOf(id, a),
         M!Settles(CashMap)
  PROVE  M!MarketNext
<1> DEFINE w == OfferMap'[o]
<1>1. /\ w.left = r.left_amount /\ w.price = r.price /\ w.maker = r.maker
      /\ w.asset = r.asset_id /\ w.selling = (r.direction = ASK)
      /\ w.locked = r.locked_balance
  BY DEF OfferMap, OffersOf
<1>2. OfferMap' = M!Insert(OfferMap, o, w)
  BY DEF OfferMap, OffersOf, M!Insert
<1>3. UNCHANGED OwnMap
  BY DEF OwnMap
<1>4. w.left > 0
  BY <1>1
<1>5. IF w.selling THEN w.left <= M!FreeUnits(w.asset, w.maker)
                   ELSE /\ w.locked = M!Cost(w.left, w.price)
                        /\ w.locked <= M!FreeCash(w.maker)
  BY <1>1, SameCost
<1>6. o \in DOMAIN OfferMap' \ DOMAIN OfferMap
  BY DEF OfferMap, OffersOf
<1> DEFINE Posted(id) ==
      /\ UNCHANGED OwnMap
      /\ OfferMap'[id].left > 0
      /\ IF OfferMap'[id].selling
           THEN OfferMap'[id].left <= M!FreeUnits(OfferMap'[id].asset, OfferMap'[id].maker)
           ELSE /\ OfferMap'[id].locked = M!Cost(OfferMap'[id].left, OfferMap'[id].price)
                /\ OfferMap'[id].locked <= M!FreeCash(OfferMap'[id].maker)
      /\ OfferMap' = M!Insert(OfferMap, id, OfferMap'[id])
      /\ M!Settles(CashMap)
<1>7. Posted(o)
  BY <1>2, <1>3, <1>4, <1>5
<1> HIDE DEF Posted
<1>8. \E id \in DOMAIN OfferMap' \ DOMAIN OfferMap : Posted(id)
  BY <1>6, <1>7
<1> QED
  BY <1>8, Zenon DEF Posted, M!MarketNext, M!post, OwnMap, CashMap, OfferMap, OffersOf

LEMMA MakeRefines ==
  ASSUME MoneyInv, MoneyInv', NoWrap, NoWrap',
         NEW maker \in Signers, NEW x \in AssetIds, NEW price \in Prices,
         NEW n \in OrderAmounts, NEW direction \in {ASK, BID}, NEW salt \in Salts,
         make_order(maker, x, price, n, direction, salt)
  PROVE  M!MarketNext
<1> DEFINE o == <<"order", maker, x, price, n, direction, salt>>
           locked == Locked(direction, n, price)
           r == [asset_id |-> x, maker |-> maker, amount |-> n, price |-> price, left_amount |-> n,
                 direction |-> direction, locked_balance |-> locked]
<1>1. /\ SoundOrders(Orders) /\ OrderMap(Orders) /\ ExchangeCore /\ SupplyInv
      /\ money \in [Accounts -> Nat]
      /\ Pot \in Accounts /\ maker \in Accounts /\ maker # Pot
      /\ \A id \in AssetIds, a \in Accounts : Balances[<<id, a>>] \in Nat
      /\ \A a \in Accounts : money[a] \in Nat
  BY MarketFacts
<1>2. SoundOrders(Orders') /\ OrderMap(Orders')
  BY MarketFactsNext
<1>3. n \in U64 /\ n \in Nat /\ price \in U64
  BY ExchangeAssumption, U64Facts
<1>4. SaturatingMul(n, price) \in U64 /\ 0 \in U64
  BY <1>3, SaturatingMulType, U64Facts
<1>5. locked = IF direction = BID THEN SaturatingMul(n, price) ELSE 0
  BY DEF Locked
<1>6. locked \in Nat /\ locked \in U64
  BY <1>4, <1>5, U64Facts
<1>7. /\ r \in Order /\ r.direction = direction /\ r.asset_id = x /\ r.maker = maker
      /\ r.left_amount = n /\ r.locked_balance = locked /\ r.price = price
  BY <1>3, <1>6 DEF Order
<1>8. /\ has_asset(x) /\ o \notin DOMAIN Orders /\ o \in OrderIds
      /\ Orders' = Insert(Orders, o, r) /\ n > 0 /\ price > 0
      /\ UNCHANGED <<Projects, Assets, Issues, Burns, history>>
      /\ direction = ASK => /\ Balances[<<x, maker>>] >= n
                            /\ Balances' = MakeTransfer(Balances, x, maker, Pot, n)
                            /\ UNCHANGED money
      /\ direction = BID => /\ CanPay(maker, Pot, locked)
                            /\ money' = Paid(maker, Pot, locked)
                            /\ UNCHANGED Balances
  BY DEF make_order, ASK, BID, OrderIds
<1> HIDE DEF o, r, locked
<1>9. Stored(Orders, Orders', o, r)
  BY <1>1, <1>7, <1>8, InsertOrder
<1>10. Moves(Orders, Orders', direction, x, maker, 0, n, 0, locked)
  <2>1. OrderAt(Orders, o, direction, x, maker, 0, 0)
    BY <1>8 DEF OrderAt
  <2>2. OrderAt(Orders', o, direction, x, maker, n, locked)
    BY <1>7, <1>9 DEF OrderAt, Stored
  <2>3. SameBut(Orders, Orders', o)
    BY <1>9 DEF Stored
  <2>4. PICK z : z = 0
    OBVIOUS
  <2>5. Moves(Orders, Orders', direction, x, maker, z, n, z, locked)
    BY <1>1, <1>2, <2>1, <2>2, <2>3, <2>4, CustodyMoves
  <2> QED
    BY <2>4, <2>5
<1>11. /\ \A id, a : AskOf(Orders, id, a) \in Nat /\ AskOf(Orders', id, a) \in Nat
       /\ \A id : AskSum(Orders, id) \in Nat /\ AskSum(Orders', id) \in Nat
       /\ \A a : BidOf(Orders, a) \in Nat /\ BidOf(Orders', a) \in Nat
       /\ BidSum(Orders) \in Nat /\ BidSum(Orders') \in Nat
  BY <1>1, <1>2, CustodyTypes
<1>12. CanPay(maker, Pot, locked) /\ money' = Paid(maker, Pot, locked)
  <2>1. CASE direction = BID
    BY <1>8, <2>1
  <2>2. CASE direction = ASK
    BY <1>5, <1>8, <2>2 DEF ASK, BID, CanPay, Paid
  <2> QED
    BY <2>1, <2>2
<1>13. M!Settles(CashMap)
  <2> SUFFICES ASSUME NEW a \in Accounts
               PROVE  CashMap[a] = Cash(Due(maker, Pot, locked), Orders', a)
    BY <1>1, <1>2, <1>6, <1>12, PaymentSettles
  <2>1. CashMap[a] = Cash(money, Orders, a)
    BY <1>1, View DEF CashMap, SoundOrders
  <2>2. Due(maker, Pot, locked)[a] = IF a = maker THEN money[a] - locked
                                     ELSE IF a = Pot THEN money[a] + locked ELSE money[a]
    BY <1>1, <1>6 DEF Due
  <2>3. /\ BidOf(Orders', a) = BidOf(Orders, a) + (IF a = maker THEN locked ELSE 0)
        /\ BidSum(Orders') = BidSum(Orders) + locked
    BY <1>5, <1>6, <1>10, <1>11 DEF Moves
  <2>4. money[a] \in Nat
    BY <1>1
  <2> QED
    BY <1>1, <1>6, <1>11, <2>1, <2>2, <2>3, <2>4 DEF Cash
<1>14. ASSUME NEW id \in AssetIds, NEW a \in Accounts
       PROVE  UnitsOf(id, a)' = UnitsOf(id, a)
  <2>1. UnitsOf(id, a) = Own(Balances, Orders, id, a)
    BY <1>1, View DEF SoundOrders
  <2>2. UnitsOf(id, a)' = Own(Balances', Orders', id, a)
    BY <1>2, ViewNext DEF SoundOrders
  <2>3. Balances[<<id, a>>] \in Nat
    BY <1>1
  <2>4. CASE direction = ASK
    <3>1. Balances'[<<id, a>>] = (Balances[<<id, a>>] + (IF id = x /\ a = Pot THEN n ELSE 0))
                                    - (IF id = x /\ a = maker THEN n ELSE 0)
      <4>1. n <= Balances[<<x, maker>>]
        BY <1>1, <1>3, <1>8, <2>4
      <4> QED
        BY <1>1, <1>3, <1>8, <2>4, <4>1, UnitsMove
    <3>2. /\ AskOf(Orders', id, a)
               = AskOf(Orders, id, a) + (IF id = x /\ a = maker THEN n ELSE 0)
          /\ AskSum(Orders', id) = AskSum(Orders, id) + (IF id = x THEN n ELSE 0)
      BY <1>3, <1>10, <1>11, <2>4 DEF Moves
    <3> QED
      BY <1>1, <1>3, <1>11, <2>1, <2>2, <2>3, <3>1, <3>2 DEF Own
  <2>5. CASE direction = BID
    <3>1. Balances' = Balances
      BY <1>8, <2>5
    <3>2. AskOf(Orders', id, a) = AskOf(Orders, id, a) /\ AskSum(Orders', id) = AskSum(Orders, id)
      BY <1>10, <1>11, <2>5 DEF Moves, ASK, BID
    <3> QED
      BY <2>1, <2>2, <3>1, <3>2 DEF Own
  <2> QED
    BY <2>4, <2>5
<1>15. direction = ASK => n <= M!FreeUnits(x, maker)
  BY <1>1, <1>3, <1>8, FreeIs
<1>16. direction # ASK => locked = SaturatingMul(n, price) /\ locked <= M!FreeCash(maker)
  <2> SUFFICES ASSUME direction = BID
               PROVE  locked = SaturatingMul(n, price) /\ locked <= M!FreeCash(maker)
    OBVIOUS
  <2>1. PaymentMade(maker, Pot, locked)
    BY <1>1, <1>6, <1>12, Payment
  <2>2. money[maker] \in Nat
    BY <1>1
  <2>3. locked <= money[maker]
    BY <1>1, <1>6, <2>1, <2>2 DEF PaymentMade
  <2> QED
    BY <1>1, <1>5, <2>3, FreeIs
<1>17. /\ o \in DOMAIN Orders' \ DOMAIN Orders /\ DOMAIN Orders' = DOMAIN Orders \cup {o}
       /\ \A k \in DOMAIN Orders' \ {o} : Orders'[k] = Orders[k]
       /\ Orders'[o] = r
  BY <1>8, <1>9 DEF Stored, SameBut
<1> QED
  BY <1>7, <1>8, <1>13, <1>14, <1>15, <1>16, <1>17, PostRefines

LEMMA CancelRefines ==
  ASSUME MoneyInv, MoneyInv', NoWrap, NoWrap',
         NEW sender \in Signers, NEW o \in DOMAIN Orders, cancel_order(sender, o)
  PROVE  M!MarketNext
<1> DEFINE r == Orders[o]
           x == r.asset_id
           n == r.left_amount
           locked == IF r.direction = BID THEN r.locked_balance ELSE 0
<1>1. /\ SoundOrders(Orders) /\ OrderMap(Orders) /\ ExchangeCore /\ SupplyInv
      /\ money \in [Accounts -> Nat]
      /\ Pot \in Accounts /\ sender \in Accounts /\ sender # Pot
      /\ \A id \in AssetIds, a \in Accounts : Balances[<<id, a>>] \in Nat
      /\ \A a \in Accounts : money[a] \in Nat
  BY MarketFacts
<1>2. SoundOrders(Orders') /\ OrderMap(Orders')
  BY MarketFactsNext
<1>3. /\ r \in Order /\ x \in AssetIds /\ has_asset(x)
      /\ n \in U64 /\ n \in Nat /\ r.direction \in {ASK, BID} /\ locked \in Nat
  BY <1>1, OrderFacts, U64Facts
<1>4. /\ r.maker = sender /\ Orders' = Remove(Orders, o)
      /\ UNCHANGED <<Projects, Assets, Issues, Burns, history>>
      /\ r.direction = ASK => /\ Balances' = MakeTransfer(Balances, x, Pot, sender, n)
                              /\ UNCHANGED money
      /\ r.direction = BID => /\ CanPay(Pot, sender, r.locked_balance)
                              /\ money' = Paid(Pot, sender, r.locked_balance)
                              /\ UNCHANGED Balances
  BY DEF cancel_order, ASK, BID
<1>5. SameBut(Orders, Orders', o) /\ o \notin DOMAIN Orders'
  BY <1>1, <1>4, RemoveOrder
<1>6. Moves(Orders, Orders', r.direction, x, sender, n, 0, r.locked_balance, 0)
  <2>1. OrderAt(Orders, o, r.direction, x, sender, n, r.locked_balance)
    BY <1>4 DEF OrderAt
  <2>2. OrderAt(Orders', o, r.direction, x, sender, 0, 0)
    BY <1>5 DEF OrderAt
  <2>3. PICK z : z = 0
    OBVIOUS
  <2>4. Moves(Orders, Orders', r.direction, x, sender, n, z, r.locked_balance, z)
    BY <1>1, <1>2, <1>5, <2>1, <2>2, <2>3, CustodyMoves
  <2> QED
    BY <2>3, <2>4
<1>7. /\ \A id, a : AskOf(Orders, id, a) \in Nat /\ AskOf(Orders', id, a) \in Nat
      /\ \A id : AskSum(Orders, id) \in Nat /\ AskSum(Orders', id) \in Nat
      /\ \A a : BidOf(Orders, a) \in Nat /\ BidOf(Orders', a) \in Nat
      /\ BidSum(Orders) \in Nat /\ BidSum(Orders') \in Nat
  BY <1>1, <1>2, CustodyTypes
<1>8. CanPay(Pot, sender, locked) /\ money' = Paid(Pot, sender, locked)
  <2>1. CASE r.direction = BID
    BY <1>4, <2>1
  <2>2. CASE r.direction = ASK
    BY <1>4, <2>2 DEF ASK, BID, CanPay, Paid
  <2> QED
    BY <1>3, <2>1, <2>2
<1>9. r.direction = ASK => n <= Balances[<<x, Pot>>]
  <2>1. r.direction = ASK => r \in AskRecords(x)
    BY <1>3 DEF AskRecords
  <2>2. r.direction = ASK => n <= AskSum(Orders, x)
    BY <1>1, <2>1, CustodyBound DEF AskSum, Fields
  <2>3. AskSum(Orders, x) <= Balances[<<x, Pot>>]
    BY <1>3, PotCoversAsks DEF Covered
  <2> HIDE DEF r, x, n
  <2> QED
    BY <1>1, <1>3, <1>7, <2>2, <2>3
<1> HIDE DEF r, x, n, locked
<1>10. M!Settles(CashMap)
  <2> SUFFICES ASSUME NEW a \in Accounts
               PROVE  CashMap[a] = Cash(Due(Pot, sender, locked), Orders', a)
    BY <1>1, <1>2, <1>3, <1>8, PaymentSettles
  <2>1. CashMap[a] = Cash(money, Orders, a)
    BY <1>1, View DEF CashMap, SoundOrders
  <2>2. Due(Pot, sender, locked)[a] = IF a = Pot THEN money[a] - locked
                                      ELSE IF a = sender THEN money[a] + locked ELSE money[a]
    BY <1>1, <1>3 DEF Due
  <2>3. /\ BidOf(Orders', a) + (IF a = sender THEN locked ELSE 0) = BidOf(Orders, a)
        /\ BidSum(Orders') + locked = BidSum(Orders)
    BY <1>3, <1>6, <1>7 DEF Moves, locked
  <2>4. money[a] \in Nat
    BY <1>1
  <2> QED
    BY <1>1, <1>3, <1>7, <2>1, <2>2, <2>3, <2>4 DEF Cash
<1>11. ASSUME NEW id \in AssetIds, NEW a \in Accounts
       PROVE  UnitsOf(id, a)' = UnitsOf(id, a)
  <2>1. UnitsOf(id, a) = Own(Balances, Orders, id, a)
    BY <1>1, View DEF SoundOrders
  <2>2. UnitsOf(id, a)' = Own(Balances', Orders', id, a)
    BY <1>2, ViewNext DEF SoundOrders
  <2>3. Balances[<<id, a>>] \in Nat
    BY <1>1
  <2>4. CASE r.direction = ASK
    <3>1. Balances'[<<id, a>>]
            = (Balances[<<id, a>>] + (IF id = x /\ a = sender THEN n ELSE 0))
                - (IF id = x /\ a = Pot THEN n ELSE 0)
      BY <1>1, <1>3, <1>4, <1>9, <2>4, UnitsMove
    <3>2. /\ AskOf(Orders', id, a) + (IF id = x /\ a = sender THEN n ELSE 0)
               = AskOf(Orders, id, a)
          /\ AskSum(Orders', id) + (IF id = x THEN n ELSE 0) = AskSum(Orders, id)
      BY <1>3, <1>6, <1>7, <2>4 DEF Moves
    <3> QED
      BY <1>1, <1>3, <1>7, <2>1, <2>2, <2>3, <3>1, <3>2 DEF Own
  <2>5. CASE r.direction = BID
    <3>1. Balances' = Balances
      BY <1>4, <2>5
    <3>2. AskOf(Orders', id, a) = AskOf(Orders, id, a) /\ AskSum(Orders', id) = AskSum(Orders, id)
      BY <1>6, <1>7, <2>5 DEF Moves, ASK, BID
    <3> QED
      BY <2>1, <2>2, <3>1, <3>2 DEF Own
  <2> QED
    BY <1>3, <2>4, <2>5
<1>12. M!withdraw(o)
  <2>1. OfferMap' = M!Remove(OfferMap, o)
    BY <1>4 DEF OfferMap, OffersOf, M!Remove, Remove
  <2>2. UNCHANGED OwnMap
    BY <1>11 DEF OwnMap
  <2> QED
    BY <1>10, <2>1, <2>2, Zenon DEF M!withdraw, OfferMap, OffersOf, OwnMap, CashMap
<1>13. \E id \in DOMAIN OfferMap : M!withdraw(id)
  BY <1>12 DEF OfferMap, OffersOf
<1> QED
  BY <1>13, Zenon DEF M!MarketNext, OfferMap, OffersOf

LEMMA ShiftIs ==
  ASSUME NEW D, NEW f \in [D -> Int], NEW from \in D, NEW to \in D, NEW n \in Int, NEW k \in D
  PROVE  M!Shift(f, from, to, n)[k]
           = (f[k] + (IF k = to THEN n ELSE 0)) - (IF k = from THEN n ELSE 0)
BY DEF M!Shift

(* pallet_balances::transfer on its own. *)
LEMMA NativeRefines ==
  ASSUME MoneyInv, MoneyInv', NoWrap, NoWrap', NEW sender \in Signers, NEW to \in Accounts,
         NEW value \in NativeAmounts, native_transfer(sender, to, value)
  PROVE  M!MarketNext \/ UNCHANGED <<OwnMap, CashMap, OfferMap>>
<1>1. /\ SoundOrders(Orders) /\ OrderMap(Orders) /\ money \in [Accounts -> Nat]
      /\ Pot \in Accounts /\ sender \in Accounts /\ sender # Pot
      /\ \A a \in Accounts : money[a] \in Nat
  BY MarketFacts
<1>2. SoundOrders(Orders')
  BY MarketFactsNext
<1>3. /\ CanPay(sender, to, value) /\ money' = Paid(sender, to, value)
      /\ UNCHANGED <<Orders, Balances>> /\ value \in Nat
  BY ExchangeAssumption DEF native_transfer, carbonVars
<1>4. \A id, a : UnitsOf(id, a)' = UnitsOf(id, a)
  BY <1>3 DEF UnitsOf, Asks
<1>5. UNCHANGED <<OwnMap, OfferMap>>
  BY <1>3, <1>4 DEF OwnMap, OfferMap
<1>6. CASE value = 0 \/ sender = to
  <2>1. money' = money
    BY <1>3, <1>6 DEF Paid
  <2>2. \A a : MoneyOf(a)' = MoneyOf(a)
    BY <1>3, <2>1 DEF MoneyOf, Bids
  <2> QED
    BY <1>5, <2>2 DEF CashMap
<1>7. CASE ~(value = 0 \/ sender = to)
  <2>0. \A a : BidOf(Orders, a) \in Nat /\ BidSum(Orders) \in Nat
    BY <1>1, CustodyTypes
  <2>1. \A a \in Accounts : CashMap[a] = Cash(money, Orders, a) /\ CashMap[a] \in Int
    <3> TAKE a \in Accounts
    <3>1. CashMap[a] = Cash(money, Orders, a)
      BY <1>1, View DEF CashMap, SoundOrders
    <3>2. Cash(money, Orders, a) \in Int
      BY <1>1, <2>0 DEF Cash
    <3> QED
      BY <3>1, <3>2
  <2>2. \A a \in Accounts : CashMap'[a] = Cash(money', Orders, a)
    BY <1>2, <1>3, ViewNext DEF CashMap, SoundOrders
  <2>3. PaymentMade(sender, to, value)
    BY <1>1, <1>3, Payment
  <2>4. /\ value <= money[sender] /\ value > 0 /\ sender # to
        /\ money'[to] = money[to] + value
    BY <1>3, <1>7, <2>3 DEF PaymentMade
  <2>5. CashMap'[to] = CashMap[to] + value
    BY <1>1, <1>3, <2>0, <2>1, <2>2, <2>4 DEF Cash
  <2>6. CashMap \in [Accounts -> Int]
    BY <2>1 DEF CashMap
  <2>7. M!Settles(M!Shift(CashMap, sender, to, value))
    <3> SUFFICES ASSUME NEW a \in Accounts
                 PROVE  M!Shift(CashMap, sender, to, value)[a]
                          = Cash(Due(sender, to, value), Orders', a)
      BY <1>1, <1>2, <1>3, PaymentSettles
    <3>1. M!Shift(CashMap, sender, to, value)[a]
            = (CashMap[a] + (IF a = to THEN value ELSE 0))
                - (IF a = sender THEN value ELSE 0)
      BY <1>1, <1>3, <2>6, ShiftIs
    <3>2. Due(sender, to, value)[a] = IF a = sender THEN money[a] - value
                                      ELSE IF a = to THEN money[a] + value ELSE money[a]
      BY <1>7 DEF Due
    <3>3. money[a] \in Nat
      BY <1>1
    <3> QED
      BY <1>3, <2>0, <2>1, <2>4, <3>1, <3>2, <3>3 DEF Cash
  <2>8. value <= M!FreeCash(sender)
    <3>1. M!FreeCash(sender) = MoneyOf(sender) - M!Bidden(sender)
      BY <1>1 DEF M!FreeCash
    <3>2. MoneyOf(sender) = Cash(money, Orders, sender) /\ M!Bidden(sender) = BidOf(Orders, sender)
      BY <1>1, View DEF SoundOrders
    <3> QED
      BY <1>1, <2>0, <2>4, <3>1, <3>2 DEF Cash
  <2>9. M!pay(sender, to, value)
    BY <1>5, <2>7, <2>8, Zenon DEF M!pay, OwnMap, OfferMap, OffersOf, CashMap
  <2>10. CashMap'[to] - CashMap[to] = value /\ CashMap[to] < CashMap'[to]
    BY <1>3, <2>1, <2>4, <2>5
  <2>11. \E a \in Accounts, b \in Accounts :
           /\ OfferMap' = OfferMap /\ CashMap[b] < CashMap'[b]
           /\ M!pay(a, b, CashMap'[b] - CashMap[b])
    BY <1>1, <1>5, <2>9, <2>10
  <2> QED
    BY <2>11, Zenon DEF M!MarketNext, OfferMap, OffersOf, CashMap
<1> QED
  BY <1>6, <1>7

(* An offer of the market, after n of it were dealt for m. *)
Cut(w, n, m) == [w EXCEPT !.left = @ - n, !.locked = IF w.selling THEN @ ELSE @ - m]

OfferOf(r) == [maker |-> r.maker, asset |-> r.asset_id, price |-> r.price,
               left |-> r.left_amount, locked |-> r.locked_balance,
               selling |-> r.direction = ASK]

LEMMA OfferCut ==
  ASSUME NEW r, NEW q, NEW n, NEW m, q.maker = r.maker, q.asset_id = r.asset_id,
         q.price = r.price, q.direction = r.direction, q.left_amount = r.left_amount - n,
         q.locked_balance = IF r.direction = ASK THEN r.locked_balance
                            ELSE r.locked_balance - m
  PROVE  Cut(OfferOf(r), n, m) = OfferOf(q)
<1>1. PICK w : w = OfferOf(r)
  OBVIOUS
<1>2. w = [maker |-> r.maker, asset |-> r.asset_id, price |-> r.price,
           left |-> r.left_amount, locked |-> r.locked_balance,
           selling |-> r.direction = ASK]
  BY <1>1 DEF OfferOf
<1>3. PICK v : v = IF w.selling THEN w.locked ELSE w.locked - m
  OBVIOUS
<1>4. Cut(w, n, m) = [w EXCEPT !.left = w.left - n, !.locked = v]
  BY <1>3, Zenon DEF Cut
<1>5. w.locked = r.locked_balance /\ (w.selling <=> r.direction = ASK)
  BY <1>2
<1>6. v = q.locked_balance
  BY <1>3, <1>5
<1>7. [w EXCEPT !.left = w.left - n, !.locked = v]
        = [maker |-> r.maker, asset |-> r.asset_id, price |-> r.price,
           left |-> r.left_amount - n, locked |-> v, selling |-> r.direction = ASK]
  <2>1. PICK mk, x, p, left, locked : /\ mk = r.maker /\ x = r.asset_id /\ p = r.price
                                      /\ left = r.left_amount /\ locked = r.locked_balance
    OBVIOUS
  <2>2. PICK selling : selling = (r.direction = ASK)
    OBVIOUS
  <2>3. w = [maker |-> mk, asset |-> x, price |-> p, left |-> left, locked |-> locked,
             selling |-> selling]
    BY <1>2, <2>1, <2>2, Zenon
  <2>4. PICK u : u = w.left - n
    OBVIOUS
  <2>5. PICK t : t = [w EXCEPT !.left = u]
    OBVIOUS
  <2>6. t = [maker |-> mk, asset |-> x, price |-> p, left |-> u, locked |-> locked,
             selling |-> selling]
    BY <2>3, <2>5
  <2>7. [t EXCEPT !.locked = v] = [maker |-> mk, asset |-> x, price |-> p, left |-> u,
                                   locked |-> v, selling |-> selling]
    BY <2>6
  <2>8. [w EXCEPT !.left = u, !.locked = v] = [[w EXCEPT !.left = u] EXCEPT !.locked = v]
    OBVIOUS
  <2>9. u = r.left_amount - n
    BY <2>1, <2>3, <2>4
  <2>10. [w EXCEPT !.left = w.left - n, !.locked = v]
           = [maker |-> mk, asset |-> x, price |-> p, left |-> u, locked |-> v,
              selling |-> selling]
    BY <2>4, <2>5, <2>7, <2>8, Zenon
  <2> QED
    BY <2>1, <2>2, <2>9, <2>10, Zenon
<1>8. OfferOf(q) = [maker |-> r.maker, asset |-> r.asset_id, price |-> r.price,
                    left |-> r.left_amount - n, locked |-> v, selling |-> r.direction = ASK]
  BY <1>6, Zenon DEF OfferOf
<1> QED
  BY <1>1, <1>4, <1>7, <1>8, Zenon

(* What a deal must satisfy in the market. *)
LEMMA DealRefines ==
  ASSUME NEW o \in DOMAIN Orders, NEW r, r = Orders[o], r.left_amount \in Nat,
         NEW taker \in Accounts, NEW n \in Nat, n > 0, n <= r.left_amount,
         NEW seller, seller = IF r.direction = ASK THEN r.maker ELSE taker,
         NEW buyer, buyer = IF r.direction = ASK THEN taker ELSE r.maker,
         NEW m, m = SaturatingMul(n, r.price),
         r.direction = ASK => taker = r.maker \/ m <= M!FreeCash(taker),
         r.direction # ASK => n <= M!FreeUnits(r.asset_id, taker) /\ m <= r.locked_balance,
         OfferMap' = IF n = r.left_amount THEN M!Remove(OfferMap, o)
                     ELSE [OfferMap EXCEPT ![o] = Cut(OfferMap[o], n, m)],
         OwnMap' = M!Shift(OwnMap, <<r.asset_id, seller>>, <<r.asset_id, buyer>>, n),
         M!Settles(M!Shift(CashMap, buyer, seller, m))
  PROVE  M!MarketNext
<1>1. PICK w : w = OfferMap[o]
  OBVIOUS
<1>2. /\ w.left = r.left_amount /\ w.price = r.price /\ w.maker = r.maker
      /\ w.asset = r.asset_id /\ w.selling = (r.direction = ASK)
      /\ w.locked = r.locked_balance /\ o \in DOMAIN OfferMap
      /\ m = M!Cost(n, w.price)
  BY <1>1, SameCost DEF OfferMap, OffersOf
<1>3. /\ seller = IF w.selling THEN w.maker ELSE taker
      /\ buyer = IF w.selling THEN taker ELSE w.maker
  BY <1>2
<1>4. PICK left : left = IF o \in DOMAIN OfferMap' THEN OfferMap'[o].left ELSE 0
  OBVIOUS
<1>5. left = w.left - n
  <2>1. CASE n = r.left_amount
    BY <1>2, <1>4, <2>1 DEF M!Remove
  <2>2. CASE n # r.left_amount
    <3>1. OfferMap' = [OfferMap EXCEPT ![o] = Cut(OfferMap[o], n, m)]
      BY <2>2
    <3>2. OfferMap[o] = [maker |-> r.maker, asset |-> r.asset_id, price |-> r.price,
                         left |-> r.left_amount, locked |-> r.locked_balance,
                         selling |-> r.direction = ASK]
      BY DEF OfferMap, OffersOf
    <3>3. OfferMap'[o] = Cut(OfferMap[o], n, m) /\ o \in DOMAIN OfferMap'
      BY <1>2, <3>1
    <3>4. OfferMap'[o].left = r.left_amount - n
      <4>1. PICK v : v = IF OfferMap[o].selling THEN OfferMap[o].locked
                         ELSE OfferMap[o].locked - m
        OBVIOUS
      <4>2. PICK u : u = OfferMap[o]
        OBVIOUS
      <4>3. Cut(u, n, m) = [u EXCEPT !.left = u.left - n, !.locked = v]
        BY <4>1, <4>2, Zenon DEF Cut
      <4>4. "left" \in DOMAIN u /\ u.left = r.left_amount
        BY <3>2, <4>2
      <4>5. Cut(u, n, m).left = u.left - n
        BY <4>3, <4>4
      <4> QED
        BY <3>3, <4>2, <4>4, <4>5
    <3> QED
      BY <1>2, <1>4, <3>3, <3>4
  <2> QED
    BY <2>1, <2>2
<1>6. left < w.left /\ w.left - left = n
  BY <1>2, <1>5
<1>7. /\ IF w.selling THEN taker = w.maker \/ m <= M!FreeCash(taker)
                       ELSE n <= M!FreeUnits(w.asset, taker) /\ m <= w.locked
      /\ OfferMap' = IF n = w.left THEN M!Remove(OfferMap, o)
                     ELSE [OfferMap EXCEPT ![o] = Cut(OfferMap[o], n, m)]
      /\ OwnMap' = M!Shift(OwnMap, <<w.asset, seller>>, <<w.asset, buyer>>, n)
      /\ M!Settles(M!Shift(CashMap, buyer, seller, m))
  BY <1>2
<1> DEFINE Left(id) == IF id \in DOMAIN OfferMap' THEN OfferMap'[id].left ELSE 0
           N(id) == OfferMap[id].left - Left(id)
           Seller(id, t) == IF OfferMap[id].selling THEN OfferMap[id].maker ELSE t
           Buyer(id, t) == IF OfferMap[id].selling THEN t ELSE OfferMap[id].maker
           C(id) == M!Cost(N(id), OfferMap[id].price)
           Deal(id, t) ==
             /\ IF OfferMap[id].selling
                  THEN t = OfferMap[id].maker \/ C(id) <= M!FreeCash(t)
                  ELSE /\ N(id) <= M!FreeUnits(OfferMap[id].asset, t)
                       /\ C(id) <= OfferMap[id].locked
             /\ OfferMap' = IF N(id) = OfferMap[id].left THEN M!Remove(OfferMap, id)
                            ELSE [OfferMap EXCEPT ![id] = Cut(OfferMap[id], N(id), C(id))]
             /\ OwnMap' = M!Shift(OwnMap, <<OfferMap[id].asset, Seller(id, t)>>,
                                  <<OfferMap[id].asset, Buyer(id, t)>>, N(id))
             /\ M!Settles(M!Shift(CashMap, Buyer(id, t), Seller(id, t), C(id)))
<1>8. Left(o) < OfferMap[o].left /\ N(o) = n /\ C(o) = m
  BY <1>1, <1>2, <1>4, <1>6
<1>9. Deal(o, taker)
  <2>1. Seller(o, taker) = seller /\ Buyer(o, taker) = buyer
    BY <1>1, <1>3
  <2> HIDE DEF N, C, Seller, Buyer
  <2>2. M!Settles(M!Shift(CashMap, Buyer(o, taker), Seller(o, taker), C(o)))
    BY <1>1, <1>7, <1>8, <2>1
  <2> QED
    BY <1>1, <1>7, <1>8, <2>1, <2>2
<1>10. \E id \in DOMAIN OfferMap : Left(id) < OfferMap[id].left /\ \E t \in Accounts : Deal(id, t)
  <2> HIDE DEF Left, Deal
  <2> QED
    BY <1>2, <1>8, <1>9
<1> QED
  BY <1>10, Zenon DEF M!MarketNext, M!deal, Cut, OwnMap, CashMap, OfferMap, OffersOf

(* Taking nothing changes nothing; taking something is a deal. *)
LEMMA TakeRefines ==
  ASSUME MoneyInv, MoneyInv', NoWrap, NoWrap', NEW taker \in Signers, NEW o \in DOMAIN Orders,
         NEW n \in TakeAmounts, take_order(taker, o, n)
  PROVE  M!MarketNext \/ UNCHANGED <<OwnMap, CashMap, OfferMap>>
<1> DEFINE r == Orders[o]
           m == SaturatingMul(n, r.price)
           q == Filled(r, n, m)
           x == r.asset_id
           mk == r.maker
           seller == IF r.direction = ASK THEN mk ELSE taker
           buyer == IF r.direction = ASK THEN taker ELSE mk
           payer == IF r.direction = ASK THEN taker ELSE Pot
           giver == IF r.direction = ASK THEN Pot ELSE taker
<1>1. /\ SoundOrders(Orders) /\ OrderMap(Orders) /\ ExchangeCore /\ SupplyInv
      /\ money \in [Accounts -> Nat]
      /\ Pot \in Accounts /\ Pot \notin Signers /\ Signers \subseteq Accounts
      /\ \A id \in AssetIds, a \in Accounts : Balances[<<id, a>>] \in Nat
      /\ \A a \in Accounts : money[a] \in Nat
  BY MarketFacts
<1>2. SoundOrders(Orders') /\ OrderMap(Orders')
  BY MarketFactsNext
<1>3. /\ r \in Order /\ Backed(r) /\ Limited(r) /\ x \in AssetIds /\ has_asset(x) /\ mk \in Signers
      /\ r.left_amount \in U64 /\ r.left_amount \in Nat /\ r.price \in U64 /\ r.price \in Nat
      /\ r.locked_balance \in Nat /\ r.direction \in {ASK, BID}
  BY <1>1, OrderFacts, U64Facts DEF SoundOrders
<1>4. n \in U64 /\ n \in Nat /\ m \in U64 /\ m \in Nat
  BY <1>3, SaturatingMulType, ExchangeAssumption, U64Facts
<1>5. /\ r.left_amount >= n /\ UNCHANGED <<Projects, Assets, Issues, Burns, history>>
      /\ Dealt(o, q)
      /\ \/ /\ r.direction = ASK
            /\ Balances[<<x, Pot>>] >= n
            /\ CanPay(taker, mk, m)
            /\ money' = Paid(taker, mk, m)
            /\ Balances' = MakeTransfer(Balances, x, Pot, taker, n)
         \/ /\ r.direction = BID
            /\ Balances[<<x, taker>>] >= n
            /\ Balances' = MakeTransfer(Balances, x, taker, mk, n)
            /\ CanPay(Pot, taker, m)
            /\ money' = Paid(Pot, taker, m)
            /\ wrapped' = wrapped \cup {k \in {o} : r.locked_balance < m}
  BY DEF take_order
<1>6. n <= r.left_amount
  BY <1>3, <1>4, <1>5
<1>7. /\ q \in Order /\ q.asset_id = x /\ q.maker = mk /\ q.price = r.price
      /\ q.direction = r.direction /\ q.left_amount = r.left_amount - n
      /\ r.direction # BID => q.locked_balance = r.locked_balance
  BY <1>3, <1>4, <1>6, FilledType
<1>8. /\ r.direction = BID => /\ m <= r.locked_balance
                              /\ q.locked_balance = r.locked_balance - m
                              /\ q.left_amount = 0 => q.locked_balance = 0
      /\ r.direction # BID => r.locked_balance = 0
  <2>1. r.direction = BID => m <= r.locked_balance
    <3>1. r.direction = BID => wrapped' = wrapped \cup {k \in {o} : r.locked_balance < m}
      BY <1>5 DEF ASK, BID
    <3>2. wrapped' = {}
      BY DEF NoWrap
    <3> HIDE DEF r, m
    <3> QED
      BY <1>3, <1>4, <3>1, <3>2
  <2>2. r.direction # BID => r.locked_balance = 0
    BY <1>3 DEF Backed, ASK, BID
  <2> QED
    BY <1>3, <1>4, <1>6, <2>1, <2>2, FilledBacked
<1>9. /\ payer \in Accounts /\ seller \in Accounts /\ buyer \in Accounts /\ giver \in Accounts
      /\ taker \in Accounts /\ mk \in Accounts /\ taker # Pot /\ mk # Pot
  BY <1>1, <1>3
<1>10. /\ CanPay(payer, seller, m) /\ money' = Paid(payer, seller, m)
       /\ Balances[<<x, giver>>] >= n
       /\ Balances' = MakeTransfer(Balances, x, giver, buyer, n)
  BY <1>5 DEF ASK, BID
<1> HIDE DEF q, m
<1>11. /\ SameBut(Orders, Orders', o)
       /\ o \in DOMAIN Orders' => Orders'[o] = q /\ q.left_amount > 0
       /\ o \notin DOMAIN Orders' => q.left_amount = 0
       /\ DOMAIN Orders' \subseteq DOMAIN Orders
  BY <1>1, <1>5, <1>7, DealtEffect
<1>12. Moves(Orders, Orders', r.direction, x, mk, r.left_amount, q.left_amount,
             r.locked_balance, q.locked_balance)
  <2>1. OrderAt(Orders, o, r.direction, x, mk, r.left_amount, r.locked_balance)
    BY DEF OrderAt
  <2>2. q.left_amount = 0 => q.locked_balance = 0
    BY <1>3, <1>7, <1>8
  <2>3. OrderAt(Orders', o, r.direction, x, mk, q.left_amount, q.locked_balance)
    BY <1>7, <1>11, <2>2 DEF OrderAt
  <2> QED
    BY <1>1, <1>2, <1>11, <2>1, <2>3, CustodyMoves
<1>13. /\ \A id, a : AskOf(Orders, id, a) \in Nat /\ AskOf(Orders', id, a) \in Nat
       /\ \A id : AskSum(Orders, id) \in Nat /\ AskSum(Orders', id) \in Nat
       /\ \A a : BidOf(Orders, a) \in Nat /\ BidOf(Orders', a) \in Nat
       /\ BidSum(Orders) \in Nat /\ BidSum(Orders') \in Nat
  BY <1>1, <1>2, CustodyTypes
<1>14. OfferMap' = IF n = r.left_amount THEN M!Remove(OfferMap, o)
                   ELSE [OfferMap EXCEPT ![o] = Cut(OfferMap[o], n, m)]
  <2>1. CASE n = r.left_amount
    <3>1. Orders' = Remove(Orders, o)
      BY <1>3, <1>5, <1>7, <2>1 DEF Dealt
    <3> QED
      BY <2>1, <3>1 DEF OfferMap, OffersOf, M!Remove, Remove
  <2>2. CASE n # r.left_amount
    <3>1. Orders' = Insert(Orders, o, q)
      BY <1>3, <1>4, <1>5, <1>6, <1>7, <2>2 DEF Dealt
    <3>2. DOMAIN Orders' = DOMAIN Orders /\ Orders'[o] = q
          /\ \A k \in DOMAIN Orders \ {o} : Orders'[k] = Orders[k]
      BY <3>1 DEF Insert
    <3>3. OfferMap[o] = [maker |-> mk, asset |-> x, price |-> r.price,
                         left |-> r.left_amount, locked |-> r.locked_balance,
                         selling |-> r.direction = ASK]
      BY DEF OfferMap, OffersOf
    <3>4. OfferMap'[o] = [maker |-> mk, asset |-> x, price |-> r.price,
                          left |-> r.left_amount - n, locked |-> q.locked_balance,
                          selling |-> r.direction = ASK]
      BY <1>7, <3>2 DEF OfferMap, OffersOf
    <3>5. \A k \in DOMAIN Orders \ {o} : OfferMap'[k] = OfferMap[k]
      BY <3>2 DEF OfferMap, OffersOf
    <3>6. /\ OfferMap = [k \in DOMAIN Orders |-> OfferMap[k]]
          /\ OfferMap' = [k \in DOMAIN Orders |-> OfferMap'[k]]
      BY <3>2 DEF OfferMap, OffersOf
    <3>7. Cut(OfferMap[o], n, m) = OfferMap'[o]
      <4>1. q.locked_balance = IF r.direction = ASK THEN r.locked_balance
                               ELSE r.locked_balance - m
        BY <1>3, <1>7, <1>8 DEF ASK, BID
      <4>2. PICK r0, q0, m0 : r0 = r /\ q0 = q /\ m0 = m
        OBVIOUS
      <4>3. /\ q0.maker = r0.maker /\ q0.asset_id = r0.asset_id /\ q0.price = r0.price
            /\ q0.direction = r0.direction /\ q0.left_amount = r0.left_amount - n
            /\ q0.locked_balance = IF r0.direction = ASK THEN r0.locked_balance
                                   ELSE r0.locked_balance - m0
        BY <1>7, <4>1, <4>2
      <4>4. Cut(OfferOf(r0), n, m0) = OfferOf(q0)
        BY <4>3, OfferCut
      <4>5. OfferMap[o] = OfferOf(r0)
        BY <3>3, <4>2, Zenon DEF OfferOf
      <4>6. OfferMap'[o] = OfferOf(q0)
        BY <3>2, <4>2, Zenon DEF OfferOf, OfferMap, OffersOf
      <4> QED
        BY <4>2, <4>4, <4>5, <4>6
    <3>8. OfferMap' = [OfferMap EXCEPT ![o] = OfferMap'[o]]
      BY <3>5, <3>6
    <3> QED
      BY <2>2, <3>7, <3>8
  <2> QED
    BY <2>1, <2>2
<1> HIDE DEF r, x, mk
<1>15. ASSUME NEW id \in AssetIds, NEW a \in Accounts
       PROVE  /\ UnitsOf(id, a) \in Int
              /\ UnitsOf(id, a)' = (UnitsOf(id, a) + (IF id = x /\ a = buyer THEN n ELSE 0))
                                     - (IF id = x /\ a = seller THEN n ELSE 0)
  <2>1. UnitsOf(id, a) = Own(Balances, Orders, id, a)
    BY <1>1, View DEF SoundOrders
  <2>2. UnitsOf(id, a)' = Own(Balances', Orders', id, a)
    BY <1>2, ViewNext DEF SoundOrders
  <2>3. Balances[<<id, a>>] \in Nat
    BY <1>1
  <2>4. Balances'[<<id, a>>]
          = (Balances[<<id, a>>] + (IF id = x /\ a = buyer THEN n ELSE 0))
              - (IF id = x /\ a = giver THEN n ELSE 0)
    <3>1. n <= Balances[<<x, giver>>]
      BY <1>1, <1>3, <1>4, <1>9, <1>10
    <3> HIDE DEF buyer, giver
    <3> QED
      BY <1>1, <1>3, <1>4, <1>5, <1>9, <1>10, <3>1, UnitsMove
  <2>5. CASE r.direction = ASK
    <3>1. /\ AskOf(Orders', id, a) + (IF id = x /\ a = mk THEN n ELSE 0) = AskOf(Orders, id, a)
          /\ AskSum(Orders', id) + (IF id = x THEN n ELSE 0) = AskSum(Orders, id)
      BY <1>3, <1>4, <1>7, <1>12, <1>13, <2>5 DEF Moves
    <3> QED
      BY <1>4, <1>9, <1>13, <2>1, <2>2, <2>3, <2>4, <2>5, <3>1 DEF Own
  <2>6. CASE r.direction = BID
    <3>1. AskOf(Orders', id, a) = AskOf(Orders, id, a) /\ AskSum(Orders', id) = AskSum(Orders, id)
      BY <1>12, <1>13, <2>6 DEF Moves, ASK, BID
    <3>2. buyer = mk /\ seller = taker /\ giver = taker
      BY <2>6 DEF ASK, BID
    <3> QED
      BY <1>4, <1>9, <1>13, <2>1, <2>2, <2>3, <2>4, <3>1, <3>2 DEF Own
  <2> QED
    BY <1>3, <2>5, <2>6
<1>16. ASSUME NEW a \in Accounts
       PROVE  /\ CashMap[a] \in Int
              /\ Cash(Due(payer, seller, m), Orders', a)
                   = (CashMap[a] + (IF a = seller THEN m ELSE 0))
                       - (IF a = buyer THEN m ELSE 0)
  <2>1. CashMap[a] = Cash(money, Orders, a)
    BY <1>1, View DEF CashMap, SoundOrders
  <2>2. Due(payer, seller, m)[a]
          = (money[a] + (IF a = seller THEN m ELSE 0)) - (IF a = payer THEN m ELSE 0)
    <3>1. money[a] \in Nat
      BY <1>1
    <3> HIDE DEF payer, seller
    <3> QED
      BY <1>4, <3>1 DEF Due
  <2>3. money[a] \in Nat
    BY <1>1
  <2>4. CASE r.direction = ASK
    <3>1. BidOf(Orders', a) = BidOf(Orders, a) /\ BidSum(Orders') = BidSum(Orders)
      BY <1>12, <1>13, <2>4 DEF Moves, ASK, BID
    <3>2. payer = taker /\ buyer = taker
      BY <2>4
    <3> HIDE DEF payer, buyer, seller
    <3> QED
      BY <1>4, <1>13, <2>1, <2>2, <2>3, <3>1, <3>2 DEF Cash
  <2>5. CASE r.direction = BID
    <3>1. /\ BidOf(Orders', a) + (IF a = mk THEN m ELSE 0) = BidOf(Orders, a)
          /\ BidSum(Orders') + m = BidSum(Orders)
      <4>1. /\ m <= r.locked_balance /\ q.locked_balance = r.locked_balance - m
            /\ r.locked_balance \in Nat /\ m \in Nat
        BY <1>3, <1>4, <1>8, <2>5
      <4>2. /\ BidOf(Orders', a) + (IF a = mk THEN r.locked_balance ELSE 0)
                 = BidOf(Orders, a) + (IF a = mk THEN q.locked_balance ELSE 0)
            /\ BidSum(Orders') + r.locked_balance = BidSum(Orders) + q.locked_balance
        BY <1>12, <2>5 DEF Moves
      <4> QED
        BY <1>13, <4>1, <4>2
    <3>2. payer = Pot /\ buyer = mk /\ seller = taker
      BY <2>5 DEF ASK, BID
    <3> QED
      BY <1>4, <1>9, <1>13, <2>1, <2>2, <2>3, <3>1, <3>2 DEF Cash
  <2> QED
    BY <1>3, <2>4, <2>5
<1>17. CASE n = 0
  <2>1. m = 0
    <3>1. n * r.price = 0
      BY <1>3, <1>17
    <3> QED
      BY <3>1, U64Facts DEF SaturatingMul, m
  <2>2. money' = money
    BY <1>10, <2>1 DEF Paid
  <2>3. UNCHANGED OwnMap
    <3>1. \A id \in AssetIds, a \in Accounts : UnitsOf(id, a)' = UnitsOf(id, a)
      BY <1>15, <1>17
    <3> QED
      BY <3>1 DEF OwnMap
  <2>4. UNCHANGED CashMap
    <3>1. ASSUME NEW a \in Accounts
          PROVE  MoneyOf(a)' = MoneyOf(a)
      <4>1. MoneyOf(a)' = Cash(money', Orders', a) /\ MoneyOf(a) = CashMap[a]
        BY <1>2, ViewNext DEF SoundOrders, CashMap
      <4>2. Due(payer, seller, m)[a] = money[a]
        BY <2>1 DEF Due
      <4>3. Cash(money, Orders', a) = Cash(Due(payer, seller, m), Orders', a)
        BY <4>2 DEF Cash
      <4> QED
        BY <1>16, <2>1, <2>2, <4>1, <4>3
    <3> QED
      BY <3>1 DEF CashMap
  <2>5. UNCHANGED OfferMap
    <3>1. /\ q.left_amount = r.left_amount /\ q.left_amount > 0
          /\ q.locked_balance = r.locked_balance
      BY <1>3, <1>7, <1>8, <1>17, <2>1 DEF Backed
    <3>2. Orders' = Insert(Orders, o, q)
      BY <1>5, <3>1 DEF Dealt
    <3>3. DOMAIN Orders' = DOMAIN Orders /\ Orders'[o] = q
          /\ \A k \in DOMAIN Orders \ {o} : Orders'[k] = Orders[k]
      BY <3>2 DEF Insert
    <3>4. \A k \in DOMAIN Orders :
            /\ Orders'[k].maker = Orders[k].maker /\ Orders'[k].asset_id = Orders[k].asset_id
            /\ Orders'[k].price = Orders[k].price
            /\ Orders'[k].left_amount = Orders[k].left_amount
            /\ Orders'[k].locked_balance = Orders[k].locked_balance
            /\ Orders'[k].direction = Orders[k].direction
      BY <1>7, <3>1, <3>3 DEF r, x, mk
    <3> QED
      BY <3>3, <3>4 DEF OfferMap, OffersOf
  <2> QED
    BY <2>3, <2>4, <2>5
<1>18. CASE n # 0
  <2>1. r.direction = ASK => taker = mk \/ m <= M!FreeCash(taker)
    <3> SUFFICES ASSUME r.direction = ASK, taker # mk
                 PROVE  m <= M!FreeCash(taker)
      OBVIOUS
    <3>1. PaymentMade(taker, mk, m)
      BY <1>1, <1>4, <1>9, <1>10, Payment
    <3>2. m <= money[taker]
      <4>1. money[taker] \in Nat
        BY <1>1, <1>9
      <4> QED
        BY <1>4, <3>1, <4>1 DEF PaymentMade
    <3>3. M!FreeCash(taker) = money[taker]
      BY <1>3, <1>9, FreeIs
    <3> QED
      BY <3>2, <3>3
  <2>2. r.direction # ASK => n <= M!FreeUnits(x, taker) /\ m <= r.locked_balance
    <3>1. r.direction # ASK => n <= M!FreeUnits(x, taker)
      BY <1>1, <1>3, <1>4, <1>9, <1>10, FreeIs
    <3> QED
      BY <1>3, <1>8, <3>1
  <2>3. OwnMap' = M!Shift(OwnMap, <<x, seller>>, <<x, buyer>>, n)
    <3>1. OwnMap \in [AssetIds \X Accounts -> Int]
      BY <1>15 DEF OwnMap
    <3>2. <<x, seller>> \in AssetIds \X Accounts /\ <<x, buyer>> \in AssetIds \X Accounts
      BY <1>3, <1>9
    <3>3. ASSUME NEW k \in AssetIds \X Accounts
          PROVE  OwnMap'[k] = M!Shift(OwnMap, <<x, seller>>, <<x, buyer>>, n)[k]
      <4>1. PICK id \in AssetIds, a \in Accounts : k = <<id, a>>
        OBVIOUS
      <4>2. M!Shift(OwnMap, <<x, seller>>, <<x, buyer>>, n)[k]
              = (OwnMap[k] + (IF k = <<x, buyer>> THEN n ELSE 0))
                  - (IF k = <<x, seller>> THEN n ELSE 0)
        <5>0. PICK D : D = AssetIds \X Accounts
          OBVIOUS
        <5>1. PICK from \in D, to \in D : from = <<x, seller>> /\ to = <<x, buyer>>
          BY <3>2, <5>0
        <5>2. M!Shift(OwnMap, from, to, n)[k]
                = (OwnMap[k] + (IF k = to THEN n ELSE 0)) - (IF k = from THEN n ELSE 0)
          <6>1. OwnMap \in [D -> Int] /\ k \in D /\ n \in Int
            BY <1>4, <3>1, <5>0
          <6> QED
            BY <6>1, ShiftIs
        <5> QED
          BY <5>1, <5>2
      <4>3. OwnMap[k] = UnitsOf(id, a) /\ OwnMap'[k] = UnitsOf(id, a)'
        BY <4>1 DEF OwnMap
      <4>4. /\ k = <<x, buyer>> <=> id = x /\ a = buyer
            /\ k = <<x, seller>> <=> id = x /\ a = seller
        BY <4>1
      <4> HIDE DEF buyer, seller
      <4> QED
        BY <1>15, <4>2, <4>3, <4>4
    <3>4. DOMAIN M!Shift(OwnMap, <<x, seller>>, <<x, buyer>>, n) = AssetIds \X Accounts
          /\ M!Shift(OwnMap, <<x, seller>>, <<x, buyer>>, n)
               = [k \in AssetIds \X Accounts |->
                    M!Shift(OwnMap, <<x, seller>>, <<x, buyer>>, n)[k]]
      BY <3>1 DEF M!Shift
    <3>5. OwnMap' = [k \in AssetIds \X Accounts |-> OwnMap'[k]]
      BY DEF OwnMap
    <3> QED
      BY <3>3, <3>4, <3>5
  <2>4. M!Settles(M!Shift(CashMap, buyer, seller, m))
    <3>1. CashMap \in [Accounts -> Int]
      BY <1>16 DEF CashMap
    <3>2. ASSUME NEW a \in Accounts
          PROVE  M!Shift(CashMap, buyer, seller, m)[a] = Cash(Due(payer, seller, m), Orders', a)
      <4>1. M!Shift(CashMap, buyer, seller, m)[a]
              = (CashMap[a] + (IF a = seller THEN m ELSE 0)) - (IF a = buyer THEN m ELSE 0)
        <5> HIDE DEF buyer, seller
        <5> QED
          BY <1>4, <1>9, <3>1, ShiftIs
      <4> QED
        BY <1>16, <4>1
    <3> HIDE DEF buyer, seller, payer
    <3> QED
      BY <1>1, <1>2, <1>4, <1>9, <1>10, <3>2, PaymentSettles
  <2>5. /\ seller = IF r.direction = ASK THEN r.maker ELSE taker
        /\ buyer = IF r.direction = ASK THEN taker ELSE r.maker
    BY DEF mk
  <2>6. n > 0 /\ m = SaturatingMul(n, r.price)
    BY <1>4, <1>18 DEF m
  <2> HIDE DEF seller, buyer
  <2> QED
    BY <1>3, <1>4, <1>6, <1>9, <1>14, <2>1, <2>2, <2>3, <2>4, <2>5, <2>6, DealRefines DEF r, x, mk
<1> QED
  BY <1>17, <1>18

LEMMA MarketStep ==
  ASSUME MoneyInv, MoneyInv', NoWrap, NoWrap', [ExchangeNext]_exchangeVars
  PROVE  M!MarketNext \/ UNCHANGED <<OwnMap, CashMap, OfferMap>>
<1> DEFINE Goal == M!MarketNext \/ UNCHANGED <<OwnMap, CashMap, OfferMap>>
<1>1. ASSUME UNCHANGED <<Orders, money>>
      PROVE  Goal
  BY <1>1, LedgerRefines
<1>2. ASSUME NEW maker \in Signers, NEW x \in AssetIds, NEW price \in Prices,
             NEW n \in OrderAmounts, NEW direction \in {ASK, BID}, NEW salt \in Salts,
             make_order(maker, x, price, n, direction, salt)
      PROVE  Goal
  BY <1>2, MakeRefines
<1>3. ASSUME NEW taker \in Signers, NEW o \in DOMAIN Orders, NEW n \in TakeAmounts,
             take_order(taker, o, n)
      PROVE  Goal
  BY <1>3, TakeRefines
<1>4. ASSUME NEW taker \in Signers, NEW o \in DOMAIN Orders, NEW n \in TakeAmounts,
             take_order_fails(taker, o, n)
      PROVE  Goal
  BY <1>1, <1>4 DEF take_order_fails
<1>5. ASSUME NEW sender \in Signers, NEW o \in DOMAIN Orders, cancel_order(sender, o)
      PROVE  Goal
  BY <1>5, CancelRefines
<1>6. ASSUME NEW sender \in Signers, NEW to \in Accounts, NEW value \in NativeAmounts,
             native_transfer(sender, to, value)
      PROVE  Goal
  BY <1>6, NativeRefines
<1>7. ASSUME UNCHANGED exchangeVars
      PROVE  Goal
  <2>1. UNCHANGED <<Balances, Orders, money>>
    BY <1>7 DEF exchangeVars, vars, carbonVars
  <2>2. \A id, a : UnitsOf(id, a)' = UnitsOf(id, a) /\ MoneyOf(a)' = MoneyOf(a)
    BY <2>1 DEF UnitsOf, MoneyOf, Asks, Bids
  <2> QED
    BY <2>1, <2>2 DEF OwnMap, CashMap, OfferMap
<1>8. Goal
  <2> HIDE DEF Goal
  <2> QED
    BY <1>1, <1>2, <1>3, <1>4, <1>5, <1>6, <1>7 DEF ExchangeNext
<1> QED
  BY <1>8

(* What has wrapped stays so, and the market promises nothing any more. *)
LEMMA VoidStep ==
  ASSUME MoneyInv, MoneyInv', [ExchangeNext]_exchangeVars
  PROVE  [M!MarketNext]_(M!marketVars)
<1>1. overflowed \subseteq overflowed'
  BY ExchangeStep DEF MoneyInv
<1>2. wrapped \subseteq wrapped'
  <2>1. Next /\ UNCHANGED <<Orders, money, potHistory>> => wrapped \subseteq wrapped'
    BY DEF potHistory
  <2>2. \A a, b, c, d, e, f : make_order(a, b, c, d, e, f) => wrapped \subseteq wrapped'
    BY DEF make_order, potHistory
  <2>3. \A a, b, c : take_order(a, b, c) => wrapped \subseteq wrapped'
    BY DEF take_order, potHistory
  <2>4. \A a, b, c : take_order_fails(a, b, c) => wrapped \subseteq wrapped'
    BY DEF take_order_fails, potHistory
  <2>5. \A a, b : cancel_order(a, b) => wrapped \subseteq wrapped'
    BY DEF cancel_order
  <2>6. \A a, b, c : native_transfer(a, b, c) => wrapped \subseteq wrapped'
    BY DEF native_transfer, potHistory
  <2>7. UNCHANGED exchangeVars => wrapped \subseteq wrapped'
    BY DEF exchangeVars, potHistory
  <2> QED
    BY <2>1, <2>2, <2>3, <2>4, <2>5, <2>6, <2>7, Zenon DEF ExchangeNext
<1>3. CASE ~NoWrap'
  <2>1. overflowed' \cap AssetIds # {} \/ wrapped' # {}
    BY <1>3 DEF NoWrap
  <2> QED
    BY <2>1, Zenon DEF M!MarketNext
<1>4. CASE NoWrap'
  <2>1. /\ overflowed \cap AssetIds = {} /\ wrapped = {}
        /\ overflowed' \cap AssetIds = {} /\ wrapped' = {}
    BY <1>1, <1>2, <1>4 DEF NoWrap
  <2>2. M!MarketNext \/ UNCHANGED <<OwnMap, CashMap, OfferMap>>
    BY <1>4, <2>1, MarketStep DEF NoWrap
  <2>3. UNCHANGED (overflowed \cap AssetIds # {} \/ wrapped # {})
    BY <2>1, Zenon
  <2> QED
    BY <2>2, <2>3, Zenon DEF M!marketVars, OwnMap, CashMap, OfferMap, OffersOf
<1> QED
  BY <1>3, <1>4

LEMMA MarketStart == ExchangeInit => M!MarketInit
<1> SUFFICES ASSUME ExchangeInit PROVE M!MarketInit
  OBVIOUS
<1>1. MoneyInv
  BY MoneyStart
<1>2. /\ SoundOrders(Orders) /\ OrderMap(Orders) /\ money \in [Accounts -> Nat]
      /\ \A a \in Accounts : money[a] \in Nat
      /\ ~(overflowed \cap AssetIds # {} \/ wrapped # {})
  <2>1. NoWrap
    BY DEF ExchangeInit, Init, NoWrap
  <2> QED
    BY <1>1, <2>1, MarketFacts DEF NoWrap
<1>3. /\ Orders = <<>> /\ DOMAIN Orders = {} /\ Balances = [k \in AssetIds \X Accounts |-> 0]
  BY DEF ExchangeInit, Init
<1>4. \A K : \A field \in Fields : SumOver(Orders, K, field) = 0
  BY <1>2, <1>3, CustodyBound
<1>5. /\ \A id, a : AskOf(Orders, id, a) = 0 /\ AskSum(Orders, id) = 0
      /\ \A a : BidOf(Orders, a) = 0 /\ BidSum(Orders) = 0
  BY <1>4 DEF AskOf, AskSum, BidOf, BidSum, Fields
<1>6. ASSUME NEW id \in AssetIds, NEW a \in Accounts
      PROVE  UnitsOf(id, a) = 0
  <2>1. UnitsOf(id, a) = Own(Balances, Orders, id, a)
    BY <1>2, View DEF SoundOrders
  <2>2. Balances[<<id, a>>] = 0
    BY <1>3
  <2> QED
    BY <1>5, <2>1, <2>2 DEF Own
<1>7. ASSUME NEW a \in Accounts
      PROVE  MoneyOf(a) \in Nat
  <2>1. MoneyOf(a) = Cash(money, Orders, a)
    BY <1>2, View DEF SoundOrders
  <2> QED
    BY <1>2, <1>5, <2>1 DEF Cash
<1>8. [k \in AssetIds \X Accounts |-> UnitsOf(k[1], k[2])] = [k \in AssetIds \X Accounts |-> 0]
  BY <1>6
<1>9. [a \in Accounts |-> MoneyOf(a)] \in [Accounts -> Nat]
  BY <1>7
<1>10. OffersOf(Orders) = <<>>
  BY <1>3 DEF OffersOf
<1> QED
  BY <1>2, <1>8, <1>9, <1>10, Zenon DEF M!MarketInit, OffersOf

(* The exchange implements the market: whatever the prices and amounts,     *)
(* every call of the composed pallets is one step of the market without     *)
(* custody, or changes nothing that a user sees, until a total_supply or a  *)
(* locked_balance wraps around.                                             *)
THEOREM ImplementsMarketCorrect == ExchangeSpec => ImplementsMarket
<1>1. MoneyInv /\ [ExchangeNext]_exchangeVars => MoneyInv'
  BY MoneyStep
<1>2. MoneyInv /\ MoneyInv' /\ [ExchangeNext]_exchangeVars => [M!MarketNext]_(M!marketVars)
  BY VoidStep
<1> QED
  BY <1>1, <1>2, MoneyStart, MarketStart, PTL DEF ExchangeSpec, ImplementsMarket, M!MarketSpec
=============================================================================
