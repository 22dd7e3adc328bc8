--------------------------- MODULE CarbonExchange ---------------------------
(***************************************************************************)
(* pallet-carbon-exchange, composed with pallet-carbon-assets (whose state *)
(* it moves through make_transfer) and with the native currency of         *)
(* pallet-balances.  Orders are kept in custody: the pot account holds the *)
(* assets of every open ask and the money of every open bid.               *)
(*                                                                         *)
(* Substrate 2.0 does not roll a failed call back.  take_order is the one  *)
(* call of the runtime's own pallets that can fail after a write.          *)
(***************************************************************************)
EXTENDS CarbonAssets

CONSTANTS
  Pot,                  \* the account PALLET_ID.into_account(); nobody has its key
  Prices, OrderAmounts, Salts,   \* arguments of make_order
  TakeAmounts,          \* arguments of take_order
  NativeAmounts,        \* arguments of pallet_balances::transfer
  Endowment,            \* native money of each signer at genesis
  ExistentialDeposit,
  MaxOrders             \* bound on the open orders

ASSUME ExchangeAssumption ==
  /\ Pot \in Accounts \ Signers
  /\ Prices \subseteq U64 /\ OrderAmounts \subseteq U64 /\ TakeAmounts \subseteq U64
  /\ NativeAmounts \subseteq Nat
  /\ Endowment \in Nat /\ ExistentialDeposit \in Nat \ {0}

VARIABLES
  Orders,   \* order_id -> Order, an Option map
  money,    \* account -> free balance in the native currency
  \* History: nothing in the code reads these.
  dust,     \* money the pot lost by being reaped
  wrapped   \* the orders whose locked_balance has wrapped below zero

potHistory == <<dust, wrapped>>
exchangeVars == <<vars, Orders, money, potHistory>>

ASK == 0
BID == 1
-----------------------------------------------------------------------------
OrderIds ==
  {"order"} \X Signers \X AssetIds \X Prices \X OrderAmounts \X {ASK, BID} \X Salts

(* Without the salt, which only the id uses, and without money_id, which    *)
(* make_order requires to be the zero hash.                                 *)
Order ==
  [asset_id: AssetIds, maker: Signers, amount: U64, price: U64, left_amount: U64,
   direction: {ASK, BID}, locked_balance: U64]

ExchangeTypeOK ==
  /\ TypeOK
  /\ DOMAIN Orders \subseteq OrderIds /\ IsFiniteSet(DOMAIN Orders)
  /\ Orders \in [DOMAIN Orders -> Order]
  /\ money \in [Accounts -> Nat]
  /\ dust \in Nat /\ wrapped \subseteq OrderIds

ExchangeInit ==
  /\ Init
  /\ Orders = <<>>
  /\ money = [a \in Accounts |-> IF a \in Signers THEN Endowment ELSE 0]
  /\ dust = 0 /\ wrapped = {}
-----------------------------------------------------------------------------
(* pallet_balances::transfer.  A transfer of nothing, or to oneself, does   *)
(* nothing.  The receiver must end above the existential deposit; a sender  *)
(* that ends below it is reaped and its dust is lost (DustRemoval = ()).    *)
CanPay(from, to, value) ==
  \/ value = 0
  \/ from = to
  \/ value <= money[from] /\ money[to] + value >= ExistentialDeposit

Paid(from, to, value) ==
  IF value = 0 \/ from = to THEN money
  ELSE LET rest == money[from] - value IN
       [money EXCEPT ![from] = IF rest < ExistentialDeposit THEN 0 ELSE rest,
                     ![to] = @ + value]

(* What `from` loses by being reaped in that payment. *)
Dust(from, to, value) ==
  IF value = 0 \/ from = to \/ money[from] - value >= ExistentialDeposit THEN 0
  ELSE money[from] - value
-----------------------------------------------------------------------------
(* What a new order locks; the price is checked to be positive, nothing else. *)
LockedPrice(direction, amount, price) ==    \* mutant: the price of one unit
  IF direction = BID THEN price ELSE 0
Locked(direction, amount, price) ==
  IF direction = BID THEN SaturatingMul(amount, price) ELSE 0

make_order(maker, asset_id, price, amount, direction, salt) ==
  LET order_id == <<"order", maker, asset_id, price, amount, direction, salt>>
      locked == Locked(direction, amount, price)
  IN
  /\ price > 0
  /\ amount > 0
  /\ has_asset(asset_id)
  /\ order_id \notin DOMAIN Orders
  /\ Cardinality(DOMAIN Orders) < MaxOrders
  /\ \/ /\ direction = ASK
        /\ Balances[<<asset_id, maker>>] >= amount
        /\ Balances' = MakeTransfer(Balances, asset_id, maker, Pot, amount)
        /\ UNCHANGED money
     \/ /\ direction = BID
        /\ CanPay(maker, Pot, locked)
        /\ money' = Paid(maker, Pot, locked)
        /\ UNCHANGED Balances
  /\ Orders' = Insert(Orders, order_id,
       [asset_id |-> asset_id, maker |-> maker, amount |-> amount, price |-> price,
        left_amount |-> amount, direction |-> direction, locked_balance |-> locked])
  /\ events' = <<<<"NewOrder", order_id>>>>
  /\ UNCHANGED <<Projects, Assets, Issues, Burns, history, potHistory>>

(* The order after `amount` of it was taken for `money_amount`. *)
FilledKeepingLeft(order, amount, money_amount) ==    \* mutant: left_amount forgotten
  IF order.direction = BID
    THEN [order EXCEPT !.locked_balance = WrapSub(@, money_amount)] ELSE order
FilledKeepingLock(order, amount, money_amount) ==    \* mutant: locked_balance forgotten
  [order EXCEPT !.left_amount = @ - amount]
Filled(order, amount, money_amount) ==
  [order EXCEPT !.left_amount = @ - amount,
     !.locked_balance = IF order.direction = BID THEN WrapSub(@, money_amount) ELSE @]

(* The end of take_order: the order is stored again or removed. *)
Dealt(order_id, order) ==
  IF order.left_amount > 0
    THEN /\ Orders' = Insert(Orders, order_id, order)
         /\ events' = <<<<"NewDeal", order_id>>>>
    ELSE /\ Orders' = Remove(Orders, order_id)
         /\ events' = <<<<"OrderFinished", order_id>>, <<"NewDeal", order_id>>>>

take_order(taker, order_id, amount) ==
  /\ order_id \in DOMAIN Orders
  /\ LET order == Orders[order_id]
         asset_id == order.asset_id
         money_amount == SaturatingMul(amount, order.price)
     IN
     /\ order.left_amount >= amount
     /\ \/ /\ order.direction = ASK
           /\ Balances[<<asset_id, Pot>>] >= amount
           /\ CanPay(taker, order.maker, money_amount)
           /\ money' = Paid(taker, order.maker, money_amount)
           /\ Balances' = MakeTransfer(Balances, asset_id, Pot, taker, amount)
           /\ Dealt(order_id, Filled(order, amount, money_amount))
           /\ UNCHANGED potHistory
        \/ /\ order.direction = BID
           /\ Balances[<<asset_id, taker>>] >= amount
           /\ Balances' = MakeTransfer(Balances, asset_id, taker, order.maker, amount)
           /\ CanPay(Pot, taker, money_amount)
           /\ money' = Paid(Pot, taker, money_amount)
           /\ Dealt(order_id, Filled(order, amount, money_amount))
           /\ dust' = dust + Dust(Pot, taker, money_amount)
           /\ wrapped' = wrapped \cup
                {o \in {order_id} : order.locked_balance < money_amount}
  /\ UNCHANGED <<Projects, Assets, Issues, Burns, history>>

(* The pot's payment for a bid fails after the assets have moved: the call  *)
(* returns an error, deposits no event, and the taker's assets stay with    *)
(* the maker.                                                               *)
take_order_fails(taker, order_id, amount) ==
  /\ order_id \in DOMAIN Orders
  /\ LET order == Orders[order_id] IN
     /\ order.left_amount >= amount
     /\ order.direction = BID
     /\ Balances[<<order.asset_id, taker>>] >= amount
     /\ ~CanPay(Pot, taker, SaturatingMul(amount, order.price))
     /\ Balances' = MakeTransfer(Balances, order.asset_id, taker, order.maker, amount)
  /\ events' = <<>>
  /\ UNCHANGED <<Projects, Assets, Issues, Burns, history, Orders, money, potHistory>>

cancel_order(sender, order_id) ==
  /\ order_id \in DOMAIN Orders
  /\ LET order == Orders[order_id] IN
     /\ order.maker = sender
     /\ \/ /\ order.direction = ASK
           /\ Balances' = MakeTransfer(Balances, order.asset_id, Pot, sender, order.left_amount)
           /\ UNCHANGED <<money, dust>>
        \/ /\ order.direction = BID
           /\ CanPay(Pot, sender, order.locked_balance)
           /\ money' = Paid(Pot, sender, order.locked_balance)
           /\ dust' = dust + Dust(Pot, sender, order.locked_balance)
           /\ UNCHANGED Balances
  /\ Orders' = Remove(Orders, order_id)
  /\ events' = <<<<"OrderCanceled", order_id>>>>
  /\ UNCHANGED <<Projects, Assets, Issues, Burns, history, wrapped>>

(* pallet_balances::transfer called on its own; the pot can receive. *)
native_transfer(sender, to, value) ==
  /\ CanPay(sender, to, value)
  /\ money' = Paid(sender, to, value)
  /\ events' = <<<<"Transfer", to>>>>
  /\ UNCHANGED <<carbonVars, history, Orders, potHistory>>

ExchangeNext ==
  \/ Next /\ UNCHANGED <<Orders, money, potHistory>>
  \/ \E maker \in Signers, asset_id \in AssetIds, price \in Prices,
        amount \in OrderAmounts, direction \in {ASK, BID}, salt \in Salts :
       make_order(maker, asset_id, price, amount, direction, salt)
  \/ \E taker \in Signers, order_id \in DOMAIN Orders, amount \in TakeAmounts :
       take_order(taker, order_id, amount)
  \/ \E taker \in Signers, order_id \in DOMAIN Orders, amount \in TakeAmounts :
       take_order_fails(taker, order_id, amount)
  \/ \E sender \in Signers, order_id \in DOMAIN Orders : cancel_order(sender, order_id)
  \/ \E sender \in Signers, to \in Accounts, value \in NativeAmounts :
       native_transfer(sender, to, value)

ExchangeSpec == ExchangeInit /\ [][ExchangeNext]_exchangeVars
-----------------------------------------------------------------------------
Asks(id) == {o \in DOMAIN Orders : Orders[o].direction = ASK /\ Orders[o].asset_id = id}
Bids == {o \in DOMAIN Orders : Orders[o].direction = BID}

(* The pot holds, of every asset, all that the open asks still offer:       *)
(* take_order's InsuffientPotAsset check never fails and cancel_order,      *)
(* which has no such check, never drives the pot's balance below zero.      *)
PotHoldsAsks ==
  \A id \in DOMAIN Assets :
    id \notin overflowed =>
      Balances[<<id, Pot>>] >= Total([o \in Asks(id) |-> Orders[o].left_amount])

(* No empty order stays open, and however an open bid was filled, it has    *)
(* locked the price of exactly what it still asks for.  Only where the      *)
(* price of the whole order exceeds a u64, and saturating_mul cut it off,   *)
(* may it have locked less; until its locked_balance wraps below zero.      *)
BidBacking ==
  \A o \in DOMAIN Orders :
    LET order == Orders[o] IN
    /\ order.left_amount > 0
    /\ order.direction = ASK => order.locked_balance = 0
    /\ order.direction = BID =>
         IF order.amount * order.price <= MaxU64
           THEN order.locked_balance = order.left_amount * order.price
           ELSE o \in wrapped
                \/ order.locked_balance <= SaturatingMul(order.left_amount, order.price)

(* What the open bids have locked is in the pot, but for what the pot has   *)
(* lost by being reaped (a bid at a price below the existential deposit can *)
(* bring it there), until a locked_balance wraps: no interleaving of deals, *)
(* cancellations and payments spends one bid's money on another.            *)
PotCoversBids ==
  wrapped = {} => money[Pot] + dust >= Total([o \in Bids |-> Orders[o].locked_balance])

(* take_order moves the taker's assets before it pays for them, and nothing *)
(* rolls the first write back when the payment fails: the units change      *)
(* hands and no event says so.  What can make that happen: the payment      *)
(* would leave the taker below the existential deposit, the pot has lost    *)
(* money by being reaped, or the price of the bid (or of an earlier one)    *)
(* did not fit a u64.  Nothing but the units changes hands then, to the     *)
(* maker of an open bid.                                                    *)
UnpaidTakes ==
  [][events' = <<>> =>
       \E taker \in Signers, o \in Bids, amount \in TakeAmounts :
         LET order == Orders[o]
             money_amount == SaturatingMul(amount, order.price)
         IN
         /\ amount <= order.left_amount
         /\ Balances' = MakeTransfer(Balances, order.asset_id, taker, order.maker, amount)
         /\ UNCHANGED <<Projects, Assets, Issues, Burns, Orders, money>>
         /\ \/ money[taker] + money_amount < ExistentialDeposit
            \/ dust > 0
            \/ order.amount * order.price > MaxU64
            \/ wrapped # {}]_exchangeVars

(* The exchange neither loses assets nor pays them out twice: what the pot  *)
(* holds beyond the open asks is never touched by an order.                 *)
PotSurplusKept ==
  [][\A id \in DOMAIN Assets :
       Balances'[<<id, Pot>>] - Total([o \in Asks(id)' |-> Orders'[o].left_amount])
         >= Balances[<<id, Pot>>] - Total([o \in Asks(id) |-> Orders[o].left_amount])
       \/ id \in overflowed']_exchangeVars
-----------------------------------------------------------------------------
(* What the users see of it: what everyone owns, what is in custody for it  *)
(* included; to the pot belongs only what nobody has on offer.              *)
UnitsOf(id, a) ==
  LET Custody(makers) == Total([o \in {o \in Asks(id) : Orders[o].maker \in makers} |->
                                  Orders[o].left_amount])
  IN Balances[<<id, a>>] + Custody({a}) - (IF a = Pot THEN Custody(Signers) ELSE 0)
MoneyOf(a) ==
  LET Custody(makers) == Total([o \in {o \in Bids : Orders[o].maker \in makers} |->
                                  Orders[o].locked_balance])
  IN money[a] + Custody({a}) - (IF a = Pot THEN Custody(Signers) ELSE 0)

M == INSTANCE Market WITH
  Traders <- Accounts,
  Goods <- AssetIds,
  own <- [k \in AssetIds \X Accounts |-> UnitsOf(k[1], k[2])],
  cash <- [a \in Accounts |-> MoneyOf(a)],
  offers <- [o \in DOMAIN Orders |->
               [maker |-> Orders[o].maker, asset |-> Orders[o].asset_id,
                price |-> Orders[o].price, left |-> Orders[o].left_amount,
                locked |-> Orders[o].locked_balance,
                selling |-> Orders[o].direction = ASK]],
  House <- Pot,
  void <- overflowed \cap AssetIds # {} \/ wrapped # {}

(* The exchange implements the market: a deal exchanges units and money at  *)
(* the price of the order in one step, only a deal, a transfer, a burn or a *)
(* take that fails half-way takes anything from anyone, and nothing on      *)
(* offer can be spent; whatever the prices, until the u64 of a supply or of *)
(* a locked_balance wraps around.                                           *)
ImplementsMarket == M!MarketSpec
=============================================================================
