------------------------------- MODULE Market -------------------------------
(***************************************************************************)
(* What the exchange promises its users, without custody: everyone keeps   *)
(* what it offers until it is dealt, a deal is an exchange of units for    *)
(* money at the price of the offer, in one step, and nobody can spend what *)
(* it has on offer.  CarbonExchange, where a pot account holds all that is *)
(* on offer, implements this specification.  The promise ends when an      *)
(* amount has wrapped around u64 (void).                                   *)
(***************************************************************************)
EXTENDS Storage

CONSTANTS
  Traders,              \* the accounts
  Goods,                \* the assets
  House,                \* the trader whose own money the exchange keeps: its pot
  ExistentialDeposit    \* less money than this may be lost by an account

VARIABLES
  own,      \* <<asset, account>> -> units, those on offer included
  cash,     \* account -> money, that of its bids included
  offers,   \* id -> [maker, asset, price, left, locked, selling]
  void      \* an amount has wrapped around: nothing is promised any more

marketVars == <<own, cash, offers, void>>
-----------------------------------------------------------------------------
(* What an account has on offer, and what it is free to give away. *)
Offered(good, who) ==
  Total([o \in {o \in DOMAIN offers : offers[o].selling /\ offers[o].maker = who
                                        /\ offers[o].asset = good} |-> offers[o].left])
Bidden(who) ==
  Total([o \in {o \in DOMAIN offers : ~offers[o].selling /\ offers[o].maker = who} |->
           offers[o].locked])
FreeUnits(good, who) == own[<<good, who>>] - Offered(good, who)
FreeCash(who) == cash[who] - Bidden(who)

(* `n` of `map` move from one key to another; keys may be equal. *)
Shift(map, from, to, n) == [[map EXCEPT ![from] = @ - n] EXCEPT ![to] = @ + n]

(* What a deal of `n` units costs. *)
Cost(n, price) == SaturatingMul(n, price)

(* The money becomes what `c` says; but an account may lose its free money, *)
(* if that is less than the existential deposit.  The house may lose as     *)
(* much, and owe it to the bidders: its cash can become negative.           *)
Settles(c) ==
  LET after == cash' IN
  \A who \in Traders :
    \/ after[who] = c[who]
    \/ after[who] = Bidden(who)' /\ c[who] - Bidden(who)' \in 0 .. ExistentialDeposit - 1
    \/ who = House /\ c[who] - after[who] \in 0 .. ExistentialDeposit - 1
-----------------------------------------------------------------------------
MarketInit ==
  /\ own = [k \in Goods \X Traders |-> 0]
  /\ cash \in [Traders -> Nat]
  /\ offers = <<>>
  /\ ~void

post(id, o) ==
  /\ UNCHANGED own
  /\ o.left > 0
  /\ IF o.selling THEN o.left <= FreeUnits(o.asset, o.maker)
                  ELSE o.locked = Cost(o.left, o.price) /\ o.locked <= FreeCash(o.maker)
  /\ offers' = Insert(offers, id, o)
  /\ Settles(cash)

(* A withdrawn offer changes nothing of what anyone has. *)
withdraw(id) ==
  /\ offers' = Remove(offers, id)
  /\ UNCHANGED own
  /\ Settles(cash)

deal(id, taker, n) ==
  LET o == offers[id]
      seller == IF o.selling THEN o.maker ELSE taker
      buyer == IF o.selling THEN taker ELSE o.maker
      cost == Cost(n, o.price)
  IN
  /\ IF o.selling THEN taker = o.maker \/ cost <= FreeCash(taker)
                  ELSE n <= FreeUnits(o.asset, taker) /\ cost <= o.locked
  /\ offers' = IF n = o.left THEN Remove(offers, id)
               ELSE [offers EXCEPT ![id] =
                       [o EXCEPT !.left = @ - n,
                                 !.locked = IF o.selling THEN @ ELSE @ - cost]]
  /\ own' = Shift(own, <<o.asset, seller>>, <<o.asset, buyer>>, n)
  /\ Settles(Shift(cash, buyer, seller, cost))

(* Outside the market units are issued, moved and burned, and money is      *)
(* paid: of what is free.  A take of a bid that fails when the taker's      *)
(* units have moved is no deal: those units went to the maker as a gift.    *)
ledger_step ==
  /\ UNCHANGED <<offers, cash>>
  /\ LET after == own' IN
     \A good \in Goods, who \in Traders : after[<<good, who>>] >= Offered(good, who)

pay(from, to, n) ==
  /\ n <= FreeCash(from)
  /\ UNCHANGED <<offers, own>>
  /\ Settles(Shift(cash, from, to, n))

(* In a deal the offer shrinks by what is dealt; in a payment the receiver  *)
(* gets what is paid.                                                       *)
MarketNext ==
  \/ void'
  \/ ledger_step
  \/ \E id \in DOMAIN offers' \ DOMAIN offers : post(id, offers'[id])
  \/ \E id \in DOMAIN offers : withdraw(id)
  \/ \E id \in DOMAIN offers :
       LET left == IF id \in DOMAIN offers' THEN offers'[id].left ELSE 0 IN
       /\ left < offers[id].left
       /\ \E taker \in Traders : deal(id, taker, offers[id].left - left)
  \/ \E from \in Traders, to \in Traders :
       /\ offers' = offers /\ cash[to] < cash'[to]
       /\ pay(from, to, cash'[to] - cash[to])

MarketSpec == MarketInit /\ [][MarketNext]_marketVars
=============================================================================
