--------------------------- MODULE StandardAssets ---------------------------
(***************************************************************************)
(* pallet-standard-assets: a ledger of fungible assets that anyone may     *)
(* issue, transfer, mint and burn.                                         *)
(*                                                                         *)
(* An id is the hash of the issue call that creates it, so it is known     *)
(* before that call; only issue looks at AssetInfos, and transfer, mint    *)
(* and burn accept any id at all.  A call that fails changes nothing.      *)
(***************************************************************************)
EXTENDS Storage, Sequences

CONSTANTS
  Accounts,        \* the accounts; all of them can sign
  Names,           \* symbol, name and decimals: opaque
  MaxSupplies,     \* arguments of issue
  FirstSupplies,   \* arguments of issue
  Amounts          \* arguments of transfer, mint and burn

ASSUME StandardAssumption ==
  /\ IsFiniteSet(Accounts)
  /\ MaxSupplies \subseteq U64
  /\ FirstSupplies \subseteq U64
  /\ Amounts \subseteq U64

VARIABLES
  AssetInfos,    \* id -> max_supply, an Option map
  Balances,      \* <<id, account>> -> u64
  TotalSupply,   \* id -> u64
  events,        \* the events of the last call
  stray          \* history: id -> units others held when issue reset the supply

vars == <<AssetInfos, Balances, TotalSupply, events, stray>>
-----------------------------------------------------------------------------
Ids == {"ECRC10"} \X Accounts \X Names \X MaxSupplies \X FirstSupplies

TypeOK ==
  /\ DOMAIN AssetInfos \subseteq Ids
  /\ AssetInfos \in [DOMAIN AssetInfos -> U64]
  /\ Balances \in [Ids \X Accounts -> U64]
  /\ TotalSupply \in [Ids -> U64]
  /\ stray \in [Ids -> Nat]

Init ==
  /\ AssetInfos = <<>>
  /\ Balances = [key \in Ids \X Accounts |-> 0]
  /\ TotalSupply = [id \in Ids |-> 0]
  /\ events = <<>>
  /\ stray = [id \in Ids |-> 0]

(* The units of an asset that the accounts of a set hold. *)
HeldBy(id, holders) == Total([a \in holders |-> Balances[<<id, a>>]])
-----------------------------------------------------------------------------
issue(origin, name, max_supply, first_supply) ==
  LET id == <<"ECRC10", origin, name, max_supply, first_supply>> IN
  /\ id \notin DOMAIN AssetInfos
  /\ AssetInfos' = Insert(AssetInfos, id, max_supply)
  /\ Balances' = [Balances EXCEPT ![<<id, origin>>] = first_supply]
  /\ TotalSupply' = [TotalSupply EXCEPT ![id] = first_supply]
  /\ stray' = [stray EXCEPT ![id] = HeldBy(id, Accounts \ {origin})]
  /\ events' = <<<<"NewAsset", id, origin>>>>

(* The origin's new balance is written before the target's is read, which  *)
(* is what makes a transfer to oneself harmless.                           *)
MovedAfterReads(balances, id, origin, target, amount) ==   \* mutant: target read first
  [balances EXCEPT ![<<id, origin>>] = @ - amount,
                   ![<<id, target>>] = WrapAdd(balances[<<id, target>>], amount)]
Moved(balances, id, origin, target, amount) ==
  LET debited == [balances EXCEPT ![<<id, origin>>] = @ - amount]
  IN  [debited EXCEPT ![<<id, target>>] = WrapAdd(@, amount)]

transfer(origin, id, target, amount) ==
  /\ amount # 0
  /\ Balances[<<id, origin>>] >= amount
  /\ Balances' = Moved(Balances, id, origin, target, amount)
  /\ events' = <<<<"Transferred", id, origin>>>>
  /\ UNCHANGED <<AssetInfos, TotalSupply, stray>>

mint(origin, id, amount) ==
  /\ Balances' = [Balances EXCEPT ![<<id, origin>>] = WrapAdd(@, amount)]
  /\ TotalSupply' = [TotalSupply EXCEPT ![id] = WrapAdd(@, amount)]
  /\ events' = <<<<"Minted", id, origin>>>>
  /\ UNCHANGED <<AssetInfos, stray>>

burn(origin, id, amount) ==
  /\ amount > 0
  /\ Balances[<<id, origin>>] >= amount
  /\ Balances' = [Balances EXCEPT ![<<id, origin>>] = @ - amount]
  /\ TotalSupply' = [TotalSupply EXCEPT ![id] = WrapSub(@, amount)]
  /\ events' = <<<<"Burned", id, origin>>>>
  /\ UNCHANGED <<AssetInfos, stray>>

Next ==
  \/ \E origin \in Accounts, name \in Names,
        max_supply \in MaxSupplies, first_supply \in FirstSupplies :
       issue(origin, name, max_supply, first_supply)
  \/ \E origin \in Accounts, id \in Ids, target \in Accounts, amount \in Amounts :
       transfer(origin, id, target, amount)
  \/ \E origin \in Accounts, id \in Ids, amount \in Amounts : mint(origin, id, amount)
  \/ \E origin \in Accounts, id \in Ids, amount \in Amounts : burn(origin, id, amount)

Spec == Init /\ [][Next]_vars
-----------------------------------------------------------------------------
(* Of an asset that nobody else held units of when it was issued,          *)
(* TotalSupply is what the accounts hold, through every interleaving of    *)
(* transfers (to oneself too), mints and burns, up to u64 wrap-around.     *)
HeldMatchesTotal ==
  \A id \in Ids : stray[id] = 0 => SameModulo(HeldBy(id, Accounts), TotalSupply[id])

(* What the code says of the total: "The total unit supply of an asset"    *)
(* (lib.rs:59), "There are, and will only ever be, `total` such assets"    *)
(* (lib.rs:71-72).  The id is predictable, mint asks no AssetInfos, and    *)
(* issue overwrites the total and its caller's balance only: units that    *)
(* others minted under the id before are held and never counted.           *)
TotalIsWhatIsHeld ==
  \A id \in DOMAIN AssetInfos : SameModulo(HeldBy(id, Accounts), TotalSupply[id])
=============================================================================
