# ECO2 Ledger: TLA+ specifications, model checking and proofs

ECO2 Ledger is a Substrate 2.0 chain for carbon credits. Its own logic is in
three runtime pallets, in the way the runtime and the node wire Substrate's
parts together, and in a listener process that mirrors the chain into a
document store. This directory models that logic, checks it with TLC on small
instances, and proves every safety property that the passing runs check with
TLAPS for instances of every size.

## 1. Inventory

| Part | State | Operations | Hard behaviour |
|---|---|---|---|
| `pallets/carbon-assets` | `Projects`, `Assets`, `Issues`, `Burns` (maps from a hash), `Balances` | `submit_*` by a project's owner, `approve_*` by root or more than half of the carbon committee, `transfer`, `neutralize` | requests are checked twice, long apart; u64 counters wrap in release and wasm builds; several counters describe one supply |
| `pallets/carbon-exchange` | `Orders`; holds assets and money in the pot account `cbex/pot` | `make_order`, `take_order`, `cancel_order` | calls carbon-assets and the native currency; a failed call is not rolled back; products saturate; a poor pot is reaped |
| `pallets/standard-assets` | `AssetInfos`, `Balances`, `TotalSupply` | `issue`, `transfer`, `mint`, `burn` | ids can be computed before they exist; only `issue` looks at `AssetInfos` |
| `example/events-listener.ts`, follower | documents in nedb, a cursor file, `lastBlockNumber`, `latestBlockNumber` | `main`, `startWorker`, one handler per event | every `await` is a place to be overtaken or to die; blocks are handled again after a crash |
| `example/events-listener.ts`, server | none of its own | read-only HTTP queries | a reply is put together from several awaited reads while the follower writes |
| carbon committee, membership | `Members`, `Prime`, `Voting` of an instance of `pallet_collective`; the members of one of `pallet_membership` | propose, vote, close, disapprove; add, remove, swap and reset members, set the prime | votes race membership changes; a threshold is fixed long before it is applied |
| proxies of the runtime | `Proxies` of `pallet_proxy` | `ProxyType::filter`, `is_superset`; add, remove and use a proxy | two tables written by hand have to agree, along chains of delegates |
| consensus configuration of the runtime | session, authorship, im-online, GRANDPA | blocks, end of a session, heartbeats, finality | lengths of time and lists of keys from different places have to fit together |
| other `runtime` configuration | configuration of Substrate's pallets | - | - |
| `node/chain_spec.rs` | the genesis states `dev` and `local` | - | lists that have to agree |
| `node`: `service.rs`, `command.rs`, `rpc.rs` | the process, its tasks, the database | assemble a full or a light client, run it until it ends, subcommands | twelve calls that may fail between the spawns; essential tasks |
| `example/simple.ts`, `scripts` | - | calls and build helpers | - |

How they interact: owners send requests to carbon-assets, and the committee
dispatches the `approve_*` calls once a proposal has its votes. The exchange
moves carbon assets with `make_transfer` and money with
`pallet_balances::transfer`, both as direct calls inside its own dispatchable.
Every pallet deposits events; the listener reads them from finalized blocks and
the node's RPC, and turns them into documents that web clients query. The
council decides who sits on the committee. The node's tasks author, vote and
serve; which of them exist depends on its role, and what they can sign on the
keys that the runtime generates.

What makes each part correct:

- carbon-assets: no unit appears or disappears; the counters of asset, project
  and account agree; nothing exists before its approval; an approved request is
  counted once; a limit on the supply is kept.
- carbon-exchange: the pot always holds what the open orders are owed; makers
  can always cancel; a call that fails moves nothing. (The last does not hold,
  the first two only within limits that the properties name.)
- standard-assets: the total supply is what the accounts hold.
- listener: no finalized block is forgotten; handling a block again does no
  harm; it catches up; the documents say what `docs/interfaces.md` says of them.
- committee: nothing is approved without a majority of those who are members
  when the motion is closed.
- proxies: a delegate can do no more than the owner allowed the first of them,
  and no chain of proxied calls gets at what nobody entrusted to a delegate.
- node: it runs whole or not at all, and goes down with its essential tasks.
- consensus configuration: who is present is not reported as offline; blocks
  are finalized.
- server: a reply does not leave out what was on record when it was asked for.

## 2. Modules

| Module | What it is |
|---|---|
| `Storage` | storage maps, u64 arithmetic as the release build performs it, sums of maps |
| `CarbonAssets` | carbon-assets: one action per dispatchable |
| `CarbonExchange` | carbon-exchange; EXTENDS `CarbonAssets`, so all of its calls interleave with the exchange's, and adds the native currency |
| `Market` | what the exchange promises, without custody: the abstract specification that `CarbonExchange` implements (`ImplementsMarket`) |
| `CarbonCommittee` | the committee, its membership and root; EXTENDS `CarbonAssets`, whose `approve` they call |
| `StandardAssets` | standard-assets |
| `Proxy` | the runtime's `ProxyType` in `pallet_proxy` |
| `Genesis` | the genesis states, as operators |
| `Node` | the node: assembly, tasks, subcommands; EXTENDS `Genesis` |
| `LocalNet` | the validators of the local testnet: sessions, authorship, heartbeats, finality; EXTENDS `Node`, whose nodes start, fail and return while the chain goes on |
| `EventsListener` | the listener, one step per `await` |
| `QueryServer` | the HTTP server, one step per awaited read; EXTENDS `EventsListener`, whose process and database it shares |
| `StorageTheorems` | lemmas on wrapping arithmetic and on sums of maps |
| `CarbonAssetsTheorems`, `CarbonExchangeTheorems`, `CarbonCommitteeTheorems`, `StandardAssetsTheorems`, `ProxyTheorems`, `EventsListenerTheorems` | the theorems about the modules of those names |
| `NodeTheorems` | the theorems about `Node` and `LocalNet` |
| `MCCarbonAssets`, `MCCarbonExchange`, `MCCarbonCommittee`, `MCStandardAssets`, `MCEventsListener`, `MCLocalNet` | instances for TLC (`Proxy` and `Node` are run as they are) |

### Correspondence with the code

*Pallets.* A storage map with `Option` values is a function whose domain is the
set of keys present; a map that defaults to zero is a total function. A hash is
the tuple that was hashed, that is, the hash has no collisions. Symbols,
vintages, names and `additional` are one opaque component of the tuple. Actions
have the names of the dispatchables and take their arguments. A dispatchable is
atomic in its block, so it is one action. All but one make every check before
their first write: when they fail they change nothing and are stuttering steps.
The exception is `take_order` on a bid, which moves the assets and then may
fail to pay: `take_order_fails` is that outcome. `events` holds the events of
the last call of the ECO2 pallets. `overflow-checks` is off in the release
profile, with which the wasm runtime is built, so `+=` and `-=` on u64 wrap
(`WrapAdd`, `WrapSub`); `saturating_mul` is `SaturatingMul`.

Details of the code that are easy to overlook and are modelled as they are:
`approve_asset` adds to the project's `total_supply` in a local copy that it
does not store; `submit_burn` looks for a duplicate among the projects;
`approve_burn` deposits `IssueApproved`, although the event enum has
`BurnApproved`; `mint` is open to everyone and unlimited, although the comment on
`issue` says that there will only ever be `total` units; and two accounts or
assets whose ids share a prefix share one document in the listener's list of
potential balances.

*History variables.* `neutralized`, `displaced`, `burned` and `overflowed` in
`CarbonAssets`, `dust` and `wrapped` in `CarbonExchange`, `stray` in
`StandardAssets`, `spent`, `trusting` and `opening` in `Proxy`, and `listed` in
`QueryServer` record what the code keeps no count of. No guard reads them.

*Native currency.* `CanPay` and `Paid` are `pallet_balances::transfer` as the
exchange uses it: a transfer of nothing or to oneself succeeds, the receiver
must end with at least the existential deposit, and a sender who ends with less
is reaped and loses the rest (`DustRemoval` is `()`; what the pot loses so is
added up in `dust`). It is external code.

*Market.* The refinement mapping adds to what an account holds what the pot
holds for it: the `left_amount` of its asks, the `locked_balance` of its bids.
The pot itself (`House`) owns what is left, which may be less than nothing once
it was reaped while bids were open. Prices are as free as in `make_order`: any
positive price is posted, a bid locks `saturating_mul` of its amount and price
and a deal must be paid from what the bid has locked. A take of a bid that fails
half way is no deal but a gift of units, which `ledger_step` covers. The
abstract promise ends (`void`) when a total supply or a `locked_balance` wraps
around u64.

*Committee.* An application waits under its id and a motion is known by the id
of the application it approves; `Dispatch` is the call with the origin
`Members(threshold, seats)`, which `ApproveOrigin` accepts or refuses, and a
refusal closes the motion all the same. A motion counts the blocks that are left
to it. The council's own votes are not modelled: `change_members` and
`set_prime` may happen at any time.

*Proxies.* `filter` is the set of the calls that a type lets through, by pallet.
`root` of a proxy remembers under which type its owner let the first delegate
of the chain in. The call that a delegate makes may itself be `Proxy::proxy`,
where the filter lets `Call::Proxy(..)` through (`Any` and `NonTransfer`): it
then runs for the owner of another proxy, under the filter of that one alone.
`Reached(first)` has the proxies at the end of such chains. A `NonTransfer`
delegate thus reaches an `Any` that others have granted to the account he acts
for, and can spend from their accounts or remove their proxies; that is what the
code does, and the properties say what remains.

*Node.* A node is at a step of `new_full` or `new_light`; `Spawns` and
`Fallible` say what the step starts and whether it has a `?`. A failure drops
the `TaskManager`, which ends all tasks. An essential task that fails while the
node is still being assembled is noticed once `run_node_until_exit` has the
`TaskManager`. `Buildable` is pallet-staking's assertion at genesis.

*Local testnet.* A slot gives its author the chance of a block; a block is at
once on every node. `block` and `session_block` are the blocks within and at the
end of a session, and what im-online does in them. `Up` lets a validator author
also where Aura would skip the slot because it is offline and does not force
authoring, which only adds behaviours. `generate_session_keys` makes
the keys of `opaque::SessionKeys`, which are two of the four of `SessionKeys`;
`author_insertKey`, an RPC of Substrate's, can add the im_online key.

*Listener.* `phase` says where `main` and `startWorker` are. `HandlerStep` is
one awaited database operation: a handler is the sequence of operations that
`Handler` gives for the event, and an operation that throws (a unique index, a
document not found) ends the handler, as the `catch` in
`processEventsAtBlockHash` makes it. `RangeDone` and `Saved` are the two halves
of `writeFileSync`: truncate, write. After a truncated file `parseInt` gives
NaN, and `NaN + 1 <= n` is false, so nothing is handled before the cursor jumps
to the head. `Crash` loses the variables and keeps documents and file.
`RpcFails` is a rejected node call, which kills the worker and not the process.

*Server.* `Receive`, `Await` and `Reply` (or `Fail`) serve one request: `Awaits`
lists the reads of its route in their order and `answers` keeps what they
returned. Requests only read, so one in flight stands for any number. Documents
are counted, not listed: `CountDocs` is the number of the documents found, equal
deals one by one; `PageLength` is the `skip` and `limit` of nedb, that is
`slice(offset, offset + limit)`, which counts a negative position from the end:
`parseIntOr` lets negative numbers through (`Position`). The server is up once
`main` has finished, also when the worker has died since. `writeFileSync` blocks
the event loop: no read falls between its halves.

## 3. Runs

Passing runs:

| Run | Instance | Shows |
|---|---|---|
| `carbon_assets` | u64::MAX = 3; two key holders; one project with max_supply 2 or 3; two assets with initial supply 0 or 2; two issues and two burns of 1 or 2 | the ledger is consistent under every order of calls, wrap-around included |
| `carbon_exchange` | two traders and the pot; prices 1 and 3, existential deposit 2, u64::MAX = 4 so that 2 x 3 saturates; orders of 2, taken in ones and twos; two orders open | units and custody add up, and the pot has the money of the bids but for what it lost, when it is reaped, when products saturate and when `take_order` fails half way; the exchange implements `Market` |
| `carbon_committee` | three members and a candidate; thresholds 1 to 3; one motion at a time, over in one block; a project, an asset and two issues that compete for the limit | votes and membership changes in every order approve nothing without a majority |
| `standard_assets` | two accounts, one id each, u64::MAX = 3 | the total follows the balances where nothing was minted ahead of the issue |
| `events_listener` | three chains of three blocks; two crashes and one failed node call at any step; nine requests, every route and negative offsets and limits among them; two accounts and two assets with equal prefixes | the cursor is sound, replays are harmless, a crash loses one document at most, the listener catches up, replies are coherent |
| `proxy` | two owners, one of whom is also a delegate of the other; two delegates each; two proxies per account; chains of proxied calls of any length | delegates never gain powers |
| `node` | one node, all 32 configurations, two failures | a node is whole or down; the local chain starts |
| `local_net` | Alice and Bob (the two validators of the genesis; the script also starts a third node and a full node, which neither author nor vote), sessions of three blocks, seven blocks, one failure at any step | presence is recognised, finality follows |

Properties of the passing runs:

- `SupplyConserved`: held + pending burns + neutralized + displaced = the
  asset's `total_supply`, unless the supply itself overflowed;
  `SupplyConservedModulo`: the same modulo 2^64, always.
- `IssuesAccounted`: the approved issue requests explain the supply.
- `ProjectSupplyTracks`: what the project's counter really counts (the supply
  of its assets less their initial supplies), and that this is limited.
- `ApprovalChain`: nothing precedes its approval. `transfer` and `neutralize`
  look at neither asset nor project, and `approve_asset` overwrites a balance:
  both are right because of this.
- `BurnsCovered`: approving a pending burn never underflows the asset's counter.
- `PotHoldsAsks`, `PotSurplusKept`: assets in custody are there, and no order
  touches more than its own. `BidBacking`, `PotCoversBids`: the same for money,
  whatever the prices. A bid has locked the price of what it still asks for, or
  less where `saturating_mul` cut the product off; the pot has what is locked,
  but for what it lost by being reaped, until a `locked_balance` wraps.
  `UnpaidTakes`: when `take_order` fails after its first write only units move,
  from the taker to the maker, and one of four causes is present: the taker
  would stay below the existential deposit, the pot has been reaped, the price
  of the bid exceeds a u64, or a lock has wrapped.
- `ImplementsMarket`: seen from outside, posting and withdrawing an order change
  nothing of what anyone owns, a deal exchanges units and money at the price of
  the order in one step, and nothing that is on offer can be spent. Accounts may
  lose less than the existential deposit when they are reaped, the pot too.
- `VotersAreMembers`, `ApprovalNeedsMajority`: a removed member's votes go with
  it; the committee approves only with more than half of its members of the
  moment for it, or, at the end of the motion, with its prime for it and fewer
  than half against it. A threshold of two in a committee that has grown to four
  is the case that `ApproveOrigin` stops.
- `PowersShrink`, `OnlyTrustedSpend`, `NarrowGrantsReachNothing`: along any chain
  of delegates a proxy lets through only what its first one did; the holdings of
  an owner who never granted `Any` are never moved, also not by a chain of
  proxied calls; through an account that granted nothing above `Governance`,
  `Staking` and `IdentityJudgement` no holdings of anyone are moved.
- `ServiceWhole`: nothing of a node survives its end, and a node that is on the
  network has every task that its role asks for or a failed one.
  `EssentialTakesDown`, `LocalStarts`: liveness of the same.
- `PresentNotReported`: a validator that could author throughout a session is
  not reported at its end. This rests on authorship alone: after the first
  session no heartbeat is ever due (see the disagreements below).
  `FinalityFollows`: once both validators stay up, every block that the voting
  rule admits is finalized.
- `HeldMatchesTotal`: balances and `TotalSupply` agree modulo 2^64 for every
  asset of which nobody but the issuer held units when it was issued
  (`stray[id] = 0`); for the others see `total_is_what_is_held` below.
- `CursorSound`, `DealsCounted`, `ReplayKeepsProgress`, `CatchesUp`: the
  listener's file never runs ahead of the work except for the blocks recorded
  in `skipped`; a deal is recorded once more per crash at most; progress is
  never undone; a process that stays up reaches the head.
- `LatestCreditListed`: a credit in an asset that was put on record before it is
  listed, unless a later credit or `NewAsset` has the same prefixes.
  `CrashLosesOne`: a crash between two inserts of a handler loses the
  second for good, and nothing else does.
- `PageKeepsCount`: a page at a non-negative offset is never shorter than the
  count sent with it promises. At a negative offset it can be: documents that
  arrive between the two reads move the page, which is counted from the end.
  `StatsMissNothing`: the counts of `statProposals` need not add up, but they
  leave out no proposal that was on record, because the states are counted in
  the order in which a proposal passes through them.

Runs that end in a violation, each against a sentence of the docs, a comment or
an assertion of the code (the findings in `PROJECT.json` quote it):

| Run | Property | Why it fails |
|---|---|---|
| `supply_within_max` | `SupplyWithinMax` | `approve_asset` does not store the project |
| `issue_limit_enforced` | `IssueLimitEnforced` | the sum in the check wraps |
| `burn_not_resubmitted` | `BurnNotResubmitted` | the duplicate check asks the wrong map |
| `total_is_what_is_held` | `TotalIsWhatIsHeld` | units minted under an id before its `issue`, which resets the total |

Other places where the code and what is written about it disagree, which the
models have as the code has them:

- exchange: `take_order` on a bid moves the units, then fails to pay: the units
  stay with the maker, the order stays as it was and no event says so.
  `UnpaidTakes` states exactly what has moved then and which causes there are;
  each of the four occurs in the run without the others.
- listener: the handler of `Proposed` expects pallet 11 where the runtime says
  29, so a proposal under vote keeps its empty `proposalId`, which
  `docs/interfaces.md:409` explains as not yet proposed (`ExpectedPallet`,
  `CarbonAssetsPallet`); its votes, its disapproval and its closing are looked
  up by that id and never recorded.
- listener: the cursor takes `latestBlockNumber` as it is after the `await`
  (`EndOfRange`) and so jumps over blocks whose heads arrived meanwhile, without
  any failure; after a truncated file it jumps to the head. What was submitted
  there is missing from the lists that `docs/interfaces.md:233` and `273` say
  hold everything by default. The model counts such blocks in `skipped`, and
  `CursorSound` excepts them.
- listener: a transfer of units that were minted before their `issue` finds no
  asset and is not listed, and credits with equal prefixes share a document,
  although `docs/interfaces.md:370` speaks of all assets that may have a balance
  (both are exceptions that `LatestCreditListed` names).
- runtime: `SessionDuration` is the "1 hour session" of line 447, `Period` ends
  sessions after 20 minutes: from the second session on heartbeats, which line
  630 prioritizes, are due after the end of their session (`HeartbeatAfter` in
  `LocalNet`), and only authorship shows a validator's presence.
- listener: a crash between two inserts is never repaired (`CrashLosesOne`); a
  failed node call ends the worker and is only logged, while the server goes on
  answering (`RpcFails`; `CatchesUp` is about a worker that lives).
- genesis: `dev` does not endow Alice's stash, which its staking genesis needs,
  so the chain of `--dev` in the repository's README cannot be built
  (`genesis_panics` in `Node`).
- runtime: the era of "6 hours" (line 447) has 80 minutes; `DealWithFees`
  (80% treasury, 20% author) is not used: `OnTransactionPayment = ()` burns the fees.

### Bounds, and why they suffice

The number of projects, assets, issues, burns and orders is bounded by
`MaxProjects` ... `MaxOrders`, the faults of the listener by `MaxCrashes` and
`MaxRpcFailures`. Two records of each kind are enough for two requests to
compete for one limit, for one to overwrite another, and for two orders to share
the pot; three members and a fourth make a majority that stops being one; two
failures hit a node twice, or one that was started again; seven blocks are two
sessions and the beginning of a third; a small `MaxU64` makes every wrap-around
happen within a few calls. Two key holders cover self-transfers, self-taking of
an order and transfers between parties. `MaxSupplies = {2, 3}` has one limit
below u64::MAX and one equal to it. Accounts and members are symmetric where a
run uses `SYMMETRY`; no run with a liveness property does. Deadlock is not
checked where the bounds make the system stop (every record used) or where it
may (a finished chain).

### Fairness

*Listener.* Weak fairness is assumed of `Finalize`
(GRANDPA goes on finalizing), of `NewFinalizedHead` (the subscription delivers
heads) and of `Work` (Node's event loop runs whatever is ready, and
`startWorker` wakes every second). Nothing is assumed of `Main`: nobody has to
start the process, and `CatchesUp` speaks of a process that is up for good.

*Node.* Weak fairness of `assemble` (the program runs on) and of `node_exits`
(the runner polls the `TaskManager`). Nothing is assumed of `start`.

*Local testnet.* The same, and weak fairness of `slot_passes` (time) and
`finalize` (GRANDPA's rounds end while more than two thirds vote; the code of
GRANDPA is Substrate's). `FinalityFollows` has as its premise that both nodes
are up for good.

## 4. Proofs

The theorems hold for arbitrary constants: accounts, amounts, prices, orders,
bounds, `MaxU64`, committees, thresholds, owners and delegates, chains, crashes,
nodes, session lengths. Assumed of them is only what the modules name:
`MaxU64Assumption`, `CarbonAssumption`, `ExchangeAssumption`,
`StandardAssumption` and `CommitteeAssumption` (accounts and candidates are
finite, signers are accounts, the pot is one
without a key, amounts are u64), `ListenerAssumption` (a chain is a sequence of
blocks of events), `RequestAssumption` (a request names one of the routes and
carries integers), `NodeAssumption`, `NetAssumption`, `ProxyAssumption` (the
bounds are numbers). One theorem has a hypothesis
of its own, `PresentCorrect`, below.

| Theorem | Statement |
|---|---|
| `TypeCorrect`, `ApprovalCorrect`, `SupplyCorrect`, `BurnsCoveredCorrect`, `SupplyModuloCorrect`, `IssuesCorrect`, `ProjectSupplyCorrect` | `Spec => []P` of `CarbonAssets` for `TypeOK`, `ApprovalChain`, `SupplyConserved`, `BurnsCovered`, `SupplyConservedModulo`, `IssuesAccounted`, `ProjectSupplyTracks` |
| `ExchangeTypeCorrect`, `ExchangeSupplyCorrect`, `PotHoldsAsksCorrect` | `ExchangeSpec => []P` for `ExchangeTypeOK`, `SupplyConserved`, `PotHoldsAsks` |
| `PotSurplusCorrect` | `ExchangeSpec => PotSurplusKept` |
| `BidBackingCorrect`, `PotCoversBidsCorrect` | `ExchangeSpec =>` `[]BidBacking`, `[]PotCoversBids` |
| `UnpaidTakesCorrect` | `ExchangeSpec => UnpaidTakes` |
| `ImplementsMarketCorrect` | `ExchangeSpec => ImplementsMarket` |
| `VotersCorrect`, `CommitteeTypeCorrect`, `CommitteeSupplyCorrect`, `MajorityCorrect` | `CommitteeSpec =>` `[]VotersAreMembers`, `[]CommitteeTypeOK`, `[]SupplyConserved`, `ApprovalNeedsMajority` |
| `HeldMatchesTotalCorrect` | `Spec => []HeldMatchesTotal` of `StandardAssets` |
| `ProxyTypeCorrect`, `PowersShrinkCorrect`, `OnlyTrustedSpendCorrect`, `NarrowGrantsReachNothingCorrect` | `Spec =>` `[]TypeOK`, `[]PowersShrink`, `[]OnlyTrustedSpend`, `[]NarrowGrantsReachNothing` of `Proxy` |
| `ListenerTypeCorrect`, `CursorCorrect`, `DealsCountedCorrect`, `CrashLosesOneCorrect`, `ReplayCorrect`, `LatestCreditCorrect` | `Spec =>` `[]TypeOK`, `[]CursorSound`, `[]DealsCounted`, `[]CrashLosesOne`, `ReplayKeepsProgress`, `[]LatestCreditListed` of `EventsListener` |
| `ServerLeavesListener` | `ServerSpec => Spec` of `EventsListener` |
| `PageKeepsCountCorrect`, `StatsMissNothingCorrect` | `ServerSpec =>` `[]PageKeepsCount`, `[]StatsMissNothing` of `QueryServer` |
| `ServiceWholeCorrect` | `NodeSpec => []ServiceWhole` |
| `NetTypeCorrect` | `NetSpec => []NetTypeOK` |
| `PresentCorrect` | given `TurnComes`: `NetSpec => PresentNotReported` |

*Ledger.* `SupplyConserved` is not inductive. `approve_asset` overwrites a
balance, so nothing may be held of an asset before its approval
(`ApprovalChain`) and it must have no past (`UnapprovedUntouched`);
`approve_burn` and a repeated `submit_burn` replace a record, so a record has to
be for the asset and the amount in its id (`BurnsMatchIds`). `SupplyInv` is the
conjunction. Its preservation is proved action by action (`ChainNext`,
`UntouchedNext`, `BurnsMatchNext`, `SupplyNext`). Since a sum of balances never
exceeds a u64 total, no `+=` of a transfer can wrap: this is where `SupplyNext`
uses the invariant for itself. `SupplyConservedModulo` has no such help: each
wrapping step adds a multiple of 2^64 (`WrapMultiple`, `SameModuloShift`).
`IssuesAccounted` and `ProjectSupplyTracks` are sums over the records of a map,
of which an action changes one (`SumUpdate`); the second also needs that
`WithinLimit` bounds the net supply only as long as nothing of the project
wrapped (`Sound`).

Sums are cardinalities: `Total(map)` counts the units `<<k, 1>> .. <<k, map[k]>>`
of every key, so that the theorems on finite sets give what a fold would need an
induction for. `MCCarbonAssets` has TLC compare `Total` with the fold
`SumFunction`. `StorageTheorems` has what follows: `TotalAdd`, `TotalChange`,
`TotalSame`, `TotalBound`, and `SumUpdate` for the sum of one field over the
records in a set.

*Exchange.* `ExchangeInv` is `SupplyInv`, `OrdersKnown` (orders are for approved
assets only) and `PotHoldsAsks`. The two halves need each other: a credit to the
pot does not wrap because supply is conserved, and `cancel_order`, which debits
the pot without a check, conserves supply because the pot holds what is asked
for. `MoneyInv` adds that every order is `Backed` and that the pot's money covers
`BidSum`, both without a condition on prices. An order is `Backed` when, if
`amount * price` fits a u64 (`Fits`), it has locked `left_amount * price`
exactly, and `Limited` when otherwise it has locked no more than the saturated
price of what is left, which lasts until its lock wraps (`SaturatedSplit`,
`FilledBacked`). `PotPaysBids` adds what the pot has lost by being reaped
(`dust`) to what it has, so that no payment disturbs the comparison (`PotDust`).
`UnpaidTakesCorrect` then follows: with the pot never reaped, no lock wrapped and
a bid that fits, the pot can pay, so only the receiver is left as a cause
(`FailsExcused`). At the bounds of `MCCarbonExchange.cfg` each of the four causes
occurs without the others: `UnpaidTakes` with one of them left out is violated.

*Market.* The mapping is restated with the custody of one maker (`AskOf`,
`BidOf`) and of the pot (`AskSum`, `BidSum`): `View` for a state, `ViewNext` for
the next. An order that comes, goes or changes moves only the custody for its
maker (`CustodyMoves`), and a payment settles up to reaped dust
(`PaymentSettles`; of a reaped pot `House` loses the rest and owes it). Then
one lemma per action: a call of carbon-assets is a `ledger_step`, `make_order` a
`post`, `cancel_order` a `withdraw`, `take_order` a `deal` or, for zero units,
nothing, `native_transfer` a `pay` or nothing, `take_order_fails` a
`ledger_step`. These lemmas have `NoWrap` as their premise: no `total_supply` and
no `locked_balance` has wrapped, which the code does not exclude. It is no premise
of the theorem: a wrap is the end of the promise in `Market` itself (`void`), and
stays so (`VoidStep`).

*Standard assets.* The invariant is that balances agree with `TotalSupply` plus
`stray` (`HeldAndStray`), which is inductive with the types. `transfer`,
`mint` and `burn` change balance and total by the same amount modulo 2^64;
`issue` overwrites both, and what the others hold becomes `stray`.

*Committee.* `VotersAreMembers` is inductive together with the form of the
motions (`VotersInv`). Every step of the committee is a step of the ledger or
leaves it alone (`CommitteeLedger`), so `SupplyInv` carries over from
`SupplyStep`. For `MajorityCorrect`, an approval decides no application but its
own (`ApproveDecidesOne`, which needs the types of the ledger), and the votes
behind it are counted among members only, so that the comparison of
`ApproveOrigin` with the seats of the moment gives the majority.

*Proxies.* Two lemmas carry the two tables: `SupersetFilters` (what
`is_superset` puts higher lets more through) and `OnlyAnyTransfers`. The
invariant adds that a proxy whose chain begins with `Any` belongs to an owner
who granted it (`RootsGranted`), and one whose chain begins with a type that
lets `Call::Proxy(..)` through to an owner who granted such a type
(`RootsOpened`). `ReachedFrom` carries chains of proxied calls: whoever reaches an
`Any` starts with a proxy that is one or lets the proxy pallet through.

*Listener.* `CursorSound` needs where the worker is: `ListenerInv` relates block,
event and step to the range being handled (`PlaceOK`) and the blocks below the
current one to `processed` and `skipped` (`CursorInv`). For the documents,
`OpForms` lists the operations that handlers consist of and `Written` what each
does to the database; `DocsOK` is what every document of a collection satisfies.
`DealsCounted` needs more than the count: a deal whose place in the chain is not
yet passed by this process (`Passed`, lexicographic in block, event and step) has
been recorded at most once per crash so far (`DealsInv`). `CrashLosesOne` counts the
documents that lack their second half, all but the one being written now
(`Current`), against the crashes (`LostInv`).

`LatestCreditListed` speaks of a listener at rest, and its invariant `CreditInv`
of one that may be anywhere, with blocks still to be handled for the second or
third time. A handled event is `Firm` when no process will handle it again: the
place reached, or the cursor in the file, is past it. Replays are harmless
because of what they may overwrite: `CreditsKept` says that a firm credit is
listed, or that some later credit hides it which is `Touched`, that is, handled
already or due before the listener is at rest. The rest supports this.
`StepsDone` says what the current handler has written so far, so that an event
that is given up, because a document was not found, has credited nothing, and
one that is done with has; `CreatedInv` that the records of handled events are
there, so that no credit to them is given up; `ReachInv` how far the handled
blocks reach in each phase. The first statement of the property, for all credits
and hidden only by credits, was refuted by this proof: `NewAsset` hides as well,
and a transfer before `NewAsset` is lost.

*Server.* `ServerNext` leaves the listener's variables alone or takes one of its
steps (`ServerReads`), so `ServerSpec` implements `Spec` and the theorems about
the listener hold with the server running. Counts are sizes of sets of documents
(`Documents`), which are finite because an operation adds one document at most
and a deal has no more than `crashes + 1` copies (`DealsInv`). The reads of one
request are related by what a step of the listener does to a selection: records
stay, fields only advance (`Written`, `Advances`) and copies are added, so a
selection by a filter that lasts only grows (`SelectionLasts`, `MoreDocuments`).
`ServerInv` relates the answers received so far to the database of the moment:
they are the first ones of `Awaits` (`AnswersInv`); the count received is at
most what would be counted now (`CountInv`), and `PageOf` is monotone in it for
every non-negative offset and every limit (`PageGrows`); the proposals listed at
the first read are at most those counted as pending and those closed by now
(`StatsInv`). The latter starts from `CountAll = CountState(0) + CountState(2)`,
which holds because the handler of `Proposed` never sets state 1
(it expects pallet 11), and survives until the closed ones are read
because a closed proposal stays closed.

*Node.* `Fits` says which tasks a node has at each step of its assembly; it is
inductive with the types. For `PresentNotReported`, a validator that has acted
throughout the session is noted as an author, or its turn is still to come
(`Awaited`). This needs a session of more blocks than there are validators
(`TurnComes`): the runtime's is 20 minutes long, and in a session of two blocks
one of two validators could miss its only turn.

Only model-checked: `CatchesUp`, `EssentialTakesDown`, `LocalStarts` and
`FinalityFollows`. They are liveness under fairness, out of the prover's reach.
That `Total` is the sum which a fold computes is likewise left to TLC
(`MCCarbonAssets`), since it takes induction over data.

## 5. Not modelled

- How the council comes to its decisions, and democracy and elections, which
  are Substrate's and only configured here.
- Choosing new validators, `set_keys`, slashing, equivocation and forks: the
  local testnet keeps the validators of its genesis.
- Delayed proxies, announcements and deposits, and accounts of Multisig.
- Fees, weights, the treasury and the inclusion of transactions in blocks.
- `CurrencyToVoteHandler` (`runtime/src/impls.rs`): it converts stakes for the
  election of validators, which is not modelled.
- Hash collisions, and the content of names, symbols and remarks.
- A chain specification that is read from a file; scripts and `simple.ts`.

## 6. Plan

Done: the modules of section 2, the runs of section 3, the theorems of section 4.

Left: the listener against chains generated by `CarbonExchange` instead of fixed
ones, so that its list of orders is compared with `Orders`; and of the
disagreements that section 3 only lists, a property and a run that violates it
for the `proposalId`, the lists of projects and assets, and the heartbeats.
