---------------------------- MODULE CarbonAssets ----------------------------
(***************************************************************************)
(* pallet-carbon-assets: carbon projects, the assets issued under them,    *)
(* and the requests to issue and to burn that the carbon committee         *)
(* approves.                                                               *)
(*                                                                         *)
(* Every dispatchable makes all of its checks before its first write, so a *)
(* call that returns an error changes nothing: it is a stuttering step.    *)
(* The approve_* calls come from T::ApproveOrigin (root, or more than half *)
(* of the carbon committee) and are steps of the environment here.         *)
(***************************************************************************)
EXTENDS Storage, Sequences

CONSTANTS
  Accounts,          \* every AccountId a balance can be kept under
  Signers,           \* the accounts that hold a key and can sign a call
  Texts,             \* symbol, vintage and additional: opaque byte strings
  MaxSupplies,       \* arguments of submit_project
  InitialSupplies,   \* arguments of submit_asset
  IssueAmounts,      \* arguments of submit_issue
  BurnAmounts,       \* arguments of submit_burn
  MoveAmounts,       \* arguments of transfer and neutralize
  MaxProjects, MaxAssets, MaxIssues, MaxBurns   \* bounds on the records kept

ASSUME CarbonAssumption ==
  /\ IsFiniteSet(Accounts)
  /\ Signers \subseteq Accounts
  /\ MaxSupplies \subseteq U64
  /\ InitialSupplies \subseteq U64
  /\ IssueAmounts \subseteq U64
  /\ BurnAmounts \subseteq U64
  /\ MoveAmounts \subseteq U64

VARIABLES
  Projects, Assets, Issues, Burns,  \* Option maps, keyed by hash
  Balances,                         \* <<asset_id, account>> -> u64
  events,                           \* the events of the last call, in order
  (* History, kept by no storage item: what has left the ledger and which   *)
  (* counters a u64 could not hold.                                         *)
  neutralized,   \* asset_id -> units spent by neutralize
  displaced,     \* asset_id -> units of pending burns that were overwritten
  burned,        \* asset_id -> units of approved burns
  overflowed     \* projects and assets whose total_supply += wrapped around

carbonVars == <<Projects, Assets, Issues, Burns, Balances>>
history == <<neutralized, displaced, burned, overflowed>>
vars == <<carbonVars, events, history>>
-----------------------------------------------------------------------------
(* The ids are hashes of a tag, the sender and the arguments.  The hash is *)
(* taken to be collision free: an id is the tuple that was hashed.         *)
ProjectIds == {"project"} \X Signers \X MaxSupplies \X Texts
AssetIds == {"asset"} \X Signers \X ProjectIds \X InitialSupplies \X Texts
IssueIds == {"issue"} \X Signers \X AssetIds \X IssueAmounts \X Texts
BurnIds == {"burn"} \X Signers \X AssetIds \X BurnAmounts \X Texts

(* The records, without symbol, vintage and additional (also the values of *)
(* ProjectAdditionals and AssetAdditionals), which are part of the id.     *)
CarbonProject ==
  [max_supply: U64, total_supply: U64, status: {0, 1}, owner: Signers]
CarbonAsset ==
  [project_id: ProjectIds, initial_supply: U64, total_supply: U64, status: {0, 1}]
IssueInfo == [asset_id: AssetIds, amount: U64, status: {0, 1}]
BurnInfo == [asset_id: AssetIds, amount: U64, status: {0, 1}]

TypeOK ==
  /\ DOMAIN Projects \subseteq ProjectIds /\ IsFiniteSet(DOMAIN Projects)
  /\ Projects \in [DOMAIN Projects -> CarbonProject]
  /\ DOMAIN Assets \subseteq AssetIds /\ IsFiniteSet(DOMAIN Assets)
  /\ Assets \in [DOMAIN Assets -> CarbonAsset]
  /\ DOMAIN Issues \subseteq IssueIds /\ IsFiniteSet(DOMAIN Issues)
  /\ Issues \in [DOMAIN Issues -> IssueInfo]
  /\ DOMAIN Burns \subseteq BurnIds /\ IsFiniteSet(DOMAIN Burns)
  /\ Burns \in [DOMAIN Burns -> BurnInfo]
  /\ Balances \in [AssetIds \X Accounts -> U64]
  /\ neutralized \in [AssetIds -> Nat]
  /\ displaced \in [AssetIds -> Nat]
  /\ burned \in [AssetIds -> Nat]
  /\ overflowed \subseteq ProjectIds \cup AssetIds

Init ==
  /\ Projects = <<>> /\ Assets = <<>> /\ Issues = <<>> /\ Burns = <<>>
  /\ Balances = [key \in AssetIds \X Accounts |-> 0]
  /\ events = <<>>
  /\ neutralized = [id \in AssetIds |-> 0]
  /\ displaced = [id \in AssetIds |-> 0]
  /\ burned = [id \in AssetIds |-> 0]
  /\ overflowed = {}
-----------------------------------------------------------------------------
(* ensure!(amount + project.total_supply <= project.max_supply, OverIssueLimit) *)
WithinLimitAlone(project, amount) == amount <= project.max_supply   \* mutant: total forgotten
WithinLimit(project, amount) ==
  WrapAdd(amount, project.total_supply) <= project.max_supply

(* What submit_issue and submit_burn require of their sender. *)
MayRequestUnapproved(sender, asset_id) ==     \* mutant: no AssetNotApproved check
  /\ asset_id \in DOMAIN Assets
  /\ Assets[asset_id].project_id \in DOMAIN Projects
  /\ Projects[Assets[asset_id].project_id].owner = sender
MayRequest(sender, asset_id) ==
  /\ asset_id \in DOMAIN Assets
  /\ Assets[asset_id].status = 1
  /\ Assets[asset_id].project_id \in DOMAIN Projects
  /\ Projects[Assets[asset_id].project_id].owner = sender

(* The DuplicatedKey checks of submit_issue and submit_burn.  The latter    *)
(* looks the burn id up among the projects, so it never fires: an equal     *)
(* request overwrites the burn record that it finds.                        *)
IssueExistsAsProject(issue_id) == issue_id \in DOMAIN Projects   \* mutant: as for burns
IssueExists(issue_id) == issue_id \in DOMAIN Issues
BurnExists(burn_id) == burn_id \in DOMAIN Projects

has_asset(asset_id) == asset_id \in DOMAIN Assets /\ Assets[asset_id].status = 1

(* make_transfer, on the Balances map. *)
MakeTransferStale(balances, asset_id, from, to, amount) ==   \* mutant: both
  [balances EXCEPT                                           \* balances read first
     ![<<asset_id, from>>] = WrapSub(@, amount),
     ![<<asset_id, to>>] = WrapAdd(balances[<<asset_id, to>>], amount)]
MakeTransfer(balances, asset_id, from, to, amount) ==
  IF from = to THEN balances
  ELSE [balances EXCEPT ![<<asset_id, from>>] = WrapSub(@, amount),
                        ![<<asset_id, to>>] = WrapAdd(@, amount)]
-----------------------------------------------------------------------------
submit_project(sender, max_supply, text) ==
  LET project_id == <<"project", sender, max_supply, text>> IN
  /\ project_id \notin DOMAIN Projects
  /\ Cardinality(DOMAIN Projects) < MaxProjects
  /\ Projects' = Insert(Projects, project_id,
       [max_supply |-> max_supply, total_supply |-> 0, status |-> 0, owner |-> sender])
  /\ events' = <<<<"ProjectSubmited", project_id>>>>
  /\ UNCHANGED <<Assets, Issues, Burns, Balances, history>>

approve_project(project_id) ==
  /\ project_id \in DOMAIN Projects
  /\ Projects[project_id].status = 0
  /\ Projects' = [Projects EXCEPT ![project_id].status = 1]
  /\ events' = <<<<"ProjectApproved", project_id>>>>
  /\ UNCHANGED <<Assets, Issues, Burns, Balances, history>>

submit_asset(sender, project_id, initial_supply, text) ==
  LET asset_id == <<"asset", sender, project_id, initial_supply, text>> IN
  /\ project_id \in DOMAIN Projects
  /\ Projects[project_id].status = 1
  /\ Projects[project_id].owner = sender
  /\ WithinLimit(Projects[project_id], initial_supply)
  /\ asset_id \notin DOMAIN Assets
  /\ Cardinality(DOMAIN Assets) < MaxAssets
  /\ Assets' = Insert(Assets, asset_id,
       [project_id |-> project_id, initial_supply |-> initial_supply,
        total_supply |-> 0, status |-> 0])
  /\ events' = <<<<"AssetSubmited", asset_id>>>>
  /\ UNCHANGED <<Projects, Issues, Burns, Balances, history>>

(* The project's total_supply is raised in a local copy that is never      *)
(* written back: Projects is left alone.  The owner's balance is           *)
(* overwritten, not added to.                                              *)
approve_asset(asset_id) ==
  /\ asset_id \in DOMAIN Assets
  /\ LET asset == Assets[asset_id] IN
     /\ asset.status = 0
     /\ asset.project_id \in DOMAIN Projects
     /\ WithinLimit(Projects[asset.project_id], asset.initial_supply)
     /\ Assets' = [Assets EXCEPT ![asset_id].status = 1,
                                 ![asset_id].total_supply = asset.initial_supply]
     /\ Balances' = [Balances EXCEPT
          ![<<asset_id, Projects[asset.project_id].owner>>] = asset.initial_supply]
  /\ events' = <<<<"AssetApproved", asset_id>>>>
  /\ UNCHANGED <<Projects, Issues, Burns, history>>

submit_issue(sender, asset_id, amount, text) ==
  LET issue_id == <<"issue", sender, asset_id, amount, text>> IN
  /\ MayRequest(sender, asset_id)
  /\ WithinLimit(Projects[Assets[asset_id].project_id], amount)
  /\ ~IssueExists(issue_id)
  /\ Cardinality(DOMAIN Issues \cup {issue_id}) <= MaxIssues
  /\ Issues' = Insert(Issues, issue_id,
       [asset_id |-> asset_id, amount |-> amount, status |-> 0])
  /\ events' = <<<<"IssueSubmited", issue_id>>>>
  /\ UNCHANGED <<Projects, Assets, Burns, Balances, history>>

approve_issue(issue_id) ==
  /\ issue_id \in DOMAIN Issues
  /\ LET asset_id == Issues[issue_id].asset_id
         amount == Issues[issue_id].amount
         project_id == Assets[asset_id].project_id
     IN
     /\ Issues[issue_id].status = 0
     /\ asset_id \in DOMAIN Assets
     /\ project_id \in DOMAIN Projects
     /\ WithinLimit(Projects[project_id], amount)
     /\ Issues' = [Issues EXCEPT ![issue_id].status = 1]
     /\ Projects' = [Projects EXCEPT ![project_id].total_supply = WrapAdd(@, amount)]
     /\ Assets' = [Assets EXCEPT ![asset_id].total_supply = WrapAdd(@, amount)]
     /\ Balances' = [Balances EXCEPT
          ![<<asset_id, Projects[project_id].owner>>] = WrapAdd(@, amount)]
     /\ overflowed' = overflowed
          \cup {id \in {project_id} : Projects[id].total_supply + amount > MaxU64}
          \cup {id \in {asset_id} : Assets[id].total_supply + amount > MaxU64}
  /\ events' = <<<<"IssueApproved", issue_id>>>>
  /\ UNCHANGED <<Burns, neutralized, displaced, burned>>

submit_burn(sender, asset_id, amount, text) ==
  LET burn_id == <<"burn", sender, asset_id, amount, text>> IN
  /\ MayRequest(sender, asset_id)
  /\ ~BurnExists(burn_id)
  /\ amount <= Balances[<<asset_id, sender>>]
  /\ Cardinality(DOMAIN Burns \cup {burn_id}) <= MaxBurns
  /\ Burns' = Insert(Burns, burn_id,
       [asset_id |-> asset_id, amount |-> amount, status |-> 0])
  /\ Balances' = [Balances EXCEPT ![<<asset_id, sender>>] = WrapSub(@, amount)]
  /\ displaced' = IF burn_id \in DOMAIN Burns /\ Burns[burn_id].status = 0
                    THEN [displaced EXCEPT ![asset_id] = @ + amount]
                    ELSE displaced
  /\ events' = <<<<"BurnSubmited", burn_id>>>>
  /\ UNCHANGED <<Projects, Assets, Issues, neutralized, burned, overflowed>>

(* The event deposited is IssueApproved, with the burn's id. *)
approve_burn(burn_id) ==
  /\ burn_id \in DOMAIN Burns
  /\ LET asset_id == Burns[burn_id].asset_id
         amount == Burns[burn_id].amount
         project_id == Assets[asset_id].project_id
     IN
     /\ Burns[burn_id].status = 0
     /\ asset_id \in DOMAIN Assets
     /\ project_id \in DOMAIN Projects
     /\ Burns' = [Burns EXCEPT ![burn_id].status = 1]
     /\ Projects' = [Projects EXCEPT ![project_id].total_supply = WrapSub(@, amount)]
     /\ Assets' = [Assets EXCEPT ![asset_id].total_supply = WrapSub(@, amount)]
     /\ burned' = [burned EXCEPT ![asset_id] = @ + amount]
  /\ events' = <<<<"IssueApproved", burn_id>>>>
  /\ UNCHANGED <<Issues, Balances, neutralized, displaced, overflowed>>

transfer(sender, asset_id, to, amount) ==
  /\ amount # 0
  /\ Balances[<<asset_id, sender>>] >= amount
  /\ Balances' = MakeTransfer(Balances, asset_id, sender, to, amount)
  /\ events' = <<<<"Transferred", asset_id>>>>
  /\ UNCHANGED <<Projects, Assets, Issues, Burns, history>>

neutralize(sender, asset_id, amount) ==
  /\ amount # 0
  /\ Balances[<<asset_id, sender>>] >= amount
  /\ Balances' = [Balances EXCEPT ![<<asset_id, sender>>] = WrapSub(@, amount)]
  /\ neutralized' = [neutralized EXCEPT ![asset_id] = @ + amount]
  /\ events' = <<<<"Neutralized", asset_id>>>>
  /\ UNCHANGED <<Projects, Assets, Issues, Burns, displaced, burned, overflowed>>

(* The calls that any key holder can make. *)
Requests ==
  \/ \E sender \in Signers, max_supply \in MaxSupplies, text \in Texts :
       submit_project(sender, max_supply, text)
  \/ \E sender \in Signers, project_id \in DOMAIN Projects,
        initial_supply \in InitialSupplies, text \in Texts :
       submit_asset(sender, project_id, initial_supply, text)
  \/ \E sender \in Signers, asset_id \in DOMAIN Assets,
        amount \in IssueAmounts, text \in Texts :
       submit_issue(sender, asset_id, amount, text)
  \/ \E sender \in Signers, asset_id \in DOMAIN Assets,
        amount \in BurnAmounts, text \in Texts :
       submit_burn(sender, asset_id, amount, text)
  \/ \E sender \in Signers, asset_id \in AssetIds, to \in Accounts, amount \in MoveAmounts :
       transfer(sender, asset_id, to, amount)
  \/ \E sender \in Signers, asset_id \in AssetIds, amount \in MoveAmounts :
       neutralize(sender, asset_id, amount)

(* The calls that T::ApproveOrigin can make.  An id tells which one. *)
approve(id) ==
  \/ id \in DOMAIN Projects /\ approve_project(id)
  \/ id \in DOMAIN Assets /\ approve_asset(id)
  \/ id \in DOMAIN Issues /\ approve_issue(id)
  \/ id \in DOMAIN Burns /\ approve_burn(id)

Records == DOMAIN Projects \cup DOMAIN Assets \cup DOMAIN Issues \cup DOMAIN Burns

Next == Requests \/ \E id \in Records : approve(id)

Spec == Init /\ [][Next]_vars
-----------------------------------------------------------------------------
(* The units of an asset that accounts hold, and those that a burn request  *)
(* has taken from its sender and that wait for the committee.               *)
Held(id) == Total([account \in Accounts |-> Balances[<<id, account>>]])
PendingBurns(id) == {b \in DOMAIN Burns : Burns[b].asset_id = id /\ Burns[b].status = 0}
Pending(id) == Total([b \in PendingBurns(id) |-> Burns[b].amount])

ApprovedIssues(id) == {i \in DOMAIN Issues : Issues[i].asset_id = id /\ Issues[i].status = 1}
Issued(id) == Total([i \in ApprovedIssues(id) |-> Issues[i].amount])

ApprovedAssets(project_id) ==
  {id \in DOMAIN Assets : Assets[id].project_id = project_id /\ Assets[id].status = 1}
Supply(project_id) == Total([id \in ApprovedAssets(project_id) |-> Assets[id].total_supply])
Initial(project_id) == Total([id \in ApprovedAssets(project_id) |-> Assets[id].initial_supply])

Accounted(id) == Held(id) + Pending(id) + neutralized[id] + displaced[id]

(* No unit of an asset appears or disappears: what accounts hold, what      *)
(* waits to be burned, what was neutralized and what a repeated burn        *)
(* request displaced add up to the asset's total_supply, as long as the     *)
(* total_supply += of approve_issue never overflowed for this asset.        *)
SupplyConserved ==
  \A id \in DOMAIN Assets : id \notin overflowed => Accounted(id) = Assets[id].total_supply

(* Once a total_supply has wrapped, every counter of the asset is still     *)
(* right modulo 2^64: the wrapping += and -= of approve_issue, transfer,    *)
(* submit_burn and approve_burn stay in step.                               *)
SupplyConservedModulo ==
  \A id \in DOMAIN Assets : SameModulo(Accounted(id), Assets[id].total_supply)

(* The records explain the supply: what approve_issue added is exactly the  *)
(* approved issue requests, each counted once (burn requests fail this, see *)
(* BurnNotResubmitted).                                                     *)
IssuesAccounted ==
  \A id \in DOMAIN Assets :
    (Assets[id].status = 1 /\ id \notin overflowed) =>
      Assets[id].total_supply + burned[id] = Assets[id].initial_supply + Issued(id)

(* What a project's total_supply really counts.  approve_asset does not     *)
(* write it back, so it is the supply of the project's assets LESS their    *)
(* initial supplies; that difference respects max_supply, and a negative    *)
(* difference (initial supply was burned) wraps around.                     *)
ProjectSupplyTracks ==
  \A p \in DOMAIN Projects :
    ({p} \cup ApprovedAssets(p)) \cap overflowed = {} =>
      LET net == Supply(p) - Initial(p) IN
      /\ net <= Projects[p].max_supply
      /\ Projects[p].total_supply = net % (MaxU64 + 1)

(* Nothing precedes its approval: units exist, and issue and burn requests  *)
(* are kept, only for approved assets, and assets only for approved         *)
(* projects, whose owner is the one who asked.  transfer and neutralize     *)
(* check none of this and rely on it.                                       *)
ApprovalChain ==
  /\ \A id \in AssetIds, a \in Accounts : Balances[<<id, a>>] > 0 => has_asset(id)
  /\ \A i \in DOMAIN Issues : has_asset(Issues[i].asset_id)
  /\ \A b \in DOMAIN Burns : has_asset(Burns[b].asset_id)
  /\ \A id \in DOMAIN Assets :
       /\ Assets[id].project_id \in DOMAIN Projects
       /\ Projects[Assets[id].project_id].status = 1
       /\ Projects[Assets[id].project_id].owner = id[2]

(* The parts that make SupplyConserved inductive: an asset that is not      *)
(* approved has no supply and no past, and a burn request is for the asset  *)
(* and the amount that its id was computed from.                            *)
UnapprovedUntouched ==
  \A id \in AssetIds :
    ~has_asset(id) =>
      /\ neutralized[id] = 0 /\ displaced[id] = 0 /\ burned[id] = 0
      /\ id \notin overflowed
      /\ id \in DOMAIN Assets => Assets[id].total_supply = 0
BurnsMatchIds ==
  \A b \in DOMAIN Burns : Burns[b].asset_id = b[3] /\ Burns[b].amount = b[4]
SupplyInv ==
  TypeOK /\ ApprovalChain /\ UnapprovedUntouched /\ BurnsMatchIds /\ SupplyConserved

(* approve_burn's total_supply -= never underflows for a sound asset: a     *)
(* pending burn is always covered, whatever happened since it was           *)
(* submitted.                                                               *)
BurnsCovered ==
  \A b \in DOMAIN Burns :
    (Burns[b].status = 0 /\ Burns[b].asset_id \notin overflowed) =>
      Burns[b].amount <= Assets[Burns[b].asset_id].total_supply
-----------------------------------------------------------------------------
(* Properties that the code's comments, checks or docs state and that the   *)
(* code does not have.                                                      *)

(* docs/interfaces.md: max_supply is the project's total amount of carbon   *)
(* credits, so the supply of its assets stays within it.                    *)
SupplyWithinMax ==
  \A p \in DOMAIN Projects : overflowed = {} => Supply(p) <= Projects[p].max_supply

(* ensure!(amount + total_supply <= max_supply, OverIssueLimit): no issue   *)
(* is approved that takes the project's total_supply above max_supply.      *)
IssueLimitEnforced ==
  [][\A i \in DOMAIN Issues :
       (Issues[i].status = 0 /\ Issues'[i].status = 1) =>
         LET project == Projects[Assets[Issues[i].asset_id].project_id] IN
         Issues[i].amount + project.total_supply <= project.max_supply]_vars

(* ensure!(.., DuplicatedKey) in submit_burn: a burn request is refused     *)
(* when the same one is already on record.                                  *)
BurnNotResubmitted ==
  [][\A b \in DOMAIN Burns : events' # <<<<"BurnSubmited", b>>>>]_vars
=============================================================================
