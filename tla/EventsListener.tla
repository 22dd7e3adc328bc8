--------------------------- MODULE EventsListener ---------------------------
(***************************************************************************)
(* example/events-listener.ts: a process that follows the finalized chain, *)
(* turns the events of the ECO2 pallets into documents of a local database *)
(* and remembers in a file the last block it has handled.                  *)
(*                                                                         *)
(* Every await is a step of its own: heads arrive, calls to the node fail  *)
(* and the process dies between any two of them.  The database and the     *)
(* file survive the process.                                               *)
(***************************************************************************)
EXTENDS Integers, Sequences, FiniteSets

CONSTANTS
  Chains,          \* the chains to follow: sequences of blocks, a block being the
                   \* sequence of its events [name, id, asset, who, pid]
  Prefix,          \* what slice() keeps of an account or an asset id
  MaxCrashes, MaxRpcFailures    \* bounds

ASSUME ListenerAssumption ==
  /\ Chains \subseteq
       Seq(Seq([name: STRING, id: STRING, asset: STRING, who: STRING, pid: STRING]))
  /\ MaxCrashes \in Nat /\ MaxRpcFailures \in Nat

Empty == -1        \* the content of a truncated lastBlockNumber file

VARIABLES
  chain, finalized,       \* the chain, and its last finalized block
  file,                   \* ./.data/lastBlockNumber
  db,                     \* <<collection, key>> -> document
  phase,                  \* where main and startWorker are
  latest,                 \* latestBlockNumber
  last,                   \* lastBlockNumber
  to, block, event, step, \* the range, and the place reached in it
  processed, skipped,     \* history: blocks handled; blocks the cursor jumped over
  crashes, failures

local == <<phase, latest, last, to, block, event, step>>
vars == <<chain, finalized, file, db, local, processed, skipped, crashes, failures>>

Phases == {"down", "startup", "idle", "working", "saving", "dead"}
-----------------------------------------------------------------------------
(* The database operations a handler awaits, one after the other. *)
InsertDoc(c, key, doc) == [op |-> "insert", at |-> <<c, key>>, doc |-> doc]
UpdateDoc(c, key, set) == [op |-> "update", at |-> <<c, key>>, doc |-> set]
UpsertDoc(c, key, doc) == [op |-> "upsert", at |-> <<c, key>>, doc |-> doc]
AppendDoc(c, key)      == [op |-> "append", at |-> <<c, key>>, doc |-> <<>>]
FindDoc(c, key)        == [op |-> "find", at |-> <<c, key>>, doc |-> <<>>]
UpdateByPid(pid, set)  == [op |-> "updateByPid", at |-> <<"carbonProposals", pid>>, doc |-> set]

NewProposalById(key) ==       \* mutant: the unique index is on proposalId
  InsertDoc("carbonProposals", "", [proposalId |-> "", state |-> 0])
NewProposal(key) ==
  InsertDoc("carbonProposals", key, [proposalId |-> "", state |-> 0])
ProposalApproved(key) == UpdateDoc("carbonProposals", key, [state |-> 2, approved |-> 1])

(* constructPotentialBalanceDoc: the key keeps a prefix of both parts. *)
PotentialBalanceByAccount(account, asset) ==      \* mutant: the asset is not in the key
  UpsertDoc("potentialBalances", <<Prefix[account], Prefix["-"]>>,
            [account |-> account, asset |-> asset])
PotentialBalance(account, asset) ==
  UpsertDoc("potentialBalances", <<Prefix[account], Prefix[asset]>>,
            [account |-> account, asset |-> asset])

(* The index of the pallet whose calls the Proposed handler looks for       *)
(* (0x0b..), and the index construct_runtime gives to CarbonAssets.         *)
ExpectedPallet == 11
CarbonAssetsPallet == 29

(* The events that the pallets declare; the Transferred of standard-assets   *)
(* is renamed apart from the one of carbon-assets.                          *)
CarbonAssetsEvents ==
  {"ProjectSubmited", "ProjectApproved", "AssetSubmited", "AssetApproved", "IssueSubmited",
   "IssueApproved", "BurnSubmited", "BurnApproved", "Transferred", "Neutralized"}
CarbonExchangeEvents == {"NewOrder", "NewDeal", "OrderFinished", "OrderCanceled"}
StandardAssetsEvents == {"NewAsset", "StandardTransferred", "Minted", "Burned"}
CarbonCommitteeEvents ==
  {"Proposed", "Voted", "Approved", "Disapproved", "Executed", "Closed"}

(* eco2EventHandlers, by pallet.  `who` is the account whose balance grows, *)
(* `pid` the proposal's hash.  A handler that needs the asset's symbol looks *)
(* the asset up first.                                                      *)
CarbonAssetsHandler(e) ==
  CASE e.name = "ProjectSubmited" ->
         <<InsertDoc("carbonProjects", e.id, [approved |-> 0]), NewProposal(e.id)>>
    [] e.name = "ProjectApproved" ->
         <<UpdateDoc("carbonProjects", e.id, [approved |-> 1]), ProposalApproved(e.id)>>
    [] e.name = "AssetSubmited" ->
         <<InsertDoc("carbonAssets", e.id, [approved |-> 0]), NewProposal(e.id)>>
    [] e.name = "AssetApproved" ->
         <<UpdateDoc("carbonAssets", e.id, [approved |-> 1]), FindDoc("carbonAssets", e.id),
           PotentialBalance(e.who, e.id), ProposalApproved(e.id)>>
    [] e.name \in {"IssueSubmited", "BurnSubmited"} ->
         <<FindDoc("carbonAssets", e.asset), NewProposal(e.id)>>
    [] e.name \in {"IssueApproved", "BurnApproved"} -> <<ProposalApproved(e.id)>>
    [] e.name = "Transferred" ->
         <<FindDoc("carbonAssets", e.asset), PotentialBalance(e.who, e.asset)>>
    [] OTHER -> <<>>

(* A deal is identified by the place of its event on the chain. *)
CarbonExchangeHandler(e, place) ==
  CASE e.name = "NewOrder" ->
         <<FindDoc("carbonAssets", e.asset), InsertDoc("orders", e.id, [closed |-> 0])>>
    [] e.name = "NewDeal" ->
         <<FindDoc("carbonAssets", e.asset), AppendDoc("deals", place),
           AppendDoc("userDeals", <<place, "maker">>),
           AppendDoc("userDeals", <<place, "taker">>),
           PotentialBalance(e.who, e.asset)>>
    [] e.name \in {"OrderCanceled", "OrderFinished"} ->
         <<UpdateDoc("orders", e.id, [closed |-> 1])>>
    [] OTHER -> <<>>

StandardAssetsHandler(e) ==
  CASE e.name = "NewAsset" ->
         <<InsertDoc("standardAssets", e.id, [owner |-> e.who]), PotentialBalance(e.who, e.id)>>
    [] e.name = "StandardTransferred" ->
         <<FindDoc("standardAssets", e.asset), PotentialBalance(e.who, e.asset)>>
    [] OTHER -> <<>>

CarbonCommitteeHandler(e) ==
  CASE e.name = "Proposed" ->
         IF ExpectedPallet = CarbonAssetsPallet
           THEN <<UpdateDoc("carbonProposals", e.id, [proposalId |-> e.pid, state |-> 1])>>
           ELSE <<>>      \* 'Unexpected callIndex': the key stays undefined
    [] e.name = "Voted" -> <<UpdateByPid(e.pid, <<>>)>>      \* ayes and nays
    [] e.name = "Approved" -> <<UpdateByPid(e.pid, [approved |-> 1])>>
    [] e.name = "Disapproved" -> <<UpdateByPid(e.pid, [approved |-> 0])>>
    [] e.name = "Closed" -> <<UpdateByPid(e.pid, [state |-> 2])>>
    [] OTHER -> <<>>

(* eco2EventHandlers is indexed by section and method.  An event that has   *)
(* no entry is ignored.                                                     *)
Handler(e, place) ==
  CASE e.name \in CarbonAssetsEvents -> CarbonAssetsHandler(e)
    [] e.name \in CarbonExchangeEvents -> CarbonExchangeHandler(e, place)
    [] e.name \in StandardAssetsEvents -> StandardAssetsHandler(e)
    [] e.name \in CarbonCommitteeEvents -> CarbonCommitteeHandler(e)
    [] OTHER -> <<>>
-----------------------------------------------------------------------------
(* nedb.  An insert that violates the unique index of initDB throws, and so *)
(* does the use of a document that was not found.  deals and userDeals have *)
(* no unique index: `n` counts the equal documents.                         *)
ThrowsOnMissing(o) == o.op = "find" /\ o.at \notin DOMAIN db     \* mutant: no unique index
Throws(o) ==
  \/ o.op = "insert" /\ o.at \in DOMAIN db
  \/ o.op = "find" /\ o.at \notin DOMAIN db

Put(at, doc) == [a \in DOMAIN db \cup {at} |-> IF a = at THEN doc ELSE db[a]]

(* $set: the given fields replace those of the document. *)
Set(given, doc) ==
  [f \in DOMAIN given \cup DOMAIN doc |-> IF f \in DOMAIN given THEN given[f] ELSE doc[f]]

Applied(o) ==
  CASE o.op \in {"insert", "upsert"} -> Put(o.at, o.doc)
    [] o.op = "update" /\ o.at \in DOMAIN db -> Put(o.at, Set(o.doc, db[o.at]))
    [] o.op = "append" ->
         Put(o.at, [n |-> IF o.at \in DOMAIN db THEN db[o.at].n + 1 ELSE 1])
    [] o.op = "updateByPid" ->
         [a \in DOMAIN db |->
            IF a[1] = "carbonProposals" /\ db[a].proposalId = o.at[2]
              THEN Set(o.doc, db[a]) ELSE db[a]]
    [] OTHER -> db
-----------------------------------------------------------------------------
Init ==
  /\ chain \in Chains
  /\ finalized = 0
  /\ file = 0              \* readLastBlockNumber without a file
  /\ db = <<>>
  /\ phase = "down"
  /\ latest = 0 /\ last = 0 /\ to = 0 /\ block = 0 /\ event = 0 /\ step = 0
  /\ processed = {} /\ skipped = {}
  /\ crashes = 0 /\ failures = 0

(* The node finalizes another block. *)
Finalize ==
  /\ finalized < Len(chain)
  /\ finalized' = finalized + 1
  /\ UNCHANGED <<chain, file, db, local, processed, skipped, crashes, failures>>

(* The callback of subscribeFinalizedHeads, once listenBlocks was called. *)
NewFinalizedHead ==
  /\ phase \in {"idle", "working"}
  /\ \E n \in (latest + 1) .. finalized : latest' = n
  /\ UNCHANGED <<chain, finalized, file, db, phase, last, to, block, event, step,
                 processed, skipped, crashes, failures>>

(* main: from the block after the one the file names up to the finalized    *)
(* head.  parseInt('') is NaN and NaN + 1 <= n is false: after a truncated  *)
(* file no block is handled before the cursor moves to the head.            *)
FirstBlockLate == IF file = Empty THEN finalized + 1 ELSE file + 2   \* mutant
FirstBlock == IF file = Empty THEN finalized + 1 ELSE file + 1
Main ==
  /\ phase = "down"
  /\ phase' = "startup"
  /\ last' = file
  /\ to' = finalized
  /\ block' = FirstBlock
  /\ event' = 1 /\ step' = 1
  /\ UNCHANGED <<chain, finalized, file, db, latest, processed, skipped, crashes, failures>>

(* startWorker wakes up and finds new blocks. *)
BehindByTwo == last + 1 < latest       \* mutant: the last block is left for later
Behind == last < latest
WorkerWakes ==
  /\ phase = "idle"
  /\ Behind
  /\ phase' = "working"
  /\ to' = latest
  /\ block' = last + 1 /\ event' = 1 /\ step' = 1
  /\ UNCHANGED <<chain, finalized, file, db, latest, last, processed, skipped, crashes, failures>>

Processing == phase \in {"startup", "working"} /\ block <= to
Events == chain[block]

(* One awaited database operation.  A throw ends the handler: the catch of  *)
(* processEventsAtBlockHash goes on with the next event.                    *)
HandlerStep ==
  /\ Processing
  /\ event <= Len(Events)
  /\ LET ops == Handler(Events[event], <<block, event>>) IN
     \/ /\ step <= Len(ops) => Throws(ops[step])
        /\ event' = event + 1 /\ step' = 1
        /\ UNCHANGED db
     \/ /\ step <= Len(ops) /\ ~Throws(ops[step])
        /\ db' = Applied(ops[step])
        /\ step' = step + 1
        /\ UNCHANGED event
  /\ UNCHANGED <<chain, finalized, file, phase, latest, last, to, block,
                 processed, skipped, crashes, failures>>

BlockDone ==
  /\ Processing
  /\ event > Len(Events)
  /\ processed' = processed \cup {block}
  /\ block' = block + 1 /\ event' = 1 /\ step' = 1
  /\ UNCHANGED <<chain, finalized, file, db, phase, latest, last, to, skipped, crashes, failures>>

(* The cursor the range ends with.  main takes the head it asked for, but   *)
(* startWorker reads latestBlockNumber again after the await.               *)
EndOfRangeUnmoved == IF phase = "startup" THEN to ELSE last   \* mutant: cursor kept
EndOfRange == IF phase = "startup" THEN to ELSE latest

(* The range is done: the cursor moves and writeFileSync truncates the file. *)
RangeDone ==
  /\ phase \in {"startup", "working"}
  /\ block > to
  /\ last' = EndOfRange
  /\ skipped' = skipped \cup {n \in 1 .. EndOfRange :
                   n > to \/ (last = Empty /\ n \notin processed)}
  /\ file' = Empty
  /\ phase' = "saving"
  /\ UNCHANGED <<chain, finalized, db, latest, to, block, event, step,
                 processed, crashes, failures>>

Saved ==
  /\ phase = "saving"
  /\ file' = last
  /\ phase' = "idle"
  /\ UNCHANGED <<chain, finalized, db, latest, last, to, block, event, step,
                 processed, skipped, crashes, failures>>

(* A call to the node rejects.  Nothing catches it but the handlers of main *)
(* and startWorker, which log it: the server goes on without a worker.      *)
RpcFails ==
  /\ Processing
  /\ event = 1 /\ step = 1
  /\ failures < MaxRpcFailures
  /\ failures' = failures + 1
  /\ phase' = "dead"
  /\ UNCHANGED <<chain, finalized, file, db, latest, last, to, block, event, step,
                 processed, skipped, crashes>>

Crash ==
  /\ phase # "down"
  /\ crashes < MaxCrashes
  /\ crashes' = crashes + 1
  /\ phase' = "down"
  /\ latest' = 0 /\ last' = 0 /\ to' = 0 /\ block' = 0 /\ event' = 0 /\ step' = 0
  /\ UNCHANGED <<chain, finalized, file, db, processed, skipped, failures>>

Work == HandlerStep \/ BlockDone \/ RangeDone \/ Saved \/ WorkerWakes

Next == Finalize \/ NewFinalizedHead \/ Main \/ Work \/ RpcFails \/ Crash

(* The event loop runs what is ready, the node goes on finalizing and sends *)
(* the heads it finalizes.  Nothing obliges anyone to start the process.    *)
Spec ==
  /\ Init /\ [][Next]_vars
  /\ WF_vars(Finalize) /\ WF_vars(NewFinalizedHead) /\ WF_vars(Work)
-----------------------------------------------------------------------------
TypeOK ==
  /\ chain \in Chains
  /\ finalized \in 0 .. Len(chain)
  /\ file \in {Empty} \cup 0 .. finalized
  /\ last \in {Empty} \cup 0 .. finalized
  /\ phase \in Phases
  /\ latest \in 0 .. finalized
  /\ to \in 0 .. finalized
  /\ block \in 0 .. finalized + 1
  /\ processed \subseteq 1 .. finalized
  /\ skipped \subseteq 1 .. finalized

(* The file never runs ahead of the work: every block up to the saved       *)
(* cursor was handled, but for those the cursor is known to have jumped     *)
(* over (heads that arrived while the worker was awaiting, and everything   *)
(* after a truncated file).  Whatever a crash interrupts is done again.     *)
CursorSound == file # Empty => (1 .. file) \subseteq (processed \cup skipped)

(* deals and userDeals have no unique index, so a block handled again adds  *)
(* its deals again; but no block is handled twice by one process: a deal is *)
(* recorded at most once more for every crash.                              *)
DealsCounted ==
  \A at \in DOMAIN db : at[1] \in {"deals", "userDeals"} => db[at].n <= 1 + crashes

(* Doing it again does no harm to what is already recorded: a closed order  *)
(* is never opened again and an approved request never becomes pending.     *)
ReplayKeepsProgress ==
  [][\A at \in DOMAIN db :
       /\ at \in DOMAIN db'
       /\ at[1] = "orders" => db'[at].closed >= db[at].closed
       /\ at[1] \in {"carbonProjects", "carbonAssets"} => db'[at].approved >= db[at].approved
       /\ at[1] = "carbonProposals" => db'[at].state >= db[at].state]_vars

(* A process that is up for good, and whose worker lives, catches up with   *)
(* the chain and says so in the file.                                       *)
CatchesUp ==
  <>[](phase \notin {"down", "dead"}) => <>[](file = Len(chain) /\ phase = "idle")
-----------------------------------------------------------------------------
(* The lists of docs/interfaces.md, when the listener is at rest. *)

(* The places of the events handled, and their order on the chain. *)
At(p) == chain[p[1]][p[2]]
Handled == UNION {{n} \X (1 .. Len(chain[n])) : n \in processed}
Later(p, q) == p[1] > q[1] \/ (p[1] = q[1] /\ p[2] > q[2])

(* The events that credit an account, the record of the asset that their     *)
(* handlers look up, and the events that put it on record.  NewAsset does    *)
(* both, but does not credit again when its block is handled again.          *)
CreditNames == {"AssetApproved", "Transferred", "NewDeal", "StandardTransferred"}
AssetOf(e) == IF e.name \in {"AssetApproved", "NewAsset"} THEN e.id ELSE e.asset
RecordOf(e) ==
  <<IF e.name \in StandardAssetsEvents THEN "standardAssets" ELSE "carbonAssets", AssetOf(e)>>
Creates(e, record) ==
  \/ e.name = "AssetSubmited" /\ record = <<"carbonAssets", e.id>>
  \/ e.name = "NewAsset" /\ record = <<"standardAssets", e.id>>
BalanceAt(e) == <<"potentialBalances", <<Prefix[e.who], Prefix[AssetOf(e)]>>>>

(* 2.5: the balance an account may have got is listed, although the key of  *)
(* its document keeps only a prefix of the account and of the asset: the    *)
(* only credit that can hide it is a later one of equal prefixes, however   *)
(* often blocks were handled again in between.  This is so for credits in   *)
(* assets put on record before them; standard-assets lets an asset be       *)
(* minted and transferred before it is issued, and such a transfer is lost. *)
LatestCreditListed ==
  phase = "idle" =>
    \A p, q \in Handled :
      (At(p).name \in CreditNames /\ Later(p, q) /\ Creates(At(q), RecordOf(At(p)))) =>
        \/ \E r \in Handled :
             /\ Later(r, p) /\ At(r).name \in CreditNames \cup {"NewAsset"}
             /\ RecordOf(At(r)) \in DOMAIN db /\ BalanceAt(At(r)) = BalanceAt(At(p))
        \/ /\ BalanceAt(At(p)) \in DOMAIN db
           /\ db[BalanceAt(At(p))] = [account |-> At(p).who, asset |-> AssetOf(At(p))]

(* A project or an asset is inserted together with a second document: its   *)
(* application in the list of proposals (2.6), or the balance of its owner  *)
(* (2.5).  A crash between the two inserts loses the second, because the    *)
(* replay stops at the unique index of the first; but no crash loses more   *)
(* than one, and nothing else loses any.                                    *)
Second(at) ==
  IF at[1] = "standardAssets"
    THEN <<"potentialBalances", <<Prefix[db[at].owner], Prefix[at[2]]>>>>
    ELSE <<"carbonProposals", at[2]>>
Incomplete ==
  {at \in DOMAIN db : at[1] \in {"carbonProjects", "carbonAssets", "standardAssets"}
                        /\ Second(at) \notin DOMAIN db}
CrashLosesOne == phase = "idle" => Cardinality(Incomplete) <= crashes
=============================================================================
