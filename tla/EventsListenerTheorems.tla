----------------------- MODULE EventsListenerTheorems -----------------------
(***************************************************************************)
(* Proofs about EventsListener, for every set of chains and any number of  *)
(* crashes: the types, the soundness of the saved cursor, the progress of  *)
(* the documents, the deals counted, the documents that crashes lose and   *)
(* the credits that are listed.  Then, for every set of requests, about    *)
(* QueryServer: it leaves the listener alone, its pages keep what its      *)
(* counts promise, and its statistics miss no proposal.                    *)
(***************************************************************************)
EXTENDS QueryServer, FiniteSetTheorems, TLAPS

(* The place that the process has reached in its range. *)
Ranging == phase \in {"startup", "working"}

PlaceOK ==
  /\ event \in Nat /\ step \in Nat /\ crashes \in Nat
  /\ phase = "down" => block = 0
  /\ Ranging => /\ block >= 1 /\ block <= to + 1
                /\ event >= 1 /\ step >= 1
                /\ event # 1 \/ step # 1 => block <= to
                /\ step # 1 => event <= Len(chain[block])
  /\ phase = "working" => to <= latest
  /\ phase \in {"saving", "idle"} => last >= to /\ block = to + 1 /\ event = 1 /\ step = 1

(* What was handled when the cursor is where it is: while a range is being  *)
(* handled the cursor is the one in the file, and the blocks between it and *)
(* the place reached are done; an empty file is left behind by a crash, and *)
(* read only at startup.                                                    *)
CursorInv ==
  /\ CursorSound
  /\ Ranging => /\ last = file
                /\ last # Empty => block > last /\ (last + 1 .. block - 1) \subseteq processed
                /\ last = Empty => phase = "startup"
  /\ phase = "saving" => last # Empty /\ (1 .. last) \subseteq (processed \cup skipped)
  /\ phase = "idle" => last # Empty /\ file = last

ListenerInv == TypeOK /\ PlaceOK /\ CursorInv

(* The blocks of a chain, and their events, are what ListenerAssumption says. *)
LEMMA ChainTypes ==
  ASSUME TypeOK
  PROVE  /\ Len(chain) \in Nat
         /\ \A b \in 1 .. Len(chain) : Len(chain[b]) \in Nat
         /\ \A b \in 1 .. Len(chain) : \A i \in 1 .. Len(chain[b]) :
              chain[b][i] \in [name: STRING, id: STRING, asset: STRING, who: STRING, pid: STRING]
  <1> DEFINE E == [name: STRING, id: STRING, asset: STRING, who: STRING, pid: STRING]
  <1>1. chain \in Seq(Seq(E))
    BY ListenerAssumption DEF TypeOK
  <1> HIDE DEF E
  <1>2. Len(chain) \in Nat /\ \A b \in 1 .. Len(chain) : chain[b] \in Seq(E)
    BY <1>1
  <1>3. \A b \in 1 .. Len(chain) : Len(chain[b]) \in Nat
    BY <1>2
  <1>4. \A b \in 1 .. Len(chain) : \A i \in 1 .. Len(chain[b]) : chain[b][i] \in E
    BY <1>2
  <1> QED BY <1>2, <1>3, <1>4 DEF E

LEMMA ListenerStep ==
  ASSUME ListenerInv, [Next]_vars
  PROVE  ListenerInv'
  <1> USE DEF ListenerInv
  <1>t. /\ finalized \in Nat /\ Len(chain) \in Nat /\ finalized <= Len(chain)
        /\ chain \in Chains
        /\ phase \in Phases
        /\ file \in Int /\ last \in Int /\ latest \in Nat /\ to \in Nat /\ block \in Nat
        /\ (file = Empty \/ file \in 0 .. finalized) /\ (last = Empty \/ last \in 0 .. finalized)
        /\ latest <= finalized /\ to <= finalized /\ block <= finalized + 1
        /\ processed \subseteq 1 .. finalized /\ skipped \subseteq 1 .. finalized
    BY ChainTypes DEF TypeOK, Empty
  <1>c. MaxCrashes \in Nat
    BY ListenerAssumption
  <1> DEFINE Goal == TypeOK' /\ PlaceOK' /\ CursorInv'
  <1>1. ASSUME Finalize PROVE Goal
    BY <1>1, <1>t DEF Finalize, TypeOK, PlaceOK, CursorInv, CursorSound, Ranging, local, Empty
  <1>2. ASSUME NewFinalizedHead PROVE Goal
    BY <1>2, <1>t DEF NewFinalizedHead, TypeOK, PlaceOK, CursorInv, CursorSound, Ranging, Empty
  <1>3. ASSUME Main PROVE Goal
    <2>1. TypeOK' /\ PlaceOK'
      BY <1>3, <1>t DEF Main, FirstBlock, TypeOK, PlaceOK, Ranging, Empty, Phases
    <2>2. CursorInv'
      BY <1>3, <1>t DEF Main, FirstBlock, CursorInv, CursorSound, Ranging, Empty
    <2> QED BY <2>1, <2>2
  <1>4. ASSUME HandlerStep PROVE Goal
    <2>1. block \in 1 .. Len(chain) /\ Ranging
      BY <1>4, <1>t DEF HandlerStep, Processing, PlaceOK, Ranging
    <2>2. Len(chain[block]) \in Nat
      BY <2>1, ChainTypes
    <2>3. /\ UNCHANGED <<chain, finalized, file, phase, latest, last, to, block,
                         processed, skipped, crashes, failures>>
          /\ block <= to /\ event <= Len(chain[block])
          /\ \/ event' = event + 1 /\ step' = 1
             \/ event' = event /\ step' = step + 1
      BY <1>4 DEF HandlerStep, Processing, Events
    <2>4. TypeOK'
      BY <2>3 DEF TypeOK
    <2>5. PlaceOK'
      BY <2>1, <2>2, <2>3, <1>t DEF PlaceOK, Ranging
    <2>6. CursorInv'
      BY <2>3 DEF CursorInv, CursorSound, Ranging
    <2> QED BY <2>4, <2>5, <2>6
  <1>5. ASSUME BlockDone PROVE Goal
    <2>1. TypeOK' /\ PlaceOK'
      BY <1>5, <1>t DEF BlockDone, Processing, TypeOK, PlaceOK, Ranging, Empty
    <2>2. CursorInv'
      BY <1>5, <1>t DEF BlockDone, Processing, CursorInv, CursorSound, Ranging, Empty
    <2> QED BY <2>1, <2>2
  <1>6. ASSUME RangeDone PROVE Goal
    <2>1. EndOfRange \in 0 .. finalized /\ EndOfRange >= to
      BY <1>6, <1>t DEF RangeDone, EndOfRange, PlaceOK, Ranging
    <2>5. PlaceOK'
      BY <1>6, <1>t, <2>1 DEF RangeDone, PlaceOK, Ranging, Empty
    <2>6. skipped' \subseteq 1 .. finalized
      <3> DEFINE Jumped == {n \in 1 .. EndOfRange : n > to \/ (last = Empty /\ n \notin processed)}
      <3>1. Jumped \subseteq 1 .. finalized
        BY <1>t, <2>1
      <3>2. skipped' = skipped \cup Jumped
        BY <1>6 DEF RangeDone
      <3> HIDE DEF Jumped
      <3> QED BY <1>t, <3>1, <3>2
    <2>2. TypeOK'
      BY <1>6, <1>t, <2>1, <2>6 DEF RangeDone, TypeOK, Empty, Phases
    <2>3. \A n \in 1 .. EndOfRange : n \in processed \/ n \in skipped'
      BY <1>6, <1>t, <2>1 DEF RangeDone, CursorInv, CursorSound, PlaceOK, Ranging, Empty
    <2>4. CursorInv'
      BY <1>6, <1>t, <2>1, <2>3 DEF RangeDone, CursorInv, CursorSound, Ranging, Empty
    <2> QED BY <2>2, <2>4, <2>5
  <1>7. ASSUME Saved PROVE Goal
    BY <1>7, <1>t DEF Saved, TypeOK, PlaceOK, CursorInv, CursorSound, Ranging, Empty, Phases
  <1>8. ASSUME WorkerWakes PROVE Goal
    BY <1>8, <1>t DEF WorkerWakes, Behind, TypeOK, PlaceOK, CursorInv, CursorSound, Ranging,
                      Empty, Phases
  <1>9. ASSUME RpcFails PROVE Goal
    BY <1>9, <1>t DEF RpcFails, TypeOK, PlaceOK, CursorInv, CursorSound, Ranging, Empty, Phases
  <1>10. ASSUME Crash PROVE Goal
    BY <1>10, <1>t DEF Crash, TypeOK, PlaceOK, CursorInv, CursorSound, Ranging, Empty, Phases
  <1>11. ASSUME UNCHANGED vars PROVE Goal
    BY <1>11 DEF vars, local, TypeOK, PlaceOK, CursorInv, CursorSound, Ranging
  <1> QED BY <1>1, <1>2, <1>3, <1>4, <1>5, <1>6, <1>7, <1>8, <1>9, <1>10, <1>11 DEF Next, Work

LEMMA ListenerInit ==
  ASSUME Init
  PROVE  ListenerInv
  <1>1. Len(chain) \in Nat
    BY ListenerAssumption DEF Init
  <1> QED
    BY <1>1 DEF Init, ListenerInv, TypeOK, PlaceOK, CursorInv, CursorSound, Ranging, Empty, Phases

(* The cursors, the range and the histories keep within the chain whatever  *)
(* the order of heads, awaits, failed calls and crashes.                    *)
THEOREM ListenerTypeCorrect == Spec => []TypeOK
  <1>1. Init => ListenerInv
    BY ListenerInit
  <1>2. ListenerInv /\ [Next]_vars => ListenerInv'
    BY ListenerStep
  <1>3. ListenerInv => TypeOK
    BY DEF ListenerInv
  <1> QED BY <1>1, <1>2, <1>3, PTL DEF Spec

(* writeLastBlockNumber never runs ahead of processEventsAtBlockHash: every *)
(* block up to the saved cursor was handled, or is one that the cursor is   *)
(* known to have jumped over.                                               *)
THEOREM CursorCorrect == Spec => []CursorSound
  <1>1. Init => ListenerInv
    BY ListenerInit
  <1>2. ListenerInv /\ [Next]_vars => ListenerInv'
    BY ListenerStep
  <1>3. ListenerInv => CursorSound
    BY DEF ListenerInv, CursorInv
  <1> QED BY <1>1, <1>2, <1>3, PTL DEF Spec
-----------------------------------------------------------------------------
(* The sequences of operations that the handlers of eco2EventHandlers await. *)
CarbonAssetsForms(ops, e) ==
  \/ \E c \in {"carbonProjects", "carbonAssets"} :
       ops = <<InsertDoc(c, e.id, [approved |-> 0]), NewProposal(e.id)>>
  \/ ops = <<UpdateDoc("carbonProjects", e.id, [approved |-> 1]), ProposalApproved(e.id)>>
  \/ ops = <<UpdateDoc("carbonAssets", e.id, [approved |-> 1]), FindDoc("carbonAssets", e.id),
             PotentialBalance(e.who, e.id), ProposalApproved(e.id)>>
  \/ ops = <<FindDoc("carbonAssets", e.asset), NewProposal(e.id)>>
  \/ ops = <<ProposalApproved(e.id)>>
  \/ ops = <<FindDoc("carbonAssets", e.asset), PotentialBalance(e.who, e.asset)>>
CarbonExchangeForms(ops, e, place) ==
  \/ ops = <<FindDoc("carbonAssets", e.asset), InsertDoc("orders", e.id, [closed |-> 0])>>
  \/ ops = <<FindDoc("carbonAssets", e.asset), AppendDoc("deals", place),
             AppendDoc("userDeals", <<place, "maker">>),
             AppendDoc("userDeals", <<place, "taker">>),
             PotentialBalance(e.who, e.asset)>>
  \/ ops = <<UpdateDoc("orders", e.id, [closed |-> 1])>>
StandardAssetsForms(ops, e) ==
  \/ ops = <<InsertDoc("standardAssets", e.id, [owner |-> e.who]), PotentialBalance(e.who, e.id)>>
  \/ ops = <<FindDoc("standardAssets", e.asset), PotentialBalance(e.who, e.asset)>>
CommitteeSets == {<<>>, [approved |-> 1], [approved |-> 0], [state |-> 2]}

LEMMA HandlerIs ==
  ASSUME NEW e \in [name: STRING, id: STRING, asset: STRING, who: STRING, pid: STRING],
         NEW place
  PROVE  LET ops == Handler(e, place) IN
         \/ ops = <<>>
         \/ CarbonAssetsForms(ops, e)
         \/ CarbonExchangeForms(ops, e, place)
         \/ StandardAssetsForms(ops, e)
         \/ \E given \in CommitteeSets : ops = <<UpdateByPid(e.pid, given)>>
  <1>1. CarbonAssetsHandler(e) = <<>> \/ CarbonAssetsForms(CarbonAssetsHandler(e), e)
    BY Zenon DEF CarbonAssetsHandler, CarbonAssetsForms
  <1>2. \/ CarbonExchangeHandler(e, place) = <<>>
        \/ CarbonExchangeForms(CarbonExchangeHandler(e, place), e, place)
    BY Zenon DEF CarbonExchangeHandler, CarbonExchangeForms
  <1>3. StandardAssetsHandler(e) = <<>> \/ StandardAssetsForms(StandardAssetsHandler(e), e)
    BY Zenon DEF StandardAssetsHandler, StandardAssetsForms
  <1>4. ExpectedPallet # CarbonAssetsPallet
    BY DEF ExpectedPallet, CarbonAssetsPallet
  <1>5. \/ CarbonCommitteeHandler(e) = <<>>
        \/ \E given \in CommitteeSets : CarbonCommitteeHandler(e) = <<UpdateByPid(e.pid, given)>>
    BY <1>4, Zenon DEF CarbonCommitteeHandler, CommitteeSets
  <1>6. Handler(e, place) \in {CarbonAssetsHandler(e), CarbonExchangeHandler(e, place),
                              StandardAssetsHandler(e), CarbonCommitteeHandler(e), <<>>}
    BY Zenon DEF Handler
  <1> QED BY <1>1, <1>2, <1>3, <1>5, <1>6

(* The elements of a short sequence. *)
LEMMA OneOf ==
  ASSUME NEW q, NEW a, q = <<a>>, NEW s \in 1 .. Len(q)
  PROVE  s = 1 /\ q[s] = a
  OBVIOUS
LEMMA OneOfTwo ==
  ASSUME NEW q, NEW a, NEW b, q = <<a, b>>, NEW s \in 1 .. Len(q)
  PROVE  (s = 1 /\ q[s] = a) \/ (s = 2 /\ q[s] = b)
  OBVIOUS
LEMMA OneOfFour ==
  ASSUME NEW q, NEW a, NEW b, NEW c, NEW d, q = <<a, b, c, d>>, NEW s \in 1 .. Len(q)
  PROVE  q[s] = a \/ q[s] = b \/ q[s] = c \/ q[s] = d
  OBVIOUS
LEMMA OneOfFive ==
  ASSUME NEW q, NEW a, NEW b, NEW c, NEW d, NEW f, q = <<a, b, c, d, f>>, NEW s \in 1 .. Len(q)
  PROVE  \/ q[s] = a
         \/ s = 2 /\ q[s] = b
         \/ s = 3 /\ q[s] = c
         \/ s = 4 /\ q[s] = d
         \/ q[s] = f
  OBVIOUS
LEMMA NoneOf ==
  ASSUME NEW s \in 1 .. Len(<<>>)
  PROVE  FALSE
  OBVIOUS

(* The operations, one by one: what a handler awaits in its step s. *)
OpForms(o, s, e, place) ==
  \/ s = 1 /\ \E c \in {"carbonProjects", "carbonAssets"} : o = InsertDoc(c, e.id, [approved |-> 0])
  \/ s = 1 /\ o = InsertDoc("standardAssets", e.id, [owner |-> e.who])
  \/ \E c \in {"carbonProjects", "carbonAssets"} : o = UpdateDoc(c, e.id, [approved |-> 1])
  \/ \E c \in {"carbonAssets", "standardAssets"}, asset \in {e.id, e.asset} : o = FindDoc(c, asset)
  \/ \E asset \in {e.id, e.asset} : o = PotentialBalance(e.who, asset)
  \/ o = NewProposal(e.id)
  \/ o = ProposalApproved(e.id)
  \/ o = InsertDoc("orders", e.id, [closed |-> 0])
  \/ o = UpdateDoc("orders", e.id, [closed |-> 1])
  \/ s = 2 /\ o = AppendDoc("deals", place)
  \/ s = 3 /\ o = AppendDoc("userDeals", <<place, "maker">>)
  \/ s = 4 /\ o = AppendDoc("userDeals", <<place, "taker">>)
  \/ \E given \in CommitteeSets : o = UpdateByPid(e.pid, given)

LEMMA OpIs ==
  ASSUME NEW e \in [name: STRING, id: STRING, asset: STRING, who: STRING, pid: STRING],
         NEW place, NEW s \in 1 .. Len(Handler(e, place))
  PROVE  OpForms(Handler(e, place)[s], s, e, place)
  <1> DEFINE ops == Handler(e, place)
  <1> HIDE DEF ops
  <1>s. s \in 1 .. Len(ops)
    BY DEF ops
  <1> DEFINE Goal == OpForms(ops[s], s, e, place)
  <1> SUFFICES Goal
    BY DEF ops
  <1>1. CASE ops = <<>>
    BY <1>1, <1>s, NoneOf
  <1>2. CASE CarbonAssetsForms(ops, e)
    <2>1. ASSUME NEW c \in {"carbonProjects", "carbonAssets"},
                 ops = <<InsertDoc(c, e.id, [approved |-> 0]), NewProposal(e.id)>>
          PROVE  Goal
      <3>1. \/ s = 1 /\ ops[s] = InsertDoc(c, e.id, [approved |-> 0])
            \/ s = 2 /\ ops[s] = NewProposal(e.id)
        BY <2>1, <1>s, OneOfTwo
      <3> QED BY <3>1, Zenon DEF OpForms
    <2>2. CASE ops = <<UpdateDoc("carbonProjects", e.id, [approved |-> 1]), ProposalApproved(e.id)>>
      <3>1. \/ s = 1 /\ ops[s] = UpdateDoc("carbonProjects", e.id, [approved |-> 1])
            \/ s = 2 /\ ops[s] = ProposalApproved(e.id)
        BY <2>2, <1>s, OneOfTwo
      <3> QED BY <3>1, Zenon DEF OpForms
    <2>3. CASE ops = <<UpdateDoc("carbonAssets", e.id, [approved |-> 1]), FindDoc("carbonAssets", e.id),
                       PotentialBalance(e.who, e.id), ProposalApproved(e.id)>>
      <3>1. \/ ops[s] = UpdateDoc("carbonAssets", e.id, [approved |-> 1])
            \/ ops[s] = FindDoc("carbonAssets", e.id)
            \/ ops[s] = PotentialBalance(e.who, e.id)
            \/ ops[s] = ProposalApproved(e.id)
        BY <2>3, <1>s, OneOfFour
      <3> QED BY <3>1, Zenon DEF OpForms
    <2>4. CASE ops = <<FindDoc("carbonAssets", e.asset), NewProposal(e.id)>>
      <3>1. \/ s = 1 /\ ops[s] = FindDoc("carbonAssets", e.asset)
            \/ s = 2 /\ ops[s] = NewProposal(e.id)
        BY <2>4, <1>s, OneOfTwo
      <3> QED BY <3>1, Zenon DEF OpForms
    <2>5. CASE ops = <<ProposalApproved(e.id)>>
      BY <2>5, <1>s, OneOf, Zenon DEF OpForms
    <2>6. CASE ops = <<FindDoc("carbonAssets", e.asset), PotentialBalance(e.who, e.asset)>>
      <3>1. \/ s = 1 /\ ops[s] = FindDoc("carbonAssets", e.asset)
            \/ s = 2 /\ ops[s] = PotentialBalance(e.who, e.asset)
        BY <2>6, <1>s, OneOfTwo
      <3> QED BY <3>1, Zenon DEF OpForms
    <2> QED BY <1>2, <2>1, <2>2, <2>3, <2>4, <2>5, <2>6 DEF CarbonAssetsForms
  <1>3. CASE CarbonExchangeForms(ops, e, place)
    <2>1. CASE ops = <<FindDoc("carbonAssets", e.asset), InsertDoc("orders", e.id, [closed |-> 0])>>
      <3>1. \/ s = 1 /\ ops[s] = FindDoc("carbonAssets", e.asset)
            \/ s = 2 /\ ops[s] = InsertDoc("orders", e.id, [closed |-> 0])
        BY <2>1, <1>s, OneOfTwo
      <3> QED BY <3>1, Zenon DEF OpForms
    <2>2. CASE ops = <<FindDoc("carbonAssets", e.asset), AppendDoc("deals", place),
                       AppendDoc("userDeals", <<place, "maker">>),
                       AppendDoc("userDeals", <<place, "taker">>),
                       PotentialBalance(e.who, e.asset)>>
      <3>1. \/ ops[s] = FindDoc("carbonAssets", e.asset)
            \/ s = 2 /\ ops[s] = AppendDoc("deals", place)
            \/ s = 3 /\ ops[s] = AppendDoc("userDeals", <<place, "maker">>)
            \/ s = 4 /\ ops[s] = AppendDoc("userDeals", <<place, "taker">>)
            \/ ops[s] = PotentialBalance(e.who, e.asset)
        BY <2>2, <1>s, OneOfFive
      <3> QED BY <3>1, Zenon DEF OpForms
    <2>3. CASE ops = <<UpdateDoc("orders", e.id, [closed |-> 1])>>
      BY <2>3, <1>s, OneOf, Zenon DEF OpForms
    <2> QED BY <1>3, <2>1, <2>2, <2>3 DEF CarbonExchangeForms
  <1>4. CASE StandardAssetsForms(ops, e)
    <2>1. CASE ops = <<InsertDoc("standardAssets", e.id, [owner |-> e.who]),
                       PotentialBalance(e.who, e.id)>>
      <3>1. \/ s = 1 /\ ops[s] = InsertDoc("standardAssets", e.id, [owner |-> e.who])
            \/ s = 2 /\ ops[s] = PotentialBalance(e.who, e.id)
        BY <2>1, <1>s, OneOfTwo
      <3> QED BY <3>1, Zenon DEF OpForms
    <2>2. CASE ops = <<FindDoc("standardAssets", e.asset), PotentialBalance(e.who, e.asset)>>
      <3>1. \/ s = 1 /\ ops[s] = FindDoc("standardAssets", e.asset)
            \/ s = 2 /\ ops[s] = PotentialBalance(e.who, e.asset)
        BY <2>2, <1>s, OneOfTwo
      <3> QED BY <3>1, Zenon DEF OpForms
    <2> QED BY <1>4, <2>1, <2>2 DEF StandardAssetsForms
  <1>5. ASSUME NEW given \in CommitteeSets, ops = <<UpdateByPid(e.pid, given)>> PROVE Goal
    BY <1>5, <1>s, OneOf, Zenon DEF OpForms
  <1> QED BY <1>1, <1>2, <1>3, <1>4, <1>5, HandlerIs, Zenon DEF ops
-----------------------------------------------------------------------------
(* The documents of a collection, and what may become of one. *)
Counted == {"deals", "userDeals"}
DocOK(c, doc) ==
  /\ c = "carbonProposals" =>
       /\ "proposalId" \in DOMAIN doc /\ doc.proposalId = ""
       /\ "state" \in DOMAIN doc /\ doc.state \in {0, 2}
  /\ c \in {"carbonProjects", "carbonAssets"} => "approved" \in DOMAIN doc /\ doc.approved \in {0, 1}
  /\ c = "orders" => "closed" \in DOMAIN doc /\ doc.closed \in {0, 1}
  /\ c \in Counted => doc.n \in Nat
Advances(c, doc, later) ==
  /\ c = "orders" => later.closed >= doc.closed
  /\ c \in {"carbonProjects", "carbonAssets"} => later.approved >= doc.approved
  /\ c = "carbonProposals" => later.state >= doc.state
  /\ c = "standardAssets" => later = doc

DocsOK == \A at \in DOMAIN db : DocOK(at[1], db[at])

(* What one operation makes of the database.  It adds at most the document  *)
(* it names, and only an append touches the deals.                          *)
Written(new, o) ==
  /\ DOMAIN db \subseteq DOMAIN new
  /\ \A at \in DOMAIN new : at \in DOMAIN db \/ at = o.at
  /\ \A at \in DOMAIN new : DocOK(at[1], new[at])
  /\ \A at \in DOMAIN db : Advances(at[1], db[at], new[at])
  /\ \A at \in DOMAIN new :
       at[1] \in Counted =>
         \/ at \in DOMAIN db /\ new[at] = db[at]
         \/ /\ o.op = "append" /\ at = o.at
            /\ new[at].n = IF at \in DOMAIN db THEN db[at].n + 1 ELSE 1

LEMMA AdvancesReflexive ==
  ASSUME NEW c, NEW doc, DocOK(c, doc)
  PROVE  Advances(c, doc, doc)
  <1>1. \A n \in {0, 1, 2} : n >= n
    OBVIOUS
  <1>2. c = "orders" => doc.closed >= doc.closed
    BY <1>1 DEF DocOK
  <1>3. c \in {"carbonProjects", "carbonAssets"} => doc.approved >= doc.approved
    BY <1>1 DEF DocOK
  <1>4. c = "carbonProposals" => doc.state >= doc.state
    BY <1>1 DEF DocOK
  <1> QED BY <1>2, <1>3, <1>4 DEF Advances

LEMMA PutWrites ==
  ASSUME DocsOK, NEW o, NEW doc, DocOK(o.at[1], doc), o.at[1] \notin Counted,
         o.at \in DOMAIN db => Advances(o.at[1], db[o.at], doc)
  PROVE  Written(Put(o.at, doc), o)
  <1> DEFINE new == Put(o.at, doc)
  <1>1. /\ DOMAIN new = DOMAIN db \cup {o.at}
        /\ new[o.at] = doc
        /\ \A a \in DOMAIN db : a # o.at => new[a] = db[a]
    BY DEF Put
  <1> HIDE DEF new
  <1>2. \A at \in DOMAIN new : DocOK(at[1], new[at])
    BY <1>1 DEF DocsOK
  <1>3. \A at \in DOMAIN db : Advances(at[1], db[at], new[at])
    BY <1>1, AdvancesReflexive DEF DocsOK
  <1>4. \A at \in DOMAIN new : at[1] \in Counted => at \in DOMAIN db /\ new[at] = db[at]
    BY <1>1
  <1>5. Written(new, o)
    BY <1>1, <1>2, <1>3, <1>4 DEF Written
  <1> QED BY <1>5 DEF new

LEMMA NothingWritten ==
  ASSUME DocsOK, NEW o
  PROVE  Written(db, o)
  BY AdvancesReflexive DEF Written, DocsOK

(* Applied, operation by operation. *)
LEMMA AppliedInsert ==
  ASSUME NEW o, o.op = "insert" \/ o.op = "upsert"
  PROVE  Applied(o) = Put(o.at, o.doc)
  BY Zenon DEF Applied
LEMMA AppliedUpdate ==
  ASSUME NEW o, o.op = "update"
  PROVE  /\ o.at \in DOMAIN db => Applied(o) = Put(o.at, Set(o.doc, db[o.at]))
         /\ o.at \notin DOMAIN db => Applied(o) = db
  BY Zenon DEF Applied
LEMMA AppliedAppend ==
  ASSUME NEW o, o.op = "append"
  PROVE  Applied(o) = Put(o.at, [n |-> IF o.at \in DOMAIN db THEN db[o.at].n + 1 ELSE 1])
  BY Zenon DEF Applied
LEMMA AppliedFind ==
  ASSUME NEW o, o.op = "find"
  PROVE  Applied(o) = db
  BY Zenon DEF Applied
LEMMA AppliedByPid ==
  ASSUME NEW o, o.op = "updateByPid"
  PROVE  Applied(o) = [a \in DOMAIN db |->
                         IF a[1] = "carbonProposals" /\ db[a].proposalId = o.at[2]
                           THEN Set(o.doc, db[a]) ELSE db[a]]
  BY Zenon DEF Applied

(* $set keeps the fields that it does not name. *)
LEMMA SetIs ==
  ASSUME NEW given, NEW doc
  PROVE  /\ DOMAIN Set(given, doc) = DOMAIN given \cup DOMAIN doc
         /\ \A f \in DOMAIN given : Set(given, doc)[f] = given[f]
         /\ \A f \in DOMAIN doc \ DOMAIN given : Set(given, doc)[f] = doc[f]
  BY DEF Set

LEMMA SetAdvances ==
  ASSUME NEW c, NEW given, NEW doc, DocOK(c, doc),
         \/ c \in {"carbonProjects", "carbonAssets"} /\ given = [approved |-> 1]
         \/ c = "orders" /\ given = [closed |-> 1]
         \/ c = "carbonProposals" /\ given = [state |-> 2, approved |-> 1]
         \/ c = "carbonProposals" /\ given \in CommitteeSets
  PROVE  DocOK(c, Set(given, doc)) /\ Advances(c, doc, Set(given, doc))
  <1> DEFINE new == Set(given, doc)
  <1>1. /\ DOMAIN new = DOMAIN given \cup DOMAIN doc
        /\ \A f \in DOMAIN given : new[f] = given[f]
        /\ \A f \in DOMAIN doc \ DOMAIN given : new[f] = doc[f]
    BY DEF Set
  <1> HIDE DEF new
  <1> SUFFICES DocOK(c, new) /\ Advances(c, doc, new)
    BY DEF new
  <1>0. \A n \in {0, 1, 2} : n >= n /\ (n \in {0, 1} => 1 >= n) /\ 2 >= n
    OBVIOUS
  <1>2. CASE c \in {"carbonProjects", "carbonAssets"} /\ given = [approved |-> 1]
    <2>1. "approved" \in DOMAIN new /\ new.approved = 1
      BY <1>1, <1>2
    <2>2. 1 >= doc.approved
      BY <1>0, <1>2 DEF DocOK
    <2>3. DocOK(c, new)
      BY <1>2, <2>1 DEF DocOK, Counted
    <2>4. Advances(c, doc, new)
      BY <1>2, <2>1, <2>2 DEF Advances
    <2> QED BY <2>3, <2>4
  <1>3. CASE c = "orders" /\ given = [closed |-> 1]
    <2>1. "closed" \in DOMAIN new /\ new.closed = 1
      BY <1>1, <1>3
    <2> QED BY <1>3, <2>1 DEF DocOK, Advances, Counted
  <1>6. ASSUME c = "carbonProposals",
               "state" \in DOMAIN new, new.state = doc.state \/ new.state = 2,
               "proposalId" \in DOMAIN new, new.proposalId = ""
        PROVE  DocOK(c, new) /\ Advances(c, doc, new)
    <2>1. doc.state \in {0, 2}
      BY <1>6 DEF DocOK
    <2>2. new.state \in {0, 2} /\ new.state >= doc.state
      BY <1>6, <2>1, <1>0
    <2>3. DocOK(c, new)
      BY <1>6, <2>2 DEF DocOK, Counted
    <2>4. Advances(c, doc, new)
      BY <1>6, <2>2 DEF Advances
    <2> QED BY <2>3, <2>4
  <1>7. c = "carbonProposals" =>
          "proposalId" \in DOMAIN doc /\ doc.proposalId = "" /\ "state" \in DOMAIN doc
    BY DEF DocOK
  <1>4. CASE c = "carbonProposals" /\ given = [state |-> 2, approved |-> 1]
    <2>1. /\ "state" \in DOMAIN new /\ new.state = 2
          /\ "proposalId" \in DOMAIN new /\ new.proposalId = ""
      BY <1>1, <1>4, <1>7
    <2> QED BY <1>4, <1>6, <2>1
  <1>5. CASE c = "carbonProposals" /\ given \in CommitteeSets
    <2>1. CASE given = <<>>
      <3>1. "state" \notin DOMAIN given /\ "proposalId" \notin DOMAIN given
        BY <2>1
      <3> QED BY <1>1, <1>5, <1>6, <1>7, <3>1
    <2>2. CASE given = [approved |-> 1] \/ given = [approved |-> 0]
      <3>1. "state" \notin DOMAIN given /\ "proposalId" \notin DOMAIN given
        BY <2>2
      <3> QED BY <1>1, <1>5, <1>6, <1>7, <3>1
    <2>3. CASE given = [state |-> 2]
      <3>1. /\ "state" \in DOMAIN given /\ "proposalId" \notin DOMAIN given
            /\ given.state = 2
        BY <2>3
      <3> QED BY <1>1, <1>5, <1>6, <1>7, <3>1
    <2> QED BY <1>5, <2>1, <2>2, <2>3 DEF CommitteeSets
  <1> QED BY <1>2, <1>3, <1>4, <1>5

LEMMA InsertWrites ==
  ASSUME DocsOK, NEW o, o.op = "insert", o.at \notin DOMAIN db,
         DocOK(o.at[1], o.doc), o.at[1] \notin Counted
  PROVE  Written(Applied(o), o)
  BY PutWrites, AppliedInsert

LEMMA UpdateWrites ==
  ASSUME DocsOK, NEW o, o.op = "update", o.at[1] \notin Counted,
         o.at \in DOMAIN db => /\ DocOK(o.at[1], Set(o.doc, db[o.at]))
                               /\ Advances(o.at[1], db[o.at], Set(o.doc, db[o.at]))
  PROVE  Written(Applied(o), o)
  BY PutWrites, NothingWritten, AppliedUpdate

LEMMA AppendWrites ==
  ASSUME DocsOK, NEW o, o.op = "append", o.at[1] \in Counted
  PROVE  Written(Applied(o), o)
  <1> DEFINE doc == [n |-> IF o.at \in DOMAIN db THEN db[o.at].n + 1 ELSE 1]
             new == Put(o.at, doc)
  <1>1. /\ DOMAIN new = DOMAIN db \cup {o.at}
        /\ new[o.at] = doc
        /\ \A a \in DOMAIN db : a # o.at => new[a] = db[a]
    BY DEF Put
  <1>2. /\ doc.n = IF o.at \in DOMAIN db THEN db[o.at].n + 1 ELSE 1
        /\ doc.n \in Nat
    <2>1. o.at \in DOMAIN db => db[o.at].n \in Nat
      BY DEF DocsOK, DocOK
    <2> QED BY <2>1
  <1>3. DocOK(o.at[1], doc)
    BY <1>2 DEF DocOK, Counted
  <1>4. o.at \in DOMAIN db => Advances(o.at[1], db[o.at], doc)
    BY DEF Advances, Counted
  <1>5. Applied(o) = new
    BY AppliedAppend
  <1> HIDE DEF new, doc
  <1>6. \A at \in DOMAIN new : DocOK(at[1], new[at])
    BY <1>1, <1>3 DEF DocsOK
  <1>7. \A at \in DOMAIN db : Advances(at[1], db[at], new[at])
    BY <1>1, <1>4, AdvancesReflexive DEF DocsOK
  <1>8. Written(new, o)
    BY <1>1, <1>2, <1>6, <1>7 DEF Written
  <1> QED BY <1>5, <1>8

LEMMA ByPidWrites ==
  ASSUME DocsOK, NEW o, o.op = "updateByPid", o.doc \in CommitteeSets
  PROVE  Written(Applied(o), o)
  <1> DEFINE Named(a) == a[1] = "carbonProposals" /\ db[a].proposalId = o.at[2]
             new == [a \in DOMAIN db |-> IF Named(a) THEN Set(o.doc, db[a]) ELSE db[a]]
  <1>1. Applied(o) = new
    BY AppliedByPid
  <1>2. DOMAIN new = DOMAIN db
    OBVIOUS
  <1>3. ASSUME NEW a \in DOMAIN db
        PROVE  /\ DocOK(a[1], new[a]) /\ Advances(a[1], db[a], new[a])
               /\ a[1] \in Counted => new[a] = db[a]
    <2>1. DocOK(a[1], db[a])
      BY DEF DocsOK
    <2>2. CASE Named(a)
      <3>1. new[a] = Set(o.doc, db[a])
        BY <2>2
      <3>2. a[1] \notin Counted
        BY <2>2 DEF Counted
      <3> QED BY <2>1, <2>2, <3>1, <3>2, SetAdvances
    <2>3. CASE ~Named(a)
      <3>1. new[a] = db[a]
        BY <2>3
      <3> QED BY <2>1, <3>1, AdvancesReflexive
    <2> QED BY <2>2, <2>3
  <1> HIDE DEF new
  <1>4. Written(new, o)
    BY <1>2, <1>3 DEF Written
  <1> QED BY <1>1, <1>4

LEMMA OpWrites ==
  ASSUME DocsOK, NEW o, NEW s, NEW e, NEW place, OpForms(o, s, e, place), ~Throws(o)
  PROVE  Written(Applied(o), o)
  <1> DEFINE Goal == Written(Applied(o), o)
  <1> SUFFICES Goal
    OBVIOUS
  <1>1. ASSUME NEW c \in {"carbonProjects", "carbonAssets"},
               o = InsertDoc(c, e.id, [approved |-> 0])
        PROVE  Goal
    <2>1. o.op = "insert" /\ o.at[1] = c /\ o.doc = [approved |-> 0]
      BY <1>1 DEF InsertDoc
    <2>2. DocOK(c, [approved |-> 0]) /\ c \notin Counted
      BY DEF DocOK, Counted
    <2> QED BY <2>1, <2>2, InsertWrites DEF Throws
  <1>2. CASE o = InsertDoc("standardAssets", e.id, [owner |-> e.who])
    <2>1. o.op = "insert" /\ o.at[1] = "standardAssets" /\ "standardAssets" \notin Counted
      BY <1>2 DEF InsertDoc, Counted
    <2>2. DocOK("standardAssets", o.doc)
      BY DEF DocOK, Counted
    <2> QED BY <2>1, <2>2, InsertWrites DEF Throws
  <1>3. ASSUME NEW c \in {"carbonProjects", "carbonAssets"},
               o = UpdateDoc(c, e.id, [approved |-> 1])
        PROVE  Goal
    <2>1. o.op = "update" /\ o.at[1] = c /\ o.doc = [approved |-> 1] /\ c \notin Counted
      BY <1>3 DEF UpdateDoc, Counted
    <2>2. o.at \in DOMAIN db => DocOK(c, db[o.at])
      BY <2>1 DEF DocsOK
    <2> QED BY <2>1, <2>2, SetAdvances, UpdateWrites
  <1>4. ASSUME NEW c, NEW asset, o = FindDoc(c, asset)
        PROVE  Goal
    <2>1. o.op = "find"
      BY <1>4 DEF FindDoc
    <2> QED BY <2>1, AppliedFind, NothingWritten
  <1>5. ASSUME NEW asset, o = PotentialBalance(e.who, asset)
        PROVE  Goal
    <2>1. o.op = "upsert" /\ o.at[1] = "potentialBalances" /\ "potentialBalances" \notin Counted
      BY <1>5 DEF PotentialBalance, UpsertDoc, Counted
    <2>2. DocOK("potentialBalances", o.doc)
      BY DEF DocOK, Counted
    <2>3. o.at \in DOMAIN db => Advances("potentialBalances", db[o.at], o.doc)
      BY DEF Advances
    <2> QED BY <2>1, <2>2, <2>3, PutWrites, AppliedInsert
  <1>6. CASE o = NewProposal(e.id)
    <2>1. /\ o.op = "insert" /\ o.at[1] = "carbonProposals" /\ "carbonProposals" \notin Counted
          /\ o.doc = [proposalId |-> "", state |-> 0]
      BY <1>6 DEF NewProposal, InsertDoc, Counted
    <2>2. DocOK("carbonProposals", [proposalId |-> "", state |-> 0])
      BY DEF DocOK, Counted
    <2> QED BY <2>1, <2>2, InsertWrites DEF Throws
  <1>7. CASE o = ProposalApproved(e.id)
    <2>1. /\ o.op = "update" /\ o.at[1] = "carbonProposals" /\ "carbonProposals" \notin Counted
          /\ o.doc = [state |-> 2, approved |-> 1]
      BY <1>7 DEF ProposalApproved, UpdateDoc, Counted
    <2>2. o.at \in DOMAIN db => DocOK("carbonProposals", db[o.at])
      BY <2>1 DEF DocsOK
    <2> QED BY <2>1, <2>2, SetAdvances, UpdateWrites
  <1>8. CASE o = InsertDoc("orders", e.id, [closed |-> 0])
    <2>1. /\ o.op = "insert" /\ o.at[1] = "orders" /\ "orders" \notin Counted
          /\ o.doc = [closed |-> 0]
      BY <1>8 DEF InsertDoc, Counted
    <2>2. DocOK("orders", [closed |-> 0])
      BY DEF DocOK, Counted
    <2> QED BY <2>1, <2>2, InsertWrites DEF Throws
  <1>9. CASE o = UpdateDoc("orders", e.id, [closed |-> 1])
    <2>1. /\ o.op = "update" /\ o.at[1] = "orders" /\ "orders" \notin Counted
          /\ o.doc = [closed |-> 1]
      BY <1>9 DEF UpdateDoc, Counted
    <2>2. o.at \in DOMAIN db => DocOK("orders", db[o.at])
      BY <2>1 DEF DocsOK
    <2> QED BY <2>1, <2>2, SetAdvances, UpdateWrites
  <1>10. ASSUME NEW c \in Counted, NEW key, o = AppendDoc(c, key)
         PROVE  Goal
    <2>1. o.op = "append" /\ o.at[1] = c
      BY <1>10 DEF AppendDoc
    <2> QED BY <2>1, AppendWrites
  <1>11. ASSUME NEW given \in CommitteeSets, o = UpdateByPid(e.pid, given)
         PROVE  Goal
    <2>1. o.op = "updateByPid" /\ o.doc = given
      BY <1>11 DEF UpdateByPid
    <2> QED BY <2>1, ByPidWrites
  <1>12. "deals" \in Counted /\ "userDeals" \in Counted
    BY DEF Counted
  <1> HIDE DEF Goal
  <1> QED
    BY <1>1, <1>2, <1>3, <1>4, <1>5, <1>6, <1>7, <1>8, <1>9, <1>10, <1>11, <1>12, Zenon DEF OpForms

(* A step of a handler: the event is given up or done with, or the operation *)
(* that is due writes to the database.                                       *)
Due == Handler(Events[event], <<block, event>>)[step]
LEMMA HandlerWrites ==
  ASSUME ListenerInv, DocsOK, HandlerStep
  PROVE  \/ db' = db /\ event' = event + 1 /\ step' = 1
         \/ /\ OpForms(Due, step, Events[event], <<block, event>>)
            /\ db' = Applied(Due) /\ ~Throws(Due)
            /\ Written(db', Due)
            /\ event' = event /\ step' = step + 1
  <1> DEFINE ops == Handler(Events[event], <<block, event>>)
  <1>1. block \in 1 .. Len(chain) /\ event \in 1 .. Len(Events) /\ step \in Nat \ {0}
    <2>1. TypeOK /\ Len(chain) \in Nat
      BY ChainTypes DEF ListenerInv
    <2>2. block \in 1 .. Len(chain)
      BY <2>1 DEF HandlerStep, Processing, ListenerInv, PlaceOK, TypeOK, Ranging
    <2>3. Len(chain[block]) \in Nat
      BY <2>1, <2>2, ChainTypes
    <2> QED
      BY <2>2, <2>3 DEF HandlerStep, Processing, ListenerInv, PlaceOK, TypeOK, Ranging, Events
  <1>2. Events[event] \in [name: STRING, id: STRING, asset: STRING, who: STRING, pid: STRING]
    BY <1>1, ChainTypes DEF Events, ListenerInv
  <1>3. CASE db' = db /\ event' = event + 1 /\ step' = 1
    BY <1>3
  <1>4. CASE /\ step <= Len(ops) /\ ~Throws(ops[step])
             /\ db' = Applied(ops[step])
             /\ step' = step + 1 /\ event' = event
    <2>0. Len(ops) \in Nat
      <3>1. \A q : (q = <<>> \/ (\E a : q = <<a>>) \/ (\E a, b : q = <<a, b>>)
                    \/ (\E a, b, c, d : q = <<a, b, c, d>>)
                    \/ (\E a, b, c, d, f : q = <<a, b, c, d, f>>)) => Len(q) \in Nat
        OBVIOUS
      <3>2. \/ ops = <<>> \/ (\E a : ops = <<a>>) \/ (\E a, b : ops = <<a, b>>)
            \/ (\E a, b, c, d : ops = <<a, b, c, d>>)
            \/ (\E a, b, c, d, f : ops = <<a, b, c, d, f>>)
        BY HandlerIs, <1>2, Zenon DEF CarbonAssetsForms, CarbonExchangeForms, StandardAssetsForms
      <3> QED BY <3>1, <3>2
    <2>1. step \in 1 .. Len(ops)
      BY <1>1, <1>4, <2>0
    <2>2. OpForms(ops[step], step, Events[event], <<block, event>>)
      BY <1>2, <2>1, OpIs
    <2>3. Written(Applied(ops[step]), ops[step])
      BY <1>4, <2>2, OpWrites
    <2>4. Due = ops[step]
      BY DEF Due
    <2> HIDE DEF ops
    <2> QED BY <1>4, <2>2, <2>3, <2>4
  <1> QED BY <1>3, <1>4 DEF HandlerStep

(* Only HandlerStep writes to the database. *)
LEMMA OnlyHandlersWrite ==
  ASSUME [Next]_vars
  PROVE  HandlerStep \/ db' = db
  BY DEF Next, Work, Finalize, NewFinalizedHead, Main, BlockDone, RangeDone, Saved, WorkerWakes,
         RpcFails, Crash, vars

DocsInv == ListenerInv /\ DocsOK

LEMMA DocsStep ==
  ASSUME DocsInv, [Next]_vars
  PROVE  DocsInv'
  <1>1. ListenerInv'
    BY ListenerStep DEF DocsInv
  <1>2. CASE db' = db
    BY <1>1, <1>2 DEF DocsInv, DocsOK
  <1>3. CASE HandlerStep
    <2>1. db' = db \/ Written(db', Due)
      BY <1>3, HandlerWrites DEF DocsInv
    <2> QED BY <1>1, <2>1 DEF DocsInv, DocsOK, Written
  <1> QED BY <1>2, <1>3, OnlyHandlersWrite

LEMMA DocsInit ==
  ASSUME Init
  PROVE  DocsInv
  <1>1. db = <<>>
    BY DEF Init
  <1>2. DocsOK
    BY <1>1 DEF DocsOK
  <1> QED BY <1>2, ListenerInit DEF DocsInv

(* Handling a block again harms no document: on any chain and after any     *)
(* number of crashes an order stays closed, a request stays approved and a  *)
(* document stays on record.                                                *)
THEOREM ReplayCorrect == Spec => ReplayKeepsProgress
  <1> DEFINE Kept ==
        \A at \in DOMAIN db :
          /\ at \in DOMAIN db'
          /\ at[1] = "orders" => db'[at].closed >= db[at].closed
          /\ at[1] \in {"carbonProjects", "carbonAssets"} => db'[at].approved >= db[at].approved
          /\ at[1] = "carbonProposals" => db'[at].state >= db[at].state
  <1>1. Init => DocsInv
    BY DocsInit
  <1>2. DocsInv /\ [Next]_vars => DocsInv'
    BY DocsStep
  <1>3. DocsInv /\ [Next]_vars => [Kept]_vars
    <2> SUFFICES ASSUME DocsInv, [Next]_vars PROVE Kept
      OBVIOUS
    <2>1. CASE db' = db
      BY <2>1, AdvancesReflexive DEF DocsInv, DocsOK, Advances
    <2>2. CASE HandlerStep
      <3>1. db' = db \/ Written(db', Due)
        BY <2>2, HandlerWrites DEF DocsInv
      <3>2. CASE Written(db', Due)
        BY <3>2 DEF Written, Advances
      <3> QED BY <2>1, <3>1, <3>2
    <2> QED BY <2>1, <2>2, OnlyHandlersWrite
  <1>4. ReplayKeepsProgress <=> [][Kept]_vars
    BY DEF ReplayKeepsProgress
  <1> HIDE DEF Kept
  <1> QED BY <1>1, <1>2, <1>3, <1>4, PTL DEF Spec
-----------------------------------------------------------------------------
(* The event that a recorded deal is about, and the step of its handler that *)
(* records it.                                                               *)
PlaceOf(at) == IF at[1] = "deals" THEN at[2] ELSE at[2][1]
StepOf(at) == IF at[1] = "deals" THEN 2 ELSE IF at[2][2] = "maker" THEN 3 ELSE 4

(* Whether a process that has got to step s of event i of block b may have  *)
(* recorded it already.                                                     *)
Passed(at, b, i, s) ==
  \/ PlaceOf(at)[1] < b
  \/ PlaceOf(at)[1] = b /\ PlaceOf(at)[2] < i
  \/ PlaceOf(at)[1] = b /\ PlaceOf(at)[2] = i /\ StepOf(at) < s

(* What this process has not got to yet was recorded by those before it. *)
DealsInv ==
  \A at \in DOMAIN db :
    at[1] \in Counted =>
      /\ PlaceOf(at)[1] \in Nat \ {0} /\ PlaceOf(at)[2] \in Nat /\ StepOf(at) \in Nat
      /\ db[at].n <= crashes + 1
      /\ ~Passed(at, block, event, step) => db[at].n <= crashes

LEMMA PassedGrows ==
  ASSUME NEW at, PlaceOf(at)[1] \in Nat \ {0}, PlaceOf(at)[2] \in Nat, StepOf(at) \in Nat,
         NEW b \in Nat, NEW i \in Nat, NEW s \in Nat,
         NEW b2 \in Nat, NEW i2 \in Nat, NEW s2 \in Nat,
         b = 0 \/ b < b2 \/ (b = b2 /\ (i < i2 \/ (i = i2 /\ s <= s2))),
         Passed(at, b, i, s)
  PROVE  Passed(at, b2, i2, s2)
  BY DEF Passed

LEMMA AppendIs ==
  ASSUME NEW o, NEW s, NEW e, NEW place, OpForms(o, s, e, place), o.op = "append"
  PROVE  \/ s = 2 /\ o = AppendDoc("deals", place)
         \/ s = 3 /\ o = AppendDoc("userDeals", <<place, "maker">>)
         \/ s = 4 /\ o = AppendDoc("userDeals", <<place, "taker">>)
  <1>1. \A c, key, doc : o # InsertDoc(c, key, doc)
    BY DEF InsertDoc
  <1>2. \A c, key, doc : o # UpdateDoc(c, key, doc)
    BY DEF UpdateDoc
  <1>3. \A c, key : o # FindDoc(c, key)
    BY DEF FindDoc
  <1>4. \A account, asset : o # PotentialBalance(account, asset)
    BY DEF PotentialBalance, UpsertDoc
  <1>5. \A pid, given : o # UpdateByPid(pid, given)
    BY DEF UpdateByPid
  <1>6. \A key : o # NewProposal(key) /\ o # ProposalApproved(key)
    BY <1>1, <1>2 DEF NewProposal, ProposalApproved
  <1> QED BY <1>1, <1>2, <1>3, <1>4, <1>5, <1>6, Zenon DEF OpForms

LEMMA DealsNext ==
  ASSUME DocsInv, DealsInv, [Next]_vars
  PROVE  DealsInv'
  <1>t. /\ finalized \in Nat /\ file \in Int /\ last \in Int
        /\ block \in Nat /\ event \in Nat /\ step \in Nat /\ crashes \in Nat /\ to \in Nat
        /\ block' \in Nat /\ event' \in Nat /\ step' \in Nat /\ crashes' \in Nat
    <2>1. ListenerInv /\ ListenerInv'
      BY DocsStep DEF DocsInv
    <2>2. Len(chain) \in Nat /\ Len(chain)' \in Nat
      BY <2>1, ListenerAssumption DEF ListenerInv, TypeOK
    <2> QED BY <2>1, <2>2 DEF ListenerInv, TypeOK, PlaceOK, Empty
  <1>d. \A at \in DOMAIN db : at[1] \in Counted => db[at].n \in Nat
    BY DEF DocsInv, DocsOK, DocOK
  <1>1. ASSUME db' = db, crashes' = crashes,
               \/ block = 0 \/ block < block'
               \/ block = block' /\ (event < event' \/ (event = event' /\ step <= step'))
        PROVE  DealsInv'
    <2> SUFFICES ASSUME NEW at \in DOMAIN db, at[1] \in Counted,
                        ~Passed(at, block', event', step')
                 PROVE  db[at].n <= crashes
      BY <1>1 DEF DealsInv
    <2>1. ~Passed(at, block, event, step)
      BY <1>1, <1>t, PassedGrows DEF DealsInv
    <2> QED BY <2>1 DEF DealsInv
  <1>2. ASSUME HandlerStep PROVE DealsInv'
    <2>0. UNCHANGED <<block, crashes>>
      BY <1>2 DEF HandlerStep
    <2>1. CASE db' = db /\ event' = event + 1 /\ step' = 1
      BY <1>1, <1>t, <2>0, <2>1
    <2>2. CASE /\ OpForms(Due, step, Events[event], <<block, event>>)
               /\ Written(db', Due)
               /\ event' = event /\ step' = step + 1
      <3> SUFFICES ASSUME NEW at \in DOMAIN db', at[1] \in Counted
                   PROVE  /\ PlaceOf(at)[1] \in Nat \ {0} /\ PlaceOf(at)[2] \in Nat
                          /\ StepOf(at) \in Nat
                          /\ db'[at].n <= crashes + 1
                          /\ ~Passed(at, block, event, step + 1) => db'[at].n <= crashes
        BY <2>0, <2>2 DEF DealsInv
      <3>1. CASE at \in DOMAIN db /\ db'[at] = db[at]
        <4>0. step + 1 \in Nat /\ step <= step + 1
          BY <1>t
        <4>1. ~Passed(at, block, event, step + 1) => ~Passed(at, block, event, step)
          BY <1>t, <3>1, <4>0, PassedGrows DEF DealsInv
        <4> QED BY <3>1, <4>1 DEF DealsInv
      <3>2. CASE /\ Due.op = "append" /\ at = Due.at
                 /\ db'[at].n = IF at \in DOMAIN db THEN db[at].n + 1 ELSE 1
        <4>1. \/ step = 2 /\ Due = AppendDoc("deals", <<block, event>>)
              \/ step = 3 /\ Due = AppendDoc("userDeals", <<<<block, event>>, "maker">>)
              \/ step = 4 /\ Due = AppendDoc("userDeals", <<<<block, event>>, "taker">>)
          BY <2>2, <3>2, AppendIs
        <4>2. PlaceOf(at) = <<block, event>> /\ StepOf(at) = step
          <5> HIDE DEF Due
          <5> QED BY <3>2, <4>1 DEF AppendDoc, PlaceOf, StepOf
        <4>3. block # 0
          BY <1>2 DEF HandlerStep, Processing, DocsInv, ListenerInv, PlaceOK, Ranging
        <4>4. ~Passed(at, block, event, step) /\ Passed(at, block, event, step + 1)
          BY <1>t, <4>2 DEF Passed
        <4>5. at \in DOMAIN db => db[at].n <= crashes /\ db[at].n \in Nat
          BY <1>d, <4>4 DEF DealsInv
        <4> QED BY <1>t, <3>2, <4>2, <4>3, <4>4, <4>5
      <3> QED BY <2>2, <3>1, <3>2 DEF Written
    <2> QED BY <1>2, <2>1, <2>2, HandlerWrites DEF DocsInv
  <1>3. ASSUME Crash PROVE DealsInv'
    BY <1>3, <1>t, <1>d DEF Crash, DealsInv
  <1>4. ASSUME Main PROVE DealsInv'
    BY <1>4, <1>1, <1>t DEF Main, DocsInv, ListenerInv, PlaceOK
  <1>5. ASSUME WorkerWakes PROVE DealsInv'
    <2>1. block' = last + 1 /\ last + 1 >= block /\ event = 1 /\ step = 1 /\ event' = 1 /\ step' = 1
      BY <1>5, <1>t DEF WorkerWakes, DocsInv, ListenerInv, PlaceOK
    <2>2. db' = db /\ crashes' = crashes
      BY <1>5 DEF WorkerWakes
    <2> QED BY <1>1, <1>t, <2>1, <2>2
  <1>6. ASSUME BlockDone PROVE DealsInv'
    BY <1>6, <1>1, <1>t DEF BlockDone
  <1>7. ASSUME UNCHANGED <<db, crashes, block, event, step>> PROVE DealsInv'
    BY <1>7, <1>1, <1>t
  <1>8. Finalize \/ NewFinalizedHead \/ RangeDone \/ Saved \/ RpcFails \/ UNCHANGED vars
          => UNCHANGED <<db, crashes, block, event, step>>
    BY DEF Finalize, NewFinalizedHead, RangeDone, Saved, RpcFails, vars, local
  <1> QED BY <1>2, <1>3, <1>4, <1>5, <1>6, <1>7, <1>8 DEF Next, Work

(* However often blocks are handled again, a deal of deals or userDeals is  *)
(* recorded at most once more for every crash, whatever chain is followed.  *)
THEOREM DealsCountedCorrect == Spec => []DealsCounted
  <1>1. Init => DocsInv /\ DealsInv
    <2>1. Init => DealsInv
      BY DEF Init, DealsInv
    <2> QED BY <2>1, DocsInit
  <1>2. (DocsInv /\ DealsInv) /\ [Next]_vars => (DocsInv /\ DealsInv)'
    BY DocsStep, DealsNext
  <1>3. DocsInv /\ DealsInv => DealsCounted
    <2> SUFFICES ASSUME DocsInv, DealsInv, NEW at \in DOMAIN db, at[1] \in Counted
                 PROVE  db[at].n <= 1 + crashes
      BY DEF DealsCounted, Counted
    <2>1. db[at].n \in Nat /\ crashes \in Nat /\ db[at].n <= crashes + 1
      BY DEF DocsInv, DocsOK, DocOK, DealsInv, ListenerInv, PlaceOK
    <2> QED BY <2>1
  <1> QED BY <1>1, <1>2, <1>3, PTL DEF Spec
-----------------------------------------------------------------------------
(* The first of two inserts, while the second is not made: it is not lost   *)
(* unless the process dies.                                                 *)
Ops == Handler(Events[event], <<block, event>>)
FirstOp == Ops[1]
HalfDone == Ranging /\ step = 2 /\ Ops # <<>> /\ FirstOp.op = "insert"
Current == IF HalfDone THEN {FirstOp.at} ELSE {}
LostInv ==
  /\ IsFiniteSet(Incomplete)
  /\ Cardinality(Incomplete \ Current) <= crashes
  /\ HalfDone => FirstOp.at \in DOMAIN db /\ db[FirstOp.at] = FirstOp.doc

Paired == {"carbonProjects", "carbonAssets", "standardAssets"}

LEMMA FewerLost ==
  ASSUME NEW S, IsFiniteSet(S), NEW T \in SUBSET S
  PROVE  /\ IsFiniteSet(T)
         /\ Cardinality(T) \in Nat /\ Cardinality(S) \in Nat
         /\ Cardinality(T) <= Cardinality(S)
  BY FS_Subset, FS_CardinalityType

LEMMA OneMoreLost ==
  ASSUME NEW S, IsFiniteSet(S), NEW x
  PROVE  Cardinality(S) \in Nat /\ Cardinality(S \ {x}) \in Nat
         /\ Cardinality(S) <= Cardinality(S \ {x}) + 1
  <1>1. IsFiniteSet(S \ {x})
    BY FS_RemoveElement
  <1>2. Cardinality(S) \in Nat /\ Cardinality(S \ {x}) \in Nat
    BY <1>1, FS_CardinalityType
  <1>3. Cardinality(S \ {x}) = IF x \in S THEN Cardinality(S) - 1 ELSE Cardinality(S)
    BY FS_RemoveElement
  <1> QED BY <1>2, <1>3

(* A project, an asset or a standard asset is put on record by the first    *)
(* step of a handler, and only by it.                                       *)
LEMMA PairedInsert ==
  ASSUME DocsOK, NEW o, NEW s, NEW e, NEW place, OpForms(o, s, e, place), ~Throws(o),
         NEW at \in DOMAIN Applied(o), at \notin DOMAIN db, at[1] \in Paired
  PROVE  s = 1 /\ o.op = "insert" /\ at = o.at /\ Applied(o)[at] = o.doc
  <1>1. at = o.at
    BY OpWrites DEF Written
  <1>2. o.op # "find" /\ o.op # "updateByPid" /\ o.op # "update"
    <2>1. o.op = "find" => DOMAIN Applied(o) = DOMAIN db
      BY AppliedFind
    <2>2. o.op = "updateByPid" => DOMAIN Applied(o) = DOMAIN db
      BY AppliedByPid
    <2>3. o.op = "update" /\ o.at \notin DOMAIN db => DOMAIN Applied(o) = DOMAIN db
      BY AppliedUpdate
    <2> QED BY <1>1, <2>1, <2>2, <2>3
  <1>3. \A c, key : o # FindDoc(c, key)
    BY <1>2 DEF FindDoc
  <1>4. \A c, key, doc : o # UpdateDoc(c, key, doc)
    BY <1>2 DEF UpdateDoc
  <1>5. \A pid, given : o # UpdateByPid(pid, given)
    BY <1>2 DEF UpdateByPid
  <1>6. \A account, asset : o # PotentialBalance(account, asset)
    BY <1>1 DEF PotentialBalance, UpsertDoc, Paired
  <1>7. \A key, doc : o # InsertDoc("orders", key, doc) /\ o # InsertDoc("carbonProposals", key, doc)
    BY <1>1 DEF InsertDoc, Paired
  <1>8. \A key : o # AppendDoc("deals", key) /\ o # AppendDoc("userDeals", key)
    BY <1>1 DEF AppendDoc, Paired
  <1>9. \A key : o # NewProposal(key) /\ o # ProposalApproved(key)
    BY <1>4, <1>7 DEF NewProposal, ProposalApproved
  <1>10. s = 1 /\ \E c, key, doc : o = InsertDoc(c, key, doc)
    BY <1>3, <1>4, <1>5, <1>6, <1>7, <1>8, <1>9, Zenon DEF OpForms
  <1>11. o.op = "insert"
    BY <1>10 DEF InsertDoc
  <1>12. Applied(o) = Put(o.at, o.doc)
    BY <1>11, AppliedInsert
  <1>13. Put(o.at, o.doc)[o.at] = o.doc
    BY DEF Put
  <1> QED BY <1>1, <1>10, <1>11, <1>12, <1>13

(* The second step of such a handler makes the second document, or finds it *)
(* on record.                                                               *)
SecondOf(first) ==
  IF first.at[1] = "standardAssets"
    THEN <<"potentialBalances", <<Prefix[first.doc.owner], Prefix[first.at[2]]>>>>
    ELSE <<"carbonProposals", first.at[2]>>
LEMMA SecondFollows ==
  ASSUME NEW e \in [name: STRING, id: STRING, asset: STRING, who: STRING, pid: STRING],
         NEW place, NEW ops, ops = Handler(e, place), ops # <<>>, ops[1].op = "insert"
  PROVE  /\ Len(ops) = 2
         /\ ops[2].at = SecondOf(ops[1])
         /\ ops[2].op = "insert" \/ ops[2].op = "upsert"
  <1> DEFINE Goal == /\ Len(ops) = 2
                     /\ ops[2].at = SecondOf(ops[1])
                     /\ ops[2].op = "insert" \/ ops[2].op = "upsert"
  <1> SUFFICES Goal
    OBVIOUS
  <1>1. ASSUME NEW c \in {"carbonProjects", "carbonAssets"},
               ops = <<InsertDoc(c, e.id, [approved |-> 0]), NewProposal(e.id)>>
        PROVE  Goal
    <2>1. Len(ops) = 2 /\ ops[1] = InsertDoc(c, e.id, [approved |-> 0]) /\ ops[2] = NewProposal(e.id)
      BY <1>1
    <2>2. ops[1].at[1] = c /\ ops[1].at[2] = e.id
      BY <2>1 DEF InsertDoc
    <2>3. ops[2].op = "insert" /\ ops[2].at = <<"carbonProposals", e.id>>
      <3>1. NewProposal(e.id).op = "insert" /\ NewProposal(e.id).at = <<"carbonProposals", e.id>>
        BY DEF NewProposal, InsertDoc
      <3> QED BY <2>1, <3>1
    <2> QED BY <2>1, <2>2, <2>3 DEF SecondOf
  <1>2. CASE ops = <<InsertDoc("standardAssets", e.id, [owner |-> e.who]), PotentialBalance(e.who, e.id)>>
    <2>1. /\ Len(ops) = 2 /\ ops[1] = InsertDoc("standardAssets", e.id, [owner |-> e.who])
          /\ ops[2] = PotentialBalance(e.who, e.id)
      BY <1>2
    <2>2. ops[1].at[1] = "standardAssets" /\ ops[1].at[2] = e.id /\ ops[1].doc.owner = e.who
      BY <2>1 DEF InsertDoc
    <2>3. /\ ops[2].op = "upsert"
          /\ ops[2].at = <<"potentialBalances", <<Prefix[e.who], Prefix[e.id]>>>>
      BY <2>1 DEF PotentialBalance, UpsertDoc
    <2> QED BY <2>1, <2>2, <2>3 DEF SecondOf
  <1>3. ASSUME NEW o, o = ops[1],
               \/ \E c, key, doc : o = UpdateDoc(c, key, doc)
               \/ \E c, key : o = FindDoc(c, key)
               \/ \E pid, given : o = UpdateByPid(pid, given)
        PROVE  FALSE
    <2>1. \A c, key, doc : UpdateDoc(c, key, doc).op = "update"
      BY DEF UpdateDoc
    <2>2. \A c, key : FindDoc(c, key).op = "find"
      BY DEF FindDoc
    <2>3. \A pid, given : UpdateByPid(pid, given).op = "updateByPid"
      BY DEF UpdateByPid
    <2>4. o.op = "insert"
      BY <1>3
    <2> QED BY <1>3, <2>1, <2>2, <2>3, <2>4
  <1>4. \A q, a : q = <<a>> => q[1] = a
    OBVIOUS
  <1>5. \A q, a, b : q = <<a, b>> => q[1] = a
    OBVIOUS
  <1>6. \A q, a, b, c, d : q = <<a, b, c, d>> => q[1] = a
    OBVIOUS
  <1>7. \A q, a, b, c, d, f : q = <<a, b, c, d, f>> => q[1] = a
    OBVIOUS
  <1> HIDE DEF Goal
  <1>8. CASE CarbonAssetsForms(ops, e)
    BY <1>1, <1>3, <1>4, <1>5, <1>6, <1>8 DEF CarbonAssetsForms, ProposalApproved
  <1>9. CASE CarbonExchangeForms(ops, e, place)
    BY <1>3, <1>4, <1>5, <1>7, <1>9 DEF CarbonExchangeForms
  <1>10. CASE StandardAssetsForms(ops, e)
    BY <1>2, <1>3, <1>5, <1>10 DEF StandardAssetsForms
  <1>11. CASE \E given \in CommitteeSets : ops = <<UpdateByPid(e.pid, given)>>
    BY <1>3, <1>4, <1>11
  <1> QED BY <1>8, <1>9, <1>10, <1>11, HandlerIs

(* The documents that lack their second one are what they were, or new. *)
LEMMA StillIncomplete ==
  ASSUME NEW o, Written(db', o), NEW at \in Incomplete', at \in DOMAIN db
  PROVE  at \in Incomplete
  <1>1. at[1] \in Paired /\ Second(at)' \notin DOMAIN db'
    BY DEF Incomplete, Paired
  <1>2. at[1] = "standardAssets" => db'[at] = db[at]
    BY DEF Written, Advances
  <1>3. Second(at)' = Second(at)
    BY <1>2 DEF Second
  <1>4. Second(at) \notin DOMAIN db
    BY <1>1, <1>3 DEF Written
  <1> QED BY <1>1, <1>4 DEF Incomplete, Paired

LEMMA LostNext ==
  ASSUME DocsInv, LostInv, [Next]_vars
  PROVE  LostInv'
  <1>t. /\ step \in Nat /\ crashes \in Nat /\ IsFiniteSet(Incomplete)
        /\ Cardinality(Incomplete \ Current) <= crashes
    BY DEF LostInv, DocsInv, ListenerInv, PlaceOK
  <1>0. db' = db => Incomplete' = Incomplete
    BY DEF Incomplete, Second
  <1>1. ASSUME db' = db, crashes' = crashes, ~HalfDone, ~HalfDone'
        PROVE  LostInv'
    BY <1>0, <1>1, <1>t DEF LostInv, Current
  <1>2. ASSUME db' = db, crashes' = crashes, phase' = phase, step' = step,
               Ops' = Ops
        PROVE  LostInv'
    <2>1. HalfDone' = HalfDone /\ FirstOp' = FirstOp
      BY <1>2 DEF HalfDone, FirstOp, Ranging
    <2>2. Current' = Current
      BY <2>1 DEF Current
    <2> QED BY <1>0, <1>2, <2>1, <2>2 DEF LostInv
  <1>3. ASSUME UNCHANGED <<chain, block, event>> PROVE Ops' = Ops
    BY <1>3 DEF Ops, Events
  <1>4. ASSUME HandlerStep PROVE LostInv'
    <2>0. UNCHANGED <<chain, block, phase, crashes>> /\ Ranging /\ event <= Len(Events)
      BY <1>4 DEF HandlerStep, Processing, Ranging
    <2>e. Events[event] \in [name: STRING, id: STRING, asset: STRING, who: STRING, pid: STRING]
      <3>1. TypeOK /\ Len(chain) \in Nat
        BY ChainTypes DEF DocsInv, ListenerInv
      <3>2. block \in 1 .. Len(chain)
        BY <1>4, <3>1 DEF HandlerStep, Processing, DocsInv, ListenerInv, PlaceOK, TypeOK, Ranging
      <3>3. Len(chain[block]) \in Nat
        BY <3>1, <3>2, ChainTypes
      <3>4. event \in 1 .. Len(chain[block])
        BY <2>0, <3>3 DEF Events, DocsInv, ListenerInv, PlaceOK, Ranging
      <3> QED BY <3>1, <3>2, <3>4, ChainTypes DEF Events
    <2>s. HalfDone =>
            /\ Len(Ops) = 2 /\ Ops[2].at = SecondOf(FirstOp)
            /\ Ops[2].op = "insert" \/ Ops[2].op = "upsert"
      BY <2>e, SecondFollows DEF HalfDone, Ops, FirstOp
    <2>k. HalfDone => Second(FirstOp.at) = SecondOf(FirstOp)
      BY DEF LostInv, Second, SecondOf
    <2>1. CASE db' = db /\ event' = event + 1 /\ step' = 1
      <3>1. ~HalfDone'
        BY <2>1 DEF HalfDone
      <3>2. ASSUME HalfDone PROVE FirstOp.at \notin Incomplete
        <4>1. Throws(Ops[2])
          BY <1>4, <2>1, <2>s, <3>2 DEF HandlerStep, HalfDone, Ops
        <4>2. Ops[2].at \in DOMAIN db
          BY <2>s, <3>2, <4>1 DEF Throws
        <4>3. Second(FirstOp.at) \in DOMAIN db
          BY <2>k, <2>s, <3>2, <4>2
        <4> QED BY <4>3 DEF Incomplete
      <3>3. Incomplete' \ Current' = Incomplete \ Current
        BY <1>0, <2>1, <3>1, <3>2 DEF Current
      <3> QED BY <1>0, <1>t, <2>0, <2>1, <3>1, <3>3 DEF LostInv
    <2>2. CASE /\ OpForms(Due, step, Events[event], <<block, event>>)
               /\ db' = Applied(Due) /\ ~Throws(Due)
               /\ Written(db', Due)
               /\ event' = event /\ step' = step + 1
      <3>d. Due = Ops[step] /\ Ops' = Ops /\ FirstOp' = FirstOp
        BY <1>3, <2>0, <2>2 DEF Due, Ops, FirstOp
      <3>1. ASSUME NEW at \in Incomplete', at \notin DOMAIN db
            PROVE  step = 1 /\ Due.op = "insert" /\ at = Due.at /\ db'[at] = Due.doc
        <4>1. at \in DOMAIN db' /\ at[1] \in Paired
          BY DEF Incomplete, Paired
        <4> HIDE DEF Due
        <4> QED BY <2>2, <3>1, <4>1, PairedInsert DEF DocsInv
      <3>2. Incomplete' \subseteq Incomplete \cup {Due.at}
        BY <2>2, <3>1, StillIncomplete
      <3>3. IsFiniteSet(Incomplete \cup {Due.at})
        BY <1>t, FS_AddElement
      <3>4. IsFiniteSet(Incomplete')
        BY <3>2, <3>3, FewerLost
      <3>5. CASE step = 1
        <4>1. ~HalfDone /\ step' = 2
          BY <2>2, <3>5 DEF HalfDone
        <4>2. Current = {}
          BY <4>1 DEF Current
        <4>3. Due = FirstOp
          BY <3>5, <3>d DEF FirstOp
        <4>4. Ops # <<>>
          <5>1. step <= Len(Ops)
            BY <1>4, <2>0, <2>2, <1>t DEF HandlerStep, Ops
          <5> QED BY <3>5, <5>1
        <4>5. HalfDone' <=> FirstOp.op = "insert"
          BY <2>0, <3>d, <4>1, <4>4 DEF HalfDone, Ranging
        <4>6. Incomplete' \ Current' \subseteq Incomplete
          <5> SUFFICES ASSUME NEW at \in Incomplete', at \notin Current', at \notin DOMAIN db
                       PROVE  FALSE
            BY <2>2, StillIncomplete
          <5>1. Due.op = "insert" /\ at = Due.at
            BY <3>1
          <5>2. Current' = {FirstOp.at}
            BY <3>d, <4>3, <4>5, <5>1 DEF Current
          <5> QED BY <4>3, <5>1, <5>2
        <4>7. Cardinality(Incomplete' \ Current') <= crashes
          <5>1. Cardinality(Incomplete) <= crashes
            BY <1>t, <4>2
          <5>2. /\ Cardinality(Incomplete' \ Current') \in Nat /\ Cardinality(Incomplete) \in Nat
                /\ Cardinality(Incomplete' \ Current') <= Cardinality(Incomplete)
            BY <1>t, <4>6, FewerLost
          <5> QED BY <1>t, <5>1, <5>2
        <4>8. ASSUME HalfDone' PROVE FirstOp.at \in DOMAIN db' /\ db'[FirstOp.at] = FirstOp.doc
          <5>1. Due.op = "insert"
            BY <4>3, <4>5, <4>8
          <5>2. db' = Put(Due.at, Due.doc)
            BY <2>2, <5>1, AppliedInsert
          <5> HIDE DEF Due
          <5>3. Due.at \in DOMAIN db' /\ db'[Due.at] = Due.doc
            BY <5>2 DEF Put
          <5> QED BY <4>3, <5>3
        <4> QED BY <2>0, <3>4, <3>d, <4>7, <4>8 DEF LostInv
      <3>6. CASE step # 1
        <4>1. ~HalfDone' /\ Incomplete' \subseteq Incomplete
          BY <1>t, <2>2, <3>1, <3>6, StillIncomplete DEF HalfDone, DocsInv, ListenerInv, PlaceOK
        <4>2. ASSUME HalfDone PROVE FirstOp.at \notin Incomplete'
          <5>1. Due = Ops[2]
            BY <3>d, <4>2 DEF HalfDone
          <5>2. Due.at = Second(FirstOp.at) /\ (Due.op = "insert" \/ Due.op = "upsert")
            BY <2>s, <2>k, <4>2, <5>1
          <5>3. Due.at \in DOMAIN db'
            <6>1. db' = Put(Due.at, Due.doc)
              BY <2>2, <5>2, AppliedInsert
            <6> HIDE DEF Due
            <6> QED BY <6>1 DEF Put
          <5>4. FirstOp.at \in DOMAIN db
            BY <4>2 DEF LostInv
          <5>5. FirstOp.at[1] = "standardAssets" => db'[FirstOp.at] = db[FirstOp.at]
            BY <2>2, <5>4 DEF Written, Advances
          <5>6. FirstOp.at \in Incomplete' => Second(FirstOp.at) \notin DOMAIN db'
            BY <5>5 DEF Incomplete, Second
          <5> QED BY <5>2, <5>3, <5>6
        <4>3. Current' = {} /\ Incomplete' \subseteq Incomplete \ Current
          BY <4>1, <4>2 DEF Current
        <4>4. IsFiniteSet(Incomplete \ Current)
          BY <1>t, FS_Subset
        <4>5. /\ Cardinality(Incomplete') \in Nat /\ Cardinality(Incomplete \ Current) \in Nat
              /\ Cardinality(Incomplete') <= Cardinality(Incomplete \ Current)
          BY <4>3, <4>4, FewerLost
        <4>6. Cardinality(Incomplete' \ Current') <= crashes
          BY <1>t, <4>3, <4>5
        <4> QED BY <2>0, <3>4, <4>1, <4>6 DEF LostInv
      <3> QED BY <3>5, <3>6
    <2> QED BY <1>4, <2>1, <2>2, HandlerWrites DEF DocsInv
  <1>5. ASSUME Crash PROVE LostInv'
    <2>1. ~HalfDone' /\ db' = db /\ crashes' = crashes + 1
      BY <1>5 DEF Crash, HalfDone, Ranging
    <2>2. Current' = {} /\ Incomplete' = Incomplete
      BY <1>0, <2>1 DEF Current
    <2>3. CASE HalfDone
      <3>1. Current = {FirstOp.at}
        BY <2>3 DEF Current
      <3>2. /\ Cardinality(Incomplete) \in Nat /\ Cardinality(Incomplete \ Current) \in Nat
            /\ Cardinality(Incomplete) <= Cardinality(Incomplete \ Current) + 1
        BY <1>t, <3>1, OneMoreLost
      <3>3. Cardinality(Incomplete) <= crashes + 1
        BY <1>t, <3>2
      <3> QED BY <1>t, <2>1, <2>2, <3>3 DEF LostInv
    <2>4. CASE ~HalfDone
      <3>1. Cardinality(Incomplete) <= crashes /\ Cardinality(Incomplete) \in Nat
        BY <1>t, <2>4, FS_CardinalityType DEF Current
      <3>2. Cardinality(Incomplete) <= crashes + 1
        BY <1>t, <3>1
      <3> QED BY <1>t, <2>1, <2>2, <3>2 DEF LostInv
    <2> QED BY <2>3, <2>4
  <1>6. ASSUME Main \/ WorkerWakes PROVE LostInv'
    BY <1>1, <1>6 DEF Main, WorkerWakes, HalfDone, Ranging
  <1>7. ASSUME BlockDone PROVE LostInv'
    <2>0. Len(Events) \in Nat /\ event \in Nat /\ event > Len(Events)
      <3>1. TypeOK /\ Len(chain) \in Nat
        BY ChainTypes DEF DocsInv, ListenerInv
      <3>2. block \in 1 .. Len(chain)
        BY <1>7, <3>1 DEF BlockDone, Processing, DocsInv, ListenerInv, PlaceOK, TypeOK, Ranging
      <3>3. Len(chain[block]) \in Nat
        BY <3>1, <3>2, ChainTypes
      <3> QED BY <1>7, <3>3 DEF BlockDone, Events, DocsInv, ListenerInv, PlaceOK
    <2>1. step = 1
      BY <1>7, <2>0 DEF BlockDone, Processing, Events, DocsInv, ListenerInv, PlaceOK, Ranging
    <2> QED BY <1>1, <1>7, <2>1 DEF BlockDone, HalfDone
  <1>8. ASSUME RangeDone PROVE LostInv'
    <2>1. step = 1
      BY <1>8 DEF RangeDone, DocsInv, ListenerInv, TypeOK, PlaceOK, Ranging
    <2> QED BY <1>1, <1>8, <2>1 DEF RangeDone, HalfDone
  <1>9. ASSUME Saved \/ RpcFails PROVE LostInv'
    BY <1>1, <1>9 DEF Saved, RpcFails, HalfDone, Ranging
  <1>10. ASSUME Finalize \/ NewFinalizedHead \/ UNCHANGED vars PROVE LostInv'
    <2>1. UNCHANGED <<db, crashes, phase, step, chain, block, event>>
      BY <1>10 DEF Finalize, NewFinalizedHead, vars, local
    <2> QED BY <1>2, <1>3, <2>1
  <1> QED BY <1>4, <1>5, <1>6, <1>7, <1>8, <1>9, <1>10 DEF Next, Work

(* A crash between two inserts of a handler loses the second document for   *)
(* good; nothing else loses one, and no crash more than one.                *)
THEOREM CrashLosesOneCorrect == Spec => []CrashLosesOne
  <1>1. Init => DocsInv /\ LostInv
    <2> SUFFICES ASSUME Init PROVE LostInv
      BY DocsInit
    <2>1. Incomplete = {}
      BY DEF Init, Incomplete
    <2>2. ~HalfDone /\ crashes = 0
      BY DEF Init, HalfDone, Ranging
    <2>3. Incomplete \ Current = {}
      BY <2>1
    <2> QED BY <2>1, <2>2, <2>3, FS_EmptySet DEF LostInv
  <1>2. (DocsInv /\ LostInv) /\ [Next]_vars => (DocsInv /\ LostInv)'
    BY DocsStep, LostNext
  <1>3. LostInv => CrashLosesOne
    <2> SUFFICES ASSUME LostInv, phase = "idle" PROVE Cardinality(Incomplete) <= crashes
      BY DEF CrashLosesOne
    <2>1. Current = {}
      BY DEF Current, HalfDone, Ranging
    <2>2. Incomplete \ Current = Incomplete
      BY <2>1
    <2> QED BY <2>2 DEF LostInv
  <1> QED BY <1>1, <1>2, <1>3, PTL DEF Spec
-----------------------------------------------------------------------------
(* The process is past place p of the chain. *)
Before(p, b, i) == p[1] < b \/ (p[1] = b /\ p[2] < i)

Places == UNION {{n} \X (1 .. Len(chain[n])) : n \in 1 .. Len(chain)}

(* The places whose events were handled, by a whole block or by this process. *)
Done == {p \in Places : p[1] \in processed \/ (Ranging /\ p[1] = block /\ p[2] < event)}

(* Those that no process will handle again.  A new process begins after the *)
(* block that the file names; after an empty file it begins after them all. *)
Firm ==
  {p \in Done : /\ Ranging => Before(p, block, event)
                /\ phase \in {"down", "dead"} /\ file # Empty => p[1] <= file}

(* The places that may have been handled in part: their blocks are handled  *)
(* now, or will be before the listener is at rest.                          *)
ToCome(n) ==
  IF Ranging THEN block <= n /\ n <= to
  ELSE phase \in {"down", "dead"} /\ file # Empty /\ file < n /\ n <= finalized
Touched == {p \in Places : p[1] \in processed \/ ToCome(p[1])}

Crediting == CreditNames \cup {"NewAsset"}
Hides(r, p) ==
  /\ Later(r, p) /\ At(r).name \in Crediting
  /\ RecordOf(At(r)) \in DOMAIN db /\ BalanceAt(At(r)) = BalanceAt(At(p))
IsListed(p) ==
  /\ BalanceAt(At(p)) \in DOMAIN db
  /\ db[BalanceAt(At(p))] = [account |-> At(p).who, asset |-> AssetOf(At(p))]

(* LatestCreditListed, wherever the listener is: what is firm is listed, or *)
(* hidden by a later credit that will be firm once the listener is at rest. *)
CreditsKept ==
  \A p, q \in Firm :
    (At(p).name \in CreditNames /\ Later(p, q) /\ Creates(At(q), RecordOf(At(p))))
      => IsListed(p) \/ \E r \in Touched : Hides(r, p)

(* What was handled is on record. *)
CreatedInv == \A q \in Done : \A at : Creates(At(q), at) => at \in DOMAIN db

(* What the steps of the current handler have done. *)
StepsDone ==
  (Ranging /\ block <= to /\ event <= Len(Events)) =>
    \A k \in 1 .. Len(Ops) : k < step =>
      /\ Ops[k].op \in {"find", "insert", "upsert"} => Ops[k].at \in DOMAIN db
      /\ Ops[k].op = "upsert" => db[Ops[k].at] = Ops[k].doc

(* How far the blocks handled reach. *)
ReachInv ==
  /\ Ranging => processed \subseteq 1 .. to /\ (last = Empty => block > to)
  /\ phase \in {"saving", "idle"} => processed \subseteq 1 .. last
  /\ phase = "dead" => file # Empty

CreditInv == DocsInv /\ ReachInv /\ StepsDone /\ CreatedInv /\ CreditsKept

(* The handlers of the events that credit an account, and of the two that   *)
(* put an asset on record.                                                  *)
EventType == [name: STRING, id: STRING, asset: STRING, who: STRING, pid: STRING]
LEMMA CreditHandlers ==
  ASSUME NEW e \in EventType, NEW place
  PROVE  /\ e.name = "AssetSubmited" =>
              Handler(e, place) = <<InsertDoc("carbonAssets", e.id, [approved |-> 0]), NewProposal(e.id)>>
         /\ e.name = "AssetApproved" =>
              Handler(e, place) = <<UpdateDoc("carbonAssets", e.id, [approved |-> 1]),
                                    FindDoc("carbonAssets", e.id),
                                    PotentialBalance(e.who, e.id), ProposalApproved(e.id)>>
         /\ e.name = "Transferred" =>
              Handler(e, place) = <<FindDoc("carbonAssets", e.asset), PotentialBalance(e.who, e.asset)>>
         /\ e.name = "NewDeal" =>
              Handler(e, place) = <<FindDoc("carbonAssets", e.asset), AppendDoc("deals", place),
                                    AppendDoc("userDeals", <<place, "maker">>),
                                    AppendDoc("userDeals", <<place, "taker">>),
                                    PotentialBalance(e.who, e.asset)>>
         /\ e.name = "NewAsset" =>
              Handler(e, place) = <<InsertDoc("standardAssets", e.id, [owner |-> e.who]),
                                    PotentialBalance(e.who, e.id)>>
         /\ e.name = "StandardTransferred" =>
              Handler(e, place) = <<FindDoc("standardAssets", e.asset), PotentialBalance(e.who, e.asset)>>
  <1>1. ASSUME e.name \in {"AssetSubmited", "AssetApproved", "Transferred"}
        PROVE  Handler(e, place) = CarbonAssetsHandler(e)
    <2>1. /\ e.name \in CarbonAssetsEvents /\ e.name \notin CarbonExchangeEvents
          /\ e.name \notin StandardAssetsEvents /\ e.name \notin CarbonCommitteeEvents
      BY <1>1 DEF CarbonAssetsEvents, CarbonExchangeEvents, StandardAssetsEvents, CarbonCommitteeEvents
    <2> QED BY <2>1, Zenon DEF Handler
  <1>2. ASSUME e.name = "NewDeal"
        PROVE  Handler(e, place) = CarbonExchangeHandler(e, place)
    <2>1. /\ e.name \notin CarbonAssetsEvents /\ e.name \in CarbonExchangeEvents
          /\ e.name \notin StandardAssetsEvents /\ e.name \notin CarbonCommitteeEvents
      BY <1>2 DEF CarbonAssetsEvents, CarbonExchangeEvents, StandardAssetsEvents, CarbonCommitteeEvents
    <2> QED BY <2>1, Zenon DEF Handler
  <1>3. ASSUME e.name \in {"NewAsset", "StandardTransferred"}
        PROVE  Handler(e, place) = StandardAssetsHandler(e)
    <2>1. /\ e.name \notin CarbonAssetsEvents /\ e.name \notin CarbonExchangeEvents
          /\ e.name \in StandardAssetsEvents /\ e.name \notin CarbonCommitteeEvents
      BY <1>3 DEF CarbonAssetsEvents, CarbonExchangeEvents, StandardAssetsEvents, CarbonCommitteeEvents
    <2> QED BY <2>1, Zenon DEF Handler
  <1>4. CASE e.name = "AssetSubmited"
    BY <1>1, <1>4, Zenon DEF CarbonAssetsHandler
  <1>5. CASE e.name = "AssetApproved"
    BY <1>1, <1>5, Zenon DEF CarbonAssetsHandler
  <1>6. CASE e.name = "Transferred"
    BY <1>1, <1>6, Zenon DEF CarbonAssetsHandler
  <1>7. CASE e.name = "NewDeal"
    BY <1>2, <1>7, Zenon DEF CarbonExchangeHandler
  <1>8. CASE e.name = "NewAsset"
    BY <1>3, <1>8, Zenon DEF StandardAssetsHandler
  <1>9. CASE e.name = "StandardTransferred"
    BY <1>3, <1>9, Zenon DEF StandardAssetsHandler
  <1> QED BY <1>4, <1>5, <1>6, <1>7, <1>8, <1>9, Zenon

(* The fields of the operations. *)
LEMMA OpFields ==
  /\ \A c, key, doc : LET o == InsertDoc(c, key, doc) IN o.op = "insert" /\ o.at = <<c, key>> /\ o.doc = doc
  /\ \A c, key, doc : LET o == UpdateDoc(c, key, doc) IN o.op = "update" /\ o.at = <<c, key>>
  /\ \A c, key : LET o == AppendDoc(c, key) IN o.op = "append" /\ o.at = <<c, key>>
  /\ \A c, key : LET o == FindDoc(c, key) IN o.op = "find" /\ o.at = <<c, key>>
  /\ \A pid, given : UpdateByPid(pid, given).op = "updateByPid"
  /\ \A key : LET o == NewProposal(key) IN o.op = "insert" /\ o.at = <<"carbonProposals", key>>
  /\ \A key : LET o == ProposalApproved(key) IN o.op = "update" /\ o.at = <<"carbonProposals", key>>
  /\ \A account, asset : LET o == PotentialBalance(account, asset) IN
       /\ o.op = "upsert"
       /\ o.at = <<"potentialBalances", <<Prefix[account], Prefix[asset]>>>>
       /\ o.doc = [account |-> account, asset |-> asset]
  BY DEF InsertDoc, UpdateDoc, AppendDoc, FindDoc, UpdateByPid, NewProposal, ProposalApproved,
         PotentialBalance, UpsertDoc

(* A credit is one upsert, after the asset was found on record or put there. *)
OneCredit(ops, e) ==
  /\ Len(ops) \in Nat
  /\ \E u \in 1 .. Len(ops) :
       /\ ops[u] = PotentialBalance(e.who, AssetOf(e))
       /\ \A k \in 1 .. Len(ops) : ops[k].op = "upsert" => k = u
       /\ \E k \in 1 .. u - 1 : ops[k].op \in {"find", "insert"} /\ ops[k].at = RecordOf(e)
  /\ \A k \in 1 .. Len(ops) : ops[k].op = "find" => ops[k].at = RecordOf(e)
  /\ e.name # "NewAsset" => \A k \in 1 .. Len(ops) : ops[k].op # "insert"

LEMMA CreditingCredits ==
  ASSUME NEW e \in EventType, NEW place, e.name \in Crediting
  PROVE  OneCredit(Handler(e, place), e)
  <1> DEFINE ops == Handler(e, place)
  <1>p. /\ PotentialBalance(e.who, e.id).op = "upsert" /\ PotentialBalance(e.who, e.asset).op = "upsert"
        /\ ProposalApproved(e.id).op = "update"
    BY OpFields
  <1>1. CASE e.name = "AssetApproved"
    <2>1. ops = <<UpdateDoc("carbonAssets", e.id, [approved |-> 1]), FindDoc("carbonAssets", e.id),
                  PotentialBalance(e.who, e.id), ProposalApproved(e.id)>>
      BY <1>1, CreditHandlers
    <2>2. AssetOf(e) = e.id /\ RecordOf(e) = <<"carbonAssets", e.id>>
      BY <1>1 DEF AssetOf, RecordOf, StandardAssetsEvents
    <2>3. /\ UpdateDoc("carbonAssets", e.id, [approved |-> 1]).op = "update"
          /\ FindDoc("carbonAssets", e.id).op = "find"
          /\ FindDoc("carbonAssets", e.id).at = <<"carbonAssets", e.id>>
      BY OpFields
    <2> HIDE DEF ops
    <2>4. /\ Len(ops) = 4
          /\ ops[1].op = "update" /\ ops[2].op = "find" /\ ops[2].at = RecordOf(e)
          /\ ops[3] = PotentialBalance(e.who, AssetOf(e)) /\ ops[3].op = "upsert" /\ ops[4].op = "update"
      BY <1>p, <2>1, <2>2, <2>3
    <2>5. OneCredit(ops, e)
      BY <2>4 DEF OneCredit
    <2> QED BY <2>5 DEF ops
  <1>2. ASSUME NEW c, RecordOf(e) = <<c, e.asset>>, AssetOf(e) = e.asset,
               ops = <<FindDoc(c, e.asset), PotentialBalance(e.who, e.asset)>>
        PROVE  OneCredit(ops, e)
    <2>3. FindDoc(c, e.asset).op = "find" /\ FindDoc(c, e.asset).at = <<c, e.asset>>
      BY OpFields
    <2> HIDE DEF ops
    <2>4. /\ Len(ops) = 2 /\ ops[1].op = "find" /\ ops[1].at = RecordOf(e)
          /\ ops[2] = PotentialBalance(e.who, AssetOf(e)) /\ ops[2].op = "upsert"
      BY <1>2, <1>p, <2>3
    <2> QED BY <2>4 DEF OneCredit
  <1>3. CASE e.name = "Transferred"
    <2>1. AssetOf(e) = e.asset /\ RecordOf(e) = <<"carbonAssets", e.asset>>
      BY <1>3 DEF AssetOf, RecordOf, StandardAssetsEvents
    <2>2. ops = <<FindDoc("carbonAssets", e.asset), PotentialBalance(e.who, e.asset)>>
      BY <1>3, CreditHandlers
    <2> HIDE DEF ops
    <2>3. OneCredit(ops, e)
      BY <1>2, <2>1, <2>2
    <2> QED BY <2>3 DEF ops
  <1>4. CASE e.name = "StandardTransferred"
    <2>1. AssetOf(e) = e.asset /\ RecordOf(e) = <<"standardAssets", e.asset>>
      BY <1>4 DEF AssetOf, RecordOf, StandardAssetsEvents
    <2>2. ops = <<FindDoc("standardAssets", e.asset), PotentialBalance(e.who, e.asset)>>
      BY <1>4, CreditHandlers
    <2> HIDE DEF ops
    <2>3. OneCredit(ops, e)
      BY <1>2, <2>1, <2>2
    <2> QED BY <2>3 DEF ops
  <1>5. CASE e.name = "NewDeal"
    <2>1. ops = <<FindDoc("carbonAssets", e.asset), AppendDoc("deals", place),
                  AppendDoc("userDeals", <<place, "maker">>),
                  AppendDoc("userDeals", <<place, "taker">>),
                  PotentialBalance(e.who, e.asset)>>
      BY <1>5, CreditHandlers
    <2>2. AssetOf(e) = e.asset /\ RecordOf(e) = <<"carbonAssets", e.asset>>
      BY <1>5 DEF AssetOf, RecordOf, StandardAssetsEvents
    <2>3. /\ FindDoc("carbonAssets", e.asset).op = "find"
          /\ FindDoc("carbonAssets", e.asset).at = <<"carbonAssets", e.asset>>
          /\ \A c, key : AppendDoc(c, key).op = "append"
      BY OpFields
    <2> HIDE DEF ops
    <2>4. /\ Len(ops) = 5
          /\ ops[1].op = "find" /\ ops[1].at = RecordOf(e)
          /\ ops[2].op = "append" /\ ops[3].op = "append" /\ ops[4].op = "append"
          /\ ops[5] = PotentialBalance(e.who, AssetOf(e)) /\ ops[5].op = "upsert"
      BY <1>p, <2>1, <2>2, <2>3
    <2>5. OneCredit(ops, e)
      BY <2>4 DEF OneCredit
    <2> QED BY <2>5 DEF ops
  <1>6. CASE e.name = "NewAsset"
    <2>1. ops = <<InsertDoc("standardAssets", e.id, [owner |-> e.who]), PotentialBalance(e.who, e.id)>>
      BY <1>6, CreditHandlers
    <2>2. AssetOf(e) = e.id /\ RecordOf(e) = <<"standardAssets", e.id>>
      BY <1>6 DEF AssetOf, RecordOf, StandardAssetsEvents
    <2>3. /\ InsertDoc("standardAssets", e.id, [owner |-> e.who]).op = "insert"
          /\ InsertDoc("standardAssets", e.id, [owner |-> e.who]).at = <<"standardAssets", e.id>>
      BY OpFields
    <2> HIDE DEF ops
    <2>4. /\ Len(ops) = 2
          /\ ops[1].op = "insert" /\ ops[1].at = RecordOf(e)
          /\ ops[2] = PotentialBalance(e.who, AssetOf(e)) /\ ops[2].op = "upsert"
      BY <1>p, <2>1, <2>2, <2>3
    <2>5. OneCredit(ops, e)
      BY <1>6, <2>4 DEF OneCredit
    <2> QED BY <2>5 DEF ops
  <1> QED BY <1>1, <1>3, <1>4, <1>5, <1>6 DEF Crediting, CreditNames

(* No other event credits anyone. *)
LEMMA OthersDoNot ==
  ASSUME NEW e \in EventType, NEW place, e.name \notin Crediting
  PROVE  /\ Len(Handler(e, place)) \in Nat
         /\ \A k \in 1 .. Len(Handler(e, place)) : Handler(e, place)[k].op # "upsert"
  <1> DEFINE ops == Handler(e, place)
             Harmless(o) == o.op # "upsert"
  <1>n. /\ e.name # "AssetApproved" /\ e.name # "Transferred" /\ e.name # "NewDeal"
        /\ e.name # "StandardTransferred" /\ e.name # "NewAsset"
    BY DEF Crediting, CreditNames
  <1>1. \/ CarbonAssetsHandler(e) = <<>>
        \/ \E a : CarbonAssetsHandler(e) = <<a>> /\ a = ProposalApproved(e.id)
        \/ \E a, b : /\ CarbonAssetsHandler(e) = <<a, b>>
                     /\ \/ \E c, key, doc : a = InsertDoc(c, key, doc) \/ a = UpdateDoc(c, key, doc)
                        \/ \E c, key : a = FindDoc(c, key)
                     /\ b = NewProposal(e.id) \/ b = ProposalApproved(e.id)
    BY <1>n, Zenon DEF CarbonAssetsHandler
  <1>2. \/ CarbonExchangeHandler(e, place) = <<>>
        \/ \E a, c, key, doc : CarbonExchangeHandler(e, place) = <<a>> /\ a = UpdateDoc(c, key, doc)
        \/ \E a, b, c, key, doc :
             /\ CarbonExchangeHandler(e, place) = <<a, b>>
             /\ a = FindDoc("carbonAssets", e.asset) /\ b = InsertDoc(c, key, doc)
    BY <1>n, Zenon DEF CarbonExchangeHandler
  <1>3. StandardAssetsHandler(e) = <<>>
    BY <1>n, Zenon DEF StandardAssetsHandler
  <1>4. ExpectedPallet # CarbonAssetsPallet
    BY DEF ExpectedPallet, CarbonAssetsPallet
  <1>5. \/ CarbonCommitteeHandler(e) = <<>>
        \/ \E a, given : CarbonCommitteeHandler(e) = <<a>> /\ a = UpdateByPid(e.pid, given)
    BY <1>4, Zenon DEF CarbonCommitteeHandler
  <1>6. Handler(e, place) \in {CarbonAssetsHandler(e), CarbonExchangeHandler(e, place),
                              StandardAssetsHandler(e), CarbonCommitteeHandler(e), <<>>}
    BY Zenon DEF Handler
  <1>7. \/ ops = <<>>
        \/ \E a : ops = <<a>> /\ Harmless(a)
        \/ \E a, b : ops = <<a, b>> /\ Harmless(a) /\ Harmless(b)
    <2>1. \A a, c, key, doc : a = InsertDoc(c, key, doc) \/ a = UpdateDoc(c, key, doc) => Harmless(a)
      BY OpFields
    <2>2. \A a, c, key : a = FindDoc(c, key) => Harmless(a)
      BY OpFields
    <2>3. \A a : a = NewProposal(e.id) \/ a = ProposalApproved(e.id) => Harmless(a)
      BY OpFields
    <2>4. \A a, given : a = UpdateByPid(e.pid, given) => Harmless(a)
      BY OpFields
    <2> HIDE DEF Harmless
    <2>5. \/ ops = <<>> \/ ops = CarbonAssetsHandler(e) \/ ops = CarbonExchangeHandler(e, place)
          \/ ops = CarbonCommitteeHandler(e)
      BY <1>3, <1>6
    <2> HIDE DEF ops
    <2>6. CASE ops = CarbonAssetsHandler(e)
      BY <1>1, <2>1, <2>2, <2>3, <2>6, Zenon
    <2>7. CASE ops = CarbonExchangeHandler(e, place)
      BY <1>2, <2>1, <2>2, <2>7, Zenon
    <2>8. CASE ops = CarbonCommitteeHandler(e)
      BY <1>5, <2>4, <2>8, Zenon
    <2> QED BY <2>5, <2>6, <2>7, <2>8
  <1> SUFFICES Len(ops) \in Nat /\ \A k \in 1 .. Len(ops) : ops[k].op # "upsert"
    OBVIOUS
  <1> HIDE DEF ops
  <1>8. CASE ops = <<>>
    BY <1>8
  <1>9. ASSUME NEW a, ops = <<a>>, Harmless(a)
        PROVE  Len(ops) \in Nat /\ \A k \in 1 .. Len(ops) : ops[k].op # "upsert"
    BY <1>9
  <1>10. ASSUME NEW a, NEW b, ops = <<a, b>>, Harmless(a), Harmless(b)
         PROVE  Len(ops) \in Nat /\ \A k \in 1 .. Len(ops) : ops[k].op # "upsert"
    BY <1>10
  <1> QED BY <1>7, <1>8, <1>9, <1>10

(* An upsert is the only operation that changes the list of balances. *)
LEMMA BalancesWritten ==
  ASSUME NEW o, NEW s, NEW e, NEW place, OpForms(o, s, e, place),
         NEW at \in DOMAIN db, at[1] = "potentialBalances"
  PROVE  \/ Applied(o)[at] = db[at]
         \/ o.op = "upsert" /\ at = o.at /\ Applied(o)[at] = o.doc
  <1>1. \/ o.op \in {"insert", "update", "append"} /\ o.at[1] # "potentialBalances"
        \/ o.op \in {"find", "updateByPid", "upsert"}
    <2> DEFINE Elsewhere == o.op \in {"insert", "update", "append"} /\ o.at[1] # "potentialBalances"
               Other == o.op \in {"find", "updateByPid", "upsert"}
    <2>1. \A c, key, doc : /\ c # "potentialBalances"
                           /\ o = InsertDoc(c, key, doc) \/ o = UpdateDoc(c, key, doc) \/ o = AppendDoc(c, key)
                           => Elsewhere
      <3> SUFFICES ASSUME NEW c, NEW key, NEW doc, c # "potentialBalances",
                          o = InsertDoc(c, key, doc) \/ o = UpdateDoc(c, key, doc) \/ o = AppendDoc(c, key)
                   PROVE  Elsewhere
        OBVIOUS
      <3>1. o.op \in {"insert", "update", "append"} /\ o.at = <<c, key>>
        BY OpFields
      <3> QED BY <3>1
    <2>2. \A key : o = NewProposal(key) \/ o = ProposalApproved(key) => Elsewhere
      <3> SUFFICES ASSUME NEW key, o = NewProposal(key) \/ o = ProposalApproved(key)
                   PROVE  Elsewhere
        OBVIOUS
      <3>1. o.op \in {"insert", "update"} /\ o.at = <<"carbonProposals", key>>
        BY OpFields
      <3> QED BY <3>1
    <2>3. \A c, key : o = FindDoc(c, key) => Other
      BY OpFields
    <2>4. \A a, b : o = PotentialBalance(a, b) \/ o = UpdateByPid(a, b) => Other
      BY OpFields
    <2>5. \A c \in {"carbonProjects", "carbonAssets"} : c # "potentialBalances"
      OBVIOUS
    <2> HIDE DEF Elsewhere, Other
    <2>6. Elsewhere \/ Other
      BY <2>1, <2>2, <2>3, <2>4, <2>5, Zenon DEF OpForms
    <2> QED BY <2>6 DEF Elsewhere, Other
  <1>2. ASSUME NEW doc PROVE Put(o.at, doc)[at] = IF at = o.at THEN doc ELSE db[at]
    BY DEF Put
  <1>3. CASE o.op = "insert" \/ o.op = "upsert"
    BY <1>1, <1>2, <1>3, AppliedInsert
  <1>4. CASE o.op = "update"
    BY <1>1, <1>2, <1>4, AppliedUpdate
  <1>5. CASE o.op = "append"
    BY <1>1, <1>2, <1>5, AppliedAppend
  <1>6. CASE o.op = "find"
    BY <1>6, AppliedFind
  <1>7. CASE o.op = "updateByPid"
    BY <1>7, AppliedByPid
  <1> QED BY <1>1, <1>3, <1>4, <1>5, <1>6, <1>7

(* An insert or an upsert leaves its document on record. *)
LEMMA PutsOnRecord ==
  ASSUME NEW o, o.op = "insert" \/ o.op = "upsert"
  PROVE  o.at \in DOMAIN Applied(o) /\ Applied(o)[o.at] = o.doc
  BY AppliedInsert DEF Put

LEMMA PlaceIs ==
  ASSUME TypeOK
  PROVE  \A p : p \in Places <=> /\ p = <<p[1], p[2]>>
                                 /\ p[1] \in 1 .. Len(chain)
                                 /\ p[2] \in 1 .. Len(chain[p[1]])
  BY DEF Places

(* Where a handler is at work. *)
LEMMA HandlerPlace ==
  ASSUME ListenerInv, Ranging, block <= to, event <= Len(Events)
  PROVE  /\ <<block, event>> \in Places
         /\ At(<<block, event>>) = Events[event]
         /\ Events[event] \in EventType
         /\ Len(Events) \in Nat
         /\ block \in Nat /\ event \in Nat \ {0} /\ step \in Nat \ {0} /\ to \in Nat
  <1>1. TypeOK /\ Len(chain) \in Nat
    BY ChainTypes DEF ListenerInv
  <1>2. block \in 1 .. Len(chain) /\ to \in Nat
    BY <1>1 DEF ListenerInv, PlaceOK, TypeOK, Ranging
  <1>3. Len(chain[block]) \in Nat
    BY <1>1, <1>2, ChainTypes
  <1>4. event \in 1 .. Len(chain[block]) /\ step \in Nat \ {0}
    BY <1>3 DEF Events, ListenerInv, PlaceOK, Ranging
  <1>5. chain[block][event] \in EventType
    BY <1>1, <1>2, <1>4, ChainTypes DEF EventType
  <1> QED BY <1>1, <1>2, <1>3, <1>4, <1>5, PlaceIs DEF Events, At

LEMMA CurrentSteps ==
  ASSUME ListenerInv, Ranging, block <= to, event <= Len(Events)
  PROVE  /\ Len(Ops) \in Nat
         /\ Events[event].name \in Crediting => OneCredit(Ops, Events[event])
         /\ \A k \in 1 .. Len(Ops) : Ops[k].op = "upsert" => Events[event].name \in Crediting
         /\ \A at : Creates(Events[event], at) => Len(Ops) >= 1 /\ Ops[1].op = "insert" /\ Ops[1].at = at
  <1> DEFINE e == Events[event]
  <1>1. e \in EventType
    BY HandlerPlace
  <1> HIDE DEF e
  <1>2. Ops = Handler(e, <<block, event>>)
    BY DEF Ops, e
  <1>3. e.name \in Crediting => OneCredit(Ops, e)
    BY <1>1, <1>2, CreditingCredits
  <1>4. e.name \notin Crediting => Len(Ops) \in Nat /\ \A k \in 1 .. Len(Ops) : Ops[k].op # "upsert"
    BY <1>1, <1>2, OthersDoNot
  <1>5. ASSUME NEW at, Creates(e, at)
        PROVE  Len(Ops) >= 1 /\ Ops[1].op = "insert" /\ Ops[1].at = at
    <2>1. ASSUME NEW c, NEW doc, NEW b, Ops = <<InsertDoc(c, e.id, doc), b>>, at = <<c, e.id>>
          PROVE  Len(Ops) >= 1 /\ Ops[1].op = "insert" /\ Ops[1].at = at
      <3>1. Len(Ops) = 2 /\ Ops[1] = InsertDoc(c, e.id, doc)
        BY <2>1
      <3>2. Ops[1].op = "insert" /\ Ops[1].at = <<c, e.id>>
        BY <3>1, OpFields
      <3> QED BY <2>1, <3>1, <3>2
    <2>2. CASE e.name = "AssetSubmited" /\ at = <<"carbonAssets", e.id>>
      <3>1. Ops = <<InsertDoc("carbonAssets", e.id, [approved |-> 0]), NewProposal(e.id)>>
        BY <1>1, <1>2, <2>2, CreditHandlers
      <3> QED BY <2>1, <2>2, <3>1
    <2>3. CASE e.name = "NewAsset" /\ at = <<"standardAssets", e.id>>
      <3>1. Ops = <<InsertDoc("standardAssets", e.id, [owner |-> e.who]), PotentialBalance(e.who, e.id)>>
        BY <1>1, <1>2, <2>3, CreditHandlers
      <3> QED BY <2>1, <2>3, <3>1
    <2> QED BY <1>5, <2>2, <2>3 DEF Creates
  <1>6. Len(Ops) \in Nat
    BY <1>3, <1>4 DEF OneCredit
  <1> QED BY <1>3, <1>4, <1>5, <1>6 DEF e

LEMMA ReachNext ==
  ASSUME ListenerInv, ReachInv, [Next]_vars
  PROVE  ReachInv'
  <1>t. /\ finalized \in Nat /\ phase \in Phases
        /\ file \in Int /\ last \in Int /\ latest \in Nat /\ to \in Nat /\ block \in Nat
        /\ latest <= finalized /\ to <= finalized
        /\ processed \subseteq 1 .. finalized
    <2>1. Len(chain) \in Nat
      BY ChainTypes DEF ListenerInv
    <2> QED BY <2>1 DEF ListenerInv, TypeOK, Empty
  <1> USE DEF ReachInv, Ranging, Empty
  <1>1. CASE Main
    BY <1>1, <1>t DEF Main, FirstBlock
  <1>2. CASE HandlerStep
    BY <1>2 DEF HandlerStep
  <1>3. CASE BlockDone
    BY <1>3, <1>t DEF BlockDone, Processing, ListenerInv, PlaceOK
  <1>4. CASE RangeDone
    BY <1>4, <1>t DEF RangeDone, EndOfRange, ListenerInv, PlaceOK
  <1>5. CASE Saved
    BY <1>5 DEF Saved
  <1>6. CASE WorkerWakes
    BY <1>6, <1>t DEF WorkerWakes, Behind, ListenerInv, CursorInv
  <1>7. CASE RpcFails
    BY <1>7, <1>t DEF RpcFails, Processing, ListenerInv, CursorInv
  <1>8. CASE Crash
    BY <1>8 DEF Crash
  <1>9. CASE Finalize \/ NewFinalizedHead \/ UNCHANGED vars
    <2>1. UNCHANGED <<phase, processed, to, last, block, file>>
      BY <1>9 DEF Finalize, NewFinalizedHead, vars, local
    <2> QED BY <2>1
  <1> QED BY <1>1, <1>2, <1>3, <1>4, <1>5, <1>6, <1>7, <1>8, <1>9 DEF Next, Work

(* A step of a handler, in terms of Ops. *)
LEMMA HandlerMoves ==
  ASSUME ListenerInv, DocsOK, HandlerStep
  PROVE  /\ UNCHANGED <<chain, finalized, file, phase, to, block, processed>>
         /\ Ranging /\ block <= to /\ event <= Len(Events)
         /\ \/ /\ db' = db /\ event' = event + 1 /\ step' = 1
               /\ step <= Len(Ops) => Throws(Ops[step])
            \/ /\ step <= Len(Ops) /\ ~Throws(Ops[step])
               /\ OpForms(Ops[step], step, Events[event], <<block, event>>)
               /\ db' = Applied(Ops[step])
               /\ DOMAIN db \subseteq DOMAIN db'
               /\ event' = event /\ step' = step + 1
  <1>1. /\ UNCHANGED <<chain, finalized, file, phase, to, block, processed>>
        /\ Ranging /\ block <= to /\ event <= Len(Events)
    BY DEF HandlerStep, Processing, Ranging
  <1>2. event \in Nat /\ step \in Nat
    BY DEF ListenerInv, PlaceOK
  <1>3. Due = Ops[step]
    BY DEF Due, Ops
  <1>4. \/ /\ db' = db /\ event' = event + 1 /\ step' = 1
           /\ step <= Len(Ops) => Throws(Ops[step])
        \/ /\ step <= Len(Ops) /\ ~Throws(Ops[step])
           /\ event' = event /\ step' = step + 1
    BY DEF HandlerStep, Ops
  <1>5. CASE /\ step <= Len(Ops) /\ ~Throws(Ops[step])
             /\ event' = event /\ step' = step + 1
    <2>1. /\ OpForms(Due, step, Events[event], <<block, event>>)
          /\ db' = Applied(Due) /\ Written(db', Due)
      BY <1>2, <1>5, HandlerWrites
    <2>2. DOMAIN db \subseteq DOMAIN db'
      BY <2>1 DEF Written
    <2> QED BY <1>1, <1>3, <1>5, <2>1, <2>2
  <1> QED BY <1>1, <1>4, <1>5

LEMMA StepsDoneNext ==
  ASSUME DocsInv, StepsDone, [Next]_vars
  PROVE  StepsDone'
  <1>1. ASSUME step' = 1 \/ ~Ranging' PROVE StepsDone'
    <2>1. \A k \in 1 .. Len(Ops') : ~(k < 1)
      OBVIOUS
    <2> QED BY <1>1, <2>1 DEF StepsDone
  <1>2. CASE HandlerStep
    <2>1. CASE step' = 1
      BY <1>1, <2>1
    <2>2. CASE /\ step <= Len(Ops) /\ ~Throws(Ops[step])
               /\ OpForms(Ops[step], step, Events[event], <<block, event>>)
               /\ db' = Applied(Ops[step])
               /\ DOMAIN db \subseteq DOMAIN db'
               /\ event' = event /\ step' = step + 1
      <3>0. Ranging /\ block <= to /\ event <= Len(Events) /\ UNCHANGED <<chain, block>>
        BY <1>2, HandlerMoves DEF DocsInv
      <3>1. Ops' = Ops
        BY <2>2, <3>0 DEF Ops, Events
      <3>2. step \in Nat \ {0} /\ Len(Ops) \in Nat
        BY <3>0, HandlerPlace, CurrentSteps DEF DocsInv
      <3>3. \A k \in 1 .. Len(Ops) : k < step =>
              /\ Ops[k].op \in {"find", "insert", "upsert"} => Ops[k].at \in DOMAIN db
              /\ Ops[k].op = "upsert" => db[Ops[k].at] = Ops[k].doc
        BY <3>0 DEF StepsDone
      <3> SUFFICES ASSUME NEW k \in 1 .. Len(Ops), k < step + 1
                   PROVE  /\ Ops[k].op \in {"find", "insert", "upsert"} => Ops[k].at \in DOMAIN db'
                          /\ Ops[k].op = "upsert" => db'[Ops[k].at] = Ops[k].doc
        BY <2>2, <3>1 DEF StepsDone
      <3>4. CASE k = step
        BY <2>2, <3>4, PutsOnRecord DEF Throws
      <3>5. CASE k < step
        <4>1. Ops[k].op \in {"find", "insert", "upsert"} => Ops[k].at \in DOMAIN db'
          BY <2>2, <3>3, <3>5
        <4>2. ASSUME Ops[k].op = "upsert" PROVE db'[Ops[k].at] = Ops[k].doc
          <5>1. OneCredit(Ops, Events[event])
            BY <3>0, <4>2, CurrentSteps DEF DocsInv
          <5>2. PICK u \in 1 .. Len(Ops) :
                  /\ Ops[u] = PotentialBalance(Events[event].who, AssetOf(Events[event]))
                  /\ \A j \in 1 .. Len(Ops) : Ops[j].op = "upsert" => j = u
            BY <5>1 DEF OneCredit
          <5>3. k = u /\ Ops[step].op # "upsert"
            BY <2>2, <3>2, <3>5, <4>2, <5>2
          <5>4. Ops[k].at[1] = "potentialBalances"
            <6>1. Ops[k].at = <<"potentialBalances",
                                <<Prefix[Events[event].who], Prefix[AssetOf(Events[event])]>>>>
              BY <5>2, <5>3, OpFields
            <6> QED BY <6>1
          <5>5. Ops[k].at \in DOMAIN db /\ db[Ops[k].at] = Ops[k].doc
            BY <3>3, <3>5, <4>2
          <5> QED BY <2>2, <5>3, <5>4, <5>5, BalancesWritten
        <4> QED BY <4>1, <4>2
      <3> QED BY <3>2, <3>4, <3>5
    <2> QED BY <1>2, <2>1, <2>2, HandlerMoves DEF DocsInv
  <1>3. CASE Finalize \/ NewFinalizedHead \/ UNCHANGED vars
    <2>1. UNCHANGED <<chain, phase, to, block, event, step, db>>
      BY <1>3 DEF Finalize, NewFinalizedHead, vars, local
    <2>2. Ops' = Ops /\ Events' = Events /\ Ranging' = Ranging
      BY <2>1 DEF Ops, Events, Ranging
    <2> QED BY <2>1, <2>2 DEF StepsDone
  <1>4. CASE Main \/ BlockDone \/ WorkerWakes
    BY <1>1, <1>4 DEF Main, BlockDone, WorkerWakes
  <1>5. CASE RangeDone \/ Saved \/ RpcFails \/ Crash
    BY <1>1, <1>5 DEF RangeDone, Saved, RpcFails, Crash, Ranging
  <1> QED BY <1>2, <1>3, <1>4, <1>5 DEF Next, Work

(* A step that handles no event adds nothing to what is done, and loses     *)
(* nothing of what is touched.                                              *)
LEMMA PlacesNext ==
  ASSUME ListenerInv, ReachInv, [Next]_vars, ~HandlerStep
  PROVE  db' = db /\ chain' = chain /\ Done' \subseteq Done /\ Firm' \subseteq Firm /\ Touched \subseteq Touched'
  <1>t. /\ finalized \in Nat /\ phase \in Phases /\ Len(chain) \in Nat
        /\ file \in Int /\ last \in Int /\ latest \in Nat /\ to \in Nat /\ block \in Nat
        /\ event \in Nat
        /\ latest <= finalized /\ to <= finalized /\ finalized <= Len(chain)
        /\ processed \subseteq 1 .. finalized
    <2>1. Len(chain) \in Nat
      BY ChainTypes DEF ListenerInv
    <2> QED BY <2>1 DEF ListenerInv, TypeOK, PlaceOK, Empty
  <1>0. db' = db /\ chain' = chain
    BY OnlyHandlersWrite DEF Next, Work, Finalize, NewFinalizedHead, Main, BlockDone, RangeDone, Saved,
           WorkerWakes, RpcFails, Crash, vars
  <1>p. /\ Places' = Places
        /\ \A p \in Places : p[1] \in Nat /\ p[2] \in Nat \ {0}
                             /\ p[1] \in 1 .. Len(chain) /\ p[2] \in 1 .. Len(chain[p[1]])
    <2>1. \A b \in 1 .. Len(chain) : Len(chain[b]) \in Nat
      BY ChainTypes DEF ListenerInv
    <2>2. Places' = Places
      BY <1>0 DEF Places
    <2>3. \A p \in Places : p[1] \in 1 .. Len(chain) /\ p[2] \in 1 .. Len(chain[p[1]])
      BY PlaceIs DEF ListenerInv
    <2> QED BY <1>t, <2>1, <2>2, <2>3
  <1> DEFINE Goal == Done' \subseteq Done /\ Firm' \subseteq Firm /\ Touched \subseteq Touched'
  <1> SUFFICES Goal
    BY <1>0
  <1> USE DEF Done, Firm, Touched, ToCome, Before, Ranging, Empty
  <1>1. CASE Main
    BY <1>1, <1>p, <1>t DEF Main, FirstBlock
  <1>3. CASE BlockDone
    <2>1. event > Len(chain[block]) /\ block <= to /\ Ranging
      BY <1>3 DEF BlockDone, Processing, Events
    <2>2. block \in 1 .. Len(chain)
      BY <1>t, <2>1 DEF ListenerInv, PlaceOK
    <2>3. Len(chain[block]) \in Nat
      BY <2>2, ChainTypes DEF ListenerInv
    <2>4. \A p \in Places : p[1] = block => p[2] < event
      BY <1>p, <1>t, <2>1, <2>3
    <2>5. /\ phase' = phase /\ processed' = processed \cup {block} /\ block' = block + 1
          /\ event' = 1 /\ to' = to /\ file' = file /\ finalized' = finalized
      BY <1>3 DEF BlockDone
    <2>6. Done' \subseteq Done
      BY <1>p, <1>t, <2>1, <2>4, <2>5
    <2>7. Firm' \subseteq Firm
      BY <1>p, <1>t, <2>1, <2>4, <2>5, <2>6
    <2>8. Touched \subseteq Touched'
      BY <1>p, <1>t, <2>1, <2>5
    <2> QED BY <2>6, <2>7, <2>8
  <1>4. CASE RangeDone
    BY <1>4, <1>p, <1>t DEF RangeDone, ReachInv, ListenerInv, PlaceOK
  <1>5. CASE Saved
    BY <1>5, <1>p DEF Saved
  <1>6. CASE WorkerWakes
    BY <1>6, <1>p, <1>t DEF WorkerWakes, Behind
  <1>7. CASE RpcFails
    BY <1>7, <1>p, <1>t DEF RpcFails, Processing, ReachInv, ListenerInv, CursorInv
  <1>8. CASE Crash
    BY <1>8, <1>p, <1>t DEF Crash, ReachInv, ListenerInv, CursorInv, PlaceOK, Phases
  <1>9. CASE Finalize \/ NewFinalizedHead \/ UNCHANGED vars
    <2>1. UNCHANGED <<phase, processed, to, block, event, file>> /\ (finalized' = finalized \/ finalized' = finalized + 1)
      BY <1>9 DEF Finalize, NewFinalizedHead, vars, local
    <2> QED BY <1>p, <1>t, <2>1
  <1> QED BY <1>1, <1>3, <1>4, <1>5, <1>6, <1>7, <1>8, <1>9 DEF Next, Work

(* A step of a handler adds at most the place it is at. *)
LEMMA PlacesHandled ==
  ASSUME ListenerInv, DocsOK, HandlerStep
  PROVE  LET here == <<block, event>> IN
         /\ Done' \subseteq Done \cup {here} /\ Firm' \subseteq Firm \cup {here}
         /\ event' = event => Done' = Done /\ Firm' = Firm
         /\ Touched' = Touched /\ here \in Touched
         /\ \A p \in Firm : Later(here, p)
  <1> DEFINE here == <<block, event>>
  <1>1. /\ UNCHANGED <<chain, finalized, file, phase, to, block, processed>>
        /\ Ranging /\ block <= to /\ event <= Len(Events)
        /\ event' = event \/ event' = event + 1
    BY HandlerMoves
  <1>2. here \in Places /\ block \in Nat /\ event \in Nat
    BY <1>1, HandlerPlace
  <1>3. /\ Places' = Places
        /\ \A p \in Places : p[1] \in Nat /\ p[2] \in Nat /\ p = <<p[1], p[2]>>
    <2>1. \A b \in 1 .. Len(chain) : Len(chain[b]) \in Nat
      BY ChainTypes DEF ListenerInv
    <2>2. Places' = Places
      BY <1>1 DEF Places
    <2>3. \A p \in Places : p = <<p[1], p[2]>> /\ p[1] \in 1 .. Len(chain) /\ p[2] \in 1 .. Len(chain[p[1]])
      BY PlaceIs DEF ListenerInv
    <2> QED BY <2>1, <2>2, <2>3
  <1>4. \A p \in Places : p[1] = block /\ p[2] = event => p = here
    BY <1>3
  <1> USE DEF Done, Firm, Touched, ToCome, Before, Ranging
  <1>5. Done' \subseteq Done \cup {here}
    BY <1>1, <1>2, <1>3, <1>4
  <1>6. Firm' \subseteq Firm \cup {here}
    BY <1>1, <1>2, <1>3, <1>4, <1>5
  <1>7. event' = event => Done' = Done /\ Firm' = Firm
    BY <1>1, <1>3
  <1>8. Touched' = Touched
    BY <1>1, <1>3
  <1>9. here \in Touched
    <2>1. here[1] = block /\ block >= block
      BY <1>2
    <2> QED BY <1>1, <1>2, <2>1
  <1>10. \A p \in Firm : Later(here, p)
    BY <1>1, <1>2, <1>3 DEF Later
  <1> QED BY <1>5, <1>6, <1>7, <1>8, <1>9, <1>10

LEMMA CreatedNext ==
  ASSUME DocsInv, ReachInv, StepsDone, CreatedInv, [Next]_vars
  PROVE  CreatedInv'
  <1>1. CASE ~HandlerStep
    <2>1. db' = db /\ chain' = chain /\ Done' \subseteq Done
      BY <1>1, PlacesNext DEF DocsInv
    <2> QED BY <2>1 DEF CreatedInv, At
  <1>2. CASE HandlerStep
    <2> DEFINE here == <<block, event>>
    <2>1. /\ Done' \subseteq Done \cup {here} /\ (event' = event => Done' = Done)
      BY <1>2, PlacesHandled DEF DocsInv
    <2>2. /\ chain' = chain /\ Ranging /\ block <= to /\ event <= Len(Events)
          /\ DOMAIN db \subseteq DOMAIN db'
      BY <1>2, HandlerMoves DEF DocsInv
    <2>3. /\ here \in Places /\ At(here) = Events[event] /\ step \in Nat \ {0} /\ event \in Nat
      BY <2>2, HandlerPlace DEF DocsInv
    <2> SUFFICES ASSUME NEW q \in Done', NEW at, Creates(At(q), at)
                 PROVE  at \in DOMAIN db'
      BY <2>2 DEF CreatedInv, At
    <2>4. CASE q \in Done
      BY <2>2, <2>4 DEF CreatedInv
    <2>5. CASE q = here /\ event' # event
      <3>1. db' = db /\ (step <= Len(Ops) => Throws(Ops[step]))
        BY <1>2, <2>5, HandlerMoves DEF DocsInv
      <3>2. Len(Ops) \in Nat /\ Len(Ops) >= 1 /\ Ops[1].op = "insert" /\ Ops[1].at = at
        BY <2>2, <2>3, <2>5, CurrentSteps DEF DocsInv
      <3>3. CASE step = 1
        BY <3>1, <3>2, <3>3 DEF Throws
      <3>4. CASE step # 1
        <4>1. 1 \in 1 .. Len(Ops) /\ 1 < step
          BY <2>3, <3>2, <3>4
        <4> QED BY <2>2, <3>1, <3>2, <4>1 DEF StepsDone
      <3> QED BY <3>3, <3>4
    <2> QED BY <2>1, <2>4, <2>5
  <1> QED BY <1>1, <1>2

LEMMA CreditsNext ==
  ASSUME CreditInv, [Next]_vars
  PROVE  CreditsKept'
  <1> USE DEF CreditInv
  <1> DEFINE Owed(p, q) ==
        At(p).name \in CreditNames /\ Later(p, q) /\ Creates(At(q), RecordOf(At(p)))
  <1>0. ASSUME chain' = chain PROVE \A p : At(p)' = At(p)
    BY <1>0 DEF At
  <1>1. CASE ~HandlerStep
    <2>1. db' = db /\ chain' = chain /\ Firm' \subseteq Firm /\ Touched \subseteq Touched'
      BY <1>1, PlacesNext DEF DocsInv
    <2> SUFFICES ASSUME NEW p \in Firm', NEW q \in Firm', Owed(p, q)
                 PROVE  IsListed(p)' \/ \E r \in Touched' : Hides(r, p)'
      BY <1>0, <2>1 DEF CreditsKept, BalanceAt
    <2>2. IsListed(p) \/ \E r \in Touched : Hides(r, p)
      BY <2>1 DEF CreditsKept
    <2>3. IsListed(p) => IsListed(p)'
      BY <1>0, <2>1 DEF IsListed, BalanceAt
    <2>4. \A r : Hides(r, p) => Hides(r, p)'
      BY <1>0, <2>1 DEF Hides, BalanceAt
    <2> QED BY <2>1, <2>2, <2>3, <2>4
  <1>2. CASE HandlerStep
    <2> DEFINE here == <<block, event>>
    <2>1. /\ Firm' \subseteq Firm \cup {here} /\ (event' = event => Firm' = Firm)
          /\ Touched' = Touched /\ here \in Touched
          /\ \A p \in Firm : Later(here, p)
      BY <1>2, PlacesHandled DEF DocsInv
    <2>2. /\ chain' = chain /\ Ranging /\ block <= to /\ event <= Len(Events)
          /\ DOMAIN db \subseteq DOMAIN db'
      BY <1>2, HandlerMoves DEF DocsInv
    <2>3. /\ At(here) = Events[event] /\ step \in Nat \ {0} /\ event \in Nat /\ block \in Nat
          /\ Len(Ops) \in Nat
      BY <2>2, HandlerPlace, CurrentSteps DEF DocsInv
    <2>4. \A p : At(p)' = At(p) /\ BalanceAt(At(p))' = BalanceAt(At(p))
      BY <1>0, <2>2 DEF BalanceAt
    <2>5. \A r, p : Hides(r, p) => Hides(r, p)'
      BY <2>2, <2>4 DEF Hides
    <2>6. \A p \in Firm : ~Later(p, here)
      <3> SUFFICES ASSUME NEW p \in Firm PROVE ~Later(p, here)
        OBVIOUS
      <3>1. p[1] \in Nat /\ p[2] \in Nat
        <4>1. p \in Places
          BY DEF Firm, Done
        <4>2. p[1] \in 1 .. Len(chain) /\ p[2] \in 1 .. Len(chain[p[1]])
          BY <4>1, PlaceIs DEF DocsInv, ListenerInv
        <4>3. Len(chain[p[1]]) \in Nat
          BY <4>2, ChainTypes DEF DocsInv, ListenerInv
        <4> QED BY <4>2, <4>3
      <3> QED BY <2>1, <2>3, <3>1 DEF Later
    <2>h. ~Later(here, here)
      BY <2>3 DEF Later
    <2> SUFFICES ASSUME NEW p \in Firm', NEW q \in Firm', Owed(p, q)
                 PROVE  IsListed(p)' \/ \E r \in Touched : Hides(r, p)'
      BY <2>1, <2>4 DEF CreditsKept
    <2>7. q \in Firm
      BY <2>1, <2>6, <2>h
    <2>8. CASE p \in Firm
      <3>1. IsListed(p) \/ \E r \in Touched : Hides(r, p)
        BY <2>7, <2>8 DEF CreditsKept
      <3>2. ASSUME IsListed(p), ~IsListed(p)'
            PROVE  \E r \in Touched : Hides(r, p)'
        <4>1. /\ step <= Len(Ops)
              /\ OpForms(Ops[step], step, Events[event], <<block, event>>)
              /\ db' = Applied(Ops[step])
          BY <1>2, <2>4, <3>2, HandlerMoves DEF DocsInv, IsListed
        <4>2. BalanceAt(At(p)) \in DOMAIN db /\ BalanceAt(At(p))[1] = "potentialBalances"
          BY <3>2 DEF IsListed, BalanceAt
        <4>3. Ops[step].op = "upsert" /\ Ops[step].at = BalanceAt(At(p))
          BY <2>2, <2>4, <3>2, <4>1, <4>2, BalancesWritten DEF IsListed
        <4>4. step \in 1 .. Len(Ops)
          BY <2>3, <4>1
        <4>5. Events[event].name \in Crediting /\ OneCredit(Ops, Events[event])
          BY <2>2, <4>3, <4>4, CurrentSteps DEF DocsInv
        <4>6. PICK u \in 1 .. Len(Ops) :
                /\ Ops[u] = PotentialBalance(Events[event].who, AssetOf(Events[event]))
                /\ \A k \in 1 .. Len(Ops) : Ops[k].op = "upsert" => k = u
                /\ \E k \in 1 .. u - 1 : Ops[k].op \in {"find", "insert"}
                                         /\ Ops[k].at = RecordOf(Events[event])
          BY <4>5 DEF OneCredit
        <4>7. u = step
          BY <4>3, <4>4, <4>6
        <4>8. Ops[step].at = BalanceAt(Events[event])
          BY <4>6, <4>7, OpFields DEF BalanceAt
        <4>9. RecordOf(Events[event]) \in DOMAIN db
          <5>1. PICK k \in 1 .. step - 1 : Ops[k].op \in {"find", "insert"}
                                           /\ Ops[k].at = RecordOf(Events[event])
            BY <4>6, <4>7
          <5>2. k \in 1 .. Len(Ops) /\ k < step
            BY <2>3, <4>4
          <5> QED BY <2>2, <5>1, <5>2 DEF StepsDone
        <4>10. PICK r : r = here
          OBVIOUS
        <4>11. /\ r \in Touched /\ Later(r, p)
               /\ At(r).name \in Crediting /\ RecordOf(At(r)) \in DOMAIN db'
               /\ BalanceAt(At(r)) = BalanceAt(At(p))
          BY <2>1, <2>2, <2>3, <2>8, <4>3, <4>5, <4>8, <4>9, <4>10
        <4> QED BY <2>4, <4>11 DEF Hides
      <3> QED BY <2>1, <2>5, <3>1, <3>2
    <2>9. CASE p = here /\ event' # event
      <3>1. db' = db /\ (step <= Len(Ops) => Throws(Ops[step]))
        BY <1>2, <2>9, HandlerMoves DEF DocsInv
      <3>2. RecordOf(At(here)) \in DOMAIN db
        BY <2>7, <2>9 DEF CreatedInv, Firm
      <3>3. Events[event].name \in Crediting /\ Events[event].name # "NewAsset"
        BY <2>3, <2>9 DEF Crediting, CreditNames
      <3>4. OneCredit(Ops, Events[event])
        BY <2>2, <3>3, CurrentSteps DEF DocsInv
      <3>5. ~(step <= Len(Ops))
        <4> SUFFICES ASSUME step <= Len(Ops) PROVE FALSE
          OBVIOUS
        <4>1. step \in 1 .. Len(Ops) /\ Throws(Ops[step])
          BY <2>3, <3>1
        <4>2. Ops[step].op # "insert"
          BY <3>3, <3>4, <4>1 DEF OneCredit
        <4>3. Ops[step].op = "find" => Ops[step].at \in DOMAIN db
          BY <2>3, <3>2, <3>4, <4>1 DEF OneCredit
        <4> QED BY <4>1, <4>2, <4>3 DEF Throws
      <3>6. PICK u \in 1 .. Len(Ops) :
              Ops[u] = PotentialBalance(Events[event].who, AssetOf(Events[event]))
        BY <3>4 DEF OneCredit
      <3>7. u < step
        BY <2>3, <3>5
      <3>8. /\ Ops[u].op = "upsert" /\ Ops[u].at = BalanceAt(Events[event])
            /\ Ops[u].doc = [account |-> Events[event].who, asset |-> AssetOf(Events[event])]
        BY <3>6, OpFields DEF BalanceAt
      <3>9. Ops[u].at \in DOMAIN db /\ db[Ops[u].at] = Ops[u].doc
        BY <2>2, <3>7, <3>8 DEF StepsDone
      <3>10. IsListed(here)
        BY <2>3, <3>8, <3>9 DEF IsListed
      <3> QED BY <2>4, <2>9, <3>1, <3>10 DEF IsListed
    <2> QED BY <2>1, <2>8, <2>9
  <1> QED BY <1>1, <1>2

(* On any chain and after any number of crashes: a credit in an asset that  *)
(* was on record before it is in the list of potentialBalances, or a later  *)
(* credit has the same prefixes.                                            *)
THEOREM LatestCreditCorrect == Spec => []LatestCreditListed
  <1>1. Init => CreditInv
    <2> SUFFICES ASSUME Init PROVE CreditInv
      OBVIOUS
    <2>1. processed = {} /\ phase = "down"
      BY DEF Init
    <2>2. Done = {} /\ Firm = {} /\ ~Ranging
      BY <2>1 DEF Done, Firm, Ranging
    <2>3. ReachInv /\ StepsDone /\ CreatedInv /\ CreditsKept
      BY <2>1, <2>2 DEF ReachInv, StepsDone, CreatedInv, CreditsKept
    <2> QED BY <2>3, DocsInit DEF CreditInv
  <1>2. CreditInv /\ [Next]_vars => CreditInv'
    BY DocsStep, ReachNext, StepsDoneNext, CreatedNext, CreditsNext DEF CreditInv, DocsInv
  <1>3. CreditInv => LatestCreditListed
    <2> SUFFICES ASSUME CreditInv, phase = "idle", NEW p \in Handled, NEW q \in Handled,
                        At(p).name \in CreditNames, Later(p, q), Creates(At(q), RecordOf(At(p)))
                 PROVE  IsListed(p) \/ \E r \in Handled : Hides(r, p)
      BY DEF LatestCreditListed, IsListed, Hides, Crediting
    <2>1. processed \subseteq 1 .. Len(chain)
      <3>1. Len(chain) \in Nat
        BY ChainTypes DEF CreditInv, DocsInv, ListenerInv
      <3> QED BY <3>1 DEF CreditInv, DocsInv, ListenerInv, TypeOK
    <2>2. Handled = {r \in Places : r[1] \in processed}
      BY <2>1 DEF Handled, Places
    <2>3. Firm = Handled /\ Touched = Handled
      BY <2>2 DEF Firm, Done, Touched, ToCome, Ranging
    <2> QED BY <2>3 DEF CreditInv, CreditsKept
  <1> QED BY <1>1, <1>2, <1>3, PTL DEF Spec
-----------------------------------------------------------------------------
(* The HTTP server shares the listener's process, but only reads: to the    *)
(* listener a served request is a stutter, and every theorem above holds    *)
(* with the server running.                                                 *)
LEMMA ServerReads ==
  ASSUME [ServerNext]_allVars
  PROVE  [Next]_vars
  BY DEF ServerNext, allVars, Next, CrashServing, Receive, Await, Reply, Fail

THEOREM ServerLeavesListener == ServerSpec => Spec
  <1>1. ServerInit => Init
    BY DEF ServerInit
  <1>2. [ServerNext]_allVars => [Next]_vars
    BY ServerReads
  <1> QED BY <1>1, <1>2, PTL DEF ServerSpec, Spec
-----------------------------------------------------------------------------
(* The documents that nedb counts among the records found in a database d. *)
Documents(d, found) ==
  UNION {{at} \X (1 .. (IF at[1] \in Counted THEN d[at].n ELSE 1)) : at \in found}
Size(d, found) == Cardinality(Documents(d, found))

(* A database that holds a finite number of documents, and one that another *)
(* may have grown into.                                                     *)
Countable(d, bound) ==
  /\ IsFiniteSet(DOMAIN d)
  /\ bound \in Nat \ {0}
  /\ \A at \in DOMAIN d : at[1] \in Counted => d[at].n \in Nat /\ d[at].n <= bound
GrowsInto(d, e) ==
  /\ DOMAIN d \subseteq DOMAIN e
  /\ \A at \in DOMAIN d : at[1] \in Counted => d[at].n <= e[at].n

LEMMA DocumentsFinite ==
  ASSUME NEW d, NEW bound, Countable(d, bound), NEW found, found \subseteq DOMAIN d
  PROVE  IsFiniteSet(Documents(d, found)) /\ Size(d, found) \in Nat
  <1> DEFINE All == (DOMAIN d) \X (1 .. bound)
  <1>1. IsFiniteSet(1 .. bound) /\ IsFiniteSet(DOMAIN d)
    BY FS_Interval DEF Countable
  <1>2. IsFiniteSet(All)
    BY <1>1, FS_Product, Zenon
  <1>3. Documents(d, found) \subseteq All
    <2> SUFFICES ASSUME NEW at \in found,
                        NEW i \in 1 .. (IF at[1] \in Counted THEN d[at].n ELSE 1)
                 PROVE  <<at, i>> \in All
      BY DEF Documents
    <2>1. i \in 1 .. bound
      BY DEF Countable
    <2> QED BY <2>1
  <1> HIDE DEF All
  <1>4. IsFiniteSet(Documents(d, found))
    BY <1>2, <1>3, FS_Subset
  <1> QED BY <1>4, FS_CardinalityType DEF Size

(* A database that has grown has no fewer documents in a wider selection. *)
LEMMA MoreDocuments ==
  ASSUME NEW d, NEW e, NEW b, NEW c, Countable(d, b), Countable(e, c), GrowsInto(d, e),
         NEW found, NEW more, found \subseteq DOMAIN d, found \subseteq more, more \subseteq DOMAIN e
  PROVE  Size(d, found) <= Size(e, more)
  <1>1. Documents(d, found) \subseteq Documents(e, more)
    <2> SUFFICES ASSUME NEW at \in found,
                        NEW i \in 1 .. (IF at[1] \in Counted THEN d[at].n ELSE 1)
                 PROVE  i \in 1 .. (IF at[1] \in Counted THEN e[at].n ELSE 1)
      BY DEF Documents
    <2>1. CASE at[1] \in Counted
      <3>1. d[at].n \in Nat /\ e[at].n \in Nat /\ d[at].n <= e[at].n
        BY <2>1 DEF Countable, GrowsInto
      <3> QED BY <2>1, <3>1
    <2>2. CASE at[1] \notin Counted
      BY <2>2
    <2> QED BY <2>1, <2>2
  <1>2. IsFiniteSet(Documents(e, more))
    BY DocumentsFinite
  <1> QED BY <1>1, <1>2, FS_Subset DEF Size

(* Two selections that share no record are counted one by one. *)
LEMMA DocumentsApart ==
  ASSUME NEW d, NEW b, Countable(d, b), NEW found, NEW more,
         found \subseteq DOMAIN d, more \subseteq DOMAIN d, found \cap more = {}
  PROVE  Size(d, found \cup more) = Size(d, found) + Size(d, more)
  <1>1. IsFiniteSet(Documents(d, found)) /\ IsFiniteSet(Documents(d, more))
    BY DocumentsFinite
  <1>2. Size(d, found) \in Nat /\ Size(d, more) \in Nat
    BY DocumentsFinite
  <1>3. Documents(d, found \cup more) = Documents(d, found) \cup Documents(d, more)
    BY DEF Documents
  <1>4. Documents(d, found) \cap Documents(d, more) = {}
    BY DEF Documents
  <1>5. Cardinality(Documents(d, found) \cap Documents(d, more)) = 0
    BY <1>4, FS_EmptySet
  <1> DEFINE A == Documents(d, found)
             B == Documents(d, more)
  <1>6. Cardinality(A \cup B) = Cardinality(A) + Cardinality(B) - Cardinality(A \cap B)
    <2> HIDE DEF A, B
    <2>1. \A S, T : IsFiniteSet(S) /\ IsFiniteSet(T) =>
            Cardinality(S \cup T) = Cardinality(S) + Cardinality(T) - Cardinality(S \cap T)
      BY FS_Union
    <2>2. IsFiniteSet(A) /\ IsFiniteSet(B)
      BY <1>1 DEF A, B
    <2> QED BY <2>1, <2>2
  <1>7. Size(d, found \cup more) = Cardinality(A \cup B)
    BY <1>3, Zenon DEF Size
  <1>8. Size(d, found) = Cardinality(A) /\ Size(d, more) = Cardinality(B)
    BY DEF Size
  <1>9. Cardinality(A \cap B) = 0
    BY <1>5
  <1> HIDE DEF A, B
  <1> QED BY <1>2, <1>6, <1>7, <1>8, <1>9
-----------------------------------------------------------------------------
(* The records that a request selects, and the proposals by their state. *)
Selected(d, r) == {at \in DOMAIN d : at[1] = Route(r).from /\ Matches(r, d[at])}
Proposals(d) == {at \in DOMAIN d : at[1] = "carbonProposals"}
InState(d, s) == {at \in Proposals(d) : d[at].state = s}

StoreInv == DocsInv /\ DealsInv /\ IsFiniteSet(DOMAIN db)

(* What the reads made so far have returned, against what the database      *)
(* holds now: the names answered are the first ones of Awaits; matches that *)
(* last have not become fewer than were counted; and a proposal that was on *)
(* record at the first read was counted as pending, or is closed by now.    *)
Asked(r, n) == {Awaits(r)[i] : i \in 1 .. n}
AnswersInv ==
  /\ request \in Requests \cup {NoRequest}
  /\ IsFiniteSet(DOMAIN answers)
  /\ request = NoRequest => DOMAIN answers = {}
  /\ request # NoRequest =>
       /\ Cardinality(DOMAIN answers) <= Len(Awaits(request))
       /\ DOMAIN answers = Asked(request, Cardinality(DOMAIN answers))
CountInv ==
  ("count" \in DOMAIN answers /\ Lasting(request)) =>
    /\ answers["count"] \in Nat /\ answers["count"] <= CountMatching(request)
    /\ ("docs" \in DOMAIN answers /\ Offset(request) >= 0) =>
         answers["docs"] >= PageOf(request, answers["count"])
StatsInv ==
  request.route = "carbon_proposals" =>
    /\ \A s \in {"pending", "voting", "closed"} \cap DOMAIN answers :
         /\ answers[s] \in Nat /\ answers[s] <= CountAll
         /\ "total" \in DOMAIN answers => answers["total"] \in Nat /\ answers[s] <= answers["total"]
    /\ "pending" \in DOMAIN answers =>
         /\ listed \in Nat /\ listed <= answers["pending"] + CountState(2)
         /\ "closed" \in DOMAIN answers => listed <= answers["pending"] + answers["closed"]
ServerInv == StoreInv /\ AnswersInv /\ CountInv /\ StatsInv

(* The server's counts, as sizes of selections. *)
LEMMA CountsAre ==
  ASSUME NEW r
  PROVE  /\ CountMatching(r) = Size(db, Selected(db, r))
         /\ CountAll = Size(db, Proposals(db))
         /\ \A s : CountState(s) = Size(db, InState(db, s))
  <1>1. \A found : CountDocs(found) = Size(db, found)
    BY Zenon DEF CountDocs, Size, Documents, Copies, Counted
  <1>2. {at \in In(Route(r).from) : Matches(r, db[at])} = Selected(db, r)
    BY DEF In, Selected
  <1>3. In("carbonProposals") = Proposals(db)
    BY DEF In, Proposals
  <1> QED BY <1>1, <1>2, <1>3, Zenon DEF CountMatching, CountAll, CountState, InState

LEMMA StoreCountable ==
  ASSUME StoreInv
  PROVE  Countable(db, crashes + 1)
  <1>1. crashes \in Nat
    BY DEF StoreInv, DocsInv, ListenerInv, PlaceOK
  <1>2. \A at \in DOMAIN db : at[1] \in Counted => db[at].n \in Nat /\ db[at].n <= crashes + 1
    BY Zenon DEF StoreInv, DocsInv, DocsOK, DocOK, DealsInv
  <1>3. crashes + 1 \in Nat \ {0}
    BY <1>1
  <1> QED BY <1>2, <1>3, Zenon DEF StoreInv, Countable

(* What a step of the listener makes of the database as a whole. *)
LEMMA StoreNext ==
  ASSUME StoreInv, [Next]_vars
  PROVE  /\ StoreInv' /\ GrowsInto(db, db')
         /\ \A at \in DOMAIN db :
              DocOK(at[1], db[at]) /\ DocOK(at[1], db'[at]) /\ Advances(at[1], db[at], db'[at])
  <1>1. DocsInv' /\ DealsInv'
    BY DocsStep, DealsNext DEF StoreInv
  <1>2. \A at \in DOMAIN db : DocOK(at[1], db[at])
    BY DEF StoreInv, DocsInv, DocsOK
  <1>3. \A at \in DOMAIN db : at[1] \in Counted => db[at].n \in Nat
    BY <1>2 DEF DocOK
  <1>4. CASE db' = db
    <2>1. IsFiniteSet(DOMAIN db')
      BY <1>4 DEF StoreInv
    <2>2. GrowsInto(db, db')
      BY <1>3, <1>4 DEF GrowsInto
    <2> QED BY <1>1, <1>2, <1>4, <2>1, <2>2, AdvancesReflexive DEF StoreInv
  <1>5. CASE Written(db', Due)
    <2>1. IsFiniteSet(DOMAIN db')
      <3>1. IsFiniteSet(DOMAIN db \cup {Due.at})
        BY FS_AddElement DEF StoreInv
      <3>2. DOMAIN db' \subseteq DOMAIN db \cup {Due.at}
        BY <1>5 DEF Written
      <3> QED BY <3>1, <3>2, FS_Subset
    <2>2. GrowsInto(db, db')
      <3> SUFFICES ASSUME NEW at \in DOMAIN db, at[1] \in Counted PROVE db[at].n <= db'[at].n
        BY <1>5 DEF GrowsInto, Written
      <3>1. db[at].n \in Nat
        BY <1>3
      <3>2. db'[at] = db[at] \/ db'[at].n = db[at].n + 1
        BY <1>5 DEF Written
      <3> QED BY <3>1, <3>2
    <2> QED BY <1>1, <1>2, <1>5, <2>1, <2>2 DEF StoreInv, Written
  <1>6. HandlerStep => db' = db \/ Written(db', Due)
    BY HandlerWrites DEF StoreInv, DocsInv
  <1> QED BY <1>4, <1>5, <1>6, OnlyHandlersWrite

(* The collection and the field of a route. *)
LEMMA RouteIs ==
  ASSUME NEW r, r.route \in Routes
  PROVE  \/ Route(r).field = "none"
         \/ Route(r).field = "state" /\ Route(r).from = "carbonProposals"
         \/ Route(r).field = "approved" /\ Route(r).from \in {"carbonProjects", "carbonAssets"}
         \/ Route(r).field = "closed" /\ Route(r).from = "orders"
  <1>1. CASE r.route = "carbon_projects"
    <2>1. Route(r) = [from |-> "carbonProjects", field |-> "approved", default |-> 1]
      BY <1>1, Zenon DEF Route
    <2> QED BY <2>1
  <1>2. CASE r.route = "carbon_assets"
    <2>1. Route(r) = [from |-> "carbonAssets", field |-> "approved", default |-> 1]
      BY <1>2, "carbon_assets" # "carbon_projects", Zenon DEF Route
    <2> QED BY <2>1
  <1>3. CASE r.route = "carbon_proposals"
    <2>1. Route(r) = [from |-> "carbonProposals", field |-> "state", default |-> 0]
      BY <1>3, "carbon_proposals" # "carbon_projects", "carbon_proposals" # "carbon_assets", Zenon
         DEF Route
    <2> QED BY <2>1
  <1>4. CASE r.route = "carbon_orders"
    <2>1. Route(r) = [from |-> "orders", field |-> "closed", default |-> 0]
      BY <1>4, "carbon_orders" # "carbon_projects", "carbon_orders" # "carbon_assets",
         "carbon_orders" # "carbon_proposals", Zenon DEF Route
    <2> QED BY <2>1
  <1>5. CASE r.route \in {"carbon_deals", "standard_assets", "potential_balances"}
    <2>1. /\ r.route # "carbon_projects" /\ r.route # "carbon_assets"
          /\ r.route # "carbon_proposals" /\ r.route # "carbon_orders"
      BY <1>5
    <2>2. \E c : Route(r) = [from |-> c, field |-> "none", default |-> 0]
      BY <1>5, <2>1, "standard_assets" # "carbon_deals", "potential_balances" # "carbon_deals",
         "potential_balances" # "standard_assets", Zenon DEF Route
    <2> QED BY <2>2
  <1> QED BY <1>1, <1>2, <1>3, <1>4, <1>5 DEF Routes

(* What a filter that lasts selects, it selects in every later database. *)
LEMMA SelectionLasts ==
  ASSUME NEW r, r.route \in Routes, Lasting(r), NEW d, NEW e, DOMAIN d \subseteq DOMAIN e,
         \A at \in DOMAIN d :
           DocOK(at[1], d[at]) /\ DocOK(at[1], e[at]) /\ Advances(at[1], d[at], e[at])
  PROVE  Selected(d, r) \subseteq Selected(e, r)
  <1> SUFFICES ASSUME NEW at \in DOMAIN d, at[1] = Route(r).from, Matches(r, d[at])
               PROVE  Matches(r, e[at])
    BY DEF Selected
  <1>1. DocOK(at[1], d[at]) /\ DocOK(at[1], e[at]) /\ Advances(at[1], d[at], e[at])
    OBVIOUS
  <1>2. CASE Unfiltered(r)
    BY <1>2 DEF Matches
  <1>3. CASE Route(r).field = "state" /\ Wanted(r) = 2 /\ ~Unfiltered(r)
    <2>1. at[1] = "carbonProposals"
      BY <1>3, RouteIs
    <2>2. d[at].state = 2
      BY <1>3 DEF Matches
    <2>3. e[at].state \in {0, 2} /\ e[at].state >= d[at].state
      BY <1>1, <2>1, Zenon DEF DocOK, Advances
    <2>4. e[at].state = 2
      BY <2>2, <2>3
    <2> QED BY <1>3, <2>4 DEF Matches
  <1>4. CASE Route(r).field = "approved" /\ Wanted(r) = 1 /\ ~Unfiltered(r)
    <2>1. at[1] \in {"carbonProjects", "carbonAssets"}
      BY <1>4, RouteIs
    <2>2. d[at].approved = 1
      BY <1>4 DEF Matches
    <2>3. e[at].approved \in {0, 1} /\ e[at].approved >= d[at].approved
      BY <1>1, <2>1, Zenon DEF DocOK, Advances
    <2>4. e[at].approved = 1
      BY <2>2, <2>3
    <2> QED BY <1>4, <2>4 DEF Matches
  <1>5. CASE Route(r).field = "closed" /\ Wanted(r) = 1 /\ ~Unfiltered(r)
    <2>1. at[1] = "orders"
      BY <1>5, RouteIs
    <2>2. d[at].closed = 1
      BY <1>5 DEF Matches
    <2>3. e[at].closed \in {0, 1} /\ e[at].closed >= d[at].closed
      BY <1>1, <2>1, Zenon DEF DocOK, Advances
    <2>4. e[at].closed = 1
      BY <2>2, <2>3
    <2> QED BY <1>5, <2>4 DEF Matches
  <1> QED BY <1>2, <1>3, <1>4, <1>5 DEF Lasting

(* The same of the counts that the request in flight would read now, and of *)
(* those after a step.                                                      *)
Sizes ==
  /\ CountMatching(request) = Size(db, Selected(db, request))
  /\ CountAll = Size(db, Proposals(db))
  /\ CountState(2) = Size(db, InState(db, 2))
LEMMA SizesNow == Sizes
  BY CountsAre DEF Sizes
LEMMA SizesThen == Sizes'
  BY SizesNow, PTL

(* Every proposal is pending or closed: by DocsOK none is in state 1. *)
LEMMA CountsNow ==
  ASSUME StoreInv, NEW r
  PROVE  /\ CountMatching(r) \in Nat /\ CountAll \in Nat
         /\ \A s : CountState(s) \in Nat /\ CountState(s) <= CountAll
         /\ CountAll = CountState(0) + CountState(2)
  <1>1. Countable(db, crashes + 1)
    BY StoreCountable
  <1>2. Size(db, Selected(db, r)) \in Nat /\ Size(db, Proposals(db)) \in Nat
    BY <1>1, DocumentsFinite DEF Selected, Proposals
  <1>3. ASSUME NEW s PROVE Size(db, InState(db, s)) \in Nat
    <2>1. InState(db, s) \subseteq DOMAIN db
      BY DEF InState, Proposals
    <2> QED BY <1>1, <2>1, DocumentsFinite
  <1>4. ASSUME NEW s PROVE Size(db, InState(db, s)) <= Size(db, Proposals(db))
    <2>1. InState(db, s) \subseteq Proposals(db) /\ Proposals(db) \subseteq DOMAIN db
      BY DEF InState, Proposals
    <2>2. GrowsInto(db, db)
      BY <1>1 DEF GrowsInto, Countable
    <2> QED BY <1>1, <2>1, <2>2, MoreDocuments
  <1>5. Size(db, Proposals(db)) = Size(db, InState(db, 0)) + Size(db, InState(db, 2))
    <2>1. \A at \in Proposals(db) : db[at].state \in {0, 2}
      BY Zenon DEF StoreInv, DocsInv, DocsOK, DocOK, Proposals
    <2>2. /\ Proposals(db) = InState(db, 0) \cup InState(db, 2)
          /\ InState(db, 0) \cap InState(db, 2) = {}
          /\ InState(db, 0) \subseteq DOMAIN db /\ InState(db, 2) \subseteq DOMAIN db
      BY <2>1 DEF InState, Proposals
    <2>3. Size(db, InState(db, 0) \cup InState(db, 2))
            = Size(db, InState(db, 0)) + Size(db, InState(db, 2))
      BY <1>1, <2>2, DocumentsApart
    <2> QED BY <2>2, <2>3, Zenon
  <1> QED BY <1>2, <1>3, <1>4, <1>5, CountsAre

LEMMA CountsNatural ==
  StoreInv => CountMatching(request) \in Nat /\ CountAll \in Nat /\ CountState(2) \in Nat
  BY CountsNow
LEMMA CountsThen ==
  StoreInv' => (CountMatching(request) \in Nat /\ CountAll \in Nat /\ CountState(2) \in Nat)'
  BY CountsNatural, PTL

(* No count that lasts becomes smaller. *)
LEMMA CountsGrow ==
  ASSUME StoreInv, [Next]_vars, request.route \in Routes, request' = request
  PROVE  /\ Lasting(request) => CountMatching(request) <= CountMatching(request)'
         /\ CountAll <= CountAll' /\ CountState(2) <= CountState(2)'
  <1> DEFINE Growth(sel, more) == sel \subseteq DOMAIN db /\ sel \subseteq more /\ more \subseteq DOMAIN db'
  <1>1. Countable(db, crashes + 1)
    BY StoreCountable
  <1>2. /\ StoreInv' /\ GrowsInto(db, db')
        /\ \A at \in DOMAIN db :
             DocOK(at[1], db[at]) /\ DocOK(at[1], db'[at]) /\ Advances(at[1], db[at], db'[at])
    BY StoreNext
  <1>3. \E c : Countable(db', c)
    <2>1. StoreInv' => Countable(db, crashes + 1)'
      BY StoreCountable, PTL
    <2> QED BY <1>2, <2>1
  <1>4. ASSUME NEW sel, NEW more, Growth(sel, more) PROVE Size(db, sel) <= Size(db', more)
    BY <1>1, <1>2, <1>3, <1>4, MoreDocuments
  <1>5. DOMAIN db \subseteq DOMAIN db'
    BY <1>2 DEF GrowsInto
  <1>6. Growth(Proposals(db), Proposals(db'))
    BY <1>5 DEF Proposals
  <1>7. Growth(InState(db, 2), InState(db', 2))
    <2> SUFFICES ASSUME NEW at \in DOMAIN db, at[1] = "carbonProposals", db[at].state = 2
                 PROVE  db'[at].state = 2
      BY <1>5 DEF InState, Proposals
    <2>1. db'[at].state \in {0, 2} /\ db'[at].state >= db[at].state
      BY <1>2, Zenon DEF DocOK, Advances
    <2> QED BY <2>1
  <1>8. ASSUME Lasting(request) PROVE Growth(Selected(db, request), Selected(db', request))
    <2>1. Selected(db, request) \subseteq Selected(db', request)
      BY <1>2, <1>5, <1>8, SelectionLasts
    <2> QED BY <2>1 DEF Selected
  <1> HIDE DEF Growth
  <1>9. Lasting(request) => Size(db, Selected(db, request)) <= Size(db', Selected(db', request))
    BY <1>4, <1>8
  <1>10. /\ Size(db, Proposals(db)) <= Size(db', Proposals(db'))
         /\ Size(db, InState(db, 2)) <= Size(db', InState(db', 2))
    BY <1>4, <1>6, <1>7
  <1> QED BY <1>9, <1>10, SizesNow, SizesThen DEF Sizes

(* What the parameters of a request count for. *)
LEMMA ParametersParse ==
  ASSUME NEW r \in Requests
  PROVE  Offset(r) \in Int /\ ParseIntOr(r.limit, LIMIT) \in Int
  <1>1. r.offset \in Parameters /\ r.limit \in Parameters
    BY RequestAssumption
  <1>2. \A p \in Parameters : p[2] \in Int
    BY DEF Parameters
  <1> QED BY <1>1, <1>2 DEF Offset, ParseIntOr, LIMIT

LEMMA PageType ==
  ASSUME NEW r \in Requests, NEW n \in Int
  PROVE  PageOf(r, n) \in Int
  <1>1. Offset(r) \in Int /\ ParseIntOr(r.limit, LIMIT) \in Int
    BY ParametersParse
  <1>2. \A o, l \in Int : PageLength(n, o, l) \in Int
    BY DEF PageLength, Position
  <1> QED BY <1>1, <1>2 DEF PageOf

(* A page of more documents is not shorter, for every offset from the start *)
(* and every limit, negative ones included.                                 *)
LEMMA PageGrows ==
  ASSUME NEW r \in Requests, Offset(r) >= 0, NEW m \in Nat, NEW n \in Nat, m <= n
  PROVE  PageOf(r, m) <= PageOf(r, n)
  <1>1. Offset(r) \in Nat /\ ParseIntOr(r.limit, LIMIT) \in Int
    BY ParametersParse
  <1>2. \A o \in Nat, l \in Int : PageLength(m, o, l) <= PageLength(n, o, l)
    BY DEF PageLength, Position
  <1> QED BY <1>1, <1>2 DEF PageOf
-----------------------------------------------------------------------------
(* The next read of a request, by the answers it has. *)
NextRead(r, answered, what) ==
  \/ r.route = "carbon_proposals" /\
       \/ answered = {} /\ what = "pending"
       \/ answered = {"pending"} /\ what = "voting"
       \/ answered = {"pending", "voting"} /\ what = "closed"
       \/ answered = {"pending", "voting", "closed"} /\ what = "total"
       \/ answered = {"pending", "voting", "closed", "total"} /\ what = "count"
       \/ answered = {"pending", "voting", "closed", "total", "count"} /\ what = "docs"
  \/ r.route = "potential_balances" /\ answered = {} /\ what = "docs"
  \/ r.route \notin {"carbon_proposals", "potential_balances"} /\
       \/ answered = {} /\ what = "count"
       \/ answered = {"count"} /\ what = "docs"

LEMMA AwaitsIs ==
  ASSUME NEW r
  PROVE  \/ /\ r.route = "carbon_proposals"
            /\ Awaits(r) = <<"pending", "voting", "closed", "total", "count", "docs">>
         \/ r.route = "potential_balances" /\ Awaits(r) = <<"docs">>
         \/ /\ r.route \notin {"carbon_proposals", "potential_balances"}
            /\ Awaits(r) = <<"count", "docs">>
  <1>1. CASE r.route = "carbon_proposals"
    BY <1>1, Zenon DEF Awaits
  <1>2. CASE r.route = "potential_balances"
    BY <1>2, "potential_balances" # "carbon_proposals", Zenon DEF Awaits
  <1>3. CASE r.route # "carbon_proposals" /\ r.route # "potential_balances"
    BY <1>3, Zenon DEF Awaits
  <1> QED BY <1>1, <1>2, <1>3

LEMMA AskedNext ==
  ASSUME NEW r, NEW n \in Nat, n < Len(Awaits(r))
  PROVE  /\ NextRead(r, Asked(r, n), Awaits(r)[n + 1])
         /\ Awaits(r)[n + 1] \notin Asked(r, n)
         /\ Asked(r, n + 1) = Asked(r, n) \cup {Awaits(r)[n + 1]}
  <1>1. Asked(r, n + 1) = Asked(r, n) \cup {Awaits(r)[n + 1]}
    BY DEF Asked
  <1>2. ASSUME NEW q, q = <<"pending", "voting", "closed", "total", "count", "docs">>,
               Awaits(r) = q, r.route = "carbon_proposals"
        PROVE  NextRead(r, Asked(r, n), q[n + 1]) /\ q[n + 1] \notin Asked(r, n)
    <2>1. n \in 0 .. 5
      BY <1>2
    <2>2. CASE n = 0
      BY <1>2, <2>2 DEF Asked, NextRead
    <2>3. CASE n = 1
      BY <1>2, <2>3 DEF Asked, NextRead
    <2>4. CASE n = 2
      BY <1>2, <2>4 DEF Asked, NextRead
    <2>5. CASE n = 3
      BY <1>2, <2>5 DEF Asked, NextRead
    <2>6. CASE n = 4
      BY <1>2, <2>6 DEF Asked, NextRead
    <2>7. CASE n = 5
      BY <1>2, <2>7 DEF Asked, NextRead
    <2> QED BY <2>1, <2>2, <2>3, <2>4, <2>5, <2>6, <2>7
  <1>3. ASSUME NEW q, q = <<"docs">>, Awaits(r) = q, r.route = "potential_balances"
        PROVE  NextRead(r, Asked(r, n), q[n + 1]) /\ q[n + 1] \notin Asked(r, n)
    BY <1>3 DEF Asked, NextRead
  <1>4. ASSUME NEW q, q = <<"count", "docs">>, Awaits(r) = q,
               r.route \notin {"carbon_proposals", "potential_balances"}
        PROVE  NextRead(r, Asked(r, n), q[n + 1]) /\ q[n + 1] \notin Asked(r, n)
    <2>1. n \in 0 .. 1
      BY <1>4
    <2>2. CASE n = 0
      BY <1>4, <2>2 DEF Asked, NextRead
    <2>3. CASE n = 1
      BY <1>4, <2>3 DEF Asked, NextRead
    <2> QED BY <2>1, <2>2, <2>3
  <1> QED BY <1>1, <1>2, <1>3, <1>4, AwaitsIs

(* What each read returns. *)
LEMMA ReadIs ==
  ASSUME NEW r
  PROVE  /\ Read(r, "pending") = CountState(0) /\ Read(r, "voting") = CountState(1)
         /\ Read(r, "closed") = CountState(2) /\ Read(r, "total") = CountAll
         /\ Read(r, "count") = CountMatching(r)
         /\ r.route # "potential_balances" => Read(r, "docs") = PageOf(r, CountMatching(r))
  <1>1. /\ "voting" # "pending" /\ "closed" # "pending" /\ "closed" # "voting"
        /\ "total" # "pending" /\ "total" # "voting" /\ "total" # "closed"
        /\ "count" # "pending" /\ "count" # "voting" /\ "count" # "closed" /\ "count" # "total"
        /\ "docs" # "pending" /\ "docs" # "voting" /\ "docs" # "closed" /\ "docs" # "total"
        /\ "docs" # "count"
    OBVIOUS
  <1>2. Read(r, "pending") = CountState(0)
    BY Zenon DEF Read
  <1>3. Read(r, "voting") = CountState(1)
    BY <1>1, Zenon DEF Read
  <1>4. Read(r, "closed") = CountState(2)
    BY <1>1, Zenon DEF Read
  <1>5. Read(r, "total") = CountAll
    BY <1>1, Zenon DEF Read
  <1>6. Read(r, "count") = CountMatching(r)
    BY <1>1, Zenon DEF Read
  <1>7. r.route # "potential_balances" => Read(r, "docs") = PageOf(r, CountMatching(r))
    BY <1>1, Zenon DEF Read
  <1> QED BY <1>2, <1>3, <1>4, <1>5, <1>6, <1>7

(* One awaited read adds one answer to those of the request. *)
LEMMA AwaitAnswers ==
  ASSUME AnswersInv, Await
  PROVE  /\ request \in Requests /\ request # NoRequest
         /\ UNCHANGED <<vars, request>>
         /\ \E what :
              /\ NextRead(request, DOMAIN answers, what)
              /\ DOMAIN answers' = DOMAIN answers \cup {what}
              /\ answers'[what] = Read(request, what)
              /\ \A w \in DOMAIN answers : w # what /\ answers'[w] = answers[w]
         /\ listed' = IF DOMAIN answers = {} THEN CountAll ELSE listed
         /\ AnswersInv'
  <1>1. PICK n : n = Cardinality(DOMAIN answers)
    OBVIOUS
  <1>2. PICK what : what = Awaits(request)[n + 1]
    OBVIOUS
  <1>3. request \in Requests /\ request # NoRequest /\ UNCHANGED <<vars, request>>
    BY DEF AnswersInv, Await
  <1>4. /\ answers' = Set([w \in {what} |-> Read(request, w)], answers)
        /\ listed' = IF n = 0 THEN CountAll ELSE listed
    BY <1>1, <1>2 DEF Await
  <1>5. IsFiniteSet(DOMAIN answers) /\ n \in Nat /\ (n = 0 <=> DOMAIN answers = {})
    BY <1>1, FS_CardinalityType, FS_EmptySet DEF AnswersInv
  <1>6. Len(Awaits(request)) \in Nat
    BY AwaitsIs
  <1>7. n < Len(Awaits(request)) /\ DOMAIN answers = Asked(request, n)
    BY <1>1, <1>3, <1>5, <1>6 DEF AnswersInv, Await, Complete
  <1>8. /\ NextRead(request, DOMAIN answers, what) /\ what \notin DOMAIN answers
        /\ Asked(request, n + 1) = DOMAIN answers \cup {what}
    BY <1>2, <1>5, <1>7, AskedNext
  <1>9. /\ DOMAIN answers' = DOMAIN answers \cup {what}
        /\ answers'[what] = Read(request, what)
        /\ \A w \in DOMAIN answers : answers'[w] = answers[w]
    BY <1>4, <1>8 DEF Set
  <1>10. IsFiniteSet(DOMAIN answers') /\ Cardinality(DOMAIN answers') = n + 1
    BY <1>1, <1>5, <1>8, <1>9, FS_AddElement
  <1>11. AnswersInv'
    <2>1. n + 1 <= Len(Awaits(request))
      BY <1>5, <1>6, <1>7
    <2> QED BY <1>3, <1>8, <1>9, <1>10, <2>1 DEF AnswersInv
  <1> QED BY <1>3, <1>4, <1>5, <1>8, <1>9, <1>11

(* A complete request has the answers that its reply is made of. *)
LEMMA CompleteAnswers ==
  ASSUME AnswersInv, Complete
  PROVE  /\ "docs" \in DOMAIN answers
         /\ request.route = "carbon_proposals" =>
              {"pending", "voting", "closed", "total"} \subseteq DOMAIN answers
  <1>1. DOMAIN answers = {Awaits(request)[i] : i \in 1 .. Len(Awaits(request))}
    BY DEF AnswersInv, Complete, Asked
  <1>2. ASSUME NEW q, Awaits(request) = q,
               q = <<"pending", "voting", "closed", "total", "count", "docs">>
        PROVE  {"pending", "voting", "closed", "total", "docs"} \subseteq DOMAIN answers
    <2>1. DOMAIN answers = {q[i] : i \in 1 .. 6}
      BY <1>1, <1>2
    <2>2. q[1] = "pending" /\ q[2] = "voting" /\ q[3] = "closed" /\ q[4] = "total" /\ q[6] = "docs"
      BY <1>2
    <2> QED BY <2>1, <2>2
  <1>3. ASSUME NEW q, Awaits(request) = q, q = <<"docs">> \/ q = <<"count", "docs">>
        PROVE  "docs" \in DOMAIN answers
    BY <1>1, <1>3
  <1> QED BY <1>2, <1>3, AwaitsIs

(* The listener's steps, between the reads of a request. *)
LEMMA ListenerKeepsAnswers ==
  ASSUME ServerInv, [Next]_vars, UNCHANGED serverVars
  PROVE  ServerInv'
  <1>1. request' = request /\ answers' = answers /\ listed' = listed
    BY DEF serverVars
  <1>2. StoreInv'
    BY StoreNext DEF ServerInv
  <1>3. AnswersInv'
    BY <1>1 DEF ServerInv, AnswersInv
  <1>4. CASE request = NoRequest
    <2>1. DOMAIN answers = {} /\ request.route = "none"
      BY <1>4 DEF ServerInv, AnswersInv, NoRequest
    <2> QED BY <1>1, <1>2, <1>3, <2>1 DEF ServerInv, CountInv, StatsInv
  <1>5. CASE request # NoRequest
    <2>1. request \in Requests /\ request.route \in Routes
      BY <1>5, RequestAssumption DEF ServerInv, AnswersInv
    <2>2. /\ Lasting(request) => CountMatching(request) <= CountMatching(request)'
          /\ CountAll <= CountAll' /\ CountState(2) <= CountState(2)'
      BY <1>1, <2>1, CountsGrow DEF ServerInv
    <2>3. /\ CountMatching(request) \in Nat /\ CountAll \in Nat /\ CountState(2) \in Nat
      BY CountsNow DEF ServerInv
    <2>4. /\ CountMatching(request)' \in Nat /\ CountAll' \in Nat /\ CountState(2)' \in Nat
      BY <1>2, CountsThen
    <2>5. CountInv'
      <3> SUFFICES ASSUME "count" \in DOMAIN answers, Lasting(request)
                   PROVE  /\ answers["count"] \in Nat /\ answers["count"] <= CountMatching(request)'
                          /\ ("docs" \in DOMAIN answers /\ Offset(request) >= 0) =>
                               answers["docs"] >= PageOf(request, answers["count"])
        BY <1>1 DEF CountInv
      <3>1. /\ answers["count"] \in Nat /\ answers["count"] <= CountMatching(request)
            /\ ("docs" \in DOMAIN answers /\ Offset(request) >= 0) =>
                 answers["docs"] >= PageOf(request, answers["count"])
        BY DEF ServerInv, CountInv
      <3> QED BY <2>2, <2>3, <2>4, <3>1
    <2>6. StatsInv'
      <3> SUFFICES ASSUME request.route = "carbon_proposals" PROVE StatsInv'
        BY <1>1 DEF StatsInv
      <3>1. \A s \in {"pending", "voting", "closed"} \cap DOMAIN answers :
              /\ answers[s] \in Nat /\ answers[s] <= CountAll'
              /\ "total" \in DOMAIN answers => answers["total"] \in Nat /\ answers[s] <= answers["total"]
        BY <2>2, <2>3, <2>4 DEF ServerInv, StatsInv
      <3>2. "pending" \in DOMAIN answers =>
              /\ listed \in Nat /\ listed <= answers["pending"] + CountState(2)'
              /\ "closed" \in DOMAIN answers => listed <= answers["pending"] + answers["closed"]
        BY <2>2, <2>3, <2>4 DEF ServerInv, StatsInv
      <3> QED BY <1>1, <3>1, <3>2 DEF StatsInv
    <2> QED BY <1>2, <1>3, <2>5, <2>6 DEF ServerInv
  <1> QED BY <1>4, <1>5

(* One more read of the request in flight. *)
LEMMA AwaitKeepsAnswers ==
  ASSUME ServerInv, Await
  PROVE  ServerInv'
  <1>1. PICK what :
          /\ NextRead(request, DOMAIN answers, what)
          /\ DOMAIN answers' = DOMAIN answers \cup {what}
          /\ answers'[what] = Read(request, what)
          /\ \A w \in DOMAIN answers : w # what /\ answers'[w] = answers[w]
    BY AwaitAnswers DEF ServerInv
  <1>2. /\ request \in Requests /\ request' = request /\ UNCHANGED vars
        /\ listed' = IF DOMAIN answers = {} THEN CountAll ELSE listed
        /\ AnswersInv'
    BY AwaitAnswers DEF ServerInv
  <1>3. StoreInv'
    BY <1>2, StoreNext DEF ServerInv
  <1>4. CountMatching(request)' = CountMatching(request) /\ CountAll' = CountAll
        /\ CountState(2)' = CountState(2)
    <2>1. db' = db
      BY <1>2 DEF vars
    <2> QED BY <1>2, <2>1, SizesNow, SizesThen DEF Sizes
  <1>5. /\ CountMatching(request) \in Nat /\ CountAll \in Nat
        /\ \A s : CountState(s) \in Nat /\ CountState(s) <= CountAll
        /\ CountAll = CountState(0) + CountState(2)
    BY CountsNow DEF ServerInv
  <1>6. CountInv'
    <2> SUFFICES ASSUME "count" \in DOMAIN answers', Lasting(request)
                 PROVE  /\ answers'["count"] \in Nat /\ answers'["count"] <= CountMatching(request)
                        /\ ("docs" \in DOMAIN answers' /\ Offset(request) >= 0) =>
                             answers'["docs"] >= PageOf(request, answers'["count"])
      BY <1>2, <1>4 DEF CountInv
    <2>1. CASE what = "count"
      <3>1. "docs" \notin DOMAIN answers'
        BY <1>1, <2>1 DEF NextRead
      <3>2. answers'["count"] = CountMatching(request)
        BY <1>1, <2>1, ReadIs
      <3> QED BY <1>5, <3>1, <3>2
    <2>2. CASE what # "count"
      <3>1. "count" \in DOMAIN answers /\ answers'["count"] = answers["count"]
        BY <1>1, <2>2
      <3>2. /\ answers["count"] \in Nat /\ answers["count"] <= CountMatching(request)
            /\ ("docs" \in DOMAIN answers /\ Offset(request) >= 0) =>
                 answers["docs"] >= PageOf(request, answers["count"])
        BY <3>1 DEF ServerInv, CountInv
      <3>3. CASE what = "docs"
        <4>1. request.route # "potential_balances"
          BY <1>1, <3>1, <3>3 DEF NextRead
        <4>2. answers'["docs"] = PageOf(request, CountMatching(request))
          BY <1>1, <3>3, <4>1, ReadIs
        <4>3. Offset(request) >= 0 =>
                PageOf(request, answers["count"]) <= PageOf(request, CountMatching(request))
          BY <1>2, <1>5, <3>2, PageGrows
        <4>4. PageOf(request, answers["count"]) \in Int /\ PageOf(request, CountMatching(request)) \in Int
          <5>1. \A n \in Nat : PageOf(request, n) \in Int
            BY <1>2, PageType
          <5> QED BY <1>5, <3>2, <5>1
        <4> QED BY <3>1, <3>2, <4>2, <4>3, <4>4
      <3>4. CASE what # "docs"
        BY <1>1, <3>1, <3>2, <3>4
      <3> QED BY <3>3, <3>4
    <2> QED BY <2>1, <2>2
  <1>7. StatsInv'
    <2> SUFFICES ASSUME request.route = "carbon_proposals"
                 PROVE  /\ \A s \in {"pending", "voting", "closed"} \cap DOMAIN answers' :
                             /\ answers'[s] \in Nat /\ answers'[s] <= CountAll
                             /\ "total" \in DOMAIN answers' =>
                                  answers'["total"] \in Nat /\ answers'[s] <= answers'["total"]
                        /\ "pending" \in DOMAIN answers' =>
                             /\ listed' \in Nat /\ listed' <= answers'["pending"] + CountState(2)
                             /\ "closed" \in DOMAIN answers' =>
                                  listed' <= answers'["pending"] + answers'["closed"]
      BY <1>2, <1>4 DEF StatsInv
    <2>s. StatsInv
      BY DEF ServerInv
    <2>1. CASE what = "pending"
      <3>1. DOMAIN answers = {} /\ DOMAIN answers' = {"pending"}
        BY <1>1, <2>1 DEF NextRead
      <3>2. answers'["pending"] = CountState(0) /\ listed' = CountAll
        BY <1>1, <1>2, <2>1, <3>1, ReadIs
      <3> QED BY <1>5, <3>1, <3>2
    <2>2. CASE what = "voting"
      <3>1. DOMAIN answers = {"pending"} /\ DOMAIN answers' = {"pending", "voting"}
        BY <1>1, <2>2 DEF NextRead
      <3>2. answers'["voting"] = CountState(1) /\ listed' = listed /\ answers'["pending"] = answers["pending"]
        BY <1>1, <1>2, <2>2, <3>1, ReadIs
      <3> QED BY <1>5, <2>s, <3>1, <3>2 DEF StatsInv
    <2>3. CASE what = "closed"
      <3>1. DOMAIN answers = {"pending", "voting"} /\ DOMAIN answers' = {"pending", "voting", "closed"}
        BY <1>1, <2>3 DEF NextRead
      <3>2. /\ answers'["closed"] = CountState(2) /\ listed' = listed
            /\ answers'["pending"] = answers["pending"] /\ answers'["voting"] = answers["voting"]
        BY <1>1, <1>2, <2>3, <3>1, ReadIs
      <3> QED BY <1>5, <2>s, <3>1, <3>2 DEF StatsInv
    <2>4. CASE what \in {"total", "count", "docs"}
      <3>1. {"pending", "voting", "closed"} \subseteq DOMAIN answers
        BY <1>1, <2>4 DEF NextRead
      <3>2. /\ listed' = listed /\ answers'["pending"] = answers["pending"]
            /\ answers'["voting"] = answers["voting"] /\ answers'["closed"] = answers["closed"]
        BY <1>1, <1>2, <3>1
      <3>3. "total" \in DOMAIN answers' =>
              \/ answers'["total"] = CountAll
              \/ "total" \in DOMAIN answers /\ answers'["total"] = answers["total"]
        BY <1>1, ReadIs
      <3> QED BY <1>5, <2>s, <3>1, <3>2, <3>3 DEF StatsInv
    <2> QED BY <1>1, <2>1, <2>2, <2>3, <2>4 DEF NextRead
  <1> QED BY <1>2, <1>3, <1>6, <1>7 DEF ServerInv

LEMMA ServerStep ==
  ASSUME ServerInv, [ServerNext]_allVars
  PROVE  ServerInv'
  <1>0. [Next]_vars
    BY ServerReads
  <1>1. StoreInv'
    BY <1>0, StoreNext DEF ServerInv
  <1>2. CASE UNCHANGED serverVars
    BY <1>0, <1>2, ListenerKeepsAnswers
  <1>3. CASE Await
    BY <1>3, AwaitKeepsAnswers
  <1>4. CASE Receive
    <2>1. request' \in Requests /\ answers' = answers /\ DOMAIN answers = {} /\ IsFiniteSet({})
      BY <1>4, FS_EmptySet DEF Receive, ServerInv, AnswersInv
    <2>2. Asked(request', 0) = {} /\ Len(Awaits(request')) \in Nat /\ Cardinality({}) = 0
      BY AwaitsIs, FS_EmptySet DEF Asked
    <2>3. AnswersInv'
      BY <2>1, <2>2 DEF AnswersInv, NoRequest
    <2> QED BY <1>1, <2>1, <2>3 DEF ServerInv, CountInv, StatsInv
  <1>5. CASE request' = NoRequest /\ answers' = <<>>
    <2>1. DOMAIN answers' = {} /\ IsFiniteSet({})
      BY <1>5, FS_EmptySet
    <2> QED BY <1>1, <1>5, <2>1 DEF ServerInv, AnswersInv, CountInv, StatsInv, NoRequest
  <1> QED BY <1>2, <1>3, <1>4, <1>5
          DEF ServerNext, CrashServing, Reply, Fail, allVars

LEMMA ServerStart ==
  ASSUME ServerInit
  PROVE  ServerInv
  <1>1. Init /\ request = NoRequest /\ DOMAIN answers = {} /\ DOMAIN db = {} /\ IsFiniteSet({})
    BY FS_EmptySet DEF ServerInit, Init
  <1>2. StoreInv
    BY <1>1, DocsInit DEF StoreInv, DealsInv
  <1> QED BY <1>1, <1>2 DEF ServerInv, AnswersInv, CountInv, StatsInv, NoRequest

(* Whatever the listener writes between the reads of a request, and for     *)
(* every non-negative offset and every limit that a client sends: the page  *)
(* that findWithComplexCondition reads is not shorter than its count        *)
(* promised.                                                                *)
THEOREM PageKeepsCountCorrect == ServerSpec => []PageKeepsCount
  <1>1. ServerInit => ServerInv
    BY ServerStart
  <1>2. ServerInv /\ [ServerNext]_allVars => ServerInv'
    BY ServerStep
  <1>3. ServerInv => PageKeepsCount
    <2> SUFFICES ASSUME ServerInv, Complete, "count" \in DOMAIN answers, Lasting(request),
                        Offset(request) >= 0
                 PROVE  answers["docs"] >= PageOf(request, answers["count"])
      BY DEF PageKeepsCount
    <2>1. "docs" \in DOMAIN answers
      BY CompleteAnswers DEF ServerInv
    <2> QED BY <2>1 DEF ServerInv, CountInv
  <1> QED BY <1>1, <1>2, <1>3, PTL DEF ServerSpec

(* The four counts of statProposals, on every chain and whatever happens    *)
(* between them: together they miss no proposal that was on record at the   *)
(* first of them, and the total is the largest.                             *)
THEOREM StatsMissNothingCorrect == ServerSpec => []StatsMissNothing
  <1>1. ServerInit => ServerInv
    BY ServerStart
  <1>2. ServerInv /\ [ServerNext]_allVars => ServerInv'
    BY ServerStep
  <1>3. ServerInv => StatsMissNothing
    <2> SUFFICES ASSUME ServerInv, Complete, request.route = "carbon_proposals"
                 PROVE  /\ answers["pending"] + answers["voting"] + answers["closed"] >= listed
                        /\ \A s \in {"pending", "voting", "closed"} : answers[s] <= answers["total"]
      BY DEF StatsMissNothing
    <2>1. {"pending", "voting", "closed", "total"} \subseteq DOMAIN answers
      BY CompleteAnswers DEF ServerInv
    <2>2. /\ \A s \in {"pending", "voting", "closed"} : answers[s] \in Nat /\ answers[s] <= answers["total"]
          /\ listed \in Nat /\ listed <= answers["pending"] + answers["closed"]
      BY <2>1 DEF ServerInv, StatsInv
    <2> QED BY <2>2
  <1> QED BY <1>1, <1>2, <1>3, PTL DEF ServerSpec
=============================================================================
