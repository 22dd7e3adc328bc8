---------------------- MODULE CarbonCommitteeTheorems ----------------------
(***************************************************************************)
(* Proofs about CarbonCommittee, for committees of any size and any number *)
(* of motions.  The first part is about who votes, the second shows that   *)
(* the ledger keeps its invariants when the committee and root approve,    *)
(* and the third that no approval comes without a majority.                *)
(***************************************************************************)
EXTENDS CarbonCommittee, CarbonAssetsTheorems

(* The votes are well formed; what VotersAreMembers needs of the types. *)
VotingOK ==
  /\ members \subseteq Candidates
  /\ Voting \in [DOMAIN Voting -> Votes]

VotersInv == VotingOK /\ VotersAreMembers

(* What is asked of one motion. *)
FairVotes(motion, m) ==
  /\ motion \in Votes
  /\ motion.ayes \cup motion.nays \subseteq m
  /\ motion.ayes \cap motion.nays = {}
-----------------------------------------------------------------------------
LEMMA VotersInvParts ==
  VotersInv <=>
    /\ members \subseteq Candidates
    /\ prime \in members \cup {NoPrime}
    /\ Voting = [id \in DOMAIN Voting |-> Voting[id]]
    /\ \A id \in DOMAIN Voting : FairVotes(Voting[id], members)
<1>1. Voting \in [DOMAIN Voting -> Votes]
        <=> /\ Voting = [id \in DOMAIN Voting |-> Voting[id]]
            /\ \A id \in DOMAIN Voting : Voting[id] \in Votes
  OBVIOUS
<1> QED
  BY <1>1 DEF VotersInv, VotingOK, VotersAreMembers, FairVotes

LEMMA VotersInit == CommitteeInit => VotersInv
BY CommitteeAssumption DEF CommitteeInit, VotersInv, VotingOK, VotersAreMembers

(* Closing a motion, one way or another, leaves the others as they are. *)
LEMMA VotersRemove ==
  ASSUME VotersInv, NEW id, Voting' = Remove(Voting, id), UNCHANGED <<members, prime>>
  PROVE  VotersInv'
BY VotersInvParts DEF Remove, VotersInv, VotingOK, VotersAreMembers, FairVotes

LEMMA VotersSame ==
  ASSUME VotersInv, UNCHANGED <<members, prime, Voting>>
  PROVE  VotersInv'
BY DEF VotersInv, VotingOK, VotersAreMembers

LEMMA VotersStep ==
  ASSUME VotersInv, [CommitteeNext]_committeeVars
  PROVE  VotersInv'
<1>0. /\ members \subseteq Candidates
      /\ prime \in members \cup {NoPrime}
      /\ Voting = [id \in DOMAIN Voting |-> Voting[id]]
      /\ \A id \in DOMAIN Voting : FairVotes(Voting[id], members)
  BY VotersInvParts
<1>1. CASE request
  BY <1>1, VotersSame DEF request
<1>2. ASSUME NEW id, root_approve(id)
      PROVE  VotersInv'
  BY <1>2, VotersSame DEF root_approve
<1>3. ASSUME NEW who \in members, NEW threshold \in Thresholds, NEW id \in Applications,
             propose_alone(who, threshold, id)
      PROVE  VotersInv'
  BY <1>3, VotersSame DEF propose_alone
<1>4. ASSUME NEW who \in members, NEW threshold \in Thresholds, NEW id \in Applications,
             propose(who, threshold, id)
      PROVE  VotersInv'
  <2> DEFINE new == [threshold |-> threshold, ayes |-> {who}, nays |-> {},
                     left |-> CarbonMotionDuration]
  <2>1. FairVotes(new, members)
    BY <1>0, CommitteeAssumption DEF FairVotes, Votes
  <2>2. Voting' = [k \in DOMAIN Voting \cup {id} |-> IF k = id THEN new ELSE Voting[k]]
    BY <1>4 DEF propose, Insert
  <2> HIDE DEF new
  <2>3. UNCHANGED <<members, prime>>
    BY <1>4 DEF propose
  <2> QED
    BY <2>1, <2>2, <2>3, <1>0 DEF VotersInv, VotingOK, VotersAreMembers, FairVotes
<1>5. ASSUME NEW who \in members, NEW id \in DOMAIN Voting, NEW aye \in BOOLEAN,
             vote(who, id, aye)
      PROVE  VotersInv'
  <2> DEFINE old == Voting[id]
             new == [old EXCEPT !.ayes = IF aye THEN @ \cup {who} ELSE @ \ {who},
                                !.nays = IF aye THEN @ \ {who} ELSE @ \cup {who}]
  <2>1. FairVotes(old, members) /\ who \in Candidates
    BY <1>0
  <2>2. FairVotes(new, members)
    BY <2>1 DEF FairVotes, Votes
  <2>3. Voting' = [Voting EXCEPT ![id] = new]
    BY <1>5 DEF vote
  <2> HIDE DEF new, old
  <2>4. UNCHANGED <<members, prime>>
    BY <1>5 DEF vote
  <2> QED
    BY <2>2, <2>3, <2>4, <1>0 DEF VotersInv, VotingOK, VotersAreMembers, FairVotes
<1>6. ASSUME NEW id \in DOMAIN Voting, close(id)
      PROVE  VotersInv'
  BY <1>6, VotersRemove DEF close
<1>7. ASSUME NEW id \in DOMAIN Voting, disapprove_proposal(id)
      PROVE  VotersInv'
  BY <1>7, VotersRemove DEF disapprove_proposal
<1>8. CASE NewBlock
  <2>1. ASSUME NEW id \in DOMAIN Voting
        PROVE  FairVotes(Elapsed(Voting[id]), members)
    BY <1>0, CommitteeAssumption DEF FairVotes, Votes, Elapsed
  <2>2. Voting' = [id \in DOMAIN Voting |-> Elapsed(Voting[id])] /\ UNCHANGED <<members, prime>>
    BY <1>8 DEF NewBlock
  <2> QED
    BY <2>1, <2>2, <1>0 DEF VotersInv, VotingOK, VotersAreMembers, FairVotes
<1>9. ASSUME NEW new \in SUBSET Candidates, change_members(new)
      PROVE  VotersInv'
  <2>1. ASSUME NEW id \in DOMAIN Voting
        PROVE  FairVotes(VotesOfMembers(Voting[id], new), new)
    BY <1>0 DEF FairVotes, Votes, VotesOfMembers
  <2>2. /\ Voting' = [id \in DOMAIN Voting |-> VotesOfMembers(Voting[id], new)]
        /\ members' = new /\ prime' \in new \cup {NoPrime}
    BY <1>9 DEF change_members
  <2> QED
    BY <2>1, <2>2 DEF VotersInv, VotingOK, VotersAreMembers, FairVotes
<1>10. ASSUME NEW who \in (members \cup {NoPrime}) \ {prime}, set_prime(who)
       PROVE  VotersInv'
  BY <1>10, <1>0 DEF set_prime, VotersInv, VotingOK, VotersAreMembers
<1>11. CASE UNCHANGED committeeVars
  BY <1>11, VotersSame DEF committeeVars
<1> QED
  BY <1>1, <1>2, <1>3, <1>4, <1>5, <1>6, <1>7, <1>8, <1>9, <1>10, <1>11 DEF CommitteeNext

(* For a committee of any size: only members vote, nobody twice, and the    *)
(* prime is a member, whatever the council does to the committee while      *)
(* motions are open.                                                        *)
THEOREM VotersCorrect == CommitteeSpec => []VotersAreMembers
<1>1. VotersInv => VotersAreMembers
  BY DEF VotersInv
<1> QED
  BY <1>1, VotersInit, VotersStep, PTL DEF CommitteeSpec
-----------------------------------------------------------------------------
(* A step that leaves the ledger alone keeps what is true of it. *)
LEMMA LedgerSame ==
  ASSUME SupplyInv, UNCHANGED <<carbonVars, history>>
  PROVE  SupplyInv'
<1>1. /\ UNCHANGED <<Projects, Assets, Issues, Burns, Balances>>
      /\ UNCHANGED <<neutralized, displaced, burned, overflowed>>
  BY DEF carbonVars, history
<1>2. TypeOK' /\ ApprovalChain' /\ UnapprovedUntouched' /\ BurnsMatchIds'
  BY <1>1 DEF SupplyInv, TypeOK, ApprovalChain, UnapprovedUntouched, BurnsMatchIds, has_asset
<1>3. SupplyConserved'
  BY <1>1 DEF SupplyInv, SupplyConserved, Accounted, Held, Pending, PendingBurns
<1> QED
  BY <1>2, <1>3 DEF SupplyInv

(* An approval is one of the records, whoever calls it. *)
LEMMA ApproveIsNext ==
  ASSUME NEW id, approve(id)
  PROVE  Next
BY DEF Next, approve, Records

(* A motion that is dispatched makes a step of the ledger or none. *)
LEMMA DispatchLedger ==
  ASSUME NEW threshold, NEW id, Dispatch(threshold, id)
  PROVE  Next \/ UNCHANGED <<carbonVars, history>>
BY ApproveIsNext DEF Dispatch

LEMMA CommitteeLedger ==
  ASSUME [CommitteeNext]_committeeVars
  PROVE  Next \/ UNCHANGED <<carbonVars, history>>
<1>1. CASE request
  BY <1>1 DEF request, Next
<1>2. ASSUME NEW id, root_approve(id)
      PROVE  Next
  BY <1>2, ApproveIsNext DEF root_approve
<1>3. ASSUME NEW who, NEW threshold, NEW id, propose_alone(who, threshold, id)
      PROVE  Next \/ UNCHANGED <<carbonVars, history>>
  BY <1>3, DispatchLedger DEF propose_alone
<1>4. ASSUME NEW who, NEW threshold, NEW id, propose(who, threshold, id)
      PROVE  UNCHANGED <<carbonVars, history>>
  BY <1>4 DEF propose, Unapproved
<1>5. ASSUME NEW who, NEW id, NEW aye, vote(who, id, aye)
      PROVE  UNCHANGED <<carbonVars, history>>
  BY <1>5 DEF vote, Unapproved
<1>6. ASSUME NEW id, close(id)
      PROVE  Next \/ UNCHANGED <<carbonVars, history>>
  <2>1. Dispatch(Voting[id].threshold, id) \/ Unapproved
    BY <1>6 DEF close
  <2> QED
    BY <2>1, DispatchLedger DEF Unapproved
<1>7. ASSUME NEW id, disapprove_proposal(id)
      PROVE  UNCHANGED <<carbonVars, history>>
  BY <1>7 DEF disapprove_proposal, Unapproved
<1>8. CASE NewBlock
  BY <1>8 DEF NewBlock, Unapproved
<1>9. ASSUME NEW new, change_members(new)
      PROVE  UNCHANGED <<carbonVars, history>>
  BY <1>9 DEF change_members, Unapproved
<1>10. ASSUME NEW who, set_prime(who)
       PROVE  UNCHANGED <<carbonVars, history>>
  BY <1>10 DEF set_prime, Unapproved
<1>11. CASE UNCHANGED committeeVars
  BY <1>11 DEF committeeVars, vars
<1> QED
  BY <1>1, <1>2, <1>3, <1>4, <1>5, <1>6, <1>7, <1>8, <1>9, <1>10, <1>11 DEF CommitteeNext

LEMMA LedgerInvariant == CommitteeSpec => []SupplyInv
<1>1. CommitteeInit => SupplyInv
  BY SupplyInit DEF CommitteeInit
<1>2. ASSUME SupplyInv, [CommitteeNext]_committeeVars
      PROVE  SupplyInv'
  BY <1>2, CommitteeLedger, SupplyStep, LedgerSame
<1> QED
  BY <1>1, <1>2, PTL DEF CommitteeSpec

(* Nothing is lost or made up in the ledger of carbon assets when approvals *)
(* come from motions of the committee and from root, in any order with      *)
(* votes and changes of the membership.                                     *)
THEOREM CommitteeSupplyCorrect == CommitteeSpec => []SupplyConserved
<1>1. SupplyInv => SupplyConserved
  BY DEF SupplyInv
<1> QED
  BY <1>1, LedgerInvariant, PTL
-----------------------------------------------------------------------------
(* A motion is about an application, and only propose opens one. *)
MotionsOK == DOMAIN Voting \subseteq Applications /\ origin \in {"none", "root", "members"}

LEMMA MotionsStep ==
  ASSUME MotionsOK, [CommitteeNext]_committeeVars
  PROVE  MotionsOK'
<1>0. Applications' = Applications
  BY DEF Applications
<1>1. ASSUME Unapproved
      PROVE  origin' \in {"none", "root", "members"}
  BY <1>1 DEF Unapproved
<1>2. ASSUME NEW threshold, NEW id, Dispatch(threshold, id)
      PROVE  origin' \in {"none", "root", "members"}
  BY <1>2 DEF Dispatch
<1>3. CASE request
  BY <1>3 DEF request, MotionsOK
<1>4. ASSUME NEW id, root_approve(id)
      PROVE  MotionsOK'
  BY <1>4 DEF root_approve, MotionsOK
<1>5. ASSUME NEW who, NEW threshold, NEW id \in Applications, propose_alone(who, threshold, id)
      PROVE  MotionsOK'
  BY <1>2, <1>5 DEF propose_alone, MotionsOK
<1>6. ASSUME NEW who, NEW threshold, NEW id \in Applications, propose(who, threshold, id)
      PROVE  MotionsOK'
  BY <1>1, <1>6 DEF propose, Insert, MotionsOK
<1>7. ASSUME NEW who, NEW id \in DOMAIN Voting, NEW aye, vote(who, id, aye)
      PROVE  MotionsOK'
  <2>1. DOMAIN Voting' = DOMAIN Voting /\ Unapproved
    BY <1>7 DEF vote
  <2> QED
    BY <1>1, <2>1 DEF MotionsOK
<1>8. ASSUME NEW id \in DOMAIN Voting, close(id) \/ disapprove_proposal(id)
      PROVE  MotionsOK'
  <2>1. DOMAIN Voting' \subseteq DOMAIN Voting
    BY <1>8 DEF close, disapprove_proposal, Remove
  <2>2. Unapproved \/ Dispatch(Voting[id].threshold, id)
    BY <1>8 DEF close, disapprove_proposal
  <2> QED
    BY <1>1, <1>2, <2>1, <2>2 DEF MotionsOK
<1>9. CASE NewBlock
  BY <1>1, <1>9 DEF NewBlock, MotionsOK
<1>10. ASSUME NEW new, change_members(new)
       PROVE  MotionsOK'
  BY <1>1, <1>10 DEF change_members, MotionsOK
<1>11. ASSUME NEW who, set_prime(who)
       PROVE  MotionsOK'
  BY <1>1, <1>11 DEF set_prime, MotionsOK
<1>12. CASE UNCHANGED committeeVars
  BY <1>12 DEF committeeVars, MotionsOK
<1> QED
  BY <1>3, <1>4, <1>5, <1>6, <1>7, <1>8, <1>9, <1>10, <1>11, <1>12 DEF CommitteeNext

(* The records of the ledger, the committee and its motions keep their      *)
(* types together: a motion is only ever about an application, and its      *)
(* votes and its time left are what the collective stores.                  *)
THEOREM CommitteeTypeCorrect == CommitteeSpec => []CommitteeTypeOK
<1>1. CommitteeInit => MotionsOK
  BY DEF CommitteeInit, MotionsOK
<1>2. CommitteeSpec => []MotionsOK
  BY <1>1, MotionsStep, PTL DEF CommitteeSpec
<1>3. CommitteeSpec => []VotersInv
  BY VotersInit, VotersStep, PTL DEF CommitteeSpec
<1>4. SupplyInv /\ VotersInv /\ MotionsOK => CommitteeTypeOK
  BY DEF SupplyInv, VotersInv, VotingOK, VotersAreMembers, MotionsOK, CommitteeTypeOK
<1> QED
  BY <1>2, <1>3, <1>4, LedgerInvariant, PTL
-----------------------------------------------------------------------------
(* The committee and the votes are finite. *)
LEMMA CountsAreNat ==
  ASSUME VotersInv
  PROVE  /\ Seats \in Nat
         /\ \A who \in members : Seats >= 1
         /\ \A id \in DOMAIN Voting :
              /\ Cardinality(Voting[id].ayes) \in Nat
              /\ Cardinality(Voting[id].nays) \in Nat
              /\ Voting[id].threshold \in Nat
<1>1. ASSUME NEW S, S \subseteq members
      PROVE  IsFiniteSet(S) /\ Cardinality(S) \in Nat
  BY <1>1, CommitteeAssumption, FS_Subset, FS_CardinalityType DEF VotersInv, VotingOK
<1>2. Seats \in Nat /\ IsFiniteSet(members)
  BY <1>1 DEF Seats
<1>3. ASSUME NEW who \in members
      PROVE  Seats >= 1
  <2>1. Cardinality(members) # 0
    BY <1>2, FS_EmptySet
  <2> QED
    BY <1>2, <2>1 DEF Seats
<1>4. ASSUME NEW id \in DOMAIN Voting
      PROVE  /\ Cardinality(Voting[id].ayes) \in Nat
             /\ Cardinality(Voting[id].nays) \in Nat
             /\ Voting[id].threshold \in Nat
  <2>1. Voting[id] \in Votes /\ Voting[id].ayes \subseteq members /\ Voting[id].nays \subseteq members
    BY DEF VotersInv, VotingOK, VotersAreMembers
  <2>2. Voting[id].threshold \in Nat
    BY <2>1, CommitteeAssumption DEF Votes
  <2> QED
    BY <1>1, <2>1, <2>2
<1> QED
  BY <1>2, <1>3, <1>4

(* An approval decides the application it names and no other. *)
LEMMA ApproveDecidesOne ==
  ASSUME TypeOK, NEW decided, approve(decided),
         NEW id, Waits(id), ~Waits(id)'
  PROVE  id = decided
<1> SUFFICES ASSUME id # decided PROVE Waits(id)'
  OBVIOUS
<1>1. CASE approve_project(decided)
  BY <1>1 DEF approve_project, Waits, TypeOK, CarbonProject
<1>2. CASE approve_asset(decided)
  BY <1>2 DEF approve_asset, Waits, TypeOK, CarbonAsset
<1>3. CASE approve_issue(decided)
  BY <1>3 DEF approve_issue, Waits, TypeOK, IssueInfo, CarbonAsset, CarbonProject
<1>4. CASE approve_burn(decided)
  BY <1>4 DEF approve_burn, Waits, TypeOK, BurnInfo, CarbonAsset, CarbonProject
<1> QED
  BY <1>1, <1>2, <1>3, <1>4 DEF approve

LEMMA DispatchDecidesOne ==
  ASSUME TypeOK, NEW threshold, NEW decided, Dispatch(threshold, decided),
         NEW id, Waits(id), ~Waits(id)', origin' = "members"
  PROVE  id = decided /\ ApproveOrigin(threshold)
BY ApproveDecidesOne DEF Dispatch

(* What ApprovalNeedsMajority asks of an approval. *)
Majority(id) ==
  \/ id \notin DOMAIN Voting /\ Seats = 1
  \/ /\ id \in DOMAIN Voting
     /\ \/ 2 * Cardinality(Voting[id].ayes) > Seats
        \/ /\ Voting[id].left = 0
           /\ prime \in Voting[id].ayes
           /\ 2 * Cardinality(Voting[id].nays) < Seats

LEMMA MajorityStep ==
  ASSUME TypeOK, VotersInv, CommitteeNext, NEW id \in Applications,
         Waits(id), ~Waits(id)', origin' = "members"
  PROVE  Majority(id)
<1>1. \/ \E who \in members, threshold \in Thresholds, other \in Applications :
            propose_alone(who, threshold, other)
      \/ \E other \in DOMAIN Voting : close(other)
  BY DEF CommitteeNext, request, root_approve, propose, vote, disapprove_proposal, NewBlock,
         change_members, set_prime, Unapproved
<1>2. ASSUME NEW who \in members, NEW threshold \in Thresholds, NEW other \in Applications,
             propose_alone(who, threshold, other)
      PROVE  Majority(id)
  <2>1. Dispatch(1, other) /\ other \notin DOMAIN Voting
    BY <1>2 DEF propose_alone
  <2>2. id = other /\ 2 * 1 > Seats
    BY <2>1, DispatchDecidesOne DEF ApproveOrigin
  <2> QED
    BY <2>1, <2>2, CountsAreNat DEF Majority
<1>3. ASSUME NEW other \in DOMAIN Voting, close(other)
      PROVE  Majority(id)
  <2> DEFINE motion == Voting[other]
             ayes == Cardinality(motion.ayes)
             nays == Cardinality(motion.nays)
  <2>1. Dispatch(motion.threshold, other)
    BY <1>3 DEF close, Unapproved
  <2>2. id = other /\ 2 * motion.threshold > Seats
    BY <2>1, DispatchDecidesOne DEF ApproveOrigin
  <2>3. \/ ayes >= motion.threshold
        \/ motion.left = 0 /\ AyesAtEnd(motion) >= motion.threshold
    BY <1>3 DEF close, Unapproved
  <2>4. Seats \in Nat /\ ayes \in Nat /\ nays \in Nat /\ motion.threshold \in Nat
    BY CountsAreNat
  <2>5. CASE ayes >= motion.threshold
    <3>1. 2 * ayes > Seats
      BY <2>2, <2>4, <2>5
    <3> QED
      BY <3>1, <2>2 DEF Majority
  <2>6. CASE motion.left = 0 /\ AyesAtEnd(motion) >= motion.threshold /\ ~(ayes >= motion.threshold)
    <3>1. prime \in motion.ayes /\ Seats - nays >= motion.threshold
      BY <2>6 DEF AyesAtEnd
    <3>2. 2 * nays < Seats
      BY <2>2, <2>4, <3>1
    <3> QED
      BY <3>1, <3>2, <2>2, <2>6 DEF Majority
  <2> QED
    BY <2>3, <2>5, <2>6
<1> QED
  BY <1>1, <1>2, <1>3

(* Whatever threshold a motion was proposed with and whoever has joined or  *)
(* left since, the committee approves nothing without more than half of its *)
(* members of that moment, or at the end of the motion without its prime    *)
(* and with half of them against it: for committees of any size.            *)
THEOREM MajorityCorrect == CommitteeSpec => ApprovalNeedsMajority
<1> DEFINE Decides ==
      \A id \in Applications :
        (Waits(id) /\ ~Waits(id)' /\ origin' = "members") =>
          \/ id \notin DOMAIN Voting /\ Seats = 1
          \/ /\ id \in DOMAIN Voting
             /\ \/ 2 * Cardinality(Voting[id].ayes) > Seats
                \/ /\ Voting[id].left = 0
                   /\ prime \in Voting[id].ayes
                   /\ 2 * Cardinality(Voting[id].nays) < Seats
<1>1. ASSUME SupplyInv, VotersInv, [CommitteeNext]_committeeVars
      PROVE  [Decides]_committeeVars
  BY <1>1, MajorityStep DEF SupplyInv, Majority
<1>2. CommitteeSpec => []VotersInv
  BY VotersInit, VotersStep, PTL DEF CommitteeSpec
<1> HIDE DEF Decides
<1>3. CommitteeSpec => [][Decides]_committeeVars
  BY <1>1, <1>2, LedgerInvariant, PTL DEF CommitteeSpec
<1> QED
  BY <1>3 DEF ApprovalNeedsMajority, Decides
=============================================================================
