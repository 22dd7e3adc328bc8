-------------------------- MODULE CarbonCommittee --------------------------
(***************************************************************************)
(* The carbon committee of the runtime, composed with pallet-carbon-assets *)
(* whose approve_* calls it makes: the collective CarbonCommittee votes on *)
(* motions while the membership pallet, at the order of the council,       *)
(* changes who its members are.  The pallets are Substrate's; what the     *)
(* runtime decides is how they are wired together and which origin may     *)
(* approve.                                                                *)
(*                                                                         *)
(* The other motions of the committee change nothing that is modelled, and *)
(* its execute call runs with the origin of one member, which              *)
(* ApproveOrigin refuses.  MaxMembers is only logged by the collective.    *)
(***************************************************************************)
EXTENDS CarbonAssets

CONSTANTS
  Candidates,             \* the accounts that may be put on the committee
  GenesisMembers,         \* the committee at genesis
  NoPrime,                \* Prime = None
  Thresholds,             \* arguments of propose
  CarbonMotionDuration,   \* blocks until a motion may be closed undecided
  CarbonMaxProposals

ASSUME CommitteeAssumption ==
  /\ IsFiniteSet(Candidates) /\ NoPrime \notin Candidates
  /\ GenesisMembers \subseteq Candidates
  /\ Thresholds \subseteq Nat
  /\ CarbonMotionDuration \in Nat
  /\ CarbonMaxProposals \in Nat

VARIABLES
  members, prime,   \* Members and Prime of the collective
  Voting,           \* the open motions: id of the application -> Votes
  origin            \* history: the origin of the last dispatched approval

committeeVars == <<vars, members, prime, Voting, origin>>

(* The applications that a motion can be about, submitted yet or not.       *)
Applications == ProjectIds \cup AssetIds \cup IssueIds \cup BurnIds

(* Votes, with the blocks left before its end instead of the end. *)
Votes ==
  [threshold: Thresholds, ayes: SUBSET Candidates, nays: SUBSET Candidates,
   left: 0 .. CarbonMotionDuration]

CommitteeTypeOK ==
  /\ TypeOK
  /\ members \subseteq Candidates
  /\ prime \in Candidates \cup {NoPrime}
  /\ DOMAIN Voting \subseteq Applications /\ Voting \in [DOMAIN Voting -> Votes]
  /\ origin \in {"none", "root", "members"}

CommitteeInit ==
  /\ Init
  /\ members = GenesisMembers /\ prime = NoPrime
  /\ Voting = <<>>
  /\ origin = "none"

Seats == Cardinality(members)
-----------------------------------------------------------------------------
(* EnsureProportionMoreThan<_1, _2, ..>: of the origin that a motion gets,  *)
(* Members(threshold, seats).                                               *)
ApproveOriginAtLeastHalf(threshold) == 2 * threshold >= Seats   \* mutant: half is enough
ApproveOrigin(threshold) == 2 * threshold > Seats

(* An application waits for its approval, and why approve_* may refuse it.  *)
Waits(id) ==
  \/ id \in DOMAIN Projects /\ Projects[id].status = 0
  \/ id \in DOMAIN Assets /\ Assets[id].status = 0
  \/ id \in DOMAIN Issues /\ Issues[id].status = 0
  \/ id \in DOMAIN Burns /\ Burns[id].status = 0
OverLimit(id) ==
  \/ /\ id \in DOMAIN Assets
     /\ ~WithinLimit(Projects[Assets[id].project_id], Assets[id].initial_supply)
  \/ /\ id \in DOMAIN Issues
     /\ ~WithinLimit(Projects[Assets[Issues[id].asset_id].project_id], Issues[id].amount)

(* The dispatch of approve_*(id) with the origin Members(threshold, seats): *)
(* BadOrigin, an error of the call, or the call.  The collective reports    *)
(* the result in an event and goes on in every case.                        *)
Dispatch(threshold, id) ==
  \/ /\ ApproveOrigin(threshold)
     /\ approve(id)
     /\ origin' = "members"
  \/ /\ ~ApproveOrigin(threshold) \/ ~Waits(id) \/ OverLimit(id)
     /\ events' = <<>> /\ origin' = "none"
     /\ UNCHANGED <<carbonVars, history>>

Unapproved == events' = <<>> /\ origin' = "none" /\ UNCHANGED <<carbonVars, history>>
-----------------------------------------------------------------------------
(* A threshold below two needs no vote but the proposer's. *)
propose_alone(who, threshold, id) ==
  /\ who \in members
  /\ id \notin DOMAIN Voting
  /\ threshold < 2
  /\ Dispatch(1, id)
  /\ UNCHANGED <<members, prime, Voting>>

propose(who, threshold, id) ==
  /\ who \in members
  /\ id \notin DOMAIN Voting
  /\ threshold >= 2
  /\ Cardinality(DOMAIN Voting) < CarbonMaxProposals
  /\ Voting' = Insert(Voting, id,
       [threshold |-> threshold, ayes |-> {who}, nays |-> {}, left |-> CarbonMotionDuration])
  /\ Unapproved
  /\ UNCHANGED <<members, prime>>

vote(who, id, aye) ==
  /\ who \in members
  /\ who \notin (IF aye THEN Voting[id].ayes ELSE Voting[id].nays)
  /\ Voting' = [Voting EXCEPT
       ![id].ayes = IF aye THEN @ \cup {who} ELSE @ \ {who},
       ![id].nays = IF aye THEN @ \ {who} ELSE @ \cup {who}]
  /\ Unapproved
  /\ UNCHANGED <<members, prime>>

(* Who has not voted counts as the prime's aye, if there is one, and as a   *)
(* nay otherwise (PrimeDefaultVote).                                        *)
AyesAtEnd(motion) ==
  IF prime \in motion.ayes THEN Seats - Cardinality(motion.nays)
  ELSE Cardinality(motion.ayes)

(* close, by anybody: a decided motion at once, any other after its end. *)
close(id) ==
  LET motion == Voting[id]
      approved == Cardinality(motion.ayes) >= motion.threshold
      disapproved == Seats - Cardinality(motion.nays) < motion.threshold
  IN
  /\ \/ approved /\ Dispatch(motion.threshold, id)
     \/ ~approved /\ disapproved /\ Unapproved
     \/ /\ ~approved /\ ~disapproved /\ motion.left = 0
        /\ IF AyesAtEnd(motion) >= motion.threshold
             THEN Dispatch(motion.threshold, id)
             ELSE Unapproved
  /\ Voting' = Remove(Voting, id)
  /\ UNCHANGED <<members, prime>>

(* disapprove_proposal, by root. *)
disapprove_proposal(id) ==
  /\ Voting' = Remove(Voting, id)
  /\ Unapproved
  /\ UNCHANGED <<members, prime>>

(* A block passes, and with it time for every open motion. *)
ElapsedPastEnd(motion) == [motion EXCEPT !.left = @ - 1]    \* mutant: the end is never reached
Elapsed(motion) == [motion EXCEPT !.left = IF @ = 0 THEN 0 ELSE @ - 1]

NewBlock ==
  /\ DOMAIN Voting # {}
  /\ Voting' = [id \in DOMAIN Voting |-> Elapsed(Voting[id])]
  /\ Unapproved
  /\ UNCHANGED <<members, prime>>
-----------------------------------------------------------------------------
(* MembershipChanged = CarbonCommittee: the votes of those who leave are    *)
(* taken out of every motion.                                               *)
VotesKept(motion, new) == motion     \* mutant: the votes of former members stay
VotesOfMembers(motion, new) ==
  [motion EXCEPT !.ayes = @ \cap new, !.nays = @ \cap new]

(* add_member, remove_member, swap_member, reset_members by more than half  *)
(* of the council or root, and a member's change_key.  Depending on the     *)
(* call the collective keeps, moves or forgets its prime.                   *)
change_members(new) ==
  /\ new # members
  /\ members' = new
  /\ prime' \in new \cup {NoPrime}
  /\ Voting' = [id \in DOMAIN Voting |-> VotesOfMembers(Voting[id], new)]
  /\ Unapproved

(* set_prime and clear_prime, by more than half of the council or root. *)
set_prime(who) ==
  /\ prime' = who
  /\ Unapproved
  /\ UNCHANGED <<members, Voting>>

(* Root approves by itself: the sudo key, or a referendum. *)
root_approve(id) ==
  /\ approve(id)
  /\ origin' = "root"
  /\ UNCHANGED <<members, prime, Voting>>

request ==
  /\ Requests
  /\ origin' = "none"
  /\ UNCHANGED <<members, prime, Voting>>

CommitteeNext ==
  \/ request
  \/ \E id \in Records : root_approve(id)
  \/ \E who \in members, threshold \in Thresholds, id \in Applications :
       propose_alone(who, threshold, id) \/ propose(who, threshold, id)
  \/ \E who \in members, id \in DOMAIN Voting, aye \in BOOLEAN : vote(who, id, aye)
  \/ \E id \in DOMAIN Voting : close(id) \/ disapprove_proposal(id)
  \/ NewBlock
  \/ \E new \in SUBSET Candidates : change_members(new)
  \/ \E who \in (members \cup {NoPrime}) \ {prime} : set_prime(who)

CommitteeSpec == CommitteeInit /\ [][CommitteeNext]_committeeVars
-----------------------------------------------------------------------------
(* Whatever the council does to the committee while a motion is open, only  *)
(* members have a vote in it, and no member has two.                        *)
VotersAreMembers ==
  /\ prime \in members \cup {NoPrime}
  /\ \A id \in DOMAIN Voting :
       /\ Voting[id].ayes \cup Voting[id].nays \subseteq members
       /\ Voting[id].ayes \cap Voting[id].nays = {}

(* The threshold of a motion is fixed when it is proposed and compared with *)
(* the seats when it is closed, perhaps after members came and went.  Still *)
(* the committee approves nothing without the ayes of more than half of its *)
(* members of that moment; or, when the motion ran to its end, without the  *)
(* aye of its prime and fewer than half of the members against it.          *)
ApprovalNeedsMajority ==
  [][\A id \in Applications :
       (Waits(id) /\ ~Waits(id)' /\ origin' = "members") =>
         \/ id \notin DOMAIN Voting /\ Seats = 1
         \/ /\ id \in DOMAIN Voting
            /\ \/ 2 * Cardinality(Voting[id].ayes) > Seats
               \/ /\ Voting[id].left = 0
                  /\ prime \in Voting[id].ayes
                  /\ 2 * Cardinality(Voting[id].nays) < Seats]_committeeVars
=============================================================================
