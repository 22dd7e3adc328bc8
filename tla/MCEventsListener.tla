-------------------------- MODULE MCEventsListener --------------------------
(***************************************************************************)
(* Small chains and a few requests for EventsListener and QueryServer.     *)
(***************************************************************************)
EXTENDS QueryServer

E(name, id, asset, who, pid) ==
  [name |-> name, id |-> id, asset |-> asset, who |-> who, pid |-> pid]
Of(name, id) == E(name, id, "-", "-", "-")

(* An application from its submission to its approval by the committee. *)
Approvals ==
  << <<Of("ProjectSubmited", "p1"), E("Proposed", "p1", "-", "-", "h1"),
       E("Voted", "p1", "-", "-", "h1")>>,
     <<E("Closed", "p1", "-", "-", "h1"), Of("ProjectApproved", "p1"),
       E("Approved", "p1", "-", "-", "h1"), Of("AssetSubmited", "a1")>>,
     <<E("AssetApproved", "a1", "a1", "alice", "-"), E("BurnSubmited", "b1", "a1", "-", "-"),
       E("Disapproved", "i1", "-", "-", "h2"), Of("IssueApproved", "b1")>> >>

(* An order that is dealt in three parts, and a transfer. *)
Trade ==
  << <<Of("AssetSubmited", "a1"), E("NewOrder", "o1", "a1", "-", "-")>>,
     <<E("NewDeal", "o1", "a1", "bob", "-"), E("NewDeal", "o1", "a1", "carol", "-")>>,
     <<Of("OrderFinished", "o1"), E("NewDeal", "o1", "a1", "bob", "-")>> >>

(* Credits to three accounts and in two assets; one of them in an asset that *)
(* is issued only after it was minted and transferred.                       *)
Credits ==
  << <<Of("AssetSubmited", "a1"), E("Transferred", "a1", "a1", "alice", "-")>>,
     <<E("Transferred", "a1", "a1", "carol", "-"), Of("Minted", "s1"),
       E("StandardTransferred", "s1", "s1", "bob", "-"), E("NewAsset", "s1", "s1", "carol", "-")>>,
     <<E("StandardTransferred", "s1", "s1", "alice", "-"), Of("Neutralized", "a1")>> >>

AllChains == {Approvals, Trade, Credits}

(* Two accounts and two assets whose prefixes do not differ. *)
SharedPrefixes ==
  [x \in {"alice", "bob", "carol", "a1", "s1", "-"} |->
     CASE x = "bob" -> "alice" [] x = "s1" -> "a1" [] OTHER -> x]

(* Every route; filters that are absent, given and malformed; a page of one, *)
(* the default page, one without a limit, and a limit and an offset that are *)
(* negative.                                                                 *)
R(route, byOwner, value, offset, limit) ==
  [route |-> route, byOwner |-> byOwner, value |-> value, offset |-> offset, limit |-> limit]
SomeRequests ==
  {R("carbon_projects", FALSE, Malformed, Absent, Absent),
   R("carbon_assets", FALSE, Given(0), Given(0), Given(1)),
   R("carbon_proposals", FALSE, Given(2), Given(0), Given(0)),
   R("carbon_orders", FALSE, Given(1), Malformed, Given(1)),
   R("carbon_deals", FALSE, Absent, Given(1), Given(1)),
   R("carbon_deals", TRUE, Absent, Given(0), Given(-1)),
   R("carbon_deals", TRUE, Absent, Given(-1), Given(2)),
   R("standard_assets", FALSE, Absent, Given(0), Absent),
   R("potential_balances", FALSE, Absent, Absent, Absent)}
=============================================================================
