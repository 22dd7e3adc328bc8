----------------------------- MODULE QueryServer -----------------------------
(***************************************************************************)
(* The HTTP server of example/events-listener.ts, composed with the        *)
(* listener that shares its process and its database.  It only reads, but  *)
(* a reply is put together from several awaited reads, and the listener    *)
(* writes between them.                                                    *)
(*                                                                         *)
(* Requests do not touch each other: one in flight stands for all of them. *)
(* Filters on owner and direction, which never change in a document, only  *)
(* make a collection smaller and are left out.                             *)
(***************************************************************************)
EXTENDS EventsListener

CONSTANT Requests    \* the requests: [route, byOwner, value, offset, limit]

Routes == {"carbon_projects", "carbon_assets", "carbon_proposals", "carbon_orders",
           "carbon_deals", "standard_assets", "potential_balances"}

(* A query parameter: not given, one that parseInt turns into NaN, or a     *)
(* number, of either sign.                                                  *)
Absent == <<"absent", 0>>
Malformed == <<"malformed", 0>>
Given(n) == <<"given", n>>
Parameters == {"absent", "malformed", "given"} \X Int

ASSUME RequestAssumption ==
  Requests \subseteq [route: Routes, byOwner: BOOLEAN,
                      value: Parameters, offset: Parameters, limit: Parameters]

NoRequest == [route |-> "none"]

VARIABLES
  request,      \* the request being served
  answers,      \* what its awaited reads have returned, by name
  listed        \* history: the proposals on record when its first read ran

serverVars == <<request, answers, listed>>
allVars == <<vars, serverVars>>
-----------------------------------------------------------------------------
(* parseIntOr: what a parameter counts for. *)
ParseIntOr(value, default) == IF value[1] = "given" THEN value[2] ELSE default

(* The collection that a route reads, and the one field of its documents    *)
(* that it filters on and that changes, with the default of a malformed     *)
(* value.                                                                   *)
Route(r) ==
  CASE r.route = "carbon_projects" -> [from |-> "carbonProjects", field |-> "approved", default |-> 1]
    [] r.route = "carbon_assets" -> [from |-> "carbonAssets", field |-> "approved", default |-> 1]
    [] r.route = "carbon_proposals" -> [from |-> "carbonProposals", field |-> "state", default |-> 0]
    [] r.route = "carbon_orders" -> [from |-> "orders", field |-> "closed", default |-> 0]
    [] r.route = "carbon_deals" ->
         [from |-> IF r.byOwner THEN "userDeals" ELSE "deals", field |-> "none", default |-> 0]
    [] r.route = "standard_assets" -> [from |-> "standardAssets", field |-> "none", default |-> 0]
    [] r.route = "potential_balances" -> [from |-> "potentialBalances", field |-> "none", default |-> 0]

Unfiltered(r) == r.value = Absent \/ Route(r).field = "none"
Wanted(r) == ParseIntOr(r.value, Route(r).default)
Matches(r, doc) == Unfiltered(r) \/ doc[Route(r).field] = Wanted(r)

(* nedb's count: equal deals are documents of their own. *)
Copies(at) == IF at[1] \in {"deals", "userDeals"} THEN db[at].n ELSE 1
CountDocs(found) == Cardinality(UNION {{at} \X (1 .. Copies(at)) : at \in found})
In(c) == {at \in DOMAIN db : at[1] = c}

CountState(s) == CountDocs({at \in In("carbonProposals") : db[at].state = s})
CountAll == CountDocs(In("carbonProposals"))
CountMatching(r) == CountDocs({at \in In(Route(r).from) : Matches(r, db[at])})

(* find().sort().skip(offset).limit(limit): how many of n documents are on  *)
(* the page.  nedb returns slice(offset, offset + limit) of them, with n    *)
(* for a limit of 0; and slice counts a negative position from the end.     *)
Position(k, n) ==
  IF k < 0 THEN IF n + k < 0 THEN 0 ELSE n + k
           ELSE IF k > n THEN n ELSE k
PageLength(n, offset, limit) ==
  LET from == Position(offset, n)
      until == Position(offset + (IF limit = 0 THEN n ELSE limit), n)
  IN  IF until > from THEN until - from ELSE 0

LIMIT == 25
Offset(r) == ParseIntOr(r.offset, 0)
PageOf(r, n) == PageLength(n, Offset(r), ParseIntOr(r.limit, LIMIT))
-----------------------------------------------------------------------------
(* The reads that a route awaits, in their order: statProposals before      *)
(* findWithComplexCondition for the proposals, a single find for the        *)
(* potential balances.                                                      *)
AwaitsClosedFirst(r) ==      \* mutant: the states counted from the last one
  IF r.route = "carbon_proposals"
    THEN <<"closed", "voting", "pending", "total", "count", "docs">>
    ELSE <<"count", "docs">>
AwaitsDocsFirst(r) ==        \* mutant: the page read before the count
  IF r.route = "carbon_proposals"
    THEN <<"pending", "voting", "closed", "total", "docs", "count">>
    ELSE <<"docs", "count">>
Awaits(r) ==
  CASE r.route = "carbon_proposals" ->
         <<"pending", "voting", "closed", "total", "count", "docs">>
    [] r.route = "potential_balances" -> <<"docs">>
    [] OTHER -> <<"count", "docs">>

Read(r, what) ==
  CASE what = "pending" -> CountState(0)
    [] what = "voting" -> CountState(1)
    [] what = "closed" -> CountState(2)
    [] what = "total" -> CountAll
    [] what = "count" -> CountMatching(r)
    [] what = "docs" ->
         IF r.route = "potential_balances" THEN CountMatching(r) ELSE PageOf(r, CountMatching(r))

Complete == request # NoRequest /\ Cardinality(DOMAIN answers) = Len(Awaits(request))

(* startServer is the last thing main does.  writeFileSync leaves the event *)
(* loop no turn, and a dead worker does not stop the server.                *)
ServerUp == phase \in {"idle", "working"} \/ (phase = "dead" /\ latest > 0)
-----------------------------------------------------------------------------
Receive ==
  /\ ServerUp
  /\ request = NoRequest
  /\ request' \in Requests
  /\ UNCHANGED <<vars, answers, listed>>

Await ==
  /\ ServerUp
  /\ request # NoRequest /\ ~Complete
  /\ LET n == Cardinality(DOMAIN answers)
         what == Awaits(request)[n + 1]
     IN
     /\ answers' = Set([w \in {what} |-> Read(request, w)], answers)
     /\ listed' = IF n = 0 THEN CountAll ELSE listed
  /\ UNCHANGED <<vars, request>>

Reply ==
  /\ ServerUp
  /\ Complete
  /\ request' = NoRequest /\ answers' = <<>> /\ listed' = 0
  /\ UNCHANGED vars

(* A read that errs ends the request with `success: false`. *)
Fail ==
  /\ ServerUp
  /\ request # NoRequest /\ ~Complete
  /\ request' = NoRequest /\ answers' = <<>> /\ listed' = 0
  /\ UNCHANGED vars

(* What is in flight dies with the process. *)
CrashServing == Crash /\ request' = NoRequest /\ answers' = <<>> /\ listed' = 0

ServerInit == Init /\ request = NoRequest /\ answers = <<>> /\ listed = 0

ServerNext ==
  \/ (Finalize \/ NewFinalizedHead \/ Main \/ Work \/ RpcFails) /\ UNCHANGED serverVars
  \/ CrashServing
  \/ Receive \/ Await \/ Reply \/ Fail

(* The listener's fairness; clients are free to ask or not to. *)
ServerSpec ==
  /\ ServerInit /\ [][ServerNext]_allVars
  /\ WF_vars(Finalize) /\ WF_vars(NewFinalizedHead) /\ WF_vars(Work)
-----------------------------------------------------------------------------
(* A filter whose matches stay matches, since ReplayKeepsProgress. *)
Lasting(r) ==
  Unfiltered(r) \/ (Route(r).field = "state" /\ Wanted(r) = 2)
                \/ (Route(r).field \in {"approved", "closed"} /\ Wanted(r) = 1)

(* The page of a reply is never shorter than its count promises, whatever   *)
(* the listener writes between the two reads: a client that pages up to     *)
(* count misses nothing.  For filters whose matches last (an order counted  *)
(* as open may be closed before the page is read) and an offset from the    *)
(* start: parseIntOr lets a negative one through, and a page that begins so *)
(* far from the end and ends so far from the start shrinks as documents are *)
(* added, at -1 with the default limit from one document to none.           *)
PageKeepsCount ==
  (Complete /\ "count" \in DOMAIN answers /\ Lasting(request) /\ Offset(request) >= 0)
    => answers["docs"] >= PageOf(request, answers["count"])

(* The four counts of statProposals are read one after the other while      *)
(* proposals appear and advance, so they need not add up; but every         *)
(* proposal on record at the first read is in one of them, and none of them *)
(* exceeds the total.                                                       *)
StatsMissNothing ==
  (Complete /\ request.route = "carbon_proposals") =>
    /\ answers["pending"] + answers["voting"] + answers["closed"] >= listed
    /\ \A s \in {"pending", "voting", "closed"} : answers[s] <= answers["total"]
=============================================================================
