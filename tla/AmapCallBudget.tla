--------------------------- MODULE AmapCallBudget ---------------------------
(***************************************************************************)
(* The call budget of one route preflight (amap_call_budget.py,            *)
(* source creative_portfolio_route_preflight).  It starts at zero and grows*)
(* with the work its brief derives from the proposal: every distinct route *)
(* leg, once without a scope or once per repair scope, and every distinct  *)
(* nearby search is one call.  What a call asked is kept in a ledger, and  *)
(* nobody asks it again.                                                   *)
(*                                                                         *)
(* A leg is an origin, a destination and a mode; a repair scope stands for *)
(* its certificate, whose validation is left out.  Text and detail searches*)
(* have no allowance here and are always refused.                          *)
(***************************************************************************)
EXTENDS Naturals, FiniteSets

CONSTANTS
  Legs,          \* route legs that can be derived from the proposal
  Places,        \* nearby searches: centre, keyword, category and radius
  Scopes,        \* fingerprints of repair scopes
  Unscoped       \* work that is leased without a certificate

ASSUME BudgetConstants ==
  /\ IsFiniteSet(Legs) /\ IsFiniteSet(Places) /\ IsFiniteSet(Scopes)
  /\ Unscoped \notin Scopes

VARIABLES
  leases,        \* authorized_route_unscoped_work and authorized_route_scope_leases
  nearbyWork,    \* authorized_place_around_work
  routeMax, aroundMax, totalMax,
  asked,         \* query_ledger, the part about legs
  askedNearby,   \* query_ledger, the part about nearby searches
  usedRoute, usedAround

budgetVars == <<leases, nearbyWork, routeMax, aroundMax, totalMax,
                asked, askedNearby, usedRoute, usedAround>>

RouteQuery == Legs \X (Scopes \cup {Unscoped})
NearbyQuery == Places \X Scopes

BudgetInit ==
  /\ leases = {} /\ nearbyWork = {} /\ asked = {} /\ askedNearby = {}
  /\ routeMax = 0 /\ aroundMax = 0 /\ totalMax = 0
  /\ usedRoute = 0 /\ usedAround = 0

----------------------------------------------------------------------------
(* Slips for the mutation runs. *)
AuthorizeCountingLegs(batch) ==
  /\ leases' = leases \cup batch
  /\ routeMax' = Cardinality({q[1] : q \in leases'})
  /\ totalMax' = routeMax' + aroundMax
  /\ UNCHANGED <<nearbyWork, aroundMax, asked, askedNearby, usedRoute, usedAround>>

(* authorize_route_work: the whole batch is checked before the lock; one   *)
(* bad request refuses it and changes nothing.                             *)
AuthorizeRouteWork(batch) ==
  /\ leases' = leases \cup batch
  /\ routeMax' = Cardinality(leases')
  /\ totalMax' = routeMax' + aroundMax
  /\ UNCHANGED <<nearbyWork, aroundMax, asked, askedNearby, usedRoute, usedAround>>

AuthorizeNearbyWork(place) ==
  /\ nearbyWork' = nearbyWork \cup {place}
  /\ aroundMax' = Cardinality(nearbyWork')
  /\ totalMax' = routeMax + aroundMax'
  /\ UNCHANGED <<leases, routeMax, asked, askedNearby, usedRoute, usedAround>>

(* _validate_route_work_locked: once a leg has a scoped lease, its unscoped*)
(* lease no longer counts.                                                 *)
Admitted(q) ==
  /\ q \in leases
  /\ q[2] = Unscoped => \A s \in Scopes : <<q[1], s>> \notin leases

WithinTotal == usedRoute + usedAround < totalMax
RouteCapacity == WithinTotal /\ usedRoute < routeMax
NearbyCapacity == WithinTotal /\ usedAround < aroundMax

(* Slips for the mutation runs. *)
MayAskAgain(q) == Admitted(q) /\ RouteCapacity

(* try_acquire: what it grants, and what granting it spends. *)
MayAskRoute(q) == Admitted(q) /\ q \notin asked /\ RouteCapacity
MayAskNearby(q) == q \notin askedNearby /\ NearbyCapacity

AcquireRoute(q) ==
  /\ MayAskRoute(q)
  /\ asked' = asked \cup {q} /\ usedRoute' = usedRoute + 1
  /\ UNCHANGED <<leases, nearbyWork, routeMax, aroundMax, totalMax, askedNearby, usedAround>>

AcquireNearby(q) ==
  /\ MayAskNearby(q)
  /\ askedNearby' = askedNearby \cup {q} /\ usedAround' = usedAround + 1
  /\ UNCHANGED <<leases, nearbyWork, routeMax, aroundMax, totalMax, asked, usedRoute>>

(* The budget's lock makes each of them one step; any number of workers. *)
BudgetNext ==
  \/ \E batch \in SUBSET RouteQuery : AuthorizeRouteWork(batch)
  \/ \E p \in Places : AuthorizeNearbyWork(p)
  \/ \E q \in RouteQuery : AcquireRoute(q)
  \/ \E q \in NearbyQuery : AcquireNearby(q)

BudgetSpec == BudgetInit /\ [][BudgetNext]_budgetVars

----------------------------------------------------------------------------
(* The limits never refuse a leg the budget has leased and nobody has asked*)
(* yet, although nearby searches spend from the same total: what a brief   *)
(* authorised it can always pay for (for_creative_portfolio_route_preflight*)
(* says the envelope is exactly the derived work).                         *)
RouteWorkFits == \A q \in leases \ asked : RouteCapacity
=============================================================================
