------------------------------ MODULE MapCalls ------------------------------
(***************************************************************************)
(* The calls to the AMap services: the briefs of a portfolio under route   *)
(* preflight (PortfolioBriefWorkerPool), the route fetches each brief runs *)
(* in parallel (RouteService.build_routes) and its nearby searches         *)
(* (MapPoiService.search_nearby), all spending one call budget; and place  *)
(* captures behind the gate.  All share the limiter of the key.            *)
(*                                                                         *)
(* The briefs of one preflight share a budget, and there are at most       *)
(* MAX_WORKERS of them here, so none is queued.  What a brief derives from *)
(* its proposal is open: any legs, with or without a repair scope, and any *)
(* nearby search.  The cooldown of MapPoiService is left open too.         *)
(***************************************************************************)
EXTENDS Integers, FiniteSets, AmapCallBudget, AmapRateGate

CONSTANTS
  Briefs,        \* briefs under preflight
  Captures,      \* place captures
  Parallelism,   \* ROUTE_MAP_REQUEST_PARALLELISM
  MaxPhases      \* bound: authorisations of all briefs together

ASSUME CallConstants ==
  /\ Nobody \notin Captures /\ Parallelism \in Nat \ {0} /\ MaxPhases \in Nat

VARIABLES
  phases,        \* authorisations made so far
  brief,         \* stage of each brief
  scope,         \* amap_route_repair_scope of its fetches, or of its search
  place,         \* the place it searches around
  fetch,         \* stage of the fetch of each leg of each brief
  capture,       \* stage of each capture
  cached,        \* RouteService._cache, answers and errors
  sent, sentNearby   \* history: requests that left, per query

callVars == <<phases, brief, scope, place, fetch, capture, cached, sent, sentNearby>>
vars == <<budgetVars, rateVars, callVars>>

Init ==
  /\ BudgetInit /\ RateInit
  /\ phases = 0 /\ cached = {}
  /\ brief = [b \in Briefs |-> "derive"]
  /\ scope = [b \in Briefs |-> Unscoped]
  /\ place \in [Briefs -> Places] /\ \A b, d \in Briefs : place[b] = place[d]
  /\ fetch = [b \in Briefs |-> [l \in Legs |-> "none"]]
  /\ capture = [c \in Captures |-> "idle"]
  /\ sent = [q \in RouteQuery |-> 0]
  /\ sentNearby = [q \in NearbyQuery |-> 0]

Stage(b, st) == brief' = [brief EXCEPT ![b] = st]
FetchStage(b, l, st) == fetch' = [fetch EXCEPT ![b][l] = st]
CaptureStage(c, st) == capture' = [capture EXCEPT ![c] = st]
Query(b, l) == <<l, scope[b]>>

----------------------------------------------------------------------------
(* A brief (PortfolioRouteFeasibilityService).  It leases a batch of legs  *)
(* and fetches all of them, or none yet (a probe of a replacement).        *)
AuthorizeLegs(b) ==
  /\ brief[b] = "derive" /\ phases < MaxPhases
  /\ \E s \in Scopes \cup {Unscoped}, legs \in SUBSET Legs \ {{}}, st \in {"derive", "routes"} :
       /\ AuthorizeRouteWork(legs \X {s})
       /\ scope' = [scope EXCEPT ![b] = s]
       /\ fetch' = [fetch EXCEPT ![b] =
                      [l \in Legs |-> IF st = "routes" /\ l \in legs THEN "check" ELSE "none"]]
       /\ Stage(b, st)
  /\ phases' = phases + 1
  /\ UNCHANGED <<rateVars, place, capture, cached, sent, sentNearby>>

(* build_routes returns when its futures have. *)
JoinFetches(b) ==
  /\ brief[b] = "routes" /\ \A l \in Legs : fetch[b][l] = "none"
  /\ Stage(b, "derive")
  /\ UNCHANGED <<budgetVars, rateVars, phases, scope, place, fetch, capture, cached, sent, sentNearby>>

(* _fetch_amap_route *)
RefuseFetch(b, l) ==
  /\ fetch[b][l] = "check" /\ ~Admitted(Query(b, l))
  /\ FetchStage(b, l, "none")
  /\ UNCHANGED <<budgetVars, rateVars, phases, brief, scope, place, capture, cached, sent, sentNearby>>

ReuseAnswer(b, l) ==
  /\ fetch[b][l] = "check" /\ Admitted(Query(b, l)) /\ Query(b, l) \in cached
  /\ FetchStage(b, l, "none")
  /\ UNCHANGED <<budgetVars, rateVars, phases, brief, scope, place, capture, cached, sent, sentNearby>>

MissCache(b, l) ==
  /\ fetch[b][l] = "check" /\ Admitted(Query(b, l)) /\ Query(b, l) \notin cached
  /\ FetchStage(b, l, "acquire")
  /\ UNCHANGED <<budgetVars, rateVars, phases, brief, scope, place, capture, cached, sent, sentNearby>>

SpendRoute(b, l) ==
  /\ fetch[b][l] = "acquire"
  /\ AcquireRoute(Query(b, l))
  /\ FetchStage(b, l, "slot")
  /\ UNCHANGED <<rateVars, phases, brief, scope, place, capture, cached, sent, sentNearby>>

(* try_acquire says no: not leased any more, asked already, or no capacity.*)
DenyRoute(b, l) ==
  /\ fetch[b][l] = "acquire" /\ ~MayAskRoute(Query(b, l))
  /\ FetchStage(b, l, "none")
  /\ UNCHANGED <<budgetVars, rateVars, phases, brief, scope, place, capture, cached, sent, sentNearby>>

(* ROUTE_MAP_REQUEST_SEMAPHORE *)
EnterRequest(b, l) ==
  /\ fetch[b][l] = "slot"
  /\ Cardinality({f \in Briefs \X Legs : fetch[f[1]][f[2]] \in {"pace", "sent"}}) < Parallelism
  /\ FetchStage(b, l, "pace")
  /\ UNCHANGED <<budgetVars, rateVars, phases, brief, scope, place, capture, cached, sent, sentNearby>>

SendRoute(b, l) ==
  /\ fetch[b][l] = "pace"
  /\ AcquireLimiter
  /\ sent' = [sent EXCEPT ![Query(b, l)] = @ + 1]
  /\ FetchStage(b, l, "sent")
  /\ UNCHANGED <<budgetVars, phases, brief, scope, place, capture, cached, sentNearby>>

(* Answers and errors are cached alike, unless the connection broke.       *)
AnswerRoute(b, l) ==
  /\ fetch[b][l] = "sent"
  /\ cached' \in {cached, cached \cup {Query(b, l)}}
  /\ FetchStage(b, l, "none")
  /\ UNCHANGED <<budgetVars, rateVars, phases, brief, scope, place, capture, sent, sentNearby>>

ExpireAnswer(q) ==
  /\ q \in cached /\ cached' = cached \ {q}
  /\ UNCHANGED <<budgetVars, rateVars, phases, brief, scope, place, fetch, capture, sent, sentNearby>>

----------------------------------------------------------------------------
(* A nearby search, for the brief's repair scope.  Its answer may be cached*)
(* from before, and the service may be cooling down, before or after the   *)
(* budget is spent.                                                        *)
AuthorizeNearby(b) ==
  /\ brief[b] = "derive" /\ phases < MaxPhases
  /\ \E p \in Places, s \in Scopes :
       /\ AuthorizeNearbyWork(p)
       /\ place' = [place EXCEPT ![b] = p] /\ scope' = [scope EXCEPT ![b] = s]
  /\ \E st \in {"search", "derive"} : Stage(b, st)
  /\ phases' = phases + 1
  /\ UNCHANGED <<rateVars, fetch, capture, cached, sent, sentNearby>>

Search(b) == <<place[b], scope[b]>>

SpendNearby(b) ==
  /\ brief[b] = "search"
  /\ AcquireNearby(Search(b))
  /\ \E st \in {"pace", "derive"} : Stage(b, st)
  /\ UNCHANGED <<rateVars, phases, scope, place, fetch, capture, cached, sent, sentNearby>>

DenyNearby(b) ==
  /\ brief[b] = "search" /\ ~MayAskNearby(Search(b))
  /\ Stage(b, "derive")
  /\ UNCHANGED <<budgetVars, rateVars, phases, scope, place, fetch, capture, cached, sent, sentNearby>>

SendNearby(b) ==
  /\ brief[b] = "pace"
  /\ AcquireLimiter
  /\ sentNearby' = [sentNearby EXCEPT ![Search(b)] = @ + 1]
  /\ Stage(b, "sent")
  /\ UNCHANGED <<budgetVars, phases, scope, place, fetch, capture, cached, sent>>

AnswerNearby(b) ==
  /\ brief[b] = "sent"
  /\ Stage(b, "derive")
  /\ UNCHANGED <<budgetVars, rateVars, phases, scope, place, fetch, capture, cached, sent, sentNearby>>

----------------------------------------------------------------------------
(* A place capture (external_call_lease and the transport around it). *)
captureFrame == <<budgetVars, phases, brief, scope, place, fetch, cached, sent, sentNearby>>

EnterGate(c) ==
  /\ capture[c] = "idle" /\ TakeGate(c)
  /\ CaptureStage(c, "entered") /\ UNCHANGED captureFrame

RaiseCooling(c) ==
  /\ capture[c] \in {"entered", "paced"} /\ cooling > 0
  /\ LeaveGate(c)
  /\ CaptureStage(c, "idle") /\ UNCHANGED captureFrame

PassCooling(c) ==
  /\ capture[c] = "entered" /\ cooling = 0
  /\ CaptureStage(c, "pace") /\ UNCHANGED <<captureFrame, rateVars>>

PaceCapture(c) ==
  /\ capture[c] = "pace" /\ AcquireLimiter
  /\ CaptureStage(c, "paced") /\ UNCHANGED captureFrame

(* Slips for the mutation runs. *)
OpenOutsideGate(c) ==
  /\ capture[c] = "paced" /\ cooling = 0
  /\ LeaveGate(c)
  /\ CaptureStage(c, "open") /\ UNCHANGED captureFrame

OpenCapture(c) ==
  /\ capture[c] = "paced" /\ cooling = 0
  /\ CaptureStage(c, "open") /\ UNCHANGED <<captureFrame, rateVars>>

AnswerCapture(c) ==
  /\ capture[c] = "open"
  /\ IF gate = c THEN LeaveGate(c) ELSE UNCHANGED rateVars
  /\ CaptureStage(c, "idle") /\ UNCHANGED captureFrame

RefuseCapture(c) ==
  /\ capture[c] = "open" /\ SeeRefusal
  /\ CaptureStage(c, "refused") /\ UNCHANGED captureFrame

MarkCapture(c) ==
  /\ capture[c] = "refused" /\ MarkRateLimited(c)
  /\ CaptureStage(c, "idle") /\ UNCHANGED captureFrame

Time == Tick /\ UNCHANGED <<budgetVars, callVars>>

Next ==
  \/ \E b \in Briefs :
       \/ AuthorizeLegs(b) \/ JoinFetches(b)
       \/ AuthorizeNearby(b) \/ SpendNearby(b) \/ DenyNearby(b) \/ SendNearby(b) \/ AnswerNearby(b)
       \/ \E l \in Legs :
            \/ RefuseFetch(b, l) \/ ReuseAnswer(b, l) \/ MissCache(b, l) \/ SpendRoute(b, l)
            \/ DenyRoute(b, l) \/ EnterRequest(b, l) \/ SendRoute(b, l) \/ AnswerRoute(b, l)
  \/ \E q \in RouteQuery : ExpireAnswer(q)
  \/ \E c \in Captures :
       \/ EnterGate(c) \/ RaiseCooling(c) \/ PassCooling(c) \/ PaceCapture(c) \/ OpenCapture(c)
       \/ AnswerCapture(c) \/ RefuseCapture(c) \/ MarkCapture(c)
  \/ Time

Spec == Init /\ [][Next]_vars

----------------------------------------------------------------------------
(* Properties. *)

(* Two briefs that derive the same leg, two fetches that miss the cache at *)
(* once, an answer that expires or is lost: a query leaves at most once per*)
(* preflight, and only while the budget holds a lease for it.              *)
AskedOnce ==
  /\ \A q \in RouteQuery : sent[q] <= 1 /\ (sent[q] > 0 => q \in leases)
  /\ \A q \in NearbyQuery : sentNearby[q] <= 1 /\ (sentNearby[q] > 0 => q[1] \in nearbyWork)

(* When the provider has refused a capture as one too many, no other       *)
(* capture opens before the cooldown is over, even one that was already    *)
(* waiting: the gate is held from the check to the end of the call.        *)
RefusalStopsCaptures ==
  [][\A c \in Captures :
       capture[c] = "paced" /\ capture'[c] = "open" => refusedAgo >= Cooldown]_vars
=============================================================================
