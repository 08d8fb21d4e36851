--------------------------- MODULE MapCallsProofs ---------------------------
(***************************************************************************)
(* What TLAPS proves of the map calls for any number of legs, scopes,      *)
(* places, briefs and captures, and any limits: a brief can always pay for *)
(* the legs it has leased, no query leaves twice, the calls keep their     *)
(* pace, and a refusal stops the captures.                                 *)
(***************************************************************************)
EXTENDS MapCalls, FiniteSetTheorems, SequenceTheorems, WellFoundedInduction, TLAPS

----------------------------------------------------------------------------
(* The counters and limits of the envelope are those of its ledgers. *)
EnvelopeInv ==
  /\ leases \subseteq RouteQuery /\ asked \subseteq leases
  /\ nearbyWork \subseteq Places
  /\ usedRoute = Cardinality(asked) /\ routeMax = Cardinality(leases)
  /\ aroundMax = Cardinality(nearbyWork) /\ usedAround \in Nat /\ usedAround <= aroundMax
  /\ totalMax = routeMax + aroundMax

LEMMA QueriesFinite == IsFiniteSet(RouteQuery)
<1>1. IsFiniteSet(Scopes \cup {Unscoped})
  BY BudgetConstants, FS_AddElement
<1> QED BY <1>1, BudgetConstants, FS_Product DEF RouteQuery

(* The sets of the envelope are finite, so its numbers are natural. *)
LEMMA LedgersFinite ==
  ASSUME EnvelopeInv
  PROVE  /\ IsFiniteSet(leases) /\ IsFiniteSet(asked) /\ IsFiniteSet(nearbyWork)
         /\ routeMax \in Nat /\ usedRoute \in Nat /\ aroundMax \in Nat
<1>1. IsFiniteSet(leases)
  BY QueriesFinite, FS_Subset DEF EnvelopeInv
<1>2. IsFiniteSet(asked)
  BY <1>1, FS_Subset DEF EnvelopeInv
<1>3. IsFiniteSet(nearbyWork)
  BY BudgetConstants, FS_Subset DEF EnvelopeInv
<1> QED BY <1>1, <1>2, <1>3, FS_CardinalityType DEF EnvelopeInv

LEMMA EnvelopeInit == BudgetInit => EnvelopeInv
BY FS_EmptySet DEF BudgetInit, EnvelopeInv

LEMMA LeasesKeep ==
  ASSUME EnvelopeInv, NEW batch \in SUBSET RouteQuery, AuthorizeRouteWork(batch)
  PROVE  EnvelopeInv'
BY DEF AuthorizeRouteWork, EnvelopeInv

(* A further nearby search only widens the allowance. *)
LEMMA NearbyLeaseKeeps ==
  ASSUME EnvelopeInv, NEW p \in Places, AuthorizeNearbyWork(p)
  PROVE  EnvelopeInv'
<1>1. /\ IsFiniteSet(nearbyWork) /\ aroundMax \in Nat /\ routeMax \in Nat
  BY LedgersFinite
<1>2. IsFiniteSet(nearbyWork \cup {p})
  BY <1>1, FS_AddElement
<1>3. /\ Cardinality(nearbyWork \cup {p}) \in Nat
      /\ Cardinality(nearbyWork) <= Cardinality(nearbyWork \cup {p})
  BY <1>2, FS_Subset, FS_CardinalityType
<1>4. aroundMax' = Cardinality(nearbyWork \cup {p}) /\ nearbyWork' = nearbyWork \cup {p}
  BY DEF AuthorizeNearbyWork
<1> QED BY <1>1, <1>3, <1>4 DEF AuthorizeNearbyWork, EnvelopeInv

LEMMA RouteSpendKeeps ==
  ASSUME EnvelopeInv, NEW q, AcquireRoute(q)
  PROVE  EnvelopeInv'
<1>1. q \in leases /\ q \notin asked
  BY DEF AcquireRoute, MayAskRoute, Admitted
<1>2. Cardinality(asked \cup {q}) = usedRoute + 1
  BY <1>1, LedgersFinite, FS_AddElement DEF EnvelopeInv
<1> QED BY <1>1, <1>2 DEF AcquireRoute, EnvelopeInv

LEMMA NearbySpendKeeps ==
  ASSUME EnvelopeInv, NEW q, AcquireNearby(q)
  PROVE  EnvelopeInv'
<1>1. usedAround' \in Nat /\ usedAround' <= aroundMax
  BY LedgersFinite DEF AcquireNearby, MayAskNearby, NearbyCapacity, EnvelopeInv
<1> QED BY <1>1 DEF AcquireNearby, EnvelopeInv

LEMMA EnvelopeStep == EnvelopeInv /\ [BudgetNext]_budgetVars => EnvelopeInv'
<1> SUFFICES ASSUME EnvelopeInv, [BudgetNext]_budgetVars
             PROVE  EnvelopeInv'
  OBVIOUS
<1>1. CASE \E batch \in SUBSET RouteQuery : AuthorizeRouteWork(batch)
  BY <1>1, LeasesKeep
<1>2. CASE \E p \in Places : AuthorizeNearbyWork(p)
  BY <1>2, NearbyLeaseKeeps
<1>3. CASE \E q \in RouteQuery : AcquireRoute(q)
  BY <1>3, RouteSpendKeeps
<1>4. CASE \E q \in NearbyQuery : AcquireNearby(q)
  BY <1>4, NearbySpendKeeps
<1>5. CASE UNCHANGED budgetVars
  BY <1>5 DEF budgetVars, EnvelopeInv
<1> QED BY <1>1, <1>2, <1>3, <1>4, <1>5 DEF BudgetNext

(* A lease nobody has used is one the route counter has not spent, and     *)
(* nearby searches cannot have spent more than their own share.            *)
LEMMA EnvelopeFits == EnvelopeInv => RouteWorkFits
<1> SUFFICES ASSUME EnvelopeInv, NEW q \in leases, q \notin asked
             PROVE  RouteCapacity
  BY DEF RouteWorkFits
<1>1. usedRoute \in Nat /\ routeMax \in Nat /\ usedRoute <= routeMax /\ usedRoute # routeMax
  BY LedgersFinite, FS_Subset DEF EnvelopeInv
<1> QED BY <1>1, LedgersFinite DEF RouteCapacity, WithinTotal, EnvelopeInv

----------------------------------------------------------------------------
(* The callers use the budget by its own operations only: MapCalls         *)
(* implements BudgetSpec.                                                  *)
CallersInv ==
  /\ scope \in [Briefs -> Scopes \cup {Unscoped}]
  /\ place \in [Briefs -> Places]
  /\ brief \in [Briefs -> {"derive", "routes", "search", "pace", "sent"}]
  /\ \A b \in Briefs : brief[b] = "search" => scope[b] \in Scopes

LEMMA CallersInit == Init => CallersInv /\ BudgetInit
BY DEF Init, CallersInv

LEMMA CallersStep == CallersInv /\ [Next]_vars => CallersInv' /\ [BudgetNext]_budgetVars
<1> SUFFICES ASSUME CallersInv, [Next]_vars
             PROVE  CallersInv' /\ [BudgetNext]_budgetVars
  OBVIOUS
<1> USE DEF CallersInv
<1>1. ASSUME NEW b \in Briefs, AuthorizeLegs(b)
      PROVE  CallersInv' /\ BudgetNext
  <2>1. PICK s \in Scopes \cup {Unscoped}, legs \in SUBSET Legs \ {{}}, st \in {"derive", "routes"} :
          /\ AuthorizeRouteWork(legs \X {s})
          /\ scope' = [scope EXCEPT ![b] = s]
          /\ brief' = [brief EXCEPT ![b] = st]
    BY <1>1 DEF AuthorizeLegs, Stage
  <2>2. legs \X {s} \in SUBSET RouteQuery
    BY DEF RouteQuery
  <2>3. BudgetNext
    BY <2>1, <2>2 DEF BudgetNext
  <2> QED BY <1>1, <2>1, <2>3 DEF AuthorizeLegs
<1>2. ASSUME NEW b \in Briefs, AuthorizeNearby(b)
      PROVE  CallersInv' /\ BudgetNext
  <2>1. PICK p \in Places, s \in Scopes :
          /\ AuthorizeNearbyWork(p)
          /\ place' = [place EXCEPT ![b] = p] /\ scope' = [scope EXCEPT ![b] = s]
    BY <1>2 DEF AuthorizeNearby
  <2>2. BudgetNext
    BY <2>1 DEF BudgetNext
  <2>3. \A d \in Briefs : d # b => brief'[d] = brief[d] /\ scope'[d] = scope[d]
    BY <1>2, <2>1 DEF AuthorizeNearby, Stage
  <2>4. brief' \in [Briefs -> {"derive", "routes", "search", "pace", "sent"}]
    BY <1>2 DEF AuthorizeNearby, Stage
  <2>5. /\ scope' \in [Briefs -> Scopes \cup {Unscoped}] /\ scope'[b] \in Scopes
        /\ place' \in [Briefs -> Places]
    BY <2>1
  <2>6. \A d \in Briefs : brief'[d] = "search" => scope'[d] \in Scopes
    BY <2>3, <2>5
  <2> QED BY <2>2, <2>4, <2>5, <2>6
<1>3. ASSUME NEW b \in Briefs, NEW l \in Legs, SpendRoute(b, l)
      PROVE  CallersInv' /\ BudgetNext
  <2>1. Query(b, l) \in RouteQuery
    BY DEF Query, RouteQuery
  <2> QED BY <1>3, <2>1 DEF SpendRoute, BudgetNext
<1>4. ASSUME NEW b \in Briefs, SpendNearby(b)
      PROVE  CallersInv' /\ BudgetNext
  <2>1. Search(b) \in NearbyQuery
    BY <1>4 DEF SpendNearby, Search, NearbyQuery
  <2>2. BudgetNext
    BY <1>4, <2>1 DEF SpendNearby, BudgetNext
  <2> QED BY <1>4, <2>2 DEF SpendNearby, Stage
<1>5. ASSUME NEW b \in Briefs,
             JoinFetches(b) \/ DenyNearby(b) \/ SendNearby(b) \/ AnswerNearby(b)
      PROVE  CallersInv' /\ UNCHANGED budgetVars
  <2>1. /\ UNCHANGED <<budgetVars, scope, place>>
        /\ brief' \in {[brief EXCEPT ![b] = "derive"], [brief EXCEPT ![b] = "sent"]}
    BY <1>5 DEF JoinFetches, DenyNearby, SendNearby, AnswerNearby, Stage
  <2> QED BY <2>1
<1>6. ASSUME NEW b \in Briefs, NEW l \in Legs,
             \/ RefuseFetch(b, l) \/ ReuseAnswer(b, l) \/ MissCache(b, l) \/ DenyRoute(b, l)
             \/ EnterRequest(b, l) \/ SendRoute(b, l) \/ AnswerRoute(b, l)
      PROVE  CallersInv' /\ UNCHANGED budgetVars
  BY <1>6 DEF RefuseFetch, ReuseAnswer, MissCache, DenyRoute, EnterRequest, SendRoute, AnswerRoute
<1>7. ASSUME NEW q \in RouteQuery, ExpireAnswer(q)
      PROVE  CallersInv' /\ UNCHANGED budgetVars
  BY <1>7 DEF ExpireAnswer
<1>8. ASSUME NEW c \in Captures,
             \/ EnterGate(c) \/ RaiseCooling(c) \/ PassCooling(c) \/ PaceCapture(c) \/ OpenCapture(c)
             \/ AnswerCapture(c) \/ RefuseCapture(c) \/ MarkCapture(c)
      PROVE  CallersInv' /\ UNCHANGED budgetVars
  <2>1. UNCHANGED captureFrame
    BY <1>8 DEF EnterGate, RaiseCooling, PassCooling, PaceCapture, OpenCapture, AnswerCapture,
                RefuseCapture, MarkCapture
  <2> QED BY <2>1 DEF captureFrame
<1>9. CASE Time
  BY <1>9 DEF Time, callVars
<1>10. CASE UNCHANGED vars
  BY <1>10 DEF vars, callVars
<1> QED BY <1>1, <1>2, <1>3, <1>4, <1>5, <1>6, <1>7, <1>8, <1>9, <1>10 DEF Next

(* The composed system uses the budget as the component allows. *)
THEOREM CallsImplementBudget == Spec => BudgetSpec
BY CallersInit, CallersStep, PTL DEF Spec, BudgetSpec

(* Whatever the briefs derive and in whatever order they spend, every leg  *)
(* they leased and nobody asked can still be paid for.                     *)
THEOREM LeasesArePaid == Spec => []RouteWorkFits
<1>1. BudgetSpec => []EnvelopeInv
  BY EnvelopeInit, EnvelopeStep, PTL DEF BudgetSpec
<1> QED BY <1>1, EnvelopeFits, CallsImplementBudget, PTL

----------------------------------------------------------------------------
(* No query leaves twice. *)

Paying == {"slot", "pace"}

(* A fetch that has spent for its query and not sent it is the only one of *)
(* its query, and the ledger holds what was spent for.                     *)
FetchesPay ==
  /\ fetch \in [Briefs -> [Legs -> {"none", "check", "acquire", "slot", "pace", "sent"}]]
  /\ sent \in [RouteQuery -> {0, 1}]
  /\ \A q \in RouteQuery : sent[q] = 1 => q \in asked
  /\ \A b \in Briefs, l \in Legs :
       /\ fetch[b][l] # "none" => brief[b] = "routes"
       /\ fetch[b][l] \in Paying =>
            /\ Query(b, l) \in asked /\ sent[Query(b, l)] = 0
            /\ \A d \in Briefs : fetch[d][l] \in Paying /\ scope[d] = scope[b] => d = b

(* The same of nearby searches, which the ledger alone keeps to the work   *)
(* leased.                                                                 *)
SearchesPay ==
  /\ sentNearby \in [NearbyQuery -> {0, 1}]
  /\ \A q \in NearbyQuery : sentNearby[q] = 1 => q \in askedNearby
  /\ \A q \in NearbyQuery : q \in askedNearby => q[1] \in nearbyWork
  /\ \A b \in Briefs :
       /\ brief[b] \in {"search", "pace"} => place[b] \in nearbyWork /\ scope[b] \in Scopes
       /\ brief[b] = "pace" =>
            /\ Search(b) \in askedNearby /\ sentNearby[Search(b)] = 0
            /\ \A d \in Briefs :
                 brief[d] = "pace" /\ place[d] = place[b] /\ scope[d] = scope[b] => d = b

(* A refused capture holds the gate until it has marked the cooldown, and  *)
(* then the cooldown lasts as long as it must.                             *)
GateInv ==
  /\ capture \in [Captures -> {"idle", "entered", "pace", "paced", "open", "refused"}]
  /\ gate \in Captures \cup {Nobody} /\ cooling \in Nat /\ refusedAgo \in Nat
  /\ \A c \in Captures : capture[c] # "idle" => gate = c
  /\ (\A c \in Captures : capture[c] # "refused") => cooling + refusedAgo >= Cooldown

(* The limiter's deque is the calls of the window behind calls that have   *)
(* left it.                                                                *)
PaceInv ==
  /\ calls \in Seq(0..Window) /\ admitted \in Seq(0..Window - 1)
  /\ Len(admitted) <= Len(calls) /\ Len(admitted) <= MaxCalls
  /\ \A i \in 1..Len(calls) : calls[i] = IF i <= Len(calls) - Len(admitted) THEN Window
                                         ELSE admitted[i - (Len(calls) - Len(admitted))]
  /\ \A i, j \in 1..Len(admitted) : i < j => admitted[i] - admitted[j] >= MinInterval

----------------------------------------------------------------------------
(* The pace. *)

(* A nonempty set of numbers has a smallest one. *)
LEMMA Smallest ==
  ASSUME NEW S, S \subseteq Nat, S # {}
  PROVE  \E m \in S : \A i \in S : m <= i
<1> DEFINE R == OpToRel(<, Nat)
<1>1. IsWellFoundedOn(R, Nat)
  BY NatLessThanWellFounded
<1>2. \E m \in S : \A i \in S : ~(<<i, m>> \in R)
  <2> HIDE DEF R
  <2> QED BY <1>1, WFMin
<1>3. \E m \in S : \A i \in S : ~(i < m)
  BY <1>2 DEF OpToRel
<1> QED BY <1>3

(* Since drops k ages from the front if they are old and the next is not.  *)
LEMMA SinceDrops ==
  ASSUME NEW s \in Seq(Nat), NEW w \in Nat, NEW k \in 0..Len(s),
         \A i \in 1..k : s[i] >= w, k < Len(s) => s[k + 1] < w
  PROVE  Since(s, w) = SubSeq(s, k + 1, Len(s))
<1> DEFINE Dropped(n) == (\A i \in 1..n : s[i] >= w) /\ (n < Len(s) => s[n + 1] < w)
<1>1. \A i \in 1..Len(s) : s[i] \in Nat
  BY ElementOfSeq
<1>2. Len(s) \in Nat
  BY LenProperties
<1>3. \A n \in 0..Len(s) : Dropped(n) <=> n = k
  <2> SUFFICES ASSUME NEW n \in 0..Len(s), Dropped(n), n # k PROVE FALSE
    OBVIOUS
  <2>1. CASE n < k
    <3>1. n + 1 \in 1..k /\ n < Len(s) /\ n + 1 \in 1..Len(s)
      BY <1>2, <2>1
    <3> QED BY <1>1, <3>1
  <2>2. CASE k < n
    <3>1. k + 1 \in 1..n /\ k < Len(s) /\ k + 1 \in 1..Len(s)
      BY <1>2, <2>2
    <3> QED BY <1>1, <3>1
  <2> QED BY <1>2, <2>1, <2>2
<1>4. Since(s, w) = LET n == CHOOSE n \in 0..Len(s) : Dropped(n) IN SubSeq(s, n + 1, Len(s))
  BY DEF Since
<1> HIDE DEF Dropped
<1>5. (CHOOSE n \in 0..Len(s) : Dropped(n)) = k
  BY <1>3
<1> QED BY <1>4, <1>5

LEMMA SuffixProperties ==
  ASSUME NEW s \in Seq(Nat), NEW k \in 0..Len(s)
  PROVE  /\ SubSeq(s, k + 1, Len(s)) \in Seq(Nat)
         /\ Len(SubSeq(s, k + 1, Len(s))) = Len(s) - k
         /\ \A i \in 1..Len(s) - k : SubSeq(s, k + 1, Len(s))[i] = s[k + i]
<1>1. Len(s) \in Nat /\ k + 1 \in Int /\ Len(s) \in Int
  BY LenProperties
<1>2. \A i \in (k + 1)..Len(s) : s[i] \in Nat
  <2> SUFFICES ASSUME NEW i \in (k + 1)..Len(s) PROVE s[i] \in Nat
    OBVIOUS
  <2>1. i \in 1..Len(s)
    BY <1>1
  <2> QED BY <2>1, ElementOfSeq
<1>3. /\ SubSeq(s, k + 1, Len(s)) \in Seq(Nat)
      /\ Len(SubSeq(s, k + 1, Len(s))) = IF k + 1 <= Len(s) THEN Len(s) - (k + 1) + 1 ELSE 0
      /\ \A i \in 1..Len(s) - (k + 1) + 1 : SubSeq(s, k + 1, Len(s))[i] = s[(k + 1) + i - 1]
  BY <1>1, <1>2, SubSeqProperties
<1>4. Len(s) - (k + 1) + 1 = Len(s) - k /\ \A i \in 1..Len(s) - k : (k + 1) + i - 1 = k + i
  BY <1>1
<1>5. Len(SubSeq(s, k + 1, Len(s))) = Len(s) - k
  BY <1>1, <1>3
<1>6. ASSUME NEW i \in 1..Len(s) - k PROVE SubSeq(s, k + 1, Len(s))[i] = s[k + i]
  <2>1. i \in 1..Len(s) - (k + 1) + 1 /\ (k + 1) + i - 1 = k + i
    BY <1>1
  <2> QED BY <1>3, <2>1
<1> QED BY <1>3, <1>5, <1>6

LEMMA LiveIsAdmitted ==
  ASSUME PaceInv
  PROVE  Live = admitted
<1> DEFINE k == Len(calls) - Len(admitted)
<1> USE RateConstants
<1>1. /\ Len(calls) \in Nat /\ Len(admitted) \in Nat /\ k \in 0..Len(calls) /\ Window \in Nat
      /\ calls \in Seq(Nat) /\ \A i \in 1..Len(calls) : calls[i] \in 0..Window
      /\ \A i \in 1..Len(admitted) : admitted[i] \in 0..Window - 1
  <2>1. Len(calls) \in Nat /\ Len(admitted) \in Nat
    BY LenProperties DEF PaceInv
  <2>2. calls \in Seq(Nat)
    BY SeqMonotonic DEF PaceInv
  <2> QED BY <2>1, <2>2, ElementOfSeq DEF PaceInv
<1>2. \A i \in 1..Len(calls) : calls[i] = IF i <= k THEN Window ELSE admitted[i - k]
  BY DEF PaceInv
<1> HIDE DEF k
<1>3. \A i \in 1..k : calls[i] >= Window
  <2> SUFFICES ASSUME NEW i \in 1..k PROVE calls[i] >= Window
    OBVIOUS
  <2>1. i \in 1..Len(calls) /\ i <= k
    BY <1>1
  <2>2. calls[i] = Window
    BY <1>2, <2>1
  <2> QED BY <1>1, <2>2
<1>4. Len(admitted) = Len(calls) - k
  BY <1>1 DEF k
<1>5. k < Len(calls) => calls[k + 1] < Window
  <2> SUFFICES ASSUME k < Len(calls) PROVE calls[k + 1] < Window
    OBVIOUS
  <2>1. k + 1 \in 1..Len(calls) /\ ~(k + 1 <= k) /\ (k + 1) - k = 1 /\ 1 \in 1..Len(admitted)
    BY <1>1, <1>4
  <2>2. calls[k + 1] = admitted[1]
    BY <1>2, <2>1
  <2> QED BY <1>1, <2>1, <2>2
<1>6. Live = SubSeq(calls, k + 1, Len(calls))
  BY <1>1, <1>3, <1>5, SinceDrops DEF Live
<1>7. /\ SubSeq(calls, k + 1, Len(calls)) \in Seq(Nat)
      /\ Len(SubSeq(calls, k + 1, Len(calls))) = Len(admitted)
      /\ \A i \in 1..Len(admitted) : SubSeq(calls, k + 1, Len(calls))[i] = calls[k + i]
  BY <1>1, <1>4, SuffixProperties
<1>8. \A i \in 1..Len(admitted) : calls[k + i] = admitted[i]
  <2> SUFFICES ASSUME NEW i \in 1..Len(admitted) PROVE calls[k + i] = admitted[i]
    OBVIOUS
  <2>1. k + i \in 1..Len(calls) /\ ~(k + i <= k) /\ (k + i) - k = i
    BY <1>1, <1>4
  <2> QED BY <1>2, <2>1
<1>9. admitted \in Seq(Nat)
  BY SeqMonotonic DEF PaceInv
<1>10. SubSeq(calls, k + 1, Len(calls)) = admitted
  BY <1>7, <1>8, <1>9, SeqEqual
<1> QED BY <1>6, <1>10

LEMMA AcquireKeepsPace ==
  ASSUME PaceInv, AcquireLimiter
  PROVE  PaceInv'
<1> USE RateConstants
<1>1. Live = admitted
  BY LiveIsAdmitted
<1>2. /\ calls' = Append(admitted, 0) /\ admitted' = Append(admitted, 0)
      /\ admitted # <<>> /\ MinInterval > 0 => admitted[Len(admitted)] >= MinInterval
      /\ Len(admitted) < MaxCalls
  BY <1>1 DEF AcquireLimiter
<1>3. /\ Len(admitted) \in Nat /\ admitted \in Seq(Nat) /\ admitted \in Seq(0..Window)
      /\ \A i \in 1..Len(admitted) : admitted[i] \in 0..Window - 1
      /\ 0 \in 0..Window - 1 /\ 0 \in 0..Window
  <2>1. admitted \in Seq(Nat) /\ admitted \in Seq(0..Window)
    BY SeqMonotonic DEF PaceInv
  <2> QED BY <2>1, LenProperties, ElementOfSeq DEF PaceInv
<1>4. /\ admitted' \in Seq(0..Window - 1) /\ calls' \in Seq(0..Window)
      /\ Len(admitted') = Len(admitted) + 1 /\ Len(calls') = Len(admitted) + 1
      /\ \A i \in 1..Len(admitted) : admitted'[i] = admitted[i] /\ calls'[i] = admitted[i]
      /\ admitted'[Len(admitted) + 1] = 0 /\ calls'[Len(admitted) + 1] = 0
  BY <1>2, <1>3, AppendProperties DEF PaceInv
<1> DEFINE n == Len(admitted)
           m == Len(admitted')
<1>0. n \in Nat /\ m = n + 1 /\ Len(calls') = m
  BY <1>3, <1>4
<1>5. \A i \in 1..Len(admitted) : admitted[i] >= MinInterval
  <2> SUFFICES ASSUME NEW i \in 1..Len(admitted), MinInterval > 0 PROVE admitted[i] >= MinInterval
    BY <1>3
  <2>1. admitted # <<>> /\ Len(admitted) \in 1..Len(admitted)
    BY <1>3
  <2>2. admitted[Len(admitted)] >= MinInterval
    BY <1>2, <2>1
  <2>3. i < Len(admitted) => admitted[i] - admitted[Len(admitted)] >= MinInterval
    BY <2>1 DEF PaceInv
  <2> QED BY <1>3, <2>1, <2>2, <2>3
<1>10. /\ \A i \in 1..n : /\ admitted'[i] = admitted[i] /\ calls'[i] = admitted[i]
                         /\ admitted[i] \in Nat /\ admitted[i] >= MinInterval
       /\ admitted'[n + 1] = 0 /\ calls'[n + 1] = 0
       /\ \A i, j \in 1..n : i < j => admitted[i] - admitted[j] >= MinInterval
  <2>1. /\ \A i \in 1..n : /\ admitted'[i] = admitted[i] /\ calls'[i] = admitted[i]
                          /\ admitted[i] \in Nat /\ admitted[i] >= MinInterval
        /\ admitted'[n + 1] = 0 /\ calls'[n + 1] = 0
    BY <1>3, <1>4, <1>5, SMTT(30)
  <2>2. \A i, j \in 1..n : i < j => admitted[i] - admitted[j] >= MinInterval
    BY DEF PaceInv
  <2> QED BY <2>1, <2>2
<1> HIDE DEF n, m
<1>6. \A i, j \in 1..m : i < j => admitted'[i] - admitted'[j] >= MinInterval
  <2> SUFFICES ASSUME NEW i \in 1..m, NEW j \in 1..m, i < j
               PROVE  admitted'[i] - admitted'[j] >= MinInterval
    OBVIOUS
  <2>1. i \in 1..n /\ (j = n + 1 \/ j \in 1..n)
    BY <1>0
  <2> QED BY <1>0, <1>10, <2>1
<1>8. \A i \in 1..m : calls'[i] = IF i <= m - m THEN Window ELSE admitted'[i - (m - m)]
  <2> SUFFICES ASSUME NEW i \in 1..m PROVE calls'[i] = admitted'[i]
    BY <1>0
  <2>1. i \in 1..n \/ i = n + 1
    BY <1>0
  <2> QED BY <1>10, <2>1
<1> USE DEF m
<1>9. Len(admitted') <= Len(calls') /\ Len(admitted') <= MaxCalls
  BY <1>2, <1>3, <1>4
<1> QED BY <1>0, <1>4, <1>6, <1>8, <1>9 DEF PaceInv

LEMMA TickKeepsPace ==
  ASSUME PaceInv, Tick
  PROVE  PaceInv'
<1> USE RateConstants
<1> DEFINE n == Len(admitted)
           N == Len(calls)
           older == [i \in DOMAIN admitted |-> admitted[i] + 1]
           late == {i \in 1..n : older[i] < Window}
<1>1. /\ n \in Nat /\ N \in Nat /\ n <= N /\ n <= MaxCalls
      /\ DOMAIN admitted = 1..n /\ DOMAIN calls = 1..N
      /\ \A i \in 1..n : admitted[i] \in 0..Window - 1
      /\ \A i \in 1..N : calls[i] \in 0..Window
  BY LenProperties, ElementOfSeq DEF PaceInv
<1>2. /\ \A i \in 1..N : calls[i] = IF i <= N - n THEN Window ELSE admitted[i - (N - n)]
      /\ \A i, j \in 1..n : i < j => admitted[i] - admitted[j] >= MinInterval
  BY DEF PaceInv
<1>3. /\ older \in Seq(Nat) /\ Len(older) = n
      /\ \A i \in 1..n : older[i] = admitted[i] + 1 /\ older[i] \in Nat
  <2>1. older \in [1..n -> Nat] /\ \A i \in 1..n : older[i] = admitted[i] + 1
    BY <1>1
  <2>2. older \in Seq(Nat)
    BY <1>1, <2>1, SeqDef
  <2>3. Len(older) \in Nat /\ 1..Len(older) = 1..n
    BY <2>1, <2>2, LenProperties
  <2>4. Len(older) = n
    BY <1>1, <2>3
  <2> QED BY <2>1, <2>2, <2>4
<1>4. /\ calls' = [i \in 1..N |-> Capped(calls[i] + 1, Window)]
      /\ admitted' = Since(older, Window)
  BY <1>1 DEF Tick
<1> HIDE DEF n, N, older
<1>5. /\ calls' \in Seq(0..Window) /\ Len(calls') = N
      /\ \A i \in 1..N : calls'[i] = IF calls[i] + 1 < Window THEN calls[i] + 1 ELSE Window
  <2>1. /\ calls' \in [1..N -> 0..Window]
        /\ \A i \in 1..N : calls'[i] = IF calls[i] + 1 < Window THEN calls[i] + 1 ELSE Window
    BY <1>1, <1>4 DEF Capped
  <2>2. calls' \in Seq(0..Window)
    BY <1>1, <2>1, SeqDef
  <2>3. Len(calls') \in Nat /\ 1..Len(calls') = 1..N
    BY <2>1, <2>2, LenProperties
  <2>4. Len(calls') = N
    BY <1>1, <2>3
  <2> QED BY <2>1, <2>2, <2>4
<1>6. PICK d \in 0..n : /\ \A i \in 1..d : older[i] >= Window
                       /\ \A i \in 1..n : i > d => older[i] < Window
  <2>0. \A i \in 1..n : i \in late \/ older[i] >= Window
    BY <1>3
  <2>1. CASE late = {}
    <3>1. n \in 0..n /\ \A i \in 1..n : older[i] >= Window /\ ~(i > n)
      BY <1>1, <2>0, <2>1
    <3> QED BY <3>1
  <2>2. CASE late # {}
    <3>1. PICK m \in late : \A i \in late : m <= i
      <4>1. late \subseteq Nat
        OBVIOUS
      <4> QED BY <2>2, <4>1, Smallest
    <3>2. m - 1 \in 0..n /\ m \in 1..n /\ older[m] < Window
      BY <1>1, <3>1
    <3>3. \A i \in 1..m - 1 : older[i] >= Window
      <4> SUFFICES ASSUME NEW i \in 1..m - 1 PROVE older[i] >= Window
        OBVIOUS
      <4>1. i \in 1..n /\ ~(m <= i)
        BY <1>1, <3>2
      <4> QED BY <2>0, <3>1, <4>1
    <3>4. \A i \in 1..n : i > m - 1 => older[i] < Window
      <4> SUFFICES ASSUME NEW i \in 1..n, i > m PROVE older[i] < Window
        BY <1>1, <3>2
      <4>1. admitted[m] - admitted[i] >= MinInterval
        BY <1>2, <3>2
      <4> QED BY <1>1, <1>3, <3>2, <4>1
    <3> QED BY <3>2, <3>3, <3>4
  <2> QED BY <2>1, <2>2
<1>7. /\ admitted' \in Seq(Nat) /\ Len(admitted') = n - d
      /\ \A i \in 1..n - d : admitted'[i] = older[d + i]
  <2>1. d < n => older[d + 1] < Window
    BY <1>1, <1>6
  <2>2. admitted' = SubSeq(older, d + 1, n)
    BY <1>3, <1>4, <1>6, <2>1, SinceDrops
  <2> QED BY <1>3, <2>2, SuffixProperties
<1> DEFINE r == n - d
<1>8. r \in 0..n /\ r \in Nat /\ Len(admitted') = r
  BY <1>1, <1>7
<1>9. \A i \in 1..r : /\ d + i \in 1..n /\ admitted'[i] = admitted[d + i] + 1
                      /\ admitted'[i] \in 0..Window - 1
  <2> SUFFICES ASSUME NEW i \in 1..r
               PROVE  /\ d + i \in 1..n /\ admitted'[i] = admitted[d + i] + 1
                      /\ admitted'[i] \in 0..Window - 1
    OBVIOUS
  <2>1. d + i \in 1..n /\ d + i > d
    BY <1>1, <1>6
  <2>2. admitted'[i] = admitted[d + i] + 1 /\ older[d + i] < Window
    BY <1>3, <1>6, <1>7, <2>1
  <2> QED BY <1>1, <1>3, <2>1, <2>2
<1>10. admitted' \in Seq(0..Window - 1)
  <2>1. admitted' \in [1..r -> Nat]
    BY <1>7, <1>8, LenProperties
  <2>2. admitted' \in [1..r -> 0..Window - 1]
    BY <1>9, <2>1
  <2> QED BY <1>8, <2>2, SeqDef
<1>11. \A i \in 1..N : calls'[i] = IF i <= N - r THEN Window ELSE admitted'[i - (N - r)]
  <2> SUFFICES ASSUME NEW i \in 1..N
               PROVE  calls'[i] = IF i <= N - r THEN Window ELSE admitted'[i - (N - r)]
    OBVIOUS
  <2>1. CASE i <= N - n
    BY <1>1, <1>2, <1>5, <1>6, <2>1
  <2>2. CASE i > N - n /\ i <= N - r
    <3>1. i - (N - n) \in 1..d /\ i - (N - n) \in 1..n
      BY <1>1, <1>6, <2>2
    <3>2. calls[i] = admitted[i - (N - n)] /\ ~(admitted[i - (N - n)] + 1 < Window)
      BY <1>1, <1>2, <1>3, <1>6, <2>2, <3>1
    <3> QED BY <1>5, <2>2, <3>2
  <2>3. CASE i > N - r
    <3>1. i - (N - r) \in 1..r /\ d + (i - (N - r)) = i - (N - n) /\ i > N - n
      BY <1>1, <1>6, <2>3
    <3>2. admitted'[i - (N - r)] = admitted[i - (N - n)] + 1 /\ admitted'[i - (N - r)] < Window
      BY <1>1, <1>9, <3>1
    <3>3. calls[i] = admitted[i - (N - n)]
      BY <1>1, <1>2, <3>1
    <3> QED BY <1>5, <1>1, <2>3, <3>1, <3>2, <3>3
  <2> QED BY <1>1, <1>6, <2>1, <2>2, <2>3
<1>12. \A i, j \in 1..r : i < j => admitted'[i] - admitted'[j] >= MinInterval
  <2> SUFFICES ASSUME NEW i \in 1..r, NEW j \in 1..r, i < j
               PROVE  admitted'[i] - admitted'[j] >= MinInterval
    OBVIOUS
  <2>1. d + i \in 1..n /\ d + j \in 1..n /\ d + i < d + j
    BY <1>1, <1>6, <1>9
  <2>2. admitted[d + i] - admitted[d + j] >= MinInterval
    BY <1>2, <2>1
  <2> QED BY <1>1, <1>9, <2>1, <2>2
<1>13. r <= N /\ r <= MaxCalls
  BY <1>1, <1>8
<1> HIDE DEF r
<1> QED BY <1>5, <1>8, <1>10, <1>11, <1>12, <1>13 DEF PaceInv

LEMMA PaceInit == Init => PaceInv
<1> SUFFICES ASSUME Init PROVE PaceInv
  OBVIOUS
<1>1. calls = <<>> /\ admitted = <<>>
  BY DEF Init, RateInit
<1>2. calls \in Seq(0..Window) /\ admitted \in Seq(0..Window - 1) /\ Len(calls) = 0 /\ Len(admitted) = 0
  BY <1>1, EmptySeq
<1>3. 1..Len(calls) = {} /\ 1..Len(admitted) = {}
  BY <1>2
<1>4. Len(admitted) <= Len(calls) /\ Len(admitted) <= MaxCalls
  BY <1>2, RateConstants
<1>5. \A i \in 1..Len(calls) : calls[i] = IF i <= Len(calls) - Len(admitted) THEN Window
                                         ELSE admitted[i - (Len(calls) - Len(admitted))]
  BY <1>3
<1>6. \A i, j \in 1..Len(admitted) : i < j => admitted[i] - admitted[j] >= MinInterval
  BY <1>3
<1> QED BY <1>2, <1>4, <1>5, <1>6 DEF PaceInv

LEMMA PaceStep == PaceInv /\ [Next]_vars => PaceInv'
<1> SUFFICES ASSUME PaceInv, [Next]_vars PROVE PaceInv'
  OBVIOUS
<1>1. CASE AcquireLimiter
  BY <1>1, AcquireKeepsPace
<1>2. CASE Tick
  BY <1>2, TickKeepsPace
<1>3. CASE UNCHANGED <<calls, admitted>>
  BY <1>3 DEF PaceInv
<1>4. ASSUME NEW b \in Briefs, NEW l \in Legs,
             \/ RefuseFetch(b, l) \/ ReuseAnswer(b, l) \/ MissCache(b, l) \/ SpendRoute(b, l)
             \/ DenyRoute(b, l) \/ EnterRequest(b, l) \/ SendRoute(b, l) \/ AnswerRoute(b, l)
      PROVE  AcquireLimiter \/ UNCHANGED <<calls, admitted>>
  BY <1>4 DEF RefuseFetch, ReuseAnswer, MissCache, SpendRoute, DenyRoute, EnterRequest, SendRoute,
     AnswerRoute, rateVars
<1>5. ASSUME NEW b \in Briefs,
             \/ AuthorizeLegs(b) \/ JoinFetches(b) \/ AuthorizeNearby(b) \/ SpendNearby(b)
             \/ DenyNearby(b) \/ SendNearby(b) \/ AnswerNearby(b)
      PROVE  AcquireLimiter \/ UNCHANGED <<calls, admitted>>
  BY <1>5 DEF AuthorizeLegs, JoinFetches, AuthorizeNearby, SpendNearby, DenyNearby, SendNearby,
     AnswerNearby, rateVars
<1>6. ASSUME NEW c \in Captures,
             \/ EnterGate(c) \/ RaiseCooling(c) \/ PassCooling(c) \/ PaceCapture(c) \/ OpenCapture(c)
             \/ AnswerCapture(c) \/ RefuseCapture(c) \/ MarkCapture(c)
      PROVE  AcquireLimiter \/ UNCHANGED <<calls, admitted>>
  BY <1>6 DEF EnterGate, RaiseCooling, PassCooling, PaceCapture, OpenCapture, AnswerCapture,
     RefuseCapture, MarkCapture, TakeGate, LeaveGate, SeeRefusal, MarkRateLimited, rateVars
<1>7. CASE Time \/ UNCHANGED vars \/ \E q \in RouteQuery : ExpireAnswer(q)
  BY <1>2, <1>3, <1>7 DEF Time, vars, rateVars, ExpireAnswer
<1> QED BY <1>1, <1>3, <1>4, <1>5, <1>6, <1>7 DEF Next

(* However many callers wait and whenever they wake up: never more than    *)
(* MaxCalls in a window, never two within the minimum interval.            *)
THEOREM CallsKeepTheirPace == Spec => []Paced
<1>1. PaceInv => Paced
  <2> SUFFICES ASSUME PaceInv, NEW i \in 1..Len(admitted) - 1
               PROVE  admitted[i] - admitted[i + 1] >= MinInterval
    BY DEF Paced, PaceInv
  <2>1. Len(admitted) \in Nat
    BY LenProperties DEF PaceInv
  <2>2. i \in 1..Len(admitted) /\ i + 1 \in 1..Len(admitted) /\ i < i + 1
    BY <2>1
  <2> QED BY <2>2 DEF PaceInv
<1> QED BY <1>1, PaceInit, PaceStep, PTL DEF Spec

----------------------------------------------------------------------------
(* The gate. *)

LEMMA GateInit == Init => GateInv
BY CallConstants, RateConstants DEF Init, RateInit, GateInv

LEMMA GateStep == GateInv /\ [Next]_vars => GateInv'
<1> SUFFICES ASSUME GateInv, [Next]_vars PROVE GateInv'
  OBVIOUS
<1> USE CallConstants, RateConstants
<1>1. CASE UNCHANGED <<gate, cooling, refusedAgo, capture>>
  BY <1>1 DEF GateInv
<1>2. CASE \E b \in Briefs :
             \/ AuthorizeLegs(b) \/ JoinFetches(b) \/ AuthorizeNearby(b) \/ SpendNearby(b)
             \/ DenyNearby(b) \/ SendNearby(b) \/ AnswerNearby(b)
  BY <1>1, <1>2 DEF AuthorizeLegs, JoinFetches, AuthorizeNearby, SpendNearby, DenyNearby,
       SendNearby, AnswerNearby, AcquireLimiter, rateVars
<1>3. CASE \E b \in Briefs, l \in Legs :
             \/ RefuseFetch(b, l) \/ ReuseAnswer(b, l) \/ MissCache(b, l) \/ SpendRoute(b, l)
             \/ DenyRoute(b, l) \/ EnterRequest(b, l) \/ SendRoute(b, l) \/ AnswerRoute(b, l)
  BY <1>1, <1>3 DEF RefuseFetch, ReuseAnswer, MissCache, SpendRoute, DenyRoute, EnterRequest,
     SendRoute, AnswerRoute, AcquireLimiter, rateVars
<1>4. ASSUME NEW c \in Captures, EnterGate(c) PROVE GateInv'
  BY <1>4 DEF EnterGate, TakeGate, CaptureStage, GateInv
<1>5. ASSUME NEW c \in Captures,
             RaiseCooling(c) \/ (AnswerCapture(c) /\ gate = c /\ LeaveGate(c))
      PROVE  GateInv'
  <2>1. \A d \in Captures : d # c => capture[d] = "idle"
    BY <1>5 DEF RaiseCooling, LeaveGate, GateInv
  <2>2. capture' = [capture EXCEPT ![c] = "idle"] /\ gate' = Nobody /\ UNCHANGED <<cooling, refusedAgo>>
        /\ capture[c] # "refused"
    BY <1>5 DEF RaiseCooling, AnswerCapture, LeaveGate, CaptureStage
  <2> QED BY <2>1, <2>2 DEF GateInv
<1>6. ASSUME NEW c \in Captures, PassCooling(c) \/ PaceCapture(c) \/ OpenCapture(c) PROVE GateInv'
  <2>1. /\ UNCHANGED <<gate, cooling, refusedAgo>> /\ capture[c] \notin {"idle", "refused"}
        /\ capture' \in {[capture EXCEPT ![c] = st] : st \in {"pace", "paced", "open"}}
    BY <1>6 DEF PassCooling, PaceCapture, OpenCapture, AcquireLimiter, CaptureStage, rateVars
  <2> QED BY <2>1 DEF GateInv
<1>7. ASSUME NEW c \in Captures, AnswerCapture(c) PROVE GateInv'
  <2>1. gate = c
    BY <1>7 DEF AnswerCapture, GateInv
  <2> QED BY <1>5, <1>7, <2>1 DEF AnswerCapture
<1>8. ASSUME NEW c \in Captures, RefuseCapture(c) PROVE GateInv'
  BY <1>8 DEF RefuseCapture, SeeRefusal, CaptureStage, GateInv
<1>9. ASSUME NEW c \in Captures, MarkCapture(c) PROVE GateInv'
  <2>1. \A d \in Captures : d # c => capture[d] = "idle"
    BY <1>9 DEF MarkCapture, GateInv
  <2> QED BY <1>9, <2>1 DEF MarkCapture, MarkRateLimited, CaptureStage, GateInv
<1>10. CASE Time
  BY <1>10 DEF Time, Tick, callVars, Capped, GateInv
<1>11. CASE UNCHANGED vars \/ \E q \in RouteQuery : ExpireAnswer(q)
  BY <1>1, <1>11 DEF vars, rateVars, callVars, ExpireAnswer
<1> QED BY <1>2, <1>3, <1>4, <1>5, <1>6, <1>7, <1>8, <1>9, <1>10, <1>11 DEF Next

(* After the provider refused a capture, none opens before the cooldown is *)
(* over, not even one that was waiting (external_call_lease).              *)
THEOREM RefusalsStopCaptures == Spec => RefusalStopsCaptures
<1>1. GateInv /\ [Next]_vars =>
        [\A c \in Captures :
           capture[c] = "paced" /\ capture'[c] = "open" => refusedAgo >= Cooldown]_vars
  <2> SUFFICES ASSUME GateInv, [Next]_vars, NEW c \in Captures,
                      capture[c] = "paced", capture'[c] = "open"
               PROVE  refusedAgo >= Cooldown
    OBVIOUS
  <2>1. PICK d \in Captures :
          \/ EnterGate(d) \/ RaiseCooling(d) \/ PassCooling(d) \/ PaceCapture(d) \/ OpenCapture(d)
          \/ AnswerCapture(d) \/ RefuseCapture(d) \/ MarkCapture(d)
    <3>1. capture' # capture
      OBVIOUS
    <3> QED BY <3>1, ZenonT(40) DEF Next, vars, callVars, AuthorizeLegs, JoinFetches, AuthorizeNearby,
         SpendNearby, DenyNearby, SendNearby, AnswerNearby, RefuseFetch, ReuseAnswer, MissCache,
         SpendRoute, DenyRoute, EnterRequest, SendRoute, AnswerRoute, ExpireAnswer, Time
  <2>2. OpenCapture(c)
    BY <2>1 DEF EnterGate, RaiseCooling, PassCooling, PaceCapture, OpenCapture, AnswerCapture,
       RefuseCapture, MarkCapture, CaptureStage, GateInv
  <2>3. \A e \in Captures : capture[e] # "refused"
    BY DEF GateInv
  <2> QED BY <2>2, <2>3, RateConstants DEF OpenCapture, GateInv
<1> QED BY <1>1, GateInit, GateStep, PTL DEF Spec, RefusalStopsCaptures

----------------------------------------------------------------------------
(* The ledger and the requests. *)

LEMMA PayInit == Init => FetchesPay /\ SearchesPay
BY DEF Init, BudgetInit, FetchesPay, SearchesPay, Paying

(* A fetch that moves without spending or sending. *)
LEMMA FetchMoves ==
  ASSUME FetchesPay, NEW b \in Briefs, NEW l \in Legs, UNCHANGED <<brief, scope, asked, sent>>,
         fetch[b][l] # "none",
         NEW st \in {"none", "acquire", "pace"}, fetch' = [fetch EXCEPT ![b][l] = st],
         st = "pace" => fetch[b][l] \in Paying
  PROVE  FetchesPay'
<1>1. /\ fetch' \in [Briefs -> [Legs -> {"none", "check", "acquire", "slot", "pace", "sent"}]]
      /\ \A d \in Briefs, m \in Legs :
           fetch'[d][m] = IF d = b /\ m = l THEN st ELSE fetch[d][m]
  BY DEF FetchesPay
<1>2. \A d \in Briefs, m \in Legs : /\ fetch'[d][m] \in Paying => fetch[d][m] \in Paying
                                    /\ fetch'[d][m] # "none" => fetch[d][m] # "none"
  BY <1>1 DEF Paying
<1>3. \A d \in Briefs, m \in Legs : Query(d, m)' = Query(d, m)
  BY DEF Query
<1> QED BY <1>1, <1>2, <1>3 DEF FetchesPay

(* A brief that changes its stage while it fetches nothing. *)
LEMMA BriefMoves ==
  ASSUME FetchesPay, NEW b \in Briefs, brief[b] # "routes", UNCHANGED <<fetch, asked, sent>>,
         \A d \in Briefs : d # b => brief'[d] = brief[d] /\ scope'[d] = scope[d]
  PROVE  FetchesPay'
<1>1. \A l \in Legs : fetch[b][l] = "none"
  BY DEF FetchesPay
<1>2. \A d \in Briefs, l \in Legs : fetch[d][l] # "none" =>
        d # b /\ brief'[d] = brief[d] /\ scope'[d] = scope[d] /\ Query(d, l)' = Query(d, l)
  BY <1>1 DEF Query
<1>3. \A d \in Briefs, l \in Legs : fetch[d][l] \in Paying => fetch[d][l] # "none"
  BY DEF Paying
<1> QED BY <1>2, <1>3 DEF FetchesPay

LEMMA FetchesStep == CallersInv /\ FetchesPay /\ [Next]_vars => FetchesPay'
<1> SUFFICES ASSUME CallersInv, FetchesPay, [Next]_vars PROVE FetchesPay'
  OBVIOUS
<1>1. CASE UNCHANGED <<brief, scope, fetch, asked, sent>>
  BY <1>1 DEF FetchesPay, Query
<1>2. ASSUME NEW b \in Briefs, AuthorizeLegs(b) PROVE FetchesPay'
  <2>1. PICK s \in Scopes \cup {Unscoped}, legs \in SUBSET Legs \ {{}}, st \in {"derive", "routes"} :
          /\ AuthorizeRouteWork(legs \X {s})
          /\ scope' = [scope EXCEPT ![b] = s]
          /\ fetch' = [fetch EXCEPT ![b] =
                         [l \in Legs |-> IF st = "routes" /\ l \in legs THEN "check" ELSE "none"]]
          /\ brief' = [brief EXCEPT ![b] = st]
    BY <1>2, Zenon DEF AuthorizeLegs, Stage
  <2>2. brief[b] = "derive" /\ UNCHANGED <<asked, sent>>
    BY <1>2 DEF AuthorizeLegs, AuthorizeRouteWork
  <2>3. /\ fetch' \in [Briefs -> [Legs -> {"none", "check", "acquire", "slot", "pace", "sent"}]]
        /\ \A d \in Briefs, l \in Legs :
             /\ d # b => fetch'[d][l] = fetch[d][l] /\ brief'[d] = brief[d] /\ scope'[d] = scope[d]
             /\ fetch'[b][l] \in {"none", "check"}
             /\ fetch'[b][l] # "none" => brief'[b] = "routes"
    <3>1. \A l \in Legs : /\ fetch'[b][l] \in {"none", "check"}
                          /\ fetch'[b][l] # "none" => brief'[b] = "routes"
      BY <2>1 DEF FetchesPay, CallersInv
    <3>2. \A d \in Briefs, l \in Legs :
            d # b => fetch'[d][l] = fetch[d][l] /\ brief'[d] = brief[d] /\ scope'[d] = scope[d]
      BY <2>1 DEF FetchesPay, CallersInv
    <3>3. fetch' \in [Briefs -> [Legs -> {"none", "check", "acquire", "slot", "pace", "sent"}]]
      BY <2>1 DEF FetchesPay
    <3> QED BY <3>1, <3>2, <3>3
  <2>4. \A d \in Briefs, l \in Legs : fetch'[d][l] \in Paying =>
          /\ d # b /\ fetch[d][l] \in Paying /\ scope'[d] = scope[d] /\ Query(d, l)' = Query(d, l)
    BY <2>3 DEF Paying, Query
  <2>5. \A d \in Briefs, l \in Legs : fetch'[d][l] # "none" => brief'[d] = "routes"
    BY <2>3 DEF FetchesPay
  <2>6. \A d \in Briefs, l \in Legs : fetch'[d][l] \in Paying =>
          /\ Query(d, l)' \in asked' /\ sent'[Query(d, l)'] = 0
          /\ \A e \in Briefs : fetch'[e][l] \in Paying /\ scope'[e] = scope'[d] => e = d
    BY <2>2, <2>4 DEF FetchesPay
  <2> QED BY <2>2, <2>3, <2>5, <2>6 DEF FetchesPay
<1>3. ASSUME NEW b \in Briefs, JoinFetches(b) PROVE FetchesPay'
  <2>1. /\ UNCHANGED <<scope, fetch, asked, sent>> /\ \A l \in Legs : fetch[b][l] = "none"
        /\ \A d \in Briefs : d # b => brief'[d] = brief[d]
    BY <1>3 DEF JoinFetches, Stage, CallersInv, budgetVars
  <2> QED BY <2>1 DEF FetchesPay, Query, Paying
<1>4. ASSUME NEW b \in Briefs,
             AuthorizeNearby(b) \/ SpendNearby(b) \/ DenyNearby(b) \/ SendNearby(b) \/ AnswerNearby(b)
      PROVE  FetchesPay'
  <2>1. brief[b] # "routes" /\ UNCHANGED <<fetch, asked, sent>>
    BY <1>4 DEF AuthorizeNearby, SpendNearby, DenyNearby, SendNearby, AnswerNearby,
       AuthorizeNearbyWork, AcquireNearby, budgetVars
  <2>2. \A d \in Briefs : d # b => brief'[d] = brief[d] /\ scope'[d] = scope[d]
    BY <1>4 DEF AuthorizeNearby, SpendNearby, DenyNearby, SendNearby, AnswerNearby, Stage,
         CallersInv
  <2> QED BY <2>1, <2>2, BriefMoves
<1>5. ASSUME NEW b \in Briefs, NEW l \in Legs,
             \/ RefuseFetch(b, l) \/ ReuseAnswer(b, l) \/ MissCache(b, l) \/ DenyRoute(b, l)
             \/ EnterRequest(b, l) \/ AnswerRoute(b, l)
      PROVE  FetchesPay'
  <2>1. PICK st \in {"none", "acquire", "pace"} :
          /\ fetch' = [fetch EXCEPT ![b][l] = st]
          /\ st = "pace" => fetch[b][l] \in Paying
    BY <1>5 DEF RefuseFetch, ReuseAnswer, MissCache, DenyRoute, EnterRequest, AnswerRoute,
         FetchStage, Paying
  <2>2. UNCHANGED <<brief, scope, asked, sent>> /\ fetch[b][l] # "none"
    BY <1>5 DEF RefuseFetch, ReuseAnswer, MissCache, DenyRoute, EnterRequest, AnswerRoute,
         budgetVars
  <2> QED BY <2>1, <2>2, FetchMoves
<1>6. ASSUME NEW b \in Briefs, NEW l \in Legs, SpendRoute(b, l) PROVE FetchesPay'
  <2> DEFINE q == Query(b, l)
  <2>1. /\ UNCHANGED <<brief, scope, sent>> /\ fetch[b][l] = "acquire" /\ q \notin asked
        /\ asked' = asked \cup {q} /\ fetch' = [fetch EXCEPT ![b][l] = "slot"]
    BY <1>6 DEF SpendRoute, AcquireRoute, MayAskRoute, FetchStage
  <2>2. /\ fetch' \in [Briefs -> [Legs -> {"none", "check", "acquire", "slot", "pace", "sent"}]]
        /\ \A d \in Briefs, m \in Legs :
             fetch'[d][m] = IF d = b /\ m = l THEN "slot" ELSE fetch[d][m]
    BY <2>1 DEF FetchesPay
  <2>3. q \in RouteQuery /\ sent[q] = 0
    BY <2>1 DEF CallersInv, Query, RouteQuery, FetchesPay
  <2>4. \A d \in Briefs : fetch[d][l] \in Paying => scope[d] # scope[b]
    BY <2>1 DEF FetchesPay, Query
  <2>5. \A d \in Briefs, m \in Legs : Query(d, m)' = Query(d, m)
    BY <2>1 DEF Query
  <2>6. \A d \in Briefs, m \in Legs : fetch'[d][m] \in Paying =>
          /\ Query(d, m) \in asked' /\ sent[Query(d, m)] = 0
          /\ \A e \in Briefs : fetch'[e][m] \in Paying /\ scope[e] = scope[d] => e = d
    BY <2>1, <2>2, <2>3, <2>4 DEF FetchesPay
  <2>7. \A d \in Briefs, m \in Legs : fetch'[d][m] # "none" => brief[d] = "routes"
    BY <2>1, <2>2 DEF FetchesPay
  <2> HIDE DEF q
  <2> QED BY <2>1, <2>2, <2>5, <2>6, <2>7 DEF FetchesPay
<1>7. ASSUME NEW b \in Briefs, NEW l \in Legs, SendRoute(b, l) PROVE FetchesPay'
  <2> DEFINE q == Query(b, l)
  <2>1. /\ UNCHANGED <<brief, scope, asked>> /\ fetch[b][l] = "pace"
        /\ sent' = [sent EXCEPT ![q] = @ + 1] /\ fetch' = [fetch EXCEPT ![b][l] = "sent"]
    BY <1>7 DEF SendRoute, FetchStage, budgetVars
  <2>2. /\ fetch' \in [Briefs -> [Legs -> {"none", "check", "acquire", "slot", "pace", "sent"}]]
        /\ \A d \in Briefs, m \in Legs :
             fetch'[d][m] = IF d = b /\ m = l THEN "sent" ELSE fetch[d][m]
    BY <2>1 DEF FetchesPay
  <2>3. q \in RouteQuery /\ q \in asked /\ sent[q] = 0
    BY <2>1 DEF CallersInv, Query, RouteQuery, FetchesPay, Paying
  <2>4. /\ sent' \in [RouteQuery -> {0, 1}]
        /\ \A p \in RouteQuery : sent'[p] = IF p = q THEN 1 ELSE sent[p]
    BY <2>1, <2>3 DEF FetchesPay
  <2>5. \A d \in Briefs, m \in Legs : Query(d, m)' = Query(d, m) /\ Query(d, m) \in RouteQuery
    BY <2>1 DEF Query, RouteQuery, CallersInv
  <2>6. \A d \in Briefs, m \in Legs : fetch'[d][m] \in Paying =>
          fetch[d][m] \in Paying /\ Query(d, m) # q
    BY <2>1, <2>2 DEF FetchesPay, Query, Paying
  <2>7. \A d \in Briefs, m \in Legs : fetch'[d][m] # "none" => brief[d] = "routes"
    BY <2>1, <2>2 DEF FetchesPay
  <2>8. \A p \in RouteQuery : sent'[p] = 1 => p \in asked
    BY <2>3, <2>4 DEF FetchesPay
  <2>9. \A d \in Briefs, m \in Legs : fetch'[d][m] \in Paying =>
          /\ Query(d, m) \in asked /\ sent'[Query(d, m)] = 0
          /\ \A e \in Briefs : fetch'[e][m] \in Paying /\ scope[e] = scope[d] => e = d
    BY <2>4, <2>5, <2>6 DEF FetchesPay
  <2> HIDE DEF q
  <2> QED BY <2>1, <2>2, <2>4, <2>5, <2>7, <2>8, <2>9 DEF FetchesPay
<1>8. ASSUME NEW c \in Captures,
             \/ EnterGate(c) \/ RaiseCooling(c) \/ PassCooling(c) \/ PaceCapture(c) \/ OpenCapture(c)
             \/ AnswerCapture(c) \/ RefuseCapture(c) \/ MarkCapture(c)
      PROVE  FetchesPay'
  BY <1>1, <1>8 DEF EnterGate, RaiseCooling, PassCooling, PaceCapture, OpenCapture, AnswerCapture,
     RefuseCapture, MarkCapture, captureFrame, budgetVars
<1>9. CASE Time \/ UNCHANGED vars \/ \E q \in RouteQuery : ExpireAnswer(q)
  BY <1>1, <1>9 DEF Time, vars, callVars, budgetVars, ExpireAnswer
<1> QED BY <1>2, <1>3, <1>4, <1>5, <1>6, <1>7, <1>8, <1>9 DEF Next

LEMMA SearchesStep == CallersInv /\ SearchesPay /\ [Next]_vars => SearchesPay'
<1> SUFFICES ASSUME CallersInv, SearchesPay, [Next]_vars PROVE SearchesPay'
  OBVIOUS
<1>1. CASE UNCHANGED <<brief, scope, place, nearbyWork, askedNearby, sentNearby>>
  BY <1>1 DEF SearchesPay, Search
(* A brief that is not searching afterwards, while nothing is spent or sent. *)
<1>2. ASSUME NEW b \in Briefs, UNCHANGED <<place, nearbyWork, askedNearby, sentNearby>>,
             brief'[b] \notin {"search", "pace"},
             \A d \in Briefs : d # b => brief'[d] = brief[d] /\ scope'[d] = scope[d]
      PROVE  SearchesPay'
  <2>1. \A d \in Briefs : d # b => Search(d)' = Search(d)
    BY <1>2 DEF Search
  <2> QED BY <1>2, <2>1 DEF SearchesPay
<1>3. ASSUME NEW b \in Briefs, AuthorizeNearby(b) PROVE SearchesPay'
  <2>1. PICK p \in Places, s \in Scopes :
          /\ AuthorizeNearbyWork(p)
          /\ place' = [place EXCEPT ![b] = p] /\ scope' = [scope EXCEPT ![b] = s]
    BY <1>3 DEF AuthorizeNearby
  <2>2. /\ nearbyWork' = nearbyWork \cup {p} /\ UNCHANGED <<askedNearby, sentNearby>>
        /\ brief' \in {[brief EXCEPT ![b] = "search"], [brief EXCEPT ![b] = "derive"]}
    BY <1>3, <2>1 DEF AuthorizeNearby, AuthorizeNearbyWork, Stage
  <2>3. /\ \A d \in Briefs : d # b => /\ brief'[d] = brief[d] /\ scope'[d] = scope[d]
                                      /\ place'[d] = place[d] /\ Search(d)' = Search(d)
        /\ brief'[b] \in {"search", "derive"} /\ place'[b] = p /\ scope'[b] = s
    BY <2>1, <2>2 DEF CallersInv, Search
  <2> QED BY <2>2, <2>3 DEF SearchesPay
<1>4. ASSUME NEW b \in Briefs, SpendNearby(b) PROVE SearchesPay'
  <2> DEFINE q == Search(b)
  <2>1. /\ UNCHANGED <<scope, place, nearbyWork, sentNearby>> /\ brief[b] = "search" /\ q \notin askedNearby
        /\ askedNearby' = askedNearby \cup {q}
        /\ brief' \in {[brief EXCEPT ![b] = "pace"], [brief EXCEPT ![b] = "derive"]}
    BY <1>4 DEF SpendNearby, AcquireNearby, MayAskNearby, Stage
  <2>2. /\ \A d \in Briefs : d # b => brief'[d] = brief[d]
        /\ brief'[b] \in {"pace", "derive"}
    BY <2>1 DEF CallersInv
  <2>3. q \in NearbyQuery /\ q[1] \in nearbyWork /\ sentNearby[q] = 0 /\ scope[b] \in Scopes
        /\ place[b] \in nearbyWork
    BY <2>1 DEF CallersInv, Search, NearbyQuery, SearchesPay
  <2>4. \A d \in Briefs : brief[d] = "pace" => place[d] # place[b] \/ scope[d] # scope[b]
    BY <2>1 DEF SearchesPay, Search
  <2>5. \A d \in Briefs : Search(d)' = Search(d)
    BY <2>1 DEF Search
  <2>6. \A d \in Briefs : brief'[d] = "pace" =>
          /\ Search(d) \in askedNearby' /\ sentNearby[Search(d)] = 0
          /\ \A e \in Briefs :
               brief'[e] = "pace" /\ place[e] = place[d] /\ scope[e] = scope[d] => e = d
    BY <2>1, <2>2, <2>3, <2>4 DEF SearchesPay
  <2>7. \A d \in Briefs : brief'[d] \in {"search", "pace"} => place[d] \in nearbyWork /\ scope[d] \in Scopes
    BY <2>2, <2>3 DEF SearchesPay
  <2> HIDE DEF q
  <2> QED BY <2>1, <2>3, <2>5, <2>6, <2>7 DEF SearchesPay
<1>5. ASSUME NEW b \in Briefs, SendNearby(b) PROVE SearchesPay'
  <2> DEFINE asking == Search(b)
  <2>1. /\ UNCHANGED <<scope, place, nearbyWork, askedNearby>> /\ brief[b] = "pace"
        /\ sentNearby' = [sentNearby EXCEPT ![asking] = @ + 1] /\ brief' = [brief EXCEPT ![b] = "sent"]
    BY <1>5 DEF SendNearby, Stage, budgetVars
  <2>2. /\ \A d \in Briefs : d # b => brief'[d] = brief[d]
        /\ brief'[b] = "sent"
    BY <2>1 DEF CallersInv
  <2>3. asking \in NearbyQuery /\ asking \in askedNearby /\ sentNearby[asking] = 0
    BY <2>1 DEF CallersInv, Search, NearbyQuery, SearchesPay
  <2>4. /\ sentNearby' \in [NearbyQuery -> {0, 1}]
        /\ \A p \in NearbyQuery : sentNearby'[p] = IF p = asking THEN 1 ELSE sentNearby[p]
    BY <2>1, <2>3 DEF SearchesPay
  <2>5. \A d \in Briefs : Search(d)' = Search(d)
    BY <2>1 DEF Search
  <2>6. \A d \in Briefs : brief'[d] = "pace" =>
          brief[d] = "pace" /\ Search(d) # asking /\ Search(d) \in NearbyQuery
    BY <2>1, <2>2 DEF SearchesPay, Search, CallersInv, NearbyQuery
  <2>7. \A d \in Briefs : brief'[d] = "pace" =>
          /\ Search(d) \in askedNearby /\ sentNearby'[Search(d)] = 0
          /\ \A e \in Briefs :
               brief'[e] = "pace" /\ place[e] = place[d] /\ scope[e] = scope[d] => e = d
    BY <2>4, <2>6 DEF SearchesPay
  <2>8. \A d \in Briefs : brief'[d] \in {"search", "pace"} => place[d] \in nearbyWork /\ scope[d] \in Scopes
    BY <2>2 DEF SearchesPay
  <2>9. \A p \in NearbyQuery : sentNearby'[p] = 1 => p \in askedNearby
    BY <2>3, <2>4 DEF SearchesPay
  <2> HIDE DEF asking
  <2> QED BY <2>1, <2>4, <2>5, <2>7, <2>8, <2>9 DEF SearchesPay
<1>6. ASSUME NEW b \in Briefs,
             AuthorizeLegs(b) \/ JoinFetches(b) \/ DenyNearby(b) \/ AnswerNearby(b)
      PROVE  SearchesPay'
  <2>1. UNCHANGED <<place, nearbyWork, askedNearby, sentNearby>>
    BY <1>6 DEF AuthorizeLegs, AuthorizeRouteWork, JoinFetches, DenyNearby, AnswerNearby, budgetVars
  <2>2. brief'[b] \in {"derive", "routes"}
    BY <1>6 DEF AuthorizeLegs, JoinFetches, DenyNearby, AnswerNearby, Stage, CallersInv
  <2>3. \A d \in Briefs : d # b => brief'[d] = brief[d] /\ scope'[d] = scope[d]
    BY <1>6 DEF AuthorizeLegs, JoinFetches, DenyNearby, AnswerNearby, Stage, CallersInv
  <2> QED BY <1>2, <2>1, <2>2, <2>3
<1>7. ASSUME NEW b \in Briefs, NEW l \in Legs,
             \/ RefuseFetch(b, l) \/ ReuseAnswer(b, l) \/ MissCache(b, l) \/ DenyRoute(b, l)
             \/ SpendRoute(b, l) \/ EnterRequest(b, l) \/ SendRoute(b, l) \/ AnswerRoute(b, l)
      PROVE  SearchesPay'
  BY <1>1, <1>7 DEF RefuseFetch, ReuseAnswer, MissCache, DenyRoute, SpendRoute, AcquireRoute,
     EnterRequest, SendRoute, AnswerRoute, budgetVars
<1>8. ASSUME NEW c \in Captures,
             \/ EnterGate(c) \/ RaiseCooling(c) \/ PassCooling(c) \/ PaceCapture(c) \/ OpenCapture(c)
             \/ AnswerCapture(c) \/ RefuseCapture(c) \/ MarkCapture(c)
      PROVE  SearchesPay'
  BY <1>1, <1>8 DEF EnterGate, RaiseCooling, PassCooling, PaceCapture, OpenCapture, AnswerCapture,
     RefuseCapture, MarkCapture, captureFrame, budgetVars
<1>9. CASE Time \/ UNCHANGED vars \/ \E q \in RouteQuery : ExpireAnswer(q)
  BY <1>1, <1>9 DEF Time, vars, callVars, budgetVars, ExpireAnswer
<1> QED BY <1>3, <1>4, <1>5, <1>6, <1>7, <1>8, <1>9 DEF Next

(* Two briefs that derive the same leg, two fetches that miss the cache at *)
(* once, an answer lost or expired: no query leaves twice in a preflight,  *)
(* and none without a lease (try_acquire's ledger).                        *)
THEOREM NothingIsAskedTwice == Spec => []AskedOnce
<1>1. FetchesPay /\ SearchesPay /\ EnvelopeInv => AskedOnce
  BY DEF FetchesPay, SearchesPay, EnvelopeInv, AskedOnce
<1>2. Spec => [](CallersInv /\ FetchesPay /\ SearchesPay)
  BY CallersInit, CallersStep, PayInit, FetchesStep, SearchesStep, PTL DEF Spec
<1>3. Spec => []EnvelopeInv
  BY EnvelopeInit, EnvelopeStep, CallsImplementBudget, PTL DEF BudgetSpec
<1> QED BY <1>1, <1>2, <1>3, PTL

=============================================================================
