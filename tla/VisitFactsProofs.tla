--------------------------- MODULE VisitFactsProofs ---------------------------
(***************************************************************************)
(* Proof that refreshes of visit facts share their lookups, whatever       *)
(* happens to the portfolio beside them.                                   *)
(***************************************************************************)
EXTENDS ProposalAdoption, FiniteSetTheorems, TLAPS

Present == {"waiting", "asking", "saving", "leaving", "released"}
Asking == {"asking", "saving"}
Users(k) == {f \in Refreshes : refresh[f].at \in Present /\ refresh[f].key = k}

RegistryTyped ==
  /\ lockOf \in [Keys -> Refreshes \cup {NoLock}] /\ users \in [Keys -> Nat]
  /\ refresh \in [Refreshes -> [at : Present \cup {"new", "done"},
                                key : Keys \cup {NoLock}, lock : Refreshes \cup {NoLock}]]
  /\ DOMAIN facts = Keys
  /\ \A f \in Refreshes : refresh[f].at \in Present => refresh[f].key \in Keys

(* The count is exact, and who is counted has the lock of the registry.    *)
Counted == \A k \in Keys : users[k] = Cardinality(Users(k))
Shared ==
  \A f \in Refreshes : refresh[f].at \in Present =>
    refresh[f].lock = lockOf[refresh[f].key] /\ refresh[f].lock # NoLock

HeldByOne ==
  \A f, g \in Refreshes :
    refresh[f].at \in Holding /\ refresh[g].at \in Holding /\ refresh[f].key = refresh[g].key
      => f = g

AskedInNeed == \A f \in Refreshes : refresh[f].at \in Asking => facts[refresh[f].key] = "none"

FactsInv == RegistryTyped /\ Counted /\ Shared /\ HeldByOne /\ AskedInNeed

LEMMA UsersAreFinite == \A k : IsFiniteSet(Users(k))
BY FS_Subset, RefreshConstants DEF Users

LEMMA InvGivesSingleLookups == FactsInv => LooksUpOnce
BY DEF FactsInv, HeldByOne, AskedInNeed, LooksUpOnce, Asking, Holding

LEMMA FactsInitially == FactsInit => FactsInv
<1> SUFFICES ASSUME FactsInit PROVE FactsInv
  OBVIOUS
<1>1. RegistryTyped
  BY DEF FactsInit, RegistryTyped, Present
<1>2. \A k \in Keys : Users(k) = {}
  BY DEF FactsInit, Users, Present
<1>3. Counted
  BY <1>2, FS_EmptySet DEF FactsInit, Counted
<1>4. Shared /\ HeldByOne /\ AskedInNeed
  BY DEF FactsInit, Shared, HeldByOne, AskedInNeed, Present, Holding, Asking
<1> QED BY <1>1, <1>3, <1>4 DEF FactsInv

(* A refresh that stays present leaves the registry as it is.              *)
LEMMA MovingKeepsRegistry ==
  ASSUME FactsInv, NEW f \in Refreshes, NEW st \in Present, refresh[f].at \in Present,
         Goto(f, st), UNCHANGED <<lockOf, users>>, DOMAIN facts' = Keys
  PROVE  RegistryTyped' /\ Counted' /\ Shared'
<1>1. \A g \in Refreshes : /\ refresh'[g].key = refresh[g].key /\ refresh'[g].lock = refresh[g].lock
                           /\ refresh'[g].at = IF g = f THEN st ELSE refresh[g].at
  BY DEF FactsInv, RegistryTyped, Goto
<1>2. RegistryTyped'
  BY <1>1 DEF FactsInv, RegistryTyped, Goto
<1>3. \A k \in Keys : Users(k)' = Users(k)
  BY <1>1 DEF Users
<1>4. Counted'
  BY <1>3 DEF FactsInv, Counted
<1>5. Shared'
  BY <1>1 DEF FactsInv, Shared, RegistryTyped
<1> QED BY <1>2, <1>4, <1>5

LEMMA EnterKeeps ==
  ASSUME FactsInv, NEW f \in Refreshes, NEW k \in Keys, EnterRefresh(f, k)
  PROVE  FactsInv'
<1>1. /\ refresh'[f] = [at |-> "waiting", key |-> k, lock |-> lockOf'[k]]
      /\ \A g \in Refreshes \ {f} : refresh'[g] = refresh[g]
      /\ lockOf'[k] \in Refreshes /\ lockOf' = [lockOf EXCEPT ![k] = lockOf'[k]]
  BY RefreshConstants DEF FactsInv, RegistryTyped, EnterRefresh
<1>2. RegistryTyped'
  BY <1>1 DEF FactsInv, RegistryTyped, EnterRefresh, Present
<1>3. Counted'
  <2>1. Users(k)' = Users(k) \cup {f} /\ f \notin Users(k)
    BY <1>1 DEF Users, EnterRefresh, Present
  <2>2. \A h \in Keys \ {k} : Users(h)' = Users(h)
    BY <1>1 DEF Users, EnterRefresh, Present
  <2>3. Cardinality(Users(k)') = Cardinality(Users(k)) + 1
    BY <2>1, UsersAreFinite, FS_AddElement
  <2> QED BY <2>2, <2>3 DEF FactsInv, RegistryTyped, Counted, EnterRefresh
<1>4. Shared'
  <2>1. \A g \in Refreshes : refresh[g].at \in Present /\ refresh[g].key = k => lockOf[k] # NoLock
    BY DEF FactsInv, Shared
  <2>2. \A g \in Refreshes : refresh[g].at \in Present => lockOf'[refresh[g].key] = lockOf[refresh[g].key]
    BY <2>1 DEF FactsInv, RegistryTyped, EnterRefresh
  <2>3. lockOf'[k] # NoLock
    BY <1>1, RefreshConstants
  <2> QED BY <1>1, <2>2, <2>3 DEF FactsInv, Shared, Present
<1>5. HeldByOne' /\ AskedInNeed'
  BY <1>1 DEF FactsInv, HeldByOne, AskedInNeed, EnterRefresh, Holding, Asking
<1> QED BY <1>2, <1>3, <1>4, <1>5 DEF FactsInv

LEMMA WorkKeeps ==
  ASSUME FactsInv, NEW f \in Refreshes, NEW open,
         StartRefresh(f, open) \/ LearnFacts(f, open) \/ SaveFacts(f) \/ ReleaseLock(f)
  PROVE  FactsInv'
<1>1. PICK st \in Present : Goto(f, st)
  BY DEF StartRefresh, LearnFacts, SaveFacts, ReleaseLock, Present
<1>2. refresh[f].at \in Present /\ UNCHANGED <<lockOf, users>> /\ DOMAIN facts' = Keys
  BY DEF FactsInv, RegistryTyped, StartRefresh, LearnFacts, SaveFacts, ReleaseLock, Present
<1>3. RegistryTyped' /\ Counted' /\ Shared'
  BY <1>1, <1>2, MovingKeepsRegistry
<1>4. \A g \in Refreshes : /\ refresh'[g].key = refresh[g].key /\ refresh'[g].lock = refresh[g].lock
                           /\ refresh'[g].at = IF g = f THEN st ELSE refresh[g].at
  BY <1>1 DEF FactsInv, RegistryTyped, Goto
<1>5. CASE StartRefresh(f, open)
  <2>1. ASSUME NEW g \in Refreshes, refresh[g].at \in Holding PROVE refresh[g].key # refresh[f].key
    BY <1>5, <2>1 DEF StartRefresh, FactsInv, Shared, Present, Holding
  <2>2. HeldByOne'
    BY <1>4, <2>1 DEF FactsInv, HeldByOne
  <2>3. st \in Asking => facts[refresh[f].key] = "none"
    BY <1>4, <1>5 DEF StartRefresh, Goto, FactsInv, RegistryTyped, Asking
  <2>4. AskedInNeed'
    BY <1>4, <1>5, <2>3 DEF FactsInv, AskedInNeed, StartRefresh
  <2> QED BY <1>3, <2>2, <2>4 DEF FactsInv
<1>6. CASE LearnFacts(f, open) \/ ReleaseLock(f)
  <2>1. st \in Holding => refresh[f].at \in Holding
    BY <1>6 DEF LearnFacts, ReleaseLock, Goto, Holding
  <2>2. HeldByOne'
    BY <1>4, <1>6 DEF FactsInv, HeldByOne, LearnFacts, ReleaseLock, Holding
  <2>3. st \in Asking => refresh[f].at \in Asking
    BY <1>4, <1>6 DEF LearnFacts, ReleaseLock, Goto, Asking, FactsInv, RegistryTyped
  <2>4. AskedInNeed'
    BY <1>4, <1>6, <2>3 DEF FactsInv, AskedInNeed, LearnFacts, ReleaseLock
  <2> QED BY <1>3, <2>2, <2>4 DEF FactsInv
<1>7. CASE SaveFacts(f)
  <2>1. refresh[f].at = "saving" /\ refresh'[f].at = "leaving"
    BY <1>7 DEF SaveFacts, Goto, FactsInv, RegistryTyped
  <2>2. HeldByOne'
    BY <1>4, <2>1 DEF FactsInv, HeldByOne, Holding
  <2>3. \A g \in Refreshes : refresh'[g].at \in Asking =>
          refresh[g].at \in Asking /\ refresh[g].key # refresh[f].key
    BY <1>4, <2>1 DEF FactsInv, HeldByOne, Holding, Asking
  <2>4. \A k \in Keys \ {refresh[f].key} : facts'[k] = facts[k]
    BY <1>7 DEF SaveFacts, FactsInv, RegistryTyped
  <2>5. \A g \in Refreshes : refresh[g].at \in Asking => refresh[g].key \in Keys
    BY DEF FactsInv, RegistryTyped, Asking, Present
  <2>6. AskedInNeed'
    BY <1>4, <2>3, <2>4, <2>5 DEF FactsInv, AskedInNeed
  <2> QED BY <1>3, <2>2, <2>6 DEF FactsInv
<1> QED BY <1>5, <1>6, <1>7

(* The registry may drop the lock because nobody else is counted.          *)
LEMMA LeaveKeeps ==
  ASSUME FactsInv, NEW f \in Refreshes, LeaveRegistry(f)
  PROVE  FactsInv'
<1>0. PICK k \in Keys : k = refresh[f].key
  BY DEF LeaveRegistry, FactsInv, RegistryTyped, Present
<1>1. refresh[f].at = "released" /\ f \in Users(k)
  BY <1>0 DEF LeaveRegistry, Present, Users
<1>2. \A g \in Refreshes : /\ refresh'[g].key = refresh[g].key /\ refresh'[g].lock = refresh[g].lock
                           /\ refresh'[g].at = IF g = f THEN "done" ELSE refresh[g].at
  BY DEF LeaveRegistry, FactsInv, RegistryTyped, Goto
<1>3. Users(k)' = Users(k) \ {f} /\ \A h \in Keys \ {k} : Users(h)' = Users(h)
  BY <1>0, <1>1, <1>2 DEF Users, Present
<1>4. Cardinality(Users(k)') = Cardinality(Users(k)) - 1
  BY <1>1, <1>3, UsersAreFinite, FS_RemoveElement
<1>5. users[k] = Cardinality(Users(k)) /\ Cardinality(Users(k)) \in Nat \ {0}
  BY <1>1, UsersAreFinite, FS_CardinalityType, FS_EmptySet DEF FactsInv, Counted
<1>6. users' = [users EXCEPT ![k] = users[k] - 1]
  BY <1>0 DEF LeaveRegistry
<1>7. Counted'
  BY <1>1, <1>3, <1>4, <1>5, <1>6 DEF FactsInv, RegistryTyped, Counted
<1>8. RegistryTyped'
  <2>1. users' \in [Keys -> Nat]
    <3>1. users[k] - 1 \in Nat
      BY <1>5
    <3> QED BY <1>6, <3>1 DEF FactsInv, RegistryTyped
  <2>2. lockOf' \in [Keys -> Refreshes \cup {NoLock}]
    BY DEF LeaveRegistry, FactsInv, RegistryTyped
  <2>3. refresh' \in [Refreshes -> [at : Present \cup {"new", "done"},
                                    key : Keys \cup {NoLock}, lock : Refreshes \cup {NoLock}]]
    BY DEF LeaveRegistry, Goto, FactsInv, RegistryTyped
  <2> QED BY <1>2, <2>1, <2>2, <2>3 DEF LeaveRegistry, FactsInv, RegistryTyped, Present
<1>9. Shared'
  <2>1. users[k] = 1 => Users(k) = {f}
    <3>1. users[k] = 1 => \E x : Users(k) = {x}
      BY <1>5, UsersAreFinite, FS_Singleton
    <3> QED BY <1>1, <3>1
  <2>2. \A g \in Refreshes \ {f} : refresh[g].at \in Present /\ refresh[g].key = k =>
          lockOf'[k] = lockOf[k]
    BY <1>0, <2>1 DEF LeaveRegistry, Users, FactsInv, RegistryTyped
  <2>3. \A h \in Keys \ {k} : lockOf'[h] = lockOf[h]
    BY <1>0 DEF LeaveRegistry, FactsInv, RegistryTyped
  <2>4. \A g \in Refreshes : refresh[g].at \in Present => refresh[g].key \in Keys
    BY DEF FactsInv, RegistryTyped
  <2> QED BY <1>2, <2>2, <2>3, <2>4 DEF FactsInv, Shared, Present
<1>10. HeldByOne' /\ AskedInNeed'
  BY <1>2 DEF FactsInv, HeldByOne, AskedInNeed, LeaveRegistry, Holding, Asking
<1> QED BY <1>7, <1>8, <1>9, <1>10 DEF FactsInv

LEMMA ExpiryKeeps ==
  ASSUME FactsInv, NEW k \in Keys, ExpireFacts(k)
  PROVE  FactsInv'
<1>1. UNCHANGED <<lockOf, users, refresh>> /\ DOMAIN facts' = Keys
  BY DEF ExpireFacts, FactsInv, RegistryTyped
<1>2. \A h : Users(h)' = Users(h)
  BY <1>1 DEF Users
<1>3. Counted'
  BY <1>1, <1>2 DEF FactsInv, Counted
<1>4. RegistryTyped' /\ Shared' /\ HeldByOne'
  BY <1>1 DEF FactsInv, RegistryTyped, Shared, HeldByOne
<1>5. AskedInNeed'
  BY <1>1 DEF ExpireFacts, FactsInv, RegistryTyped, AskedInNeed, Asking, Present
<1> QED BY <1>3, <1>4, <1>5 DEF FactsInv

LEMMA LossKeeps ==
  ASSUME FactsInv, LoseRefreshes
  PROVE  FactsInv'
<1>1. \A g \in Refreshes : refresh'[g].at \notin Present
  BY DEF LoseRefreshes, FactsInv, RegistryTyped, Running, Made, Present
<1>2. RegistryTyped'
  BY <1>1 DEF LoseRefreshes, FactsInv, RegistryTyped, Present
<1>3. \A k \in Keys : Users(k)' = {}
  BY <1>1 DEF Users
<1>4. Counted'
  BY <1>3, FS_EmptySet DEF LoseRefreshes, Counted
<1>5. Shared' /\ HeldByOne' /\ AskedInNeed'
  BY <1>1 DEF Shared, HeldByOne, AskedInNeed, Holding, Asking, Present
<1> QED BY <1>2, <1>4, <1>5 DEF FactsInv

LEMMA FactsStepKeeps == FactsInv /\ [Next]_vars => FactsInv'
<1> SUFFICES ASSUME FactsInv, [Next]_vars PROVE FactsInv'
  OBVIOUS
<1>1. CASE UNCHANGED factVars
  <2>1. \A h : Users(h)' = Users(h)
    BY <1>1 DEF factVars, Users
  <2> QED BY <1>1, <2>1 DEF factVars, FactsInv, RegistryTyped, Counted, Shared, HeldByOne, AskedInNeed
<1>2. ASSUME NEW f \in Refreshes, Refresh(f) PROVE FactsInv'
  <2>1. PICK open : RefreshStep(f, open)
    BY <1>2 DEF Refresh
  <2> QED BY <2>1, EnterKeeps, WorkKeeps, LeaveKeeps DEF RefreshStep
<1>3. ASSUME NEW p \in Proposals, FactsExpire(p) PROVE FactsInv'
  BY <1>3, ExpiryKeeps, AdoptionConstants DEF FactsExpire, Proposals
<1>4. CASE Crash
  BY <1>1, <1>4, LossKeeps DEF Crash
<1>5. CASE Over \/ UNCHANGED vars
  BY <1>1, <1>5 DEF Over, vars
<1> QED BY <1>1, <1>2, <1>3, <1>4, <1>5 DEF Next

(* For any number of requests that enter, wait and leave in any order,     *)
(* with restarts and adoptions in between, no lookup is made twice.        *)
THEOREM LookupsAreShared == Spec => []LooksUpOnce
<1>1. Init => FactsInv
  BY FactsInitially DEF Init
<1> QED BY <1>1, FactsStepKeeps, InvGivesSingleLookups, PTL DEF Spec
=============================================================================
