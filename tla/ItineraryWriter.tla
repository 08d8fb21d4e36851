--------------------------- MODULE ItineraryWriter ---------------------------
(***************************************************************************)
(* Everything that writes one itinerary plan, each writer a request thread *)
(* with its own SQLite connection.                                         *)
(*                                                                         *)
(*   Patches     ItineraryPatchService.apply_patch, from the patch API or  *)
(*               from an agent: under the plan lease, in two commits with  *)
(*               provider calls between them                               *)
(*   Mutations   TimelineMutationTransactionService.execute: holds the     *)
(*               lease around apply_patch, a verification and, when that   *)
(*               fails, a compensation                                     *)
(*   Selections  select_route and optimize_routes: no lease, one commit    *)
(*   Restores    restore_existing_version: no lease, no base version       *)
(*                                                                         *)
(* The content of a plan is the set of writers whose edits it contains,    *)
(* and a version is named after its writer.  Reads outside a transaction   *)
(* see the last commit (SQLite in WAL mode); a transaction is one step,    *)
(* and one that lost a race for the write lock fails without effect.       *)
(***************************************************************************)
EXTENDS Naturals, FiniteSets

CONSTANTS
  Patches, Mutations, Selections, Restores,
  Populations,    \* which writers may turn up together
  First,          \* the version the plan starts with
  Nobody,         \* holder of a free lease
  MaxCrashes      \* bound: restarts of the process

Leased == Patches \cup Mutations
Writers == Leased \cup Selections \cup Restores
Versions == Writers \cup {First}

ASSUME WritersAreDistinct ==
  /\ Patches \cap Mutations = {} /\ Leased \cap (Selections \cup Restores) = {}
  /\ Selections \cap Restores = {}
  /\ First \notin Writers /\ Nobody \notin Writers
  /\ Populations \subseteq SUBSET Writers
  /\ MaxCrashes \in Nat

VARIABLES
  live,           \* the itinerary tables: days, segments, routes
  saved,          \* itinerary_versions rows that exist
  snap,           \* snapshot_json of each version
  number,         \* version_number of each version
  active,         \* conversation_sessions.active_version_id
  patch,          \* validation_status of each writer's itinerary_patches row
  lease,          \* holder of timeline_write_lease
  pc, base,       \* stage of each writer and the base version it sends
  seen,           \* a mutation's list of versions before its patch
  draft, drawn,   \* snapshot captured and version number read, not yet saved
  crashes

rowVars == <<saved, snap, number>>
dataVars == <<live, rowVars, active, patch>>
ownVars == <<base, seen, draft, drawn>>
vars == <<dataVars, lease, pc, ownVars, crashes>>

Ended == {"done", "refused", "failed", "crashed", "absent"}
Stages == {"idle", "ready", "bound", "checked", "committed", "captured",
           "numbered", "verify", "undo"} \cup Ended

TypeOK ==
  /\ live \subseteq Writers
  /\ saved \subseteq Versions
  /\ snap \in [Versions -> SUBSET Writers]
  /\ number \in [Versions -> Nat]
  /\ active \in Versions
  /\ patch \in [Writers -> {"none", "rejected", "accepted", "rolled_back"}]
  /\ lease \in Writers \cup {Nobody}
  /\ pc \in [Writers -> Stages]
  /\ base \in [Writers -> Versions]
  /\ seen \in [Writers -> SUBSET Versions]
  /\ draft \in [Writers -> SUBSET Writers]
  /\ drawn \in [Writers -> Nat]
  /\ crashes \in 0..MaxCrashes

Init ==
  /\ live = {} /\ saved = {First} /\ active = First
  /\ snap = [v \in Versions |-> {}]
  /\ number = [v \in Versions |-> IF v = First THEN 1 ELSE 0]
  /\ patch = [w \in Writers |-> "none"]
  /\ lease = Nobody
  /\ \E here \in Populations :
       pc = [w \in Writers |-> IF w \in here THEN "idle" ELSE "absent"]
  /\ base = [w \in Writers |-> First]
  /\ seen = [w \in Writers |-> {}]
  /\ draft = [w \in Writers |-> {}]
  /\ drawn = [w \in Writers |-> 0]
  /\ crashes = 0

Goto(w, l) == pc' = [pc EXCEPT ![w] = l]

(* Leaving the with-block of the lease, whatever the way out. *)
End(w, l) ==
  /\ Goto(w, l)
  /\ lease' = IF lease = w THEN Nobody ELSE lease

NewestNumber == CHOOSE n \in {number[v] : v \in saved} : \A v \in saved : number[v] <= n

----------------------------------------------------------------------------
(* Entry. *)

(* The client, or the binder, reads the plan it is going to change. *)
ReadPlan(w) ==
  /\ w \notin Restores /\ pc[w] = "idle"
  /\ base' = [base EXCEPT ![w] = active]
  /\ Goto(w, "ready")
  /\ UNCHANGED <<dataVars, lease, seen, draft, drawn, crashes>>

TakeLease(w) ==
  /\ w \in Leased /\ pc[w] = "ready" /\ lease = Nobody
  /\ lease' = w
  /\ Goto(w, "bound")
  /\ UNCHANGED <<dataVars, ownVars, crashes>>

(* Slips for the mutation runs. *)
CheckNothing(w) ==
  /\ pc[w] = IF w \in Leased THEN "bound" ELSE "ready"
  /\ w \notin Restores
  /\ Goto(w, "checked") /\ seen' = [seen EXCEPT ![w] = saved]
  /\ UNCHANGED <<dataVars, lease, base, draft, drawn, crashes>>

(* ensure_base_version_current, or 409; for a mutation also assert_current *)
(* (which repeats it) and the list of versions its patch may add to.       *)
CheckBase(w) ==
  /\ pc[w] = IF w \in Leased THEN "bound" ELSE "ready"
  /\ w \notin Restores
  /\ IF base[w] = active
     THEN Goto(w, "checked") /\ seen' = [seen EXCEPT ![w] = saved] /\ UNCHANGED lease
     ELSE End(w, "refused") /\ UNCHANGED seen
  /\ UNCHANGED <<dataVars, base, draft, drawn, crashes>>

----------------------------------------------------------------------------
(* apply_patch. *)

(* Validation failed: the rejected row is committed.  A mutation owns that *)
(* row and therefore compensates.                                          *)
RejectPatch(w) ==
  /\ w \in Leased /\ pc[w] = "checked"
  /\ patch' = [patch EXCEPT ![w] = "rejected"]
  /\ IF w \in Mutations THEN Goto(w, "undo") /\ UNCHANGED lease ELSE End(w, "failed")
  /\ UNCHANGED <<live, rowVars, active, ownVars, crashes>>

(* First commit: the operations, and the patch row without a result. *)
CommitOperations(w) ==
  /\ w \in Leased /\ pc[w] = "checked"
  /\ live' = live \cup {w}
  /\ patch' = [patch EXCEPT ![w] = "accepted"]
  /\ Goto(w, "committed")
  /\ UNCHANGED <<rowVars, active, lease, ownVars, crashes>>

(* Slips for the mutation runs. *)
CaptureBase(w) ==
  /\ w \in Leased /\ pc[w] = "committed"
  /\ draft' = [draft EXCEPT ![w] = snap[base[w]]]
  /\ Goto(w, "captured")
  /\ UNCHANGED <<dataVars, lease, base, seen, drawn, crashes>>

(* After the routes are refreshed (and committed) the plan is read ...  *)
CaptureSnapshot(w) ==
  /\ w \in Leased /\ pc[w] = "committed"
  /\ draft' = [draft EXCEPT ![w] = live]
  /\ Goto(w, "captured")
  /\ UNCHANGED <<dataVars, lease, base, seen, drawn, crashes>>

(* ... then the newest version number, neither of them in the transaction  *)
(* that saves them.                                                        *)
NextVersionNumber(w) ==
  /\ w \in Leased /\ pc[w] = "captured"
  /\ drawn' = [drawn EXCEPT ![w] = NewestNumber + 1]
  /\ Goto(w, "numbered")
  /\ UNCHANGED <<dataVars, lease, base, seen, draft, crashes>>

(* Second commit: the version row, and it becomes active unconditionally. *)
SaveVersion(w) ==
  /\ w \in Leased /\ pc[w] = "numbered"
  /\ saved' = saved \cup {w}
  /\ snap' = [snap EXCEPT ![w] = draft[w]]
  /\ number' = [number EXCEPT ![w] = drawn[w]]
  /\ active' = w
  /\ IF w \in Mutations THEN Goto(w, "verify") /\ UNCHANGED lease ELSE End(w, "done")
  /\ UNCHANGED <<live, patch, ownVars, crashes>>

(* Slips for the mutation runs. *)
RetryForever(w) ==
  /\ w \in Leased /\ pc[w] \in {"checked", "committed", "captured", "numbered"}
  /\ Goto(w, "checked")
  /\ UNCHANGED <<dataVars, lease, ownVars, crashes>>

(* A deadline, a provider failure that is not tolerated, a missing base    *)
(* snapshot: the open transaction is rolled back, the first commit stays.  *)
(* A mutation whose patch row exists compensates.                          *)
FailPatch(w) ==
  /\ w \in Leased /\ pc[w] \in {"checked", "committed", "captured", "numbered"}
  /\ IF w \in Mutations /\ patch[w] # "none"
     THEN Goto(w, "undo") /\ UNCHANGED lease ELSE End(w, "failed")
  /\ UNCHANGED <<dataVars, ownVars, crashes>>

----------------------------------------------------------------------------
(* The rest of a timeline mutation. *)

(* The verifiers pass, and the patch added exactly its own version. *)
AcceptMutation(w) ==
  /\ pc[w] = "verify" /\ saved \ seen[w] = {w}
  /\ End(w, "done")
  /\ UNCHANGED <<dataVars, ownVars, crashes>>

RejectMutation(w) ==
  /\ pc[w] = "verify"
  /\ Goto(w, "undo")
  /\ UNCHANGED <<dataVars, lease, ownVars, crashes>>

(* Slips for the mutation runs. *)
UndoRowsOnly(w) ==
  /\ pc[w] = "undo"
  /\ saved' = saved \ {w}
  /\ active' = base[w]
  /\ patch' = [patch EXCEPT ![w] = "rolled_back"]
  /\ End(w, "failed")
  /\ UNCHANGED <<live, snap, number, ownVars, crashes>>

UndoKeepingActive(w) ==
  /\ pc[w] = "undo"
  /\ live' = snap[base[w]]
  /\ saved' = saved \ {w}
  /\ patch' = [patch EXCEPT ![w] = "rolled_back"]
  /\ End(w, "failed")
  /\ UNCHANGED <<snap, number, active, ownVars, crashes>>

UndoKeepingRow(w) ==
  /\ pc[w] = "undo"
  /\ live' = snap[base[w]]
  /\ active' = base[w]
  /\ patch' = [patch EXCEPT ![w] = "rolled_back"]
  /\ End(w, "failed")
  /\ UNCHANGED <<rowVars, ownVars, crashes>>

UndoToNoVersion(w) ==
  /\ pc[w] = "undo"
  /\ live' = snap[base[w]]
  /\ saved' = saved \ {w}
  /\ active' = Nobody
  /\ patch' = [patch EXCEPT ![w] = "rolled_back"]
  /\ End(w, "failed")
  /\ UNCHANGED <<snap, number, ownVars, crashes>>

(* _restore_failed_mutation, one commit: the plan, the version rows and    *)
(* the active version go back to the base.                                 *)
RestoreFailedMutation(w) ==
  /\ pc[w] = "undo"
  /\ live' = snap[base[w]]
  /\ saved' = saved \ {w}
  /\ active' = base[w]
  /\ patch' = [patch EXCEPT ![w] = "rolled_back"]
  /\ End(w, "failed")
  /\ UNCHANGED <<snap, number, ownVars, crashes>>

----------------------------------------------------------------------------
(* The writers that take no lease: one transaction each. *)

SaveInOneCommit(w, content) ==
  /\ live' = content
  /\ saved' = saved \cup {w}
  /\ snap' = [snap EXCEPT ![w] = content]
  /\ number' = [number EXCEPT ![w] = NewestNumber + 1]
  /\ active' = w

SelectRoute(w) ==
  /\ w \in Selections /\ pc[w] = "checked"
  /\ SaveInOneCommit(w, live \cup {w})
  /\ patch' = [patch EXCEPT ![w] = "accepted"]
  /\ Goto(w, "done")
  /\ UNCHANGED <<lease, ownVars, crashes>>

(* Validation, or a write lock lost to a newer commit. *)
FailSelection(w) ==
  /\ w \in Selections /\ pc[w] = "checked"
  /\ Goto(w, "failed")
  /\ UNCHANGED <<dataVars, lease, ownVars, crashes>>

RestoreVersion(w, v) ==
  /\ w \in Restores /\ pc[w] = "idle" /\ v \in saved
  /\ SaveInOneCommit(w, snap[v])
  /\ Goto(w, "done")
  /\ UNCHANGED <<patch, lease, ownVars, crashes>>

----------------------------------------------------------------------------
(* The process restarts: request threads and locks vanish. *)
Restart ==
  /\ crashes < MaxCrashes
  /\ \E w \in Writers : pc[w] \notin Ended \cup {"idle"}
  /\ pc' = [w \in Writers |-> IF pc[w] \in Ended \cup {"idle"} THEN pc[w] ELSE "crashed"]
  /\ lease' = Nobody
  /\ crashes' = crashes + 1
  /\ UNCHANGED <<dataVars, ownVars>>

Over == \A w \in Writers : pc[w] \in Ended

Step(w) ==
  \/ ReadPlan(w) \/ TakeLease(w) \/ CheckBase(w)
  \/ RejectPatch(w) \/ CommitOperations(w) \/ CaptureSnapshot(w)
  \/ NextVersionNumber(w) \/ SaveVersion(w) \/ FailPatch(w)
  \/ AcceptMutation(w) \/ RejectMutation(w) \/ RestoreFailedMutation(w)
  \/ SelectRoute(w) \/ FailSelection(w)
  \/ \E v \in saved : RestoreVersion(w, v)

Next == Restart \/ (Over /\ UNCHANGED vars) \/ \E w \in Writers : Step(w)

Spec == Init /\ [][Next]_vars

(* Request threads run, and the holder of a lease always leaves it.  The   *)
(* lease is taken a bounded number of times, so each waiter gets it.       *)
FairSpec == Spec /\ \A w \in Writers : WF_vars(Step(w))

----------------------------------------------------------------------------
(* Properties. *)

LeasedOnly == \A w \in Selections \cup Restores : pc[w] = "absent"

(* Among writers that take the lease the versions form one line            *)
(* (VersionHistory): base checked early and version saved late amount to   *)
(* one compare-and-set, and a compensation takes back the newest version.  *)
Line == INSTANCE VersionHistory
          WITH parent <- [v \in saved |-> IF v = First THEN First ELSE base[v]],
               exclusive <- LeasedOnly
LinearHistory == Line!History

(* A version saved by writers that take the lease contains the edit it was *)
(* made for and everything its base contained: no edit is lost by the long *)
(* way from base check to commit.                                          *)
NoLostEdit ==
  LeasedOnly => \A v \in saved \ {First} : snap[base[v]] \cup {v} \subseteq snap[v]

(* Among writers that take the lease the active version has the highest    *)
(* number, and no other version has it.                                    *)
ActiveIsNewest == LeasedOnly => \A v \in saved \ {active} : number[v] < number[active]

(* Among writers that take the lease a mutation that was rolled back is    *)
(* nowhere: not in the plan, and not in a version somebody else saved in   *)
(* the meantime.                                                           *)
RolledBackLeavesNoTrace ==
  LeasedOnly => \A w \in Mutations : patch[w] = "rolled_back" =>
    /\ w \notin live /\ w \notin saved
    /\ \A v \in saved : w \notin snap[v]

(* The active version is a version that exists, whoever deletes or takes   *)
(* back rows at the same time.                                             *)
ActiveExists == active \in saved

(* Whoever holds the lease leaves it, and every write request ends.        *)
EveryWriteEnds == \A w \in Writers : pc[w] = "ready" ~> pc[w] \in Ended

(* Claim of the API contract: a stale base must not change the active      *)
(* version.                                                                *)
StaleNeverMovesActive ==
  [][\A w \in Writers \ Restores : active # w /\ active' = w => active = base[w]]_vars
=============================================================================
