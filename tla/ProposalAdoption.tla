-------------------------- MODULE ProposalAdoption --------------------------
(***************************************************************************)
(* Adopting one of the proposals of a plan portfolio: the user presses an  *)
(* opaque choice, and the stored proposal becomes a version of the         *)
(* itinerary (AgentService._execute_selected_plan_proposal with            *)
(* PlanProposalCommitService and PlanPortfolioStore).                      *)
(*                                                                         *)
(* Four tables have to agree in the end, and each step below is a commit   *)
(* of its own: the choice's execution row, the portfolio with its          *)
(* proposals, the patch row and the version.  A selection is claimed by    *)
(* compare-and-set (committing), the writer creates the version, and the   *)
(* portfolio is settled after it; the windows in between are repaired by   *)
(* the next press.                                                         *)
(*                                                                         *)
(* Presses of one session exclude each other (the run lease of module      *)
(* AgentTurn), so one press at a time is at work, while saves of the user  *)
(* through the patch API, failures and restarts fall between any steps.    *)
(* Presses are numbered; a version is named after the press that wrote it. *)
(* Nothing here tells apart why a proposal is refused, nor the route and   *)
(* readiness checks: their verdict is open.  Left out: portfolios of older *)
(* releases without a base version, which take the active partial draft as *)
(* their base, faults in the release and expiry updates, and a fault while *)
(* another one is handled.                                                 *)
(***************************************************************************)
EXTENDS Naturals, FiniteSets, ChoiceExecutions, VisitFacts

CONSTANTS
  NoProposal,       \* the empty selection
  Workflows,        \* workflow modes of portfolios: "simple" (simple_direction_v1), "final"
  Saves,            \* versions saved by the user
  MaxRequests,      \* bound: presses of any choice, and refreshes of visit facts
  MaxCrashes        \* bound: restarts and connections lost

Proposals == Choices
Presses == Claimants

ASSUME PressesAreNumbered == MaxRequests \in Nat /\ Claimants = 1..MaxRequests
ASSUME AdoptionConstants ==
  /\ Keys = Choices
  /\ Versions = Claimants \cup Saves /\ Claimants \cap Saves = {}
  /\ NoVersion \notin Versions /\ Nobody \notin Claimants /\ NoProposal \notin Choices
  /\ \A kind \in Kinds : "guide" \notin kind
  /\ MaxCrashes \in Nat /\ Workflows \subseteq {"simple", "final"}

VARIABLES
  workflow,   \* workflowMode of the portfolio; a simple direction stays open for the others
  status,     \* agent_plan_portfolios.status
  selected,   \* selected_proposal_id
  expected,   \* expected_base_version_id
  stale,      \* the claim is older than SELECTION_LEASE_SECONDS
  offers,     \* how agent_plan_proposals.status was last settled; the checks before a
              \* commit refresh it too (adoption_ready, ...), but nothing here reads that
  patch,      \* each press's itinerary_patches row: result NULL or set
  versions, activeVersion,
  undone,     \* history: presses whose write a failing press has taken back
  pressed, target,  \* presses so far and the choice of each
  at,         \* stage of the press at work
  before,     \* the session's active version as the press read it
  prior,      \* selected_proposal_id as the press loaded it
  told,       \* what the user was told of each press
  crashes

portfolioVars == <<workflow, status, selected, expected, stale, offers>>
writerVars == <<patch, versions, activeVersion, undone>>
pressVars == <<pressed, target, before, prior>>
vars == <<execs, portfolioVars, writerVars, pressVars, factVars, at, told, crashes>>

Init ==
  /\ ExecsInit /\ FactsInit
  /\ workflow \in Workflows
  /\ status = "awaiting_selection" /\ selected = NoProposal /\ expected = NoVersion
  /\ stale = FALSE
  /\ offers = [p \in Proposals |-> "offered"]
  /\ patch = [r \in Presses |-> "none"]
  /\ versions = {} /\ activeVersion = NoVersion /\ undone = {}
  /\ pressed = 0 /\ target = [r \in Presses |-> NoProposal]
  /\ at = "idle" /\ before = NoVersion /\ prior = NoProposal
  /\ told = [r \in Presses |-> "none"]
  /\ crashes = 0

Choice == target[pressed]
Requested == pressed + Cardinality(Made)
SimpleDirection == workflow = "simple"
Answer(a) == told' = [told EXCEPT ![pressed] = a] /\ at' = "idle"
Proceed(stage) == at' = stage /\ UNCHANGED told

(* The version the latest press of proposal p is on record with: the patch *)
(* row of its turn, newest first; NoVersion while the row names none.      *)
RecordedResult(p) ==
  LET rows == {r \in Presses : target[r] = p /\ patch[r] # "none"}
      newest == CHOOSE r \in rows : \A q \in rows : q <= r
  IN IF rows # {} /\ patch[newest] = "saved" THEN newest ELSE NoVersion

----------------------------------------------------------------------------
(* The portfolio store.  Every update renews updated_at. *)

(* claim_selection, a compare-and-set. *)
ClaimSelection(p) ==
  /\ status = "awaiting_selection"
  /\ status' = "committing" /\ selected' = p /\ stale' = FALSE
  /\ UNCHANGED <<workflow, expected, offers>>

(* Slips for the mutation runs. *)
ReleaseNothing(p) == UNCHANGED portfolioVars

(* release_selection, which touches a committing portfolio only. *)
ReleaseSelection(p) ==
  IF status = "committing"
  THEN /\ status' = "awaiting_selection" /\ selected' = p /\ stale' = FALSE
       /\ UNCHANGED <<workflow, expected, offers>>
  ELSE UNCHANGED portfolioVars

(* _persist_committed_selection: a simple direction stays open for another *)
(* choice, based on the version just adopted.                              *)
PersistSelection(p, v) ==
  /\ status' = IF SimpleDirection THEN "awaiting_selection" ELSE "committed"
  /\ selected' = p
  /\ expected' = IF SimpleDirection THEN v ELSE expected
  /\ stale' = FALSE
  /\ UNCHANGED workflow
  /\ offers' = [q \in Proposals |-> IF q = p THEN "committed" ELSE "comparison_only"]

(* reconcile_committed_selection refuses when the evidence does not match. *)
Reconcilable(p, v) ==
  /\ v \in versions /\ activeVersion = v /\ selected = p
  /\ status \in {"committing", "awaiting_selection", "committed"}

(* Slips for the mutation runs. *)
ExpireAnyStatus ==
  /\ at \in {"idle", "load", "commit"}
  /\ status' = "expired" /\ stale' = FALSE
  /\ UNCHANGED <<workflow, selected, expected, offers, execs, writerVars, pressed, target, before,
                 prior, at, told, crashes>>

(* expires_at has passed when load_choice reads the portfolio, or another  *)
(* turn replaced it by a new one (expire_session).                         *)
ExpirePortfolio ==
  /\ at \in {"idle", "load", "commit"} /\ status = "awaiting_selection"
  /\ status' = "expired" /\ stale' = FALSE
  /\ offers' = [p \in Proposals |-> IF offers[p] = "offered" THEN "expired" ELSE offers[p]]
  /\ UNCHANGED <<workflow, selected, expected, execs, writerVars, pressVars, at, told, crashes>>

----------------------------------------------------------------------------
(* From the press to the claim of the choice. *)

Press(p) ==
  /\ at = "idle" /\ Requested < MaxRequests
  /\ pressed' = pressed + 1
  /\ target' = [target EXCEPT ![pressed + 1] = p]
  /\ Proceed("load")
  /\ UNCHANGED <<execs, portfolioVars, writerVars, before, prior, crashes>>

RefuseExpired ==
  /\ at = "load" /\ status = "expired"
  /\ Answer("failed")
  /\ UNCHANGED <<execs, portfolioVars, writerVars, pressVars, crashes>>

(* _recover_committing_plan_proposal_choice, for a portfolio that an       *)
(* earlier press of the same choice left committing.                       *)
LeftCommitting == status = "committing" /\ selected = Choice
WriterFinished ==
  /\ RecordedResult(Choice) # NoVersion /\ RecordedResult(Choice) = activeVersion
  /\ execs[Choice].status \in {"executing", "succeeded"}

(* The writer got through: settle the portfolio from its version ... *)
RecoverPortfolio ==
  /\ at = "load" /\ LeftCommitting /\ WriterFinished
  /\ PersistSelection(Choice, activeVersion)
  /\ Proceed("recovered")
  /\ UNCHANGED <<execs, writerVars, pressVars, crashes>>

(* ... then the execution row, and answer the press as a replay. *)
RecoverExecution ==
  /\ at = "recovered"
  /\ LET v == RecordedResult(Choice) IN
       /\ IF execs[Choice].status = "succeeded" THEN UNCHANGED execs
          ELSE FinishExecution(Choice, "succeeded", v)
       /\ Answer(IF v = activeVersion THEN "replayed" ELSE "failed")
  /\ UNCHANGED <<portfolioVars, writerVars, pressVars, crashes>>

(* No writer evidence and the lease is over: release the selection ...     *)
ReleaseStaleSelection ==
  /\ at = "load" /\ LeftCommitting
  /\ RecordedResult(Choice) = NoVersion /\ stale
  /\ ReleaseSelection(NoProposal)
  /\ Proceed("released")
  /\ UNCHANGED <<execs, writerVars, pressVars, crashes>>

(* ... then the execution row of the dead press.                           *)
ReleaseStaleExecution ==
  /\ at = "released"
  /\ IF execs[Choice].status = "executing"
     THEN FinishExecution(Choice, "failed_retryable", NoVersion) ELSE UNCHANGED execs
  /\ Proceed("claim")
  /\ UNCHANGED <<portfolioVars, writerVars, pressVars, crashes>>

NothingToRecover ==
  /\ at = "load" /\ status # "expired"
  /\ LeftCommitting => /\ ~WriterFinished
                       /\ ~(RecordedResult(Choice) = NoVersion /\ stale)
  /\ Proceed("claim")
  /\ UNCHANGED <<execs, portfolioVars, writerVars, pressVars, crashes>>

(* Slips for the mutation runs. *)
ClaimOverdue ==
  /\ at = "claim"
  /\ \/ InsertClaim(Choice, pressed, expected, activeVersion)
     \/ /\ execs[Choice].status = "executing"
        /\ execs' = [execs EXCEPT ![Choice].turn = pressed]
  /\ before' = activeVersion
  /\ Proceed("facts")
  /\ UNCHANGED <<portfolioVars, writerVars, pressed, target, prior, crashes>>

(* The claim is the press's, and the session row is read as it is now. *)
ClaimChoice ==
  /\ at = "claim"
  /\ \/ \E b \in {expected} \cup IF Strict(Choice) THEN {} ELSE {NoVersion} :
          InsertClaim(Choice, pressed, b, activeVersion)
     \/ ReclaimExpired(Choice, pressed)
     \/ RetryFailed(Choice, pressed)
  /\ before' = activeVersion
  /\ Proceed("facts")
  /\ UNCHANGED <<portfolioVars, writerVars, pressed, target, prior, crashes>>

ReplayChoice ==
  /\ at = "claim" /\ execs[Choice].status = "succeeded"
  /\ Answer(IF execs[Choice].result = activeVersion THEN "replayed" ELSE "failed")
  /\ UNCHANGED <<execs, portfolioVars, writerVars, pressVars, crashes>>

RefuseChoice ==
  /\ at = "claim"
  /\ \/ execs[Choice].status \in {"executing", "cancelled"}
     \/ execs[Choice].status = "failed_retryable" /\ Strict(Choice) /\ ~execs[Choice].unstarted
  /\ Answer("failed")
  /\ UNCHANGED <<execs, portfolioVars, writerVars, pressVars, crashes>>

----------------------------------------------------------------------------
(* The checks before the commit, and PlanProposalCommitService.commit.     *)

(* assert_adoption_allowed: facts that expired contradict nothing.         *)
CheckFacts ==
  /\ at = "facts"
  /\ Proceed(IF facts[Choice] = "conflict" THEN "abandon" ELSE "commit")
  /\ UNCHANGED <<execs, portfolioVars, writerVars, pressVars, crashes>>

(* The proposal is open, its base is the active version and it verifies. *)
VerifyProposal ==
  /\ at = "commit"
  /\ status = "awaiting_selection" /\ expected = before
  /\ prior' = selected
  /\ Proceed("fence")
  /\ UNCHANGED <<execs, portfolioVars, writerVars, pressed, target, before, crashes>>

(* A check fails, or an error before anything was written. *)
RejectProposal ==
  /\ at \in {"facts", "commit"}
  /\ Proceed("abandon")
  /\ UNCHANGED <<execs, portfolioVars, writerVars, pressVars, crashes>>

(* What every press that has claimed the choice's row has written: their   *)
(* turns name its executionId.                                             *)
WrittenFor(p) ==
  {r \in Presses : target[r] = p /\ (patch[r] # "none" \/ execs[p].result = r)}

(* The clean-up of the turn that holds the claim                           *)
(* (_cancel_fallback_choice_execution): if there is anything to take back, *)
(* an earlier press's write included, the session returns to the version   *)
(* the choice was offered on, or to the empty plan when that is gone.      *)
(* The portfolio is left as it is.                                         *)
UndoWrites(p) ==
  /\ activeVersion' = IF WrittenFor(p) = {} THEN activeVersion
                      ELSE IF execs[p].base \in versions THEN execs[p].base ELSE NoVersion
  /\ versions' = versions \ WrittenFor(p)
  /\ patch' = [r \in Presses |-> IF r \in WrittenFor(p) THEN "none" ELSE patch[r]]
  /\ undone' = undone \cup WrittenFor(p)

(* A cancellation is seen before the claim or at the write fence (499).    *)
CancelSeen ==
  /\ \/ at = "claim" /\ UNCHANGED <<execs, writerVars>>
     \/ at = "fence" /\ CancelExecution(Choice) /\ UndoWrites(Choice)
  /\ Answer("cancelled")
  /\ UNCHANGED <<portfolioVars, pressVars, crashes>>

(* An error outside the guarded block: between the claim and the checks,   *)
(* or once the selection is settled, before the row is closed or because   *)
(* it could not be.                                                        *)
FailOutside ==
  /\ at \in {"facts", "finish"}
  /\ UndoWrites(Choice)
  /\ execs' = [execs EXCEPT ![Choice].status = "failed_retryable", ![Choice].result = NoVersion]
  /\ Answer("failed")
  /\ UNCHANGED <<portfolioVars, pressVars, crashes>>

SelectProposal ==
  /\ at = "fence"
  /\ ClaimSelection(Choice)
  /\ Proceed("persist")
  /\ UNCHANGED <<execs, writerVars, pressVars, crashes>>

(* Slips for the mutation runs. *)
AnyBase == TRUE

(* apply_patch: the base check, then two commits under the plan lease. *)
BaseStands == activeVersion \in {NoVersion, before}

PersistOperations ==
  /\ at = "persist"
  /\ IF BaseStands
     THEN patch' = [patch EXCEPT ![pressed] = "open"] /\ Proceed("save")
     ELSE UNCHANGED patch /\ Proceed("undo")
  /\ UNCHANGED <<execs, portfolioVars, versions, activeVersion, undone, pressVars, crashes>>

(* Slips for the mutation runs. *)
SaveAndSucceed ==
  /\ at = "save"
  /\ versions' = versions \cup {pressed} /\ activeVersion' = pressed
  /\ patch' = [patch EXCEPT ![pressed] = "saved"]
  /\ FinishExecution(Choice, "succeeded", pressed)
  /\ Proceed("verify")
  /\ UNCHANGED <<portfolioVars, undone, pressVars, crashes>>

PersistVersion ==
  /\ at = "save"
  /\ versions' = versions \cup {pressed} /\ activeVersion' = pressed
  /\ patch' = [patch EXCEPT ![pressed] = "saved"]
  /\ Proceed("verify")
  /\ UNCHANGED <<execs, portfolioVars, undone, pressVars, crashes>>

VerifierAccepts ==
  /\ at = "verify"
  /\ Proceed("mark")
  /\ UNCHANGED <<execs, portfolioVars, writerVars, pressVars, crashes>>

(* The writer raises, or the verifier rejects what it wrote. *)
PersistFails ==
  /\ at \in {"persist", "save", "verify"}
  /\ Proceed("undo")
  /\ UNCHANGED <<execs, portfolioVars, writerVars, pressVars, crashes>>

(* Slips for the mutation runs. *)
UndoKeepingVersion ==
  /\ at = "undo"
  /\ activeVersion' = before
  /\ patch' = [patch EXCEPT ![pressed] = "none"]
  /\ Proceed("release")
  /\ UNCHANGED <<execs, versions, undone, portfolioVars, pressVars, crashes>>

(* The session goes back to what the press read, and the write disappears. *)
UndoPersist ==
  /\ at = "undo"
  /\ activeVersion' = before
  /\ versions' = versions \ {pressed}
  /\ patch' = [patch EXCEPT ![pressed] = "none"]
  /\ execs' = [ch \in Choices |-> IF execs[ch].result = pressed
                                  THEN [execs[ch] EXCEPT !.result = NoVersion] ELSE execs[ch]]
  /\ Proceed("release")
  /\ UNCHANGED <<portfolioVars, undone, pressVars, crashes>>

ReleaseAfterUndo ==
  /\ at = "release"
  /\ ReleaseSelection(IF SimpleDirection THEN prior ELSE NoProposal)
  /\ Proceed("abandon")
  /\ UNCHANGED <<execs, writerVars, pressVars, crashes>>

MarkCommitted ==
  /\ at = "mark"
  /\ \/ PersistSelection(Choice, pressed) /\ Proceed("finish")
     \/ UNCHANGED portfolioVars /\ Proceed("reconcile")
  /\ UNCHANGED <<execs, writerVars, pressVars, crashes>>

(* The bookkeeping faulted once: once more, from persisted evidence. *)
ReconcileCommitted ==
  /\ at = "reconcile"
  /\ \/ /\ Reconcilable(Choice, pressed)
        /\ PersistSelection(Choice, pressed) /\ Proceed("finish")
     \/ UNCHANGED portfolioVars /\ Proceed("abandon")
  /\ UNCHANGED <<execs, writerVars, pressVars, crashes>>

(* The caller closes the execution row; a fault while it does is swallowed.*)
FinishChoice ==
  /\ at = "finish"
  /\ \/ FinishExecution(Choice, "succeeded", pressed)
     \/ UNCHANGED execs
  /\ Answer("adopted")
  /\ UNCHANGED <<portfolioVars, writerVars, pressVars, crashes>>

AbandonChoice ==
  /\ at = "abandon"
  /\ FinishExecution(Choice, "failed_retryable", NoVersion)
  /\ Answer("failed")
  /\ UNCHANGED <<portfolioVars, writerVars, pressVars, crashes>>

----------------------------------------------------------------------------
(* The environment. *)

(* A save through the patch API on the active version; it waits for the    *)
(* plan lease between the two commits of the writer.                       *)
UserSave(m) ==
  /\ at # "save" /\ m \notin versions
  /\ versions' = versions \cup {m} /\ activeVersion' = m
  /\ UNCHANGED <<execs, portfolioVars, patch, undone, pressVars, at, told, crashes>>

SelectionLeaseExpires ==
  /\ at = "idle" /\ status = "committing" /\ ~stale
  /\ stale' = TRUE
  /\ UNCHANGED <<execs, workflow, status, selected, expected, offers, writerVars, pressVars,
                 at, told, crashes>>

(* The connection of the press is closed under its thread, or a restart    *)
(* ends the refreshes too.                                                 *)
Crash ==
  /\ at # "idle" \/ Running # {}
  /\ crashes < MaxCrashes
  /\ crashes' = crashes + 1
  /\ at' = "idle"
  /\ UNCHANGED factVars \/ LoseRefreshes
  /\ UNCHANGED <<execs, portfolioVars, writerVars, pressVars, told>>

(* Somebody looks at a proposal and has its visit facts refreshed, beside  *)
(* whatever happens to the portfolio.                                      *)
Refresh(f) ==
  /\ refresh[f].at = "new" => Requested < MaxRequests
  /\ RefreshStep(f, status = "awaiting_selection")
  /\ UNCHANGED <<execs, portfolioVars, writerVars, pressVars, at, told, crashes>>

FactsExpire(p) ==
  /\ ExpireFacts(p)
  /\ UNCHANGED <<execs, portfolioVars, writerVars, pressVars, at, told, crashes>>

(* The bound is reached. *)
Over == at = "idle" /\ Running = {} /\ Requested = MaxRequests /\ UNCHANGED vars

Step ==
  \/ RefuseExpired \/ RecoverPortfolio \/ RecoverExecution \/ ReleaseStaleSelection
  \/ ReleaseStaleExecution \/ NothingToRecover \/ ClaimChoice \/ ReplayChoice \/ RefuseChoice
  \/ CheckFacts \/ VerifyProposal
  \/ RejectProposal \/ CancelSeen \/ FailOutside \/ SelectProposal \/ PersistOperations \/ PersistVersion
  \/ VerifierAccepts \/ PersistFails \/ UndoPersist \/ ReleaseAfterUndo \/ MarkCommitted
  \/ ReconcileCommitted \/ FinishChoice \/ AbandonChoice

Next ==
  \/ /\ \/ Step \/ ExpirePortfolio \/ SelectionLeaseExpires
        \/ \E p \in Proposals : Press(p)
        \/ \E m \in Saves : UserSave(m)
     /\ UNCHANGED factVars
  \/ \E f \in Refreshes : Refresh(f)
  \/ \E p \in Proposals : FactsExpire(p)
  \/ Crash \/ Over

Spec == Init /\ [][Next]_vars

----------------------------------------------------------------------------
(* Properties. *)

VersionsOf(p) == {r \in versions \cap Presses : target[r] = p}

(* Claim of reconcile_committed_selection's docstring: retrying an opaque  *)
(* choice must not create a second version.                                *)
AdoptedOnce == \A p \in Proposals : Cardinality(VersionsOf(p)) <= 1

(* A choice never leaves two versions behind, whatever is retried, if its  *)
(* claim is recovered strictly or its adoption closes the portfolio: claim,*)
(* compare-and-set and recovery together make an adoption happen once.     *)
OneVersionPerChoice ==
  \A p \in Proposals : Strict(p) \/ ~SimpleDirection => Cardinality(VersionsOf(p)) <= 1

(* A choice recorded as succeeded names a version of that choice that      *)
(* exists, and the portfolio has been settled for it: what a replay shows  *)
(* the user was really adopted.                                            *)
SuccessIsBacked ==
  \A p \in Proposals : execs[p].status = "succeeded" =>
    /\ execs[p].result \in VersionsOf(p)
    /\ offers[p] \in {"committed", "comparison_only"}

(* No version without the portfolio knowing: a version written for a       *)
(* proposal is either settled, or the portfolio is still committing that   *)
(* very proposal and the next press can find it.                           *)
VersionIsNamed ==
  \A p \in Proposals : VersionsOf(p) # {} =>
    \/ offers[p] \in {"committed", "comparison_only"}
    \/ status = "committing" /\ selected = p

(* Without a crash a portfolio is left committing only over a version that *)
(* exists, or did until a later press of the choice failed and took it     *)
(* back: every failure path before it gives the selection back.            *)
SelectionHasOwner ==
  crashes = 0 /\ at = "idle" /\ status = "committing" =>
    \/ VersionsOf(selected) # {}
    \/ \E r \in undone : target[r] = selected

(* An adopted version replaces exactly the version its proposal was made   *)
(* for; what the user saved meanwhile is never adopted over.               *)
AdoptsTheOfferedBase ==
  [][(versions' \ versions) \cap Presses # {} => activeVersion = expected]_vars

(* A portfolio once committed stays with its proposal. *)
CommittedIsFinal ==
  [][status = "committed" => status' = "committed" /\ selected' = selected]_vars
=============================================================================
