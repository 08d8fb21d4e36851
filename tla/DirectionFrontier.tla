-------------------------- MODULE DirectionFrontier --------------------------
(***************************************************************************)
(* The frontier of one Simple Direction comparison: which qualified places *)
(* a direction may still be built on (SimpleDirectionFrontierService), and *)
(* the claims of the executions that explore it, both kept in the summary  *)
(* of the plan portfolio and moved by compare-and-set (PlanPortfolioStore).*)
(*                                                                         *)
(* An execution is the first turn of a comparison (Initial) or a choice    *)
(* that asks for more directions.  It claims an assignment of places, asks *)
(* the provider for them and settles its claim with what came back, or is  *)
(* closed.  A call that the store refuses raises and changes nothing; which*)
(* call comes next, and whether a choice may be pressed again, is decided  *)
(* above the store (ChoiceExecutions) and left open here.                  *)
(*                                                                         *)
(* The frontier's fingerprint covers all of it: here the frontier itself.  *)
(* The pages of the slots around a group of places are kept as whether any *)
(* is left.  No place is ever "grounding_pending": a failure of the        *)
(* provider is settled before the frontier's own settlement could say so,  *)
(* and what it leaves on a slot stays under providerRecoveryPending.       *)
(***************************************************************************)
EXTENDS Naturals, FiniteSets, FiniteSetsExt

CONSTANTS
  Count,          \* qualified places, in their frozen order 1..Count
  SlotCount,      \* places a direction needs
  MaxPages,       \* maxPagesPerQuery
  Requests,       \* the executions of choices that ask for another direction
  Initial,        \* the execution of the comparison's first turn
  Nobody          \* no group, no claim

Places == 1..Count
Execs == Requests \cup {Initial}

VARIABLES
  frontier,       \* summary_json.simpleDirectionFrontier
  claim           \* summary_json.simpleDirectionFrontierAttempts

vars == <<frontier, claim>>

Layers == {"qualification", "poi", "route", "provider"}

(* The frontier is a record: place[n], with its state, the last page that   *)
(* was asked for it and its group; open, the groups with pages or           *)
(* combinations left; scopes, whether exact query scopes are left outside   *)
(* any group; recovering, providerRecoveryPending; layer, the               *)
(* terminalBlockingLayer.  stamp is the frontierFingerprint of an attempt.  *)
NoClaim == [status |-> "none", plan |-> <<>>, stamp |-> Nobody]

(* The places are frozen, and nothing is claimed yet. *)
Init ==
  /\ frontier = [place |-> [n \in Places |-> [state |-> "untried", page |-> 0, group |-> Nobody]],
                 open |-> {}, scopes |-> FALSE,
                 recovering |-> FALSE, layer |-> "qualification"]
  /\ claim = [e \in Execs |-> NoClaim]

----------------------------------------------------------------------------
(* The frontier. *)

InState(f, states) == {n \in Places : f.place[n].state \in states}
Group(f, g) == {n \in InState(f, {"grounded", "assigned_partial"}) : f.place[n].group = g}
RetryableGroups(f) == {g \in f.open : Cardinality(Group(f, g)) >= SlotCount}

FrontierStatus(f) ==
  IF f.recovering THEN "provider_pending"
  ELSE IF InState(f, {"untried"}) # {} \/ RetryableGroups(f) # {} \/ f.scopes THEN "has_more"
  ELSE CASE f.layer = "provider" -> "provider_pending"
         [] f.layer = "poi" -> "poi_exhausted"
         [] f.layer = "route" -> "route_feasible_exhausted"
         [] OTHER -> "qualification_exhausted"

(* The first k places of S in the frozen order. *)
FirstOf(S, k) == {n \in S : Cardinality({m \in S : m < n}) < k}

(* begin_attempt: untried places first; without enough of them one that is *)
(* in use stands in; a group that was grounded together is retried whole.  *)
Selections(f) ==
  LET fresh == FirstOf(InState(f, {"untried"}), SlotCount)
      inUse == InState(f, {"used_ready", "assigned_partial"})
      filled == fresh \cup FirstOf(inUse, SlotCount - Cardinality(fresh))
      retried == {[places |-> FirstOf(Group(f, g), SlotCount), retry |-> TRUE] :
                    g \in RetryableGroups(f)}
      tooFew == fresh = {} \/ Cardinality(filled) < SlotCount
  IN IF tooFew /\ retried # {} THEN retried
     ELSE {[places |-> IF fresh = {} THEN {} ELSE filled, retry |-> FALSE]}

Mode(f, n, retry) ==
  CASE f.place[n].state = "grounded" -> "collision_retry"
    [] f.place[n].state = "assigned_partial" /\ retry -> "partial_retry"
    [] f.place[n].state \in {"used_ready", "assigned_partial"} -> "reuse"
    [] OTHER -> "new_entity"

(* A collision is retried on the page its place was found on. *)
Page(f, n) == IF f.place[n].state = "grounded" THEN Max({f.place[n].page, 1})
              ELSE Min({f.place[n].page + 1, MaxPages})

Plan(f, sel) == [n \in sel.places |-> [mode |-> Mode(f, n, sel.retry), page |-> Page(f, n)]]

(* reconcile_attempt for one place, which e was given as a: a reused place *)
(* and one retried from a partial proposal keep their history.             *)
PlaceAfter(p, a, e, outcome, disposition) ==
  IF a.mode \in {"reuse", "partial_retry"} THEN p
  ELSE IF outcome = "rejected"
  THEN [p EXCEPT !.page = Max({@, a.page}),
                 !.state = IF a.page < MaxPages THEN "untried" ELSE "rejected"]
  ELSE [p EXCEPT !.page = Max({@, a.page}),
                 !.group = IF disposition = "used_ready" THEN @ ELSE e,
                 !.state = IF disposition = "novelty_collision" THEN "grounded" ELSE disposition]

(* The whole of it: what is left around the places is the provider's word. *)
Reconciled(f, e, outcome, disposition, layer, left, scopes) ==
  [f EXCEPT !.place = [n \in Places |->
                         IF n \notin DOMAIN claim[e].plan THEN f.place[n]
                         ELSE PlaceAfter(f.place[n], claim[e].plan[n], e,
                                         outcome[n], disposition)],
            !.open = left,
            !.scopes = scopes,
            !.recovering = FALSE,
            !.layer = layer]

----------------------------------------------------------------------------
(* Claims. *)

Claimed == {e \in Execs : claim[e].status = "claimed"}
Pending == {e \in Execs : claim[e].status = "provider_pending"}

(* The attempt: its assignments, and the fingerprint they were made from.   *)
ClaimAttempt(e) ==
  /\ claim[e].status = "none"
  /\ Claimed = {} /\ Pending = {}
  /\ FrontierStatus(frontier) = "has_more"
  /\ \E sel \in Selections(frontier) :
       claim' = [claim EXCEPT ![e] = [status |-> "claimed", plan |-> Plan(frontier, sel),
                                      stamp |-> frontier]]
  /\ UNCHANGED frontier

(* "A user-triggered retry reuses the exact same assignment."  A claim that *)
(* is not pending is answered as it is.                                     *)
ResumeAttempt(e) ==
  /\ claim[e].status = "provider_pending" /\ Claimed = {}
  /\ claim' = [claim EXCEPT ![e].status = "claimed"]
  /\ UNCHANGED frontier

----------------------------------------------------------------------------
(* Settlement. *)

(* The provider failed for a place or for a slot around one. *)
SettlePending(e) ==
  /\ claim[e].status = "claimed"
  /\ claim' = [claim EXCEPT ![e].status = "provider_pending"]
  /\ frontier' = [frontier EXCEPT !.recovering = TRUE, !.layer = "provider"]

(* The frontier takes what came back for e's assignment. *)
Settle(e, outcome, disposition, layer, left, scopes) ==
  /\ claim[e].status = "claimed"
  /\ claim[e].stamp = frontier
  /\ frontier' = Reconciled(frontier, e, outcome, disposition, layer, left, scopes)
  /\ claim' = [claim EXCEPT ![e].status = "reconciled"]

Left(e) == {frontier.open \ {e}, frontier.open \cup {e}}

(* The provider answered: a ready or a partial proposal, a direction that   *)
(* is there already, or places without an admissible candidate.             *)
SettleAttempt(e) ==
  \E outcome \in [DOMAIN claim[e].plan -> {"success", "rejected"}],
    disposition \in {"used_ready", "assigned_partial", "novelty_collision"},
    layer \in Layers, left \in Left(e), scopes \in BOOLEAN :
    /\ disposition # "assigned_partial" => \A n \in DOMAIN outcome : outcome[n] = "success"
    /\ Settle(e, outcome, disposition,
              IF disposition = "used_ready" THEN "qualification" ELSE layer, left, scopes)

(* The execution failed after its claim, and its row is closed with it: the *)
(* pages it claimed are spent.  The first turn has no row.                  *)
TerminalizeAttempt(e) ==
  /\ e # Initial
  /\ \E left \in Left(e) :
       Settle(e, [n \in DOMAIN claim[e].plan |-> "rejected"], "assigned_partial",
              "qualification", left, frontier.scopes)

Step(e) ==
  \/ ClaimAttempt(e) \/ ResumeAttempt(e)
  \/ SettlePending(e) \/ SettleAttempt(e) \/ TerminalizeAttempt(e)

Next == \E e \in Execs : Step(e)

Spec == Init /\ [][Next]_vars

----------------------------------------------------------------------------
(* Properties. *)

(* "A comparison root has one bounded Provider budget": one execution at a *)
(* time is at work on it or waits for its retry.                           *)
OneAtATime == \A a, b \in Claimed \cup Pending : a = b

(* "Transport failure is not evidence that the entity or page was          *)
(* exhausted.  Release the active claim while retaining the same           *)
(* assignment for an explicit retry."  A retry that holds the claim again  *)
(* can therefore settle it when the provider answers, or be closed.        *)
RetryCanSettle == \A e \in Claimed : claim[e].stamp = frontier

(* What follows when it cannot: a comparison whose provider failed once is  *)
(* never recovered, by any sequence of calls.                               *)
NeverRecovered == [][frontier.recovering => frontier'.recovering]_vars
=============================================================================
