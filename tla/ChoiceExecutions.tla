-------------------------- MODULE ChoiceExecutions --------------------------
(***************************************************************************)
(* The agent_choice_executions table: one durable row per opaque choice a  *)
(* user can press, claimed by the user turn that executes it               *)
(* (agent_service.py).  Each operator is one committed transaction.        *)
(*                                                                         *)
(* A row remembers the turn that holds the claim, the version the choice   *)
(* was offered on (base), the version active when it was claimed (seen),   *)
(* the version it produced, and for guide choices the dispatch fence:      *)
(* "not_started" until the audited binding window has been left,           *)
(* "dispatching" from then on.  A retryable failure is "unstarted" when    *)
(* the row proves that no business step ran.                               *)
(*                                                                         *)
(* A choice's kind is settled when it is offered: "strict" if its claim is *)
(* recovered strictly (routing mode active-all, or the option has an       *)
(* operationOrigin), "controller" if the turn itself closes its row once   *)
(* the response is there (retries, continuations, clarifications, density  *)
(* choices), and "guide" for a continuation whose claim carries a guide    *)
(* binding.  The other choices have an executor that closes the row.       *)
(*                                                                         *)
(* Left out: rows left by releases that recorded simple-direction evidence *)
(* elsewhere, which SimpleDirectionExecutionEvidenceService reads again    *)
(* (a legacy row may become succeeded or terminal from that evidence).     *)
(***************************************************************************)
CONSTANTS
  Choices,        \* (source turn, choice id) pairs
  Kinds,          \* the kinds of choices offered: subsets of {"strict", "controller", "guide"}
  Claimants,      \* user turns that execute choices
  Versions,       \* itinerary versions
  NoVersion,      \* the empty plan: no active version
  Nobody          \* no claimant

VARIABLE execs

NoExec(kind) ==
          [kind |-> kind, status |-> "none", turn |-> Nobody, base |-> NoVersion,
           seen |-> NoVersion, result |-> NoVersion, dispatch |-> "none", unstarted |-> FALSE]

ExecStatus == {"none", "executing", "succeeded", "failed_retryable", "failed_terminal",
               "cancelled"}

Exec == [kind : Kinds, status : ExecStatus, turn : Claimants \cup {Nobody},
         base : Versions \cup {NoVersion}, seen : Versions \cup {NoVersion},
         result : Versions \cup {NoVersion},
         dispatch : {"none", "not_started", "dispatching"}, unstarted : BOOLEAN]

ExecsInit == \E kind \in [Choices -> Kinds] : execs = [ch \in Choices |-> NoExec(kind[ch])]

ExecsTypeOK == execs \in [Choices -> Exec]

Strict(ch) == "strict" \in execs[ch].kind
Guide(ch) == "guide" \in execs[ch].kind
Controller(ch) == execs[ch].kind \cap {"controller", "guide"} # {}

Fresh(ch, r, b, v) ==
  [kind |-> execs[ch].kind, status |-> "executing", turn |-> r, base |-> b, seen |-> v,
   result |-> NoVersion,
   dispatch |-> IF Strict(ch) /\ Guide(ch) THEN "not_started" ELSE "none",
   unstarted |-> FALSE]

(* Slips for the mutation runs. *)
RetryWithoutProof(ch, r) ==
  /\ execs[ch].status = "failed_retryable"
  /\ execs' = [execs EXCEPT ![ch].status = "executing", ![ch].turn = r,
                            ![ch].unstarted = FALSE]

ReclaimTerminal(ch, r) ==
  /\ ~Strict(ch)
  /\ execs[ch].status \in {"executing", "cancelled"}
  /\ execs' = [execs EXCEPT ![ch].status = "executing", ![ch].turn = r]

----------------------------------------------------------------------------
(* The first claim of a choice offered on version b, while v is active. *)
InsertClaim(ch, r, b, v) ==
  /\ execs[ch].status = "none"
  /\ execs' = [execs EXCEPT ![ch] = Fresh(ch, r, b, v)]

(* A later claim that meets a row executing for another turn may take it   *)
(* over once its 120 second lease has run out, outside strict recovery and *)
(* only when the choice adopts a draft.                                    *)
ReclaimExpired(ch, r) ==
  /\ ~Strict(ch) /\ ~Controller(ch)
  /\ execs[ch].status = "executing"
  /\ execs[ch].turn # r
  /\ execs' = [execs EXCEPT ![ch].turn = r]

(* Compare-and-set retry of a failed row.  Strict recovery resumes only a  *)
(* row that proves the business never started.                             *)
RetryFailed(ch, r) ==
  /\ execs[ch].status = "failed_retryable"
  /\ Strict(ch) => execs[ch].unstarted
  /\ execs' = [execs EXCEPT ![ch].status = "executing", ![ch].turn = r,
                            ![ch].unstarted = FALSE]

(* Does the row prove that nothing was dispatched, and is the business     *)
(* state v still the one the claim was made on?                            *)
ProvablyUnstarted(ch, v) ==
  /\ execs[ch].status = "executing"
  /\ execs[ch].dispatch = "not_started"
  /\ execs[ch].seen = v

SettleUnstarted(ch, v) ==
  /\ ProvablyUnstarted(ch, v)
  /\ execs' = [execs EXCEPT ![ch].status = "failed_retryable",
                            ![ch].unstarted = TRUE]

(* The guide binding window is left: durable before any executor runs. *)
BeginDispatch(ch, r) ==
  /\ execs[ch].turn = r
  /\ execs' = IF execs[ch].dispatch = "not_started"
              THEN [execs EXCEPT ![ch].dispatch = "dispatching"] ELSE execs

(* _finish_fallback_choice_execution; a NULL result keeps the old one. *)
FinishExecution(ch, status, v) ==
  execs' = [execs EXCEPT ![ch].status = status,
                         ![ch].result = IF v = NoVersion THEN @ ELSE v,
                         ![ch].unstarted = FALSE]

(* The rows that a failing or cancelled turn r cleans up. *)
ExecutingFor(r) == {ch \in Choices : execs[ch].turn = r /\ execs[ch].status = "executing"}
CancellableFor(r) ==
  {ch \in Choices : execs[ch].turn = r /\ execs[ch].status \in {"executing", "succeeded"}}

CancelExecution(ch) ==
  execs' = [execs EXCEPT ![ch].status = "cancelled", ![ch].result = NoVersion]
============================================================================
