---------------------------- MODULE AgentIngress ----------------------------
(***************************************************************************)
(* The durable admission journal of agent messages                         *)
(* (agent_ingress_journal.py).  A client names each message with a request *)
(* id; the journal is a field of the user turn whose id is a hash of the   *)
(* session and the request id, so a request and its turn are one value     *)
(* here.  The journal is in SQLite and survives a restart; every operator  *)
(* is one committed transaction.                                           *)
(*                                                                         *)
(* Left out: the payload hash (a request id reused for another payload is  *)
(* refused with 409 before anything is read) and the historical marking of *)
(* a replayed response, which changes only what the client is shown.       *)
(***************************************************************************)
CONSTANT Requests      \* (session, request id) pairs, also their user turns

VARIABLE journal       \* ingressJournal.state of each request's turn

(* A failed journal keeps the HTTP status of the error as well; 499 is a   *)
(* cancelled run.                                                          *)
JournalStates == {"absent", "claimed", "completed", "failed", "failed499"}

Failed(r) == journal[r] \in {"failed", "failed499"}

JournalInit == journal = [r \in Requests |-> "absent"]

JournalTypeOK == journal \in [Requests -> JournalStates]

(* Slips for the mutation runs. *)
ClaimFailedAgain(r) ==
  /\ journal[r] \in {"absent", "failed"}
  /\ journal' = [journal EXCEPT ![r] = "claimed"]

(* claim: BEGIN IMMEDIATE, then insert the turn unless it exists. *)
Claim(r) ==
  /\ journal[r] = "absent"
  /\ journal' = [journal EXCEPT ![r] = "claimed"]

(* update(state=...): merged into the journal when the turn has one. *)
Settle(r, state) ==
  journal' = IF journal[r] = "absent" THEN journal
             ELSE [journal EXCEPT ![r] = state]

(* replay: what a second delivery of an admitted request is told.  Only a  *)
(* completed request is answered; the other two are raised as errors.      *)
ReplayAnswer(r) ==
  CASE Failed(r)                -> "error_replayed"
    [] journal[r] = "completed" -> "replayed"
    [] OTHER                    -> "pending"
============================================================================
