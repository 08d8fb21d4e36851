------------------------------ MODULE VisitFacts ------------------------------
(***************************************************************************)
(* Checking the opening hours of a proposal on the web before it is        *)
(* adopted (ProposalVisitFactsService.refresh).                            *)
(*                                                                         *)
(* Refreshes of one key share a lock.  The registry hands the lock out and *)
(* counts its users; the last user to leave drops it, and the next refresh *)
(* makes a new one.  A lock is named after the refresh that made it.  A    *)
(* proposal never changes, so its material fingerprint is part of the key; *)
(* its facts, several rows written in one transaction, are one value.      *)
(***************************************************************************)
EXTENDS Naturals, FiniteSets

CONSTANTS
  Keys,        \* what is refreshed: the proposals
  Refreshes,   \* refresh requests, each made once
  NoLock

ASSUME RefreshConstants == NoLock \notin Refreshes /\ IsFiniteSet(Refreshes)

VARIABLES
  lockOf,      \* _REFRESH_LOCKS
  users,       \* _REFRESH_LOCK_USERS
  refresh,     \* each refresh: its stage, key and lock
  facts        \* proposal_segment_visit_facts: what unexpired rows say

factVars == <<lockOf, users, refresh, facts>>

Holding == {"asking", "saving", "leaving"}
Made == {f \in Refreshes : refresh[f].at # "new"}
Running == {f \in Made : refresh[f].at # "done"}

FactsInit ==
  /\ lockOf = [k \in Keys |-> NoLock]
  /\ users = [k \in Keys |-> 0]
  /\ refresh = [f \in Refreshes |-> [at |-> "new", key |-> NoLock, lock |-> NoLock]]
  /\ facts = [k \in Keys |-> "none"]

Goto(f, stage) == refresh' = [refresh EXCEPT ![f].at = stage]

(* The portfolio is open; the lock is the one in the registry, or a new    *)
(* one.                                                                    *)
EnterRefresh(f, k) ==
  /\ refresh[f].at = "new"
  /\ users' = [users EXCEPT ![k] = @ + 1]
  /\ lockOf' = [lockOf EXCEPT ![k] = IF @ = NoLock THEN f ELSE @]
  /\ refresh' = [refresh EXCEPT ![f] = [at |-> "waiting", key |-> k, lock |-> lockOf'[k]]]
  /\ UNCHANGED facts

(* The lock is free: portfolio and facts are read again, and the web is    *)
(* asked for facts that are missing or have expired.                       *)
StartRefresh(f, open) ==
  /\ refresh[f].at = "waiting"
  /\ \A g \in Refreshes : refresh[g].at \in Holding => refresh[g].lock # refresh[f].lock
  /\ Goto(f, IF open /\ facts[refresh[f].key] = "none" THEN "asking" ELSE "leaving")
  /\ UNCHANGED <<lockOf, users, facts>>

(* Facts came, to be saved if the portfolio is still open, or an error.    *)
LearnFacts(f, open) ==
  /\ refresh[f].at = "asking"
  /\ Goto(f, "leaving") \/ (open /\ Goto(f, "saving"))
  /\ UNCHANGED <<lockOf, users, facts>>

(* One transaction, or none while the database is busy.                    *)
SaveFacts(f) ==
  /\ refresh[f].at = "saving"
  /\ \E found \in {"clear", "conflict", facts[refresh[f].key]} :
       facts' = [facts EXCEPT ![refresh[f].key] = found]
  /\ Goto(f, "leaving")
  /\ UNCHANGED <<lockOf, users>>

ReleaseLock(f) ==
  /\ refresh[f].at = "leaving"
  /\ Goto(f, "released")
  /\ UNCHANGED <<lockOf, users, facts>>

(* Slips for the mutation runs. *)
LeaveDroppingLock(f) ==
  /\ refresh[f].at = "released"
  /\ users' = [users EXCEPT ![refresh[f].key] = @ - 1]
  /\ lockOf' = [lockOf EXCEPT ![refresh[f].key] = NoLock]
  /\ Goto(f, "done")
  /\ UNCHANGED facts

(* The last user drops the lock. *)
LeaveRegistry(f) ==
  LET k == refresh[f].key IN
  /\ refresh[f].at = "released"
  /\ users' = [users EXCEPT ![k] = @ - 1]
  /\ lockOf' = [lockOf EXCEPT ![k] = IF users[k] = 1 THEN NoLock ELSE @]
  /\ Goto(f, "done")
  /\ UNCHANGED facts

ExpireFacts(k) ==
  /\ facts[k] # "none"
  /\ facts' = [facts EXCEPT ![k] = "none"]
  /\ UNCHANGED <<lockOf, users, refresh>>

(* A restart ends every request and empties the registry.                  *)
LoseRefreshes ==
  /\ lockOf' = [k \in Keys |-> NoLock] /\ users' = [k \in Keys |-> 0]
  /\ refresh' = [f \in Refreshes |->
                   IF f \in Running THEN [refresh[f] EXCEPT !.at = "done"] ELSE refresh[f]]
  /\ UNCHANGED facts

RefreshStep(f, open) ==
  \/ open /\ \E k \in Keys : EnterRefresh(f, k)
  \/ StartRefresh(f, open) \/ LearnFacts(f, open)
  \/ SaveFacts(f) \/ ReleaseLock(f) \/ LeaveRegistry(f)

----------------------------------------------------------------------------
(* While one refresh asks the web for the facts of a proposal, nobody else *)
(* asks for them and nobody has put them on record: however requests       *)
(* enter, wait and drop the lock, no lookup is made twice                  *)
(* (_proposal_refresh_singleflight).                                       *)
LooksUpOnce ==
  \A f \in Refreshes : refresh[f].at \in {"asking", "saving"} =>
    /\ facts[refresh[f].key] = "none"
    /\ \A g \in Refreshes : refresh[g].at \in {"asking", "saving"} /\ refresh[g].key = refresh[f].key
                              => g = f
=============================================================================
