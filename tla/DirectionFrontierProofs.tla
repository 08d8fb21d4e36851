----------------------- MODULE DirectionFrontierProofs -----------------------
(***************************************************************************)
(* That the claims of a comparison exclude each other, and what becomes of *)
(* a comparison whose provider failed, for any number of places and        *)
(* executions.                                                             *)
(***************************************************************************)
EXTENDS DirectionFrontier, TLAPS

(* The records are records: every update below hits a field that is there. *)
Shape ==
  /\ claim = [e \in Execs |-> claim[e]]
  /\ \A e \in Execs : claim[e] = [status |-> claim[e].status, plan |-> claim[e].plan,
                                  stamp |-> claim[e].stamp]
  /\ {"place", "open", "scopes", "recovering", "layer"} \subseteq DOMAIN frontier

(* An assignment is made from a frontier that waits for nobody. *)
MadeWhileOpen ==
  \A e \in Execs : claim[e].status # "none" => ~claim[e].stamp.recovering

IInv == Shape /\ OneAtATime /\ MadeWhileOpen

LEMMA InitIInv == Init => IInv
BY DEF Init, IInv, Shape, OneAtATime, MadeWhileOpen, Claimed, Pending, NoClaim

(* A claim is made by the only execution, of an open frontier. *)
LEMMA ClaimKeeps == ASSUME IInv, NEW e \in Execs, ClaimAttempt(e) PROVE IInv'
<1>1. PICK sel \in Selections(frontier) :
        claim' = [claim EXCEPT ![e] = [status |-> "claimed", plan |-> Plan(frontier, sel),
                                       stamp |-> frontier]]
  BY DEF ClaimAttempt
<1>2. frontier' = frontier /\ Claimed = {} /\ Pending = {} /\ ~frontier.recovering
  BY DEF ClaimAttempt, FrontierStatus
<1>3. claim'[e] = [status |-> "claimed", plan |-> Plan(frontier, sel), stamp |-> frontier]
      /\ \A f \in Execs \ {e} : claim'[f] = claim[f]
  BY <1>1 DEF IInv, Shape
<1>4. Shape'
  BY <1>1, <1>2, <1>3 DEF IInv, Shape
<1>5. (Claimed \cup Pending)' \subseteq {e}
  BY <1>2, <1>3 DEF Claimed, Pending
<1>6. OneAtATime'
  BY <1>5 DEF OneAtATime
<1>7. MadeWhileOpen'
  BY <1>2, <1>3 DEF IInv, MadeWhileOpen
<1> QED BY <1>4, <1>6, <1>7 DEF IInv

(* The other calls move one record that is there, and keep its stamp. *)
LEMMA MoveKeeps ==
  ASSUME IInv, NEW e \in Execs, NEW s \in {"claimed", "provider_pending", "reconciled"},
         claim[e].status \in {"claimed", "provider_pending"},
         claim' = [claim EXCEPT ![e].status = s],
         DOMAIN frontier' = DOMAIN frontier
  PROVE  IInv'
<1>1. claim'[e] = [status |-> s, plan |-> claim[e].plan, stamp |-> claim[e].stamp]
      /\ \A f \in Execs \ {e} : claim'[f] = claim[f]
  BY DEF IInv, Shape
<1>2. Shape'
  BY <1>1 DEF IInv, Shape
<1>3. (Claimed \cup Pending)' \subseteq Claimed \cup Pending
  BY <1>1 DEF Claimed, Pending
<1>4. OneAtATime'
  BY <1>3 DEF IInv, OneAtATime
<1>5. MadeWhileOpen'
  BY <1>1 DEF IInv, MadeWhileOpen
<1> QED BY <1>2, <1>4, <1>5 DEF IInv

LEMMA SettleKeeps ==
  ASSUME IInv, NEW e \in Execs, NEW outcome, NEW disposition, NEW layer, NEW left, NEW scopes,
         Settle(e, outcome, disposition, layer, left, scopes)
  PROVE  IInv' /\ ~frontier.recovering
<1>1. DOMAIN frontier' = DOMAIN frontier
  BY DEF Settle, Reconciled
<1>2. IInv'
  BY <1>1, MoveKeeps DEF Settle
<1>3. ~frontier.recovering
  BY DEF Settle, IInv, MadeWhileOpen
<1> QED BY <1>2, <1>3

(* Each call keeps the invariant, and none recovers a frontier. *)
LEMMA NextIInv == IInv /\ [Next]_vars => IInv' /\ (frontier.recovering => frontier'.recovering)
<1> SUFFICES ASSUME IInv, [Next]_vars
             PROVE  IInv' /\ (frontier.recovering => frontier'.recovering)
  OBVIOUS
<1>1. CASE UNCHANGED vars
  BY <1>1 DEF vars, IInv, Shape, OneAtATime, MadeWhileOpen, Claimed, Pending
<1>2. ASSUME NEW e \in Execs, ClaimAttempt(e)
      PROVE  IInv' /\ (frontier.recovering => frontier'.recovering)
  BY <1>2, ClaimKeeps DEF ClaimAttempt
<1>3. ASSUME NEW e \in Execs, ResumeAttempt(e)
      PROVE  IInv' /\ (frontier.recovering => frontier'.recovering)
  BY <1>3, MoveKeeps DEF ResumeAttempt
<1>4. ASSUME NEW e \in Execs, SettlePending(e)
      PROVE  IInv' /\ (frontier.recovering => frontier'.recovering)
  <2>1. DOMAIN frontier' = DOMAIN frontier /\ frontier'.recovering
    BY <1>4 DEF SettlePending, IInv, Shape
  <2> QED BY <1>4, <2>1, MoveKeeps DEF SettlePending
<1>5. ASSUME NEW e \in Execs, SettleAttempt(e)
      PROVE  IInv' /\ (frontier.recovering => frontier'.recovering)
  BY <1>5, SettleKeeps DEF SettleAttempt
<1>6. ASSUME NEW e \in Execs, TerminalizeAttempt(e)
      PROVE  IInv' /\ (frontier.recovering => frontier'.recovering)
  BY <1>6, SettleKeeps DEF TerminalizeAttempt
<1> QED BY <1>1, <1>2, <1>3, <1>4, <1>5, <1>6 DEF Next, Step

(* One execution at a time is at work on the comparison or waits for its   *)
(* retry (claim_simple_direction_frontier_attempt).                        *)
THEOREM OneClaim == Spec => []OneAtATime
<1>1. IInv => OneAtATime
  BY DEF IInv
<1> QED BY <1>1, InitIInv, NextIInv, PTL DEF Spec

(* After one failure of the provider no sequence of claims, retries and    *)
(* settlements makes the frontier available again: the retry's settlement  *)
(* meets the stale check of reconcile_attempt, and so does its closing.    *)
THEOREM FailureIsForGood == Spec => NeverRecovered
<1>1. IInv /\ [Next]_vars => [frontier.recovering => frontier'.recovering]_vars
  BY NextIInv
<1> QED BY <1>1, InitIInv, NextIInv, PTL DEF Spec, NeverRecovered
=============================================================================
