--------------------------- MODULE AgentTurnProofs ---------------------------
(***************************************************************************)
(* What TLAPS proves of AgentTurn for any number of sessions, requests,    *)
(* calls, choices and restarts: type correctness, the inductive invariant  *)
(* IInv, the inductive invariant ChoiceInv of the choices, and the safety  *)
(* properties that follow from them.                                       *)
(***************************************************************************)
EXTENDS AgentTurn, TLAPS

----------------------------------------------------------------------------
(* The operators of the choice table keep its rows well formed. *)

LEMMA ClaimsTyped ==
  ASSUME ExecsTypeOK, NEW ch \in Choices, NEW r \in Claimants,
         NEW b \in Versions \cup {NoVersion}, NEW v \in Versions \cup {NoVersion},
         InsertClaim(ch, r, b, v) \/ ReclaimExpired(ch, r) \/ RetryFailed(ch, r)
  PROVE  ExecsTypeOK'
<1>1. Fresh(ch, r, b, v) \in Exec
  BY DEF Fresh, Exec, ExecStatus, ExecsTypeOK
<1>2. CASE InsertClaim(ch, r, b, v)
  BY <1>1, <1>2 DEF InsertClaim, ExecsTypeOK
<1>3. CASE ReclaimExpired(ch, r)
  <2>1. [execs[ch] EXCEPT !.turn = r] \in Exec
    BY DEF ExecsTypeOK, Exec
  <2> QED BY <1>3, <2>1 DEF ReclaimExpired, ExecsTypeOK
<1>4. CASE RetryFailed(ch, r)
  <2>1. [execs[ch] EXCEPT !.status = "executing", !.turn = r, !.unstarted = FALSE] \in Exec
    BY DEF ExecsTypeOK, Exec, ExecStatus
  <2> QED BY <1>4, <2>1 DEF RetryFailed, ExecsTypeOK
<1> QED BY <1>2, <1>3, <1>4

LEMMA SettleTyped ==
  ASSUME ExecsTypeOK, NEW ch, NEW v, SettleUnstarted(ch, v)
  PROVE  ExecsTypeOK'
<1>1. ch \in Choices => [execs[ch] EXCEPT !.status = "failed_retryable", !.unstarted = TRUE] \in Exec
  BY DEF ExecsTypeOK, Exec, ExecStatus
<1> QED BY <1>1 DEF SettleUnstarted, ExecsTypeOK

LEMMA DispatchTyped ==
  ASSUME ExecsTypeOK, NEW ch, NEW r, BeginDispatch(ch, r)
  PROVE  ExecsTypeOK'
<1>1. ch \in Choices => [execs[ch] EXCEPT !.dispatch = "dispatching"] \in Exec
  BY DEF ExecsTypeOK, Exec, ExecStatus
<1> QED BY <1>1 DEF BeginDispatch, ExecsTypeOK

LEMMA FinishTyped ==
  ASSUME ExecsTypeOK, NEW ch, NEW st \in {"succeeded", "failed_retryable", "failed_terminal"},
         NEW v \in Versions \cup {NoVersion}, FinishExecution(ch, st, v)
  PROVE  ExecsTypeOK'
<1>1. ch \in Choices => [execs[ch] EXCEPT !.status = st,
                        !.result = IF v = NoVersion THEN @ ELSE v,
                        !.unstarted = FALSE] \in Exec
  BY DEF ExecsTypeOK, Exec, ExecStatus
<1> QED BY <1>1 DEF FinishExecution, ExecsTypeOK

LEMMA CancelTyped ==
  ASSUME ExecsTypeOK, NEW ch, CancelExecution(ch)
  PROVE  ExecsTypeOK'
<1>1. ch \in Choices => [execs[ch] EXCEPT !.status = "cancelled", !.result = NoVersion] \in Exec
  BY DEF ExecsTypeOK, Exec, ExecStatus
<1> QED BY <1>1 DEF CancelExecution, ExecsTypeOK

----------------------------------------------------------------------------
(* Type correctness. *)

(* The inputs of an action are the request, session and choice of a call. *)
LEMMA CallInputs ==
  ASSUME TypeOK, NEW c \in Calls
  PROVE  /\ Req(c) \in Requests /\ Ses(c) \in Sessions
         /\ Chosen(c) # NoChoice => Chosen(c) \in Choices
         /\ Req(c) \in Versions /\ Req(c) \in Claimants /\ Req(c) \in Turns
         /\ activeVersion[Ses(c)] \in Versions \cup {NoVersion}
  BY RequestsNamed, TurnsAreRequests DEF Req, Ses, Chosen, TypeOK

LEMMA UndoTyped ==
  ASSUME TypeOK, NEW c \in Calls, NEW ch, UndoChoice(ch, c)
  PROVE  /\ ExecsTypeOK'
         /\ versions' \subseteq Versions /\ patches' \subseteq Requests
         /\ activeVersion' \in [Sessions -> Versions \cup {NoVersion}]
<1>1. ExecsTypeOK'
  BY CancelTyped DEF UndoChoice, TypeOK
<1> QED BY <1>1 DEF UndoChoice, OfferedBase, TypeOK

(* Every reachable state is well typed. *)
THEOREM Typing == Spec => []TypeOK
<1>1. Init => TypeOK
  BY BoundsAreNaturals DEF Init, TypeOK, ControlInit, ControlTypeOK, JournalInit, JournalTypeOK,
     JournalStates, ExecsInit, ExecsTypeOK, NoExec, Exec, ExecStatus, Stages, Answers
<1>2. TypeOK /\ [Next]_vars => TypeOK'
  <2> SUFFICES ASSUME TypeOK, [Next]_vars PROVE TypeOK'
    OBVIOUS
  <2>1. ASSUME NEW c \in Calls, Step(c) PROVE TypeOK'
    <3> USE DEF TypeOK, ControlTypeOK, JournalTypeOK, Stages, Locked, Answers, Goto, Say, Tell,
        controlVars, dataVars, historyVars, localVars
    <3>0. /\ Req(c) \in Requests /\ Ses(c) \in Sessions
          /\ Chosen(c) # NoChoice => Chosen(c) \in Choices
          /\ Req(c) \in Versions /\ Req(c) \in Claimants /\ Req(c) \in Turns
          /\ activeVersion[Ses(c)] \in Versions \cup {NoVersion}
      BY CallInputs
    <3>1. CASE AnswerFromJournal(c)
      BY <3>0, <3>1 DEF AnswerFromJournal, ReplayAnswer, Answers, ExecsTypeOK
    <3>2. CASE LookupMisses(c)
      BY <3>0, <3>2 DEF LookupMisses, ExecsTypeOK
    <3>3. CASE TakeLease(c)
      BY <3>0, <3>3 DEF TakeLease, AcquireSessionRun, ExecsTypeOK
    <3>4. CASE RefuseLease(c)
      BY <3>0, <3>4 DEF RefuseLease, ExecsTypeOK
    <3>5. CASE ClaimIngress(c)
      BY <3>0, <3>5 DEF ClaimIngress, Claim, JournalStates, ExecsTypeOK
    <3>6. CASE ClaimLost(c)
      BY <3>0, <3>6 DEF ClaimLost, ReplayAnswer, Answers, ExecsTypeOK
    <3>7. CASE BindTurn(c)
      BY <3>0, <3>7 DEF BindTurn, BindSessionRunTurn, ExecsTypeOK
    <3>8. CASE StartGeneration(c)
      BY <3>0, <3>8 DEF StartGeneration, ExecsTypeOK
    <3>9. CASE ReplyOnly(c)
      BY <3>0, <3>9 DEF ReplyOnly, ExecsTypeOK
    <3>10. CASE DraftItinerary(c)
      BY <3>0, <3>10 DEF DraftItinerary, ExecsTypeOK
    <3>11. CASE MutateTimeline(c)
      BY <3>0, <3>11 DEF MutateTimeline, ExecsTypeOK
    <3>12. CASE ClaimChoice(c)
      <4>1. ExecsTypeOK'
        <5>1. CASE \E b \in versions \cup {NoVersion} :
                     InsertClaim(Chosen(c), Req(c), b, activeVersion[Ses(c)])
          <6>1. PICK b \in Versions \cup {NoVersion} :
                  InsertClaim(Chosen(c), Req(c), b, activeVersion[Ses(c)])
            BY <5>1
          <6> QED BY <3>0, <3>12, <6>1, ClaimsTyped DEF ClaimChoice, ExecsTypeOK
        <5>2. CASE ReclaimExpired(Chosen(c), Req(c)) \/ RetryFailed(Chosen(c), Req(c))
          BY <3>0, <3>12, <5>2, ClaimsTyped DEF ClaimChoice, ExecsTypeOK
        <5> QED BY <3>12, <5>1, <5>2 DEF ClaimChoice
      <4> QED BY <3>0, <4>1, <3>12 DEF ClaimChoice
    <3>13. CASE SettleExpired(c)
      <4>1. ExecsTypeOK'
        BY <3>13, SettleTyped DEF SettleExpired
      <4> QED BY <4>1, <3>13 DEF SettleExpired
    <3>14. CASE ReplayChoice(c)
      BY <3>0, <3>14 DEF ReplayChoice, ExecsTypeOK
    <3>15. CASE RefuseChoice(c)
      BY <3>0, <3>15 DEF RefuseChoice, ExecsTypeOK
    <3>16. CASE CancelAtClaim(c)
      BY <3>0, <3>16 DEF CancelAtClaim, ExecsTypeOK
    <3>17. CASE DispatchChoice(c)
      <4>1. ExecsTypeOK'
        BY <3>17, DispatchTyped DEF DispatchChoice
      <4>2. CASE Chosen(c) \in Choices
        BY <4>1, <4>2, <3>17 DEF DispatchChoice
      <4>3. CASE Chosen(c) \notin Choices
        <5>1. dispatched' \in [Choices -> Nat]
          BY <4>3, <3>17 DEF DispatchChoice
        <5> QED BY <4>1, <5>1, <3>17 DEF DispatchChoice
      <4> QED BY <4>2, <4>3
    <3>18. CASE FenceWrite(c)
      BY <3>0, <3>18, ZenonT(40) DEF FenceWrite, BeginSessionRunWrite, ExecsTypeOK
    <3>19. CASE EndWithoutVersion(c)
      <4>1. ExecsTypeOK'
        BY <3>19, FinishTyped DEF EndWithoutVersion, ExecsTypeOK
      <4> QED BY <4>1, <3>19 DEF EndWithoutVersion
    <3>20. CASE CommitPatch(c) \/ CommitVersion(c)
      BY <3>0, <3>20 DEF CommitPatch, CommitVersion, ExecsTypeOK
    <3>21. CASE VerifierAccepts(c)
      <4>1. ExecsTypeOK'
        BY <3>0, <3>21, FinishTyped DEF VerifierAccepts, ExecsTypeOK
      <4> QED BY <4>1, <3>21 DEF VerifierAccepts
    <3>22. CASE VerifierRejects(c)
      <4>1. ExecsTypeOK'
        BY <3>22, FinishTyped DEF VerifierRejects, ExecsTypeOK
      <4> QED BY <3>0, <4>1, <3>22 DEF VerifierRejects
    <3>23. CASE CompleteTurn(c)
      BY <3>0, <3>23 DEF CompleteTurn, ExecsTypeOK
    <3>24. CASE FinalizeTurn(c)
      BY <3>0, <3>24 DEF FinalizeTurn, Settle, JournalStates, ExecsTypeOK
    <3>25. CASE RaiseError(c)
      BY <3>0, <3>25 DEF RaiseError, ExecsTypeOK
    <3>26. CASE CleanUpCancelled(c)
      <4>1. /\ ExecsTypeOK' /\ versions' \subseteq Versions /\ patches' \subseteq Requests
            /\ activeVersion' \in [Sessions -> Versions \cup {NoVersion}]
        BY <3>26, UndoTyped DEF CleanUpCancelled, ExecsTypeOK
      <4> QED BY <4>1, <3>26 DEF CleanUpCancelled
    <3>27. CASE CleanUpFailed(c)
      <4>1. /\ ExecsTypeOK' /\ versions' \subseteq Versions /\ patches' \subseteq Requests
            /\ activeVersion' \in [Sessions -> Versions \cup {NoVersion}]
        BY <3>27, UndoTyped, SettleTyped DEF CleanUpFailed, ExecsTypeOK
      <4> QED BY <4>1, <3>27 DEF CleanUpFailed
    <3>28. CASE MarkRetryable(c)
      <4>1. ExecsTypeOK'
        BY <3>28, FinishTyped DEF MarkRetryable
      <4> QED BY <4>1, <3>28 DEF MarkRetryable
    <3>29. CASE JournalFailure(c)
      BY <3>0, <3>29 DEF JournalFailure, Settle, JournalStates, ExecsTypeOK
    <3>30. CASE ReleaseLease(c)
      BY <3>0, <3>30 DEF ReleaseLease, ReleaseSessionRun, ExecsTypeOK
    <3>31. CASE CompleteChoice(c)
      <4>1. ExecsTypeOK'
        BY <3>0, <3>31, FinishTyped DEF CompleteChoice
      <4> QED BY <4>1, <3>31 DEF CompleteChoice
    <3> QED BY <2>1, <3>1, <3>2, <3>3, <3>4, <3>5, <3>6, <3>7, <3>8, <3>9, <3>10, <3>11, <3>12,
         <3>13, <3>14, <3>15, <3>16, <3>17, <3>18, <3>19, <3>20, <3>21, <3>22, <3>23, <3>24,
         <3>25, <3>26, <3>27, <3>28, <3>29, <3>30, <3>31 DEF Step
  <2>2. ASSUME NEW s \in Sessions, CancelRun(s) PROVE TypeOK'
    BY <2>2 DEF CancelRun, RequestSessionRunCancel, turnVars, TypeOK, ControlTypeOK,
         JournalTypeOK, ExecsTypeOK
  <2>3. ASSUME NEW s \in Sessions, NEW m \in Saves, SaveVersion(s, m) PROVE TypeOK'
    BY <2>3, TurnsAreRequests DEF SaveVersion, controlVars, localVars, historyVars, TypeOK,
         ControlTypeOK, JournalTypeOK, ExecsTypeOK
  <2>4. CASE Restart
    BY <2>4, BoundsAreNaturals DEF Restart, LoseRegistry, dataVars, localVars, historyVars,
         TypeOK, ControlTypeOK, JournalTypeOK, ExecsTypeOK, Stages, Answers
  <2>5. ASSUME NEW c \in Calls, LoseConnection(c) PROVE TypeOK'
    BY <2>5, BoundsAreNaturals DEF LoseConnection, Goto, Locked, controlVars, dataVars,
         localVars, historyVars, TypeOK, ControlTypeOK, JournalTypeOK, ExecsTypeOK, Stages,
         Answers
  <2>6. CASE UNCHANGED vars
    BY <2>6 DEF vars, controlVars, turnVars, TypeOK, ControlTypeOK, JournalTypeOK, ExecsTypeOK
  <2> QED BY <2>1, <2>2, <2>3, <2>4, <2>5, <2>6 DEF Next
<1> QED BY <1>1, <1>2, PTL DEF Spec

----------------------------------------------------------------------------
(* The inductive invariant. *)

(* A redelivery is answered with success exactly if its request is         *)
(* completed.                                                              *)
LEMMA ReplayAnswers ==
  ASSUME NEW r
  PROVE  \/ journal[r] = "completed" /\ ReplayAnswer(r) = "replayed"
         \/ journal[r] # "completed" /\ ReplayAnswer(r) \in {"error_replayed", "pending"}
  BY DEF ReplayAnswer, Failed

(* One stage of one call keeps it.  The exclusion of the lease carries the *)
(* argument: while c works, no other call of its session or of its request *)
(* holds the lease, so nobody else moves the journal, the fence or the     *)
(* generation count that c relies on.                                      *)
LEMMA InvStep ==
  ASSUME TypeOK, IInv, NEW c \in Calls, Step(c)
  PROVE  IInv'
<1> USE RequestsNamed DEF IInv, TypeOK, ControlTypeOK, JournalTypeOK, FenceExcludesCancel,
    LeaseExclusive, GeneratedAtMostOnce, WorkingIsClaimed, UnansweredWhileRunning,
    CrossedIsFenced, GenerationPending, AnswerIsJournalled, Holding, Working, Failing, Locked,
    Req, Ses, Goto, Say, Tell, CancelSeen, controlVars, dataVars, historyVars, localVars
<1>1. CASE AnswerFromJournal(c)
  BY <1>1, SMTT(60) DEF AnswerFromJournal, ReplayAnswer, Failed
<1>2. CASE LookupMisses(c)
  BY <1>2, SMTT(60) DEF LookupMisses
<1>3. CASE TakeLease(c)
  BY <1>3, SMTT(60) DEF TakeLease, AcquireSessionRun
<1>4. CASE RefuseLease(c)
  BY <1>4, SMTT(60) DEF RefuseLease
<1>5. CASE ClaimIngress(c)
  BY <1>5, SMTT(60) DEF ClaimIngress, Claim
<1>6. CASE ClaimLost(c)
  <2>1. /\ pc[c] = "claim" /\ journal[Req(c)] # "absent"
        /\ UNCHANGED <<active, runTurn, cancelled, fenced, journal, crossed, generated>>
        /\ \/ /\ journal[Req(c)] = "completed"
              /\ answer' = [answer EXCEPT ![c] = "replayed"]
              /\ pc' = [pc EXCEPT ![c] = "release"]
           \/ /\ journal[Req(c)] # "completed"
              /\ \E a \in {"error_replayed", "pending"} : answer' = [answer EXCEPT ![c] = a]
              /\ \E l \in {"fail499", "fail"} : pc' = [pc EXCEPT ![c] = l]
    BY <1>6, ReplayAnswers DEF ClaimLost
  <2> QED BY <2>1, SMTT(60)
<1>7. CASE BindTurn(c)
  BY <1>7, SMTT(60) DEF BindTurn, BindSessionRunTurn
<1>8. CASE StartGeneration(c)
  <2>1. /\ pc[c] = "start"
        /\ UNCHANGED <<active, runTurn, cancelled, fenced, journal, crossed, answer>>
        /\ \/ /\ CancelSeen(Ses(c)) /\ pc' = [pc EXCEPT ![c] = "fail499"]
              /\ generated' = generated
           \/ /\ pc' = [pc EXCEPT ![c] = "route"]
              /\ generated' = [generated EXCEPT ![Req(c)] = @ + 1]
    BY <1>8 DEF StartGeneration
  <2> QED BY <2>1, SMTT(60)
<1>9. CASE ReplyOnly(c)
  BY <1>9, SMTT(60) DEF ReplyOnly
<1>10. CASE DraftItinerary(c)
  BY <1>10, SMTT(60) DEF DraftItinerary
<1>11. CASE MutateTimeline(c)
  BY <1>11, SMTT(60) DEF MutateTimeline
<1>12. CASE ClaimChoice(c)
  BY <1>12, SMTT(60) DEF ClaimChoice
<1>13. CASE SettleExpired(c)
  BY <1>13, SMTT(60) DEF SettleExpired
<1>14. CASE ReplayChoice(c)
  BY <1>14, SMTT(60) DEF ReplayChoice
<1>15. CASE RefuseChoice(c)
  BY <1>15, SMTT(60) DEF RefuseChoice
<1>16. CASE CancelAtClaim(c)
  BY <1>16, SMTT(60) DEF CancelAtClaim
<1>17. CASE DispatchChoice(c)
  BY <1>17, SMTT(60) DEF DispatchChoice
<1>18. CASE FenceWrite(c)
  BY <1>18, SMTT(60) DEF FenceWrite, BeginSessionRunWrite
<1>19. CASE EndWithoutVersion(c)
  BY <1>19, SMTT(60) DEF EndWithoutVersion
<1>20. CASE CommitPatch(c) \/ CommitVersion(c)
  BY <1>20, SMTT(60) DEF CommitPatch, CommitVersion
<1>21. CASE VerifierAccepts(c)
  BY <1>21, SMTT(60) DEF VerifierAccepts
<1>22. CASE VerifierRejects(c)
  BY <1>22, SMTT(60) DEF VerifierRejects
<1>23. CASE CompleteTurn(c)
  BY <1>23, SMTT(60) DEF CompleteTurn
<1>24. CASE FinalizeTurn(c)
  BY <1>24, SMTT(60) DEF FinalizeTurn, Settle
<1>25. CASE RaiseError(c)
  BY <1>25, SMTT(60) DEF RaiseError
<1>26. CASE CleanUpCancelled(c)
  BY <1>26, SMTT(60) DEF CleanUpCancelled
<1>27. CASE CleanUpFailed(c)
  BY <1>27, SMTT(60) DEF CleanUpFailed
<1>28. CASE MarkRetryable(c)
  BY <1>28, SMTT(60) DEF MarkRetryable
<1>29. CASE JournalFailure(c)
  BY <1>29, SMTT(60) DEF JournalFailure, Settle
<1>30. CASE ReleaseLease(c)
  BY <1>30, SMTT(60) DEF ReleaseLease, ReleaseSessionRun
<1>31. CASE CompleteChoice(c)
  BY <1>31, SMTT(60) DEF CompleteChoice
<1> QED BY <1>1, <1>2, <1>3, <1>4, <1>5, <1>6, <1>7, <1>8, <1>9, <1>10, <1>11, <1>12, <1>13,
     <1>14, <1>15, <1>16, <1>17, <1>18, <1>19, <1>20, <1>21, <1>22, <1>23, <1>24, <1>25, <1>26,
     <1>27, <1>28, <1>29, <1>30, <1>31 DEF Step

(* A cancel, a save, a lost connection and a restart keep it too: an       *)
(* accepted cancel finds no fence, and a restart leaves no call holding    *)
(* the lease it forgets.                                                   *)
LEMMA InvEnvironment ==
  ASSUME TypeOK, IInv,
         \/ \E s \in Sessions : CancelRun(s)
         \/ \E s \in Sessions, m \in Saves : SaveVersion(s, m)
         \/ \E c \in Calls : LoseConnection(c)
         \/ Restart
         \/ UNCHANGED vars
  PROVE  IInv'
<1> USE RequestsNamed DEF IInv, TypeOK, ControlTypeOK, JournalTypeOK, FenceExcludesCancel,
    LeaseExclusive, GeneratedAtMostOnce, WorkingIsClaimed, UnansweredWhileRunning,
    CrossedIsFenced, GenerationPending, AnswerIsJournalled, Holding, Working, Failing, Locked,
    Req, Ses, controlVars, dataVars, historyVars, localVars, turnVars
<1>1. CASE \E s \in Sessions : CancelRun(s)
  BY <1>1 DEF CancelRun, RequestSessionRunCancel
<1>2. CASE \E s \in Sessions, m \in Saves : SaveVersion(s, m)
  BY <1>2 DEF SaveVersion
<1>3. CASE Restart
  BY <1>3 DEF Restart, LoseRegistry
<1>4. CASE \E c \in Calls : LoseConnection(c)
  BY <1>4 DEF LoseConnection, Goto
<1>5. CASE UNCHANGED vars
  BY <1>5 DEF vars
<1> QED BY <1>1, <1>2, <1>3, <1>4, <1>5

(* Every reachable state satisfies the inductive invariant. *)
THEOREM Safety == Spec => []IInv
<1>1. Init => IInv
  BY DEF Init, ControlInit, JournalInit, IInv, FenceExcludesCancel, LeaseExclusive,
       GeneratedAtMostOnce, WorkingIsClaimed, UnansweredWhileRunning, CrossedIsFenced,
       GenerationPending, AnswerIsJournalled, Holding, Working, Failing, Locked, Req, Ses
<1>2. TypeOK /\ IInv /\ [Next]_vars => IInv'
  BY InvStep, InvEnvironment DEF Next
<1> QED BY <1>1, <1>2, Typing, PTL DEF Spec

----------------------------------------------------------------------------
(* What follows from it. *)

(* The lease of send_message is exclusive per session. *)
THEOREM LeaseIsExclusive == Spec => []LeaseExclusive
<1>1. IInv => LeaseExclusive
  BY DEF IInv
<1> QED BY <1>1, Safety, PTL

(* The two sides of the write fence exclude each other. *)
THEOREM FenceIsExclusive == Spec => []FenceExcludesCancel
<1>1. IInv => FenceExcludesCancel
  BY DEF IInv
<1> QED BY <1>1, Safety, PTL

(* No redelivery, retry or restart generates a request a second time. *)
THEOREM NoSecondGeneration == Spec => []GeneratedAtMostOnce
<1>1. IInv => GeneratedAtMostOnce
  BY DEF IInv
<1> QED BY <1>1, Safety, PTL

(* A run that crossed the fence is never answered 499. *)
THEOREM FencedIsNotCancelled == Spec => []FencedNeverCancelled
<1>1. IInv => FencedNeverCancelled
  BY DEF IInv, CrossedIsFenced, FencedNeverCancelled, Told
<1> QED BY <1>1, Safety, PTL

(* A successful answer is backed by a completed journal. *)
THEOREM SuccessIsJournalled == Spec => []SuccessIsDurable
<1>1. IInv => SuccessIsDurable
  BY DEF IInv, AnswerIsJournalled, SuccessIsDurable, Told
<1> QED BY <1>1, Safety, PTL

----------------------------------------------------------------------------
(* The choices.  The second inductive invariant relates the row of a       *)
(* choice, the versions and the stage of the call that works for it.       *)

Business == {"binding", "work", "write", "unfenced", "patched", "wrote"}
BeforeCommit == {"route", "binding", "work", "write", "unfenced"}

(* Has request r not come to a patch yet? *)
Unwritten(r) ==
  generated[r] = 0 \/ \E c \in Calls : Req(c) = r /\ pc[c] \in BeforeCommit

(* Does the row of the choice r pressed name r's version as its success? *)
Backed(r) == execs[ChoiceOf[r]].status = "succeeded" /\ execs[ChoiceOf[r]].result = r

(* Does the row of ch wait for request r to settle it? *)
Awaits(ch, r) == execs[ch].status = "executing" /\ execs[ch].turn = r

RowsConsistent ==
  \A ch \in Choices :
    /\ execs[ch].turn # Nobody => ChoiceOf[execs[ch].turn] = ch
    /\ execs[ch].status = "executing" =>
         execs[ch].turn # Nobody /\ journal[execs[ch].turn] = "claimed"
    /\ \A r \in Requests : ChoiceOf[r] = ch =>
         /\ execs[ch].base # r
         /\ execs[ch].status \in {"none", "cancelled"} => r \notin versions \cup patches
    /\ execs[ch].dispatch = "not_started" => Controller(ch)
    /\ execs[ch].unstarted =>
         execs[ch].status = "failed_retryable" /\ execs[ch].dispatch = "not_started"

UnwrittenIsNowhere ==
  /\ \A c \in Calls : pc[c] \in BeforeCommit \cup {"patched", "wrote"} => generated[Req(c)] # 0
  /\ \A r \in Requests : Unwritten(r) => r \notin versions \cup patches

(* A call that works for a choice still has the claim it took, and a call  *)
(* on its way out has nothing left to settle.                              *)
ClaimIsKept ==
  \A c \in Calls :
    /\ pc[c] \in {"binding", "failmark"} => Chosen(c) # NoChoice
    /\ Chosen(c) # NoChoice =>
         /\ pc[c] \in Business => Awaits(Chosen(c), Req(c))
         /\ pc[c] = "failmark" =>
              execs[Chosen(c)].turn = Req(c) /\ execs[Chosen(c)].status = "cancelled"
         /\ pc[c] \in {"finalize", "failjournal"} => ~Awaits(Chosen(c), Req(c))
         /\ pc[c] = "complete" /\ HasExecutor(c) => ~Awaits(Chosen(c), Req(c))

(* The accepted write of an executor's request is named by its row, or it  *)
(* is still to be settled, or another press took the row of a lost run.    *)
WriteIsPending ==
  \A r \in Requests :
    ChoiceOf[r] # NoChoice /\ ~Controller(ChoiceOf[r]) /\ r \in versions \cap patches =>
      \/ Backed(r) \/ Awaits(ChoiceOf[r], r)
      \/ crashes > 0 /\ execs[ChoiceOf[r]].turn # r

DispatchCounted ==
  \A ch \in Choices : Strict(ch) =>
    /\ dispatched[ch] <= 1
    /\ execs[ch].status = "none" \/ execs[ch].dispatch = "not_started" => dispatched[ch] = 0
    /\ \A c \in Calls : pc[c] = "binding" /\ Chosen(c) = ch => dispatched[ch] = 0

ExecutingIsOwned ==
  crashes = 0 => \A ch \in Choices : execs[ch].status = "executing" =>
    \E c \in Calls : /\ pc[c] \in Business \cup {"complete", "fail", "fail499"}
                     /\ Req(c) = execs[ch].turn /\ Chosen(c) = ch

ChoiceInv ==
  /\ RowsConsistent /\ UnwrittenIsNowhere /\ ClaimIsKept /\ WriteIsPending
  /\ DispatchCounted /\ ExecutingIsOwned

(* Stages that leave the rows of the choices, the patches and the versions *)
(* alone.                                                                  *)
LEMMA QuietStep ==
  ASSUME TypeOK, IInv, ChoiceInv, NEW c \in Calls, UNCHANGED <<execs, versions, patches>>,
         \/ AnswerFromJournal(c) \/ LookupMisses(c) \/ TakeLease(c) \/ RefuseLease(c)
         \/ ClaimIngress(c) \/ ClaimLost(c) \/ BindTurn(c) \/ StartGeneration(c) \/ ReplyOnly(c)
         \/ DraftItinerary(c) \/ MutateTimeline(c) \/ ReplayChoice(c) \/ RefuseChoice(c)
         \/ CancelAtClaim(c) \/ FenceWrite(c) \/ CommitPatch(c)
         \/ (EndWithoutVersion(c) /\ (~HasExecutor(c) \/ CancelSeen(Ses(c))))
         \/ (VerifierAccepts(c) /\ ~HasExecutor(c)) \/ CompleteTurn(c) \/ FinalizeTurn(c)
         \/ RaiseError(c) \/ JournalFailure(c) \/ ReleaseLease(c)
  PROVE  ChoiceInv'
<1> USE RequestsNamed, TurnsAreRequests DEF ChoiceInv, RowsConsistent, UnwrittenIsNowhere,
    ClaimIsKept, WriteIsPending, DispatchCounted, ExecutingIsOwned, Awaits, HasExecutor,
    Controller, Business, BeforeCommit, Unwritten, Backed, TypeOK, JournalTypeOK, Req, Ses,
    Chosen, Goto, Strict, dataVars, historyVars, localVars, IInv, GenerationPending,
    WorkingIsClaimed, Working, Locked
<1>1. CASE AnswerFromJournal(c)
  <2>1. /\ pc[c] = "lookup"
        /\ pc' = [pc EXCEPT ![c] = "done"]
        /\ UNCHANGED <<generated, journal, dispatched, crashes>>
    BY <1>1 DEF AnswerFromJournal
  <2> QED BY <2>1, SMTT(20)
<1>2. CASE LookupMisses(c)
  BY <1>2, SMTT(20) DEF LookupMisses
<1>3. CASE TakeLease(c)
  <2>1. /\ pc[c] = "lease"
        /\ pc' = [pc EXCEPT ![c] = "claim"]
        /\ UNCHANGED <<generated, journal, dispatched, crashes>>
    BY <1>3 DEF TakeLease
  <2>2. RowsConsistent' /\ UnwrittenIsNowhere' /\ ClaimIsKept'
    BY <2>1, SMTT(20)
  <2>3. WriteIsPending' /\ DispatchCounted' /\ ExecutingIsOwned'
    BY <2>1, SMTT(20)
  <2> QED BY <2>2, <2>3
<1>4. CASE RefuseLease(c)
  <2>1. /\ pc[c] = "lease" /\ pc' = [pc EXCEPT ![c] = "done"]
        /\ UNCHANGED <<generated, journal, dispatched, crashes>>
    BY <1>4 DEF RefuseLease
  <2> QED BY <2>1, SMTT(20)
<1>5. CASE ClaimIngress(c)
  BY <1>5, SMTT(20) DEF ClaimIngress, Claim
<1>6. CASE ClaimLost(c)
  <2>1. /\ pc[c] = "claim"
        /\ \E l \in {"release", "fail499", "fail"} : pc' = [pc EXCEPT ![c] = l]
        /\ UNCHANGED <<generated, journal, dispatched, crashes>>
    BY <1>6 DEF ClaimLost
  <2> QED BY <2>1, SMTT(20)
<1>7. CASE BindTurn(c)
  <2>1. /\ pc[c] = "bind"
        /\ \E l \in {"start", "fail"} : pc' = [pc EXCEPT ![c] = l]
        /\ UNCHANGED <<generated, journal, dispatched, crashes>>
    BY <1>7 DEF BindTurn
  <2>2. RowsConsistent' /\ UnwrittenIsNowhere' /\ ClaimIsKept'
    BY <2>1, SMTT(20)
  <2>3. WriteIsPending' /\ DispatchCounted' /\ ExecutingIsOwned'
    BY <2>1, SMTT(20)
  <2> QED BY <2>2, <2>3
<1>8. CASE StartGeneration(c)
  <2>1. /\ pc[c] = "start" /\ UNCHANGED <<journal, dispatched, crashes>>
        /\ \/ pc' = [pc EXCEPT ![c] = "fail499"] /\ UNCHANGED generated
           \/ pc' = [pc EXCEPT ![c] = "route"] /\ generated' = [generated EXCEPT ![Req(c)] = @ + 1]
    BY <1>8 DEF StartGeneration
  <2>2. RowsConsistent' /\ UnwrittenIsNowhere' /\ ClaimIsKept'
    BY <2>1, SMTT(20)
  <2>3. WriteIsPending' /\ DispatchCounted' /\ ExecutingIsOwned'
    BY <2>1, SMTT(20)
  <2> QED BY <2>2, <2>3
<1>9. CASE ReplyOnly(c)
  BY <1>9, SMTT(20) DEF ReplyOnly
<1>10. CASE DraftItinerary(c)
  BY <1>10, SMTT(20) DEF DraftItinerary
<1>11. CASE MutateTimeline(c)
  <2>1. /\ (pc[c] = "route" /\ Chosen(c) = NoChoice) \/ pc[c] = "work"
        /\ \E l \in {"fail499", "fail", "unfenced"} : pc' = [pc EXCEPT ![c] = l]
        /\ UNCHANGED <<generated, journal, dispatched, crashes>>
    BY <1>11 DEF MutateTimeline
  <2>2. RowsConsistent' /\ UnwrittenIsNowhere' /\ ClaimIsKept'
    BY <2>1, SMTT(20)
  <2>3. WriteIsPending' /\ DispatchCounted' /\ ExecutingIsOwned'
    BY <2>1, SMTT(20)
  <2> QED BY <2>2, <2>3
<1>12. CASE ReplayChoice(c)
  <2>1. /\ pc[c] = "route" /\ Chosen(c) # NoChoice /\ execs[Chosen(c)].status = "succeeded"
        /\ \E l \in {"complete", "fail"} : pc' = [pc EXCEPT ![c] = l]
        /\ UNCHANGED <<generated, journal, dispatched, crashes>>
    BY <1>12 DEF ReplayChoice
  <2> QED BY <2>1, SMTT(20)
<1>13. CASE RefuseChoice(c)
  <2>1. /\ pc[c] = "route" /\ pc' = [pc EXCEPT ![c] = "fail"]
        /\ UNCHANGED <<generated, journal, dispatched, crashes>>
    BY <1>13 DEF RefuseChoice
  <2> QED BY <2>1, SMTT(20)
<1>14. CASE CancelAtClaim(c)
  BY <1>14, SMTT(20) DEF CancelAtClaim
<1>15. CASE FenceWrite(c)
  <2>1. /\ pc[c] = "work"
        /\ \E l \in {"fail499", "write"} : pc' = [pc EXCEPT ![c] = l]
        /\ UNCHANGED <<generated, journal, dispatched, crashes>>
    BY <1>15 DEF FenceWrite
  <2> QED BY <2>1, SMTT(20)
<1>16. CASE EndWithoutVersion(c) /\ (~HasExecutor(c) \/ CancelSeen(Ses(c)))
  <2>1. /\ pc[c] = "work" /\ Chosen(c) # NoChoice
        /\ UNCHANGED <<generated, journal, dispatched, crashes>>
        /\ \/ pc' = [pc EXCEPT ![c] = "complete"] /\ ~HasExecutor(c)
           \/ pc' = [pc EXCEPT ![c] = "fail499"]
    BY <1>16 DEF EndWithoutVersion
  <2>2. RowsConsistent' /\ UnwrittenIsNowhere'
    BY <2>1, SMTT(20)
  <2>3. ClaimIsKept'
    BY <2>1, SMTT(20)
  <2>4. WriteIsPending' /\ DispatchCounted' /\ ExecutingIsOwned'
    BY <2>1, SMTT(20)
  <2> QED BY <2>2, <2>3, <2>4
<1>17. CASE CommitPatch(c)
  <2>1. /\ pc[c] \in {"write", "unfenced"} /\ UNCHANGED <<generated, journal, dispatched, crashes>>
        /\ \E l \in {"patched", "fail"} : pc' = [pc EXCEPT ![c] = l]
    BY <1>17 DEF CommitPatch
  <2> QED BY <2>1, SMTT(20)
<1>18. CASE VerifierAccepts(c) /\ ~HasExecutor(c)
  <2>1. /\ pc[c] = "wrote" /\ pc' = [pc EXCEPT ![c] = "complete"]
        /\ UNCHANGED <<generated, journal, dispatched, crashes>>
    BY <1>18 DEF VerifierAccepts
  <2>2. RowsConsistent' /\ UnwrittenIsNowhere' /\ ClaimIsKept'
    BY <1>18, <2>1, SMTT(20)
  <2>3. WriteIsPending' /\ DispatchCounted' /\ ExecutingIsOwned'
    BY <1>18, <2>1, SMTT(20)
  <2> QED BY <2>2, <2>3
<1>19. CASE CompleteTurn(c)
  <2>1. /\ pc[c] = "complete" /\ ~LeftToClose(c) /\ UNCHANGED <<generated, journal, dispatched, crashes>>
        /\ \E l \in {"fail499", "finalize"} : pc' = [pc EXCEPT ![c] = l]
    BY <1>19 DEF CompleteTurn
  <2>2. Chosen(c) # NoChoice /\ ~HasExecutor(c) => ~Awaits(Chosen(c), Req(c))
    BY <2>1 DEF LeftToClose
  <2> QED BY <2>1, <2>2, SMTT(20)
<1>20. CASE FinalizeTurn(c)
  <2>1. /\ pc[c] = "finalize" /\ pc' = [pc EXCEPT ![c] = "release"]
        /\ UNCHANGED <<generated, dispatched, crashes>>
        /\ journal' = [journal EXCEPT ![Req(c)] = "completed"]
    BY <1>20 DEF FinalizeTurn, Settle
  <2>2. RowsConsistent' /\ UnwrittenIsNowhere' /\ ClaimIsKept'
    BY <2>1, SMTT(20)
  <2>3. WriteIsPending' /\ DispatchCounted' /\ ExecutingIsOwned'
    BY <2>1, SMTT(20)
  <2> QED BY <2>2, <2>3
<1>21. CASE RaiseError(c)
  <2>1. /\ pc[c] \in Business \cup {"start", "route", "complete", "finalize"}
        /\ pc' = [pc EXCEPT ![c] = "fail"]
        /\ UNCHANGED <<generated, journal, dispatched, crashes>>
    BY <1>21 DEF RaiseError
  <2> QED BY <2>1, SMTT(20)
<1>22. CASE JournalFailure(c)
  <2>1. /\ pc[c] = "failjournal" /\ pc' = [pc EXCEPT ![c] = "release"]
        /\ UNCHANGED <<generated, dispatched, crashes>>
        /\ \E state : journal' = [journal EXCEPT ![Req(c)] = state]
    BY <1>22 DEF JournalFailure, Settle
  <2>2. \A ch \in Choices : ~Awaits(ch, Req(c))
    BY <2>1
  <2>3. RowsConsistent' /\ UnwrittenIsNowhere' /\ ClaimIsKept'
    BY <2>1, <2>2, SMTT(20)
  <2>4. WriteIsPending' /\ DispatchCounted' /\ ExecutingIsOwned'
    BY <2>1, <2>2, SMTT(20)
  <2> QED BY <2>3, <2>4
<1>23. CASE ReleaseLease(c)
  BY <1>23, SMTT(20) DEF ReleaseLease
<1> QED BY <1>1, <1>2, <1>3, <1>4, <1>5, <1>6, <1>7, <1>8, <1>9, <1>10, <1>11, <1>12, <1>13,
     <1>14, <1>15, <1>16, <1>17, <1>18, <1>19, <1>20, <1>21, <1>22, <1>23

(* A call that works for a choice is the only one: another that pressed    *)
(* the same choice would need the lease of the same session.               *)
LEMMA OneWorksForAChoice ==
  ASSUME TypeOK, IInv, NEW c \in Calls, NEW d \in Calls, Holding(c), Holding(d),
         Req(c) = Req(d) \/ (Chosen(c) = Chosen(d) /\ Chosen(c) # NoChoice)
  PROVE  c = d
<1>1. Ses(c) = Ses(d)
  BY RequestsNamed, ChoicesInOneSession DEF Req, Ses, Chosen
<1> QED BY <1>1 DEF IInv, LeaseExclusive

(* The two commits of the writer.  A press that commits has its claim, so  *)
(* nothing is added to what a cancelled or an unclaimed choice has left.   *)
LEMMA CommitStep ==
  ASSUME TypeOK, IInv, ChoiceInv, NEW c \in Calls, CommitPatch(c) \/ CommitVersion(c),
         pc' = [pc EXCEPT ![c] = "patched"] \/ pc' = [pc EXCEPT ![c] = "wrote"]
  PROVE  ChoiceInv'
<1> USE RequestsNamed, TurnsAreRequests DEF TypeOK, ChoiceInv, dataVars, historyVars, localVars
<1> DEFINE r == Req(c)
<1>1. /\ r \in Requests /\ UNCHANGED <<execs, generated, journal, dispatched, crashes>>
      /\ pc[c] \in {"write", "unfenced", "patched"} /\ Holding(c)
      /\ versions' \subseteq versions \cup {r} /\ patches' \subseteq patches \cup {r}
      /\ versions \subseteq versions' /\ patches \subseteq patches'
  BY DEF CommitPatch, CommitVersion, Holding, Locked, Req
<1>2. \A d \in Calls : Holding(d) /\ Req(d) = r => d = c
  BY <1>1, OneWorksForAChoice
<1>3. Chosen(c) # NoChoice => Chosen(c) \in Choices /\ Awaits(Chosen(c), r)
  BY <1>1 DEF ClaimIsKept, Business, Chosen, Req
<1>4. \A q \in Requests : Unwritten(q)' => Unwritten(q) /\ q # r
  BY <1>1, <1>2 DEF UnwrittenIsNowhere, Unwritten, BeforeCommit, Holding, Locked, Req
<1>5. RowsConsistent'
  BY <1>1, <1>3 DEF RowsConsistent, Awaits, Chosen, Req, Controller
<1>6. UnwrittenIsNowhere'
  BY <1>1, <1>4 DEF UnwrittenIsNowhere, BeforeCommit
<1>7. ClaimIsKept' /\ ExecutingIsOwned' /\ DispatchCounted'
  BY <1>1 DEF ClaimIsKept, ExecutingIsOwned, DispatchCounted, Business, Awaits, HasExecutor,
     Controller, Strict
<1>8. WriteIsPending'
  BY <1>1, <1>3 DEF WriteIsPending, Awaits, Backed, Controller, Chosen, Req
<1> QED BY <1>5, <1>6, <1>7, <1>8

LEMMA ClaimStep ==
  ASSUME TypeOK, IInv, ChoiceInv, NEW c \in Calls, ClaimChoice(c)
  PROVE  ChoiceInv'
<1> USE RequestsNamed, TurnsAreRequests DEF TypeOK, ChoiceInv, Goto, dataVars,
        historyVars, localVars
<1> DEFINE ch == Chosen(c)  r == Req(c)
<1>1. /\ ch \in Choices /\ r \in Requests /\ ch = ChoiceOf[r] /\ pc[c] = "route" /\ r # Nobody
      /\ versions' = versions /\ patches' = patches /\ generated' = generated
      /\ journal' = journal /\ dispatched' = dispatched /\ crashes' = crashes
      /\ pc' = [pc EXCEPT ![c] = "binding"] /\ ch # NoChoice
  BY DEF ClaimChoice, Req, Chosen
<1>2. \A d \in Calls : Holding(d) /\ (Chosen(d) = ch \/ Req(d) = r) => d = c
  BY <1>1, OneWorksForAChoice DEF Holding, Locked
<1>3. r \notin versions \cup patches /\ journal[r] = "claimed"
  BY <1>1 DEF UnwrittenIsNowhere, Unwritten, BeforeCommit, IInv, WorkingIsClaimed, Working,
     Failing, Locked
<1>4. /\ \A x \in Choices \ {ch} : execs'[x] = execs[x]
      /\ execs[ch].status \in {"none", "executing", "failed_retryable"}
      /\ execs'[ch].status = "executing" /\ execs'[ch].turn = r
      /\ execs'[ch].kind = execs[ch].kind /\ execs'[ch].unstarted = FALSE
      /\ \/ execs'[ch].base = execs[ch].base
         \/ execs[ch].status = "none" /\ execs'[ch].base \in versions \cup {NoVersion}
      /\ execs'[ch].dispatch = "not_started" => Controller(ch)
      /\ Strict(ch) => execs[ch].status = "none" \/ execs[ch].dispatch = "not_started"
      /\ execs[ch].status = "executing" => execs[ch].turn # r
  <2>1. CASE \E b \in versions \cup {NoVersion} : InsertClaim(ch, r, b, activeVersion[Ses(c)])
    BY <1>1, <2>1 DEF InsertClaim, Fresh, ExecsTypeOK, Guide, Controller
  <2>2. CASE ReclaimExpired(ch, r)
    BY <1>1, <2>2 DEF ReclaimExpired, ExecsTypeOK, Exec, RowsConsistent
  <2>3. CASE RetryFailed(ch, r)
    BY <1>1, <2>3 DEF RetryFailed, ExecsTypeOK, Exec, RowsConsistent
  <2> QED BY <2>1, <2>2, <2>3 DEF ClaimChoice
<1>5. execs[ch].status = "executing" => crashes > 0
  BY <1>1, <1>2, <1>4, BoundsAreNaturals DEF ExecutingIsOwned, Business, Holding, Locked
<1> HIDE DEF ch, r
<1>6. RowsConsistent'
  BY <1>1, <1>3, <1>4 DEF RowsConsistent, Controller
<1>7. UnwrittenIsNowhere'
  BY <1>1 DEF UnwrittenIsNowhere, Unwritten, BeforeCommit
<1>8. ClaimIsKept'
  BY <1>1, <1>2, <1>4 DEF ClaimIsKept, Awaits, HasExecutor, Controller, Business, Holding, Locked,
     ch, r, Chosen, Req
<1>9. WriteIsPending'
  <2> SUFFICES ASSUME NEW q \in Requests, ChoiceOf[q] # NoChoice, ~Controller(ChoiceOf[q])',
                      q \in versions \cap patches
               PROVE  (\/ Backed(q) \/ Awaits(ChoiceOf[q], q)
                       \/ crashes > 0 /\ execs[ChoiceOf[q]].turn # q)'
    BY <1>1 DEF WriteIsPending
  <2>1. ChoiceOf[q] \in Choices /\ q # r /\ ~Controller(ChoiceOf[q])
    BY <1>1, <1>3, <1>4 DEF Controller
  <2>2. Backed(q) \/ Awaits(ChoiceOf[q], q) \/ (crashes > 0 /\ execs[ChoiceOf[q]].turn # q)
    BY <2>1 DEF WriteIsPending
  <2>3. CASE ChoiceOf[q] = ch
    BY <1>1, <1>3, <1>4, <1>5, <2>1, <2>2, <2>3 DEF Backed, Awaits, RowsConsistent
  <2>4. CASE ChoiceOf[q] # ch
    BY <1>1, <1>4, <2>1, <2>2, <2>4 DEF Backed, Awaits
  <2> QED BY <2>3, <2>4
<1>10. DispatchCounted'
  BY <1>1, <1>2, <1>4 DEF DispatchCounted, Strict, Holding, Locked, ch
<1>11. ExecutingIsOwned'
  BY <1>1, <1>4 DEF ExecutingIsOwned, Business, ch, r
<1> QED BY <1>6, <1>7, <1>8, <1>9, <1>10, <1>11

(* An expired claim that proves not to have started is settled by another  *)
(* press; only a choice that its turn closes has such a proof.             *)
LEMMA SettleStep ==
  ASSUME TypeOK, IInv, ChoiceInv, NEW c \in Calls, SettleExpired(c)
  PROVE  ChoiceInv'
<1> USE RequestsNamed, TurnsAreRequests DEF TypeOK, ChoiceInv, dataVars, historyVars, localVars
<1> DEFINE ch == Chosen(c)
<1>1. /\ ch \in Choices /\ ch # NoChoice /\ pc[c] = "route"
      /\ UNCHANGED <<versions, patches, generated, journal, dispatched, crashes, pc>>
      /\ \A x \in Choices \ {ch} : execs'[x] = execs[x]
      /\ execs[ch].status = "executing" /\ execs'[ch].status = "failed_retryable"
      /\ execs[ch].dispatch = "not_started" /\ execs'[ch].dispatch = "not_started"
      /\ execs'[ch].turn = execs[ch].turn /\ execs'[ch].result = execs[ch].result
      /\ execs'[ch].base = execs[ch].base /\ execs'[ch].kind = execs[ch].kind
  BY DEF SettleExpired, SettleUnstarted, ProvablyUnstarted, ExecsTypeOK, Exec, Chosen
<1>2. \A d \in Calls : Holding(d) /\ Chosen(d) = ch => d = c
  BY <1>1, OneWorksForAChoice DEF Holding, Locked
<1>3. Controller(ch) /\ Controller(ch)'
  BY <1>1 DEF RowsConsistent, Controller
<1> HIDE DEF ch
<1>4. RowsConsistent' /\ UnwrittenIsNowhere'
  BY <1>1 DEF RowsConsistent, UnwrittenIsNowhere, Unwritten, Controller
<1>5. ClaimIsKept'
  BY <1>1, <1>2 DEF ClaimIsKept, Awaits, HasExecutor, Controller, Business, Holding, Locked,
     Chosen, Req
<1>6. WriteIsPending'
  BY <1>1, <1>3 DEF WriteIsPending, Backed, Awaits, Controller
<1>7. DispatchCounted' /\ ExecutingIsOwned'
  BY <1>1 DEF DispatchCounted, ExecutingIsOwned, Strict
<1> QED BY <1>4, <1>5, <1>6, <1>7

LEMMA DispatchStep ==
  ASSUME TypeOK, IInv, ChoiceInv, NEW c \in Calls, DispatchChoice(c)
  PROVE  ChoiceInv'
<1> USE RequestsNamed, TurnsAreRequests DEF TypeOK, ChoiceInv, Goto, dataVars, localVars
<1> DEFINE ch == Chosen(c)
<1>1. /\ ch \in Choices /\ pc[c] = "binding"
      /\ UNCHANGED <<versions, patches, generated, journal, crashes>>
      /\ pc' = [pc EXCEPT ![c] = "work"] /\ dispatched' = [dispatched EXCEPT ![ch] = @ + 1]
      /\ \A x \in Choices \ {ch} : execs'[x] = execs[x]
      /\ execs[ch].status = "executing" /\ execs'[ch].status = "executing"
      /\ execs'[ch].dispatch # "not_started"
      /\ execs[ch].turn = Req(c) /\ execs'[ch].turn = execs[ch].turn
      /\ execs'[ch].result = execs[ch].result /\ execs'[ch].unstarted = execs[ch].unstarted
      /\ execs'[ch].base = execs[ch].base /\ execs'[ch].kind = execs[ch].kind
  <2>1. /\ ch \in Choices /\ pc[c] = "binding" /\ execs[ch] \in Exec
        /\ execs[ch].status = "executing" /\ execs[ch].turn = Req(c) /\ BeginDispatch(ch, Req(c))
    BY DEF DispatchChoice, ExecsTypeOK, Chosen, ClaimIsKept, Awaits, Business
  <2>2. execs' = IF execs[ch].dispatch = "not_started"
                 THEN [execs EXCEPT ![ch].dispatch = "dispatching"] ELSE execs
    BY <2>1 DEF BeginDispatch
  <2> QED BY <2>1, <2>2 DEF DispatchChoice, ExecsTypeOK, Exec
<1>2. \A d \in Calls : Holding(d) /\ Chosen(d) = ch => d = c
  BY <1>1, OneWorksForAChoice DEF Holding, Locked
<1> HIDE DEF ch
<1>3. RowsConsistent' /\ UnwrittenIsNowhere'
  BY <1>1 DEF RowsConsistent, UnwrittenIsNowhere, Unwritten, BeforeCommit, Controller
<1>4. ClaimIsKept'
  BY <1>1, <1>2 DEF ClaimIsKept, Awaits, HasExecutor, Controller, Business, Holding, Locked, ch,
     Chosen, Req
<1>5. WriteIsPending'
  BY <1>1 DEF WriteIsPending, Backed, Awaits, Controller
<1>6. DispatchCounted'
  <2>1. Strict(ch) => dispatched[ch] = 0
    BY <1>1 DEF DispatchCounted, ch
  <2> QED BY <1>1, <1>2, <2>1 DEF DispatchCounted, Strict, Holding, Locked
<1>7. ExecutingIsOwned'
  BY <1>1 DEF ExecutingIsOwned, Business, ch
<1> QED BY <1>3, <1>4, <1>5, <1>6, <1>7

(* The steps that close the row of the choice a call works for, or mark it *)
(* retryable after its clean-up.                                           *)
LEMMA FinishStep ==
  ASSUME TypeOK, IInv, ChoiceInv, NEW c \in Calls, NEW v, NEW st,
         \/ EndWithoutVersion(c) \/ VerifierAccepts(c) \/ VerifierRejects(c)
         \/ CompleteChoice(c) \/ MarkRetryable(c),
         Chosen(c) # NoChoice, FinishExecution(Chosen(c), st, v),
         st \in {"succeeded", "failed_retryable", "failed_terminal"},
         VerifierRejects(c) \/ (VerifierAccepts(c) => st = "succeeded" /\ v = Req(c))
  PROVE  ChoiceInv'
<1> USE RequestsNamed, TurnsAreRequests DEF TypeOK, ChoiceInv, Goto, dataVars, historyVars,
    localVars
<1> DEFINE ch == Chosen(c)  r == Req(c)
<1>1. /\ ch \in Choices /\ r \in Requests /\ r # NoVersion /\ ChoiceOf[r] = ch /\ ch # NoChoice
      /\ UNCHANGED <<generated, journal, dispatched, crashes>>
      /\ versions' \subseteq versions /\ patches' \subseteq patches
      /\ pc[c] \in {"work", "patched", "wrote", "complete", "failmark"} /\ Holding(c)
      /\ \/ pc' = pc /\ pc[c] = "complete" /\ LeftToClose(c)
         \/ pc[c] = "failmark" /\ pc' = [pc EXCEPT ![c] = "failjournal"]
         \/ /\ pc[c] \in {"work", "patched", "wrote"}
            /\ \E l \in {"complete", "fail", "fail499"} : pc' = [pc EXCEPT ![c] = l]
      /\ pc[c] \in {"patched", "wrote"} => r \notin patches' \/ (st = "succeeded" /\ v = r)
  <2>1. CASE EndWithoutVersion(c)
    BY <2>1 DEF EndWithoutVersion, Chosen, Req, Holding, Locked
  <2>2. CASE VerifierAccepts(c) /\ ~VerifierRejects(c)
    BY <2>2 DEF VerifierAccepts, Chosen, Req, Holding, Locked
  <2>3. CASE VerifierRejects(c)
    <3>1. /\ versions' \subseteq versions /\ patches' = patches \ {r}
          /\ pc[c] \in {"patched", "wrote"}
          /\ pc' = [pc EXCEPT ![c] = "fail"] \/ pc' = [pc EXCEPT ![c] = "complete"]
          /\ UNCHANGED <<generated, journal, dispatched, crashes>>
      BY <2>3 DEF VerifierRejects
    <3> QED BY <3>1 DEF Chosen, Req, Holding, Locked
  <2>4. CASE CompleteChoice(c)
    BY <2>4 DEF CompleteChoice, Chosen, Req, Holding, Locked
  <2>5. CASE MarkRetryable(c)
    BY <2>5 DEF MarkRetryable, Chosen, Req, Holding, Locked
  <2> QED BY <2>1, <2>2, <2>3, <2>4, <2>5
<1>2. \A d \in Calls : Holding(d) /\ (Chosen(d) = ch \/ Req(d) = r) => d = c
  BY <1>1, OneWorksForAChoice
<1>3. /\ execs[ch].turn = r /\ execs[ch].status \in {"executing", "cancelled"}
      /\ execs[ch].status = "cancelled" => pc[c] = "failmark"
  BY <1>1 DEF ClaimIsKept, Awaits, Business, LeftToClose
<1>4. /\ \A x \in Choices \ {ch} : execs'[x] = execs[x]
      /\ execs'[ch].turn = r /\ execs'[ch].base = execs[ch].base /\ execs'[ch].kind = execs[ch].kind
      /\ execs'[ch].unstarted = FALSE /\ execs'[ch].dispatch = execs[ch].dispatch
      /\ execs'[ch].status = st /\ (v = r => execs'[ch].result = r)
  BY <1>1, <1>3 DEF FinishExecution, ExecsTypeOK, Exec
<1>5. r \in versions' \cap patches' => Controller(ch) \/ (st = "succeeded" /\ v = r)
  <2>1. pc[c] = "work" => r \notin versions
    BY <1>1 DEF UnwrittenIsNowhere, Unwritten, BeforeCommit
  <2>2. pc[c] = "failmark" => r \notin versions
    BY <1>1 DEF ClaimIsKept, RowsConsistent
  <2>3. pc[c] = "complete" => Controller(ch)
    BY <1>1 DEF LeftToClose
  <2> QED BY <1>1, <2>1, <2>2, <2>3
<1> HIDE DEF ch, r
<1>6. RowsConsistent'
  BY <1>1, <1>4 DEF RowsConsistent, Controller
<1>7. UnwrittenIsNowhere'
  BY <1>1 DEF UnwrittenIsNowhere, Unwritten, BeforeCommit
<1>8. ClaimIsKept'
  BY <1>1, <1>2, <1>4 DEF ClaimIsKept, Awaits, HasExecutor, Controller, Business, Holding, Locked,
     Chosen, Req, ch, r
<1>9. WriteIsPending'
  <2> SUFFICES ASSUME NEW q \in Requests, ChoiceOf[q] # NoChoice, ~Controller(ChoiceOf[q])',
                      q \in versions' \cap patches'
               PROVE  (\/ Backed(q) \/ Awaits(ChoiceOf[q], q)
                       \/ crashes > 0 /\ execs[ChoiceOf[q]].turn # q)'
    BY DEF WriteIsPending
  <2>1. ChoiceOf[q] \in Choices /\ ~Controller(ChoiceOf[q]) /\ q \in versions \cap patches
    BY <1>1, <1>4 DEF Controller
  <2>2. Backed(q) \/ Awaits(ChoiceOf[q], q) \/ (crashes > 0 /\ execs[ChoiceOf[q]].turn # q)
    BY <2>1 DEF WriteIsPending
  <2>3. CASE q = r
    BY <1>1, <1>4, <1>5, <2>1, <2>3 DEF Backed
  <2>4. CASE ChoiceOf[q] = ch /\ q # r
    BY <1>1, <1>3, <1>4, <2>2, <2>4 DEF Backed, Awaits
  <2>5. CASE ChoiceOf[q] # ch
    BY <1>1, <1>4, <2>1, <2>2, <2>5 DEF Backed, Awaits
  <2> QED BY <2>3, <2>4, <2>5
<1>10. DispatchCounted'
  BY <1>1, <1>2, <1>3, <1>4 DEF DispatchCounted, Strict
<1>11. ExecutingIsOwned'
  BY <1>1, <1>2, <1>3, <1>4 DEF ExecutingIsOwned, Business, ch, r, Chosen, Req
<1> QED BY <1>6, <1>7, <1>8, <1>9, <1>10, <1>11

(* A rejected write whose choice stays open, or that has none. *)
LEMMA RejectStep ==
  ASSUME TypeOK, IInv, ChoiceInv, NEW c \in Calls, VerifierRejects(c), UNCHANGED execs,
         Goto(c, "fail") \/ (Goto(c, "complete") /\ ~HasExecutor(c))
  PROVE  ChoiceInv'
<1> USE RequestsNamed, TurnsAreRequests DEF TypeOK, ChoiceInv, Goto, dataVars, historyVars,
    localVars
<1>1. /\ UNCHANGED <<generated, journal, dispatched, crashes>>
      /\ versions' \subseteq versions /\ patches' \subseteq patches
      /\ pc[c] \in {"patched", "wrote"}
      /\ \/ pc' = [pc EXCEPT ![c] = "fail"]
         \/ pc' = [pc EXCEPT ![c] = "complete"] /\ ~HasExecutor(c)
  BY DEF VerifierRejects
<1>2. RowsConsistent' /\ DispatchCounted'
  BY <1>1 DEF RowsConsistent, DispatchCounted, Strict, Controller
<1>3. UnwrittenIsNowhere'
  BY <1>1 DEF UnwrittenIsNowhere, Unwritten, BeforeCommit
<1>4. ClaimIsKept' /\ ExecutingIsOwned'
  BY <1>1 DEF ClaimIsKept, ExecutingIsOwned, Business, Awaits, HasExecutor, Controller
<1>5. WriteIsPending'
  BY <1>1 DEF WriteIsPending, Backed, Awaits, Controller
<1> QED BY <1>2, <1>3, <1>4, <1>5

(* The clean-up of a cancelled or failed turn: what every press of the     *)
(* choice has left goes together with the row.                             *)
LEMMA UndoStep ==
  ASSUME TypeOK, IInv, ChoiceInv, NEW c \in Calls, NEW ch \in CancellableFor(Req(c)),
         CleanUpCancelled(c) \/ CleanUpFailed(c), UndoChoice(ch, c),
         pc' = [pc EXCEPT ![c] = "failjournal"] \/ pc' = [pc EXCEPT ![c] = "failmark"]
  PROVE  ChoiceInv'
<1> USE RequestsNamed, TurnsAreRequests DEF TypeOK, ChoiceInv, historyVars, localVars
<1> DEFINE r == Req(c)
<1>1. /\ ch \in Choices /\ r \in Requests /\ r # NoVersion /\ r # Nobody
      /\ UNCHANGED <<generated, journal, dispatched, crashes>>
      /\ execs[ch].turn = r /\ ChoiceOf[r] = ch /\ Chosen(c) = ch /\ ch # NoChoice
      /\ pc[c] \in {"fail499", "fail"} /\ Holding(c)
  BY DEF CleanUpCancelled, CleanUpFailed, CancellableFor, RowsConsistent, Req, Chosen, Holding,
       Locked
<1>2. \A d \in Calls : Holding(d) /\ (Chosen(d) = ch \/ Req(d) = r) => d = c
  BY <1>1, OneWorksForAChoice
<1>3. /\ \A x \in Choices \ {ch} : execs'[x] = execs[x]
      /\ execs'[ch].turn = r /\ execs'[ch].base = execs[ch].base /\ execs'[ch].kind = execs[ch].kind
      /\ execs'[ch].dispatch = execs[ch].dispatch /\ execs'[ch].unstarted = FALSE
      /\ execs'[ch].status = "cancelled" /\ execs[ch].status \in {"executing", "succeeded"}
  BY <1>1 DEF UndoChoice, CancelExecution, ExecsTypeOK, Exec, CancellableFor, RowsConsistent
<1>4. /\ \A q \in Requests : ChoiceOf[q] = ch => q \notin versions' \cup patches'
      /\ versions' \subseteq versions /\ patches' \subseteq patches
  <2>1. \A q \in Requests : ChoiceOf[q] = ch =>
          q \in (Linked(ch) \cup {execs[ch].result}) \ {NoVersion, execs[ch].base}
    BY <1>1 DEF Linked, RowsConsistent
  <2>2. /\ versions' = versions \ ((Linked(ch) \cup {execs[ch].result}) \ {NoVersion, execs[ch].base})
        /\ patches' = patches \ Linked(ch)
    BY DEF UndoChoice
  <2> QED BY <2>1, <2>2 DEF Linked
<1> HIDE DEF r
<1>5. RowsConsistent'
  BY <1>1, <1>3, <1>4 DEF RowsConsistent, Controller
<1>6. UnwrittenIsNowhere'
  BY <1>1, <1>4 DEF UnwrittenIsNowhere, Unwritten, BeforeCommit
<1>7. ClaimIsKept'
  BY <1>1, <1>2, <1>3 DEF ClaimIsKept, Awaits, HasExecutor, Controller, Business, Holding, Locked,
     Chosen, Req, r
<1>8. WriteIsPending'
  BY <1>1, <1>3, <1>4 DEF WriteIsPending, Backed, Awaits, Controller
<1>9. DispatchCounted'
  <2>1. \A d \in Calls : pc'[d] = "binding" => pc[d] = "binding"
    BY <1>1
  <2> QED BY <1>1, <1>3, <2>1 DEF DispatchCounted, Strict
<1>10. ExecutingIsOwned'
  BY <1>1, <1>2, <1>3 DEF ExecutingIsOwned, Business, Chosen
<1> QED BY <1>5, <1>6, <1>7, <1>8, <1>9, <1>10

LEMMA CleanUpStep ==
  ASSUME TypeOK, IInv, ChoiceInv, NEW c \in Calls, CleanUpCancelled(c) \/ CleanUpFailed(c)
  PROVE  ChoiceInv'
<1> USE RequestsNamed, TurnsAreRequests DEF TypeOK, ChoiceInv, Goto, dataVars, historyVars,
    localVars
<1>1. CASE \E ch \in CancellableFor(Req(c)) :
             UndoChoice(ch, c) /\ (Goto(c, "failjournal") \/ Goto(c, "failmark"))
  BY <1>1, UndoStep
<1>2. CASE /\ CancellableFor(Req(c)) = {} \/ (pc[c] = "fail" /\ ExecutingFor(Req(c)) = {})
           /\ UNCHANGED <<execs, versions, patches>> /\ Goto(c, "failjournal")
  <2>1. UNCHANGED <<generated, journal, dispatched, crashes>> /\ pc[c] \in {"fail", "fail499"}
    BY DEF CleanUpCancelled, CleanUpFailed
  <2>2. \A ch \in Choices : ~Awaits(ch, Req(c))
    BY <1>2 DEF Awaits, CancellableFor, ExecutingFor
  <2>3. Chosen(c) # NoChoice => Chosen(c) \in Choices
    BY DEF Chosen, Req
  <2>4. RowsConsistent' /\ UnwrittenIsNowhere' /\ DispatchCounted' /\ WriteIsPending'
    BY <1>2, <2>1 DEF RowsConsistent, UnwrittenIsNowhere, Unwritten, BeforeCommit, DispatchCounted,
       Strict, WriteIsPending, Backed, Awaits, Controller
  <2>5. ClaimIsKept'
    BY <1>2, <2>1, <2>2, <2>3 DEF ClaimIsKept, Business, Awaits, HasExecutor, Controller
  <2>6. ExecutingIsOwned'
    BY <1>2, <2>1, <2>2 DEF ExecutingIsOwned, Business, Awaits
  <2> QED BY <2>4, <2>5, <2>6
<1>3. CASE /\ pc[c] = "fail" /\ UNCHANGED <<versions, patches>> /\ Goto(c, "failjournal")
           /\ \E ch \in ExecutingFor(Req(c)) : SettleUnstarted(ch, activeVersion[Ses(c)])
  <2>1. PICK ch \in ExecutingFor(Req(c)) : SettleUnstarted(ch, activeVersion[Ses(c)])
    BY <1>3
  <2>2. /\ ch \in Choices /\ Req(c) \in Requests /\ Chosen(c) = ch /\ ch # NoChoice
        /\ UNCHANGED <<versions, patches, generated, journal, dispatched, crashes>>
        /\ \A x \in Choices \ {ch} : execs'[x] = execs[x]
        /\ execs[ch].status = "executing" /\ execs'[ch].status = "failed_retryable"
        /\ execs[ch].dispatch = "not_started" /\ execs'[ch].dispatch = "not_started"
        /\ execs'[ch].turn = Req(c) /\ execs[ch].turn = Req(c) /\ execs'[ch].result = execs[ch].result
        /\ execs'[ch].base = execs[ch].base /\ execs'[ch].kind = execs[ch].kind
    BY <1>3, <2>1 DEF CleanUpFailed, ExecutingFor, SettleUnstarted, ProvablyUnstarted,
         ExecsTypeOK, Exec, RowsConsistent, Chosen, Req, CleanUpCancelled
  <2>3. \A d \in Calls : Holding(d) /\ (Chosen(d) = ch \/ Req(d) = Req(c)) => d = c
    BY <1>3, <2>2, OneWorksForAChoice DEF Holding, Locked
  <2>4. Controller(ch) /\ Controller(ch)'
    BY <2>2 DEF RowsConsistent, Controller
  <2>5. RowsConsistent' /\ UnwrittenIsNowhere'
    BY <1>3, <2>2 DEF RowsConsistent, UnwrittenIsNowhere, Unwritten, BeforeCommit, Controller
  <2>6. ClaimIsKept'
    BY <1>3, <2>2, <2>3 DEF ClaimIsKept, Awaits, HasExecutor, Controller, Business, Holding,
       Locked, Chosen, Req
  <2>7. WriteIsPending'
    BY <2>2, <2>4 DEF WriteIsPending, Backed, Awaits, Controller
  <2>8. DispatchCounted' /\ ExecutingIsOwned'
    BY <1>3, <2>2, <2>3 DEF DispatchCounted, ExecutingIsOwned, Strict, Business
  <2> QED BY <2>5, <2>6, <2>7, <2>8
<1>4. ExecutingFor(Req(c)) \subseteq CancellableFor(Req(c))
  BY DEF ExecutingFor, CancellableFor
<1> QED BY <1>1, <1>2, <1>3, <1>4 DEF CleanUpCancelled, CleanUpFailed

LEMMA ChoiceEnvironment ==
  ASSUME TypeOK, IInv, ChoiceInv,
         \/ \E s \in Sessions : CancelRun(s)
         \/ \E s \in Sessions, m \in Saves : SaveVersion(s, m)
         \/ \E c \in Calls : LoseConnection(c)
         \/ Restart
         \/ UNCHANGED vars
  PROVE  ChoiceInv'
<1> USE RequestsNamed, TurnsAreRequests, BoundsAreNaturals DEF TypeOK, ChoiceInv,
    RowsConsistent, UnwrittenIsNowhere, ClaimIsKept, WriteIsPending, DispatchCounted,
    ExecutingIsOwned, Awaits, HasExecutor, Controller, Business, BeforeCommit, Unwritten, Backed,
    Req, Chosen, Strict, dataVars, historyVars, localVars, turnVars
<1>1. CASE \E s \in Sessions : CancelRun(s)
  BY <1>1 DEF CancelRun
<1>2. CASE \E s \in Sessions, m \in Saves : SaveVersion(s, m)
  BY <1>2 DEF SaveVersion
<1>3. CASE Restart
  <2>1. /\ UNCHANGED <<execs, versions, patches, journal, generated, dispatched>>
        /\ crashes' = crashes + 1 /\ crashes \in Nat
        /\ \A c \in Calls : pc'[c] = IF pc[c] \in Locked \cup {"lease"} THEN "crashed" ELSE pc[c]
    BY <1>3 DEF Restart
  <2>2. RowsConsistent' /\ UnwrittenIsNowhere' /\ DispatchCounted'
    BY <2>1
  <2>3. ClaimIsKept'
    BY <2>1 DEF Locked
  <2>4. WriteIsPending'
    BY <2>1 DEF Locked
  <2>5. ExecutingIsOwned'
    BY <2>1
  <2> QED BY <2>2, <2>3, <2>4, <2>5
<1>4. CASE \E c \in Calls : LoseConnection(c)
  BY <1>4 DEF LoseConnection, Goto
<1>5. CASE UNCHANGED vars
  BY <1>5 DEF vars
<1> QED BY <1>1, <1>2, <1>3, <1>4, <1>5

LEMMA ChoiceInitially == Init => ChoiceInv
<1> USE RequestsNamed, TurnsAreRequests, BoundsAreNaturals
<1> SUFFICES ASSUME Init PROVE ChoiceInv
  OBVIOUS
<1>1. PICK kind \in [Choices -> Kinds] : execs = [ch \in Choices |-> NoExec(kind[ch])]
  BY DEF Init, ExecsInit
<1>2. \A ch \in Choices : /\ execs[ch].status = "none" /\ execs[ch].turn = Nobody
                          /\ execs[ch].base = NoVersion /\ execs[ch].result = NoVersion
                          /\ execs[ch].unstarted = FALSE /\ execs[ch].dispatch = "none"
  BY <1>1 DEF NoExec
<1>3. RowsConsistent /\ UnwrittenIsNowhere /\ DispatchCounted
  BY <1>2 DEF Init, RowsConsistent, UnwrittenIsNowhere, BeforeCommit, DispatchCounted
<1>4. ClaimIsKept /\ WriteIsPending /\ ExecutingIsOwned
  BY <1>2 DEF Init, ClaimIsKept, WriteIsPending, ExecutingIsOwned, Business
<1> QED BY <1>3, <1>4 DEF ChoiceInv

(* Every reachable state satisfies the invariant of the choices. *)
THEOREM ChoicesSafe == Spec => []ChoiceInv
<1>1. Init => ChoiceInv
  BY ChoiceInitially
<1>2. TypeOK /\ IInv /\ ChoiceInv /\ [Next]_vars => ChoiceInv'
  <2> SUFFICES ASSUME TypeOK, IInv, ChoiceInv, [Next]_vars PROVE ChoiceInv'
    OBVIOUS
  <2>1. ASSUME NEW c \in Calls, Step(c) PROVE ChoiceInv'
    <3>1. CASE EndWithoutVersion(c)
      <4>1. CASE HasExecutor(c) /\ ~CancelSeen(Ses(c))
        <5>1. Chosen(c) # NoChoice /\ FinishExecution(Chosen(c), "failed_retryable", NoVersion)
          BY <3>1, <4>1 DEF EndWithoutVersion
        <5>2. ~VerifierAccepts(c)
          BY <3>1 DEF EndWithoutVersion, VerifierAccepts
        <5> QED BY <3>1, <5>1, <5>2, FinishStep
      <4>2. CASE ~HasExecutor(c) \/ CancelSeen(Ses(c))
        <5>1. UNCHANGED <<execs, versions, patches>>
          BY <3>1, <4>2 DEF EndWithoutVersion, dataVars
        <5> QED BY <3>1, <4>2, <5>1, QuietStep
      <4> QED BY <4>1, <4>2
    <3>2. CASE VerifierAccepts(c)
      <4>1. CASE HasExecutor(c)
        <5>1. Chosen(c) # NoChoice /\ FinishExecution(Chosen(c), "succeeded", Req(c))
          BY <3>2, <4>1 DEF VerifierAccepts, HasExecutor
        <5> QED BY <3>2, <5>1, FinishStep
      <4>2. CASE ~HasExecutor(c)
        <5>1. UNCHANGED <<execs, versions, patches>>
          BY <3>2, <4>2 DEF VerifierAccepts, dataVars
        <5> QED BY <3>2, <4>2, <5>1, QuietStep
      <4> QED BY <4>1, <4>2
    <3>3. CASE VerifierRejects(c)
      <4>1. CASE HasExecutor(c) /\ FinishExecution(Chosen(c), "failed_retryable", NoVersion)
        <5>1. Chosen(c) # NoChoice
          BY <4>1 DEF HasExecutor
        <5> QED BY <3>3, <4>1, <5>1, FinishStep
      <4>2. CASE /\ UNCHANGED execs
                 /\ Goto(c, "fail") \/ (Goto(c, "complete") /\ ~HasExecutor(c))
        BY <3>3, <4>2, RejectStep
      <4> QED BY <3>3, <4>1, <4>2 DEF VerifierRejects
    <3>4. CASE CompleteChoice(c) \/ MarkRetryable(c)
      <4>1. Chosen(c) # NoChoice /\ ~VerifierAccepts(c)
        BY <3>4 DEF CompleteChoice, LeftToClose, MarkRetryable, VerifierAccepts, ChoiceInv,
             ClaimIsKept
      <4>2. \E v, st : /\ FinishExecution(Chosen(c), st, v)
                       /\ st \in {"succeeded", "failed_retryable", "failed_terminal"}
        BY <3>4 DEF CompleteChoice, MarkRetryable
      <4> QED BY <3>4, <4>1, <4>2, FinishStep
    <3>5. CASE CommitPatch(c) \/ CommitVersion(c)
      <4>1. \/ pc' = [pc EXCEPT ![c] = "patched"] \/ pc' = [pc EXCEPT ![c] = "wrote"]
            \/ CommitPatch(c) /\ UNCHANGED <<execs, versions, patches>>
        BY <3>5 DEF CommitPatch, CommitVersion, Goto
      <4> QED BY <3>5, <4>1, CommitStep, QuietStep
    <3>6. CASE \/ ClaimChoice(c) \/ SettleExpired(c) \/ DispatchChoice(c)
               \/ CleanUpCancelled(c) \/ CleanUpFailed(c)
      BY <3>6, ClaimStep, SettleStep, DispatchStep, CleanUpStep
    <3>7. CASE \/ AnswerFromJournal(c) \/ LookupMisses(c) \/ TakeLease(c) \/ RefuseLease(c)
               \/ ClaimIngress(c) \/ ClaimLost(c) \/ BindTurn(c) \/ StartGeneration(c)
               \/ ReplyOnly(c) \/ DraftItinerary(c) \/ MutateTimeline(c) \/ ReplayChoice(c)
               \/ RefuseChoice(c) \/ CancelAtClaim(c) \/ FenceWrite(c) \/ CompleteTurn(c)
               \/ FinalizeTurn(c) \/ RaiseError(c) \/ JournalFailure(c) \/ ReleaseLease(c)
      <4>1. UNCHANGED <<execs, versions, patches>>
        BY <3>7 DEF AnswerFromJournal, LookupMisses, TakeLease, RefuseLease, ClaimIngress,
           ClaimLost, BindTurn, StartGeneration, ReplyOnly, DraftItinerary, MutateTimeline,
           ReplayChoice, RefuseChoice, CancelAtClaim, FenceWrite, CompleteTurn, FinalizeTurn,
           RaiseError, JournalFailure, ReleaseLease, dataVars
      <4> QED BY <3>7, <4>1, QuietStep
    <3> QED BY <2>1, <3>1, <3>2, <3>3, <3>4, <3>5, <3>6, <3>7 DEF Step
  <2> QED BY <2>1, ChoiceEnvironment DEF Next
<1> QED BY <1>1, <1>2, Typing, Safety, PTL DEF Spec

(* As long as nothing is lost, whoever claimed an executing choice is in   *)
(* flight and will settle it.                                              *)
THEOREM ClaimsAreOwned == Spec => []ClaimHasOwner
<1>1. ChoiceInv => ClaimHasOwner
  BY DEF ChoiceInv, ExecutingIsOwned, ClaimHasOwner, Business, Holding, Locked
<1> QED BY <1>1, ChoicesSafe, PTL

(* A cancelled choice leaves nothing of any press, and an accepted version *)
(* of a settled press of an executor's choice is its row's success, unless *)
(* another press took the row of a lost run.                               *)
THEOREM ChoiceWritesAreAccounted == Spec => []ChoiceWriteAccounted
<1>1. TypeOK /\ ChoiceInv => ChoiceWriteAccounted
  <2> SUFFICES ASSUME TypeOK, ChoiceInv, NEW r \in Requests, ChoiceOf[r] # NoChoice
               PROVE  LET row == execs[ChoiceOf[r]] IN
                        /\ row.status = "cancelled" => r \notin versions \cup patches
                        /\ /\ journal[r] = "completed" \/ Failed(r)
                           /\ ~Controller(ChoiceOf[r])
                           /\ r \in versions \cap patches
                           => \/ row.status = "succeeded" /\ row.result = r
                              \/ crashes > 0 /\ row.turn # r
    BY DEF ChoiceWriteAccounted
  <2>1. ChoiceOf[r] \in Choices
    BY RequestsNamed
  <2>2. execs[ChoiceOf[r]].status = "cancelled" => r \notin versions \cup patches
    BY <2>1 DEF ChoiceInv, RowsConsistent
  <2>3. journal[r] = "completed" \/ Failed(r) => ~Awaits(ChoiceOf[r], r)
    BY <2>1 DEF ChoiceInv, RowsConsistent, Awaits, Failed
  <2> QED BY <2>2, <2>3 DEF ChoiceInv, WriteIsPending, Backed
<1> QED BY <1>1, Typing, ChoicesSafe, PTL

(* Under strict recovery the business of a choice starts at most once. *)
THEOREM StrictDispatchIsOnce == Spec => []StrictDispatchOnce
<1>1. ChoiceInv => StrictDispatchOnce
  BY DEF ChoiceInv, DispatchCounted, StrictDispatchOnce
<1> QED BY <1>1, ChoicesSafe, PTL

(* A settled choice is changed only by the run that settled it. *)
THEOREM SettledChoicesAreStable == Spec => SettledChoiceStable
<1> DEFINE Settled == {"succeeded", "failed_terminal", "cancelled"}
           Stable == \A ch \in Choices :
                       /\ execs[ch].status \in Settled
                       /\ execs'[ch] # execs[ch]
                       => \E c \in Calls : Holding(c) /\ Req(c) = execs[ch].turn
<1>1. TypeOK /\ ChoiceInv /\ [Next]_vars => [Stable]_vars
  <2> SUFFICES ASSUME TypeOK, ChoiceInv, Next, NEW ch \in Choices,
                      execs[ch].status \in Settled, execs'[ch] # execs[ch]
               PROVE  \E c \in Calls : Holding(c) /\ Req(c) = execs[ch].turn
    OBVIOUS
  <2>1. PICK c \in Calls : Step(c)
    BY DEF Next, CancelRun, SaveVersion, LoseConnection, Restart, vars
  <2>2. CASE \/ DispatchChoice(c) \/ VerifierAccepts(c) \/ VerifierRejects(c)
             \/ EndWithoutVersion(c) \/ CompleteChoice(c) \/ MarkRetryable(c)
    <3>1. Holding(c)
      BY <2>2 DEF DispatchChoice, VerifierAccepts, VerifierRejects, EndWithoutVersion,
           CompleteChoice, MarkRetryable, Holding, Locked
    <3>2. Chosen(c) # NoChoice /\ Chosen(c) = ch
      BY <2>2, RequestsNamed DEF DispatchChoice, BeginDispatch, VerifierAccepts, VerifierRejects,
           EndWithoutVersion, CompleteChoice, LeftToClose, HasExecutor, MarkRetryable,
           FinishExecution, ExecsTypeOK, TypeOK, ChoiceInv, ClaimIsKept
    <3> QED BY <2>2, <3>1, <3>2 DEF DispatchChoice, VerifierAccepts, VerifierRejects,
               EndWithoutVersion, CompleteChoice, LeftToClose, MarkRetryable, ChoiceInv,
               ClaimIsKept, Awaits, Business
  <2>3. CASE CleanUpCancelled(c) \/ CleanUpFailed(c)
    <3>1. execs[ch].turn = Req(c) /\ Holding(c)
      BY <2>3 DEF CleanUpCancelled, CleanUpFailed, UndoChoice, CancelExecution, SettleUnstarted,
         CancellableFor, ExecutingFor, TypeOK, ExecsTypeOK, Holding, Locked
    <3> QED BY <3>1
  <2>4. CASE ClaimChoice(c) \/ SettleExpired(c)
    BY <2>4 DEF ClaimChoice, SettleExpired, InsertClaim, ReclaimExpired, RetryFailed,
         SettleUnstarted, ProvablyUnstarted, TypeOK, ExecsTypeOK
  <2>5. \/ execs' = execs
        \/ DispatchChoice(c) \/ VerifierAccepts(c) \/ VerifierRejects(c) \/ EndWithoutVersion(c)
        \/ CompleteChoice(c) \/ MarkRetryable(c)
        \/ CleanUpCancelled(c) \/ CleanUpFailed(c) \/ ClaimChoice(c) \/ SettleExpired(c)
    BY <2>1 DEF Step, AnswerFromJournal, LookupMisses, TakeLease, RefuseLease, ClaimIngress,
         ClaimLost, BindTurn, StartGeneration, ReplyOnly, DraftItinerary, MutateTimeline,
         ReplayChoice, RefuseChoice, CancelAtClaim, FenceWrite, CommitPatch, CommitVersion,
         CompleteTurn, FinalizeTurn, RaiseError, JournalFailure, ReleaseLease
  <2> QED BY <2>2, <2>3, <2>4, <2>5
<1> QED BY <1>1, Typing, ChoicesSafe, PTL DEF Spec, SettledChoiceStable

=============================================================================
