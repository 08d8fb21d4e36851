------------------------- MODULE TurnControlProofs -------------------------
(***************************************************************************)
(* What TLAPS proves of the control loop for any number of turns, messages,*)
(* calls, slots and workers: no slot is lost or given back twice, and the  *)
(* server drafts by itself only when the provider had both prompts.        *)
(***************************************************************************)
EXTENDS TurnControl, FiniteSetTheorems, TLAPS

Waiters == Turns \cup Messages

SlotsInv ==
  /\ free \in Int
  /\ stage \in [Calls -> Stages]
  /\ SlotsConserved

LEMMA HeldFinite == IsFiniteSet(Held) /\ Cardinality(Held) \in Nat
BY SlotConstants, FS_Subset, FS_CardinalityType DEF Held

(* A stage change that keeps a call held keeps the slots as they are. *)
LEMMA StillHeld ==
  ASSUME SlotsInv, NEW c, stage[c] # "idle", NEW st \in Stages \ {"idle"},
         stage' = [stage EXCEPT ![c] = st], UNCHANGED free
  PROVE  SlotsInv'
<1>1. stage' \in [Calls -> Stages]
  BY DEF SlotsInv
<1>2. Held' = Held
  BY <1>1 DEF SlotsInv, Held
<1> QED BY <1>1, <1>2 DEF SlotsInv, SlotsConserved

(* A call that is held no more gives its slot back. *)
LEMMA GivenBack ==
  ASSUME SlotsInv, NEW c \in Calls, stage[c] # "idle",
         stage' = [stage EXCEPT ![c] = "idle"], free' = free + 1
  PROVE  SlotsInv'
<1>1. stage' \in [Calls -> Stages]
  BY DEF SlotsInv, Stages
<1>2. Held' = Held \ {c} /\ c \in Held
  BY <1>1 DEF SlotsInv, Held
<1>3. Cardinality(Held') = Cardinality(Held) - 1
  BY <1>2, HeldFinite, FS_RemoveElement
<1> QED BY <1>1, <1>3, HeldFinite, SlotConstants DEF SlotsInv, SlotsConserved

LEMMA SubmitKeeps ==
  ASSUME SlotsInv, NEW c \in Calls, Submit(c)
  PROVE  SlotsInv'
<1>1. stage' \in [Calls -> Stages]
  BY DEF SlotsInv, Stages, Submit
<1>2. Held' = Held \cup {c} /\ c \notin Held
  BY <1>1 DEF SlotsInv, Held, Submit
<1>3. Cardinality(Held') = Cardinality(Held) + 1
  BY <1>2, HeldFinite, FS_AddElement
<1> QED BY <1>1, <1>3, HeldFinite, SlotConstants DEF SlotsInv, SlotsConserved, Submit

LEMMA UnchangedKeeps ==
  ASSUME SlotsInv, UNCHANGED <<free, stage>>
  PROVE  SlotsInv'
BY DEF SlotsInv, SlotsConserved, Held

LEMMA GiveUpKeeps ==
  ASSUME SlotsInv, NEW c \in Calls, GiveUp(c)
  PROVE  SlotsInv'
<1>1. CASE stage[c] = "queued"
  BY <1>1, GivenBack DEF GiveUp
<1>2. CASE stage[c] # "queued"
  BY <1>2, UnchangedKeeps DEF GiveUp, slotVars
<1> QED BY <1>1, <1>2

LEMMA PoolKeeps == SlotsInv /\ PoolStep => SlotsInv'
<1> SUFFICES ASSUME SlotsInv, PoolStep PROVE SlotsInv'
  OBVIOUS
<1>1. CASE StartWork
  BY <1>1, StillHeld DEF StartWork, TakeUp, Stages
<1>2. ASSUME NEW c \in Calls, ReachProvider(c) PROVE SlotsInv'
  BY <1>2, StillHeld DEF ReachProvider, AskProvider, Stages
<1>3. ASSUME NEW c \in Calls, Answer(c) PROVE SlotsInv'
  BY <1>3, StillHeld DEF Answer, ProviderAnswers, Stages
<1>4. ASSUME NEW c \in Calls, FinishCall(c) PROVE SlotsInv'
  BY <1>4, GivenBack DEF FinishCall, ReleaseSlot
<1> QED BY <1>1, <1>2, <1>3, <1>4 DEF PoolStep

----------------------------------------------------------------------------
(* Who waits for which call. *)
WaitInv == call \in [Waiters -> Calls \cup {NoCall}]

LEMMA SubmitsUnused ==
  ASSUME NEW w, SubmitCall(w)
  PROVE  \E c \in Unused : Submit(c) /\ call' = [call EXCEPT ![w] = c]
BY DEF SubmitCall

LEMMA SlotsStepKeeps == SlotsInv /\ WaitInv /\ [Next]_vars => SlotsInv' /\ WaitInv'
<1> SUFFICES ASSUME SlotsInv, WaitInv, [Next]_vars PROVE SlotsInv' /\ WaitInv'
  OBVIOUS
<1>1. CASE PoolStep
  <2>1. UNCHANGED call
    BY <1>1 DEF PoolStep, StartWork, ReachProvider, Answer, FinishCall, turnVars
  <2> QED BY <1>1, <2>1, PoolKeeps DEF WaitInv
<1>2. ASSUME NEW w \in Waiters, SubmitCall(w) PROVE SlotsInv' /\ WaitInv'
  <2>1. PICK c \in Unused : Submit(c) /\ call' = [call EXCEPT ![w] = c]
    BY <1>2, SubmitsUnused
  <2>2. c \in Calls
    BY DEF Unused
  <2> QED BY <2>1, <2>2, SubmitKeeps DEF WaitInv
<1>3. ASSUME NEW w \in Waiters, call[w] # NoCall, GiveUp(call[w]) \/ Forget(call[w]),
             call' = [call EXCEPT ![w] = NoCall]
      PROVE  SlotsInv' /\ WaitInv'
  <2>1. call[w] \in Calls
    BY <1>3 DEF WaitInv
  <2>2. SlotsInv'
    BY <1>3, <2>1, GiveUpKeeps, UnchangedKeeps DEF Forget
  <2> QED BY <1>3, <2>2 DEF WaitInv
<1>4. ASSUME UNCHANGED <<slotVars, call>> PROVE SlotsInv' /\ WaitInv'
  BY <1>4, UnchangedKeeps DEF slotVars, WaitInv
<1>5. ASSUME NEW m \in Messages, Classify(m) \/ Classified(m) PROVE SlotsInv' /\ WaitInv'
  BY <1>2, <1>3, <1>5 DEF Classify, Classified, Waiters
<1>6. ASSUME NEW t \in Turns, NEW a, NEW replies, Receive(t, a, replies)
      PROVE  SlotsInv' /\ WaitInv'
  BY <1>3, <1>6 DEF Receive, Awaits, Waiters
<1>7. ASSUME NEW t \in Turns, NEW a \in Attempts,
             \/ CannotCall(t, a) \/ StartCall(t, a) \/ Deadline(t, a)
             \/ Understand(t, a) \/ DraftFromContract(t, a) \/ Reject(t, a)
      PROVE  SlotsInv' /\ WaitInv'
  <2>1. CASE CannotCall(t, a)
    BY <1>4, <2>1 DEF CannotCall
  <2>2. CASE StartCall(t, a)
    BY <1>2, <2>2 DEF StartCall, Waiters
  <2>3. CASE Deadline(t, a)
    BY <1>3, <2>3 DEF Deadline, Awaits, Waiters
  <2>4. CASE Understand(t, a)
    BY <1>6, <2>4 DEF Understand
  <2>5. CASE DraftFromContract(t, a)
    BY <1>6, <2>5 DEF DraftFromContract
  <2>6. CASE Reject(t, a)
    BY <1>6, <2>6 DEF Reject
  <2> QED BY <1>7, <2>1, <2>2, <2>3, <2>4, <2>5, <2>6
<1>8. ASSUME NEW t \in Turns,
             \/ Observe(t) \/ AskAgain(t) \/ GiveUpOn(t) \/ Recover(t) \/ FailClosed(t)
             \/ Stop(t) \/ Execute(t)
      PROVE  SlotsInv' /\ WaitInv'
  <2>1. CASE AskAgain(t) \/ GiveUpOn(t)
    BY <1>6, <2>1 DEF AskAgain, GiveUpOn
  <2>2. CASE Observe(t) \/ Recover(t) \/ FailClosed(t) \/ Stop(t) \/ Execute(t)
    BY <1>4, <2>2 DEF Observe, Recover, FailClosed, Stop, Execute
  <2> QED BY <1>8, <2>1, <2>2
<1>9. CASE UNCHANGED vars
  BY <1>4, <1>9 DEF vars, turnVars
<1> QED BY <1>1, <1>5, <1>7, <1>8, <1>9 DEF Next, TurnStep

LEMMA SlotsInitially == Init => SlotsInv /\ WaitInv
<1> SUFFICES ASSUME Init PROVE SlotsInv /\ WaitInv
  OBVIOUS
<1>1. Held = {}
  BY DEF Init, SlotsInit, Held
<1>2. SlotsInv
  BY <1>1, FS_EmptySet, SlotConstants DEF Init, SlotsInit, SlotsInv, SlotsConserved, Stages
<1> QED BY <1>2 DEF Init, WaitInv, Waiters

(* Timeouts, cancellations and late answers in any order conserve the      *)
(* slots of the controller's pool.                                         *)
THEOREM PoolConservesSlots == Spec => []SlotsConserved
<1>1. SlotsInv => SlotsConserved
  BY DEF SlotsInv
<1> QED BY <1>1, SlotsInitially, SlotsStepKeeps, PTL DEF Spec

LEMMA ReceivesUsePool ==
  ASSUME WaitInv, NEW t \in Turns, NEW a, NEW replies, Receive(t, a, replies)
  PROVE  SlotsStep
<1>1. call[t] \in Calls
  BY DEF Receive, Awaits, WaitInv, Waiters
<1> QED BY <1>1 DEF Receive, SlotsStep

LEMMA CallsUsePool ==
  ASSUME WaitInv, NEW t \in Turns, NEW a \in Attempts,
         \/ CannotCall(t, a) \/ StartCall(t, a) \/ Deadline(t, a)
         \/ Understand(t, a) \/ DraftFromContract(t, a) \/ Reject(t, a)
  PROVE  [SlotsStep]_slotVars
<1>1. CASE CannotCall(t, a)
  BY <1>1 DEF CannotCall
<1>2. CASE StartCall(t, a)
  BY <1>2, SubmitsUnused DEF StartCall, Unused, SlotsStep
<1>3. CASE Deadline(t, a)
  <2>1. call[t] \in Calls /\ GiveUp(call[t])
    BY <1>3 DEF Deadline, Awaits, WaitInv, Waiters
  <2> QED BY <2>1 DEF SlotsStep
<1>4. CASE Understand(t, a)
  BY <1>4, ReceivesUsePool DEF Understand
<1>5. CASE DraftFromContract(t, a)
  BY <1>5, ReceivesUsePool DEF DraftFromContract
<1>6. CASE Reject(t, a)
  BY <1>6, ReceivesUsePool DEF Reject
<1> QED BY <1>1, <1>2, <1>3, <1>4, <1>5, <1>6

LEMMA StepsUsePool == WaitInv /\ [Next]_vars => [SlotsStep]_slotVars
<1> SUFFICES ASSUME WaitInv, [Next]_vars PROVE [SlotsStep]_slotVars
  OBVIOUS
<1>1. CASE PoolStep
  <2>1. ASSUME NEW c \in Calls, Answer(c) PROVE SlotsStep
    <3>1. PICK r \in Replies \cup {"none"} : ProviderAnswers(c, r)
      BY <2>1 DEF Answer
    <3> QED BY <3>1 DEF SlotsStep
  <2> QED BY <1>1, <2>1 DEF PoolStep, StartWork, ReachProvider, FinishCall, SlotsStep
<1>2. ASSUME NEW m \in Messages, Classify(m) PROVE SlotsStep
  BY <1>2, SubmitsUnused DEF Classify, Unused, SlotsStep
<1>3. ASSUME NEW m \in Messages, Classified(m) PROVE SlotsStep
  <2>1. call[m] \in Calls /\ (GiveUp(call[m]) \/ Forget(call[m]))
    BY <1>3 DEF Classified, WaitInv, Waiters
  <2> QED BY <2>1 DEF SlotsStep
<1>4. ASSUME NEW t \in Turns, AskAgain(t) \/ GiveUpOn(t) PROVE SlotsStep
  BY <1>4, ReceivesUsePool DEF AskAgain, GiveUpOn
<1>5. ASSUME NEW t \in Turns,
             Observe(t) \/ Recover(t) \/ FailClosed(t) \/ Stop(t) \/ Execute(t)
      PROVE  UNCHANGED slotVars
  BY <1>5 DEF Observe, Recover, FailClosed, Stop, Execute
<1>6. CASE UNCHANGED vars
  BY <1>6 DEF vars
<1> QED BY <1>1, <1>2, <1>3, <1>4, <1>5, <1>6, CallsUsePool DEF Next, TurnStep

(* Turns and messages reach the slots through the pool's operations only,  *)
(* so all their interleavings implement the pool.                          *)
THEOREM TurnsUseThePool == Spec => SlotsSpec
<1>1. Init => SlotsInit
  BY DEF Init
<1> QED BY <1>1, SlotsInitially, SlotsStepKeeps, StepsUsePool, PTL DEF Spec, SlotsSpec

----------------------------------------------------------------------------
(* Why a server draft is earned.  What is recorded of an attempt is read   *)
(* off its own call, and a call is marked when the provider gets it.       *)
Typed ==
  /\ pc \in [Turns -> Attempts \cup {"observe", "settle", "gate", "done"}]
  /\ reached \in [Turns -> SUBSET Attempts] /\ heard \in [Turns -> SUBSET Attempts]
  /\ decision \in [Turns -> Decisions] /\ attempts \in [Turns -> Nat]
  /\ stage \in [Calls -> Stages] /\ reply \in [Calls -> Replies \cup {"none"}]
  /\ WaitInv

(* An answer is kept only while somebody waits for it. *)
NoStrayAnswer == \A c \in Calls : reply[c] # "none" => Awaited(c)

HeardOf(t) ==
  \A a \in Attempts :
    Awaits(t, a) /\ (Invoked(call[t]) \/ reply[call[t]] # "none") => a \in heard[t]

Earned(t) ==
  /\ decision[t].by = "recovery" => {"full", "lite"} \subseteq heard[t]
  /\ decision[t].by = "contract" => "full" \in heard[t]

TurnInv(t) ==
  /\ reached[t] \subseteq heard[t]
  /\ pc[t] \notin Attempts => call[t] = NoCall
  /\ HeardOf(t)
  /\ pc[t] = "repair" => "full" \in heard[t]
  /\ Earned(t)
  /\ attempts[t] = 0 \/ (attempts[t] = 1 /\ pc[t] = "done")

LoopInv == Typed /\ NoStrayAnswer /\ \A t \in Turns : TurnInv(t)

localVars(t) == <<pc[t], call[t], reached[t], heard[t], decision[t], attempts[t]>>

(* A turn is not disturbed by what happens to calls of others, nor by its  *)
(* own call ending.                                                        *)
LEMMA Undisturbed ==
  ASSUME NEW t \in Turns, TurnInv(t), UNCHANGED localVars(t),
         call[t] # NoCall => /\ Invoked(call[t])' => Invoked(call[t])
                             /\ reply'[call[t]] # "none" => reply[call[t]] # "none" \/ Invoked(call[t])
  PROVE  TurnInv(t)'
<1>1. HeardOf(t)'
  BY DEF TurnInv, HeardOf, Awaits, localVars, Invoked
<1>2. Earned(t)'
  BY DEF TurnInv, Earned, localVars
<1> QED BY <1>1, <1>2 DEF TurnInv, localVars

LEMMA LoopInit == Init => LoopInv
<1> SUFFICES ASSUME Init PROVE LoopInv
  OBVIOUS
<1>1. NoDecision \in Decisions
  BY DEF NoDecision, Decisions, Actions
<1>2. Typed
  BY <1>1 DEF Init, SlotsInit, Typed, WaitInv, Waiters, Stages
<1>3. NoStrayAnswer
  BY DEF Init, SlotsInit, NoStrayAnswer
<1>4. \A t \in Turns : TurnInv(t)
  BY DEF Init, TurnInv, HeardOf, Awaits, Earned, NoDecision, Attempts
<1> QED BY <1>2, <1>3, <1>4 DEF LoopInv

(* The pool. *)
LEMMA PoolStepKeepsLoop ==
  ASSUME LoopInv, PoolStep
  PROVE  LoopInv'
<1> USE DEF LoopInv
<1>1. CASE StartWork
  <2>1. PICK h : stage[h] = "queued" /\ stage' = [stage EXCEPT ![h] = "started"]
    BY <1>1 DEF StartWork, TakeUp
  <2>2. UNCHANGED <<turnVars, reply>>
    BY <1>1 DEF StartWork, TakeUp
  <2>3. Typed'
    BY <2>1, <2>2 DEF Typed, Stages, turnVars, decideVars, loopVars, WaitInv
  <2>4. NoStrayAnswer'
    BY <2>2 DEF NoStrayAnswer, Awaited, turnVars
  <2>5. ASSUME NEW t \in Turns PROVE TurnInv(t)'
    <3>1. call[t] # NoCall => (Invoked(call[t])' => Invoked(call[t]))
      BY <2>1, <2>2 DEF Invoked, Typed, WaitInv, Waiters, turnVars
    <3> QED BY <2>2, <3>1, Undisturbed DEF localVars, turnVars, decideVars, loopVars
  <2> QED BY <2>3, <2>4, <2>5
<1>2. ASSUME NEW c \in Calls, ReachProvider(c) PROVE LoopInv'
  <2>1. /\ stage[c] = "started" /\ stage' = [stage EXCEPT ![c] = "asked"]
        /\ UNCHANGED <<reply, pc, call, reached, decision, attempts>>
        /\ heard' = [t \in Turns |-> heard[t] \cup {a \in Attempts : call[t] = c /\ Awaits(t, a)}]
    BY <1>2 DEF ReachProvider, AskProvider, loopVars
  <2>2. Typed'
    BY <2>1 DEF Typed, Stages, WaitInv
  <2>3. NoStrayAnswer'
    BY <2>1 DEF NoStrayAnswer, Awaited
  <2>4. ASSUME NEW t \in Turns PROVE TurnInv(t)'
    <3>1. heard[t] \subseteq heard'[t]
      BY <2>1
    <3>2. HeardOf(t)'
      <4> SUFFICES ASSUME NEW a \in Attempts, Awaits(t, a)',
                          Invoked(call[t])' \/ reply'[call[t]'] # "none"
                   PROVE  a \in heard'[t]
        BY <2>1 DEF HeardOf
      <4>1. Awaits(t, a) /\ call[t] \in Calls
        BY <2>1 DEF Awaits, Typed, WaitInv, Waiters
      <4>2. CASE call[t] = c
        BY <2>1, <4>1, <4>2
      <4>3. CASE call[t] # c
        <5>1. Invoked(call[t]) \/ reply[call[t]] # "none"
          BY <2>1, <4>1, <4>3 DEF Invoked, Typed
        <5> QED BY <3>1, <4>1, <5>1 DEF TurnInv, HeardOf
      <4> QED BY <4>2, <4>3
    <3>3. Earned(t)'
      BY <2>1, <3>1 DEF TurnInv, Earned
    <3> QED BY <2>1, <3>1, <3>2, <3>3 DEF TurnInv
  <2> QED BY <2>2, <2>3, <2>4
<1>3. ASSUME NEW c \in Calls, Answer(c) PROVE LoopInv'
  <2>1. PICK r \in Replies \cup {"none"} :
          /\ stage[c] = "asked" /\ stage' = [stage EXCEPT ![c] = "answered"]
          /\ reply' = [reply EXCEPT ![c] = r] /\ (r # "none" => Awaited(c))
          /\ UNCHANGED turnVars
    BY <1>3 DEF Answer, ProviderAnswers
  <2>2. Typed'
    BY <2>1 DEF Typed, Stages, turnVars, decideVars, loopVars, WaitInv
  <2>3. NoStrayAnswer'
    BY <2>1 DEF NoStrayAnswer, Awaited, turnVars, Typed
  <2>4. ASSUME NEW t \in Turns PROVE TurnInv(t)'
    <3>1. call[t] # NoCall => /\ Invoked(call[t])' => Invoked(call[t])
                              /\ reply'[call[t]] # "none" => reply[call[t]] # "none" \/ Invoked(call[t])
      BY <2>1 DEF Invoked, Typed, WaitInv, Waiters, turnVars
    <3> QED BY <2>1, <3>1, Undisturbed DEF localVars, turnVars, decideVars, loopVars
  <2> QED BY <2>2, <2>3, <2>4
<1>4. ASSUME NEW c \in Calls, FinishCall(c) PROVE LoopInv'
  <2>1. /\ stage' = [stage EXCEPT ![c] = "idle"] /\ UNCHANGED <<turnVars, reply>>
    BY <1>4 DEF FinishCall, ReleaseSlot
  <2>2. Typed'
    BY <2>1 DEF Typed, Stages, turnVars, decideVars, loopVars, WaitInv
  <2>3. NoStrayAnswer'
    BY <2>1 DEF NoStrayAnswer, Awaited, turnVars
  <2>4. ASSUME NEW t \in Turns PROVE TurnInv(t)'
    <3>1. call[t] # NoCall => (Invoked(call[t])' => Invoked(call[t]))
      BY <2>1 DEF Invoked, Typed, WaitInv, Waiters, turnVars
    <3> QED BY <2>1, <3>1, Undisturbed DEF localVars, turnVars, decideVars, loopVars
  <2> QED BY <2>2, <2>3, <2>4
<1> QED BY <1>1, <1>2, <1>3, <1>4 DEF PoolStep

(* What one waiter does to its call changes nothing for the others. *)
OthersSafe(w) ==
  \A t \in Turns \ {w} :
    /\ call'[t] = call[t]
    /\ call[t] # NoCall => /\ Invoked(call[t])' => Invoked(call[t])
                           /\ reply'[call[t]] # "none" => reply[call[t]] # "none" \/ Invoked(call[t])

CallsTyped ==
  /\ stage \in [Calls -> Stages] /\ reply \in [Calls -> Replies \cup {"none"}]
  /\ WaitInv

LEMMA CallEnds ==
  ASSUME CallsTyped, NoStrayAnswer, NEW w \in Waiters, call[w] # NoCall,
         \/ GiveUp(call[w]) /\ reply[call[w]] = "none"
         \/ Forget(call[w]),
         call' = [call EXCEPT ![w] = NoCall]
  PROVE  CallsTyped' /\ NoStrayAnswer' /\ OthersSafe(w) /\ call'[w] = NoCall
<1>1. PICK c \in Calls : c = call[w]
  BY DEF CallsTyped, WaitInv
<1>2. WaitInv' /\ call'[w] = NoCall /\ \A v \in Waiters \ {w} : call'[v] = call[v]
  BY DEF CallsTyped, WaitInv
<1>3. /\ stage' \in [Calls -> Stages] /\ reply' \in [Calls -> Replies \cup {"none"}]
      /\ reply'[c] = "none" /\ \A d \in Calls \ {c} : stage'[d] = stage[d] /\ reply'[d] = reply[d]
      /\ Invoked(c)' => Invoked(c)
  <2>1. CASE GiveUp(c) /\ reply[c] = "none"
    BY <1>1, <2>1 DEF GiveUp, CallsTyped, Stages, Invoked, slotVars
  <2>2. CASE Forget(c)
    BY <1>1, <2>2 DEF Forget, CallsTyped, Invoked
  <2> QED BY <1>1, <2>1, <2>2
<1>4. NoStrayAnswer'
  <2> SUFFICES ASSUME NEW d \in Calls, reply'[d] # "none" PROVE Awaited(d)'
    BY DEF NoStrayAnswer
  <2>1. d # c /\ Awaited(d)
    BY <1>3 DEF NoStrayAnswer
  <2>2. PICK v \in Waiters : call[v] = d
    BY <2>1 DEF Awaited, Waiters
  <2>3. call'[v] = d
    BY <1>1, <1>2, <2>1, <2>2
  <2> QED BY <2>3 DEF Awaited, Waiters
<1>5. OthersSafe(w)
  <2> SUFFICES ASSUME NEW t \in Turns \ {w}, call[t] # NoCall
               PROVE  /\ Invoked(call[t])' => Invoked(call[t])
                      /\ reply'[call[t]] # "none" => reply[call[t]] # "none"
    BY <1>2 DEF OthersSafe, Waiters
  <2>1. call[t] \in Calls /\ call'[t] = call[t]
    BY <1>2 DEF CallsTyped, WaitInv, Waiters
  <2>2. CASE call[t] = c
    BY <1>3, <2>1, <2>2 DEF Invoked
  <2>3. CASE call[t] # c
    BY <1>3, <2>1, <2>3 DEF Invoked
  <2> QED BY <2>2, <2>3
<1> QED BY <1>2, <1>3, <1>4, <1>5 DEF CallsTyped

LEMMA CallStarts ==
  ASSUME CallsTyped, NoStrayAnswer, NEW w \in Waiters, call[w] = NoCall, SubmitCall(w)
  PROVE  /\ CallsTyped' /\ NoStrayAnswer' /\ OthersSafe(w)
         /\ ~Invoked(call[w])' /\ reply'[call'[w]] = "none"
<1>1. PICK c \in Unused : Submit(c) /\ call' = [call EXCEPT ![w] = c]
  BY SubmitsUnused
<1>2. c \in Calls /\ stage[c] = "idle" /\ \A v \in Waiters : call[v] # c
  BY DEF Unused, Awaited, Waiters
<1>3. /\ WaitInv' /\ call'[w] = c
      /\ \A v \in Waiters \ {w} : call'[v] = call[v]
  BY <1>1, <1>2 DEF CallsTyped, WaitInv
<1>4. /\ stage' = [stage EXCEPT ![c] = "queued"] /\ reply' = reply
      /\ stage' \in [Calls -> Stages] /\ stage'[c] = "queued"
  BY <1>1, <1>2 DEF Submit, CallsTyped, Stages
<1>5. reply[c] = "none"
  BY <1>2 DEF NoStrayAnswer, Awaited, Waiters
<1>6. NoStrayAnswer'
  <2> SUFFICES ASSUME NEW d \in Calls, reply[d] # "none" PROVE Awaited(d)'
    BY <1>4 DEF NoStrayAnswer
  <2>1. PICK v \in Waiters : call[v] = d
    BY DEF NoStrayAnswer, Awaited, Waiters
  <2>2. v # w
    BY <2>1, ControlConstants
  <2>3. call'[v] = d
    BY <1>3, <2>1, <2>2
  <2> QED BY <2>3 DEF Awaited, Waiters
<1>7. OthersSafe(w)
  <2> SUFFICES ASSUME NEW t \in Turns \ {w}, call[t] # NoCall
               PROVE  /\ Invoked(call[t])' => Invoked(call[t])
                      /\ reply'[call[t]] # "none" => reply[call[t]] # "none"
    BY <1>3 DEF OthersSafe, Waiters
  <2>1. call[t] \in Calls /\ call[t] # c /\ call'[t] = call[t]
    BY <1>2, <1>3 DEF CallsTyped, WaitInv, Waiters
  <2> QED BY <1>4, <2>1 DEF Invoked, CallsTyped
<1> QED BY <1>3, <1>4, <1>5, <1>6, <1>7 DEF CallsTyped, Invoked

(* A message's call leaves every turn as it was. *)
LEMMA MessageKeepsLoop ==
  ASSUME LoopInv, NEW m \in Messages, Classify(m) \/ Classified(m)
  PROVE  LoopInv'
<1>1. UNCHANGED <<pc, decideVars, loopVars>>
  BY DEF Classify, Classified
<1>2. CallsTyped /\ m \in Waiters /\ m \notin Turns
  BY ControlConstants DEF LoopInv, Typed, CallsTyped, Waiters
<1>3. CallsTyped' /\ NoStrayAnswer' /\ OthersSafe(m)
  <2>1. CASE Classify(m)
    BY <1>2, <2>1, CallStarts DEF Classify, LoopInv
  <2>2. CASE Classified(m)
    BY <1>2, <2>2, CallEnds DEF Classified, LoopInv
  <2> QED BY <2>1, <2>2
<1>4. ASSUME NEW t \in Turns PROVE TurnInv(t)'
  <2>1. t \in Turns \ {m} /\ TurnInv(t)
    BY <1>2 DEF LoopInv
  <2>2. UNCHANGED localVars(t)
    BY <1>1, <1>3, <2>1 DEF localVars, OthersSafe, decideVars, loopVars
  <2> QED BY <1>3, <2>1, <2>2, Undisturbed DEF OthersSafe
<1> QED BY <1>1, <1>3, <1>4 DEF LoopInv, Typed, CallsTyped, decideVars, loopVars

----------------------------------------------------------------------------
(* The steps of a turn.  They touch its own locals and its own call. *)
OthersLocals(t) ==
  \A u \in Turns \ {t} :
    /\ pc'[u] = pc[u] /\ reached'[u] = reached[u] /\ heard'[u] = heard[u]
    /\ decision'[u] = decision[u] /\ attempts'[u] = attempts[u]

LocalsTyped ==
  /\ pc \in [Turns -> Attempts \cup {"observe", "settle", "gate", "done"}]
  /\ reached \in [Turns -> SUBSET Attempts] /\ heard \in [Turns -> SUBSET Attempts]
  /\ decision \in [Turns -> Decisions] /\ attempts \in [Turns -> Nat]

LEMMA StepOfOne ==
  ASSUME LoopInv, NEW t \in Turns, LocalsTyped', CallsTyped', NoStrayAnswer',
         OthersSafe(t), OthersLocals(t), TurnInv(t)'
  PROVE  LoopInv'
<1>1. ASSUME NEW u \in Turns PROVE TurnInv(u)'
  <2>1. CASE u = t
    BY <2>1
  <2>2. CASE u # t
    <3>1. UNCHANGED localVars(u)
      BY <2>2 DEF OthersSafe, OthersLocals, localVars
    <3> QED BY <2>2, <3>1, Undisturbed DEF OthersSafe, LoopInv
  <2> QED BY <2>1, <2>2
<1> QED BY <1>1 DEF LoopInv, Typed, LocalsTyped, CallsTyped

LEMMA CallsStay ==
  ASSUME LoopInv, NEW t \in Turns, UNCHANGED <<slotVars, call>>
  PROVE  CallsTyped' /\ NoStrayAnswer' /\ OthersSafe(t)
BY DEF LoopInv, Typed, CallsTyped, WaitInv, NoStrayAnswer, Awaited, OthersSafe, slotVars, Invoked

(* A turn that is not waiting has nothing to hear of. *)
LEMMA Deaf ==
  ASSUME NEW t, call'[t] = NoCall
  PROVE  HeardOf(t)'
BY DEF HeardOf, Awaits

LEMMA Decided ==
  ASSUME LoopInv, NEW t \in Turns, NEW actions \in SUBSET Actions,
         NEW who \in {"model", "rules", "contract", "recovery"}, Decide(t, actions, who)
  PROVE  /\ pc' = [pc EXCEPT ![t] = "gate"] /\ decision'[t].by = who
         /\ decision' \in [Turns -> Decisions]
         /\ \A u \in Turns \ {t} : decision'[u] = decision[u]
<1>1. PICK act \in actions \cup {"rejected"} :
        decision' = [decision EXCEPT ![t] = [action |-> act, by |-> who]]
  BY DEF Decide
<1>2. [action |-> act, by |-> who] \in Decisions
  BY DEF Decisions, Actions
<1> QED BY <1>1, <1>2 DEF Decide, Goto, LoopInv, Typed

LEMMA ObserveKeeps ==
  ASSUME LoopInv, NEW t \in Turns, Observe(t)
  PROVE  LoopInv'
<1>1. /\ UNCHANGED <<slotVars, call, reached, heard, attempts>> /\ pc[t] = "observe"
      /\ call[t] = NoCall /\ attempts[t] = 0
  BY DEF Observe, loopVars, LoopInv, TurnInv, Attempts
<1>2. /\ pc' \in [Turns -> Attempts \cup {"observe", "settle", "gate", "done"}]
      /\ pc'[t] # "repair" /\ decision' \in [Turns -> Decisions]
      /\ decision'[t].by = "rules" \/ decision'[t] = decision[t]
      /\ \A u \in Turns \ {t} : pc'[u] = pc[u] /\ decision'[u] = decision[u]
  <2>1. CASE (\E l \in {"full", "done"} : Goto(t, l)) /\ UNCHANGED decision
    BY <2>1 DEF Goto, LoopInv, Typed, Attempts
  <2>2. CASE Decide(t, Actions, "rules")
    BY <2>2, Decided DEF LoopInv, Typed
  <2> QED BY <2>1, <2>2 DEF Observe
<1>3. TurnInv(t)'
  BY <1>1, <1>2, Deaf DEF TurnInv, Earned, LoopInv
<1>4. LocalsTyped' /\ OthersLocals(t)
  BY <1>1, <1>2 DEF LocalsTyped, OthersLocals, LoopInv, Typed
<1> QED BY <1>1, <1>3, <1>4, CallsStay, StepOfOne

LEMMA FailuresMove ==
  ASSUME LoopInv, NEW t \in Turns, NEW a, NEW class, AfterFailure(t, a, class)
  PROVE  /\ pc' \in [Turns -> Attempts \cup {"observe", "settle", "gate", "done"}]
         /\ pc'[t] \in {"lite", "settle"} /\ \A u \in Turns \ {t} : pc'[u] = pc[u]
BY DEF AfterFailure, Goto, LoopInv, Typed, Attempts

LEMMA CannotCallKeeps ==
  ASSUME LoopInv, NEW t \in Turns, NEW a \in Attempts, CannotCall(t, a)
  PROVE  LoopInv'
<1>1. /\ UNCHANGED <<slotVars, call, reached, heard, decision, attempts>>
      /\ pc[t] \in Attempts /\ call[t] = NoCall /\ attempts[t] = 0
  BY DEF CannotCall, MayCall, loopVars, LoopInv, TurnInv, Attempts
<1>2. /\ pc' \in [Turns -> Attempts \cup {"observe", "settle", "gate", "done"}]
      /\ pc'[t] \in {"lite", "settle"} /\ \A u \in Turns \ {t} : pc'[u] = pc[u]
  BY FailuresMove DEF CannotCall
<1>3. TurnInv(t)'
  BY <1>1, <1>2, Deaf DEF TurnInv, Earned, LoopInv
<1>4. LocalsTyped' /\ OthersLocals(t)
  BY <1>1, <1>2 DEF LocalsTyped, OthersLocals, LoopInv, Typed
<1> QED BY <1>1, <1>3, <1>4, CallsStay, StepOfOne

LEMMA SettleKeeps ==
  ASSUME LoopInv, NEW t \in Turns, Recover(t) \/ FailClosed(t)
  PROVE  LoopInv'
<1>1. /\ UNCHANGED <<slotVars, call, reached, heard, attempts>> /\ pc[t] = "settle"
      /\ call[t] = NoCall /\ attempts[t] = 0
  BY DEF Recover, FailClosed, loopVars, LoopInv, TurnInv, Attempts
<1>2. /\ pc' = [pc EXCEPT ![t] = "gate"] /\ decision' \in [Turns -> Decisions]
      /\ \/ decision'[t].by = "rules"
         \/ decision'[t].by = "recovery" /\ {"full", "lite"} \subseteq reached[t]
      /\ \A u \in Turns \ {t} : decision'[u] = decision[u]
  <2>1. CASE Recover(t)
    <3>1. Decide(t, {"draft"}, "recovery") /\ {"full", "lite"} \subseteq reached[t]
      BY <2>1 DEF Recover
    <3> QED BY <3>1, Decided DEF Actions
  <2>2. CASE FailClosed(t)
    BY <2>2, Decided DEF FailClosed
  <2> QED BY <2>1, <2>2
<1>3. pc' \in [Turns -> Attempts \cup {"observe", "settle", "gate", "done"}] /\ pc'[t] = "gate"
  BY <1>2 DEF LoopInv, Typed
<1>4. TurnInv(t)'
  BY <1>1, <1>2, <1>3, Deaf DEF TurnInv, Earned, LoopInv
<1>5. LocalsTyped' /\ OthersLocals(t)
  BY <1>1, <1>2, <1>3 DEF LocalsTyped, OthersLocals, LoopInv, Typed
<1> QED BY <1>1, <1>4, <1>5, CallsStay, StepOfOne

LEMMA StopKeeps ==
  ASSUME LoopInv, NEW t \in Turns, Stop(t)
  PROVE  LoopInv'
<1>1. /\ UNCHANGED <<slotVars, call, reached, heard, decision, attempts>>
      /\ pc[t] = "gate" /\ call[t] = NoCall /\ pc' = [pc EXCEPT ![t] = "done"]
  BY DEF Stop, Goto, decideVars, loopVars, LoopInv, TurnInv, Attempts
<1>2. pc' \in [Turns -> Attempts \cup {"observe", "settle", "gate", "done"}] /\ pc'[t] = "done"
  BY <1>1 DEF LoopInv, Typed
<1>3. TurnInv(t)'
  BY <1>1, <1>2, Deaf DEF TurnInv, Earned, LoopInv
<1>4. LocalsTyped' /\ OthersLocals(t)
  BY <1>1, <1>2 DEF LocalsTyped, OthersLocals, LoopInv, Typed
<1> QED BY <1>1, <1>3, <1>4, CallsStay, StepOfOne

(* A cycle begins with nothing heard and nothing decided, and a persisted  *)
(* planning attempt is the end of its turn.                                *)
LEMMA ExecuteKeeps ==
  ASSUME LoopInv, NEW t \in Turns, Execute(t)
  PROVE  LoopInv'
<1>1. /\ UNCHANGED <<slotVars, call>> /\ call[t] = NoCall /\ attempts[t] = 0
  BY DEF Execute, LoopInv, TurnInv, Attempts
<1>2. PICK checkpoint \in BOOLEAN, more \in BOOLEAN :
        /\ Proceed(t, more)
        /\ attempts' = [attempts EXCEPT ![t] = IF checkpoint THEN @ + 1 ELSE @]
        /\ checkpoint => ~more
  <2>1. PICK changed \in BOOLEAN, checkpoint \in BOOLEAN, safe \in BOOLEAN :
          LET o == [action |-> decision[t].action, changed |-> changed, checkpoint |-> checkpoint] IN
            /\ attempts' = [attempts EXCEPT ![t] = IF checkpoint THEN @ + 1 ELSE @]
            /\ Proceed(t, safe /\ ~Ends(decision[t].action, o))
    BY DEF Execute
  <2> DEFINE o == [action |-> decision[t].action, changed |-> changed, checkpoint |-> checkpoint]
             more == safe /\ ~Ends(decision[t].action, o)
  <2>2. more \in BOOLEAN /\ (checkpoint => ~more)
    BY DEF Ends
  <2> QED BY <2>1, <2>2
<1>3. /\ pc' \in [Turns -> Attempts \cup {"observe", "settle", "gate", "done"}]
      /\ pc'[t] \in {"observe", "done"} /\ (~more => pc'[t] = "done")
      /\ reached' = [reached EXCEPT ![t] = {}] /\ heard' = [heard EXCEPT ![t] = {}]
      /\ decision' = [decision EXCEPT ![t] = NoDecision]
      /\ \A u \in Turns \ {t} : pc'[u] = pc[u]
  BY <1>2 DEF Proceed, Goto, LoopInv, Typed
<1>4. NoDecision \in Decisions /\ NoDecision.by = "rules"
  BY DEF NoDecision, Decisions, Actions
<1>5. attempts'[t] = 0 \/ (attempts'[t] = 1 /\ pc'[t] = "done")
  BY <1>1, <1>2, <1>3 DEF LoopInv, Typed
<1>6. TurnInv(t)'
  <2>1. reached'[t] = {} /\ heard'[t] = {} /\ decision'[t] = NoDecision
    BY <1>3 DEF LoopInv, Typed
  <2> QED BY <1>1, <1>3, <1>4, <1>5, <2>1, Deaf DEF TurnInv, Earned, Attempts
<1>7. LocalsTyped' /\ OthersLocals(t)
  BY <1>2, <1>3, <1>4 DEF LocalsTyped, OthersLocals, LoopInv, Typed
<1> QED BY <1>1, <1>6, <1>7, CallsStay, StepOfOne

LEMMA StartCallKeeps ==
  ASSUME LoopInv, NEW t \in Turns, NEW a \in Attempts, StartCall(t, a)
  PROVE  LoopInv'
<1>1. /\ UNCHANGED <<pc, reached, heard, decision, attempts>>
      /\ pc[t] = a /\ call[t] = NoCall
  BY DEF StartCall, MayCall, decideVars, loopVars
<1>2. /\ CallsTyped' /\ NoStrayAnswer' /\ OthersSafe(t)
      /\ ~Invoked(call[t])' /\ reply'[call'[t]] = "none"
  BY <1>1, CallStarts DEF StartCall, CallsTyped, LoopInv, Typed, Waiters
<1>3. HeardOf(t)'
  BY <1>2 DEF HeardOf
<1>4. TurnInv(t)'
  BY <1>1, <1>3 DEF TurnInv, Earned, LoopInv
<1>5. LocalsTyped' /\ OthersLocals(t)
  BY <1>1 DEF LocalsTyped, OthersLocals, LoopInv, Typed
<1> QED BY <1>2, <1>4, <1>5, StepOfOne

LEMMA DeadlineKeeps ==
  ASSUME LoopInv, NEW t \in Turns, NEW a \in Attempts, Deadline(t, a)
  PROVE  LoopInv'
<1>1. /\ UNCHANGED <<heard, decision, attempts>> /\ Awaits(t, a)
      /\ reached' = [reached EXCEPT ![t] = IF Invoked(call[t]) THEN @ \cup {a} ELSE @]
      /\ call[t] # NoCall /\ attempts[t] = 0
  BY DEF Deadline, Awaits, loopVars, LoopInv, TurnInv, Attempts
<1>2. CallsTyped' /\ NoStrayAnswer' /\ OthersSafe(t) /\ call'[t] = NoCall
  BY CallEnds DEF Deadline, Awaits, CallsTyped, LoopInv, Typed, Waiters
<1>3. /\ pc' \in [Turns -> Attempts \cup {"observe", "settle", "gate", "done"}]
      /\ pc'[t] \in {"lite", "settle"} /\ \A u \in Turns \ {t} : pc'[u] = pc[u]
  BY FailuresMove DEF Deadline
<1>4. reached'[t] \subseteq heard[t]
  BY <1>1 DEF LoopInv, Typed, TurnInv, HeardOf
<1>5. TurnInv(t)'
  BY <1>1, <1>2, <1>3, <1>4, Deaf DEF TurnInv, Earned, LoopInv
<1>6. LocalsTyped' /\ OthersLocals(t)
  BY <1>1, <1>3 DEF LocalsTyped, OthersLocals, LoopInv, Typed
<1> QED BY <1>2, <1>5, <1>6, StepOfOne

(* Whoever receives an answer was heard. *)
LEMMA Received ==
  ASSUME LoopInv, NEW t \in Turns, NEW a \in Attempts, NEW replies \in SUBSET Replies,
         Receive(t, a, replies)
  PROVE  /\ CallsTyped' /\ NoStrayAnswer' /\ OthersSafe(t) /\ call'[t] = NoCall
         /\ UNCHANGED <<heard, attempts>> /\ pc[t] = a /\ attempts[t] = 0
         /\ a \in heard[t] /\ reached'[t] \subseteq heard[t]
         /\ reached' = [reached EXCEPT ![t] = @ \cup {a}]
<1>1. Awaits(t, a) /\ reply[call[t]] # "none" /\ call[t] # NoCall
  BY DEF Receive, Awaits, Replies
<1>2. CallsTyped' /\ NoStrayAnswer' /\ OthersSafe(t) /\ call'[t] = NoCall
  BY <1>1, CallEnds DEF Receive, CallsTyped, LoopInv, Typed, Waiters
<1>3. a \in heard[t]
  BY <1>1 DEF LoopInv, TurnInv, HeardOf
<1>4. reached' = [reached EXCEPT ![t] = @ \cup {a}] /\ UNCHANGED <<heard, attempts>>
  BY DEF Receive, loopVars
<1>5. pc[t] = a /\ attempts[t] = 0
  BY <1>1 DEF Awaits, LoopInv, TurnInv, Attempts
<1> QED BY <1>2, <1>3, <1>4, <1>5 DEF LoopInv, Typed, TurnInv

(* So it may ask again, decide or fail. *)
LEMMA ReceivedKeeps ==
  ASSUME LoopInv, NEW t \in Turns, NEW a \in Attempts, NEW replies \in SUBSET Replies,
         Receive(t, a, replies),
         pc' \in [Turns -> Attempts \cup {"observe", "settle", "gate", "done"}],
         pc'[t] = "repair" => a = "full",
         decision' \in [Turns -> Decisions],
         \/ decision'[t] = decision[t]
         \/ decision'[t].by = "model"
         \/ decision'[t].by = "contract" /\ a \in {"full", "repair"},
         \A u \in Turns \ {t} : pc'[u] = pc[u] /\ decision'[u] = decision[u]
  PROVE  LoopInv'
<1>1. /\ CallsTyped' /\ NoStrayAnswer' /\ OthersSafe(t) /\ call'[t] = NoCall
      /\ UNCHANGED <<heard, attempts>> /\ pc[t] = a /\ attempts[t] = 0
      /\ a \in heard[t] /\ reached'[t] \subseteq heard[t]
      /\ reached' = [reached EXCEPT ![t] = @ \cup {a}]
  BY Received
<1>2. Earned(t)'
  BY <1>1 DEF LoopInv, TurnInv, Earned
<1>3. TurnInv(t)'
  BY <1>1, <1>2, Deaf DEF TurnInv, LoopInv
<1>4. LocalsTyped' /\ OthersLocals(t)
  BY <1>1 DEF LocalsTyped, OthersLocals, LoopInv, Typed
<1> QED BY <1>1, <1>3, <1>4, StepOfOne

LEMMA AnswersKeep ==
  ASSUME LoopInv, NEW t \in Turns,
         \/ AskAgain(t) \/ GiveUpOn(t)
         \/ \E a \in Attempts : Understand(t, a) \/ DraftFromContract(t, a) \/ Reject(t, a)
  PROVE  LoopInv'
<1> USE DEF Attempts, Replies
<1>1. CASE AskAgain(t)
  <2>1. /\ Receive(t, "full", {"truncated", "invalid"}) /\ UNCHANGED decision
        /\ pc' = [pc EXCEPT ![t] = "repair"]
    BY <1>1 DEF AskAgain, Goto
  <2> QED BY <2>1, ReceivedKeeps DEF LoopInv, Typed
<1>2. CASE GiveUpOn(t)
  <2>1. PICK replies \in SUBSET Replies : Receive(t, "full", replies)
    BY <1>2 DEF GiveUpOn
  <2>2. UNCHANGED decision /\ \E l \in {"lite", "settle"} : pc' = [pc EXCEPT ![t] = l]
    BY <1>2 DEF GiveUpOn, AfterFailure, Goto
  <2> QED BY <2>1, <2>2, ReceivedKeeps DEF LoopInv, Typed
<1>3. ASSUME NEW a \in Attempts, Understand(t, a) PROVE LoopInv'
  <2>1. Receive(t, a, {"valid"}) /\ Decide(t, Actions, "model")
    BY <1>3 DEF Understand
  <2> QED BY <2>1, Decided, ReceivedKeeps DEF LoopInv, Typed
<1>4. ASSUME NEW a \in Attempts, DraftFromContract(t, a) PROVE LoopInv'
  <2>1. PICK replies \in SUBSET Replies : Receive(t, a, replies) /\ a \in {"full", "repair"}
    BY <1>4 DEF DraftFromContract
  <2>2. Decide(t, {"draft"}, "contract") /\ {"draft"} \in SUBSET Actions
    BY <1>4 DEF DraftFromContract, Actions
  <2> QED BY <2>1, <2>2, Decided, ReceivedKeeps DEF LoopInv, Typed
<1>5. ASSUME NEW a \in Attempts, Reject(t, a) PROVE LoopInv'
  <2>1. PICK replies \in SUBSET Replies, class \in Failures : Receive(t, a, replies) /\ AfterFailure(t, a, class)
    BY <1>5 DEF Reject, Failures
  <2>2. UNCHANGED decision
    BY <1>5 DEF Reject
  <2> QED BY <2>1, <2>2, FailuresMove, ReceivedKeeps DEF LoopInv, Typed
<1> QED BY <1>1, <1>2, <1>3, <1>4, <1>5

LEMMA LoopStep == LoopInv /\ [Next]_vars => LoopInv'
<1> SUFFICES ASSUME LoopInv, [Next]_vars PROVE LoopInv'
  OBVIOUS
<1>1. ASSUME NEW t \in Turns, TurnStep(t) PROVE LoopInv'
  BY <1>1, ObserveKeeps, AnswersKeep, SettleKeeps, StopKeeps, ExecuteKeeps, CannotCallKeeps,
     StartCallKeeps, DeadlineKeeps DEF TurnStep
<1>2. CASE UNCHANGED vars
  BY <1>2 DEF vars, turnVars, slotVars, decideVars, loopVars, LoopInv, Typed, WaitInv, NoStrayAnswer,
              Awaited, TurnInv, HeardOf, Awaits, Invoked, Earned
<1> QED BY <1>1, <1>2, MessageKeepsLoop, PoolStepKeepsLoop DEF Next

(* However the pool is loaded and whenever calls time out, a plan the      *)
(* server drafts because the controller failed follows two prompts the     *)
(* provider really had.                                                    *)
THEOREM ServerDraftFollowsPrompts == Spec => []ServerDraftIsEarned
<1>1. LoopInv => ServerDraftIsEarned
  BY DEF LoopInv, TurnInv, Earned, ServerDraftIsEarned
<1> QED BY <1>1, LoopInit, LoopStep, PTL DEF Spec

(* A turn persists at most one planning attempt, for any bound on cycles.  *)
THEOREM OneAttemptPerTurn == Spec => []OnePlanningAttempt
<1>1. LoopInv => OnePlanningAttempt
  BY DEF LoopInv, Typed, TurnInv, OnePlanningAttempt
<1> QED BY <1>1, LoopInit, LoopStep, PTL DEF Spec
=============================================================================
