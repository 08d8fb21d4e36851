---------------------------- MODULE TurnControl ----------------------------
(***************************************************************************)
(* The control loop of a turn (AgentTurnCoordinator.run) and the decision  *)
(* at the head of each of its cycles (AgentAutonomyController.decide).     *)
(* The turns are those of different sessions: they meet only in the slots  *)
(* of the controller's pool, and meet there the messages whose intent is   *)
(* being classified by the same pool (classify_conversation_intent).       *)
(*                                                                         *)
(* What a decision contains is open, and so is whether the server may      *)
(* draft by itself (_authoritative_server_draft_allowed).  An expired      *)
(* budget is a choice at every point where the code compares a deadline.   *)
(***************************************************************************)
EXTENDS DecisionSlots

CONSTANTS
  Turns,       \* turns under the control loop
  Messages,    \* messages being classified, one after the other without end
  MaxCycles,   \* max_cycles of run
  MaxWrites,   \* max_writes of run
  NoCall

ASSUME ControlConstants ==
  /\ NoCall \notin Calls /\ Turns \cap Messages = {}
  /\ MaxCycles \in Nat \ {0} /\ MaxWrites \in Nat \ {0}

VARIABLES
  pc,          \* where the turn is
  cycle,       \* cycle_index
  call,        \* the future a turn, or a message, waits for
  failed,      \* controller_failures of this decision: attempt -> class
  reached,     \* attempts of this decision recorded with providerInvoked
  heard,       \* history: attempts of this decision the provider received
  decision,    \* the decision of this cycle
  writes,      \* writes_used
  last,        \* what the previous cycle did
  attempts     \* history: planning attempts the turn persisted

decideVars == <<failed, reached, heard, decision>>
loopVars == <<cycle, writes, last, attempts>>
turnVars == <<pc, call, decideVars, loopVars>>
vars == <<slotVars, turnVars>>

Attempts == {"full", "repair", "lite"}

(* Actions by what the loop does with them: "patch" writes as optimize     *)
(* does, "read" looks something up, "answer" asks the user or finishes,    *)
(* "rejected" is any action the policy gate refused.                       *)
Actions == {"draft", "patch", "read", "answer", "rejected"}
WriteActions == {"draft", "patch"}

(* The class of a failed attempt: one from which the server may draft (a   *)
(* timeout, an answer that cannot be used), or another.                    *)
Failures == {"none", "recoverable", "other"}
NoFailure == [a \in Attempts |-> "none"]

Decisions == [action : Actions, by : {"model", "rules", "contract", "recovery"}]
NoDecision == [action |-> "rejected", by |-> "rules"]
Nothing == [action |-> "none", changed |-> FALSE, checkpoint |-> FALSE]

Init ==
  /\ SlotsInit
  /\ pc = [t \in Turns |-> "observe"]
  /\ cycle = [t \in Turns |-> 0]
  /\ call = [t \in Turns \cup Messages |-> NoCall]
  /\ failed = [t \in Turns |-> NoFailure]
  /\ reached = [t \in Turns |-> {}]
  /\ heard = [t \in Turns |-> {}]
  /\ decision = [t \in Turns |-> NoDecision]
  /\ writes = [t \in Turns |-> 0]
  /\ last = [t \in Turns |-> Nothing]
  /\ attempts = [t \in Turns |-> 0]

Goto(t, l) == pc' = [pc EXCEPT ![t] = l]
MayCall(t, a) == pc[t] = a /\ call[t] = NoCall
Awaits(t, a) == pc[t] = a /\ call[t] # NoCall
Fail(t, a, class) == failed' = [failed EXCEPT ![t][a] = class]
Decide(t, actions, who) ==
  /\ \E act \in actions \cup {"rejected"} :
       decision' = [decision EXCEPT ![t] = [action |-> act, by |-> who]]
  /\ Goto(t, "gate")

(* The failure of a full prompt may be worth a lite one, in the time left: *)
(* if it is retryable or a partial plan may be expanded, and unless the    *)
(* itinerary that exists, or an answer that leaves a part of the request   *)
(* open, makes the controller fail closed.                                 *)
AfterFailure(t, a, class) ==
  /\ Fail(t, a, class)
  /\ \/ a = "full" /\ Goto(t, "lite")
     \/ Goto(t, "settle")

----------------------------------------------------------------------------
(* observe: the deadline of the run ends the turn, an intent, a retry or   *)
(* unresolved dates decide without a call, or the model is asked.          *)
Observe(t) ==
  /\ pc[t] = "observe"
  /\ \/ (\E l \in {"full", "done"} : Goto(t, l)) /\ UNCHANGED decision
     \/ Decide(t, Actions, "rules")
  /\ UNCHANGED <<slotVars, call, failed, reached, heard, loopVars>>

(* Slips for the mutation runs. *)
CannotCallUnlessFree(t, a) ==
  /\ MayCall(t, a) /\ free > 0
  /\ AfterFailure(t, a, "recoverable")
  /\ UNCHANGED <<slotVars, call, reached, heard, decision, loopVars>>

(* No time left, or no slot: a TimeoutError before anything is submitted.  *)
CannotCall(t, a) ==
  /\ MayCall(t, a)
  /\ AfterFailure(t, a, "recoverable")
  /\ UNCHANGED <<slotVars, call, reached, heard, decision, loopVars>>

Awaited(c) == \E w \in Turns \cup Messages : call[w] = c
Unused == {c \in Calls : stage[c] = "idle" /\ ~Awaited(c)}

SubmitCall(w) ==
  /\ Unused # {}
  /\ LET c == CHOOSE d \in Unused : TRUE IN
       Submit(c) /\ call' = [call EXCEPT ![w] = c]

StartCall(t, a) ==
  /\ MayCall(t, a)
  /\ SubmitCall(t)
  /\ UNCHANGED <<pc, decideVars, loopVars>>

(* invoke, in the worker *)
ReachProvider(c) ==
  /\ AskProvider(c)
  /\ heard' = [t \in Turns |->
                 heard[t] \cup {a \in Attempts : call[t] = c /\ Awaits(t, a)}]
  /\ UNCHANGED <<pc, call, failed, reached, decision, loopVars>>

Answer(c) ==
  /\ \E r \in Replies :
       ProviderAnswers(c, IF Awaited(c) THEN r ELSE "none")
  /\ UNCHANGED turnVars

FinishCall(c) == ReleaseSlot(c) /\ UNCHANGED turnVars
StartWork == TakeUp /\ UNCHANGED turnVars

(* _call_lite_provider for a message's intent *)
Classify(m) ==
  /\ call[m] = NoCall
  /\ SubmitCall(m)
  /\ UNCHANGED <<pc, decideVars, loopVars>>

Classified(m) ==
  /\ call[m] # NoCall
  /\ IF reply[call[m]] = "none" THEN GiveUp(call[m]) ELSE Forget(call[m])
  /\ call' = [call EXCEPT ![m] = NoCall]
  /\ UNCHANGED <<pc, decideVars, loopVars>>

(* future.result(timeout) runs out.  What is recorded of the attempt is    *)
(* read after the cancellation, while a running call goes on.              *)
Deadline(t, a) ==
  /\ Awaits(t, a) /\ reply[call[t]] = "none"
  /\ GiveUp(call[t])
  /\ reached' = [reached EXCEPT ![t] = IF Invoked(call[t]) THEN @ \cup {a} ELSE @]
  /\ call' = [call EXCEPT ![t] = NoCall]
  /\ AfterFailure(t, a, "recoverable")
  /\ UNCHANGED <<heard, decision, loopVars>>

(* The future has a result; its slot may not be back yet.                  *)
Receive(t, a, replies) ==
  /\ Awaits(t, a) /\ reply[call[t]] \in replies
  /\ Forget(call[t])
  /\ call' = [call EXCEPT ![t] = NoCall]
  /\ reached' = [reached EXCEPT ![t] = @ \cup {a}]
  /\ UNCHANGED <<heard, loopVars>>

Understand(t, a) ==
  /\ Receive(t, a, {"valid"})
  /\ Decide(t, Actions, "model")
  /\ UNCHANGED failed

AskAgain(t) ==
  /\ Receive(t, "full", {"truncated", "invalid"})
  /\ Goto(t, "repair")
  /\ UNCHANGED <<failed, decision>>

(* An answer that breaks the contract the server can draft from itself, or *)
(* a second prompt that outgrew its payload.                               *)
DraftFromContract(t, a) ==
  /\ \/ a # "lite" /\ Receive(t, a, {"invalid"})
     \/ a = "repair" /\ Receive(t, a, {"fatal"})
  /\ Decide(t, {"draft"}, "contract")
  /\ Fail(t, a, "recoverable")

(* A full answer is not asked for again when second prompts are configured *)
(* off (max_schema_repair_attempts), when no time is left for one, when it *)
(* leaves a part of the request open, or when its action cannot be told.   *)
(* The lite call may follow, but not where a second prompt was due for a   *)
(* truncated answer and only the time for it was missing: that counts as   *)
(* the attempt.                                                            *)
GiveUpOn(t) ==
  /\ \/ /\ Receive(t, "full", {"invalid"})
        /\ \E class \in {"recoverable", "other"} : AfterFailure(t, "full", class)
     \/ /\ Receive(t, "full", {"truncated"})
        /\ \/ AfterFailure(t, "full", "other")
           \/ Fail(t, "full", "recoverable") /\ Goto(t, "settle")
  /\ UNCHANGED decision

(* The failures of the provider, and of a second or short prompt.          *)
Reject(t, a) ==
  /\ \/ /\ a # "full" /\ Receive(t, a, {"invalid"})
        /\ AfterFailure(t, a, "recoverable")
     \/ /\ a # "full" /\ Receive(t, a, {"truncated"})
        /\ AfterFailure(t, a, "other")
     \/ /\ Receive(t, a, {"transient"})
        /\ \E class \in {"recoverable", "other"} : AfterFailure(t, a, class)
     \/ /\ Receive(t, a, {"fatal"})
        /\ AfterFailure(t, a, "other")
  /\ UNCHANGED decision

(* Slips for the mutation runs. *)
RecoverFromAnyTimeout(t) ==
  /\ pc[t] = "settle"
  /\ \A a \in {"full", "lite"} : failed[t][a] = "recoverable"
  /\ Decide(t, {"draft"}, "recovery")
  /\ UNCHANGED <<slotVars, call, failed, reached, heard, loopVars>>

(* The server drafts by itself when both prompts reached the provider and  *)
(* failed in a recoverable way.                                            *)
Recover(t) ==
  /\ pc[t] = "settle"
  /\ \A a \in {"full", "lite"} : failed[t][a] = "recoverable" /\ a \in reached[t]
  /\ Decide(t, {"draft"}, "recovery")
  /\ UNCHANGED <<slotVars, call, failed, reached, heard, loopVars>>

(* The arbitrator's decision, or the question of _controller_fail_closed.  *)
FailClosed(t) ==
  /\ pc[t] = "settle"
  /\ Decide(t, Actions \ {"patch"}, "rules")
  /\ UNCHANGED <<slotVars, call, failed, reached, heard, loopVars>>

----------------------------------------------------------------------------
(* The gates of run, in their order. *)
Repeats(t) == decision[t].action = last[t].action /\ ~last[t].changed
Replays(t) == decision[t].action = "draft" /\ last[t].checkpoint
Overwrites(t) == decision[t].action \in WriteActions /\ writes[t] >= MaxWrites

Stop(t) ==
  /\ pc[t] = "gate"
  /\ Repeats(t) \/ decision[t].action = "rejected" \/ Replays(t) \/ Overwrites(t)
  /\ Goto(t, "done")
  /\ UNCHANGED <<slotVars, call, decideVars, loopVars>>

(* The next cycle observes the reloaded state, if one is left.             *)
Proceed(t, more) ==
  /\ Goto(t, IF more /\ cycle[t] + 1 < MaxCycles THEN "observe" ELSE "done")
  /\ cycle' = [cycle EXCEPT ![t] = @ + 1]
  /\ failed' = [failed EXCEPT ![t] = NoFailure]
  /\ reached' = [reached EXCEPT ![t] = {}]
  /\ heard' = [heard EXCEPT ![t] = {}]
  /\ decision' = [decision EXCEPT ![t] = NoDecision]

(* Slips for the mutation runs. *)
EndsOnAnswerOnly(act, o) == act = "answer"

(* A question, an answer and a persisted planning attempt end the turn.    *)
Ends(act, o) == act = "answer" \/ o.checkpoint

(* registry.execute, reload_context.  The action may repeat the last one   *)
(* when the state it acts on differs.  A change may end the turn, as do    *)
(* failures, rollbacks and outcomes that are not safe to continue from.    *)
Execute(t) ==
  LET act == decision[t].action IN
  /\ pc[t] = "gate" /\ decision[t].action # "rejected" /\ ~Replays(t) /\ ~Overwrites(t)
  /\ \E changed, checkpoint, safe \in BOOLEAN :
       /\ changed => act \in WriteActions
       /\ checkpoint => act = "draft" /\ ~changed
       /\ LET o == [action |-> act, changed |-> changed, checkpoint |-> checkpoint] IN
            /\ last' = [last EXCEPT ![t] = o]
            /\ writes' = [writes EXCEPT ![t] = IF changed THEN @ + 1 ELSE @]
            /\ attempts' = [attempts EXCEPT ![t] = IF checkpoint THEN @ + 1 ELSE @]
            /\ Proceed(t, safe /\ ~Ends(act, o))
  /\ UNCHANGED <<slotVars, call>>

----------------------------------------------------------------------------
TurnStep(t) ==
  \/ Observe(t) \/ AskAgain(t) \/ GiveUpOn(t) \/ Recover(t) \/ FailClosed(t)
  \/ Stop(t) \/ Execute(t)
  \/ \E a \in Attempts :
       \/ CannotCall(t, a) \/ StartCall(t, a) \/ Deadline(t, a)
       \/ Understand(t, a) \/ DraftFromContract(t, a) \/ Reject(t, a)

PoolStep == StartWork \/ \E c \in Calls : ReachProvider(c) \/ Answer(c) \/ FinishCall(c)

Next ==
  \/ \E t \in Turns : TurnStep(t)
  \/ \E m \in Messages : Classify(m) \/ Classified(m)
  \/ PoolStep

Spec == Init /\ [][Next]_vars

(* The thread of a turn runs and its deadlines pass.  Neither the workers  *)
(* nor the provider are assumed to get anywhere.                           *)
FairSpec == Spec /\ \A t \in Turns : WF_vars(TurnStep(t))

----------------------------------------------------------------------------
(* When the server drafts on its own because the controller failed, the    *)
(* provider really had both prompts: an overloaded pool or a spent budget  *)
(* never turns into a plan nobody but the server chose (decide,            *)
(* terminal_controller_attempts_invoked_provider).                         *)
ServerDraftIsEarned ==
  \A t \in Turns :
    /\ decision[t].by = "recovery" => {"full", "lite"} \subseteq heard[t]
    /\ decision[t].by = "contract" => "full" \in heard[t]

(* A turn persists one planning attempt at most: its checkpoint is not     *)
(* replayed, whatever the controller decides in the cycles left            *)
(* (AgentTurnCoordinator.run).                                             *)
OnePlanningAttempt == \A t \in Turns : attempts[t] <= 1

(* Every turn ends, though a provider that never answers may hold every    *)
(* worker and every slot (_call_provider's deadline, the cycles of run).   *)
TurnsEnd == \A t \in Turns : <>(pc[t] = "done")

=============================================================================
