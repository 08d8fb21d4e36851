--------------------------- MODULE DecisionSlots ---------------------------
(***************************************************************************)
(* The calls to the model behind AgentAutonomyController: a pool of worker *)
(* threads (_decision_executor) and a counting semaphore                   *)
(* (_decision_worker_slots), shared by every turn of the process.          *)
(*                                                                         *)
(* A call takes a slot without waiting and gives it back from the done     *)
(* callback of its future.  The caller stops waiting at its deadline: a    *)
(* future still in the queue is cancelled, a running one goes on and keeps *)
(* its worker and its slot until the provider answers, if it ever does.    *)
(***************************************************************************)
EXTENDS Integers, Sequences, FiniteSets

CONSTANTS
  Calls,       \* identities of calls, used again once a call is over
  MaxSlots,    \* permits of the semaphore
  Workers      \* threads of the pool

ASSUME SlotConstants ==
  /\ IsFiniteSet(Calls) /\ MaxSlots \in Nat \ {0} /\ Workers \in Nat \ {0}

VARIABLES
  free,        \* permits left
  queue,       \* calls no worker has taken
  stage,       \* stage of each call
  reply        \* its result, until the future is dropped

slotVars == <<free, queue, stage, reply>>

Stages == {"idle", "queued", "started", "asked", "answered"}

(* What a call ends with: a decision, a truncated or an invalid one, or an *)
(* error of one of the classes the controller tells apart.                 *)
Replies == {"valid", "truncated", "invalid", "transient", "fatal"}

Held == {c \in Calls : stage[c] # "idle"}
Busy == {c \in Calls : stage[c] \in {"started", "asked", "answered"}}
Invoked(c) == stage[c] \in {"asked", "answered"}

SlotsInit ==
  /\ free = MaxSlots /\ queue = <<>>
  /\ stage = [c \in Calls |-> "idle"]
  /\ reply = [c \in Calls |-> "none"]

(* Slips for the mutation runs. *)
GiveUpReleasing(c) ==
  /\ queue' = SelectSeq(queue, LAMBDA d : d # c)
  /\ stage' = [stage EXCEPT ![c] = IF @ = "queued" THEN "idle" ELSE @]
  /\ free' = free + 1
  /\ UNCHANGED reply

(* acquire(blocking=False), submit *)
Submit(c) ==
  /\ free > 0 /\ stage[c] = "idle"
  /\ free' = free - 1
  /\ queue' = Append(queue, c)
  /\ stage' = [stage EXCEPT ![c] = "queued"]
  /\ UNCHANGED reply

(* future.cancel(): the callback of a cancelled future runs in the caller. *)
GiveUp(c) ==
  \/ /\ stage[c] = "queued"
     /\ queue' = SelectSeq(queue, LAMBDA d : d # c)
     /\ stage' = [stage EXCEPT ![c] = "idle"]
     /\ free' = free + 1
     /\ UNCHANGED reply
  \/ /\ stage[c] # "queued"
     /\ UNCHANGED slotVars

(* A worker takes the next call that is still to be run. *)
TakeUp ==
  /\ queue # <<>> /\ Cardinality(Busy) < Workers
  /\ stage[Head(queue)] = "queued"
  /\ stage' = [stage EXCEPT ![Head(queue)] = "started"]
  /\ queue' = Tail(queue)
  /\ UNCHANGED <<free, reply>>

(* invoke: the call is prepared, then providerInvoked is set. *)
AskProvider(c) ==
  /\ stage[c] = "started"
  /\ stage' = [stage EXCEPT ![c] = "asked"]
  /\ UNCHANGED <<free, queue, reply>>

(* The result is set and its waiter woken ... *)
ProviderAnswers(c, r) ==
  /\ stage[c] = "asked"
  /\ stage' = [stage EXCEPT ![c] = "answered"]
  /\ reply' = [reply EXCEPT ![c] = r]
  /\ UNCHANGED <<free, queue>>

(* ... before the callback gives the slot back. *)
ReleaseSlot(c) ==
  /\ stage[c] = "answered"
  /\ stage' = [stage EXCEPT ![c] = "idle"]
  /\ free' = free + 1
  /\ UNCHANGED <<queue, reply>>

Forget(c) ==
  /\ reply' = [reply EXCEPT ![c] = "none"]
  /\ UNCHANGED <<free, queue, stage>>

SlotsStep ==
  \/ TakeUp
  \/ \E c \in Calls :
       \/ Submit(c) \/ GiveUp(c) \/ AskProvider(c) \/ ReleaseSlot(c) \/ Forget(c)
       \/ \E r \in Replies \cup {"none"} : ProviderAnswers(c, r)

SlotsSpec == SlotsInit /\ [][SlotsStep]_slotVars

----------------------------------------------------------------------------
(* No timeout, cancellation or late answer loses a slot or gives one back  *)
(* twice: the permits left are exactly the ones no call holds              *)
(* (_call_provider, _call_lite_provider).                                  *)
SlotsConserved == free = MaxSlots - Cardinality(Held)

=============================================================================
