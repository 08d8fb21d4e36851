------------------------- MODULE SessionRunControl -------------------------
(***************************************************************************)
(* The process-local registry of agent runs (agent_run_control.py): which  *)
(* sessions have a run, the durable user turn a run is bound to, which     *)
(* runs have been asked to cancel and which have passed the write fence.   *)
(* Every operator is one critical section under the module's _GUARD lock,  *)
(* so each is one atomic step.  The registry lives in memory: a restart of *)
(* the process empties it.                                                 *)
(*                                                                         *)
(* A call that finds its precondition false changes nothing; composing     *)
(* modules decide what the caller does then.                               *)
(***************************************************************************)

CONSTANTS
  Sessions,      \* conversation sessions
  Turns,         \* durable user turns a run may be bound to
  Unbound        \* the empty turn id of a run not bound yet

ASSUME UnboundIsNoTurn == Unbound \notin Turns

VARIABLES
  active,        \* _ACTIVE_SESSION_RUNS
  runTurn,       \* _ACTIVE_SESSION_RUN_TURNS
  cancelled,     \* _CANCELLED_SESSION_RUNS
  fenced         \* _WRITE_FENCED_SESSION_RUNS

controlVars == <<active, runTurn, cancelled, fenced>>

ControlTypeOK ==
  /\ active \subseteq Sessions
  /\ runTurn \in [Sessions -> Turns \cup {Unbound}]
  /\ cancelled \subseteq Sessions
  /\ fenced \subseteq Sessions

ControlInit ==
  /\ active = {}
  /\ runTurn = [s \in Sessions |-> Unbound]
  /\ cancelled = {}
  /\ fenced = {}

----------------------------------------------------------------------------
(* Plausible slips in the registry, for the mutation runs. *)

AcquireIgnoringHolder(s) ==
  /\ active' = active \cup {s}
  /\ runTurn' = [runTurn EXCEPT ![s] = Unbound]
  /\ UNCHANGED <<cancelled, fenced>>

ReleaseDroppingTurn(s) ==
  /\ active' = active \ {s}
  /\ runTurn' = [x \in Sessions \ {s} |-> runTurn[x]]
  /\ cancelled' = cancelled \ {s}
  /\ fenced' = fenced \ {s}

CancelIgnoringFence(s) ==
  /\ s \in active
  /\ cancelled' = cancelled \cup {s}
  /\ UNCHANGED <<active, runTurn, fenced>>

----------------------------------------------------------------------------
(* acquire_session_run returning True. *)
AcquireSessionRun(s) ==
  /\ s \notin active
  /\ active' = active \cup {s}
  /\ runTurn' = [runTurn EXCEPT ![s] = Unbound]
  /\ UNCHANGED <<cancelled, fenced>>

(* What bind_session_run_turn returns: the run exists and is bound to no   *)
(* other turn.                                                             *)
CanBindTurn(s, t) ==
  /\ s \in active
  /\ runTurn[s] \in {Unbound, t}

BindSessionRunTurn(s, t) ==
  /\ runTurn' = IF CanBindTurn(s, t) THEN [runTurn EXCEPT ![s] = t] ELSE runTurn
  /\ UNCHANGED <<active, cancelled, fenced>>

(* release_session_run forgets every trace of the run. *)
ReleaseSessionRun(s) ==
  /\ active' = active \ {s}
  /\ runTurn' = [runTurn EXCEPT ![s] = Unbound]
  /\ cancelled' = cancelled \ {s}
  /\ fenced' = fenced \ {s}

(* request_session_run_cancel returning True: refused once fenced. *)
RequestSessionRunCancel(s) ==
  /\ s \in active
  /\ s \notin fenced
  /\ cancelled' = cancelled \cup {s}
  /\ UNCHANGED <<active, runTurn, fenced>>

(* assert_session_run_active raises 499 exactly when this holds. *)
CancelSeen(s) == s \in cancelled

(* begin_session_run_write when it does not raise.  A writer outside any   *)
(* run gets False and crosses no fence.                                    *)
BeginSessionRunWrite(s) ==
  /\ ~CancelSeen(s)
  /\ fenced' = IF s \in active THEN fenced \cup {s} ELSE fenced
  /\ UNCHANGED <<active, runTurn, cancelled>>

(* The process dies: the registry is gone. *)
LoseRegistry ==
  /\ active' = {}
  /\ runTurn' = [s \in Sessions |-> Unbound]
  /\ cancelled' = {}
  /\ fenced' = {}

----------------------------------------------------------------------------
(* The flags describe a run that exists, and a run that has passed the     *)
(* write fence is not one whose cancellation was accepted: the two sides   *)
(* of the fence exclude each other (begin_session_run_write's docstring).  *)
FenceExcludesCancel ==
  /\ cancelled \cup fenced \subseteq active
  /\ cancelled \cap fenced = {}
============================================================================
