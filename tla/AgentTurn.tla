------------------------------ MODULE AgentTurn ------------------------------
(***************************************************************************)
(* One agent message from the HTTP call to its answer                      *)
(* (AgentService.send_message), composed from the run registry, the        *)
(* admission journal and the choice executions, with everything that can   *)
(* interleave with it: other calls for the same session, a second delivery *)
(* of the same request, the cancel endpoint, saves made through the        *)
(* versioned patch API, failures at every stage, and a restart of the      *)
(* process between any two commits.                                        *)
(*                                                                         *)
(* A call is a worker thread; pc[c] is the stage of send_message it is in. *)
(* An itinerary write is two commits here: the patch row with the edit,    *)
(* then the version that becomes active (module ItineraryWriter opens them *)
(* up).  The control loop lets a request write twice at most (max_writes); *)
(* its writes count as one here, named after the request.                  *)
(*                                                                         *)
(* Left out: messages without a request id (the field is optional; such a  *)
(* message has no journal, so a redelivery is a new message); what the     *)
(* executors of adoption and theme choices undo themselves before they     *)
(* raise (module ProposalAdoption models the adoption); a fault while a    *)
(* completed answer is read back for a redelivery; a restart between the   *)
(* commit that closes a controller's row and the one that marks its option *)
(* consumed.                                                               *)
(***************************************************************************)
EXTENDS Naturals, FiniteSets, SessionRunControl, AgentIngress, ChoiceExecutions

CONSTANTS
  Calls,          \* HTTP calls of the messages endpoint
  RequestOf,      \* the request each call delivers
  SessionOf,      \* the session each request belongs to
  ChoiceOf,       \* the choice a request presses, or NoChoice
  NoChoice,
  Saves,          \* versions saved through the patch API by the user
  MaxCrashes      \* bound: restarts of the process and connections lost

ASSUME RequestsNamed ==
  /\ RequestOf \in [Calls -> Requests]
  /\ SessionOf \in [Requests -> Sessions]
  /\ ChoiceOf \in [Requests -> Choices \cup {NoChoice}]
  /\ NoChoice \notin Choices

(* The row of a choice is keyed by its session as well.                    *)
ASSUME ChoicesInOneSession ==
  \A q, r \in Requests :
    ChoiceOf[q] = ChoiceOf[r] /\ ChoiceOf[r] # NoChoice => SessionOf[q] = SessionOf[r]

ASSUME TurnsAreRequests ==
  /\ Turns = Requests /\ Claimants = Requests
  /\ Versions = Requests \cup Saves
  /\ Requests \cap Saves = {}
  /\ NoVersion \notin Versions /\ Nobody \notin Requests

ASSUME BoundsAreNaturals == MaxCrashes \in Nat

VARIABLES
  versions,       \* itinerary_versions rows
  patches,        \* requests with an accepted itinerary_patches row
  activeVersion,  \* conversation_sessions.active_version_id
  pc,             \* stage of each call
  base,           \* the version each call found active: session_before, or bound
  crossed,        \* has the call's writer crossed the fence?
  answer,         \* what the client of each call was told
  generated,      \* history: how often each request was generated
  dispatched,     \* history: how often each choice's business was started
  crashes

turnVars == <<versions, patches, activeVersion, pc, base, crossed, answer, generated,
              dispatched, crashes>>
vars == <<controlVars, journal, execs, turnVars>>

Req(c) == RequestOf[c]
Ses(c) == SessionOf[RequestOf[c]]
Chosen(c) == ChoiceOf[RequestOf[c]]

(* Stages in which the call holds the session's run lease (try ... finally *)
(* of send_message).                                                       *)
Locked == {"claim", "bind", "start", "route", "binding", "work", "write",
           "unfenced", "patched", "wrote", "complete", "finalize", "fail499", "fail",
           "failmark", "failjournal", "release"}
Stages == {"lookup", "lease", "done", "crashed"} \cup Locked
Answers == {"none", "ok", "replayed", "error_replayed", "pending", "busy",
            "cancelled", "failed"}

TypeOK ==
  /\ ControlTypeOK /\ JournalTypeOK /\ ExecsTypeOK
  /\ versions \subseteq Versions
  /\ patches \subseteq Requests
  /\ activeVersion \in [Sessions -> Versions \cup {NoVersion}]
  /\ pc \in [Calls -> Stages]
  /\ base \in [Calls -> Versions \cup {NoVersion}]
  /\ crossed \in [Calls -> BOOLEAN]
  /\ answer \in [Calls -> Answers]
  /\ generated \in [Requests -> Nat]
  /\ dispatched \in [Choices -> Nat]
  /\ crashes \in 0..MaxCrashes

Init ==
  /\ ControlInit /\ JournalInit /\ ExecsInit
  /\ versions = {} /\ patches = {}
  /\ activeVersion = [s \in Sessions |-> NoVersion]
  /\ pc = [c \in Calls |-> "lookup"]
  /\ base = [c \in Calls |-> NoVersion]
  /\ crossed = [c \in Calls |-> FALSE]
  /\ answer = [c \in Calls |-> "none"]
  /\ generated = [r \in Requests |-> 0]
  /\ dispatched = [ch \in Choices |-> 0]
  /\ crashes = 0

Goto(c, l) == pc' = [pc EXCEPT ![c] = l]
Say(c, a) == answer' = [answer EXCEPT ![c] = a]

(* A redelivery keeps the answer it was given from the journal. *)
Tell(c, a) == answer' = [answer EXCEPT ![c] = IF @ = "none" THEN a ELSE @]

dataVars == <<versions, patches, activeVersion>>
historyVars == <<generated, dispatched>>
localVars == <<base, crossed>>

----------------------------------------------------------------------------
(* Admission. *)

(* A request already in the journal is answered from it, before the lease. *)
AnswerFromJournal(c) ==
  /\ pc[c] = "lookup" /\ journal[Req(c)] # "absent"
  /\ Say(c, ReplayAnswer(Req(c))) /\ Goto(c, "done")
  /\ UNCHANGED <<controlVars, journal, execs, dataVars, localVars, historyVars, crashes>>

LookupMisses(c) ==
  /\ pc[c] = "lookup" /\ journal[Req(c)] = "absent"
  /\ Goto(c, "lease")
  /\ UNCHANGED <<controlVars, journal, execs, dataVars, localVars, answer,
                 historyVars, crashes>>

TakeLease(c) ==
  /\ pc[c] = "lease"
  /\ AcquireSessionRun(Ses(c))
  /\ Goto(c, "claim")
  /\ UNCHANGED <<journal, execs, dataVars, localVars, answer, historyVars, crashes>>

RefuseLease(c) ==
  /\ pc[c] = "lease" /\ Ses(c) \in active
  /\ Say(c, "busy") /\ Goto(c, "done")
  /\ UNCHANGED <<controlVars, journal, execs, dataVars, localVars, historyVars, crashes>>

ClaimIngress(c) ==
  /\ pc[c] = "claim"
  /\ Claim(Req(c))
  /\ Goto(c, "bind")
  /\ UNCHANGED <<controlVars, execs, dataVars, localVars, answer, historyVars, crashes>>

(* Another delivery claimed the request between the lookup and the lease.  *)
(* A completed request is answered.  Otherwise replay raises inside the    *)
(* try, where the turn is known by now: the redelivery cleans up after the *)
(* run that was lost and writes its error over the journal.                *)
ClaimLost(c) ==
  /\ pc[c] = "claim" /\ journal[Req(c)] # "absent"
  /\ Say(c, ReplayAnswer(Req(c)))
  /\ Goto(c, CASE journal[Req(c)] = "completed" -> "release"
               [] journal[Req(c)] = "failed499" -> "fail499"
               [] OTHER                         -> "fail")
  /\ UNCHANGED <<controlVars, journal, execs, dataVars, localVars, historyVars, crashes>>

BindTurn(c) ==
  /\ pc[c] = "bind"
  /\ BindSessionRunTurn(Ses(c), Req(c))
  /\ Goto(c, IF CanBindTurn(Ses(c), Req(c)) THEN "start" ELSE "fail")
  /\ UNCHANGED <<journal, execs, dataVars, localVars, answer, historyVars, crashes>>

(* The first safe boundary: cancelled now, or generate. *)
StartGeneration(c) ==
  /\ pc[c] = "start"
  /\ IF CancelSeen(Ses(c))
     THEN Goto(c, "fail499") /\ UNCHANGED <<base, generated>>
     ELSE /\ Goto(c, "route")
          /\ base' = [base EXCEPT ![c] = activeVersion[Ses(c)]]
          /\ generated' = [generated EXCEPT ![Req(c)] = @ + 1]
  /\ UNCHANGED <<controlVars, journal, execs, dataVars, crossed, answer,
                 dispatched, crashes>>

----------------------------------------------------------------------------
(* Generation.  What the router and the model decide is open: a reply      *)
(* without a write, an agent writer, a local timeline mutation.            *)

ReplyOnly(c) ==
  /\ pc[c] = "route" /\ Chosen(c) = NoChoice
  /\ Goto(c, "complete")
  /\ UNCHANGED <<controlVars, journal, execs, dataVars, localVars, answer,
                 historyVars, crashes>>

DraftItinerary(c) ==
  /\ pc[c] = "route" /\ Chosen(c) = NoChoice
  /\ Goto(c, "work")
  /\ UNCHANGED <<controlVars, journal, execs, dataVars, localVars, answer,
                 historyVars, crashes>>

(* A local timeline mutation, asked for in words or by a density choice,   *)
(* binds to the version that is active by now and runs the same writer     *)
(* under another source type: it looks at the cancellation flag but        *)
(* crosses no fence.                                                       *)
MutateTimeline(c) ==
  /\ \/ pc[c] = "route" /\ Chosen(c) = NoChoice
     \/ pc[c] = "work" /\ Chosen(c) # NoChoice /\ Controller(Chosen(c))
  /\ IF CancelSeen(Ses(c))
     THEN Goto(c, "fail499") /\ UNCHANGED base
     ELSE /\ Goto(c, IF activeVersion[Ses(c)] = NoVersion THEN "fail" ELSE "unfenced")
          /\ base' = [base EXCEPT ![c] = activeVersion[Ses(c)]]
  /\ UNCHANGED <<controlVars, journal, execs, dataVars, crossed, answer,
                 historyVars, crashes>>

(* Every claim runs under execute_session_run_prewrite: not once cancelled.*)
ClaimChoice(c) ==
  /\ pc[c] = "route" /\ Chosen(c) # NoChoice
  /\ ~CancelSeen(Ses(c))
  /\ LET ch == Chosen(c) IN
       \/ \E b \in versions \cup {NoVersion} :
            InsertClaim(ch, Req(c), b, activeVersion[Ses(c)])
       \/ ReclaimExpired(ch, Req(c))
       \/ RetryFailed(ch, Req(c))
  /\ Goto(c, "binding")
  /\ UNCHANGED <<controlVars, journal, dataVars, localVars, answer, historyVars, crashes>>

(* Strict recovery: an expired claim that provably never started is        *)
(* settled, and the same pass then resumes it.                             *)
SettleExpired(c) ==
  /\ pc[c] = "route" /\ Chosen(c) # NoChoice
  /\ Strict(Chosen(c)) /\ execs[Chosen(c)].turn # Req(c)
  /\ ~CancelSeen(Ses(c))
  /\ SettleUnstarted(Chosen(c), activeVersion[Ses(c)])
  /\ UNCHANGED <<controlVars, journal, dataVars, pc, localVars, answer,
                 historyVars, crashes>>

(* A choice that already succeeded is answered from its row, as long as    *)
(* the version it produced is still the active one; a row without one, as  *)
(* long as the session is where the choice was offered.                    *)
ReplayChoice(c) ==
  /\ pc[c] = "route" /\ Chosen(c) # NoChoice
  /\ LET row == execs[Chosen(c)]
         outcome == IF row.result = NoVersion THEN row.base ELSE row.result
     IN /\ row.status = "succeeded"
        /\ Goto(c, IF outcome = activeVersion[Ses(c)] THEN "complete" ELSE "fail")
  /\ UNCHANGED <<controlVars, journal, execs, dataVars, localVars, answer,
                 historyVars, crashes>>

(* 409: executing elsewhere, terminal, or not provably unstarted. *)
RefuseChoice(c) ==
  /\ pc[c] = "route" /\ Chosen(c) # NoChoice
  /\ \/ execs[Chosen(c)].status \in {"executing", "cancelled", "failed_terminal"}
     \/ /\ execs[Chosen(c)].status = "failed_retryable"
        /\ Strict(Chosen(c)) /\ ~execs[Chosen(c)].unstarted
  /\ Goto(c, "fail")
  /\ UNCHANGED <<controlVars, journal, execs, dataVars, localVars, answer,
                 historyVars, crashes>>

CancelAtClaim(c) ==
  /\ pc[c] = "route" /\ Chosen(c) # NoChoice
  /\ CancelSeen(Ses(c))
  /\ Goto(c, "fail499")
  /\ UNCHANGED <<controlVars, journal, execs, dataVars, localVars, answer,
                 historyVars, crashes>>

DispatchChoice(c) ==
  /\ pc[c] = "binding"
  /\ BeginDispatch(Chosen(c), Req(c))
  /\ dispatched' = [dispatched EXCEPT ![Chosen(c)] = @ + 1]
  /\ Goto(c, "work")
  /\ UNCHANGED <<controlVars, journal, dataVars, localVars, answer, generated, crashes>>

----------------------------------------------------------------------------
(* Writing. *)

(* Slips for the mutation runs. *)
FenceWithoutLookingBack(c) ==
  /\ pc[c] = "work"
  /\ fenced' = fenced \cup {Ses(c)}
  /\ crossed' = [crossed EXCEPT ![c] = TRUE]
  /\ Goto(c, "write")
  /\ UNCHANGED <<active, runTurn, cancelled, journal, execs, dataVars, base, answer,
                 historyVars, crashes>>

(* begin_session_run_write, or 499. *)
FenceWrite(c) ==
  /\ pc[c] = "work"
  /\ IF CancelSeen(Ses(c))
     THEN Goto(c, "fail499") /\ UNCHANGED <<controlVars, crossed>>
     ELSE /\ BeginSessionRunWrite(Ses(c))
          /\ crossed' = [crossed EXCEPT ![c] = TRUE]
          /\ Goto(c, "write")
  /\ UNCHANGED <<journal, execs, dataVars, base, answer, historyVars, crashes>>

(* Does an executor of its own close the row of the choice c presses? *)
HasExecutor(c) == Chosen(c) # NoChoice /\ ~Controller(Chosen(c))

(* A choice ends without a version: an executor marks its row retryable,   *)
(* and then reports that or raises; a turn that closes the row itself does *)
(* so later.                                                               *)
EndWithoutVersion(c) ==
  /\ pc[c] = "work" /\ Chosen(c) # NoChoice
  /\ IF ~HasExecutor(c) THEN Goto(c, "complete") /\ UNCHANGED execs
     ELSE IF CancelSeen(Ses(c)) THEN Goto(c, "fail499") /\ UNCHANGED execs
     ELSE /\ FinishExecution(Chosen(c), "failed_retryable", NoVersion)
          /\ \E end \in {"complete", "fail"} : Goto(c, end)
  /\ UNCHANGED <<controlVars, journal, dataVars, localVars, answer, historyVars, crashes>>

(* The version the write is based on: the choice's, or the session's when  *)
(* generation began or a mutation was bound.  An empty plan accepts any.   *)
ExpectedBase(c) ==
  IF Chosen(c) = NoChoice \/ pc[c] = "unfenced" THEN base[c] ELSE execs[Chosen(c)].base

(* First commit of the writer. *)
CommitPatch(c) ==
  /\ pc[c] \in {"write", "unfenced"}
  /\ IF activeVersion[Ses(c)] \in {NoVersion, ExpectedBase(c)}
     THEN patches' = patches \cup {Req(c)} /\ Goto(c, "patched")
     ELSE Goto(c, "fail") /\ UNCHANGED patches
  /\ UNCHANGED <<controlVars, journal, execs, versions, activeVersion, localVars, answer,
                 historyVars, crashes>>

CommitVersion(c) ==
  /\ pc[c] = "patched"
  /\ versions' = versions \cup {Req(c)}
  /\ activeVersion' = [activeVersion EXCEPT ![Ses(c)] = Req(c)]
  /\ Goto(c, "wrote")
  /\ UNCHANGED <<controlVars, journal, execs, patches, localVars, answer, historyVars, crashes>>

VerifierAccepts(c) ==
  /\ pc[c] = "wrote"
  /\ IF HasExecutor(c) THEN FinishExecution(Chosen(c), "succeeded", Req(c)) ELSE UNCHANGED execs
  /\ Goto(c, "complete")
  /\ UNCHANGED <<controlVars, journal, dataVars, localVars, answer, historyVars, crashes>>

(* A rejected write is rolled back to the version the call started from,   *)
(* whatever is active by now; the version keeps its row.  The writer       *)
(* raises or reports it, and an executor that reports it marks its choice  *)
(* retryable.  A timeline mutation treats every error after its first      *)
(* commit that way, deletes the version as well, and reports it.           *)
VerifierRejects(c) ==
  /\ pc[c] = "wrote" \/ (pc[c] = "patched" /\ ~crossed[c])
  /\ activeVersion' = [activeVersion EXCEPT ![Ses(c)] = base[c]]
  /\ versions' = IF crossed[c] THEN versions ELSE versions \ {Req(c)}
  /\ patches' = patches \ {Req(c)}
  /\ \/ crossed[c] /\ Goto(c, "fail") /\ UNCHANGED execs
     \/ /\ Goto(c, "complete")
        /\ IF HasExecutor(c) THEN FinishExecution(Chosen(c), "failed_retryable", NoVersion)
           ELSE UNCHANGED execs
  /\ UNCHANGED <<controlVars, journal, localVars, answer, historyVars, crashes>>

(* Slips for the mutation runs. *)
FinalizeWithoutJournal(c) ==
  /\ pc[c] = "finalize"
  /\ Say(c, "ok") /\ Goto(c, "release")
  /\ UNCHANGED <<controlVars, journal, execs, dataVars, localVars, historyVars, crashes>>

(* Is the row of the choice c presses left for the turn to close? *)
LeftToClose(c) ==
  /\ Chosen(c) # NoChoice /\ Controller(Chosen(c))
  /\ execs[Chosen(c)].status = "executing" /\ execs[Chosen(c)].turn = Req(c)

(* _complete_controller_choice_execution.  What the response amounts to is *)
(* open: progress, with the version it names (its own, the one that was    *)
(* active anyway, or none), a failure that may be retried, or one that     *)
(* used up its bounded attempts.  A write may stand beside either failure  *)
(* (a provider failed as well).                                            *)
CompleteChoice(c) ==
  /\ pc[c] = "complete" /\ LeftToClose(c)
  /\ \/ \E v \in {NoVersion, activeVersion[Ses(c)]} \cup ({Req(c)} \cap versions) :
           FinishExecution(Chosen(c), "succeeded", v)
     \/ FinishExecution(Chosen(c), "failed_retryable", NoVersion)
     \/ FinishExecution(Chosen(c), "failed_terminal", NoVersion)
  /\ UNCHANGED <<controlVars, journal, dataVars, pc, localVars, answer, historyVars, crashes>>

(* The last safe boundary. *)
CompleteTurn(c) ==
  /\ pc[c] = "complete" /\ ~LeftToClose(c)
  /\ Goto(c, IF CancelSeen(Ses(c)) THEN "fail499" ELSE "finalize")
  /\ UNCHANGED <<controlVars, journal, execs, dataVars, localVars, answer,
                 historyVars, crashes>>

FinalizeTurn(c) ==
  /\ pc[c] = "finalize"
  /\ Settle(Req(c), "completed")
  /\ Say(c, "ok") /\ Goto(c, "release")
  /\ UNCHANGED <<controlVars, execs, dataVars, localVars, historyVars, crashes>>

----------------------------------------------------------------------------
(* Failure. *)

(* A provider, database or validation error anywhere in generation; one    *)
(* inside a timeline mutation that has written is a rejection (above).     *)
RaiseError(c) ==
  /\ pc[c] \in {"patched", "wrote"} => crossed[c]
  /\ pc[c] \in {"start", "route", "binding", "work", "write", "unfenced", "patched",
                "wrote", "complete", "finalize"}
  /\ Goto(c, "fail")
  /\ UNCHANGED <<controlVars, journal, execs, dataVars, localVars, answer,
                 historyVars, crashes>>

(* The turns that carry the row's executionId: whoever claimed it so far.  *)
Linked(ch) == {r \in Requests : ChoiceOf[r] = ch}

(* The version the session returns to when ch is undone. *)
OfferedBase(ch) == IF execs[ch].base \in versions THEN execs[ch].base ELSE NoVersion

(* Slips for the mutation runs. *)
UndoOwnWrite(ch, c) ==
  LET left == {Req(c), execs[ch].result} \ {NoVersion, execs[ch].base}
      written == Req(c) \in versions \cup patches \/ execs[ch].result # NoVersion
  IN /\ versions' = versions \ left
     /\ patches' = patches \ {Req(c)}
     /\ activeVersion' = IF written THEN [activeVersion EXCEPT ![Ses(c)] = OfferedBase(ch)]
                         ELSE activeVersion
     /\ CancelExecution(ch)

(* _cancel_fallback_choice_execution: when a turn linked to the row left a *)
(* patch or a version, or the row names one, the session goes back to the  *)
(* version the choice was offered on.                                      *)
UndoChoice(ch, c) ==
  LET left == (Linked(ch) \cup {execs[ch].result}) \ {NoVersion, execs[ch].base}
      written == Linked(ch) \cap (versions \cup patches) # {} \/ execs[ch].result # NoVersion
  IN /\ versions' = versions \ left
     /\ patches' = patches \ Linked(ch)
     /\ activeVersion' = IF written THEN [activeVersion EXCEPT ![Ses(c)] = OfferedBase(ch)]
                         ELSE activeVersion
     /\ CancelExecution(ch)

(* Slips for the mutation runs. *)
FailWithoutUndo(c) ==
  /\ pc[c] = "fail"
  /\ Tell(c, "failed") /\ Goto(c, "failjournal")
  /\ UNCHANGED <<controlVars, journal, execs, dataVars, localVars, historyVars, crashes>>

CleanUpCancelled(c) ==
  /\ pc[c] = "fail499"
  /\ IF CancellableFor(Req(c)) = {} THEN UNCHANGED <<execs, dataVars>>
     ELSE \E ch \in CancellableFor(Req(c)) : UndoChoice(ch, c)
  /\ Tell(c, "cancelled") /\ Goto(c, "failjournal")
  /\ UNCHANGED <<controlVars, journal, localVars, historyVars, crashes>>

(* _fail_fallback_choice_execution, one commit per step: settle what       *)
(* provably never started, otherwise undo and mark the row retryable; a    *)
(* cancellation seen under the prewrite guard leaves it cancelled.         *)
CleanUpFailed(c) ==
  /\ pc[c] = "fail"
  /\ LET mine == ExecutingFor(Req(c)) IN
       \/ /\ mine = {}
          /\ Goto(c, "failjournal")
          /\ UNCHANGED <<execs, dataVars>>
       \/ \E ch \in mine :
            IF ~CancelSeen(Ses(c)) /\ ProvablyUnstarted(ch, activeVersion[Ses(c)])
            THEN /\ SettleUnstarted(ch, activeVersion[Ses(c)])
                 /\ Goto(c, "failjournal")
                 /\ UNCHANGED dataVars
            ELSE /\ UndoChoice(ch, c)
                 /\ Goto(c, IF CancelSeen(Ses(c)) THEN "failjournal" ELSE "failmark")
  /\ Tell(c, "failed")
  /\ UNCHANGED <<controlVars, journal, localVars, historyVars, crashes>>

MarkRetryable(c) ==
  /\ pc[c] = "failmark"
  /\ FinishExecution(Chosen(c), "failed_retryable", NoVersion)
  /\ Goto(c, "failjournal")
  /\ UNCHANGED <<controlVars, journal, dataVars, localVars, answer, historyVars, crashes>>

JournalFailure(c) ==
  /\ pc[c] = "failjournal"
  /\ Settle(Req(c), IF answer[c] = "cancelled" \/ journal[Req(c)] = "failed499"
                    THEN "failed499" ELSE "failed")
  /\ Goto(c, "release")
  /\ UNCHANGED <<controlVars, execs, dataVars, localVars, answer, historyVars, crashes>>

(* Slips for the mutation runs. *)
ReturnWithoutRelease(c) ==
  /\ pc[c] = "release"
  /\ Goto(c, "done")
  /\ UNCHANGED <<controlVars, journal, execs, dataVars, localVars, answer,
                 historyVars, crashes>>

(* finally: release the lease, then the answer goes out. *)
ReleaseLease(c) ==
  /\ pc[c] = "release"
  /\ ReleaseSessionRun(Ses(c))
  /\ Goto(c, "done")
  /\ UNCHANGED <<journal, execs, dataVars, localVars, answer, historyVars, crashes>>

----------------------------------------------------------------------------
(* The environment. *)

CancelRun(s) ==
  /\ RequestSessionRunCancel(s)
  /\ UNCHANGED <<journal, execs, turnVars>>

(* A save through the patch API, based on the active version.  It takes no *)
(* run lease, so it may fall anywhere in a run, except that it waits for   *)
(* the plan lease that a writer holds between its commits, and a timeline  *)
(* mutation until it has verified.                                         *)
SaveVersion(s, m) ==
  /\ m \notin versions
  /\ \A c \in Calls : Ses(c) = s =>
       pc[c] \notin IF crossed[c] THEN {"patched"} ELSE {"unfenced", "patched", "wrote"}
  /\ versions' = versions \cup {m}
  /\ activeVersion' = [activeVersion EXCEPT ![s] = m]
  /\ UNCHANGED <<controlVars, journal, execs, patches, pc, localVars, answer, historyVars,
                 crashes>>

(* The process restarts: threads and registry vanish, SQLite stays. *)
Restart ==
  /\ crashes < MaxCrashes
  /\ LoseRegistry
  /\ LET lost(c) == pc[c] \in Locked \cup {"lease"} IN
       /\ \E c \in Calls : lost(c)
       /\ pc' = [c \in Calls |-> IF lost(c) THEN "crashed" ELSE pc[c]]
       /\ answer' = [c \in Calls |-> IF lost(c) THEN "none" ELSE answer[c]]
  /\ crashes' = crashes + 1
  /\ UNCHANGED <<journal, execs, dataVars, localVars, historyVars>>

(* The client of a streamed run goes away: the request ends and closes the *)
(* connection the run's own thread still works with.  Its next statement   *)
(* fails, and so does every clean-up; only the finally clause is left.     *)
LoseConnection(c) ==
  /\ crashes < MaxCrashes
  /\ pc[c] \in Locked \ {"release"}
  /\ Goto(c, "release")
  /\ crashes' = crashes + 1
  /\ UNCHANGED <<controlVars, journal, execs, dataVars, localVars, answer, historyVars>>

Over == \A c \in Calls : pc[c] \in {"done", "crashed"}

Step(c) ==
  \/ AnswerFromJournal(c) \/ LookupMisses(c) \/ TakeLease(c) \/ RefuseLease(c)
  \/ ClaimIngress(c) \/ ClaimLost(c) \/ BindTurn(c) \/ StartGeneration(c)
  \/ ReplyOnly(c) \/ DraftItinerary(c) \/ MutateTimeline(c)
  \/ ClaimChoice(c) \/ SettleExpired(c) \/ ReplayChoice(c) \/ RefuseChoice(c)
  \/ CancelAtClaim(c) \/ DispatchChoice(c)
  \/ FenceWrite(c) \/ EndWithoutVersion(c) \/ CommitPatch(c) \/ CommitVersion(c)
  \/ VerifierAccepts(c) \/ VerifierRejects(c) \/ CompleteChoice(c) \/ CompleteTurn(c)
  \/ FinalizeTurn(c)
  \/ RaiseError(c) \/ CleanUpCancelled(c) \/ CleanUpFailed(c) \/ MarkRetryable(c)
  \/ JournalFailure(c) \/ ReleaseLease(c)

Next ==
  \/ \E c \in Calls : Step(c)
  \/ \E s \in Sessions : CancelRun(s)
  \/ \E s \in Sessions, m \in Saves : SaveVersion(s, m)
  \/ \E c \in Calls : LoseConnection(c)
  \/ Restart
  \/ Over /\ UNCHANGED vars

Spec == Init /\ [][Next]_vars

(* Every worker thread keeps running: nothing in send_message waits for    *)
(* another call (a refused lease answers 409 at once) and provider calls   *)
(* have deadlines.                                                         *)
FairSpec == Spec /\ \A c \in Calls : WF_vars(Step(c))

----------------------------------------------------------------------------
(* Properties. *)

Holding(c) == pc[c] \in Locked
Told(c, a) == pc[c] = "done" /\ answer[c] = a

(* At most one call at a time works on a session, and its run is in the    *)
(* registry for as long as it does (the lease of send_message).            *)
LeaseExclusive ==
  /\ \A c \in Calls : Holding(c) => Ses(c) \in active
  /\ \A c, d \in Calls : Holding(c) /\ Holding(d) /\ Ses(c) = Ses(d) => c = d

(* "An unfinished journal is never permission to rerun a model or a        *)
(* writer": whatever is redelivered, retried or lost in a restart, one     *)
(* request is generated at most once.                                      *)
GeneratedAtMostOnce == \A r \in Requests : generated[r] <= 1

(* A run whose writer has crossed the fence is never answered 499: its     *)
(* commit is not reported as cancelled.                                    *)
FencedNeverCancelled == \A c \in Calls : crossed[c] => ~Told(c, "cancelled")

(* A successful answer, first or replayed, is backed by a journal that     *)
(* says completed, and still is after any restart.                         *)
SuccessIsDurable ==
  \A c \in Calls : Told(c, "ok") \/ Told(c, "replayed") => journal[Req(c)] = "completed"

(* As long as nothing is lost, an executing choice has a call in flight    *)
(* that will settle it: no path out of send_message leaves a claim behind. *)
ClaimHasOwner ==
  crashes = 0 => \A ch \in Choices : execs[ch].status = "executing" =>
    \E c \in Calls : Holding(c) /\ Req(c) = execs[ch].turn /\ Chosen(c) = ch

(* A cancelled choice leaves nothing of any request that ever claimed it,  *)
(* lost runs included.  And once the journal settles a request that        *)
(* pressed a choice with an executor, a version of it that stands is the   *)
(* one its row names as a success: failure and cancellation undo the write *)
(* before the request is settled, whichever stage they arrive in.  The one *)
(* exception needs a lost run: a row that another press has taken over is  *)
(* out of reach of a redelivery that settles the lost request as failed.   *)
ChoiceWriteAccounted ==
  \A r \in Requests : ChoiceOf[r] # NoChoice =>
    LET row == execs[ChoiceOf[r]] IN
      /\ row.status = "cancelled" => r \notin versions \cup patches
      /\ /\ journal[r] = "completed" \/ Failed(r)
         /\ ~Controller(ChoiceOf[r])
         /\ r \in versions \cap patches
         => \/ row.status = "succeeded" /\ row.result = r
            \/ crashes > 0 /\ row.turn # r

(* Under strict recovery the business of a choice starts at most once,     *)
(* restarts, expired leases and retries included.                          *)
StrictDispatchOnce == \A ch \in Choices : Strict(ch) => dispatched[ch] <= 1

(* A settled choice changes only while the run that settled it is still in *)
(* flight; nobody else reopens or cancels it.                              *)
SettledChoiceStable ==
  [][\A ch \in Choices :
       /\ execs[ch].status \in {"succeeded", "failed_terminal", "cancelled"}
       /\ execs'[ch] # execs[ch]
       => \E c \in Calls : Holding(c) /\ Req(c) = execs[ch].turn]_vars

(* The lease never leaks: a session with a run becomes free again. *)
LeaseReleased == \A s \in Sessions : s \in active ~> s \notin active

(* The inductive strengthening of the safety properties: what a call that  *)
(* holds the lease may rely on at each stage.                              *)
Failing == {"fail499", "fail", "failmark", "failjournal"}
Working == Locked \ ({"claim", "release"} \cup Failing)

WorkingIsClaimed ==
  \A c \in Calls : /\ pc[c] \in Working => journal[Req(c)] = "claimed"
                   /\ pc[c] \in Failing => journal[Req(c)] \notin {"absent", "completed"}

UnansweredWhileRunning ==
  \A c \in Calls : /\ pc[c] \in {"lookup", "lease", "claim"} \cup Working => answer[c] = "none"
                   /\ pc[c] \in Failing => answer[c] \notin {"ok", "replayed"}
                   /\ pc[c] \in {"fail499", "fail"} => answer[c] # "cancelled"

CrossedIsFenced ==
  \A c \in Calls : crossed[c] =>
    /\ Holding(c) => Ses(c) \in fenced
    /\ pc[c] \notin {"lookup", "lease", "claim", "fail499"} /\ answer[c] # "cancelled"

GenerationPending ==
  /\ \A c \in Calls : pc[c] \in {"bind", "start"} => generated[Req(c)] = 0
  /\ \A r \in Requests : journal[r] = "absent" => generated[r] = 0

AnswerIsJournalled ==
  \A c \in Calls : answer[c] \in {"ok", "replayed"} => journal[Req(c)] = "completed"

IInv ==
  /\ FenceExcludesCancel /\ LeaseExclusive /\ GeneratedAtMostOnce
  /\ WorkingIsClaimed /\ UnansweredWhileRunning /\ CrossedIsFenced
  /\ GenerationPending /\ AnswerIsJournalled

(* Claim of begin_session_run_write's docstring: a run that ends with 499  *)
(* is zero-write.                                                          *)
CancelledIsZeroWrite == \A c \in Calls : Told(c, "cancelled") => Req(c) \notin versions
============================================================================
