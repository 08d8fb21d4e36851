------------------------ MODULE ConversationBranching ------------------------
(***************************************************************************)
(* The turns of one conversation as messages, edits and retries grow them, *)
(* and the itinerary version they leave active (agent_service.py:          *)
(* send_message, edit_user_message, resume_failed_turn).                   *)
(*                                                                         *)
(* A conversation is one line of turns.  Editing a message supersedes it   *)
(* and everything after it, appends the new wording, and restores the      *)
(* version that the turns record for that message, in one commit; then the *)
(* message is generated like any other.  Resuming retries a failed answer  *)
(* while the version it failed on is still active.  All three take the run *)
(* lease of SessionRunControl; the user's own saves do not.                *)
(*                                                                         *)
(* A turn's position is its turn_index; a version written by the agent is  *)
(* named after the user turn it was written for.  What a generation does   *)
(* is open, as in module AgentTurn, which also checks what is left out     *)
(* here: the journal, how an execution row is claimed and closed, a patch  *)
(* without its version, and timeline mutations that cross no fence.  One   *)
(* choice is offered, and any message may press it.  A restore through the *)
(* version API is like a save.                                             *)
(***************************************************************************)
EXTENDS Naturals, Sequences, FiniteSets, SessionRunControl

CONSTANTS
  Session,     \* the conversation
  Calls,       \* calls of the messages, edit and resume endpoints, in order of arrival
  Saves,       \* versions saved by the user through the patch API
  NoVersion,   \* the empty plan
  MaxTurns,    \* bound: length of the conversation
  MaxCrashes   \* bound: restarts of the process

ASSUME ConversationConstants ==
  /\ Sessions = {Session} /\ Turns = 1..MaxTurns
  /\ MaxTurns \in Nat /\ MaxCrashes \in Nat /\ Calls \subseteq Nat
  /\ NoVersion \notin Turns \cup Saves /\ Turns \cap Saves = {}

VARIABLES
  turns,          \* conversation_turns of the session, by turn_index
  versions,       \* itinerary_versions rows
  activeVersion,  \* conversation_sessions.active_version_id
  row,            \* the choice's execution row, with the turns linked to it
  pc,             \* stage of each call
  mine,           \* the user turn a call generates for, 0 before
  base,           \* session_before's active version
  anchor,         \* history: the version last accepted, restored or saved
  found, left,    \* history: the active version each user turn met and left
                  \* behind, as long as nothing but edits disturbs the conversation
  seen            \* history: what has disturbed the conversation so far

threadVars == <<pc, mine, base>>
historyVars == <<anchor, found, left, seen>>
vars == <<controlVars, turns, versions, activeVersion, row, threadVars, historyVars>>

Versions == Turns \cup Saves
Version == Versions \cup {NoVersion}

(* Slot: a turn row.  "failedOn" is the base its context carries; a reply  *)
(* that waits for a rate-limited provider can be resumed too.              *)
Slot == [role : {"user", "assistant"}, status : {"active", "failed", "superseded"},
         version : Version, parent : 0..MaxTurns, failedOn : Version,
         waiting : BOOLEAN, answers : 0..MaxTurns]

(* Row: expected_base_version_id, the turns whose request names its        *)
(* executionId, and whether it can no longer be claimed.                   *)
Row == [base : Version, presses : SUBSET Turns, closed : BOOLEAN]
Unclaimed == [base |-> NoVersion, presses |-> {}, closed |-> FALSE]

Holding == {"admit", "edit", "resume", "retry", "generate", "work", "write", "wrote",
            "accepted", "answer", "release"}

TypeOK ==
  /\ ControlTypeOK
  /\ turns \in Seq(Slot) /\ Len(turns) <= MaxTurns
  /\ versions \subseteq Versions /\ activeVersion \in Version /\ row \in Row
  /\ pc \in [Calls -> {"idle", "done", "crashed"} \cup Holding]
  /\ mine \in [Calls -> 0..MaxTurns]
  /\ base \in [Calls -> Version]
  /\ anchor \in Version /\ found \in [Turns -> Version] /\ left \in [Turns -> Version]
  /\ seen \subseteq {"edit", "save", "undo", "disturbed"}

Init ==
  /\ ControlInit
  /\ turns = <<>> /\ versions = {} /\ activeVersion = NoVersion
  /\ row = Unclaimed
  /\ pc = [c \in Calls |-> "idle"]
  /\ mine = [c \in Calls |-> 0]
  /\ base = [c \in Calls |-> NoVersion]
  /\ anchor = NoVersion /\ seen = {}
  /\ found = [t \in Turns |-> NoVersion] /\ left = [t \in Turns |-> NoVersion]

OnlyEdited == seen \subseteq {"edit"}

Goto(c, l) == pc' = [pc EXCEPT ![c] = l]

UserTurn(parent) ==
  [role |-> "user", status |-> "active", version |-> NoVersion, parent |-> parent,
   failedOn |-> NoVersion, waiting |-> FALSE, answers |-> 0]

AssistantTurn(t, v) ==
  [role |-> "assistant", status |-> "active", version |-> NoVersion, parent |-> 0,
   failedOn |-> v, waiting |-> FALSE, answers |-> t]

(* _insert_turn for a user, over active version v: the next index, whatever*)
(* is superseded.                                                          *)
InsertUserTurn(c, rows, parent, v) ==
  /\ turns' = Append(rows, UserTurn(parent))
  /\ mine' = [mine EXCEPT ![c] = Len(rows) + 1]
  /\ found' = IF OnlyEdited THEN [found EXCEPT ![Len(rows) + 1] = v] ELSE found

dataVars == <<turns, versions, activeVersion>>

----------------------------------------------------------------------------
(* Taking the lease.  The three endpoints start alike. *)

Arrives(c) == pc[c] = "idle" /\ \A d \in Calls : d < c => pc[d] # "idle"

Enter(c) ==
  /\ Arrives(c) /\ Len(turns) + 2 <= MaxTurns
  /\ AcquireSessionRun(Session)
  /\ \E l \in {"admit", "edit", "resume"} : Goto(c, l)
  /\ UNCHANGED <<row, dataVars, mine, base, historyVars>>

RefuseBusy(c) ==
  /\ Arrives(c) /\ Session \in active
  /\ Goto(c, "done")
  /\ UNCHANGED <<controlVars, row, dataVars, mine, base, historyVars>>

(* assert_session_run_active raises 499, or the request is refused. *)
GiveUp(c) ==
  /\ pc[c] \in {"admit", "edit", "resume", "retry"}
  /\ Goto(c, "release")
  /\ UNCHANGED <<controlVars, row, dataVars, mine, base, historyVars>>

AdmitMessage(c) ==
  /\ pc[c] = "admit"
  /\ InsertUserTurn(c, turns, 0, activeVersion)
  /\ BindSessionRunTurn(Session, Len(turns) + 1)
  /\ Goto(c, "generate")
  /\ UNCHANGED <<row, versions, activeVersion, base, anchor, left, seen>>

----------------------------------------------------------------------------
(* edit_user_message. *)

(* _version_for_turn_restore: the message's own version, else that of the  *)
(* newest turn before it that names one.                                   *)
NamedUpTo(i) ==
  {j \in 1..i : /\ turns[j].version # NoVersion
                /\ turns[j].status \in {"active", "superseded", "failed"}}

(* Slips for the mutation runs. *)
RestoreNewest(i) ==
  LET named == NamedUpTo(Len(turns)) IN
  IF named = {} THEN NoVersion
  ELSE turns[CHOOSE j \in named : \A k \in named : k <= j].version

RestorePoint(i) ==
  LET named == NamedUpTo(i) IN
  IF named = {} THEN NoVersion
  ELSE turns[CHOOSE j \in named : \A k \in named : k <= j].version

Editable(i) ==
  /\ turns[i].role = "user" /\ turns[i].status # "superseded"
  /\ RestorePoint(i) \in versions \cup {NoVersion}    \* else 404

(* Slips for the mutation runs. *)
MarkStale(i) ==
  [j \in DOMAIN turns |-> IF j >= i THEN [turns[j] EXCEPT !.status = "stale"] ELSE turns[j]]

Superseded(i) ==
  [j \in DOMAIN turns |-> IF j >= i THEN [turns[j] EXCEPT !.status = "superseded"] ELSE turns[j]]

(* One commit; with regenerate = false the edit ends here. *)
EditMessage(c) ==
  /\ pc[c] = "edit" /\ ~CancelSeen(Session)
  /\ \E i \in DOMAIN turns :
       /\ Editable(i)
       /\ InsertUserTurn(c, Superseded(i), i, RestorePoint(i))
       /\ activeVersion' = RestorePoint(i)
       /\ anchor' = RestorePoint(i)
  /\ seen' = seen \cup {"edit"}
  /\ \E l \in {"generate", "answer"} : Goto(c, l)
  /\ UNCHANGED <<controlVars, row, versions, base, left>>

----------------------------------------------------------------------------
(* resume_failed_turn. *)

(* failed_base_version: the version on the turn, else in its context. *)
FailedBase(j) == IF turns[j].version # NoVersion THEN turns[j].version ELSE turns[j].failedOn

(* Slips for the mutation runs. *)
ResumableAnyBase(j) == turns[j].role = "assistant" /\ turns[j].status = "failed"

Resumable(j) ==
  /\ turns[j].role = "assistant" /\ turns[j].status = "failed"
  /\ FailedBase(j) = activeVersion

(* The checks.  Whether the failed turn's portfolio may be retried is open.*)
CheckResume(c) ==
  /\ pc[c] = "resume" /\ ~CancelSeen(Session)
  /\ \E j \in DOMAIN turns : Resumable(j) /\ mine' = [mine EXCEPT ![c] = j]
  /\ Goto(c, "retry")
  /\ UNCHANGED <<controlVars, row, dataVars, base, historyVars>>

(* The retry is a new user turn with the wording of the failed one. *)
InsertRetry(c) ==
  /\ pc[c] = "retry" /\ ~CancelSeen(Session)
  /\ InsertUserTurn(c, turns, mine[c], activeVersion)
  /\ Goto(c, "generate")
  /\ UNCHANGED <<controlVars, row, versions, activeVersion, base, anchor, left, seen>>

(* _resume_active_planning_attempt, refused once there is a version. *)
ResumePlanningAttempt(c) ==
  /\ pc[c] = "resume" /\ ~CancelSeen(Session)
  /\ \E j \in DOMAIN turns : turns[j].waiting /\ turns[j].status = "active"
  /\ activeVersion = NoVersion
  /\ InsertUserTurn(c, turns, 0, activeVersion)
  /\ Goto(c, "generate")
  /\ UNCHANGED <<controlVars, row, versions, activeVersion, base, anchor, left, seen>>

----------------------------------------------------------------------------
(* _generate_for_user_turn. *)

Answer(c) == CHOOSE j \in DOMAIN turns : turns[j].answers = mine[c]

(* Name version v on the user turn, the assistant turn, or both. *)
Name(c, slots, v) ==
  [j \in DOMAIN turns |-> IF j \in slots THEN [turns[j] EXCEPT !.version = v] ELSE turns[j]]

FailedAnswer(c, v) ==
  [turns EXCEPT ![Answer(c)].status = "failed", ![Answer(c)].version = v]

Generate(c) ==
  /\ pc[c] = "generate"
  /\ base' = [base EXCEPT ![c] = activeVersion]
  /\ turns' = Append(turns, AssistantTurn(mine[c], activeVersion))
  /\ Goto(c, "work")
  /\ UNCHANGED <<controlVars, row, versions, activeVersion, mine, historyVars>>

(* Does c's message press the choice? *)
Presses(c) == mine[c] \in row.presses

(* The message presses the choice and claims its row.  An option that      *)
(* carries a base is refused when that is not session_before's version,    *)
(* except where an earlier press has written, which may have marked it     *)
(* consumed.  Later claims leave the row's base as it is.  A choice comes  *)
(* with a message: a retry carries none, nor does an edit as the interface *)
(* sends it.                                                               *)
PressChoice(c) ==
  /\ pc[c] = "work" /\ runTurn[Session] = mine[c] /\ ~Presses(c) /\ ~row.closed
  /\ \E b \in {base[c], NoVersion} \cup {row.base} :
       /\ row.presses # {} => b = row.base
       /\ b \in {base[c], NoVersion} \/ row.presses \cap versions # {}
       /\ row' = [row EXCEPT !.base = b, !.presses = @ \cup {mine[c]}]
  /\ UNCHANGED <<controlVars, dataVars, threadVars, historyVars>>

(* A reply without a write: some name the version it was about on the      *)
(* answer, some on both turns, most on none.                               *)
Reply(c) ==
  /\ pc[c] = "work"
  /\ \E slots \in {{}, {Answer(c)}, {mine[c], Answer(c)}} : turns' = Name(c, slots, base[c])
  /\ Goto(c, "answer")
  /\ UNCHANGED <<controlVars, row, versions, activeVersion, mine, base, historyVars>>

WaitForProvider(c) ==
  /\ pc[c] = "work" /\ base[c] = NoVersion
  /\ turns' = [turns EXCEPT ![Answer(c)].waiting = TRUE]
  /\ Goto(c, "answer")
  /\ UNCHANGED <<controlVars, row, versions, activeVersion, mine, base, historyVars>>

(* No usable result.  The tool loop names the version active by now. *)
FailGeneration(c) ==
  /\ pc[c] = "work"
  /\ \E v \in {NoVersion, activeVersion} : turns' = FailedAnswer(c, v)
  /\ Goto(c, "answer")
  /\ UNCHANGED <<controlVars, row, versions, activeVersion, mine, base, historyVars>>

(* An error, or 499 before the fence, leaves everything as it is, a version*)
(* not yet verified included; so it does for a choice whose executor has   *)
(* closed the row by then, or if the client's connection is lost.          *)
RaiseError(c) ==
  /\ pc[c] \in {"generate", "work", "write", "wrote", "accepted"}
  /\ seen' = IF pc[c] = "wrote" THEN seen \cup {"disturbed"} ELSE seen
  /\ Goto(c, "release")
  /\ UNCHANGED <<controlVars, row, dataVars, mine, base, anchor, found, left>>

FenceWrite(c) ==
  /\ pc[c] = "work"
  /\ BeginSessionRunWrite(Session)
  /\ Goto(c, "write")
  /\ UNCHANGED <<row, dataVars, mine, base, historyVars>>

(* The version the write is based on: the one the choice was offered on,   *)
(* or session_before's.  An empty plan accepts any.                        *)
ExpectedBase(c) == IF Presses(c) THEN row.base ELSE base[c]

CommitVersion(c) ==
  /\ pc[c] = "write" /\ activeVersion \in {NoVersion, ExpectedBase(c)}
  /\ versions' = versions \cup {mine[c]} /\ activeVersion' = mine[c]
  /\ Goto(c, "wrote")
  /\ UNCHANGED <<controlVars, row, turns, mine, base, historyVars>>

RejectStaleBase(c) ==
  /\ pc[c] = "write" /\ activeVersion \notin {NoVersion, ExpectedBase(c)}
  /\ turns' = FailedAnswer(c, NoVersion)
  /\ Goto(c, "answer")
  /\ UNCHANGED <<controlVars, row, versions, activeVersion, mine, base, historyVars>>

(* The answer names the version, and most paths name it on the message too.*)
AcceptVersion(c) ==
  /\ pc[c] = "wrote"
  /\ \E slots \in {{Answer(c)}, {mine[c], Answer(c)}} : turns' = Name(c, slots, mine[c])
  /\ anchor' = activeVersion
  /\ Goto(c, "accepted")
  /\ UNCHANGED <<controlVars, row, versions, activeVersion, mine, base, found, left, seen>>

(* Slips for the mutation runs. *)
RejectKeepingActive(c) ==
  /\ pc[c] = "wrote"
  /\ turns' = FailedAnswer(c, NoVersion)
  /\ Goto(c, "answer")
  /\ UNCHANGED <<controlVars, row, versions, activeVersion, mine, base, historyVars>>

RejectDroppingVersions(c) ==
  /\ pc[c] = "wrote"
  /\ activeVersion' = base[c] /\ versions' = {base[c]} \ {NoVersion}
  /\ turns' = FailedAnswer(c, NoVersion)
  /\ Goto(c, "answer")
  /\ UNCHANGED <<controlVars, row, mine, base, historyVars>>

(* The verifier rejects it: back to the version the run started from. *)
RejectVersion(c) ==
  /\ pc[c] = "wrote"
  /\ activeVersion' = base[c]
  /\ \E v \in {NoVersion, base[c]} : turns' = FailedAnswer(c, v)
  /\ Goto(c, "answer")
  /\ UNCHANGED <<controlVars, row, versions, mine, base, historyVars>>

(* _restore_session_to_version, or to the empty plan when the version the  *)
(* choice was offered on is gone.                                          *)
OfferedBase == IF row.base \in versions THEN row.base ELSE NoVersion

(* The versions an undo deletes: those of every message that pressed the   *)
(* choice so far, of lost runs included, and the one its row names as its  *)
(* result: by the time of the answer that may be the active one, whoever   *)
(* wrote it.                                                               *)
UndoneBy(c) ==
  {row.presses \cap versions} \cup
  IF pc[c] = "answer" THEN {(row.presses \cap versions) \cup ({activeVersion} \ {NoVersion, row.base})}
  ELSE {}

(* May a press, this one or a lost one, have left a patch and no version?  *)
LeftAPatch(c) ==
  \/ pc[c] = "write"
  \/ row.presses # {mine[c]} /\ \E d \in Calls : pc[d] = "crashed"

(* _cancel_fallback_choice_execution, on an error or a cancellation while  *)
(* c's claim stands.  If there is anything to undo the session returns to  *)
(* the version the choice was offered on; the turns go on naming what is   *)
(* deleted.                                                                *)
UndoChoice(c) ==
  /\ pc[c] \in {"work", "write", "wrote", "accepted", "answer"} /\ Presses(c)
  /\ \E undone \in UndoneBy(c) :
       /\ versions' = versions \ undone
       /\ \/ /\ undone # {} \/ LeftAPatch(c)
             /\ activeVersion' = OfferedBase /\ anchor' = OfferedBase
             /\ seen' = seen \cup {"undo"}
          \/ undone = {} /\ UNCHANGED <<activeVersion, anchor, seen>>
  /\ Goto(c, "release")
  /\ UNCHANGED <<controlVars, row, turns, mine, base, found, left>>

FinishAccepted(c) ==
  /\ pc[c] = "accepted"
  /\ Goto(c, "answer")
  /\ UNCHANGED <<controlVars, row, dataVars, mine, base, historyVars>>

(* finalize, and the last assert_session_run_active: 200 or 499. *)
AnswerCall(c) ==
  /\ pc[c] = "answer"
  /\ Goto(c, "release")
  /\ UNCHANGED <<controlVars, row, dataVars, mine, base, historyVars>>

(* finally.  The row of a pressed choice is settled by now and nothing     *)
(* undoes it any more, or another message may claim it again               *)
(* (failed_retryable, or executing until its lease runs out).              *)
Release(c) ==
  /\ pc[c] = "release"
  /\ ReleaseSessionRun(Session)
  /\ row' \in {row} \cup IF Presses(c) THEN {[Unclaimed EXCEPT !.closed = TRUE]} ELSE {}
  /\ left' = IF OnlyEdited /\ mine[c] \in DOMAIN turns /\ turns[mine[c]].role = "user"
             THEN [left EXCEPT ![mine[c]] = activeVersion] ELSE left
  /\ Goto(c, "done")
  /\ mine' = [mine EXCEPT ![c] = 0] /\ base' = [base EXCEPT ![c] = NoVersion]
  /\ UNCHANGED <<dataVars, anchor, found, seen>>

----------------------------------------------------------------------------
(* The environment. *)

CancelRun ==
  /\ RequestSessionRunCancel(Session)
  /\ UNCHANGED <<row, dataVars, threadVars, historyVars>>

UserSave(m) ==
  /\ m \notin versions
  /\ versions' = versions \cup {m} /\ activeVersion' = m /\ anchor' = m
  /\ seen' = seen \cup {"save"} \cup IF Session \in active THEN {"disturbed"} ELSE {}
  /\ UNCHANGED <<controlVars, row, turns, threadVars, found, left>>

Restart ==
  /\ Cardinality({c \in Calls : pc[c] = "crashed"}) < MaxCrashes
  /\ \E c \in Calls : pc[c] \in Holding
  /\ LoseRegistry
  /\ pc' = [c \in Calls |-> IF pc[c] \in Holding THEN "crashed" ELSE pc[c]]
  /\ mine' = [c \in Calls |-> 0] /\ base' = [c \in Calls |-> NoVersion]
  /\ seen' = seen \cup {"disturbed"}
  /\ UNCHANGED <<row, dataVars, anchor, found, left>>

(* Nobody is at work and the bound allows no further call. *)
Over ==
  /\ \A c \in Calls : pc[c] \in {"idle", "done", "crashed"}
  /\ (\E c \in Calls : pc[c] = "idle") => Len(turns) + 2 > MaxTurns
  /\ UNCHANGED vars

Step(c) ==
  \/ Enter(c) \/ RefuseBusy(c) \/ GiveUp(c) \/ AdmitMessage(c) \/ EditMessage(c)
  \/ CheckResume(c) \/ InsertRetry(c) \/ ResumePlanningAttempt(c)
  \/ Generate(c) \/ PressChoice(c) \/ Reply(c) \/ WaitForProvider(c)
  \/ FailGeneration(c) \/ RaiseError(c)
  \/ FenceWrite(c) \/ CommitVersion(c) \/ RejectStaleBase(c) \/ AcceptVersion(c)
  \/ RejectVersion(c) \/ UndoChoice(c) \/ FinishAccepted(c) \/ AnswerCall(c) \/ Release(c)

Next ==
  \/ \E c \in Calls : Step(c)
  \/ CancelRun
  \/ \E m \in Saves : UserSave(m)
  \/ Restart \/ Over

Spec == Init /\ [][Next]_vars

----------------------------------------------------------------------------
(* Properties. *)

(* Step "the message at i is edited". *)
EditOf(i) ==
  /\ Len(turns') = Len(turns) + 1
  /\ turns'[Len(turns')].role = "user" /\ turns'[Len(turns')].parent = i
  /\ turns[i].role = "user"

(* The version an edit of the message at i may return to: the one active   *)
(* when the message came or the one its run left.                          *)
SnapshotOf(i) == {found[i], left[i]}

(* Claim of the product's requirements: editing a message returns the      *)
(* itinerary to the snapshot associated with that turn; here of            *)
(* conversations in which nothing went wrong and the user only sent and    *)
(* edited messages.                                                        *)
EditReturnsToMessage ==
  [][\A i \in DOMAIN turns :
       EditOf(i) /\ seen \subseteq {"edit"} => activeVersion' \in SnapshotOf(i)]_vars

(* It does until the first edit, whichever answers failed or were rejected *)
(* or retried since: as long as no branch was abandoned, and nothing was   *)
(* saved by the user, undone or lost, the turns name enough versions.      *)
UndisturbedEdit ==
  [][\A i \in DOMAIN turns : EditOf(i) /\ seen = {} => activeVersion' \in SnapshotOf(i)]_vars

(* A superseded turn is history: no run that was under way when the edit   *)
(* came, and no later one, fails it, answers it or names a version on it.  *)
SupersededIsFinal ==
  [][\A j \in DOMAIN turns : turns[j].status = "superseded" => turns'[j] = turns[j]]_vars

(* An answer directly follows the message it answers, so the user turn     *)
(* that resume_failed_turn finds before a failed answer is the one that    *)
(* failed.                                                                 *)
AnswersFollow ==
  \A j \in DOMAIN turns : turns[j].role = "assistant" =>
    turns[j].answers = j - 1 /\ turns[j - 1].role = "user"

(* A retry generates on the version its failed answer was about, or on one *)
(* the user saved between the check and the generation.                    *)
ResumedOnItsBase ==
  [][\A c \in Calls :
       /\ pc[c] = "generate" /\ pc'[c] = "work"
       /\ turns[mine[c]].parent > 0 /\ turns[turns[mine[c]].parent].role = "assistant"
       => base'[c] \in {FailedBase(turns[mine[c]].parent)} \cup Saves]_vars

(* Every live message can be edited: the version its edit would restore    *)
(* still exists, as long as no choice was undone after its version had     *)
(* been named on its turns.                                                *)
MessagesStayEditable ==
  "undo" \notin seen =>
    \A i \in DOMAIN turns : turns[i].role = "user" /\ turns[i].status # "superseded" => Editable(i)

(* When no run is at work the active version is the one last accepted,     *)
(* restored or saved: refused, rejected, cancelled and failed runs, edits  *)
(* whose regeneration failed included, leave the plan as they found it.    *)
(* Three things can break it: a crash, an error between the version's      *)
(* commit and its verification, and a save that fell into a run.           *)
PlanIsAccountedFor ==
  Session \notin active /\ "disturbed" \notin seen =>
    activeVersion = anchor
============================================================================
