# Trip: a TLA+ model of the agent backend

The repository is a travel planner: a chat agent (FastAPI, SQLite, threads) that drafts,
compares, adopts and edits versions of an itinerary. Its hard part is not what the agent
says but what survives: a session lease kept in process memory, an idempotency journal
and choice claims kept in SQLite, and an itinerary writer whose one logical write is
several commits with provider calls in between. These modules model that part, from the
HTTP call to the committed version; what a language model or a map provider answers is a
free choice in them.

Paths below are relative to `src/backend/src/`, and services are in `services/` there.

## The system

| Component | State | Operations | Correct when |
|---|---|---|---|
| Run control (`agent_run_control.py`) | four in-memory maps and sets under one lock: active, bound turn, cancelled, write-fenced | acquire, bind, release, request cancel, begin write, prewrite guard, assert active | one run per session; a run is never both cancelled and fenced; no lease leaks |
| Ingress journal (`agent_ingress_journal.py`) | status of each client request id, in the user turn | claim, update, replay | a request is generated at most once; a success is durable |
| Choice executions (`agent_service.py`, `agent_choice_executions`) | one row per opaque choice: status, owner, versions, dispatch fence | claim, reclaim after 120 s, retry, begin dispatch, finish, cancel, fail, settle unstarted | one owner; a settled choice stays settled; its write is accounted for |
| Message lifecycle (`agent_service.send_message`) | the stage of each call, sessions' active version | admit, generate, write, verify, complete, fail, cancel | the four tables agree when the call returns |
| Itinerary writer (`itinerary_patch_service.py`, `itinerary_snapshot_service.py`) | plan tables, versions, patches | apply_patch, select_route, optimize_routes, restore, save_version | versions form one line; no edit is lost; the active version exists |
| Timeline mutations (`timeline_mutation_transaction_service.py`, `timeline_write_lease.py`) | plan lease, mutation record | bind, patch, verify, compensate | a rejected mutation leaves no trace |
| Plan portfolios (`plan_portfolio_store.py`, `plan_proposal_commit_service.py`) | portfolio status, selection, base, proposals | load, expire, claim, release, settle, reconcile, recover | one version per choice; a committed selection is final |
| Simple Direction frontier (`simple_direction_frontier_service.py`, `plan_portfolio_store.py`) | the places a comparison may still use, the claims on them | claim, resume, settle, close | one claim at a time; a failed search can be retried |
| Conversation branching (`edit_user_message`, `resume_failed_turn`) | turns as rows: status, parent, version; active version | edit, resume | an abandoned branch stays abandoned; the plan matches the conversation |
| Turn coordinator and controller (`agent_turn_coordinator.py`, `agent_autonomy_service.py`) | cycle and write counters, last action; the pool of model calls with its slots | observe, decide, execute, stop; submit, time out, give back | every turn ends; slots are conserved; the server drafts alone only after the model had its chance |
| AMap call budget (`amap_call_budget.py`) | leases of derived work, limits, ledger, under one lock | authorise routes, authorise a nearby search, acquire | authorised work can be paid for; nothing is asked twice |
| AMap rate limiter and cooldown gate (`amap_rate_limiter.py`) | deque of admissions, gate lock, cooldown | acquire, lease, mark rate limited | the pace holds; nothing opens after a refusal |
| Portfolio briefs, route and nearby fetches (`portfolio_brief_worker_pool.py`, `route_service.py`, `map_poi_service.py`) | worker threads, caches, request semaphore | authorise, look up, spend, send, answer | briefs share a budget without cheating each other |
| Visit-facts refresh (`proposal_visit_facts_service.py`) | keyed locks with user counts, fact rows | refresh, expire, check at adoption | one lookup per proposal at a time |
| Planning heuristics, verifiers, intent router, providers, preferences, maps, frontend, CLI, evals | own rows or none | text and provider data in, content out | content, not protocol |

How they interact. A message request runs in a worker thread with its own SQLite
connection. `send_message` looks the request up in the journal, takes the session lease,
claims the journal, binds the turn, generates, and in `finally` releases the lease. Within
generation a pressed choice is claimed in the executions table and either a proposal is
adopted (portfolio, then writer, then portfolio again) or the writer is called directly.
The cancel endpoint, the versioned patch API, route selection and version restore come
from other requests and share only the database, the registry and the plan lease with it.
A streaming client that goes away closes the connection under the thread that still works.
An edit and a resume enter by endpoints of their own but take the same session lease and end
in the same generation. What runs *inside* a generation meets other sessions' work only in
process-wide resources: the control loop in the pool of model calls, the briefs of a
portfolio in a call budget and, with the place captures, in the limiter of the provider key.
Visit facts are refreshed by requests of their own beside the adoption that reads them.

What is hard: a commit is never the whole operation, so a crash or a failure falls between
two of them (claim and version, version and portfolio, version and execution row, patch
and version); leases live in memory while claims survive; a lease expires while its owner
works; and some writers take neither lease. Resources shared by threads are the other half:
a caller gives up at its deadline while its call goes on in a worker and keeps its slot;
two briefs derive the same work and must not pay twice; a lock object is dropped while
somebody still waits for it.

## Modules

| Module | Models | State and actions against the code |
|---|---|---|
| `SessionRunControl` | `agent_run_control.py` | a variable per map or set, an operator per function; each is one critical section |
| `AgentIngress` | `agent_ingress_journal.py` | `journal[r]`: absent, claimed, completed, failed (with 499 or another status, which a replay repeats); `Claim`, `Settle`, `ReplayAnswer` |
| `ChoiceExecutions` | rows of `agent_choice_executions` | one record per choice, an operator per committed transaction; `kind` says what the code asks of a choice: strict recovery, a guide binding, closed by the turn instead of an executor (`Controller`) |
| `AgentTurn` | `send_message` composed from the three above | `pc[c]` is the stage of a call, one action per step between commits; cancel, user save, error, lost connection and restart interleave everywhere. A write is two commits, the patch row and the version |
| `MCAgentTurn` | - | instance: two deliveries of one request and another request |
| `AgentTurnProofs` | - | TLAPS proofs about `AgentTurn` |
| `ItineraryWriter` | all writers of one plan | the write `AgentTurn` takes in two steps: lease, base check, first commit, snapshot, number, second commit, verification and compensation; lease-free writers beside it |
| `ItineraryWriterProofs` | - | TLAPS proofs about `ItineraryWriter` and that it implements `VersionHistory` |
| `VersionHistory` | the writers' promise | the abstract specification: one line of versions, append and take back |
| `ProposalAdoption` | `_execute_selected_plan_proposal`, the commit service and the store | uses `ChoiceExecutions` and `VisitFacts`; one action per commit of an adoption, with the recovery of the next press and the undo of a failed one, for either workflow |
| `ProposalAdoptionProofs` | - | TLAPS proofs about `ProposalAdoption` |
| `VisitFacts` | `proposal_visit_facts_service.py` | the registry of keyed locks (`lockOf`, `users`), one record per fact row; a refresh enters, looks up, saves, releases, leaves |
| `MCProposalAdoption` | - | instance with symmetric proposals and refreshes |
| `VisitFactsProofs` | - | TLAPS proofs about `VisitFacts` inside `ProposalAdoption` |
| `ConversationBranching` | `edit_user_message`, `resume_failed_turn` and the messages around them | `turns` is the table by `turn_index`; a call's stages are those of `AgentTurn` plus `edit`, `resume`, `retry`; `row` is the execution row of a choice any message may press; uses `SessionRunControl` |
| `ConversationBranchingProofs` | - | TLAPS proofs about `ConversationBranching` |
| `DecisionSlots` | `_decision_executor` and `_decision_worker_slots` | permits, queue, and the stage of every call; its own `SlotsSpec` is what a user of the pool may do |
| `TurnControl` | `AgentTurnCoordinator.run` and `AgentAutonomyController.decide` | a turn's stages in a cycle: observe, full, repair, lite, settle, gate; messages under classification compete for the slots |
| `TurnControlProofs` | - | TLAPS proofs about `TurnControl` |
| `AmapCallBudget` | `amap_call_budget.py`, budget of a route preflight | leases, limits and ledger; each method is one step under the budget's lock; `BudgetSpec` is what any number of callers may do |
| `AmapRateGate` | `amap_rate_limiter.py` | admissions and cooldown by age in ticks; beside the code's deque a history of real admissions; `Since` is the loop that drops old calls from the front |
| `MapCalls` | briefs, route fetches, nearby searches and place captures over the two | one action per step between locks, semaphore and network |
| `DirectionFrontier` | the frontier and its claims, in the summary of a portfolio | `frontier` and `claim[e]` are the two JSON objects; one action per accepted call of the store. A refused call raises and changes nothing. Whether a choice may be pressed again is decided above (`ChoiceExecutions`) and left open |
| `DirectionFrontierProofs` | - | TLAPS proofs about `DirectionFrontier` |
| `MCMapCalls`, `MapCallsProofs` | - | instance with symmetric legs, briefs and captures; TLAPS proofs |

`AgentTurn`, `ConversationBranching` and `ProposalAdoption` look at the same call at three
depths. The first knows who may be in a session at all and what became of the request and
its choice. The second follows the conversation the calls grow: what an edit supersedes and
restores, what a retry starts from. The third takes the session lease for granted (proved of
`AgentTurn`: `LeaseIsExclusive`) and follows one kind of executor through its commits, with
visit facts being refreshed beside it. `ItineraryWriter` opens up the write, `TurnControl`
the loop that decides what to do, `MapCalls` the provider calls of a generation.

Abstractions that matter when reading the modules:

- A version is named after the request, turn, writer or press that made it. In
  `ItineraryWriter` the content of a plan is the set of edits it contains, which is enough
  to tell a lost edit from a kept one.
- Expiry of a lease, a portfolio, a fact, a cached answer or a call's deadline is a free
  choice, never a clock: whatever the time, the modelled step may or may not find it
  expired. Only `AmapRateGate` has time, in ticks, because its properties are about it.
- A verifier accepts or rejects freely, and a decision of the model is any decision. An
  error may be raised at every stage that calls something that can fail.
- A SQLite transaction is one step, and so is a critical section under a Python lock. A
  lost write lock is a failure of the step.
- A message may write twice in the control loop; in `AgentTurn` its versions count as one.
- Who pressed a choice is a set of requests, turns or presses: the code finds them by the
  `executionId` that `_attach_choice_execution_identity` leaves in their stored request.

Facts of the code the modules rest on:

- Cancellation reaches a call only at the points where it asks for it
  (`assert_session_run_active`, the fence); the flags of the run context that carry it to
  the planner are read by the coordinator alone.
- A slot of the pool of model calls is given back by the done callback of the future, which
  may run after the waiter has woken: a turn can find the pool full with its own finished
  call. A running call that timed out keeps its worker and its slot.
- A scoped lease of a leg closes the leg's unscoped lease; a failed lookup of visit facts
  is kept as a fresh row like a successful one; an edit restores what turns record, and the
  user's own saves are recorded on no turn.
- A redelivery that waited behind the lease finds a journal `claimed` only after a lost run.
  Its replay raises inside the `try` of `send_message`, where the turn is known already: it
  cleans up the lost run's choice and turns the journal to `failed` (828-831, 896-906).
- A cancelled or failed choice is undone for everybody who ever claimed its row: the undo
  deletes the patches and versions of all linked turns and restores the version the choice
  was offered on, provided one of them left a patch or a version (13481-13551). A row that
  another press has taken over is out of reach of the redelivery above, which looks for rows
  by turn; so a lost run's version can stand beside a journal that says failed, until the
  other press fails too. `ChoiceWriteAccounted` names that exception.
- Choices of the control loop are closed by a hook after generation, which may find the turn
  failed although a version was committed (a provider failure in a resumed step). What
  `ChoiceWriteAccounted` says of standing versions is therefore about choices with an
  executor. Their rows end `succeeded`, `failed_retryable` or, after bounded attempts,
  `failed_terminal`, which no later press claims.
- An option that carries a base is refused when another version is active, unless an earlier
  press consumed it (`agent_context_builder_service.py` 606-633). A retry carries no choice,
  and neither does an edit as the interface sends it; neither path has the choice's clean-up.
- An error after an adoption's selection is settled and before its row is closed
  (16208-16396) takes the version back and leaves the portfolio settled; so does a press
  that fails before its commit on a row an earlier press has written for.
- An invalid or truncated full answer goes to the lite prompt when second prompts are
  configured off or there is no time for one (1857-1935, 2033-2066); a truncated answer for
  whose second prompt only the time is missing counts as repaired, and does not.
- Today's route preflight gives each budget one brief at a time; its pool allows two, and
  `MapCalls` checks two.
- With the production values of the limiter (3 calls per second, 0.35 s apart) the minimum
  interval alone implies the window. The instance takes values at which both bind.

## Runs

| Run | Instance | Question and answer |
|---|---|---|
| `turn_free` | 3 calls, 2 requests (one delivered twice), 1 session, 1 user save, 1 crash | lease exclusive and released, fence against cancel, at most one generation, durable success: hold |
| `turn_choices` | the same, both requests press one choice: with an executor, the same under strict recovery, closed by the control loop's hook, or a guide choice under strict recovery | no claim without owner, nothing left of a cancelled choice, writes of settled requests accounted for, strictly recovered business started once, settled choices stable: hold |
| `turn_cancel_zero_write` | the instance of `turn_free` without a crash | "499 means zero write": violated by a timeline mutation |
| `branching` | 3 calls (messages, edits, retries in any order), 6 turns, a choice any message may press, 1 user save, 1 restart | superseded turns final, messages editable, plan accounted for, a first edit returns to its message, a retry runs on its base: hold |
| `branching_edit` | 4 calls, nothing fails | an edit returns to the message's own version: violated by the second edit |
| `writer` | 1 restart; either 2 patches and 2 mutations, or a writer of each kind | with leased writers alone: refines `VersionHistory`, no lost edit, newest is active, rollback leaves no trace; with both populations: the active version exists, every write ends: hold |
| `writer_stale` | a patch and a restore | a stale base never moves the active version: violated |
| `adopt` | 2 proposals, 3 requests in any mix of presses and refreshes, either workflow, strict or not, 1 user save, 1 crash | one lookup at a time, one version per choice, success backed, no version the portfolio does not name, no orphaned selection, no adoption on another base, a commitment is final: hold |
| `adopt_twice` | 2 presses, 1 crash, simple direction without strict recovery | one version per choice: violated |
| `controller` | a turn with 3 cycles and 1 write, a message classified again and again, 2 slots, 1 worker, 3 call identities | slots conserved, the server drafts only after both prompts left, one planning attempt, every turn ends: hold |
| `map_calls` | 2 briefs, 2 legs, 1 place, 1 repair scope, 2 authorisations, 2 captures; 2 calls per 5 ticks, 2 apart, cooldown 2 | authorised work can be paid for, no query leaves twice, pace in every window, no capture opens in a cooldown: hold |
| `frontier_retry` | 3 places, 2 per direction, 2 pages; the first turn and 2 choices | a retried claim can be settled: violated |

Why these bounds. Races on a lease, a journal row, a claim, a lock or a budget need two
parties, and the third call is the redelivery, the recovering press or the edit of an edit;
a second crash adds only another return to a state the first crash reaches, because nothing
but the tables survives it. A lost edit or a fork of the version line needs two writers
between which a third commit falls; two of each leased kind give four. Which writers
are there is chosen in the initial state (`Populations`). Six turns hold a
message with its answer, the edit of it, and one more call. For the keyed locks three
refreshes matter: one that leaves, one that waits on the lock it drops, one that arrives.
Two slots and one worker give a queued call, a running one and a refused one. Two briefs
can meet on one leg at every step of a fetch. The window of 5 ticks is longer than two
intervals, so that neither limit implies the other. `MaxCrashes`, `MaxRequests`, `MaxTurns`
and `MaxPhases` are the only bounds on counters; `MaxCycles` and `MaxWrites` are parameters
of the code.

`adopt` and `map_calls` use symmetry, over proposals and refreshes and over legs, briefs and
captures: no definition tells their members apart, and these runs check invariants and
action properties only.

The largest runs reach 6.2 million distinct states (`turn_choices`), 5.2 million (`branching`)
and 1.2 million (`adopt`); `turn_free` and `controller` stay below half a million.

`Over` steps let a behaviour stop only when every call or request is through, so TLC's
deadlock check is on in every run but `frontier_retry`, where every claim may be settled and
nothing be left to do: nobody waits for somebody who cannot move. In
`TurnControl` and `MapCalls` messages and time go on for ever, and `TurnsEnd` says what the
deadlock check cannot.

### What the violations say

Each violating run checks a sentence the repository says of itself.

- `turn_cancel_zero_write`: `begin_session_run_write` says a run that ends with 499 wrote
  nothing. Only source type `agent` crosses the fence in `apply_patch`; a local timeline
  mutation uses another one. A cancellation accepted while it writes turns into a 499 over
  a committed, active version.
- `branching_edit`: the product requirements say that editing a message returns the
  itinerary to the snapshot associated with it. The edit looks for the version on the
  message's own turn, then on the newest earlier turn that names one, superseded turns
  included, and its new turn does not record what was restored. The edit of an edit can
  therefore restore a version of the branch the first edit abandoned. `UndisturbedEdit`, in
  `branching`, is the part of the requirement that does hold.
- `writer_stale`: the base is compared once and the version saved after provider calls;
  a restore, which takes no lease, fits in between. Route selection, optimization and
  restore take no lease, although the docstring of `timeline_write_lease` says it serializes
  every write entry of a plan.
- `adopt_twice`: an adoption whose execution row cannot be closed is reported as a success
  and the row stays `executing`. A simple direction's portfolio is open again on the new
  version, so after 120 seconds the same choice is adopted once more. With strict recovery
  or a portfolio that closes this cannot happen, which is what `OneVersionPerChoice` says.
- `frontier_retry`: the store says that a provider failure releases the claim and retains the
  same assignment for an explicit retry. Recording the failure changes the frontier and its
  fingerprint; the retained assignment keeps the old one, so what the retry brings back is
  refused as stale, and so is its closing. The repository's test of the retry ends with the
  resumed claim. `FailureIsForGood` proves that no other call helps. The run is about the
  store: under strict recovery the press is refused before it gets there, and the comparison
  stays blocked all the same.

### Fairness

`LeaseReleased` and `EveryWriteEnds` assume weak fairness of each thread's own steps and
of nothing else: no user presses, cancels or saves out of duty. The code justifies it:
threads are scheduled by the operating system, provider calls have deadlines, a refused
session lease answers 409 instead of waiting, and `timeline_write_lease` is a context
manager. A waiter for the plan lease gets it under weak fairness because each writer takes
it once. `TurnsEnd` assumes less: weak fairness of the turn's own thread, whose steps
include its deadlines. Neither a worker nor the provider is assumed to answer, and the other
messages may take every slot.

## Proofs

Every invariant and action property the passing runs check is also a theorem, for every
value of the constants. Each proof module EXTENDS the module it is about and assumes only
the named assumptions on the constants there. Most say that names are distinct and bounds are
numbers. Two say something about the system: `ChoicesInOneSession` (`AgentTurn`), that requests
which press one choice belong to one session, because the rows of `agent_choice_executions`
are keyed by session, source turn and choice; and, in `AdoptionConstants`, that no claim of a
proposal carries a guide binding, because the guide choices have executors of their own.
Restarts, calls, saves and turns are bounded by parameters of any size.

The properties themselves are seldom inductive. Each proof below rests on an inductive
invariant, which TLC checked on the run of that module (as an invariant, with the run's
bounds) before it was proved. The proofs have the same shape everywhere: the initial state,
one step per action (the steps that leave the part alone together), and PTL at the end.

### A turn: `AgentTurnProofs`

For any number of sessions, requests, calls, choices and restarts.

- `Typing` (`TypeOK`): one lemma per operator of the choice table (`ClaimsTyped` to
  `CancelTyped`, `UndoTyped`), then one step per action.
- `Safety`: the inductive invariant `IInv` of lease, fence and journal, from which
  `LeaseIsExclusive`, `FenceIsExclusive`, `NoSecondGeneration`, `FencedIsNotCancelled`,
  `SuccessIsJournalled`. That a request is generated at most once needs to know that a call
  about to generate found a journal without generation (`GenerationPending`), which needs that
  the journal of a call at work is claimed and that nobody else works on the session
  (`WorkingIsClaimed`, `LeaseExclusive`); that a fenced run is never answered 499 needs that it
  is still in the registry's fence and not on the cancelled path (`CrossedIsFenced`); that an
  answer is backed by the journal needs that no answer is given before it is written
  (`UnansweredWhileRunning`, `AnswerIsJournalled`).
- `ChoicesSafe`: the invariant `ChoiceInv` of the choices, on top of `IInv`, from which
  `ClaimsAreOwned`, `ChoiceWritesAreAccounted`, `StrictDispatchIsOnce`,
  `SettledChoicesAreStable`. A call that works for a choice still has its claim
  (`ClaimIsKept`): the 120 seconds after which another press may take a claim over run out
  only for calls that are gone, since a second press of a session at work gets no lease. The
  accepted write of an executor's request is named by the choice's row, or the row still waits
  to be settled or undone, or a press took it over after a run was lost (`WriteIsPending`). What
  an undo deletes is bounded by `RowsConsistent`: the base of a choice is no version of those who
  press it, and a row that is fresh or cancelled has nothing of theirs. A request that has not
  committed is named nowhere and has written nothing (`UnwrittenIsNowhere`), which is what lets
  a redelivery that lost its claim clean up after the winner without touching anybody at work.

### The writers: `ItineraryWriterProofs`

For any writers of each kind, any populations and restarts. `AllInv` holds of all of them:
its core is that under the lease the base checked at the beginning is there to be returned to
(`BaseIsThere`), from which `ActiveVersionExists`. `LeasedInv` holds while every writer takes
the lease: the base is still the active version at the commit (`BaseIsActive`), the plan a
writer captured and the number it drew, both outside the transaction that saves them, are
still true then (`DraftIsFresh`), and an edit gets into somebody else's version only after it
was accepted (`NoTrace`). From it `EditsAreKept`, `ActiveHasNewestNumber`,
`RollbackIsComplete`, and `WritersKeepOneLine`: the writers implement `VersionHistory`, the
commit as an append to the active version, the compensation as taking the newest back, every
other step as a stutter. Without the lease `LeasedInv` fails, which is `writer_stale`.

### Adoption: `ProposalAdoptionProofs` and `VisitFactsProofs`

For any proposals, presses, saves, crashes and kinds of claim, with visit facts being
refreshed beside it.

- `AdoptionSafe`: the invariant `AdoptionInv` ties the four tables together at every stage of
  a press (`PressAtWork`, `RowsOfChoices`, `SavedIsVersion`). What the next press's recovery
  relies on is that a version the portfolio does not know of is the newest on record of the
  proposal it is committing (`UnsettledIsOnRecord`), and that before a press takes the
  selection all earlier versions are settled (`OthersAreSettled`). From it
  `ChoicesAreAdoptedOnce`, `SuccessIsReal`, `VersionsAreFound`, `SelectionsAreGivenBack`,
  `AdoptionTakesTheOfferedBase`, `CommittedStaysCommitted`. The history variable `undone` tells
  a selection that never had a version from one whose version a later press took back.
- `LookupsAreShared` (`LooksUpOnce`), from `FactsInv`: the user count of a key is the number of
  refreshes between entering and leaving (`Counted`), all users of a key wait on the lock in
  the registry (`Shared`), and a lock has one holder (`HeldByOne`). The count is what makes
  dropping the lock safe.

### The conversation: `ConversationBranchingProofs`

For any calls, saves, length and restarts. `BranchInv` says which rows the run at work owns
(the last two, live: `RunsOwnTurns`), that messages and answers alternate (`TurnsInLine`), and
where the accepted version is while a run holds its own (`AcceptedIsKept`). From these
`ConversationTyped`, `AnswersFollowMessages`, `LiveMessagesAreEditable`, `PlanIsAccounted`,
`SupersededStays` and, with the base a retry waits on (`RetriesKeepTheirBase`),
`RetriesResumeOnTheirBase`. `FirstEditsReturn` needs two more parts: as long as nothing has
disturbed the conversation, the last version its rows name is the active one or the one the
run at work returns to (`LastIsActive`), and a message's row names the version it was left
with or, naming none, was met by what an edit of it restores (`MessagesKeepTheirSnapshot`).
An undo deletes versions the turns go on
naming, so what is said of named versions holds until the first undo that takes something back.
An edit looks for the newest row that names a version; `Largest`, from the library's
well-founded order on the naturals, is why there is one.

### The control loop: `TurnControlProofs`

For any pool, any number of turns and messages, any bounds.

- `PoolConservesSlots`: permits left and calls holding one are `MaxSlots` (`SlotsInv`), from
  the one fact that a call gives its slot back once (`GivenBack`).
- `TurnsUseThePool`: `Spec => SlotsSpec`, the refinement of the pool's own specification. It
  needs `WaitInv`: no call belongs to two waiters, so nobody gives up somebody else's call.
- `ServerDraftFollowsPrompts` and `OneAttemptPerTurn`, from `LoopInv`: an attempt recorded as
  having reached the provider was heard by it (`HeardOf`), although it is recorded after the
  wait is over and the call goes on in another thread (`NoStrayAnswer`), and a turn that is
  still in the loop has not persisted an attempt.

### Map calls: `MapCallsProofs`

For any legs, places, repair scopes, briefs, captures and limits.

- `CallsImplementBudget`: `Spec => BudgetSpec`. Briefs and fetches touch the budget only
  through its operations; the callers' typing (`CallersInv`) is all it needs.
- `LeasesArePaid` (`RouteWorkFits`), from `EnvelopeInv`, an invariant of the budget alone: the
  route limit is the number of leased queries, what was spent is what was asked, and the share
  of nearby searches in the total is theirs alone. Without the last part a nearby search could
  eat the envelope of a leg.
- `NothingIsAskedTwice` (`AskedOnce`), from `FetchesPay` and `SearchesPay`: at most one fetch of
  a leg and scope is between paying and sending, what it pays for has not been sent, and what
  was sent is in the ledger.
- `CallsKeepTheirPace` (`Paced`), from `PaceInv`: the deque is the calls of the window behind
  calls that have left it, and any two of the window's calls, not just neighbours, are at
  least the minimum interval apart. `SinceDrops` says what the limiter's loop leaves.
- `RefusalsStopCaptures`, from `GateInv`: a refused capture holds the gate until it has marked
  the cooldown.

### The frontier: `DirectionFrontierProofs`

For any number of places, pages and executions: `OneClaim`: `Spec => []OneAtATime`, and
`FailureIsForGood`: `Spec => NeverRecovered`. Both come from `IInv`, whose second half is that
every assignment was made from a frontier that waited for nobody (`MadeWhileOpen`): its stamp
can match no frontier that does.

### Only model-checked

The liveness properties `LeaseReleased`, `EveryWriteEnds` and `TurnsEnd` (fairness and ENABLED
are out of the prover's reach), the deadlock checks, and the five violations, which are
counterexamples.

## Not modelled

- The compatibility frontier of comparisons without a qualification, and the choice rows of
  the executions that claim a frontier.
- Messages without a request id: they have no journal.
- What the executors of theme choices do after their writer's commit: an error there marks the
  row retryable and keeps the accepted version (9640-9760). A fault while a completed answer is
  read back for a redelivery. A restart between closing a controller's row and consuming its
  option, which only lets the next press be refused later than it could be.
- Choice rows written by older releases, which are repaired from evidence kept elsewhere,
  and checkpoint batches; portfolios of older releases without a base version.
- How a portfolio is generated, ranked, shown and paged; route evidence and readiness rules.
- `refresh_routes`, `attach_planning_run`, the idempotency table of timeline mutations.
- `copy_to_adopted_plan`, which copies facts after the commit and may fail without harm.
- The fixed budgets of discovery, with their text and detail allowances; the cooldown of the
  map service's own lookups, which is a free choice; the partial-plan expansion of the
  controller and the arbitrator's rules, whose outcome is a free choice. A schema is repaired
  at most once, as configured by default.
- A work item cancelled while it is queued stays in the executor's queue until a worker skips
  it; the model removes it at once, which no caller can tell.
- A second process on the same database: registry, locks, pool, limiter and plan lease are
  process-local, and the repository's own start command runs one uvicorn process.
- Planning heuristics, verifiers, patch content, prompts and answers, preferences, CLI,
  frontend, evals. They are by far the largest part of the repository, and the reason why the
  modules map a small share of its lines: they compute content from provider data, in one
  thread, over free text, places and timetables, with thresholds tuned by evaluation. They
  keep no state between calls that another actor could disturb, a small instance of their
  inputs would be an invented one, and their reference definition would be the code again.
  `PROJECT.json` lists each with its reason.

## Plan

Done, in order of what a mistake would cost: `SessionRunControl`, `AgentIngress`,
`ChoiceExecutions` and `AgentTurn`; `ItineraryWriter` and its abstract `VersionHistory`;
`ProposalAdoption` with `VisitFacts`; `ConversationBranching`; `DecisionSlots` and
`TurnControl`; `AmapCallBudget`, `AmapRateGate` and `MapCalls`; `DirectionFrontier`; the proofs
of all of them.

Left:

1. A history variable for the verdict of the final verifier in `ProposalAdoption`, so that
   the recovery of an unverified version becomes visible.
2. `DirectionFrontier` under the choice rows and the turns that press them, with lost turns
   and their abandoned claims; the compatibility frontier.
3. The clarification batch replayed before a turn, and the idempotency table of timeline
   mutations.
4. Proofs: an abstract specification of a choice's life (claimed, dispatched, settled) that
   `AgentTurn` and `ProposalAdoption` both implement, so that the lease `ProposalAdoption` takes
   for granted is discharged by refinement instead of by argument.
