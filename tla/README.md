# TLA+ verification of tracer-agent

This directory holds the formal model of the agent service: TLA+ modules translated from the
Python sources, TLC configurations that check them on small instances, and proofs, checked by
TLAPS, of what must hold on every instance. Paths below are relative to `src/tracer_agent/`.
Line numbers in comments and in `PROJECT.json` refer to the sources.

1. [The system](#1-the-system)
2. [Modules](#2-modules)
3. [Jobs](#3-jobs-jobledger-agentjob-joblifecycle)
4. [Chat turns](#4-chat-turns-chatledger-chatturn)
5. [Recipes](#5-recipes-recipeledger-recipecandidates-searchoutbox-recipeprojection)
6. [Agents](#6-agents-budgetshares-to-chatagent)
7. [The chat surface](#7-the-chat-surface-chathistory-to-chatsurface)
8. [Runs](#8-runs)
9. [Fairness](#9-fairness)
10. [Proofs](#10-proofs)
11. [Disagreements found](#11-disagreements-between-the-code-and-what-it-says)
12. [What is not modelled](#12-what-is-not-modelled)
13. [Plan](#13-plan)

## 1. The system

Three processes share one PostgreSQL database (the *ledger*) and one Temporal cluster: an API
process, workers that run Temporal workflows and activities, and a projector that reads an event
stream. A user's request becomes a row of the ledger first and a workflow second; the workflow
carries only the id and reads the facts back. Nothing else ties the two together: no
transaction spans the ledger and Temporal, so every component below has a window between them.

| Component | State | Operations | Hard behaviour | What makes it correct |
|---|---|---|---|---|
| Jobs (`shared/workflows/jobs_*`, `worker/workflows/jobs_*`) | `ai_jobs`, `agent_run_observations`, steps, outputs; one workflow per job | POST (claim, start), cancel (Temporal, then ledger), prepare, generate, finalize, fail, settle_canceled | at-least-once activities, attempts given up for lost that go on writing, cancel racing every stage, a process that dies between row and workflow | one run per idempotency key; a closed row is final; a refused transition stays silent; outputs once; a closed workflow closes its row |
| Chat turns (`shared/agents/chat/intake`, `execution_ledger.py`, `worker/workflows/chat_*`, `recovery.py`) | `chat_executions`, messages, observations; one thread workflow, one execution workflow per turn | POST (check, insert, signal), cancel (ledger, then Temporal), next, prepare, generate with drafts, finalize, fail, lease recovery, sweep at worker start | racing POSTs under READ COMMITTED, signals during a drain, continue-as-new, the 20-minute lease, ghost drafts, a cancel that closes the row first | one turn per client request id; turns run one by one; no accepted turn is stranded; a ghost never overwrites its successor; the partial answer of a cancelled turn is kept |
| Recipes (`shared/agents/recipe/{service,store,models,router}.py`, `worker/agents/recipe_scan/outputs.py`) | `recipes`, applications | accept, dismiss, edit, retire, delete, report outcome; candidates a scan writes | read-then-write of whole rows | one set of candidates per job; a reported outcome is kept |
| Search outbox and index (`recipe/{outbox,index,document,search}.py`) | `search_outbox`, the index (external) | enqueue with the change, drain each interval under an advisory lock | index write and outbox delete are not atomic; failed rows are retried after newer ones; the lock dies with its session | a stale document is always announced by an outbox row; the index ends at the ledger's state |
| Event projection (`recipe/{projection,consumer}.py`, `projector/`) | recipe applications, stream offsets | handle one record | at-least-once delivery; check-then-upsert against the API's report | one application per task and recipe; a reported outcome is not overwritten |
| Cleanup suggestions (`shared/agents/cleanup/`, `worker/agents/task_cleanup/outputs.py`) | suggestions; the tracer's tasks (external) | scan writes, accept (save, archive, revert), dismiss | the three steps of accept against another accept, a scan, a crash | an accepted suggestion is archived or reverted |
| Chat confirmations (`chat/surface/{confirmations,resolution,tool_calls,tool_client}.py`) | pending tool calls, tool messages | propose, approve or reject: claim, call the owner of the tool, record, follow-up turn | three transactions with an external write in between; reopening after an unknown outcome | one request holds a confirmation; its result reaches a turn |
| Chat replay and summary (`chat/surface/replay.py`, `worker/agents/chat/summary.py`) | messages, the thread's summary and its point | replay for a turn, fold older messages | reads in two statements, a model call between read and write | no message falls between the summary and the replay |
| Chat event stream (`chat/surface/{stream,updates}.py`, `runtime/wakeup.py`) | subscriptions, the process's consumer | subscribe, read, send, wake, resend | lost and late publications, a consumer that dies | a viewer sees the end of the turn |
| Model budget (`worker/agents/runtime/llm/`, `worker/agents/shared/execution_reservation.py`) | spent, peak, leases | reserve, share out, charge, land | rounding; branches charging in parallel; answers that cannot be used | shares never exceed what is left; overshoot bounded by the calls in flight; every call is paid for once |
| Agent graphs (`worker/agents/{recipe_scan,task_cleanup,title_suggestion,runtime}/`) | graph state, checkpoints | survey, probe, synthesise, validate, repair, finalize and their likes | redispatch and repair loops, node retries, a second model, resumption | nothing unread is cited; a failure is told; every run ends |
| Chat agent (`worker/agents/chat/`) | the conversation, its checkpoint, proposals | load, seed, converse, tools, settle | saves lag, an attempt resumes another's conversation, proposals are repeated | the conversation is told once; what waits for the user is cited |
| Settings, envelope, redaction, telemetry, wire formats | single rows, or none | upsert, issue, convert | none of several steps | - |

How they interact: an accepted job or turn reaches Temporal by a start or a signal-with-start
call; activities call back into the ledger through conditional UPDATEs, whose row count is the
only synchronisation between the API, the workers and their lost attempts; a finished
recipe scan or cleanup job writes candidates that the recipe and cleanup components take over;
an approved tool call inserts a follow-up turn into the queue the thread workflow empties;
changed recipes reach the index through the outbox.

The full list of hazards, each at its line with the properties that cover it, is in
`PROJECT.json`.

## 2. Modules

| Module | Kind | Models |
|---|---|---|
| `JobLedger` | operators | one `ai_jobs` row and its conditional UPDATEs |
| `AgentJob` | state machine, extends `JobLedger` | intake, cancel, `AgentJobWorkflow`, activity attempts |
| `JobLifecycle` | abstract specification | what a reader of the jobs API may rely on |
| `AgentJobProofs` | proofs, extends `AgentJob` | types, outputs, finality; one job per key, what a closed workflow leaves behind; `AgentJob` implements `JobLifecycle` |
| `MCAgentJob` | instance | constants for TLC |
| `ChatLedger` | operators | one `chat_executions` row and its conditional UPDATEs |
| `ChatTurn` | state machine, extends `ChatLedger` | intake, cancel, both chat workflows, attempts, lease, sweep |
| `ChatTurnProofs` | proofs, extends `ChatTurn` | types, one turn per key, one turn at a time, drafts, finality; partial answers, closed workflows, the idle thread |
| `MCChatTurn` | instance | constants and scenes for TLC |
| `RecipeLedger` | state machine part | recipes, applications, outbox rows and the requests that change them |
| `RecipeCandidates`, `SearchOutbox`, `RecipeProjection` | parts, each extends `RecipeLedger` | what scans write; the drain and the index; the event consumer |
| `Recipes` | composition of the three | the recipe subsystem |
| `RecipesProofs` | proofs, extends `Recipes` | a stale document has its request waiting; types; candidates, injections and reports are kept once |
| `MCRecipes` | instance | constants, events |
| `BudgetShares` | operators | reservations, division of turns and money, ceilings, spending |
| `CleanupBatch`, `AgentTools` | operators | which tasks a cleanup considers; what each tool lets an agent read |
| `ModelLoop` | state machine part | one structured call behind the middleware stack |
| `AgentState` | operators | graph channels, updates, leases of an attempt |
| `RecipeScanGraph`, `TaskCleanupGraph`, `TitleGraph` | operators, extend `AgentState` | the nodes and routes of the three graphs |
| `AgentRun` | state machine, extends the graphs | supersteps, node retries, checkpoints, attempts |
| `ChatAgent` | state machine, extends `AgentRun` | one chat turn inside its activity |
| `AgentTalkProofs` | proofs, extends `ChatAgent` | the model loop of a task, jobs and turns alike; the conversation, and what it puts before the user |
| `BudgetSharesProofs` | proofs, extends `BudgetShares` | totals and ranks over finite sets; the division of turns and money is fair |
| `AgentMoneyProofs` | proofs, extends `AgentTalkProofs`, `BudgetSharesProofs` | the books of a job; the hard end of jobs and turns |
| `AgentGraphProofs` | proofs, extends `AgentMoneyProofs` | the channels of the three graphs: what is delivered was read, failures are told; the room for the last call; fan-outs |
| `MCAgentRun` | instance | slices for TLC |
| `ChatReplay`, `ChatTools` | operators | replay window and fold; what a tool call must be given |
| `ChatUpdates` | state machine part | publications on the broker and the consumer of a process |
| `ChatHistory`, `ChatSummary`, `ChatConfirmations`, `ChatStream` | parts, each extends the one before | messages and turns; the fold; proposals and decisions; event streams |
| `CleanupSuggestions` | state machine part | scans, accept, dismiss, archive, revert |
| `ChatSurface` | composition | a thread with its confirmations and streams, and the cleanup calls made by click or by tool |
| `ChatSurfaceProofs` | proofs, extends `ChatSurface` | a confirmation is decided once, an acceptance is answered for, no change is slept through |
| `MCChatSurface` | instance | scenarios for TLC |

`AgentJob` and `ChatTurn` are built the same way. A *ledger* module translates each UPDATE: its WHERE
clause becomes a predicate of the row (`Live`, `MayComplete`, ...) and its SET clause an operator
from row to row. The state machine has one action per step between two points where another
actor may act: one database transaction, one call to Temporal, one activity completion. Temporal
itself is external: a workflow is a record (`phase`, current attempt `n`, cancellation, what
generate returned), and an activity is a function from attempt numbers to where the attempt
stands. `Report` is what Temporal does with a completion: it takes that of the current attempt
and drops any other. `LoseAttempt` gives the current attempt up (crash, timeout, error) and
schedules its successor *without stopping it*; such a ghost may take any of its later steps
at any later time. This is the main source of the interleavings the code has to survive.

In the other machines, too, a step is what happens between two awaits. Constants named
`Scenarios` or `Scenes` list what the runs of a machine may meet (which calls are made, which
faults may happen and how often); the initial state picks one and it never changes. They let one
run put several questions without multiplying them with each other.

Operators whose comment begins with "A faulty form" or "Variant" are plausible mistakes. No specification
uses them. `PROJECT.json` lists, for each property of a passing run, one that breaks it when it
takes the place of the definition it imitates.

## 3. Jobs: `JobLedger`, `AgentJob`, `JobLifecycle`

State and code:

| Variable | Code |
|---|---|
| `row[j]` | the `ai_jobs` row: `status`, `attempts`, and whether `usage` is filled |
| `recorded[j]` | observation and steps of the job are committed |
| `req[r]`, `can[c]` | POST and cancel calls, at the point they have reached |
| `wf[j]` | the workflow execution, as Temporal holds it |
| `att[j][a][n]` | attempt `n` of activity `a` on a worker |
| `told[j]`, `outputs[j]` | announcements sent to open screens; output transactions committed |
| `lost` | attempts lost so far (bound) |

A job is named by the call that creates its row. Actions: `ClaimNew`, `ClaimReplay` (the unique
index on user, kind and key decides; another input hash is a conflict; a pending row is started
again), `Start` (REJECT_DUPLICATE), `IntakeLost`; `CancelDispatch`, `CancelLedger`, `CancelLost`
(Temporal first, NOT_FOUND tolerated, then the row); `DeliverCancel` and `LoseAttempt`; then the
activities, each cut where it commits: `PrepareMark`/`PrepareReturn`, `GenerateStart`/
`GenerateCanceled`/`GenerateReturn`, `FinalizeCommit`/`FinalizeNotify`/`FinalizeReturn`,
`FailSettle`/`FailReturn`, `SettleCanceled`. `FinalizeCommit` is one transaction that commits the
trajectory whether or not the row moved; `FinalizeReturn` writes outputs or, since
`write_output` swallows its failure, does not.

The model's run is a choice of outcome: `execute()` turns every end of the graph into a
response, so generate never raises but may be lost. What it computed is abstracted away.

`JobLifecycle` is the promise: accepted once, maybe begun, closed once and for good, announced as
what it is, published once and only after it was announced as completed. `ImplementsLifecycle`
is the refinement, under the mapping that reads status, terminal announcements and the presence
of outputs from `AgentJob`'s variables.

Properties beyond it: `IdempotentIntake` (retries buy one run, and never of another input),
`RefusedIsSilent` (ARCHITECTURE.md:355), `OutputsOnce`, `ClosedWorkflowClosesRow`, `TrajectoryKept`, `TerminalIsFinal`, and under
fairness `StartedJobCloses` and `CancelEndsWorkflow`.

## 4. Chat turns: `ChatLedger`, `ChatTurn`

One thread and its turns. A row has its status, `started`, the `attempt` that owns it, the
attempt whose text the `draft` holds, whether it has its assistant `message`, whether its
`updated_at` is `stale` (older than the lease), and one history bit, `retaken`: the lease took
it back to the queue. `obs[e][n]` is the observation attempt `n` left, which four of the UPDATEs
read (`Agrees`).

* **POST** is three steps of an API process: `PostCheck` (both reads), `PostInsert` (the unique
  client request id decides), `PostSignal` (signal-with-start), with `PostLost` before the
  signal. A repeat of a queued turn signals again.
* **Cancel** is the reverse of a job's: `CancelClose` moves the row, `CancelDispatch` asks
  Temporal, whose NOT_FOUND is an error to the caller.
* **`ChatThreadWorkflow`**: `ThreadWake` lowers the flag and drains; `ThreadAsk` reads the head
  of the queue; the answer is *used later* (`phase = "told"`), in `ThreadDrained` or
  `ThreadStart`; `ThreadChild` resumes after the child and counts it or remembers the failure;
  `AfterChild` holds the continue-as-new; `ThreadIdle` closes.
* **`ChatExecutionWorkflow`**: prepare, at most `MaxRounds` times with a wait (`busy`) in
  between, generate, finalize, and fail on any error. `DeliverCancel` has one disjunct per
  stage, since each is cancelled in a different way.
* **prepare** is cut at its four statements: claim, recovery of stale rows, second claim,
  second read. The partial unique index (one running row per thread) is `Seat`.
* **generate**: `GenerateBegin` takes the row for the attempt; `Draft` stores a draft under the
  attempt's condition; `Speak` marks that the model ended a message; `DraftClosed` is the push
  that raises after a refused draft; then success, failure or cancellation.
* **finalize** commits the observation with the transition, also when the transition is
  refused. A second delivery of a streamed answer always raises: the stored observation is read
  back without `ttft_ms` and compares as different (`execution_writer.py:166`, 208-229).
* **Time**: `GoStale` lets the lease of a running row expire. It does not while the current
  attempt is in the model: `GENERATE_TIMEOUT_S` (15 min) is below `RUNNING_LEASE_S` (20 min) and
  every stored draft renews `updated_at`. `WorkerStart` is the sweep of `recovery.py`.

Properties: `PostOnce`, `OneTurnAtATime`, `IdleMeansDrained`, `DraftIsCurrent`,
`PartialAnswerKept`, `OrphansExplained` (the complete list of ways in which a workflow can close
over an open row), `ClosedTurnIsFinal`, and under fairness `StartedTurnEnds` and
`AcceptedTurnStarts`.

Two exclusions are part of the statements and worth knowing. `LeftOpen` lists when a closed
workflow may leave its row open: fail itself was given up, the lease took the row back, or a
turn was cancelled without any text after an attempt had failed (see section 11). `Stuck` is the
consequence in the thread: such a turn goes back to, or stays at, the head of the queue, cannot
be started again under REJECT_DUPLICATE, and stops the drain. The code says it only stops
the loop (`chat_workflows.py:156`); turns behind it wait until a user cancels it.

## 5. Recipes: `RecipeLedger`, `RecipeCandidates`, `SearchOutbox`, `RecipeProjection`

A window of the API reads rows, moves models in memory and writes whole rows back with the index
requests of the same commit. A request is therefore two steps: its read (`Accept`, `Dismiss`,
`Retire`, `Edit`, `Delete`, `ReportOutcome`), which leaves rows in `open`, and `Commit` or
`Rollback`. Refusals change nothing. `Overwrite` is the upsert that writes every column; two
requests may therefore undo each other, and nothing in the repository promises more than that
the last writer wins (a child's acceptance supersedes its parent whatever became of it).

* **Candidates** of a finished scan: `BeginCandidates` counts the job's rows, deleted ones
  included, and `CommitCandidates` writes them with their outbox rows; a write may be lost.
* **The drain**: `BeginDrain` takes the advisory lock and a batch, oldest first; `ReadRecipe`
  reads one recipe as it is then; `WriteDocument` or `FailDocument` (which may have written);
  `EndDrain` deletes what was served and commits. `AbortDrain` rolls back; `DropSession` takes the
  lock away while the drain waits for the index, and the drain finds out at its next statement.
* **The projection**: `Poll`, `FindByTask`, `UpsertEvent`, `CommitOffset`, with failures that go
  back to the committed offset, a failed offset commit that ends the listener, and restarts.

Properties: `StaleIsPending` (a document that differs from the ledger is always announced by an
outbox row: the reason the drain may be interrupted anywhere), `IndexConverges`,
`DecidedNeverDrops`, `InjectedOnce`, `OneSetPerJob`.

`InjectedOnce` compares applications made from events. An outcome reported through the API while
the projection looks may leave a second row for the pair; no constraint or document promises
one row then. `OneSetPerJob` is the writer's own guard: `finalize`'s conditional settle
(`JobLedger`) already lets one delivery reach it, so the count is a second lock.

`StaleIsPending` rests on one drain at a time. With two replicas *and* sessions that drop, the
replica that lost its lock may write an older document after the other has served and deleted
the request; the run has one replica, which begins no drain before its last one has ended, and the
theorem (section 10) has that alternative as its assumption `Sole`. That a PUT which timed out may
be carried out after newer ones is not modelled either.

## 6. Agents: `BudgetShares` to `ChatAgent`

An execution is one attempt of an activity after another; an attempt runs supersteps; in each the
tasks run in parallel, every one at most one model loop.

* **`BudgetShares`** translates the arithmetic: reservations by order and percentage, the clamp of
  requested turns by floors and remainders, ceilings with their landing reserve, the split of a
  synthesis between its floor and the pool. Money is counted in whole units.
* **`ModelLoop`** is a structured call behind the middleware stack, two steps per call because
  the answer crosses an await: `Ask` (turn limit, landing) and one of `CallTool`, `Output`,
  `AnswerInText`, `Truncate`, `Reject`, `Unpriced`, `Unavailable`, `Lose`. `Settle` charges loop
  and execution and cuts off what passed a ceiling. A rejected output is charged, and asked for
  again, inside the handler of its rejection: whatever ends the loop there (`Raised`, an
  unpriced answer, a failed second call) still carries it, and a probe may take its report from
  it (`CarriesReport`, `ProbeSalvaged`).
* **`AgentTools`** says what a tool call may add to the evidence; `CleanupBatch` which tasks a
  cleanup sees.
* **The graphs** give each node's lease, its answer when no model is asked, its updates for every
  end of its loop, and the route that follows. What a model writes is a choice among a few drafts
  that the validation tells apart: a plan, candidates with what they cite, another round.
* **`AgentRun`** runs them: `PassNode`, `OpenLoop`, `RetryNode`, `FinishNode`, `Advance`
  (all updates, then the edges), `FailRun`, `PassDeadline`, `Crash`, `Save` (the checkpoint lags:
  any earlier state may be the saved one, with the tasks that had returned), `Resume`.
* **`ChatAgent`** is the other shape: the conversation itself is saved. `LoadContext`,
  `SeedCheckpoint`, `OpenTurn`, the loop with its tools and proposals, `SettleTurn`,
  `DeliverTurn`; a resumed attempt takes what was saved for the whole conversation.

Properties: `FanOutIsFair`, `LastCallFits`, `SettledOnce`, `OverrunBounded`, `OnlyReadIsCited`,
`FailureIsTold`, `ConversationOnce`, `WaitingIsCited`, `RunEnds`.

What the statements exclude, and why: `LastCallFits` speaks of calls of one price in a loop that
runs alone, since the reserve is measured on the dearest call so far and parallel branches may
spend it; `SettledOnce` lists the two places where money is written nowhere (a retried node, a
degraded survey), and is per attempt, because calls in flight when a worker dies are not carried
into the next one; `OverrunBounded` is likewise per attempt. A chat turn's attempts have budgets
of their own. A resumed scan whose turns ran out may reach the repair without a turn and end with
the default reason.

## 7. The chat surface: `ChatHistory` to `ChatSurface`

One thread as its user meets it. Here a turn is queued, runs, reads and ends; the workflows
behind it are `ChatTurn`'s. `stamped` is the order of the messages' time stamps and `recorded`
those that are committed, since a message may be stamped before and committed after another.

* **`ChatHistory`**: posting, the start of a turn, its two reads (thread row, then messages), its
  answer, failure or another attempt, deletion.
* **`ChatSummary`**: `ReadOlder`, the model's call, `FoldSummary`, which writes body and point over
  whatever is there.
* **`ChatConfirmations`**: `Propose`, then per request `Decide`, `Resolve` (the claim, a conditional
  UPDATE), the call of the owner, `Reopen` after a failure, `FindQueued` and `Record`, the
  follow-up turn, the announcement; `Die` at any of them.
* **`ChatUpdates`, `ChatStream`**: a change is published or not, lost or late; one consumer per
  process sets the signals; a stream subscribes, reads, sends, waits, and reads again when it is
  woken or the resend interval is over.
* **`CleanupSuggestions`**: scans (`Observe`, `FindStanding`, `WriteOne`), accept (`SaveAcceptance`,
  `Archive`, `Revert`), dismiss. The tracer's conditional archive is external: done, done and not
  heard, or not done.
* **`ChatSurface`** joins them: an approved `propose_cleanup_write` comes back to this service as
  an accept or dismiss call that runs beside the request waiting for it, and beside the user's
  own click. The other tools' owners, the tracer for most, are not composed here and are seen by
  their answer (`ExecuteUpstream`).

Properties: `DecidedOnce`, `ReplayIsComplete`, `WaitingIsCurrent`, `AcceptedIsArchived`,
`StreamCatchesUp`.

Known and not called wrong by any document, but visible in the model: a request that dies after
its claim leaves the confirmation approved without a message; a call that timed out is reopened
and a second approval may repeat the write; reopening is not announced; two concurrent results
may open two follow-up turns; a result behind a summary's point is read by no later turn
(`late`); a result recorded after the thread was deleted leaves its message and a queued turn; a
revert may fail on the unique index of pending rows (`stuck`); a second concurrent scan loses its
suggestions; a refresh may write over a row that was accepted meanwhile. ARCHITECTURE.md:325
describes the order of an approval as execution first and status second; the code claims first.

## 8. Runs

| Run | Configuration | Instance | Distinct states | Question |
|---|---|---|---|---|
| `agent_job_safety` | `AgentJob_safety.cfg` | 3 POSTs (original, repeat, conflict), 1 cancel, 2 attempts per activity, 2 losses | 248 273 | no interleaving of retries, cancel and ghosts breaks a promise; `JobLifecycle` is implemented; every started job closes |
| `agent_job_paying` | `AgentJob_paying.cfg` | 1 POST, 1 cancel, no fault | violated | section 11 |
| `chat_safety` | `ChatTurn_safety.cfg` | four scenes: 4 racing POSTs with lease and sweep; 2 turns, a cancel and an expired lease, with a lost attempt; the same with a failed attempt and a worker start; 1 turn with every fault | 2 731 233 | one turn per client request id, one turn at a time, nobody stranded, ghosts, partial answers, orphans, finality |
| `chat_liveness` | `ChatTurn_liveness.cfg` | 2 turns, 1 cancel, 1 attempt, 1 loss | 355 282 | every started turn ends, every answered POST is served |
| `chat_continue_as_new` | `ChatTurn_continue.cfg` | 2 turns, continue-as-new after 1 child | violated | section 11 |
| `chat_partial_answer` | `ChatTurn_partial.cfg` | 1 turn, 1 cancel, no fault | violated | section 11 |
| `chat_cancel_after_failure` | `ChatTurn_cancel.cfg` | 1 turn, 1 cancel, 1 provider error | violated | section 11 |
| `recipes_ledger` | `Recipes_ledger.cfg` | 2 recipes, 2 scans, 4 requests of which 2 overlap, 1 replica, 3 events or none | 865 755 | the index, the applications and the candidates under every interleaving |
| `agent_execution` | `AgentRun_execution.cfg` | slices: sharings, scans, readings, cleanups, titles, crashes, chat turns | 1 665 812 | budgets, evidence, reasons, resumption, termination |
| `chat_resumed_turn` | `AgentRun_resume.cfg` | the chat turns | violated | section 11 |
| `chat_surface` | `ChatSurface_thread.cfg` | scenarios: races, growing, failing, watched, deleted, cleaned, proposals | 434 692 | confirmations, replay, streams, cleanup calls |
| `chat_queued_result` | `ChatSurface_result.cfg` | the same | violated | section 11 |

`CHECK_DEADLOCK FALSE` where, when every call is answered and every workflow closed, the system
has nothing left to do; `AgentRun` has `Ending` instead.

Bounds, and why they are enough:

* **Attempts: 2** (contract: five for each stage, three for a chat generate). Two is the least
  number with a retry, a ghost next to its successor, and an exhausted policy. `chat_liveness`
  uses one attempt so that a single loss exhausts a stage.
* **Losses, provider errors, expired leases, worker starts**: none, one or two of each, at any
  point, per scene. Two losses in the job run allow two ghosts, a retried finalize after a
  retried prepare, and an exhausted closing activity.
* **Calls**: the three kinds of POST the intake distinguishes (new, repeat, conflict) and a
  fourth for another turn; the job runs have a single key because rows of different keys share
  nothing.
* **Turns: 2** in one thread, the fewest that can overlap, queue or block each other.
* **`MaxRounds` 2** (45): wait once, then give up. **`MaxChildren` 2 or 3** in the passing runs
  and 1 in `chat_continue_as_new` (100): with at most two turns a limit of two or three keeps
  continue-as-new away from a queued turn, because the run that reaches the limit is the one
  known to strand it.
* **Recipes**: two recipes make a parent and its revision, or two rows of one batch;
  `MaxRequests` 4 and `MaxOpen` 2 let two requests overlap and later ones follow what they left;
  `BatchSize` 2; `MaxRev` 2 (numbers only grow). The events name one pair twice and one kind that
  is not projected. Requests and events are each bounded further when both happen.
* **Agents**: turn limits from too few to enough (5 to 12; 1 to 3 for a chat turn), prices that reach a ceiling by one
  call, by several or never, one round of redispatch and two tries of a node (as in the code),
  plans of up to three branches where shares are the question and one or two elsewhere. One slice
  gives a rejected output every error that may follow it: cut short, unpriced, over a ceiling, lost. Drafts
  are, for each rule of the validation, one that keeps it and one that breaks only it.
  `LandingReserve`, `Backstop` and the reservations stand for limits of the deployed contract,
  whose files are not in the repository.
* **Chat surface**: up to three decisions of one confirmation, two confirmations of one turn,
  three turns with two summaries, one stream, one suggestion's task with one event, two scans.
  Every tool and action of `ChatTools` is proposed with just enough arguments and with one too few.
  `RecentKeep` 2 and `MaxReplay` 4 make both cuts happen with the messages of three turns; with a
  `RecentKeep` of 1 a summary given up for lost could fold a waiting turn's anchor.

## 9. Fairness

The safety statements need none. The liveness statements use:

* jobs and chat turns, `WF(WorkOnCurrent(j))`: the attempt Temporal waits for makes progress.
  Activities have start-to-close timeouts (and generate a heartbeat timeout): an attempt that
  hangs is given up, which is `LoseAttempt`, so the only attempts that never progress are lost
  ones. `WF(DeliverCancel(j))`: Temporal delivers a requested cancellation to a running workflow.
  Chat only: `WF(ThreadRun)` and `WF(BusyWake(e))`: the thread workflow is replayed and its
  timers fire.
* recipes, `DrainFairness`: the scheduler calls the drain again after every interval, whatever
  became of the last one, each index call ends, and (strong) a document that keeps being tried is
  not refused for ever. `IndexConverges` itself assumes that drains are not interrupted for ever.
* agents, `WF(AgentsWork)`: nodes run under timeouts and calls are answered or given up. Nothing
  is assumed of crashes, which the number of attempts bounds.
* chat surface, weak fairness of each stream's read, send and resend: the event loop runs it and
  the interval passes. Nothing is assumed of the broker, so no signal need ever arrive.

Nothing is assumed of API calls (a process may die between any two steps), of ghosts, of the
model provider, of losses or of worker starts. Weak fairness is enough for workflows because no
other actor disables and re-enables the same step for ever: a cancel request stays requested and
an attempt stays current until it is lost, which the bound allows finitely often. The assumption
behind that is that Temporal's retry policies are finite, which they are.

## 10. Proofs

Every theorem holds for any sets of calls, rows and attempts and any number of faults; liveness
is outside the prover's reach (fairness, ENABLED).

| Module | Theorem | States |
|---|---|---|
| `AgentJobProofs` | `TypeCorrect` | `Spec => []TypeOK` |
| | `RefusalStaysSilent` | `Spec => []RefusedIsSilent` |
| | `OutputsAtMostOnce` | `Spec => []OutputsOnce` |
| | `ClosedRowIsFinal` | `Spec => TerminalIsFinal` |
| | `OneJobPerKey` | `Spec => []IdempotentIntake` |
| | `ClosedWorkflowHasClosedRow` | `Spec => []ClosedWorkflowClosesRow` |
| | `TrajectoryReachesLedger` | `Spec => []TrajectoryKept` |
| | `JobsImplementLifecycle` | `Spec => ImplementsLifecycle` |
| `ChatTurnProofs` | `TypeCorrect` | `Spec => []TypeOK` |
| | `PostedOnce` | `Spec => []PostOnce` |
| | `OneAtATime` | `Spec => []OneTurnAtATime` |
| | `DraftOfTheOwner` | `Spec => []DraftIsCurrent` |
| | `ClosedRowIsFinal` | `Spec => ClosedTurnIsFinal` |
| | `PartialAnswersReachTheThread` | `Spec => []PartialAnswerKept` |
| | `ClosedWorkflowsCloseTheirRows` | `Spec => []OrphansExplained` |
| | `IdleThreadIsDrained` | `Spec /\ [][~Continues]_vars => []IdleMeansDrained` |
| `RecipesProofs` | `StaleIsAnnounced` | `Sole` implies `Spec => []StaleIsPending` |
| | `RecipesTypeCorrect` | `Spec => []TypeOK` |
| | `InjectionsCountOnce` | `Spec => []InjectedOnce` |
| | `CandidatesWrittenOnce` | `Spec => []OneSetPerJob` |
| | `ReportsAreKept` | `Spec => DecidedNeverDrops` |
| `AgentTalkProofs` | `ConversationKeepsItsOrder` | `AgentsSpec => []ConversationOnce` |
| | `ProposalsAreCited` | `AgentsSpec => []WaitingIsCited` |
| `BudgetSharesProofs` | `GrantsAreFair` | `Fair(s, A, ClampTurns(s, A))` for any positive requests `s` and turns `A` |
| `AgentMoneyProofs` | `EveryCallIsSettledOnce` | `AgentsSpec => []SettledOnce` |
| | `OverrunIsBounded` | `AgentsSpec => []OverrunBounded` |
| `AgentGraphProofs` | `NothingUnreadIsCited` | `AgentsSpec => []OnlyReadIsCited` |
| | `NoFailureIsHidden` | `AgentsSpec => []FailureIsTold` |
| | `LandingLeavesRoom` | `AgentsSpec => []LastCallFits` |
| | `FanOutsAreFair` | `AgentsSpec => []FanOutIsFair` |
| `ChatSurfaceProofs` | `OneDecision` | `Spec => []DecidedOnce` |
| | `AcceptanceIsAnsweredFor` | `Spec => []AcceptedIsArchived` |
| | `NoChangeIsSleptThrough` | `Spec => []WaitingIsCurrent` |

Assumptions on the constants, all evaluated by TLC in the runs: `AttemptAssumption` (attempt
numbers are positive; for jobs, each policy's attempts are among them), `BoundAssumption`,
`NoJobAssumption`, `NoExecAssumption`, `CreatedAssumption`, `SceneAssumption` (a scene names calls
of the instance), `DrainerAssumption` (no replica is called `None`), `LedgerAssumption`
(the bounds are natural numbers, and "no outcome" is not an outcome), `JobsAssumption` (scans are
numbered), `ScenarioAssumption`
(the clock starts at a natural number), `NoneAssumption` ("nothing" is neither an empty result nor the
reason of a degraded scan), `ReservationAssumption` (a step asks for a number of turns and for at most
all of the money; `reserve` refuses one that asks for more, `budget.py:208`),
`BudgetAssumption` (at least one call is kept for landing, and the backstop is a whole multiple of at
least 2: a backstop between 1 and 2 would leave a loop less than the call it kept; the deployed
number is in the contract, which is not in the repository),
`ScenariosAssumption` and `ChatScenariosAssumption` (a run is a scan, a cleanup or a title; `Priced`:
limits are natural numbers, and a call costs one of finitely many; what a model plans is a sequence of
assignments with positive shares, to specialists in a scan and to any names in a cleanup, as the
schemas of its output demand; a title draft is one of finitely many),
`TurnsAssumption` (a message and a request have different ids, and what is over when a scene begins
was posted before) and `StreamAssumption`: the events of a stream carry the id that the tracer gave the injection when it made it, so two events with one
id are one injection delivered twice (`recipe/projection.py:93`), while a row reported without an
injection gets a fresh uuid (`recipe/service.py:196`), which the model takes from the natural
numbers. `StaleIsAnnounced` assumes `Sole` besides: where sessions may be dropped there is one
replica. Section 5 says why it would be false otherwise. `IdleThreadIsDrained` speaks of the
behaviours in which the thread workflow does not continue as new, since one that does may strand a
turn (section 11, `chat_continue_as_new`).

### Jobs

Neither `RefusedIsSilent` nor `OutputsOnce` is inductive: nothing in them speaks of
an attempt that has won its transition and has not yet announced or published it. `JobInv`, a
predicate of one job's row, workflow, attempts, announcements and outputs, adds what is needed:

* an attempt of finalize that *holds* a won transition (`settled` or `notified`) agrees with the
  row, has published nothing yet, and is the only one; the conditional UPDATE gave it the row and
  gives it to no other;
* an attempt at `notified` has announced the outcome it carries (needed for the refinement:
  publication only follows the announcement);
* an attempt of fail at `settled` finds its row failed;
* a finalize attempt only exists once generate returned an outcome, and the workflow never goes
  back.

Three lemmas carry most steps: `LiveRowMoves` (while a row is live nobody holds a transition, so
the row may move anywhere), `SlotMoves` (an attempt may go anywhere but into a won transition) and
`EnterMoves` (the workflow may move on). `TemporalInv`, `ApiInv` and `WorkInv` apply them, action
by action; `NextInv` collects them.

`Moves` lists the UPDATEs of the ledger that may happen to one row, and `StepMoves` shows that
every step of the machine moves every row by one of them or inserts it. Finality is then a property of
a move (`MoveKeeps`), and so is that rows stay (`StayOrInsert`), from which `IntakeInv` follows: a
call that was served has a job of its own key and input, and no two rows have one key. The
workflow's end is `EndInv`, again about one job: an attempt of a closing activity that has been to
the ledger leaves a closed row behind, one of finalize also its trajectory, and a workflow closes
only on the report of such an attempt unless the activity was given up (`MayEnd`).

For the refinement, `ViewMoves` says what one step may show of one job (nothing, a status move,
an announcement, a publication), `MoveIsStep` turns that into a step of `JobLifecycle` when the
other jobs stay as they are, and `ApiView`, `TemporalView` and `WorkView` establish it for each
action under the inductive invariant.

### Chat turns

What happens to a row is one UPDATE of the ledger after another, whoever sends it. `Moves(r, s)`
lists those UPDATEs with their conditions; `StepRows` shows that each step of the machine moves
every row by one of them, or inserts one new row. Draft and finality are then properties of a move
(`MoveKeeps`), not of the many actions that make one:

* `RowsInv`: each row is a row, and a draft is of the attempt that owns it. `BeginAttempt` hands
  the row over and empties the draft with it, `MayCheckpoint` asks for the owner; without that
  condition (`MayCheckpointAny`) the run finds a ghost's text in its successor's row.
* `IntakeInv` adds `OneRowPerKey` (the unique index) and `Answers` (a call that was answered has a
  row of its own key and input). The second is what makes `PostOnce` inductive: a call that finds a
  row and answers much later still finds that row, since rows keep their key and are never removed.
* `Typed` is the part of `TypeOK` that `IntakeInv` does not have: observations, cancels, the thread,
  workflows and attempts. It is inductive by itself, and the two together give `TypeOK`.
* `OpenIsChild`: an open workflow is the child that the thread workflow waits for, which is
  stronger than `OneTurnAtATime` and inductive. It holds because only `ThreadStart` opens a
  workflow, the thread leaves `running` only after that child has closed, and every other step
  that touches a workflow touches an open one (`OnlyOpen`).

The outcomes are an invariant of one turn, `TurnInv`, over its row, observations, workflow and
attempts:

* `Plain`: a row has a message only when it is completed or cancelled, and a completed one has it;
* `PhaseInv`: which attempts may exist in which phase of the workflow;
* `RowInv`: how far the row has come when the workflow is in a phase; in particular a cancellation
  reaches a workflow only after the ledger was asked, and the ledger refuses a cancel only of a turn
  that is over or has an observation of an end (`CancelsTried`, the order of the two steps in
  `cancel_chat`);
* `EndInv`: what a committed finalize attempt and a closed workflow have left.

`ToldIsThere` (an observation belongs to a row that exists) and `TurnInv` give `PartialAnswerKept`
and `OrphansExplained`. `IdleMeansDrained` adds `ThreadInv`: while a turn whose POST was answered
waits in the queue, the thread `Attends` (the flag is up, a read of the queue is under way or was
answered with a turn to run, or a child runs), or some turn is `Stuck`, which it stays
(`StuckStays`).

### The outbox

`StaleIsPending` says that a document that differs from the ledger has a request. A drain breaks
the plain induction: it deletes the requests it has served, and what it wrote was read earlier.
`OutboxInv` has

* `Announced`: of a stale document some request is *owed*, that is, in the outbox and not among
  those that a running drain counts as served;
* `InHand`: if the document in a drain's hand is older than the ledger, another request than the
  one being served is owed, because the commit that overtook it left one;
* `Stamps`: instants of commits are unique, so the request such a commit inserts is none of those
  in any drain's batch or served set;
* `Alone`: one drain at a time, by the advisory lock, or by `Sole` where the lock may be dropped;
* `Shapes`, the form of the records.

Commits are treated once (`CommitInv`) for the requests of the API, the scans
and the projection alike; the steps of the drain one by one.

### Recipe rows

The invariant `RowsInv` has a part for each actor that holds rows between two steps: `RequestsOK`
(an open request writes whole rows, of rows that exist, and keeps the job they came from), `ScansOK`
(what a scan is about to write is the first row of its job, and no other scan's), `ApplicationsOK` (an
application made from an event was made from one of the stream's, `MadeOf`) and `ListenerOK` (a
listener that found no row will still find none when it inserts: `Unprojected`). The last is what the
check-then-upsert needs: the API reports on rows that exist or on rows of its own, so
only the listener itself makes rows from events, and it handles one at a time. `UpsertKeeps` carries
the primary key over an upsert for both writers.

### The chat surface

`DecisionInv` adds to `DecidedOnce` where a request stands: `Claims` (a request past its claim, and
not given back, holds the confirmation, and the confirmation has its verdict unless the thread has
gone), `Alone` (two requests hold different confirmations: the claim is an UPDATE on `pending`),
and `Backed` (a recorded result is of a request that is past the point where it could give the
confirmation back).

`CleanupInv` is `AcceptedIsArchived` with the types of what it reads: it is inductive, because only
`SaveAcceptance` makes a suggestion accepted and leaves a call that stands for it (`TakesUp`,
`Becoming`) until the archive has been tried.

`FollowInv` is the invariant of a stream. `Follows(w)`: what a stream has read, or has sent and now
waits on, is the turn's state, or news of the turn is owed by its writer, on its way to the stream's
process, or already heard or missed there. `Entered` (a turn that exists has its message, or its
request is past the commit) and `StreamTyped` complete it; `BesideStreams` is the lemma for all the
steps that are taken beside the streams.

### Agents

`LoopMoves` says what a step does to the loop of a task, whether of a job's node or of a turn's
conversation: it is `Free`, and costs nothing, or it `Pays` a price to the loop, the account and
the observer alike, and a loop that breaks a ceiling by it ends. `AnswerMoves` shows it of every answer of
the model. The theorems about money, conversation and pace rest on it.

* `TalkInv` is the invariant of a turn: `InOrder` of the conversation and of what is saved of it, with
  where the attempt stands (`DialogInv`: only a fresh attempt at `input` has the history alone; a
  tool runs after a call), and `RowsInv` (a row is cited, or never heard of, or of an attempt
  before). `OpenTalk` is where a resumed attempt that put its line in again would fail.
* `JobInv` is the invariant of a job: `Settled` (the account is what the channels carry, what the
  tasks of the superstep hold, `HeldSum`, and what was lost) with `SavedTyped`: what is saved is at
  rest, so that a resumed attempt opens with just what it carries (`PriorIsHeld`). `NodeBalances`
  treats the steps of a node, where `ReturnedCosts` goes through every node of the three graphs;
  `AdvanceBalances` the superstep, in which what the tasks held moves to the channels.
* `OverInv` bounds what is spent by the hard end and one call for each loop that is `Gone`, which is
  stronger than `OverrunBounded` and inductive: while a loop is `Live` it cannot have passed the end, and the
  call that passes it ends the loop. `PriorWithin` carries the bound over a crash; a job's saved
  state never carries more than was spent when it was saved (`SaveWithin`).

* `GraphInv` is the invariant of a job's graph, the same for what runs and for what is saved
  (`GraphSound`). `ChannelsSound` types the channels: plans name their slots once, what they hold as
  read has been read in the execution, and there is no result before the end. `Superstep` says that the
  tasks are the branches of one fan-out, as `Sends` made them, or one node alone. `TaskSound` is what
  each carries: its lease, and an update that a node of its kind could have returned (`UpdateSound`,
  for the nodes that ask no model the very verdict on these channels, `Verdicts`). `finalize` only
  runs on drafts that were found valid (`Deliverable`), so what it delivers was read: a draft is
  compared with the channels, and the channels hold nothing unread. `Told` follows a lost report from
  the task that lost it to the channel that tells it. `NodeGraph` treats the steps inside a node,
  `AdvanceGraph` the superstep, `ResumeGraph` the new attempt; `OnlyReadIsCited` and `FailureIsTold`
  hold at the end because the last superstep is sound (`EndDelivers`).
* `PaceInv` is for runs whose calls all cost the same, `c`. A loop that has made a call and may go on
  (`Paced`) has not spent more than its ceiling, knows the price (`peak = c`), and before it asks again has
  landed, or does not have to: then what is left of its ceiling, or what the backstop leaves beyond it,
  holds another call (`LastFits`). Jobs and turns keep it step by step (`JobPaces`, `TurnPaces`).
* A fan-out is fair because the division is (`GrantsAreFair`, `SharesAreFair`) and each branch holds the
  share of its own assignment. Floors of proportions leave fewer turns over than there are requests for
  more than one (`FloorsLeave`: the remainders of a division add up to less than the divisor for each
  such request), so the one turn more that the first in line get exceeds nobody's request
  (`OneEachFair`). `DealsAreFair` carries this from places in the plan to names of tasks: slots are
  named once, so the assignment is a bijection, and totals do not depend on names (`TotalRenamed`).

The totals are folds over finite sets, which are recursive. The facts about them (`TotalExcept`,
`TotalSplit`, `TotalMono`, `TotalPlus`, `TotalTimes`, `TotalCounts`, `TotalRenamed`) are proved without
induction over data, by a smallest subset on which a sum would be wrong (`Smallest`, `SubsetsGrow`),
which a finite set has.

### Only model-checked

* Every liveness property, `StreamCatchesUp` and the rest of the fair ones: fairness is out of the
  prover's reach.
* `ReplayIsComplete`. It is not true of every value of the constants: with a `RecentKeep` as small as
  the number of decision turns that race, a summary may fold a message a waiting turn is anchored
  at (TLC finds it with `RecentKeep` 1 and two posts). The deployed value is in the contract, which
  is not in the repository, so there is no assumption to prove it from; its replay also uses a
  recursive selection.

## 11. Disagreements between the code and what it says

Each has a run in which TLC finds the behaviour.

* **A recorded cancel with the paid run going on** (`agent_job_paying`,
  `shared/workflows/jobs_intake.py:109`). The cancel is sent to Temporal first so that no job is
  recorded as canceled while its run goes on. A cancel between claim and start is answered
  NOT_FOUND, which `cancel_job` ignores; the workflow starts, prepare marks the row, generate
  calls the model, and only then does the ledger record the cancel. Nobody asks Temporal again.
* **continue-as-new forgets a signalled turn** (`chat_continue_as_new`,
  `chat_workflows.py:163`). After the hundredth completed child the drain continues as new at
  once, with the wake flag that a later POST raised left behind. The new run goes idle and
  closes; the turn stays queued, and further POSTs of the thread are refused as busy until the
  client repeats the request or a worker starts.
* **A cancelled turn can lose the text on the screen** (`chat_partial_answer`,
  `drafts.py:151`). The cancel closes the row before it asks Temporal, and the request reaches the
  activity with a later heartbeat. A draft refused in between makes the next push raise, the run
  counts as failed, and the partial answer is never stored.
* **A cancel after a failed attempt closes nothing** (`chat_cancel_after_failure`,
  `chat_activities.py:157`). An earlier failed observation makes `cancel_active` refuse the
  running row, the cancelled retry returns blank, and finalize leaves the closing to the cancel
  that was refused. The row keeps the thread's only seat until its lease runs out.
* **A resumed turn may be asked without its question** (`chat_resumed_turn`,
  `worker/agents/chat/checkpointer.py:35`). The history is saved before the line to answer; a
  worker lost in between leaves a checkpoint that the next attempt takes for the whole
  conversation, and it adds nothing.
* **A queued turn does not read the approved result** (`chat_queued_result`,
  `chat/surface/resolution.py:184`). No follow-up turn is opened while one is queued, but a turn's
  history ends at its own message, which was stamped before the result: the queued turn answers
  without it, and no other turn is there to.

## 12. What is not modelled

* The text of prompts and answers, tokens, redaction, telemetry, wire formats; settings and the
  issuing of envelopes (single-row writes and pure functions); configuration and the assembly of
  the three processes, but for the sweep of a starting worker.
* Reads without an effect (job queries, thread and recipe lists, the ranking of search hits),
  except those a later step uses; creation of the search index.
* The completion callback of a job: the intake never fills it.
* In `ChatTurn`: exhaustion of the retries of `next_execution` (the thread workflow would fail
  and a later signal would start a new one); cross-thread effects, of which there are none but
  the shared workers.
* In the recipe machine: more than one candidate per scan; a late PUT of the index; several
  drainers together with dropped sessions (section 5).
* In the agents: LangGraph's own resumption is external and modelled from how the code uses it
  (for a chat turn, new input starts at the model and drops an unfinished tool step, whose call
  then has no answer and is refused by the provider); several tool calls in one message; the
  division of a float is a floor; a success answer of a proposal without an id; calls in flight
  when a worker is lost are in no account; drafts and their publication (`ChatTurn` has them).
* In the chat surface: the pairing of tool calls with results, the summary's text and the size
  part of its threshold (a choice), memories, the thread's title, draft and step publications,
  the list of suggestions and its deduplication.
* That a workflow's code is deterministic and that Temporal keeps its history are taken from
  Temporal; ledger transactions are atomic at READ COMMITTED with the unique indexes of the
  schema.

## 13. Plan

1. *Done:* jobs (model, runs, proofs, refinement), chat turns, recipes with outbox and projection,
   budget, graphs and chat agent, confirmations, streams, replay, summary and cleanup (models,
   runs).
2. *Done:* type correctness and every safety property the runs check, but for
   `ReplayIsComplete` (proofs).
3. An abstract index that at each commit of a drain copies the ledger, and `Recipes` shown to
   implement it for the recipes without a pending request.
