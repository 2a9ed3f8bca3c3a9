# A formal model of the console's runtime

This directory holds TLA+ models of the server of agentique-console: the part
that turns a goal into Runs, Invocations and Attempts, calls providers outside
every transaction, and must stay correct when an operator cancels, pauses and
resumes, when deadlines pass, when a step fails and when the process dies. The
models are translated from `src/server/src` and `src/core/src`; paths below are
relative to `src/server/src` unless they start with `core/` or `docs/`.

`PROJECT.json` lists the components, the runs, the source lines of every
definition (`map`), one plausible bug per property (`mutants`), the hazards and
the theorems.

- [The system](#the-system)
- [Modules](#modules)
- [Runs](#runs)
- [Proofs](#proofs)
- [Findings](#findings)
- [What is not modelled](#what-is-not-modelled)
- [Plan](#plan)

## The system

One process, one SQLite database, one event loop. Three kinds of state live
side by side, and most of what can go wrong is a disagreement between them:

| state | survives a crash | examples |
| --- | --- | --- |
| rows | yes | Runs, Invocations, Attempts, leases, Decisions, Publications |
| the world outside | yes | worktrees, blobs, the target repository, the provider |
| memory | no | in-flight Attempts, the host's queue and timers, listeners |

A transaction is synchronous, so its effects are atomic and its commit
listeners run in the same turn of the event loop. Everything that awaits (a
provider call, git, a continuation payload) happens between transactions, and
anything may have changed when it returns. That is the grain of every model
here: **an action is one transaction, or one synchronous segment between two
awaits**.

### Components

**Attempt execution** (`execution/attempt-executor.ts`, `retry-policy.ts`,
`invocation-lifecycle.ts`, `persistence/stores/invocations.ts`). Keeps the
Invocation and Attempt rows, and in memory one *flight* per executing Attempt.
Operations: prepare the next Attempt under a lease (or refuse), dispatch to the
provider, collect the writer's Changeset, finalize in one transaction (classify,
decide the retry, settle the Invocation, its Task and its lease), interrupt by
cause (cancel, hard pause, deadline, shutdown), execute again. *Hard:* three
awaits between preparation and finalization, four interruption causes that race
with the provider's answer, a finalization that throws. *Correct when:* a lease
is held exactly while its Attempt runs; one Attempt at a time; memory and rows
name the same Attempts; no result of interrupted work is accepted; nothing that
has ended changes; no open Invocation is left with nobody to settle it.

**Runs and operator control** (`execution/run-control.ts`,
`run-cancellation.ts`, `persistence/stores/runs.ts`, `core/src/runs.ts`). The
Run row is a status machine, an automatic wait reason and an operator pause that
lies over both. Cancelling converges all the Run's work at once, except what an
Attempt still executes, which converges when the Attempt ends. *Hard:* pause,
another mode of pause, resume, waits and their clearing overlap; cancellation
is repeated, and meets Attempts in every phase. *Correct when:* the three fields
of the row always fit together and cancelled work always converges.

**Recovery, boot, shutdown** (`execution/recovery-service.ts`, `boot.ts`,
`host/admission.ts`). A start reconciles from rows: Attempts the dead process
left running are ended, leases released, worktrees reclaimed, then admission
opens. A stop closes admission, stops the host, interrupts every flight and
exits within 15 s whatever has settled. *Correct when:* every state a crash can
leave is one the next process can go on from.

**Workspace cleanup** (`execution/workspace-cleanup.ts`). Removes a worktree
outside the transaction after the commit that ended its Invocation, then records
it; failures are retried at the next start. *Correct when:* no worktree in use
disappears, none is recorded gone while it exists, none is forgotten.

**Governor** (`execution/governor.ts`, `persistence/stores/capacity.ts`). Counts
active leases against provider, process and worktree limits; tells listeners of
every committed release once.

**Run scheduler** (`execution/scheduler.ts`, `readiness.ts`, `join.ts`).
Projects from rows the next canonical actions, the waits and the next wake-up
time of a Run; a *pass* performs the actions one by one until none is left, a
bound is reached, the host stops or something fails. Every action revalidates
in its own transaction. *Hard:* the projection is stale as soon as an await
intervenes; actions of several nodes and revisions interleave.

**Run host** (`host/run-host.ts`). Decides when a Run gets a pass: marks that
coalesce, a queue, at most N passes, one timer per Run, the Runs that wait for
capacity, reconstruction at boot, stop. All in memory. *Hard:* notifications
arrive at every point of a pass; the pass's outcome is computed from one
projection and read after another. *Correct when:* no notification is lost, no
Run starves or is stranded with work and no wake-up, a stop completes, and after
it nothing begins but what a pass had already begun.

**Pattern runners** (`execution/patterns/*`). Each pattern (single, chain,
parallel, route, evaluator-optimizer, coordinator-worker, root) advises what a
plan node needs next and performs it: positions, rounds, node settlement.

**Plan compiler and revisions** (`execution/compiler/*`,
`plan-revision-service.ts`, `persistence/stores/plans.ts`). A submitted plan is
validated as a graph; a revision replaces nodes while Attempts of the old ones
execute. *Hard:* the settlement of a completed Invocation integrates its
Changeset outside the transaction, and a revision may commit in that gap.
*Correct when:* work belongs to a node that runs it, a node hears of every edge
that delivers to it, a removed node finishes what it began and nothing more, and
the Orchestrator hears of every end.

**Decisions** (`execution/decision-requests.ts`, `decision-records.ts`). An
executing turn asks the operator; its Invocation ends blocked; the answer (or
the default at a deadline, or a waiver) continues it in exactly one successor.
*Hard:* default and operator race; an answer is superseded while it is carried
to the turn that waits; the successor may be refused its funds. *Correct when:*
what was answered stays answered, and a resolution is told to one turn, which is
the one that continues its requester.

**Gates, completion, signoff** (`execution/gates.ts`, `acceptance-checks.ts`,
`completion.ts`, `completion-requests.ts`, `signoff.ts`). Checks and an
evaluator turn decide a Gate; failing ones are remediated within a bound; the
Run's completion is requested, verified, synthesised and signed off. *Hard:*
the rows of the Run, the request, the Gate and the signoff move together over
many passes, and the acceptance inspects the workspace outside its transaction.
*Correct when:* the four tell one story, what is accepted is what was verified,
and a verification ends.

**Publication and integration** (`execution/publication.ts`,
`integration-service.ts`, `workspace-state/publish.ts`, `integration.ts`). The
result reaches the target repository through durable boundaries, each an
external effect followed by its row; a receipt lets a second process recognise
what the first one applied.

**Budgets** (`execution/budget-increases.ts`, `plan-node-capacity.ts`,
`persistence/stores/budgets.ts`, `usage.ts`). Reserved, consumed and available
capacity at the levels of Run, node and Invocation. *Hard:* a child may spend more
than it reserved, in either of two partitions that share one Budget; totals are
derived, so every release, extension and increase moves several of them.
*Correct when:* nothing reserves what is not there, and every unit spent is
counted once.

**Tasks, handoffs, requirements** (`execution/task-authoring.ts`,
`handoff-routing.ts`, `requirement-proposals.ts`). Work items between nodes.

**Runtime tools and approvals** (`execution/runtime-tools.ts`,
`tool-call-authorization.ts`). The tools an executing turn may call; an approval
of one call is used at most once, across Attempts and crashes.

**Persistence** (`persistence/transactions.ts`, `blob-store.ts`, `journal.ts`).
Nested writes with one root, rollback and commit hooks; blobs published before
their row commits, with pending markers and startup reconciliation; an
append-only journal with sequence numbers. *Correct when:* a committed row has
its content, and content without a row is found by the next start.

**Event stream** (`events/stream.ts`). Replays the journal and hands over to
live delivery without a gap or a duplicate, to readers that are slow, cut off
and come back. *Hard:* the stream and the handler of a connection may each end
first, also while `subscribe` runs. *Correct when:* every Event in scope is told
once and in order, and neither side outlives the other.

**Providers, continuations, worktrees, conversations, settings, agents, HTTP
API, web interface** are described in `PROJECT.json`; they are adapters,
projections or single-transaction records around the parts above.

### How they interact

```
operator ── api ──► run-control, decisions, signoff ──► rows ──┐ notifyRun
                                                               ▼
boot ─► recovery ─► admission ─► reconstruct ───────────► Run host
                                                               │ advanceRun
   capacity released ◄── governor ◄── leases                   ▼
        │ notifyRun                 ▲                      scheduler pass
        └──────────► Run host       │ acquire, release         │ action
                                    └────── attempt executor ◄─┘
                                              │      ▲
                                              ▼      │ completion, usage
                                            provider session, worktree
```

## Modules

| module | models | state |
| --- | --- | --- |
| `RunRow` | the Run machine and the pause over it (`core/src/runs.ts`, `stores/runs.ts`) | none: operators on one row |
| `AttemptPolicy` | classification, retry decision, settlement (`retry-policy.ts`, `invocation-lifecycle.ts`) | none: operators |
| `InvocationLifecycle` | abstract: what an Invocation promises whoever waits for it | a stage per Invocation, a course per Run |
| `AttemptExecution` | executor, operator control, cancellation, recovery, cleanup and governor, composed | rows, worktrees, memory |
| `AttemptProperties` | what that composition promises, and the runtime's fairness | |
| `MCAttemptExecution` | model values and bounds of its runs | |
| `AttemptExecutionProofs` | its theorems | |
| `RunHost` | the host and the scheduler's pass as the host sees it | host, passes, what rows offer |
| `RunHostProperties` | what the host promises, and its fairness | |
| `MCRunHost` | model values of its runs | |
| `PublicationPromise` | abstract: what publishing promises the operator (execution-model 9.4) | a state per Publication, the Target's history |
| `Publication` | the boundaries of `publication.ts`, the git port, the host's drivers | rows, references, staging, drivers |
| `PublicationProperties` | its properties, the refinement mapping to the promise, fairness | |
| `MCPublication` | model values of its runs | |
| `PublicationProofs` | its theorems | |
| `Storage` | transactions with hooks, blobs and their rows, startup reconciliation | rows, disk, the open transaction |
| `EventFeed` | abstract: every committed Event in scope, once, in order, and in the end | the log and what was told |
| `EventStream` | journal, replay, live delivery, the slow and the returning reader; implements `EventFeed` | log, connections, subscriptions, browser |
| `PersistenceProofs` | the theorems of `Storage`, `EventStream` and `Budgets` | |
| `Decisions` | Decisions, the turns that wait on them, approvals of tool calls | decisions, turns, uses, input queue |
| `DecisionProofs` | its theorems | |
| `Completion` | request, Gate cycles, synthesis and signoff of one Run | Run, request, gates, leaves, turns, workspace |
| `CompletionProofs` | its theorems | |
| `PlanGraph` | readiness, joins, what an edge carries (`readiness.ts`, `join.ts`) | none: operators on rows and edges |
| `Plan` | a plan that is revised while its nodes are readied, started, settled | revision, node rows, handoffs, the pass |
| `SchedulingProofs` | the theorems of `Plan` and of `RunHost` | |
| `Budgets` | what a Run, its nodes and its Invocations reserve, spend and give back | Run, nodes, Invocations, reservations, Usage |
| `Workers` | a coordinator_worker node: turns, Tasks and their projection, Workers, integration | node, ledger, latest Invocation of every position |
| `WorkersProperties` | what such a node owes the Run, and its fairness | |
| `WorkersProofs` | its theorems | |
| `Integration` | Changesets applied to the Integration Workspace (`integration-service.ts`, `workspace-state/integration.ts`) | HEAD and refs, the Snapshot, Changesets, the call under way |
| `NodeGates` | gated single nodes, their Gates, the root's turns; composed with `Integration` | node rows, Gates, turns |
| `GateProperties` | what they owe the Run, what is excused, fairness | |
| `GateProofs` | the theorems of `Integration` and of the composition | |
| `MCStorage`, `MCEventStream`, `MCDecisions`, `MCCompletion`, `MCPlan`, `MCBudgets`, `MCWorkers`, `MCGates` | model values and bounds of their runs | |

### AttemptExecution and the code

The components above the executor share the same rows in the same transactions
(finalization converges a cancelled Run, cancellation interrupts flights and
reclaims worktrees, recovery does a little of everything), so they are one state
machine, with the pure decisions in modules of their own.

| action | code |
| --- | --- |
| `PrepareInvocation` | `InvocationPreparationService.prepare`, with the worktree and the Task |
| `ResolveContinuation`, `PrepareAttempt` | `prepareNextAttempt` up to its await, and its transaction, which inspects again |
| `RefuseExhausted`, `RefuseOtherwise` | `refuse` and the refusals that write nothing |
| `CallProvider`, `NotDispatched` | `dispatch`: the Run row is read once more before the call |
| `ProviderReturns`, `RequestDecision` | the session; any answer, at any time, after an abort as well |
| `CollectChangeset`, `Finalize` | `run()` and `finalize` |
| `ExecutionFails`, `ExecuteAgain` | a throw after the provider returned; `executePreparedAttempt` called again |
| `CancelRun`, `PauseRun`, `ResumeRun`, `EnforceDeadline` | `run-control.ts`, `enforceDeadlines` |
| `StartRun` ... `FailRun` | every edge of the Run machine, each with who takes it |
| `RemoveWorktree`, `RecordReleased`, `ReleaseFails` | `workspace-cleanup.ts` |
| `Shutdown`, `ProcessEnds`, `Reconcile`, `OpenAdmission` | `shutdownApp`, exit or crash, `RecoveryService.reconcile`, `bootApp` |

`ProcessEnds` is enabled in every state: it forgets the memory and keeps rows
and worktrees. Abstractions of data: usage is one of three levels (`within`,
`full`, `over`: `full` forbids an Attempt but is not exhaustion of the last
one); time is "the deadline has passed" and "the backoff has elapsed"; a
provider completion is one of nine outcomes; a Changeset is collected or not.
`ClassifyCompletion` also classifies the tenth, a session that reports itself
cancelled; an adapter reports that only when the runtime aborted it or its Run was
cancelled, and then the runtime's own interruption decides first (`Reportable`).

Choices a reader of the code may ask about:

- `refuse` has a branch for an Invocation whose turn requested a Decision
  (`attempt-executor.ts:311-326`). `NeverStuck` shows that no open Invocation
  without a running Attempt has a request, so the branch is unreachable and is
  not an action.
- The allocation of a pending Invocation is untouched, so `allocation_exhausted`
  arises only after an Attempt.
- A crash between the creation of the worktree (inside prepare) and the commit
  leaves a worktree no row names. The model has the step, `WorktreeAccounted`
  allows exactly this case, and no code path reclaims it.
- The guards of `BeginVerification`, `AwaitSignoff` and the other Run moves ask
  only that no Invocation is open: Gates, Task readiness and Completion Requests
  can only narrow them, so the model allows more Run histories than the code.
- `Slots` stands for process and provider concurrency together; quota and
  retry-after times are left to the planned governor module.
- `recovery_incomplete` (a blob obligation that stays unresolved) keeps admission
  closed; it belongs to the blob store's module.

### RunHost and the code

`host` is the record of `RunHost`'s private fields; the operators `Notified`,
`Drained`, `Armed`, `Requeued`, `Applied` are its methods, from a host to a
host, because they call one another within one synchronous segment. A pass goes
through `looping`, `preparing` (`prepareNextAttempt` reads the payload of a
continuation), `acting` (another action awaits git or a command), `finishing` (the
loop has decided its stop reason),
`returned` (the outcome's waits and wake-up time, from the second projection in
`finish`) and `applied` (the end of `pass()`, before the `finally` of
`drain()`), which are its separate turns of the event loop. What the rows offer
is abstracted to `need`: nothing, an action, an Attempt to execute, a time to
wait for, or the end. What an action leaves is any of these.

- A Run executes at most one Attempt at a time in this module; several would add
  `settleFirst` between them, after which the loop projects again.
- `Recording` names the Runs whose row records a capacity wait. A verifying Run,
  or one that its own concurrency limit keeps running, does not, and depends on
  the host's memory alone.
- The first synchronous segment of a pass runs inside `drain`; the model lets
  other steps come in between, so it has more interleavings than the code, and
  every property checked holds in the larger set. What the properties excuse
  (findings 4 to 7) was traced by hand against the code.
- The loop asks whether the host stops before each action, and nobody asks after
  an await inside one. `ExecuteInvocation` is a fresh start, which awaits nothing
  before its transaction; `AwaitContinuation` and `PrepareResumed` are the two
  segments of a start that may resume a continuation, `AwaitAction` and
  `CommitAction` those of any other action that awaits.

### Publication and the code

An action is one awaited call of the port, or one transaction. `drv[p][d]` is
where driver `d` of Publication `p` stands in `advance` and in the port: `next`
re-reads the row and acts on its status, every other stand holds an answer that
no row has yet. `Goes`, `Stops` are the outcomes after which
`advancePublication` continues or ends; `Records` is the test that every
recording transaction repeats (the status the step began from, else `stale`).

| action | code |
| --- | --- |
| `Request`, `Cancel`, `Publish` | the publish Decision, with `assertPublishable` at both ends |
| `ReplayPrepared`, `BuildCandidate`, `RefuseCandidate`, `WriteMarker` | `prepare` of the port, called by the preparation and again by the verification |
| `RecordPrepared`, `RecordRefused` | the transactions of `prepareStep` |
| `RunChecks`, `RecordVerified`, `RecordRejected` | `verifyStep` |
| `CommitApplying` | the durable commitment before the Target is touched |
| `ReadReceipt`, `SwapTarget`, `LoseSwap`, `ReadTarget` | `apply` of the port, and git's reference transaction |
| `RecordApplied`, `RecordChanged` | the transactions of `applyStep` |
| `Release`, `RecordReleased`, `Quiescent` | `releaseStep` |
| `Unavailable`, `Retry`, `Crash`, `Boot` | a failed step, the operator's advance, the process, `reconstruct` |
| `OperatorCommits`, `OperatorResets`, `DamageMarker` | the world outside |

The Target is the sequence of what was committed to it, so that a candidate is
"what the Target held, and the Run's change". That keeps what the properties ask
(was the change put on what the Target held, was it lost, is it there twice) and
leaves out content: a conflict or an invalid candidate depends on it, so a
preparation may be refused whenever it runs without a marker. git's reference transaction is
external: `publishRefTransaction` moves the Target and creates the receipt, or
neither. The checkout that is brought forward afterwards decides nothing.

A driver of a process that dies takes no further step: with one driver a git
child does not outlive its process. Finding 8 is what happens if something like
it does.

### Storage and the code

Everything here is synchronous, so the steps of one transaction are separated
only by what can go wrong between them: the death of the process, or the loss of
a file. `at` says where the process stands, `hooks` is the transaction's list of
commit and rollback hooks, `markers`, `temps` and `blobs` are the directories.

| action | code |
| --- | --- |
| `Begin`, `Nest`, `Unnest`, `NestedFails`, `Commit`, `Rollback` | `Transactor.run`: the root, nested calls (a caught failure dooms the root), hooks |
| `Reuse`, `Mark`, `WriteTemporary`, `Publish`, `PutRefused`, `PublishRefused`, `PutFails` | `FileBlobStore.put`, step by step, inside `ArtifactStore.create` |
| `Settle`, `Compensate`, `CompensateFails`, `Withdraw`, `HooksDone` | the hooks `create` registers |
| `Start`, `ResolveMarker`, `ResolveBlob`, `ReconcileFails`, `Admit` | the reconciliation of `bootApp`, and admission |
| `Crash`, `RemoveTemporary`, `Lose` | the process, the disk |

Not modelled: the branch of `put` in which another writer created the target
(one process writes), and corrupted content beyond a read that refuses it
(`PutRefused`).

### EventStream and the code

One reader with one filter; `log[n]` says whether the Event with sequence `n` is
in its scope. A page is read, delivered and, when short, finished in one turn of
the event loop. `entry` is the stream's side of a connection and `response` the
handler's (`api/events.ts`).

| action | code |
| --- | --- |
| `Connect`, `Read`, `ReadEnd` | the browser's `EventSource`, which asks after the last sequence it noted |
| `Attach`, `Refuse` | `attachEventStream`: the subscription with its first turn inside it; a stopping server refuses |
| `Turn`, `CommitEvents` | `replay` after a yield; `committed`, whose first turn runs in the commit's listener |
| `Closed` | `end("client")`: the close event, or a heartbeat that throws |
| `DisconnectAll`, `Stop`, `Down`, `StartServer`, `Cut` | `disconnectAll`, the shutdown, the process, the network |

A handler may learn that its peer has gone while `subscribe` still runs and it has
no handle. `Attach` has the three ways: before the subscription; in a write that
throws, which the stream answers by ending the entry; and in a close the stream
is not told of, whose entry only `HandleClosed` ends. A reader whose buffer is
full is ended by the stream, and its handler ends the response (`ResponseOf`).

### Decisions and the code

A *position* is a place in the work (the root, a Worker) and its turns are its
Invocations, one after the other. `Request` is `request_decision`, `Intercept`
the authorization that answers `approval_required` and opens an approval,
`EndBlocked` the finalization, `Resolve`, `ResolveDefault` and `Supersede` the
three ways in which a Decision ends, `Continue` the scheduler's successor, `Refuse`
the successor that `prepareSuccessor` cannot fund (under `fail` the node fails, and
with the root the Run; under `wait` nothing is written here), `PrepareTurn` the turn
for a queued input, `Authorize` and `Perform` the claim
of an approval and the call, `Crash` an Attempt whose process dies. Approvals
are resolved as the documents say, since the code has no path that resolves one
(finding 10). The guarded call is one tool with one digest. `OnlyResolved` names
the positions of a coordinator_worker: its runner continues a turn on a resolved
Decision only, where the root's settlement also continues on a superseded one.

### Completion and the code

`EngineSteps` are the actions of a pass, each a transaction of
`CompletionService`; `RootSteps` the root's turns; `TurnSteps` what any executing
turn does; `Operator` the commands on a waiting Run. `AcceptReads`, `AcceptInspects` and
`AcceptCommits` are the acceptance before, during and after its inspection of
the Integration Workspace; between them anything may happen. Abstractions: the automatic waits
of the Run row are folded into `running`; a paused Run keeps its status.
Not modelled: superseded blocking Decisions, conflicts of Changesets, node
Gates, infeasible leaves, criteria a Run declares without a leaf, and the
replacement of a remediation Task that failed.

### Plan and the code

The pass acts on rows it has just read, except that `Integrate` leaves the
transaction and `Complete` comes back to rows a revision may have changed;
`settling` is that gap. `Revise` is `propose`: reconciliation by source path and
definition, cancellation of unstarted nodes, new rows, edges. A node is a single
or a chain (`steps` positions) or a join of the compiler; a route's choice and an
evaluate-only verdict are `choice`, taken when the node succeeds. Rejected
proposals change nothing and are stuttering. Budgets, Gates, conflicts of
Changesets, pauses, the Run's status and the retries inside an Invocation belong
to other modules or are not modelled. In the drafts of `PlanRevised` a new edge
leads into pending nodes only: what the code does otherwise is finding 18.

### Budgets and the code

`held` is the reservation of each node and Invocation; every account
(`OrdinaryAvailable`, `FinalAvailable`, `NodeAvailable`) is a sum over them, as in
`core/src/budgets.ts`, and none is stored.

| action | code |
| --- | --- |
| `StartNode`, `StartPosition`, `ResumeBudget`, `SettleNode` | `ParallelPatternRunner`, with `PlanNodeCapacity.ensure` and the node's policy |
| `Execute`, `Exhausted`, `EndAttempt`, `EndCancelled` | the executor: what it asks of the allocation, and the finalization with its Usage and releases |
| `RootTurn`, `FailRun`, `Revise` | the Orchestrator's turns, and what a revision reserves and releases |
| `Request`, `Approve`, `Deny` | `BudgetIncreaseService` |
| `BeginCompletion`, `PrepareFinal`, `VerificationFails`, `AwaitSignoff` | completion, as far as it draws on the final reserve |
| `Accept`, `RequestChanges`, `Cancel` | the operator, with the convergence of cancelled work |

An allocation is one quantity, which stands for cost and for tokens. The
reservations a Coordinator's Tasks hold and pass to their Workers are a flag in
`Workers`. Not modelled: the operator's pause, and an Attempt that reports Usage more than once.

### Workers and the code

The runner derives everything from rows, and its operations ask again what
`inspect` asked. One thread runs both, so `Advice` and what `Perform` does of it
are one step; but the two are separate definitions here as they are in the code,
and `AdviceActs` compares them: `Permits` is what the operation asks of the rows again, as
the source writes it, and `Performs` that there is then a step. A *position* is the Coordinator's or a Task's.

| definition | code |
| --- | --- |
| `Current` ... `Frontier`, `NextPlaced`, `FirstOf` | `projectTasks` and its canonical order |
| `RunningAdvice`, `Cleared`, `Advice` | `runningAdvice`, `inspectWaiting`, `inspect` |
| `PrepareTurn`, `ContinueTurn`, `StartWorker`, `ContinueWorker` | `start` and `startPosition`, with `prepareAs` and `prepareSuccessor` |
| `BeginIntegration`, `EndIntegration` | the integration that `settle` awaits |
| `SettleTurn`, `ApplyToTasks` | `apply`, in its order |
| `Resume` | `resume`, with the requester the scheduler names |
| `Propose` with `Extended`, `Cancel` | `TaskProposalService`: batch, replacement, dependents that gain the replacement, cycles |
| `Return`, `Fail`, `Retry`, `Ask` | `settleInvocation`, with the reports of a result |
| `Resolve`, `Supersede`, `RootCancels` | the operator, and `update_task` of a root turn |

A refusal of capacity or funding is a free choice, bounded with the other
troubles by `MaxTroubles`: what capacity there is belongs to `AttemptExecution`
and `Budgets`. The node has no Gate criteria and no revision removes it; a
proposal that is rejected changes nothing and is a stutter.

### Integration, NodeGates and the code

A commit of the Integration Workspace stands for what was committed on the base,
in order, so "is it in there" and "is it an ancestor" can be asked. `call` is the
one call the service lets through: `apply` asks git, `ref` has a commit without a
ref, `record` an answer without a row, `conflict` and `wait` the conflict before
and after its record. `CallLost` is the process that dies, or the command or
transaction that throws, at any of these.

| action | code |
| --- | --- |
| `RefAnswers`, `TrailerAnswers`, `Drifts` | the three questions `apply` puts to git before it changes anything |
| `Commit`, `PutRef`, `ApplyNothing`, `Conflict` | the application, a diff that changes nothing, one that does not apply |
| `Record`, `RecordConflict` | the transactions of `#integrate` |
| `IntegrateTurn`, `ContinueTurn`, `SettleTasks`, `FailRun` | `settle` and `settleRemediationTurn` of `root.ts` |
| `TellEnded`, `Remediate` | `prepareTurn` for ended nodes, `prepareRemediation` |
| `StartNode` ... `ResumeNode` | `SequentialStepEngine` of a single node, with `PatternNodeSupport` |
| `OpenGate` ... `SettleGate` | `NodeExitGates`; `GateAdvice` is `phaseOf` |
| `WorkerEnds`, `EvaluatorEnds`, `TurnReturns`, `TurnFails` | `settleInvocation`, with the reports of a result |

In most modules any projected action may be next. Here the order of the
projection is kept (`RootActs`, `NodeIs`, `Quiet`), because only the first
action is performed: the one module in which an action without effect starves
the others. A turn reports all its Tasks alike; a check and the verdict of an
Evaluator are free choices. The second application of a Changeset after its
conflict Task completed is not modelled, since nothing completes one (finding
37). Capacity, budgets, pauses, revisions and the completion Gate are left to
their modules.

## Runs

| run | question | result |
| --- | --- | --- |
| `AttemptOne` | everything that can happen to one Invocation | holds |
| `AttemptLive` | does work end, and is everything given back | holds |
| `Host` | does a marked Run get its pass, is none stranded, what does a stop leave open, and does it end | holds |
| `Publish` | is the promise of publication kept, and does it end | holds |
| `Store` | do rows and blobs agree over every failure | holds |
| `Stream` | is every Event told once, in order, and in the end, and do stream and handler end together | holds |
| `Decide` | is a resolution told once, to the turn it answers, and an approval used once | holds |
| `Complete` | does completion tell one story, and accept what it verified | holds |
| `PlanRevised` | a plan revised under its own execution | holds |
| `Budgets` | does what is reserved fit, and is every unit spent counted once | holds |
| `Workers` | does a Coordinator's node advise what it does, in order, and come to an end | holds |
| `Gates` | do Gates judge what was made for them, do Snapshots only grow, do gated nodes end | holds |

**AttemptOne**: one root Invocation that writes, has a deadline and may resume a
continuation; two Attempts; every completion and usage level; faults; Decisions;
cancel, both pauses, shutdown, crash at every state. Two Attempts are enough for
a retry, a retry of a retried class (the previous class enters the decision) and
the last Attempt of an allocation. Decisions may be answered early, after which
recovery may be unable to start (finding 1), so the system may really stop. It
shows `RowsAgree` (the Run row fits together, one Attempt runs at a time, memory
and rows name the same one, a cancelled Run keeps nothing unsettled but what
executes), `NeverStuck`, the accounting of the worktree, that a result is the
completed turn with its Changeset, and (`KeepsLifecycle`) that every behaviour is
one of `InvocationLifecycle`: bounded and admitted Attempts, one end, no result
from interrupted work, a cancellation that settles the rest at once.

**AttemptLive**: two root turns that share one slot, the second one, which the
operator's signoff or a request for changes prepares, paid from the final reserve;
two Attempts and no faults (finding 2 shows what a fault of finalization does).
Decisions are answered at any time, also while their requester executes. It shows that
a lease is held exactly while its Attempt runs, although two Invocations want the
one slot, that cancellation converges (its Invocations and their Tasks), that a
requester ends, that work its Run keeps admitting ends, and that leases return
and worktrees are reclaimed (`ResourcesReturned`). The liveness properties
excuse one state, `AnsweredEarly`: the Decision ended while its requester's Attempt
was running, so that the Invocation can no longer be blocked on it, keeps its lease,
and stops the recovery of the next start (finding 1). For that recovery deadlock is
not checked.

*Fairness.* An Attempt that was dispatched goes on by itself: `run()` awaits one
step and performs the next, and a provider call returns on its own or on the
abort signal (`provider/attempt-session.ts`). Backoffs elapse, a stopping
process exits within its bound and a stopped one is started again; the scheduler
offers an open Invocation its next Attempt. The operator, faults, crashes and a
repeated execution have no fairness. All fairness is weak.

**Host**: two Runs, one or two passes at a time, one action per pass, one
capacity slot; one Run has a timer and passes that fail; an action or a
preparation may await; operator actions and a stop at any time. Two Runs that both reach their action limit are what
starvation needs, and two passes what a release needs to meet another's end. It
shows that after a stop no pass starts and no action begins, and that an Attempt
is committed only by a pass that was reading the payload of a continuation when the
stop came, at most one by each (`OnlyPreparedStartsAfterStop`; that such an Attempt
starts is finding 4); that the stop resolves unless a pass that had more to do put
its Run back on the queue (`StopResolves`; finding 5); that a marked Run gets its pass,
however often the other one reaches its limit, and that neither a release nor a
notification nor a failure at any point of the other's pass leaves a Run with
work and without a wake-up. The last holds of Runs whose rows record the wait
and that have no timer: findings 6 and 7 are the two others.

*Fairness.* The steps of a pass are continuations of one promise chain; an
executing Attempt ends (`AttemptLive`); timers fire, time passes, boot
reconstructs. The operator and the stop have no fairness. The host really stops,
so deadlock is not checked.

**Publish**: two Publications of one Run, the first automatic (a fast-forward or
a merge) with criteria, the second fast-forward only and without; one driver
each; two operator commits and any number of resets; any step may fail, any
marker may be damaged, the process may stop anywhere. Two Publications of one
Run are what `assertPublishable` tells apart; two commits let the Target move
away, come back and move again between preparation and swap. It shows
that a failed Publication left the Target untouched, that what
reaches the Target is what was checked, and (`KeepsPromise`) that every behaviour is one of
`PublicationPromise`.

*Fairness.* A driver goes on, since its steps continue one promise chain; a
stopped server is started again; and the operator advances a Publication while
`inspect` offers it. The operator's commits, faults, damage and crashes have no
fairness. `PublicationEnds` asks for the end of every Publication once those
disturbances stop. Without the premise the Target may be moved away before
every swap and back before every reading of it, and each answer is unknown. Its
exception, `Disagrees`, is finding 9. When everything is published and released
nothing has to happen, so deadlock is not checked.

**Store**: three Artifacts, two of them with one content, so that a digest is
reused, compensated and reused again; four creations, one nested level, one
blob lost by the disk, a crash anywhere. It shows that a committed row has its
content and content without a row is marked (`ContentAccounted`), and that a
process which admits work has resolved what the last one left. Deadlock is
checked: the server can always be started again.

**Stream**: pages of two Events and a buffer of three, so that a replay takes
two pages, ends short, and a reader falls behind; three Events, each in scope or
not, in batches; two connections, so that the browser returns while the server
still holds the old one; two cuts; stop, exit and start. It shows the
refinement of `EventFeed` with its liveness, and (`ReleasedTogether`) that an entry
of the stream and the response of its handler end together, whichever ends first and
also inside `subscribe`, with nothing left unread and no buffer over its bound.
Connections may be closed for good, so deadlock is not checked.

*Fairness.* Timers, the event loop and the socket go on, the browser retries
without end, the server is started again; commits, cuts and stops have none.

**Decide**: the root, which asks for a waiver, and a Worker, which asks under the
default policy and proposes a guarded call; two turns of each, two Attempts of
the Worker, three Decisions, one crash, one revision of the Requirements. Two
turns are enough for a request, its successor and the answer the successor is
told; three Decisions for an answer, what supersedes it and an approval beside
them. The Worker continues on a resolved Decision only, and any successor may be
refused. It shows that an approval is spent once and by the right turn, and
(`HeardOnce`) that the answer to a question is told to exactly the turn that
continues the one blocked on it, which is the next of its position, never before
the Decision ended; and that a choice which supersedes it is never lost and never
told twice. That the successor is prepared in the end is not claimed: its node
may be refused the funds, and a superseded Decision of a Worker continues nothing
(finding 28, which `Workers` has in full). So no fairness is assumed; every
Invocation may end, so deadlock is not checked.

**Complete**: one leaf with a command and a judged criterion, one without
criteria of its own; two cycles, so that one fails, is remediated and the second
passes or is the last; two turns of the root; one revision authored at any time;
one acceptance with its inspection; cancel, pause and crash. *Fairness:* the host
gives the Run its passes, turns end by their deadline, and a check that could not
run is run again and sometimes can be (strong fairness of the check's record).
`VerificationEnds` excuses what only the operator can end.

**PlanRevised**: a route whose branches meet; then the same paths as a fan-out
into a join that tolerates failures, with a chain; then without one of its
branches. So a path is reused, redefined (a second node of the same path) and
removed, each with its node in any status. *Fairness:* the pass goes on, and an
Attempt ends. `EndsAreReported` excuses a Run that waits for an answer, and the
removed chain of finding 19.

**Budgets**: a Budget of five, two of them the final reserve; two nodes, one that
fails when its allocation is exhausted and one that is extended, both granted
less than they need, so that refusal, extension, waiting and failure all happen;
two items of the first node, two turns of the root, two Invocations of one
verification. An item and a final-reserve Invocation may spend twice what they
were allocated, three in all, so that each partition overruns into the other; the
other turns spend nothing, which keeps the instance small. Two drafts, the
second without the first node; one increase of either partition. It shows that
whatever reserves fits every account it draws from, however those were overrun,
and that the Run's account grows by exactly what is recorded, once, when it is
recorded. `UsageReachesRun` excuses the node of finding 21. No wait is claimed to
end, so no fairness is assumed; the Run ends, so deadlock is not checked.

**Workers**: three Tasks, so that a replacement and a dependent of what it
replaces exist beside each other; three turns, so that one decomposes, one
replans and the last synthesises or there is none left for it; two Workers at
once; batches of two with one dependency each; two troubles, so that a conflict
meets a blocked Worker; answers that are superseded; waiting for capacity. It
shows that what is advised is done and something is always advised, that a node
that succeeded owes nothing, that Workers and integrations follow the
dependencies, and that the node ends or waits for somebody.

*Fairness.* The scheduler performs what it can, an integration returns and an
Attempt ends by its timeout. Nobody has to answer, propose or cancel. The
exceptions (`Stuck`, `SpentAnswer`) are findings 22 and 27 to 31. The node comes
to rest, so deadlock is not checked.

**Gates**: two nodes, the first with an Evaluator; two Gates each, so that one is
remediated and the second passes or is the last; two turns of the root, so that
one blocks and its successor remediates, or one remediates and the other is told
of ended nodes; four Changesets; two troubles (a conflict, a lost call, a failure, a retry, a cancelled Task, a
crash), which is what an overtaken record needs. It shows that a Gate judges a
Snapshot with the node's Changeset and those of the turns that remediated it,
that a remediation Task somebody works on belongs to the latest turn, that the
Run's Snapshot only moves forward, and that a node ends or waits for somebody.

*Fairness.* The host goes on with its passes, a call returns, an Attempt ends by
its timeout. Decisions need not be answered. Three states are excused, each a
finding: `Overtaken` and what follows from it (35), `Drifted` (34),
`RootConflicts` (36). Nodes come to rest, so deadlock is not checked.

## Proofs

TLC explores small instances; the theorems hold for all Runs, Invocations,
limits and sets of reports that satisfy `ConstantsAssumption`. The theorems on
`TypeOK`, `CapacityRespected`, `EndedIsFinal` and `PubTypeOK` state properties
that no run repeats: what they say of small instances, the other properties of
the same runs rest on.

| theorem | property |
| --- | --- |
| `TypeCorrect` | `TypeOK` |
| `LeaseSafety` | `LeaseHeldWhileRunning` |
| `SingleAttempt` | `OneAttemptAtATime` (part of `RowsAgree`) |
| `MemoryMatchesRows` | `FlightsMatchRows` (part of `RowsAgree`) |
| `CapacitySafety` | `CapacityRespected` |
| `RunRowsSafety` | `RunRowsConsistent` (part of `RowsAgree`) |
| `RowsAgreeHolds` | `RowsAgree` |
| `Finality` | `EndedIsFinal` |
| `ImplementsLifecycle` | `KeepsLifecycle` |
| `WorktreeSafety` | `WorktreeAccounted` |
| `CompletedTurnOnly` | `ResultIsTheCompletedTurn` |
| `AlwaysANextAttempt` | `GoesOn` (the part of `NeverStuck` without `ENABLED`) |

The argument. `TypeInv` (in `AttemptExecutionProofs`) is inductive; its lemmas
state what the policy operators return. None of `LeaseHeldWhileRunning`,
`OneAttemptAtATime` and `FlightsMatchRows` is inductive alone: that finalization
releases the right lease needs that the flight names the running Attempt, which
needs that only the latest Attempt runs, which needs that a process without
flights has no running Attempt once recovery is over. Their conjunction with
`TypeInv` and `MemoryLost` (a process that is down or recovering has no flight
and no preparation under way, and one that has reconciled no running Attempt) is
`ExecInv`, proved inductive action by action in the
same module. `CapacitySafety` adds counting: the leases stay finite,
grow only by `PrepareAttempt`, which asked the governor in the same step, and
lose elements everywhere else. Finality builds on `ExecInv`: a
step that changes an ended Invocation or Attempt would have to be a finalization
without a running Attempt, and the only step that makes an Invocation succeed is
a finalization whose classification asked the Run row and the cause first.
`WorktreeInv` adds to `WorktreeAccounted` that only a writer has an obligation and
that a release is owed only for an ended one. That an open Invocation can go on
rests on what `decideRetry` refuses: `OpenMayRetry` says of every settlement that
leaves an Invocation open that nothing which forbids a retry held, for the
finalization, the refusal and the recovery alike.

The refinement of `InvocationLifecycle` shows an Invocation as executing while an
Attempt of it runs, and a Run by its course; leases, flights, backoffs, phases of the
Run and the process disappear. Most actions are stutters, and the hard ones are those
that write many rows at once: a recovery is `LoseAll`, which may leave no result, and a
cancellation is `Cancel`, which may leave nothing open. The invariant (`LifeInv`) adds to
`ExecInv` that a Run which ended holds nothing that is neither settled nor executing
(`EndedRunsSettled`, which `AttemptOne` checks as well) and that a flight is
cancelled only by a Run that ended (`CancelledByRun`), so that an Attempt leaves its
Invocation cancelled only then.

For publication, under `PublicationAssumption`:

| theorem | property | drivers of a Publication |
| --- | --- | --- |
| `PubTypeCorrect` | `PubTypeOK` | any number |
| `CheckedIsAppliedHolds` | `CheckedIsApplied` | any number |
| `SuccessIsRealHolds` | `SuccessIsReal`: a success changed the Target, and is its Run's only one | any number |
| `FailedMeansUntouchedHolds` | `FailedMeansUntouched` | one (`OneDriver`) |
| `KeepsPromiseHolds` | `KeepsPromise` | one (`OneDriver`) |
| `DriverFinishesHolds` | `DriverFinishes` (the safety half of `PublicationEnds`) | one (`OneDriver`) |

The first three rest on `BuiltInv`: prepared facts are built from one state of the
Target wherever they are kept (row, marker or a driver's memory), and rows keep
pace with them. For `CheckedIsApplied` the invariant adds that a driver that
holds a passed check holds it for the candidate of the row, which never changes
once prepared. For `FailedMeansUntouched` the strengthening (`CurrentInv`) says
what the answer of *the* driver is worth: one that found no receipt, lost its
swap or read a changed Target is right as long as nobody else may swap, which
needs `OneDriver`; finding 8 is that assumption dropped. The refinement then
maps each action to a step of the promise or to a stutter: `SwapTarget` is
`Change`, `RecordApplied` is `Succeed`, every failure recorded is `Fail`, since
`CurrentInv` says that its receipt does not exist. That no second Publication of
the Run is authorized while one is open or succeeded is `Publishable`, asked
again in the transaction of `Publish`.

`SuccessIsReal` is what is left of the promise when two processes or requests drive one
Publication: a failure may then be wrong (finding 8), a success may not. A driver that
answers for the Target holds the candidate of its row, and one that records a success
has its receipt (`RealAt`). `DriverFinishes` says of every drive that ends on its own
account that the Publication has its outcome and its release, unless the result is
unknown (a later drive asks again) or the directory disagrees with the row (finding 9).
It needs `StandsInv`: a driver stands where the status of its row allows, and what it
stages is its own. So what `PublicationEnds` needs of fairness is only that drives
end and are started again.

For storage, under `StorageAssumption`, for any digests and Artifacts:

| theorem | property |
| --- | --- |
| `StorageTypes` | the shapes of disk, rows and hooks |
| `ContentIsKept` | `ReferencesResolve` (part of `ContentAccounted`) |
| `OrphansAreFound` | `OrphansMarked` (part of `ContentAccounted`) |
| `ContentIsAccounted` | `ContentAccounted` |
| `AdmissionIsClean` | `AdmittedClean` |

That a row has its content is not inductive: a compensation may remove a blob
that another Artifact of the same content has come to reference. The invariant
relates the hooks of the open transaction to the markers (a hook's digest is
marked until the hook ran), what each stand of `put` has on disk, and what a
rollback is about to withdraw to what rows still reference.

For the event stream, under `StreamAssumption`, for any connections, sizes of page and
buffer, length of the log and number of cuts and restarts:

| theorem | property |
| --- | --- |
| `StreamIsConnected` | what the browser handled, and what lies on its line (`StreamInv`) |
| `FeedIsInOrder` | `Feed!InOrder`, the safety half of `FeedKept`: every Event once, in order |
| `ReleasedTogetherHolds` | `ReleasedTogether` |

This is the refinement of `EventFeed`: every step of the stream is a commit, the handling
of the first Event in scope not yet handled, or a stutter. The invariant says that the
browser has handled exactly the Events in scope up to the sequence it noted, and that
each frame on its line accounts for exactly the Events in scope since the frame before it
(`Chain`): one Event for an event frame, none for `caught_up`. A subscription that was not
cut off goes on where its line ends; a cut-off writes a beginning of the frames, which is
a chain still, and a reconnection starts one at the sequence noted. The lemmas about a
page (`Nth`: the k-th element of a set of numbers) are proved by the least
counterexample, since an induction theorem takes an operator as its parameter. TLC
checked `StreamInv` under the constants of `Stream.cfg` before it was proved.
`ReleasedTogether` is a conjunct of `StreamInv`, inductive with the types of
`LineInv`.

For integration, for any Changesets and any number of lost calls:

| theorem | property |
| --- | --- |
| `IntegrationTypes` | `IntegrationTypeOK` |
| `AppliedOnce` | no Changeset is committed twice |
| `SnapshotMovesForward` | `SnapshotGrows` |

Neither of the last two is inductive. The invariant (`IntegrationInv`) says that
the recorded Snapshot and the commit of every ref are ancestors of HEAD, that
every Changeset of HEAD but the newest has its ref, which is what makes the three
questions of `apply` enough, and what the answer of the call under way is worth.
`Move` is what a step does to git and the rows whatever else it does, so that the
lemmas serve a module that composes calls with other steps.

For gated nodes, the root's turns and the integrations below them, for any nodes,
checks, cycles, turns and lost calls:

| theorem | property |
| --- | --- |
| `GateTypes` | `GateTypeOK` |
| `GatesJudgeTheWork` | `JudgesTheWork` |
| `RemediationIsHeld` | `TasksAreHeld` |
| `GatedSnapshotGrows` | `SnapshotGrows` of the composition |
| `RollbackIsFinal` | a Snapshot taken back is never moved forward again |
| `NoNodeStarvesHolds` | `NoNodeStarves` (the safety half of `GatedNodesEnd`) |

`JudgesTheWork` excuses a Snapshot that was rolled back, which makes it fragile: if
a rollback could be undone, a Gate opened during it would be without its work
afterwards. So the argument is about rollbacks. A call that was lost after its commit
leaves a Changeset that is named in git and not recorded (`Left`); every pass settles
the root's Changeset first and then the nodes' in order, so what is left was
committed in that order (`LeftInOrder`), and a call under way is for the first of
them (`FirstIsSettled`). The commit that a later call records is therefore an
ancestor of what an earlier one lost, and after a rollback no commit is added, since
HEAD is no longer the Snapshot (`RolledBackForGood`). The rest of `GateInv` ties the
rows together: a Gate exists only once the node's Changeset is integrated, another
one only once the Task of the one before was completed (`EarlierCompleted`), by a
turn whose Changeset is settled (`CompletedByATurn`), and only the latest turn has
anything to settle or holds a Task. TLC checked `GateInv` on two and three
nodes before it was proved.

A pass performs the first action of its projection, so one without effect starves the
others. `NoNodeStarves` says that there is none: while nothing is under way, the first
action the rows advise is one that the pass can perform, or every node ended or waits for
somebody. It is proved of the root and of the first node that acts, advice by advice,
against the guards of the operation. `RestInv` gives what
inspections take for granted: a node past `ready` has its worker, a worker or turn that
succeeded its Changeset, a conflict its Task, and a decided Gate without a Task has ended its
node (`DecidedEnds`). Excused are turns beyond the bound and the root whose Changeset conflicts
(finding 36); of a drifted workspace (34) it says only that the call is made, since the
call then fails. TLC checked it, and that what it takes for performable is enabled, under
the constants of `Gates.cfg`; each of its hypotheses is needed there.

For the plan, for any nodes, graph and revisions:

| theorem | property |
| --- | --- |
| `WorkIsOwnedHolds` | `WorkIsOwned` |
| `EdgesDeliverHolds` | `EdgesDeliver` |
| `NeverStalledHolds` | `NeverStalled` (the safety half of `EndsAreReported`) |

`WorkIsOwned` needs that the settlement a pass awaits is of a running node whose
Invocation completed (`SettlesRunning`), and that the id a revision gives a new node
was never made. `NeverStalled` says that a pass which finds no action while capacity is
left finds somebody at work, somebody waiting for an answer, or every member ended. The
argument takes a member that is open and that no other open one leads to: it exists, since
`GoesOnInv` keeps the edges of every revision acyclic, and all its edges are decided, so
it becomes ready or is skipped; a started one has its Invocation (`StartedHasWork`). That
a draft is acyclic is an assumption on the constants (`DraftsAreAcyclic`), which the
compiler's check of cycles (`compile.ts:505-545`) justifies.

For Decisions, for any positions, questions, turns and Attempts:

| theorem | property |
| --- | --- |
| `DecisionTypes` | `DecisionTypeOK` |
| `SpentOnceHolds` | `SpentOnce` |
| `HeardOnceHolds` | `HeardOnce` |

`SpentInv` says what a claim is worth: a claimed approval is the operator's yes to the
call of the turn before the claiming one, and whoever holds the claim has not
executed under it (`HeldIsClaimed`); a crash drops what is held and never the claim.
`HeardInv` says who knows of a Decision. A question names the one turn that asked
(`AskedBy`), so at most one turn waits on it and only the next turn of that position
is told; a choice that supersedes has no requester and is the heir of exactly one
Decision (`AskedOrHeir`, `HeirsDiffer`); and that heir is with the turn that waits on
the superseded Decision, in the queue, or with one turn that was told, never with two
of them (`OneWay`). `Continue` moves it from the first to the third, `PrepareTurn` from
the second to the third, and `Supersede` asks the rows which of the first two it is.
`FollowInv` says what a turn is told: nothing before its Decision ended (`ToldIsOver`), and
of a question exactly its answer, by exactly the turn after the one blocked on it
(`Answers`). The lemmas follow the rows (`RowsEnd`, `TurnsStay`, `EndsStay`): turns are only
appended, a told set and a blocked turn never change, and a Decision that ended stays
ended; so only `Continue` and `PrepareTurn` can disturb it, and the second finds a root
whose last turn succeeded.

For completion, for any leaves, cycles and accepting calls:

| theorem | property |
| --- | --- |
| `CompletionTypes` | `CompletionTypeOK` |
| `OneStoryHolds` | `OneStory` |
| `AcceptedIsVerifiedHolds` | `AcceptedIsVerified` |
| `NeverIdleHolds` | `NeverIdle` |

`AcceptedIsVerified` is about one step, and needs what the commit does not ask again:
that a Gate whose signoff is open passed with every verdict (`SignedOffPassed`), which
rests on the commands under way being those of the open Gate, with checks left and none
failed (`ChecksUnderWay`), and that a Gate of the current revision pinned every criterion
that counts now (`PinnedIsComplete`), since a leaf that comes or goes makes a new
revision. Snapshot, revision, questions and pause are asked again by the commit itself.

`NeverIdle` is the safety half of `VerificationEnds`: a Run in verification has commands
under way, a completion Invocation at work, an approval to wait for, or one of the seven
phases its engine acts on (`HasPhase`). What could be missed is a state no phase names: a
verdict that failed outside a check, which must have ended the cycle, or a synthesis
prepared before the last criterion passed; `JudgementIsClean` excludes both. TLC checked `NeverIdle` and
that every phase enables a step of the engine, under the constants of `Complete.cfg`.

For the host, under `HostAssumption` (limits are numbers, and a process has finitely many
Runs):

| theorem | property |
| --- | --- |
| `HostTypes` | the shape of the host, its passes and the call of stop() |
| `PassesFitHolds` | no more passes are active than the configured limit |
| `NoMarkLostHolds` | a Run with a mark is on the queue or has a pass |
| `StopMeansStoppedHolds` | once stop() resolved no pass is active and no Attempt executes |
| `OnlyPreparedStartsAfterStopHolds` | `OnlyPreparedStartsAfterStop` |
| `NoWakeUpLostHolds` | `NoWakeUpLost` (the safety half of `NoRunStranded`) |

The host's operations call one another, so the proofs are of operations and not of actions:
each takes a host that is `Sound` (limit, marks, nothing armed after the stop) to one that is
`Later`, with no pass ended and, when stopped, none begun. Draining and telling the Runs of
a released lease are folds of the community modules, recursive functions on sets of
positions; that such a function exists, and what it keeps along the prefixes of its sequence
(`PrefixesKeep`), is proved of the least position it could fail at, since an induction
theorem cannot be instantiated. `StartedDrains` keeps track of how much of the queue is
behind the drain, without which a Run taken from the queue need not be the one examined.
`HostInv` adds that an executing Attempt's Run has a pass that has not returned
(`AttemptsHavePasses`), which is why stop(), waiting for passes only, also waits for Attempts;
it says nothing of whether stop() resolves (finding 5). By `NoMarkLost` the loop at the end of
`pass()` that queues every other marked Run finds none: it repeats what the marks ensure.
TLC checked `HostInv` under the constants of `Host.cfg` before it was proved.

`NoWakeUpLost` is about the moments between the last projection of a pass and its end. A
lease released, or a row written, in between finds the Run neither waiting nor idle.
`WakeInv` says that every such Run is served (`IsServed`: by a mark, a timer, a pass that
will project once more, or one that ends for a reason which owes the Run another) or is
`Dormant` (nothing to do, or its row records that it waits for a lease while none is
free, which is what `capacityReleased` looks for), and that an Attempt which still executes
when its pass has left the loop was left by a failure or the limit (`LeftExecuting`), so
that its end marks the Run. Left out are the Runs of findings 6 (a timer) and 7 (a wait
that no row records), where a wake-up is lost.

For a coordinator_worker node, under `WorkersAssumption`, for any Tasks, turns, Workers
and answers of agents:

| theorem | property |
| --- | --- |
| `WorkersTypes` | `WorkersTypeOK` |
| `SucceededMeansDoneHolds` | `SucceededMeansDone` |
| `DependenciesFirstHolds` | `DependenciesFirst` |
| `AdvicePermittedHolds` | `AdvicePermitted` (`AdviceActs` without its `ENABLED`) |

`SucceededMeansDone` is not inductive: a synthesis takes a turn and an integration, and
the argument is that nothing disturbs the Tasks meanwhile (`SynthesisHolds`). From the
preparation of that turn on no Worker is active, none may start or continue and nothing
is advised but that turn (`AdviceOfSynthesis`); the turn itself may not propose; a Worker
that still runs serves a Task that was replaced; and only the Coordinator's Changeset may
be under way, since the turn was prepared with none applied. It also needs that a Worker
has an accepted Task (`WorkersHaveTasks`), so that no report makes one. The proof uses
nothing of the order in which Tasks are taken.

`DependenciesFirst` needs `OrderInv`. What is a fact of the rows becomes one of the Tasks:
an active Worker's Task is running (`ActiveMeansRunning`), a Task that has begun depends on
completed ones only (`BegunMeansRipe`), and a Changeset that is or is being integrated
comes after those of what its Task depends on (`AppliedInOrder`). Every step but a proposal
`Advances`: it keeps the edges and what is completed, and begins only what is ripe. A
proposal brings new Tasks, and the edges its replacements give to old dependents are the
hard part: a Task that has begun gains none, because all it depends on is completed and a
completed Task is never replaced. `Valid` keeps the edges acyclic, so the canonical order
never meets the cycle for which the code throws. What the first Task of that order is
(`FirstOfIs`) rests on a recursive function over sets of placed Tasks; that the function
exists and which Task it yields is proved of a placing with the fewest Tasks left
(`FirstsExist`, `FewestLeft`), since an induction theorem cannot be instantiated.

`AdvicePermitted` asks of every state in which the node is advised something that the
operation, which reads the rows again, does not refuse. `ReportInv` is what that needs of
the reports: a running Task has a Worker, or one whose end is still to be projected; a
blocked one says why, and names the Decision it waits for; an end says how it ended. The
hard case is a node with nothing active and nothing to project: `inspect` then has the
Coordinator synthesise, and that is right only if no Task merely waits for another. Of the unfinished
Tasks one depends on none of the others (by the ranks `OrderInv` keeps), so it is
runnable, blocked or for the frontier (`EveryTaskIsOver`). Excused are the states of
findings 22 and 27 to 31 (`Stuck`).

TLC checked `DoneInv`, `OrderInv` and `ReportInv` under the constants of `Workers.cfg`
before they were proved. `WorkersAssumption` fixes the results and reports that the result
schema allows, and `CompletedReports` that a result which completes its Invocation says so of its
Task (`result-validator.ts:96-101`); both hold of every answer the code accepts.

For the accounts of a Run, under `BudgetBounds`, for any nodes, allocations, drafts of the
plan and limits:

| theorem | property |
| --- | --- |
| `ReservationsFollowStatuses` | which statuses hold a reservation (`BudgetInv`) |
| `FundingFitsHolds` | `FundingFits` |
| `UsageReachesRunHolds` | `UsageReachesRun` |

Every account is a sum over reservations, so the proofs begin with what a sum over a finite
set does when values change: it is a number, the order of its elements does not matter
(`SumRemove`), and it grows by what is added to some of them (`SumGrows`). The community
modules define the sum by a recursive function on subsets; since an induction theorem takes
an operator as its parameter, the lemmas are proved of the smallest set that could be a
counterexample. `BudgetInv` is inductive. It says that a node holds its allocation exactly
while it is open, that an Invocation which may still execute holds its own and one not
prepared has spent nothing, that no Invocation outlives its node unless the node failed,
and that a verification under way has positions of the final reserve left. The first three
are what both properties need: what a step takes is held by nobody before, so the sum grows
by the whole of it and by nothing else, and what it releases is charged afterwards for what
it had consumed. `FundingFits` does not say that an account is never overdrawn (it is, by an
overrun), only that nothing is reserved then; `UsageReachesRun` excuses the failed node of
finding 21, where `NodesReserve` ends too. `BudgetBounds` asks that nodes and drafts are
finite, that an allocation and a node's items are at least one, and that the reserve and
what the root is granted fit the Budget, which the Run's schema (`core/src/runs.ts`) and the
reservation of the root's allocation (`reserveOrdinary`) ask. TLC checked
`BudgetInv` under the constants of `Budgets.cfg` before it was proved.

Only model-checked: what is about fairness or `ENABLED`, for which TLAPS has no reasoning
here. That is the conjunct `ENABLED Next` of `NeverStuck`, and in `AdviceActs` that what is
permitted is enabled; and the liveness properties. Of these the theorems give
the safety half, the statement that something is always there to be done, and fairness only has
to do it:

| liveness, with TLC | safety half, proved |
| --- | --- |
| `MarkedRunPasses` | `NoMarkLostHolds` |
| `NoRunStranded` | `NoWakeUpLostHolds` |
| `AdmittedWorkEnds`, `RequesterEnds` | `AlwaysANextAttempt`: one that is open and executes nothing can go on, and is no requester |
| `StopResolves` | `HostTypes`, `StopMeansStoppedHolds`: what a resolved stop means; that it resolves is checked only |
| `CancellationConverges` | `RowsAgreeHolds`: only what executes is left to settle |
| `ResourcesReturned` | `LeaseSafety`, `WorktreeSafety`: what is held is accounted for |
| `PublicationEnds` | `DriverFinishesHolds` |
| `FeedKept` | `FeedIsInOrder` |
| `VerificationEnds` | `NeverIdleHolds` |
| `EndsAreReported` | `NeverStalledHolds` |
| `NodeEnds` | `AdvicePermittedHolds` |
| `GatedNodesEnd` | `NoNodeStarvesHolds` |

## Findings

1. **A Decision answered early** (`persistence/stores/invocations.ts:320`).
   Blocking an Invocation demands an open Decision, and an operator or a
   deadline may have answered it while the requester executed. Finalization
   then throws for ever, and so does recovery at every start. `AnsweredEarly` is
   this state.
2. **A failed finalization is not retried** (`execution/scheduler.ts:714`). The
   executor can repeat it; nothing calls it.
3. **Shutdown may fail work** (`execution/retry-policy.ts:163`). An interrupted
   last Attempt is refused its retry and its Invocation fails. Seen in
   `AttemptExecution` with two Attempts; no run of its own is kept.
4. **A call after the shutdown began** (`execution/attempt-executor.ts:268`). A
   preparation that awaits its continuation is not asked again;
   `OnlyPreparedStartsAfterStop` says that nothing else starts.
5. **stop() never resolves** (`host/run-host.ts:286`) when a pass ends with work
   left in a stopping host; the shutdown waits out its bound. `StopResolves` excuses
   this state only.
6. **A stranded Run** (`execution/scheduler.ts:600`). The stop reason and the
   wake-up time come from two projections with two clock readings.
7. **A lost capacity release** (`host/run-host.ts:292`). A waiter that the rows
   do not record is registered after the release it waits for. Seen in `RunHost`
   with `Recording = {}` and two concurrent passes; no run of its own is kept.

8. **A race misread** (`workspace-state/publish.ts:251`). Of two drivers of one
   Publication, the loser of the reference transaction takes the winner's change
   for a foreign one and may record `failed` for a Publication that changed the
   Target; the Run can then be published again.
9. **A damaged marker** (`workspace-state/publish.ts:155`) after the Target moved
   leaves a prepared Publication that no retry can verify and that forbids every
   other Publication of its Run.
10. **An approval nobody can give** (`api/routes/records.ts:90`). No production
    path resolves a `side_effect_approval` Decision.
11. **A successor without its input** (`execution/patterns/root.ts:352`). The
    continuation of a turn that was started by an answer does not carry it.
12. **A synthesis that blocks** (`execution/completion.ts:236`) fails the whole
    cycle, since the Decision it opened is an unmet condition.
13. **Leaves are never violated** (`execution/completion.ts:464`), as the
    documents say they are when an evaluation fails.
14. **A revision while signoff is awaited** (`execution/signoff.ts:310`) blocks
    acceptance and the request for changes; cancel is the only exit.
15. **A request that outlives its Run** (`execution/patterns/root.ts:310`).
16. **caught_up after every live commit** (`events/stream.ts:202`).
17. **A removed node's result** (`execution/patterns/root.ts:200`) is never
    reported, as the documents say it is.
18. **An edge into a ready node** (`execution/plan-revision-service.ts:264`). The
    node is started before its new predecessor ended.
19. **A removed chain** (`execution/scheduler.ts:439`) is settled without effect
    for ever, and keeps the Orchestrator from hearing of anything.
20. **A handoff of a removed edge** (`execution/handoff-routing.ts:213`) is
    delivered.
21. **Usage after a failure** (`persistence/stores/plans.ts:782`). A parallel node
    that fails while items execute releases its reservation; what they spend
    afterwards reaches no account of the Run.
22. **A ready Task without a reservation**
    (`execution/patterns/coordinator-worker.ts:268`) is committed when an answered
    Worker's successor is refused capacity, and every later pass throws.
23. **A waiting node does not execute** (`execution/scheduler.ts:418`) its prepared
    or retried children, whose end is what it waits for.
24. **`wait` after an increase** (`execution/plan-node-capacity.ts:35`). The
    documents say an approved increase ends the wait, the code that it does not.
25. **A removed node keeps its reservation** (`execution/signoff.ts:319`): the Run
    is verified, and can then neither be accepted nor changed.
26. **Two readings of the ordinary pool**
    (`execution/plan-revision-service.ts:306`): the preflight of a revision ignores
    an overrun of the final reserve, the store does not.
27. **A Worker without room** (`execution/patterns/coordinator-worker.ts:165`). An
    answered Worker is advised to continue although the bound of active Workers is
    reached; the queued ones behind it never execute.
28. **A superseded answer** (`execution/patterns/coordinator-worker.ts:250`)
    continues neither a Worker nor a Coordinator turn.
29. **A requester whose Task is gone**
    (`execution/patterns/coordinator-worker.ts:643`): the answer of a Worker whose
    Task was cancelled or replaced is offered to the node for ever.
30. **A replaced dependency** (`persistence/stores/tasks.ts:345`) is left out by the
    projection and demanded by the store, which throws in every pass.
31. **A Task completed in a failed result**
    (`execution/patterns/coordinator-worker.ts:738`) gets no Handoff, and the node
    no next action.
32. **Tasks of a failed node** (`execution/patterns/support.ts:515`) keep their
    status and reservations unless `failNode` failed it.
33. **A Task whose Worker asked** (`execution/invocation-lifecycle.ts:88`) is
    `blocked`, where the documents say it stays `running`.
34. **A lost record followed by another Changeset**
    (`workspace-state/integration.ts:44`): the workspace has drifted, and every
    later pass ends there.
35. **An overtaken Changeset that changed nothing**
    (`workspace-state/integration.ts:34`): its ref takes the Run's Snapshot back
    behind what was integrated since.
36. **A conflict of the root's own Changeset** (`execution/patterns/root.ts:168`) is
    settled for ever, and no other action of the Run is reached.
37. **A conflict Task nobody is given** (`execution/integration-service.ts:194`): the
    documents say its completion resumes the node; it can only be cancelled.
38. **A removed gated node** (`execution/patterns/support.ts:785`) is settled without
    effect for ever.

They were seen while their module was written:
most with TLC under a constant, a fault or a draft the committed runs leave out,
some (10, 11, 13, 15, 16, 17, 24, 26, 32, 33, 37, 38) by reading alone; no run is kept for
them. The full statements, with the quoted lines, are in `PROJECT.json`.

## What is not modelled

Formatting, schemas, content of manifests and prompts, HTTP and the web
interface: no property here depends on them. Conversation-mode Runs (they differ
in who prepares their turns). The compiler, which is a pure validation of a
draft; `MCPlan` takes its output as given. The patterns evaluator_optimizer, parallel beyond its accounts (aggregation, integration of
its items), the Gates of patterns other than single, the governor's provider limits,
and the working copy that follows a published branch: planned, see below. git,
the providers, SQLite and the network are external; what the models assume of
them is that a transaction is atomic, that preparation and removal of a worktree
are idempotent, that an aborted call returns, and that a socket delivers a
prefix of what was written.

## Plan

1. *(done)* `AttemptExecution`: the life of an Attempt across failure.
2. *(done)* `RunHost`: who gets a pass, and stop.
3. *(done)* `Publication`, and the abstract `PublicationPromise` it implements.
4. *(done)* `Storage`: rows, blobs, hooks and reconciliation.
5. *(done)* `Decisions`: answers, successors and approvals.
6. *(done)* `Completion`: requests, Gate cycles, synthesis, signoff.
7. *(done)* `PlanGraph` and `Plan`: readiness, joins, revisions, settlement.
8. *(done)* `EventStream` against `EventFeed`.
9. *(done)* `Budgets`: the accounts of a Run and what draws on them.
10. *(done)* `Integration`, and `NodeGates` composed with it: gated nodes with
    remediation, conflicts and lost records.
11. *(done)* `Workers`: the Coordinator's turns, its Tasks and their Workers.
12. The pattern with rounds (evaluator_optimizer), and `GovernorAvailability`
    (quota, retry-after).
13. *(done)* `InvocationLifecycle`: an abstract Invocation (open, executing, ended
    once) that `AttemptExecution` implements, checked and proved.

Open is item 12. Worth proving with it: that an abstract node (readied, at work, ended
once, reported to the root once) is what `Plan`, `NodeGates` and `Workers` each implement.
