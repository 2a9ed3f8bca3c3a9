-------------------------- MODULE AttemptExecution --------------------------
(***************************************************************************)
(* The execution of Attempts: an Invocation is prepared, its Attempts are  *)
(* prepared under a capacity lease, dispatched to a provider outside every *)
(* transaction and finalized in one transaction, while the operator        *)
(* cancels, pauses and resumes the Run, deadlines pass, finalizations      *)
(* fail, and the process shuts down, crashes and recovers from the rows.   *)
(*                                                                         *)
(* Sources: execution/attempt-executor.ts, retry-policy.ts,                *)
(* invocation-lifecycle.ts, invocation-preparation-service.ts,             *)
(* run-control.ts, run-cancellation.ts, recovery-service.ts,               *)
(* workspace-cleanup.ts, governor.ts, persistence/stores/invocations.ts.   *)
(*                                                                         *)
(* Each action is one transaction or one synchronous segment between two   *)
(* awaits.  "Rows" survive a crash; "memory" does not.                     *)
(***************************************************************************)
EXTENDS RunRow, AttemptPolicy, FiniteSets

CONSTANTS
  Runs,             \* Runs of the process
  Invocations,      \* Invocations that may ever be prepared
  RunOf,            \* the Run of each Invocation
  RootTurns,        \* Orchestrator turns of the root node: one failing fails its Run
  CompletionWork,   \* Invocations funded from the final reserve (a verifying Run's)
  Writers,          \* Invocations with a worktree of their own
  Timed,            \* Invocations with a wall-clock limit
  Resumable,        \* Invocations whose next Attempt may resume a provider continuation
  MaxAttempts,      \* Attempts in an Invocation's allocation
  Slots,            \* process concurrency of the governor
  WorktreeSlots,    \* worktrees the governor grants
  Waits,            \* automatic wait reasons the scheduler records
  Reports,          \* provider completions considered
  Spends,           \* usage levels an Attempt may bring its Invocation to
  Faults            \* collection, finalization and worktree release may fail

ASSUME ConstantsAssumption ==
  /\ RunOf \in [Invocations -> Runs]
  /\ RootTurns \subseteq Invocations /\ CompletionWork \subseteq Invocations
  /\ Writers \subseteq Invocations /\ Timed \subseteq Invocations
  /\ Resumable \subseteq Invocations
  /\ MaxAttempts \in Nat \ {0}
  /\ Slots \in Nat /\ WorktreeSlots \in Nat
  /\ Waits \subseteq AutoWaitReasons
  /\ Reports \subseteq Reportable /\ Spends \subseteq UsageLevels
  /\ Faults \in BOOLEAN

VARIABLES
  \* ---- rows
  run,        \* the Run rows
  inv,        \* Invocation status; "absent" before its preparation
  tries,      \* number of Attempt rows of the Invocation
  att,        \* the Attempt rows: status, failure class, retry decision
  leases,     \* active capacity leases, by the Attempt that holds each
  task,       \* status of the Invocation's Task
  usage,      \* recorded consumption against the allocation
  request,    \* the Decision the Invocation requested: none, open, answered
  cleanup,    \* workspaceCleanup: none, pending, released
  \* ---- outside the database
  worktree,   \* the worktree exists on disk
  late,       \* the Invocation's wall-clock deadline has passed
  waiting,    \* Invocations whose backoff has not elapsed
  \* ---- memory of the process
  proc,       \* down, recovering, up, stopping
  flight,     \* the executor's in-flight record of the Invocation's Attempt
  releasing,  \* worktree releases that follow a commit and are still to run
  resolving   \* preparations that await the continuation payload

rows == <<run, inv, tries, att, leases, task, usage, request, cleanup>>
memory == <<proc, flight, releasing, resolving>>
vars == <<rows, worktree, late, waiting, memory>>

-----------------------------------------------------------------------------
Numbers == 1..MaxAttempts
NoAttempt == [status |-> "none", class |-> "none", retry |-> "none"]
RunningAttempt == [status |-> "running", class |-> "none", retry |-> "none"]
AttemptRows ==
  [status : AttemptTerminal \cup {"none", "running"}, class : FailureClasses \cup {"none"},
   retry : {"none", "permitted", "refused"}]
EndedRow(ended, retry) == [status |-> ended.status, class |-> ended.class, retry |-> retry]

\* A flight passes prepared -> executing -> returned -> collected; "stalled" is
\* one whose collection or finalization failed: its outcome is kept, nothing runs.
NoFlight == [phase |-> "none", number |-> 0, cause |-> "none", outcome |-> "none",
             spent |-> "within", changeset |-> FALSE]
NewFlight(n) == [NoFlight EXCEPT !.phase = "prepared", !.number = n]
Flights ==
  [phase : {"none", "prepared", "executing", "returned", "collected", "stalled"},
   number : Numbers \cup {0}, cause : Interruptions \cup {"none"},
   outcome : Completions \cup {"none"}, spent : UsageLevels, changeset : BOOLEAN]

Of(r) == {i \in Invocations : RunOf[i] = r}
Row(i) == run[RunOf[i]]
Running(i) == {n \in Numbers : att[i][n].status = "running"}
Executing == {i \in Invocations : Running(i) # {}}
Terminal(i) == inv[i] \in InvocationTerminal
Live(i) == inv[i] \in {"pending", "running"}
InFlight(i) == flight[i].phase # "none"
PreviousClass(i, n) == IF n = 1 THEN "none" ELSE att[i][n - 1].class

\* Mutant: the worktrees of cancelled Invocations are forgotten.
OutstandingButCancelled(status) ==
  {i \in Invocations : cleanup[i] = "pending" /\ status[i] \in InvocationTerminal \ {"cancelled"}}

\* listPendingWorkspaceCleanup: the obligations of Invocations that have ended.
Outstanding(status) ==
  {i \in Invocations : cleanup[i] = "pending" /\ status[i] \in InvocationTerminal}

UnchangedRows == UNCHANGED <<rows, worktree, late, waiting>>

Init ==
  /\ run = [r \in Runs |-> NewRun]
  /\ inv = [i \in Invocations |-> "absent"]
  /\ tries = [i \in Invocations |-> 0]
  /\ att = [i \in Invocations |-> [n \in Numbers |-> NoAttempt]]
  /\ leases = {}
  /\ task = [i \in Invocations |-> "ready"]
  /\ usage = [i \in Invocations |-> "within"]
  /\ request = [i \in Invocations |-> "none"]
  /\ cleanup = [i \in Invocations |-> "none"]
  /\ worktree = [i \in Invocations |-> FALSE]
  /\ late = [i \in Invocations |-> FALSE]
  /\ waiting = {}
  /\ proc = "up"
  /\ flight = [i \in Invocations |-> NoFlight]
  /\ releasing = {}
  /\ resolving = {}

-----------------------------------------------------------------------------
(***************************************************************************)
(* Preparation of the Invocation: row, manifest, worktree obligation and   *)
(* the Task it holds, in one transaction.                                  *)
(***************************************************************************)
Unprepared(i) == inv[i] = "absent" /\ task[i] = "ready" /\ ~worktree[i]

Preparable(i) ==
  /\ Unprepared(i)
  /\ AdmitsNewWork(Row(i))
  /\ IF i \in CompletionWork THEN Row(i).status = "verifying"
                             ELSE Row(i).status \in {"running", "waiting"}

\* What prepare() writes, in the transaction of whoever calls it.
Prepares(i) ==
  /\ Unprepared(i)
  /\ inv' = [inv EXCEPT ![i] = "pending"]
  /\ task' = [task EXCEPT ![i] = "running"]
  /\ cleanup' = [cleanup EXCEPT ![i] = IF i \in Writers THEN "pending" ELSE "none"]
  /\ worktree' = [worktree EXCEPT ![i] = i \in Writers]
  /\ UNCHANGED <<tries, att, leases, usage, request, late, waiting, memory>>

PrepareInvocation(i) ==
  /\ proc = "up"
  /\ Preparable(i) /\ Prepares(i)
  /\ UNCHANGED run

(***************************************************************************)
(* nextPermission: the tests in the order the code makes them; a refusal   *)
(* that settles the Invocation is RefuseExhausted.                         *)
(***************************************************************************)
Admissible(i) ==
  /\ Live(i)
  /\ Running(i) = {}
  /\ AdmitsNewWork(Row(i))
  /\ request[i] = "none"

RetryDue(i) == tries[i] > 0 => (att[i][tries[i]].retry = "permitted" /\ i \notin waiting)
AllocationLeft(i) == tries[i] < MaxAttempts /\ usage[i] = "within"

\* tryAcquire: the active leases are counted against every limit.
GovernorAdmits(i) ==
  /\ Cardinality(leases) < Slots
  /\ i \in Writers => Cardinality({l \in leases : l[1] \in Writers}) < WorktreeSlots

Permitted(i) == Admissible(i) /\ ~late[i] /\ RetryDue(i) /\ AllocationLeft(i)
Exhausted(i) == Admissible(i) /\ (late[i] \/ (RetryDue(i) /\ ~AllocationLeft(i)))

\* prepareNextAttempt up to its await: the payload is read outside any transaction,
\* and the shutdown, like everything else, may come meanwhile.
ResolveContinuation(i) ==
  /\ proc = "up"
  /\ i \in Resumable \ resolving /\ Permitted(i)
  /\ resolving' = resolving \cup {i}
  /\ UnchangedRows /\ UNCHANGED <<proc, flight, releasing>>

\* A step of the scheduler, or the rest of one that was admitted before.
MayPrepare(i) == proc = "up" \/ i \in resolving

\* The transaction inspects again.  The Attempt, its lease and the running
\* Invocation commit together; the flight exists only once they have.
PrepareAttempt(i) ==
  LET n == tries[i] + 1 IN
  /\ MayPrepare(i)
  /\ Permitted(i) /\ GovernorAdmits(i)
  /\ tries' = [tries EXCEPT ![i] = n]
  /\ att' = [att EXCEPT ![i][n] = RunningAttempt]
  /\ leases' = leases \cup {<<i, n>>}
  /\ inv' = [inv EXCEPT ![i] = "running"]
  /\ flight' = [flight EXCEPT ![i] = NewFlight(n)]
  /\ resolving' = resolving \ {i}
  /\ UNCHANGED <<run, task, usage, request, cleanup, worktree, late, waiting, proc, releasing>>

\* refuse: no Attempt is created and the Invocation fails allocation_exhausted.
RefuseExhausted(i) ==
  /\ MayPrepare(i)
  /\ Exhausted(i)
  /\ inv' = [inv EXCEPT ![i] = "failed"]
  /\ task' = [task EXCEPT ![i] = IF @ = "running" THEN "failed" ELSE @]
  /\ releasing' = releasing \cup ({i} \cap {j \in Invocations : cleanup[j] = "pending"})
  /\ resolving' = resolving \ {i}
  /\ UNCHANGED <<run, tries, att, leases, usage, request, cleanup, worktree, late, waiting,
                 proc, flight>>

\* Any other refusal, of the rows or of the governor, writes nothing.
RefuseOtherwise(i) ==
  /\ i \in resolving
  /\ ~Exhausted(i) /\ ~(Permitted(i) /\ GovernorAdmits(i))
  /\ resolving' = resolving \ {i}
  /\ UnchangedRows /\ UNCHANGED <<proc, flight, releasing>>

-----------------------------------------------------------------------------
(***************************************************************************)
(* The provider call, outside every transaction.                           *)
(***************************************************************************)
CallProvider(i) ==
  /\ flight[i].phase = "prepared"
  /\ flight[i].cause = "none" /\ AdmitsNewWork(Row(i))
  /\ flight' = [flight EXCEPT ![i].phase = "executing"]
  /\ UnchangedRows /\ UNCHANGED <<proc, releasing, resolving>>

\* dispatch refused: the Attempt ends interrupted without a provider call.
NotDispatched(i) ==
  /\ flight[i].phase = "prepared"
  /\ flight[i].cause # "none" \/ ~AdmitsNewWork(Row(i))
  /\ flight' = [flight EXCEPT
       ![i].phase = "returned", ![i].outcome = "interrupted",
       ![i].cause = IF @ # "none" THEN @
                    ELSE IF Row(i).status \in RunTerminal THEN "cancelled"
                    ELSE "operator_pause"]
  /\ UnchangedRows /\ UNCHANGED <<proc, releasing, resolving>>

\* The provider answers whatever it likes, after an abort too; "deadline" is the
\* adapter's own timer.
ProviderReturns(i) ==
  /\ flight[i].phase = "executing"
  /\ \E outcome \in Reports, spent \in Spends :
       /\ outcome = "deadline" => late[i]
       /\ flight' = [flight EXCEPT ![i].phase = "returned", ![i].outcome = outcome,
                                   ![i].spent = spent]
  /\ UnchangedRows /\ UNCHANGED <<proc, releasing, resolving>>

\* An accepted request_decision of the executing turn: the logical turn ends here.
RequestDecision(i) ==
  /\ flight[i].phase = "executing"
  /\ inv[i] = "running" /\ Running(i) # {}
  /\ RunningOrDraining(Row(i))
  /\ request[i] = "none"
  /\ request' = [request EXCEPT ![i] = "open"]
  /\ UNCHANGED <<run, inv, tries, att, leases, task, usage, cleanup, worktree, late, waiting,
                 memory>>

\* DecisionRequestService.resolve and resolveDefault: neither asks whether the
\* requester has already ended blocked, so the answer may come while it executes.
AnswerDecision(i) ==
  /\ proc = "up"
  /\ request[i] = "open"
  /\ Row(i).status \notin RunTerminal
  /\ request' = [request EXCEPT ![i] = "answered"]
  /\ UNCHANGED <<run, inv, tries, att, leases, task, usage, cleanup, worktree, late, waiting,
                 memory>>

\* run(): a writer's completed turn is collected unless something interrupted it.
CollectChangeset(i) ==
  /\ flight[i].phase = "returned"
  /\ LET interrupted == flight[i].cause # "none" \/ ImposedInterruption(Row(i)) # "none"
         collects == ~interrupted /\ i \in Writers /\ flight[i].outcome \in {"valid", "invalid"}
     IN flight' = [flight EXCEPT ![i].phase = "collected", ![i].changeset = @ \/ collects]
  /\ UnchangedRows /\ UNCHANGED <<proc, releasing, resolving>>

\* A collection, a continuation write or a finalization that throws: everything
\* rolls back and the flight keeps its outcome, with nothing executing it.
ExecutionFails(i) ==
  /\ Faults
  /\ flight[i].phase \in {"returned", "collected"}
  /\ flight' = [flight EXCEPT ![i].phase = "stalled"]
  /\ UnchangedRows /\ UNCHANGED <<proc, releasing, resolving>>

\* executePreparedAttempt called again: finalization is retried, the call is not.
ExecuteAgain(i) ==
  /\ flight[i].phase = "stalled"
  /\ flight' = [flight EXCEPT ![i].phase = "returned"]
  /\ UnchangedRows /\ UNCHANGED <<proc, releasing, resolving>>

-----------------------------------------------------------------------------
(***************************************************************************)
(* settleCancelledRunWork: what a cancelled Run leaves of its Invocations  *)
(* and Tasks.  "active" are the Invocations that still execute.            *)
(***************************************************************************)
\* Mutant: an Invocation between two Attempts is left open.
ConvergedInvocationsPendingOnly(r, status, active) ==
  [i \in Invocations |->
     IF i \in Of(r) /\ status[i] = "pending" THEN "cancelled" ELSE status[i]]

ConvergedInvocations(r, status, active) ==
  [i \in Invocations |->
     IF i \in Of(r) /\ status[i] \in {"pending", "running"} /\ i \notin active
     THEN "cancelled" ELSE status[i]]

ConvergedTasks(r, status, tasks) ==
  [i \in Invocations |->
     IF /\ i \in Of(r)
        /\ \/ tasks[i] \in {"ready", "blocked"}
           \/ tasks[i] = "running" /\ status[i] \in InvocationTerminal
     THEN "cancelled" ELSE tasks[i]]

\* The rows of Invocations and Tasks with the work of the Runs in "ended"
\* converged; status and tasks are the values the same transaction wrote.
Converge(ended, status, tasks, active) ==
  LET settled(r) == ConvergedInvocations(r, status, active)
  IN /\ inv' = [i \in Invocations |->
                  IF RunOf[i] \in ended THEN settled(RunOf[i])[i] ELSE status[i]]
     /\ task' = [i \in Invocations |->
                  IF RunOf[i] \in ended
                  THEN ConvergedTasks(RunOf[i], settled(RunOf[i]), tasks)[i] ELSE tasks[i]]

CancelledRuns(changed) == {r \in Runs : changed[r].status = "cancelled"}

(***************************************************************************)
(* finalize: one transaction.  The Run row decides late: a cancellation    *)
(* outranks the cause held in memory, which outranks the row's pause.  A   *)
(* request the turn committed outranks them all, and blocks the Invocation *)
(* on its Decision, which must still be open.                              *)
(***************************************************************************)
\* Mutant: a cancellation is known only from the interruption delivered in memory.
InterruptionOfMemoryOnly(i) == flight[i].cause

InterruptionOf(i) ==
  IF Row(i).status = "cancelled" THEN "cancelled"
  ELSE IF flight[i].cause # "none" THEN flight[i].cause
  ELSE ImposedInterruption(Row(i))

\* Mutant: a writer's result is accepted without its Changeset.
ResultValidUncollected(i) == flight[i].outcome = "valid"

ResultValid(i) == flight[i].outcome = "valid" /\ (i \in Writers => flight[i].changeset)

MoreUsed(before, spent) ==
  IF "over" \in {before, spent} \/ (before = "full" /\ spent # "within") THEN "over"
  ELSE IF "full" \in {before, spent} THEN "full" ELSE "within"

Classified(i) ==
  IF request[i] # "none" THEN FailedAs("decision_requested")
  ELSE Classify(flight[i].outcome, ResultValid(i), InterruptionOf(i),
                MoreUsed(usage[i], flight[i].spent) = "over")

\* Mutant: an Attempt that requested a Decision is settled like a failed one.
HandsOverForApprovalOnly(i) ==
  flight[i].outcome = "approval_required" /\ InterruptionOf(i) = "none"

\* The Invocation ends blocked: on its own request, or on the approval of the
\* call the provider ended on.
HandsOver(i) ==
  \/ request[i] # "none"
  \/ flight[i].outcome = "approval_required" /\ InterruptionOf(i) = "none"

\* Mutant: the lease of an Attempt whose Run was cancelled is kept.
ReleasedUnlessCancelled(i, n) ==
  IF Row(i).status = "cancelled" THEN leases ELSE leases \ {<<i, n>>}

Released(i, n) == leases \ {<<i, n>>}

Finalize(i) ==
  LET n     == flight[i].number
      ended == Classified(i)
  IN
  /\ flight[i].phase = "collected"
  /\ request[i] # "answered"
  /\ \E retry \in RetryDecisions(ended, PreviousClass(i, n), HandsOver(i),
                                 n >= MaxAttempts, late[i], i \in Timed) :
       LET settled == SettledStatus(ended, retry, HandsOver(i)) IN
       /\ att' = [att EXCEPT ![i][n] = EndedRow(ended, retry)]
       /\ waiting' = IF BacksOff(ended, retry) THEN waiting \cup {i} ELSE waiting
       /\ releasing' = IF settled \in InvocationTerminal /\ cleanup[i] = "pending"
                       THEN releasing \cup {i} ELSE releasing
       /\ \E report \in SettledTasks(settled) :
            Converge({RunOf[i]} \cap CancelledRuns(run),
                     [inv EXCEPT ![i] = settled],
                     [task EXCEPT ![i] = IF @ = "running" THEN report ELSE @],
                     Executing \ {i})
  /\ leases' = Released(i, n)
  /\ usage' = [usage EXCEPT ![i] = MoreUsed(@, flight[i].spent)]
  /\ flight' = [flight EXCEPT ![i] = NoFlight]
  /\ UNCHANGED <<run, tries, request, cleanup, worktree, late, proc, resolving>>

-----------------------------------------------------------------------------
(***************************************************************************)
(* Interruptions: delivered to the flights that have no outcome, at most   *)
(* once each.                                                              *)
(***************************************************************************)
Interruptible(i) == flight[i].phase \in {"prepared", "executing"} /\ flight[i].cause = "none"

Delivered(targets, cause) ==
  [i \in Invocations |-> IF i \in targets /\ Interruptible(i)
                         THEN [flight[i] EXCEPT !.cause = cause] ELSE flight[i]]

\* RunControlService.cancel; repeating it delivers and releases again.
CancelRun(r) ==
  /\ proc = "up"
  /\ run[r].status \notin {"completed", "failed"}
  /\ run' = [run EXCEPT ![r] = Moved(@, "cancelled", "none")]
  /\ Converge(IF run[r].status = "cancelled" THEN {} ELSE {r}, inv, task, Executing)
  /\ flight' = Delivered(Of(r), "cancelled")
  /\ releasing' = releasing \cup (Of(r) \cap Outstanding(inv'))
  /\ UNCHANGED <<tries, att, leases, usage, request, cleanup, worktree, late, waiting, proc,
                 resolving>>

PauseRun(r, mode) ==
  /\ proc = "up"
  /\ MayPause(run[r])
  /\ run' = [run EXCEPT ![r] = Paused(@, mode)]
  /\ flight' = IF Paused(run[r], mode).pause = "hard"
               THEN Delivered(Of(r), "operator_pause") ELSE flight
  /\ UNCHANGED <<inv, tries, att, leases, task, usage, request, cleanup, worktree, late,
                 waiting, proc, releasing, resolving>>

ResumeRun(r) ==
  /\ proc = "up"
  /\ MayResume(run[r])
  /\ run' = [run EXCEPT ![r] = Resumed(@)]
  /\ UNCHANGED <<inv, tries, att, leases, task, usage, request, cleanup, worktree, late,
                 waiting, memory>>

\* enforceDeadlines, which the scheduler's pass calls.
EnforceDeadline(i) ==
  /\ late[i] /\ Interruptible(i)
  /\ flight' = Delivered({i}, "deadline")
  /\ UnchangedRows /\ UNCHANGED <<proc, releasing, resolving>>

-----------------------------------------------------------------------------
(***************************************************************************)
(* The Run's own progress, by the scheduler, the completion pipeline and   *)
(* the operator's signoff.                                                 *)
(***************************************************************************)
Quiescent(r) == \A i \in Of(r) : ~Live(i)

MoveRun(r, to, reason) ==
  /\ proc = "up"
  /\ MayMove(run[r], to)
  /\ run' = [run EXCEPT ![r] = Moved(@, to, reason)]
  /\ UNCHANGED <<inv, tries, att, leases, task, usage, request, cleanup, worktree, late,
                 waiting, memory>>

\* A transition that prepares a root turn in its own transaction.
MoveRunAndPrepare(r, to) ==
  /\ proc = "up"
  /\ MayMove(run[r], to)
  /\ run' = [run EXCEPT ![r] = Moved(@, to, "none")]
  /\ \E i \in Of(r) \cap RootTurns : Prepares(i)

StartRun(r) == run[r].status = "created" /\ MoveRunAndPrepare(r, "running")

WaitRun(r) ==
  /\ run[r].status = "running"
  /\ \A i \in Of(r) : ~InFlight(i)
  /\ \E reason \in Waits : MoveRun(r, "waiting", reason)

\* resume_run: clears exactly the automatic wait it projected.
ClearWait(r) ==
  /\ run[r].status = "waiting" /\ MayClear(run[r], run[r].wait)
  /\ MoveRun(r, "running", "none")

BeginVerification(r) ==
  run[r].status = "running" /\ Quiescent(r) /\ MoveRun(r, "verifying", "none")

AwaitSignoff(r) ==
  run[r].status = "verifying" /\ Quiescent(r) /\ MoveRun(r, "awaiting_signoff", "none")

FailVerification(r) ==
  run[r].status = "verifying" /\ Quiescent(r) /\ MoveRun(r, "running", "none")

\* The operator's signoff: the follow-up turn commits with the requested changes.
RequestChanges(r) ==
  run[r].status = "awaiting_signoff" /\ Quiescent(r) /\ MoveRunAndPrepare(r, "running")

CompleteRun(r) ==
  run[r].status = "awaiting_signoff" /\ Quiescent(r) /\ MoveRun(r, "completed", "none")

\* The root's turn failed: the Run fails, whatever its other nodes execute.
FailRun(r) ==
  /\ run[r].status = "running"
  /\ \E i \in Of(r) \cap RootTurns : inv[i] = "failed"
  /\ MoveRun(r, "failed", "none")

-----------------------------------------------------------------------------
(***************************************************************************)
(* Worktree release: the external removal, then its record, after the      *)
(* commit that ended the Invocation.                                       *)
(***************************************************************************)
RemoveWorktree(i) ==
  /\ i \in releasing /\ worktree[i]
  /\ worktree' = [worktree EXCEPT ![i] = FALSE]
  /\ UNCHANGED <<rows, late, waiting, memory>>

\* Mutant: the release is recorded before the worktree is gone.
RecordReleasedFirst(i) ==
  /\ i \in releasing
  /\ cleanup' = [cleanup EXCEPT ![i] = "released"]
  /\ releasing' = releasing \ {i}
  /\ UNCHANGED <<run, inv, tries, att, leases, task, usage, request, worktree, late, waiting,
                 proc, flight, resolving>>

RecordReleased(i) ==
  /\ i \in releasing /\ ~worktree[i]
  /\ cleanup' = [cleanup EXCEPT ![i] = "released"]
  /\ releasing' = releasing \ {i}
  /\ UNCHANGED <<run, inv, tries, att, leases, task, usage, request, worktree, late, waiting,
                 proc, flight, resolving>>

ReleaseFails(i) ==
  /\ Faults
  /\ i \in releasing /\ worktree[i]
  /\ releasing' = releasing \ {i}
  /\ UnchangedRows /\ UNCHANGED <<proc, flight, resolving>>

-----------------------------------------------------------------------------
(***************************************************************************)
(* Time, shutdown, crash and recovery.                                     *)
(***************************************************************************)
\* A permitted backoff ends before the deadline.
DeadlinePasses(i) ==
  /\ i \in Timed /\ inv[i] = "running" /\ ~late[i] /\ i \notin waiting
  /\ late' = [late EXCEPT ![i] = TRUE]
  /\ UNCHANGED <<rows, worktree, waiting, memory>>

BackoffElapses(i) ==
  /\ i \in waiting
  /\ waiting' = waiting \ {i}
  /\ UNCHANGED <<rows, worktree, late, memory>>

\* shutdownApp: admission closes, the host admits no further action and every
\* executing Attempt is interrupted; what settles before the exit settles.
Shutdown ==
  /\ proc = "up"
  /\ proc' = "stopping"
  /\ flight' = Delivered(Invocations, "shutdown")
  /\ UnchangedRows /\ UNCHANGED <<releasing, resolving>>

\* A preparation, the first of a Run that starts or a later one, can be under way.
PreparationUnderWay(i) ==
  /\ proc = "up"
  /\ Preparable(i) \/ (Unprepared(i) /\ i \in RootTurns /\ Row(i).status = "created")

\* The process ends, in order or not: the memory is lost.  A preparation cut short
\* before its commit leaves the worktree it created and no row of it; the next
\* preparation has an id, and a worktree, of its own.
ProcessEnds ==
  /\ proc # "down"
  /\ proc' = "down"
  /\ flight' = [i \in Invocations |-> NoFlight]
  /\ releasing' = {} /\ resolving' = {}
  /\ \/ UNCHANGED worktree
     \/ \E i \in Writers : PreparationUnderWay(i) /\ worktree' = [worktree EXCEPT ![i] = TRUE]
  /\ UNCHANGED <<rows, late, waiting>>

(***************************************************************************)
(* RecoveryService.reconcile, in one transaction over every Attempt the    *)
(* dead process left active.  Its blocked transition has the same          *)
(* precondition as finalization's.                                         *)
(***************************************************************************)
Abandoned(i) == request[i] = "none" /\ Row(i).status = "cancelled"

RecoveredEnd(i) ==
  IF Abandoned(i) THEN Ended("cancelled", "none") ELSE Ended("interrupted", "interrupted")

RecoveredRetry(i) ==
  IF RefusesRetry(RecoveredEnd(i), "none", request[i] # "none", tries[i] >= MaxAttempts, late[i])
  THEN "refused" ELSE "permitted"

RecoveredStatus(i) == SettledStatus(RecoveredEnd(i), RecoveredRetry(i), request[i] # "none")

RecoveredTask(i) ==
  CASE task[i] # "running" \/ RecoveredStatus(i) = "running" -> task[i]
    [] task[i] = "running" /\ RecoveredStatus(i) = "failed" -> "failed"
    [] OTHER -> "blocked"

RecoveredAttempts(i) ==
  [n \in Numbers |-> IF n \in Running(i) THEN EndedRow(RecoveredEnd(i), RecoveredRetry(i))
                     ELSE att[i][n]]

Reconcile ==
  /\ proc = "down"
  /\ \A i \in Executing : request[i] # "answered"
  /\ att' = [i \in Invocations |-> RecoveredAttempts(i)]
  /\ Converge({RunOf[i] : i \in Executing} \cap CancelledRuns(run),
              [i \in Invocations |-> IF i \in Executing THEN RecoveredStatus(i) ELSE inv[i]],
              [i \in Invocations |-> IF i \in Executing THEN RecoveredTask(i) ELSE task[i]],
              {})
  /\ leases' = {}
  /\ releasing' = Outstanding(inv')
  /\ proc' = "recovering"
  /\ UNCHANGED <<run, tries, usage, request, cleanup, worktree, late, waiting, flight,
                 resolving>>

OpenAdmission ==
  /\ proc = "recovering" /\ releasing = {}
  /\ proc' = "up"
  /\ UnchangedRows /\ UNCHANGED <<flight, releasing, resolving>>

-----------------------------------------------------------------------------
InvocationStep(i) ==
  \/ PrepareInvocation(i)
  \/ ResolveContinuation(i) \/ PrepareAttempt(i) \/ RefuseExhausted(i) \/ RefuseOtherwise(i)
  \/ CallProvider(i) \/ NotDispatched(i) \/ ProviderReturns(i)
  \/ RequestDecision(i) \/ AnswerDecision(i)
  \/ CollectChangeset(i) \/ ExecutionFails(i) \/ ExecuteAgain(i) \/ Finalize(i)
  \/ EnforceDeadline(i) \/ DeadlinePasses(i) \/ BackoffElapses(i)
  \/ RemoveWorktree(i) \/ RecordReleased(i) \/ ReleaseFails(i)

RunStep(r) ==
  \/ CancelRun(r) \/ (\E mode \in PauseModes : PauseRun(r, mode)) \/ ResumeRun(r)
  \/ StartRun(r) \/ WaitRun(r) \/ ClearWait(r)
  \/ BeginVerification(r) \/ AwaitSignoff(r) \/ FailVerification(r)
  \/ RequestChanges(r) \/ CompleteRun(r) \/ FailRun(r)

ProcessStep == Shutdown \/ ProcessEnds \/ Reconcile \/ OpenAdmission

Next ==
  \/ \E i \in Invocations : InvocationStep(i)
  \/ \E r \in Runs : RunStep(r)
  \/ ProcessStep

Spec == Init /\ [][Next]_vars
=============================================================================
