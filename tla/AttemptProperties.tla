-------------------------- MODULE AttemptProperties --------------------------
(***************************************************************************)
(* What the execution of Attempts promises: invariants, action properties  *)
(* and liveness over AttemptExecution.                                     *)
(***************************************************************************)
EXTENDS AttemptExecution

(***************************************************************************)
(* Every variable holds values of its rows and records, and the three      *)
(* fields of a Run row agree with each other.                              *)
(***************************************************************************)
TypeOK ==
  /\ run \in [Runs -> RunRows]
  /\ inv \in [Invocations -> InvocationStatuses \cup {"absent"}]
  /\ tries \in [Invocations -> 0..MaxAttempts]
  /\ att \in [Invocations -> [Numbers -> AttemptRows]]
  /\ leases \subseteq Invocations \X Numbers
  /\ task \in [Invocations -> TaskStatuses]
  /\ usage \in [Invocations -> UsageLevels]
  /\ request \in [Invocations -> {"none", "open", "answered"}]
  /\ cleanup \in [Invocations -> {"none", "pending", "released"}]
  /\ worktree \in [Invocations -> BOOLEAN]
  /\ late \in [Invocations -> BOOLEAN]
  /\ waiting \subseteq Invocations
  /\ proc \in {"down", "recovering", "up", "stopping"}
  /\ flight \in [Invocations -> Flights]
  /\ releasing \subseteq Invocations /\ resolving \subseteq Invocations

\* An operator pause and an automatic wait never overwrite each other: the three
\* fields of every Run row stay consistent whatever scheduler, completion and
\* operator do (RunStore.transition, pause, resume).
RunRowsConsistent == \A r \in Runs : RowConsistent(run[r])

(***************************************************************************)
(* Capacity: a lease exists exactly while the Attempt that holds it runs,  *)
(* across refusals, rollbacks, crashes and recovery (tryAcquire, release,  *)
(* restoreAfterRestart).                                                   *)
(***************************************************************************)
LeaseHeldWhileRunning ==
  leases = {l \in Invocations \X Numbers : att[l[1]][l[2]].status = "running"}

\* An Invocation executes at most one Attempt, its latest, and only while the
\* Invocation itself is running.
OneAttemptAtATime ==
  \A i \in Invocations : \A n \in Running(i) :
    n = tries[i] /\ inv[i] = "running" /\ Running(i) = {n}

\* The in-memory record stands for an Attempt the rows still hold running: nobody
\* ends an Attempt behind the executor that holds its flight, and a process that
\* is up has a flight for every running Attempt.
FlightsMatchRows ==
  \A i \in Invocations :
    /\ InFlight(i) => Running(i) = {flight[i].number}
    /\ (proc \in {"up", "stopping"} /\ Running(i) # {}) => InFlight(i)

\* A Run that has ended leaves nothing open that could never go on: of a cancelled
\* Run only what still executes is unsettled, Invocation and Task alike, and a
\* completed one has left nothing at all (settleCancelledRunWork, finalize, recovery).
Settled(i) ==
  /\ Row(i).status = "cancelled" =>
       \/ Running(i) # {}
       \/ ~Live(i) /\ task[i] \in {"completed", "failed", "cancelled"}
  /\ Row(i).status = "completed" => ~Live(i)

EndedRunsSettled == \A i \in Invocations : Settled(i)

\* The rows of Runs, Invocations, Tasks and Attempts agree with each other and with the
\* memory of the process, whatever scheduler, executor, operator, crash and recovery
\* write in turn.
RowsAgree == RunRowsConsistent /\ OneAttemptAtATime /\ FlightsMatchRows /\ EndedRunsSettled

\* The governor's limits hold at all times.
CapacityRespected ==
  /\ Cardinality(leases) <= Slots
  /\ Cardinality({l \in leases : l[1] \in Writers}) <= WorktreeSlots

\* A Decision was answered while its requester executed: neither finalization nor recovery
\* can block it any more (invocations.ts, the transition to blocked), and it keeps its lease.
AnsweredEarly == \E i \in Invocations : request[i] = "answered" /\ Running(i) # {}

\* An Invocation that has executed, has not ended and executes nothing can always
\* go on once its Run admits work: its last Attempt left a permitted retry, an
\* Attempt of the allocation remains, and it asked for no Decision.
GoesOn ==
  \A i \in Invocations :
    (Live(i) /\ tries[i] > 0 /\ Running(i) = {}) =>
      /\ att[i][tries[i]].retry = "permitted"
      /\ tries[i] < MaxAttempts
      /\ request[i] = "none"
      /\ i \in waiting => ~late[i]

\* No Invocation is left between two Attempts without a next one (finalize, recovery), and
\* the system as a whole stops only where an early answer stopped its recovery.
NeverStuck == GoesOn /\ (ENABLED Next \/ AnsweredEarly)

\* A worktree outlives every Attempt that may still use it, is recorded released
\* only once it is gone, and is never forgotten: it exists only under a pending
\* obligation, unless the process died before its preparation committed.
WorktreeAccounted ==
  \A i \in Writers :
    /\ Live(i) => worktree[i]
    /\ cleanup[i] = "released" => (Terminal(i) /\ ~worktree[i])
    /\ worktree[i] => (cleanup[i] = "pending" \/ inv[i] = "absent")

-----------------------------------------------------------------------------
Succeeds(i) == ~(inv[i] = "succeeded") /\ (inv[i] = "succeeded")'

\* What an Invocation promises (InvocationLifecycle), read off the rows alone.
Stage(i) == IF ~Live(i) THEN inv[i] ELSE IF Running(i) # {} THEN "executing" ELSE "open"
Course(row) ==
  CASE row.status \in RunTerminal -> row.status
    [] row.status \notin RunTerminal /\ row.pause = "none" -> "going"
    [] row.status \notin RunTerminal /\ row.pause = "soft" -> "draining"
    [] row.status \notin RunTerminal /\ row.pause = "hard" -> "halted"

StagesShown == [i \in Invocations |-> Stage(i)]
CoursesShown == [r \in Runs |-> Course(run[r])]

Lifecycle == INSTANCE InvocationLifecycle
  WITH Budget <- MaxAttempts, stage <- StagesShown, begun <- tries, course <- CoursesShown

\* Executor, operator, crash and recovery together keep an Invocation's lifecycle: its
\* Attempts are bounded and admitted, it ends once, a cancelled or hard-paused Run accepts
\* no result whatever the provider returned and whenever, and a cancellation settles in
\* its own transaction everything that does not execute.
KeepsLifecycle == Lifecycle!LSpec

\* A result is recorded only from the turn the provider completed, with the writer's
\* Changeset collected, never after the turn requested a Decision and never from an
\* Attempt that was interrupted in memory.
ResultIsTheCompletedTurn ==
  [][\A i \in Invocations : Succeeds(i) =>
       /\ flight[i].outcome = "valid" /\ flight[i].cause = "none"
       /\ i \in Writers => (flight[i].changeset /\ worktree[i])
       /\ request[i] = "none"]_vars

\* What has ended stays as it ended: terminal Invocations, terminal Attempts and
\* terminal Runs are final through cancellation, convergence and recovery.
EndedIsFinal ==
  [][/\ \A i \in Invocations : Terminal(i) => inv'[i] = inv[i]
     /\ \A i \in Invocations, n \in Numbers :
          att[i][n].status \in AttemptTerminal => att'[i][n] = att[i][n]
     /\ \A r \in Runs : run[r].status \in RunTerminal => run'[r] = run[r]]_vars

-----------------------------------------------------------------------------
(***************************************************************************)
(* Fairness.  Once an Attempt is dispatched nothing but the provider, a    *)
(* fault or the end of the process stands between it and its finalization: *)
(* run() awaits each step and performs the next, and a provider call       *)
(* returns, on its own or on the abort signal (attempt-session.ts).        *)
(* Backoffs elapse, a stopping process exits within its bound, a stopped   *)
(* one is started again; recovery, releases and the settlement of an       *)
(* exhausted Invocation follow by themselves, and the scheduler keeps      *)
(* offering an Invocation its next Attempt.  Nothing obliges anyone to     *)
(* call executePreparedAttempt again, nor the operator to do anything.     *)
(***************************************************************************)
RuntimeFairness ==
  /\ \A i \in Invocations :
       /\ WF_vars(PrepareAttempt(i))
       /\ WF_vars(CallProvider(i) \/ NotDispatched(i))
       /\ WF_vars(ProviderReturns(i))
       /\ WF_vars(CollectChangeset(i))
       /\ WF_vars(Finalize(i))
       /\ WF_vars(RefuseExhausted(i) \/ RefuseOtherwise(i))
       /\ WF_vars(BackoffElapses(i))
       /\ WF_vars(RemoveWorktree(i) \/ RecordReleased(i))
  /\ WF_vars(Reconcile) /\ WF_vars(OpenAdmission)
  /\ WF_vars(proc = "stopping" /\ ProcessEnds)

LiveSpec == Spec /\ RuntimeFairness

\* A cancellation always converges: every Invocation of the cancelled Run ends and
\* its Task is settled, whether its Attempt returns, is aborted or dies with the process;
\* only an early answer can stop it.
CancellationConverges ==
  \A r \in Runs : (run[r].status = "cancelled") ~>
                     \/ \A i \in Of(r) : /\ ~Live(i) /\ Running(i) = {}
                                         /\ task[i] \in {"completed", "failed", "cancelled"}
                     \/ AnsweredEarly

\* A turn that committed a Decision request ends blocked on it, whatever its provider returns
\* afterwards and whether its Run is paused, cancelled or its process dies meanwhile: the one
\* exception is that the answer comes while the turn still executes (DecisionRequestService).
RequesterEnds ==
  \A i \in Invocations : (request[i] # "none") ~> (inv[i] = "blocked" \/ AnsweredEarly)

\* A lease is always given back, unless an early answer stopped the end of an Attempt.
LeaseReturned ==
  \A i \in Invocations : (Running(i) # {}) ~> (Running(i) = {} \/ AnsweredEarly)

\* Work that its Run keeps admitting, in a process that stays up, ends: neither
\* capacity, nor a backoff, nor an exhausted allocation holds it forever, where no early
\* answer keeps a lease.
AdmittedWorkEnds ==
  \A i \in Invocations :
    <>[](proc = "up" /\ AdmitsNewWork(Row(i)) /\ ~AnsweredEarly) => <>[](~Live(i))

\* The worktree of an ended Invocation is removed and recorded so, if the process
\* stays alive long enough after some restart.
WorktreeReclaimed ==
  \A i \in Writers :
    <>[](proc # "down") => [](Terminal(i) => <>(cleanup[i] = "released"))

\* What an Attempt takes is given back: its lease when it ends, the worktree of its
\* Invocation afterwards (finalize, recovery, workspace-cleanup.ts).
ResourcesReturned == LeaseReturned /\ WorktreeReclaimed

=============================================================================
