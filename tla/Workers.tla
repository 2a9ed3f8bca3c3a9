------------------------------ MODULE Workers ------------------------------
(***************************************************************************)
(* One coordinator_worker node (patterns/coordinator-worker.ts): the turns *)
(* of its Coordinator, the Tasks they propose (task-proposals.ts), what    *)
(* the projection makes of the Tasks (task-projection.ts), the Worker each *)
(* Task gets, the integration of their Changesets and the end of the node. *)
(*                                                                         *)
(* The process has one thread: the projection of a node and the action the *)
(* scheduler performs on it are one step, but for an integration, which is *)
(* awaited.  A position is 0, the Coordinator's, or a Task, its Worker's;  *)
(* Tasks are numbered as they are created.  "inv" is the latest Invocation *)
(* at a position.  Decisions are requested by agents.  The node has no     *)
(* Gate criteria and stays in the Plan; the Run is neither paused nor      *)
(* cancelled.                                                              *)
(***************************************************************************)
EXTENDS Naturals, Sequences, FiniteSets, SequencesExt

CONSTANTS
  MaxTasks,     \* bounds.maxTasks: Tasks ever accepted
  MaxTurns,     \* bounds.maxCoordinatorInvocations
  MaxWorkers,   \* bounds.maxConcurrentWorkers
  BatchSize,    \* bound: Tasks of one proposal, and
  MaxDeps,      \* the Tasks one of them depends on
  WorkerEnds,   \* what a Worker may return, and
  TurnEnds,     \* a Coordinator turn: records result, report, names, changes
  MaxTroubles,  \* bound: failed Attempts, results that are not completed, Decisions asked,
                \* conflicts, and refusals of capacity or funding
  Supersedes,   \* the operator may supersede what a default resolved
  Policy        \* onAllocationExhausted: "fail" or "wait"

ASSUME WorkersAssumption ==
  /\ {MaxTasks, MaxTurns, MaxWorkers, BatchSize, MaxDeps, MaxTroubles} \subseteq Nat
  /\ MaxWorkers \in 1..MaxTasks /\ MaxTurns >= 2
  /\ Supersedes \in BOOLEAN /\ Policy \in {"fail", "wait"}
  /\ WorkerEnds \cup TurnEnds \subseteq
       [result : {"completed", "failed", "blocked"},
        report : {"none", "completed", "blocked", "failed"},
        names : BOOLEAN, changes : {"none", "pending"}]

\* A completed result without a report of its Task is not accepted (result-validator.ts:96-101).
ASSUME CompletedReports == \A end \in WorkerEnds : end.result = "completed" => end.report # "none"

VARIABLES
  node,      \* status and reason of the node
  turn,      \* the latest turn: purpose, accepted calls, the frontier it was given, and
             \* whether it continues one that was blocked
  used,      \* logical turns used
  task,      \* the ledger
  inv,       \* the latest Invocation at every position
  born,      \* the order in which these were created: the latest has the highest rank
  applying,  \* the position whose Changeset is being applied, or Nowhere
  troubles   \* troubles so far

vars == <<node, turn, used, task, inv, born, applying, troubles>>

Tasks == 1..MaxTasks
Positions == 0..MaxTasks
Coordinator == 0
Nowhere == MaxTasks + 1
Unstarted == {"pending", "ready", "blocked"}

NoTask == [status |-> "absent", why |-> "none", replaces |-> 0, deps |-> {},
           reserved |-> FALSE, handoff |-> FALSE]
NoInvocation == [status |-> "absent", result |-> "none", decision |-> "none",
                 changes |-> "none", conflictTask |-> "none"]
Prepared == [NoInvocation EXCEPT !.status = "queued"]

Init ==
  /\ node = [status |-> "ready", reason |-> "none"]
  /\ turn = [purpose |-> "none", calls |-> {}, given |-> {}, again |-> FALSE]
  /\ used = 0
  /\ task = [t \in Tasks |-> NoTask]
  /\ inv = [p \in Positions |-> NoInvocation]
  /\ born = [p \in Positions |-> 0]
  /\ applying = Nowhere
  /\ troubles = 0

-----------------------------------------------------------------------------
(***************************************************************************)
(* Facts of an Invocation.  "queued" is one without an executing Attempt:  *)
(* just prepared, or between two Attempts.                                 *)
(***************************************************************************)
Active(p) == inv[p].status \in {"queued", "running"}
Terminal(p) == inv[p].status \in {"succeeded", "blocked", "failed"}
BlockedOn(p) ==
  IF inv[p].status = "blocked" \/ (inv[p].status = "succeeded" /\ inv[p].result = "blocked")
  THEN inv[p].decision ELSE "none"
Outstanding(p) == inv[p].changes \in {"pending", "conflict"}
ConflictOpen(p) == inv[p].changes = "conflict" /\ inv[p].conflictTask = "open"

(***************************************************************************)
(* The projection of the Tasks.                                            *)
(***************************************************************************)
Accepted == {t \in Tasks : task[t].status # "absent"}
Current == Accepted \ {task[t].replaces : t \in Accepted}
Effective(t) == task[t].deps \cap Current
Completed(t) == task[t].status = "completed"
BlockedBy(t, why) == task[t].status = "blocked" /\ task[t].why = why

\* Mutant: integration and start in the order of creation, whatever depends on what.
OldestOf(S) == Min(S)

\* The first of S in Kahn's order over the effective dependencies, the earliest available Task
\* first; none is left to take when they form a cycle.
NextPlaced(placed) ==
  LET remaining == Current \ placed
      available == {t \in remaining : task[t].deps \cap remaining = {}}
  IN {t \in available : \A u \in available : t <= u}
FirstOf(S) ==
  LET first[placed \in SUBSET Current] ==
        LET next == NextPlaced(placed)
        IN IF next \subseteq S THEN next ELSE first[placed \cup next]
  IN CHOOSE t \in first[{}] : TRUE

BecomesReady ==
  {t \in Current : /\ task[t].status = "pending" \/ BlockedBy(t, "dependency")
                   /\ \A d \in Effective(t) : Completed(d)}
Doomed(t) == \E d \in Effective(t) : task[d].status \in {"failed", "cancelled"}
BecomesBlocked == {t \in Current : task[t].status = "pending" /\ Doomed(t)}

Runnable == {t \in Current : task[t].status = "ready"} \cup BecomesReady
ActiveWorkers == {t \in Current : Active(t)}
\* Tasks whose Worker ended without reporting them.
Stale == {t \in Current : /\ task[t].status = "running" /\ inv[t].status = "succeeded"
                          /\ inv[t].result # "completed"}

Frontier ==
  LET unresolved == {t \in Current : \/ task[t].status = "failed" \/ BlockedBy(t, "input")
                                     \/ BlockedBy(t, "dependency") /\ Doomed(t)}
  IN {<<task[t].status, t>> : t \in unresolved} \cup {<<"blocked", t>> : t \in BecomesBlocked}
     \cup {<<"conflict", t>> : t \in {u \in Current : ConflictOpen(u)}}

\* No Changeset that must come before a later one can still arrive of it.
Determined(t) ==
  CASE task[t].status = "completed" -> ~Outstanding(t)
    [] task[t].status = "blocked" -> task[t].why # "decision"
    [] OTHER -> task[t].status \in {"failed", "cancelled"}
Undetermined == {t \in Current : ~Determined(t)}
Integrable ==
  IF Undetermined = {} THEN {}
  ELSE {t \in {FirstOf(Undetermined)} : Completed(t) /\ ~ConflictOpen(t)}
\* Mutant: missingHandoff does not look for the Handoff.
RecordedAgain ==
  {t \in Current : /\ Completed(t) /\ ~Outstanding(t)
                   /\ inv[t].status = "succeeded" /\ inv[t].result = "completed"}
Unrecorded ==
  {t \in Current : /\ Completed(t) /\ ~Outstanding(t) /\ ~task[t].handoff
                   /\ inv[t].status = "succeeded" /\ inv[t].result = "completed"}
\* Mutant: a blocked Task does not hold the synthesis back.
SynthesisDespiteBlocked ==
  /\ turn.purpose # "synthesize" /\ ActiveWorkers = {} /\ Frontier = {}
  /\ \A t \in Current : \/ task[t].status \in {"cancelled", "blocked"}
                        \/ Completed(t) /\ ~Outstanding(t) /\ task[t].handoff
SynthesisReady ==
  /\ turn.purpose # "synthesize" /\ ActiveWorkers = {} /\ Frontier = {}
  /\ \A t \in Current : \/ task[t].status = "cancelled"
                        \/ Completed(t) /\ ~Outstanding(t) /\ task[t].handoff
OpenBlocked == {p \in Current \cup {Coordinator} : BlockedOn(p) = "open"}

\* The turn ended and its consequences are still to be applied.
TurnCompleted == inv[Coordinator].status = "succeeded" /\ inv[Coordinator].result = "completed"
Progress == turn.calls # {} \/ turn.given # Frontier
TurnPending ==
  /\ Terminal(Coordinator)
  /\ \/ ~TurnCompleted
     \/ Outstanding(Coordinator)
     \/ turn.purpose = "decompose" /\ "propose" \notin turn.calls
     \/ turn.purpose = "replan" /\ ~Progress
     \/ turn.purpose = "synthesize"

\* Blocked Workers to continue, and requesters the scheduler lists until continued.
WorkerContinues(t) == t \in Current /\ BlockedBy(t, "decision") /\ BlockedOn(t) = "resolved"
TurnContinues == TurnPending /\ BlockedOn(Coordinator) = "resolved"
\* Mutant: the requester of an open Decision is listed too.
ListedEarly == {p \in Positions : inv[p].status = "blocked"}
Listed == {p \in Positions : inv[p].status = "blocked" /\ inv[p].decision # "open"}

-----------------------------------------------------------------------------
(***************************************************************************)
(* inspect: the next canonical action of the node, in a fixed priority.    *)
(***************************************************************************)
Do(what, p) == [what |-> what, at |-> p]

Queued == {t \in ActiveWorkers : inv[t].status = "queued"}
TurnsLeft == used < MaxTurns

RunningAdvice ==
  IF Active(Coordinator)
  THEN Do(IF inv[Coordinator].status = "queued" THEN "execute" ELSE "in_flight", Coordinator)
  ELSE IF inv[Coordinator].status = "absent" THEN Do("start", Coordinator)
  ELSE IF TurnPending THEN Do(IF TurnContinues THEN "continue" ELSE "settle", Coordinator)
  ELSE IF BecomesReady \cup BecomesBlocked \cup Stale # {} THEN Do("settle", Nowhere)
  ELSE IF \E t \in Current : WorkerContinues(t)
  THEN Do("continue", FirstOf({t \in Current : WorkerContinues(t)}))
  ELSE IF Integrable # {} THEN Do("settle", FirstOf(Integrable))
  ELSE IF Unrecorded # {} THEN Do("settle", Nowhere)
  ELSE IF Cardinality(ActiveWorkers) < MaxWorkers /\ Runnable # {}
  THEN Do("start_worker", FirstOf(Runnable))
  ELSE IF Queued # {} THEN Do("execute", FirstOf(Queued))
  ELSE IF ActiveWorkers # {} THEN Do("in_flight", FirstOf(ActiveWorkers))
  ELSE IF Frontier # {} /\ TurnsLeft THEN Do("replan", Coordinator)
  ELSE IF SynthesisReady /\ TurnsLeft THEN Do("synthesize", Coordinator)
  ELSE IF Frontier # {} \/ SynthesisReady \/ OpenBlocked # {} THEN Do("settle", Nowhere)
  ELSE Do("throw", Nowhere)

\* Whether a wait has cleared; capacity and budget are the environment's to give.
Cleared ==
  CASE node.reason = "decision" ->
         \E p \in Current \cup {Coordinator} : BlockedOn(p) \in {"resolved", "superseded"}
    [] node.reason = "integration_conflict" -> ~ConflictOpen(Coordinator)
    [] OTHER -> TRUE

\* The scheduler names the first listed requester of the node, if there is one.
ResumeTarget ==
  IF Listed # {} THEN CHOOSE p \in Listed : \A q \in Listed : born[p] <= born[q] ELSE Nowhere

Advice ==
  IF applying # Nowhere THEN Do("in_flight", applying)
  ELSE CASE node.status = "ready" -> Do("start", Coordinator)
         [] node.status = "running" -> RunningAdvice
         [] node.status = "waiting" ->
              IF ~Cleared THEN Do("wait", Nowhere)
              ELSE Do("resume", IF node.reason = "decision" THEN ResumeTarget ELSE Nowhere)
         [] OTHER -> Do("terminal", Nowhere)

-----------------------------------------------------------------------------
(***************************************************************************)
(* Ends of the node, and waits.                                            *)
(***************************************************************************)
NodeIs(status, reason) == node' = [status |-> status, reason |-> reason]

\* failNow: a Task still running on an Invocation that ended fails with the node.
Abandoned(ledger) ==
  [t \in Tasks |-> IF ledger[t].status = "running" /\ Terminal(t)
                   THEN [ledger[t] EXCEPT !.status = "failed"] ELSE ledger[t]]
FailNow(reason) == NodeIs("failed", reason) /\ task' = Abandoned(task)

\* failNode: the unstarted current Tasks are cancelled and their reservations released.
CancelTask(entry) == [entry EXCEPT !.status = "cancelled", !.why = "none", !.reserved = FALSE]
FailNode(reason) ==
  /\ NodeIs("failed", reason)
  /\ task' = Abandoned([t \in Tasks |->
                 IF t \in Current /\ task[t].status \in Unstarted
                 THEN CancelTask(task[t]) ELSE task[t]])

(***************************************************************************)
(* Preparation of an Invocation.  A Task's reservation is transferred to   *)
(* its first Worker; everything else needs fresh funding, which the node's *)
(* allocation may refuse.                                                  *)
(***************************************************************************)
Trouble == troubles < MaxTroubles /\ troubles' = troubles + 1

Create(p) ==
  /\ inv' = [inv EXCEPT ![p] = Prepared]
  /\ born' = [q \in Positions |->
               IF q = p THEN MaxTasks + 1
               ELSE IF born[q] > born[p] THEN born[q] - 1 ELSE born[q]]

Refuse(ledger) ==
  /\ Trouble
  /\ IF Policy = "fail"
     THEN NodeIs("failed", "allocation_exhausted") /\ task' = Abandoned(ledger)
     ELSE NodeIs("waiting", "budget") /\ task' = ledger
  /\ UNCHANGED <<turn, used, inv, born, applying>>

PrepareTurn(purpose) ==
  \/ /\ NodeIs("running", "none")
     /\ Create(Coordinator)
     /\ turn' = [purpose |-> purpose, calls |-> {}, given |-> Frontier, again |-> FALSE]
     /\ used' = used + 1
     /\ UNCHANGED <<task, applying, troubles>>
  \/ Refuse(task)

\* The successor of a blocked turn: a logical turn of its own for its calls.  It uses no
\* turn, but for the successor of a turn that returned "blocked" instead of asking.
ContinueTurn ==
  \/ /\ NodeIs("running", "none")
     /\ Create(Coordinator)
     /\ turn' = [turn EXCEPT !.calls = {}, !.again = TRUE]
     /\ used' = IF inv[Coordinator].status = "blocked" THEN used ELSE used + 1
     /\ UNCHANGED <<task, applying, troubles>>
  \/ Refuse(task)

\* The Task becomes ready before its successor is funded.
ContinueWorker(t) ==
  \/ /\ NodeIs("running", "none")
     /\ Create(t)
     /\ task' = [task EXCEPT ![t].status = "running", ![t].why = "none"]
     /\ UNCHANGED <<turn, used, applying, troubles>>
  \/ Refuse([task EXCEPT ![t].status = "ready", ![t].why = "none"])

-----------------------------------------------------------------------------
(***************************************************************************)
(* What the scheduler performs of an advice.  An action asks again what    *)
(* inspect has asked; where the two disagree nothing is written, and the   *)
(* same action is projected again.                                         *)
(***************************************************************************)
RoomForWorker == Cardinality(ActiveWorkers) < MaxWorkers

StartWorker(t) ==
  /\ RoomForWorker
  /\ task[t].reserved
  /\ Create(t)
  /\ task' = [task EXCEPT ![t].status = "running", ![t].reserved = FALSE]
  /\ UNCHANGED <<node, turn, used, applying, troubles>>

Continue(p) ==
  \/ p = Coordinator /\ ContinueTurn
  \/ p # Coordinator /\ RoomForWorker /\ ContinueWorker(p)

\* The executor's own look at the rows permits an Attempt of a queued Invocation only.
Execute(p) ==
  /\ inv[p].status = "queued"
  /\ \/ /\ inv' = [inv EXCEPT ![p].status = "running"]
        /\ UNCHANGED <<node, troubles>>
     \/ /\ Trouble
        /\ NodeIs("waiting", "provider_capacity")
        /\ UNCHANGED inv
  /\ UNCHANGED <<turn, used, task, born, applying>>

\* resume with the requester the scheduler named, or with none.
Resume(named) ==
  LET byDecision == node.reason = "decision"
      turnNext == byDecision /\ TurnContinues /\ named \in {Nowhere, Coordinator}
      workers == {t \in Current : byDecision /\ WorkerContinues(t) /\ named \in {Nowhere, t}}
  IN /\ named # Nowhere => turnNext \/ workers # {}
     /\ CASE turnNext -> ContinueTurn
          [] ~turnNext /\ workers # {} /\ RoomForWorker -> ContinueWorker(FirstOf(workers))
          [] OTHER -> /\ NodeIs("running", "none")
                      /\ UNCHANGED <<turn, used, task, inv, born, applying, troubles>>

-----------------------------------------------------------------------------
(***************************************************************************)
(* settle: an integration first, which is awaited; then, in a transaction, *)
(* the consequence apply finds in the rows.                                *)
(***************************************************************************)
ToIntegrate ==
  IF TurnCompleted /\ Outstanding(Coordinator) THEN {Coordinator}
  ELSE IF Terminal(Coordinator) /\ ~TurnPending THEN Integrable ELSE {}

BeginIntegration ==
  /\ \E p \in ToIntegrate :
       IF inv[p].conflictTask = "none"
       THEN applying' = p /\ UNCHANGED <<node, task>>
       ELSE /\ IF ConflictOpen(p) THEN NodeIs("waiting", "integration_conflict") /\ UNCHANGED task
                                  ELSE FailNow("integration_conflict")
            /\ UNCHANGED applying
  /\ UNCHANGED <<turn, used, inv, born, troubles>>

\* The synthesis goes on to its end; a conflict of a turn makes the node wait.
EndIntegration(p) ==
  /\ applying = p
  /\ applying' = Nowhere
  /\ \/ /\ inv' = [inv EXCEPT ![p].changes = "integrated"]
        /\ IF p = Coordinator /\ turn.purpose = "synthesize"
           THEN NodeIs("succeeded", "none") ELSE UNCHANGED node
        /\ UNCHANGED troubles
     \/ /\ Trouble
        /\ inv' = [inv EXCEPT ![p].changes = "conflict", ![p].conflictTask = "open"]
        /\ IF p = Coordinator THEN NodeIs("waiting", "integration_conflict")
                              ELSE UNCHANGED node
  /\ UNCHANGED <<turn, used, task, born>>

\* The settlement of a turn that ended.
SettleTurn ==
  LET decision == BlockedOn(Coordinator)
      ended == inv[Coordinator]
  IN CASE decision = "open" -> NodeIs("waiting", "decision") /\ UNCHANGED task
       [] decision # "open" /\ ended.status = "failed" -> FailNode("invocation_failed")
       [] decision # "open" /\ ended.status = "succeeded" /\ ended.result = "failed" ->
            FailNode("result_failed")
       [] TurnCompleted /\ turn.purpose = "synthesize" ->
            NodeIs("succeeded", "none") /\ UNCHANGED task
       [] TurnCompleted /\ turn.purpose # "synthesize" -> FailNode("coordinator_no_progress")
       [] OTHER -> FailNode("result_blocked")

\* A pending Task becomes ready only when all it ever depended on completed.
Readies(t) == task[t].status = "pending" => \A d \in task[t].deps : Completed(d)

Projected(t) ==
  LET unreported == IF inv[t].result = "failed" THEN [task[t] EXCEPT !.status = "failed"]
                    ELSE [task[t] EXCEPT !.status = "blocked",
                                         !.why = IF inv[t].decision = "none" THEN "input"
                                                 ELSE "decision"]
  IN CASE t \in Stale -> unreported
       [] t \in BecomesReady -> [task[t] EXCEPT !.status = "ready", !.why = "none"]
       [] t \in BecomesBlocked -> [task[t] EXCEPT !.status = "blocked", !.why = "dependency"]
       [] OTHER -> task[t]
Projects == BecomesReady \cup BecomesBlocked \cup Stale

\* What apply does of a turn that is settled, in its own order.
ApplyToTasks ==
  CASE Projects # {} ->
         /\ \A t \in BecomesReady : Readies(t)
         /\ task' = [t \in Tasks |-> Projected(t)] /\ UNCHANGED node
    [] Projects = {} /\ Unrecorded # {} ->
         task' = [task EXCEPT ![FirstOf(Unrecorded)].handoff = TRUE] /\ UNCHANGED node
    [] OTHER ->
         /\ ActiveWorkers \cup Runnable = {}
         /\ IF Frontier # {} \/ SynthesisReady
            THEN ~TurnsLeft /\ FailNode("coordinator_invocations_exhausted")
            ELSE OpenBlocked # {} /\ NodeIs("waiting", "decision") /\ UNCHANGED task

Settle ==
  /\ ToIntegrate = {}
  /\ IF TurnPending THEN SettleTurn ELSE ApplyToTasks
  /\ UNCHANGED <<turn, used, inv, born, applying, troubles>>

-----------------------------------------------------------------------------
(***************************************************************************)
(* A Coordinator turn at work.                                             *)
(***************************************************************************)
Proposing == inv[Coordinator].status = "running" /\ turn.purpose \in {"decompose", "replan"}
Replaceable == {t \in Current : task[t].status \in {"blocked", "failed"}}

\* Edges t -> d: what a batch adds of its own, and the replacement that the dependents of
\* a replaced Task gain.
Gained(batch) ==
  {e \in Accepted \X (DOMAIN batch) :
     /\ batch[e[2]].replaces \in task[e[1]].deps /\ e[1] \in Current
     /\ task[e[1]].status \notin {"completed", "failed", "cancelled"}}
\* On a cycle every Task has an edge to another one of it.
Acyclic(edges) ==
  {S \in (SUBSET Tasks) \ {{}} : \A t \in S : \E u \in S : <<t, u>> \in edges} = {}
Batches ==
  LET next == Cardinality(Accepted) + 1
      known == Cardinality(Accepted)
  IN UNION {[next..(known + n) ->
               [replaces : {0} \cup Replaceable,
                deps : {D \in SUBSET (Current \cup (next..(known + n))) : Cardinality(D) <= MaxDeps}]]
            : n \in {m \in 1..BatchSize : known + m <= MaxTasks}}
Valid(batch) ==
  LET added == {e \in (DOMAIN batch) \X Tasks : e[2] \in batch[e[1]].deps}
      kept == {e \in Accepted \X Accepted : e[2] \in task[e[1]].deps}
  IN /\ \A t, u \in DOMAIN batch : batch[t].replaces = batch[u].replaces /\ t # u
                                   => batch[t].replaces = 0
     /\ Acyclic(added \cup kept \cup Gained(batch))

\* The ledger with the Tasks of a batch: a blocked Task they replace is cancelled, and the
\* dependents of a replaced one gain its replacement.
Extended(batch) ==
  LET replaced == {batch[t].replaces : t \in DOMAIN batch} \ {0}
      old(t) == IF t \in replaced /\ task[t].status = "blocked"
                THEN CancelTask(task[t]) ELSE task[t]
      gains(t) == IF old(t).status = "cancelled" THEN {}
                  ELSE {d \in DOMAIN batch : <<t, d>> \in Gained(batch)}
  IN [t \in Tasks |->
        IF t \in DOMAIN batch
        THEN [NoTask EXCEPT !.status = "pending", !.replaces = batch[t].replaces,
                            !.deps = batch[t].deps, !.reserved = TRUE]
        ELSE [old(t) EXCEPT !.deps = @ \cup gains(t)]]

Propose ==
  /\ Proposing /\ "propose" \notin turn.calls
  /\ \E batch \in Batches : Valid(batch) /\ task' = Extended(batch)
  /\ turn' = [turn EXCEPT !.calls = @ \cup {"propose"}]
  /\ UNCHANGED <<node, used, inv, born, applying, troubles>>

\* update_task: a current Task that is not started, or the Task of a conflict of the node.
Cancel ==
  /\ Proposing
  /\ \/ \E t \in Current :
          /\ task[t].status \in Unstarted
          /\ task' = [task EXCEPT ![t] = CancelTask(@)]
          /\ UNCHANGED inv
     \/ \E p \in Positions :
          /\ ConflictOpen(p)
          /\ inv' = [inv EXCEPT ![p].conflictTask = "cancelled"]
          /\ UNCHANGED task
  /\ turn' = [turn EXCEPT !.calls = @ \cup {"update"}]
  /\ UNCHANGED <<node, used, born, applying, troubles>>

(***************************************************************************)
(* Ends of Attempts and Invocations.                                       *)
(***************************************************************************)
\* The Task of a Worker that ended: what it reported, or what its end implies.
Reported(p, report, why) ==
  IF p = Coordinator \/ report = "none" THEN UNCHANGED task
  ELSE task' = [task EXCEPT ![p].status = report, ![p].why = why]

Return(p) ==
  /\ inv[p].status = "running"
  /\ \E end \in IF p = Coordinator THEN TurnEnds ELSE WorkerEnds :
       /\ IF end.result = "completed" THEN UNCHANGED troubles ELSE Trouble
       /\ inv' = [inv EXCEPT ![p] = [status |-> "succeeded", result |-> end.result,
                                     decision |-> IF end.names THEN "open" ELSE "none",
                                     changes |-> end.changes, conflictTask |-> "none"]]
       /\ Reported(p, end.report, IF end.report = "blocked" THEN "input" ELSE "none")
  /\ UNCHANGED <<node, turn, used, born, applying>>

\* The last Attempt failed.
Fail(p) ==
  /\ inv[p].status = "running" /\ Trouble
  /\ inv' = [inv EXCEPT ![p].status = "failed"]
  /\ Reported(p, "failed", "none")
  /\ UNCHANGED <<node, turn, used, born, applying>>

\* An Attempt failed and another follows.
Retry(p) ==
  /\ inv[p].status = "running" /\ Trouble
  /\ inv' = [inv EXCEPT ![p].status = "queued"]
  /\ UNCHANGED <<node, turn, used, task, born, applying>>

\* request_decision ends the Invocation blocked.
Ask(p) ==
  /\ inv[p].status = "running" /\ Trouble
  /\ inv' = [inv EXCEPT ![p].status = "blocked", ![p].decision = "open"]
  /\ Reported(p, "blocked", "decision")
  /\ UNCHANGED <<node, turn, used, born, applying>>

(***************************************************************************)
(* The operator and the root Orchestrator.                                 *)
(***************************************************************************)
Resolve(p) ==
  /\ inv[p].decision = "open"
  /\ inv' = [inv EXCEPT ![p].decision = "resolved"]
  /\ UNCHANGED <<node, turn, used, task, born, applying, troubles>>

Supersede(p) ==
  /\ Supersedes /\ inv[p].decision = "resolved"
  /\ inv' = [inv EXCEPT ![p].decision = "superseded"]
  /\ UNCHANGED <<node, turn, used, task, born, applying, troubles>>

\* A root turn's update_task may cancel the Task of a conflict; nobody can complete it.
RootCancels(p) ==
  /\ ConflictOpen(p)
  /\ inv' = [inv EXCEPT ![p].conflictTask = "cancelled"]
  /\ UNCHANGED <<node, turn, used, task, born, applying, troubles>>

-----------------------------------------------------------------------------
Perform(advice) ==
  \/ advice.what = "start" /\ PrepareTurn("decompose")
  \/ advice.what \in {"replan", "synthesize"} /\ PrepareTurn(advice.what)
  \/ advice.what = "continue" /\ Continue(advice.at)
  \/ advice.what = "start_worker" /\ StartWorker(advice.at)
  \/ advice.what = "execute" /\ Execute(advice.at)
  \/ advice.what = "settle" /\ (BeginIntegration \/ Settle)
  \/ advice.what = "resume" /\ Resume(advice.at)

Scheduled == \E advice \in {Advice} : Perform(advice)

AttemptEnds(p) == Return(p) \/ Fail(p) \/ Ask(p)

Next ==
  \/ Scheduled
  \/ \E p \in Positions : EndIntegration(p) \/ AttemptEnds(p) \/ Retry(p)
  \/ Propose \/ Cancel
  \/ \E p \in Positions : Resolve(p) \/ Supersede(p) \/ RootCancels(p)

Spec == Init /\ [][Next]_vars
=============================================================================
