----------------------------- MODULE NodeGates ------------------------------
(***************************************************************************)
(* Gated single nodes of one Run, their Changesets, their node_exit Gates  *)
(* and the root's turns that remediate them (gates.ts, patterns/root.ts,   *)
(* SequentialStepEngine, scheduler.ts reconcileRun).                       *)
(*                                                                         *)
(* A pass of the scheduler performs the first action the rows advise, and  *)
(* asks again: the root comes first, then the nodes in order, and a turn   *)
(* for Gates or results only when nothing else can be done.  An action     *)
(* that changes nothing, or throws, is advised for ever, and nothing after *)
(* it is reached.  Only an integration is awaited step by step; a check is *)
(* one step, for nothing it reads can change.                              *)
(*                                                                         *)
(* Every node has a deterministic criterion, those of Evaluated an         *)
(* evaluated one too.  Worker n and turn t write Changesets n and          *)
(* NodeCount + t.  Requesters' own Decisions, funding, limits, pauses,     *)
(* cancellation, revisions and operator inputs are in other modules.       *)
(***************************************************************************)
EXTENDS Integration, FiniteSets

CONSTANTS
  NodeCount,
  Evaluated,   \* nodes with an evaluated criterion
  MaxGates,    \* verificationPolicy.maxNodeGateCycles
  MaxTurns     \* bound: turns of the Orchestrator

Nodes == 1..NodeCount
TurnChangeset(t) == NodeCount + t

ASSUME NodeGatesAssumption ==
  /\ NodeCount \in Nat \ {0} /\ MaxTurns \in Nat /\ MaxGates \in Nat \ {0}
  /\ Evaluated \subseteq Nodes
  /\ Changesets = 1..NodeCount + MaxTurns

VARIABLES
  run,      \* "running" or "failed"
  node,     \* status of a node, a wait by what it waits for
  worker,   \* its Invocation; "failed" is any end without a completed result
  gates,    \* its Gates, each with its Evaluator and its remediation Task
  turns     \* the turns at the orchestrator position

gateVars == <<run, node, worker, gates, turns>>
vars == <<integrationVars, gateVars>>

NewGate == [status |-> "open", snapshot |-> snapshot, check |-> "none",
            evaluator |-> "none", task |-> "none", holder |-> 0]
NewTurn(purpose, tasks, told) ==
  [purpose |-> purpose, status |-> "queued", decision |-> "none", tasks |-> tasks, told |-> told]

Init ==
  /\ IntegrationInit
  /\ run = "running"
  /\ node = [n \in Nodes |-> "ready"]
  /\ worker = [n \in Nodes |-> "none"]
  /\ gates = [n \in Nodes |-> <<>>]
  /\ turns = <<>>

-----------------------------------------------------------------------------
(***************************************************************************)
(* What the rows say.                                                      *)
(***************************************************************************)
Ended(n) == node[n] \in {"succeeded", "failed"}
Gate(n) == gates[n][Len(gates[n])]

Turn == turns[Len(turns)]
TurnDone == Turn.status \in {"completed", "unfinished"}   \* the Invocation succeeded
OwnChangeset == TurnChangeset(Len(turns))
\* Mutant: a turn that remediates is settled for its Tasks alone.
OutstandingUnlessGates ==
  TurnDone /\ Turn.purpose # "gate_result" /\ change[OwnChangeset] # "integrated"
Outstanding == TurnDone /\ change[OwnChangeset] # "integrated"
OpenTask == {"pending", "running", "blocked"}
TaskEnds == {"completed", "failed", "cancelled"}
Unsettled == {w \in Turn.tasks : gates[w[1]][w[2]].task \notin TaskEnds}

\* Whether the latest turn has consequences to apply.
ToSettle ==
  \/ Turn.status = "blocked" /\ Turn.decision = "resolved"
  \/ Turn.status # "blocked" /\ Turn.purpose = "gate_result" /\ Unsettled # {}
  \/ Turn.status = "failed" /\ Turn.purpose = "node_result"
  \/ Outstanding

Untold == {n \in Nodes : Ended(n)} \ UNION {turns[t].told : t \in DOMAIN turns}
\* Failed Gates whose Task waits for the root.
Remediable ==
  {n \in Nodes : node[n] = "running" /\ gates[n] # <<>> /\ Gate(n).task \in {"pending", "blocked"}}

RootAdvice ==
  CASE turns # <<>> /\ Turn.status = "queued" -> "execute"
    [] turns # <<>> /\ Turn.status = "running" -> "in_flight"
    [] turns # <<>> /\ Turn.status = "blocked" /\ Turn.decision = "open" -> "wait"
    [] turns # <<>> /\ Turn.status \notin {"queued", "running"} /\ ToSettle -> "settle"
    [] OTHER -> IF Untold # {} THEN "tell" ELSE IF Remediable # {} THEN "remediate" ELSE "idle"

\* gates.phaseOf: where the Gate phase of the node stands.
GateAdvice(n) ==
  IF gates[n] = <<>> THEN "open"
  ELSE CASE Gate(n).status = "open" /\ Gate(n).check = "none" -> "check"
         [] Gate(n).check = "pass" /\ n \in Evaluated /\ Gate(n).evaluator = "none" -> "prepare"
         [] Gate(n).evaluator = "queued" -> "execute"
         [] Gate(n).evaluator = "running" -> "in_flight"
         [] Gate(n).task = "completed" -> "open"
         [] Gate(n).task \in OpenTask -> "remediating"
         [] OTHER -> "settle_gate"

NodeAdvice(n) ==
  CASE node[n] = "ready" -> "start"
    [] node[n] = "decision" -> IF Gate(n).evaluator = "answered" THEN "resume" ELSE "wait"
    [] node[n] = "conflict" -> IF conflictTask[n] = "pending" THEN "wait" ELSE "resume"
    [] Ended(n) -> "terminal"
    [] OTHER -> IF worker[n] = "queued" THEN "execute"
                ELSE IF worker[n] \in {"running", "retrying"} THEN "in_flight"
                ELSE IF worker[n] = "failed" \/ change[n] # "integrated" THEN "settle"
                ELSE GateAdvice(n)

RootActs == RootAdvice \in {"execute", "settle"}
NodeActs(n) == NodeAdvice(n) \notin {"wait", "terminal", "in_flight", "remediating"}
InFlight ==
  \/ turns # <<>> /\ Turn.status = "running"
  \/ \E n \in Nodes : worker[n] = "running" \/ (gates[n] # <<>> /\ Gate(n).evaluator = "running")

Passing == Idle /\ run = "running"
RootIs(advice) == Passing /\ RootAdvice = advice
NodeIs(n, advice) ==
  Passing /\ ~RootActs /\ NodeAdvice(n) = advice /\ \A m \in 1..n - 1 : ~NodeActs(m)
\* A turn for ended nodes or failed Gates: nothing else can be done.
Quiet == ~InFlight /\ \A n \in Nodes : ~NodeActs(n)
-----------------------------------------------------------------------------
(***************************************************************************)
(* The root (root.ts).                                                     *)
(***************************************************************************)
SetTurn(field, value) == turns' = [turns EXCEPT ![Len(turns)][field] = value]

\* The Tasks of "works" become what "to" maps them to, held by turn t.
WithTasks(works, to, t) ==
  [n \in Nodes |-> [k \in DOMAIN gates[n] |->
     IF <<n, k>> \in works
     THEN [gates[n][k] EXCEPT !.task = to[@], !.holder = t] ELSE gates[n][k]]]
Assigned == [task \in OpenTask |-> "running"]
\* Mutant: a Task its turn reported blocked is left as it is.
AddressedUnlessBlocked == [task \in OpenTask |-> IF task = "blocked" THEN task ELSE "completed"]
Addressed == [task \in OpenTask |-> IF task = "blocked" THEN "cancelled" ELSE "completed"]
EndedTask == [task \in OpenTask |-> IF task = "running" THEN "failed" ELSE "cancelled"]

ExecuteTurn == RootIs("execute") /\ SetTurn("status", "running")
               /\ UNCHANGED <<integrationVars, run, node, worker, gates>>

\* A Changeset in conflict is no change: the root never waits, and is advised to settle again.
IntegrateTurn == RootIs("settle") /\ Outstanding /\ Begins(OwnChangeset) /\ UNCHANGED gateVars

\* Mutant: the successor of a blocked turn leaves the Tasks with it.
SuccessorAlone ==
  /\ RootIs("settle") /\ Turn.status = "blocked" /\ Len(turns) < MaxTurns
  /\ turns' = Append(turns, NewTurn(Turn.purpose, Turn.tasks, Turn.told))
  /\ UNCHANGED <<integrationVars, run, node, worker, gates>>
\* The Decision is resolved: the successor takes the Tasks over.
ContinueTurn ==
  /\ RootIs("settle") /\ Turn.status = "blocked" /\ Len(turns) < MaxTurns
  /\ turns' = Append(turns, NewTurn(Turn.purpose, Turn.tasks, Turn.told))
  /\ gates' = WithTasks(Unsettled, Assigned, Len(turns) + 1)
  /\ UNCHANGED <<integrationVars, run, node, worker>>

SettleTasks ==
  /\ RootIs("settle") /\ Turn.status # "blocked" /\ Turn.purpose = "gate_result" /\ ~Outstanding
  /\ gates' = IF Turn.status = "completed" THEN WithTasks(Unsettled, Addressed, Len(turns))
              ELSE WithTasks(Unsettled, EndedTask, Len(turns))
  /\ UNCHANGED <<integrationVars, run, node, worker, turns>>

\* A failed turn fails the root and the Run.
FailRun ==
  /\ RootIs("settle") /\ Turn.status = "failed" /\ Turn.purpose = "node_result"
  /\ run' = "failed"
  /\ UNCHANGED <<integrationVars, node, worker, gates, turns>>

TellEnded ==
  /\ RootIs("tell") /\ Quiet /\ Len(turns) < MaxTurns
  /\ turns' = Append(turns, NewTurn("node_result", {}, Untold))
  /\ UNCHANGED <<integrationVars, run, node, worker, gates>>
Remediate ==
  /\ RootIs("remediate") /\ Quiet /\ Len(turns) < MaxTurns
  /\ LET works == {<<n, Len(gates[n])>> : n \in Remediable}
     IN /\ turns' = Append(turns, NewTurn("gate_result", works, {}))
        /\ gates' = WithTasks(works, Assigned, Len(turns) + 1)
  /\ UNCHANGED <<integrationVars, run, node, worker>>

RootSteps ==
  \/ ExecuteTurn \/ IntegrateTurn \/ ContinueTurn \/ SettleTasks \/ FailRun
  \/ TellEnded \/ Remediate
-----------------------------------------------------------------------------
(***************************************************************************)
(* The nodes (SequentialStepEngine).                                       *)
(***************************************************************************)
SetNode(n, status) == node' = [node EXCEPT ![n] = status]
SetWorker(n, status) == worker' = [worker EXCEPT ![n] = status]
SetGate(n, g) == gates' = [gates EXCEPT ![n][Len(gates[n])] = g]

StartNode(n) ==
  /\ NodeIs(n, "start") /\ SetNode(n, "running") /\ SetWorker(n, "queued")
  /\ UNCHANGED <<integrationVars, run, gates, turns>>
ExecuteWorker(n) ==
  /\ NodeIs(n, "execute") /\ worker[n] = "queued" /\ SetWorker(n, "running")
  /\ UNCHANGED <<integrationVars, run, node, gates, turns>>
IntegrateWorker(n) ==
  NodeIs(n, "settle") /\ worker[n] = "completed" /\ Begins(n) /\ UNCHANGED gateVars
\* The call found a conflict, or one was recorded and the node never marked.
WaitForConflict(n) ==
  /\ \/ At("wait") /\ call.changeset = n /\ Returns
     \/ /\ NodeIs(n, "settle") /\ change[n] = "conflict" /\ conflictTask[n] = "pending"
        /\ UNCHANGED integrationVars
  /\ SetNode(n, "conflict")
  /\ UNCHANGED <<run, worker, gates, turns>>
FailNode(n) ==
  /\ NodeIs(n, "settle") /\ (worker[n] = "failed" \/ conflictTask[n] = "cancelled")
  /\ SetNode(n, "failed")
  /\ UNCHANGED <<integrationVars, run, worker, gates, turns>>
ResumeNode(n) ==
  /\ NodeIs(n, "resume") /\ SetNode(n, "running")
  /\ IF node[n] = "decision" THEN SetGate(n, [Gate(n) EXCEPT !.evaluator = "queued"])
     ELSE UNCHANGED gates
  /\ UNCHANGED <<integrationVars, run, worker, turns>>
\* The root's conflict: nothing waits for it.
RootConflict == At("wait") /\ call.changeset > NodeCount /\ Returns /\ UNCHANGED gateVars

NodeSteps(n) ==
  \/ StartNode(n) \/ ExecuteWorker(n) \/ IntegrateWorker(n) \/ WaitForConflict(n)
  \/ FailNode(n) \/ ResumeNode(n)

(***************************************************************************)
(* Their Gates (gates.ts).                                                 *)
(***************************************************************************)
OpenGate(n) ==
  /\ NodeIs(n, "open")
  /\ gates' = [gates EXCEPT ![n] = Append(@, NewGate)]
  /\ UNCHANGED <<integrationVars, run, node, worker, turns>>
RunChecks(n) ==
  /\ NodeIs(n, "check")
  /\ \E verdict \in {"pass", "fail"} : SetGate(n, [Gate(n) EXCEPT !.check = verdict])
  /\ UNCHANGED <<integrationVars, run, node, worker, turns>>
PrepareEvaluator(n) ==
  /\ NodeIs(n, "prepare") /\ SetGate(n, [Gate(n) EXCEPT !.evaluator = "queued"])
  /\ UNCHANGED <<integrationVars, run, node, worker, turns>>
ExecuteEvaluator(n) ==
  /\ NodeIs(n, "execute") /\ worker[n] = "completed"
  /\ SetGate(n, [Gate(n) EXCEPT !.evaluator = "running"])
  /\ UNCHANGED <<integrationVars, run, node, worker, turns>>

Judged(g) == g.status = "open" /\ g.evaluator \notin {"blocked", "failed"}
\* The next consequence of the Gate's rows: gates.settle.
SettleGate(n) ==
  /\ NodeIs(n, "settle_gate")
  /\ LET g == Gate(n)
         passes == g.check = "pass" /\ g.evaluator \in {"none", "pass"}
     IN \/ /\ Judged(g) /\ passes
           /\ SetGate(n, [g EXCEPT !.status = "passed"]) /\ SetNode(n, "succeeded")
        \/ /\ Judged(g) /\ ~passes /\ Len(gates[n]) < MaxGates
           /\ SetGate(n, [g EXCEPT !.status = "failed", !.task = "pending"]) /\ UNCHANGED node
        \/ /\ Judged(g) /\ ~passes /\ Len(gates[n]) >= MaxGates   \* gate_cycles_exhausted
           /\ SetGate(n, [g EXCEPT !.status = "failed"]) /\ SetNode(n, "failed")
        \/ /\ g.evaluator = "failed"                              \* gate_evaluator_failed
           /\ SetGate(n, [g EXCEPT !.status = "failed"]) /\ SetNode(n, "failed")
        \/ g.evaluator = "blocked" /\ SetNode(n, "decision") /\ UNCHANGED gates
        \/ /\ g.task \in {"failed", "cancelled"}                  \* gate_remediation_failed
           /\ SetNode(n, "failed") /\ UNCHANGED gates
  /\ UNCHANGED <<integrationVars, run, worker, turns>>

GateSteps(n) ==
  OpenGate(n) \/ RunChecks(n) \/ PrepareEvaluator(n) \/ ExecuteEvaluator(n) \/ SettleGate(n)
-----------------------------------------------------------------------------
(***************************************************************************)
(* Attempts, which end while the pass goes on, and everybody else.         *)
(***************************************************************************)
WorkerEnds(n) ==
  /\ worker[n] = "running"
  /\ \/ SetWorker(n, "completed") /\ Produces(n) /\ UNCHANGED troubles
     \/ \E end \in {"failed", "retrying"} : SetWorker(n, end) /\ Trouble /\ UNCHANGED <<git, rows>>
  /\ UNCHANGED <<call, run, node, gates, turns>>
RetryDue(n) ==
  /\ worker[n] = "retrying" /\ SetWorker(n, "queued")
  /\ UNCHANGED <<integrationVars, run, node, gates, turns>>
EvaluatorEnds(n) ==
  /\ gates[n] # <<>> /\ Gate(n).evaluator = "running"
  /\ \/ \E end \in {"pass", "fail"} :
          SetGate(n, [Gate(n) EXCEPT !.evaluator = end]) /\ UNCHANGED troubles
     \/ \E end \in {"failed", "blocked"} :
          SetGate(n, [Gate(n) EXCEPT !.evaluator = end]) /\ Trouble
  /\ UNCHANGED <<git, rows, call, run, node, worker, turns>>

\* A result, which reports all its Tasks alike, and the Changeset of a turn that succeeded.
TurnReturns ==
  /\ turns # <<>> /\ Turn.status = "running"
  /\ \E end \in {"completed", "unfinished"}, report \in {"running", "completed", "blocked"} :
       LET Reported == [task \in OpenTask \cup TaskEnds |-> IF task = "running" THEN report ELSE task]
       IN /\ SetTurn("status", end)
          /\ gates' = WithTasks(Turn.tasks, Reported, Len(turns))
          /\ IF end = "unfinished" THEN Trouble ELSE UNCHANGED troubles
  /\ Produces(OwnChangeset)
  /\ UNCHANGED <<call, run, node, worker>>
TurnFails ==
  /\ turns # <<>> /\ Turn.status = "running" /\ Trouble
  /\ \/ SetTurn("status", "failed")
     \/ turns' = [turns EXCEPT ![Len(turns)].status = "blocked", ![Len(turns)].decision = "open"]
  /\ UNCHANGED <<git, rows, call, run, node, worker, gates>>
\* update_task, from a running turn.
TurnCancels ==
  /\ turns # <<>> /\ Turn.status = "running" /\ Trouble
  /\ \/ \E n \in Nodes : ConflictCancelled(n) /\ UNCHANGED gates
     \/ \E n \in Remediable :
          SetGate(n, [Gate(n) EXCEPT !.task = "cancelled"]) /\ UNCHANGED <<git, rows>>
  /\ UNCHANGED <<call, run, node, worker, turns>>

Resolve ==
  /\ \/ /\ turns # <<>> /\ Turn.decision = "open"
        /\ SetTurn("decision", "resolved") /\ UNCHANGED gates
     \/ \E n \in Nodes : /\ node[n] = "decision" /\ Gate(n).evaluator = "blocked"
                         /\ SetGate(n, [Gate(n) EXCEPT !.evaluator = "answered"])
                         /\ UNCHANGED turns
  /\ UNCHANGED <<integrationVars, run, node, worker>>

\* Interrupted Attempts are tried again, and nothing remembers the call.
Crash ==
  /\ ~Idle \/ InFlight
  /\ Trouble /\ call' = NoCall
  /\ worker' = [n \in Nodes |-> IF worker[n] = "running" THEN "queued" ELSE worker[n]]
  /\ gates' = [n \in Nodes |-> [k \in DOMAIN gates[n] |->
       IF gates[n][k].evaluator = "running" THEN [gates[n][k] EXCEPT !.evaluator = "queued"]
       ELSE gates[n][k]]]
  /\ turns' = [t \in DOMAIN turns |->
       IF turns[t].status = "running" THEN [turns[t] EXCEPT !.status = "queued"] ELSE turns[t]]
  /\ UNCHANGED <<git, rows, run, node>>

Call == (CallSteps \/ CallLost) /\ UNCHANGED gateVars
AttemptEnds ==
  \/ TurnReturns \/ TurnFails \/ \E n \in Nodes : WorkerEnds(n) \/ RetryDue(n) \/ EvaluatorEnds(n)
Pass == RootSteps \/ RootConflict \/ \E n \in Nodes : NodeSteps(n) \/ GateSteps(n)

Next == Pass \/ Call \/ AttemptEnds \/ TurnCancels \/ Resolve \/ Crash
Spec == Init /\ [][Next]_vars

=============================================================================
