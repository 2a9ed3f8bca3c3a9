------------------------- MODULE WorkersProperties --------------------------
(* What a coordinator_worker node owes the Run (patterns/coordinator-worker.ts). *)
EXTENDS Workers

Ended == node.status \in {"succeeded", "failed"}

(***************************************************************************)
(* Where the node stands still, or goes round in circles: the exceptions   *)
(* of the properties, each a finding.                                      *)
(***************************************************************************)
\* The runner continues a position only from a resolved Decision, never a superseded one.
SupersededAnswer == \E p \in Current \cup {Coordinator} : BlockedOn(p) = "superseded"
\* The Task was cancelled or replaced; its Worker's answered Decision still clears every wait.
SpentAnswer ==
  \E t \in Current \ Stale : BlockedOn(t) = "resolved" /\ ~WorkerContinues(t)
\* The scheduler goes on naming that Worker, and resume refuses what it names.
DeadRequester ==
  \E p \in Listed : p # Coordinator /\ (p \in Current => ~BlockedBy(p, "decision"))
\* The projection readies a Task that the store refuses to make ready.
EndedDependency == \E t \in BecomesReady : ~Readies(t)
\* A Task reported completed in a result that is not gets no Handoff.
UnrecordedEnd ==
  \E t \in Current : /\ Completed(t) /\ ~task[t].handoff
                     /\ inv[t].status = "succeeded" => inv[t].result # "completed"
\* The successor of a Worker was refused its funds after its Task became ready.
UnfundedTask == \E t \in Current : task[t].status = "ready" /\ ~task[t].reserved
\* A Worker is advised to continue although all that may are active.
NoRoom == ~RoomForWorker /\ \E t \in Current : WorkerContinues(t)

Stuck == \/ SupersededAnswer \/ DeadRequester \/ EndedDependency
         \/ UnrecordedEnd \/ UnfundedTask \/ NoRoom

-----------------------------------------------------------------------------
Advises == Advice.what \notin {"in_flight", "wait", "terminal"}
Performs == ENABLED Scheduled

\* What the operation that is advised asks again, from the rows as they are.
ResumePermitted(named) ==
  \/ named = Nowhere
  \/ node.reason = "decision" /\ IF named = Coordinator THEN TurnContinues ELSE WorkerContinues(named)
ApplyPermitted ==
  CASE Projects # {} -> \A t \in BecomesReady : Readies(t)
    [] Projects = {} /\ Unrecorded # {} -> TRUE
    [] OTHER -> /\ ActiveWorkers \cup Runnable = {}
                /\ IF Frontier # {} \/ SynthesisReady THEN ~TurnsLeft ELSE OpenBlocked # {}
Permits(advice) ==
  CASE advice.what \in {"start", "replan", "synthesize"} -> TRUE
    [] advice.what = "continue" -> advice.at = Coordinator \/ RoomForWorker
    [] advice.what = "start_worker" -> RoomForWorker /\ task[advice.at].reserved
    [] advice.what = "execute" -> inv[advice.at].status = "queued"
    [] advice.what = "settle" -> ToIntegrate # {} \/ TurnPending \/ ApplyPermitted
    [] advice.what = "resume" -> ResumePermitted(advice.at)
    [] OTHER -> FALSE

\* No state of the rows makes the node advise what its own checks refuse, and none leaves it
\* without an advice (runningAdvice, inspectWaiting against startPosition, settle and resume).
AdvicePermitted == Advises /\ ~Stuck => Permits(Advice)

\* What inspect advises, the operation that asks again really does: what it asks is permitted,
\* and it then has a step, whatever the position.
AdviceActs == AdvicePermitted /\ (Performs <=> Permits(Advice))

\* A node that succeeded owes nothing: no Worker is active, and every current Task is cancelled,
\* or completed, integrated and handed off (synthesisReady, whatever happened during the turn).
SucceededMeansDone ==
  node.status = "succeeded" =>
    \A t \in Current :
      /\ ~Active(t)
      /\ \/ task[t].status = "cancelled"
         \/ Completed(t) /\ task[t].handoff /\ ~Outstanding(t)

\* Dependencies come first, also those gained through a replacement: a Worker is active only on
\* completed ones, and a Changeset is integrated only after theirs (projectTasks, nextIntegrable).
DependenciesFirst ==
  \A t \in Current : \A d \in Effective(t) :
    /\ Active(t) => Completed(d)
    /\ inv[t].changes = "integrated" => ~Outstanding(d)

(***************************************************************************)
(* Fairness: the scheduler performs what it can, integrations and Attempts *)
(* end (the executor's timeouts).  Nobody has to answer or propose.        *)
(***************************************************************************)
Works == Scheduled \/ \E p \in Positions : EndIntegration(p) \/ AttemptEnds(p)
FairSpec == Spec /\ WF_vars(Works)

\* The node ends, or waits for somebody, whatever its agents return: neither replanning, nor
\* continuing, nor settling goes round for ever (the bounds of the shape, progressMade).
NodeEnds ==
  []<>(\/ Ended \/ Advice.what = "wait"
       \/ SpentAnswer \/ SupersededAnswer \/ (Advises /\ ~Performs))
=============================================================================
