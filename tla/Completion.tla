----------------------------- MODULE Completion ----------------------------
(***************************************************************************)
(* The completion of one Run: request_completion, the run_completion Gate  *)
(* cycles, the final synthesis and the operator's signoff (completion.ts,  *)
(* completion-requests.ts, signoff.ts; acceptance-checks.ts, requirement-  *)
(* derivation.ts, patterns/root.ts, stores/verification.ts).               *)
(*                                                                         *)
(* The root's turns, one after the other, may ask for completion.  Once    *)
(* the requesting turn completed, the Run is verified against the criteria *)
(* of its current Requirement leaves, on the Snapshot it then holds; a     *)
(* passed cycle is presented to the operator, a failed one leaves a        *)
(* remediation Task and returns the Run to running.                        *)
(*                                                                         *)
(* Every step of the scheduler runs inside one pass of the Run, in a       *)
(* transaction; commands, provider calls and the inspection of the         *)
(* Integration Workspace happen between transactions.                      *)
(***************************************************************************)
EXTENDS Naturals, Sequences, FiniteSets

CONSTANTS
  Leaves,        \* leaf Requirements the revisions may hold
  Checks,        \* deterministic criteria, numbered in id order
  Judged,        \* evaluated criteria
  LeafOf,        \* the leaf each criterion belongs to
  MaxCycles,     \* verificationPolicy.maxRunCompletionCycles
  MaxReserve,    \* completion Invocations the final reserve can fund
  MaxTurns,      \* bound on the root's turns
  MaxRevisions,  \* bound on the Requirement revisions
  Calls          \* accept calls of the operator in the air at once

Criteria == Checks \cup Judged

ASSUME CompletionAssumption ==
  /\ Checks \subseteq Nat /\ IsFiniteSet(Checks)
  /\ LeafOf \in [Criteria -> Leaves]
  /\ {MaxCycles, MaxReserve, MaxTurns, MaxRevisions} \subseteq Nat

VARIABLES
  run,      \* the Run row: status, operator pause, integration Snapshot, final Snapshot
  turns,    \* the root's ordinary turns, in order
  request,  \* the active Completion Request and the turn it follows
  gates,    \* the run_completion Gates, each with its Task and its signoff Gate
  work,     \* the latest completion Invocation of the open Gate
  reserve,  \* what the final reserve can still fund
  leaf,     \* the status of each Requirement leaf
  tree,     \* the current Requirement revision: its number and its leaves
  open,     \* the open operator_required Decisions besides a signoff
  plan,     \* whether current nodes, Tasks or their Changesets are unfinished; root inputs queued
  checking, \* verify() awaits a command
  accepts   \* the accept() calls between their steps

vars == <<run, turns, request, gates, work, reserve, leaf, tree, open, plan, checking,
          accepts>>

-----------------------------------------------------------------------------
Ended == {"completed", "failed", "cancelled"}
Present == {"open", "satisfied", "violated", "waived"}
Idle == [kind |-> "none", status |-> "none"]
NoCall == [stage |-> "none", gate |-> 0, stale |-> FALSE]
NoRequest == [status |-> "none", turn |-> 0]

\* purpose: work (plan, decision_resolution, directive turns) or gate_result.
NewTurn(purpose) == [purpose |-> purpose, status |-> "running", changes |-> FALSE]

Init ==
  /\ run = [status |-> "running", paused |-> FALSE, snapshot |-> 0, final |-> 0]
  /\ turns = <<NewTurn("work")>>
  /\ request = NoRequest
  /\ gates = <<>>
  /\ work = Idle
  /\ reserve = MaxReserve
  /\ \E first \in (SUBSET Leaves) \ {{}} :
       /\ tree = [number |-> 1, leaves |-> first]
       /\ leaf = [l \in Leaves |-> IF l \in first THEN "open" ELSE "absent"]
  /\ open = {}
  /\ plan = [busy |-> FALSE, queued |-> FALSE]
  /\ checking = FALSE
  /\ accepts = [c \in Calls |-> NoCall]

Turn == turns[Len(turns)]
Gate == gates[Len(gates)]
Admitted == run.status \notin Ended /\ ~run.paused

\* Every write of the Run row moves updatedAt, which a pending accept() compares.
Staled == [c \in Calls |-> IF accepts[c] = NoCall THEN NoCall ELSE [accepts[c] EXCEPT !.stale = TRUE]]
Moved == accepts' = Staled

Becomes(t) == turns' = [turns EXCEPT ![Len(turns)] = t]
Closes(g) == gates' = [gates EXCEPT ![Len(gates)] = g]

\* A failed remediation Task counts until the root replaces it.
Unfinished(task) == task \in {"pending", "running", "failed"}

\* The root's latest turn is settled, so the next step of the Run may be prepared.
RootIdle ==
  /\ Turn.status \in {"completed", "partial"} \/ (Turn.status = "failed" /\ Turn.purpose = "gate_result")
  /\ ~Turn.changes
  /\ \A i \in DOMAIN gates : gates[i].task # "running"

-----------------------------------------------------------------------------
(* Facts of a Run (CompletionFacts)                                        *)

\* Criteria of the current leaves that are neither waived nor retired.
CurrentCriteria == {c \in Criteria : LeafOf[c] \in tree.leaves /\ leaf[LeafOf[c]] # "waived"}

Needed(criteria) == IF criteria \cap Judged = {} THEN 1 ELSE 2

Preflight ==
  /\ Len(gates) < MaxCycles
  /\ ~plan.busy
  /\ \A i \in DOMAIN turns : ~turns[i].changes
  /\ \A i \in DOMAIN gates : ~Unfinished(gates[i].task)
  /\ open = {}
  /\ CurrentCriteria \cap Checks # {}
  /\ Needed(CurrentCriteria) <= reserve

\* request_completion of a running root turn; an operator pause lets the turn drain.
RequestCompletion ==
  /\ run.status = "running" /\ Turn.status = "running"
  /\ request = NoRequest
  /\ Preflight
  /\ request' = [status |-> "requested", turn |-> Len(turns)]
  /\ UNCHANGED <<run, turns, gates, work, reserve, leaf, tree, open, plan, checking, accepts>>

-----------------------------------------------------------------------------
(* The root's turns                                                        *)

\* The turn revises the plan, which then has unfinished work.
Revise ==
  /\ run.status = "running" /\ Turn.status = "running" /\ ~plan.busy
  /\ plan' = [plan EXCEPT !.busy = TRUE]
  /\ UNCHANGED <<run, turns, request, gates, work, reserve, leaf, tree, open, checking, accepts>>

\* partial: a result that is neither completed nor blocked.
TurnEnds(status, changes) ==
  /\ Turn.status = "running"
  /\ changes => status \in {"completed", "partial"}
  /\ Becomes([Turn EXCEPT !.status = status, !.changes = changes])
  /\ open' = IF status = "blocked" THEN open \cup {"turn"} ELSE open
  /\ UNCHANGED <<run, request, gates, work, reserve, leaf, tree, plan, checking, accepts>>

Prepare(purpose) ==
  /\ Admitted /\ run.status = "running"
  /\ Len(turns) < MaxTurns
  /\ turns' = Append(turns, NewTurn(purpose))

\* The successor of a blocked turn is the same logical turn: the request follows it, and so
\* do the Tasks a gate_result turn was given.
ContinueTurn ==
  /\ Turn.status = "blocked" /\ "turn" \notin open
  /\ Prepare(Turn.purpose)
  /\ request' = IF request.turn = Len(turns) THEN [request EXCEPT !.turn = @ + 1] ELSE request
  /\ UNCHANGED <<run, gates, work, reserve, leaf, tree, open, plan, checking, accepts>>

Integrate ==
  /\ Admitted /\ run.status = "running"
  /\ Turn.status # "running" /\ Turn.changes
  /\ Becomes([Turn EXCEPT !.changes = FALSE])
  /\ run' = [run EXCEPT !.snapshot = @ + 1]
  /\ Moved
  /\ UNCHANGED <<request, gates, work, reserve, leaf, tree, open, plan, checking>>

\* settleRemediationTurn: a completed turn addressed its Tasks, any other ending ends them.
SettleRemediation ==
  /\ Admitted
  /\ Turn.purpose = "gate_result" /\ Turn.status \in {"completed", "partial", "failed"}
  /\ ~Turn.changes
  /\ \E i \in DOMAIN gates : gates[i].task = "running"
  /\ gates' = [i \in DOMAIN gates |->
                 IF gates[i].task # "running" THEN gates[i]
                 ELSE [gates[i] EXCEPT !.task = IF Turn.status = "completed" THEN "completed" ELSE "failed"]]
  /\ UNCHANGED <<run, turns, request, work, reserve, leaf, tree, open, plan, checking, accepts>>

\* A failed ordinary turn fails the Run; its own request is cancelled first.
SettleFailedTurn ==
  /\ Admitted /\ run.status = "running"
  /\ Turn.status = "failed" /\ Turn.purpose = "work"
  /\ run' = [run EXCEPT !.status = "failed"]
  /\ request' = IF request.turn = Len(turns) THEN NoRequest ELSE request
  /\ Moved
  /\ UNCHANGED <<turns, gates, work, reserve, leaf, tree, open, plan, checking>>

PrepareTurn ==
  /\ RootIdle /\ plan.queued
  /\ Prepare("work")
  /\ plan' = [plan EXCEPT !.queued = FALSE]
  /\ UNCHANGED <<run, request, gates, work, reserve, leaf, tree, open, checking, accepts>>

\* Queued inputs come first; the pending Tasks share one turn.
PrepareRemediation ==
  /\ RootIdle /\ ~plan.queued
  /\ \E i \in DOMAIN gates : gates[i].task = "pending"
  /\ Prepare("gate_result")
  /\ gates' = [i \in DOMAIN gates |->
                 IF gates[i].task = "pending" THEN [gates[i] EXCEPT !.task = "running"] ELSE gates[i]]
  /\ UNCHANGED <<run, request, work, reserve, leaf, tree, open, plan, checking, accepts>>

PlanEnds ==
  /\ plan.busy
  /\ plan' = [plan EXCEPT !.busy = FALSE]
  /\ UNCHANGED <<run, turns, request, gates, work, reserve, leaf, tree, open, checking, accepts>>

-----------------------------------------------------------------------------
(* One verification cycle (RunCompletionEngine)                            *)

NewGate ==
  [status |-> "open", snapshot |-> run.snapshot, revision |-> tree.number,
   leaves |-> tree.leaves, verdict |-> [c \in CurrentCriteria |-> "none"],
   failure |-> "none", task |-> "none", signoff |-> "none"]

\* begin() of a request whose turn completed: what drifted meanwhile cancels it.
Begin ==
  /\ Admitted /\ run.status = "running"
  /\ request.status = "requested" /\ turns[request.turn].status = "completed"
  /\ RootIdle /\ ~plan.queued
  /\ \/ /\ Preflight
        /\ gates' = Append(gates, NewGate)
        /\ request' = [request EXCEPT !.status = "verifying"]
        /\ run' = [run EXCEPT !.status = "verifying"]
        /\ work' = Idle
        /\ Moved
     \/ /\ ~Preflight
        /\ request' = NoRequest
        /\ UNCHANGED <<run, gates, work, accepts>>
  /\ UNCHANGED <<turns, reserve, leaf, tree, open, plan, checking>>

\* The requesting turn ended without completing.
CancelRequest ==
  /\ Admitted /\ run.status = "running"
  /\ request.status = "requested" /\ turns[request.turn].status \in {"partial", "failed"}
  /\ RootIdle
  /\ request' = NoRequest
  /\ UNCHANGED <<run, turns, gates, work, reserve, leaf, tree, open, plan, checking, accepts>>

Verifying == Admitted /\ run.status = "verifying"

Recorded(verdict) == {c \in DOMAIN Gate.verdict : Gate.verdict[c] = verdict}
PendingChecks == Recorded("none") \cap Checks
FailedChecks == Recorded("fail") \cap Checks
ChecksPassed == PendingChecks = {} /\ FailedChecks = {}

\* Mutant of Fails: the Run is not returned to running.
FailsInPlace(gate, why) ==
  /\ Closes([gate EXCEPT !.status = "failed", !.failure = why, !.task = "pending"])
  /\ request' = NoRequest
  /\ Moved
  /\ UNCHANGED run

\* fail(): the Gate, the request, the one remediation Task and the Run, in one transaction.
Fails(gate, why) ==
  /\ Closes([gate EXCEPT !.status = "failed", !.failure = why, !.task = "pending"])
  /\ request' = NoRequest
  /\ run' = [run EXCEPT !.status = "running"]
  /\ Moved

\* verify(): from its first command on it runs every pending check, whatever the Run does
\* meanwhile; the first failure ends it, and a check that could not run records nothing.
StartChecks ==
  /\ Verifying /\ ~checking
  /\ PendingChecks # {} /\ FailedChecks = {}
  /\ checking' = TRUE
  /\ UNCHANGED <<run, turns, request, gates, work, reserve, leaf, tree, open, plan, accepts>>

RecordCheck(verdict) ==
  /\ checking
  /\ LET check == CHOOSE c \in PendingChecks : \A d \in PendingChecks : c <= d
     IN  /\ Closes([Gate EXCEPT !.verdict[check] = verdict])
         /\ checking' = (verdict = "pass" /\ PendingChecks # {check})
  /\ UNCHANGED <<run, turns, request, work, reserve, leaf, tree, open, plan, accepts>>

CheckNotRun ==
  /\ checking
  /\ checking' = FALSE
  /\ UNCHANGED <<run, turns, request, gates, work, reserve, leaf, tree, open, plan, accepts>>

ToJudge == ChecksPassed /\ Recorded("none") # {}

\* Mutants of Engage: nobody fails the cycle that cannot be funded; the unit is not reserved.
EngageFunded(kind) ==
  /\ 1 <= reserve
  /\ work' = [kind |-> kind, status |-> "active"]
  /\ reserve' = reserve - 1
  /\ UNCHANGED <<run, request, gates, accepts>>

\* prepareEvaluatorFor, prepareSynthesisFor: one unit of the final reserve, or the cycle fails.
Engage(kind) ==
  \/ /\ 1 <= reserve
     /\ work' = [kind |-> kind, status |-> "active"]
     /\ reserve' = reserve - 1
     /\ UNCHANGED <<run, request, gates, accepts>>
  \/ /\ reserve = 0
     /\ Fails(Gate, "final_reserve_exhausted")
     /\ UNCHANGED <<work, reserve>>

PrepareEvaluator ==
  /\ Verifying
  /\ ToJudge /\ work = Idle
  /\ Engage("evaluator")
  /\ UNCHANGED <<turns, leaf, tree, open, plan, checking>>

\* The Invocation ends and gives back what it did not consume; an intercepted call leaves an
\* open approval Decision of the Run.
WorkEnds(status, unspent) ==
  /\ work.status = "active"
  /\ work' = [work EXCEPT !.status = status]
  /\ reserve' = reserve + unspent
  /\ open' = IF status = "blocked" THEN open \cup {"approval"} ELSE open
  /\ UNCHANGED <<run, turns, request, gates, leaf, tree, plan, checking, accepts>>

\* settleEvaluator: the verdicts and the consequence of a failing one are one transaction.
SettleEvaluator ==
  /\ Verifying
  /\ ToJudge /\ work.kind = "evaluator"
  /\ \/ /\ work.status = "succeeded"
        /\ \E judged \in [Recorded("none") -> {"pass", "fail"}] :
             LET gate == [Gate EXCEPT !.verdict =
                            [c \in DOMAIN @ |-> IF c \in DOMAIN judged THEN judged[c] ELSE @[c]]]
             IN  IF \E c \in DOMAIN judged : judged[c] = "fail"
                 THEN Fails(gate, "criteria_failed")
                 ELSE Closes(gate) /\ UNCHANGED <<run, request, accepts>>
        /\ UNCHANGED <<work, reserve>>
     \/ /\ work.status = "failed"
        /\ Fails(Gate, "evaluator_failed")
        /\ UNCHANGED <<work, reserve>>
     \/ /\ work.status = "blocked" /\ "approval" \notin open
        /\ Engage("evaluator")
  /\ UNCHANGED <<turns, leaf, tree, open, plan, checking>>

AllPassed == Recorded("pass") = DOMAIN Gate.verdict

\* deriveRequirementStatuses over the leaves the Gate pinned: a leaf without a criterion of
\* the Gate is open, one whose criteria all passed is satisfied.
Derived ==
  [l \in Leaves |->
     IF l \notin Gate.leaves \/ leaf[l] \in {"waived", "retired"} THEN leaf[l]
     ELSE IF \A c \in DOMAIN Gate.verdict : LeafOf[c] # l THEN "open" ELSE "satisfied"]

Derive ==
  /\ Verifying /\ AllPassed
  /\ leaf # Derived
  /\ leaf' = Derived
  /\ UNCHANGED <<run, turns, request, gates, work, reserve, tree, open, plan, checking, accepts>>

\* conditionsOf(): what keeps the Gate from passing once every criterion passed.
Conditions ==
  \/ \E l \in Gate.leaves : leaf[l] \notin {"satisfied", "waived", "retired"}
  \/ \E i \in DOMAIN gates : Unfinished(gates[i].task)
  \/ open # {} \/ plan.busy
  \/ \E i \in DOMAIN turns : turns[i].changes
  \/ run.snapshot # Gate.snapshot

Judgeable == AllPassed /\ leaf = Derived

\* complete(): failed checks and unmet conditions.  The conditions are read before the
\* synthesis Invocation is looked at.
Complete ==
  /\ Verifying
  /\ \/ FailedChecks # {} /\ Fails(Gate, "criteria_failed")
     \/ Judgeable /\ Conditions /\ Fails(Gate, "conditions_unmet")
  /\ UNCHANGED <<turns, work, reserve, leaf, tree, open, plan, checking>>

PrepareSynthesis ==
  /\ Verifying
  /\ Judgeable /\ ~Conditions
  /\ work.kind # "synthesis"
  /\ Engage("synthesis")
  /\ UNCHANGED <<turns, leaf, tree, open, plan, checking>>

\* settleSynthesis: the report, the passed Gate and request, and the signoff are one
\* transaction.
SettleSynthesis ==
  /\ Verifying
  /\ Judgeable /\ ~Conditions
  /\ work.kind = "synthesis"
  /\ \/ /\ work.status = "succeeded"
        /\ Closes([Gate EXCEPT !.status = "passed", !.signoff = "open"])
        /\ request' = NoRequest
        /\ run' = [run EXCEPT !.status = "awaiting_signoff"]
        /\ Moved
        /\ UNCHANGED <<work, reserve>>
     \/ /\ work.status = "failed"
        /\ Fails(Gate, "final_synthesis_failed")
        /\ UNCHANGED <<work, reserve>>
     \/ /\ work.status = "blocked"
        /\ Engage("synthesis")
  /\ UNCHANGED <<turns, leaf, tree, open, plan, checking>>

-----------------------------------------------------------------------------
(* The operator                                                            *)

\* A revision the operator authors or approves: kept leaves keep their status, new ones are
\* open, removed ones retired for good.
Author(kept) ==
  /\ tree.number <= MaxRevisions
  /\ kept # {} /\ \A l \in kept : leaf[l] # "retired"
  /\ tree' = [number |-> tree.number + 1, leaves |-> kept]
  /\ leaf' = [l \in Leaves |->
                CASE l \in kept /\ leaf[l] = "absent" -> "open"
                  [] l \notin kept /\ leaf[l] \in Present -> "retired"
                  [] OTHER -> leaf[l]]
  /\ UNCHANGED <<run, turns, request, gates, work, reserve, open, plan, checking, accepts>>

\* A Decision of the whole Conversation; the Decision a root turn is blocked on, perhaps the
\* waiver of a leaf of the current revision; the approval of an intercepted call.
Ask ==
  /\ run.status \notin Ended
  /\ "conversation" \notin open
  /\ open' = open \cup {"conversation"}
  /\ UNCHANGED <<run, turns, request, gates, work, reserve, leaf, tree, plan, checking, accepts>>

Answer(d) ==
  /\ d \in open /\ run.status \notin Ended
  /\ open' = open \ {d}
  /\ \/ UNCHANGED leaf
     \/ \E l \in tree.leaves :
          /\ d = "turn" /\ leaf[l] \in {"open", "violated"}
          /\ leaf' = [leaf EXCEPT ![l] = "waived"]
  /\ UNCHANGED <<run, turns, request, gates, work, reserve, tree, plan, checking, accepts>>

Post ==
  /\ run.status \notin Ended /\ ~plan.queued
  /\ plan' = [plan EXCEPT !.queued = TRUE]
  /\ UNCHANGED <<run, turns, request, gates, work, reserve, leaf, tree, open, checking, accepts>>

Pause(paused) ==
  /\ run.status \notin Ended /\ run.paused # paused
  /\ run' = [run EXCEPT !.paused = paused]
  /\ Moved
  /\ UNCHANGED <<turns, request, gates, work, reserve, leaf, tree, open, plan, checking>>

\* The open Gate and the request stay as history.
Cancel ==
  /\ run.status \notin Ended
  /\ run' = [run EXCEPT !.status = "cancelled", !.paused = FALSE]
  /\ Moved
  /\ UNCHANGED <<turns, request, gates, work, reserve, leaf, tree, open, plan, checking>>

-----------------------------------------------------------------------------
(* Signoff (RunSignoffService)                                             *)

\* blockersOf(): nothing is active, and what the Gate pinned is still current.
Quiescent ==
  /\ ~run.paused
  /\ Turn.status # "running" /\ work.status # "active"
  /\ \A i \in DOMAIN turns : ~turns[i].changes
  /\ \A i \in DOMAIN gates : ~Unfinished(gates[i].task)
  /\ open = {} /\ ~plan.busy /\ request = NoRequest
  /\ \A l \in Gate.leaves : leaf[l] \in {"satisfied", "waived", "retired"}
  /\ Gate.revision = tree.number
  /\ Gate.snapshot = run.snapshot

Resolvable(g) ==
  /\ run.status = "awaiting_signoff"
  /\ g = Len(gates) /\ Gate.signoff = "open"
  /\ Quiescent

\* accept() reads the boundary, inspects the Integration Workspace outside any transaction
\* (anyone may have written in it), and revalidates everything in the transaction that
\* completes the Run.
AcceptReads(c) ==
  /\ accepts[c] = NoCall
  /\ Resolvable(Len(gates))
  /\ accepts' = [accepts EXCEPT ![c] = [stage |-> "read", gate |-> Len(gates), stale |-> FALSE]]
  /\ UNCHANGED <<run, turns, request, gates, work, reserve, leaf, tree, open, plan, checking>>

AcceptInspects(c, exact) ==
  /\ accepts[c].stage = "read"
  /\ accepts' = [accepts EXCEPT ![c] = IF exact THEN [@ EXCEPT !.stage = "inspected"] ELSE NoCall]
  /\ UNCHANGED <<run, turns, request, gates, work, reserve, leaf, tree, open, plan, checking>>

\* Mutant of AcceptCommits: only the Run row and its signoff are read again.
AcceptCommitsUnchecked(c) ==
  /\ accepts[c].stage = "inspected"
  /\ run.status = "awaiting_signoff" /\ Gate.signoff = "open" /\ ~accepts[c].stale
  /\ Closes([Gate EXCEPT !.signoff = "accept"])
  /\ run' = [run EXCEPT !.status = "completed", !.final = Gate.snapshot]
  /\ accepts' = [Staled EXCEPT ![c] = NoCall]
  /\ UNCHANGED <<turns, request, work, reserve, leaf, tree, open, plan, checking>>

AcceptCommits(c) ==
  /\ accepts[c].stage = "inspected"
  /\ Resolvable(accepts[c].gate) /\ ~accepts[c].stale
  /\ Closes([Gate EXCEPT !.signoff = "accept"])
  /\ run' = [run EXCEPT !.status = "completed", !.final = Gate.snapshot]
  /\ accepts' = [Staled EXCEPT ![c] = NoCall]
  /\ UNCHANGED <<turns, request, work, reserve, leaf, tree, open, plan, checking>>

AcceptRefused(c) ==
  /\ accepts[c].stage = "inspected"
  /\ ~Resolvable(accepts[c].gate) \/ accepts[c].stale
  /\ accepts' = [accepts EXCEPT ![c] = NoCall]
  /\ UNCHANGED <<run, turns, request, gates, work, reserve, leaf, tree, open, plan, checking>>

\* requestChanges(): the resolution and the one follow-up turn commit together.
RequestChanges ==
  /\ Resolvable(Len(gates))
  /\ Len(turns) < MaxTurns
  /\ Closes([Gate EXCEPT !.signoff = "request_changes"])
  /\ run' = [run EXCEPT !.status = "running"]
  /\ turns' = Append(turns, NewTurn("work"))
  /\ Moved
  /\ UNCHANGED <<request, work, reserve, leaf, tree, open, plan, checking>>

\* The process dies: the rows stay, what was awaited is lost.
Crash ==
  /\ checking \/ accepts # [c \in Calls |-> NoCall]
  /\ checking' = FALSE
  /\ accepts' = [c \in Calls |-> NoCall]
  /\ UNCHANGED <<run, turns, request, gates, work, reserve, leaf, tree, open, plan>>

-----------------------------------------------------------------------------
RootSteps ==
  \/ ContinueTurn \/ Integrate \/ SettleRemediation \/ SettleFailedTurn
  \/ PrepareTurn \/ PrepareRemediation

EngineSteps ==
  \/ Begin \/ CancelRequest \/ StartChecks \/ PrepareEvaluator \/ SettleEvaluator
  \/ Derive \/ Complete \/ PrepareSynthesis \/ SettleSynthesis

TurnSteps ==
  \/ RequestCompletion \/ Revise
  \/ \E status \in {"completed", "partial", "failed", "blocked"}, changes \in BOOLEAN :
       TurnEnds(status, changes)

External ==
  \/ \E verdict \in {"pass", "fail"} : RecordCheck(verdict)
  \/ CheckNotRun
  \/ \E status \in {"succeeded", "failed", "blocked"}, unspent \in 0..1 : WorkEnds(status, unspent)
  \/ PlanEnds

Operator ==
  \/ \E kept \in SUBSET Leaves : Author(kept)
  \/ Ask
  \/ \E d \in {"turn", "conversation", "approval"} : Answer(d)
  \/ Post
  \/ \E paused \in BOOLEAN : Pause(paused)
  \/ Cancel
  \/ RequestChanges
  \/ \E c \in Calls : AcceptReads(c) \/ AcceptInspects(c, TRUE) \/ AcceptInspects(c, FALSE) \/ AcceptCommits(c) \/ AcceptRefused(c)

Next == RootSteps \/ EngineSteps \/ TurnSteps \/ External \/ Operator \/ Crash

Spec == Init /\ [][Next]_vars

\* The host gives a Run with pending work another pass; an Attempt ends by its deadline; a
\* check that could not run is run again by the next pass, and sometimes can be.
FairSpec ==
  /\ Spec
  /\ WF_vars(EngineSteps)
  /\ SF_vars(\E verdict \in {"pass", "fail"} : RecordCheck(verdict))
  /\ WF_vars(\E status \in {"succeeded", "failed", "blocked"}, unspent \in 0..1 : WorkEnds(status, unspent))

-----------------------------------------------------------------------------
(* Properties                                                              *)

\* The Run, its request, its Gate cycles and the signoff always tell one story, whatever
\* stops or fails in between: at most MaxCycles cycles, only the last one open, a verifying
\* Run always with the request and the open Gate it verifies (phaseOf throws otherwise),
\* a signoff open exactly while the operator is awaited, no request left on a completed Run.
OneStory ==
  /\ Len(gates) <= MaxCycles
  /\ \A i \in DOMAIN gates : i < Len(gates) => gates[i].status # "open" /\ gates[i].signoff # "open"
  /\ \A i \in DOMAIN gates : (gates[i].status = "failed") = (gates[i].task # "none")
  /\ request.status = "verifying" => gates # <<>> /\ Gate.status = "open"
  /\ run.status = "verifying" => request.status = "verifying"
  /\ run.status = "awaiting_signoff" => gates # <<>> /\ Gate.signoff = "open"
  /\ run.status \in {"running", "completed", "failed"} =>
       /\ request.status # "verifying"
       /\ \A i \in DOMAIN gates : gates[i].status # "open" /\ gates[i].signoff # "open"
  /\ run.status = "completed" => request = NoRequest

\* A Run completes only on what was verified and nothing else: the criteria of its current
\* requirements were all judged to pass on the very Snapshot it holds and is accepted with,
\* while no question was open, nothing ran and the operator had not paused it, whatever
\* happened between the inspection of the Workspace and the commit (signoff.ts accept).
AcceptedIsVerified ==
  [][run.status # "completed" /\ run'.status = "completed" =>
       /\ run'.final = run.snapshot /\ Gate.snapshot = run.snapshot
       /\ Gate.status = "passed" /\ Gate.signoff = "open" /\ AllPassed
       /\ Gate.revision = tree.number
       /\ CurrentCriteria \subseteq DOMAIN Gate.verdict
       /\ open = {} /\ ~run.paused
       /\ Turn.status # "running" /\ work.status # "active"]_vars

\* A Run does not stay in verification: unless the operator pauses it or is asked something,
\* it passes, fails its cycle or ends.
VerificationEnds ==
  run.status = "verifying" ~> (run.status # "verifying" \/ run.paused \/ open # {})

=============================================================================
