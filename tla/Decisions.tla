----------------------------- MODULE Decisions -----------------------------
(***************************************************************************)
(* Decisions and the logical turns that wait on them (decision-requests.ts,*)
(* stores/decisions.ts, stores/orchestrator-inputs.ts, runtime-tools.ts,   *)
(* tool-call-authorization.ts, stores/approved-tool-call-uses.ts;          *)
(* patterns/root.ts, patterns/support.ts, scheduler.ts).                   *)
(*                                                                         *)
(* A turn at a position asks the operator a question, or its provider      *)
(* proposes a call that needs an approval; either ends the turn blocked on *)
(* an open Decision.  The operator, or the runtime's default policy, ends  *)
(* the Decision; the scheduler prepares the one successor, which is told   *)
(* the resolution, unless its node cannot fund it.  A policy answer may    *)
(* later be superseded, which a coordinator_worker node never continues    *)
(* from.  An approval is claimed in its own transaction, and only then the *)
(* call is executed.                                                       *)
(*                                                                         *)
(* The guarded call is one call (one tool, one digest).  A question has a  *)
(* recommended option, "yes"; a waiver's "yes" is waive, an approval's is  *)
(* approve_once.                                                           *)
(***************************************************************************)
EXTENDS Naturals, Sequences, FiniteSets

CONSTANTS
  Positions,     \* Pattern positions that run turns, Root among them
  Root,          \* the orchestrator position of the root node
  MaxDecisions,  \* bound on the Decisions of the Run
  Asks,          \* the kinds of Decision the turns of a position open
  OnlyResolved,  \* the positions whose runner continues on a resolved Decision only
  MaxTurns,      \* bound on the turns of each position
  MaxAttempts,   \* Attempts of an Invocation at each position (allocation)
  MaxCrashes,    \* bound on the deaths of the process
  MaxRevisions   \* bound on the revisions of the waived Requirement

Kinds == {"choice", "default", "waiver", "approval"}

ASSUME DecisionAssumption ==
  /\ Root \in Positions
  /\ OnlyResolved \subseteq Positions \ {Root}
  /\ Asks \in [Positions -> SUBSET Kinds]
  /\ {MaxTurns, MaxAttempts} \subseteq [Positions -> Nat \ {0}]
  /\ {MaxDecisions, MaxCrashes, MaxRevisions} \subseteq Nat

VARIABLES
  run,          \* the Run's status, as far as Decisions look at it
  turns,        \* the Invocations of each position, in order
  decisions,    \* the Decision rows
  used,         \* the turn and Attempt that claimed an approval (approved_tool_call_uses)
  performed,    \* how often the external call was made under each approval
  queue,        \* the undelivered inputs of the root (orchestrator_inputs)
  requirement,  \* the Requirement's current revision and whether it is waived
  failed,       \* the positions whose node failed when their next turn was refused
  crashes

vars == <<run, turns, decisions, used, performed, queue, requirement, failed, crashes>>

-----------------------------------------------------------------------------
Nobody == <<>>
NoDecision == 0
DecisionIds == 1..MaxDecisions

\* Kinds "choice" and "default" are an operator_choice under the policy operator_required or
\* use_default_after_deadline; `from` is the requesting turn, Nobody for the operator's own.
Absent ==
  [kind |-> "choice", status |-> "absent", by |-> "nobody", answer |-> "none",
   from |-> Nobody, heir |-> NoDecision, pinned |-> 0]

\* asked: the accepted request_decision of the turn; on: the Decision it ended blocked on;
\* wants: its provider was answered approval_required; held: the claim it may execute under.
NewTurn(told) ==
  [status |-> "running", live |-> FALSE, tries |-> 0, asked |-> NoDecision, on |-> NoDecision,
   wants |-> FALSE, held |-> NoDecision, told |-> told]

Init ==
  /\ run = "running"
  /\ turns = [p \in Positions |-> <<NewTurn({})>>]
  /\ decisions = [d \in DecisionIds |-> Absent]
  /\ used = [d \in DecisionIds |-> Nobody]
  /\ performed = [d \in DecisionIds |-> 0]
  /\ queue = {} /\ failed = {} /\ crashes = 0
  /\ requirement = [revision |-> 0, waived |-> FALSE]

Last(p) == Len(turns[p])
Turn(p) == turns[p][Last(p)]

\* Ids are in creation order.
Fresh(d) ==
  /\ decisions[d].status = "absent"
  /\ \A e \in 1..(d - 1) : decisions[e].status # "absent"

\* awaitsContinuation, which looks at no position; an approval is never superseded.
Awaits(p, n) ==
  LET t == turns[p][n]
  IN  /\ t.status = "blocked"
      /\ decisions[t.on].status # "open"
      /\ n = Last(p)

\* The grants of a turn's manifest (approvedCalls).
Grants(t) == {d \in t.told : decisions[d].kind = "approval" /\ decisions[d].answer = "yes"}

Requested(kind, p) ==
  [Absent EXCEPT !.kind = kind, !.status = "open", !.from = <<p, Last(p)>>,
                 !.pinned = requirement.revision]

Resolved(d, who, answer) ==
  [decisions[d] EXCEPT !.status = "resolved", !.by = who, !.answer = answer]

Becomes(p, t) == turns' = [turns EXCEPT ![p][Last(p)] = t]

-----------------------------------------------------------------------------
\* prepareNextAttempt and the provider call: the turn has an Attempt executing.
Execute(p) ==
  /\ run = "running"
  /\ Turn(p).status = "running" /\ ~Turn(p).live
  /\ Turn(p).tries < MaxAttempts[p] /\ Turn(p).asked = NoDecision
  /\ Becomes(p, [Turn(p) EXCEPT !.live = TRUE, !.tries = @ + 1])
  /\ UNCHANGED <<run, decisions, used, performed, queue, requirement, failed, crashes>>

\* request_decision: one accepted request ends the logical turn, so a second one is
\* refused.  Only the root asks for a waiver, of a Requirement that can be waived and has
\* none open.
Request(p, d, kind) ==
  /\ run = "running"
  /\ Turn(p).live /\ Turn(p).asked = NoDecision
  /\ Fresh(d) /\ Last(p) < MaxTurns[p]
  /\ kind \in Asks[p] \ {"approval"}
  /\ kind = "waiver" =>
       /\ p = Root /\ ~requirement.waived
       /\ \A e \in DecisionIds : decisions[e].kind = "waiver" => decisions[e].status # "open"
  /\ decisions' = [decisions EXCEPT ![d] = Requested(kind, p)]
  /\ Becomes(p, [Turn(p) EXCEPT !.asked = d])
  /\ UNCHANGED <<run, used, performed, queue, requirement, failed, crashes>>

\* Mutant: a claim made before is not looked at.
ClaimableAgain(p, d) ==
  decisions[d].status = "resolved" /\ decisions[d].from = <<p, Last(p) - 1>>

\* ApprovedToolCallUseStore.claim: the approval of the predecessor's call, unused.
Claimable(p, d) ==
  /\ decisions[d].status = "resolved"
  /\ decisions[d].from = <<p, Last(p) - 1>>
  /\ used[d] = Nobody

\* ToolCallAuthorizer.authorize: a matching grant is claimed in its own transaction, and
\* without one the adapter learns approval_required.
Authorize(p) ==
  /\ "approval" \in Asks[p]
  /\ run = "running"
  /\ Turn(p).live /\ ~Turn(p).wants /\ Turn(p).held = NoDecision
  /\ \/ \E d \in Grants(Turn(p)) :
          /\ Claimable(p, d)
          /\ used' = [used EXCEPT ![d] = <<p, Last(p), Turn(p).tries>>]
          /\ Becomes(p, [Turn(p) EXCEPT !.held = d])
     \/ /\ \A d \in Grants(Turn(p)) : ~Claimable(p, d)
        /\ Becomes(p, [Turn(p) EXCEPT !.wants = TRUE])
        /\ UNCHANGED used
  /\ UNCHANGED <<run, decisions, performed, queue, requirement, failed, crashes>>

\* The adapter executes the call it was authorized to execute.
Perform(p) ==
  /\ Turn(p).live /\ Turn(p).held # NoDecision
  /\ performed' = [performed EXCEPT ![Turn(p).held] = @ + 1]
  /\ Becomes(p, [Turn(p) EXCEPT !.held = NoDecision])
  /\ UNCHANGED <<run, decisions, used, queue, requirement, failed, crashes>>

-----------------------------------------------------------------------------
\* What a provider reports: a call that needs an approval, a result, or an error.
Ended(t) == [t EXCEPT !.live = FALSE, !.wants = FALSE, !.held = NoDecision]

\* finalize of a turn that asked, or the refusal of its next Attempt once recovery ended the
\* one that asked: blocked on its Decision whatever the provider reported.  The row of an
\* Invocation ends blocked only on an open Decision, so a turn whose Decision ended before it
\* cannot be settled.
EndBlocked(p) ==
  /\ Turn(p).status = "running" /\ Turn(p).asked # NoDecision
  /\ Turn(p).live \/ run = "running"
  /\ decisions[Turn(p).asked].status = "open"
  /\ Becomes(p, [Ended(Turn(p)) EXCEPT !.status = "blocked", !.on = Turn(p).asked])
  /\ UNCHANGED <<run, decisions, used, performed, queue, requirement, failed, crashes>>

\* finalize of an intercepted call (recordApproval).
Intercept(p, d) ==
  /\ run = "running"
  /\ Turn(p).live /\ Turn(p).wants /\ Turn(p).asked = NoDecision
  /\ Fresh(d) /\ Last(p) < MaxTurns[p]
  /\ decisions' = [decisions EXCEPT ![d] = Requested("approval", p)]
  /\ Becomes(p, [Ended(Turn(p)) EXCEPT !.status = "blocked", !.on = d])
  /\ UNCHANGED <<run, used, performed, queue, requirement, failed, crashes>>

Succeed(p) ==
  /\ run = "running"
  /\ Turn(p).live /\ ~Turn(p).wants /\ Turn(p).asked = NoDecision
  /\ Becomes(p, [Ended(Turn(p)) EXCEPT !.status = "succeeded"])
  /\ UNCHANGED <<run, decisions, used, performed, queue, requirement, failed, crashes>>

\* A failed Attempt is retried within the allocation; the root's failure fails the Run.
Fail(p) ==
  /\ run = "running"
  /\ Turn(p).live /\ Turn(p).asked = NoDecision
  /\ LET last == Turn(p).tries = MaxAttempts[p]
     IN  /\ Becomes(p, [Ended(Turn(p)) EXCEPT !.status = IF last THEN "failed" ELSE "running"])
         /\ run' = IF last /\ p = Root THEN "failed" ELSE run
  /\ UNCHANGED <<decisions, used, performed, queue, requirement, failed, crashes>>

\* The process dies: recovery settles each executing Attempt as interrupted, to be retried
\* within the allocation unless the turn already asked.
Crash ==
  /\ crashes < MaxCrashes /\ crashes' = crashes + 1
  /\ LET After(p, t) ==
           IF t.live /\ t.tries = MaxAttempts[p] /\ t.asked = NoDecision
             THEN [Ended(t) EXCEPT !.status = "failed"] ELSE Ended(t)
     IN  turns' = [p \in Positions |-> [n \in 1..Last(p) |-> After(p, turns[p][n])]]
  /\ run' = IF run = "running" /\ turns'[Root][Last(Root)].status = "failed"
              THEN "failed" ELSE run
  /\ UNCHANGED <<decisions, used, performed, queue, requirement, failed>>

-----------------------------------------------------------------------------
\* The operator accepts a Requirement revision: an open waiver pinned to the old one is stale.
Revise ==
  /\ run = "running" /\ requirement.revision < MaxRevisions
  /\ requirement' = [requirement EXCEPT !.revision = @ + 1]
  /\ UNCHANGED <<run, turns, decisions, used, performed, queue, failed, crashes>>

\* DecisionRequestService.resolve, and DecisionStore.resolve for an approval.  A stale waiver
\* is superseded, whatever the answer; a waive waives in the same transaction.
Resolve(d, answer) ==
  /\ run = "running"
  /\ decisions[d].status = "open"
  /\ IF decisions[d].kind = "waiver" /\ decisions[d].pinned # requirement.revision
       THEN /\ decisions' = [decisions EXCEPT ![d].status = "superseded"]
            /\ UNCHANGED requirement
       ELSE /\ decisions' = [decisions EXCEPT ![d] = Resolved(d, "operator", answer)]
            /\ requirement' = [requirement EXCEPT
                 !.waived = @ \/ (decisions[d].kind = "waiver" /\ answer = "yes")]
  /\ UNCHANGED <<run, turns, used, performed, queue, failed, crashes>>

\* Mutant: the choice is queued although a continuation that carries it is pending.
SupersedeAndQueue(d, s) ==
  /\ run = "running"
  /\ decisions[d].kind = "default" /\ decisions[d].status = "resolved"
  /\ decisions[d].by = "policy"
  /\ Fresh(s)
  /\ decisions' = [decisions EXCEPT
       ![d].status = "superseded", ![d].heir = s,
       ![s] = [Absent EXCEPT !.status = "resolved", !.by = "operator", !.answer = "no"]]
  /\ queue' = queue \cup {s}
  /\ UNCHANGED <<run, turns, used, performed, requirement, failed, crashes>>

\* DecisionRequestService.supersede: the operator chooses otherwise than the policy did.  The
\* pending continuation carries the choice; when work already proceeded it is queued.
Supersede(d, s) ==
  /\ run = "running"
  /\ decisions[d].kind = "default" /\ decisions[d].status = "resolved"
  /\ decisions[d].by = "policy"
  /\ Fresh(s)
  /\ decisions' = [decisions EXCEPT
       ![d].status = "superseded", ![d].heir = s,
       ![s] = [Absent EXCEPT !.status = "resolved", !.by = "operator", !.answer = "no"]]
  /\ LET p == decisions[d].from[1]
         n == decisions[d].from[2]
     IN  queue' = IF Awaits(p, n) /\ turns[p][n].on = d THEN queue ELSE queue \cup {s}
  /\ UNCHANGED <<run, turns, used, performed, requirement, failed, crashes>>

Cancel ==
  /\ run = "running" /\ run' = "cancelled"
  /\ UNCHANGED <<turns, decisions, used, performed, queue, requirement, failed, crashes>>

-----------------------------------------------------------------------------
(***************************************************************************)
(* The scheduler's actions.  A pass projects the rows and performs the     *)
(* first action in the same turn of the event loop; each action reads the  *)
(* rows again inside its transaction.                                      *)
(***************************************************************************)
\* resolve_decision_default: a Decision is due when its deadline or its condition says so.
ResolveDefault(d) ==
  /\ run = "running"
  /\ decisions[d].kind = "default" /\ decisions[d].status = "open"
  /\ decisions' = [decisions EXCEPT ![d] = Resolved(d, "policy", "yes")]
  /\ UNCHANGED <<run, turns, used, performed, queue, requirement, failed, crashes>>

\* The resolution inputs of a successor: the Decision and, when it was superseded, its heir.
Resolution(d) == {d} \cup ({decisions[d].heir} \ {NoDecision})

\* The turn's Decision ended as the position's runner asks: the root's whether resolved or
\* superseded, a coordinator_worker's only when resolved.
Continuable(p) ==
  /\ Awaits(p, Last(p)) /\ p \notin failed
  /\ p \in OnlyResolved => decisions[Turn(p).on].status = "resolved"

\* continue_decision_request, and the settlement or resumption of an approved turn: the
\* position gets the one successor of its blocked turn, told the resolution and nothing else
\* that resolved an earlier Decision.
Continue(p) ==
  /\ run = "running" /\ Continuable(p)
  /\ turns' = [turns EXCEPT ![p] = Append(@, NewTurn(Resolution(Turn(p).on)))]
  /\ UNCHANGED <<run, decisions, used, performed, queue, requirement, failed, crashes>>

\* prepareSuccessor cannot fund the successor: under `fail` the node fails, and with the root
\* the Run; under `wait` nothing is written here and the turn goes on waiting.
Refuse(p) ==
  /\ run = "running" /\ Continuable(p)
  /\ failed' = failed \cup {p}
  /\ run' = IF p = Root THEN "failed" ELSE run
  /\ UNCHANGED <<turns, decisions, used, performed, queue, requirement, crashes>>

\* prepare_root_turn: an idle root gets one turn that delivers every queued input.
PrepareTurn ==
  /\ run = "running"
  /\ Turn(Root).status = "succeeded" /\ queue # {}
  /\ Last(Root) < MaxTurns[Root]
  /\ turns' = [turns EXCEPT ![Root] = Append(@, NewTurn(queue))]
  /\ queue' = {}
  /\ UNCHANGED <<run, decisions, used, performed, requirement, failed, crashes>>

-----------------------------------------------------------------------------
Next ==
  \/ \E p \in Positions :
       \/ Execute(p) \/ Authorize(p) \/ Perform(p) \/ EndBlocked(p) \/ Succeed(p) \/ Fail(p)
       \/ \E d \in DecisionIds :
            Intercept(p, d) \/ \E kind \in Kinds : Request(p, d, kind)
  \/ \E d \in DecisionIds :
       \/ \E answer \in {"yes", "no"} : Resolve(d, answer)
       \/ \E s \in DecisionIds : Supersede(d, s)
  \/ Revise \/ Cancel \/ Crash
  \/ PrepareTurn
  \/ \E p \in Positions : Continue(p) \/ Refuse(p)
  \/ \E d \in DecisionIds : ResolveDefault(d)

Spec == Init /\ [][Next]_vars
-----------------------------------------------------------------------------
\* An approval authorizes one execution: the guarded call is never made twice under one
\* approval, and never but under a committed claim, made by the turn that continues the one
\* the call was intercepted in, of an approval the operator gave (approved-tool-call-uses.ts).
SpentOnce ==
  \A d \in DecisionIds :
    /\ performed[d] <= 1
    /\ performed[d] = 1 =>
         /\ decisions[d].kind = "approval" /\ decisions[d].answer = "yes"
         /\ <<used[d][1], used[d][2] - 1>> = decisions[d].from

\* The resolution of a Decision is told to one turn at most, and a question's to the turn that
\* continues the one blocked on it, which always is the next of the position and is never told
\* before the Decision ended (pendingContinuations, awaitsContinuation); a superseding choice is with
\* the continuation that waits, in the queue, or with the one turn that was told it, never twice
\* and never lost (DecisionRequestService.supersede's followUp).
Sites == UNION {{<<p, n>> : n \in 1..Last(p)} : p \in Positions}
Hearers(d) == {x \in Sites : d \in turns[x[1]][x[2]].told}
Continuation(p, n, d) ==
  n > 1 /\ turns[p][n - 1].status = "blocked" /\ turns[p][n - 1].on = d
HeardOnce ==
  \A d \in DecisionIds :
    /\ Cardinality(Hearers(d)) <= 1
    /\ Hearers(d) # {} => decisions[d].status \in {"resolved", "superseded"}
    /\ decisions[d].from # Nobody =>
         \A x \in Sites : x \in Hearers(d) <=> Continuation(x[1], x[2], d)
    /\ decisions[d].heir # NoDecision =>
         LET s == decisions[d].heir
             waiting == {x \in Sites : Awaits(x[1], x[2]) /\ turns[x[1]][x[2]].on = d}
         IN  Cardinality(Hearers(s)) + Cardinality(waiting) + (IF s \in queue THEN 1 ELSE 0) = 1

=============================================================================
