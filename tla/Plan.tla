-------------------------------- MODULE Plan --------------------------------
(* One Run's Execution Plan: the Orchestrator revises it while the         *)
(* scheduler's pass readies, starts, settles and joins its nodes, hands    *)
(* results along its edges and reports ended nodes to the Orchestrator.    *)
(*                                                                         *)
(* The pass performs one action at a time on rows it has just read, except *)
(* that settling a completed Invocation integrates its Changeset outside   *)
(* every transaction: `settling` is that gap, in which the Orchestrator's  *)
(* turn may revise the plan. Nodes of the patterns single and chain (and   *)
(* the joins the compiler emits) are executed position by position; the    *)
(* root Orchestrator is `root`. Not modelled here: budgets and Gates,      *)
(* Changeset conflicts, pauses and the Run's own status.                   *)
EXTENDS PlanGraph, Sequences

CONSTANTS
  Nodes,         \* bound: ids of nodes, pairs of a source path and a number
  Drafts,        \* the compiled drafts the Orchestrator may propose, in this order
  Askers,        \* source paths of the nodes that may ask for a Decision
  MaxActive,     \* the Run's maxConcurrency
  MaxInputs      \* bound: inputs the operator sends

\* The compiler rejects a graph with a cycle, and an edge joins nodes of its draft.
ASSUME DraftsAreAcyclic ==
  \A i \in DOMAIN Drafts :
    LET paths == DOMAIN Drafts[i].defs
    IN /\ IsFiniteSet(paths)
       /\ \E rank \in [paths -> 1..Cardinality(paths)] :
            \A e \in Drafts[i].edges :
              e.from \in paths /\ e.to \in paths /\ rank[e.from] < rank[e.to]

\* A node's id is its source path and which of the nodes made there it is.
Path(n) == n[1]

VARIABLES
  plan,          \* the accepted revision: draft number, members, edges
  row,           \* plan node rows, with the latest Invocation of each
  pending,       \* Handoffs created and not delivered, by the edge that keys them
  delivered,     \* Handoffs given to their target's first Invocation
  settling,      \* the settlement the pass is awaiting, or Nothing
  root,          \* the root Orchestrator: "active" while a turn of it executes
  queued,        \* an operator input waits for a root turn
  sent,          \* inputs sent so far
  reported       \* nodes whose result a root turn has received

vars == <<plan, row, pending, delivered, settling, root, queued, sent, reported>>

Nothing == [node |-> <<>>, revision |-> 0]
NoDef == [kind |-> "none", steps |-> 0, tolerant |-> FALSE, any |-> FALSE, choices |-> {}]
Unmade == [def |-> NoDef, status |-> "unmade", step |-> 0, inv |-> "none",
           asked |-> FALSE, choice |-> "none"]
NewRow(def) == [Unmade EXCEPT !.def = def, !.status = "pending"]

Made(n) == row[n].status # "unmade"
InvocationEnded(n) == row[n].inv \in {"completed", "failed", "blocked", "answered"}
\* The Invocations of the Run that have not ended, the root's turn included.
Active == Cardinality({n \in Nodes : row[n].inv = "active"}) + (IF root = "active" THEN 1 ELSE 0)

\* A join never runs; a pattern node is started by its runner.
IsJoin(n) == row[n].def.kind = "join"
Member(n) == n \in plan.members
Removed(n) == Made(n) /\ ~Member(n)

-----------------------------------------------------------------------------
(* Revisions *)

\* A new node at a path takes an id no node has had.
Fresh(p) == CHOOSE n \in Nodes : Path(n) = p /\ ~Made(n)

\* Members matched to the draft by path and whole definition: equal ones are reused.
Reused(d) == {n \in plan.members : Path(n) \in DOMAIN d.defs /\ d.defs[Path(n)] = row[n].def}
Changed(d) == {n \in plan.members : Path(n) \in DOMAIN d.defs} \ Reused(d)
Gone(d) == {n \in plan.members : Path(n) \notin DOMAIN d.defs}
\* (mutant) A removed node is cancelled even when it has started.
CancelledAnyway(d) == {n \in Changed(d) \cup Gone(d) : row[n].status \notin Ended}
Cancelled(d) == {n \in Changed(d) \cup Gone(d) : row[n].status \in Unstarted}
NewPaths(d) == DOMAIN d.defs \ {Path(n) : n \in Reused(d)}
IdsLeft(d) == \A p \in NewPaths(d) : \E n \in Nodes : Path(n) = p /\ ~Made(n)
IdAt(d, p) == IF p \in NewPaths(d) THEN Fresh(p) ELSE CHOOSE n \in Reused(d) : Path(n) = p

\* A draft that would change a started node is rejected; any other is applied in one transaction.
Revise(i) ==
  LET d == Drafts[i]
  IN /\ root = "active"
     /\ i > plan.draft
     /\ \A n \in Changed(d) : row[n].status \in Unstarted
     /\ IdsLeft(d)
     /\ plan' = [draft |-> i,
                 members |-> {IdAt(d, p) : p \in DOMAIN d.defs},
                 edges |-> {[from |-> IdAt(d, e.from), to |-> IdAt(d, e.to),
                             type |-> e.type, on |-> e.on] : e \in d.edges}]
     /\ row' = [n \in Nodes |->
                  IF n \in {Fresh(p) : p \in NewPaths(d)} THEN NewRow(d.defs[Path(n)])
                  ELSE IF n \in Cancelled(d) THEN [row[n] EXCEPT !.status = "cancelled"]
                  ELSE row[n]]
     /\ UNCHANGED <<pending, delivered, settling, root, queued, sent, reported>>

-----------------------------------------------------------------------------
(* What the pass would do next *)

HandoffsFrom(rows, n) == {e \in Outgoing(plan.edges, n) : Carries(rows, e)} \ delivered
HandoffsInto(rows, n) == {e \in Incoming(plan.edges, n) : Carries(rows, e)} \ delivered

Startable(n) == Member(n) /\ row[n].status = "ready" /\ ~IsJoin(n)
Limited == Active >= MaxActive /\ \E n \in plan.members : Startable(n)

\* An action is projected for a current member.
MemberActs(n) ==
  \/ BecomesReady(row, plan.edges, n)
  \/ BecomesSkipped(row, plan.edges, n)
  \/ row[n].status = "ready" /\ (IsJoin(n) \/ Active < MaxActive)
  \/ row[n].status = "running" /\ InvocationEnded(n)
  \/ row[n].status = "waiting" /\ row[n].inv = "answered"

\* A node that left the membership settles its own work whenever its latest Invocation ended.
RemovedActs(n) == row[n].status = "running" /\ InvocationEnded(n)

NoAction == /\ \A n \in plan.members : ~MemberActs(n)
            /\ \A n \in Nodes : Removed(n) => ~RemovedActs(n)

\* Current members that ended and that no root turn has been told of.
NodeResults == {n \in plan.members : row[n].status \in Ended /\ n \notin reported}

-----------------------------------------------------------------------------
(* The pass *)

Free == settling = Nothing
Set(n, status) == [row EXCEPT ![n].status = status]

\* Readiness is decided again inside the transaction that applies it.
ReadyNode(n) ==
  /\ Free /\ Member(n) /\ BecomesReady(row, plan.edges, n)
  /\ row' = Set(n, "ready")
  /\ UNCHANGED <<plan, pending, delivered, settling, root, queued, sent, reported>>

SkipNode(n) ==
  /\ Free /\ Member(n) /\ BecomesSkipped(row, plan.edges, n)
  /\ row' = Set(n, "skipped")
  /\ UNCHANGED <<plan, pending, delivered, settling, root, queued, sent, reported>>

\* A join executes from ready over sources that have all ended (the code throws otherwise).
SettleJoin(n) ==
  LET verdict == JoinVerdict(row, plan.edges, n)
      after == [row EXCEPT ![n].status = verdict,
                           ![n].choice = IF verdict = "succeeded" THEN "done" ELSE @]
  IN /\ Free /\ Member(n) /\ row[n].status = "ready" /\ IsJoin(n)
     /\ \A e \in Incoming(plan.edges, n) : row[e.from].status \in Ended
     /\ row' = after
     /\ pending' = IF verdict = "succeeded" THEN pending \cup HandoffsFrom(after, n) ELSE pending
     /\ UNCHANGED <<plan, delivered, settling, root, queued, sent, reported>>

\* (mutant) The start relies on the Handoffs made when the sources ended.
GivenPending(n) == {e \in pending : e.to = n}

\* What a starting node's first Invocation is given: the Handoffs the current revision's edges
\* into it carry, ensured now, and every other one still pending for it.
Given(n) == HandoffsInto(row, n) \cup {e \in pending : e.to = n}

StartNode(n) ==
  /\ Free /\ Startable(n) /\ Active < MaxActive
  /\ row' = [row EXCEPT ![n].status = "running", ![n].step = 1, ![n].inv = "active"]
  /\ pending' = pending \ Given(n)
  /\ delivered' = delivered \cup Given(n)
  /\ UNCHANGED <<plan, settling, root, queued, sent, reported>>

\* A failed or blocked latest Invocation is settled in one transaction.
SettleUnfinished(n) ==
  /\ row[n].status = "running"
  /\ row' = CASE row[n].inv = "failed" -> Set(n, "failed")
              [] row[n].inv \in {"blocked", "answered"} -> Set(n, "waiting")
  /\ UNCHANGED <<plan, pending, delivered, settling, root, queued, sent, reported>>

SettleNode(n) ==
  /\ Free /\ Member(n) /\ row[n].inv \in {"failed", "blocked", "answered"}
  /\ SettleUnfinished(n)

\* A completed one has its Changeset integrated first, outside every transaction.
Integrate(n) ==
  /\ Free /\ Member(n) /\ row[n].status = "running" /\ row[n].inv = "completed"
  /\ settling' = [node |-> n, revision |-> plan.draft]
  /\ UNCHANGED <<plan, row, pending, delivered, root, queued, sent, reported>>

\* The settlement applies to the revision it was projected against, or not at all.
StillCurrent(n) == Member(n) /\ plan.draft = settling.revision

Advance(n) == [row EXCEPT ![n].step = @ + 1, ![n].inv = "active"]
Succeed(n, c) == [row EXCEPT ![n].status = "succeeded", ![n].choice = c]

\* Then the next position is prepared, or the node succeeds and hands off.
Complete(n) ==
  /\ settling.node = n /\ settling.revision > 0
  /\ settling' = Nothing
  /\ IF ~StillCurrent(n) THEN UNCHANGED <<row, pending>>
     ELSE IF row[n].step < row[n].def.steps THEN row' = Advance(n) /\ UNCHANGED pending
     ELSE \E c \in row[n].def.choices :
            /\ row' = Succeed(n, c)
            /\ pending' = pending \cup HandoffsFrom(Succeed(n, c), n)
  /\ UNCHANGED <<plan, delivered, root, queued, sent, reported>>

\* A waiting node whose Decision ended continues at the same position.
Resume(n) ==
  /\ Free /\ Member(n) /\ row[n].status = "waiting" /\ row[n].inv = "answered"
  /\ row' = [row EXCEPT ![n].status = "running", ![n].inv = "active"]
  /\ UNCHANGED <<plan, pending, delivered, settling, root, queued, sent, reported>>

\* Removed nodes come last among the projected actions. Their own work is settled, and no
\* position is prepared and nothing handed off for them.
RemovedTurn(n) ==
  Free /\ Removed(n) /\ RemovedActs(n) /\ \A m \in plan.members : ~MemberActs(m)

SettleRemoved(n) ==
  /\ RemovedTurn(n) /\ row[n].inv \in {"failed", "blocked", "answered"}
  /\ SettleUnfinished(n)

IntegrateRemoved(n) ==
  /\ RemovedTurn(n) /\ row[n].inv = "completed"
  /\ settling' = [node |-> n, revision |-> -1]
  /\ UNCHANGED <<plan, row, pending, delivered, root, queued, sent, reported>>

CompleteRemoved(n) ==
  /\ settling = [node |-> n, revision |-> -1]
  /\ settling' = Nothing
  /\ IF row[n].step < row[n].def.steps THEN UNCHANGED row
     ELSE \E c \in row[n].def.choices : row' = Succeed(n, c)
  /\ UNCHANGED <<plan, pending, delivered, root, queued, sent, reported>>

\* An idle root takes an operator's input at once, and ended nodes' results alone only when
\* nothing else can act and nothing is executing.
PrepareTurn ==
  /\ Free /\ root = "idle"
  /\ \/ queued
     \/ NodeResults # {} /\ NoAction /\ Active = 0 /\ ~Limited
  /\ root' = "active"
  /\ queued' = FALSE
  /\ reported' = reported \cup NodeResults
  /\ UNCHANGED <<plan, row, pending, delivered, settling, sent>>

-----------------------------------------------------------------------------
(* The turns, the operator *)

\* An Invocation ends; a blocked one asks for a Decision (once a node, to bound the model).
InvocationEnds(n) ==
  /\ row[n].inv = "active"
  /\ \/ \E end \in {"completed", "failed"} : row' = [row EXCEPT ![n].inv = end]
     \/ Path(n) \in Askers /\ ~row[n].asked /\ row' = [row EXCEPT ![n].inv = "blocked", ![n].asked = TRUE]
  /\ UNCHANGED <<plan, pending, delivered, settling, root, queued, sent, reported>>

DecisionEnds(n) ==
  /\ row[n].inv = "blocked"
  /\ row' = [row EXCEPT ![n].inv = "answered"]
  /\ UNCHANGED <<plan, pending, delivered, settling, root, queued, sent, reported>>

RootEnds ==
  /\ root = "active"
  /\ root' = "idle"
  /\ UNCHANGED <<plan, row, pending, delivered, settling, queued, sent, reported>>

OperatorInput ==
  /\ sent < MaxInputs
  /\ sent' = sent + 1
  /\ queued' = TRUE
  /\ UNCHANGED <<plan, row, pending, delivered, settling, root, reported>>

-----------------------------------------------------------------------------
Init ==
  /\ plan = [draft |-> 0, members |-> {}, edges |-> {}]
  /\ row = [n \in Nodes |-> Unmade]
  /\ pending = {} /\ delivered = {}
  /\ settling = Nothing
  /\ root = "active"
  /\ queued = FALSE /\ sent = 0
  /\ reported = {}

Pass ==
  \/ \E n \in Nodes : \/ ReadyNode(n) \/ SkipNode(n) \/ SettleJoin(n) \/ StartNode(n)
                       \/ SettleNode(n) \/ Integrate(n) \/ Complete(n) \/ Resume(n)
                       \/ SettleRemoved(n) \/ IntegrateRemoved(n) \/ CompleteRemoved(n)
  \/ PrepareTurn

Next ==
  \/ \E i \in DOMAIN Drafts : Revise(i)
  \/ Pass
  \/ \E n \in Nodes : InvocationEnds(n) \/ DecisionEnds(n)
  \/ RootEnds
  \/ OperatorInput

Spec == Init /\ [][Next]_vars

\* The host keeps passing over a Run with work, and every Attempt ends (its deadline sees to it).
\* Nothing is assumed of the operator, who answers Decisions and sends inputs.
FairSpec ==
  /\ Spec
  /\ WF_vars(Pass)
  /\ \A n \in Nodes : WF_vars(InvocationEnds(n))
  /\ WF_vars(RootEnds)

-----------------------------------------------------------------------------
(* Properties *)

\* Work belongs to a node that is running it: an executing Invocation's node is running, and a
\* node a revision cancelled never had one.
WorkIsOwned ==
  \A n \in Nodes :
    /\ row[n].inv = "active" => row[n].status = "running"
    /\ row[n].status \in {"pending", "ready", "cancelled", "skipped"} => row[n].inv = "none"

\* A node's first Invocation is given every Handoff the current revision's edges into it carry,
\* whichever of the source's end and the revision that added the edge came first.
EdgesDeliver ==
  [][\A n \in Nodes : row[n].status = "ready" /\ row'[n].status = "running" =>
        \A e \in Incoming(plan.edges, n) : Carries(row, e) => e \in delivered']_vars

\* Every member's work ends and the Orchestrator hears of it, unless the node leaves the plan or
\* the Run waits for an answer (pendingNodeResults); a node removed between two positions of its
\* chain keeps every result from the Orchestrator, and is the exception.
HeldUp == \E m \in Nodes : Removed(m) /\ row[m].inv = "completed" /\ row[m].step < row[m].def.steps
EndsAreReported ==
  \A n \in Nodes :
    Member(n) ~> \/ n \in reported \/ ~Member(n)
                 \/ HeldUp \/ \E m \in Nodes : row[m].inv = "blocked"

=============================================================================
