--------------------------- MODULE SchedulingProofs ---------------------------
(***************************************************************************)
(* Who owns the work of a Plan, for any Nodes, any drafts in any order and *)
(* any capacity.  That executing Invocations belong to running nodes needs *)
(* that the settlement the pass awaits outside every transaction still     *)
(* finds its node running when it comes back, whatever a revision did in   *)
(* the meantime: a started node is never cancelled and its id never reused.*)
(*                                                                         *)
(* And who gets a pass, for any Runs, limits and capacity: what the host   *)
(* keeps of its marks, passes and timers until stop() resolved.  Draining  *)
(* the queue and telling the Runs of a released lease are folds; what they *)
(* keep is proved along the prefixes of what they fold.                    *)
(*                                                                         *)
(* Of both also what keeps them going, the safety halves of their liveness *)
(* properties: that no Run with an action is left without a wake-up, and   *)
(* that a plan nobody works on has an action, or has ended.                *)
(***************************************************************************)
EXTENDS Plan, RunHostProperties, FiniteSetTheorems, WellFoundedInduction, TLAPS

Definitions ==
  {NoDef} \cup UNION {{Drafts[i].defs[p] : p \in DOMAIN Drafts[i].defs} : i \in DOMAIN Drafts}
NodeChoices == {"none", "done"} \cup UNION {def.choices : def \in Definitions}
Statuses == Ended \cup Unstarted \cup {"unmade", "running", "waiting"}
Rows ==
  [def : Definitions, status : Statuses, step : Nat,
   inv : {"none", "active", "completed", "failed", "blocked", "answered"},
   asked : BOOLEAN, choice : NodeChoices]

RowsOK == row \in [Nodes -> Rows]

\* The node of the settlement the pass awaits runs, and its Invocation has completed.
SettlesRunning ==
  settling # Nothing => /\ settling.node \in Nodes
                        /\ row[settling.node].status = "running"
                        /\ row[settling.node].inv = "completed"

OwnedInv == RowsOK /\ WorkIsOwned /\ SettlesRunning
OwnedRow(r) ==
  /\ r.inv = "active" => r.status = "running"
  /\ r.status \in {"pending", "ready", "cancelled", "skipped"} => r.inv = "none"

-----------------------------------------------------------------------------
\* The id of a new node is one no node has had.
LEMMA FreshIsUnmade ==
  ASSUME NEW d, IdsLeft(d), NEW p \in NewPaths(d)
  PROVE  Fresh(p) \in Nodes /\ Path(Fresh(p)) = p /\ ~Made(Fresh(p))
  BY DEF IdsLeft, Fresh

\* A step that writes one row, and begins or ends no settlement but with it.
LEMMA OneRow ==
  ASSUME OwnedInv, NEW n \in Nodes, NEW r \in Rows, row' = [row EXCEPT ![n] = r], OwnedRow(r),
         \/ settling' = Nothing
         \/ settling' = settling /\ (settling # Nothing => n # settling.node)
  PROVE  OwnedInv'
<1>1. \A m \in Nodes : row'[m] = IF m = n THEN r ELSE row[m]
  BY DEF OwnedInv, RowsOK
<1>2. RowsOK'
  BY DEF OwnedInv, RowsOK
<1>3. WorkIsOwned'
  BY <1>1 DEF OwnedInv, WorkIsOwned, OwnedRow
<1>4. SettlesRunning'
  BY <1>1 DEF OwnedInv, SettlesRunning
<1>5. QED
  BY <1>2, <1>3, <1>4 DEF OwnedInv

\* A revision makes new rows and cancels rows that have not started.
LEMMA ReviseKeeps ==
  ASSUME OwnedInv, NEW i \in DOMAIN Drafts, Revise(i)
  PROVE  OwnedInv'
<1> DEFINE d == Drafts[i]
           made == {Fresh(p) : p \in NewPaths(d)}
<1>1. /\ row' = [n \in Nodes |->
                   IF n \in made THEN NewRow(d.defs[Path(n)])
                   ELSE IF n \in Cancelled(d) THEN [row[n] EXCEPT !.status = "cancelled"]
                   ELSE row[n]]
      /\ settling' = settling /\ IdsLeft(d)
  BY DEF Revise
<1> HIDE DEF d
<1>2. ASSUME NEW n \in made
      PROVE  /\ n \in Nodes /\ row[n].status = "unmade" /\ NewRow(d.defs[Path(n)]) \in Rows
             /\ NewRow(d.defs[Path(n)]).status = "pending" /\ NewRow(d.defs[Path(n)]).inv = "none"
  <2>1. PICK p \in NewPaths(d) : n = Fresh(p)
    OBVIOUS
  <2>2. n \in Nodes /\ Path(n) = p /\ ~Made(n)
    BY <1>1, <2>1, FreshIsUnmade
  <2>3. d.defs[p] \in Definitions
    BY DEF NewPaths, Definitions, d
  <2>4. QED
    BY <2>2, <2>3 DEF Made, NewRow, Unmade, NoDef, Rows, Statuses, Unstarted, NodeChoices
<1>3. ASSUME NEW n \in Nodes \cap Cancelled(d)
      PROVE  /\ row[n].status \in {"pending", "ready"}
             /\ [row[n] EXCEPT !.status = "cancelled"] \in Rows
             /\ [row[n] EXCEPT !.status = "cancelled"].inv = row[n].inv
             /\ [row[n] EXCEPT !.status = "cancelled"].status = "cancelled"
  BY <1>3 DEF Cancelled, Unstarted, OwnedInv, RowsOK, Rows, Statuses, Ended
<1>4. RowsOK'
  BY <1>1, <1>2, <1>3 DEF OwnedInv, RowsOK
<1>5. WorkIsOwned'
  <2> SUFFICES ASSUME NEW n \in Nodes PROVE OwnedRow(row'[n])
    BY DEF WorkIsOwned, OwnedRow
  <2>1. OwnedRow(row[n])
    BY DEF OwnedInv, WorkIsOwned, OwnedRow
  <2>2. QED
    BY <1>1, <1>2, <1>3, <2>1 DEF OwnedRow
<1>6. SettlesRunning'
  BY <1>1, <1>2, <1>3 DEF OwnedInv, SettlesRunning
<1>7. QED
  BY <1>4, <1>5, <1>6 DEF OwnedInv

\* A verdict, and a choice of the definition, are values of a row.
LEMMA VerdictType ==
  ASSUME NEW n
  PROVE  JoinVerdict(row, plan.edges, n) \in {"skipped", "succeeded", "failed"}
  BY DEF JoinVerdict

\* One action of the pass on a node.
LEMMA NodeKeeps ==
  ASSUME OwnedInv, NEW n \in Nodes,
         \/ ReadyNode(n) \/ SkipNode(n) \/ SettleJoin(n) \/ StartNode(n)
         \/ SettleNode(n) \/ Integrate(n) \/ Complete(n) \/ Resume(n)
         \/ SettleRemoved(n) \/ IntegrateRemoved(n) \/ CompleteRemoved(n)
  PROVE  OwnedInv'
<1>1. row[n] \in Rows /\ OwnedRow(row[n]) /\ row \in [Nodes -> Rows]
  BY DEF OwnedInv, RowsOK, WorkIsOwned, OwnedRow
<1>2. ASSUME ReadyNode(n) \/ SkipNode(n)
      PROVE  OwnedInv'
  <2>1. PICK to \in {"ready", "skipped"} : row' = Set(n, to)
    BY <1>2 DEF ReadyNode, SkipNode
  <2>2. row[n].status = "pending" /\ settling = Nothing /\ settling' = settling
    BY <1>2 DEF ReadyNode, SkipNode, Free, BecomesReady, BecomesSkipped
  <2> DEFINE r == [row[n] EXCEPT !.status = to]
  <2>3. r \in Rows /\ OwnedRow(r) /\ row' = [row EXCEPT ![n] = r]
    BY <1>1, <2>1, <2>2 DEF Set, Rows, Statuses, Ended, Unstarted, OwnedRow
  <2>4. QED
    BY <2>2, <2>3, OneRow
<1>3. ASSUME SettleJoin(n)
      PROVE  OwnedInv'
  <2> DEFINE verdict == JoinVerdict(row, plan.edges, n)
             r == [row[n] EXCEPT !.status = verdict,
                                 !.choice = IF verdict = "succeeded" THEN "done" ELSE @]
  <2>1. row[n].status = "ready" /\ settling = Nothing /\ settling' = settling
    BY <1>3 DEF SettleJoin, Free
  <2>2. row' = [row EXCEPT ![n] = r]
    BY <1>1, <1>3 DEF SettleJoin
  <2>3. r \in Rows /\ OwnedRow(r)
    <3>1. verdict \in {"skipped", "succeeded", "failed"}
      BY VerdictType
    <3> HIDE DEF verdict
    <3>2. QED
      BY <1>1, <2>1, <3>1 DEF Rows, Statuses, Ended, NodeChoices, OwnedRow
  <2>4. QED
    BY <2>1, <2>2, <2>3, OneRow
<1>4. ASSUME StartNode(n)
      PROVE  OwnedInv'
  <2> DEFINE r == [row[n] EXCEPT !.status = "running", !.step = 1, !.inv = "active"]
  <2>1. /\ row' = [row EXCEPT ![n] = r] /\ settling = Nothing /\ settling' = settling
    BY <1>1, <1>4 DEF StartNode, Free
  <2>2. r \in Rows /\ OwnedRow(r)
    BY <1>1 DEF Rows, Statuses, OwnedRow
  <2>3. QED
    BY <2>1, <2>2, OneRow
<1>5. ASSUME SettleNode(n) \/ SettleRemoved(n)
      PROVE  OwnedInv'
  <2>1. /\ SettleUnfinished(n) /\ row[n].status = "running"
        /\ row[n].inv \in {"failed", "blocked", "answered"} /\ settling = Nothing
    BY <1>5 DEF SettleNode, SettleRemoved, RemovedTurn, Free, SettleUnfinished
  <2>2. PICK to \in {"failed", "waiting"} : row' = Set(n, to)
    BY <2>1 DEF SettleUnfinished
  <2> DEFINE r == [row[n] EXCEPT !.status = to]
  <2>3. r \in Rows /\ OwnedRow(r) /\ row' = [row EXCEPT ![n] = r]
    BY <1>1, <2>1, <2>2 DEF Set, Rows, Statuses, Ended, OwnedRow
  <2>4. settling' = settling
    BY <2>1 DEF SettleUnfinished
  <2>5. QED
    BY <2>1, <2>3, <2>4, OneRow
<1>6. ASSUME Integrate(n) \/ IntegrateRemoved(n)
      PROVE  OwnedInv'
  <2>1. row' = row /\ row[n].status = "running" /\ row[n].inv = "completed" /\ settling'.node = n
    BY <1>6 DEF Integrate, IntegrateRemoved, RemovedTurn, RemovedActs
  <2>2. QED
    BY <2>1 DEF OwnedInv, RowsOK, WorkIsOwned, SettlesRunning
<1>7. ASSUME Complete(n) \/ CompleteRemoved(n)
      PROVE  OwnedInv'
  <2>1. settling # Nothing /\ settling.node = n /\ settling' = Nothing
    BY <1>7 DEF Complete, CompleteRemoved, Nothing
  <2>2. row[n].status = "running" /\ row[n].inv = "completed"
    BY <2>1 DEF OwnedInv, SettlesRunning
  <2>3. CASE row' = row
    BY <2>1, <2>3 DEF OwnedInv, RowsOK, WorkIsOwned, SettlesRunning
  <2>4. CASE row' = Advance(n)
    <3> DEFINE r == [row[n] EXCEPT !.step = @ + 1, !.inv = "active"]
    <3>1. row' = [row EXCEPT ![n] = r] /\ r \in Rows /\ OwnedRow(r)
      BY <1>1, <2>2, <2>4 DEF Advance, Rows, OwnedRow
    <3>2. QED
      BY <2>1, <3>1, OneRow
  <2>5. ASSUME NEW c \in row[n].def.choices, row' = Succeed(n, c)
        PROVE  OwnedInv'
    <3> DEFINE r == [row[n] EXCEPT !.status = "succeeded", !.choice = c]
    <3>1. c \in NodeChoices
      BY <1>1 DEF Rows, NodeChoices
    <3>2. row' = [row EXCEPT ![n] = r] /\ r \in Rows /\ OwnedRow(r)
      BY <1>1, <2>2, <2>5, <3>1 DEF Succeed, Rows, Statuses, Ended, OwnedRow
    <3>3. QED
      BY <2>1, <3>2, OneRow
  <2>6. QED
    BY <1>7, <2>3, <2>4, <2>5 DEF Complete, CompleteRemoved
<1>8. ASSUME Resume(n)
      PROVE  OwnedInv'
  <2> DEFINE r == [row[n] EXCEPT !.status = "running", !.inv = "active"]
  <2>1. /\ row' = [row EXCEPT ![n] = r] /\ settling = Nothing /\ settling' = settling
    BY <1>1, <1>8 DEF Resume, Free
  <2>2. r \in Rows /\ OwnedRow(r)
    BY <1>1 DEF Rows, Statuses, OwnedRow
  <2>3. QED
    BY <2>1, <2>2, OneRow
<1>9. QED
  BY <1>2, <1>3, <1>4, <1>5, <1>6, <1>7, <1>8

\* The turns and the Decisions of a node.
LEMMA TurnKeeps ==
  ASSUME OwnedInv, NEW n \in Nodes, InvocationEnds(n) \/ DecisionEnds(n)
  PROVE  OwnedInv'
<1>1. row[n] \in Rows /\ OwnedRow(row[n]) /\ row \in [Nodes -> Rows]
  BY DEF OwnedInv, RowsOK, WorkIsOwned, OwnedRow
<1>2. row[n].inv \in {"active", "blocked"} /\ settling' = settling
  BY DEF InvocationEnds, DecisionEnds
<1>3. settling # Nothing => n # settling.node
  BY <1>2 DEF OwnedInv, SettlesRunning
<1>4. PICK end \in {"completed", "failed", "blocked", "answered"}, asked \in BOOLEAN :
        row' = [row EXCEPT ![n] = [row[n] EXCEPT !.inv = end, !.asked = asked]]
  <2>1. row[n].asked \in BOOLEAN /\ \A end : [row[n] EXCEPT !.inv = end, !.asked = row[n].asked]
                                            = [row[n] EXCEPT !.inv = end]
    BY <1>1 DEF Rows
  <2>2. QED
    BY <1>1, <2>1 DEF InvocationEnds, DecisionEnds
<1> DEFINE r == [row[n] EXCEPT !.inv = end, !.asked = asked]
<1>5. r \in Rows /\ OwnedRow(r)
  BY <1>1, <1>2 DEF Rows, OwnedRow
<1>6. QED
  BY <1>2, <1>3, <1>4, <1>5, OneRow

LEMMA OwnedStep == OwnedInv /\ [Next]_vars => OwnedInv'
<1> SUFFICES ASSUME OwnedInv, [Next]_vars PROVE OwnedInv'
  OBVIOUS
<1>1. CASE UNCHANGED <<row, settling>>
  BY <1>1 DEF OwnedInv, RowsOK, WorkIsOwned, SettlesRunning
<1>2. CASE PrepareTurn \/ RootEnds \/ OperatorInput \/ UNCHANGED vars
  BY <1>1, <1>2 DEF PrepareTurn, RootEnds, OperatorInput, vars
<1>3. QED
  BY <1>2, ReviseKeeps, NodeKeeps, TurnKeeps DEF Next, Pass

LEMMA OwnedHolds == Spec => []OwnedInv
<1>1. Init => OwnedInv
  BY DEF Init, OwnedInv, RowsOK, Rows, Unmade, Definitions, Statuses, NodeChoices, WorkIsOwned,
         SettlesRunning
<1>2. QED
  BY <1>1, OwnedStep, PTL DEF Spec

-----------------------------------------------------------------------------
\* An executing Invocation belongs to a running node, and a node a revision cancelled, or a
\* condition skipped, never had one, for any drafts proposed while the pass awaits an
\* integration (PlanRevisionService.reconcile, settle).
THEOREM WorkIsOwnedHolds == Spec => []WorkIsOwned
<1>1. OwnedInv => WorkIsOwned
  BY DEF OwnedInv
<1>2. QED
  BY <1>1, OwnedHolds, PTL

\* Only its start makes a ready node run.
LEMMA ReadyStarts ==
  ASSUME OwnedInv, [Next]_vars, NEW n \in Nodes, row[n].status = "ready", row'[n].status = "running"
  PROVE  StartNode(n)
<1>1. row \in [Nodes -> Rows]
  BY DEF OwnedInv, RowsOK
<1>2. ASSUME NEW i \in DOMAIN Drafts, Revise(i) PROVE FALSE
  <2>1. \/ \E def : row'[n] = NewRow(def)
        \/ row'[n] = [row[n] EXCEPT !.status = "cancelled"]
        \/ row'[n] = row[n]
    BY <1>2 DEF Revise
  <2>2. QED
    BY <1>1, <2>1 DEF NewRow, Unmade, Rows
<1>3. ASSUME NEW m \in Nodes, m # n,
             \/ ReadyNode(m) \/ SkipNode(m) \/ SettleJoin(m) \/ StartNode(m)
             \/ SettleNode(m) \/ Integrate(m) \/ Complete(m) \/ Resume(m)
             \/ SettleRemoved(m) \/ IntegrateRemoved(m) \/ CompleteRemoved(m)
             \/ InvocationEnds(m) \/ DecisionEnds(m)
      PROVE  row'[n] = row[n]
  BY <1>1, <1>3 DEF ReadyNode, SkipNode, SettleJoin, StartNode, SettleNode, Integrate, Complete,
     Resume, SettleRemoved, IntegrateRemoved, CompleteRemoved, SettleUnfinished, Set, Advance,
     Succeed, InvocationEnds, DecisionEnds
<1>4. ~(ReadyNode(n) \/ SkipNode(n))
  BY <1>1 DEF ReadyNode, SkipNode, BecomesReady, BecomesSkipped
<1>5. ~SettleJoin(n)
  <2>1. SettleJoin(n) => row'[n].status = JoinVerdict(row, plan.edges, n)
    BY <1>1 DEF SettleJoin, Rows
  <2>2. QED
    BY <2>1, VerdictType
<1>6. ~(\/ SettleNode(n) \/ Integrate(n) \/ Complete(n) \/ Resume(n)
        \/ SettleRemoved(n) \/ IntegrateRemoved(n) \/ CompleteRemoved(n))
  BY DEF SettleNode, Integrate, Complete, Resume, SettleRemoved, IntegrateRemoved, CompleteRemoved,
     SettleUnfinished, RemovedTurn, RemovedActs, OwnedInv, SettlesRunning, Nothing
<1>7. ~(InvocationEnds(n) \/ DecisionEnds(n))
  BY DEF InvocationEnds, DecisionEnds, OwnedInv, WorkIsOwned
<1>8. ~(PrepareTurn \/ RootEnds \/ OperatorInput \/ UNCHANGED vars)
  BY DEF PrepareTurn, RootEnds, OperatorInput, vars
<1>9. QED
  BY <1>2, <1>3, <1>4, <1>5, <1>6, <1>7, <1>8 DEF Next, Pass

\* A starting node is given every Handoff the edges of the current revision carry into it,
\* whichever came first, the end of the source or the revision that added the edge, for any
\* drafts (StartNode ensures the Handoffs of the current edges before it delivers).
THEOREM EdgesDeliverHolds == Spec => EdgesDeliver
<1> DEFINE Given1 == \A n \in Nodes : row[n].status = "ready" /\ row'[n].status = "running" =>
                       \A e \in Incoming(plan.edges, n) : Carries(row, e) => e \in delivered'
<1>1. OwnedInv /\ [Next]_vars => [Given1]_vars
  <2> SUFFICES ASSUME OwnedInv, [Next]_vars, NEW n \in Nodes,
                      row[n].status = "ready", row'[n].status = "running",
                      NEW e \in Incoming(plan.edges, n), Carries(row, e)
               PROVE  e \in delivered'
    OBVIOUS
  <2>1. StartNode(n)
    BY ReadyStarts
  <2>2. QED
    BY <2>1 DEF StartNode, Given, HandoffsInto
<1>2. EdgesDeliver <=> [][Given1]_vars
  BY DEF EdgesDeliver
<1> HIDE DEF Given1
<1>3. QED
  BY <1>1, <1>2, OwnedHolds, PTL DEF Spec

-----------------------------------------------------------------------------
(***************************************************************************)
(* The plan goes on.  Edges join members of the revision and never form a  *)
(* cycle, so a member that has not ended and has nothing to wait for is    *)
(* found among those of least rank.                                        *)
(***************************************************************************)
\* The least of a set of numbers.
LEMMA LeastOf ==
  ASSUME NEW S, S \subseteq Nat, S # {}
  PROVE  \E n \in S : \A m \in S : n <= m
<1> DEFINE R == OpToRel(<, Nat)
<1>1. IsWellFoundedOn(R, Nat)
  BY NatLessThanWellFounded DEF OpToRel
<1> HIDE DEF R
<1>2. PICK n \in S : \A m \in S : <<m, n>> \notin R
  BY <1>1, WFMin
<1>3. \A m \in S : ~(m < n)
  BY <1>2 DEF R, OpToRel
<1>4. QED
  BY <1>3

\* When the pass has no action and capacity is left, a member's Invocation executes or waits for
\* an answer, or every member has ended, and PrepareTurn reports those not yet reported (reconcileRun, readiness).
NeverStalled ==
  Free /\ NoAction /\ Active < MaxActive =>
    \/ \E n \in plan.members : row[n].inv \in {"active", "blocked"}
    \/ \A n \in plan.members : row[n].status \in Ended

MembersAreMade == plan.members \subseteq Nodes /\ \A n \in plan.members : Made(n)
Ranks(rank, edges, members) ==
  \A e \in edges : e.from \in members /\ e.to \in members /\ rank[e.from] < rank[e.to]
EdgesAreAcyclic == \E rank \in [Nodes -> Nat] : Ranks(rank, plan.edges, plan.members)
\* A started node that has not ended has an Invocation; one that waits has a blocked one.
StartedHasWork ==
  \A n \in Nodes : /\ row[n].status = "running" => row[n].inv # "none"
                   /\ row[n].status = "waiting" => row[n].inv \in {"blocked", "answered"}
GoesOnInv == OwnedInv /\ MembersAreMade /\ EdgesAreAcyclic /\ StartedHasWork

\* The nodes of a revised plan, and its edges in the ranks of the draft.
LEMMA ReviseRanks ==
  ASSUME GoesOnInv, NEW i \in DOMAIN Drafts, Revise(i)
  PROVE  MembersAreMade' /\ EdgesAreAcyclic' /\ StartedHasWork'
<1> DEFINE d == Drafts[i]
           paths == DOMAIN d.defs
           made == {Fresh(p) : p \in NewPaths(d)}
<1>1. /\ row' = [n \in Nodes |->
                   IF n \in made THEN NewRow(d.defs[Path(n)])
                   ELSE IF n \in Cancelled(d) THEN [row[n] EXCEPT !.status = "cancelled"]
                   ELSE row[n]]
      /\ plan'.members = {IdAt(d, p) : p \in paths}
      /\ plan'.edges = {[from |-> IdAt(d, e.from), to |-> IdAt(d, e.to),
                         type |-> e.type, on |-> e.on] : e \in d.edges}
      /\ IdsLeft(d)
  BY DEF Revise
<1>2. PICK rank \in [paths -> 1..Cardinality(paths)] :
        \A e \in d.edges : e.from \in paths /\ e.to \in paths /\ rank[e.from] < rank[e.to]
  BY DraftsAreAcyclic
<1>3. IsFiniteSet(paths) /\ Cardinality(paths) \in Nat
  BY DraftsAreAcyclic, FS_CardinalityType
<1>4. rank \in [paths -> Nat]
  BY <1>3
<1>5. ASSUME NEW p \in paths
      PROVE  /\ IdAt(d, p) \in Nodes /\ Path(IdAt(d, p)) = p
             /\ IdAt(d, p) \in made \/ IdAt(d, p) \in plan.members
  <2>1. CASE p \in NewPaths(d)
    <3>1. IdAt(d, p) = Fresh(p)
      BY <2>1 DEF IdAt
    <3>2. QED
      BY <1>1, <2>1, <3>1, FreshIsUnmade
  <2>2. CASE p \notin NewPaths(d)
    <3>1. \E n \in Reused(d) : Path(n) = p
      BY <2>2 DEF NewPaths
    <3>2. IdAt(d, p) \in Reused(d) /\ Path(IdAt(d, p)) = p
      BY <2>2, <3>1 DEF IdAt
    <3>3. QED
      BY <3>2 DEF Reused, GoesOnInv, MembersAreMade
  <2>3. QED
    BY <2>1, <2>2
<1>6. \A n \in made : n \in Nodes
  BY <1>1, FreshIsUnmade
<1> HIDE DEF d, made
<1>7. ASSUME NEW n \in Nodes
      PROVE  /\ n \in made \/ Made(n) => row'[n].status # "unmade"
             /\ row'[n].status \in {"running", "waiting"} => row'[n] = row[n]
  <2>1. row[n] \in Rows
    BY DEF GoesOnInv, OwnedInv, RowsOK
  <2>2. CASE n \in made
    BY <1>1, <2>2 DEF NewRow, Unmade
  <2>3. CASE n \notin made /\ n \in Cancelled(d)
    BY <1>1, <2>1, <2>3 DEF Rows
  <2>4. CASE n \notin made /\ n \notin Cancelled(d)
    BY <1>1, <2>4 DEF Made
  <2>5. QED
    BY <2>2, <2>3, <2>4
<1>8. MembersAreMade'
  BY <1>1, <1>5, <1>7 DEF MembersAreMade, Made, GoesOnInv
<1>9. EdgesAreAcyclic'
  <2> DEFINE nodeRank == [n \in Nodes |-> IF Path(n) \in paths THEN rank[Path(n)] ELSE 0]
  <2>1. nodeRank \in [Nodes -> Nat]
    BY <1>4
  <2>2. \A p \in paths : nodeRank[IdAt(d, p)] = rank[p]
    BY <1>5
  <2> HIDE DEF nodeRank
  <2>3. Ranks(nodeRank, plan'.edges, plan'.members)
    BY <1>1, <1>2, <2>2 DEF Ranks
  <2>4. QED
    BY <2>1, <2>3 DEF EdgesAreAcyclic
<1>10. StartedHasWork'
  BY <1>7 DEF StartedHasWork, GoesOnInv
<1>11. QED
  BY <1>8, <1>9, <1>10

\* Any other action writes one row, which keeps what a started node has.
LEMMA RowGoesOn ==
  ASSUME GoesOnInv, NEW n \in Nodes,
         \/ ReadyNode(n) \/ SkipNode(n) \/ SettleJoin(n) \/ StartNode(n)
         \/ SettleNode(n) \/ Integrate(n) \/ Complete(n) \/ Resume(n)
         \/ SettleRemoved(n) \/ IntegrateRemoved(n) \/ CompleteRemoved(n)
         \/ InvocationEnds(n) \/ DecisionEnds(n)
  PROVE  /\ plan' = plan /\ \A m \in Nodes \ {n} : row'[m] = row[m]
         /\ row'[n].status = "unmade" => row[n].status = "unmade"
         /\ row'[n].status = "running" => row'[n].inv # "none"
         /\ row'[n].status = "waiting" => row'[n].inv \in {"blocked", "answered"}
<1>1. row[n] \in Rows /\ row \in [Nodes -> Rows]
  BY DEF GoesOnInv, OwnedInv, RowsOK
<1>2. /\ row[n].inv = "active" => row[n].status = "running"
      /\ row[n].status = "running" => row[n].inv # "none"
      /\ row[n].status = "waiting" => row[n].inv \in {"blocked", "answered"}
  BY DEF GoesOnInv, OwnedInv, WorkIsOwned, StartedHasWork
<1>3. CASE ReadyNode(n) \/ SkipNode(n)
  BY <1>1, <1>3 DEF ReadyNode, SkipNode, Set, BecomesReady, BecomesSkipped, Rows
<1>4. CASE SettleJoin(n)
  <2> DEFINE verdict == JoinVerdict(row, plan.edges, n)
  <2>1. verdict \in {"skipped", "succeeded", "failed"}
    BY VerdictType
  <2>2. row' = [row EXCEPT ![n].status = verdict,
                           ![n].choice = IF verdict = "succeeded" THEN "done" ELSE @]
    BY <1>4 DEF SettleJoin
  <2> HIDE DEF verdict
  <2>3. QED
    BY <1>1, <1>4, <2>1, <2>2 DEF SettleJoin, Rows
<1>5. CASE StartNode(n)
  BY <1>1, <1>5 DEF StartNode, Rows
<1>6. CASE SettleNode(n) \/ SettleRemoved(n)
  BY <1>1, <1>6 DEF SettleNode, SettleRemoved, SettleUnfinished, RemovedTurn, Set, Rows
<1>7. CASE Integrate(n) \/ IntegrateRemoved(n)
  BY <1>1, <1>2, <1>7 DEF Integrate, IntegrateRemoved
<1>8. CASE Complete(n) \/ CompleteRemoved(n)
  <2>1. row[n].status = "running" /\ row[n].inv = "completed"
    BY <1>8 DEF Complete, CompleteRemoved, GoesOnInv, OwnedInv, SettlesRunning, Nothing
  <2>2. \/ row' = row \/ row' = Advance(n) \/ \E c \in row[n].def.choices : row' = Succeed(n, c)
    BY <1>8 DEF Complete, CompleteRemoved
  <2>3. plan' = plan
    BY <1>8 DEF Complete, CompleteRemoved
  <2>4. QED
    BY <1>1, <2>1, <2>2, <2>3 DEF Advance, Succeed, Rows
<1>9. CASE Resume(n)
  BY <1>1, <1>9 DEF Resume, Rows
<1>10. CASE InvocationEnds(n) \/ DecisionEnds(n)
  BY <1>1, <1>2, <1>10 DEF InvocationEnds, DecisionEnds, Rows
<1>11. QED
  BY <1>3, <1>4, <1>5, <1>6, <1>7, <1>8, <1>9, <1>10

LEMMA GoesOnStep == GoesOnInv /\ [Next]_vars => GoesOnInv'
<1> SUFFICES ASSUME GoesOnInv, [Next]_vars PROVE GoesOnInv'
  OBVIOUS
<1>1. OwnedInv'
  BY OwnedStep DEF GoesOnInv
<1>2. ASSUME NEW i \in DOMAIN Drafts, Revise(i)
      PROVE  GoesOnInv'
  BY <1>1, <1>2, ReviseRanks DEF GoesOnInv
<1>3. ASSUME NEW n \in Nodes,
             \/ ReadyNode(n) \/ SkipNode(n) \/ SettleJoin(n) \/ StartNode(n)
             \/ SettleNode(n) \/ Integrate(n) \/ Complete(n) \/ Resume(n)
             \/ SettleRemoved(n) \/ IntegrateRemoved(n) \/ CompleteRemoved(n)
             \/ InvocationEnds(n) \/ DecisionEnds(n)
      PROVE  GoesOnInv'
  <2>1. /\ plan' = plan /\ \A m \in Nodes \ {n} : row'[m] = row[m]
        /\ row'[n].status = "unmade" => row[n].status = "unmade"
        /\ row'[n].status = "running" => row'[n].inv # "none"
        /\ row'[n].status = "waiting" => row'[n].inv \in {"blocked", "answered"}
    BY <1>3, RowGoesOn
  <2>2. MembersAreMade' /\ EdgesAreAcyclic' /\ StartedHasWork'
    BY <2>1 DEF GoesOnInv, MembersAreMade, Made, EdgesAreAcyclic, StartedHasWork
  <2>3. QED
    BY <1>1, <2>2 DEF GoesOnInv
<1>4. CASE PrepareTurn \/ RootEnds \/ OperatorInput \/ UNCHANGED vars
  <2>1. plan' = plan /\ row' = row
    BY <1>4 DEF PrepareTurn, RootEnds, OperatorInput, vars
  <2>2. QED
    BY <1>1, <2>1 DEF GoesOnInv, MembersAreMade, Made, EdgesAreAcyclic, StartedHasWork
<1>5. QED
  BY <1>2, <1>3, <1>4 DEF Next, Pass

\* A pending member whose sources have all ended is readied or skipped.
LEMMA SourcesDecide ==
  ASSUME NEW n, row[n].status = "pending",
         \A e \in Incoming(plan.edges, n) : row[e.from].status \in Ended
  PROVE  BecomesReady(row, plan.edges, n) \/ BecomesSkipped(row, plan.edges, n)
<1>1. \A e \in Incoming(plan.edges, n) : Activation(row, e) # "pending"
  BY DEF Activation, Ended
<1>2. "pending" \notin Activations(row, plan.edges, n)
  BY <1>1 DEF Activations
<1>3. QED
  BY <1>2 DEF BecomesReady, BecomesSkipped

\* The scheduler never leaves a plan that could go on: when a pass finds no action while
\* capacity is left, somebody executes or waits for an answer, or every member has ended, for any
\* accepted drafts (RunScheduler.reconcileRun, deriveReadiness, the compiler's cycle check).
THEOREM NeverStalledHolds == Spec => []NeverStalled
<1>1. Init => GoesOnInv
  <2> SUFFICES ASSUME Init PROVE GoesOnInv
    OBVIOUS
  <2>1. OwnedInv
    BY DEF Init, OwnedInv, RowsOK, Rows, Unmade, Definitions, Statuses, NodeChoices, WorkIsOwned,
           SettlesRunning
  <2>2. [n \in Nodes |-> 0] \in [Nodes -> Nat]
    OBVIOUS
  <2>3. EdgesAreAcyclic
    BY <2>2 DEF Init, EdgesAreAcyclic, Ranks
  <2>4. MembersAreMade /\ StartedHasWork
    BY DEF Init, MembersAreMade, StartedHasWork, Unmade
  <2>5. QED
    BY <2>1, <2>3, <2>4 DEF GoesOnInv
<1>2. GoesOnInv => NeverStalled
  <2> SUFFICES ASSUME GoesOnInv, NoAction, Active < MaxActive,
                      \A n \in plan.members : row[n].inv \notin {"active", "blocked"},
                      NEW x \in plan.members, row[x].status \notin Ended
               PROVE  FALSE
    BY DEF NeverStalled
  <2>1. PICK rank \in [Nodes -> Nat] : Ranks(rank, plan.edges, plan.members)
    BY DEF GoesOnInv, EdgesAreAcyclic
  <2> DEFINE open == {n \in plan.members : row[n].status \notin Ended}
             S == {rank[n] : n \in open}
  <2>2. S \subseteq Nat /\ S # {}
    BY DEF GoesOnInv, MembersAreMade
  <2>3. PICK r \in S : \A m \in S : r <= m
    BY <2>2, LeastOf
  <2>4. PICK n \in open : \A m \in open : rank[n] <= rank[m]
    BY <2>3
  <2>5. n \in Nodes /\ row[n] \in Rows /\ Made(n) /\ ~MemberActs(n)
    BY <2>4 DEF NoAction, GoesOnInv, MembersAreMade, OwnedInv, RowsOK
  <2>6. \A e \in Incoming(plan.edges, n) : row[e.from].status \in Ended
    <3> SUFFICES ASSUME NEW e \in Incoming(plan.edges, n), row[e.from].status \notin Ended
                 PROVE  FALSE
      OBVIOUS
    <3>1. e.from \in plan.members /\ rank[e.from] < rank[n]
      BY <2>1 DEF Ranks, Incoming
    <3>2. rank[e.from] \in Nat /\ rank[n] \in Nat
      BY <2>5, <3>1 DEF GoesOnInv, MembersAreMade
    <3>3. QED
      BY <2>4, <3>1, <3>2
  <2>7. row[n].status # "pending"
    BY <2>5, <2>6, SourcesDecide DEF MemberActs
  <2>8. row[n].status \in {"ready", "running", "waiting"}
    BY <2>4, <2>5, <2>7 DEF Rows, Statuses, Ended, Unstarted, Made
  <2>9. row[n].status # "ready"
    BY <2>5 DEF MemberActs
  <2>10. row[n].inv \notin {"active", "blocked"}
    BY <2>4
  <2>11. QED
    BY <2>5, <2>8, <2>9, <2>10 DEF MemberActs, InvocationEnded, GoesOnInv, StartedHasWork, Rows
<1>3. QED
  BY <1>1, <1>2, GoesOnStep, PTL DEF Spec

-----------------------------------------------------------------------------
(***************************************************************************)
(* The host.                                                               *)
(***************************************************************************)
Hosts ==
  [limit : ConcurrencyLimits, pending : SUBSET Runs, running : SUBSET Runs, queue : Seq(Runs),
   armed : SUBSET Runs, waiters : SUBSET Runs, stopped : BOOLEAN]
Passes ==
  [phase : InLoop \cup {"finishing", "returned", "applied"}, done : Nat, stop : StopReasons,
   capacity : BOOLEAN, wake : BOOLEAN]

HostTypeOK ==
  /\ need \in [Runs -> Needs] /\ recorded \subseteq Recording /\ executing \subseteq Runs
  /\ host \in Hosts /\ pass \in [Runs -> Passes]
  /\ stopCall \in {"none", "waiting", "resolved"} /\ booted \in BOOLEAN

\* What every operation of the host keeps of it.
Fits(h) == Cardinality(h.running) <= h.limit
KeepsMarks(h) == \A r \in h.pending : r \in h.running \/ \E i \in 1..Len(h.queue) : h.queue[i] = r
Quiet(h) == h.stopped => h.armed = {} /\ h.waiters = {}
Sound == {h \in Hosts : Fits(h) /\ KeepsMarks(h) /\ Quiet(h)}
\* The Runs a pass is owed to: they have a mark or a timer.
Owed(h) == h.pending \cup h.armed
\* In g the Runs of S are owed a pass, or one began since h.
Served(h, g, S) == S \subseteq Owed(g) \cup (g.running \ h.running)
\* A host later in the life of h, with no pass ended in between.
Later(h) ==
  {g \in Sound : /\ g.stopped = h.stopped /\ g.limit = h.limit
                 /\ h.running \subseteq g.running
                 /\ h.stopped => g.running = h.running
                 /\ Served(h, g, Owed(h))}

\* No more passes are active than maxConcurrentRuns (drain).
PassesFit == Fits(host)
\* A Run with a mark is on the queue or has a pass, whose end puts it there (notifyRun, drain).
NoMarkLost == KeepsMarks(host)
\* A stopped host has no timer and remembers no waiter (stop, arm).
StoppedIsQuiet == Quiet(host)
\* A pass that left its loop has a stop reason, and one that has not begun has done nothing.
OutcomesHaveReasons ==
  \A r \in Runs : pass[r].phase \in {"finishing", "returned"} => pass[r].stop # "none"
FreshBetween == \A r \in Runs \ host.running : pass[r] = FreshPass
\* An executing Attempt's pass has not returned: finish settles it first.
AttemptsHavePasses ==
  \A r \in executing : r \in host.running /\ pass[r].phase \in InLoop \cup {"finishing"}
LeasesFit == Cardinality(executing) <= Slots
\* When stop() has resolved, no pass is active and no Attempt executes.
StopCalled == stopCall # "none" => host.stopped
StopMeansStopped == stopCall = "resolved" => host.running = {} /\ executing = {}

HostInv ==
  /\ HostTypeOK /\ PassesFit /\ NoMarkLost /\ StoppedIsQuiet
  /\ OutcomesHaveReasons /\ FreshBetween
  /\ AttemptsHavePasses /\ LeasesFit
  /\ StopCalled /\ StopMeansStopped

-----------------------------------------------------------------------------
(***************************************************************************)
(* The folds over a queue and over the Runs to be told, as the community   *)
(* module computes them.                                                   *)
(***************************************************************************)
\* One step of either fold.
Folding(drain, h, r) == IF drain THEN Started(h, r) ELSE Notified(h, r)
FoldStep(drain, base, q, fold, s) ==
  IF s = {} THEN base ELSE Folding(drain, fold[s \ {Max(s)}], q[Max(s)])

Starting(base, q) ==
  CHOOSE fold : fold = [s \in SUBSET DOMAIN q |->
                          IF s = {} THEN base ELSE Started(fold[s \ {Max(s)}], q[Max(s)])]
Notifying(base, q) ==
  CHOOSE fold : fold = [s \in SUBSET DOMAIN q |->
                          IF s = {} THEN base ELSE Notified(fold[s \ {Max(s)}], q[Max(s)])]

LEMMA FoldIsStarting ==
  ASSUME NEW base, NEW q
  PROVE  FoldLeft(Started, base, q) = Starting(base, q)[DOMAIN q]
BY DEF FoldLeft, MapThenFoldSet, Starting

LEMMA FoldIsNotifying ==
  ASSUME NEW base, NEW q
  PROVE  FoldLeft(Notified, base, q) = Notifying(base, q)[DOMAIN q]
BY DEF FoldLeft, MapThenFoldSet, Notifying

\* The last of a set of positions, and what is before it.
LEMMA MaxIs ==
  ASSUME NEW n \in Nat, NEW s \in SUBSET (1..n), s # {}
  PROVE  /\ Max(s) \in s /\ s \ {Max(s)} \in SUBSET (1..n)
         /\ Cardinality(s) \in Nat /\ Cardinality(s \ {Max(s)}) = Cardinality(s) - 1
<1> DEFINE above == {b \in 0..n : \A i \in s : i <= b}
<1>1. above \subseteq Nat /\ n \in above
  OBVIOUS
<1>2. PICK b \in above : \A c \in above : b <= c
  BY <1>1, LeastOf
<1>3. b \in s
  <2>1. SUFFICES ASSUME b \notin s PROVE FALSE
    OBVIOUS
  <2>2. PICK i \in s : TRUE
    OBVIOUS
  <2>3. b - 1 \in above
    BY <2>1, <2>2
  <2>4. QED
    BY <1>2, <2>3
<1>4. \A i \in s : b >= i
  BY <1>2
<1>5. Max(s) \in s
  BY <1>3, <1>4 DEF Max
<1>6. IsFiniteSet(s)
  <2>1. IsFiniteSet(1..n)
    BY FS_Interval
  <2>2. QED
    BY <2>1, FS_Subset
<1>7. QED
  BY <1>5, <1>6, FS_RemoveElement, FS_CardinalityType

LEMMA MaxOfPrefix ==
  ASSUME NEW n \in Nat, NEW i \in 1..n
  PROVE  Max(1..i) = i /\ (1..i) \ {i} = 1..(i - 1)
<1>1. i \in 1..i /\ \A j \in 1..i : i >= j
  OBVIOUS
<1>2. \A x \in 1..i : (\A j \in 1..i : x >= j) => x = i
  OBVIOUS
<1>3. Max(1..i) = i
  BY <1>1, <1>2 DEF Max
<1>4. QED
  BY <1>3

Folds(drain, base, q, n, k) ==
  \E fold : \A s \in SUBSET (1..n) :
    Cardinality(s) <= k => fold[s] = FoldStep(drain, base, q, fold, s)

LEMMA FoldsExist ==
  ASSUME NEW drain, NEW base, NEW q, NEW n \in Nat
  PROVE  \A k \in Nat : Folds(drain, base, q, n, k)
<1> DEFINE bad == {k \in Nat : ~Folds(drain, base, q, n, k)}
<1>1. SUFFICES ASSUME bad # {} PROVE FALSE
  OBVIOUS
<1>2. bad \subseteq Nat
  OBVIOUS
<1>3. PICK k \in bad : \A m \in bad : k <= m
  BY <1>1, <1>2, LeastOf
<1>4. k \in Nat /\ ~Folds(drain, base, q, n, k)
  BY <1>3
<1>5. \A s \in SUBSET (1..n) : s # {} => Cardinality(s) \in Nat /\ Cardinality(s) # 0
  <2>1. ASSUME NEW s \in SUBSET (1..n), s # {}
        PROVE  Cardinality(s) \in Nat /\ Cardinality(s) # 0
    <3>1. IsFiniteSet(1..n)
      BY FS_Interval
    <3>2. IsFiniteSet(s)
      BY <3>1, FS_Subset
    <3>3. QED
      BY <2>1, <3>2, FS_CardinalityType, FS_EmptySet
  <2>2. QED
    BY <2>1
<1>6. CASE k = 0
  <2> DEFINE none == [s \in SUBSET (1..n) |-> base]
  <2>1. ASSUME NEW s \in SUBSET (1..n), Cardinality(s) <= 0
        PROVE  none[s] = FoldStep(drain, base, q, none, s)
    <3>1. s = {}
      BY <1>5, <2>1
    <3>2. QED
      BY <3>1 DEF FoldStep
  <2>2. QED
    BY <1>4, <1>6, <2>1 DEF Folds
<1>7. CASE k # 0
  <2>1. k - 1 \in Nat /\ k - 1 \notin bad
    BY <1>3, <1>4, <1>7
  <2>2. PICK fold : \A s \in SUBSET (1..n) :
          Cardinality(s) <= k - 1 => fold[s] = FoldStep(drain, base, q, fold, s)
    BY <2>1 DEF Folds
  <2> DEFINE more == [s \in SUBSET (1..n) |-> FoldStep(drain, base, q, fold, s)]
  <2>3. ASSUME NEW s \in SUBSET (1..n), Cardinality(s) <= k
        PROVE  more[s] = FoldStep(drain, base, q, more, s)
    <3>1. CASE s = {}
      BY <3>1 DEF FoldStep
    <3>2. CASE s # {}
      <4> DEFINE before == s \ {Max(s)}
      <4>1. before \in SUBSET (1..n) /\ Cardinality(before) <= k - 1
        BY <1>4, <2>3, <3>2, MaxIs
      <4>2. more[before] = fold[before]
        BY <2>2, <4>1
      <4>3. QED
        BY <3>2, <4>2 DEF FoldStep
    <3>3. QED
      BY <3>1, <3>2
  <2>4. QED
    BY <1>4, <2>3 DEF Folds
<1>8. QED
  BY <1>6, <1>7

LEMMA FoldExists ==
  ASSUME NEW drain, NEW base, NEW q, NEW n \in Nat, DOMAIN q = 1..n
  PROVE  \E fold : fold = [s \in SUBSET DOMAIN q |-> FoldStep(drain, base, q, fold, s)]
<1>1. PICK fold : \A s \in SUBSET (1..n) :
        Cardinality(s) <= n => fold[s] = FoldStep(drain, base, q, fold, s)
  BY FoldsExist DEF Folds
<1>2. \A s \in SUBSET (1..n) : Cardinality(s) <= n
  <2>1. IsFiniteSet(1..n) /\ Cardinality(1..n) = n
    BY FS_Interval
  <2>2. QED
    BY <2>1, FS_Subset
<1> DEFINE whole == [s \in SUBSET (1..n) |-> fold[s]]
<1>3. ASSUME NEW s \in SUBSET (1..n)
      PROVE  whole[s] = FoldStep(drain, base, q, whole, s)
  <2>1. fold[s] = FoldStep(drain, base, q, fold, s)
    BY <1>1, <1>2
  <2>2. CASE s = {}
    BY <2>1, <2>2 DEF FoldStep
  <2>3. CASE s # {}
    <3>1. s \ {Max(s)} \in SUBSET (1..n)
      BY <2>3, MaxIs
    <3>2. whole[s \ {Max(s)}] = fold[s \ {Max(s)}]
      BY <3>1
    <3>3. QED
      BY <2>1, <2>3, <3>2 DEF FoldStep
  <2>4. QED
    BY <2>2, <2>3
<1>4. whole = [s \in SUBSET (1..n) |-> FoldStep(drain, base, q, whole, s)]
  BY <1>3
<1>5. QED
  BY <1>4

\* Along the prefixes of a sequence, what each step hands to the next.
LEMMA PrefixesKeep ==
  ASSUME NEW n \in Nat, NEW fold, NEW Holds,
         fold[{}] \in Holds[0],
         \A i \in 1..n : fold[1..(i - 1)] \in Holds[i - 1] => fold[1..i] \in Holds[i]
  PROVE  fold[1..n] \in Holds[n]
<1> DEFINE bad == {i \in 0..n : fold[1..i] \notin Holds[i]}
<1>1. SUFFICES ASSUME bad # {} PROVE FALSE
  OBVIOUS
<1>2. bad \subseteq Nat
  OBVIOUS
<1>3. PICK i \in bad : \A m \in bad : i <= m
  BY <1>1, <1>2, LeastOf
<1>4. i # 0
  BY <1>3
<1>5. i \in 1..n /\ i - 1 \in 0..n /\ i - 1 \notin bad
  BY <1>3, <1>4
<1>6. QED
  BY <1>3, <1>5

LEMMA StartingSteps ==
  ASSUME NEW base, NEW q \in Seq(Runs)
  PROVE  /\ DOMAIN q = 1..Len(q) /\ Len(q) \in Nat
         /\ Starting(base, q)[{}] = base
         /\ \A i \in 1..Len(q) :
              Starting(base, q)[1..i] = Started(Starting(base, q)[1..(i - 1)], q[i])
<1>1. DOMAIN q = 1..Len(q) /\ Len(q) \in Nat
  OBVIOUS
<1>2. \E fold : fold = [s \in SUBSET DOMAIN q |-> FoldStep(TRUE, base, q, fold, s)]
  BY <1>1, FoldExists
<1>3. \E fold : fold = [s \in SUBSET DOMAIN q |->
                          IF s = {} THEN base ELSE Started(fold[s \ {Max(s)}], q[Max(s)])]
  BY <1>2 DEF FoldStep, Folding
<1> DEFINE g == Starting(base, q)
<1>4. g = [s \in SUBSET DOMAIN q |->
             IF s = {} THEN base ELSE Started(g[s \ {Max(s)}], q[Max(s)])]
  BY <1>3 DEF Starting
<1> HIDE DEF g
<1>5. \A s \in SUBSET (1..Len(q)) :
        g[s] = IF s = {} THEN base ELSE Started(g[s \ {Max(s)}], q[Max(s)])
  BY <1>1, <1>4
<1>6. ASSUME NEW i \in 1..Len(q)
      PROVE  g[1..i] = Started(g[1..(i - 1)], q[i])
  <2>1. 1..i \in SUBSET (1..Len(q)) /\ 1..i # {}
    BY <1>1
  <2>2. Max(1..i) = i /\ (1..i) \ {i} = 1..(i - 1)
    BY <1>1, MaxOfPrefix
  <2>3. QED
    BY <1>5, <2>1, <2>2
<1>7. QED
  BY <1>1, <1>5, <1>6 DEF g

LEMMA NotifyingSteps ==
  ASSUME NEW base, NEW q \in Seq(Runs)
  PROVE  /\ DOMAIN q = 1..Len(q) /\ Len(q) \in Nat
         /\ Notifying(base, q)[{}] = base
         /\ \A i \in 1..Len(q) :
              Notifying(base, q)[1..i] = Notified(Notifying(base, q)[1..(i - 1)], q[i])
<1>1. DOMAIN q = 1..Len(q) /\ Len(q) \in Nat
  OBVIOUS
<1>2. \E fold : fold = [s \in SUBSET DOMAIN q |-> FoldStep(FALSE, base, q, fold, s)]
  BY <1>1, FoldExists
<1>3. \E fold : fold = [s \in SUBSET DOMAIN q |->
                          IF s = {} THEN base ELSE Notified(fold[s \ {Max(s)}], q[Max(s)])]
  BY <1>2 DEF FoldStep, Folding
<1> DEFINE g == Notifying(base, q)
<1>4. g = [s \in SUBSET DOMAIN q |->
             IF s = {} THEN base ELSE Notified(g[s \ {Max(s)}], q[Max(s)])]
  BY <1>3 DEF Notifying
<1> HIDE DEF g
<1>5. \A s \in SUBSET (1..Len(q)) :
        g[s] = IF s = {} THEN base ELSE Notified(g[s \ {Max(s)}], q[Max(s)])
  BY <1>1, <1>4
<1>6. ASSUME NEW i \in 1..Len(q)
      PROVE  g[1..i] = Notified(g[1..(i - 1)], q[i])
  <2>1. 1..i \in SUBSET (1..Len(q)) /\ 1..i # {}
    BY <1>1
  <2>2. Max(1..i) = i /\ (1..i) \ {i} = 1..(i - 1)
    BY <1>1, MaxOfPrefix
  <2>3. QED
    BY <1>5, <2>1, <2>2
<1>7. QED
  BY <1>1, <1>5, <1>6 DEF g

-----------------------------------------------------------------------------
(***************************************************************************)
(* What the host's operations keep.                                        *)
(***************************************************************************)
LEMMA LaterIsTransitive ==
  ASSUME NEW h, NEW g \in Later(h), NEW f \in Later(g)
  PROVE  f \in Later(h)
BY DEF Later, Served

LEMMA SoundIsLater ==
  ASSUME NEW h \in Sound
  PROVE  h \in Later(h)
BY DEF Later, Served

\* What is served stays served.
LEMMA ServedStays ==
  ASSUME NEW h, NEW g \in Later(h), NEW f \in Later(g), NEW S, Served(h, g, S)
  PROVE  Served(h, f, S)
BY DEF Later, Served

LEMMA RunningIsCounted ==
  ASSUME NEW h \in Hosts
  PROVE  IsFiniteSet(h.running) /\ Cardinality(h.running) \in Nat /\ h.limit \in Nat
<1>1. IsFiniteSet(h.running)
  BY HostAssumption, FS_Subset DEF Hosts
<1>2. QED
  BY <1>1, HostAssumption, FS_CardinalityType DEF Hosts

\* A host that drains q and has i of it behind it, or that is full.
Draining(h, q, i) ==
  {g \in Later(h) : \/ /\ Len(g.queue) = Len(q) - i
                       /\ \A j \in 1..Len(g.queue) : g.queue[j] = q[i + j]
                    \/ Cardinality(g.running) >= g.limit}

LEMMA StartedDrains ==
  ASSUME NEW h, ~h.stopped, NEW q \in Seq(Runs), NEW i \in 1..Len(q), NEW g \in Draining(h, q, i - 1)
  PROVE  Started(g, q[i]) \in Draining(h, q, i)
<1>1. CASE Cardinality(g.running) >= g.limit
  BY <1>1 DEF Started, Draining
<1>2. CASE ~(Cardinality(g.running) >= g.limit)
  <2> DEFINE r == q[i]
             rest == [g EXCEPT !.queue = Tail(@)]
             begun == [rest EXCEPT !.pending = @ \ {r}, !.running = @ \cup {r}]
  <2>1. g \in Hosts /\ g \in Later(h) /\ g \in Sound /\ ~g.stopped
    BY DEF Draining, Later, Sound
  <2>2. r \in Runs /\ i \in Nat /\ Len(q) \in Nat
    OBVIOUS
  <2>3. /\ g.queue \in Seq(Runs) /\ Len(g.queue) = Len(q) - (i - 1)
        /\ \A j \in 1..Len(g.queue) : g.queue[j] = q[(i - 1) + j]
    BY <1>2, <2>1 DEF Draining, Hosts
  <2>4. g.queue # <<>> /\ Len(g.queue) \in Nat \ {0} /\ g.queue[1] = r
    BY <2>2, <2>3
  <2>5. /\ Tail(g.queue) \in Seq(Runs) /\ Len(Tail(g.queue)) = Len(g.queue) - 1
        /\ \A j \in 1..Len(g.queue) - 1 : Tail(g.queue)[j] = g.queue[j + 1]
    BY <2>3, <2>4
  <2>6. /\ Len(Tail(g.queue)) = Len(q) - i
        /\ \A j \in 1..Len(Tail(g.queue)) : Tail(g.queue)[j] = q[i + j]
    <3>1. \A j \in 1..Len(g.queue) - 1 : g.queue[j + 1] = q[i + j]
      BY <2>2, <2>3, <2>4
    <3>2. Len(Tail(g.queue)) = Len(q) - i
      BY <2>2, <2>3, <2>5
    <3>3. ASSUME NEW j \in 1..Len(Tail(g.queue))
          PROVE  Tail(g.queue)[j] = q[i + j]
      <4>1. j \in 1..Len(g.queue) - 1
        BY <2>5
      <4>2. QED
        BY <2>5, <3>1, <4>1
    <3>4. QED
      BY <3>2, <3>3
  <2>7. \A p \in g.pending : p = r \/ p \in g.running \/ \E j \in 1..Len(Tail(g.queue)) : Tail(g.queue)[j] = p
    <3>1. ASSUME NEW p \in g.pending, p # r, NEW j \in 1..Len(g.queue), g.queue[j] = p
          PROVE  \E k \in 1..Len(Tail(g.queue)) : Tail(g.queue)[k] = p
      <4>1. j # 1 /\ j - 1 \in 1..Len(g.queue) - 1
        BY <2>4, <3>1
      <4>2. Tail(g.queue)[j - 1] = g.queue[j]
        BY <2>4, <2>5, <4>1
      <4>3. QED
        BY <2>5, <3>1, <4>1, <4>2
    <3>2. QED
      BY <2>1, <3>1 DEF Sound, KeepsMarks
  <2>8. CASE r \in g.pending \ g.running
    <3>1. Started(g, r) = begun
      BY <1>2, <2>8 DEF Started
    <3>2. /\ begun \in Hosts /\ begun.limit = g.limit /\ begun.stopped = g.stopped
          /\ begun.queue = Tail(g.queue) /\ begun.running = g.running \cup {r}
          /\ begun.pending = g.pending \ {r} /\ begun.armed = g.armed
      BY <2>1, <2>2, <2>5 DEF Hosts
    <3>3. Fits(begun)
      <4>1. Cardinality(g.running \cup {r}) = Cardinality(g.running) + 1
        BY <2>1, <2>8, RunningIsCounted, FS_AddElement
      <4>2. QED
        BY <1>2, <2>1, <3>2, <4>1, RunningIsCounted DEF Fits
    <3>4. KeepsMarks(begun)
      BY <2>7, <3>2 DEF KeepsMarks
    <3>5. begun \in Sound
      BY <2>1, <3>2, <3>3, <3>4 DEF Sound, Quiet
    <3>7. begun \in Later(h)
      BY <2>1, <2>8, <3>2, <3>5 DEF Later, Served, Owed
    <3>6. QED
      BY <2>6, <3>1, <3>2, <3>7 DEF Draining
  <2>9. CASE r \notin g.pending \ g.running
    <3>1. Started(g, r) = rest
      BY <1>2, <2>9 DEF Started
    <3>2. /\ rest \in Hosts /\ rest.limit = g.limit /\ rest.stopped = g.stopped
          /\ rest.queue = Tail(g.queue) /\ rest.running = g.running
          /\ rest.pending = g.pending /\ rest.armed = g.armed
      BY <2>1, <2>5 DEF Hosts
    <3>3. Fits(rest) /\ KeepsMarks(rest)
      BY <2>1, <2>7, <2>9, <3>2 DEF Fits, KeepsMarks, Sound
    <3>4. rest \in Sound
      BY <2>1, <3>2, <3>3 DEF Sound, Quiet
    <3>5. rest \in Later(h)
      BY <2>1, <3>2, <3>4 DEF Later, Served, Owed
    <3>6. QED
      BY <2>6, <3>1, <3>2, <3>5 DEF Draining
  <2>10. QED
    BY <2>8, <2>9
<1>3. QED
  BY <1>1, <1>2

LEMMA DrainedIsLater ==
  ASSUME NEW h \in Sound
  PROVE  Drained(h) \in Later(h)
<1>1. CASE h.stopped
  BY <1>1, SoundIsLater DEF Drained
<1>2. CASE ~h.stopped
  <2> DEFINE q == h.queue
             fold == Starting(h, q)
             Holds == [i \in 0..Len(q) |-> Draining(h, q, i)]
  <2>1. q \in Seq(Runs)
    BY DEF Sound, Hosts
  <2> HIDE DEF q
  <2>2. /\ DOMAIN q = 1..Len(q) /\ Len(q) \in Nat
        /\ fold[{}] = h
        /\ \A i \in 1..Len(q) : fold[1..i] = Started(fold[1..(i - 1)], q[i])
    BY <2>1, StartingSteps
  <2>3. fold[{}] \in Holds[0]
    <3>1. h \in Later(h)
      BY SoundIsLater
    <3>2. h \in Draining(h, q, 0)
      BY <3>1, <2>2, <2>1 DEF Draining, q
    <3>3. QED
      BY <2>2, <3>2
  <2>4. ASSUME NEW i \in 1..Len(q), fold[1..(i - 1)] \in Holds[i - 1]
        PROVE  fold[1..i] \in Holds[i]
    <3>1. i - 1 \in 0..Len(q) /\ i \in 0..Len(q)
      BY <2>2
    <3>2. fold[1..(i - 1)] \in Draining(h, q, i - 1)
      BY <2>4, <3>1
    <3>3. Started(fold[1..(i - 1)], q[i]) \in Draining(h, q, i)
      BY <1>2, <2>1, <3>2, StartedDrains
    <3>4. QED
      BY <2>2, <3>1, <3>3
  <2> HIDE DEF fold, Holds
  <2>5. fold[1..Len(q)] \in Holds[Len(q)]
    BY <2>2, <2>3, <2>4, PrefixesKeep
  <2>6. Drained(h) = fold[1..Len(q)]
    BY <1>2, <2>2, FoldIsStarting DEF Drained, q, fold
  <2>7. Holds[Len(q)] = Draining(h, q, Len(q))
    BY <2>2 DEF Holds
  <2>8. QED
    BY <2>5, <2>6, <2>7 DEF Draining
<1>3. QED
  BY <1>1, <1>2

LEMMA MarkedIsSound ==
  ASSUME NEW h \in Sound, NEW r \in Runs
  PROVE  /\ Marked(h, r) \in Sound
         /\ Marked(h, r).running = h.running /\ Marked(h, r).limit = h.limit
         /\ Marked(h, r).stopped = h.stopped
         /\ Marked(h, r).pending = h.pending \cup {r} /\ Marked(h, r).armed = h.armed
<1> DEFINE queue == IF r \in h.running THEN h.queue ELSE Append(h.queue, r)
           g == [h EXCEPT !.pending = @ \cup {r}, !.queue = queue]
<1>1. h \in Hosts /\ h.queue \in Seq(Runs) /\ Len(h.queue) \in Nat
  BY DEF Sound, Hosts
<1>2. /\ queue \in Seq(Runs)
      /\ \A i \in 1..Len(h.queue) : i \in 1..Len(queue) /\ queue[i] = h.queue[i]
      /\ r \in h.running \/ (Len(h.queue) + 1 \in 1..Len(queue) /\ queue[Len(h.queue) + 1] = r)
  BY <1>1
<1> HIDE DEF queue
<1>3. /\ g \in Hosts /\ g.pending = h.pending \cup {r} /\ g.queue = queue
      /\ g.running = h.running /\ g.limit = h.limit /\ g.stopped = h.stopped
      /\ g.armed = h.armed /\ g.waiters = h.waiters
  BY <1>1, <1>2 DEF Hosts
<1>4. Marked(h, r) = g
  BY DEF Marked, queue
<1>5. KeepsMarks(g)
  BY <1>2, <1>3 DEF KeepsMarks, Sound
<1>6. Fits(g) /\ Quiet(g)
  BY <1>3 DEF Fits, Quiet, Sound
<1>7. QED
  BY <1>3, <1>4, <1>5, <1>6 DEF Sound

\* A Run that is notified, also one whose timer has just fired, is owed a pass or begins one.
Untimed(h, r) == [h EXCEPT !.armed = @ \ {r}]
LEMMA NotifiedIsLater ==
  ASSUME NEW h \in Sound, NEW r \in Runs, NEW b \in {h, Untimed(h, r)}
  PROVE  /\ Notified(b, r) \in Later(h)
         /\ ~h.stopped => Served(h, Notified(b, r), {r})
<1> DEFINE calm == [b EXCEPT !.armed = @ \ {r}, !.waiters = @ \ {r}]
<1>1. /\ b \in Hosts /\ b.pending = h.pending /\ b.queue = h.queue
      /\ b.running = h.running /\ b.limit = h.limit /\ b.stopped = h.stopped
      /\ b.armed \in {h.armed, h.armed \ {r}} /\ b.waiters = h.waiters
  BY DEF Sound, Hosts, Untimed
<1>2. /\ calm \in Hosts /\ calm.pending = h.pending /\ calm.queue = h.queue
      /\ calm.running = h.running /\ calm.limit = h.limit /\ calm.stopped = h.stopped
      /\ calm.armed = h.armed \ {r} /\ calm.waiters = h.waiters \ {r}
  BY <1>1 DEF Hosts
<1>3. Notified(b, r) = IF h.stopped THEN b
                       ELSE IF r \in h.pending THEN calm ELSE Drained(Marked(calm, r))
  BY <1>1 DEF Notified
<1> HIDE DEF calm
<1>4. calm \in Sound /\ b \in Sound
  BY <1>1, <1>2 DEF Sound, Fits, KeepsMarks, Quiet
<1>5. CASE h.stopped
  <2>1. b \in Later(h)
    BY <1>1, <1>4, <1>5 DEF Later, Served, Owed, Sound, Quiet
  <2>2. QED
    BY <1>3, <1>5, <2>1
<1>6. CASE ~h.stopped /\ r \in h.pending
  <2>1. calm \in Later(h) /\ Served(h, calm, {r})
    BY <1>2, <1>4, <1>6 DEF Later, Served, Owed
  <2>2. QED
    BY <1>3, <1>6, <2>1
<1>7. CASE ~h.stopped /\ r \notin h.pending
  <2> DEFINE m == Marked(calm, r)
  <2>1. /\ m \in Sound /\ m.running = h.running /\ m.limit = h.limit /\ m.stopped = h.stopped
        /\ m.pending = h.pending \cup {r} /\ m.armed = h.armed \ {r}
    BY <1>2, <1>4, MarkedIsSound
  <2> HIDE DEF m
  <2>2. m \in Later(h) /\ Served(h, m, {r})
    BY <2>1 DEF Later, Served, Owed
  <2>3. Drained(m) \in Later(m)
    BY <2>1, DrainedIsLater
  <2>4. Drained(m) \in Later(h) /\ Served(h, Drained(m), {r})
    BY <2>2, <2>3, LaterIsTransitive, ServedStays
  <2>5. QED
    BY <1>3, <1>7, <2>4 DEF m
<1>8. QED
  BY <1>5, <1>6, <1>7

LEMMA NotifiedAllIsLater ==
  ASSUME NEW h \in Sound, NEW q \in Seq(Runs)
  PROVE  /\ NotifiedAll(h, q) \in Later(h)
         /\ ~h.stopped => Served(h, NotifiedAll(h, q), {q[j] : j \in 1..Len(q)})
<1> DEFINE fold == Notifying(h, q)
           Holds == [i \in 0..Len(q) |->
                       {g \in Later(h) : ~h.stopped => Served(h, g, {q[j] : j \in 1..i})}]
<1>1. /\ DOMAIN q = 1..Len(q) /\ Len(q) \in Nat
      /\ fold[{}] = h
      /\ \A i \in 1..Len(q) : fold[1..i] = Notified(fold[1..(i - 1)], q[i])
  BY NotifyingSteps
<1>2. fold[{}] \in Holds[0]
  <2>1. {q[j] : j \in 1..0} = {}
    OBVIOUS
  <2>2. h \in Later(h) /\ Served(h, h, {q[j] : j \in 1..0})
    BY <2>1, SoundIsLater DEF Served
  <2>3. QED
    BY <1>1, <2>2
<1>3. ASSUME NEW i \in 1..Len(q), fold[1..(i - 1)] \in Holds[i - 1]
      PROVE  fold[1..i] \in Holds[i]
  <2> DEFINE g == fold[1..(i - 1)]
             f == Notified(g, q[i])
  <2>1. i - 1 \in 0..Len(q) /\ i \in 0..Len(q) /\ q[i] \in Runs
    BY <1>1
  <2>2. g \in Later(h) /\ (~h.stopped => Served(h, g, {q[j] : j \in 1..(i - 1)}))
    BY <1>3, <2>1
  <2>3. fold[1..i] = f
    BY <1>1
  <2> HIDE DEF g
  <2>4. g \in Sound /\ g.stopped = h.stopped /\ h.running \subseteq g.running
    BY <2>2 DEF Later
  <2>5. f \in Later(g) /\ (~g.stopped => Served(g, f, {q[i]}))
    BY <2>1, <2>4, NotifiedIsLater
  <2> HIDE DEF f
  <2>6. f \in Later(h)
    BY <2>2, <2>5, LaterIsTransitive
  <2>7. ASSUME ~h.stopped
        PROVE  Served(h, f, {q[j] : j \in 1..i})
    <3>1. Served(h, f, {q[j] : j \in 1..(i - 1)})
      BY <2>2, <2>5, <2>7, ServedStays
    <3>2. Served(h, f, {q[i]})
      BY <2>4, <2>5, <2>7 DEF Served
    <3>3. \A j \in 1..i : j \in 1..(i - 1) \/ j = i
      BY <2>1
    <3>4. {q[j] : j \in 1..i} \subseteq {q[j] : j \in 1..(i - 1)} \cup {q[i]}
      BY <3>3
    <3>5. QED
      BY <3>1, <3>2, <3>4 DEF Served
  <2>8. f \in {x \in Later(h) : ~h.stopped => Served(h, x, {q[j] : j \in 1..i})}
    BY <2>6, <2>7
  <2>9. QED
    BY <2>1, <2>3, <2>8
<1> HIDE DEF fold, Holds
<1>4. fold[1..Len(q)] \in Holds[Len(q)]
  BY <1>1, <1>2, <1>3, PrefixesKeep
<1>5. NotifiedAll(h, q) = fold[1..Len(q)]
  BY <1>1, FoldIsNotifying DEF NotifiedAll, fold
<1>6. Holds[Len(q)] = {g \in Later(h) : ~h.stopped => Served(h, g, {q[j] : j \in 1..Len(q)})}
  BY <1>1 DEF Holds
<1>7. QED
  BY <1>4, <1>5, <1>6

LEMMA RunsAreSequences ==
  ASSUME NEW S \in SUBSET Runs
  PROVE  SetToSeq(S) \in Seq(Runs) /\ SetToSeqs(S) \subseteq Seq(Runs)
<1>1. IsFiniteSet(S)
  BY HostAssumption, FS_Subset
<1>2. Cardinality(S) \in Nat /\ ExistsBijection(1..Cardinality(S), S)
  BY <1>1, FS_CardinalityType
<1>3. PICK f \in [1..Cardinality(S) -> S] : IsInjective(f)
  BY <1>2 DEF ExistsBijection, Bijection, Injection, IsInjective
<1>4. SetToSeq(S) \in [1..Cardinality(S) -> S]
  BY <1>3 DEF SetToSeq
<1>5. \A n \in Nat : \A order \in [1..n -> S] : order \in Seq(Runs)
  OBVIOUS
<1>6. SetToSeqs(S) \subseteq [1..Cardinality(S) -> S]
  BY DEF SetToSeqs
<1>7. QED
  BY <1>2, <1>4, <1>5, <1>6

LEMMA OthersQueuedIsLater ==
  ASSUME NEW h \in Sound, NEW r \in Runs
  PROVE  OthersQueued(h, r) \in Later(h)
<1> DEFINE unqueued == {q \in h.pending \ h.running : q # r /\ ~Contains(h.queue, q)}
           more == SetToSeq(unqueued)
           queue == h.queue \o more
           g == [h EXCEPT !.queue = queue]
<1>1. h \in Hosts /\ h.queue \in Seq(Runs) /\ Len(h.queue) \in Nat
  BY DEF Sound, Hosts
<1>2. more \in Seq(Runs)
  <2>1. unqueued \in SUBSET Runs
    BY DEF Sound, Hosts
  <2> HIDE DEF unqueued
  <2>2. QED
    BY <2>1, RunsAreSequences
<1> HIDE DEF more
<1>3. /\ queue \in Seq(Runs)
      /\ \A i \in 1..Len(h.queue) : i \in 1..Len(queue) /\ queue[i] = h.queue[i]
  BY <1>1, <1>2
<1> HIDE DEF queue
<1>4. /\ g \in Hosts /\ g.pending = h.pending /\ g.queue = queue
      /\ g.running = h.running /\ g.limit = h.limit /\ g.stopped = h.stopped
      /\ g.armed = h.armed /\ g.waiters = h.waiters
  BY <1>1, <1>3 DEF Hosts
<1>5. OthersQueued(h, r) = g
  BY DEF OthersQueued, queue, more
<1>6. KeepsMarks(g) /\ Fits(g) /\ Quiet(g)
  BY <1>3, <1>4 DEF KeepsMarks, Fits, Quiet, Sound
<1>7. QED
  BY <1>4, <1>5, <1>6 DEF Sound, Later, Served, Owed

\* A host of which only the timers, the waiters and the marks of running Runs differ.
LEMMA SameQueueIsLater ==
  ASSUME NEW h \in Sound, NEW g \in Hosts,
         g.limit = h.limit, g.running = h.running, g.queue = h.queue, g.stopped = h.stopped,
         g.pending \subseteq h.pending \cup h.running, Owed(h) \subseteq Owed(g),
         h.stopped => g.armed \subseteq h.armed /\ g.waiters \subseteq h.waiters
  PROVE  g \in Later(h)
<1>1. Fits(g) /\ KeepsMarks(g) /\ Quiet(g)
  BY DEF Fits, KeepsMarks, Quiet, Sound
<1>2. QED
  BY <1>1 DEF Sound, Later, Served

LEMMA ArmedIsLater ==
  ASSUME NEW h \in Sound, NEW r \in Runs
  PROVE  Armed(h, r) \in Later(h) /\ (~h.stopped => r \in Owed(Armed(h, r)))
<1> DEFINE g == Armed(h, r)
<1>1. /\ g \in Hosts /\ g.pending = h.pending /\ g.queue = h.queue
      /\ g.running = h.running /\ g.limit = h.limit /\ g.stopped = h.stopped
      /\ g.waiters = h.waiters /\ (h.stopped => g.armed \subseteq h.armed)
      /\ ~h.stopped => g.armed = h.armed \cup {r}
  BY DEF Sound, Hosts, Armed
<1> HIDE DEF g
<1>2. Owed(h) \subseteq Owed(g)
  BY <1>1 DEF Owed, Sound, Quiet
<1>3. g \in Later(h) /\ (~h.stopped => r \in Owed(g))
  BY <1>1, <1>2, SameQueueIsLater DEF Owed
<1>4. QED
  BY <1>3 DEF g

LEMMA WaitingAppliedIsLater ==
  ASSUME NEW h \in Sound, NEW r \in Runs
  PROVE  WaitingApplied(h, r) \in Later(h)
<1> DEFINE timed == IF pass[r].wake THEN Armed(h, r) ELSE h
           g == [timed EXCEPT !.waiters = @ \cup {r}]
<1>1. timed \in Later(h)
  BY ArmedIsLater, SoundIsLater
<1> HIDE DEF timed
<1>2. CASE ~h.stopped
  <2>1. timed \in Sound /\ timed \in Hosts /\ ~timed.stopped
    BY <1>1, <1>2 DEF Later, Sound
  <2>2. /\ g \in Hosts /\ g.pending = timed.pending /\ g.queue = timed.queue
        /\ g.running = timed.running /\ g.limit = timed.limit /\ g.stopped = timed.stopped
        /\ g.armed = timed.armed
    BY <2>1 DEF Hosts
  <2> HIDE DEF g
  <2>3. g \in Later(timed)
    BY <2>1, <2>2, SameQueueIsLater DEF Owed
  <2>4. g \in Later(h)
    BY <1>1, <2>3, LaterIsTransitive
  <2>5. QED
    BY <1>1, <2>4 DEF WaitingApplied, g, timed
<1>3. CASE h.stopped
  BY <1>1, <1>3 DEF WaitingApplied, timed
<1>4. QED
  BY <1>2, <1>3

\* The pass of r returned, for a reason.
LEMMA AppliedIsLater ==
  ASSUME NEW h \in Sound, NEW r \in h.running, pass[r].stop \in StopReasons \ {"none"}
  PROVE  /\ Applied(h, r) \in Later(h)
         /\ ~h.stopped /\ pass[r].stop \in {"failure", "action_limit"} => r \in Owed(Applied(h, r))
<1>1. r \in Runs /\ h \in Hosts /\ h \in Later(h)
  BY SoundIsLater DEF Sound, Hosts
<1>2. CASE pass[r].stop = "failure"
  BY <1>1, <1>2, ArmedIsLater DEF Applied
<1>3. CASE pass[r].stop = "action_limit"
  <2> DEFINE g == [h EXCEPT !.pending = @ \cup {r}]
  <2>1. /\ g \in Hosts /\ g.pending = h.pending \cup {r} /\ g.queue = h.queue
        /\ g.running = h.running /\ g.limit = h.limit /\ g.stopped = h.stopped
        /\ g.armed = h.armed /\ g.waiters = h.waiters
    BY <1>1 DEF Hosts
  <2>2. Applied(h, r) = OthersQueued(g, r)
    BY <1>3 DEF Applied
  <2> HIDE DEF g
  <2>3. g \in Later(h) /\ Served(h, g, {r}) /\ r \in g.running
    BY <2>1, SameQueueIsLater DEF Owed, Served
  <2>4. g \in Sound
    BY <2>3 DEF Later
  <2>5. OthersQueued(g, r) \in Later(g)
    BY <1>1, <2>4, OthersQueuedIsLater
  <2>6. r \in Owed(OthersQueued(g, r))
    BY <2>3, <2>5 DEF Later, Served, Owed
  <2>7. QED
    BY <2>2, <2>3, <2>5, <2>6, LaterIsTransitive
<1>4. CASE pass[r].stop = "waiting"
  <2> DEFINE g == WaitingApplied(h, r)
  <2>1. Applied(h, r) = OthersQueued(g, r)
    BY <1>4 DEF Applied
  <2>2. g \in Later(h)
    BY <1>1, WaitingAppliedIsLater
  <2> HIDE DEF g
  <2>3. g \in Sound
    BY <2>2 DEF Later
  <2>4. OthersQueued(g, r) \in Later(g)
    BY <1>1, <2>3, OthersQueuedIsLater
  <2>5. QED
    BY <1>4, <2>1, <2>2, <2>4, LaterIsTransitive
<1>5. CASE pass[r].stop \in {"quiescent", "run_terminal"}
  <2>1. Applied(h, r) = OthersQueued(h, r)
    BY <1>5 DEF Applied
  <2>2. QED
    BY <1>1, <1>5, <2>1, OthersQueuedIsLater
<1>6. QED
  BY <1>2, <1>3, <1>4, <1>5 DEF StopReasons

-----------------------------------------------------------------------------
(***************************************************************************)
(* The steps.                                                              *)
(***************************************************************************)
LEMMA HostIsSound == HostInv => host \in Sound
BY DEF HostInv, HostTypeOK, PassesFit, NoMarkLost, StoppedIsQuiet, Sound

LEMMA AttemptsAreCounted ==
  ASSUME HostInv
  PROVE  IsFiniteSet(executing) /\ Cardinality(executing) \in Nat
<1>1. IsFiniteSet(executing)
  BY HostAssumption, FS_Subset DEF HostInv, HostTypeOK
<1>2. QED
  BY <1>1, FS_CardinalityType

\* A step outside every pass.
LEMMA OutsideKeeps ==
  ASSUME HostInv, host' \in Later(host), executing' \subseteq executing,
         pass' = pass, stopCall' = stopCall,
         need' \in [Runs -> Needs], recorded' \subseteq Recording, booted' \in BOOLEAN
  PROVE  HostInv'
<1>1. /\ host' \in Sound /\ host'.stopped = host.stopped /\ host.running \subseteq host'.running
      /\ host.stopped => host'.running = host.running
  BY DEF Later
<1>2. HostTypeOK'
  BY <1>1 DEF HostInv, HostTypeOK, Sound
<1>3. PassesFit' /\ NoMarkLost' /\ StoppedIsQuiet'
  BY <1>1 DEF Sound, PassesFit, NoMarkLost, StoppedIsQuiet
<1>4. OutcomesHaveReasons' /\ FreshBetween' /\ AttemptsHavePasses'
  BY <1>1 DEF HostInv, OutcomesHaveReasons, FreshBetween, AttemptsHavePasses
<1>5. LeasesFit'
  <2>1. Cardinality(executing') <= Cardinality(executing) /\ Cardinality(executing') \in Nat
    BY AttemptsAreCounted, FS_Subset, FS_CardinalityType
  <2>2. QED
    BY <2>1, AttemptsAreCounted, HostAssumption DEF HostInv, LeasesFit
<1>6. StopCalled' /\ StopMeansStopped'
  BY <1>1 DEF HostInv, StopCalled, StopMeansStopped
<1>7. QED
  BY <1>2, <1>3, <1>4, <1>5, <1>6 DEF HostInv

\* A step of the pass of r, which goes on.
LEMMA InsideKeeps ==
  ASSUME HostInv, NEW r \in host.running, NEW p \in Passes, host' \in Later(host),
         pass' = [pass EXCEPT ![r] = p],
         p.phase \in {"finishing", "returned"} => p.stop # "none",
         executing' \subseteq executing \cup {r}, Cardinality(executing') <= Slots,
         r \in executing' => p.phase \in InLoop \cup {"finishing"},
         stopCall' = stopCall,
         need' \in [Runs -> Needs], recorded' \subseteq Recording, booted' \in BOOLEAN
  PROVE  HostInv'
<1>1. /\ host' \in Sound /\ host'.stopped = host.stopped /\ host.running \subseteq host'.running
      /\ host.stopped => host'.running = host.running
  BY DEF Later
<1>2. r \in Runs /\ pass \in [Runs -> Passes] /\ executing \subseteq Runs
  BY DEF HostInv, HostTypeOK, Hosts
<1>3. \A q \in Runs : pass'[q] = IF q = r THEN p ELSE pass[q]
  BY <1>2
<1>4. HostTypeOK'
  BY <1>1, <1>2 DEF HostInv, HostTypeOK, Sound
<1>5. PassesFit' /\ NoMarkLost' /\ StoppedIsQuiet'
  BY <1>1 DEF Sound, PassesFit, NoMarkLost, StoppedIsQuiet
<1>6. OutcomesHaveReasons'
  BY <1>3 DEF HostInv, OutcomesHaveReasons
<1>7. FreshBetween'
  BY <1>1, <1>3 DEF HostInv, FreshBetween
<1>8. AttemptsHavePasses'
  BY <1>1, <1>2, <1>3 DEF HostInv, AttemptsHavePasses
<1>9. LeasesFit'
  BY DEF LeasesFit
<1>10. StopCalled' /\ StopMeansStopped'
  BY <1>1 DEF HostInv, StopCalled, StopMeansStopped
<1>11. QED
  BY <1>4, <1>5, <1>6, <1>7, <1>8, <1>9, <1>10 DEF HostInv

LEMMA NeedsWhole ==
  ASSUME HostInv
  PROVE  /\ need \in [Runs -> Needs] /\ pass \in [Runs -> Passes] /\ executing \subseteq Runs
         /\ host.running \subseteq Runs /\ Recording \subseteq Runs
BY HostAssumption DEF HostInv, HostTypeOK, Hosts

LEMMA SameHostIsLater == HostInv => host \in Later(host)
BY HostIsSound, SoundIsLater

LEMMA ActsIs ==
  ASSUME HostInv, NEW r \in Runs, NEW phase \in InLoop, Acts(r, phase)
  PROVE  /\ r \in host.running /\ ~host.stopped /\ pass[r].phase = "looping"
         /\ host' = host /\ stopCall' = stopCall /\ booted' = booted
         /\ \E p \in Passes : pass' = [pass EXCEPT ![r] = p] /\ p.phase = phase
<1> DEFINE p == [pass[r] EXCEPT !.done = @ + 1, !.phase = phase]
<1>1. pass[r] \in Passes /\ pass[r].phase = "looping"
  BY DEF HostInv, HostTypeOK, Acts, Looping, Stands
<1>2. p \in Passes /\ p.phase = phase
  <2> DEFINE mid == [pass[r] EXCEPT !.done = @ + 1]
  <2>1. mid \in Passes
    BY <1>1 DEF Passes
  <2>2. p = [mid EXCEPT !.phase = phase]
    BY <1>1 DEF Passes
  <2> HIDE DEF mid, p
  <2>3. QED
    BY <2>1, <2>2 DEF Passes
<1>3. pass' = [pass EXCEPT ![r] = p]
  BY DEF Acts
<1>4. QED
  BY <1>1, <1>2, <1>3 DEF Acts, Looping, Stands, PassLimited

\* The steps that perform an action, or begin one that awaits.
Action(r) ==
  \/ ResumeRun(r) \/ WaitRun(r) \/ ExecuteInvocation(r) \/ PerformAction(r)
  \/ AwaitContinuation(r) \/ AwaitAction(r)

LEMMA ActionIs ==
  ASSUME HostInv, NEW r \in Runs, Action(r)
  PROVE  /\ r \in host.running /\ ~host.stopped /\ pass[r].phase = "looping"
         /\ need[r] # "terminal" /\ HasAction(r)
         /\ host' = host /\ stopCall' = stopCall /\ booted' = booted
         /\ \E p \in Passes : pass' = [pass EXCEPT ![r] = p] /\ p.phase \in InLoop
<1>1. PICK phase \in InLoop : Acts(r, phase)
  BY DEF Action, ResumeRun, WaitRun, ExecuteInvocation, PerformAction, AwaitContinuation,
     AwaitAction, InLoop
<1>2. /\ r \in host.running /\ ~host.stopped /\ pass[r].phase = "looping"
      /\ host' = host /\ stopCall' = stopCall /\ booted' = booted
      /\ \E p \in Passes : pass' = [pass EXCEPT ![r] = p] /\ p.phase = phase
  BY <1>1, ActsIs
<1>3. need[r] # "terminal" /\ HasAction(r)
  BY <1>1 DEF Acts
<1>4. QED
  BY <1>2, <1>3

\* A step that ends the await inside an action.
AwaitEnds(r) == PrepareResumed(r) \/ CommitAction(r)

LEMMA AwaitEndsIs ==
  ASSUME HostInv, NEW r \in Runs, AwaitEnds(r)
  PROVE  /\ r \in host.running /\ pass[r].phase \in {"preparing", "acting"}
         /\ UNCHANGED <<recorded, host, stopCall, booted>>
         /\ \E p \in Passes : pass' = [pass EXCEPT ![r] = p] /\ p.phase = "looping"
<1> DEFINE p == [pass[r] EXCEPT !.phase = "looping"]
<1>1. p \in Passes /\ p.phase = "looping"
  BY DEF HostInv, HostTypeOK, Passes, InLoop
<1>2. pass' = [pass EXCEPT ![r] = p]
  BY DEF AwaitEnds, PrepareResumed, CommitAction
<1>3. QED
  BY <1>1, <1>2 DEF AwaitEnds, PrepareResumed, CommitAction, Stands

\* What either does to the Runs' needs and to the executing Attempts.
LEMMA WorkOf ==
  ASSUME HostInv, NEW r \in Runs, Action(r) \/ AwaitEnds(r)
  PROVE  /\ need' \in [Runs -> Needs] /\ \A q \in Runs \ {r} : need'[q] = need[q]
         /\ need'[r] = "timed" => need[r] = "timed" \/ r \in Timed
         /\ executing' = executing \/ (executing' = executing \cup {r} /\ ~Full)
         /\ executing' = executing \/ ExecuteInvocation(r) \/ PrepareResumed(r)
         /\ \A q \in Runs \ {r} : q \in recorded => q \in recorded'
<1>1. need \in [Runs -> Needs]
  BY DEF HostInv, HostTypeOK
<1>2. \A left \in Leaves(r) \cup Left(r) :
        left \in Needs /\ (left = "timed" => r \in Timed)
  BY DEF Leaves, Left, Needs
<1>3. CASE ResumeRun(r) \/ WaitRun(r) \/ AwaitContinuation(r) \/ AwaitAction(r)
  BY <1>1, <1>3 DEF ResumeRun, WaitRun, AwaitContinuation, AwaitAction
<1>4. CASE ExecuteInvocation(r)
  BY <1>1, <1>4 DEF ExecuteInvocation, Commits, HasWork, Needs
<1>5. CASE PerformAction(r)
  BY <1>1, <1>2, <1>5 DEF PerformAction
<1>6. CASE CommitAction(r)
  BY <1>1, <1>2, <1>6 DEF CommitAction
<1>7. CASE PrepareResumed(r)
  <2>1. CASE need[r] # "terminal" /\ ~Full /\ Commits(r)
    BY <1>1, <1>7, <2>1 DEF Commits, PrepareResumed, Needs
  <2>2. CASE UNCHANGED <<need, executing>>
    BY <1>1, <1>7, <2>2 DEF PrepareResumed
  <2>3. CASE /\ UNCHANGED executing
             /\ \E left \in Leaves(r) \ {"execute"} : need' = [need EXCEPT ![r] = left]
    BY <1>1, <1>2, <1>7, <2>3 DEF PrepareResumed
  <2>4. QED
    BY <1>7, <2>1, <2>2, <2>3 DEF PrepareResumed
<1>8. QED
  BY <1>3, <1>4, <1>5, <1>6, <1>7 DEF Action, AwaitEnds

LEMMA ActionKeeps ==
  ASSUME HostInv, NEW r \in Runs, Action(r) \/ AwaitEnds(r)
  PROVE  HostInv'
<1>1. /\ r \in host.running /\ host' = host /\ stopCall' = stopCall /\ booted' = booted
      /\ \E p \in Passes : pass' = [pass EXCEPT ![r] = p] /\ p.phase \in InLoop
  BY ActionIs, AwaitEndsIs DEF InLoop
<1>2. PICK p \in Passes : pass' = [pass EXCEPT ![r] = p] /\ p.phase \in InLoop
  BY <1>1
<1>3. p.phase \notin {"finishing", "returned"}
  BY <1>2 DEF InLoop
<1>4. host' \in Later(host) /\ booted' \in BOOLEAN /\ Cardinality(executing) <= Slots
  BY <1>1, SameHostIsLater DEF HostInv, HostTypeOK, LeasesFit
<1>5. need' \in [Runs -> Needs]
  BY WorkOf
<1>6. recorded' \subseteq Recording
  <2>1. CASE WaitRun(r)
    BY <2>1, ActionIs DEF Action, HostInv, HostTypeOK, WaitRun, HasAction, HasWork, Refused
  <2>2. CASE ~WaitRun(r)
    BY <2>2, AwaitEndsIs DEF Action, HostInv, HostTypeOK, ResumeRun, ExecuteInvocation,
       PerformAction, AwaitContinuation, AwaitAction
  <2>3. QED
    BY <2>1, <2>2
<1>7. executing' \subseteq executing \cup {r} /\ Cardinality(executing') <= Slots
  <2>1. CASE executing' = executing \cup {r} /\ ~Full
    <3>1. Cardinality(executing \cup {r}) =
            IF r \in executing THEN Cardinality(executing) ELSE Cardinality(executing) + 1
      BY AttemptsAreCounted, FS_AddElement
    <3>2. Cardinality(executing \cup {r}) \in Nat
      BY AttemptsAreCounted, FS_AddElement, FS_CardinalityType
    <3>3. QED
      BY <2>1, <3>1, <3>2, AttemptsAreCounted, HostAssumption DEF Full
  <2>2. CASE executing' = executing
    BY <1>4, <2>2
  <2>3. QED
    BY <2>1, <2>2, WorkOf
<1>8. QED
  BY <1>1, <1>2, <1>3, <1>4, <1>5, <1>7, <1>6, InsideKeeps

\* The loop of a pass ends, or its finish returns.
LEMMA PhaseKeeps ==
  ASSUME HostInv, NEW r \in Runs, EndLoop(r) \/ FailPass(r) \/ FinishPass(r)
  PROVE  HostInv'
<1>1. /\ r \in host.running /\ UNCHANGED <<need, recorded, executing, host, stopCall, booted>>
  BY DEF EndLoop, FailPass, FinishPass, Looping, Stands
<1>2. pass[r] \in Passes
  BY DEF HostInv, HostTypeOK
<1>3. \E p \in Passes :
        /\ pass' = [pass EXCEPT ![r] = p] /\ p.stop # "none"
        /\ p.phase = "finishing" \/ (p.phase = "returned" /\ r \notin executing)
  <2>1. \A reason \in StopReasons :
          /\ Finishing(reason) \in Passes
          /\ Finishing(reason).phase = "finishing" /\ Finishing(reason).stop = reason
    BY DEF Finishing, FreshPass, Passes, StopReasons
  <2>2. CASE EndLoop(r)
    BY <2>1, <2>2 DEF EndLoop
  <2>3. CASE FailPass(r)
    BY <2>1, <2>3 DEF FailPass, StopReasons
  <2>4. CASE FinishPass(r)
    <3> DEFINE p == [pass[r] EXCEPT !.phase = "returned", !.capacity = Refused(r),
                                    !.wake = need[r] = "timed"]
    <3>1. p \in Passes /\ p.phase = "returned" /\ p.stop = pass[r].stop
      BY <1>2 DEF Passes, Refused
    <3>2. pass' = [pass EXCEPT ![r] = p]
      BY <2>4 DEF FinishPass
    <3>3. pass[r].stop # "none" /\ r \notin executing
      BY <2>4 DEF FinishPass, Stands, HostInv, OutcomesHaveReasons
    <3>4. QED
      BY <3>1, <3>2, <3>3
  <2>5. QED
    BY <2>2, <2>3, <2>4
<1>4. QED
  BY <1>1, <1>3, SameHostIsLater, InsideKeeps DEF HostInv, HostTypeOK, LeasesFit

LEMMA ApplyOutcomeKeeps ==
  ASSUME HostInv, NEW r \in Runs, ApplyOutcome(r)
  PROVE  HostInv' /\ host' \in Later(host)
<1>1. /\ r \in host.running /\ pass[r].phase = "returned"
      /\ UNCHANGED <<recorded, executing, stopCall, booted>>
  BY DEF ApplyOutcome, Stands
<1>2. pass[r].stop \in StopReasons \ {"none"} /\ r \notin executing
  BY <1>1 DEF HostInv, HostTypeOK, Passes, OutcomesHaveReasons, AttemptsHavePasses, InLoop
<1>3. host' \in Later(host) /\ need' \in [Runs -> Needs]
  <2>1. CASE host' = Applied(host, r) /\ UNCHANGED need
    BY <1>1, <1>2, <2>1, HostIsSound, AppliedIsLater DEF HostInv, HostTypeOK
  <2>2. ASSUME NEW q \in Runs, need' = [need EXCEPT ![q] = "act"],
               host' = Applied(Notified(host, q), r)
        PROVE  host' \in Later(host) /\ need' \in [Runs -> Needs]
    <3> DEFINE g == Notified(host, q)
    <3>1. g \in Later(host)
      BY HostIsSound, NotifiedIsLater
    <3> HIDE DEF g
    <3>2. g \in Sound /\ r \in g.running
      BY <1>1, <3>1 DEF Later
    <3>3. Applied(g, r) \in Later(g)
      BY <1>2, <3>2, AppliedIsLater
    <3>4. host' \in Later(host)
      BY <2>2, <3>1, <3>3, LaterIsTransitive DEF g
    <3>5. QED
      BY <2>2, <3>4 DEF HostInv, HostTypeOK, Needs
  <2>3. QED
    BY <2>1, <2>2 DEF ApplyOutcome
<1> DEFINE p == [FreshPass EXCEPT !.phase = "applied"]
<1>4. p \in Passes /\ p.phase = "applied" /\ pass' = [pass EXCEPT ![r] = p]
  BY DEF FreshPass, Passes, StopReasons, InLoop, ApplyOutcome
<1> HIDE DEF p
<1>5. Cardinality(executing') <= Slots /\ recorded' \subseteq Recording /\ booted' \in BOOLEAN
  BY <1>1 DEF HostInv, HostTypeOK, LeasesFit
<1>6. QED
  BY <1>1, <1>2, <1>3, <1>4, <1>5, InsideKeeps

\* The end of a pass: its Run has no Attempt, and goes back to the queue with its mark.
LEMMA RequeuedIs ==
  ASSUME NEW h \in Sound, NEW r \in Runs
  PROVE  /\ Requeued(h, r) \in Sound
         /\ Requeued(h, r).running = h.running \ {r}
         /\ Requeued(h, r).stopped = h.stopped
<1> DEFINE queue == IF r \in h.pending THEN Append(h.queue, r) ELSE h.queue
           g == [h EXCEPT !.running = @ \ {r}, !.queue = queue]
<1>1. h \in Hosts /\ h.queue \in Seq(Runs) /\ Len(h.queue) \in Nat
  BY DEF Sound, Hosts
<1>2. /\ queue \in Seq(Runs)
      /\ \A i \in 1..Len(h.queue) : i \in 1..Len(queue) /\ queue[i] = h.queue[i]
      /\ r \in h.pending => (Len(h.queue) + 1 \in 1..Len(queue) /\ queue[Len(h.queue) + 1] = r)
  BY <1>1
<1> HIDE DEF queue
<1>3. /\ g \in Hosts /\ g.pending = h.pending /\ g.queue = queue
      /\ g.running = h.running \ {r} /\ g.limit = h.limit /\ g.stopped = h.stopped
      /\ g.armed = h.armed /\ g.waiters = h.waiters
  BY <1>1, <1>2 DEF Hosts
<1>4. Requeued(h, r) = g
  BY DEF Requeued, queue
<1>5. KeepsMarks(g)
  BY <1>2, <1>3 DEF KeepsMarks, Sound
<1>6. Fits(g)
  <2>1. Cardinality(h.running \ {r}) <= Cardinality(h.running) /\ Cardinality(h.running \ {r}) \in Nat
    BY <1>1, RunningIsCounted, FS_Subset, FS_CardinalityType
  <2>2. QED
    BY <1>1, <1>3, <2>1, RunningIsCounted DEF Fits, Sound
<1>7. Quiet(g)
  BY <1>3 DEF Quiet, Sound
<1>8. QED
  BY <1>3, <1>4, <1>5, <1>6, <1>7 DEF Sound

LEMMA EndPassKeeps ==
  ASSUME HostInv, NEW r \in Runs, EndPass(r)
  PROVE  HostInv' /\ (host.stopped => host'.running \subseteq host.running)
<1> DEFINE g == Requeued(host, r)
<1>1. /\ r \in host.running /\ pass[r].phase = "applied" /\ host' = Drained(g)
      /\ stopCall' = IF stopCall = "waiting" /\ Idle(g) THEN "resolved" ELSE stopCall
      /\ pass' = [pass EXCEPT ![r] = FreshPass]
      /\ UNCHANGED <<need, recorded, executing, booted>>
  BY DEF EndPass, Stands, IdleAfter
<1>2. g \in Sound /\ g.running = host.running \ {r} /\ g.stopped = host.stopped
  BY HostIsSound, RequeuedIs
<1> HIDE DEF g
<1>3. host' \in Later(g)
  BY <1>1, <1>2, DrainedIsLater
<1>4. /\ host' \in Sound /\ host'.stopped = host.stopped
      /\ host.running \ {r} \subseteq host'.running
      /\ host.stopped => host'.running = host.running \ {r}
  BY <1>2, <1>3 DEF Later
<1>5. pass \in [Runs -> Passes] /\ FreshPass \in Passes
  BY DEF HostInv, HostTypeOK, FreshPass, Passes, StopReasons, InLoop
<1>6. \A q \in Runs : pass'[q] = IF q = r THEN FreshPass ELSE pass[q]
  BY <1>1, <1>5
<1>7. HostTypeOK'
  BY <1>1, <1>4, <1>5 DEF HostInv, HostTypeOK, Sound
<1>8. PassesFit' /\ NoMarkLost' /\ StoppedIsQuiet'
  BY <1>4 DEF Sound, PassesFit, NoMarkLost, StoppedIsQuiet
<1>9. OutcomesHaveReasons'
  BY <1>6 DEF HostInv, OutcomesHaveReasons, FreshPass
<1>10. FreshBetween'
  BY <1>4, <1>6 DEF HostInv, FreshBetween
<1>11. r \notin executing
  BY <1>1 DEF HostInv, AttemptsHavePasses, InLoop
<1>12. AttemptsHavePasses'
  BY <1>1, <1>4, <1>6, <1>11 DEF HostInv, AttemptsHavePasses, HostTypeOK
<1>13. LeasesFit'
  BY <1>1 DEF HostInv, LeasesFit
<1>14. StopCalled' /\ StopMeansStopped'
  <2>1. StopCalled'
    BY <1>1, <1>4 DEF HostInv, StopCalled
  <2>2. ASSUME stopCall' = "resolved"
        PROVE  host'.running = {} /\ executing' = {}
    <3>1. host.running \ {r} = {} /\ host.stopped
      BY <1>1, <1>2, <2>2 DEF HostInv, StopCalled, StopMeansStopped, Idle
    <3>2. host'.running = {}
      BY <1>4, <3>1
    <3>3. QED
      BY <1>12, <3>2 DEF AttemptsHavePasses
  <2>3. QED
    BY <2>1, <2>2 DEF StopMeansStopped
<1>15. QED
  BY <1>4, <1>7, <1>8, <1>9, <1>10, <1>12, <1>13, <1>14 DEF HostInv

LEMMA OutsideStep ==
  ASSUME HostInv, NEW r \in Runs,
         EndAttempt(r) \/ OperatorAct(r) \/ TimePasses(r) \/ TimerFires(r)
  PROVE  HostInv' /\ host' \in Later(host) /\ executing' \subseteq executing
<1>1. host' \in Later(host)
  <2>1. CASE EndAttempt(r)
    <3>1. CapacityWaiters \in SUBSET Runs
      BY HostAssumption DEF CapacityWaiters, HostInv, HostTypeOK, Hosts
    <3>2. PICK order \in SetToSeqs(CapacityWaiters) : host' = NotifiedAll(host, order)
      BY <2>1 DEF EndAttempt
    <3>3. QED
      BY <3>1, <3>2, RunsAreSequences, HostIsSound, NotifiedAllIsLater
  <2>2. CASE OperatorAct(r)
    BY <2>2, HostIsSound, NotifiedIsLater DEF OperatorAct
  <2>3. CASE TimePasses(r)
    BY <2>3, SameHostIsLater DEF TimePasses
  <2>4. CASE TimerFires(r)
    BY <2>4, HostIsSound, NotifiedIsLater DEF TimerFires, Untimed
  <2>5. QED
    BY <2>1, <2>2, <2>3, <2>4
<1>2. pass' = pass /\ stopCall' = stopCall /\ executing' \subseteq executing
  BY DEF EndAttempt, OperatorAct, TimePasses, TimerFires
<1>3. need' \in [Runs -> Needs]
  <2>1. \A left \in Left(r) : left \in Needs
    BY DEF Left, Leaves, Needs
  <2>2. QED
    BY <2>1 DEF EndAttempt, OperatorAct, TimePasses, TimerFires, HostInv, HostTypeOK,
         Needs
<1>4. recorded' \subseteq Recording /\ booted' \in BOOLEAN
  BY DEF EndAttempt, OperatorAct, TimePasses, TimerFires, HostInv, HostTypeOK
<1>5. QED
  BY <1>1, <1>2, <1>3, <1>4, OutsideKeeps

LEMMA ReconstructStep ==
  ASSUME HostInv, Reconstruct
  PROVE  HostInv' /\ host' \in Later(host) /\ executing' = executing
<1> DEFINE S == {r \in Runs : need[r] # "terminal"}
<1>1. PICK order \in SetToSeqs(S) : host' = NotifiedAll(host, order)
  BY DEF Reconstruct
<1>2. S \in SUBSET Runs
  OBVIOUS
<1> HIDE DEF S
<1>3. host' \in Later(host)
  BY <1>1, <1>2, RunsAreSequences, HostIsSound, NotifiedAllIsLater
<1>4. QED
  BY <1>3, OutsideKeeps DEF Reconstruct, HostInv, HostTypeOK

LEMMA StopKeeps ==
  ASSUME HostInv, Stop
  PROVE  HostInv'
<1> DEFINE g == [host EXCEPT !.stopped = TRUE, !.waiters = {}, !.armed = {}, !.queue = <<>>,
                             !.pending = {}]
<1>1. host' = g /\ UNCHANGED <<need, recorded, executing, pass, booted>>
      /\ stopCall' = IF host.running = {} THEN "resolved" ELSE "waiting"
  BY DEF Stop
<1>2. /\ g \in Hosts /\ g.pending = {} /\ g.running = host.running /\ g.limit = host.limit
      /\ g.stopped /\ g.armed = {} /\ g.waiters = {}
  <2>1. host \in Hosts /\ <<>> \in Seq(Runs)
    BY DEF HostInv, HostTypeOK
  <2>2. QED
    BY <2>1 DEF Hosts
<1> HIDE DEF g
<1>3. HostTypeOK'
  BY <1>1, <1>2 DEF HostInv, HostTypeOK
<1>4. PassesFit' /\ NoMarkLost' /\ StoppedIsQuiet'
  BY <1>1, <1>2 DEF HostInv, PassesFit, NoMarkLost, StoppedIsQuiet, Fits, KeepsMarks, Quiet
<1>5. OutcomesHaveReasons' /\ FreshBetween' /\ AttemptsHavePasses' /\ LeasesFit'
  BY <1>1, <1>2 DEF HostInv, OutcomesHaveReasons, FreshBetween, AttemptsHavePasses, LeasesFit
<1>6. StopCalled' /\ StopMeansStopped'
  BY <1>1, <1>2 DEF HostInv, StopCalled, StopMeansStopped, AttemptsHavePasses
<1>7. QED
  BY <1>3, <1>4, <1>5, <1>6 DEF HostInv

LEMMA InitHost == HostInit => HostInv
<1> SUFFICES ASSUME HostInit PROVE HostInv
  OBVIOUS
<1>1. PICK limit \in ConcurrencyLimits : host = NewHost(limit)
  BY DEF HostInit
<1>2. /\ host \in Hosts /\ host.limit = limit /\ host.pending = {} /\ host.running = {}
      /\ host.armed = {} /\ host.waiters = {} /\ host.stopped = FALSE
  BY <1>1 DEF NewHost, Hosts
<1>3. FreshPass \in Passes
  BY DEF FreshPass, Passes, StopReasons, InLoop
<1>4. HostTypeOK
  BY <1>2, <1>3, HostAssumption DEF HostInit, HostTypeOK
<1>5. PassesFit /\ LeasesFit
  BY <1>2, HostAssumption, FS_EmptySet DEF HostInit, PassesFit, Fits, LeasesFit
<1>6. NoMarkLost /\ StoppedIsQuiet
  BY <1>2 DEF NoMarkLost, KeepsMarks, StoppedIsQuiet, Quiet
<1>7. OutcomesHaveReasons /\ FreshBetween /\ AttemptsHavePasses /\ StopCalled /\ StopMeansStopped
  BY <1>2 DEF HostInit, FreshPass, OutcomesHaveReasons, FreshBetween, AttemptsHavePasses,
       StopCalled, StopMeansStopped
<1>8. QED
  BY <1>4, <1>5, <1>6, <1>7 DEF HostInv

\* What a stopped host's step does not begin.
StartsNothing ==
  host.stopped =>
    /\ host'.running \subseteq host.running
    /\ Underway' \subseteq Underway
    /\ Preparing' \subseteq Preparing
    /\ executing' \ executing \subseteq Preparing \ Preparing'

\* A step that commits no Attempt begins nothing if its passes only leave what they await.
LEMMA BeginsNothing ==
  ASSUME host.stopped => host'.running \subseteq host.running,
         executing' \subseteq executing,
         \A q \in host'.running :
           pass'[q].phase \in {"preparing", "acting"} => pass'[q].phase = pass[q].phase
  PROVE  StartsNothing
BY DEF StartsNothing, Underway, Preparing

LEMMA NextHost ==
  ASSUME HostInv, [HostNext]_hostVars
  PROVE  HostInv' /\ StartsNothing
<1>1. ASSUME NEW r \in Runs, Action(r)
      PROVE  HostInv' /\ StartsNothing
  BY <1>1, ActionIs, ActionKeeps DEF StartsNothing
<1>2. ASSUME NEW r \in Runs, AwaitEnds(r)
      PROVE  HostInv' /\ StartsNothing
  <2>1. HostInv'
    BY <1>2, ActionKeeps
  <2>2. /\ r \in host.running /\ host' = host /\ pass'[r].phase = "looping"
        /\ \A q \in Runs \ {r} : pass'[q] = pass[q]
    BY <1>2, AwaitEndsIs, NeedsWhole
  <2>3. Underway' \subseteq Underway /\ Preparing' \subseteq Preparing \ {r}
    BY <2>2, NeedsWhole DEF Underway, Preparing
  <2>4. executing' \ executing \subseteq Preparing \ Preparing'
    <3>1. CASE executing' = executing
      BY <3>1
    <3>2. CASE ExecuteInvocation(r) \/ PrepareResumed(r)
      <4>1. pass[r].phase = "preparing" /\ executing' \subseteq executing \cup {r}
        BY <1>2, <3>2, AwaitEndsIs, WorkOf
           DEF ExecuteInvocation, PrepareResumed, Acts, Looping, Stands
      <4>2. QED
        BY <2>2, <2>3, <4>1 DEF Preparing
    <3>3. QED
      BY <1>2, <3>1, <3>2, WorkOf
  <2>5. QED
    BY <2>1, <2>2, <2>3, <2>4 DEF StartsNothing
<1>3. ASSUME NEW r \in Runs, EndLoop(r) \/ FailPass(r) \/ FinishPass(r) \/ ApplyOutcome(r)
      PROVE  HostInv' /\ StartsNothing
  <2>1. HostInv' /\ executing' = executing
    BY <1>3, PhaseKeeps, ApplyOutcomeKeeps DEF EndLoop, FailPass, FinishPass, ApplyOutcome
  <2>2. host.stopped => host'.running \subseteq host.running
    BY <1>3, ApplyOutcomeKeeps DEF EndLoop, FailPass, FinishPass, Later
  <2>3. /\ pass'[r].phase \notin {"preparing", "acting"}
        /\ \A q \in Runs \ {r} : pass'[q] = pass[q]
    <3>1. pass[r] \in Passes /\ \A reason \in StopReasons : Finishing(reason).phase = "finishing"
      BY NeedsWhole DEF Finishing, FreshPass
    <3>2. QED
      BY <1>3, <3>1, NeedsWhole
         DEF EndLoop, FailPass, FinishPass, ApplyOutcome, StopReasons, FreshPass, Passes
  <2>4. \A q \in host'.running :
          pass'[q].phase \in {"preparing", "acting"} => pass'[q].phase = pass[q].phase
    BY <2>1, <2>3 DEF HostInv, HostTypeOK, Hosts
  <2>5. QED
    BY <2>1, <2>2, <2>4, BeginsNothing
<1>4. ASSUME NEW r \in Runs, EndPass(r)
      PROVE  HostInv' /\ StartsNothing
  <2>1. HostInv' /\ executing' = executing /\ pass' = [pass EXCEPT ![r] = FreshPass]
    BY <1>4, EndPassKeeps DEF EndPass
  <2>2. host.stopped => host'.running \subseteq host.running
    BY <1>4, EndPassKeeps DEF EndPass
  <2>3. \A q \in host'.running :
          pass'[q].phase \in {"preparing", "acting"} => pass'[q].phase = pass[q].phase
    BY <2>1, NeedsWhole DEF HostInv, HostTypeOK, Hosts, FreshPass
  <2>4. QED
    BY <2>1, <2>2, <2>3, BeginsNothing
<1>5. ASSUME NEW r \in Runs,
             EndAttempt(r) \/ OperatorAct(r) \/ TimePasses(r) \/ TimerFires(r)
      PROVE  HostInv' /\ StartsNothing
  <2>1. HostInv' /\ host' \in Later(host) /\ executing' \subseteq executing /\ pass' = pass
    BY <1>5, OutsideStep DEF EndAttempt, OperatorAct, TimePasses, TimerFires
  <2>2. QED
    BY <2>1, BeginsNothing DEF Later
<1>6. CASE Reconstruct
  <2>1. HostInv' /\ host' \in Later(host) /\ executing' = executing /\ pass' = pass
    BY <1>6, ReconstructStep DEF Reconstruct
  <2>2. QED
    BY <2>1, BeginsNothing DEF Later
<1>7. CASE Stop
  <2>1. HostInv' /\ host'.running = host.running /\ executing' = executing /\ pass' = pass
    BY <1>7, StopKeeps DEF Stop, HostInv, HostTypeOK, Hosts
  <2>2. QED
    BY <2>1, BeginsNothing
<1>8. CASE UNCHANGED hostVars
  <2>1. UNCHANGED <<need, recorded, executing, host, pass, stopCall, booted>>
    BY <1>8 DEF hostVars
  <2>2. HostInv'
    BY <2>1, SameHostIsLater, OutsideKeeps DEF HostInv, HostTypeOK
  <2>3. QED
    BY <2>1, <2>2, BeginsNothing
<1>9. QED
  BY <1>1, <1>2, <1>3, <1>4, <1>5, <1>6, <1>7, <1>8 DEF HostNext, PassStep, Action, AwaitEnds

LEMMA HostSpecKeeps == HostSpec => []HostInv
BY InitHost, NextHost, PTL DEF HostSpec

\* Type correctness: the host's marks, queue, timers and waiters are Runs of the process, and
\* every pass stands in one of its phases (run-host.ts, RunState).
THEOREM HostTypes == HostSpec => []HostTypeOK
<1>1. HostInv => HostTypeOK
  BY DEF HostInv
<1>2. QED
  BY <1>1, HostSpecKeeps, PTL

\* drain starts no pass beyond the configured number of passes at the same time, however many
\* marks, timers and released leases come together.
THEOREM PassesFitHolds == HostSpec => []PassesFit
<1>1. HostInv => PassesFit
  BY DEF HostInv
<1>2. QED
  BY <1>1, HostSpecKeeps, PTL

\* The safety half of "no Run starves": a mark that notifyRun set is on the queue or its Run has
\* a pass, whose end puts it there; drain takes a Run from the queue only with its mark, or when
\* its pass is running.
THEOREM NoMarkLostHolds == HostSpec => []NoMarkLost
<1>1. HostInv => NoMarkLost
  BY DEF HostInv
<1>2. QED
  BY <1>1, HostSpecKeeps, PTL

\* What stop() promises when it resolves: no pass is active, and no Attempt is executing, since
\* a pass ends only after the Attempt it executes (RunHost.stop, RunScheduler.finish).
THEOREM StopMeansStoppedHolds == HostSpec => []StopMeansStopped
<1>1. HostInv => StopMeansStopped
  BY DEF HostInv
<1>2. QED
  BY <1>1, HostSpecKeeps, PTL

\* What stop() leaves open, for any Runs, limits and order of released leases: no pass starts
\* and no action begins, and an Attempt is committed only by a pass that was reading the payload
\* of its continuation, at most one by each.
THEOREM OnlyPreparedStartsAfterStopHolds == HostSpec => OnlyPreparedStartsAfterStop
<1>1. HostInv /\ [HostNext]_hostVars =>
        [host.stopped =>
           /\ host'.running \subseteq host.running
           /\ Underway' \subseteq Underway
           /\ Preparing' \subseteq Preparing
           /\ executing' \ executing \subseteq Preparing \ Preparing']_hostVars
  BY NextHost DEF StartsNothing
<1>2. QED
  BY <1>1, InitHost, NextHost, PTL DEF HostSpec, OnlyPreparedStartsAfterStop

-----------------------------------------------------------------------------
(***************************************************************************)
(* No wake-up is lost.  A pass that will project its rows once more, or    *)
(* that ends for a reason which owes its Run another pass, serves the Run; *)
(* so does a mark or a timer.  A Run nothing serves has nothing to do, or  *)
(* is known by its row to wait for a lease that is not free.               *)
(***************************************************************************)
PassServes(r) ==
  r \in host.running /\ (\/ pass[r].phase \in InLoop
                         \/ /\ pass[r].phase \in {"finishing", "returned"}
                            /\ pass[r].stop \in {"failure", "action_limit"})
IsServed(r) == r \in Owed(host) \/ PassServes(r)
Dormant(r) ==
  need[r] \in {"quiet", "terminal"} \/ (need[r] = "execute" /\ r \in recorded /\ Full)

\* A released lease, a resolved timer or a notification is never missed between two
\* projections (RunHost.pass, capacityReleased): a Run whose row records its capacity wait and that
\* has an action and no pass has a mark or a timer.
NoWakeUpLost ==
  \A r \in Recording \ Timed :
    booted /\ ~host.stopped /\ HasWork(r) /\ r \notin host.running =>
      r \in host.pending \cup host.armed

OnlyTimedWait == \A r \in Runs : need[r] = "timed" => r \in Timed
\* An Attempt still executes when its pass has left the loop only if the pass was cut short.
LeftExecuting ==
  \A r \in executing : pass[r].phase = "finishing" =>
    pass[r].stop \in {"failure", "action_limit"} \/ need[r] = "terminal"
UnservedAreDormant ==
  booted /\ ~host.stopped => \A r \in Recording \ Timed : IsServed(r) \/ Dormant(r)
WakeInv == HostInv /\ OnlyTimedWait /\ LeftExecuting /\ UnservedAreDormant

LEMMA EveryoneIsListed ==
  ASSUME NEW S \in SUBSET Runs, NEW order \in SetToSeqs(S)
  PROVE  order \in Seq(Runs) /\ S = {order[j] : j \in 1..Len(order)}
<1> DEFINE n == Cardinality(S)
<1>1. IsFiniteSet(S) /\ n \in Nat
  BY HostAssumption, FS_Subset, FS_CardinalityType
<1>2. order \in [1..n -> S] /\ order \in Seq(Runs)
  BY RunsAreSequences DEF SetToSeqs
<1>3. order \in Injection(1..n, S)
  BY <1>2 DEF SetToSeqs, Injection, IsInjective
<1>4. IsFiniteSet(1..n) /\ Cardinality(1..n) = n
  BY <1>1, FS_Interval
<1>5. order \in Surjection(1..n, S)
  BY <1>1, <1>3, <1>4, FS_Injection
<1>6. \A s \in S : \E j \in 1..n : order[j] = s
  BY <1>5 DEF Surjection
<1>7. Len(order) = n
  BY <1>1, <1>2
<1> HIDE DEF n
<1>8. QED
  BY <1>2, <1>6, <1>7

\* What serves a Run goes on serving it while its own pass stands still.
LEMMA ServiceStays ==
  ASSUME HostInv, NEW r \in Runs, host' \in Later(host), pass'[r] = pass[r],
         IsServed(r) \/ Served(host, host', {r})
  PROVE  IsServed(r)'
<1>1. CASE PassServes(r)
  BY <1>1 DEF Later, IsServed, PassServes
<1>2. CASE r \in Owed(host) \/ Served(host, host', {r})
  <2>1. r \in Owed(host') \/ r \in host'.running \ host.running
    BY <1>2 DEF Later, Served
  <2>2. CASE r \in host'.running \ host.running
    BY <2>2 DEF HostInv, FreshBetween, FreshPass, IsServed, PassServes, InLoop
  <2>3. QED
    BY <2>1, <2>2 DEF IsServed
<1>3. QED
  BY <1>1, <1>2 DEF IsServed

LEMMA WakeInit == HostInit => WakeInv
<1> SUFFICES ASSUME HostInit PROVE WakeInv
  OBVIOUS
<1>1. HostInv
  BY InitHost
<1>2. QED
  BY <1>1 DEF HostInit, WakeInv, OnlyTimedWait, LeftExecuting, UnservedAreDormant

\* An action of a pass: the pass stays in its loop.
LEMMA WakeAction ==
  ASSUME WakeInv, NEW r \in Runs, Action(r) \/ AwaitEnds(r)
  PROVE  OnlyTimedWait' /\ LeftExecuting' /\ UnservedAreDormant'
<1>1. HostInv /\ host.running \subseteq Runs /\ executing \subseteq Runs /\ Recording \subseteq Runs
  BY NeedsWhole DEF WakeInv
<1>2. /\ r \in host.running /\ host' = host /\ booted' = booted
      /\ \E p \in Passes : pass' = [pass EXCEPT ![r] = p] /\ p.phase \in InLoop
  BY <1>1, ActionIs, AwaitEndsIs DEF InLoop
<1>3. pass'[r].phase \in InLoop /\ \A q \in Runs \ {r} : pass'[q] = pass[q]
  BY <1>1, <1>2, NeedsWhole
<1>4. /\ \A q \in Runs \ {r} : need'[q] = need[q] /\ (q \in recorded => q \in recorded')
      /\ need'[r] = "timed" => need[r] = "timed" \/ r \in Timed
      /\ executing' = executing \/ (executing' = executing \cup {r} /\ ~Full)
  BY <1>1, WorkOf
<1>5. OnlyTimedWait'
  BY <1>4 DEF WakeInv, OnlyTimedWait
<1>6. LeftExecuting'
  <2>1. pass'[r].phase # "finishing"
    BY <1>3 DEF InLoop
  <2>2. QED
    BY <1>1, <1>3, <1>4, <2>1 DEF WakeInv, LeftExecuting
<1>7. ASSUME booted', ~host'.stopped, NEW q \in Recording \ Timed
      PROVE  IsServed(q)' \/ Dormant(q)'
  <2>1. CASE q = r
    BY <1>2, <1>3, <2>1 DEF IsServed, PassServes
  <2>2. CASE q # r
    <3>1. /\ q \in Runs /\ pass'[q] = pass[q] /\ need'[q] = need[q]
          /\ q \in recorded => q \in recorded'
      BY <1>1, <1>3, <1>4, <2>2
    <3>2. IsServed(q) \/ Dormant(q)
      BY <1>2, <1>7 DEF WakeInv, UnservedAreDormant
    <3>3. Dormant(q) => Dormant(q)'
      <4>1. Full => Full'
        BY <1>4 DEF Full
      <4>2. QED
        BY <3>1, <4>1 DEF Dormant
    <3>4. IsServed(q) => IsServed(q)'
      BY <1>2, <3>1 DEF IsServed, PassServes
    <3>5. QED
      BY <3>2, <3>3, <3>4
  <2>3. QED
    BY <2>1, <2>2
<1>8. QED
  BY <1>5, <1>6, <1>7 DEF UnservedAreDormant

\* The loop of a pass ends: cut short, or on a projection that offers nothing.
LEMMA WakePhase ==
  ASSUME WakeInv, NEW r \in Runs, EndLoop(r) \/ FailPass(r) \/ FinishPass(r)
  PROVE  OnlyTimedWait' /\ LeftExecuting' /\ UnservedAreDormant'
<1>1. /\ HostInv /\ r \in host.running
      /\ UNCHANGED <<need, recorded, executing, host, stopCall, booted>>
  BY DEF EndLoop, FailPass, FinishPass, Looping, Stands, WakeInv
<1>2. /\ pass \in [Runs -> Passes] /\ need \in [Runs -> Needs]
      /\ host.running \subseteq Runs /\ Recording \subseteq Runs /\ executing \subseteq Runs
  BY <1>1, NeedsWhole
<1>3. \A q \in Runs \ {r} : pass'[q] = pass[q]
  BY <1>2 DEF EndLoop, FailPass, FinishPass
<1>4. /\ EndLoop(r) \/ FailPass(r) =>
           pass'[r].phase = "finishing" /\ \E reason \in StopReasons : pass'[r].stop = reason
      /\ FailPass(r) => pass'[r].stop = "failure"
      /\ FinishPass(r) => /\ pass[r].phase = "finishing" /\ pass'[r].phase = "returned"
                          /\ pass'[r].stop = pass[r].stop
  <2>1. \A reason \in StopReasons :
          Finishing(reason).phase = "finishing" /\ Finishing(reason).stop = reason
    BY DEF Finishing, FreshPass
  <2>2. pass[r] \in Passes
    BY <1>2
  <2>3. QED
    BY <1>2, <2>1, <2>2 DEF EndLoop, FailPass, FinishPass, Stands, Passes, StopReasons
<1>5. EndLoop(r) =>
        \/ pass'[r].stop = "action_limit"
        \/ pass'[r].stop = "run_terminal" /\ need[r] = "terminal"
        \/ /\ r \notin executing
           /\ r \in Recording \ Timed => Dormant(r)
  <2>1. SUFFICES ASSUME EndLoop(r)
                 PROVE  \/ pass'[r].stop = "action_limit"
                        \/ pass'[r].stop = "run_terminal" /\ need[r] = "terminal"
                        \/ r \notin executing /\ (r \in Recording \ Timed => Dormant(r))
    OBVIOUS
  <2>2. \A reason \in StopReasons : Finishing(reason).stop = reason
    BY DEF Finishing, FreshPass
  <2>3. PICK reason \in StopReasons :
          /\ \/ reason = "run_terminal" /\ need[r] = "terminal"
             \/ reason = "action_limit" /\ need[r] # "terminal" /\ HasAction(r) /\ PassLimited(r)
             \/ reason = "waiting" /\ r \notin executing /\ ~HasAction(r)
                  /\ (Refused(r) \/ need[r] = "timed")
             \/ reason = "quiescent" /\ r \notin executing /\ need[r] = "quiet"
          /\ pass'[r] = Finishing(reason)
    BY <1>2, <2>1 DEF EndLoop
  <2>4. need[r] = "timed" => r \in Timed
    BY DEF WakeInv, OnlyTimedWait
  <2>5. QED
    BY <2>2, <2>3, <2>4 DEF Dormant, HasAction, Refused
<1>6. OnlyTimedWait'
  BY <1>1 DEF WakeInv, OnlyTimedWait
<1>7. LeftExecuting'
  <2>1. ASSUME r \in executing, pass'[r].phase = "finishing"
        PROVE  pass'[r].stop \in {"failure", "action_limit"} \/ need[r] = "terminal"
    BY <1>4, <1>5, <2>1
  <2>2. QED
    BY <1>1, <1>2, <1>3, <2>1 DEF WakeInv, LeftExecuting
<1>8. ASSUME booted', ~host'.stopped, NEW q \in Recording \ Timed
      PROVE  IsServed(q)' \/ Dormant(q)'
  <2>1. IsServed(q) \/ Dormant(q)
    BY <1>1, <1>8 DEF WakeInv, UnservedAreDormant
  <2>2. Dormant(q) => Dormant(q)'
    BY <1>1 DEF Dormant, Full
  <2>3. IsServed(q) => IsServed(q)' \/ Dormant(q)'
    <3>1. CASE q # r
      BY <1>1, <1>2, <1>3, <3>1 DEF IsServed, PassServes
    <3>2. CASE q = r /\ EndLoop(r)
      <4>1. CASE pass'[r].stop = "action_limit"
        BY <1>1, <1>4, <3>2, <4>1 DEF IsServed, PassServes
      <4>2. CASE need[r] = "terminal" \/ Dormant(r)
        BY <2>2, <3>2, <4>2 DEF Dormant
      <4>3. QED
        BY <1>5, <1>8, <3>2, <4>1, <4>2
    <3>3. CASE q = r /\ FailPass(r)
      BY <1>1, <1>4, <3>3 DEF IsServed, PassServes
    <3>4. CASE q = r /\ FinishPass(r)
      BY <1>1, <1>4, <3>4 DEF IsServed, PassServes, InLoop
    <3>5. QED
      BY <3>1, <3>2, <3>3, <3>4
  <2>4. QED
    BY <2>1, <2>2, <2>3
<1>9. QED
  BY <1>6, <1>7, <1>8 DEF UnservedAreDormant

\* The outcome is applied: a cut-short pass leaves a mark or a timer, and another Run that got
\* work is notified before.
LEMMA WakeApply ==
  ASSUME WakeInv, NEW r \in Runs, ApplyOutcome(r)
  PROVE  OnlyTimedWait' /\ LeftExecuting' /\ UnservedAreDormant'
<1>1. /\ HostInv /\ r \in host.running /\ pass[r].phase = "returned" /\ host \in Sound
      /\ UNCHANGED <<recorded, executing, booted>>
      /\ pass' = [pass EXCEPT ![r] = [FreshPass EXCEPT !.phase = "applied"]]
  BY HostIsSound DEF ApplyOutcome, Stands, WakeInv
<1>2. /\ pass \in [Runs -> Passes] /\ need \in [Runs -> Needs]
      /\ host.running \subseteq Runs /\ Recording \subseteq Runs /\ executing \subseteq Runs
  BY <1>1, NeedsWhole
<1>3. pass'[r].phase = "applied" /\ \A q \in Runs \ {r} : pass'[q] = pass[q]
  BY <1>1, <1>2 DEF FreshPass
<1>4. host' \in Later(host)
  BY <1>1, ApplyOutcomeKeeps
<1>5. pass[r].stop \in StopReasons \ {"none"}
  BY <1>1 DEF HostInv, HostTypeOK, Passes, OutcomesHaveReasons
<1>6. PICK tell \in SUBSET (Runs \ {r}) :
        /\ need' = [q \in Runs |-> IF q \in tell THEN "act" ELSE need[q]]
        /\ ~host.stopped => Served(host, host', tell)
        /\ \E g \in Later(host) : host' = Applied(g, r)
        /\ \A q \in tell : need[q] # "terminal"
  <2>1. CASE host' = Applied(host, r) /\ UNCHANGED need
    <3>1. need' = [q \in Runs |-> IF q \in {} THEN "act" ELSE need[q]]
      BY <1>2, <2>1
    <3>2. Served(host, host', {}) /\ host \in Later(host)
      BY <1>1, SoundIsLater DEF Served
    <3>3. QED
      BY <2>1, <3>1, <3>2
  <2>2. ASSUME NEW q \in Runs \ {r}, need[q] = "quiet", need' = [need EXCEPT ![q] = "act"],
               host' = Applied(Notified(host, q), r)
        PROVE  \E tell \in SUBSET (Runs \ {r}) :
                 /\ need' = [p \in Runs |-> IF p \in tell THEN "act" ELSE need[p]]
                 /\ ~host.stopped => Served(host, host', tell)
                 /\ \E g \in Later(host) : host' = Applied(g, r)
                 /\ \A p \in tell : need[p] # "terminal"
    <3> DEFINE g == Notified(host, q)
    <3>1. g \in Later(host) /\ (~host.stopped => Served(host, g, {q}))
      BY <1>1, NotifiedIsLater
    <3>2. g \in Sound /\ r \in g.running
      BY <1>1, <3>1 DEF Later
    <3>3. Applied(g, r) \in Later(g)
      BY <1>5, <3>2, AppliedIsLater
    <3>4. ~host.stopped => Served(host, Applied(g, r), {q})
      BY <3>1, <3>3, ServedStays
    <3>5. need' = [p \in Runs |-> IF p \in {q} THEN "act" ELSE need[p]]
      BY <1>2, <2>2
    <3>6. {q} \in SUBSET (Runs \ {r}) /\ \A p \in {q} : need[p] # "terminal"
      BY <2>2
    <3>7. host' = Applied(g, r)
      BY <2>2
    <3> HIDE DEF g
    <3>8. QED
      BY <3>1, <3>4, <3>5, <3>6, <3>7
  <2>3. QED
    BY <2>1, <2>2 DEF ApplyOutcome
<1>7. OnlyTimedWait'
  BY <1>6 DEF WakeInv, OnlyTimedWait
<1>8. r \notin executing
  BY <1>1 DEF HostInv, AttemptsHavePasses, InLoop
<1>9. LeftExecuting'
  BY <1>1, <1>2, <1>3, <1>6, <1>8 DEF WakeInv, LeftExecuting
<1>10. ASSUME booted', ~host'.stopped, NEW q \in Recording \ Timed
       PROVE  IsServed(q)' \/ Dormant(q)'
  <2>1. booted /\ ~host.stopped /\ q \in Runs
    BY <1>1, <1>2, <1>4, <1>10 DEF Later
  <2>2. IsServed(q) \/ Dormant(q)
    BY <1>10, <2>1 DEF WakeInv, UnservedAreDormant
  <2>3. q \notin tell /\ Dormant(q) => Dormant(q)'
    BY <1>1, <1>6, <2>1 DEF Dormant, Full
  <2>4. CASE q = r /\ pass[r].stop \in {"failure", "action_limit"}
    <3>1. PICK g \in Later(host) : host' = Applied(g, r)
      BY <1>6
    <3>2. g \in Sound /\ r \in g.running /\ ~g.stopped
      BY <1>1, <2>1, <3>1 DEF Later
    <3>3. r \in Owed(host')
      BY <1>5, <2>4, <3>1, <3>2, AppliedIsLater
    <3>4. QED
      BY <2>4, <3>3 DEF IsServed
  <2>5. CASE q = r /\ pass[r].stop \notin {"failure", "action_limit"}
    <3>1. IsServed(r) => r \in Owed(host)
      BY <1>1, <2>5 DEF IsServed, PassServes, InLoop
    <3>2. r \in Owed(host) => r \in Owed(host')
      BY <1>1, <1>4 DEF Later, Served
    <3>3. QED
      BY <2>2, <2>3, <2>5, <3>1, <3>2 DEF IsServed
  <2>6. CASE q # r /\ q \in tell
    <3>1. Served(host, host', {q})
      BY <1>6, <2>1, <2>6 DEF Served
    <3>2. QED
      BY <1>1, <1>3, <1>4, <2>1, <2>6, <3>1, ServiceStays
  <2>7. CASE q # r /\ q \notin tell
    <3>1. IsServed(q) => IsServed(q)'
      BY <1>1, <1>3, <1>4, <2>1, <2>7, ServiceStays
    <3>2. QED
      BY <2>2, <2>3, <2>7, <3>1
  <2>8. QED
    BY <2>4, <2>5, <2>6, <2>7
<1>11. QED
  BY <1>7, <1>9, <1>10 DEF UnservedAreDormant

\* The end of a pass: the Run goes back to the queue with its mark, and the queue is drained.
LEMMA WakeEndPass ==
  ASSUME WakeInv, NEW r \in Runs, EndPass(r)
  PROVE  OnlyTimedWait' /\ LeftExecuting' /\ UnservedAreDormant'
<1> DEFINE g == Requeued(host, r)
<1>1. /\ HostInv /\ r \in host.running /\ pass[r].phase = "applied" /\ host' = Drained(g)
      /\ pass' = [pass EXCEPT ![r] = FreshPass]
      /\ UNCHANGED <<need, recorded, executing, booted>>
  BY DEF EndPass, Stands, WakeInv
<1>2. /\ pass \in [Runs -> Passes] /\ need \in [Runs -> Needs] /\ host \in Hosts
      /\ host.running \subseteq Runs /\ Recording \subseteq Runs /\ executing \subseteq Runs
  BY <1>1, NeedsWhole DEF HostInv, HostTypeOK
<1>3. /\ g \in Sound /\ g.running = host.running \ {r} /\ g.stopped = host.stopped
      /\ Owed(g) = Owed(host)
  <2>1. g.pending = host.pending /\ g.armed = host.armed
    BY <1>2 DEF Requeued, Hosts
  <2>2. QED
    BY <1>1, <2>1, HostIsSound, RequeuedIs DEF Owed
<1> HIDE DEF g
<1>4. host' \in Later(g)
  BY <1>1, <1>3, DrainedIsLater
<1>5. /\ host'.stopped = host.stopped /\ host.running \ {r} \subseteq host'.running
      /\ \A q \in Owed(host) : q \in Owed(host') \/ q \in host'.running \ (host.running \ {r})
  BY <1>3, <1>4 DEF Later, Served
<1>6. pass'[r].phase \in InLoop /\ pass'[r].phase # "finishing" /\ \A q \in Runs \ {r} : pass'[q] = pass[q]
  BY <1>1, <1>2 DEF FreshPass, InLoop
<1>7. OnlyTimedWait' /\ LeftExecuting'
  BY <1>1, <1>2, <1>6 DEF WakeInv, OnlyTimedWait, LeftExecuting
<1>8. ASSUME booted', ~host'.stopped, NEW q \in Recording \ Timed
      PROVE  IsServed(q)' \/ Dormant(q)'
  <2>1. q \in Runs /\ (IsServed(q) \/ Dormant(q))
    BY <1>1, <1>2, <1>5, <1>8 DEF WakeInv, UnservedAreDormant
  <2>2. Dormant(q) => Dormant(q)'
    BY <1>1 DEF Dormant, Full
  <2>3. CASE q \in Owed(host)
    <3>1. CASE q \in host'.running \ (host.running \ {r})
      <4>1. pass'[q].phase \in InLoop
        BY <1>1, <1>6, <2>1, <3>1 DEF HostInv, FreshBetween, FreshPass, InLoop
      <4>2. QED
        BY <3>1, <4>1 DEF IsServed, PassServes
    <3>2. QED
      BY <1>5, <2>3, <3>1 DEF IsServed
  <2>4. CASE PassServes(q)
    <3>1. q # r
      BY <1>1, <2>4 DEF PassServes, InLoop
    <3>2. QED
      BY <1>5, <1>6, <2>1, <2>4, <3>1 DEF IsServed, PassServes
  <2>5. QED
    BY <2>1, <2>2, <2>3, <2>4 DEF IsServed
<1>9. QED
  BY <1>7, <1>8 DEF UnservedAreDormant

\* What happens outside a pass: a released lease is told to every Run whose row waits for one.
LEMMA WakeOutside ==
  ASSUME WakeInv, NEW r \in Runs,
         EndAttempt(r) \/ OperatorAct(r) \/ TimePasses(r) \/ TimerFires(r)
  PROVE  OnlyTimedWait' /\ LeftExecuting' /\ UnservedAreDormant'
<1>1. HostInv /\ host' \in Later(host) /\ executing' \subseteq executing
  BY OutsideStep DEF WakeInv
<1>2. /\ pass \in [Runs -> Passes] /\ need \in [Runs -> Needs] /\ host \in Sound
      /\ host.running \subseteq Runs /\ Recording \subseteq Runs /\ executing \subseteq Runs
  BY <1>1, NeedsWhole, HostIsSound
<1>3. pass' = pass /\ booted' = booted /\ \A q \in Runs \ {r} : need'[q] = need[q]
  BY <1>2 DEF EndAttempt, OperatorAct, TimePasses, TimerFires
<1>4. need'[r] = "timed" => r \in Timed
  BY <1>2 DEF EndAttempt, OperatorAct, TimePasses, TimerFires, Left, Leaves, WakeInv, OnlyTimedWait
<1>5. need[r] = "terminal" => need'[r] = "terminal"
  BY <1>2 DEF EndAttempt, OperatorAct, TimePasses, TimerFires, Left
<1>6. OnlyTimedWait' /\ LeftExecuting'
  BY <1>1, <1>2, <1>3, <1>4, <1>5 DEF WakeInv, OnlyTimedWait, LeftExecuting
<1>7. ASSUME booted', ~host'.stopped, NEW q \in Recording \ Timed
      PROVE  IsServed(q)' \/ Dormant(q)'
  <2>1. /\ q \in Runs /\ booted /\ ~host.stopped /\ (IsServed(q) \/ Dormant(q))
    BY <1>1, <1>2, <1>3, <1>7 DEF Later, WakeInv, UnservedAreDormant
  <2>2. IsServed(q) \/ Served(host, host', {q}) => IsServed(q)'
    BY <1>1, <1>3, <2>1, ServiceStays
  <2>3. CASE EndAttempt(r)
    <3>1. CapacityWaiters \in SUBSET Runs
      BY <1>2, HostAssumption DEF CapacityWaiters, HostInv, HostTypeOK, Hosts, Sound, WakeInv
    <3>2. PICK order \in SetToSeqs(CapacityWaiters) : host' = NotifiedAll(host, order)
      BY <2>3 DEF EndAttempt
    <3>3. order \in Seq(Runs) /\ CapacityWaiters = {order[j] : j \in 1..Len(order)}
      BY <3>1, EveryoneIsListed
    <3>4. Served(host, host', CapacityWaiters)
      BY <1>2, <2>1, <3>2, <3>3, NotifiedAllIsLater
    <3>5. q \in recorded => Served(host, host', {q})
      BY <3>4 DEF CapacityWaiters, Served
    <3>6. CASE q = r
      <4>1. /\ r \in host.running /\ pass[r].phase \in InLoop \cup {"finishing"}
            /\ pass[r].phase = "finishing" =>
                 pass[r].stop \in {"failure", "action_limit"} \/ need[r] = "terminal"
        BY <2>3 DEF EndAttempt, WakeInv, HostInv, AttemptsHavePasses, LeftExecuting
      <4>2. PassServes(r) \/ need[r] = "terminal"
        BY <4>1 DEF PassServes
      <4>3. need[r] = "terminal" => Dormant(r)'
        BY <1>5 DEF Dormant
      <4>4. QED
        BY <2>2, <3>6, <4>2, <4>3 DEF IsServed
    <3>7. CASE q # r
      <4>1. need[q] \in {"quiet", "terminal"} => Dormant(q)'
        BY <1>3, <2>1, <3>7 DEF Dormant
      <4>2. QED
        BY <2>1, <2>2, <3>5, <4>1 DEF Dormant
    <3>8. QED
      BY <3>6, <3>7
  <2>4. CASE OperatorAct(r)
    <3>1. q = r => Served(host, host', {q})
      BY <1>2, <2>1, <2>4, NotifiedIsLater DEF OperatorAct
    <3>2. q # r /\ Dormant(q) => Dormant(q)'
      BY <1>3, <2>1, <2>4 DEF OperatorAct, Dormant, Full
    <3>3. QED
      BY <2>1, <2>2, <3>1, <3>2
  <2>5. CASE TimePasses(r)
    <3>1. q # r
      BY <1>7, <2>5 DEF TimePasses, WakeInv, OnlyTimedWait
    <3>2. Dormant(q) => Dormant(q)'
      BY <1>3, <2>1, <2>5, <3>1 DEF TimePasses, Dormant, Full
    <3>3. QED
      BY <2>1, <2>2, <3>2
  <2>6. CASE TimerFires(r)
    <3>1. Dormant(q) => Dormant(q)'
      BY <2>6 DEF TimerFires, Dormant, Full
    <3>2. QED
      BY <2>1, <2>2, <3>1
  <2>7. QED
    BY <2>3, <2>4, <2>5, <2>6
<1>8. QED
  BY <1>6, <1>7 DEF UnservedAreDormant

\* Boot: every Run that is not over is notified.
LEMMA WakeReconstruct ==
  ASSUME WakeInv, Reconstruct
  PROVE  OnlyTimedWait' /\ LeftExecuting' /\ UnservedAreDormant'
<1> DEFINE S == {r \in Runs : need[r] # "terminal"}
<1>1. HostInv /\ host \in Sound /\ host' \in Later(host)
  BY ReconstructStep, HostIsSound DEF WakeInv
<1>2. UNCHANGED <<need, recorded, executing, pass>>
  BY DEF Reconstruct
<1>3. PICK order \in SetToSeqs(S) : host' = NotifiedAll(host, order)
  BY DEF Reconstruct
<1>4. S \in SUBSET Runs
  OBVIOUS
<1>5. \A r \in Runs : r \in S \/ need[r] = "terminal"
  OBVIOUS
<1> HIDE DEF S
<1>6. order \in Seq(Runs) /\ S = {order[j] : j \in 1..Len(order)}
  BY <1>3, <1>4, EveryoneIsListed
<1>7. ~host.stopped => Served(host, host', S)
  BY <1>1, <1>3, <1>6, NotifiedAllIsLater
<1>8. ASSUME ~host'.stopped, NEW q \in Recording \ Timed
      PROVE  IsServed(q)' \/ Dormant(q)'
  <2>1. q \in Runs /\ ~host.stopped
    BY <1>1, <1>8, NeedsWhole DEF Later
  <2>2. CASE need[q] = "terminal"
    BY <1>2, <2>2 DEF Dormant
  <2>3. CASE q \in S
    <3>1. Served(host, host', {q})
      BY <1>7, <2>1, <2>3 DEF Served
    <3>2. QED
      BY <1>1, <1>2, <2>1, <3>1, ServiceStays
  <2>4. QED
    BY <1>5, <2>1, <2>2, <2>3
<1>9. QED
  BY <1>2, <1>8 DEF WakeInv, OnlyTimedWait, LeftExecuting, UnservedAreDormant

LEMMA WakeStep == WakeInv /\ [HostNext]_hostVars => WakeInv'
<1> SUFFICES ASSUME WakeInv, [HostNext]_hostVars PROVE WakeInv'
  OBVIOUS
<1>1. HostInv'
  BY NextHost DEF WakeInv
<1> DEFINE Awake == OnlyTimedWait' /\ LeftExecuting' /\ UnservedAreDormant'
<1>2. ASSUME NEW r \in Runs, PassStep(r)
      PROVE  Awake
  BY <1>2, WakeAction, WakePhase, WakeApply, WakeEndPass DEF PassStep, Action, AwaitEnds
<1>3. ASSUME NEW r \in Runs,
             EndAttempt(r) \/ OperatorAct(r) \/ TimePasses(r) \/ TimerFires(r)
      PROVE  Awake
  BY <1>3, WakeOutside
<1>4. Reconstruct => Awake
  BY WakeReconstruct
<1>5. Stop => Awake
  BY DEF Stop, WakeInv, HostInv, HostTypeOK, Hosts, OnlyTimedWait, LeftExecuting,
     UnservedAreDormant
<1>6. UNCHANGED hostVars => Awake
  BY DEF hostVars, WakeInv, OnlyTimedWait, LeftExecuting, UnservedAreDormant, IsServed,
     PassServes, Dormant, Full, Owed
<1> HIDE DEF Awake
<1>7. Awake
  BY <1>2, <1>3, <1>4, <1>5, <1>6 DEF HostNext
<1>8. QED
  BY <1>1, <1>7 DEF Awake, WakeInv

\* The safety half of "no Run is stranded" (NoRunStranded): a Run whose row records its capacity
\* wait, and that has an action and no pass, has a mark or a timer, whatever was released,
\* notified or recorded between the last projection of its pass and the end of that pass
\* (RunHost.pass, capacityReleased, notifyRun, reconstruct).
THEOREM NoWakeUpLostHolds == HostSpec => []NoWakeUpLost
<1>1. WakeInv => NoWakeUpLost
  <2> SUFFICES ASSUME WakeInv, NEW r \in Recording \ Timed, booted, ~host.stopped, HasWork(r),
                      r \notin host.running
               PROVE  r \in host.pending \cup host.armed
    BY DEF NoWakeUpLost
  <2>1. IsServed(r) \/ Dormant(r)
    BY DEF WakeInv, UnservedAreDormant
  <2>2. ~Dormant(r)
    BY DEF Dormant, HasWork
  <2>3. QED
    BY <2>1, <2>2 DEF IsServed, PassServes, Owed
<1>2. QED
  BY <1>1, WakeInit, WakeStep, PTL DEF HostSpec
=============================================================================
