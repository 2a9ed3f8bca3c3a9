----------------------------- MODULE PlanGraph -----------------------------
(* Readiness of a compiled Plan's nodes: a pure function of the current    *)
(* revision's edges and of the recorded state of its members (readiness.ts)*)
(* and the handoff an edge carries (handoff-routing.ts).                   *)
(*                                                                         *)
(* A node's definition is a record                                         *)
(*   kind     "pattern" or "join"                                          *)
(*   steps    the positions a single or chain node executes in turn        *)
(*   tolerant runOnDependencyFailure                                       *)
(*   any      a join whose fan-in policy is require_any                    *)
(*   choices  what its success may select: a route's labels, an            *)
(*            evaluate-only round's verdicts, one value for other nodes    *)
(* An edge is a record from, to, type and on, the selections of its source *)
(* under which it delivers: a branch's label, a route's inline labels, a   *)
(* retry's failing verdicts, every choice of an ordinary source.           *)
EXTENDS Integers, FiniteSets

Ended == {"succeeded", "failed", "cancelled", "skipped"}
Unstarted == {"pending", "ready"}

Incoming(edges, n) == {e \in edges : e.to = n}
Outgoing(edges, n) == {e \in edges : e.from = n}

\* What an edge does for its target now, from its source's row.
Activation(row, e) ==
  LET source == row[e.from]
  IN CASE source.status \notin Ended               -> "pending"
       [] source.status = "skipped"                -> "inactive"
       [] source.status \in {"failed", "cancelled"} -> "failed"
       [] OTHER -> IF source.choice \in e.on THEN "delivers" ELSE "inactive"

Activations(row, edges, n) == {Activation(row, e) : e \in Incoming(edges, n)}

\* A failed predecessor skips its target unless the target settles failures itself.
Tolerates(def) == def.kind = "join" \/ def.tolerant

BecomesReady(row, edges, n) ==
  LET acts == Activations(row, edges, n)
  IN /\ row[n].status = "pending"
     /\ "pending" \notin acts
     /\ acts # {"inactive"}
     /\ "failed" \in acts => Tolerates(row[n].def)

\* (mutant) A failed dependency is not taken as the end of its target.
SkipsInactive(row, edges, n) ==
  row[n].status = "pending" /\ Activations(row, edges, n) = {"inactive"}

BecomesSkipped(row, edges, n) ==
  LET acts == Activations(row, edges, n)
  IN /\ row[n].status = "pending"
     /\ "pending" \notin acts
     /\ \/ acts = {"inactive"}
        \/ "failed" \in acts /\ ~Tolerates(row[n].def)

\* The verdict a ready join reaches over sources that have all ended.
JoinVerdict(row, edges, n) ==
  LET counted == {e.from : e \in {x \in Incoming(edges, n) : row[x.from].status # "skipped"}}
      succeeded == {m \in counted : row[m].status = "succeeded"}
  IN CASE counted = {} -> "skipped"
       [] counted # {} /\ (IF row[n].def.any THEN succeeded # {} ELSE succeeded = counted)
            -> "succeeded"
       [] OTHER -> "failed"

\* An edge hands something over: outputs when it delivers, a failure notice only along a
\* sequence edge into a target that opted in. A fan-in edge carries nothing.
Carries(row, e) ==
  /\ e.type # "fan_in"
  /\ \/ Activation(row, e) = "delivers"
     \/ Activation(row, e) = "failed" /\ e.type = "sequence" /\ row[e.to].def.tolerant
=============================================================================
