--------------------------- MODULE GateProperties ---------------------------
(* What gated nodes and the root's turns owe the Run (gates.ts, patterns/root.ts). *)
EXTENDS NodeGates

(***************************************************************************)
(* Where it fails, each a finding.                                         *)
(***************************************************************************)
\* An overtaken call took the Snapshot back: what HEAD holds is no longer in it.
RolledBack ==
  \E c \in Changesets : change[c] = "integrated" /\ Holds(head, c) /\ ~Holds(snapshot, c)
\* The Changeset that is first now is not the one whose commit has no record.
Drifted == Idle /\ head # snapshot
\* The latest turn's Changeset conflicts: it is settled for ever, and nothing else is done.
RootConflicts == turns # <<>> /\ Outstanding /\ change[OwnChangeset] = "conflict"

-----------------------------------------------------------------------------
\* A Gate judges what was made for it: its Snapshot holds the Changeset of the node, and that of
\* every turn that completed the Task of an earlier Gate of it (the root settles first, and
\* settles the Changeset before the Tasks; open pins the Run's Snapshot).
JudgesTheWork ==
  \A n \in Nodes : \A k \in DOMAIN gates[n] :
    LET made == {n} \cup {TurnChangeset(gates[n][j].holder) :
                            j \in {i \in 1..k - 1 : gates[n][i].task = "completed"}}
    IN \A c \in made : /\ change[c] = "integrated"
                       /\ Holds(head, c) /\ ~RolledBack => Holds(gates[n][k].snapshot, c)

\* A remediation Task somebody works on is the latest turn's, which is not settled: none is left
\* with a turn that ended (assignRemediation, and the successor of a blocked turn).
TasksAreHeld ==
  \A n \in Nodes : \A k \in DOMAIN gates[n] :
    gates[n][k].task = "running" =>
      /\ gates[n][k].holder = Len(turns) /\ <<n, k>> \in Turn.tasks
      /\ Turn.status \in {"queued", "running", "blocked"} \/ ToSettle

(***************************************************************************)
(* Fairness: the host goes on with the pass, calls return and Attempts end *)
(* (the executor's and git's timeouts).  Nobody has to answer.             *)
(***************************************************************************)
FairSpec == Spec /\ WF_vars(Pass \/ (CallSteps /\ UNCHANGED gateVars)) /\ WF_vars(AttemptEnds)

\* A node ends, or waits for somebody: for its Decision, for the Task of its conflict, or with a
\* remediation for the Decision of a turn; no action that changes nothing starves it for ever.
Waits(n) == NodeAdvice(n) = "wait" \/ (NodeAdvice(n) = "remediating" /\ RootAdvice = "wait")
OutOfTurns ==
  /\ Len(turns) = MaxTurns
  /\ RootAdvice \in {"tell", "remediate"} \/ (Turn.status = "blocked" /\ RootAdvice = "settle")
GatedNodesEnd ==
  \A n \in Nodes :
    []<>(Ended(n) \/ Waits(n) \/ run = "failed" \/ OutOfTurns \/ Drifted \/ RootConflicts)
=============================================================================
