------------------------------ MODULE Budgets ------------------------------
(* One Run's Budget: its ordinary pool and its final reserve, the Plan     *)
(* Nodes and final-reserve Invocations that reserve from it, and the       *)
(* Invocations that reserve from their node.  An Attempt that ends reports *)
(* what it spent and may overrun its allocation; a child that ends         *)
(* releases what it holds at what it spent; nodes are extended, the Run's  *)
(* Budget is increased, the plan is revised, completion is verified, and   *)
(* the operator accepts, asks for changes or cancels.                      *)
(*                                                                         *)
(* No total is stored: every account is a sum over the reservations. An    *)
(* allocation is one quantity here, standing for cost and for tokens       *)
(* (Attempts are counted when they start).  Nodes are parallel nodes that  *)
(* need every item to succeed, without Changesets, aggregation or Gates; a *)
(* node's Invocations ask for no Decision.  `running` is also a Run that   *)
(* waits.  Not modelled here: what a Coordinator's Tasks hold, and the     *)
(* operator's pause.                                                       *)
EXTENDS Integers, Sequences, FiniteSets, FiniteSetsExt

CONSTANTS
  Root,          \* the root Orchestrator's node
  Final,         \* owner of the Invocations the final reserve funds
  Nodes,         \* the other Plan Nodes
  Items,         \* positions of a node; bounds: turns of Root, Invocations of Final
  Policy,        \* onAllocationExhausted of each node
  Grant,         \* the compiled allocation of a node and of the root
  Need,          \* what one Invocation of each owner is allocated
  Base, Reserve, \* the Run Budget, and the final reserve within it
  PerCycle,      \* Invocations a verification needs: the Evaluator, the synthesis
  Drafts,        \* the memberships the Orchestrator proposes, in this order
  Increase,      \* what an approved increase adds
  MaxIncreases,  \* bound: increases the operator requests
  MaxUse,        \* bound: what one Invocation of each owner spends
  MaxSpent       \* bound: what all of them spend

Owners == Nodes \cup {Root}
Rows == UNION {{o} \X (1 .. Items[o]) : o \in Owners \cup {Final}}
Owner(k) == k[1]
RowsOf == [o \in Owners \cup {Final} |-> {k \in Rows : Owner(k) = o}]
FinalRows == RowsOf[Final]
Partitions == {"ordinary", "final"}

ASSUME BudgetBounds ==
  /\ IsFiniteSet(Nodes) /\ Root \notin Nodes /\ Final \notin Owners
  /\ Owners \cap Rows = {}
  /\ \A o \in Owners \cup {Final} : Need[o] \in Nat \ {0} /\ Items[o] \in Nat \ {0}
  /\ \A n \in Owners : Grant[n] \in Nat
  /\ Base \in Nat /\ Reserve \in 0 .. Base /\ Grant[Root] <= Base - Reserve
  /\ PerCycle \in Nat /\ Increase \in Nat /\ MaxSpent \in Nat
  /\ Drafts \in Seq(SUBSET Nodes)
  /\ Policy[Root] = "extend"

VARIABLES
  run,           \* the Run's status
  rev,           \* number of the accepted draft; 0 has the root alone
  node,          \* status of every node; "unplanned" before a revision adds it
  row,           \* status of every Invocation row; "none" before it is prepared
  used,          \* Usage recorded for it
  held,          \* the reservation of each node and each Invocation
  ext,           \* Allocation Extensions of a node, in all
  added,         \* approved increases of each partition, in all
  ask,           \* the partition of the open increase Decision, or "none"
  since          \* final-reserve Invocations prepared before the present verification

budgetVars == <<run, rev, node, row, used, held, ext, added, ask, since>>

None == [status |-> "none", consumed |-> 0]
Taken == [status |-> "active", consumed |-> 0]
Members == IF rev = 0 THEN {} ELSE Drafts[rev]
Open == {"ready", "running", "waiting"}
Idle == {"prepared", "backoff"}
Live == Idle \cup {"executing"}

-----------------------------------------------------------------------------
(* Accounts *)

SumOver(f, S) == MapThenSumSet(LAMBDA c : f[c], S)

\* (mutant) The root's Usage includes its final-reserve Invocations.
UsedTwice(u, o) == SumOver(u, RowsOf[o] \cup (IF o = Root THEN FinalRows ELSE {}))
\* Usage of the Invocations a node funds; final-reserve Invocations are charged on their own.
Used(u, o) == SumOver(u, RowsOf[o])
Actual(u, c) == IF c \in Owners THEN Used(u, c) ELSE u[c]
Reserved(c) == IF c \in Owners THEN Grant[c] + ext[c] ELSE Need[Owner(c)]

\* An active child counts for what it reserves or, once it overran, for what it spent.
Charge(h, c) == CASE h[c].status = "none" -> 0
                  [] h[c].status = "active" -> Max({Reserved(c), Actual(used, c)})
                  [] h[c].status = "released" -> h[c].consumed
Committed(h, S) == SumOver([c \in S |-> Charge(h, c)], S)

RunLimit == Base + added["ordinary"] + added["final"]
FinalLimit == Reserve + added["final"]
OrdinaryLimit == RunLimit - FinalLimit
OrdinaryCommitted(h) == Committed(h, Owners)
FinalCommitted(h) == Committed(h, FinalRows)
GlobalAvailable(h) == RunLimit - OrdinaryCommitted(h) - FinalCommitted(h)

\* (mutant) A partition looks at its own account only.
OwnAvailable(h) == OrdinaryLimit - OrdinaryCommitted(h)
OrdinaryAvailable(h) == Min({OrdinaryLimit - OrdinaryCommitted(h), GlobalAvailable(h)})
FinalAvailable(h) == Min({FinalLimit - FinalCommitted(h), GlobalAvailable(h)})

NodeLimit(n) == Grant[n] + ext[n]
NodeAvailable(n) == NodeLimit(n) - Committed(held, RowsOf[n])
Shortfall(n) == Max({0, Need[n] - NodeAvailable(n)})
Fits(n) == \/ Shortfall(n) = 0
           \/ Policy[n] = "extend" /\ Shortfall(n) <= OrdinaryAvailable(held)

\* A reservation is released at the child's complete consumption.
Released(h, u, S) == [c \in DOMAIN h |->
  IF c \in S /\ h[c].status = "active"
  THEN [status |-> "released", consumed |-> Actual(u, c)] ELSE h[c]]

-----------------------------------------------------------------------------
(* Funding *)

\* The children of a node that have not ended; the root's include the final-reserve ones.
LiveOf(rows, n) == {k \in Rows : rows[k] \in Live
                                 /\ Owner(k) \in {n} \cup (IF n = Root THEN {Final} ELSE {})}
Unstarted(n) == {k \in RowsOf[n] : row[k] = "none"}
Next1(n) == CHOOSE k \in Unstarted(n) : \A l \in Unstarted(n) : k[2] <= l[2]

\* The extension, the Invocation and its reservation commit together.
Funded(n) ==
  LET k == Next1(n)
  IN /\ Fits(n)
     /\ ext' = [ext EXCEPT ![n] = @ + Shortfall(n)]
     /\ row' = [row EXCEPT ![k] = "prepared"]
     /\ held' = [held EXCEPT ![k] = Taken]

NodeEnds(n, status) ==
  /\ node' = [node EXCEPT ![n] = status]
  /\ held' = Released(held, used, {n})

\* A running node prepares its next position, or is refused by its policy.
PrepareNext(n) ==
  \/ /\ Funded(n)
     /\ node' = [node EXCEPT ![n] = "running"]
  \/ /\ ~Fits(n) /\ Policy[n] = "fail"
     /\ NodeEnds(n, "failed")
     /\ UNCHANGED <<row, ext>>
  \/ /\ ~Fits(n) /\ Policy[n] # "fail"
     /\ node' = [node EXCEPT ![n] = "waiting"]
     /\ UNCHANGED <<row, held, ext>>

StartNode(n) ==
  /\ run = "running" /\ n \in Members /\ node[n] = "ready"
  /\ PrepareNext(n)
  /\ UNCHANGED <<run, rev, used, added, ask, since>>

\* Anything that could execute is executed before another position starts; what waits for its
\* retry is passed over.
StartPosition(n) ==
  /\ run = "running" /\ n \in Members /\ node[n] = "running"
  /\ Unstarted(n) # {}
  /\ \A k \in RowsOf[n] : row[k] # "prepared"
  /\ PrepareNext(n)
  /\ UNCHANGED <<run, rev, used, added, ask, since>>

ResumeBudget(n) ==
  /\ run = "running" /\ n \in Members /\ node[n] = "waiting"
  /\ Fits(n)
  /\ node' = [node EXCEPT ![n] = "running"]
  /\ UNCHANGED <<run, rev, row, used, held, ext, added, ask, since>>

\* Every item ended: a member settles, and so does a node that left the membership.
SettleNode(n) ==
  /\ run = "running" /\ node[n] = "running"
  /\ \A k \in RowsOf[n] : row[k] \in {"succeeded", "failed"}
  /\ NodeEnds(n, IF \A k \in RowsOf[n] : row[k] = "succeeded" THEN "succeeded" ELSE "failed")
  /\ UNCHANGED <<run, rev, row, used, ext, added, ask, since>>

-----------------------------------------------------------------------------
(* Execution *)

Executable(k) ==
  /\ row[k] \in Idle
  /\ IF Owner(k) = Final THEN run = "verifying"
     ELSE /\ run = "running" /\ node[Owner(k)] = "running"
          /\ Owner(k) \in Members \cup {Root}

Execute(k) ==
  /\ Executable(k) /\ used[k] < Need[Owner(k)]
  /\ row' = [row EXCEPT ![k] = "executing"]
  /\ UNCHANGED <<run, rev, node, used, held, ext, added, ask, since>>

\* An Invocation that spent its allocation gets no further Attempt.
Exhausted(k) ==
  /\ Executable(k) /\ used[k] >= Need[Owner(k)]
  /\ row' = [row EXCEPT ![k] = "failed"]
  /\ held' = Released(held, used, {k})
  /\ UNCHANGED <<run, rev, node, used, ext, added, ask, since>>

\* The Usage an Attempt reports when it ends, whatever its node or the Run became.
Spend(k, spent) ==
  /\ row[k] = "executing"
  /\ used[k] + spent <= MaxUse[Owner(k)]
  /\ SumOver(used, Rows) + spent <= MaxSpent
  /\ used' = [used EXCEPT ![k] = @ + spent]

\* Invocations that are not executing end cancelled, then every node left without a live one.
Converge(rows, u) ==
  LET after == [k \in Rows |-> IF rows[k] \in Idle THEN "cancelled" ELSE rows[k]]
      ended == {n \in Owners : node[n] \in Open /\ LiveOf(after, n) = {}}
  IN /\ row' = after
     /\ node' = [n \in Owners |-> IF n \in ended THEN "cancelled" ELSE node[n]]
     /\ held' = Released(held, u, {k \in Rows : after[k] \notin Live} \cup ended)

\* Usage first, then the Attempt: the Invocation is retried later, or ends with its result.
EndAttempt(k, status, spent) ==
  /\ run # "cancelled"
  /\ Spend(k, spent)
  /\ row' = [row EXCEPT ![k] = status]
  /\ held' = IF status \in Live THEN held ELSE Released(held, used', {k})
  /\ UNCHANGED <<run, rev, node, ext, added, ask, since>>

EndCancelled(k, spent) ==
  /\ run = "cancelled"
  /\ Spend(k, spent)
  /\ Converge([row EXCEPT ![k] = "cancelled"], used')
  /\ UNCHANGED <<run, rev, ext, added, ask, since>>

-----------------------------------------------------------------------------
(* The root Orchestrator *)

RootIdle == \A k \in RowsOf[Root] : row[k] \notin Live \cup {"failed"}

\* Nothing is written for a turn that cannot be funded; the Run waits.
RootTurn ==
  /\ run = "running" /\ RootIdle /\ Unstarted(Root) # {}
  /\ Funded(Root)
  /\ UNCHANGED <<run, rev, node, used, added, ask, since>>

FailRun ==
  /\ run = "running" /\ node[Root] = "running"
  /\ \E k \in RowsOf[Root] : row[k] = "failed"
  /\ NodeEnds(Root, "failed")
  /\ run' = "failed"
  /\ UNCHANGED <<rev, row, used, ext, added, ask, since>>

\* Cancelled nodes give their reservation back before the new ones reserve; all of it or nothing.
Revise ==
  LET draft == Drafts[rev + 1]
      made == {n \in draft : node[n] = "unplanned"}
      gone == {n \in Members \ draft : node[n] = "ready"}
      freed == Released(held, used, gone)
  IN /\ run = "running" /\ \E k \in RowsOf[Root] : row[k] = "executing"
     /\ rev + 1 \in DOMAIN Drafts
     /\ SumOver(Grant, made) <= OrdinaryAvailable(freed)
     /\ rev' = rev + 1
     /\ node' = [n \in Owners |-> IF n \in made THEN "ready" ELSE IF n \in gone THEN "cancelled" ELSE node[n]]
     /\ held' = [c \in DOMAIN held |-> IF c \in made THEN Taken ELSE freed[c]]
     /\ UNCHANGED <<run, row, used, ext, added, ask, since>>

-----------------------------------------------------------------------------
(* Budget Increases: one Decision at a time, for a partition the Run's status admits *)

Increasable(p) == run \in IF p = "ordinary" THEN {"running", "awaiting"} ELSE {"running"}

Request(p) ==
  /\ Increasable(p) /\ ask = "none"
  /\ added["ordinary"] + added["final"] < Increase * MaxIncreases
  /\ ask' = p
  /\ UNCHANGED <<run, rev, node, row, used, held, ext, added, since>>

\* The status is read again: the Run may have begun to verify, or ended, since.
Approve ==
  /\ ask # "none" /\ Increasable(ask)
  /\ added' = [added EXCEPT ![ask] = @ + Increase]
  /\ ask' = "none"
  /\ UNCHANGED <<run, rev, node, row, used, held, ext, since>>

Deny ==
  /\ ask # "none"
  /\ ask' = "none"
  /\ UNCHANGED <<run, rev, node, row, used, held, ext, added, since>>

-----------------------------------------------------------------------------
(* Completion and signoff *)

Cycle == {k \in FinalRows : k[2] > since /\ row[k] # "none"}
NothingLive == \A k \in Rows : row[k] \notin Live

\* Begun once nothing is active and the reserve covers all a verification needs.
BeginCompletion ==
  /\ run = "running" /\ NothingLive /\ RootIdle /\ ask = "none"
  /\ \A n \in Members : node[n] \in {"succeeded", "cancelled"}
  /\ Cardinality(Unstarted(Final)) >= PerCycle
  /\ PerCycle * Need[Final] <= FinalAvailable(held)
  /\ run' = "verifying"
  /\ since' = Cardinality(FinalRows \ Unstarted(Final))
  /\ UNCHANGED <<rev, node, row, used, held, ext, added, ask>>

\* The reserve is read again for each Invocation; one it cannot fund fails the verification.
PrepareFinal ==
  LET k == Next1(Final)
  IN /\ run = "verifying" /\ NothingLive
     /\ Cardinality(Cycle) < PerCycle /\ \A l \in Cycle : row[l] = "succeeded"
     /\ \/ /\ Need[Final] <= FinalAvailable(held)
           /\ row' = [row EXCEPT ![k] = "prepared"]
           /\ held' = [held EXCEPT ![k] = Taken]
           /\ UNCHANGED run
        \/ /\ Need[Final] > FinalAvailable(held)
           /\ run' = "running"
           /\ UNCHANGED <<row, held>>
     /\ UNCHANGED <<rev, node, used, ext, added, ask, since>>

VerificationFails ==
  /\ run = "verifying" /\ NothingLive
  /\ \E k \in Cycle : row[k] = "failed"
  /\ run' = "running"
  /\ UNCHANGED <<rev, node, row, used, held, ext, added, ask, since>>

AwaitSignoff ==
  /\ run = "verifying"
  /\ Cardinality(Cycle) = PerCycle /\ \A k \in Cycle : row[k] = "succeeded"
  /\ run' = "awaiting"
  /\ UNCHANGED <<rev, node, row, used, held, ext, added, ask, since>>

\* Only the root's own allocation may still be reserved.
Quiescent == ask = "none" /\ \A c \in DOMAIN held \ {Root} : held[c].status # "active"

Accept ==
  /\ run = "awaiting" /\ Quiescent
  /\ run' = "completed"
  /\ UNCHANGED <<rev, node, row, used, held, ext, added, ask, since>>

\* The follow-up turn is ordinary work: the final reserve never funds it.
RequestChanges ==
  /\ run = "awaiting" /\ Quiescent /\ Unstarted(Root) # {}
  /\ Funded(Root)
  /\ run' = "running"
  /\ UNCHANGED <<rev, node, used, added, ask, since>>

Cancel ==
  /\ run \in {"running", "verifying", "awaiting"}
  /\ run' = "cancelled"
  /\ Converge(row, used)
  /\ UNCHANGED <<rev, used, ext, added, ask, since>>

-----------------------------------------------------------------------------
\* The Run is activated with its root running on a first turn.
BudgetInit ==
  LET first == <<Root, 1>>
  IN /\ run = "running" /\ rev = 0 /\ since = 0
     /\ node = [n \in Owners |-> IF n = Root THEN "running" ELSE "unplanned"]
     /\ row = [k \in Rows |-> IF k = first THEN "prepared" ELSE "none"]
     /\ used = [k \in Rows |-> 0]
     /\ held = [c \in Owners \cup Rows |-> IF c \in {Root, first} THEN Taken ELSE None]
     /\ ext = [n \in Owners |-> 0]
     /\ added = [p \in Partitions |-> 0] /\ ask = "none"

BudgetNext ==
  \/ \E n \in Nodes : StartNode(n) \/ StartPosition(n) \/ ResumeBudget(n) \/ SettleNode(n)
  \/ \E k \in Rows : Execute(k) \/ Exhausted(k)
  \/ \E k \in Rows, status \in {"backoff", "succeeded", "failed"}, spent \in 0 .. MaxSpent :
       EndAttempt(k, status, spent)
  \/ \E k \in Rows, spent \in 0 .. MaxSpent : EndCancelled(k, spent)
  \/ RootTurn \/ FailRun \/ Revise
  \/ (\E p \in Partitions : Request(p)) \/ Approve \/ Deny
  \/ BeginCompletion \/ PrepareFinal \/ VerificationFails \/ AwaitSignoff
  \/ Accept \/ RequestChanges \/ Cancel

BudgetSpec == BudgetInit /\ [][BudgetNext]_budgetVars

-----------------------------------------------------------------------------
(* Properties *)

\* What a step reserves and extends, and the accounts it draws from, which must cover it afterwards.
Reserves == {c \in DOMAIN held : held[c].status # "active" /\ held'[c].status = "active"}
Extends == {n \in Owners : ext'[n] > ext[n]}
DrawsOrdinary == (Reserves \cap Owners) \cup Extends
DrawsFinal == Reserves \cap FinalRows
ReservesWhatFits ==
  /\ DrawsOrdinary # {} => (OrdinaryCommitted(held) <= OrdinaryLimit)'
  /\ DrawsFinal # {} => (FinalCommitted(held) <= FinalLimit)'
  /\ DrawsOrdinary \cup DrawsFinal # {} => (GlobalAvailable(held) >= 0)'
  /\ \A k \in Reserves \cap (Rows \ FinalRows) : (NodeAvailable(Owner(k)) >= 0)'

\* Whatever was overrun, extended, increased or released before, a step that reserves leaves
\* every account it draws from covering all it has committed: the node's own allocation, the
\* partition, and the Run's whole Budget.
FundingFits == [][ReservesWhatFits]_budgetVars

\* What the Run's account has actually consumed, recorded or still accruing.
Counted(c) == IF held[c].status = "active" THEN Actual(used, c) ELSE held[c].consumed
Accounts == Owners \cup FinalRows
Consumed == SumOver([c \in Accounts |-> Counted(c)], Accounts)

\* What a step adds to the Run's account is the Usage it records.
CountsWhatIsRecorded ==
  LET recorded == {k \in Rows : used'[k] # used[k] /\ (Owner(k) = Final \/ node[Owner(k)] # "failed")}
  IN Consumed' - Consumed = SumOver([k \in recorded |-> used'[k] - used[k]], recorded)

\* Every unit of Usage reaches the Run's account once, when it is recorded, and no release, extension,
\* cancellation or settlement changes what was counted.  Usage of a node that has already failed
\* is the exception: its reservation was released while an Invocation of it still executed.
UsageReachesRun == [][CountsWhatIsRecorded]_budgetVars

=============================================================================
