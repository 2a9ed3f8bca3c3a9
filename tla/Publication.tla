----------------------------- MODULE Publication -----------------------------
(***************************************************************************)
(* Publication of a completed Run's result to its Target (execution/       *)
(* publication.ts, workspace-state/publish.ts, persistence/stores/         *)
(* publications.ts): an authorized Publication passes durable boundaries,  *)
(* each an external effect outside every transaction followed by its row,  *)
(* driven by the Run host (host/run-host.ts) and again after a restart or  *)
(* by the operator, while the operator moves the Target.                   *)
(*                                                                         *)
(* A Target state is the sequence of what was committed to it.  git's      *)
(* reference transaction is external and atomic, as the code relies on.    *)
(***************************************************************************)
EXTENDS Naturals, Sequences

CONSTANTS
  Publications,   \* Publications that may be asked for
  Runs, RunOf,    \* completed Runs, and the Run of each Publication
  Operator,       \* names a commit of the operator
  Strategy,       \* what each asks for: automatic, fast_forward, merge
  Checked,        \* Publications whose Run has deterministic criteria
  Drivers,        \* who may advance a Publication: one host, or several processes
  MaxCommits,     \* bound on the Target's history for the operator's commits
  Faults,         \* any step of a driver may throw or find its provider unavailable
  Losses          \* the marker of a preparation may be damaged on disk

ASSUME PublicationAssumption ==
  /\ RunOf \in [Publications -> Runs] /\ Operator \notin Runs
  /\ Strategy \in [Publications -> {"automatic", "fast_forward", "merge"}]
  /\ Checked \subseteq Publications /\ MaxCommits \in Nat
  /\ Faults \in BOOLEAN /\ Losses \in BOOLEAN

VARIABLES
  row,       \* rows: status, prepared facts and cleanup obligation
  passed,    \* rows: the candidate on which the criteria passed
  target,    \* the Target
  receipt,   \* the receipt reference of each Publication, beside the Target
  marker,    \* the prepared facts in the publication directory
  staged,    \* the staging worktree or the candidate reference exists
  up,        \* a process runs
  drv        \* memory: where each driver of each Publication stands

vars == <<row, passed, target, receipt, marker, staged, up, drv>>

-----------------------------------------------------------------------------
Open == {"requested", "prepared", "verified", "applying"}
Final == {"succeeded", "failed"}
Statuses == Open \cup Final \cup {"absent", "asked", "declined"}
Commits == Seq(Runs \cup {Operator})
Base == <<>>

Facts == [before : Commits, candidate : Commits]
NoFacts == [before |-> Base, candidate |-> Base]
Damaged == [before |-> <<Operator>>, candidate |-> Base]
NewRow == [status |-> "absent", facts |-> NoFacts, cleanup |-> "none"]
Rows == [status : Statuses, facts : Facts, cleanup : {"none", "pending", "released"}]

\* "next" reads the row and acts on its status; the others hold an answer.
Stands == {"idle", "next", "building", "staged", "refused", "passed", "rejected",
           "swapping", "lost", "applied", "changed", "removed"}
IdleDriver == [at |-> "idle", facts |-> NoFacts]
DriverStates == [at : Stands, facts : Facts]

Of(r) == {p \in Publications : RunOf[p] = r}
Status(p) == row[p].status

\* What recovery drives: the open Publications, and the cleanups that are due.
Outstanding(p) ==
  Status(p) \in Open \/ (Status(p) \in Final /\ row[p].cleanup = "pending")

Init ==
  /\ row = [p \in Publications |-> NewRow]
  /\ passed = [p \in Publications |-> Base]
  /\ target = Base
  /\ receipt = [p \in Publications |-> Base]
  /\ marker = [p \in Publications |-> NoFacts]
  /\ staged = [p \in Publications |-> FALSE]
  /\ up = TRUE
  /\ drv = [p \in Publications |-> [d \in Drivers |-> IdleDriver]]

-----------------------------------------------------------------------------
(***************************************************************************)
(* The publish Decision.                                                   *)
(***************************************************************************)
\* assertPublishable: no Publication of the Run is under way or succeeded.
Publishable(r) == \A p \in Of(r) : Status(p) \notin Open \cup {"succeeded"}

Moved(p, status) == row' = [row EXCEPT ![p].status = status]

Request(p) ==
  /\ up /\ Status(p) = "absent"
  /\ Publishable(RunOf[p]) /\ \A q \in Of(RunOf[p]) : Status(q) # "asked"
  /\ Moved(p, "asked")
  /\ UNCHANGED <<passed, target, receipt, marker, staged, up, drv>>

Cancel(p) ==
  /\ up /\ Status(p) = "asked"
  /\ Moved(p, "declined")
  /\ UNCHANGED <<passed, target, receipt, marker, staged, up, drv>>

\* resolve: the Decision and its Publication commit together; the host is notified.
Publish(p, d) ==
  /\ up /\ Status(p) = "asked" /\ Publishable(RunOf[p])
  /\ row' = [row EXCEPT ![p] = [@ EXCEPT !.status = "requested", !.cleanup = "pending"]]
  /\ drv' = [drv EXCEPT ![p][d].at = "next"]
  /\ UNCHANGED <<passed, target, receipt, marker, staged, up>>

-----------------------------------------------------------------------------
At(p, d, at) == up /\ drv[p][d].at = at
Starts(p, d, status) == At(p, d, "next") /\ Status(p) = status
Goes(p, d, at) == drv' = [drv EXCEPT ![p][d].at = at]
Stops(p, d) == drv' = [drv EXCEPT ![p][d] = IdleDriver]

\* A transaction that records an answer: only over the status the step began from,
\* else another writer was faster and the driver stops (stale).
Records(p, d, from, to) ==
  IF Status(p) = from
  THEN Moved(p, to) /\ Goes(p, d, "next")
  ELSE UNCHANGED row /\ Stops(p, d)

(***************************************************************************)
(* The port's prepare, which verification repeats to find the staging.     *)
(***************************************************************************)
Candidate(p) == [before |-> target, candidate |-> Append(target, RunOf[p])]
Recorded(p) == marker[p] \notin {NoFacts, Damaged}

\* A fast-forward needs the Target at the base; anything else may be refused too,
\* by a conflict or an invalid candidate.
CanBuild(p) == Strategy[p] = "fast_forward" => target = Base

CallsPrepare(p, d) == Starts(p, d, "requested") \/ (Starts(p, d, "prepared") /\ p \in Checked)

\* The marker of an earlier call is the record.
ReplayPrepared(p, d) ==
  /\ CallsPrepare(p, d) /\ Recorded(p)
  /\ drv' = [drv EXCEPT ![p][d] = [at |-> "staged", facts |-> marker[p]]]
  /\ staged' = [staged EXCEPT ![p] = TRUE]
  /\ UNCHANGED <<row, passed, target, receipt, marker, up>>

\* The Target is read, and the candidate built on what it held; a damaged marker is
\* discarded with its staging first.
BuildCandidate(p, d) ==
  /\ CallsPrepare(p, d) /\ ~Recorded(p) /\ CanBuild(p)
  /\ drv' = [drv EXCEPT ![p][d] = [at |-> "building", facts |-> Candidate(p)]]
  /\ staged' = [staged EXCEPT ![p] = TRUE]
  /\ marker' = [marker EXCEPT ![p] = NoFacts]
  /\ UNCHANGED <<row, passed, target, receipt, up>>

\* A refusal is the outcome of a preparation, and no outcome for a verification.  A
\* conflict discards the staging, another refusal leaves what an earlier call staged.
RefuseCandidate(p, d) ==
  /\ CallsPrepare(p, d) /\ ~Recorded(p)
  /\ marker' = [marker EXCEPT ![p] = NoFacts]
  /\ \E left \in {FALSE, staged[p] /\ marker[p] # Damaged} :
       staged' = [staged EXCEPT ![p] = left]
  /\ IF Status(p) = "requested" THEN Goes(p, d, "refused") ELSE Stops(p, d)
  /\ UNCHANGED <<row, passed, target, receipt, up>>

\* The marker is the last write; without its directory the call fails.
WriteMarker(p, d) ==
  /\ At(p, d, "building")
  /\ marker' = IF staged[p] THEN [marker EXCEPT ![p] = drv[p][d].facts] ELSE marker
  /\ IF staged[p] THEN Goes(p, d, "staged") ELSE Stops(p, d)
  /\ UNCHANGED <<row, passed, target, receipt, staged, up>>

-----------------------------------------------------------------------------
(***************************************************************************)
(* prepareStep and verifyStep, once the port has answered.                 *)
(***************************************************************************)
RecordPrepared(p, d) ==
  /\ At(p, d, "staged") /\ Status(p) # "prepared"
  /\ IF Status(p) = "requested"
     THEN /\ row' = [row EXCEPT ![p] = [@ EXCEPT !.status = "prepared",
                                                   !.facts = drv[p][d].facts]]
          /\ Goes(p, d, "next")
     ELSE UNCHANGED row /\ Stops(p, d)
  /\ UNCHANGED <<passed, target, receipt, marker, staged, up>>

RecordRefused(p, d) ==
  /\ At(p, d, "refused") /\ Records(p, d, "requested", "failed")
  /\ UNCHANGED <<passed, target, receipt, marker, staged, up>>

\* Mutant: the criteria run on whatever staging the replay produced.
RunChecksUnmatched(p, d) ==
  /\ At(p, d, "staged") /\ Status(p) = "prepared"
  /\ \/ /\ passed' = [passed EXCEPT ![p] = drv[p][d].facts.candidate]
        /\ Goes(p, d, "passed")
     \/ Goes(p, d, "rejected") /\ UNCHANGED passed
  /\ UNCHANGED <<row, target, receipt, marker, staged, up>>

\* The criteria run in the replayed staging, if it is what the row recorded; a replay
\* that disagrees is no outcome, and the Publication stays prepared.
RunChecks(p, d) ==
  /\ At(p, d, "staged") /\ Status(p) = "prepared"
  /\ IF drv[p][d].facts = row[p].facts
     THEN \/ /\ passed' = [passed EXCEPT ![p] = drv[p][d].facts.candidate]
             /\ Goes(p, d, "passed")
          \/ Goes(p, d, "rejected") /\ UNCHANGED passed
     ELSE Stops(p, d) /\ UNCHANGED passed
  /\ UNCHANGED <<row, target, receipt, marker, staged, up>>

RecordVerified(p, d) ==
  /\ \/ At(p, d, "passed")
     \/ Starts(p, d, "prepared") /\ p \notin Checked
  /\ Records(p, d, "prepared", "verified")
  /\ UNCHANGED <<passed, target, receipt, marker, staged, up>>

RecordRejected(p, d) ==
  /\ At(p, d, "rejected") /\ Records(p, d, "prepared", "failed")
  /\ UNCHANGED <<passed, target, receipt, marker, staged, up>>

-----------------------------------------------------------------------------
(***************************************************************************)
(* applyStep: the one change of the Target.                                *)
(***************************************************************************)
\* The commitment is durable before the Target is touched.
CommitApplying(p, d) ==
  /\ Starts(p, d, "verified") /\ Records(p, d, "verified", "applying")
  /\ UNCHANGED <<passed, target, receipt, marker, staged, up>>

\* Mutant: the receipt of an earlier call is not asked for.
ReadReceiptNever(p, d) ==
  /\ Starts(p, d, "applying") /\ Goes(p, d, "swapping")
  /\ UNCHANGED <<row, passed, target, receipt, marker, staged, up>>

ReadReceipt(p, d) ==
  /\ Starts(p, d, "applying")
  /\ Goes(p, d, IF receipt[p] # Base THEN "applied" ELSE "swapping")
  /\ UNCHANGED <<row, passed, target, receipt, marker, staged, up>>

\* Mutant: the reference is updated without naming the state it must still hold.
TransactionCommitsAnyway(p) == receipt[p] = Base

\* The reference transaction of git: the Target still holds what was expected and the
\* receipt does not exist; both references move, or neither.
TransactionCommits(p) == target = row[p].facts.before /\ receipt[p] = Base

SwapTarget(p, d) ==
  /\ At(p, d, "swapping") /\ TransactionCommits(p)
  /\ target' = row[p].facts.candidate
  /\ receipt' = [receipt EXCEPT ![p] = row[p].facts.candidate]
  /\ Goes(p, d, "applied")
  /\ UNCHANGED <<row, passed, marker, staged, up>>

LoseSwap(p, d) ==
  /\ At(p, d, "swapping") /\ ~TransactionCommits(p) /\ Goes(p, d, "lost")
  /\ UNCHANGED <<row, passed, target, receipt, marker, staged, up>>

\* Mutant: a rejected transaction is always an unknown result.
ReadTargetNever(p, d) ==
  /\ At(p, d, "lost") /\ Stops(p, d)
  /\ UNCHANGED <<row, passed, target, receipt, marker, staged, up>>

\* After a rejection the Target is read once more: moved, or nothing is known.
ReadTarget(p, d) ==
  /\ At(p, d, "lost")
  /\ IF target # row[p].facts.before THEN Goes(p, d, "changed") ELSE Stops(p, d)
  /\ UNCHANGED <<row, passed, target, receipt, marker, staged, up>>

\* Another writer may have recorded the success already.
RecordApplied(p, d) ==
  /\ At(p, d, "applied")
  /\ IF Status(p) = "succeeded"
     THEN Goes(p, d, "next") /\ UNCHANGED row
     ELSE Records(p, d, "applying", "succeeded")
  /\ UNCHANGED <<passed, target, receipt, marker, staged, up>>

RecordChanged(p, d) ==
  /\ At(p, d, "changed") /\ Records(p, d, "applying", "failed")
  /\ UNCHANGED <<passed, target, receipt, marker, staged, up>>

-----------------------------------------------------------------------------
(***************************************************************************)
(* releaseStep: the staging goes first, the obligation is closed after it. *)
(***************************************************************************)
Terminal(p, d) == Status(p) \in Final /\ Starts(p, d, Status(p))

Release(p, d) ==
  /\ Terminal(p, d) /\ row[p].cleanup = "pending"
  /\ staged' = [staged EXCEPT ![p] = FALSE]
  /\ marker' = [marker EXCEPT ![p] = NoFacts]
  /\ Goes(p, d, "removed")
  /\ UNCHANGED <<row, passed, target, receipt, up>>

RecordReleased(p, d) ==
  /\ At(p, d, "removed")
  /\ row' = [row EXCEPT ![p].cleanup = "released"] /\ Stops(p, d)
  /\ UNCHANGED <<passed, target, receipt, marker, staged, up>>

Quiescent(p, d) ==
  /\ Terminal(p, d) /\ row[p].cleanup = "released" /\ Stops(p, d)
  /\ UNCHANGED <<row, passed, target, receipt, marker, staged, up>>

-----------------------------------------------------------------------------
(***************************************************************************)
(* The host and the world.                                                 *)
(***************************************************************************)
\* A step throws or its provider is unavailable: the driver reports it and ends
\* (RunHost.advancePublication).
Unavailable(p, d) ==
  /\ Faults /\ up /\ drv[p][d].at # "idle" /\ Stops(p, d)
  /\ UNCHANGED <<row, passed, target, receipt, marker, staged, up>>

\* The operator's explicit advance; a driver that runs already absorbs it.
Retry(p, d) ==
  /\ At(p, d, "idle") /\ Status(p) \in Open \cup Final
  /\ Goes(p, d, "next")
  /\ UNCHANGED <<row, passed, target, receipt, marker, staged, up>>

Crash ==
  /\ up /\ up' = FALSE
  /\ drv' = [p \in Publications |-> [d \in Drivers |-> IdleDriver]]
  /\ UNCHANGED <<row, passed, target, receipt, marker, staged>>

\* RunHost.reconstruct: everything outstanding is driven again, from its row.
Boot ==
  /\ ~up /\ up' = TRUE
  /\ drv' = [p \in Publications |-> [d \in Drivers |->
               IF Outstanding(p) THEN [IdleDriver EXCEPT !.at = "next"] ELSE IdleDriver]]
  /\ UNCHANGED <<row, passed, target, receipt, marker, staged>>

OperatorCommits ==
  /\ Len(target) < MaxCommits /\ target' = Append(target, Operator)
  /\ UNCHANGED <<row, passed, receipt, marker, staged, up, drv>>

OperatorResets ==
  /\ \E n \in 0..Len(target) : n < Len(target) /\ target' = SubSeq(target, 1, n)
  /\ UNCHANGED <<row, passed, receipt, marker, staged, up, drv>>

DamageMarker(p) ==
  /\ Losses /\ Recorded(p) /\ marker' = [marker EXCEPT ![p] = Damaged]
  /\ UNCHANGED <<row, passed, target, receipt, staged, up, drv>>

-----------------------------------------------------------------------------
Prepares(p, d) ==
  ReplayPrepared(p, d) \/ BuildCandidate(p, d) \/ RefuseCandidate(p, d) \/ WriteMarker(p, d)

DriverStep(p, d) ==
  \/ Prepares(p, d)
  \/ RecordPrepared(p, d) \/ RecordRefused(p, d)
  \/ RunChecks(p, d) \/ RecordVerified(p, d) \/ RecordRejected(p, d)
  \/ CommitApplying(p, d) \/ ReadReceipt(p, d) \/ SwapTarget(p, d) \/ LoseSwap(p, d)
  \/ ReadTarget(p, d) \/ RecordApplied(p, d) \/ RecordChanged(p, d)
  \/ Release(p, d) \/ RecordReleased(p, d) \/ Quiescent(p, d)

Next ==
  \/ \E p \in Publications :
       \/ Request(p) \/ Cancel(p) \/ DamageMarker(p)
       \/ \E d \in Drivers :
            Publish(p, d) \/ DriverStep(p, d) \/ Unavailable(p, d) \/ Retry(p, d)
  \/ Crash \/ Boot \/ OperatorCommits \/ OperatorResets

Spec == Init /\ [][Next]_vars
=============================================================================
