---------------------------- MODULE Integration -----------------------------
(***************************************************************************)
(* Changesets applied to a Run's Integration Workspace                     *)
(* (integration-service.ts, workspace-state/integration.ts).  The service  *)
(* lets one call at a time through.  A call finds out what git already     *)
(* holds, applies and commits, puts a ref, and records the result in one   *)
(* transaction; it is lost between any two of these when the process dies  *)
(* or a step throws.  What the diff does to the workspace is a choice.     *)
(*                                                                         *)
(* A commit stands for its history: the Changesets committed on the base,  *)
(* in order.  A conflict Task is created pending, and nothing in the       *)
(* program ever starts one, so none is completed: cancelling it is all     *)
(* that is left, and the second application is not modelled.               *)
(***************************************************************************)
EXTENDS Naturals, Sequences

CONSTANTS
  Changesets,
  MaxTroubles   \* bound: conflicts, lost calls, and what an extending module counts

ASSUME IntegrationAssumption == MaxTroubles \in Nat

VARIABLES
  snapshot,     \* the Run's integration Snapshot
  head,         \* HEAD of the Integration Workspace
  ref,          \* the integration ref of every Changeset
  change,       \* its integration status, "none" before it is recorded
  conflictTask, \* the Task of its conflict
  call,         \* the call under way: where it is, its Changeset and what it found
  troubles      \* troubles so far

git == <<head, ref>>
rows == <<snapshot, change, conflictTask>>
integrationVars == <<git, rows, call, troubles>>

Commits == Seq(Changesets)
NoRef == [set |-> FALSE, at |-> <<>>]
NoCall == [step |-> "none"]
Idle == call.step = "none"
At(step) == call.step = step

IntegrationInit ==
  /\ snapshot = <<>> /\ head = <<>>
  /\ ref = [c \in Changesets |-> NoRef]
  /\ change = [c \in Changesets |-> "none"]
  /\ conflictTask = [c \in Changesets |-> "none"]
  /\ call = NoCall
  /\ troubles = 0

Trouble == troubles < MaxTroubles /\ troubles' = troubles + 1

-----------------------------------------------------------------------------
\* An Attempt succeeded: its Changeset is recorded (attempt-executor.ts).
Produces(c) ==
  /\ change[c] = "none"
  /\ change' = [change EXCEPT ![c] = "pending"]
  /\ UNCHANGED <<git, snapshot, conflictTask>>

Begins(c) ==
  /\ Idle /\ change[c] = "pending"
  /\ call' = [step |-> "apply", changeset |-> c, at |-> snapshot]
  /\ UNCHANGED <<git, rows, troubles>>

\* The port answers with the commit it found or made.
Answers(commit) ==
  call' = [step |-> "record", changeset |-> call.changeset, at |-> commit]
PutsRef(commit) == ref' = [ref EXCEPT ![call.changeset] = [set |-> TRUE, at |-> commit]]
TrailerNames(c) == head # <<>> /\ head[Len(head)] = c
Unknown == At("apply") /\ ~ref[call.changeset].set /\ ~TrailerNames(call.changeset)

\* Mutant: the workspace is reset to the recorded Snapshot, whatever it holds.
NeverDrifted == TRUE
InPlace == head = snapshot

RefAnswers ==
  /\ At("apply") /\ ref[call.changeset].set
  /\ Answers(ref[call.changeset].at)
  /\ UNCHANGED <<git, rows, troubles>>
TrailerAnswers ==
  /\ At("apply") /\ ~ref[call.changeset].set /\ TrailerNames(call.changeset)
  /\ PutsRef(head) /\ Answers(head)
  /\ UNCHANGED <<head, rows, troubles>>
\* A drifted workspace throws: the call and the pass end, and nothing is recorded.
Drifts == Unknown /\ ~InPlace /\ call' = NoCall /\ UNCHANGED <<git, rows, troubles>>

Commit ==
  /\ Unknown /\ InPlace
  /\ head' = Append(snapshot, call.changeset)
  /\ call' = [call EXCEPT !.step = "ref"]
  /\ UNCHANGED <<ref, rows, troubles>>
PutRef == At("ref") /\ PutsRef(head) /\ Answers(head) /\ UNCHANGED <<head, rows, troubles>>
\* An empty diff, or one that stages nothing: the ref names the current commit.
ApplyNothing ==
  /\ Unknown /\ InPlace
  /\ PutsRef(snapshot) /\ Answers(snapshot)
  /\ head' = snapshot
  /\ UNCHANGED <<rows, troubles>>
Conflict ==
  /\ Unknown /\ InPlace /\ Trouble
  /\ call' = [call EXCEPT !.step = "conflict"]
  /\ head' = snapshot
  /\ UNCHANGED <<ref, rows>>

Record ==
  /\ At("record")
  /\ snapshot' = call.at
  /\ change' = [change EXCEPT ![call.changeset] = "integrated"]
  /\ call' = NoCall
  /\ UNCHANGED <<git, conflictTask, troubles>>
RecordConflict ==
  /\ At("conflict")
  /\ change' = [change EXCEPT ![call.changeset] = "conflict"]
  /\ conflictTask' = [conflictTask EXCEPT ![call.changeset] = "pending"]
  /\ call' = [call EXCEPT !.step = "wait"]
  /\ UNCHANGED <<git, snapshot, troubles>>
\* The caller has what it needs, and acts on it.
Returns == At("wait") /\ call' = NoCall /\ UNCHANGED <<git, rows, troubles>>

\* The process dies, or a command or a transaction fails.
CallLost == ~Idle /\ Trouble /\ call' = NoCall /\ UNCHANGED <<git, rows>>

\* update_task: an Orchestrator turn cancels the Task.
ConflictCancelled(c) ==
  /\ conflictTask[c] = "pending"
  /\ conflictTask' = [conflictTask EXCEPT ![c] = "cancelled"]
  /\ UNCHANGED <<git, snapshot, change>>

CallSteps ==
  \/ RefAnswers \/ TrailerAnswers \/ Drifts
  \/ Commit \/ PutRef \/ ApplyNothing \/ Conflict
  \/ Record \/ RecordConflict

IntegrationNext ==
  \/ CallSteps \/ Returns \/ CallLost
  \/ \E c \in Changesets :
       \/ Begins(c)
       \/ (Produces(c) \/ ConflictCancelled(c)) /\ UNCHANGED <<call, troubles>>

IntegrationSpec == IntegrationInit /\ [][IntegrationNext]_integrationVars

-----------------------------------------------------------------------------
\* Commit a is commit b or one of its ancestors.
Ancestor(a, b) == Len(a) <= Len(b) /\ \A i \in 1..Len(a) : a[i] = b[i]
Holds(commit, c) == \E i \in 1..Len(commit) : commit[i] = c

\* A ref that named the commit before another Changeset was integrated: the Changeset it
\* belongs to changed nothing, its record was lost, and the ref answers for it now.
Overtaken ==
  /\ At("record") /\ ref[call.changeset].set
  /\ Ancestor(ref[call.changeset].at, snapshot) /\ ref[call.changeset].at # snapshot

\* What was integrated stays integrated: the Run's Snapshot only moves forward, whatever was
\* lost between the commit, its ref and their record (apply's three questions to git), unless
\* the call was overtaken.
SnapshotGrows == [][Overtaken \/ Ancestor(snapshot, snapshot')]_integrationVars
=============================================================================
