---------------------------- MODULE WorkersProofs ----------------------------
(***************************************************************************)
(* Three promises of a coordinator_worker node, for any number of Tasks,   *)
(* turns and Workers.                                                      *)
(*                                                                         *)
(* One that succeeded owes nothing.  A node succeeds at the end of a       *)
(* synthesis only, and from the preparation of that turn on nothing can    *)
(* disturb the Tasks: no Worker is active, none may start or continue, the *)
(* turn may not propose, and only its own Changeset is integrated.         *)
(*                                                                         *)
(* Dependencies come first.  A Task that has begun depends on completed    *)
(* ones; a completed one is never undone and never replaced, so that what  *)
(* depends on it gains no dependency; and Kahn's order takes a Changeset   *)
(* only when all before it in the order are in the snapshot.               *)
(*                                                                         *)
(* What is advised is permitted.  When nothing is left to project, start,  *)
(* continue or decide, the same order leaves no Task that is not over, and *)
(* a synthesis begins; every other advice names what its operation finds.  *)
(***************************************************************************)
EXTENDS WorkersProperties, FiniteSetTheorems, WellFoundedInduction, TLAPS

TaskStatuses ==
  {"absent", "pending", "ready", "running", "blocked", "completed", "failed", "cancelled"}
Entries ==
  [status : TaskStatuses,
   why : {"none", "input", "decision", "dependency"}, replaces : Nat, deps : SUBSET Tasks,
   reserved : BOOLEAN, handoff : BOOLEAN]
Rows ==
  [status : {"absent", "queued", "running", "succeeded", "blocked", "failed"},
   result : {"none", "completed", "failed", "blocked"},
   decision : {"none", "open", "resolved", "superseded"},
   changes : {"none", "pending", "integrated", "conflict"},
   conflictTask : {"none", "open", "cancelled"}]

Reasons ==
  {"none", "decision", "integration_conflict", "budget", "provider_capacity",
   "allocation_exhausted", "invocation_failed", "result_failed", "result_blocked",
   "coordinator_no_progress", "coordinator_invocations_exhausted"}
Nodes == [status : {"ready", "running", "waiting", "succeeded", "failed"}, reason : Reasons]
Turns ==
  [purpose : {"none", "decompose", "replan", "synthesize"}, calls : SUBSET {"propose", "update"},
   given : SUBSET ((TaskStatuses \cup {"conflict"}) \X Tasks), again : BOOLEAN]

WorkersTypeOK ==
  /\ node \in Nodes
  /\ turn \in Turns
  /\ used \in Nat /\ troubles \in Nat
  /\ task \in [Tasks -> Entries]
  /\ inv \in [Positions -> Rows]

\* A Worker has an accepted Task.
WorkersHaveTasks == \A t \in Tasks : inv[t].status # "absent" => task[t].status # "absent"
Synthesizing == turn.purpose = "synthesize"
Settled(t) ==
  /\ ~Active(t)
  /\ \/ task[t].status = "cancelled"
     \/ Completed(t) /\ task[t].handoff /\ ~Outstanding(t)
\* What synthesisReady found stays so: it is the Coordinator's Changeset that may be applied.
SynthesisHolds ==
  Synthesizing => applying \in {Nowhere, Coordinator} /\ \A t \in Current : Settled(t)
SuccessIsSynthesis == node.status = "succeeded" => Synthesizing

DoneInv == WorkersTypeOK /\ WorkersHaveTasks /\ SynthesisHolds /\ SuccessIsSynthesis

-----------------------------------------------------------------------------
(***************************************************************************)
(* Ledgers: one that keeps the accepted Tasks, and one that in addition    *)
(* leaves the current Tasks that are over as they are.                     *)
(***************************************************************************)
Keeps(ledger) ==
  /\ ledger \in [Tasks -> Entries]
  /\ \A t \in Tasks : ledger[t].status = "absent" => task[t].status = "absent"
Same(ledger) ==
  \A t \in Tasks :
    /\ ledger[t].status = "absent" <=> task[t].status = "absent"
    /\ ledger[t].replaces = task[t].replaces
    /\ t \in Current /\ task[t].status \in {"cancelled", "completed"} =>
         ledger[t].status = task[t].status /\ ledger[t].handoff = task[t].handoff

LEMMA Constants ==
  /\ MaxTasks \in Nat /\ Coordinator \in Positions /\ Coordinator \notin Tasks
  /\ Coordinator # Nowhere /\ Nowhere \notin Positions /\ Tasks \subseteq Positions
  /\ Current \subseteq Tasks /\ Tasks \subseteq Nat
  BY WorkersAssumption DEF Coordinator, Positions, Tasks, Nowhere, Current, Accepted

LEMMA FiniteTasks == IsFiniteSet(Tasks) /\ IsFiniteSet(Accepted)
<1>1. IsFiniteSet(Tasks)
  BY Constants, FS_Interval DEF Tasks
<1>2. Accepted \subseteq Tasks
  BY DEF Accepted
<1>3. QED
  BY <1>1, <1>2, FS_Subset

LEMMA NodeTypes ==
  ASSUME WorkersTypeOK, NEW status \in {"running", "waiting", "succeeded", "failed"},
         NEW reason \in Reasons, NodeIs(status, reason)
  PROVE  node' \in Nodes /\ node'.status = status
  BY DEF NodeIs, Nodes

LEMMA SameTask ==
  ASSUME WorkersTypeOK
  PROVE  Keeps(task) /\ Same(task)
  BY DEF WorkersTypeOK, Keeps, Same

LEMMA AbandonedKeeps ==
  ASSUME WorkersTypeOK, NEW ledger, Keeps(ledger)
  PROVE  Keeps(Abandoned(ledger)) /\ (Same(ledger) => Same(Abandoned(ledger)))
<1> DEFINE A == Abandoned(ledger)
<1>1. ledger \in [Tasks -> Entries]
  BY DEF Keeps
<1>2. A = [t \in Tasks |-> A[t]] /\ DOMAIN A = Tasks
  BY DEF Abandoned
<1>3. ASSUME NEW t \in Tasks
      PROVE  /\ A[t] \in Entries /\ A[t].replaces = ledger[t].replaces
             /\ A[t].status = "absent" <=> ledger[t].status = "absent"
             /\ ledger[t].status # "running" => A[t] = ledger[t]
  <2>1. A[t] = IF ledger[t].status = "running" /\ Terminal(t)
               THEN [ledger[t] EXCEPT !.status = "failed"] ELSE ledger[t]
    BY DEF Abandoned
  <2>2. ledger[t] \in Entries
    BY <1>1
  <2>3. QED
    BY <2>1, <2>2 DEF Entries, TaskStatuses
<1>4. Keeps(A)
  BY <1>1, <1>2, <1>3 DEF Keeps
<1>5. Same(ledger) => Same(A)
  <2> SUFFICES ASSUME Same(ledger), NEW t \in Tasks
               PROVE  /\ A[t].status = "absent" <=> task[t].status = "absent"
                      /\ A[t].replaces = task[t].replaces
                      /\ t \in Current /\ task[t].status \in {"cancelled", "completed"} =>
                           A[t].status = task[t].status /\ A[t].handoff = task[t].handoff
    BY DEF Same
  <2> HIDE DEF A
  <2> QED
    BY <1>3 DEF Same
<1>6. QED
  BY <1>4, <1>5

LEMMA CancelKeeps ==
  ASSUME WorkersTypeOK
  PROVE  LET ledger == [t \in Tasks |-> IF t \in Current /\ task[t].status \in Unstarted
                                        THEN CancelTask(task[t]) ELSE task[t]]
         IN Keeps(ledger) /\ Same(ledger)
<1> DEFINE L == [t \in Tasks |-> IF t \in Current /\ task[t].status \in Unstarted
                                 THEN CancelTask(task[t]) ELSE task[t]]
<1>1. ASSUME NEW t \in Tasks
      PROVE  /\ L[t] \in Entries /\ L[t].replaces = task[t].replaces
             /\ L[t].status = "absent" <=> task[t].status = "absent"
             /\ task[t].status \notin Unstarted => L[t] = task[t]
  <2>1. task[t] \in Entries
    BY DEF WorkersTypeOK
  <2>2. QED
    BY <2>1 DEF Entries, TaskStatuses, CancelTask, Unstarted
<1>2. QED
  BY <1>1 DEF Keeps, Same, Unstarted

LEMMA FailNodeKeeps ==
  ASSUME WorkersTypeOK, NEW reason, FailNode(reason)
  PROVE  Keeps(task') /\ Same(task')
  BY CancelKeeps, AbandonedKeeps DEF FailNode

LEMMA EntryWritten ==
  ASSUME NEW e \in Entries, NEW status \in TaskStatuses,
         NEW why \in {"none", "input", "decision", "dependency"}, NEW b \in BOOLEAN
  PROVE  /\ [e EXCEPT !.status = status] \in Entries
         /\ [e EXCEPT !.status = status].status = status
         /\ [e EXCEPT !.status = status].replaces = e.replaces
         /\ [e EXCEPT !.why = why] \in Entries
         /\ [e EXCEPT !.why = why].status = e.status
         /\ [e EXCEPT !.why = why].replaces = e.replaces
         /\ [e EXCEPT !.reserved = b] \in Entries
         /\ [e EXCEPT !.reserved = b].status = e.status
         /\ [e EXCEPT !.handoff = b] \in Entries
         /\ [e EXCEPT !.handoff = b].status = e.status
  BY DEF Entries

Written(ledger, t, status, why) ==
  ledger = [task EXCEPT ![t].status = status, ![t].why = why]

LEMMA StatusWritten ==
  ASSUME WorkersTypeOK, NEW t, NEW status \in TaskStatuses \ {"absent"},
         NEW why \in {"none", "input", "decision", "dependency"},
         NEW ledger, Written(ledger, t, status, why)
  PROVE  /\ Keeps(ledger)
         /\ t \in Tasks => ledger[t].status = status
         /\ \A u \in Tasks : u # t => ledger[u] = task[u]
         /\ \A u \in Tasks : ledger[u].replaces = task[u].replaces
<1> DEFINE entry == [[task[t] EXCEPT !.status = status] EXCEPT !.why = why]
<1>1. ledger = [task EXCEPT ![t] = entry]
  BY DEF WorkersTypeOK, Written
<1>2. \A u \in Tasks : task[u] \in Entries
  BY DEF WorkersTypeOK
<1>3. t \in Tasks => entry \in Entries /\ entry.status = status /\ entry.replaces = task[t].replaces
  <2> SUFFICES ASSUME t \in Tasks
               PROVE  entry \in Entries /\ entry.status = status /\ entry.replaces = task[t].replaces
    OBVIOUS
  <2> DEFINE written == [task[t] EXCEPT !.status = status]
  <2>1. written \in Entries /\ written.status = status /\ written.replaces = task[t].replaces
    BY <1>2, EntryWritten
  <2> HIDE DEF written
  <2>2. [written EXCEPT !.why = why] \in Entries /\ [written EXCEPT !.why = why].status = status
        /\ [written EXCEPT !.why = why].replaces = task[t].replaces
    BY <2>1, EntryWritten
  <2>3. QED
    BY <2>2 DEF written
<1> HIDE DEF entry
<1>4. ledger \in [Tasks -> Entries] /\ \A u \in Tasks : ledger[u] = IF u = t THEN entry ELSE task[u]
  BY <1>1, <1>3 DEF WorkersTypeOK
<1>5. QED
  BY <1>3, <1>4 DEF Keeps

LEMMA StartWritten ==
  ASSUME WorkersTypeOK, NEW t
  PROVE  LET ledger == [task EXCEPT ![t].status = "running", ![t].reserved = FALSE]
         IN Keeps(ledger) /\ (t \in Tasks => ledger[t].status = "running")
<1> DEFINE entry == [[task[t] EXCEPT !.status = "running"] EXCEPT !.reserved = FALSE]
           ledger == [task EXCEPT ![t] = entry]
<1>1. [task EXCEPT ![t].status = "running", ![t].reserved = FALSE] = ledger
  BY DEF WorkersTypeOK
<1>2. t \in Tasks => entry \in Entries /\ entry.status = "running"
  <2> SUFFICES ASSUME t \in Tasks
               PROVE  entry \in Entries /\ entry.status = "running"
    OBVIOUS
  <2> DEFINE written == [task[t] EXCEPT !.status = "running"]
  <2>1. task[t] \in Entries /\ "running" \in TaskStatuses
    BY DEF WorkersTypeOK, TaskStatuses
  <2>2. written \in Entries /\ written.status = "running"
    BY <2>1, EntryWritten
  <2> HIDE DEF written
  <2>3. [written EXCEPT !.reserved = FALSE] \in Entries
        /\ [written EXCEPT !.reserved = FALSE].status = "running"
    BY <2>2 DEF Entries
  <2>4. QED
    BY <2>3 DEF written
<1>3. ledger \in [Tasks -> Entries] /\ \A u \in Tasks : ledger[u] = IF u = t THEN entry ELSE task[u]
  BY <1>2 DEF WorkersTypeOK
<1> HIDE DEF entry, ledger
<1>4. QED
  BY <1>1, <1>2, <1>3 DEF Keeps

-----------------------------------------------------------------------------
(***************************************************************************)
(* What a step must leave alone.                                           *)
(***************************************************************************)
LEMMA Undisturbed ==
  ASSUME DoneInv, WorkersTypeOK', Keeps(task'), turn'.purpose = turn.purpose,
         \A t \in Tasks : inv'[t].status # "absent" =>
                            inv[t].status # "absent" \/ task'[t].status # "absent",
         Synthesizing => /\ Same(task')
                         /\ applying' \in {applying, Nowhere, Coordinator}
                         /\ \A t \in Current :
                              /\ inv'[t].status \in {"queued", "running"} => Active(t)
                              /\ inv'[t].changes \in {"pending", "conflict"} => Outstanding(t),
         node'.status = "succeeded" => Synthesizing
  PROVE  DoneInv'
<1>1. WorkersHaveTasks'
  BY DEF DoneInv, WorkersHaveTasks, Keeps
<1>2. SuccessIsSynthesis'
  BY DEF SuccessIsSynthesis, Synthesizing
<1>3. SynthesisHolds'
  <2> SUFFICES ASSUME Synthesizing
               PROVE  (applying \in {Nowhere, Coordinator} /\ \A t \in Current : Settled(t))'
    BY DEF SynthesisHolds, Synthesizing
  <2>1. Accepted' = Accepted
    BY DEF Accepted, Same
  <2>2. \A t \in Accepted : task'[t].replaces = task[t].replaces
    BY DEF Same, Accepted
  <2>3. Current' = Current
    BY <2>1, <2>2 DEF Current
  <2>4. ASSUME NEW t \in Current
        PROVE  Settled(t)'
    <3>1. Settled(t) /\ t \in Tasks
      BY Constants DEF DoneInv, SynthesisHolds
    <3>2. task'[t].status = task[t].status /\ task'[t].handoff = task[t].handoff
      BY <3>1 DEF Settled, Same, Completed
    <3>3. QED
      BY <3>1, <3>2 DEF Settled, Completed, Active, Outstanding
  <2>5. applying' \in {Nowhere, Coordinator} /\ Nowhere' = Nowhere /\ Coordinator' = Coordinator
    BY DEF DoneInv, SynthesisHolds, Nowhere, Coordinator
  <2>6. QED
    BY <2>3, <2>4, <2>5
<1>4. QED
  BY <1>1, <1>2, <1>3 DEF DoneInv

-----------------------------------------------------------------------------
(***************************************************************************)
(* What inspect may advise.                                                *)
(***************************************************************************)
LEMMA FrontierTypes ==
  ASSUME WorkersTypeOK
  PROVE  Frontier \in SUBSET ((TaskStatuses \cup {"conflict"}) \X Tasks)
<1>1. \A t \in Current : t \in Tasks /\ task[t].status \in TaskStatuses
  BY Constants DEF WorkersTypeOK, Entries, TaskStatuses
<1>2. /\ \A S \in SUBSET Current :
           {<<task[t].status, t>> : t \in S} \in SUBSET ((TaskStatuses \cup {"conflict"}) \X Tasks)
      /\ \A S \in SUBSET Current : \A w \in {"blocked", "conflict"} :
           {<<w, t>> : t \in S} \in SUBSET ((TaskStatuses \cup {"conflict"}) \X Tasks)
  BY <1>1 DEF TaskStatuses
<1>3. /\ BecomesBlocked \in SUBSET Current /\ {u \in Current : ConflictOpen(u)} \in SUBSET Current
      /\ {t \in Current : \/ task[t].status = "failed" \/ BlockedBy(t, "input")
                          \/ BlockedBy(t, "dependency") /\ Doomed(t)} \in SUBSET Current
  BY DEF BecomesBlocked
<1>4. QED
  BY <1>2, <1>3 DEF Frontier

LEMMA SynthesisAdvised ==
  ASSUME Advice.what = "synthesize"
  PROVE  SynthesisReady /\ applying = Nowhere
  BY DEF Advice, RunningAdvice, Do

LEMMA NothingToDo ==
  ASSUME DoneInv, Synthesizing
  PROVE  /\ ActiveWorkers = {} /\ Queued = {} /\ Runnable = {}
         /\ ~\E t \in Current : WorkerContinues(t)
         /\ Terminal(Coordinator) => TurnPending
<1>1. \A t \in Current : ~Active(t) /\ task[t].status \in {"cancelled", "completed"}
  BY DEF DoneInv, SynthesisHolds, Settled, Completed
<1>2. ActiveWorkers = {} /\ Queued = {}
  BY <1>1 DEF ActiveWorkers, Queued
<1>3. Runnable = {}
  BY <1>1 DEF Runnable, BecomesReady, BlockedBy
<1>4. ~\E t \in Current : WorkerContinues(t)
  BY <1>1 DEF WorkerContinues, BlockedBy
<1>5. QED
  BY <1>2, <1>3, <1>4 DEF TurnPending, Synthesizing

LEMMA AdviceOfSynthesis ==
  ASSUME DoneInv, Synthesizing
  PROVE  /\ Advice.what \notin {"start_worker", "replan", "synthesize"}
         /\ Advice.what \in {"continue", "execute"} => Advice.at = Coordinator
         /\ Advice.what = "settle" => TurnPending
<1>1. inv[Coordinator].status \in {"absent", "queued", "running", "succeeded", "blocked", "failed"}
  BY Constants DEF DoneInv, WorkersTypeOK, Rows
<1>2. RunningAdvice =
        IF Active(Coordinator)
        THEN Do(IF inv[Coordinator].status = "queued" THEN "execute" ELSE "in_flight", Coordinator)
        ELSE IF inv[Coordinator].status = "absent" THEN Do("start", Coordinator)
        ELSE Do(IF TurnContinues THEN "continue" ELSE "settle", Coordinator)
  BY <1>1, NothingToDo DEF RunningAdvice, Active, Terminal
<1>3. Active(Coordinator) \/ inv[Coordinator].status = "absent" \/ TurnPending
  BY <1>1, NothingToDo DEF Active, Terminal
<1>4. /\ RunningAdvice.what \notin {"start_worker", "replan", "synthesize"}
      /\ RunningAdvice.what \in {"continue", "execute"} => RunningAdvice.at = Coordinator
      /\ RunningAdvice.what = "settle" => TurnPending
  BY <1>2, <1>3 DEF Do
<1>5. QED
  BY <1>4 DEF Advice, Do

-----------------------------------------------------------------------------
(***************************************************************************)
(* The preparation of Invocations.                                         *)
(***************************************************************************)
LEMMA RefuseStep ==
  ASSUME DoneInv, NEW ledger, Keeps(ledger), Synthesizing => Same(ledger), Refuse(ledger)
  PROVE  DoneInv'
<1>1. Keeps(task') /\ (Synthesizing => Same(task'))
  BY AbandonedKeeps DEF Refuse, DoneInv
<1>2. node' \in Nodes /\ node'.status # "succeeded"
  BY NodeTypes DEF Refuse, DoneInv, Reasons
<1>3. WorkersTypeOK'
  BY <1>1, <1>2 DEF DoneInv, WorkersTypeOK, Refuse, Trouble, Keeps
<1>4. QED
  BY <1>1, <1>3, <1>2, Undisturbed, Constants DEF Refuse, Active, Outstanding

LEMMA CreateTypes ==
  ASSUME WorkersTypeOK, NEW p, Create(p)
  PROVE  /\ inv' \in [Positions -> Rows]
         /\ \A q \in Positions : q # p => inv'[q] = inv[q]
         /\ p \in Positions => inv'[p] = Prepared
<1>1. Prepared \in Rows
  BY DEF Prepared, NoInvocation, Rows
<1>2. QED
  BY <1>1 DEF Create, WorkersTypeOK

LEMMA PrepareTurnStep ==
  ASSUME DoneInv, NEW purpose \in {"decompose", "replan", "synthesize"}, PrepareTurn(purpose),
         purpose = "synthesize" => SynthesisReady /\ applying = Nowhere
  PROVE  DoneInv'
<1>1. CASE Refuse(task)
  BY <1>1, RefuseStep, SameTask DEF DoneInv
<1>2. CASE ~Refuse(task)
  <2>1. /\ NodeIs("running", "none") /\ Create(Coordinator)
        /\ turn' = [purpose |-> purpose, calls |-> {}, given |-> Frontier, again |-> FALSE]
        /\ used' = used + 1
        /\ task' = task /\ applying' = applying /\ troubles' = troubles
    BY <1>2 DEF PrepareTurn
  <2>2. /\ inv' \in [Positions -> Rows]
        /\ \A t \in Tasks : inv'[t] = inv[t]
    BY <2>1, CreateTypes, Constants DEF DoneInv
  <2>3. node' \in Nodes /\ node'.status # "succeeded"
    BY <2>1, NodeTypes DEF DoneInv, Reasons
  <2>4. turn' \in Turns
    BY <2>1, FrontierTypes DEF DoneInv, Turns
  <2>5. WorkersTypeOK'
    BY <2>1, <2>2, <2>3, <2>4 DEF DoneInv, WorkersTypeOK
  <2>6. WorkersHaveTasks' /\ SuccessIsSynthesis'
    BY <2>1, <2>2, <2>3 DEF DoneInv, WorkersHaveTasks, SuccessIsSynthesis
  <2>7. SynthesisHolds'
    <3> SUFFICES ASSUME purpose = "synthesize"
                 PROVE  (applying \in {Nowhere, Coordinator} /\ \A t \in Current : Settled(t))'
      BY <2>1 DEF SynthesisHolds, Synthesizing
    <3>1. Current' = Current
      BY <2>1 DEF Current, Accepted
    <3>2. ASSUME NEW t \in Current
          PROVE  Settled(t)'
      <4>1. Settled(t)
        BY DEF SynthesisReady, ActiveWorkers, Settled
      <4>2. QED
        BY <4>1, <2>1, <2>2, Constants DEF Settled, Active, Completed, Outstanding
    <3>3. QED
      BY <3>1, <3>2, <2>1 DEF Nowhere, Coordinator
  <2>8. QED
    BY <2>5, <2>6, <2>7 DEF DoneInv
<1>3. QED
  BY <1>1, <1>2

LEMMA ContinueTurnStep ==
  ASSUME DoneInv, ContinueTurn
  PROVE  DoneInv'
<1>1. CASE Refuse(task)
  BY <1>1, RefuseStep, SameTask DEF DoneInv
<1>2. CASE ~Refuse(task)
  <2>1. /\ NodeIs("running", "none") /\ Create(Coordinator)
        /\ turn' = [turn EXCEPT !.calls = {}, !.again = TRUE]
        /\ used' \in {used, used + 1}
        /\ task' = task /\ applying' = applying /\ troubles' = troubles
    BY <1>2 DEF ContinueTurn
  <2>2. /\ inv' \in [Positions -> Rows]
        /\ \A t \in Tasks : inv'[t] = inv[t]
    BY <2>1, CreateTypes, Constants DEF DoneInv
  <2>3. node' \in Nodes /\ node'.status # "succeeded" /\ Keeps(task') /\ Same(task')
    BY <2>1, NodeTypes, SameTask DEF DoneInv, Reasons
  <2>4. turn' \in Turns /\ turn'.purpose = turn.purpose
    BY <2>1 DEF DoneInv, WorkersTypeOK, Turns
  <2>5. WorkersTypeOK' /\ turn'.purpose = turn.purpose
    BY <2>1, <2>2, <2>3, <2>4 DEF DoneInv, WorkersTypeOK
  <2>6. QED
    BY <2>1, <2>2, <2>5, <2>3, Undisturbed, Constants DEF Active, Outstanding
<1>3. QED
  BY <1>1, <1>2

LEMMA ContinueWorkerStep ==
  ASSUME DoneInv, ~Synthesizing, NEW t, ContinueWorker(t)
  PROVE  DoneInv'
<1> DEFINE ledger == [task EXCEPT ![t].status = "ready", ![t].why = "none"]
<1>1. Keeps(ledger)
  <2>1. Written(ledger, t, "ready", "none")
    BY DEF Written
  <2>2. "ready" \in TaskStatuses \ {"absent"} /\ WorkersTypeOK
    BY DEF TaskStatuses, DoneInv
  <2> HIDE DEF ledger
  <2>3. QED
    BY <2>1, <2>2, StatusWritten
<1>2. CASE Refuse(ledger)
  BY <1>1, <1>2, RefuseStep
<1>3. CASE ~Refuse(ledger)
  <2>1. /\ NodeIs("running", "none") /\ Create(t)
        /\ task' = [task EXCEPT ![t].status = "running", ![t].why = "none"]
        /\ turn' = turn /\ used' = used /\ applying' = applying /\ troubles' = troubles
    BY <1>3 DEF ContinueWorker
  <2>2. /\ inv' \in [Positions -> Rows]
        /\ \A u \in Tasks : u # t => inv'[u] = inv[u]
    BY <2>1, CreateTypes, Constants DEF DoneInv
  <2>3. Keeps(task') /\ (t \in Tasks => task'[t].status = "running")
    <3>1. "running" \in TaskStatuses \ {"absent"}
      BY DEF TaskStatuses
    <3>2. WorkersTypeOK
      BY DEF DoneInv
    <3>3. Written(task', t, "running", "none")
      BY <2>1 DEF Written
    <3>4. QED
      BY ONLY <3>1, <3>2, <3>3, StatusWritten
  <2>4. node' \in Nodes /\ node'.status # "succeeded"
    BY <2>1, NodeTypes DEF DoneInv, Reasons
  <2>5. WorkersTypeOK'
    BY <2>1, <2>2, <2>3, <2>4 DEF DoneInv, WorkersTypeOK, Keeps
  <2>6. QED
    BY <2>1, <2>2, <2>3, <2>5, <2>4, Undisturbed
<1>4. QED
  BY <1>2, <1>3

LEMMA StartWorkerStep ==
  ASSUME DoneInv, ~Synthesizing, NEW t, StartWorker(t)
  PROVE  DoneInv'
<1>1. /\ Create(t)
      /\ task' = [task EXCEPT ![t].status = "running", ![t].reserved = FALSE]
      /\ node' = node /\ turn' = turn /\ used' = used /\ troubles' = troubles
  BY DEF StartWorker
<1>2. /\ inv' \in [Positions -> Rows]
      /\ \A u \in Tasks : u # t => inv'[u] = inv[u]
  BY <1>1, CreateTypes, Constants DEF DoneInv
<1>3. Keeps(task') /\ (t \in Tasks => task'[t].status = "running")
  BY <1>1, StartWritten DEF DoneInv
<1>4. WorkersTypeOK'
  BY <1>1, <1>2, <1>3 DEF DoneInv, WorkersTypeOK, Keeps
<1>5. node'.status # "succeeded"
  BY <1>1 DEF DoneInv, SuccessIsSynthesis
<1>6. QED
  BY <1>1, <1>2, <1>3, <1>4, <1>5, Undisturbed

LEMMA ExecuteStep ==
  ASSUME DoneInv, NEW p, Execute(p), Synthesizing => p = Coordinator
  PROVE  DoneInv'
<1>1. /\ inv[p].status = "queued"
      /\ \/ inv' = [inv EXCEPT ![p].status = "running"] /\ node' = node /\ troubles' = troubles
         \/ inv' = inv /\ NodeIs("waiting", "provider_capacity") /\ troubles' = troubles + 1
      /\ turn' = turn /\ used' = used /\ task' = task /\ applying' = applying
  BY DEF Execute, Trouble
<1>2. /\ inv' \in [Positions -> Rows]
      /\ \A q \in Positions : q # p => inv'[q] = inv[q]
  BY <1>1 DEF DoneInv, WorkersTypeOK, Rows
<1>3. node' \in Nodes /\ (node'.status = "succeeded" => Synthesizing)
  BY <1>1, NodeTypes DEF DoneInv, SuccessIsSynthesis, WorkersTypeOK, Reasons
<1>4. WorkersTypeOK' /\ (node'.status = "succeeded" => Synthesizing)
  BY <1>1, <1>2, <1>3 DEF DoneInv, WorkersTypeOK
<1>5. QED
  BY <1>1, <1>2, <1>4, Undisturbed, SameTask, Constants DEF DoneInv, Active, Outstanding

LEMMA ResumeStep ==
  ASSUME DoneInv, NEW named, Resume(named)
  PROVE  DoneInv'
<1>1. \/ ContinueTurn
      \/ ~Synthesizing /\ \E t : ContinueWorker(t)
      \/ NodeIs("running", "none") /\ UNCHANGED <<turn, used, task, inv, born, applying, troubles>>
  <2> DEFINE byDecision == node.reason = "decision"
             turnNext == byDecision /\ TurnContinues /\ named \in {Nowhere, Coordinator}
             workers == {t \in Current : byDecision /\ WorkerContinues(t) /\ named \in {Nowhere, t}}
  <2>1. \/ turnNext /\ ContinueTurn
        \/ workers # {} /\ ContinueWorker(FirstOf(workers))
        \/ NodeIs("running", "none") /\ UNCHANGED <<turn, used, task, inv, born, applying, troubles>>
    BY DEF Resume
  <2>2. Synthesizing => workers = {}
    BY NothingToDo
  <2>3. QED
    BY <2>1, <2>2
<1>2. CASE NodeIs("running", "none") /\ UNCHANGED <<turn, used, task, inv, born, applying, troubles>>
  <2>1. node' \in Nodes /\ node'.status # "succeeded"
    BY <1>2, NodeTypes DEF DoneInv, Reasons
  <2>2. WorkersTypeOK' /\ node'.status # "succeeded"
    BY <1>2, <2>1 DEF DoneInv, WorkersTypeOK
  <2>3. QED
    BY <1>2, <2>2, Undisturbed, SameTask, Constants DEF DoneInv, Active, Outstanding
<1>3. QED
  BY <1>1, <1>2, ContinueTurnStep, ContinueWorkerStep

-----------------------------------------------------------------------------
(***************************************************************************)
(* Settlements.                                                            *)
(***************************************************************************)
\* A step that decides about the node and the ledger only, and does not make the node succeed.
LEMMA LedgerStep ==
  ASSUME DoneInv, Keeps(task'), Synthesizing => Same(task'), node' \in Nodes,
         node'.status = "succeeded" => Synthesizing,
         applying' = applying \/ applying' = Coordinator \/ ~Synthesizing,
         UNCHANGED <<turn, used, inv, troubles>>
  PROVE  DoneInv'
<1>1. WorkersTypeOK'
  BY DEF DoneInv, WorkersTypeOK, Keeps
<1>2. QED
  BY <1>1, Undisturbed DEF DoneInv, Active, Outstanding

LEMMA NodeKept ==
  ASSUME DoneInv, node' = node
  PROVE  node' \in Nodes /\ (node'.status = "succeeded" => Synthesizing)
  BY DEF DoneInv, WorkersTypeOK, SuccessIsSynthesis

LEMMA FailNodeStep ==
  ASSUME DoneInv, NEW reason \in Reasons, FailNode(reason),
         UNCHANGED <<turn, used, inv, applying, troubles>>
  PROVE  DoneInv'
<1>1. node' \in Nodes /\ node'.status # "succeeded"
  BY NodeTypes DEF FailNode, DoneInv
<1>2. QED
  BY <1>1, FailNodeKeeps, LedgerStep DEF DoneInv

LEMMA BeginIntegrationStep ==
  ASSUME DoneInv, BeginIntegration, Synthesizing => TurnPending
  PROVE  DoneInv'
<1>1. PICK p \in ToIntegrate :
        IF inv[p].conflictTask = "none"
        THEN applying' = p /\ UNCHANGED <<node, task>>
        ELSE /\ IF ConflictOpen(p) THEN NodeIs("waiting", "integration_conflict") /\ UNCHANGED task
                                   ELSE FailNow("integration_conflict")
             /\ UNCHANGED applying
  BY DEF BeginIntegration
<1>2. UNCHANGED <<turn, used, inv, troubles>>
  BY DEF BeginIntegration
<1>3. Synthesizing => p = Coordinator
  BY <1>1 DEF ToIntegrate
<1>4. CASE applying' = p /\ UNCHANGED <<node, task>>
  BY <1>2, <1>3, <1>4, NodeKept, SameTask, LedgerStep DEF DoneInv
<1>5. CASE NodeIs("waiting", "integration_conflict") /\ UNCHANGED <<task, applying>>
  <2>1. node' \in Nodes /\ node'.status # "succeeded"
    BY <1>5, NodeTypes DEF DoneInv, Reasons
  <2>2. QED
    BY <1>2, <1>5, <2>1, SameTask, LedgerStep DEF DoneInv
<1>6. CASE FailNow("integration_conflict") /\ UNCHANGED applying
  <2>1. node' \in Nodes /\ node'.status # "succeeded"
    BY <1>6, NodeTypes DEF FailNow, DoneInv, Reasons
  <2>2. Keeps(task') /\ Same(task')
    BY <1>6, SameTask, AbandonedKeeps DEF FailNow, DoneInv
  <2>3. QED
    BY <1>2, <1>6, <2>1, <2>2, LedgerStep
<1>7. QED
  BY <1>1, <1>4, <1>5, <1>6

LEMMA SettleTurnStep ==
  ASSUME DoneInv, SettleTurn, UNCHANGED <<turn, used, inv, applying, troubles>>
  PROVE  DoneInv'
<1>1. \/ NodeIs("waiting", "decision") /\ UNCHANGED task
      \/ Synthesizing /\ NodeIs("succeeded", "none") /\ UNCHANGED task
      \/ FailNode("invocation_failed") \/ FailNode("result_failed")
      \/ FailNode("coordinator_no_progress") \/ FailNode("result_blocked")
  BY DEF SettleTurn, Synthesizing
<1>2. CASE NodeIs("waiting", "decision") /\ UNCHANGED task
  <2>1. node' \in Nodes /\ node'.status # "succeeded"
    BY <1>2, NodeTypes DEF DoneInv, Reasons
  <2>2. QED
    BY <1>2, <2>1, SameTask, LedgerStep DEF DoneInv
<1>3. CASE Synthesizing /\ NodeIs("succeeded", "none") /\ UNCHANGED task
  <2>1. node' \in Nodes
    BY <1>3, NodeTypes DEF DoneInv, Reasons
  <2>2. QED
    BY <1>3, <2>1, SameTask, LedgerStep DEF DoneInv
<1>4. QED
  BY <1>1, <1>2, <1>3, FailNodeStep DEF Reasons

LEMMA ProjectedTypes ==
  ASSUME WorkersTypeOK, NEW t \in Tasks
  PROVE  /\ Projected(t) \in Entries
         /\ Projected(t).status = "absent" => task[t].status = "absent"
<1>1. task[t] \in Entries
  BY DEF WorkersTypeOK
<1>2. /\ [task[t] EXCEPT !.status = "failed"] \in Entries
      /\ \A why \in {"none", "input", "decision", "dependency"} :
           \A status \in {"blocked", "ready"} :
             /\ [task[t] EXCEPT !.status = status, !.why = why] \in Entries
             /\ [task[t] EXCEPT !.status = status, !.why = why].status = status
      /\ [task[t] EXCEPT !.status = "failed"].status = "failed"
  BY <1>1 DEF Entries, TaskStatuses
<1>3. \/ Projected(t) = [task[t] EXCEPT !.status = "failed"]
      \/ Projected(t) = [task[t] EXCEPT !.status = "blocked", !.why = "input"]
      \/ Projected(t) = [task[t] EXCEPT !.status = "blocked", !.why = "decision"]
      \/ Projected(t) = [task[t] EXCEPT !.status = "blocked", !.why = "dependency"]
      \/ Projected(t) = [task[t] EXCEPT !.status = "ready", !.why = "none"]
      \/ Projected(t) = task[t]
  <2> DEFINE unreported == IF inv[t].result = "failed" THEN [task[t] EXCEPT !.status = "failed"]
                           ELSE [task[t] EXCEPT !.status = "blocked",
                                                !.why = IF inv[t].decision = "none" THEN "input"
                                                        ELSE "decision"]
  <2>1. \/ t \in Stale /\ Projected(t) = unreported
        \/ Projected(t) = [task[t] EXCEPT !.status = "ready", !.why = "none"]
        \/ Projected(t) = [task[t] EXCEPT !.status = "blocked", !.why = "dependency"]
        \/ Projected(t) = task[t]
    BY DEF Projected
  <2>2. \/ unreported = [task[t] EXCEPT !.status = "failed"]
        \/ unreported = [task[t] EXCEPT !.status = "blocked", !.why = "input"]
        \/ unreported = [task[t] EXCEPT !.status = "blocked", !.why = "decision"]
    OBVIOUS
  <2>3. QED
    BY <2>1, <2>2
<1>4. QED
  BY <1>1, <1>2, <1>3

LEMMA ApplyToTasksStep ==
  ASSUME DoneInv, ~Synthesizing, ApplyToTasks, UNCHANGED <<turn, used, inv, applying, troubles>>
  PROVE  DoneInv'
<1>1. \/ task' = [t \in Tasks |-> Projected(t)] /\ UNCHANGED node
      \/ \E t : task' = [task EXCEPT ![t].handoff = TRUE] /\ UNCHANGED node
      \/ FailNode("coordinator_invocations_exhausted")
      \/ NodeIs("waiting", "decision") /\ UNCHANGED task
  BY DEF ApplyToTasks
<1>2. CASE task' = [t \in Tasks |-> Projected(t)] /\ UNCHANGED node
  <2>1. Keeps(task')
    BY <1>2, ProjectedTypes DEF Keeps, DoneInv
  <2>2. QED
    BY <1>2, <2>1, NodeKept, LedgerStep
<1>3. CASE \E t : task' = [task EXCEPT ![t].handoff = TRUE] /\ UNCHANGED node
  <2>1. PICK t : task' = [task EXCEPT ![t].handoff = TRUE] /\ UNCHANGED node
    BY <1>3
  <2>2. t \in Tasks => /\ [task[t] EXCEPT !.handoff = TRUE] \in Entries
                       /\ [task[t] EXCEPT !.handoff = TRUE].status = task[t].status
    <3> SUFFICES ASSUME t \in Tasks
                 PROVE  /\ [task[t] EXCEPT !.handoff = TRUE] \in Entries
                        /\ [task[t] EXCEPT !.handoff = TRUE].status = task[t].status
      OBVIOUS
    <3>1. task[t] \in Entries
      BY DEF DoneInv, WorkersTypeOK
    <3>2. QED
      BY <3>1 DEF Entries
  <2>3. Keeps(task')
    BY <2>1, <2>2 DEF Keeps, DoneInv, WorkersTypeOK
  <2>4. QED
    BY <2>1, <2>3, NodeKept, LedgerStep
<1>4. CASE NodeIs("waiting", "decision") /\ UNCHANGED task
  <2>1. node' \in Nodes /\ node'.status # "succeeded"
    BY <1>4, NodeTypes DEF DoneInv, Reasons
  <2>2. QED
    BY <1>4, <2>1, SameTask, LedgerStep DEF DoneInv
<1>5. QED
  BY <1>1, <1>2, <1>3, <1>4, FailNodeStep DEF Reasons

LEMMA SettleStep ==
  ASSUME DoneInv, Settle, Synthesizing => TurnPending
  PROVE  DoneInv'
  BY SettleTurnStep, ApplyToTasksStep DEF Settle

LEMMA ScheduledStep ==
  ASSUME DoneInv, Scheduled
  PROVE  DoneInv'
<1>1. Perform(Advice)
  BY DEF Scheduled
<1>2. CASE Advice.what = "start" /\ PrepareTurn("decompose")
  BY <1>2, PrepareTurnStep
<1>3. CASE Advice.what \in {"replan", "synthesize"} /\ PrepareTurn(Advice.what)
  BY <1>3, PrepareTurnStep, SynthesisAdvised
<1>4. CASE Advice.what = "continue" /\ Continue(Advice.at)
  BY <1>4, AdviceOfSynthesis, ContinueTurnStep, ContinueWorkerStep DEF Continue
<1>5. CASE Advice.what = "start_worker" /\ StartWorker(Advice.at)
  BY <1>5, AdviceOfSynthesis, StartWorkerStep
<1>6. CASE Advice.what = "execute" /\ Execute(Advice.at)
  BY <1>6, AdviceOfSynthesis, ExecuteStep
<1>7. CASE Advice.what = "settle" /\ (BeginIntegration \/ Settle)
  BY <1>7, AdviceOfSynthesis, BeginIntegrationStep, SettleStep
<1>8. CASE Advice.what = "resume" /\ Resume(Advice.at)
  BY <1>8, ResumeStep
<1>9. QED
  BY <1>1, <1>2, <1>3, <1>4, <1>5, <1>6, <1>7, <1>8 DEF Perform

-----------------------------------------------------------------------------
(***************************************************************************)
(* What integrations, Attempts, the operator and the root do to an         *)
(* Invocation.                                                             *)
(***************************************************************************)
\* A step that writes the row of one position, and starts nothing.
LEMMA RowStep ==
  ASSUME DoneInv, NEW p \in Positions, NEW row \in Rows, inv' = [inv EXCEPT ![p] = row],
         node' \in Nodes, node'.status = "succeeded" => Synthesizing,
         turn' \in Turns, turn'.purpose = turn.purpose, used' = used, troubles' \in Nat,
         Keeps(task'), Synthesizing => Same(task'), applying' \in {applying, Nowhere},
         row.status \in {"queued", "running"} => Active(p),
         row.status # "absent" => inv[p].status # "absent",
         Synthesizing /\ p \in Current =>
           (row.changes \in {"pending", "conflict"} => Outstanding(p))
  PROVE  DoneInv'
<1>1. inv' \in [Positions -> Rows] /\ \A q \in Positions : inv'[q] = IF q = p THEN row ELSE inv[q]
  BY DEF DoneInv, WorkersTypeOK
<1>2. WorkersTypeOK'
  BY <1>1 DEF DoneInv, WorkersTypeOK, Keeps
<1>3. QED
  BY <1>1, <1>2, Undisturbed, Constants DEF Active, Outstanding

LEMMA EndIntegrationStep ==
  ASSUME DoneInv, NEW p \in Positions, EndIntegration(p)
  PROVE  DoneInv'
<1>1. /\ applying = p /\ applying' = Nowhere
      /\ turn' = turn /\ used' = used /\ task' = task
  BY DEF EndIntegration
<1>2. Synthesizing => p \notin Current
  BY <1>1, Constants DEF DoneInv, SynthesisHolds
<1>3. /\ turn' \in Turns /\ turn'.purpose = turn.purpose /\ troubles \in Nat /\ inv[p] \in Rows
      /\ Keeps(task') /\ Same(task')
  BY <1>1, SameTask DEF DoneInv, WorkersTypeOK
<1>4. CASE /\ inv' = [inv EXCEPT ![p].changes = "integrated"]
           /\ IF p = Coordinator /\ turn.purpose = "synthesize"
              THEN NodeIs("succeeded", "none") ELSE UNCHANGED node
           /\ UNCHANGED troubles
  <2> DEFINE row == [inv[p] EXCEPT !.changes = "integrated"]
  <2>1. row \in Rows /\ row.status = inv[p].status
    BY <1>3 DEF Rows
  <2>2. node' \in Nodes /\ (node'.status = "succeeded" => Synthesizing)
    BY <1>4, NodeKept, NodeTypes DEF DoneInv, Reasons, Synthesizing
  <2>3. inv' = [inv EXCEPT ![p] = row]
    BY <1>4
  <2> HIDE DEF row
  <2>4. QED
    BY <1>1, <1>2, <1>3, <1>4, <2>1, <2>2, <2>3, RowStep DEF Active
<1>5. CASE /\ Trouble
           /\ inv' = [inv EXCEPT ![p].changes = "conflict", ![p].conflictTask = "open"]
           /\ IF p = Coordinator THEN NodeIs("waiting", "integration_conflict")
                                 ELSE UNCHANGED node
  <2> DEFINE row == [inv[p] EXCEPT !.changes = "conflict", !.conflictTask = "open"]
  <2>1. row \in Rows /\ row.status = inv[p].status
    BY <1>3 DEF Rows
  <2>2. node' \in Nodes /\ (node'.status = "succeeded" => Synthesizing)
    BY <1>5, NodeKept, NodeTypes DEF DoneInv, Reasons, Synthesizing
  <2>3. inv' = [inv EXCEPT ![p] = row]
    BY <1>5 DEF DoneInv, WorkersTypeOK
  <2>4. troubles' \in Nat
    BY <1>3, <1>5 DEF Trouble
  <2> HIDE DEF row
  <2>5. QED
    BY <1>1, <1>2, <1>3, <2>1, <2>2, <2>3, <2>4, RowStep DEF Active
<1>6. QED
  BY <1>4, <1>5 DEF EndIntegration

LEMMA ReportedKeeps ==
  ASSUME DoneInv, NEW p \in Positions, Active(p),
         NEW report \in {"none", "completed", "blocked", "failed"},
         NEW why \in {"none", "input", "decision", "dependency"}, Reported(p, report, why)
  PROVE  Keeps(task') /\ (Synthesizing => Same(task'))
<1>1. CASE task' = task
  BY <1>1, SameTask DEF DoneInv
<1>2. CASE p # Coordinator /\ task' = [task EXCEPT ![p].status = report, ![p].why = why] /\ report # "none"
  <2>1. report \in TaskStatuses \ {"absent"} /\ p \in Tasks
    BY <1>2, Constants DEF TaskStatuses, Positions, Tasks, Coordinator
  <2>2. /\ Keeps(task') /\ task'[p].status = report
        /\ \A u \in Tasks : u # p => task'[u] = task[u]
        /\ \A u \in Tasks : task'[u].replaces = task[u].replaces
    <3>1. WorkersTypeOK
      BY DEF DoneInv
    <3>2. Written(task', p, report, why)
      BY <1>2 DEF Written
    <3>3. QED
      BY <2>1, <3>1, <3>2, StatusWritten
  <2>3. task[p].status # "absent"
    BY <2>1 DEF DoneInv, WorkersHaveTasks, Active
  <2>4. Synthesizing => p \notin Current
    BY DEF DoneInv, SynthesisHolds, Settled
  <2>5. QED
    BY <2>1, <2>2, <2>3, <2>4 DEF Same, TaskStatuses
<1>3. QED
  BY <1>1, <1>2 DEF Reported

LEMMA ActiveSettles ==
  ASSUME DoneInv, NEW p \in Positions, Active(p)
  PROVE  Synthesizing => p \notin Current
  BY DEF DoneInv, SynthesisHolds, Settled

LEMMA ReturnStep ==
  ASSUME DoneInv, NEW p \in Positions, Return(p)
  PROVE  DoneInv'
<1>1. PICK end \in WorkerEnds \cup TurnEnds :
        /\ IF end.result = "completed" THEN UNCHANGED troubles ELSE Trouble
        /\ inv' = [inv EXCEPT ![p] = [status |-> "succeeded", result |-> end.result,
                                      decision |-> IF end.names THEN "open" ELSE "none",
                                      changes |-> end.changes, conflictTask |-> "none"]]
        /\ Reported(p, end.report, IF end.report = "blocked" THEN "input" ELSE "none")
  BY DEF Return
<1>2. inv[p].status = "running" /\ UNCHANGED <<node, turn, used, applying>>
  BY DEF Return
<1>3. Active(p)
  BY <1>2 DEF Active
<1>4. /\ end.result \in {"completed", "failed", "blocked"}
      /\ end.report \in {"none", "completed", "blocked", "failed"}
      /\ end.changes \in {"none", "pending"}
  BY WorkersAssumption
<1> DEFINE row == [status |-> "succeeded", result |-> end.result,
                   decision |-> IF end.names THEN "open" ELSE "none",
                   changes |-> end.changes, conflictTask |-> "none"]
<1>5. row \in Rows /\ row.status = "succeeded"
  BY <1>4 DEF Rows
<1>6. troubles' \in Nat
  BY <1>1 DEF Trouble, DoneInv, WorkersTypeOK
<1>7. Keeps(task') /\ (Synthesizing => Same(task'))
  BY <1>1, <1>3, <1>4, ReportedKeeps
<1>8. turn' \in Turns /\ turn'.purpose = turn.purpose
  BY <1>2 DEF DoneInv, WorkersTypeOK
<1>9. inv' = [inv EXCEPT ![p] = row]
  BY <1>1
<1> HIDE DEF row
<1>10. QED
  BY <1>2, <1>3, <1>5, <1>6, <1>7, <1>8, <1>9, ActiveSettles, NodeKept, RowStep

\* What Fail, Retry and Ask have in common.
LEMMA AttemptStep ==
  ASSUME DoneInv, NEW p \in Positions, inv[p].status = "running", Trouble,
         NEW row \in Rows, inv' = [inv EXCEPT ![p] = row], row.status # "absent",
         Keeps(task'), Synthesizing => Same(task'), UNCHANGED <<node, turn, used, applying>>
  PROVE  DoneInv'
<1>1. Active(p)
  BY DEF Active
<1>2. troubles' \in Nat /\ turn' \in Turns /\ turn'.purpose = turn.purpose
  BY DEF DoneInv, WorkersTypeOK, Trouble
<1>3. QED
  BY <1>1, <1>2, ActiveSettles, NodeKept, RowStep

LEMMA FailStep ==
  ASSUME DoneInv, NEW p \in Positions, Fail(p)
  PROVE  DoneInv'
<1> DEFINE row == [inv[p] EXCEPT !.status = "failed"]
<1>1. row \in Rows /\ row.status = "failed" /\ inv' = [inv EXCEPT ![p] = row]
  BY DEF DoneInv, WorkersTypeOK, Rows, Fail
<1>2. Keeps(task') /\ (Synthesizing => Same(task'))
  BY ReportedKeeps DEF Fail, Active
<1> HIDE DEF row
<1>3. QED
  BY <1>1, <1>2, AttemptStep DEF Fail

LEMMA RetryStep ==
  ASSUME DoneInv, NEW p \in Positions, Retry(p)
  PROVE  DoneInv'
<1> DEFINE row == [inv[p] EXCEPT !.status = "queued"]
<1>1. row \in Rows /\ row.status = "queued" /\ inv' = [inv EXCEPT ![p] = row]
  BY DEF DoneInv, WorkersTypeOK, Rows, Retry
<1>2. Keeps(task') /\ Same(task')
  BY SameTask DEF Retry, DoneInv
<1> HIDE DEF row
<1>3. QED
  BY <1>1, <1>2, AttemptStep DEF Retry

LEMMA AskStep ==
  ASSUME DoneInv, NEW p \in Positions, Ask(p)
  PROVE  DoneInv'
<1> DEFINE row == [inv[p] EXCEPT !.status = "blocked", !.decision = "open"]
<1>1. row \in Rows /\ row.status = "blocked" /\ inv' = [inv EXCEPT ![p] = row]
  BY DEF DoneInv, WorkersTypeOK, Rows, Ask
<1>2. Keeps(task') /\ (Synthesizing => Same(task'))
  BY ReportedKeeps DEF Ask, Active
<1> HIDE DEF row
<1>3. QED
  BY <1>1, <1>2, AttemptStep DEF Ask

\* A step that writes an answer or the end of a conflict's Task, and nothing else of the row.
LEMMA AnswerStep ==
  ASSUME DoneInv, NEW p \in Positions, NEW row \in Rows, inv' = [inv EXCEPT ![p] = row],
         row.status = inv[p].status, row.changes = inv[p].changes, task' = task,
         turn' \in Turns, turn'.purpose = turn.purpose, UNCHANGED <<node, used, applying, troubles>>
  PROVE  DoneInv'
<1>1. troubles' \in Nat
  BY DEF DoneInv, WorkersTypeOK
<1>2. Keeps(task') /\ Same(task')
  BY SameTask DEF DoneInv
<1>3. QED
  BY <1>1, <1>2, NodeKept, RowStep DEF Active, Outstanding

LEMMA AnswerRows ==
  ASSUME DoneInv, NEW p \in Positions, NEW answer \in {"none", "open", "resolved", "superseded"},
         NEW end \in {"none", "open", "cancelled"}
  PROVE  /\ [inv[p] EXCEPT !.decision = answer] \in Rows
         /\ [inv[p] EXCEPT !.decision = answer].status = inv[p].status
         /\ [inv[p] EXCEPT !.decision = answer].changes = inv[p].changes
         /\ [inv[p] EXCEPT !.conflictTask = end] \in Rows
         /\ [inv[p] EXCEPT !.conflictTask = end].status = inv[p].status
         /\ [inv[p] EXCEPT !.conflictTask = end].changes = inv[p].changes
  BY DEF DoneInv, WorkersTypeOK, Rows

LEMMA OperatorStep ==
  ASSUME DoneInv, NEW p \in Positions, Resolve(p) \/ Supersede(p) \/ RootCancels(p)
  PROVE  DoneInv'
<1>1. turn' \in Turns /\ turn' = turn
  BY DEF DoneInv, WorkersTypeOK, Resolve, Supersede, RootCancels
<1>2. CASE Resolve(p)
  <2>1. inv' = [inv EXCEPT ![p] = [inv[p] EXCEPT !.decision = "resolved"]]
    BY <1>2 DEF Resolve
  <2>2. QED
    BY <1>1, <1>2, <2>1, AnswerRows, AnswerStep DEF Resolve
<1>3. CASE Supersede(p)
  <2>1. inv' = [inv EXCEPT ![p] = [inv[p] EXCEPT !.decision = "superseded"]]
    BY <1>3 DEF Supersede
  <2>2. QED
    BY <1>1, <1>3, <2>1, AnswerRows, AnswerStep DEF Supersede
<1>4. CASE RootCancels(p)
  <2>1. inv' = [inv EXCEPT ![p] = [inv[p] EXCEPT !.conflictTask = "cancelled"]]
    BY <1>4 DEF RootCancels
  <2>2. QED
    BY <1>1, <1>4, <2>1, AnswerRows, AnswerStep DEF RootCancels
<1>5. QED
  BY <1>2, <1>3, <1>4

-----------------------------------------------------------------------------
(***************************************************************************)
(* What a turn does to the Tasks: never in a synthesis.                    *)
(***************************************************************************)
LEMMA TurnCalls ==
  ASSUME DoneInv, NEW call \in {"propose", "update"}, turn' = [turn EXCEPT !.calls = @ \cup {call}]
  PROVE  turn' \in Turns /\ turn'.purpose = turn.purpose
  BY DEF DoneInv, WorkersTypeOK, Turns

\* A step of a turn that is no synthesis, and writes the ledger.
LEMMA CallStep ==
  ASSUME DoneInv, Proposing, Keeps(task'), NEW call \in {"propose", "update"},
         turn' = [turn EXCEPT !.calls = @ \cup {call}],
         UNCHANGED <<node, used, inv, applying, troubles>>
  PROVE  DoneInv'
<1>1. ~Synthesizing
  BY DEF Proposing, Synthesizing
<1>2. turn' \in Turns /\ turn'.purpose = turn.purpose
  BY TurnCalls
<1>3. WorkersTypeOK'
  BY <1>2 DEF DoneInv, WorkersTypeOK, Keeps
<1>4. QED
  BY <1>1, <1>2, <1>3, NodeKept, Undisturbed

LEMMA CancelStep ==
  ASSUME DoneInv, Cancel
  PROVE  DoneInv'
<1>1. /\ Proposing /\ turn' = [turn EXCEPT !.calls = @ \cup {"update"}]
      /\ UNCHANGED <<node, used, applying, troubles>>
  BY DEF Cancel
<1>2. CASE \E t \in Current :
             /\ task[t].status \in Unstarted
             /\ task' = [task EXCEPT ![t] = CancelTask(@)]
             /\ UNCHANGED inv
  <2>1. PICK t \in Current : task' = [task EXCEPT ![t] = CancelTask(task[t])] /\ UNCHANGED inv
    BY <1>2
  <2>2. t \in Tasks /\ task[t] \in Entries
    BY Constants DEF DoneInv, WorkersTypeOK
  <2>3. CancelTask(task[t]) \in Entries /\ CancelTask(task[t]).status = "cancelled"
    BY <2>2 DEF CancelTask, Entries, TaskStatuses
  <2>4. Keeps(task')
    BY <2>1, <2>2, <2>3 DEF Keeps, DoneInv, WorkersTypeOK
  <2>5. QED
    BY <1>1, <2>1, <2>4, CallStep
<1>3. CASE \E p \in Positions :
             /\ ConflictOpen(p)
             /\ inv' = [inv EXCEPT ![p].conflictTask = "cancelled"]
             /\ UNCHANGED task
  <2>1. PICK p \in Positions : /\ inv' = [inv EXCEPT ![p] = [inv[p] EXCEPT !.conflictTask = "cancelled"]]
                               /\ UNCHANGED task
    BY <1>3
  <2>2. QED
    BY <1>1, <2>1, TurnCalls, AnswerRows, AnswerStep
<1>4. QED
  BY <1>2, <1>3 DEF Cancel

LEMMA BatchTypes ==
  ASSUME WorkersTypeOK, NEW batch \in Batches
  PROVE  /\ DOMAIN batch \subseteq Tasks
         /\ \A t \in DOMAIN batch : batch[t].replaces \in Nat /\ batch[t].deps \in SUBSET Tasks
<1> DEFINE known == Cardinality(Accepted)
<1>1. known \in Nat
  <2>1. IsFiniteSet(Accepted)
    BY FiniteTasks
  <2>2. QED
    BY <2>1, FS_CardinalityType
<1>2. PICK n \in {m \in 1..BatchSize : known + m <= MaxTasks} :
        batch \in [(known + 1)..(known + n) ->
          [replaces : {0} \cup Replaceable,
           deps : {D \in SUBSET (Current \cup ((known + 1)..(known + n))) : Cardinality(D) <= MaxDeps}]]
  BY DEF Batches
<1>3. (known + 1)..(known + n) \subseteq Tasks
  BY <1>1, WorkersAssumption DEF Tasks
<1>4. Replaceable \subseteq Nat
  BY Constants DEF Replaceable
<1> DEFINE numbers == (known + 1)..(known + n)
           depends == {D \in SUBSET (Current \cup numbers) : Cardinality(D) <= MaxDeps}
<1>5. depends \subseteq SUBSET Tasks /\ {0} \cup Replaceable \subseteq Nat /\ numbers \subseteq Tasks
  <2>1. numbers \subseteq Tasks
    BY <1>3
  <2> HIDE DEF numbers
  <2>2. depends \subseteq SUBSET Tasks
    BY <2>1, Constants
  <2>3. QED
    BY <1>4, <2>1, <2>2
<1>6. batch \in [numbers -> [replaces : {0} \cup Replaceable, deps : depends]]
  BY <1>2
<1> HIDE DEF numbers, depends
<1>7. QED
  BY <1>5, <1>6

\* What a batch makes of the ledger.
Amends(ledger, batch) ==
  /\ ledger \in [Tasks -> Entries]
  /\ \A t \in Tasks :
       /\ t \in DOMAIN batch =>
            /\ ledger[t].status = "pending" /\ ledger[t].replaces = batch[t].replaces
            /\ ledger[t].deps = batch[t].deps
       /\ t \notin DOMAIN batch =>
            /\ \/ ledger[t].status = task[t].status /\ ledger[t].why = task[t].why
               \/ task[t].status = "blocked" /\ ledger[t].status = "cancelled"
            /\ ledger[t].replaces = task[t].replaces
            /\ task[t].deps \subseteq ledger[t].deps
            /\ \A d \in ledger[t].deps : d \in task[t].deps \/ <<t, d>> \in Gained(batch)

LEMMA ExtendedIs ==
  ASSUME WorkersTypeOK, NEW batch \in Batches
  PROVE  Amends(Extended(batch), batch)
<1> DEFINE replaced == {batch[t].replaces : t \in DOMAIN batch} \ {0}
           old(t) == IF t \in replaced /\ task[t].status = "blocked"
                     THEN CancelTask(task[t]) ELSE task[t]
           gains(t) == IF old(t).status = "cancelled" THEN {}
                       ELSE {d \in DOMAIN batch : <<t, d>> \in Gained(batch)}
           new(t) == [NoTask EXCEPT !.status = "pending", !.replaces = batch[t].replaces,
                                    !.deps = batch[t].deps, !.reserved = TRUE]
           more(t) == [old(t) EXCEPT !.deps = @ \cup gains(t)]
           ledger == Extended(batch)
<1>1. ledger = [t \in Tasks |-> IF t \in DOMAIN batch THEN new(t) ELSE more(t)]
  BY DEF Extended
<1>2. ASSUME NEW t \in DOMAIN batch
      PROVE  /\ new(t) \in Entries /\ new(t).status = "pending"
             /\ new(t).replaces = batch[t].replaces /\ new(t).deps = batch[t].deps
  <2>1. batch[t].replaces \in Nat /\ batch[t].deps \in SUBSET Tasks
    BY BatchTypes
  <2>2. QED
    BY <2>1 DEF Entries, NoTask, TaskStatuses
<1>3. ASSUME NEW t \in Tasks
      PROVE  /\ more(t) \in Entries
             /\ \/ more(t).status = task[t].status /\ more(t).why = task[t].why
                \/ task[t].status = "blocked" /\ more(t).status = "cancelled"
             /\ more(t).replaces = task[t].replaces
             /\ task[t].deps \subseteq more(t).deps
             /\ \A d \in more(t).deps : d \in task[t].deps \/ <<t, d>> \in Gained(batch)
  <2>1. task[t] \in Entries
    BY DEF WorkersTypeOK
  <2>2. /\ CancelTask(task[t]) \in Entries /\ CancelTask(task[t]).status = "cancelled"
        /\ CancelTask(task[t]).replaces = task[t].replaces /\ CancelTask(task[t]).deps = task[t].deps
    BY <2>1 DEF CancelTask, Entries, TaskStatuses
  <2>3. /\ old(t) \in Entries /\ old(t).replaces = task[t].replaces /\ old(t).deps = task[t].deps
        /\ old(t) = task[t] \/ (task[t].status = "blocked" /\ old(t).status = "cancelled")
    BY <2>1, <2>2
  <2>4. gains(t) \in SUBSET Tasks /\ \A d \in gains(t) : <<t, d>> \in Gained(batch)
    BY BatchTypes
  <2> HIDE DEF old, gains
  <2>5. /\ more(t) \in Entries /\ more(t).status = old(t).status /\ more(t).why = old(t).why
        /\ more(t).replaces = old(t).replaces /\ more(t).deps = old(t).deps \cup gains(t)
    BY <2>3, <2>4 DEF Entries
  <2> HIDE DEF more
  <2>6. QED
    BY <2>3, <2>4, <2>5
<1> HIDE DEF new, more, ledger
<1>4. ledger \in [Tasks -> Entries]
  BY <1>1, <1>2, <1>3
<1>5. ASSUME NEW t \in Tasks
      PROVE  /\ t \in DOMAIN batch => ledger[t] = new(t)
             /\ t \notin DOMAIN batch => ledger[t] = more(t)
  BY <1>1
<1>6. Amends(ledger, batch)
  BY <1>2, <1>3, <1>4, <1>5 DEF Amends
<1>7. QED
  BY <1>6 DEF ledger

LEMMA ProposeStep ==
  ASSUME DoneInv, Propose
  PROVE  DoneInv'
<1>1. PICK batch \in Batches : task' = Extended(batch)
  BY DEF Propose
<1>2. Amends(task', batch)
  BY <1>1, ExtendedIs DEF DoneInv
<1>3. Keeps(task')
  BY <1>2 DEF Amends, Keeps
<1>4. QED
  BY <1>3, CallStep DEF Propose

-----------------------------------------------------------------------------
(***************************************************************************)
(* The node is typed, and done when it succeeded.                          *)
(***************************************************************************)
LEMMA InitDone == Init => DoneInv
<1> SUFFICES ASSUME Init
             PROVE  DoneInv
  OBVIOUS
<1>1. NoTask \in Entries /\ NoInvocation \in Rows
  BY DEF NoTask, Entries, TaskStatuses, NoInvocation, Rows
<1>2. node \in Nodes /\ turn \in Turns
  BY DEF Init, Nodes, Turns, Reasons
<1>3. WorkersTypeOK
  BY <1>1, <1>2 DEF Init, WorkersTypeOK
<1>4. WorkersHaveTasks /\ SynthesisHolds /\ SuccessIsSynthesis
  BY Constants DEF Init, WorkersHaveTasks, SynthesisHolds, SuccessIsSynthesis, Synthesizing,
                   NoInvocation
<1>5. QED
  BY <1>3, <1>4 DEF DoneInv

LEMMA NextDone ==
  ASSUME DoneInv, [Next]_vars
  PROVE  DoneInv'
<1>1. CASE Scheduled
  BY <1>1, ScheduledStep
<1>2. CASE \E p \in Positions : EndIntegration(p) \/ AttemptEnds(p) \/ Retry(p)
  BY <1>2, EndIntegrationStep, ReturnStep, FailStep, AskStep, RetryStep DEF AttemptEnds
<1>3. CASE Propose \/ Cancel
  BY <1>3, ProposeStep, CancelStep
<1>4. CASE \E p \in Positions : Resolve(p) \/ Supersede(p) \/ RootCancels(p)
  BY <1>4, OperatorStep
<1>5. CASE UNCHANGED vars
  <2>1. WorkersTypeOK'
    BY <1>5 DEF vars, DoneInv, WorkersTypeOK
  <2>2. QED
    BY <1>5, <2>1, Undisturbed, SameTask, NodeKept DEF vars, DoneInv, Active, Outstanding
<1>6. QED
  BY <1>1, <1>2, <1>3, <1>4, <1>5 DEF Next

\* Every row of the node keeps its type, whatever its agents propose, return or ask.
THEOREM WorkersTypes == Spec => []WorkersTypeOK
<1>1. DoneInv => WorkersTypeOK
  BY DEF DoneInv
<1>2. QED
  BY InitDone, NextDone, <1>1, PTL DEF Spec

\* A node that succeeded owes nothing, for any number of Tasks, turns and Workers: what
\* synthesisReady found when the synthesis was prepared still holds when that turn has ended and its
\* Changeset is integrated.
THEOREM SucceededMeansDoneHolds == Spec => []SucceededMeansDone
<1>1. DoneInv => SucceededMeansDone
  BY DEF DoneInv, SuccessIsSynthesis, SynthesisHolds, Settled, SucceededMeansDone
<1>2. QED
  BY InitDone, NextDone, <1>1, PTL DEF Spec

-----------------------------------------------------------------------------
(***************************************************************************)
(* Kahn's order: a set of current Tasks has a first one, and none of the   *)
(* Tasks it depends on is in the set.                                      *)
(***************************************************************************)
\* Edges t -> d of the accepted Tasks.
Edges == {e \in Accepted \X Accepted : e[2] \in task[e[1]].deps}

LEMMA LeastExists ==
  ASSUME NEW S, S \subseteq Nat, S # {}
  PROVE  \E n \in S : \A m \in S : n <= m
<1> DEFINE R == OpToRel(<, Nat)
<1>1. IsWellFoundedOn(R, Nat)
  BY NatLessThanWellFounded DEF OpToRel
<1> HIDE DEF R
<1>2. PICK n \in S : \A m \in S : <<m, n>> \notin R
  BY <1>1, WFMin
<1>3. \A m \in S : ~(m < n)
  BY <1>2 DEF R, OpToRel
<1>4. QED
  BY <1>3

Left(placed) == Cardinality(Current \ placed)

LEMMA LeftTypes ==
  ASSUME NEW placed \in SUBSET Current
  PROVE  /\ IsFiniteSet(Current \ placed) /\ Left(placed) \in Nat
         /\ Left(placed) = 0 <=> placed = Current
         /\ \A m \in Current \ placed : Left(placed \cup {m}) = Left(placed) - 1
<1>1. IsFiniteSet(Tasks)
  BY FiniteTasks
<1>2. IsFiniteSet(Current \ placed)
  <2>1. Current \ placed \subseteq Tasks
    BY Constants
  <2>2. QED
    BY <1>1, <2>1, FS_Subset
<1>3. Left(placed) \in Nat /\ (Left(placed) = 0 <=> Current \ placed = {})
  BY <1>2, FS_CardinalityType, FS_EmptySet DEF Left
<1>4. ASSUME NEW m \in Current \ placed
      PROVE  Left(placed \cup {m}) = Left(placed) - 1
  <2>1. Current \ (placed \cup {m}) = (Current \ placed) \ {m}
    OBVIOUS
  <2>2. Cardinality((Current \ placed) \ {m}) = Cardinality(Current \ placed) - 1
    BY <1>2, FS_RemoveElement
  <2>3. QED
    BY <2>1, <2>2 DEF Left
<1>5. QED
  BY <1>2, <1>3, <1>4

\* A placing with the fewest Tasks left.
LEMMA FewestLeft ==
  ASSUME NEW B, B # {}, B \subseteq SUBSET Current
  PROVE  \E placed \in B : \A other \in B : Left(placed) <= Left(other)
<1> DEFINE sizes == {Left(placed) : placed \in B}
<1>1. \A placed \in SUBSET Current : Left(placed) \in Nat
  BY LeftTypes
<1>2. sizes \subseteq Nat /\ sizes # {}
  BY <1>1
<1>3. PICK n \in sizes : \A m \in sizes : n <= m
  BY <1>2, LeastExists
<1>4. PICK placed \in B : Left(placed) = n
  BY <1>3
<1>5. QED
  BY <1>3, <1>4

\* Without a cycle one Task is always next, and all it depends on is placed.
LEMMA NextPlacedIs ==
  ASSUME Acyclic(Edges), NEW placed \in SUBSET Current
  PROVE  /\ placed = Current => NextPlaced(placed) = {}
         /\ placed # Current =>
              \E m \in Current \ placed : NextPlaced(placed) = {m} /\ Effective(m) \subseteq placed
<1> DEFINE remaining == Current \ placed
           available == {t \in remaining : task[t].deps \cap remaining = {}}
<1>1. NextPlaced(placed) = {t \in available : \A u \in available : t <= u}
  BY DEF NextPlaced
<1>2. placed = Current => available = {}
  OBVIOUS
<1>3. ASSUME placed # Current
      PROVE  \E m \in Current \ placed : NextPlaced(placed) = {m} /\ Effective(m) \subseteq placed
  <2>1. remaining \in (SUBSET Tasks) \ {{}}
    BY <1>3, Constants
  <2>2. PICK t \in remaining : ~\E u \in remaining : <<t, u>> \in Edges
    BY <2>1 DEF Acyclic
  <2>3. \A u \in remaining : u \notin task[t].deps
    BY <2>2 DEF Edges, Current
  <2>4. available # {} /\ available \subseteq Nat
    BY <2>3, Constants
  <2>5. PICK m \in available : \A u \in available : m <= u
    BY <2>4, LeastExists
  <2>6. \A u \in available : (\A o \in available : u <= o) => u = m
    BY <2>4, <2>5
  <2>7. NextPlaced(placed) = {m}
    BY <1>1, <2>5, <2>6
  <2>8. Effective(m) \subseteq placed
    BY <2>5 DEF Effective
  <2>9. QED
    BY <2>5, <2>7, <2>8
<1>4. QED
  BY <1>1, <1>2, <1>3

Taken(S, first, placed) ==
  IF NextPlaced(placed) \subseteq S THEN NextPlaced(placed)
  ELSE first[placed \cup NextPlaced(placed)]
First(S) == CHOOSE first : first = [placed \in SUBSET Current |-> Taken(S, first, placed)]

LEMMA FirstOfIsFirst ==
  ASSUME NEW S
  PROVE  FirstOf(S) = CHOOSE t \in First(S)[{}] : TRUE
BY DEF FirstOf, First, Taken

\* What is next is taken, or one Task less is left.
LEMMA TakenIs ==
  ASSUME Acyclic(Edges), NEW S, NEW placed \in SUBSET Current
  PROVE  /\ NextPlaced(placed) \subseteq Current /\ placed \cup NextPlaced(placed) \in SUBSET Current
         /\ \/ NextPlaced(placed) \subseteq S
            \/ Left(placed \cup NextPlaced(placed)) = Left(placed) - 1
<1>1. CASE placed = Current
  BY <1>1, NextPlacedIs
<1>2. CASE placed # Current
  <2>1. PICK m \in Current \ placed : NextPlaced(placed) = {m}
    BY <1>2, NextPlacedIs
  <2>2. Left(placed \cup {m}) = Left(placed) - 1
    BY LeftTypes
  <2>3. QED
    BY <2>1, <2>2
<1>3. QED
  BY <1>1, <1>2

Firsts(S, n) ==
  \E first \in [SUBSET Current -> SUBSET Current] :
    \A placed \in SUBSET Current : Left(placed) <= n => first[placed] = Taken(S, first, placed)

LEMMA FirstsExist ==
  ASSUME Acyclic(Edges), NEW S
  PROVE  \A n \in Nat : Firsts(S, n)
<1> DEFINE bad == {n \in Nat : ~Firsts(S, n)}
<1>1. SUFFICES ASSUME bad # {} PROVE FALSE
  OBVIOUS
<1>2. bad \subseteq Nat
  OBVIOUS
<1>3. PICK n \in bad : \A m \in bad : n <= m
  BY <1>1, <1>2, LeastExists
<1>4. n \in Nat /\ ~Firsts(S, n)
  BY <1>3
<1>5. CASE n = 0
  <2> DEFINE none == [placed \in SUBSET Current |-> {}]
  <2>1. none \in [SUBSET Current -> SUBSET Current]
    OBVIOUS
  <2>2. ASSUME NEW placed \in SUBSET Current, Left(placed) <= 0
        PROVE  none[placed] = Taken(S, none, placed)
    <3>1. Left(placed) \in Nat /\ (Left(placed) = 0 <=> placed = Current)
      BY LeftTypes
    <3>2. placed = Current
      BY <2>2, <3>1
    <3>3. NextPlaced(placed) = {}
      BY <3>2, NextPlacedIs
    <3>4. QED
      BY <3>3 DEF Taken
  <2>3. QED
    BY <1>4, <1>5, <2>1, <2>2 DEF Firsts
<1>6. CASE n # 0
  <2>1. n - 1 \in Nat /\ n - 1 \notin bad
    BY <1>3, <1>4, <1>6
  <2>2. PICK first \in [SUBSET Current -> SUBSET Current] :
          \A placed \in SUBSET Current : Left(placed) <= n - 1 => first[placed] = Taken(S, first, placed)
    BY <2>1 DEF Firsts
  <2> DEFINE more == [placed \in SUBSET Current |-> Taken(S, first, placed)]
  <2>3. ASSUME NEW placed \in SUBSET Current
        PROVE  Taken(S, first, placed) \in SUBSET Current
    <3>1. /\ NextPlaced(placed) \in SUBSET Current
          /\ placed \cup NextPlaced(placed) \in SUBSET Current
      BY TakenIs
    <3>2. first[placed \cup NextPlaced(placed)] \in SUBSET Current
      BY <2>2, <3>1
    <3>3. QED
      BY <3>1, <3>2 DEF Taken
  <2>4. more \in [SUBSET Current -> SUBSET Current]
    BY <2>3
  <2>5. ASSUME NEW placed \in SUBSET Current, Left(placed) <= n
        PROVE  more[placed] = Taken(S, more, placed)
    <3>1. CASE NextPlaced(placed) \subseteq S
      BY <3>1 DEF Taken
    <3>2. CASE ~(NextPlaced(placed) \subseteq S)
      <4> DEFINE after == placed \cup NextPlaced(placed)
      <4>1. after \in SUBSET Current /\ Left(after) = Left(placed) - 1 /\ Left(placed) \in Nat
        BY <3>2, TakenIs, LeftTypes
      <4>2. Left(after) <= n - 1
        BY <1>4, <2>5, <4>1
      <4>3. more[after] = first[after]
        BY <2>2, <4>1, <4>2
      <4>4. QED
        BY <3>2, <4>3 DEF Taken
    <3>3. QED
      BY <3>1, <3>2
  <2>6. Firsts(S, n)
    BY <2>4, <2>5 DEF Firsts
  <2>7. QED
    BY <1>4, <2>6
<1>7. QED
  BY <1>5, <1>6

LEMMA FirstSteps ==
  ASSUME Acyclic(Edges), NEW S
  PROVE  \A placed \in SUBSET Current : First(S)[placed] = Taken(S, First(S), placed)
<1>1. \A placed \in SUBSET Current : Left(placed) <= Left({})
  <2>1. ASSUME NEW placed \in SUBSET Current
        PROVE  Left(placed) <= Left({})
    <3>1. IsFiniteSet(Current \ {}) /\ Current \ placed \subseteq Current \ {}
      BY LeftTypes
    <3>2. QED
      BY <3>1, FS_Subset DEF Left
  <2>2. QED
    BY <2>1
<1>2. PICK first \in [SUBSET Current -> SUBSET Current] :
        \A placed \in SUBSET Current : first[placed] = Taken(S, first, placed)
  <2>1. Left({}) \in Nat
    BY LeftTypes
  <2>2. Firsts(S, Left({}))
    BY <2>1, FirstsExist
  <2>3. QED
    BY <1>1, <2>2 DEF Firsts
<1>3. first = [placed \in SUBSET Current |-> Taken(S, first, placed)]
  BY <1>2
<1>4. First(S) = [placed \in SUBSET Current |-> Taken(S, First(S), placed)]
  BY <1>3 DEF First
<1> DEFINE g == First(S)
<1> HIDE DEF g
<1>5. g = [placed \in SUBSET Current |-> Taken(S, g, placed)]
  BY <1>4 DEF g
<1>6. \A placed \in SUBSET Current : g[placed] = Taken(S, g, placed)
  BY <1>5
<1>7. QED
  BY <1>6 DEF g

\* The Task that is taken first of a set depends on none of the set.
LEMMA FirstOfIs ==
  ASSUME Acyclic(Edges), NEW S \in SUBSET Current, S # {}
  PROVE  FirstOf(S) \in S /\ Effective(FirstOf(S)) \cap S = {}
<1> DEFINE Right(placed) == \E t \in S : First(S)[placed] = {t} /\ Effective(t) \cap S = {}
           bad == {placed \in SUBSET Current : placed \cap S = {} /\ ~Right(placed)}
<1>1. bad = {}
  <2>1. SUFFICES ASSUME bad # {} PROVE FALSE
    OBVIOUS
  <2>2. PICK placed \in bad : \A other \in bad : Left(placed) <= Left(other)
    BY <2>1, FewestLeft
  <2>3. placed \in SUBSET Current /\ placed \cap S = {} /\ ~Right(placed) /\ placed # Current
    BY <2>2
  <2>4. PICK m \in Current \ placed : NextPlaced(placed) = {m} /\ Effective(m) \subseteq placed
    BY <2>3, NextPlacedIs
  <2>5. First(S)[placed] = Taken(S, First(S), placed)
    BY <2>3, FirstSteps
  <2>6. CASE m \in S
    <3>1. First(S)[placed] = {m} /\ Effective(m) \cap S = {}
      BY <2>3, <2>4, <2>5, <2>6 DEF Taken
    <3>2. QED
      BY <2>3, <2>6, <3>1
  <2>7. CASE m \notin S
    <3> DEFINE after == placed \cup {m}
    <3>1. First(S)[placed] = First(S)[after]
      BY <2>4, <2>5, <2>7 DEF Taken
    <3>2. after \in SUBSET Current /\ after \cap S = {}
      BY <2>3, <2>4, <2>7
    <3>3. Left(after) = Left(placed) - 1 /\ Left(placed) \in Nat
      BY <2>3, <2>4, LeftTypes
    <3>4. ~(Left(placed) <= Left(after))
      BY <3>3
    <3>5. Right(after)
      BY <2>2, <3>2, <3>4
    <3>6. QED
      BY <2>3, <3>1, <3>5
  <2>8. QED
    BY <2>6, <2>7
<1>2. PICK t \in S : First(S)[{}] = {t} /\ Effective(t) \cap S = {}
  BY <1>1
<1>3. FirstOf(S) = t
  BY <1>2, FirstOfIsFirst
<1>4. QED
  BY <1>2, <1>3

-----------------------------------------------------------------------------
(***************************************************************************)
(* The invariant of dependencies.  A Task that has begun has only          *)
(* completed ones, a Task whose Changeset is being or was integrated only  *)
(* integrated ones; and Kahn's order never runs into a cycle.              *)
(***************************************************************************)
BegunAs(entry) ==
  \/ entry.status \in {"ready", "running", "completed"}
  \/ entry.status = "blocked" /\ entry.why # "dependency"
Ripe(t) == \A d \in Effective(t) : Completed(d)
InTheSnapshot(t) == \A d \in Effective(t) : ~Outstanding(d)

TasksAreNumbered == Accepted = 1..Cardinality(Accepted)
EdgesAreAccepted == \A t \in Accepted : task[t].deps \subseteq Accepted
ActiveMeansRunning == \A t \in Tasks : Active(t) => task[t].status = "running"
BegunMeansRipe == \A t \in Current : BegunAs(task[t]) => Ripe(t)
IntegratedMeansCompleted == \A t \in Tasks : inv[t].changes = "integrated" => Completed(t)
ApplyingIsOutstanding == \A t \in Tasks : applying = t => Completed(t) /\ Outstanding(t)
AppliedInOrder ==
  \A t \in Current : inv[t].changes = "integrated" \/ applying = t => InTheSnapshot(t)

OrderInv ==
  /\ TasksAreNumbered
  /\ EdgesAreAccepted
  /\ Acyclic(Edges)
  /\ ActiveMeansRunning
  /\ BegunMeansRipe
  /\ IntegratedMeansCompleted
  /\ ApplyingIsOutstanding
  /\ AppliedInOrder

\* A ledger that keeps the edges and what is completed, and begins nothing that is not ripe.
Moves(ledger) ==
  /\ ledger \in [Tasks -> Entries]
  /\ \A t \in Tasks :
       /\ ledger[t].status = "absent" <=> task[t].status = "absent"
       /\ ledger[t].replaces = task[t].replaces /\ ledger[t].deps = task[t].deps
       /\ Completed(t) => ledger[t].status = "completed"
  /\ \A t \in Current : BegunAs(ledger[t]) => BegunAs(task[t]) \/ Ripe(t)
\* One that leaves the Tasks of active Workers running.
Runs(ledger) == \A t \in Tasks : Active(t) => ledger[t].status = "running"

\* A step that proposes nothing.
Advances ==
  /\ Moves(task')
  /\ \A t \in Tasks :
       /\ Active(t)' => task'[t].status = "running"
       /\ inv'[t].changes = "integrated" => inv[t].changes = "integrated" \/ applying = t
       /\ Completed(t) /\ Outstanding(t)' => Outstanding(t)
       /\ applying' = t =>
            Completed(t) /\ Outstanding(t)' /\ (applying = t \/ InTheSnapshot(t))

LEMMA AdvanceStep ==
  ASSUME DoneInv, OrderInv, Advances
  PROVE  OrderInv'
<1>1. Accepted' = Accepted /\ \A t \in Accepted : task'[t].replaces = task[t].replaces
  BY DEF Accepted, Advances, Moves
<1>2. Current' = Current /\ Tasks' = Tasks /\ Current \subseteq Tasks
  BY <1>1, Constants DEF Current, Tasks
<1>3. \A t \in Tasks : task'[t].deps = task[t].deps /\ Effective(t)' = Effective(t)
  BY <1>2 DEF Advances, Moves, Effective
<1>4. \A t \in Tasks : Completed(t) => Completed(t)'
  BY DEF Advances, Moves, Completed
<1>5. ASSUME NEW t \in Current, Ripe(t)
      PROVE  Ripe(t)' /\ (InTheSnapshot(t) => InTheSnapshot(t)')
  <2>1. Effective(t)' = Effective(t) /\ Effective(t) \subseteq Tasks
    BY <1>2, <1>3 DEF Effective
  <2>2. \A d \in Effective(t) : Completed(d) /\ Completed(d)'
    BY <1>4, <1>5, <2>1 DEF Ripe
  <2>3. \A d \in Effective(t) : Outstanding(d)' => Outstanding(d)
    BY <2>1, <2>2 DEF Advances
  <2>4. QED
    BY <2>1, <2>2, <2>3 DEF Ripe, InTheSnapshot
<1>6. TasksAreNumbered' /\ EdgesAreAccepted' /\ Acyclic(Edges)'
  <2>1. Edges' = Edges
    BY <1>1, <1>3 DEF Edges, Accepted
  <2>2. \A t \in Accepted : task'[t].deps = task[t].deps
    BY <1>3 DEF Accepted
  <2>3. QED
    BY <1>1, <1>2, <2>1, <2>2 DEF OrderInv, TasksAreNumbered, EdgesAreAccepted, Acyclic
<1>7. ActiveMeansRunning'
  BY <1>2 DEF ActiveMeansRunning, Advances
<1>8. BegunMeansRipe'
  <2>1. ASSUME NEW t \in Current, BegunAs(task'[t])
        PROVE  Ripe(t)'
    BY <2>1, <1>5 DEF Advances, Moves, OrderInv, BegunMeansRipe
  <2>2. QED
    BY <1>2, <2>1 DEF BegunMeansRipe
<1>9. ASSUME NEW t \in Tasks, inv'[t].changes = "integrated" \/ applying' = t
      PROVE  Completed(t) /\ Completed(t)'
  <2>1. Completed(t)
    BY <1>9 DEF Advances, OrderInv, IntegratedMeansCompleted, ApplyingIsOutstanding
  <2>2. QED
    BY <2>1, <1>4
<1>10. IntegratedMeansCompleted' /\ ApplyingIsOutstanding'
  BY <1>2, <1>9 DEF IntegratedMeansCompleted, ApplyingIsOutstanding, Advances
<1>11. AppliedInOrder'
  <2>1. ASSUME NEW t \in Current, inv'[t].changes = "integrated" \/ applying' = t
        PROVE  InTheSnapshot(t)'
    <3>1. t \in Tasks
      BY <1>2
    <3>2. Completed(t)
      BY <1>9, <2>1, <3>1
    <3>3. Ripe(t)
      BY <3>2 DEF OrderInv, BegunMeansRipe, BegunAs, Completed
    <3>4. inv[t].changes = "integrated" \/ applying = t \/ InTheSnapshot(t)
      BY <2>1, <3>1 DEF Advances
    <3>5. InTheSnapshot(t)
      BY <3>4 DEF OrderInv, AppliedInOrder
    <3>6. QED
      BY <1>5, <3>3, <3>5
  <2>2. QED
    BY <1>2, <2>1 DEF AppliedInOrder
<1>12. QED
  BY <1>6, <1>7, <1>8, <1>10, <1>11 DEF OrderInv

-----------------------------------------------------------------------------
(***************************************************************************)
(* Ledgers that move, and the steps they make.                             *)
(***************************************************************************)
LEMMA SameMoves ==
  ASSUME DoneInv, OrderInv
  PROVE  Moves(task) /\ Runs(task)
  BY DEF DoneInv, WorkersTypeOK, Moves, Completed, OrderInv, ActiveMeansRunning, Runs

\* One entry is written.
Puts(ledger, t, entry) == ledger = [task EXCEPT ![t] = entry]

LEMMA EntryMoves ==
  ASSUME DoneInv, OrderInv, NEW t \in Tasks, task[t].status # "absent",
         NEW entry \in Entries, entry.status # "absent",
         entry.replaces = task[t].replaces, entry.deps = task[t].deps,
         Completed(t) => entry.status = "completed",
         t \in Current /\ BegunAs(entry) => BegunAs(task[t]) \/ Ripe(t),
         NEW ledger, Puts(ledger, t, entry)
  PROVE  /\ Moves(ledger) /\ ledger[t] = entry /\ \A u \in Tasks \ {t} : ledger[u] = task[u]
         /\ (Active(t) => entry.status = "running") => Runs(ledger)
<1>1. ledger \in [Tasks -> Entries] /\ \A u \in Tasks : ledger[u] = IF u = t THEN entry ELSE task[u]
  BY DEF DoneInv, WorkersTypeOK, Puts
<1>2. Moves(ledger)
  <2>1. \A u \in Tasks :
          /\ ledger[u].status = "absent" <=> task[u].status = "absent"
          /\ ledger[u].replaces = task[u].replaces /\ ledger[u].deps = task[u].deps
          /\ Completed(u) => ledger[u].status = "completed"
    BY <1>1 DEF Completed
  <2>2. \A u \in Current : BegunAs(ledger[u]) => BegunAs(task[u]) \/ Ripe(u)
    BY <1>1, Constants
  <2>3. QED
    BY <1>1, <2>1, <2>2 DEF Moves
<1>3. (Active(t) => entry.status = "running") => Runs(ledger)
  BY <1>1 DEF Runs, OrderInv, ActiveMeansRunning
<1>4. QED
  BY <1>1, <1>2, <1>3

LEMMA AbandonedMoves ==
  ASSUME WorkersTypeOK, NEW ledger, Moves(ledger)
  PROVE  Moves(Abandoned(ledger)) /\ (Runs(ledger) => Runs(Abandoned(ledger)))
<1> DEFINE A == Abandoned(ledger)
<1>1. ledger \in [Tasks -> Entries]
  BY DEF Moves
<1>2. A = [t \in Tasks |-> A[t]]
  BY DEF Abandoned
<1>3. ASSUME NEW t \in Tasks
      PROVE  /\ A[t] \in Entries /\ A[t].replaces = ledger[t].replaces /\ A[t].deps = ledger[t].deps
             /\ A[t].status = "absent" <=> ledger[t].status = "absent"
             /\ \/ A[t] = ledger[t]
                \/ ledger[t].status = "running" /\ Terminal(t) /\ A[t].status = "failed"
  <2>1. A[t] = IF ledger[t].status = "running" /\ Terminal(t)
               THEN [ledger[t] EXCEPT !.status = "failed"] ELSE ledger[t]
    BY DEF Abandoned
  <2>2. ledger[t] \in Entries
    BY <1>1
  <2>3. QED
    BY <2>1, <2>2 DEF Entries, TaskStatuses
<1> HIDE DEF A
<1>4. Moves(A)
  <2>1. A \in [Tasks -> Entries]
    BY <1>2, <1>3
  <2>2. \A t \in Tasks :
          /\ A[t].status = "absent" <=> task[t].status = "absent"
          /\ A[t].replaces = task[t].replaces /\ A[t].deps = task[t].deps
          /\ Completed(t) => A[t].status = "completed"
    BY <1>3 DEF Moves
  <2>3. \A t \in Current : BegunAs(A[t]) => BegunAs(ledger[t])
    BY <1>3, Constants DEF BegunAs
  <2>4. QED
    BY <2>1, <2>2, <2>3 DEF Moves
<1>5. Runs(ledger) => Runs(A)
  BY <1>3 DEF Runs, Terminal, Active
<1>6. QED
  BY <1>4, <1>5 DEF A

LEMMA CancelledEntry ==
  ASSUME NEW entry \in Entries
  PROVE  /\ CancelTask(entry) \in Entries /\ CancelTask(entry).status = "cancelled"
         /\ CancelTask(entry).replaces = entry.replaces /\ CancelTask(entry).deps = entry.deps
  BY DEF CancelTask, Entries, TaskStatuses

LEMMA FailNodeMoves ==
  ASSUME DoneInv, OrderInv, NEW reason, FailNode(reason)
  PROVE  Moves(task') /\ Runs(task')
<1> DEFINE L == [t \in Tasks |-> IF t \in Current /\ task[t].status \in Unstarted
                                 THEN CancelTask(task[t]) ELSE task[t]]
<1>1. task' = Abandoned(L)
  BY DEF FailNode
<1>2. ASSUME NEW t \in Tasks
      PROVE  /\ L[t] \in Entries /\ L[t].replaces = task[t].replaces /\ L[t].deps = task[t].deps
             /\ L[t].status = "absent" <=> task[t].status = "absent"
             /\ \/ L[t] = task[t]
                \/ task[t].status \in Unstarted /\ L[t].status = "cancelled"
  <2>1. task[t] \in Entries
    BY DEF DoneInv, WorkersTypeOK
  <2>2. QED
    BY <2>1, CancelledEntry DEF Unstarted
<1>3. L \in [Tasks -> Entries]
  BY <1>2
<1> HIDE DEF L
<1>4. Moves(L)
  <2>1. \A t \in Tasks : Completed(t) => L[t].status = "completed"
    BY <1>2 DEF Completed, Unstarted
  <2>2. \A t \in Current : BegunAs(L[t]) => BegunAs(task[t])
    BY <1>2, Constants DEF BegunAs
  <2>3. QED
    BY <1>2, <1>3, <2>1, <2>2 DEF Moves
<1>5. Runs(L)
  BY <1>2 DEF Runs, OrderInv, ActiveMeansRunning, Unstarted
<1>6. QED
  BY <1>1, <1>4, <1>5, AbandonedMoves DEF DoneInv

LEMMA ProjectedIs ==
  ASSUME WorkersTypeOK, NEW t \in Tasks
  PROVE  /\ Projected(t) \in Entries
         /\ Projected(t).replaces = task[t].replaces /\ Projected(t).deps = task[t].deps
         /\ \/ /\ t \in Stale /\ Projected(t).status \in {"failed", "blocked"}
            \/ /\ t \in BecomesReady /\ Projected(t).status = "ready"
            \/ /\ t \in BecomesBlocked
               /\ Projected(t).status = "blocked" /\ Projected(t).why = "dependency"
            \/ Projected(t) = task[t]
<1>1. task[t] \in Entries
  BY DEF WorkersTypeOK
<1> DEFINE unreported == IF inv[t].result = "failed" THEN [task[t] EXCEPT !.status = "failed"]
                         ELSE [task[t] EXCEPT !.status = "blocked",
                                              !.why = IF inv[t].decision = "none" THEN "input"
                                                      ELSE "decision"]
           ready == [task[t] EXCEPT !.status = "ready", !.why = "none"]
           blocked == [task[t] EXCEPT !.status = "blocked", !.why = "dependency"]
<1>2. Projected(t) = CASE t \in Stale -> unreported
                       [] t \in BecomesReady -> ready
                       [] t \in BecomesBlocked -> blocked
                       [] OTHER -> task[t]
  BY DEF Projected
<1>3. /\ unreported.replaces = task[t].replaces /\ unreported.deps = task[t].deps
      /\ unreported.status \in {"failed", "blocked"}
  <2>1. /\ [task[t] EXCEPT !.status = "failed"].replaces = task[t].replaces
        /\ [task[t] EXCEPT !.status = "failed"].deps = task[t].deps
        /\ [task[t] EXCEPT !.status = "failed"].status = "failed"
    BY <1>1 DEF Entries
  <2>2. ASSUME NEW why
        PROVE  /\ [task[t] EXCEPT !.status = "blocked", !.why = why].replaces = task[t].replaces
               /\ [task[t] EXCEPT !.status = "blocked", !.why = why].deps = task[t].deps
               /\ [task[t] EXCEPT !.status = "blocked", !.why = why].status = "blocked"
    BY <1>1 DEF Entries
  <2>3. QED
    BY <2>1, <2>2
<1>4. /\ ready.replaces = task[t].replaces /\ ready.deps = task[t].deps /\ ready.status = "ready"
      /\ blocked.replaces = task[t].replaces /\ blocked.deps = task[t].deps
      /\ blocked.status = "blocked" /\ blocked.why = "dependency"
  BY <1>1 DEF Entries
<1>5. Projected(t) \in Entries
  BY ProjectedTypes
<1> HIDE DEF unreported, ready, blocked
<1>6. \/ t \in Stale /\ Projected(t) = unreported
      \/ t \in BecomesReady /\ Projected(t) = ready
      \/ t \in BecomesBlocked /\ Projected(t) = blocked
      \/ Projected(t) = task[t]
  BY <1>2
<1>7. QED
  BY <1>3, <1>4, <1>5, <1>6

\* The projection makes a Task ready when all it effectively depends on is completed.
LEMMA ProjectedMoves ==
  ASSUME DoneInv, OrderInv, task' = [t \in Tasks |-> Projected(t)]
  PROVE  Moves(task') /\ Runs(task')
<1>1. ASSUME NEW t \in Tasks
      PROVE  /\ t \in Stale => task[t].status = "running" /\ ~Active(t)
             /\ t \in BecomesReady => task[t].status \in {"pending", "blocked"} /\ Ripe(t)
             /\ t \in BecomesBlocked => task[t].status = "pending"
  BY DEF Stale, BecomesReady, BecomesBlocked, BlockedBy, Ripe, Active
<1>2. \A t \in Tasks : task'[t] = Projected(t)
  OBVIOUS
<1>3. task' \in [Tasks -> Entries]
  BY <1>2, ProjectedIs DEF DoneInv
<1>4. ASSUME NEW t \in Tasks
      PROVE  /\ task'[t].status = "absent" <=> task[t].status = "absent"
             /\ task'[t].replaces = task[t].replaces /\ task'[t].deps = task[t].deps
             /\ Completed(t) => task'[t].status = "completed"
             /\ BegunAs(task'[t]) => BegunAs(task[t]) \/ Ripe(t)
             /\ Active(t) => task'[t].status = "running"
  BY <1>1, <1>2, ProjectedIs DEF DoneInv, Completed, BegunAs, OrderInv, ActiveMeansRunning
<1>5. QED
  BY <1>3, <1>4, Constants DEF Moves, Runs

-----------------------------------------------------------------------------
\* A step that writes the ledger and leaves the Invocations alone.
LEMMA LedgerAdvances ==
  ASSUME DoneInv, OrderInv, Moves(task'), Runs(task'), inv' = inv, applying' = applying
  PROVE  Advances
  BY DEF Advances, Runs, Active, Outstanding, OrderInv, ApplyingIsOutstanding

\* A step that writes one row.
LEMMA RowAdvances ==
  ASSUME DoneInv, OrderInv, Moves(task'), NEW p \in Positions, NEW row,
         inv' = [inv EXCEPT ![p] = row], applying' \in {applying, Nowhere},
         \A t \in Tasks \ {p} : Active(t) => task'[t].status = "running",
         p \in Tasks =>
           /\ row.status \in {"queued", "running"} => task'[p].status = "running"
           /\ row.changes = "integrated" => inv[p].changes = "integrated" \/ applying = p
           /\ Completed(p) /\ row.changes \in {"pending", "conflict"} => Outstanding(p)
           /\ applying' = p => row.changes \in {"pending", "conflict"}
  PROVE  Advances
<1>1. \A q \in Positions : inv'[q] = IF q = p THEN row ELSE inv[q]
  BY DEF DoneInv, WorkersTypeOK
<1>2. \A t \in Tasks : applying' = t => applying = t
  BY Constants
<1>3. QED
  BY <1>1, <1>2, Constants DEF Advances, Active, Outstanding, OrderInv, ApplyingIsOutstanding

-----------------------------------------------------------------------------
(***************************************************************************)
(* Nothing is scheduled while a Changeset is being applied, and what is    *)
(* scheduled of several Tasks is the first in Kahn's order.                *)
(***************************************************************************)
LEMMA AdviceOrdered ==
  ASSUME DoneInv
  PROVE  /\ Advice.what \in {"start", "replan", "synthesize", "continue", "start_worker", "execute",
                             "settle", "resume"} => applying = Nowhere
         /\ Advice.what = "start_worker" => Runnable # {} /\ Advice.at = FirstOf(Runnable)
         /\ Advice.what = "continue" =>
              \/ Advice.at = Coordinator
              \/ /\ \E t \in Current : WorkerContinues(t)
                 /\ Advice.at = FirstOf({t \in Current : WorkerContinues(t)})
<1>1. /\ RunningAdvice.what = "start_worker" =>
           Runnable # {} /\ RunningAdvice.at = FirstOf(Runnable)
      /\ RunningAdvice.what = "continue" =>
           \/ RunningAdvice.at = Coordinator
           \/ /\ \E t \in Current : WorkerContinues(t)
              /\ RunningAdvice.at = FirstOf({t \in Current : WorkerContinues(t)})
  BY DEF RunningAdvice, Do
<1>2. applying # Nowhere => Advice.what = "in_flight"
  BY DEF Advice, Do
<1>3. applying = Nowhere => Advice = RunningAdvice \/ Advice.what \in {"start", "wait", "resume", "terminal"}
  BY DEF Advice, Do
<1>4. QED
  BY <1>1, <1>2, <1>3

LEMMA RunnableIsRipe ==
  ASSUME DoneInv, OrderInv, Runnable # {}
  PROVE  /\ FirstOf(Runnable) \in Current /\ Ripe(FirstOf(Runnable))
         /\ task[FirstOf(Runnable)].status \in {"pending", "ready", "blocked"}
<1>1. Runnable \in SUBSET Current
  BY DEF Runnable, BecomesReady
<1>2. FirstOf(Runnable) \in Runnable
  BY <1>1, FirstOfIs DEF OrderInv
<1>3. \A t \in Runnable : Ripe(t) /\ task[t].status \in {"pending", "ready", "blocked"}
  BY DEF Runnable, BecomesReady, Ripe, BlockedBy, OrderInv, BegunMeansRipe, BegunAs
<1>4. QED
  BY <1>1, <1>2, <1>3

LEMMA ContinuingIsBlocked ==
  ASSUME DoneInv, OrderInv, NEW S \in SUBSET Current, S # {}, \A t \in S : WorkerContinues(t)
  PROVE  FirstOf(S) \in Current /\ WorkerContinues(FirstOf(S))
  BY FirstOfIs DEF OrderInv

\* A Task that begins: its new status is that of a Task that waits for or has a Worker.
LEMMA BeginMoves ==
  ASSUME DoneInv, OrderInv, NEW t \in Current, ~Completed(t), BegunAs(task[t]) \/ Ripe(t),
         NEW entry \in Entries, entry.status \in {"ready", "running"},
         entry.replaces = task[t].replaces, entry.deps = task[t].deps,
         NEW ledger, Puts(ledger, t, entry)
  PROVE  /\ Moves(ledger) /\ ledger[t] = entry /\ \A u \in Tasks \ {t} : ledger[u] = task[u]
         /\ ~Active(t) => Runs(ledger)
<1>1. t \in Tasks /\ task[t].status # "absent"
  BY Constants DEF Current, Accepted
<1>2. /\ entry.status # "absent" /\ (Completed(t) => entry.status = "completed")
      /\ t \in Current /\ BegunAs(entry) => BegunAs(task[t]) \/ Ripe(t)
  OBVIOUS
<1>3. /\ Moves(ledger) /\ ledger[t] = entry /\ \A u \in Tasks \ {t} : ledger[u] = task[u]
      /\ (Active(t) => entry.status = "running") => Runs(ledger)
  BY <1>1, <1>2, EntryMoves
<1>4. QED
  BY <1>3

LEMMA RefuseAdvances ==
  ASSUME DoneInv, OrderInv, NEW ledger, Moves(ledger), Runs(ledger), Refuse(ledger)
  PROVE  Advances
<1>1. Moves(task') /\ Runs(task')
  BY AbandonedMoves DEF Refuse, DoneInv
<1>2. QED
  BY <1>1, LedgerAdvances DEF Refuse

LEMMA CreateAdvances ==
  ASSUME DoneInv, OrderInv, NEW p \in Positions, Create(p), applying = Nowhere, applying' = applying,
         Moves(task'), \A t \in Tasks \ {p} : Active(t) => task'[t].status = "running",
         p \in Tasks => task'[p].status = "running"
  PROVE  Advances
<1>1. inv' = [inv EXCEPT ![p] = Prepared]
  BY DEF Create
<1>2. Prepared.changes = "none"
  BY DEF Prepared, NoInvocation
<1> HIDE DEF Prepared
<1>3. p \in Tasks => applying' # p
  BY Constants
<1>4. QED
  BY <1>1, <1>2, <1>3, RowAdvances

LEMMA TurnAdvances ==
  ASSUME DoneInv, OrderInv, applying = Nowhere,
         ContinueTurn \/ \E purpose : PrepareTurn(purpose)
  PROVE  Advances
<1>1. CASE Refuse(task)
  BY <1>1, RefuseAdvances, SameMoves
<1>2. CASE ~Refuse(task)
  <2>1. Create(Coordinator) /\ task' = task /\ applying' = applying
    BY <1>2 DEF ContinueTurn, PrepareTurn
  <2>2. Moves(task') /\ Runs(task')
    BY <2>1, SameMoves
  <2>3. QED
    BY <2>1, <2>2, CreateAdvances, Constants DEF Runs
<1>3. QED
  BY <1>1, <1>2

LEMMA ContinueWorkerAdvances ==
  ASSUME DoneInv, OrderInv, applying = Nowhere, NEW t \in Current, WorkerContinues(t),
         ContinueWorker(t)
  PROVE  Advances
<1>1. t \in Tasks /\ t \in Positions /\ task[t] \in Entries
  BY Constants DEF DoneInv, WorkersTypeOK
<1>2. BegunAs(task[t]) /\ ~Completed(t) /\ ~Active(t)
  BY DEF WorkerContinues, BlockedBy, BegunAs, Completed, BlockedOn, Active
<1> DEFINE entry(status) == [task[t] EXCEPT !.status = status, !.why = "none"]
<1>3. ASSUME NEW status \in {"ready", "running"}
      PROVE  /\ entry(status) \in Entries /\ entry(status).status = status
             /\ entry(status).replaces = task[t].replaces /\ entry(status).deps = task[t].deps
             /\ Puts([task EXCEPT ![t].status = status, ![t].why = "none"], t, entry(status))
  BY <1>1 DEF Entries, TaskStatuses, DoneInv, WorkersTypeOK, Puts
<1> HIDE DEF entry
<1>4. CASE Refuse([task EXCEPT ![t].status = "ready", ![t].why = "none"])
  <2>1. PICK ledger : Puts(ledger, t, entry("ready")) /\ Refuse(ledger)
    BY <1>3, <1>4
  <2>2. Moves(ledger) /\ Runs(ledger)
    BY <1>2, <1>3, <2>1, BeginMoves
  <2>3. QED
    BY <2>1, <2>2, RefuseAdvances
<1>5. CASE ~Refuse([task EXCEPT ![t].status = "ready", ![t].why = "none"])
  <2>1. /\ Create(t) /\ applying' = applying
        /\ task' = [task EXCEPT ![t].status = "running", ![t].why = "none"]
    BY <1>5 DEF ContinueWorker
  <2>2. Puts(task', t, entry("running"))
    BY <1>3, <2>1
  <2>3. Moves(task') /\ Runs(task') /\ task'[t] = entry("running")
    BY <1>2, <1>3, <2>2, BeginMoves
  <2>4. task'[t].status = "running"
    BY <1>3, <2>3
  <2>5. QED
    BY <1>1, <2>1, <2>3, <2>4, CreateAdvances DEF Runs
<1>6. QED
  BY <1>4, <1>5

LEMMA StartWorkerAdvances ==
  ASSUME DoneInv, OrderInv, applying = Nowhere, Runnable # {}, StartWorker(FirstOf(Runnable))
  PROVE  Advances
<1>1. PICK t \in Current : /\ t = FirstOf(Runnable) /\ Ripe(t)
                           /\ task[t].status \in {"pending", "ready", "blocked"}
  BY RunnableIsRipe
<1>2. t \in Tasks /\ t \in Positions /\ task[t] \in Entries /\ ~Completed(t)
  BY <1>1, Constants DEF DoneInv, WorkersTypeOK, Completed
<1> DEFINE entry == [task[t] EXCEPT !.status = "running", !.reserved = FALSE]
<1>3. /\ entry \in Entries /\ entry.status = "running"
      /\ entry.replaces = task[t].replaces /\ entry.deps = task[t].deps
  BY <1>2 DEF Entries, TaskStatuses
<1>4. Create(t) /\ applying' = applying /\ Puts(task', t, entry)
  BY <1>1, <1>2 DEF StartWorker, DoneInv, WorkersTypeOK, Puts
<1> HIDE DEF entry
<1>5. ~Active(t)
  BY <1>1, <1>2 DEF OrderInv, ActiveMeansRunning
<1>6. Moves(task') /\ Runs(task') /\ task'[t].status = "running"
  BY <1>1, <1>2, <1>3, <1>4, <1>5, BeginMoves
<1>7. QED
  BY <1>2, <1>4, <1>6, CreateAdvances DEF Runs

LEMMA ExecuteAdvances ==
  ASSUME DoneInv, OrderInv, NEW p, Execute(p)
  PROVE  Advances
<1>1. task' = task /\ applying' = applying /\ inv[p].status = "queued"
  BY DEF Execute
<1>2. Moves(task') /\ Runs(task')
  BY <1>1, SameMoves
<1>3. CASE inv' = inv
  BY <1>1, <1>2, <1>3, LedgerAdvances
<1>4. CASE inv' = [inv EXCEPT ![p].status = "running"]
  <2>1. CASE p \in Positions
    <3> DEFINE row == [inv[p] EXCEPT !.status = "running"]
    <3>1. inv[p] \in Rows
      BY <2>1 DEF DoneInv, WorkersTypeOK
    <3>2. row.changes = inv[p].changes
      BY <3>1 DEF Rows
    <3>3. Active(p)
      BY <1>1 DEF Active
    <3>4. inv' = [inv EXCEPT ![p] = row]
      BY <1>4
    <3> HIDE DEF row
    <3>5. QED
      BY <1>1, <1>2, <2>1, <3>2, <3>3, <3>4, RowAdvances
         DEF Runs, Outstanding, OrderInv, ApplyingIsOutstanding
  <2>2. CASE p \notin Positions
    BY <1>1, <1>2, <1>4, <2>2, LedgerAdvances DEF DoneInv, WorkersTypeOK
  <2>3. QED
    BY <2>1, <2>2
<1>5. QED
  BY <1>3, <1>4 DEF Execute

LEMMA ResumeAdvances ==
  ASSUME DoneInv, OrderInv, applying = Nowhere, NEW named, Resume(named)
  PROVE  Advances
<1> DEFINE byDecision == node.reason = "decision"
           turnNext == byDecision /\ TurnContinues /\ named \in {Nowhere, Coordinator}
           workers == {t \in Current : byDecision /\ WorkerContinues(t) /\ named \in {Nowhere, t}}
<1>1. \/ ContinueTurn
      \/ workers # {} /\ ContinueWorker(FirstOf(workers))
      \/ UNCHANGED <<turn, used, task, inv, born, applying, troubles>>
  BY DEF Resume
<1>2. CASE workers # {} /\ ContinueWorker(FirstOf(workers))
  <2>1. workers \in SUBSET Current /\ \A t \in workers : WorkerContinues(t)
    OBVIOUS
  <2> HIDE DEF workers
  <2>2. FirstOf(workers) \in Current /\ WorkerContinues(FirstOf(workers))
    BY <1>2, <2>1, ContinuingIsBlocked
  <2>3. QED
    BY <1>2, <2>2, ContinueWorkerAdvances
<1>3. CASE UNCHANGED <<turn, used, task, inv, born, applying, troubles>>
  BY <1>3, SameMoves, LedgerAdvances
<1>4. QED
  BY <1>1, <1>2, <1>3, TurnAdvances

-----------------------------------------------------------------------------
(***************************************************************************)
(* Integration and settlement.                                             *)
(***************************************************************************)
\* The Changeset that is taken next is outstanding, and all before it are in the snapshot.
LEMMA IntegrableIsNext ==
  ASSUME DoneInv, OrderInv, NEW t \in Integrable
  PROVE  t \in Current /\ Completed(t) /\ Outstanding(t) /\ InTheSnapshot(t)
<1>1. /\ Undetermined # {} /\ t = FirstOf(Undetermined) /\ Completed(t)
  BY DEF Integrable
<1>2. Undetermined \in SUBSET Current
  BY DEF Undetermined
<1>3. t \in Undetermined /\ Effective(t) \cap Undetermined = {}
  BY <1>1, <1>2, FirstOfIs DEF OrderInv
<1>4. \A u \in Current : Completed(u) => (Determined(u) <=> ~Outstanding(u))
  BY DEF Determined, Completed
<1>5. Outstanding(t)
  BY <1>1, <1>2, <1>3, <1>4 DEF Undetermined
<1>6. Ripe(t)
  BY <1>1, <1>2, <1>3 DEF OrderInv, BegunMeansRipe, BegunAs, Completed
<1>7. \A d \in Effective(t) : d \in Current /\ Determined(d) /\ Completed(d)
  BY <1>3, <1>6 DEF Ripe, Undetermined, Effective
<1>8. QED
  BY <1>1, <1>2, <1>3, <1>4, <1>5, <1>7 DEF InTheSnapshot

LEMMA BeginIntegrationAdvances ==
  ASSUME DoneInv, OrderInv, BeginIntegration
  PROVE  Advances
<1>1. PICK p \in ToIntegrate :
        IF inv[p].conflictTask = "none"
        THEN applying' = p /\ UNCHANGED <<node, task>>
        ELSE /\ IF ConflictOpen(p) THEN NodeIs("waiting", "integration_conflict") /\ UNCHANGED task
                                   ELSE FailNow("integration_conflict")
             /\ UNCHANGED applying
  BY DEF BeginIntegration
<1>2. inv' = inv
  BY DEF BeginIntegration
<1>3. CASE applying' = p /\ task' = task
  <2>1. p \in Integrable \/ p = Coordinator
    BY <1>1 DEF ToIntegrate
  <2>2. Moves(task') /\ Runs(task')
    BY <1>3, SameMoves
  <2>3. \A t \in Tasks : p = t => Completed(t) /\ Outstanding(t) /\ InTheSnapshot(t)
    BY <2>1, IntegrableIsNext, Constants
  <2>4. \A t \in Tasks : Outstanding(t)' = Outstanding(t) /\ Active(t)' = Active(t)
    BY <1>2 DEF Outstanding, Active
  <2>5. QED
    BY <1>2, <1>3, <2>2, <2>3, <2>4 DEF Advances, Runs
<1>4. CASE applying' = applying /\ task' = task
  BY <1>2, <1>4, SameMoves, LedgerAdvances
<1>5. CASE applying' = applying /\ FailNow("integration_conflict")
  <2>1. Moves(task') /\ Runs(task')
    BY <1>5, SameMoves, AbandonedMoves DEF FailNow, DoneInv
  <2>2. QED
    BY <1>2, <1>5, <2>1, LedgerAdvances
<1>6. QED
  BY <1>1, <1>3, <1>4, <1>5

LEMMA HandoffMoves ==
  ASSUME DoneInv, OrderInv, NEW t, task' = [task EXCEPT ![t].handoff = TRUE]
  PROVE  Moves(task') /\ Runs(task')
<1>1. CASE t \in Tasks
  <2> DEFINE entry == [task[t] EXCEPT !.handoff = TRUE]
  <2>1. task[t] \in Entries
    BY <1>1 DEF DoneInv, WorkersTypeOK
  <2>2. /\ entry \in Entries /\ entry.status = task[t].status /\ entry.why = task[t].why
        /\ entry.replaces = task[t].replaces /\ entry.deps = task[t].deps
    BY <2>1 DEF Entries
  <2>3. task' = [task EXCEPT ![t] = entry]
    BY DEF DoneInv, WorkersTypeOK
  <2> HIDE DEF entry
  <2>4. \A u \in Tasks : task'[u] = IF u = t THEN entry ELSE task[u]
    BY <1>1, <2>3 DEF DoneInv, WorkersTypeOK
  <2>5. task' \in [Tasks -> Entries]
    BY <1>1, <2>2, <2>3 DEF DoneInv, WorkersTypeOK
  <2>6. \A u \in Tasks : /\ task'[u].status = task[u].status /\ task'[u].why = task[u].why
                         /\ task'[u].replaces = task[u].replaces /\ task'[u].deps = task[u].deps
    BY <2>2, <2>4
  <2>7. QED
    BY <2>5, <2>6, Constants DEF Moves, Runs, Completed, BegunAs, OrderInv, ActiveMeansRunning
<1>2. CASE t \notin Tasks
  <2>1. task' = task
    BY <1>2 DEF DoneInv, WorkersTypeOK
  <2>2. QED
    BY <2>1, SameMoves
<1>3. QED
  BY <1>1, <1>2

LEMMA SettleAdvances ==
  ASSUME DoneInv, OrderInv, Settle
  PROVE  Advances
<1>1. inv' = inv /\ applying' = applying
  BY DEF Settle
<1>2. \/ UNCHANGED task
      \/ \E reason : FailNode(reason)
      \/ task' = [t \in Tasks |-> Projected(t)]
      \/ \E t : task' = [task EXCEPT ![t].handoff = TRUE]
  <2>1. CASE SettleTurn
    BY <2>1 DEF SettleTurn
  <2>2. CASE ApplyToTasks
    BY <2>2 DEF ApplyToTasks
  <2>3. QED
    BY <2>1, <2>2 DEF Settle
<1>3. Moves(task') /\ Runs(task')
  <2>1. CASE \E t : task' = [task EXCEPT ![t].handoff = TRUE]
    BY <2>1, HandoffMoves
  <2>2. CASE task' = [t \in Tasks |-> Projected(t)]
    BY <2>2, ProjectedMoves
  <2>3. QED
    BY <1>2, <2>1, <2>2, SameMoves, FailNodeMoves
<1>4. QED
  BY <1>1, <1>3, LedgerAdvances

LEMMA ScheduledAdvances ==
  ASSUME DoneInv, OrderInv, Scheduled
  PROVE  Advances
<1>1. Perform(Advice)
  BY DEF Scheduled
<1>2. CASE \/ Advice.what = "start" /\ PrepareTurn("decompose")
           \/ Advice.what \in {"replan", "synthesize"} /\ PrepareTurn(Advice.what)
  BY <1>2, AdviceOrdered, TurnAdvances
<1>3. CASE Advice.what = "continue" /\ Continue(Advice.at)
  <2>1. applying = Nowhere
    BY <1>3, AdviceOrdered
  <2>2. CASE ContinueTurn
    BY <2>1, <2>2, TurnAdvances
  <2>3. CASE Advice.at # Coordinator /\ ContinueWorker(Advice.at)
    <3> DEFINE continuing == {t \in Current : WorkerContinues(t)}
    <3>1. continuing \in SUBSET Current /\ continuing # {} /\ Advice.at = FirstOf(continuing)
          /\ \A t \in continuing : WorkerContinues(t)
      BY <1>3, <2>3, AdviceOrdered
    <3> HIDE DEF continuing
    <3>2. Advice.at \in Current /\ WorkerContinues(Advice.at)
      BY <3>1, ContinuingIsBlocked
    <3>3. QED
      BY <2>1, <2>3, <3>2, ContinueWorkerAdvances
  <2>4. QED
    BY <1>3, <2>2, <2>3 DEF Continue
<1>4. CASE Advice.what = "start_worker" /\ StartWorker(Advice.at)
  BY <1>4, AdviceOrdered, StartWorkerAdvances
<1>5. CASE Advice.what = "execute" /\ Execute(Advice.at)
  BY <1>5, ExecuteAdvances
<1>6. CASE Advice.what = "settle" /\ (BeginIntegration \/ Settle)
  BY <1>6, BeginIntegrationAdvances, SettleAdvances
<1>7. CASE Advice.what = "resume" /\ Resume(Advice.at)
  BY <1>7, AdviceOrdered, ResumeAdvances
<1>8. QED
  BY <1>1, <1>2, <1>3, <1>4, <1>5, <1>6, <1>7 DEF Perform

LEMMA EndIntegrationAdvances ==
  ASSUME DoneInv, OrderInv, NEW p \in Positions, EndIntegration(p)
  PROVE  Advances
<1>1. applying = p /\ applying' = Nowhere /\ task' = task
  BY DEF EndIntegration
<1>2. Moves(task') /\ Runs(task') /\ inv[p] \in Rows
  BY <1>1, SameMoves DEF DoneInv, WorkersTypeOK
<1>3. PICK row : /\ inv' = [inv EXCEPT ![p] = row] /\ row.status = inv[p].status
                 /\ row.changes \in {"integrated", "conflict"}
  <2>1. CASE inv' = [inv EXCEPT ![p].changes = "integrated"]
    <3>1. inv' = [inv EXCEPT ![p] = [inv[p] EXCEPT !.changes = "integrated"]]
      BY <2>1
    <3>2. /\ [inv[p] EXCEPT !.changes = "integrated"].status = inv[p].status
          /\ [inv[p] EXCEPT !.changes = "integrated"].changes = "integrated"
      BY <1>2 DEF Rows
    <3>3. QED
      BY <3>1, <3>2
  <2>2. CASE inv' = [inv EXCEPT ![p].changes = "conflict", ![p].conflictTask = "open"]
    <3>1. inv' = [inv EXCEPT ![p] = [inv[p] EXCEPT !.changes = "conflict", !.conflictTask = "open"]]
      BY <2>2 DEF DoneInv, WorkersTypeOK
    <3>2. /\ [inv[p] EXCEPT !.changes = "conflict", !.conflictTask = "open"].status = inv[p].status
          /\ [inv[p] EXCEPT !.changes = "conflict", !.conflictTask = "open"].changes = "conflict"
      BY <1>2 DEF Rows
    <3>3. QED
      BY <3>1, <3>2
  <2>3. QED
    BY <2>1, <2>2 DEF EndIntegration
<1>4. p \in Tasks => Outstanding(p) /\ applying' # p
  BY <1>1, Constants DEF OrderInv, ApplyingIsOutstanding
<1>5. Active(p) <=> row.status \in {"queued", "running"}
  BY <1>3 DEF Active
<1>6. QED
  BY <1>1, <1>2, <1>3, <1>4, <1>5, RowAdvances DEF Runs

-----------------------------------------------------------------------------
(***************************************************************************)
(* Attempts, the operator and the root.  The Task of an active Worker is   *)
(* running: nothing of it was integrated, and all it depends on is         *)
(* completed already.                                                      *)
(***************************************************************************)
LEMMA ReportedMoves ==
  ASSUME DoneInv, OrderInv, NEW p \in Positions, Active(p),
         NEW report \in {"none", "completed", "blocked", "failed"},
         NEW why \in {"none", "input", "decision", "dependency"}, Reported(p, report, why)
  PROVE  Moves(task') /\ \A t \in Tasks \ {p} : Active(t) => task'[t].status = "running"
<1>1. CASE task' = task
  BY <1>1, SameMoves DEF Runs
<1>2. CASE /\ p # Coordinator /\ report # "none"
           /\ task' = [task EXCEPT ![p].status = report, ![p].why = why]
  <2>1. p \in Tasks /\ task[p] \in Entries
    BY <1>2 DEF Positions, Tasks, Coordinator, DoneInv, WorkersTypeOK
  <2>2. task[p].status = "running"
    BY <2>1 DEF OrderInv, ActiveMeansRunning
  <2> DEFINE entry == [task[p] EXCEPT !.status = report, !.why = why]
  <2>3. /\ entry \in Entries /\ entry.status = report /\ entry.status # "absent"
        /\ entry.replaces = task[p].replaces /\ entry.deps = task[p].deps
    BY <1>2, <2>1 DEF Entries, TaskStatuses
  <2>4. Puts(task', p, entry)
    BY <1>2 DEF Puts, DoneInv, WorkersTypeOK
  <2> HIDE DEF entry
  <2>5. ~Completed(p) /\ BegunAs(task[p]) /\ task[p].status # "absent"
    BY <2>2 DEF Completed, BegunAs
  <2>6. Moves(task') /\ \A u \in Tasks \ {p} : task'[u] = task[u]
    BY <2>1, <2>3, <2>4, <2>5, EntryMoves
  <2>7. QED
    BY <2>6 DEF OrderInv, ActiveMeansRunning
<1>3. QED
  BY <1>1, <1>2 DEF Reported

LEMMA ActiveIsNotApplied ==
  ASSUME DoneInv, OrderInv, NEW t \in Tasks, Active(t)
  PROVE  task[t].status = "running" /\ ~Completed(t) /\ applying # t /\ inv[t].changes # "integrated"
  BY DEF OrderInv, ActiveMeansRunning, ApplyingIsOutstanding, IntegratedMeansCompleted, Completed

LEMMA AttemptAdvances ==
  ASSUME DoneInv, OrderInv, NEW p \in Positions, AttemptEnds(p) \/ Retry(p)
  PROVE  Advances
<1>1. Active(p) /\ applying' = applying /\ inv[p] \in Rows
  BY DEF AttemptEnds, Return, Fail, Ask, Retry, Active, DoneInv, WorkersTypeOK
<1>2. PICK row : /\ inv' = [inv EXCEPT ![p] = row] /\ row.changes \in {"none", "pending", inv[p].changes}
                 /\ row.status \in {"queued", "running"} => task' = task
  <2>1. CASE Return(p)
    <3>1. PICK end \in WorkerEnds \cup TurnEnds :
            inv' = [inv EXCEPT ![p] = [status |-> "succeeded", result |-> end.result,
                                       decision |-> IF end.names THEN "open" ELSE "none",
                                       changes |-> end.changes, conflictTask |-> "none"]]
      BY <2>1 DEF Return
    <3> DEFINE row == [status |-> "succeeded", result |-> end.result,
                       decision |-> IF end.names THEN "open" ELSE "none",
                       changes |-> end.changes, conflictTask |-> "none"]
    <3>2. inv' = [inv EXCEPT ![p] = row]
      BY <3>1
    <3>3. row.status = "succeeded" /\ row.changes \in {"none", "pending"}
      BY WorkersAssumption
    <3> HIDE DEF row
    <3>4. QED
      BY <3>2, <3>3
  <2>2. CASE Fail(p)
    <3>1. inv' = [inv EXCEPT ![p] = [inv[p] EXCEPT !.status = "failed"]]
      BY <2>2 DEF Fail
    <3>2. /\ [inv[p] EXCEPT !.status = "failed"].status = "failed"
          /\ [inv[p] EXCEPT !.status = "failed"].changes = inv[p].changes
      BY <1>1 DEF Rows
    <3>3. QED
      BY <3>1, <3>2
  <2>3. CASE Ask(p)
    <3>1. inv' = [inv EXCEPT ![p] = [inv[p] EXCEPT !.status = "blocked", !.decision = "open"]]
      BY <2>3 DEF Ask, DoneInv, WorkersTypeOK
    <3>2. /\ [inv[p] EXCEPT !.status = "blocked", !.decision = "open"].status = "blocked"
          /\ [inv[p] EXCEPT !.status = "blocked", !.decision = "open"].changes = inv[p].changes
      BY <1>1 DEF Rows
    <3>3. QED
      BY <3>1, <3>2
  <2>4. CASE Retry(p)
    <3>1. inv' = [inv EXCEPT ![p] = [inv[p] EXCEPT !.status = "queued"]] /\ task' = task
      BY <2>4 DEF Retry
    <3>2. [inv[p] EXCEPT !.status = "queued"].changes = inv[p].changes
      BY <1>1 DEF Rows
    <3>3. QED
      BY <3>1, <3>2
  <2>5. QED
    BY <2>1, <2>2, <2>3, <2>4 DEF AttemptEnds
<1>3. Moves(task') /\ \A t \in Tasks \ {p} : Active(t) => task'[t].status = "running"
  <2>1. CASE Return(p)
    <3>1. PICK end \in WorkerEnds \cup TurnEnds :
            Reported(p, end.report, IF end.report = "blocked" THEN "input" ELSE "none")
      BY <2>1 DEF Return
    <3>2. end.report \in {"none", "completed", "blocked", "failed"}
      BY WorkersAssumption
    <3>3. QED
      BY <1>1, <3>1, <3>2, ReportedMoves
  <2>2. CASE Fail(p) \/ Ask(p)
    BY <1>1, <2>2, ReportedMoves DEF Fail, Ask
  <2>3. CASE Retry(p)
    BY <2>3, SameMoves DEF Retry, Runs
  <2>4. QED
    BY <2>1, <2>2, <2>3 DEF AttemptEnds
<1>4. p \in Tasks => /\ task[p].status = "running" /\ ~Completed(p) /\ applying # p
                     /\ inv[p].changes # "integrated"
  BY <1>1, ActiveIsNotApplied
<1>5. QED
  BY <1>1, <1>2, <1>3, <1>4, RowAdvances

\* A step that writes the answer of a Decision or the end of the Task of a conflict.
LEMMA AnswerAdvances ==
  ASSUME DoneInv, OrderInv, NEW p \in Positions, task' = task, applying' = applying,
         NEW row, inv' = [inv EXCEPT ![p] = row],
         row.status = inv[p].status, row.changes = inv[p].changes
  PROVE  Advances
<1>1. Moves(task') /\ Runs(task')
  BY SameMoves
<1>2. QED
  BY <1>1, RowAdvances DEF Runs, Active, Outstanding, OrderInv, ApplyingIsOutstanding

LEMMA OperatorAdvances ==
  ASSUME DoneInv, OrderInv, NEW p \in Positions, Resolve(p) \/ Supersede(p) \/ RootCancels(p)
  PROVE  Advances
<1>1. task' = task /\ applying' = applying
  BY DEF Resolve, Supersede, RootCancels
<1>2. CASE Resolve(p)
  <2>1. inv' = [inv EXCEPT ![p] = [inv[p] EXCEPT !.decision = "resolved"]]
    BY <1>2 DEF Resolve
  <2>2. QED
    BY <1>1, <2>1, AnswerRows, AnswerAdvances
<1>3. CASE Supersede(p)
  <2>1. inv' = [inv EXCEPT ![p] = [inv[p] EXCEPT !.decision = "superseded"]]
    BY <1>3 DEF Supersede
  <2>2. QED
    BY <1>1, <2>1, AnswerRows, AnswerAdvances
<1>4. CASE RootCancels(p)
  <2>1. inv' = [inv EXCEPT ![p] = [inv[p] EXCEPT !.conflictTask = "cancelled"]]
    BY <1>4 DEF RootCancels
  <2>2. QED
    BY <1>1, <2>1, AnswerRows, AnswerAdvances
<1>5. QED
  BY <1>2, <1>3, <1>4

LEMMA CancelAdvances ==
  ASSUME DoneInv, OrderInv, Cancel
  PROVE  Advances
<1>1. applying' = applying
  BY DEF Cancel
<1>2. CASE \E t \in Current :
             /\ task[t].status \in Unstarted
             /\ task' = [task EXCEPT ![t] = CancelTask(@)]
             /\ UNCHANGED inv
  <2>1. PICK t \in Current : /\ task[t].status \in Unstarted
                             /\ Puts(task', t, CancelTask(task[t])) /\ inv' = inv
    BY <1>2 DEF Puts
  <2>2. t \in Tasks /\ task[t] \in Entries
    BY Constants DEF DoneInv, WorkersTypeOK
  <2>3. ~Completed(t) /\ ~Active(t) /\ task[t].status # "absent"
    BY <2>1, <2>2 DEF Unstarted, Completed, OrderInv, ActiveMeansRunning
  <2>4. ~BegunAs(CancelTask(task[t])) /\ CancelTask(task[t]).status # "absent"
    BY <2>2, CancelledEntry DEF BegunAs
  <2>5. Moves(task') /\ Runs(task')
    BY <2>1, <2>2, <2>3, <2>4, CancelledEntry, EntryMoves
  <2>6. QED
    BY <1>1, <2>1, <2>5, LedgerAdvances
<1>3. CASE \E p \in Positions :
             /\ ConflictOpen(p)
             /\ inv' = [inv EXCEPT ![p].conflictTask = "cancelled"]
             /\ UNCHANGED task
  <2>1. PICK p \in Positions : /\ inv' = [inv EXCEPT ![p] = [inv[p] EXCEPT !.conflictTask = "cancelled"]]
                               /\ task' = task
    BY <1>3
  <2>2. QED
    BY <1>1, <2>1, AnswerRows, AnswerAdvances
<1>4. QED
  BY <1>2, <1>3 DEF Cancel

-----------------------------------------------------------------------------
(***************************************************************************)
(* A proposal.  Its Tasks have new numbers, so that it adds edges without  *)
(* changing what depends on what among the others; and only a Task that    *)
(* has not begun gains one, for a Task that has begun depends on none that *)
(* may be replaced.                                                        *)
(***************************************************************************)
LEMMA BatchIsNew ==
  ASSUME DoneInv, OrderInv, NEW batch \in Batches
  PROVE  /\ DOMAIN batch \subseteq Tasks /\ DOMAIN batch \cap Accepted = {}
         /\ Accepted \cup DOMAIN batch = 1..Cardinality(Accepted \cup DOMAIN batch)
         /\ \A t \in DOMAIN batch : /\ batch[t].replaces \in {0} \cup Replaceable
                                    /\ batch[t].deps \subseteq Accepted \cup DOMAIN batch
<1> DEFINE known == Cardinality(Accepted)
<1>1. known \in Nat /\ Accepted = 1..known
  <2>1. IsFiniteSet(Accepted)
    BY FiniteTasks
  <2>2. QED
    BY <2>1, FS_CardinalityType DEF OrderInv, TasksAreNumbered
<1>2. PICK n \in {m \in 1..BatchSize : known + m <= MaxTasks} :
        batch \in [(known + 1)..(known + n) ->
          [replaces : {0} \cup Replaceable,
           deps : {D \in SUBSET (Current \cup ((known + 1)..(known + n))) : Cardinality(D) <= MaxDeps}]]
  BY DEF Batches
<1>3. n \in Nat /\ BatchSize \in Nat /\ known + n <= MaxTasks
  BY <1>2, WorkersAssumption
<1>4. DOMAIN batch = (known + 1)..(known + n)
  BY <1>2
<1> HIDE DEF known
<1>5. DOMAIN batch \subseteq Tasks /\ DOMAIN batch \cap Accepted = {}
  <2>1. \A t \in DOMAIN batch : t \in 1..MaxTasks /\ t \notin 1..known
    BY <1>1, <1>3, <1>4, Constants
  <2>2. QED
    BY <1>1, <2>1 DEF Tasks
<1>6. Accepted \cup DOMAIN batch = 1..(known + n)
  BY <1>1, <1>3, <1>4
<1>7. Cardinality(1..(known + n)) = known + n
  BY <1>1, <1>3, FS_Interval
<1> DEFINE depends == {D \in SUBSET (Current \cup DOMAIN batch) : Cardinality(D) <= MaxDeps}
<1>8. batch \in [DOMAIN batch -> [replaces : {0} \cup Replaceable, deps : depends]]
  BY <1>2, <1>4
<1>9. \A D \in depends : D \subseteq Accepted \cup DOMAIN batch
  BY DEF Current
<1> HIDE DEF depends
<1>10. \A t \in DOMAIN batch : /\ batch[t].replaces \in {0} \cup Replaceable
                               /\ batch[t].deps \in depends
  BY <1>8
<1>11. QED
  BY <1>5, <1>6, <1>7, <1>9, <1>10

LEMMA FewerEdges ==
  ASSUME NEW E, NEW F, F \subseteq E, Acyclic(E)
  PROVE  Acyclic(F)
  BY DEF Acyclic

LEMMA ProposeOrdered ==
  ASSUME DoneInv, OrderInv, Propose
  PROVE  OrderInv'
<1>1. PICK batch \in Batches : Valid(batch) /\ Amends(task', batch)
  BY ExtendedIs DEF Propose, DoneInv
<1> DEFINE B == DOMAIN batch
<1>2. /\ B \subseteq Tasks /\ B \cap Accepted = {}
      /\ Accepted \cup B = 1..Cardinality(Accepted \cup B)
      /\ \A t \in B : batch[t].replaces \in {0} \cup Replaceable /\ batch[t].deps \subseteq Accepted \cup B
  BY BatchIsNew
<1>3. \A t \in B : task'[t].status = "pending" /\ task'[t].deps = batch[t].deps
  BY <1>1, <1>2 DEF Amends
<1>4. ASSUME NEW t \in Tasks, t \notin B
      PROVE  /\ \/ task'[t].status = task[t].status /\ task'[t].why = task[t].why
                \/ task[t].status = "blocked" /\ task'[t].status = "cancelled"
             /\ task'[t].replaces = task[t].replaces
             /\ task[t].deps \subseteq task'[t].deps
             /\ \A d \in task'[t].deps : d \in task[t].deps \/ <<t, d>> \in Gained(batch)
  BY <1>1, <1>4 DEF Amends
<1>5. Accepted' = Accepted \cup B /\ Accepted \subseteq Tasks /\ Tasks' = Tasks
  BY <1>2, <1>3, <1>4 DEF Accepted, Tasks
<1>6. inv' = inv /\ applying' = applying
  BY DEF Propose
<1>7. \A t \in Tasks : Completed(t) => t \in Accepted
  BY DEF Completed, Accepted
<1>8. \A t \in Accepted : t \notin B /\ t \in Tasks
  BY <1>2, <1>5
<1>9. \A t \in Tasks : Completed(t) => Completed(t)'
  BY <1>4, <1>7, <1>8 DEF Completed
<1>10. ASSUME NEW t \in Accepted, t \in Current'
       PROVE  t \in Current
  <2>1. \A u \in Accepted : task'[u].replaces = task[u].replaces /\ u \in Accepted'
    BY <1>4, <1>5, <1>8
  <2>2. QED
    BY <1>10, <2>1 DEF Current
<1>11. ASSUME NEW t \in Current, Ripe(t)
       PROVE  task'[t].deps = task[t].deps
  <2>1. t \in Accepted /\ t \in Tasks /\ t \notin B
    BY <1>8 DEF Current
  <2>2. \A d : <<t, d>> \notin Gained(batch)
    <3>1. SUFFICES ASSUME NEW d, <<t, d>> \in Gained(batch)
                   PROVE  FALSE
      OBVIOUS
    <3>2. d \in B /\ batch[d].replaces \in task[t].deps
      BY <3>1 DEF Gained
    <3>3. batch[d].replaces \in Accepted
      BY <2>1, <3>2 DEF OrderInv, EdgesAreAccepted
    <3>4. 0 \notin Accepted
      BY <1>5 DEF Tasks
    <3>5. batch[d].replaces \in Replaceable
      BY <1>2, <3>2, <3>3, <3>4
    <3>6. batch[d].replaces \in Effective(t)
      BY <3>2, <3>5 DEF Replaceable, Effective
    <3>7. QED
      BY <1>11, <3>5, <3>6 DEF Replaceable, Ripe, Completed
  <2>3. QED
    BY <1>4, <2>1, <2>2
<1>12. ASSUME NEW t \in Current', t \in Accepted, BegunAs(task[t])
       PROVE  t \in Current /\ Ripe(t) /\ Effective(t)' \subseteq Effective(t)
  <2>1. t \in Current
    BY <1>10, <1>12
  <2>2. Ripe(t)
    BY <1>12, <2>1 DEF OrderInv, BegunMeansRipe
  <2>3. task'[t].deps = task[t].deps /\ task[t].deps \subseteq Accepted
    BY <1>11, <1>12, <2>1, <2>2 DEF OrderInv, EdgesAreAccepted
  <2>4. \A d \in task'[t].deps : d \in Current' => d \in Current
    BY <1>10, <2>3
  <2>5. QED
    BY <2>1, <2>2, <2>3, <2>4 DEF Effective
<1>13. TasksAreNumbered'
  BY <1>2, <1>5 DEF TasksAreNumbered
<1>14. EdgesAreAccepted'
  <2>1. ASSUME NEW t \in Accepted
        PROVE  task'[t].deps \subseteq Accepted \cup B
    <3>1. \A d \in task'[t].deps : d \in task[t].deps \/ d \in B
      BY <1>4, <1>8 DEF Gained
    <3>2. QED
      BY <3>1 DEF OrderInv, EdgesAreAccepted
  <2>2. \A t \in B : task'[t].deps \subseteq Accepted \cup B
    BY <1>2, <1>3
  <2>3. QED
    BY <1>5, <2>1, <2>2 DEF EdgesAreAccepted
<1>15. Acyclic(Edges)'
  <2> DEFINE added == {e \in B \X Tasks : e[2] \in batch[e[1]].deps}
             new == {e \in Accepted' \X Accepted' : e[2] \in task'[e[1]].deps}
  <2>1. Acyclic(added \cup Edges \cup Gained(batch))
    BY <1>1 DEF Valid, Edges
  <2>2. ASSUME NEW t \in Accepted \cup B, NEW d \in Accepted \cup B, d \in task'[t].deps
        PROVE  <<t, d>> \in added \cup Edges \cup Gained(batch)
    <3>1. t \in Tasks /\ d \in Tasks
      BY <1>2, <1>5
    <3>2. CASE t \in B
      BY <1>3, <2>2, <3>1, <3>2
    <3>3. CASE t \notin B
      <4>1. d \in task[t].deps \/ <<t, d>> \in Gained(batch)
        BY <1>4, <2>2, <3>1, <3>3
      <4>2. t \in Accepted /\ task[t].deps \subseteq Accepted
        BY <3>3 DEF OrderInv, EdgesAreAccepted
      <4>3. QED
        BY <4>1, <4>2 DEF Edges
    <3>4. QED
      BY <3>2, <3>3
  <2>3. new \subseteq added \cup Edges \cup Gained(batch)
    BY <1>5, <2>2
  <2> HIDE DEF added
  <2>4. Acyclic(new)
    BY <2>1, <2>3, FewerEdges
  <2>5. Edges' = new
    BY DEF Edges
  <2> HIDE DEF new
  <2>6. QED
    BY <1>5, <2>4, <2>5 DEF Acyclic
<1>16. ActiveMeansRunning'
  <2>1. ASSUME NEW t \in Tasks, Active(t)
        PROVE  task'[t].status = "running"
    <3>1. task[t].status = "running" /\ t \notin B
      BY <1>8, <2>1 DEF OrderInv, ActiveMeansRunning, Accepted
    <3>2. QED
      BY <1>4, <3>1
  <2>2. QED
    BY <1>5, <1>6, <2>1 DEF ActiveMeansRunning, Active
<1>17. BegunMeansRipe'
  <2>1. ASSUME NEW t \in Current', BegunAs(task'[t])
        PROVE  Ripe(t)'
    <3>1. t \in Accepted /\ t \notin B
      BY <1>3, <1>5, <2>1 DEF Current, BegunAs
    <3>2. BegunAs(task[t])
      BY <1>4, <1>8, <2>1, <3>1 DEF BegunAs
    <3>3. Ripe(t) /\ Effective(t)' \subseteq Effective(t)
      BY <1>12, <3>1, <3>2
    <3>4. \A d \in Effective(t) : Completed(d) /\ d \in Tasks
      BY <3>3, Constants DEF Ripe, Effective
    <3>5. QED
      BY <1>9, <3>3, <3>4 DEF Ripe
  <2>2. QED
    BY <2>1 DEF BegunMeansRipe
<1>18. IntegratedMeansCompleted' /\ ApplyingIsOutstanding'
  BY <1>5, <1>6, <1>9 DEF OrderInv, IntegratedMeansCompleted, ApplyingIsOutstanding, Outstanding
<1>19. AppliedInOrder'
  <2>1. ASSUME NEW t \in Current', inv[t].changes = "integrated" \/ applying = t
        PROVE  InTheSnapshot(t)'
    <3>1. t \in Tasks
      BY <1>2, <1>5 DEF Current
    <3>2. Completed(t) /\ t \in Accepted
      BY <1>7, <2>1, <3>1 DEF OrderInv, IntegratedMeansCompleted, ApplyingIsOutstanding
    <3>3. t \in Current /\ Effective(t)' \subseteq Effective(t)
      BY <1>12, <3>2 DEF BegunAs, Completed
    <3>4. InTheSnapshot(t)
      BY <2>1, <3>3 DEF OrderInv, AppliedInOrder
    <3>5. QED
      BY <1>6, <3>3, <3>4 DEF InTheSnapshot, Outstanding
  <2>2. QED
    BY <1>6, <2>1 DEF AppliedInOrder
<1>20. QED
  BY <1>13, <1>14, <1>15, <1>16, <1>17, <1>18, <1>19 DEF OrderInv

-----------------------------------------------------------------------------
LEMMA InitOrdered == Init => OrderInv
<1> SUFFICES ASSUME Init
             PROVE  OrderInv
  OBVIOUS
<1>1. /\ Accepted = {} /\ Current = {} /\ Edges = {}
      /\ \A t \in Tasks : inv[t].status = "absent" /\ inv[t].changes = "none"
  BY Constants DEF Init, Accepted, Current, Edges, NoTask, NoInvocation
<1>2. TasksAreNumbered
  BY <1>1, FS_EmptySet DEF TasksAreNumbered
<1>3. Acyclic(Edges)
  BY <1>1 DEF Acyclic
<1>4. \A t \in Tasks : applying # t
  BY Constants DEF Init
<1>5. QED
  BY <1>1, <1>2, <1>3, <1>4
     DEF OrderInv, EdgesAreAccepted, ActiveMeansRunning, BegunMeansRipe, IntegratedMeansCompleted,
         ApplyingIsOutstanding, AppliedInOrder, Active

LEMMA NextOrdered ==
  ASSUME DoneInv, OrderInv, [Next]_vars
  PROVE  OrderInv'
<1>1. CASE Propose
  BY <1>1, ProposeOrdered
<1>2. CASE UNCHANGED vars
  BY <1>2, SameMoves, LedgerAdvances, AdvanceStep DEF vars
<1>3. CASE \E p \in Positions : EndIntegration(p) \/ AttemptEnds(p) \/ Retry(p)
  BY <1>3, EndIntegrationAdvances, AttemptAdvances, AdvanceStep
<1>4. CASE \E p \in Positions : Resolve(p) \/ Supersede(p) \/ RootCancels(p)
  BY <1>4, OperatorAdvances, AdvanceStep
<1>5. CASE Scheduled \/ Cancel
  BY <1>5, ScheduledAdvances, CancelAdvances, AdvanceStep
<1>6. QED
  BY <1>1, <1>2, <1>3, <1>4, <1>5 DEF Next

\* Whatever a Coordinator proposes, replaces or cancels, and in whatever order Workers end and
\* Changesets arrive: a Worker is active only on completed dependencies, and a Changeset is in the
\* snapshot only after those of what its Task effectively depends on.
THEOREM DependenciesFirstHolds == Spec => []DependenciesFirst
<1>1. OrderInv /\ DoneInv => DependenciesFirst
  <2> SUFFICES ASSUME OrderInv, NEW t \in Current, NEW d \in Effective(t)
               PROVE  /\ Active(t) => Completed(d)
                      /\ inv[t].changes = "integrated" => ~Outstanding(d)
    BY DEF DependenciesFirst
  <2>1. Active(t) => Completed(d)
    BY Constants DEF OrderInv, ActiveMeansRunning, BegunMeansRipe, BegunAs, Ripe
  <2>2. inv[t].changes = "integrated" => ~Outstanding(d)
    BY DEF OrderInv, AppliedInOrder, InTheSnapshot
  <2>3. QED
    BY <2>1, <2>2
<1>2. Init => DoneInv /\ OrderInv
  BY InitDone, InitOrdered
<1>3. DoneInv /\ OrderInv /\ [Next]_vars => (DoneInv /\ OrderInv)'
  BY NextDone, NextOrdered
<1>4. QED
  BY <1>1, <1>2, <1>3, PTL DEF Spec

-----------------------------------------------------------------------------
(***************************************************************************)
(* What is advised is permitted.  A Task that runs has a Worker at work,   *)
(* or one whose end the projection still has to tell; a Task that waits    *)
(* for an answer waits for a Decision; and an end says how it ended.       *)
(***************************************************************************)
RunningHasWorker ==
  \A t \in Tasks : task[t].status = "running" =>
    Active(t) \/ (inv[t].status = "succeeded" /\ inv[t].result # "completed")
BlockedIsExplained ==
  \A t \in Tasks : task[t].status = "blocked" =>
    task[t].why # "none" /\ (task[t].why = "decision" => BlockedOn(t) # "none")
EndIsTold(row) ==
  /\ row.status = "blocked" => row.decision # "none"
  /\ row.status = "succeeded" => row.result # "none"
EndsAreTold == \A p \in Positions : EndIsTold(inv[p])

ReportInv ==
  /\ RunningHasWorker
  /\ BlockedIsExplained
  /\ EndsAreTold
  /\ born \in [Positions -> Nat]

\* Without anything to project, continue, start or decide on, every current Task is over: one that
\* is not depends on another one that is not, and the order has no cycle.
LEMMA EveryTaskIsOver ==
  ASSUME DoneInv, OrderInv, ReportInv, ~SupersededAnswer, Projects = {}, Runnable = {},
         ActiveWorkers = {}, Frontier = {}, OpenBlocked = {},
         ~\E t \in Current : WorkerContinues(t)
  PROVE  \A t \in Current : task[t].status \in {"completed", "cancelled"}
<1>1. \A t \in Current : /\ t \in Tasks /\ t \in Accepted /\ task[t] \in Entries /\ inv[t] \in Rows
                         /\ ~Active(t)
  BY Constants DEF DoneInv, WorkersTypeOK, Current, ActiveWorkers
<1>2. \A t \in Current : /\ task[t].status # "failed" /\ ~BlockedBy(t, "input")
                         /\ ~(BlockedBy(t, "dependency") /\ Doomed(t))
  BY DEF Frontier
<1>3. \A t \in Current : task[t].status # "ready"
  BY DEF Runnable
<1>4. \A t \in Current : task[t].status # "running"
  BY <1>1 DEF ReportInv, RunningHasWorker, Projects, Stale
<1>5. \A t \in Current : ~BlockedBy(t, "decision")
  <2>1. SUFFICES ASSUME NEW t \in Current, BlockedBy(t, "decision") PROVE FALSE
    OBVIOUS
  <2>2. BlockedOn(t) # "none"
    BY <1>1, <2>1 DEF ReportInv, BlockedIsExplained, BlockedBy
  <2>3. BlockedOn(t) \in {"none", "open", "resolved", "superseded"}
    BY <1>1 DEF BlockedOn, Rows
  <2>4. QED
    BY <2>1, <2>2, <2>3 DEF SupersededAnswer, OpenBlocked, WorkerContinues
<1> DEFINE open == {t \in Current : task[t].status \in {"pending", "blocked"}}
<1>6. ASSUME NEW t \in open
      PROVE  \E d \in open : d \in task[t].deps
  <2>1. task[t].status = "pending" \/ BlockedBy(t, "dependency")
    BY <1>1, <1>2, <1>5 DEF BlockedBy, Entries, ReportInv, BlockedIsExplained
  <2>2. ~Doomed(t)
    BY <1>2, <2>1 DEF Projects, BecomesBlocked
  <2>3. PICK d \in Effective(t) : ~Completed(d)
    BY <2>1 DEF Projects, BecomesReady
  <2>4. d \in Current /\ d \in task[t].deps /\ task[d].status \notin {"failed", "cancelled", "completed"}
    BY <2>2, <2>3 DEF Effective, Doomed, Completed
  <2>5. task[d].status # "absent"
    BY <2>4 DEF Current, Accepted
  <2>6. task[d].status \in {"pending", "blocked"}
    BY <1>1, <1>3, <1>4, <2>4, <2>5 DEF Entries, TaskStatuses
  <2>7. QED
    BY <2>4, <2>6
<1>7. open = {}
  <2>1. SUFFICES ASSUME open # {} PROVE FALSE
    OBVIOUS
  <2>2. open \in (SUBSET Tasks) \ {{}}
    BY <1>1, <2>1
  <2>3. PICK t \in open : ~\E u \in open : <<t, u>> \in Edges
    BY <2>2 DEF OrderInv, Acyclic
  <2>4. PICK d \in open : d \in task[t].deps
    BY <1>6
  <2>5. <<t, d>> \in Edges
    BY <1>1, <2>4 DEF Edges
  <2>6. QED
    BY <2>3, <2>4, <2>5
<1>8. QED
  BY <1>1, <1>2, <1>3, <1>4, <1>7 DEF Entries, TaskStatuses, Current, Accepted

\* Then the Changesets have arrived, the Handoffs are recorded, and the synthesis can begin.
LEMMA SynthesisIsNext ==
  ASSUME DoneInv, OrderInv, ReportInv, ~SupersededAnswer, ~UnrecordedEnd, Projects = {}, Runnable = {},
         ActiveWorkers = {}, Frontier = {}, OpenBlocked = {},
         ~\E t \in Current : WorkerContinues(t),
         Integrable = {}, Unrecorded = {}, turn.purpose # "synthesize"
  PROVE  SynthesisReady
<1>1. \A t \in Current : Completed(t) \/ task[t].status = "cancelled"
  BY EveryTaskIsOver DEF Completed
<1>2. \A t \in Current : ~ConflictOpen(t)
  BY DEF Frontier
<1>3. Undetermined = {}
  <2>1. SUFFICES ASSUME Undetermined # {} PROVE FALSE
    OBVIOUS
  <2>2. Undetermined \in SUBSET Current
    BY DEF Undetermined
  <2>3. FirstOf(Undetermined) \in Undetermined
    BY <2>1, <2>2, FirstOfIs DEF OrderInv
  <2>4. \A t \in Undetermined : Completed(t)
    BY <1>1 DEF Undetermined, Determined
  <2>5. QED
    BY <1>2, <2>1, <2>2, <2>3, <2>4 DEF Integrable
<1>4. \A t \in Current : Completed(t) => ~Outstanding(t)
  BY <1>3 DEF Undetermined, Determined, Completed
<1>5. \A t \in Current : Completed(t) => task[t].handoff
  BY <1>4 DEF Unrecorded, UnrecordedEnd
<1>6. QED
  BY <1>1, <1>4, <1>5 DEF SynthesisReady

LEMMA PermitsIs ==
  /\ \A w \in {"start", "replan", "synthesize"} : \A p : Permits(Do(w, p))
  /\ \A p : Permits(Do("continue", p)) <=> p = Coordinator \/ RoomForWorker
  /\ \A p : Permits(Do("start_worker", p)) <=> RoomForWorker /\ task[p].reserved = TRUE
  /\ \A p : Permits(Do("execute", p)) <=> inv[p].status = "queued"
  /\ \A p : Permits(Do("settle", p)) <=> ToIntegrate # {} \/ TurnPending \/ ApplyPermitted
  /\ \A p : Permits(Do("resume", p)) <=> ResumePermitted(p)
  BY DEF Permits, Do

LEMMA RunningPermitted ==
  ASSUME DoneInv, OrderInv, ReportInv, ~Stuck,
         RunningAdvice.what \notin {"in_flight", "wait", "terminal"}
  PROVE  Permits(RunningAdvice)
<1>1. /\ inv[Coordinator] \in Rows /\ Acyclic(Edges)
      /\ ~SupersededAnswer /\ ~EndedDependency /\ ~UnrecordedEnd /\ ~UnfundedTask /\ ~NoRoom
  BY Constants DEF DoneInv, WorkersTypeOK, OrderInv, Stuck
<1> DEFINE Rest == ~Active(Coordinator) /\ inv[Coordinator].status # "absent" /\ ~TurnPending
           Known == Rest /\ Projects = {}
           Asked == Known /\ ~\E t \in Current : WorkerContinues(t)
           Applied == Asked /\ Integrable = {}
           Recorded == Applied /\ Unrecorded = {}
           Begun == Recorded /\ ~(Cardinality(ActiveWorkers) < MaxWorkers /\ Runnable # {})
           Silent == Begun /\ Queued = {} /\ ActiveWorkers = {}
           Told == Silent /\ ~(Frontier # {} /\ TurnsLeft) /\ ~(SynthesisReady /\ TurnsLeft)
<1>2. ASSUME Rest
      PROVE  Terminal(Coordinator) /\ ToIntegrate = Integrable /\ turn.purpose # "synthesize"
  <2>1. Terminal(Coordinator)
    BY <1>1, <1>2 DEF Rows, Active, Terminal
  <2>2. ~Outstanding(Coordinator) /\ turn.purpose # "synthesize"
    BY <1>2, <2>1 DEF TurnPending
  <2>3. QED
    BY <1>2, <2>1, <2>2 DEF ToIntegrate
<1>3. CASE Active(Coordinator)
  BY <1>3, PermitsIs DEF RunningAdvice, Do
<1>4. CASE ~Active(Coordinator) /\ (inv[Coordinator].status = "absent" \/ TurnPending)
  BY <1>4, PermitsIs DEF RunningAdvice
<1>5. CASE Rest /\ ~(Projects = {})
  <2>1. ApplyPermitted
    BY <1>1, <1>5 DEF ApplyPermitted, EndedDependency
  <2>2. RunningAdvice = Do("settle", Nowhere)
    BY <1>5 DEF RunningAdvice, Projects
  <2>3. QED
    BY <2>1, <2>2, PermitsIs
<1>6. CASE Known /\ \E t \in Current : WorkerContinues(t)
  <2>1. RunningAdvice = Do("continue", FirstOf({t \in Current : WorkerContinues(t)}))
    BY <1>6 DEF RunningAdvice, Projects
  <2>2. QED
    BY <1>1, <1>6, <2>1, PermitsIs DEF NoRoom
<1>7. CASE Asked /\ ~(Integrable = {})
  <2>1. RunningAdvice = Do("settle", FirstOf(Integrable))
    BY <1>7 DEF RunningAdvice, Projects
  <2>2. QED
    BY <1>2, <1>7, <2>1, PermitsIs
<1>8. CASE Applied /\ ~(Unrecorded = {})
  <2>1. RunningAdvice = Do("settle", Nowhere)
    BY <1>8 DEF RunningAdvice, Projects
  <2>2. ApplyPermitted
    BY <1>8 DEF ApplyPermitted
  <2>3. QED
    BY <2>1, <2>2, PermitsIs
<1>9. CASE Recorded /\ Cardinality(ActiveWorkers) < MaxWorkers /\ Runnable # {}
  <2>1. RunningAdvice = Do("start_worker", FirstOf(Runnable))
    BY <1>9 DEF RunningAdvice, Projects
  <2>2. Runnable \in SUBSET Current
    BY DEF Runnable, BecomesReady
  <2>3. FirstOf(Runnable) \in Runnable
    BY <1>1, <1>9, <2>2, FirstOfIs
  <2>4. BecomesReady = {}
    BY <1>9 DEF Projects
  <2>5. FirstOf(Runnable) \in Current /\ task[FirstOf(Runnable)].status = "ready"
    BY <2>3, <2>4 DEF Runnable
  <2>6. task[FirstOf(Runnable)].reserved = TRUE
    BY <1>1, <2>5, Constants DEF UnfundedTask, DoneInv, WorkersTypeOK, Entries
  <2>7. QED
    BY <1>9, <2>1, <2>6, PermitsIs DEF RoomForWorker
<1>10. CASE Begun /\ ~(Queued = {})
  <2>1. RunningAdvice = Do("execute", FirstOf(Queued))
    BY <1>10 DEF RunningAdvice, Projects
  <2>2. Queued \in SUBSET Current
    BY DEF Queued, ActiveWorkers
  <2>3. FirstOf(Queued) \in Queued
    BY <1>1, <1>10, <2>2, FirstOfIs
  <2>4. QED
    BY <2>1, <2>3, PermitsIs DEF Queued
<1>11. CASE Begun /\ Queued = {} /\ ~(ActiveWorkers = {})
  BY <1>11 DEF RunningAdvice, Projects, Do
<1>12. CASE Silent /\ ((Frontier # {} /\ TurnsLeft) \/ (SynthesisReady /\ TurnsLeft))
  BY <1>12, PermitsIs DEF RunningAdvice, Projects
<1>13. CASE Told
  <2>1. Runnable = {}
    BY <1>13, FS_EmptySet, WorkersAssumption
  <2>2. Frontier # {} \/ SynthesisReady \/ OpenBlocked # {}
    BY <1>1, <1>2, <1>13, <2>1, SynthesisIsNext
  <2>3. RunningAdvice = Do("settle", Nowhere)
    BY <1>13, <2>2 DEF RunningAdvice, Projects
  <2>4. ApplyPermitted
    BY <1>13, <2>1, <2>2 DEF ApplyPermitted
  <2>5. QED
    BY <2>3, <2>4, PermitsIs
<1>14. QED
  BY <1>3, <1>4, <1>5, <1>6, <1>7, <1>8, <1>9, <1>10, <1>11, <1>12, <1>13

\* The requester the scheduler names is the first created of those it lists.
LEMMA ResumeTargetIs ==
  ASSUME ReportInv, Listed # {}
  PROVE  ResumeTarget \in Listed
<1>1. \A p \in Listed : born[p] \in Nat
  BY DEF ReportInv, Listed
<1> DEFINE ranks == {born[p] : p \in Listed}
<1>2. ranks \subseteq Nat /\ ranks # {}
  BY <1>1
<1>3. PICK n \in ranks : \A m \in ranks : n <= m
  BY <1>2, LeastExists
<1>4. \E p \in Listed : \A q \in Listed : born[p] <= born[q]
  BY <1>3
<1>5. QED
  BY <1>4 DEF ResumeTarget

LEMMA ResumeIsPermitted ==
  ASSUME DoneInv, ReportInv, ~SupersededAnswer, ~DeadRequester, node.reason = "decision"
  PROVE  ResumePermitted(ResumeTarget)
<1>1. CASE Listed = {}
  BY <1>1 DEF ResumeTarget, ResumePermitted
<1>2. CASE Listed # {}
  <2>1. PICK p \in Listed : p = ResumeTarget
    BY <1>2, ResumeTargetIs
  <2>2. /\ p \in Positions /\ inv[p].status = "blocked" /\ inv[p].decision # "open"
        /\ inv[p] \in Rows
    BY DEF Listed, DoneInv, WorkersTypeOK
  <2>3. BlockedOn(p) \in {"resolved", "superseded"}
    BY <2>2 DEF ReportInv, EndsAreTold, EndIsTold, BlockedOn, Rows
  <2>4. CASE p = Coordinator
    <3>1. BlockedOn(Coordinator) = "resolved"
      BY <2>3, <2>4 DEF SupersededAnswer
    <3>2. TurnPending
      BY <2>2, <2>4 DEF TurnPending, Terminal, TurnCompleted
    <3>3. QED
      BY <2>1, <2>4, <3>1, <3>2 DEF ResumePermitted, TurnContinues
  <2>5. CASE p # Coordinator
    <3>1. p \in Current /\ BlockedBy(p, "decision")
      BY <2>1, <2>5 DEF DeadRequester
    <3>2. BlockedOn(p) = "resolved"
      BY <2>3, <3>1 DEF SupersededAnswer
    <3>3. QED
      BY <2>1, <2>5, <3>1, <3>2 DEF ResumePermitted, WorkerContinues
  <2>6. QED
    BY <2>4, <2>5
<1>3. QED
  BY <1>1, <1>2

LEMMA AdviceIsPermitted ==
  ASSUME DoneInv, OrderInv, ReportInv
  PROVE  AdvicePermitted
<1> SUFFICES ASSUME Advises, ~Stuck
             PROVE  Permits(Advice)
  BY DEF AdvicePermitted
<1>1. applying = Nowhere
  BY DEF Advises, Advice, Do
<1>2. CASE node.status = "ready"
  BY <1>1, <1>2, PermitsIs DEF Advice
<1>3. CASE node.status = "running"
  BY <1>1, <1>3, RunningPermitted DEF Advice, Advises
<1>4. CASE node.status = "waiting"
  <2>1. Advice = Do("resume", IF node.reason = "decision" THEN ResumeTarget ELSE Nowhere)
    BY <1>1, <1>4 DEF Advice, Advises, Do
  <2>2. ResumePermitted(IF node.reason = "decision" THEN ResumeTarget ELSE Nowhere)
    BY ResumeIsPermitted DEF Stuck, ResumePermitted
  <2>3. QED
    BY <2>1, <2>2, PermitsIs
<1>5. node.status \in {"ready", "running", "waiting"}
  BY <1>1 DEF Advises, Advice, Do, DoneInv, WorkersTypeOK, Nodes
<1>6. QED
  BY <1>2, <1>3, <1>4, <1>5

-----------------------------------------------------------------------------
(***************************************************************************)
(* The steps.  A ledger that starts nothing and explains what it blocks,   *)
(* and rows that end with an explanation, keep the invariant.              *)
(***************************************************************************)
Explains(entry, t) ==
  /\ entry.status = "running" => task[t].status = "running"
  /\ entry.status = "blocked" =>
       /\ entry.why # "none"
       /\ entry.why = "decision" => BlockedBy(t, "decision") \/ BlockedOn(t) # "none"

LEMMA SameExplains ==
  ASSUME ReportInv
  PROVE  \A t \in Tasks : Explains(task[t], t)
  BY DEF ReportInv, BlockedIsExplained, Explains, BlockedBy

LEMMA LedgerReports ==
  ASSUME ReportInv, \A t \in Tasks : Explains(task'[t], t), inv' = inv, born' = born
  PROVE  ReportInv'
<1>1. \A t \in Tasks : /\ Active(t)' = Active(t) /\ BlockedOn(t)' = BlockedOn(t)
                       /\ BlockedBy(t, "decision") => BlockedOn(t) # "none"
  BY DEF Active, BlockedOn, ReportInv, BlockedIsExplained, BlockedBy
<1>2. RunningHasWorker'
  BY <1>1 DEF RunningHasWorker, Explains, ReportInv, Tasks
<1>3. BlockedIsExplained'
  BY <1>1 DEF BlockedIsExplained, Explains, Tasks
<1>4. EndsAreTold' /\ born' \in [Positions -> Nat]
  BY DEF EndsAreTold, ReportInv, Positions, EndIsTold
<1>5. QED
  BY <1>2, <1>3, <1>4 DEF ReportInv, Positions

\* One row is written, and the entry of its Task.
LEMMA RowReports ==
  ASSUME DoneInv, ReportInv, NEW p \in Positions, NEW row, inv' = [inv EXCEPT ![p] = row],
         born' \in [Positions -> Nat], EndIsTold(row),
         \A t \in Tasks \ {p} : task'[t] = task[t],
         p \in Tasks =>
           /\ task'[p].status = "running" =>
                row.status \in {"queued", "running"} \/ (row.status = "succeeded" /\ row.result # "completed")
           /\ task'[p].status = "blocked" =>
                /\ task'[p].why # "none"
                /\ task'[p].why = "decision" =>
                     /\ row.status = "blocked" \/ (row.status = "succeeded" /\ row.result = "blocked")
                     /\ row.decision # "none"
  PROVE  ReportInv'
<1>1. \A q \in Positions : inv'[q] = IF q = p THEN row ELSE inv[q]
  BY DEF DoneInv, WorkersTypeOK
<1>2. \A t \in Tasks \ {p} : /\ Active(t)' = Active(t) /\ BlockedOn(t)' = BlockedOn(t)
                             /\ inv'[t] = inv[t]
  BY <1>1, Constants DEF Active, BlockedOn
<1>3. RunningHasWorker'
  BY <1>1, <1>2, Constants DEF RunningHasWorker, ReportInv, Active, Tasks
<1>4. BlockedIsExplained'
  <2>1. p \in Tasks /\ task'[p].status = "blocked" /\ task'[p].why = "decision" => BlockedOn(p)' # "none"
    BY <1>1 DEF BlockedOn
  <2>2. QED
    BY <1>2, <2>1 DEF BlockedIsExplained, ReportInv, Tasks
<1>5. EndsAreTold'
  BY <1>1 DEF EndsAreTold, ReportInv, Positions, EndIsTold
<1>6. QED
  BY <1>3, <1>4, <1>5 DEF ReportInv, Positions

\* What is active is neither blocked nor waits for anybody.
LEMMA ActiveIsRunning ==
  ASSUME OrderInv, NEW t \in Tasks, Active(t)
  PROVE  task[t].status = "running"
  BY DEF OrderInv, ActiveMeansRunning

LEMMA AbandonedExplains ==
  ASSUME WorkersTypeOK, NEW ledger \in [Tasks -> Entries], \A t \in Tasks : Explains(ledger[t], t)
  PROVE  \A t \in Tasks : Explains(Abandoned(ledger)[t], t)
<1> SUFFICES ASSUME NEW t \in Tasks
             PROVE  Explains(Abandoned(ledger)[t], t)
  OBVIOUS
<1>1. Abandoned(ledger)[t] = IF ledger[t].status = "running" /\ Terminal(t)
                             THEN [ledger[t] EXCEPT !.status = "failed"] ELSE ledger[t]
  BY DEF Abandoned
<1>2. [ledger[t] EXCEPT !.status = "failed"].status = "failed"
  BY DEF Entries
<1>3. CASE Abandoned(ledger)[t].status = "failed"
  BY <1>3 DEF Explains
<1>4. CASE Abandoned(ledger)[t] = ledger[t]
  BY <1>4
<1>5. QED
  BY <1>1, <1>2, <1>3, <1>4

LEMMA CancelExplains ==
  ASSUME NEW entry \in Entries, NEW t
  PROVE  Explains(CancelTask(entry), t)
<1>1. CancelTask(entry).status = "cancelled"
  BY DEF CancelTask, Entries
<1>2. QED
  BY <1>1 DEF Explains

LEMMA RefuseReports ==
  ASSUME DoneInv, ReportInv, NEW ledger \in [Tasks -> Entries],
         \A t \in Tasks : Explains(ledger[t], t), Refuse(ledger)
  PROVE  ReportInv'
<1>1. \A t \in Tasks : Explains(task'[t], t)
  BY AbandonedExplains DEF Refuse, DoneInv
<1>2. QED
  BY <1>1, LedgerReports DEF Refuse

\* A new Invocation: a Task it is for is running.
LEMMA CreateReports ==
  ASSUME DoneInv, ReportInv, NEW p \in Positions, Create(p),
         \A t \in Tasks \ {p} : task'[t] = task[t],
         p \in Tasks => task'[p].status = "running"
  PROVE  ReportInv'
<1>1. Prepared.status = "queued"
  BY DEF Prepared, NoInvocation
<1>2. born' \in [Positions -> Nat]
  <2>1. \A q \in Positions : born[q] \in Nat /\ (born[q] > born[p] => born[q] - 1 \in Nat)
    BY DEF ReportInv
  <2>2. MaxTasks + 1 \in Nat
    BY Constants
  <2>3. QED
    BY <2>1, <2>2 DEF Create
<1>3. inv' = [inv EXCEPT ![p] = Prepared]
  BY DEF Create
<1> HIDE DEF Prepared
<1>4. EndIsTold(Prepared)
  BY <1>1 DEF EndIsTold
<1>5. QED
  BY <1>1, <1>2, <1>3, <1>4, RowReports

LEMMA TurnReports ==
  ASSUME DoneInv, ReportInv, ContinueTurn \/ \E purpose : PrepareTurn(purpose)
  PROVE  ReportInv'
<1>1. CASE Refuse(task)
  BY <1>1, RefuseReports, SameExplains DEF DoneInv, WorkersTypeOK
<1>2. CASE ~Refuse(task)
  <2>1. Create(Coordinator) /\ task' = task
    BY <1>2 DEF ContinueTurn, PrepareTurn
  <2>2. QED
    BY <2>1, CreateReports, Constants
<1>3. QED
  BY <1>1, <1>2

LEMMA ContinueWorkerReports ==
  ASSUME DoneInv, ReportInv, NEW t \in Current, ContinueWorker(t)
  PROVE  ReportInv'
<1>1. t \in Tasks /\ t \in Positions /\ task[t] \in Entries
  BY Constants DEF DoneInv, WorkersTypeOK
<1> DEFINE entry(status) == [task[t] EXCEPT !.status = status, !.why = "none"]
<1>2. ASSUME NEW status \in {"ready", "running"}
      PROVE  /\ entry(status) \in Entries /\ entry(status).status = status
             /\ [task EXCEPT ![t].status = status, ![t].why = "none"] = [task EXCEPT ![t] = entry(status)]
  BY <1>1 DEF Entries, TaskStatuses, DoneInv, WorkersTypeOK
<1> HIDE DEF entry
<1>3. CASE Refuse([task EXCEPT ![t].status = "ready", ![t].why = "none"])
  <2> DEFINE ledger == [task EXCEPT ![t] = entry("ready")]
  <2>1. Refuse(ledger)
    BY <1>2, <1>3
  <2>2. /\ ledger \in [Tasks -> Entries]
        /\ \A u \in Tasks : ledger[u] = IF u = t THEN entry("ready") ELSE task[u]
    BY <1>1, <1>2 DEF DoneInv, WorkersTypeOK
  <2> HIDE DEF ledger
  <2>3. Explains(entry("ready"), t)
    BY <1>2 DEF Explains
  <2>4. \A u \in Tasks : Explains(ledger[u], u)
    BY <2>2, <2>3, SameExplains
  <2>5. QED
    BY <2>1, <2>2, <2>4, RefuseReports
<1>4. CASE ~Refuse([task EXCEPT ![t].status = "ready", ![t].why = "none"])
  <2>1. Create(t) /\ task' = [task EXCEPT ![t] = entry("running")]
    BY <1>2, <1>4 DEF ContinueWorker
  <2>2. \A u \in Tasks : task'[u] = IF u = t THEN entry("running") ELSE task[u]
    BY <2>1 DEF DoneInv, WorkersTypeOK
  <2>3. task'[t].status = "running" /\ \A u \in Tasks \ {t} : task'[u] = task[u]
    BY <1>1, <1>2, <2>2
  <2>4. QED
    BY <1>1, <2>1, <2>3, CreateReports
<1>5. QED
  BY <1>3, <1>4

LEMMA StartWorkerReports ==
  ASSUME DoneInv, ReportInv, NEW t \in Current, StartWorker(t)
  PROVE  ReportInv'
<1>1. t \in Tasks /\ t \in Positions /\ task[t] \in Entries
  BY Constants DEF DoneInv, WorkersTypeOK
<1> DEFINE entry == [task[t] EXCEPT !.status = "running", !.reserved = FALSE]
<1>2. entry.status = "running" /\ task' = [task EXCEPT ![t] = entry] /\ Create(t)
  BY <1>1 DEF StartWorker, DoneInv, WorkersTypeOK, Entries
<1> HIDE DEF entry
<1>3. task'[t].status = "running" /\ \A u \in Tasks \ {t} : task'[u] = task[u]
  BY <1>1, <1>2 DEF DoneInv, WorkersTypeOK
<1>4. QED
  BY <1>1, <1>2, <1>3, CreateReports

LEMMA ExecuteReports ==
  ASSUME DoneInv, OrderInv, ReportInv, NEW p, Execute(p)
  PROVE  ReportInv'
<1>1. task' = task /\ born' = born /\ inv[p].status = "queued"
  BY DEF Execute
<1>2. CASE inv' = inv
  BY <1>1, <1>2, SameExplains, LedgerReports
<1>3. CASE p \in Positions /\ inv' = [inv EXCEPT ![p].status = "running"]
  <2> DEFINE row == [inv[p] EXCEPT !.status = "running"]
  <2>1. row.status = "running" /\ inv' = [inv EXCEPT ![p] = row]
    BY <1>3 DEF DoneInv, WorkersTypeOK, Rows
  <2> HIDE DEF row
  <2>2. EndIsTold(row)
    BY <2>1 DEF EndIsTold
  <2>3. p \in Tasks => task[p].status = "running"
    BY <1>1, ActiveIsRunning DEF Active
  <2>4. born' \in [Positions -> Nat]
    BY <1>1 DEF ReportInv
  <2>5. QED
    BY <1>1, <1>3, <2>1, <2>2, <2>3, <2>4, RowReports
<1>4. CASE p \notin Positions /\ inv' = [inv EXCEPT ![p].status = "running"]
  <2>1. inv' = inv
    BY <1>4 DEF DoneInv, WorkersTypeOK
  <2>2. QED
    BY <1>2, <2>1
<1>5. QED
  BY <1>2, <1>3, <1>4 DEF Execute

LEMMA ResumeReports ==
  ASSUME DoneInv, OrderInv, ReportInv, NEW named, Resume(named)
  PROVE  ReportInv'
<1> DEFINE byDecision == node.reason = "decision"
           workers == {t \in Current : byDecision /\ WorkerContinues(t) /\ named \in {Nowhere, t}}
<1>1. \/ ContinueTurn
      \/ workers # {} /\ ContinueWorker(FirstOf(workers))
      \/ UNCHANGED <<turn, used, task, inv, born, applying, troubles>>
  BY DEF Resume
<1>2. CASE workers # {} /\ ContinueWorker(FirstOf(workers))
  <2>1. workers \in SUBSET Current /\ \A t \in workers : WorkerContinues(t)
    OBVIOUS
  <2> HIDE DEF workers
  <2>2. FirstOf(workers) \in Current
    BY <1>2, <2>1, ContinuingIsBlocked
  <2>3. QED
    BY <1>2, <2>2, ContinueWorkerReports
<1>3. CASE UNCHANGED <<turn, used, task, inv, born, applying, troubles>>
  BY <1>3, SameExplains, LedgerReports
<1>4. QED
  BY <1>1, <1>2, <1>3, TurnReports

LEMMA BeginIntegrationReports ==
  ASSUME DoneInv, ReportInv, BeginIntegration
  PROVE  ReportInv'
<1>1. inv' = inv /\ born' = born /\ (task' = task \/ task' = Abandoned(task))
  BY DEF BeginIntegration, FailNow
<1>2. \A t \in Tasks : Explains(Abandoned(task)[t], t)
  BY SameExplains, AbandonedExplains DEF DoneInv, WorkersTypeOK
<1>3. \A t \in Tasks : Explains(task'[t], t)
  BY <1>1, <1>2, SameExplains
<1>4. QED
  BY <1>1, <1>3, LedgerReports

LEMMA FailNodeExplains ==
  ASSUME DoneInv, ReportInv, NEW reason, FailNode(reason)
  PROVE  \A t \in Tasks : Explains(task'[t], t)
<1> DEFINE L == [t \in Tasks |-> IF t \in Current /\ task[t].status \in Unstarted
                                 THEN CancelTask(task[t]) ELSE task[t]]
<1>1. task' = Abandoned(L)
  BY DEF FailNode
<1>2. ASSUME NEW t \in Tasks
      PROVE  L[t] \in Entries /\ Explains(L[t], t)
  <2>1. task[t] \in Entries
    BY DEF DoneInv, WorkersTypeOK
  <2>2. QED
    BY <2>1, CancelledEntry, CancelExplains, SameExplains
<1>3. L \in [Tasks -> Entries]
  BY <1>2
<1> HIDE DEF L
<1>4. QED
  BY <1>1, <1>2, <1>3, AbandonedExplains DEF DoneInv

\* A Worker that ended without reporting its Task asked somebody, or its Task failed or waits.
LEMMA ProjectedExplains ==
  ASSUME DoneInv, ReportInv, NEW t \in Tasks
  PROVE  Explains(Projected(t), t)
<1>1. task[t] \in Entries /\ inv[t] \in Rows
  BY Constants DEF DoneInv, WorkersTypeOK
<1>2. t \in Stale => t \notin BecomesReady /\ t \notin BecomesBlocked
  BY DEF Stale, BecomesReady, BecomesBlocked, BlockedBy
<1>3. CASE t \in Stale /\ inv[t].result = "failed"
  <2>1. Projected(t) = [task[t] EXCEPT !.status = "failed"]
    BY <1>3, <1>2 DEF Projected
  <2>2. Projected(t).status = "failed"
    BY <1>1, <2>1 DEF Entries
  <2>3. QED
    BY <2>2 DEF Explains
<1>4. CASE t \in Stale /\ inv[t].result # "failed"
  <2> DEFINE why == IF inv[t].decision = "none" THEN "input" ELSE "decision"
  <2>1. Projected(t) = [task[t] EXCEPT !.status = "blocked", !.why = why]
    BY <1>4, <1>2 DEF Projected
  <2>2. Projected(t).status = "blocked" /\ Projected(t).why = why
    BY <1>1, <2>1 DEF Entries
  <2>3. inv[t].status = "succeeded" /\ inv[t].result = "blocked"
    BY <1>1, <1>4, Constants DEF Stale, Rows, ReportInv, EndsAreTold, EndIsTold
  <2>4. inv[t].decision # "none" => BlockedOn(t) # "none"
    BY <2>3 DEF BlockedOn
  <2>5. QED
    BY <2>2, <2>4 DEF Explains
<1>5. CASE t \notin Stale
  <2>1. t \in BecomesReady => [task[t] EXCEPT !.status = "ready", !.why = "none"].status = "ready"
    BY <1>1 DEF Entries
  <2>2. /\ [task[t] EXCEPT !.status = "blocked", !.why = "dependency"].status = "blocked"
        /\ [task[t] EXCEPT !.status = "blocked", !.why = "dependency"].why = "dependency"
    BY <1>1 DEF Entries
  <2>3. \/ Projected(t).status = "ready"
        \/ Projected(t).status = "blocked" /\ Projected(t).why = "dependency"
        \/ Projected(t) = task[t]
    BY <1>5, <2>1, <2>2 DEF Projected
  <2>4. QED
    BY <2>3, SameExplains DEF Explains
<1>6. QED
  BY <1>3, <1>4, <1>5

LEMMA SettleReports ==
  ASSUME DoneInv, ReportInv, Settle
  PROVE  ReportInv'
<1>1. inv' = inv /\ born' = born
  BY DEF Settle
<1>2. \/ UNCHANGED task
      \/ \E reason : FailNode(reason)
      \/ task' = [t \in Tasks |-> Projected(t)]
      \/ \E t : task' = [task EXCEPT ![t].handoff = TRUE]
  <2>1. CASE SettleTurn
    BY <2>1 DEF SettleTurn
  <2>2. CASE ApplyToTasks
    BY <2>2 DEF ApplyToTasks
  <2>3. QED
    BY <2>1, <2>2 DEF Settle
<1>3. \A t \in Tasks : Explains(task'[t], t)
  <2>1. CASE \E t : task' = [task EXCEPT ![t].handoff = TRUE]
    <3>1. \A u \in Tasks : task'[u].status = task[u].status /\ task'[u].why = task[u].why
      BY <2>1 DEF DoneInv, WorkersTypeOK, Entries
    <3>2. QED
      BY <3>1, SameExplains DEF Explains
  <2>2. CASE task' = [t \in Tasks |-> Projected(t)]
    BY <2>2, ProjectedExplains
  <2>3. QED
    BY <1>2, <2>1, <2>2, SameExplains, FailNodeExplains
<1>4. QED
  BY <1>1, <1>3, LedgerReports

LEMMA ScheduledReports ==
  ASSUME DoneInv, OrderInv, ReportInv, Scheduled
  PROVE  ReportInv'
<1>1. Perform(Advice)
  BY DEF Scheduled
<1>2. CASE \E purpose : PrepareTurn(purpose)
  BY <1>2, TurnReports
<1>3. CASE Advice.what = "continue" /\ Continue(Advice.at)
  <2>1. CASE ContinueTurn
    BY <2>1, TurnReports
  <2>2. CASE Advice.at # Coordinator /\ ContinueWorker(Advice.at)
    <3> DEFINE continuing == {t \in Current : WorkerContinues(t)}
    <3>1. continuing \in SUBSET Current /\ continuing # {} /\ Advice.at = FirstOf(continuing)
          /\ \A t \in continuing : WorkerContinues(t)
      BY <1>3, <2>2, AdviceOrdered
    <3> HIDE DEF continuing
    <3>2. Advice.at \in Current
      BY <3>1, ContinuingIsBlocked
    <3>3. QED
      BY <2>2, <3>2, ContinueWorkerReports
  <2>3. QED
    BY <1>3, <2>1, <2>2 DEF Continue
<1>4. CASE Advice.what = "start_worker" /\ StartWorker(Advice.at)
  <2>1. Advice.at \in Current
    BY <1>4, AdviceOrdered, RunnableIsRipe
  <2>2. QED
    BY <1>4, <2>1, StartWorkerReports
<1>5. CASE Execute(Advice.at)
  BY <1>5, ExecuteReports
<1>6. CASE BeginIntegration \/ Settle
  BY <1>6, BeginIntegrationReports, SettleReports
<1>7. CASE Resume(Advice.at)
  BY <1>7, ResumeReports
<1>8. QED
  BY <1>1, <1>2, <1>3, <1>4, <1>5, <1>6, <1>7 DEF Perform

-----------------------------------------------------------------------------
\* A row whose Decision is answered, or the Task of whose conflict ends, has ended as it had.
LEMMA AnswerReports ==
  ASSUME DoneInv, OrderInv, ReportInv, NEW p \in Positions, task' = task, born' = born,
         NEW row, inv' = [inv EXCEPT ![p] = row], row.status = inv[p].status,
         row.result = inv[p].result,
         row.decision = inv[p].decision \/ row.decision # "none"
  PROVE  ReportInv'
<1>1. EndIsTold(row)
  BY DEF ReportInv, EndsAreTold, EndIsTold
<1>2. p \in Tasks /\ task[p].status = "running" =>
        row.status \in {"queued", "running"} \/ (row.status = "succeeded" /\ row.result # "completed")
  BY DEF ReportInv, RunningHasWorker, Active
<1>3. p \in Tasks /\ task[p].status = "blocked" =>
        /\ task[p].why # "none"
        /\ task[p].why = "decision" =>
             /\ row.status = "blocked" \/ (row.status = "succeeded" /\ row.result = "blocked")
             /\ row.decision # "none"
  BY DEF ReportInv, BlockedIsExplained, BlockedOn
<1>4. born' \in [Positions -> Nat]
  BY DEF ReportInv
<1>5. QED
  BY <1>1, <1>2, <1>3, <1>4, RowReports

LEMMA OperatorReports ==
  ASSUME DoneInv, OrderInv, ReportInv, NEW p \in Positions,
         \/ Resolve(p) \/ Supersede(p) \/ RootCancels(p)
         \/ /\ inv' = [inv EXCEPT ![p].conflictTask = "cancelled"]
            /\ UNCHANGED <<task, born>>
  PROVE  ReportInv'
<1>1. task' = task /\ born' = born
  BY DEF Resolve, Supersede, RootCancels
<1>2. inv[p] \in Rows /\ inv \in [Positions -> Rows]
  BY DEF DoneInv, WorkersTypeOK
<1>3. PICK row : /\ inv' = [inv EXCEPT ![p] = row] /\ row.status = inv[p].status
                 /\ row.result = inv[p].result
                 /\ row.decision = inv[p].decision \/ row.decision # "none"
  <2>1. ASSUME NEW answer \in {"resolved", "superseded"}, inv' = [inv EXCEPT ![p].decision = answer]
        PROVE  \E row : /\ inv' = [inv EXCEPT ![p] = row] /\ row.status = inv[p].status
                        /\ row.result = inv[p].result
                        /\ row.decision = inv[p].decision \/ row.decision # "none"
    <3> DEFINE row == [inv[p] EXCEPT !.decision = answer]
    <3>1. inv' = [inv EXCEPT ![p] = row]
      BY <2>1
    <3>2. row.status = inv[p].status /\ row.result = inv[p].result /\ row.decision = answer
      BY <1>2 DEF Rows
    <3> HIDE DEF row
    <3>3. QED
      BY <3>1, <3>2
  <2>2. ASSUME inv' = [inv EXCEPT ![p].conflictTask = "cancelled"]
        PROVE  \E row : /\ inv' = [inv EXCEPT ![p] = row] /\ row.status = inv[p].status
                        /\ row.result = inv[p].result
                        /\ row.decision = inv[p].decision \/ row.decision # "none"
    <3> DEFINE row == [inv[p] EXCEPT !.conflictTask = "cancelled"]
    <3>1. inv' = [inv EXCEPT ![p] = row]
      BY <2>2
    <3>2. row.status = inv[p].status /\ row.result = inv[p].result /\ row.decision = inv[p].decision
      BY <1>2 DEF Rows
    <3> HIDE DEF row
    <3>3. QED
      BY <3>1, <3>2
  <2>3. \/ \E answer \in {"resolved", "superseded"} : inv' = [inv EXCEPT ![p].decision = answer]
        \/ inv' = [inv EXCEPT ![p].conflictTask = "cancelled"]
    BY DEF Resolve, Supersede, RootCancels
  <2>4. QED
    BY <2>1, <2>2, <2>3
<1>4. QED
  BY <1>1, <1>3, AnswerReports

LEMMA EndIntegrationReports ==
  ASSUME DoneInv, OrderInv, ReportInv, NEW p \in Positions, EndIntegration(p)
  PROVE  ReportInv'
<1>1. task' = task /\ born' = born /\ inv[p] \in Rows
  BY DEF EndIntegration, DoneInv, WorkersTypeOK
<1>2. PICK row : /\ inv' = [inv EXCEPT ![p] = row] /\ row.status = inv[p].status
                 /\ row.result = inv[p].result /\ row.decision = inv[p].decision
  <2> DEFINE applied == [inv[p] EXCEPT !.changes = "integrated"]
             refused == [inv[p] EXCEPT !.changes = "conflict", !.conflictTask = "open"]
  <2>1. inv' = [inv EXCEPT ![p] = applied] \/ inv' = [inv EXCEPT ![p] = refused]
    BY DEF EndIntegration, DoneInv, WorkersTypeOK
  <2>2. /\ applied.status = inv[p].status /\ refused.status = inv[p].status
        /\ applied.result = inv[p].result /\ refused.result = inv[p].result
        /\ applied.decision = inv[p].decision /\ refused.decision = inv[p].decision
    BY <1>1 DEF Rows
  <2> HIDE DEF applied, refused
  <2>3. QED
    BY <2>1, <2>2
<1>3. QED
  BY <1>1, <1>2, AnswerReports

LEMMA CancelReports ==
  ASSUME DoneInv, OrderInv, ReportInv, Cancel
  PROVE  ReportInv'
<1>1. born' = born
  BY DEF Cancel
<1>2. CASE \E t \in Current : task' = [task EXCEPT ![t] = CancelTask(@)] /\ UNCHANGED inv
  <2>1. PICK t \in Current : task' = [task EXCEPT ![t] = CancelTask(task[t])] /\ inv' = inv
    BY <1>2
  <2>2. t \in Tasks /\ task[t] \in Entries
    BY Constants DEF DoneInv, WorkersTypeOK
  <2>3. \A u \in Tasks : task'[u] = IF u = t THEN CancelTask(task[t]) ELSE task[u]
    BY <2>1 DEF DoneInv, WorkersTypeOK
  <2>4. \A u \in Tasks : Explains(task'[u], u)
    BY <2>2, <2>3, CancelExplains, SameExplains
  <2>5. QED
    BY <1>1, <2>1, <2>4, LedgerReports
<1>3. CASE \E p \in Positions : inv' = [inv EXCEPT ![p].conflictTask = "cancelled"] /\ UNCHANGED task
  BY <1>1, <1>3, OperatorReports
<1>4. QED
  BY <1>2, <1>3 DEF Cancel

LEMMA ProposeReports ==
  ASSUME DoneInv, ReportInv, Propose
  PROVE  ReportInv'
<1>1. PICK batch \in Batches : task' = Extended(batch)
  BY DEF Propose
<1>2. Amends(task', batch)
  BY <1>1, ExtendedIs DEF DoneInv
<1>3. \A t \in Tasks : Explains(task'[t], t)
  BY <1>2, SameExplains DEF Amends, Explains
<1>4. QED
  BY <1>3, LedgerReports DEF Propose

-----------------------------------------------------------------------------
\* The end of an Invocation: its Task is reported, or its end tells that it is not.
LEMMA EndReports ==
  ASSUME DoneInv, OrderInv, ReportInv, NEW p \in Positions, Active(p), born' = born,
         NEW row, inv' = [inv EXCEPT ![p] = row], EndIsTold(row),
         NEW report \in {"none", "completed", "blocked", "failed"},
         NEW why \in {"none", "input", "decision"}, Reported(p, report, why),
         report = "none" /\ p \in Tasks =>
           row.status = "queued" \/ (row.status = "succeeded" /\ row.result # "completed"),
         report = "blocked" /\ p \in Tasks =>
           why # "none" /\ (why = "decision" => row.status = "blocked" /\ row.decision # "none")
  PROVE  ReportInv'
<1>1. p \in Tasks => task[p].status = "running" /\ task[p] \in Entries
  BY ActiveIsRunning DEF DoneInv, WorkersTypeOK
<1>2. born' \in [Positions -> Nat]
  BY DEF ReportInv
<1>3. CASE task' = task /\ (p = Coordinator \/ report = "none")
  BY <1>1, <1>2, <1>3, RowReports, Constants
<1>4. CASE p # Coordinator /\ report # "none" /\ task' = [task EXCEPT ![p].status = report, ![p].why = why]
  <2>1. p \in Tasks
    BY <1>4 DEF Positions, Tasks, Coordinator
  <2> DEFINE entry == [task[p] EXCEPT !.status = report, !.why = why]
  <2>2. entry.status = report /\ entry.why = why /\ task' = [task EXCEPT ![p] = entry]
    BY <1>1, <1>4, <2>1 DEF Entries, DoneInv, WorkersTypeOK
  <2> HIDE DEF entry
  <2>3. task'[p].status = report /\ task'[p].why = why /\ \A u \in Tasks \ {p} : task'[u] = task[u]
    BY <2>1, <2>2 DEF DoneInv, WorkersTypeOK
  <2>4. QED
    BY <1>2, <1>4, <2>1, <2>3, RowReports
<1>5. QED
  BY <1>3, <1>4 DEF Reported

LEMMA AttemptReports ==
  ASSUME DoneInv, OrderInv, ReportInv, NEW p \in Positions, AttemptEnds(p) \/ Retry(p)
  PROVE  ReportInv'
<1>1. Active(p) /\ born' = born /\ inv[p] \in Rows
  BY DEF AttemptEnds, Return, Fail, Ask, Retry, Active, DoneInv, WorkersTypeOK
<1>2. CASE Return(p)
  <2>1. PICK end \in IF p = Coordinator THEN TurnEnds ELSE WorkerEnds :
          /\ inv' = [inv EXCEPT ![p] = [status |-> "succeeded", result |-> end.result,
                                        decision |-> IF end.names THEN "open" ELSE "none",
                                        changes |-> end.changes, conflictTask |-> "none"]]
          /\ Reported(p, end.report, IF end.report = "blocked" THEN "input" ELSE "none")
    BY <1>2 DEF Return
  <2> DEFINE row == [status |-> "succeeded", result |-> end.result,
                     decision |-> IF end.names THEN "open" ELSE "none",
                     changes |-> end.changes, conflictTask |-> "none"]
             why == IF end.report = "blocked" THEN "input" ELSE "none"
  <2>2. /\ end.report \in {"none", "completed", "blocked", "failed"} /\ end.result # "none"
        /\ p \in Tasks /\ end.report = "none" => end.result # "completed"
    BY <2>1, Constants, WorkersAssumption, CompletedReports
  <2>3. /\ row.status = "succeeded" /\ row.result = end.result
        /\ why \in {"none", "input", "decision"} /\ (end.report = "blocked" => why = "input")
        /\ inv' = [inv EXCEPT ![p] = row] /\ Reported(p, end.report, why)
    BY <2>1
  <2> HIDE DEF row, why
  <2>4. EndIsTold(row)
    BY <2>2, <2>3 DEF EndIsTold
  <2>5. QED
    BY <1>1, <2>2, <2>3, <2>4, EndReports
<1>3. CASE Fail(p)
  <2> DEFINE row == [inv[p] EXCEPT !.status = "failed"]
  <2>1. row.status = "failed" /\ inv' = [inv EXCEPT ![p] = row] /\ Reported(p, "failed", "none")
    BY <1>1, <1>3 DEF Fail, Rows
  <2> HIDE DEF row
  <2>2. EndIsTold(row)
    BY <2>1 DEF EndIsTold
  <2>3. QED
    BY <1>1, <2>1, <2>2, EndReports
<1>4. CASE Ask(p)
  <2> DEFINE row == [inv[p] EXCEPT !.status = "blocked", !.decision = "open"]
  <2>1. /\ row.status = "blocked" /\ row.decision = "open" /\ inv' = [inv EXCEPT ![p] = row]
        /\ Reported(p, "blocked", "decision")
    BY <1>1, <1>4 DEF Ask, Rows, DoneInv, WorkersTypeOK
  <2> HIDE DEF row
  <2>2. EndIsTold(row)
    BY <2>1 DEF EndIsTold
  <2>3. QED
    BY <1>1, <2>1, <2>2, EndReports
<1>5. CASE Retry(p)
  <2> DEFINE row == [inv[p] EXCEPT !.status = "queued"]
  <2>1. row.status = "queued" /\ inv' = [inv EXCEPT ![p] = row] /\ Reported(p, "none", "none")
    BY <1>1, <1>5 DEF Retry, Rows, Reported
  <2> HIDE DEF row
  <2>2. EndIsTold(row)
    BY <2>1 DEF EndIsTold
  <2>3. QED
    BY <1>1, <2>1, <2>2, EndReports
<1>6. QED
  BY <1>2, <1>3, <1>4, <1>5 DEF AttemptEnds

-----------------------------------------------------------------------------
LEMMA InitReports == Init => ReportInv
<1> SUFFICES ASSUME Init PROVE ReportInv
  OBVIOUS
<1>1. \A p \in Positions : inv[p].status = "absent"
  BY DEF Init, NoInvocation
<1>2. \A t \in Tasks : task[t].status = "absent"
  BY DEF Init, NoTask
<1>3. born \in [Positions -> Nat]
  BY DEF Init
<1>4. QED
  BY <1>1, <1>2, <1>3
     DEF ReportInv, RunningHasWorker, BlockedIsExplained, EndsAreTold, EndIsTold

LEMMA NextReports ==
  ASSUME DoneInv, OrderInv, ReportInv, [Next]_vars
  PROVE  ReportInv'
<1>1. CASE Propose \/ Cancel
  BY <1>1, ProposeReports, CancelReports
<1>2. CASE UNCHANGED vars
  BY <1>2, SameExplains, LedgerReports DEF vars
<1>3. CASE \E p \in Positions : EndIntegration(p) \/ AttemptEnds(p) \/ Retry(p)
  BY <1>3, EndIntegrationReports, AttemptReports
<1>4. CASE \E p \in Positions : Resolve(p) \/ Supersede(p) \/ RootCancels(p)
  BY <1>4, OperatorReports
<1>5. CASE Scheduled
  BY <1>5, ScheduledReports
<1>6. QED
  BY <1>1, <1>2, <1>3, <1>4, <1>5 DEF Next

\* The projection and the operations agree: whatever agents propose, return, ask and leave open,
\* the node never runs out of something to advise, and what it advises passes the checks the
\* operation makes of the rows again; but for the states of the findings.
THEOREM AdvicePermittedHolds == Spec => []AdvicePermitted
<1>1. Init => DoneInv /\ OrderInv /\ ReportInv
  BY InitDone, InitOrdered, InitReports
<1>2. DoneInv /\ OrderInv /\ ReportInv /\ [Next]_vars => (DoneInv /\ OrderInv /\ ReportInv)'
  BY NextDone, NextOrdered, NextReports
<1>3. DoneInv /\ OrderInv /\ ReportInv => AdvicePermitted
  BY AdviceIsPermitted
<1>4. QED
  BY <1>1, <1>2, <1>3, PTL DEF Spec
=============================================================================
