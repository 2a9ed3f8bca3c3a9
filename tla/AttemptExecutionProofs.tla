----------------------- MODULE AttemptExecutionProofs -----------------------
(***************************************************************************)
(* Proofs about AttemptExecution, for any Runs, Invocations, allocations   *)
(* and capacity limits that satisfy ConstantsAssumption.                   *)
(***************************************************************************)
EXTENDS AttemptProperties, FiniteSetTheorems, TLAPS

-----------------------------------------------------------------------------
(***************************************************************************)
(* Lemmas about the pure policy: whatever an execution brought, the        *)
(* Attempt, its retry decision, its Invocation and its Task end in a value *)
(* of their rows.                                                          *)
(***************************************************************************)
\* classifyAttempt always ends the Attempt, with a status and a failure class
\* of its row.
LEMMA ClassifyType ==
  ASSUME NEW completion \in Completions, NEW valid \in BOOLEAN,
         NEW interruption \in Interruptions \cup {"none"}, NEW exhausted \in BOOLEAN
  PROVE  Classify(completion, valid, interruption, exhausted) \in EndedAttempts
<1> DEFINE c == ClassifyCompletion(completion, valid, exhausted)
<1>1. ASSUME NEW ended \in EndedAttempts
      PROVE  UnlessExhausted(ended, exhausted) \in EndedAttempts
  BY DEF UnlessExhausted, FailedAs, Ended, EndedAttempts, AttemptTerminal, FailureClasses
<1>2. c \in EndedAttempts
  BY <1>1 DEF ClassifyCompletion, Completions, FailedAs, Ended, EndedAttempts,
              AttemptTerminal, FailureClasses
<1>3. QED
  BY <1>1, <1>2 DEF Classify, Interruptions, FailedAs, Ended, EndedAttempts,
                    AttemptTerminal, FailureClasses

\* decideRetry gives one of the three recorded decisions, and none exactly to a
\* succeeded Attempt.
LEMMA RetryType ==
  ASSUME NEW ended \in EndedAttempts, NEW previous, NEW handedOver, NEW last, NEW l, NEW timed,
         NEW retry \in RetryDecisions(ended, previous, handedOver, last, l, timed)
  PROVE  /\ retry \in {"none", "permitted", "refused"}
         /\ retry = "none" <=> ended.status = "succeeded"
<1> DEFINE refuses == RefusesRetry(ended, previous, handedOver, last, l)
<1>1. CASE ended.status = "succeeded"
  BY <1>1 DEF RetryDecisions
<1>2. CASE ended.status # "succeeded" /\ refuses
  BY <1>2 DEF RetryDecisions
<1>3. CASE ended.status # "succeeded" /\ ~refuses
  BY <1>3 DEF RetryDecisions
<1>4. QED
  BY <1>1, <1>2, <1>3

\* settleInvocation ends the Invocation unless another Attempt is permitted, and
\* succeeds it only with its Attempt.
LEMMA SettledType ==
  ASSUME NEW ended \in EndedAttempts, NEW retry, NEW handedOver \in BOOLEAN
  PROVE  LET settled == SettledStatus(ended, retry, handedOver)
         IN /\ settled \in InvocationTerminal \cup {"running"}
            /\ settled = "succeeded" <=> ended.status = "succeeded"
            /\ settled = "running" => retry = "permitted"
  BY DEF SettledStatus, EndedAttempts, AttemptTerminal, InvocationTerminal
\* applyTaskReports: a Task of an ended Invocation ends, or blocks.
LEMMA SettledTaskType ==
  ASSUME NEW status \in InvocationTerminal \cup {"running"}
  PROVE  SettledTasks(status) \subseteq TaskStatuses
  BY DEF SettledTasks, InvocationTerminal, TaskStatuses

-----------------------------------------------------------------------------
(***************************************************************************)
(* Type correctness.  TypeOK is not inductive alone: the classification of *)
(* a finished call is defined only for an outcome the adapter reports, so  *)
(* the invariant adds that a flight past its provider call has one.        *)
(***************************************************************************)
OutcomeKnown ==
  \A i \in Invocations :
    flight[i].phase \in {"returned", "collected", "stalled"} => flight[i].outcome \in Reportable

TypeInv == TypeOK /\ OutcomeKnown

\* The rows of Runs: every legal write of a row is a row.
LEMMA RunRowType ==
  ASSUME NEW row \in RunRows
  PROVE  /\ \A to \in RunStatuses, reason \in AutoWaitReasons \cup {"none"} :
              Moved(row, to, reason) \in RunRows
         /\ \A mode \in PauseModes : Paused(row, mode) \in RunRows
         /\ Resumed(row) \in RunRows
  BY DEF RunRows, Moved, Paused, Resumed, RunStatuses, RunTerminal, PauseModes, AutoWaitReasons

\* What finalize makes of a flight is an end of its Attempt, and the interruption
\* it weighs is one of those the runtime knows.
LEMMA ClassifiedType ==
  ASSUME TypeInv, NEW i \in Invocations, flight[i].phase = "collected"
  PROVE  /\ Classified(i) \in EndedAttempts
         /\ HandsOver(i) \in BOOLEAN
         /\ MoreUsed(usage[i], flight[i].spent) \in UsageLevels
<1>1. /\ flight[i].outcome \in Reportable
      /\ flight[i].cause \in Interruptions \cup {"none"}
      /\ flight[i].spent \in UsageLevels
      /\ usage[i] \in UsageLevels
  BY DEF TypeInv, TypeOK, OutcomeKnown, Flights
<1>2. InterruptionOf(i) \in Interruptions \cup {"none"}
  BY <1>1 DEF InterruptionOf, ImposedInterruption, Interruptions
<1>3. Classify(flight[i].outcome, ResultValid(i), InterruptionOf(i),
               MoreUsed(usage[i], flight[i].spent) = "over") \in EndedAttempts
  <2>1. ResultValid(i) \in BOOLEAN
    BY DEF ResultValid
  <2>2. QED
    BY <1>1, <1>2, <2>1, ClassifyType DEF Reportable
<1>4. Classified(i) \in EndedAttempts
  BY <1>3 DEF Classified, FailedAs, Ended, EndedAttempts, AttemptTerminal, FailureClasses
<1>5. MoreUsed(usage[i], flight[i].spent) \in UsageLevels
  BY DEF MoreUsed, UsageLevels
<1>6. HandsOver(i) \in BOOLEAN
  BY DEF HandsOver
<1>7. QED
  BY <1>4, <1>5, <1>6

\* Convergence writes statuses of the rows.
LEMMA ConvergeType ==
  ASSUME NEW ended, NEW active,
         NEW status \in [Invocations -> InvocationStatuses \cup {"absent"}],
         NEW tasks \in [Invocations -> TaskStatuses],
         Converge(ended, status, tasks, active)
  PROVE  /\ inv' \in [Invocations -> InvocationStatuses \cup {"absent"}]
         /\ task' \in [Invocations -> TaskStatuses]
  BY DEF Converge, ConvergedInvocations, ConvergedTasks, InvocationStatuses, InvocationTerminal,
         TaskStatuses

LEMMA TypeInvInit == ASSUME ConstantsAssumption, Init PROVE TypeInv
  BY DEF Init, TypeInv, TypeOK, OutcomeKnown, NewRun, RunRows, RunStatuses, RunTerminal,
         InvocationStatuses, InvocationTerminal, Numbers, AttemptRows, NoAttempt, UsageLevels,
         TaskStatuses, Flights, NoFlight, Interruptions, Completions, Reportable, ConstantsAssumption

\* An interruption delivered to flights marks their cause and nothing else.
LEMMA DeliveredType ==
  ASSUME TypeInv, NEW targets, NEW cause \in Interruptions
  PROVE  /\ Delivered(targets, cause) \in [Invocations -> Flights]
         /\ \A j \in Invocations :
              /\ Delivered(targets, cause)[j].phase = flight[j].phase
              /\ Delivered(targets, cause)[j].outcome = flight[j].outcome
              /\ Delivered(targets, cause)[j].number = flight[j].number
<1>1. ASSUME NEW j \in Invocations
      PROVE  /\ [flight[j] EXCEPT !.cause = cause] \in Flights
             /\ [flight[j] EXCEPT !.cause = cause].phase = flight[j].phase
             /\ [flight[j] EXCEPT !.cause = cause].outcome = flight[j].outcome
             /\ [flight[j] EXCEPT !.cause = cause].number = flight[j].number
             /\ flight[j] \in Flights
  <2>1. flight[j] \in Flights
    BY DEF TypeInv, TypeOK
  <2>2. QED
    BY <2>1 DEF Flights
<1>2. QED
  BY <1>1 DEF Delivered

\* A step that changes one flight, and nothing else TypeInv speaks of, preserves it
\* when the new flight is one and has an outcome once the call returned.
LEMMA FlightUpdate ==
  ASSUME TypeInv, NEW i \in Invocations, NEW f \in Flights,
         f.phase \in {"returned", "collected", "stalled"} => f.outcome \in Reportable,
         flight' = [flight EXCEPT ![i] = f],
         UnchangedRows, UNCHANGED <<proc, releasing, resolving>>
  PROVE  TypeInv'
  BY DEF TypeInv, TypeOK, OutcomeKnown, rows, UnchangedRows

\* Finalization preserves the types: it writes an end, a settlement and a Task of the
\* rows.
LEMMA TypeInvFinalize ==
  ASSUME ConstantsAssumption, TypeInv, NEW i \in Invocations, Finalize(i)
  PROVE  TypeInv'
<1> DEFINE n == flight[i].number
           ended == Classified(i)
           hands == HandsOver(i)
<1>1. /\ ended \in EndedAttempts /\ hands \in BOOLEAN
      /\ MoreUsed(usage[i], flight[i].spent) \in UsageLevels
  BY ClassifiedType DEF Finalize
<1>2. PICK retry \in RetryDecisions(ended, PreviousClass(i, n), hands, n >= MaxAttempts, late[i],
                                    i \in Timed) :
        LET settled == SettledStatus(ended, retry, hands) IN
        /\ att' = [att EXCEPT ![i][n] = EndedRow(ended, retry)]
        /\ waiting' = IF BacksOff(ended, retry) THEN waiting \cup {i} ELSE waiting
        /\ releasing' = IF settled \in InvocationTerminal /\ cleanup[i] = "pending"
                        THEN releasing \cup {i} ELSE releasing
        /\ \E report \in SettledTasks(settled) :
             Converge({RunOf[i]} \cap CancelledRuns(run),
                      [inv EXCEPT ![i] = settled],
                      [task EXCEPT ![i] = IF @ = "running" THEN report ELSE @],
                      Executing \ {i})
  BY DEF Finalize
<1> DEFINE settled == SettledStatus(ended, retry, hands)
<1>3. retry \in {"none", "permitted", "refused"}
  BY <1>1, <1>2, RetryType
<1>4. settled \in InvocationTerminal \cup {"running"}
  BY <1>1, SettledType
<1>5. att' \in [Invocations -> [Numbers -> AttemptRows]]
  <2>1. EndedRow(ended, retry) \in AttemptRows
    BY <1>1, <1>3 DEF EndedRow, EndedAttempts, AttemptRows
  <2>2. QED
    BY <1>2, <2>1 DEF TypeInv, TypeOK
<1>6. waiting' \subseteq Invocations /\ releasing' \subseteq Invocations
  BY <1>2 DEF TypeInv, TypeOK
<1>7. /\ inv' \in [Invocations -> InvocationStatuses \cup {"absent"}]
      /\ task' \in [Invocations -> TaskStatuses]
  <2>1. PICK report \in SettledTasks(settled) :
          Converge({RunOf[i]} \cap CancelledRuns(run),
                   [inv EXCEPT ![i] = settled],
                   [task EXCEPT ![i] = IF @ = "running" THEN report ELSE @],
                   Executing \ {i})
    BY <1>2
  <2>2. report \in TaskStatuses
    BY <1>4, SettledTaskType
  <2>3. /\ [inv EXCEPT ![i] = settled] \in [Invocations -> InvocationStatuses \cup {"absent"}]
        /\ [task EXCEPT ![i] = IF @ = "running" THEN report ELSE @] \in [Invocations -> TaskStatuses]
    BY <1>4, <2>2 DEF TypeInv, TypeOK, InvocationStatuses
  <2> HIDE DEF settled
  <2>4. QED
    BY <2>1, <2>3, ConvergeType
<1>8. /\ leases' \subseteq Invocations \X Numbers
      /\ usage' \in [Invocations -> UsageLevels]
  BY <1>1 DEF Finalize, Released, TypeInv, TypeOK
<1>9. /\ flight' \in [Invocations -> Flights]
      /\ OutcomeKnown'
  <2>1. NoFlight \in Flights /\ NoFlight.phase = "none"
    BY DEF NoFlight, Flights, UsageLevels
  <2>2. flight' = [flight EXCEPT ![i] = NoFlight]
    BY DEF Finalize
  <2>3. QED
    BY <2>1, <2>2 DEF TypeInv, TypeOK, OutcomeKnown
<1>10. UNCHANGED <<run, tries, request, cleanup, worktree, late, proc, resolving>>
  BY DEF Finalize
<1>11. QED
  BY <1>5, <1>6, <1>7, <1>8, <1>9, <1>10 DEF TypeInv, TypeOK

\* A preparation, whoever calls it, preserves the types.
LEMMA TypeInvPrepares ==
  ASSUME TypeInv, NEW i \in Invocations, Prepares(i), run' \in [Runs -> RunRows]
  PROVE  TypeInv'
  BY DEF Prepares, memory, TypeInv, TypeOK, OutcomeKnown, InvocationStatuses, TaskStatuses

\* Every step of an Invocation preserves the types.
LEMMA TypeInvInvocationStep ==
  ASSUME ConstantsAssumption, TypeInv, NEW i \in Invocations, InvocationStep(i)
  PROVE  TypeInv'
<1> USE DEF rows, memory, UnchangedRows
<1>1. CASE PrepareInvocation(i)
  BY <1>1, TypeInvPrepares DEF PrepareInvocation, TypeInv, TypeOK
<1>2. CASE PrepareAttempt(i)
  <2> DEFINE n == tries[i] + 1
  <2>1. n \in Numbers
    BY <1>2 DEF PrepareAttempt, Permitted, AllocationLeft, TypeInv, TypeOK, Numbers,
              ConstantsAssumption
  <2>2. NewFlight(n) \in Flights /\ RunningAttempt \in AttemptRows /\ n \in 0..MaxAttempts
    <3>1. n \in 0..MaxAttempts
      BY <2>1 DEF Numbers, ConstantsAssumption
    <3>2. RunningAttempt \in AttemptRows
      BY DEF RunningAttempt, AttemptRows
    <3>3. NewFlight(n) \in Flights
      <4> HIDE DEF n
      <4>1. QED
        BY <2>1 DEF NewFlight, NoFlight, Flights, UsageLevels
    <3>4. QED
      BY <3>1, <3>2, <3>3
  <2>3. NewFlight(n).phase = "prepared"
    BY DEF NewFlight, NoFlight
  <2>4. att' \in [Invocations -> [Numbers -> AttemptRows]] /\ leases' \subseteq Invocations \X Numbers
    <3>1. att' = [att EXCEPT ![i][n] = RunningAttempt] /\ leases' = leases \cup {<<i, n>>}
      BY <1>2 DEF PrepareAttempt
    <3> HIDE DEF n
    <3>2. QED
      BY <3>1, <2>1, <2>2 DEF TypeInv, TypeOK
  <2>5. /\ tries' \in [Invocations -> 0..MaxAttempts]
        /\ inv' \in [Invocations -> InvocationStatuses \cup {"absent"}]
        /\ flight' \in [Invocations -> Flights]
    BY <1>2, <2>2 DEF PrepareAttempt, TypeInv, TypeOK, InvocationStatuses
  <2>6. OutcomeKnown'
    BY <1>2, <2>3 DEF PrepareAttempt, TypeInv, TypeOK, OutcomeKnown
  <2>7. QED
    BY <1>2, <2>4, <2>5, <2>6 DEF PrepareAttempt, TypeInv, TypeOK
<1>3. CASE RefuseExhausted(i)
  BY <1>3 DEF RefuseExhausted, TypeInv, TypeOK, OutcomeKnown, InvocationStatuses,
              InvocationTerminal, TaskStatuses
<1>4. CASE CallProvider(i)
  <2> DEFINE f == [flight[i] EXCEPT !.phase = "executing"]
  <2>1. flight[i] \in Flights
    BY DEF TypeInv, TypeOK
  <2>2. f \in Flights /\ (f.phase \in {"returned", "collected", "stalled"} => f.outcome \in Reportable)
    BY <1>4, <2>1 DEF CallProvider, Flights, Interruptions, Completions, Reportable, OutcomeKnown, TypeInv
  <2>3. flight' = [flight EXCEPT ![i] = f]
    BY <1>4, <2>1 DEF CallProvider, TypeInv, TypeOK, Flights
  <2>4. QED
    BY <1>4, <2>2, <2>3, FlightUpdate DEF CallProvider
<1>5. CASE NotDispatched(i)
  <2> DEFINE f == [flight[i] EXCEPT
                 !.phase = "returned", !.outcome = "interrupted",
                 !.cause = IF flight[i].cause # "none" THEN flight[i].cause
                           ELSE IF Row(i).status \in RunTerminal THEN "cancelled"
                           ELSE "operator_pause"]
  <2>1. flight[i] \in Flights
    BY DEF TypeInv, TypeOK
  <2>2. f \in Flights /\ (f.phase \in {"returned", "collected", "stalled"} => f.outcome \in Reportable)
    BY <1>5, <2>1 DEF NotDispatched, Flights, Interruptions, Completions, Reportable, OutcomeKnown, TypeInv
  <2>3. flight' = [flight EXCEPT ![i] = f]
    BY <1>5, <2>1 DEF NotDispatched, TypeInv, TypeOK, Flights
  <2>4. QED
    BY <1>5, <2>2, <2>3, FlightUpdate DEF NotDispatched
<1>6. CASE ProviderReturns(i)
  <2>0. PICK outcome \in Reports, spent \in Spends :
          flight' = [flight EXCEPT ![i].phase = "returned", ![i].outcome = outcome,
                                   ![i].spent = spent]
    BY <1>6 DEF ProviderReturns
  <2> DEFINE f == [flight[i] EXCEPT !.phase = "returned", !.outcome = outcome, !.spent = spent]
  <2>1. flight[i] \in Flights
    BY DEF TypeInv, TypeOK
  <2>2. f \in Flights /\ (f.phase \in {"returned", "collected", "stalled"} => f.outcome \in Reportable)
    BY <2>0, <2>1 DEF ConstantsAssumption, Flights, Interruptions, Completions, Reportable, OutcomeKnown, TypeInv
  <2>3. flight' = [flight EXCEPT ![i] = f]
    BY <2>0, <2>1 DEF TypeInv, TypeOK, Flights
  <2>4. QED
    BY <1>6, <2>2, <2>3, FlightUpdate DEF ProviderReturns
<1>7. CASE RequestDecision(i)
  BY <1>7 DEF RequestDecision, TypeInv, TypeOK, OutcomeKnown
<1>8. CASE AnswerDecision(i)
  BY <1>8 DEF AnswerDecision, TypeInv, TypeOK, OutcomeKnown
<1>9. CASE CollectChangeset(i)
  <2> DEFINE interrupted == flight[i].cause # "none" \/ ImposedInterruption(Row(i)) # "none"
             collects == /\ ~interrupted /\ i \in Writers
                         /\ flight[i].outcome \in {"valid", "invalid"}
             f == [flight[i] EXCEPT !.phase = "collected",
                                    !.changeset = flight[i].changeset \/ collects]
  <2>1. flight[i] \in Flights
    BY DEF TypeInv, TypeOK
  <2>2. f \in Flights /\ (f.phase \in {"returned", "collected", "stalled"} => f.outcome \in Reportable)
    <3>1. (flight[i].changeset \/ collects) \in BOOLEAN
      OBVIOUS
    <3> HIDE DEF collects
    <3>2. QED
      BY <1>9, <2>1, <3>1 DEF CollectChangeset, Flights, OutcomeKnown, TypeInv
  <2>3. flight' = [flight EXCEPT ![i] = f]
    BY <1>9, <2>1 DEF CollectChangeset, TypeInv, TypeOK, Flights
  <2>4. QED
    BY <1>9, <2>2, <2>3, FlightUpdate DEF CollectChangeset
<1>10. CASE ExecutionFails(i)
  <2> DEFINE f == [flight[i] EXCEPT !.phase = "stalled"]
  <2>1. flight[i] \in Flights
    BY DEF TypeInv, TypeOK
  <2>2. f \in Flights /\ (f.phase \in {"returned", "collected", "stalled"} => f.outcome \in Reportable)
    BY <1>10, <2>1 DEF ExecutionFails, Flights, Interruptions, Completions, Reportable, OutcomeKnown, TypeInv
  <2>3. flight' = [flight EXCEPT ![i] = f]
    BY <1>10, <2>1 DEF ExecutionFails, TypeInv, TypeOK, Flights
  <2>4. QED
    BY <1>10, <2>2, <2>3, FlightUpdate DEF ExecutionFails
<1>11. CASE ExecuteAgain(i)
  <2> DEFINE f == [flight[i] EXCEPT !.phase = "returned"]
  <2>1. flight[i] \in Flights
    BY DEF TypeInv, TypeOK
  <2>2. f \in Flights /\ (f.phase \in {"returned", "collected", "stalled"} => f.outcome \in Reportable)
    BY <1>11, <2>1 DEF ExecuteAgain, Flights, Interruptions, Completions, Reportable, OutcomeKnown, TypeInv
  <2>3. flight' = [flight EXCEPT ![i] = f]
    BY <1>11, <2>1 DEF ExecuteAgain, TypeInv, TypeOK, Flights
  <2>4. QED
    BY <1>11, <2>2, <2>3, FlightUpdate DEF ExecuteAgain
<1>12. CASE Finalize(i)
  BY <1>12, TypeInvFinalize
<1>13. CASE EnforceDeadline(i)
  <2>1. Delivered({i}, "deadline") \in [Invocations -> Flights]
        /\ \A j \in Invocations : /\ Delivered({i}, "deadline")[j].phase = flight[j].phase
                                 /\ Delivered({i}, "deadline")[j].outcome = flight[j].outcome
    BY DeliveredType DEF Interruptions
  <2>2. QED
    BY <1>13, <2>1 DEF EnforceDeadline, TypeInv, TypeOK, OutcomeKnown
<1>14. CASE DeadlinePasses(i)
  BY <1>14 DEF DeadlinePasses, TypeInv, TypeOK, OutcomeKnown
<1>15. CASE BackoffElapses(i)
  BY <1>15 DEF BackoffElapses, TypeInv, TypeOK, OutcomeKnown
<1>16. CASE RemoveWorktree(i)
  BY <1>16 DEF RemoveWorktree, TypeInv, TypeOK, OutcomeKnown
<1>17. CASE RecordReleased(i)
  BY <1>17 DEF RecordReleased, TypeInv, TypeOK, OutcomeKnown
<1>18. CASE ReleaseFails(i)
  BY <1>18 DEF ReleaseFails, TypeInv, TypeOK, OutcomeKnown
<1>19. CASE ResolveContinuation(i) \/ RefuseOtherwise(i)
  BY <1>19 DEF ResolveContinuation, RefuseOtherwise, TypeInv, TypeOK, OutcomeKnown
<1>20. QED
  BY <1>1, <1>2, <1>3, <1>4, <1>5, <1>6, <1>7, <1>8, <1>9, <1>10, <1>11, <1>12, <1>13, <1>14,
     <1>15, <1>16, <1>17, <1>18, <1>19 DEF InvocationStep

\* Every step of a Run preserves the types.
LEMMA TypeInvRunStep ==
  ASSUME ConstantsAssumption, TypeInv, NEW r \in Runs, RunStep(r)
  PROVE  TypeInv'
<1>1. run \in [Runs -> RunRows] /\ run[r] \in RunRows
  BY DEF TypeInv, TypeOK
<1>2. ASSUME NEW to \in RunStatuses, NEW reason \in AutoWaitReasons \cup {"none"},
             MoveRun(r, to, reason)
      PROVE  TypeInv'
  <2>1. Moved(run[r], to, reason) \in RunRows
    BY <1>1, RunRowType
  <2>2. QED
    BY <1>1, <1>2, <2>1 DEF MoveRun, TypeInv, TypeOK, OutcomeKnown, memory
<1>3. CASE CancelRun(r)
  <2>1. run' \in [Runs -> RunRows]
    <3>1. Moved(run[r], "cancelled", "none") \in RunRows
      BY <1>1, RunRowType DEF RunStatuses, RunTerminal
    <3>2. QED
      BY <1>1, <1>3, <3>1 DEF CancelRun
  <2>2. /\ inv' \in [Invocations -> InvocationStatuses \cup {"absent"}]
        /\ task' \in [Invocations -> TaskStatuses]
    <3>1. PICK ended : Converge(ended, inv, task, Executing)
      BY <1>3 DEF CancelRun
    <3>2. QED
      BY <3>1, ConvergeType DEF TypeInv, TypeOK
  <2>3. flight' \in [Invocations -> Flights] /\ OutcomeKnown'
    <3>1. flight' = Delivered(Of(r), "cancelled")
      BY <1>3 DEF CancelRun
    <3>2. QED
      BY <3>1, DeliveredType DEF Interruptions, TypeInv, OutcomeKnown
  <2>4. releasing' \subseteq Invocations
    BY <1>3 DEF CancelRun, Of, TypeInv, TypeOK
  <2>5. QED
    BY <1>3, <2>1, <2>2, <2>3, <2>4 DEF CancelRun, TypeInv, TypeOK
<1>4. ASSUME NEW mode \in PauseModes, PauseRun(r, mode)
      PROVE  TypeInv'
  <2>1. run' \in [Runs -> RunRows]
    BY <1>1, <1>4, RunRowType DEF PauseRun
  <2>2. flight' \in [Invocations -> Flights] /\ OutcomeKnown'
    <3>1. \/ flight' = Delivered(Of(r), "operator_pause")
          \/ flight' = flight
      BY <1>4 DEF PauseRun
    <3>2. CASE flight' = Delivered(Of(r), "operator_pause")
      BY <3>2, DeliveredType DEF Interruptions, TypeInv, OutcomeKnown
    <3>3. CASE flight' = flight
      BY <3>3 DEF TypeInv, TypeOK, OutcomeKnown
    <3>4. QED
      BY <3>1, <3>2, <3>3
  <2>3. QED
    BY <1>4, <2>1, <2>2 DEF PauseRun, TypeInv, TypeOK
<1>5. CASE ResumeRun(r)
  BY <1>1, <1>5, RunRowType DEF ResumeRun, TypeInv, TypeOK, OutcomeKnown, memory
<1>6. CASE \/ ClearWait(r) \/ BeginVerification(r) \/ AwaitSignoff(r)
           \/ FailVerification(r) \/ CompleteRun(r) \/ FailRun(r)
  BY <1>2, <1>6 DEF ClearWait, BeginVerification, AwaitSignoff, FailVerification,
                    CompleteRun, FailRun, RunStatuses, RunTerminal
<1>7. CASE WaitRun(r)
  BY <1>2, <1>7 DEF WaitRun, RunStatuses, ConstantsAssumption
<1>8. CASE StartRun(r) \/ RequestChanges(r)
  <2>1. PICK i \in Invocations : Prepares(i)
    BY <1>8 DEF StartRun, RequestChanges, MoveRunAndPrepare, Of
  <2>2. Moved(run[r], "running", "none") \in RunRows
    BY <1>1, RunRowType DEF RunStatuses, RunTerminal
  <2>3. run' = [run EXCEPT ![r] = Moved(@, "running", "none")]
    BY <1>8 DEF StartRun, RequestChanges, MoveRunAndPrepare
  <2>4. QED
    BY <1>1, <2>1, <2>2, <2>3, TypeInvPrepares
<1>9. QED
  BY <1>3, <1>4, <1>5, <1>6, <1>7, <1>8 DEF RunStep

\* What recovery makes of an Attempt the dead process left running.
LEMMA RecoveredType ==
  ASSUME TypeInv, NEW i \in Invocations
  PROVE  /\ RecoveredEnd(i) \in EndedAttempts
         /\ RecoveredRetry(i) \in {"permitted", "refused"}
         /\ RecoveredStatus(i) \in InvocationTerminal \cup {"running"}
         /\ RecoveredTask(i) \in TaskStatuses
<1>1. RecoveredEnd(i) \in EndedAttempts
  BY DEF RecoveredEnd, Ended, EndedAttempts, AttemptTerminal, FailureClasses
<1>2. RecoveredRetry(i) \in {"permitted", "refused"}
  BY DEF RecoveredRetry
<1>3. RecoveredStatus(i) \in InvocationTerminal \cup {"running"}
  BY <1>1, SettledType DEF RecoveredStatus
<1>4. RecoveredTask(i) \in TaskStatuses
  BY DEF RecoveredTask, TaskStatuses, TypeInv, TypeOK
<1>5. QED
  BY <1>1, <1>2, <1>3, <1>4

\* Shutdown, the end of the process and recovery preserve the types.
LEMMA TypeInvProcessStep ==
  ASSUME ConstantsAssumption, TypeInv, ProcessStep
  PROVE  TypeInv'
<1>1. CASE Shutdown
  <2>1. flight' = Delivered(Invocations, "shutdown")
    BY <1>1 DEF Shutdown
  <2>2. flight' \in [Invocations -> Flights] /\ OutcomeKnown'
    BY <2>1, DeliveredType DEF Interruptions, TypeInv, OutcomeKnown
  <2>3. QED
    BY <1>1, <2>2 DEF Shutdown, UnchangedRows, rows, TypeInv, TypeOK
<1>2. CASE ProcessEnds
  <2>1. NoFlight \in Flights /\ NoFlight.phase = "none"
    BY DEF NoFlight, Flights, UsageLevels
  <2>2. QED
    BY <1>2, <2>1 DEF ProcessEnds, UnchangedRows, rows, TypeInv, TypeOK, OutcomeKnown
<1>3. CASE Reconcile
  <2>1. att' \in [Invocations -> [Numbers -> AttemptRows]]
    <3>1. \A i \in Invocations : EndedRow(RecoveredEnd(i), RecoveredRetry(i)) \in AttemptRows
      BY RecoveredType DEF EndedRow, EndedAttempts, AttemptRows
    <3>2. \A i \in Invocations : RecoveredAttempts(i) \in [Numbers -> AttemptRows]
      BY <3>1 DEF RecoveredAttempts, TypeInv, TypeOK
    <3>3. QED
      BY <1>3, <3>2 DEF Reconcile
  <2>2. /\ inv' \in [Invocations -> InvocationStatuses \cup {"absent"}]
        /\ task' \in [Invocations -> TaskStatuses]
    <3> DEFINE status == [i \in Invocations |-> IF i \in Executing THEN RecoveredStatus(i) ELSE inv[i]]
               tasks == [i \in Invocations |-> IF i \in Executing THEN RecoveredTask(i) ELSE task[i]]
    <3>1. /\ status \in [Invocations -> InvocationStatuses \cup {"absent"}]
          /\ tasks \in [Invocations -> TaskStatuses]
      BY RecoveredType DEF TypeInv, TypeOK, InvocationStatuses
    <3>2. Converge({RunOf[i] : i \in Executing} \cap CancelledRuns(run), status, tasks, {})
      BY <1>3 DEF Reconcile
    <3> HIDE DEF status, tasks
    <3>3. QED
      BY <3>1, <3>2, ConvergeType
  <2>3. leases' \subseteq Invocations \X Numbers /\ releasing' \subseteq Invocations
    BY <1>3 DEF Reconcile, Outstanding
  <2>4. QED
    BY <1>3, <2>1, <2>2, <2>3 DEF Reconcile, TypeInv, TypeOK, OutcomeKnown
<1>4. CASE OpenAdmission
  BY <1>4 DEF OpenAdmission, UnchangedRows, rows, TypeInv, TypeOK, OutcomeKnown
<1>5. QED
  BY <1>1, <1>2, <1>3, <1>4 DEF ProcessStep

LEMMA TypeInvStep == TypeInv /\ [Next]_vars => TypeInv'
<1> SUFFICES ASSUME TypeInv, [Next]_vars PROVE TypeInv'
  OBVIOUS
<1>1. CASE Next
  BY <1>1, ConstantsAssumption, TypeInvInvocationStep, TypeInvRunStep, TypeInvProcessStep DEF Next
<1>2. CASE UNCHANGED vars
  BY <1>2 DEF vars, rows, memory, TypeInv, TypeOK, OutcomeKnown
<1>3. QED
  BY <1>1, <1>2

\* Rows, flights and releases always hold values of their types, whatever
\* interleaving of executions, operator commands, crashes and recoveries.
THEOREM TypeCorrect == Spec => []TypeOK
<1>1. Init => TypeInv
  BY ConstantsAssumption, TypeInvInit
<1>2. TypeInv => TypeOK
  BY DEF TypeInv
<1>3. QED
  BY <1>1, TypeInvStep, <1>2, PTL DEF Spec

-----------------------------------------------------------------------------
(***************************************************************************)
(* The capacity argument: a lease is held exactly by a running Attempt,    *)
(* each Invocation runs at most one, and the executor's memory never       *)
(* disagrees with the rows.  None of the three is inductive alone: that a  *)
(* finalization ends the one running Attempt needs the flight to name it,  *)
(* and recovery needs that a dead process left no flight behind.           *)
(***************************************************************************)

\* Neither a flight nor a preparation survives the process, and nothing runs between
\* recovery and the opening of admission.
MemoryLost ==
  /\ proc \in {"down", "recovering"} => (resolving = {} /\ \A i \in Invocations : ~InFlight(i))
  /\ proc = "recovering" => \A i \in Invocations : Running(i) = {}

ExecInv ==
  /\ TypeInv
  /\ LeaseHeldWhileRunning /\ OneAttemptAtATime /\ FlightsMatchRows /\ MemoryLost

\* The Invocations whose Attempts run are those convergence spares.
LEMMA ConvergeSpares ==
  ASSUME NEW ended, NEW tasks, NEW active, NEW status, NEW j \in Invocations,
         Converge(ended, status, tasks, active),
         j \in active \/ status[j] \notin {"pending", "running"}
  PROVE  inv'[j] = status[j]
  BY DEF Converge, ConvergedInvocations

LEMMA ExecInvInit == Init => ExecInv
<1> SUFFICES ASSUME Init PROVE ExecInv
  OBVIOUS
<1>1. TypeInv
  BY ConstantsAssumption, TypeInvInit
<1>2. \A i \in Invocations : Running(i) = {} /\ ~InFlight(i)
  BY DEF Init, Running, NoAttempt, InFlight, NoFlight
<1>3. leases = {} /\ proc = "up" /\ \A l \in Invocations \X Numbers : att[l[1]][l[2]].status # "running"
  BY DEF Init, NoAttempt
<1>4. QED
  BY <1>1, <1>2, <1>3 DEF ExecInv, LeaseHeldWhileRunning, OneAttemptAtATime, FlightsMatchRows, MemoryLost

\* A step that starts and ends no Attempt keeps the invariant when it takes no
\* flight away, gives none a new number, and leaves the Invocations that execute
\* running.
LEMMA ExecInvKept ==
  ASSUME ExecInv, TypeInv', UNCHANGED <<tries, att, leases>>,
         proc' = proc \/ (proc = "up" /\ proc' = "stopping"),
         resolving' \subseteq resolving \/ proc = "up",
         \A j \in Invocations : /\ flight'[j].phase = "none" <=> flight[j].phase = "none"
                                /\ flight'[j].number = flight[j].number,
         \A j \in Invocations : Running(j) # {} => inv'[j] = "running"
  PROVE  ExecInv'
<1>1. \A j \in Invocations : Running(j)' = Running(j) /\ (InFlight(j)' <=> InFlight(j))
  BY DEF Running, InFlight
<1>2. LeaseHeldWhileRunning'
  BY DEF ExecInv, LeaseHeldWhileRunning
<1>3. OneAttemptAtATime'
  BY <1>1 DEF ExecInv, OneAttemptAtATime
<1>4. FlightsMatchRows'
  BY <1>1 DEF ExecInv, FlightsMatchRows
<1>5. MemoryLost'
  BY <1>1 DEF ExecInv, MemoryLost
<1>6. QED
  BY <1>2, <1>3, <1>4, <1>5 DEF ExecInv

\* Preparing an Attempt gives its Invocation, which runs none, its only one.
LEMMA ExecInvPrepare ==
  ASSUME ExecInv, TypeInv', NEW i \in Invocations, PrepareAttempt(i)
  PROVE  ExecInv'
<1> DEFINE n == tries[i] + 1
<1>1. n \in Numbers /\ Running(i) = {} /\ proc \in {"up", "stopping"} /\ proc' = proc
  <2>1. n \in Numbers
    BY ConstantsAssumption DEF PrepareAttempt, Permitted, AllocationLeft, ExecInv, TypeInv, TypeOK, Numbers,
       ConstantsAssumption
  <2>2. QED
    BY <2>1 DEF PrepareAttempt, MayPrepare, Permitted, Admissible, ExecInv, MemoryLost, TypeInv,
                TypeOK
<1>2. /\ att' = [att EXCEPT ![i][n] = RunningAttempt]
      /\ leases' = leases \cup {<<i, n>>}
      /\ tries' = [tries EXCEPT ![i] = n]
      /\ inv' = [inv EXCEPT ![i] = "running"]
      /\ flight' = [flight EXCEPT ![i] = NewFlight(n)]
  BY DEF PrepareAttempt
<1> HIDE DEF n
<1>3. \A j \in Invocations, m \in Numbers :
        att'[j][m].status = IF j = i /\ m = n THEN "running" ELSE att[j][m].status
  BY <1>2 DEF ExecInv, TypeInv, TypeOK, RunningAttempt
<1>4. Running(i)' = {n} /\ \A j \in Invocations \ {i} : Running(j)' = Running(j)
  BY <1>1, <1>3 DEF Running
<1>5. LeaseHeldWhileRunning'
  BY <1>1, <1>2, <1>3 DEF ExecInv, LeaseHeldWhileRunning
<1>6. OneAttemptAtATime'
  BY <1>1, <1>2, <1>4 DEF ExecInv, OneAttemptAtATime, TypeInv, TypeOK
<1>7. NewFlight(n).phase = "prepared" /\ NewFlight(n).number = n
  BY DEF NewFlight, NoFlight
<1>8. FlightsMatchRows'
  BY <1>1, <1>2, <1>4, <1>7 DEF ExecInv, FlightsMatchRows, InFlight, TypeInv, TypeOK
<1>9. MemoryLost'
  BY <1>1 DEF MemoryLost
<1>10. QED
  BY <1>5, <1>6, <1>8, <1>9 DEF ExecInv

\* Finalization ends the Attempt its flight names, the only one that runs, and gives
\* back the lease of that Attempt.
LEMMA ExecInvFinalize ==
  ASSUME ExecInv, TypeInv', NEW i \in Invocations, Finalize(i)
  PROVE  ExecInv'
<1> DEFINE n == flight[i].number
           ended == Classified(i)
<1>1. InFlight(i) /\ Running(i) = {n} /\ n \in Numbers /\ proc \notin {"down", "recovering"}
  BY DEF Finalize, InFlight, ExecInv, FlightsMatchRows, MemoryLost, Running
<1>2. /\ leases' = leases \ {<<i, n>>}
      /\ flight' = [flight EXCEPT ![i] = NoFlight]
      /\ tries' = tries /\ proc' = proc /\ resolving' = resolving
  BY DEF Finalize, Released
<1>3. PICK retry, settled, tasks :
        /\ att' = [att EXCEPT ![i][n] = EndedRow(ended, retry)]
        /\ Converge({RunOf[i]} \cap CancelledRuns(run), [inv EXCEPT ![i] = settled], tasks,
                    Executing \ {i})
  BY DEF Finalize
<1>4. EndedRow(ended, retry).status \in AttemptTerminal
  BY ClassifiedType DEF ExecInv, Finalize, EndedRow, EndedAttempts
<1> HIDE DEF n, ended
<1>5. \A j \in Invocations, m \in Numbers :
        att'[j][m].status = "running" <=> (att[j][m].status = "running" /\ ~(j = i /\ m = n))
  BY <1>1, <1>3, <1>4 DEF ExecInv, TypeInv, TypeOK, AttemptTerminal
<1>6. Running(i)' = {} /\ \A j \in Invocations \ {i} : Running(j)' = Running(j)
  BY <1>1, <1>5 DEF Running
<1>7. ASSUME NEW j \in Invocations \ {i}, Running(j) # {}
      PROVE  inv'[j] = inv[j]
  <2>1. j \in Executing \ {i}
    BY <1>7 DEF Executing
  <2> DEFINE status == [inv EXCEPT ![i] = settled]
  <2>2. inv'[j] = status[j]
    <3> HIDE DEF status
    <3>1. Converge({RunOf[i]} \cap CancelledRuns(run), status, tasks, Executing \ {i})
      BY <1>3 DEF status
    <3>2. QED
      BY <2>1, <3>1, ConvergeSpares
  <2>3. QED
    BY <2>2 DEF ExecInv, TypeInv, TypeOK
<1>8. LeaseHeldWhileRunning'
  BY <1>1, <1>2, <1>5 DEF ExecInv, LeaseHeldWhileRunning
<1>9. OneAttemptAtATime'
  BY <1>2, <1>6, <1>7 DEF ExecInv, OneAttemptAtATime
<1>10. NoFlight.phase = "none"
  BY DEF NoFlight
<1>11. FlightsMatchRows'
  BY <1>2, <1>6, <1>10 DEF ExecInv, FlightsMatchRows, InFlight, TypeInv, TypeOK
<1>12. MemoryLost'
  BY <1>1, <1>2 DEF MemoryLost
<1>13. QED
  BY <1>8, <1>9, <1>11, <1>12 DEF ExecInv

\* A preparation, whoever calls it, takes an Invocation that has never executed.
LEMMA ExecInvPrepares ==
  ASSUME ExecInv, TypeInv', NEW i \in Invocations, Prepares(i)
  PROVE  ExecInv'
<1>1. \A j \in Invocations : Running(j) # {} => inv[j] = "running"
  BY DEF ExecInv, OneAttemptAtATime, Running
<1>2. \A j \in Invocations : Running(j) # {} => inv'[j] = "running"
  BY <1>1 DEF Prepares, Unprepared, ExecInv, TypeInv, TypeOK
<1>3. UNCHANGED <<tries, att, leases, proc, flight, resolving>>
  BY DEF Prepares, memory
<1>4. QED
  BY <1>2, <1>3, ExecInvKept

\* The other steps of an Invocation start and end no Attempt.
LEMMA ExecInvInvocationStep ==
  ASSUME ExecInv, TypeInv', NEW i \in Invocations, InvocationStep(i)
  PROVE  ExecInv'
<1> USE DEF rows, memory, UnchangedRows
<1>1. \A j \in Invocations : Running(j) # {} => inv[j] = "running"
  BY DEF ExecInv, OneAttemptAtATime, Running
<1>2. CASE RefuseExhausted(i)
  <2>1. Running(i) = {}
    BY <1>1, <1>2 DEF RefuseExhausted, Exhausted, Admissible
  <2>2. \A j \in Invocations : Running(j) # {} => inv'[j] = "running"
    BY <1>1, <1>2, <2>1 DEF RefuseExhausted, ExecInv, TypeInv, TypeOK
  <2>3. UNCHANGED <<tries, att, leases, proc, flight>> /\ resolving' \subseteq resolving
    BY <1>2 DEF RefuseExhausted
  <2>4. QED
    BY <2>2, <2>3, ExecInvKept
<1>3. CASE \/ CallProvider(i) \/ NotDispatched(i) \/ ProviderReturns(i)
           \/ CollectChangeset(i) \/ ExecutionFails(i) \/ ExecuteAgain(i) \/ EnforceDeadline(i)
  <2>1. UNCHANGED <<tries, att, leases, proc, inv, resolving>>
    BY <1>3 DEF CallProvider, NotDispatched, ProviderReturns, CollectChangeset, ExecutionFails,
                ExecuteAgain, EnforceDeadline
  <2>2. \A j \in Invocations : /\ flight'[j].phase = "none" <=> flight[j].phase = "none"
                               /\ flight'[j].number = flight[j].number
    <3>1. flight \in [Invocations -> Flights]
      BY DEF ExecInv, TypeInv, TypeOK
    <3>2. CASE EnforceDeadline(i)
      <4>1. flight' = Delivered({i}, "deadline")
        BY <3>2 DEF EnforceDeadline
      <4>2. QED
        BY <4>1, DeliveredType DEF ExecInv, Interruptions
    <3>3. CASE CallProvider(i)
      BY <3>1, <3>3 DEF CallProvider, Flights
    <3>4. CASE NotDispatched(i)
      BY <3>1, <3>4 DEF NotDispatched, Flights
    <3>5. CASE ProviderReturns(i)
      <4>1. PICK outcome \in Reports, spent \in Spends :
              flight' = [flight EXCEPT ![i].phase = "returned", ![i].outcome = outcome,
                                       ![i].spent = spent]
        BY <3>5 DEF ProviderReturns
      <4>2. flight[i].phase = "executing"
        BY <3>5 DEF ProviderReturns
      <4> DEFINE f == [flight[i] EXCEPT !.phase = "returned", !.outcome = outcome, !.spent = spent]
      <4>3. f.phase = "returned" /\ f.number = flight[i].number /\ f \in Flights
        BY <3>1, <4>1, ConstantsAssumption DEF ConstantsAssumption, Flights, Reportable
      <4>4. flight' = [flight EXCEPT ![i] = f]
        BY <3>1, <4>1 DEF Flights
      <4> HIDE DEF f
      <4>5. flight'[i] = f /\ \A j \in Invocations \ {i} : flight'[j] = flight[j]
        BY <3>1, <4>4
      <4>6. QED
        BY <4>2, <4>3, <4>5
    <3>6. CASE CollectChangeset(i)
      BY <3>1, <3>6 DEF CollectChangeset, Flights
    <3>7. CASE ExecutionFails(i)
      BY <3>1, <3>7 DEF ExecutionFails, Flights
    <3>8. CASE ExecuteAgain(i)
      BY <3>1, <3>8 DEF ExecuteAgain, Flights
    <3>9. QED
      BY <1>3, <3>2, <3>3, <3>4, <3>5, <3>6, <3>7, <3>8
  <2>3. QED
    BY <1>1, <2>1, <2>2, ExecInvKept
<1>4. CASE \/ RequestDecision(i) \/ AnswerDecision(i) \/ DeadlinePasses(i) \/ BackoffElapses(i)
           \/ RemoveWorktree(i) \/ RecordReleased(i) \/ ReleaseFails(i)
  <2>1. UNCHANGED <<tries, att, leases, proc, inv, flight, resolving>>
    BY <1>4 DEF RequestDecision, AnswerDecision, DeadlinePasses, BackoffElapses, RemoveWorktree,
                RecordReleased, ReleaseFails
  <2>2. QED
    BY <1>1, <2>1, ExecInvKept
<1>5. CASE ResolveContinuation(i) \/ RefuseOtherwise(i)
  <2>1. /\ UNCHANGED <<tries, att, leases, proc, inv, flight>>
        /\ resolving' \subseteq resolving \/ proc = "up"
    BY <1>5 DEF ResolveContinuation, RefuseOtherwise
  <2>2. QED
    BY <1>1, <2>1, ExecInvKept
<1>6. CASE PrepareInvocation(i)
  BY <1>6, ExecInvPrepares DEF PrepareInvocation
<1>7. QED
  BY <1>2, <1>3, <1>4, <1>5, <1>6, ExecInvPrepare, ExecInvFinalize DEF InvocationStep

\* A step of a Run starts and ends no Attempt: what a cancellation converges, it
\* spares where an Attempt runs.
LEMMA ExecInvRunStep ==
  ASSUME ExecInv, TypeInv', NEW r \in Runs, RunStep(r)
  PROVE  ExecInv'
<1>1. \A j \in Invocations : Running(j) # {} => inv[j] = "running"
  BY DEF ExecInv, OneAttemptAtATime, Running
<1>2. CASE CancelRun(r)
  <2>1. \A j \in Invocations : Running(j) # {} => inv'[j] = inv[j]
    <3>1. PICK ended : Converge(ended, inv, task, Executing)
      BY <1>2 DEF CancelRun
    <3>2. QED
      BY <3>1, ConvergeSpares DEF Executing
  <2>2. flight' = Delivered(Of(r), "cancelled") /\ UNCHANGED <<tries, att, leases, proc, resolving>>
    BY <1>2 DEF CancelRun
  <2>3. \A j \in Invocations : /\ flight'[j].phase = flight[j].phase
                               /\ flight'[j].number = flight[j].number
    BY <2>2, DeliveredType DEF ExecInv, Interruptions
  <2>4. QED
    BY <1>1, <2>1, <2>2, <2>3, ExecInvKept
<1>3. ASSUME NEW mode \in PauseModes, PauseRun(r, mode)
      PROVE  ExecInv'
  <2>1. /\ flight' = Delivered(Of(r), "operator_pause") \/ flight' = flight
        /\ UNCHANGED <<tries, att, leases, proc, inv, resolving>>
    BY <1>3 DEF PauseRun
  <2>2. \A j \in Invocations : /\ flight'[j].phase = flight[j].phase
                               /\ flight'[j].number = flight[j].number
    BY <2>1, DeliveredType DEF ExecInv, Interruptions
  <2>3. QED
    BY <1>1, <2>1, <2>2, ExecInvKept
<1>4. CASE \/ ResumeRun(r) \/ WaitRun(r) \/ ClearWait(r) \/ BeginVerification(r)
           \/ AwaitSignoff(r) \/ FailVerification(r) \/ CompleteRun(r) \/ FailRun(r)
  <2>1. UNCHANGED <<tries, att, leases, proc, inv, flight, resolving>>
    BY <1>4 DEF ResumeRun, WaitRun, ClearWait, BeginVerification, AwaitSignoff,
                FailVerification, CompleteRun, FailRun, MoveRun, memory
  <2>2. QED
    BY <1>1, <2>1, ExecInvKept
<1>5. CASE StartRun(r) \/ RequestChanges(r)
  BY <1>5, ExecInvPrepares DEF StartRun, RequestChanges, MoveRunAndPrepare, Of
<1>6. QED
  BY <1>2, <1>3, <1>4, <1>5 DEF RunStep

\* The process may end at any step; recovery then ends every Attempt that runs and
\* releases every lease before admission opens.
LEMMA ExecInvProcessStep ==
  ASSUME ExecInv, TypeInv', ProcessStep
  PROVE  ExecInv'
<1>1. CASE Shutdown
  <2>1. /\ flight' = Delivered(Invocations, "shutdown")
        /\ proc = "up" /\ proc' = "stopping"
        /\ UNCHANGED <<tries, att, leases, inv, resolving>>
    BY <1>1 DEF Shutdown, UnchangedRows, rows
  <2>2. \A j \in Invocations : /\ flight'[j].phase = flight[j].phase
                               /\ flight'[j].number = flight[j].number
    BY <2>1, DeliveredType DEF ExecInv, Interruptions
  <2>3. \A j \in Invocations : Running(j) # {} => inv[j] = "running"
    BY DEF ExecInv, OneAttemptAtATime, Running
  <2>4. QED
    BY <2>1, <2>2, <2>3, ExecInvKept
<1>2. CASE ProcessEnds
  <2>1. /\ flight' = [i \in Invocations |-> NoFlight] /\ proc' = "down" /\ resolving' = {}
        /\ UNCHANGED <<tries, att, leases, inv>>
    BY <1>2 DEF ProcessEnds, UnchangedRows, rows
  <2>2. \A i \in Invocations : Running(i)' = Running(i) /\ ~InFlight(i)'
    BY <2>1 DEF Running, InFlight, NoFlight
  <2>3. QED
    BY <2>1, <2>2 DEF ExecInv, LeaseHeldWhileRunning, OneAttemptAtATime, FlightsMatchRows, MemoryLost
<1>3. CASE Reconcile
  <2>1. /\ att' = [i \in Invocations |-> RecoveredAttempts(i)] /\ leases' = {}
        /\ proc = "down" /\ proc' = "recovering" /\ flight' = flight
        /\ resolving' = resolving
    BY <1>3 DEF Reconcile
  <2>2. \A i \in Invocations, n \in Numbers : att'[i][n].status # "running"
    <3>1. \A i \in Invocations : EndedRow(RecoveredEnd(i), RecoveredRetry(i)).status # "running"
      BY RecoveredType DEF ExecInv, EndedRow, EndedAttempts, AttemptTerminal
    <3>2. QED
      BY <2>1, <3>1 DEF RecoveredAttempts, Running
  <2>3. \A i \in Invocations : Running(i)' = {} /\ ~InFlight(i)'
    BY <2>1, <2>2 DEF Running, InFlight, ExecInv, MemoryLost
  <2>4. LeaseHeldWhileRunning'
    BY <2>1, <2>2 DEF LeaseHeldWhileRunning
  <2>5. QED
    BY <2>1, <2>3, <2>4 DEF ExecInv, OneAttemptAtATime, FlightsMatchRows, MemoryLost
<1>4. CASE OpenAdmission
  <2>1. proc = "recovering" /\ proc' = "up" /\ UNCHANGED <<tries, att, leases, inv, flight>>
    BY <1>4 DEF OpenAdmission, UnchangedRows, rows
  <2>2. \A i \in Invocations : Running(i)' = {} /\ ~InFlight(i)'
    BY <2>1 DEF Running, InFlight, ExecInv, MemoryLost
  <2>3. LeaseHeldWhileRunning'
    BY <2>1 DEF ExecInv, LeaseHeldWhileRunning
  <2>4. QED
    BY <2>1, <2>2, <2>3 DEF ExecInv, OneAttemptAtATime, FlightsMatchRows, MemoryLost
<1>5. QED
  BY <1>1, <1>2, <1>3, <1>4 DEF ProcessStep

LEMMA ExecInvStep == ExecInv /\ [Next]_vars => ExecInv'
<1> SUFFICES ASSUME ExecInv, [Next]_vars PROVE ExecInv'
  OBVIOUS
<1>1. TypeInv'
  BY TypeInvStep DEF ExecInv
<1>2. CASE Next
  BY <1>1, <1>2, ExecInvInvocationStep, ExecInvRunStep, ExecInvProcessStep DEF Next
<1>3. CASE UNCHANGED vars
  <2>1. UNCHANGED <<tries, att, leases, proc, inv, flight, resolving>>
    BY <1>3 DEF vars, rows, memory
  <2>2. \A j \in Invocations : Running(j) # {} => inv[j] = "running"
    BY DEF ExecInv, OneAttemptAtATime, Running
  <2>3. QED
    BY <1>1, <2>1, <2>2, ExecInvKept
<1>4. QED
  BY <1>2, <1>3

\* The strengthened invariant holds in every reachable state.
THEOREM ExecutionInvariant == Spec => []ExecInv
  BY ExecInvInit, ExecInvStep, PTL DEF Spec

\* Capacity is held exactly by the Attempts that run: no path leaks a lease and none
\* runs without one, through refusals, interruptions, crashes and recoveries.
THEOREM LeaseSafety == Spec => []LeaseHeldWhileRunning
<1>1. ExecInv => LeaseHeldWhileRunning
  BY DEF ExecInv
<1>2. QED
  BY ExecutionInvariant, <1>1, PTL

\* An Invocation never executes two Attempts at once, nor one it has passed.
THEOREM SingleAttempt == Spec => []OneAttemptAtATime
<1>1. ExecInv => OneAttemptAtATime
  BY DEF ExecInv
<1>2. QED
  BY ExecutionInvariant, <1>1, PTL

\* The executor's memory never disagrees with the rows: no Attempt ends behind its
\* flight, and none runs without one in a process that admits work.
THEOREM MemoryMatchesRows == Spec => []FlightsMatchRows
<1>1. ExecInv => FlightsMatchRows
  BY DEF ExecInv
<1>2. QED
  BY ExecutionInvariant, <1>1, PTL

-----------------------------------------------------------------------------
(***************************************************************************)
(* The limits of the governor.  Counting needs the set of leases finite,   *)
(* which every reachable one is, whatever set of Invocations there may be. *)
(***************************************************************************)
WriterLeases == {l \in leases : l[1] \in Writers}

CapInv == IsFiniteSet(leases) /\ CapacityRespected

\* A step takes one lease that the governor admits, or takes none.
LEMMA LeaseSteps ==
  ASSUME [Next]_vars
  PROVE  \/ leases' \subseteq leases
         \/ \E i \in Invocations : \E n : GovernorAdmits(i) /\ leases' = leases \cup {<<i, n>>}
<1> USE DEF rows, memory, UnchangedRows
<1>1. ASSUME NEW i \in Invocations, PrepareAttempt(i)
      PROVE  \E n : GovernorAdmits(i) /\ leases' = leases \cup {<<i, n>>}
  BY <1>1 DEF PrepareAttempt
<1>2. ASSUME NEW i \in Invocations, InvocationStep(i), ~PrepareAttempt(i)
      PROVE  leases' \subseteq leases
  BY <1>2 DEF InvocationStep, PrepareInvocation, Prepares, ResolveContinuation, RefuseExhausted,
              RefuseOtherwise, CallProvider, NotDispatched,
              ProviderReturns, RequestDecision, AnswerDecision, CollectChangeset, ExecutionFails,
              ExecuteAgain, Finalize, Released, EnforceDeadline, DeadlinePasses, BackoffElapses,
              RemoveWorktree, RecordReleased, ReleaseFails
<1>3. ASSUME NEW r \in Runs, RunStep(r)
      PROVE  leases' \subseteq leases
  BY <1>3 DEF RunStep, CancelRun, PauseRun, ResumeRun, StartRun, RequestChanges,
              MoveRunAndPrepare, Prepares, WaitRun, ClearWait, BeginVerification,
              AwaitSignoff, FailVerification, CompleteRun, FailRun, MoveRun
<1>4. ASSUME ProcessStep
      PROVE  leases' \subseteq leases
  BY <1>4 DEF ProcessStep, Shutdown, ProcessEnds, Reconcile, OpenAdmission
<1>5. CASE UNCHANGED vars
  BY <1>5 DEF vars
<1>6. QED
  BY <1>1, <1>2, <1>3, <1>4, <1>5 DEF Next

LEMMA CapInvStep ==
  ASSUME CapInv, [Next]_vars
  PROVE  CapInv'
<1>1. CASE leases' \subseteq leases
  <2>1. IsFiniteSet(leases') /\ Cardinality(leases') <= Cardinality(leases)
    BY <1>1, FS_Subset DEF CapInv
  <2>2. IsFiniteSet(WriterLeases) /\ WriterLeases' \subseteq WriterLeases
    BY <1>1, FS_Subset DEF CapInv, WriterLeases
  <2>3. Cardinality(WriterLeases') <= Cardinality(WriterLeases)
    BY <2>2, FS_Subset
  <2>4. /\ Cardinality(leases) \in Nat /\ Cardinality(leases') \in Nat
        /\ Cardinality(WriterLeases) \in Nat /\ Cardinality(WriterLeases') \in Nat
    BY <2>1, <2>2, FS_Subset, FS_CardinalityType DEF CapInv
  <2>5. QED
    BY <2>1, <2>3, <2>4, ConstantsAssumption
       DEF CapInv, CapacityRespected, WriterLeases, ConstantsAssumption
<1>2. ASSUME NEW i \in Invocations, NEW n, GovernorAdmits(i), leases' = leases \cup {<<i, n>>}
      PROVE  CapInv'
  <2>1. /\ IsFiniteSet(leases') /\ Cardinality(leases) \in Nat
        /\ Cardinality(leases') \in {Cardinality(leases), Cardinality(leases) + 1}
    BY <1>2, FS_AddElement, FS_CardinalityType DEF CapInv
  <2>2. IsFiniteSet(WriterLeases) /\ Cardinality(WriterLeases) \in Nat
    BY FS_Subset, FS_CardinalityType DEF CapInv, WriterLeases
  <2>3. Cardinality(leases') <= Slots
    BY <1>2, <2>1, ConstantsAssumption DEF GovernorAdmits, ConstantsAssumption
  <2>4. Cardinality(WriterLeases') <= WorktreeSlots
    <3>1. CASE i \in Writers
      <4>1. WriterLeases' = WriterLeases \cup {<<i, n>>}
        BY <1>2, <3>1 DEF WriterLeases
      <4>2. Cardinality(WriterLeases') \in {Cardinality(WriterLeases), Cardinality(WriterLeases) + 1}
        BY <2>2, <4>1, FS_AddElement
      <4>3. Cardinality(WriterLeases) < WorktreeSlots
        BY <1>2, <3>1 DEF GovernorAdmits, WriterLeases
      <4>4. QED
        BY <2>2, <4>2, <4>3, ConstantsAssumption DEF ConstantsAssumption
    <3>2. CASE i \notin Writers
      <4>1. WriterLeases' = WriterLeases
        BY <1>2, <3>2 DEF WriterLeases
      <4>2. QED
        BY <4>1 DEF CapInv, CapacityRespected, WriterLeases
    <3>3. QED
      BY <3>1, <3>2
  <2>5. QED
    BY <2>1, <2>3, <2>4 DEF CapInv, CapacityRespected, WriterLeases
<1>3. QED
  BY <1>1, <1>2, LeaseSteps

\* The process never holds more capacity, nor more worktrees under execution, than
\* the governor is configured to grant.
THEOREM CapacitySafety == Spec => []CapacityRespected
<1>1. Init => CapInv
  <2> SUFFICES ASSUME Init PROVE CapInv
    OBVIOUS
  <2>1. leases = {} /\ WriterLeases = {}
    BY DEF Init, WriterLeases
  <2>2. QED
    BY <2>1, FS_EmptySet, ConstantsAssumption
       DEF CapInv, CapacityRespected, WriterLeases, ConstantsAssumption
<1>2. CapInv /\ [Next]_vars => CapInv'
  BY CapInvStep
<1>3. CapInv => CapacityRespected
  BY DEF CapInv
<1>4. QED
  BY <1>1, <1>2, <1>3, PTL DEF Spec

-----------------------------------------------------------------------------
(***************************************************************************)
(* What has ended stays as it ended, and what was interrupted yields no    *)
(* result.  Finality of an Attempt needs that the next one takes a row     *)
(* never used; finality of a cancelled Run, which may be cancelled again,  *)
(* needs that its row has nothing left to clear.                           *)
(***************************************************************************)

\* The three fields of a Run row agree whatever moves, pauses and resumes it.
LEMMA RowKept ==
  ASSUME NEW row \in RunRows, RowConsistent(row)
  PROVE  /\ \A to \in RunStatuses, reason \in AutoWaitReasons \cup {"none"} :
              (to = "waiting" <=> reason # "none") => RowConsistent(Moved(row, to, reason))
         /\ \A mode \in PauseModes : MayPause(row) => RowConsistent(Paused(row, mode))
         /\ MayResume(row) => RowConsistent(Resumed(row))
<1>1. ASSUME NEW to \in RunStatuses, NEW reason \in AutoWaitReasons \cup {"none"},
             to = "waiting" <=> reason # "none"
      PROVE  RowConsistent(Moved(row, to, reason))
  BY <1>1 DEF Moved, RowConsistent, AutoWaitReasons
<1>2. ASSUME NEW mode \in PauseModes, MayPause(row)
      PROVE  RowConsistent(Paused(row, mode))
  BY <1>2 DEF Paused, MayPause, RowConsistent, RunRows, RunStatuses, RunTerminal, PauseModes
<1>3. ASSUME MayResume(row)
      PROVE  RowConsistent(Resumed(row))
  BY <1>3 DEF Resumed, MayResume, RowConsistent, RunRows, RunStatuses, RunTerminal
<1>4. QED
  BY <1>1, <1>2, <1>3

\* A step writes no Run row but by a move, a pause or a resume of it.
LEMMA RunRowSteps ==
  ASSUME TypeInv, [Next]_vars, NEW r \in Runs
  PROVE  \/ run'[r] = run[r]
         \/ \E to \in RunStatuses, reason \in AutoWaitReasons \cup {"none"} :
              /\ to = "waiting" <=> reason # "none"
              /\ MayMove(run[r], to) \/ (run[r].status = "cancelled" /\ to = "cancelled")
              /\ run'[r] = Moved(run[r], to, reason)
         \/ \E mode \in PauseModes : MayPause(run[r]) /\ run'[r] = Paused(run[r], mode)
         \/ MayResume(run[r]) /\ run'[r] = Resumed(run[r])
<1> DEFINE Moves == \E to \in RunStatuses, reason \in AutoWaitReasons \cup {"none"} :
                      /\ to = "waiting" <=> reason # "none"
                      /\ MayMove(run[r], to) \/ (run[r].status = "cancelled" /\ to = "cancelled")
                      /\ run'[r] = Moved(run[r], to, reason)
           Pauses == \E mode \in PauseModes : MayPause(run[r]) /\ run'[r] = Paused(run[r], mode)
           Resumes == MayResume(run[r]) /\ run'[r] = Resumed(run[r])
<1>1. run \in [Runs -> RunRows]
  BY DEF TypeInv, TypeOK
<1>2. ASSUME NEW i \in Invocations, InvocationStep(i)
      PROVE  run' = run
  BY <1>2 DEF InvocationStep, PrepareInvocation, Prepares, PrepareAttempt, ResolveContinuation,
              RefuseExhausted, RefuseOtherwise, CallProvider, NotDispatched, ProviderReturns, RequestDecision, AnswerDecision, CollectChangeset,
              ExecutionFails, ExecuteAgain, Finalize, EnforceDeadline, DeadlinePasses,
              BackoffElapses, RemoveWorktree, RecordReleased, ReleaseFails, rows, UnchangedRows
<1>3. ASSUME ProcessStep
      PROVE  run' = run
  BY <1>3 DEF ProcessStep, Shutdown, ProcessEnds, Reconcile, OpenAdmission, rows, UnchangedRows
<1>4. ASSUME NEW q \in Runs, RunStep(q)
      PROVE  run'[r] = run[r] \/ Moves \/ Pauses \/ Resumes
  <2>1. CASE q # r
    BY <1>1, <1>4, <2>1 DEF RunStep, CancelRun, PauseRun, ResumeRun, StartRun, RequestChanges,
         MoveRunAndPrepare, Prepares, WaitRun, ClearWait, BeginVerification,
         AwaitSignoff, FailVerification, CompleteRun, FailRun, MoveRun
  <2>2. ASSUME NEW to \in RunStatuses, NEW reason \in AutoWaitReasons \cup {"none"},
               to = "waiting" <=> reason # "none", MoveRun(r, to, reason)
        PROVE  Moves
    BY <1>1, <2>2 DEF MoveRun
  <2> HIDE DEF Moves, Pauses, Resumes
  <2>3. ASSUME q = r, \/ ClearWait(q) \/ BeginVerification(q) \/ AwaitSignoff(q)
                      \/ FailVerification(q) \/ CompleteRun(q) \/ FailRun(q)
        PROVE  Moves
    BY <2>2, <2>3 DEF ClearWait, BeginVerification, AwaitSignoff, FailVerification,
                      CompleteRun, FailRun, RunStatuses, RunTerminal
  <2>4. ASSUME q = r, WaitRun(q)
        PROVE  Moves
    BY <2>2, <2>4, ConstantsAssumption
       DEF WaitRun, RunStatuses, AutoWaitReasons, ConstantsAssumption
  <2>5. ASSUME q = r, CancelRun(q)
        PROVE  Moves
    <3>1. MayMove(run[r], "cancelled") \/ run[r].status = "cancelled"
      BY <1>1, <2>5 DEF CancelRun, MayMove, RunEdges, RunRows, RunStatuses, RunTerminal
    <3>2. run'[r] = Moved(run[r], "cancelled", "none")
      BY <1>1, <2>5 DEF CancelRun
    <3>3. QED
      BY <3>1, <3>2 DEF Moves, RunStatuses, RunTerminal
  <2>6. ASSUME q = r, NEW mode \in PauseModes, PauseRun(q, mode)
        PROVE  Pauses
    BY <1>1, <2>6 DEF PauseRun, Pauses
  <2>7. ASSUME q = r, ResumeRun(q)
        PROVE  Resumes
    BY <1>1, <2>7 DEF ResumeRun, Resumes
  <2>8. ASSUME q = r, StartRun(q) \/ RequestChanges(q)
        PROVE  Moves
    <3>1. MayMove(run[r], "running") /\ run'[r] = Moved(run[r], "running", "none")
      BY <1>1, <2>8 DEF StartRun, RequestChanges, MoveRunAndPrepare
    <3>2. QED
      BY <3>1 DEF Moves, RunStatuses, RunTerminal
  <2>9. QED
    BY <1>4, <2>1, <2>3, <2>4, <2>5, <2>6, <2>7, <2>8 DEF RunStep, Moves, Pauses, Resumes
<1>5. CASE UNCHANGED vars
  BY <1>5 DEF vars, rows
<1>6. QED
  BY <1>2, <1>3, <1>4, <1>5 DEF Next

RowInv == TypeInv /\ RunRowsConsistent

LEMMA RowInvStep == RowInv /\ [Next]_vars => RowInv'
<1> SUFFICES ASSUME RowInv, [Next]_vars PROVE RowInv'
  OBVIOUS
<1>1. TypeInv'
  BY TypeInvStep DEF RowInv
<1>2. ASSUME NEW r \in Runs PROVE RowConsistent(run'[r])
  <2>1. run[r] \in RunRows /\ RowConsistent(run[r])
    BY DEF RowInv, RunRowsConsistent, TypeInv, TypeOK
  <2>2. QED
    BY <2>1, RowKept, RunRowSteps DEF RowInv
<1>3. QED
  BY <1>1, <1>2 DEF RowInv, RunRowsConsistent

LEMMA RowInvInit == Init => RowInv
  BY ConstantsAssumption, TypeInvInit
     DEF Init, RowInv, RunRowsConsistent, RowConsistent, NewRun

\* An operator's pause and an automatic wait never overwrite each other: scheduler,
\* completion and operator leave the three fields of every Run row in agreement.
THEOREM RunRowsSafety == Spec => []RunRowsConsistent
<1>1. RowInv => RunRowsConsistent
  BY DEF RowInv
<1>2. QED
  BY RowInvInit, RowInvStep, <1>1, PTL DEF Spec

-----------------------------------------------------------------------------
\* The Attempt rows above the last number are unused.
FutureUnused == \A i \in Invocations, n \in Numbers : n > tries[i] => att[i][n].status = "none"

FinalInv == ExecInv /\ RunRowsConsistent /\ FutureUnused

\* A step writes no Attempt row but the next unused one, or one that runs.
LEMMA AttemptSteps ==
  ASSUME ExecInv, [Next]_vars
  PROVE  \/ att' = att /\ tries' = tries
         \/ \E i \in Invocations : /\ PrepareAttempt(i)
                                   /\ tries[i] + 1 \in Numbers
                                   /\ tries' = [tries EXCEPT ![i] = tries[i] + 1]
                                   /\ att' = [att EXCEPT ![i][tries[i] + 1] = RunningAttempt]
         \/ /\ tries' = tries
            /\ \A i \in Invocations, n \in Numbers :
                 att[i][n].status # "running" => att'[i][n] = att[i][n]
<1> USE DEF rows, UnchangedRows, memory
<1>1. ASSUME NEW i \in Invocations, PrepareAttempt(i)
      PROVE  /\ tries[i] + 1 \in Numbers
             /\ tries' = [tries EXCEPT ![i] = tries[i] + 1]
             /\ att' = [att EXCEPT ![i][tries[i] + 1] = RunningAttempt]
  <2>1. tries[i] + 1 \in Numbers
    BY <1>1, ConstantsAssumption DEF PrepareAttempt, Permitted, AllocationLeft, ExecInv, TypeInv, TypeOK,
       Numbers, ConstantsAssumption
  <2>2. QED
    BY <1>1, <2>1 DEF PrepareAttempt
<1>2. ASSUME NEW i \in Invocations, Finalize(i)
      PROVE  /\ tries' = tries
             /\ \A j \in Invocations, n \in Numbers :
                  att[j][n].status # "running" => att'[j][n] = att[j][n]
  <2>1. PICK row : att' = [att EXCEPT ![i][flight[i].number] = row]
    BY <1>2 DEF Finalize
  <2>2. flight[i].number \in Running(i)
    BY <1>2 DEF Finalize, InFlight, ExecInv, FlightsMatchRows
  <2>3. att[i][flight[i].number].status = "running"
    BY <2>2 DEF Running
  <2>4. att \in [Invocations -> [Numbers -> AttemptRows]]
    BY DEF ExecInv, TypeInv, TypeOK
  <2>5. tries' = tries
    BY <1>2 DEF Finalize
  <2>6. QED
    BY <2>1, <2>3, <2>4, <2>5
<1>3. ASSUME NEW i \in Invocations, InvocationStep(i), ~PrepareAttempt(i), ~Finalize(i)
      PROVE  att' = att /\ tries' = tries
  BY <1>3 DEF InvocationStep, PrepareInvocation, Prepares, ResolveContinuation, RefuseExhausted,
              RefuseOtherwise, CallProvider, NotDispatched,
              ProviderReturns, RequestDecision, AnswerDecision, CollectChangeset, ExecutionFails,
              ExecuteAgain, EnforceDeadline, DeadlinePasses, BackoffElapses, RemoveWorktree,
              RecordReleased, ReleaseFails
<1>4. ASSUME NEW r \in Runs, RunStep(r)
      PROVE  att' = att /\ tries' = tries
  BY <1>4 DEF RunStep, CancelRun, PauseRun, ResumeRun, StartRun, RequestChanges,
              MoveRunAndPrepare, Prepares, WaitRun, ClearWait, BeginVerification,
              AwaitSignoff, FailVerification, CompleteRun, FailRun, MoveRun
<1>5. ASSUME Reconcile
      PROVE  /\ tries' = tries
             /\ \A i \in Invocations, n \in Numbers :
                  att[i][n].status # "running" => att'[i][n] = att[i][n]
  BY <1>5 DEF Reconcile, RecoveredAttempts, Running
<1>6. ASSUME ProcessStep, ~Reconcile
      PROVE  att' = att /\ tries' = tries
  BY <1>6 DEF ProcessStep, Shutdown, ProcessEnds, OpenAdmission
<1>7. CASE UNCHANGED vars
  BY <1>7 DEF vars
<1>8. QED
  BY <1>1, <1>2, <1>3, <1>4, <1>5, <1>6, <1>7 DEF Next

LEMMA FutureUnusedStep ==
  ASSUME ExecInv, FutureUnused, [Next]_vars
  PROVE  FutureUnused'
<1>1. /\ att \in [Invocations -> [Numbers -> AttemptRows]]
      /\ tries \in [Invocations -> 0..MaxAttempts]
      /\ MaxAttempts \in Nat /\ Numbers = 1..MaxAttempts
  BY ConstantsAssumption DEF ExecInv, TypeInv, TypeOK, ConstantsAssumption, Numbers
<1>2. CASE att' = att /\ tries' = tries
  BY <1>2 DEF FutureUnused
<1>3. ASSUME NEW i \in Invocations, tries[i] + 1 \in Numbers,
             tries' = [tries EXCEPT ![i] = tries[i] + 1],
             att' = [att EXCEPT ![i][tries[i] + 1] = RunningAttempt]
      PROVE  FutureUnused'
  <2> SUFFICES ASSUME NEW j \in Invocations, NEW n \in Numbers, n > tries'[j]
               PROVE  att'[j][n].status = "none"
    BY DEF FutureUnused
  <2>1. n > tries[j] /\ ~(j = i /\ n = tries[i] + 1)
    BY <1>1, <1>3
  <2>2. att'[j][n] = att[j][n]
    BY <1>1, <1>3, <2>1
  <2>3. QED
    BY <2>1, <2>2 DEF FutureUnused
<1>4. CASE /\ tries' = tries
           /\ \A i \in Invocations, n \in Numbers :
                att[i][n].status # "running" => att'[i][n] = att[i][n]
  BY <1>4 DEF FutureUnused
<1>5. QED
  BY <1>2, <1>3, <1>4, AttemptSteps

\* What a step makes of an Invocation that has ended.
LEMMA EndedInvocationKept ==
  ASSUME ExecInv, [Next]_vars, NEW j \in Invocations, Terminal(j)
  PROVE  inv'[j] = inv[j]
<1> USE DEF rows, UnchangedRows, memory
<1>1. inv[j] \notin {"absent", "pending", "running"} /\ Running(j) = {}
  BY DEF Terminal, InvocationTerminal, ExecInv, OneAttemptAtATime, Running
<1>2. inv \in [Invocations -> InvocationStatuses \cup {"absent"}]
  BY DEF ExecInv, TypeInv, TypeOK
<1>3. ASSUME NEW i \in Invocations, InvocationStep(i), ~Finalize(i)
      PROVE  inv'[j] = inv[j]
  <2>1. CASE PrepareInvocation(i) \/ PrepareAttempt(i) \/ RefuseExhausted(i)
    <3>1. i # j
      BY <1>1, <2>1 DEF PrepareInvocation, Preparable, Unprepared, PrepareAttempt,
                    Permitted, RefuseExhausted, Exhausted, Admissible, Live
    <3>2. QED
      BY <1>2, <2>1, <3>1 DEF PrepareInvocation, Prepares, PrepareAttempt, RefuseExhausted
  <2>2. CASE ~(PrepareInvocation(i) \/ PrepareAttempt(i) \/ RefuseExhausted(i))
    BY <1>3, <2>2 DEF InvocationStep, ResolveContinuation, RefuseOtherwise, CallProvider,
         NotDispatched, ProviderReturns,
         RequestDecision, AnswerDecision, CollectChangeset, ExecutionFails, ExecuteAgain,
         EnforceDeadline, DeadlinePasses, BackoffElapses, RemoveWorktree, RecordReleased,
         ReleaseFails
  <2>3. QED
    BY <2>1, <2>2
<1>4. ASSUME NEW i \in Invocations, Finalize(i)
      PROVE  inv'[j] = inv[j]
  <2>1. i # j
    BY <1>1, <1>4 DEF Finalize, InFlight, ExecInv, FlightsMatchRows
  <2>2. PICK ended, settled, tasks, active, status :
          status = [inv EXCEPT ![i] = settled] /\ Converge(ended, status, tasks, active)
    BY <1>4 DEF Finalize
  <2>3. status[j] = inv[j] /\ Converge(ended, status, tasks, active)
    BY <1>2, <2>1, <2>2
  <2>4. QED
    BY <1>1, <2>3, ConvergeSpares
<1>5. ASSUME NEW r \in Runs, RunStep(r)
      PROVE  inv'[j] = inv[j]
  <2>1. CASE CancelRun(r)
    <3>1. PICK ended : Converge(ended, inv, task, Executing)
      BY <2>1 DEF CancelRun
    <3>2. QED
      BY <1>1, <3>1, ConvergeSpares
  <2>2. CASE StartRun(r) \/ RequestChanges(r)
    BY <1>1, <1>2, <2>2 DEF StartRun, RequestChanges, MoveRunAndPrepare, Prepares, Unprepared
  <2>3. CASE ~(CancelRun(r) \/ StartRun(r) \/ RequestChanges(r))
    BY <1>5, <2>3 DEF RunStep, PauseRun, ResumeRun, WaitRun, ClearWait, BeginVerification,
         AwaitSignoff, FailVerification, CompleteRun, FailRun, MoveRun
  <2>4. QED
    BY <2>1, <2>2, <2>3
<1>6. ASSUME Reconcile
      PROVE  inv'[j] = inv[j]
  <2>1. PICK ended, tasks, status :
          /\ status = [i \in Invocations |-> IF i \in Executing THEN RecoveredStatus(i) ELSE inv[i]]
          /\ Converge(ended, status, tasks, {})
    BY <1>6 DEF Reconcile
  <2>2. status[j] = inv[j]
    BY <1>1, <2>1 DEF Executing
  <2>3. QED
    BY <1>1, <2>1, <2>2, ConvergeSpares
<1>7. ASSUME ProcessStep, ~Reconcile
      PROVE  inv'[j] = inv[j]
  BY <1>7 DEF ProcessStep, Shutdown, ProcessEnds, OpenAdmission
<1>8. CASE UNCHANGED vars
  BY <1>8 DEF vars
<1>9. QED
  BY <1>3, <1>4, <1>5, <1>6, <1>7, <1>8 DEF Next

\* A Run that has ended is never moved; cancelling it again writes the row it has.
LEMMA EndedRunKept ==
  ASSUME RowInv, [Next]_vars, NEW r \in Runs, run[r].status \in RunTerminal
  PROVE  run'[r] = run[r]
<1>1. run[r] \in RunRows /\ RowConsistent(run[r])
  BY DEF RowInv, RunRowsConsistent, TypeInv, TypeOK
<1>2. /\ \A to : ~MayMove(run[r], to)
      /\ ~MayPause(run[r]) /\ ~MayResume(run[r])
  BY DEF MayMove, RunEdges, MayPause, MayResume, RunTerminal
<1>3. ASSUME NEW reason, "cancelled" = "waiting" <=> reason # "none", run[r].status = "cancelled"
      PROVE  Moved(run[r], "cancelled", reason) = run[r]
  BY <1>1, <1>3 DEF Moved, RowConsistent, RunRows
<1>4. QED
  BY <1>2, <1>3, RunRowSteps DEF RowInv

\* What has ended stays as it ended: Invocations, Attempts and Runs alike, through
\* repeated cancellations, convergence and recovery.
THEOREM Finality == Spec => EndedIsFinal
<1>1. Init => FinalInv
  BY ExecInvInit, RowInvInit DEF FinalInv, RowInv, FutureUnused, Init, NoAttempt
<1>2. FinalInv /\ [Next]_vars => FinalInv'
  <2> SUFFICES ASSUME FinalInv, [Next]_vars PROVE FinalInv'
    OBVIOUS
  <2>1. ExecInv'
    BY ExecInvStep DEF FinalInv
  <2>2. RunRowsConsistent'
    BY RowInvStep DEF FinalInv, RowInv, ExecInv
  <2>3. FutureUnused'
    BY FutureUnusedStep DEF FinalInv
  <2>4. QED
    BY <2>1, <2>2, <2>3 DEF FinalInv
<1> DEFINE Kept == /\ \A i \in Invocations : Terminal(i) => inv'[i] = inv[i]
                   /\ \A i \in Invocations, n \in Numbers :
                        att[i][n].status \in AttemptTerminal => att'[i][n] = att[i][n]
                   /\ \A r \in Runs : run[r].status \in RunTerminal => run'[r] = run[r]
<1>3. FinalInv /\ [Next]_vars => [Kept]_vars
  <2> SUFFICES ASSUME FinalInv, [Next]_vars PROVE Kept
    OBVIOUS
  <2>1. \A i \in Invocations : Terminal(i) => inv'[i] = inv[i]
    BY EndedInvocationKept DEF FinalInv
  <2>2. ASSUME NEW i \in Invocations, NEW n \in Numbers, att[i][n].status \in AttemptTerminal
        PROVE  att'[i][n] = att[i][n]
    <3>1. att[i][n].status \notin {"none", "running"}
      BY <2>2 DEF AttemptTerminal
    <3>2. /\ att \in [Invocations -> [Numbers -> AttemptRows]]
          /\ tries \in [Invocations -> 0..MaxAttempts] /\ Numbers = 1..MaxAttempts
      BY DEF FinalInv, ExecInv, TypeInv, TypeOK, Numbers
    <3>3. ~(n > tries[i])
      BY <3>1 DEF FinalInv, FutureUnused
    <3>4. ASSUME NEW j \in Invocations, tries[j] + 1 \in Numbers,
                 att' = [att EXCEPT ![j][tries[j] + 1] = RunningAttempt]
          PROVE  att'[i][n] = att[i][n]
      <4>1. ~(i = j /\ n = tries[j] + 1)
        BY <3>2, <3>3, <3>4, ConstantsAssumption DEF ConstantsAssumption
      <4>2. QED
        BY <3>2, <3>4, <4>1
    <3>5. QED
      BY <3>1, <3>4, AttemptSteps DEF FinalInv
  <2>3. \A r \in Runs : run[r].status \in RunTerminal => run'[r] = run[r]
    BY EndedRunKept DEF FinalInv, RowInv, ExecInv
  <2>4. QED
    BY <2>1, <2>2, <2>3
<1>4. EndedIsFinal <=> [][Kept]_vars
  BY DEF EndedIsFinal
<1> HIDE DEF Kept
<1>5. QED
  BY <1>1, <1>2, <1>3, <1>4, PTL DEF Spec

-----------------------------------------------------------------------------
\* Only finalization succeeds an Invocation: its own, on a classification that no
\* interruption reached.
LEMMA SucceedsByFinalize ==
  ASSUME TypeInv, [Next]_vars, NEW j \in Invocations, Succeeds(j)
  PROVE  Finalize(j) /\ Classified(j).status = "succeeded"
<1> USE DEF rows, UnchangedRows, memory
<1>1. inv[j] # "succeeded" /\ inv'[j] = "succeeded"
  BY DEF Succeeds
<1>2. inv \in [Invocations -> InvocationStatuses \cup {"absent"}]
  BY DEF TypeInv, TypeOK
<1>3. ASSUME NEW ended, NEW status, NEW tasks, NEW active, Converge(ended, status, tasks, active)
      PROVE  status[j] = "succeeded"
  BY <1>1, <1>3 DEF Converge, ConvergedInvocations
<1>4. ASSUME NEW i \in Invocations, InvocationStep(i), ~Finalize(i)
      PROVE  FALSE
  <2>1. CASE PrepareInvocation(i) \/ PrepareAttempt(i) \/ RefuseExhausted(i)
    BY <1>1, <1>2, <2>1 DEF PrepareInvocation, Prepares, PrepareAttempt, RefuseExhausted
  <2>2. CASE ~(PrepareInvocation(i) \/ PrepareAttempt(i) \/ RefuseExhausted(i))
    BY <1>1, <1>4, <2>2 DEF InvocationStep, ResolveContinuation, RefuseOtherwise, CallProvider,
         NotDispatched, ProviderReturns,
         RequestDecision, AnswerDecision, CollectChangeset, ExecutionFails, ExecuteAgain,
         EnforceDeadline, DeadlinePasses, BackoffElapses, RemoveWorktree, RecordReleased,
         ReleaseFails
  <2>3. QED
    BY <2>1, <2>2
<1>5. ASSUME NEW i \in Invocations, Finalize(i)
      PROVE  i = j /\ Classified(j).status = "succeeded"
  <2>1. PICK ended, retry, tasks, active, status :
          /\ status = [inv EXCEPT ![i] = SettledStatus(Classified(i), retry, HandsOver(i))]
          /\ Converge(ended, status, tasks, active)
    BY <1>5 DEF Finalize
  <2>2. status[j] = "succeeded"
    BY <1>3, <2>1
  <2>3. i = j /\ SettledStatus(Classified(j), retry, HandsOver(j)) = "succeeded"
    BY <1>1, <1>2, <2>1, <2>2
  <2>4. Classified(j) \in EndedAttempts /\ HandsOver(j) \in BOOLEAN
    BY <1>5, <2>3, ClassifiedType DEF Finalize
  <2>5. QED
    BY <2>3, <2>4, SettledType
<1>6. ASSUME NEW r \in Runs, RunStep(r)
      PROVE  FALSE
  <2>1. CASE CancelRun(r)
    <3>1. PICK ended : Converge(ended, inv, task, Executing)
      BY <2>1 DEF CancelRun
    <3>2. QED
      BY <1>1, <1>3, <3>1
  <2>2. CASE StartRun(r) \/ RequestChanges(r)
    BY <1>1, <1>2, <2>2 DEF StartRun, RequestChanges, MoveRunAndPrepare, Prepares, Unprepared
  <2>3. CASE ~(CancelRun(r) \/ StartRun(r) \/ RequestChanges(r))
    BY <1>1, <1>6, <2>3 DEF RunStep, PauseRun, ResumeRun, WaitRun, ClearWait, BeginVerification,
         AwaitSignoff, FailVerification, CompleteRun, FailRun, MoveRun
  <2>4. QED
    BY <2>1, <2>2, <2>3
<1>7. ASSUME Reconcile
      PROVE  FALSE
  <2>1. PICK ended, tasks, status :
          /\ status = [i \in Invocations |-> IF i \in Executing THEN RecoveredStatus(i) ELSE inv[i]]
          /\ Converge(ended, status, tasks, {})
    BY <1>7 DEF Reconcile
  <2>2. status[j] = "succeeded"
    BY <1>3, <2>1
  <2>3. RecoveredStatus(j) # "succeeded"
    <3>1. RecoveredEnd(j) \in EndedAttempts /\ RecoveredEnd(j).status # "succeeded"
      BY RecoveredType DEF RecoveredEnd, Ended
    <3>2. QED
      BY <3>1, SettledType DEF RecoveredStatus
  <2>4. QED
    BY <1>1, <2>1, <2>2, <2>3
<1>8. ASSUME ProcessStep, ~Reconcile
      PROVE  FALSE
  BY <1>1, <1>8 DEF ProcessStep, Shutdown, ProcessEnds, OpenAdmission
<1>9. CASE UNCHANGED vars
  BY <1>1, <1>9 DEF vars
<1>10. QED
  BY <1>4, <1>5, <1>6, <1>7, <1>8, <1>9 DEF Next

\* An interruption leaves no way to succeed.
LEMMA SucceedsUninterrupted ==
  ASSUME TypeInv, NEW i \in Invocations, flight[i].phase = "collected",
         Classified(i).status = "succeeded"
  PROVE  InterruptionOf(i) = "none"
<1>1. /\ flight[i].outcome \in Reportable
      /\ flight[i].cause \in Interruptions \cup {"none"}
  BY DEF TypeInv, TypeOK, OutcomeKnown, Flights
<1>2. InterruptionOf(i) \in Interruptions \cup {"none"}
  BY <1>1 DEF InterruptionOf, ImposedInterruption, Interruptions
<1>3. ASSUME NEW valid, NEW exhausted, NEW c \in Interruptions
      PROVE  Classify(flight[i].outcome, valid, c, exhausted).status # "succeeded"
  BY <1>3 DEF Classify, Interruptions, UnlessExhausted, FailedAs, Ended
<1>4. Classified(i) = Classify(flight[i].outcome, ResultValid(i), InterruptionOf(i),
                               MoreUsed(usage[i], flight[i].spent) = "over")
  BY DEF Classified, FailedAs, Ended
<1>5. QED
  BY <1>2, <1>3, <1>4

-----------------------------------------------------------------------------
(***************************************************************************)
(* What an open Invocation keeps: the worktree it writes in, a next        *)
(* Attempt when it executes none, and one way to succeed.  The accounting  *)
(* of worktrees needs that a release is only ever owed to an Invocation    *)
(* that has ended; that an Invocation goes on needs that one never         *)
(* prepared has executed nothing.                                          *)
(***************************************************************************)

\* Convergence changes an Invocation only by cancelling one that is open.
LEMMA ConvergeCancels ==
  ASSUME NEW ended, NEW tasks, NEW active, NEW status, NEW j \in Invocations,
         Converge(ended, status, tasks, active)
  PROVE  \/ inv'[j] = status[j]
         \/ inv'[j] = "cancelled" /\ status[j] \in {"pending", "running"}
  BY DEF Converge, ConvergedInvocations

\* Only a preparation makes an Invocation open, or one at all.
LEMMA InvocationSteps ==
  ASSUME ExecInv, [Next]_vars
  PROVE  \/ \E i \in Invocations : Prepares(i)
         \/ \A j \in Invocations : /\ inv'[j] = "absent" <=> inv[j] = "absent"
                                   /\ inv'[j] \in {"pending", "running"} => Live(j)
<1> DEFINE Kept == \A j \in Invocations : /\ inv'[j] = "absent" <=> inv[j] = "absent"
                                          /\ inv'[j] \in {"pending", "running"} => Live(j)
<1> USE DEF rows, UnchangedRows, memory
<1>1. inv \in [Invocations -> InvocationStatuses \cup {"absent"}]
  BY DEF ExecInv, TypeInv, TypeOK
<1>2. ASSUME inv' = inv
      PROVE  Kept
  BY <1>2 DEF Live
<1>3. ASSUME NEW ended, NEW tasks, NEW active, NEW status,
             Converge(ended, status, tasks, active),
             \A j \in Invocations : \/ status[j] = inv[j]
                                    \/ Live(j) /\ status[j] # "absent"
                                    \/ status[j] \in InvocationTerminal /\ inv[j] # "absent"
      PROVE  Kept
  BY <1>3, ConvergeCancels DEF Live, InvocationTerminal
<1>4. ASSUME NEW i \in Invocations, inv[i] \in {"pending", "running"}, NEW to,
             to # "absent", inv' = [inv EXCEPT ![i] = to]
      PROVE  Kept
  BY <1>1, <1>4 DEF Live
<1> HIDE DEF Kept
<1>5. ASSUME NEW i \in Invocations, InvocationStep(i)
      PROVE  Kept \/ \E j \in Invocations : Prepares(j)
  <2>1. CASE PrepareInvocation(i)
    BY <2>1 DEF PrepareInvocation
  <2>2. CASE PrepareAttempt(i) \/ RefuseExhausted(i)
    BY <1>4, <2>2 DEF PrepareAttempt, Permitted, RefuseExhausted, Exhausted, Admissible, Live
  <2>3. CASE Finalize(i)
    <3>1. Running(i) # {}
      BY <2>3 DEF Finalize, InFlight, ExecInv, FlightsMatchRows
    <3>2. inv[i] = "running"
      BY <3>1 DEF ExecInv, OneAttemptAtATime
    <3>3. PICK ended, retry, tasks, active, status :
            /\ status = [inv EXCEPT ![i] = SettledStatus(Classified(i), retry, HandsOver(i))]
            /\ Converge(ended, status, tasks, active)
      BY <2>3 DEF Finalize
    <3>4. SettledStatus(Classified(i), retry, HandsOver(i)) # "absent"
      BY <2>3, ClassifiedType, SettledType DEF Finalize, ExecInv, InvocationTerminal
    <3>5. \A j \in Invocations : status[j] = inv[j] \/ (Live(j) /\ status[j] # "absent")
      BY <1>1, <3>2, <3>3, <3>4 DEF Live
    <3>6. QED
      BY <1>3, <3>3, <3>5
  <2>4. CASE ~(PrepareInvocation(i) \/ PrepareAttempt(i) \/ RefuseExhausted(i) \/ Finalize(i))
    <3>1. inv' = inv
      BY <1>5, <2>4 DEF InvocationStep, ResolveContinuation, RefuseOtherwise, CallProvider,
         NotDispatched, ProviderReturns,
         RequestDecision, AnswerDecision, CollectChangeset, ExecutionFails, ExecuteAgain,
         EnforceDeadline, DeadlinePasses, BackoffElapses, RemoveWorktree, RecordReleased,
         ReleaseFails
    <3>2. QED
      BY <1>2, <3>1
  <2>5. QED
    BY <2>1, <2>2, <2>3, <2>4
<1>6. ASSUME NEW r \in Runs, RunStep(r)
      PROVE  Kept \/ \E j \in Invocations : Prepares(j)
  <2>1. CASE CancelRun(r)
    <3>1. PICK ended : Converge(ended, inv, task, Executing)
      BY <2>1 DEF CancelRun
    <3>2. QED
      BY <1>3, <3>1
  <2>2. CASE StartRun(r) \/ RequestChanges(r)
    BY <2>2 DEF StartRun, RequestChanges, MoveRunAndPrepare, Of
  <2>3. CASE ~(CancelRun(r) \/ StartRun(r) \/ RequestChanges(r))
    <3>1. inv' = inv
      BY <1>6, <2>3 DEF RunStep, PauseRun, ResumeRun, WaitRun, ClearWait, BeginVerification,
         AwaitSignoff, FailVerification, CompleteRun, FailRun, MoveRun
    <3>2. QED
      BY <1>2, <3>1
  <2>4. QED
    BY <2>1, <2>2, <2>3
<1>7. ASSUME Reconcile
      PROVE  Kept
  <2>1. PICK ended, tasks, status :
          /\ status = [i \in Invocations |-> IF i \in Executing THEN RecoveredStatus(i) ELSE inv[i]]
          /\ Converge(ended, status, tasks, {})
    BY <1>7 DEF Reconcile
  <2>2. ASSUME NEW j \in Executing
        PROVE  Live(j) /\ RecoveredStatus(j) # "absent"
    <3>1. Live(j)
      BY <2>2 DEF Executing, ExecInv, OneAttemptAtATime, Live
    <3>2. RecoveredEnd(j) \in EndedAttempts
      BY <2>2, RecoveredType DEF Executing, ExecInv
    <3>3. QED
      BY <3>1, <3>2, SettledType DEF RecoveredStatus, InvocationTerminal
  <2>3. \A j \in Invocations : status[j] = inv[j] \/ (Live(j) /\ status[j] # "absent")
    BY <2>1, <2>2
  <2>4. QED
    BY <1>3, <2>1, <2>3
<1>8. ASSUME ProcessStep, ~Reconcile
      PROVE  Kept
  BY <1>2, <1>8 DEF ProcessStep, Shutdown, ProcessEnds, OpenAdmission
<1>9. CASE UNCHANGED vars
  BY <1>2, <1>9 DEF vars, Kept
<1>10. QED
  BY <1>5, <1>6, <1>7, <1>8, <1>9 DEF Next, Kept

-----------------------------------------------------------------------------
\* A worktree is created for an Invocation that had no row, the obligation to remove
\* it in the transaction that writes the row, and releases are owed only to Invocations
\* that have ended.
LEMMA WorktreeSteps ==
  ASSUME ExecInv, [Next]_vars
  PROVE  \/ \E i \in Invocations : Prepares(i)
         \/ \E i \in Invocations : RemoveWorktree(i) \/ RecordReleased(i)
         \/ /\ cleanup' = cleanup
            /\ releasing' \subseteq releasing \cup Outstanding(inv')
            /\ \/ worktree' = worktree
               \/ \E i \in Writers : inv[i] = "absent" /\ worktree' = [worktree EXCEPT ![i] = TRUE]
<1> DEFINE Kept == /\ cleanup' = cleanup
                   /\ releasing' \subseteq releasing \cup Outstanding(inv')
                   /\ worktree' = worktree
           Prepared == \E i \in Invocations : Prepares(i)
<1> USE DEF rows, UnchangedRows, memory
<1>1. inv \in [Invocations -> InvocationStatuses \cup {"absent"}]
  BY DEF ExecInv, TypeInv, TypeOK
<1>2. ASSUME NEW i \in Invocations, InvocationStep(i),
             ~RemoveWorktree(i), ~RecordReleased(i)
      PROVE  Kept \/ Prepared
  <2>1. CASE PrepareInvocation(i)
    BY <2>1 DEF PrepareInvocation
  <2>2. CASE RefuseExhausted(i)
    BY <1>1, <2>2 DEF RefuseExhausted, Outstanding, InvocationTerminal
  <2>3. CASE Finalize(i)
    <3>1. cleanup' = cleanup /\ worktree' = worktree
      BY <2>3 DEF Finalize
    <3>2. PICK ended, settled, tasks, active, status :
            /\ status = [inv EXCEPT ![i] = settled]
            /\ Converge(ended, status, tasks, active)
            /\ releasing' = IF settled \in InvocationTerminal /\ cleanup[i] = "pending"
                            THEN releasing \cup {i} ELSE releasing
      BY <2>3 DEF Finalize
    <3>3. ASSUME settled \in InvocationTerminal
          PROVE  inv'[i] \in InvocationTerminal
      BY <1>1, <3>2, <3>3, ConvergeCancels DEF InvocationTerminal
    <3>4. releasing' \subseteq releasing \cup Outstanding(inv')
      BY <3>2, <3>3 DEF Outstanding
    <3>5. QED
      BY <3>1, <3>4
  <2>4. CASE ~(PrepareInvocation(i) \/ RefuseExhausted(i) \/ Finalize(i))
    BY <1>2, <2>4 DEF InvocationStep, PrepareAttempt, ResolveContinuation, RefuseOtherwise,
         CallProvider, NotDispatched, ProviderReturns,
         RequestDecision, AnswerDecision, CollectChangeset, ExecutionFails, ExecuteAgain,
         EnforceDeadline, DeadlinePasses, BackoffElapses, ReleaseFails
  <2>5. QED
    BY <2>1, <2>2, <2>3, <2>4
<1>3. ASSUME NEW r \in Runs, RunStep(r)
      PROVE  Kept \/ Prepared
  <2>1. CASE StartRun(r) \/ RequestChanges(r)
    BY <2>1 DEF StartRun, RequestChanges, MoveRunAndPrepare, Of
  <2>2. CASE ~(StartRun(r) \/ RequestChanges(r))
    BY <1>3, <2>2 DEF RunStep, CancelRun, PauseRun, ResumeRun, WaitRun, ClearWait,
         BeginVerification, AwaitSignoff, FailVerification, CompleteRun, FailRun, MoveRun
  <2>3. QED
    BY <2>1, <2>2
<1>4. ASSUME ProcessStep, ~ProcessEnds
      PROVE  Kept
  BY <1>4 DEF ProcessStep, Shutdown, Reconcile, OpenAdmission
<1>5. ASSUME ProcessEnds
      PROVE  /\ cleanup' = cleanup /\ releasing' = {}
             /\ \/ worktree' = worktree
                \/ \E i \in Writers : inv[i] = "absent" /\ worktree' = [worktree EXCEPT ![i] = TRUE]
  BY <1>5 DEF ProcessEnds, PreparationUnderWay, Preparable, Unprepared
<1>6. CASE UNCHANGED vars
  BY <1>6 DEF vars
<1>7. QED
  BY <1>2, <1>3, <1>4, <1>5, <1>6 DEF Next

\* A worktree obligation is a writer's, and an owed release one of an obligation whose
\* Invocation has ended.
WorktreeInv ==
  /\ WorktreeAccounted
  /\ \A i \in Invocations : cleanup[i] # "none" => (i \in Writers /\ inv[i] # "absent")
  /\ \A i \in releasing : cleanup[i] = "pending" /\ Terminal(i)

LEMMA WorktreeInvStep ==
  ASSUME ExecInv, WorktreeInv, [Next]_vars
  PROVE  WorktreeInv'
<1>1. /\ inv \in [Invocations -> InvocationStatuses \cup {"absent"}]
      /\ cleanup \in [Invocations -> {"none", "pending", "released"}]
      /\ worktree \in [Invocations -> BOOLEAN]
      /\ releasing \subseteq Invocations /\ Writers \subseteq Invocations
  BY ConstantsAssumption DEF ConstantsAssumption, ExecInv, TypeInv, TypeOK
<1>2. inv' \in [Invocations -> InvocationStatuses \cup {"absent"}]
  BY TypeInvStep DEF ExecInv, TypeInv, TypeOK
<1>3. \A j \in Invocations : Terminal(j) => inv'[j] = inv[j] /\ ~Live(j) /\ inv[j] # "absent"
  BY EndedInvocationKept DEF Terminal, Live, InvocationTerminal
<1>4. ASSUME NEW i \in Invocations, Prepares(i)
      PROVE  WorktreeInv'
  <2>1. /\ \A j \in Invocations \ {i} : /\ inv'[j] = inv[j] /\ cleanup'[j] = cleanup[j]
                                       /\ worktree'[j] = worktree[j]
        /\ inv[i] = "absent" /\ inv'[i] = "pending" /\ worktree'[i] = (i \in Writers)
        /\ cleanup'[i] = IF i \in Writers THEN "pending" ELSE "none"
        /\ releasing' = releasing
    BY <1>1, <1>4 DEF Prepares, Unprepared, memory
  <2>2. i \notin releasing
    BY <1>3, <2>1 DEF WorktreeInv
  <2>3. ASSUME NEW j \in Writers
        PROVE  /\ Live(j)' => worktree'[j]
               /\ cleanup'[j] = "released" => (Terminal(j)' /\ ~worktree'[j])
               /\ worktree'[j] => (cleanup'[j] = "pending" \/ inv'[j] = "absent")
    BY <1>1, <2>1 DEF WorktreeInv, WorktreeAccounted, Live, Terminal
  <2>4. \A j \in Invocations : cleanup'[j] # "none" => (j \in Writers /\ inv'[j] # "absent")
    BY <2>1 DEF WorktreeInv
  <2>5. \A j \in releasing' : cleanup'[j] = "pending" /\ Terminal(j)'
    BY <1>1, <2>1, <2>2 DEF WorktreeInv, Terminal
  <2>6. QED
    BY <2>3, <2>4, <2>5 DEF WorktreeInv, WorktreeAccounted
<1>5. ASSUME NEW i \in Invocations, RemoveWorktree(i)
      PROVE  WorktreeInv'
  <2>1. /\ inv' = inv /\ cleanup' = cleanup /\ releasing' = releasing
        /\ Terminal(i) /\ \A j \in Invocations : worktree'[j] => worktree[j]
        /\ \A j \in Invocations \ {i} : worktree'[j] = worktree[j]
    BY <1>1, <1>5 DEF RemoveWorktree, WorktreeInv, rows, memory
  <2>2. ~Live(i)
    BY <2>1 DEF Terminal, Live, InvocationTerminal
  <2>3. QED
    BY <1>1, <2>1, <2>2 DEF WorktreeInv, WorktreeAccounted, Live, Terminal
<1>6. ASSUME NEW i \in Invocations, RecordReleased(i)
      PROVE  WorktreeInv'
  <2>1. /\ inv' = inv /\ worktree' = worktree /\ releasing' = releasing \ {i}
        /\ Terminal(i) /\ ~worktree[i] /\ cleanup[i] = "pending" /\ cleanup'[i] = "released"
        /\ \A j \in Invocations \ {i} : cleanup'[j] = cleanup[j]
    BY <1>1, <1>6 DEF RecordReleased, WorktreeInv
  <2>2. QED
    BY <1>1, <2>1 DEF WorktreeInv, WorktreeAccounted, Live, Terminal
<1>7. ASSUME /\ cleanup' = cleanup
             /\ releasing' \subseteq releasing \cup Outstanding(inv')
             /\ \/ worktree' = worktree
                \/ \E i \in Writers : inv[i] = "absent" /\ worktree' = [worktree EXCEPT ![i] = TRUE],
             \A j \in Invocations : /\ inv'[j] = "absent" <=> inv[j] = "absent"
                                    /\ inv'[j] \in {"pending", "running"} => Live(j)
      PROVE  WorktreeInv'
  <2>1. ASSUME NEW i \in Writers
        PROVE  /\ Live(i)' => worktree'[i]
               /\ cleanup'[i] = "released" => (Terminal(i)' /\ ~worktree'[i])
               /\ worktree'[i] => (cleanup'[i] = "pending" \/ inv'[i] = "absent")
    <3>1. worktree'[i] = worktree[i] \/ (inv[i] = "absent" /\ worktree'[i])
      BY <1>1, <1>7
    <3>2. /\ Live(i) => worktree[i]
          /\ cleanup[i] = "released" => (Terminal(i) /\ ~worktree[i])
          /\ worktree[i] => (cleanup[i] = "pending" \/ inv[i] = "absent")
      BY DEF WorktreeInv, WorktreeAccounted
    <3>3. Live(i)' => Live(i) /\ inv[i] # "absent"
      BY <1>1, <1>7 DEF Live
    <3>4. cleanup'[i] = cleanup[i] /\ (Terminal(i) => Terminal(i)' /\ inv[i] # "absent")
      BY <1>1, <1>3, <1>7 DEF Terminal
    <3>5. QED
      BY <1>1, <1>7, <3>1, <3>2, <3>3, <3>4
  <2>2. \A i \in Invocations : cleanup'[i] # "none" => (i \in Writers /\ inv'[i] # "absent")
    BY <1>7 DEF WorktreeInv
  <2>3. \A i \in releasing' : cleanup'[i] = "pending" /\ Terminal(i)'
    BY <1>1, <1>3, <1>7 DEF WorktreeInv, Outstanding, Terminal
  <2>4. QED
    BY <2>1, <2>2, <2>3 DEF WorktreeInv, WorktreeAccounted
<1>8. QED
  BY <1>4, <1>5, <1>6, <1>7, InvocationSteps, WorktreeSteps

LEMMA WorktreeInvariant == Spec => [](ExecInv /\ WorktreeInv)
<1>1. Init => ExecInv /\ WorktreeInv
  BY ExecInvInit, ConstantsAssumption
     DEF Init, WorktreeInv, WorktreeAccounted, Live, ConstantsAssumption
<1>2. ExecInv /\ WorktreeInv /\ [Next]_vars => ExecInv' /\ WorktreeInv'
  BY ExecInvStep, WorktreeInvStep
<1>3. QED
  BY <1>1, <1>2, PTL DEF Spec

\* A worktree outlives every Attempt that may use it, is recorded released only once it
\* is gone, and is never forgotten, through failed releases, cancellations, crashes and
\* recoveries (workspace-cleanup.ts, prepare, finalize, RecoveryService.reconcile).
THEOREM WorktreeSafety == Spec => []WorktreeAccounted
<1>1. WorktreeInv => WorktreeAccounted
  BY DEF WorktreeInv
<1>2. QED
  BY <1>1, WorktreeInvariant, PTL

-----------------------------------------------------------------------------
\* classifyAttempt succeeds an Attempt only on a valid completion no interruption reached.
LEMMA SucceedsValid ==
  ASSUME NEW completion \in Completions, NEW valid \in BOOLEAN,
         NEW interruption \in Interruptions \cup {"none"}, NEW exhausted \in BOOLEAN,
         Classify(completion, valid, interruption, exhausted).status = "succeeded"
  PROVE  completion = "valid" /\ valid
  BY DEF Classify, ClassifyCompletion, UnlessExhausted, FailedAs, Ended, Interruptions, Completions

\* A result is recorded only from the turn the provider completed, in a worktree that
\* still exists, with the writer's Changeset collected from it, and never after the turn
\* requested a Decision or was interrupted (classifyAttempt and finalize, whatever came in
\* between).
THEOREM CompletedTurnOnly == Spec => ResultIsTheCompletedTurn
<1> DEFINE Completed == \A i \in Invocations : Succeeds(i) =>
                          /\ flight[i].outcome = "valid" /\ flight[i].cause = "none"
                          /\ i \in Writers => (flight[i].changeset /\ worktree[i])
                          /\ request[i] = "none"
<1>1. ExecInv /\ WorktreeInv /\ [Next]_vars => [Completed]_vars
  <2> SUFFICES ASSUME ExecInv, WorktreeInv, [Next]_vars, NEW i \in Invocations, Succeeds(i)
               PROVE  /\ flight[i].outcome = "valid" /\ flight[i].cause = "none"
                      /\ i \in Writers => (flight[i].changeset /\ worktree[i])
                      /\ request[i] = "none"
    OBVIOUS
  <2>1. Finalize(i) /\ Classified(i).status = "succeeded"
    BY SucceedsByFinalize DEF ExecInv
  <2>2. request[i] = "none"
    BY <2>1 DEF Classified, FailedAs, Ended
  <2>3. flight[i].outcome = "valid" /\ ResultValid(i)
    <3>1. flight[i].outcome \in Reportable /\ flight[i].cause \in Interruptions \cup {"none"}
      BY <2>1 DEF ExecInv, TypeInv, TypeOK, OutcomeKnown, Flights, Finalize
    <3>2. InterruptionOf(i) \in Interruptions \cup {"none"}
      BY <3>1 DEF InterruptionOf, ImposedInterruption, Interruptions
    <3>3. Classified(i) = Classify(flight[i].outcome, ResultValid(i), InterruptionOf(i),
                                   MoreUsed(usage[i], flight[i].spent) = "over")
      BY <2>2 DEF Classified
    <3>4. PICK valid \in BOOLEAN, exhausted \in BOOLEAN :
            valid = ResultValid(i) /\ exhausted = (MoreUsed(usage[i], flight[i].spent) = "over")
      BY DEF ResultValid
    <3>5. Classify(flight[i].outcome, valid, InterruptionOf(i), exhausted).status = "succeeded"
      BY <2>1, <3>3, <3>4
    <3>6. flight[i].outcome = "valid" /\ valid
      BY <3>1, <3>2, <3>5, SucceedsValid DEF Reportable
    <3>7. QED
      BY <3>4, <3>6
  <2>4. Live(i)
    BY <2>1 DEF Finalize, InFlight, ExecInv, FlightsMatchRows, OneAttemptAtATime, Live
  <2>5. flight[i].cause = "none"
    <3>1. InterruptionOf(i) = "none"
      BY <2>1, SucceedsUninterrupted DEF Finalize, ExecInv
    <3>2. QED
      BY <3>1 DEF InterruptionOf
  <2>6. QED
    BY <2>2, <2>3, <2>4, <2>5 DEF ResultValid, WorktreeInv, WorktreeAccounted
<1>2. ResultIsTheCompletedTurn <=> [][Completed]_vars
  BY DEF ResultIsTheCompletedTurn
<1> HIDE DEF Completed
<1>3. QED
  BY WorktreeInvariant, <1>1, <1>2, PTL DEF Spec

-----------------------------------------------------------------------------
\* An Invocation between two Attempts left the last one with a permitted retry, and one
\* that has no row has no Attempt.
ProgressInv == GoesOn /\ \A i \in Invocations : inv[i] = "absent" => tries[i] = 0

\* The Invocation an Attempt leaves open may prepare its next one: decideRetry permitted
\* it, so nothing that refuses a retry held.
LEMMA OpenMayRetry ==
  ASSUME NEW ended \in EndedAttempts, NEW previous, NEW handedOver \in BOOLEAN, NEW last, NEW l,
         NEW timed, NEW retry \in RetryDecisions(ended, previous, handedOver, last, l, timed),
         SettledStatus(ended, retry, handedOver) = "running"
  PROVE  retry = "permitted" /\ ~handedOver /\ ~last /\ ~l
<1> DEFINE refuses == RefusesRetry(ended, previous, handedOver, last, l)
<1>1. retry = "permitted" /\ ended.status # "succeeded"
  BY SettledType DEF SettledStatus
<1>2. ~refuses
  BY <1>1 DEF RetryDecisions
<1>3. QED
  BY <1>1, <1>2 DEF RefusesRetry

LEMMA GoesOnFinalize ==
  ASSUME ExecInv, ProgressInv, NEW i \in Invocations, Finalize(i),
         \A j \in Invocations : inv'[j] \in {"pending", "running"} => Live(j)
  PROVE  GoesOn'
<1> DEFINE n == flight[i].number
           last == n >= MaxAttempts
<1>1. Running(i) = {n} /\ n = tries[i] /\ n \in Numbers
  BY DEF Finalize, InFlight, ExecInv, FlightsMatchRows, OneAttemptAtATime, Running
<1>2. /\ att \in [Invocations -> [Numbers -> AttemptRows]] /\ inv \in [Invocations -> InvocationStatuses \cup {"absent"}]
      /\ tries \in [Invocations -> 0..MaxAttempts] /\ MaxAttempts \in Nat /\ Numbers = 1..MaxAttempts
  BY ConstantsAssumption DEF ConstantsAssumption, ExecInv, TypeInv, TypeOK, Numbers
<1>3. Classified(i) \in EndedAttempts /\ HandsOver(i) \in BOOLEAN
  BY ClassifiedType DEF Finalize, ExecInv
<1>4. PICK retry \in RetryDecisions(Classified(i), PreviousClass(i, n), HandsOver(i),
                                    last, late[i], i \in Timed) :
        /\ att' = [att EXCEPT ![i][n] = EndedRow(Classified(i), retry)]
        /\ waiting' = IF BacksOff(Classified(i), retry) THEN waiting \cup {i} ELSE waiting
        /\ \E tasks :
             Converge({RunOf[i]} \cap CancelledRuns(run),
                      [inv EXCEPT ![i] = SettledStatus(Classified(i), retry, HandsOver(i))],
                      tasks, Executing \ {i})
  BY DEF Finalize
<1>5. tries' = tries /\ request' = request /\ late' = late
  BY DEF Finalize
<1> DEFINE settled == SettledStatus(Classified(i), retry, HandsOver(i))
<1> SUFFICES ASSUME NEW j \in Invocations, Live(j)', tries'[j] > 0, Running(j)' = {}
             PROVE  /\ att'[j][tries'[j]].retry = "permitted"
                    /\ tries'[j] < MaxAttempts
                    /\ request'[j] = "none"
                    /\ j \in waiting' => ~late'[j]
  BY DEF GoesOn
<1>6. CASE j = i
  <2> DEFINE status == [inv EXCEPT ![i] = settled]
  <2>1. settled = "running"
    <3>1. status[i] = settled
      BY <1>2
    <3> HIDE DEF status, settled
    <3>2. PICK tasks : Converge({RunOf[i]} \cap CancelledRuns(run), status, tasks, Executing \ {i})
      BY <1>4 DEF status, settled
    <3>3. settled \in {"pending", "running"}
      BY <1>6, <3>1, <3>2, ConvergeCancels DEF Live
    <3>4. QED
      BY <1>3, <3>3, SettledType DEF settled, InvocationTerminal
  <2>2. retry = "permitted" /\ ~HandsOver(i) /\ ~last /\ ~late[i]
    BY <1>3, <1>4, <2>1, OpenMayRetry
  <2>3. att'[i][n].retry = "permitted"
    BY <1>1, <1>2, <1>4, <2>2 DEF EndedRow
  <2>4. QED
    BY <1>1, <1>2, <1>5, <1>6, <2>2, <2>3 DEF HandsOver
<1>7. CASE j # i
  <2>1. att'[j] = att[j] /\ (j \in waiting' <=> j \in waiting)
    BY <1>2, <1>4, <1>7
  <2>2. Live(j) /\ Running(j) = {}
    BY <2>1 DEF Live, Running
  <2>3. QED
    BY <1>5, <2>1, <2>2 DEF ProgressInv, GoesOn
<1>8. QED
  BY <1>6, <1>7

\* Recovery leaves open only what it permitted another Attempt.
LEMMA GoesOnReconcile ==
  ASSUME ExecInv, ProgressInv, Reconcile,
         \A j \in Invocations : inv'[j] \in {"pending", "running"} => Live(j)
  PROVE  GoesOn'
<1>1. /\ tries \in [Invocations -> 0..MaxAttempts] /\ MaxAttempts \in Nat
      /\ request \in [Invocations -> {"none", "open", "answered"}]
  BY ConstantsAssumption DEF ConstantsAssumption, ExecInv, TypeInv, TypeOK
<1>2. /\ tries' = tries /\ request' = request /\ late' = late /\ waiting' = waiting
      /\ att' = [i \in Invocations |-> RecoveredAttempts(i)]
  BY DEF Reconcile
<1>3. PICK ended, tasks, status :
        /\ status = [i \in Invocations |-> IF i \in Executing THEN RecoveredStatus(i) ELSE inv[i]]
        /\ Converge(ended, status, tasks, {})
  BY DEF Reconcile
<1> SUFFICES ASSUME NEW j \in Invocations, Live(j)', tries'[j] > 0, Running(j)' = {}
             PROVE  /\ att'[j][tries'[j]].retry = "permitted"
                    /\ tries'[j] < MaxAttempts
                    /\ request'[j] = "none"
                    /\ j \in waiting' => ~late'[j]
  BY DEF GoesOn
<1>4. CASE Running(j) # {}
  <2>1. tries[j] \in Running(j) /\ tries[j] \in Numbers
    BY <1>4 DEF ExecInv, OneAttemptAtATime, Running
  <2>2. RecoveredStatus(j) = "running"
    <3>1. status[j] = RecoveredStatus(j)
      BY <1>3, <1>4 DEF Executing
    <3>2. RecoveredStatus(j) \in {"pending", "running"}
      BY <1>3, <3>1, ConvergeCancels DEF Live
    <3>3. QED
      BY <3>2, RecoveredType DEF ExecInv, InvocationTerminal
  <2>3. RecoveredEnd(j) \in EndedAttempts /\ RecoveredEnd(j).status # "succeeded"
    BY RecoveredType DEF ExecInv, RecoveredEnd, Ended
  <2>4. RecoveredRetry(j) = "permitted" /\ request[j] = "none"
    BY <2>2, <2>3, SettledType DEF RecoveredStatus, SettledStatus
  <2>5. ~(tries[j] >= MaxAttempts) /\ ~late[j]
    BY <2>4 DEF RecoveredRetry, RefusesRetry
  <2>6. att'[j][tries[j]].retry = "permitted"
    BY <1>2, <2>1, <2>4 DEF RecoveredAttempts, EndedRow
  <2>7. QED
    BY <1>1, <1>2, <2>4, <2>5, <2>6
<1>5. CASE Running(j) = {}
  <2>1. tries[j] > 0 /\ Live(j)
    BY <1>2 DEF Live
  <2>2. tries[j] \in Numbers
    BY <1>1, <2>1 DEF Numbers
  <2>3. att'[j][tries[j]] = att[j][tries[j]]
    BY <1>2, <1>5, <2>2 DEF RecoveredAttempts
  <2>4. QED
    BY <1>2, <1>5, <2>1, <2>3 DEF ProgressInv, GoesOn
<1>6. QED
  BY <1>4, <1>5

\* A step that ends no Attempt changes what an Invocation between two of them may count on
\* only by starting the next one.
LEMMA GoesOnKept ==
  ASSUME ExecInv, ProgressInv, UNCHANGED <<tries, att>>,
         \A j \in Invocations : Live(j)' => Live(j) \/ tries[j] = 0,
         \A j \in Invocations : request[j] = "none" /\ Running(j) = {} => request'[j] = "none",
         waiting' \subseteq waiting,
         \A j \in waiting' : late'[j] => late[j]
  PROVE  GoesOn'
<1> SUFFICES ASSUME NEW j \in Invocations, Live(j)', tries'[j] > 0, Running(j)' = {}
             PROVE  /\ att'[j][tries'[j]].retry = "permitted"
                    /\ tries'[j] < MaxAttempts
                    /\ request'[j] = "none"
                    /\ j \in waiting' => ~late'[j]
  BY DEF GoesOn
<1>1. tries[j] > 0 /\ ~(tries[j] = 0) /\ Running(j) = {}
  BY DEF Running, ExecInv, TypeInv, TypeOK
<1>2. Live(j)
  BY <1>1
<1>3. QED
  BY <1>1, <1>2 DEF ProgressInv, GoesOn

LEMMA ProgressInvStep ==
  ASSUME ExecInv, ProgressInv, [Next]_vars
  PROVE  ProgressInv'
<1> USE DEF rows, UnchangedRows, memory
<1>1. /\ tries \in [Invocations -> 0..MaxAttempts] /\ waiting \subseteq Invocations
      /\ inv \in [Invocations -> InvocationStatuses \cup {"absent"}]
      /\ request \in [Invocations -> {"none", "open", "answered"}]
      /\ late \in [Invocations -> BOOLEAN]
      /\ att \in [Invocations -> [Numbers -> AttemptRows]]
  BY DEF ExecInv, TypeInv, TypeOK
<1> DEFINE Opened == \E i \in Invocations : Prepares(i)
           Kept == \A j \in Invocations : /\ inv'[j] = "absent" <=> inv[j] = "absent"
                                          /\ inv'[j] \in {"pending", "running"} => Live(j)
           Quiet == /\ UNCHANGED <<tries, att>>
                    /\ \A j \in Invocations :
                         request[j] = "none" /\ Running(j) = {} => request'[j] = "none"
                    /\ waiting' \subseteq waiting
                    /\ \A j \in waiting' : late'[j] => late[j]
<1>2. Opened \/ Kept
  BY InvocationSteps
<1>3. ASSUME NEW i \in Invocations, Prepares(i)
      PROVE  /\ Quiet /\ tries[i] = 0
             /\ \A j \in Invocations \ {i} : inv'[j] = inv[j]
             /\ inv'[i] # "absent"
  BY <1>1, <1>3 DEF Prepares, Unprepared, ProgressInv
<1>4. ASSUME NEW i \in Invocations, InvocationStep(i), ~PrepareAttempt(i), ~Finalize(i)
      PROVE  Quiet
  BY <1>1, <1>4 DEF InvocationStep, PrepareInvocation, Prepares, ResolveContinuation, RefuseExhausted,
              RefuseOtherwise, CallProvider, NotDispatched, ProviderReturns, RequestDecision,
              AnswerDecision, CollectChangeset, ExecutionFails, ExecuteAgain, EnforceDeadline,
              DeadlinePasses, BackoffElapses, RemoveWorktree, RecordReleased, ReleaseFails
<1>5. ASSUME NEW r \in Runs, RunStep(r)
      PROVE  Quiet
  BY <1>5 DEF RunStep, CancelRun, PauseRun, ResumeRun, StartRun, RequestChanges,
              MoveRunAndPrepare, Prepares, WaitRun, ClearWait, BeginVerification,
              AwaitSignoff, FailVerification, CompleteRun, FailRun, MoveRun
<1>6. ASSUME ProcessStep, ~Reconcile
      PROVE  Quiet
  BY <1>6 DEF ProcessStep, Shutdown, ProcessEnds, OpenAdmission
<1>7. CASE UNCHANGED vars
  BY <1>7 DEF vars, ProgressInv, GoesOn, Live, Running
<1>8. CASE Quiet
  <2>1. \A j \in Invocations : Live(j)' => Live(j) \/ tries[j] = 0
    BY <1>1, <1>2, <1>3 DEF Live
  <2>2. GoesOn'
    BY <1>8, <2>1, GoesOnKept
  <2>3. \A j \in Invocations : inv'[j] = "absent" => tries'[j] = 0
    BY <1>2, <1>3, <1>8 DEF ProgressInv
  <2>4. QED
    BY <2>2, <2>3 DEF ProgressInv
<1>9. ASSUME NEW i \in Invocations, PrepareAttempt(i)
      PROVE  ProgressInv'
  <2>1. PICK n \in Numbers : /\ tries' = [tries EXCEPT ![i] = n]
                             /\ att' = [att EXCEPT ![i][n] = RunningAttempt]
    <3>1. tries[i] + 1 \in Numbers
      BY <1>1, <1>9, ConstantsAssumption DEF PrepareAttempt, Permitted, AllocationLeft, Numbers,
         ConstantsAssumption
    <3>2. QED
      BY <1>9, <3>1 DEF PrepareAttempt
  <2>2. /\ inv' = [inv EXCEPT ![i] = "running"] /\ request' = request
        /\ waiting' = waiting /\ late' = late
    BY <1>9 DEF PrepareAttempt
  <2>3. Running(i)' # {}
    BY <1>1, <2>1 DEF Running, RunningAttempt
  <2>4. ASSUME NEW j \in Invocations \ {i}
        PROVE  att'[j] = att[j] /\ tries'[j] = tries[j] /\ inv'[j] = inv[j]
    BY <1>1, <2>1, <2>2
  <2>5. GoesOn'
    BY <2>2, <2>3, <2>4 DEF ProgressInv, GoesOn, Live, Running
  <2>6. \A j \in Invocations : inv'[j] = "absent" => tries'[j] = 0
    BY <1>1, <2>2, <2>4 DEF ProgressInv
  <2>7. QED
    BY <2>5, <2>6 DEF ProgressInv
<1>10. ASSUME Kept, tries' = tries, GoesOn'
       PROVE  ProgressInv'
  BY <1>10 DEF ProgressInv
<1>11. ASSUME NEW i \in Invocations, Finalize(i)
       PROVE  ProgressInv'
  <2>1. flight[i].phase = "collected" /\ flight'[i] = NoFlight /\ tries' = tries
    BY <1>11 DEF Finalize, ExecInv, TypeInv, TypeOK
  <2>2. ~Opened
    BY <2>1 DEF Prepares, NoFlight
  <2>3. Kept
    BY <1>2, <2>2
  <2>4. QED
    BY <1>10, <1>11, <2>1, <2>3, GoesOnFinalize
<1>12. ASSUME Reconcile
       PROVE  ProgressInv'
  <2>1. Kept /\ tries' = tries
    BY <1>2, <1>12 DEF Reconcile, Prepares
  <2>2. QED
    BY <1>10, <1>12, <2>1, GoesOnReconcile
<1>13. QED
  BY <1>4, <1>5, <1>6, <1>7, <1>8, <1>9, <1>11, <1>12 DEF Next

\* An Invocation that has executed, has not ended and executes nothing always has a next
\* Attempt to prepare: a permitted retry, an Attempt of its allocation, no Decision it
\* waits for and no deadline behind its backoff (decideRetry, settleInvocation, recovery).
THEOREM AlwaysANextAttempt == Spec => []GoesOn
<1>1. Init => ExecInv /\ ProgressInv
  BY ExecInvInit DEF Init, ProgressInv, GoesOn, Live
<1>2. ExecInv /\ ProgressInv /\ [Next]_vars => ExecInv' /\ ProgressInv'
  BY ExecInvStep, ProgressInvStep
<1>3. ProgressInv => GoesOn
  BY DEF ProgressInv
<1>4. QED
  BY <1>1, <1>2, <1>3, PTL DEF Spec

-----------------------------------------------------------------------------
(***************************************************************************)
(* The lifecycle of an Invocation.  That a cancellation settles what does  *)
(* not execute is an invariant of the rows; it needs that the Task of an   *)
(* Invocation never prepared is not running.  The refinement needs it for  *)
(* the Invocations that convergence must leave alone, and needs that an    *)
(* Attempt is cancelled in memory only in a Run that has ended.            *)
(***************************************************************************)

\* An Attempt whose flight was cancelled belongs to a Run that ended without completing.
CancelledByRun ==
  \A i \in Invocations : flight[i].cause = "cancelled" => Row(i).status \in {"cancelled", "failed"}

LifeInv ==
  /\ ExecInv /\ RunRowsConsistent /\ EndedRunsSettled /\ CancelledByRun
  /\ \A i \in Invocations : inv[i] = "absent" => task[i] # "running"

\* The steps of an Invocation that write neither its rows, nor its Attempts, nor its Task.
LEMMA QuietSteps ==
  ASSUME NEW i \in Invocations, InvocationStep(i),
         ~PrepareInvocation(i), ~PrepareAttempt(i), ~RefuseExhausted(i), ~Finalize(i)
  PROVE  UNCHANGED <<run, inv, tries, att, task>>
  BY DEF InvocationStep, ResolveContinuation, RefuseOtherwise, CallProvider, NotDispatched,
         ProviderReturns, RequestDecision, AnswerDecision, CollectChangeset, ExecutionFails,
         ExecuteAgain, EnforceDeadline, DeadlinePasses, BackoffElapses, RemoveWorktree,
         RecordReleased, ReleaseFails, rows, UnchangedRows, memory

\* Convergence settles whatever of its Runs does not execute.
LEMMA ConvergeSettles ==
  ASSUME NEW ended, NEW active, NEW status, NEW tasks, Converge(ended, status, tasks, active),
         NEW j \in Invocations, RunOf[j] \in ended, j \notin active,
         status[j] \in InvocationStatuses \cup {"absent"}, tasks[j] \in TaskStatuses,
         status[j] = "absent" => tasks[j] # "running"
  PROVE  /\ inv'[j] \notin {"pending", "running"}
         /\ task'[j] \in {"completed", "failed", "cancelled"}
<1>1. /\ inv'[j] = IF status[j] \in {"pending", "running"} THEN "cancelled" ELSE status[j]
      /\ task'[j] = IF \/ tasks[j] \in {"ready", "blocked"}
                       \/ tasks[j] = "running" /\ inv'[j] \in InvocationTerminal
                    THEN "cancelled" ELSE tasks[j]
  BY DEF Converge, ConvergedInvocations, ConvergedTasks, Of
<1>2. QED
  BY <1>1 DEF InvocationStatuses, InvocationTerminal, TaskStatuses

\* Convergence leaves the rows of every other Run alone.
LEMMA ConvergeElsewhere ==
  ASSUME NEW ended, NEW active, NEW status, NEW tasks, Converge(ended, status, tasks, active),
         NEW j \in Invocations, RunOf[j] \notin ended
  PROVE  inv'[j] = status[j] /\ task'[j] = tasks[j]
  BY DEF Converge

\* A step that leaves the rows of an Invocation alone keeps it settled unless its Run ends.
LEMMA SettledKept ==
  ASSUME NEW j \in Invocations, Settled(j),
         Row(j)'.status = Row(j).status \/ Row(j)'.status \notin {"cancelled", "completed"},
         inv'[j] = inv[j], task'[j] = task[j], Running(j) # {} => Running(j)' # {}
  PROVE  Settled(j)'
  BY DEF Settled, Live

\* A Run row is moved to an end only by the operator's cancellation, by its completion
\* and by its failure; what a pause or a resumption writes is open.
LEMMA RunStatusSteps ==
  ASSUME TypeInv, NEW r \in Runs, RunStep(r), NEW q \in Runs
  PROVE  \/ run'[q].status = run[q].status
         \/ run'[q].status \notin {"cancelled", "completed"}
         \/ q = r /\ (CancelRun(r) \/ CompleteRun(r))
<1>1. run \in [Runs -> RunRows]
  BY DEF TypeInv, TypeOK
<1>2. CASE q # r
  BY <1>1, <1>2 DEF RunStep, CancelRun, PauseRun, ResumeRun, StartRun, RequestChanges,
       MoveRunAndPrepare, Prepares, WaitRun, ClearWait, BeginVerification,
       AwaitSignoff, FailVerification, CompleteRun, FailRun, MoveRun
<1>3. CASE q = r /\ \E mode \in PauseModes : PauseRun(r, mode)
  BY <1>1, <1>3 DEF PauseRun, Paused
<1>4. CASE q = r /\ ResumeRun(r)
  BY <1>1, <1>4 DEF ResumeRun, Resumed
<1>5. ASSUME q = r, NEW to, NEW reason, run' = [run EXCEPT ![r] = Moved(@, to, reason)],
             to \notin {"cancelled", "completed"}
      PROVE  run'[q].status \notin {"cancelled", "completed"}
  BY <1>1, <1>5 DEF Moved
<1>6. CASE q = r /\ (StartRun(r) \/ RequestChanges(r) \/ WaitRun(r) \/ ClearWait(r)
                     \/ BeginVerification(r) \/ AwaitSignoff(r) \/ FailVerification(r) \/ FailRun(r))
  BY <1>5, <1>6 DEF StartRun, RequestChanges, MoveRunAndPrepare, WaitRun, ClearWait,
       BeginVerification, AwaitSignoff, FailVerification, FailRun, MoveRun
<1>7. QED
  BY <1>2, <1>3, <1>4, <1>6 DEF RunStep

\* Every step leaves what a cancelled Run no longer executes settled, and nothing open in a
\* completed one.
LEMMA SettledStep ==
  ASSUME LifeInv, [Next]_vars
  PROVE  EndedRunsSettled'
<1> USE DEF rows, UnchangedRows, memory
<1>1. /\ run \in [Runs -> RunRows]
      /\ inv \in [Invocations -> InvocationStatuses \cup {"absent"}]
      /\ task \in [Invocations -> TaskStatuses]
      /\ \A j \in Invocations : Settled(j) /\ (inv[j] = "absent" => task[j] # "running")
      /\ \A j \in Invocations : RunOf[j] \in Runs
  BY ConstantsAssumption DEF LifeInv, ExecInv, TypeInv, TypeOK, EndedRunsSettled, ConstantsAssumption
<1>2. ASSUME NEW i \in Invocations, PrepareInvocation(i) \/ PrepareAttempt(i) \/ RefuseExhausted(i)
      PROVE  EndedRunsSettled'
  <2>1. Row(i).status \notin RunTerminal /\ run' = run
    BY <1>2 DEF PrepareInvocation, Preparable, PrepareAttempt, Permitted, RefuseExhausted, Exhausted,
                Admissible, AdmitsNewWork
  <2>2. \A j \in Invocations \ {i} : inv'[j] = inv[j] /\ task'[j] = task[j] /\ att'[j] = att[j]
    BY <1>1, <1>2 DEF PrepareInvocation, Prepares, PrepareAttempt, RefuseExhausted, LifeInv, ExecInv,
                TypeInv, TypeOK
  <2>3. \A j \in Invocations \ {i} : Settled(j)'
    BY <1>1, <2>1, <2>2, SettledKept DEF Row, Running
  <2>4. Settled(i)'
    BY <2>1 DEF Settled, Row, RunTerminal
  <2>5. QED
    BY <2>3, <2>4 DEF EndedRunsSettled
<1>3. ASSUME NEW i \in Invocations, InvocationStep(i), ~PrepareInvocation(i), ~PrepareAttempt(i),
             ~RefuseExhausted(i), ~Finalize(i)
      PROVE  EndedRunsSettled'
  BY <1>1, <1>3, QuietSteps DEF EndedRunsSettled, Settled, Row, Running, Live
<1>4. ASSUME NEW i \in Invocations, Finalize(i)
      PROVE  EndedRunsSettled'
  <2>1. Running(i) # {} /\ inv[i] = "running" /\ Row(i).status # "completed"
    BY <1>1, <1>4 DEF Finalize, InFlight, LifeInv, ExecInv, FlightsMatchRows, OneAttemptAtATime, Settled, Live
  <2>2. PICK retry, report :
          /\ report \in SettledTasks(SettledStatus(Classified(i), retry, HandsOver(i)))
          /\ Converge({RunOf[i]} \cap CancelledRuns(run),
                      [inv EXCEPT ![i] = SettledStatus(Classified(i), retry, HandsOver(i))],
                      [task EXCEPT ![i] = IF @ = "running" THEN report ELSE @],
                      Executing \ {i})
          /\ \E row : att' = [att EXCEPT ![i][flight[i].number] = row]
          /\ run' = run
    BY <1>4 DEF Finalize
  <2> DEFINE ended == {RunOf[i]} \cap CancelledRuns(run)
             settled == SettledStatus(Classified(i), retry, HandsOver(i))
             status == [inv EXCEPT ![i] = settled]
             tasks == [task EXCEPT ![i] = IF @ = "running" THEN report ELSE @]
  <2>3. /\ \A j \in Invocations : status[j] \in InvocationStatuses \cup {"absent"} /\ tasks[j] \in TaskStatuses
        /\ \A j \in Invocations : status[j] = "absent" => tasks[j] # "running"
        /\ \A j \in Invocations \ {i} : status[j] = inv[j] /\ tasks[j] = task[j]
    <3>1. Classified(i) \in EndedAttempts /\ HandsOver(i) \in BOOLEAN
      BY <1>4, ClassifiedType DEF Finalize, LifeInv, ExecInv
    <3>2. settled \in InvocationTerminal \cup {"running"}
      BY <3>1, SettledType
    <3>3. report \in TaskStatuses
      BY <2>2, <3>2, SettledTaskType
    <3>4. settled # "absent" /\ settled \in InvocationStatuses
      BY <3>2 DEF InvocationTerminal, InvocationStatuses
    <3> HIDE DEF settled
    <3>5. QED
      BY <1>1, <3>3, <3>4
  <2>5. Converge(ended, status, tasks, Executing \ {i}) /\ run' = run
    BY <2>2
  <2>6. \A j \in Invocations \ {i} : Running(j)' = Running(j)
    BY <2>2 DEF Running, LifeInv, ExecInv, TypeInv, TypeOK
  <2>7. ended = IF Row(i).status = "cancelled" THEN {RunOf[i]} ELSE {}
    BY <1>1 DEF CancelledRuns, Row
  <2> HIDE DEF ended, status, tasks
  <2>4. ASSUME NEW j \in Invocations
        PROVE  Settled(j)'
    <3>1. CASE j = i /\ RunOf[j] \notin ended
      BY <2>1, <2>5, <2>7, <3>1 DEF Settled, Row
    <3>2. CASE j # i /\ RunOf[j] \notin ended
      <4>1. inv'[j] = inv[j] /\ task'[j] = task[j]
        BY <2>3, <2>5, <3>2, ConvergeElsewhere
      <4>2. QED
        BY <1>1, <2>5, <2>6, <3>2, <4>1, SettledKept DEF Row
    <3>3. CASE j \in Executing \ {i} /\ RunOf[j] \in ended
      <4>1. Row(j)'.status = "cancelled" /\ Running(j)' # {}
        BY <2>5, <2>6, <2>7, <3>3 DEF Row, Executing
      <4>2. QED
        BY <4>1 DEF Settled
    <3>4. CASE j \notin Executing \ {i} /\ RunOf[j] \in ended
      <4>1. Row(j)'.status = "cancelled"
        BY <2>5, <2>7, <3>4 DEF Row
      <4>2. inv'[j] \notin {"pending", "running"} /\ task'[j] \in {"completed", "failed", "cancelled"}
        BY <2>3, <2>5, <3>4, ConvergeSettles
      <4>3. QED
        BY <4>1, <4>2 DEF Settled, Live
    <3>5. QED
      BY <3>1, <3>2, <3>3, <3>4
  <2>8. QED
    BY <2>4 DEF EndedRunsSettled
<1>5. ASSUME NEW r \in Runs, RunStep(r)
      PROVE  EndedRunsSettled'
  <2>1. CASE CancelRun(r)
    <3>1. PICK ended :
            /\ Converge(ended, inv, task, Executing)
            /\ ended = IF run[r].status = "cancelled" THEN {} ELSE {r}
            /\ run' = [run EXCEPT ![r] = Moved(@, "cancelled", "none")]
            /\ att' = att
      BY <2>1 DEF CancelRun
    <3>2. ASSUME NEW j \in Invocations
          PROVE  Settled(j)'
      <4>1. Running(j)' = Running(j)
        BY <3>1 DEF Running
      <4>2. CASE RunOf[j] \notin ended
        <5>1. Row(j)'.status = Row(j).status
          BY <1>1, <3>1, <4>2 DEF Row, Moved
        <5>2. QED
          BY <1>1, <3>1, <4>1, <4>2, <5>1, ConvergeElsewhere, SettledKept
      <4>3. CASE RunOf[j] \in ended
        <5>1. Row(j)'.status = "cancelled"
          BY <1>1, <3>1, <4>3 DEF Row, Moved
        <5>2. CASE j \in Executing
          BY <4>1, <5>1, <5>2 DEF Settled, Executing
        <5>3. CASE j \notin Executing
          BY <1>1, <3>1, <4>3, <5>1, <5>3, ConvergeSettles DEF Settled, Live
        <5>4. QED
          BY <5>2, <5>3
      <4>4. QED
        BY <4>2, <4>3
    <3>3. QED
      BY <3>2 DEF EndedRunsSettled
  <2>2. CASE CompleteRun(r)
    <3>1. /\ inv' = inv /\ task' = task /\ att' = att
          /\ run' = [run EXCEPT ![r] = Moved(@, "completed", "none")]
          /\ Quiescent(r)
      BY <2>2 DEF CompleteRun, MoveRun
    <3>2. ASSUME NEW j \in Invocations
          PROVE  Settled(j)'
      <4>1. CASE RunOf[j] = r
        BY <1>1, <3>1, <4>1 DEF Quiescent, Of, Settled, Row, Moved, Live
      <4>2. CASE RunOf[j] # r
        BY <1>1, <3>1, <4>2, SettledKept DEF Row, Running
      <4>3. QED
        BY <4>1, <4>2
    <3>3. QED
      BY <3>2 DEF EndedRunsSettled
  <2>3. CASE ~CancelRun(r) /\ ~CompleteRun(r)
    <3>1. \A j \in Invocations : \/ Row(j)'.status = Row(j).status
                                 \/ Row(j)'.status \notin {"cancelled", "completed"}
      BY <1>1, <1>5, <2>3, RunStatusSteps DEF Row, LifeInv, ExecInv
    <3>2. CASE StartRun(r) \/ RequestChanges(r)
      <4>1. PICK i \in Invocations : RunOf[i] = r /\ Prepares(i)
        BY <3>2 DEF StartRun, RequestChanges, MoveRunAndPrepare, Of
      <4>2. Row(i)'.status = "running"
        BY <1>1, <3>2, <4>1 DEF StartRun, RequestChanges, MoveRunAndPrepare, Row, Moved
      <4>3. \A j \in Invocations \ {i} : inv'[j] = inv[j] /\ task'[j] = task[j] /\ att'[j] = att[j]
        BY <1>1, <4>1 DEF Prepares
      <4>4. \A j \in Invocations \ {i} : Settled(j)'
        BY <1>1, <3>1, <4>3, SettledKept DEF Running
      <4>5. QED
        BY <4>2, <4>4 DEF EndedRunsSettled, Settled
    <3>3. CASE ~(StartRun(r) \/ RequestChanges(r))
      <4>1. inv' = inv /\ task' = task /\ att' = att
        BY <1>5, <2>3, <3>3 DEF RunStep, PauseRun, ResumeRun, WaitRun, ClearWait, BeginVerification,
             AwaitSignoff, FailVerification, FailRun, MoveRun
      <4>2. \A j \in Invocations : Settled(j)'
        BY <1>1, <3>1, <4>1, SettledKept DEF Running
      <4>3. QED
        BY <4>2 DEF EndedRunsSettled
    <3>4. QED
      BY <3>2, <3>3
  <2>4. QED
    BY <2>1, <2>2, <2>3
<1>6. ASSUME Reconcile
      PROVE  EndedRunsSettled'
  <2>1. PICK ended, status, tasks :
          /\ status = [i \in Invocations |-> IF i \in Executing THEN RecoveredStatus(i) ELSE inv[i]]
          /\ tasks = [i \in Invocations |-> IF i \in Executing THEN RecoveredTask(i) ELSE task[i]]
          /\ ended = {RunOf[i] : i \in Executing} \cap CancelledRuns(run)
          /\ Converge(ended, status, tasks, {})
          /\ run' = run
    BY <1>6 DEF Reconcile
  <2>2. \A j \in Invocations :
          /\ status[j] \in InvocationStatuses \cup {"absent"} /\ tasks[j] \in TaskStatuses
          /\ status[j] = "absent" => tasks[j] # "running"
    <3>1. \A j \in Executing : status[j] \in InvocationStatuses \ {"absent"} /\ tasks[j] \in TaskStatuses
      BY <2>1, RecoveredType DEF Executing, LifeInv, ExecInv, InvocationTerminal, InvocationStatuses
    <3>2. \A j \in Invocations \ Executing : status[j] = inv[j] /\ tasks[j] = task[j]
      BY <2>1
    <3>3. QED
      BY <1>1, <3>1, <3>2
  <2>3. ASSUME NEW j \in Invocations
        PROVE  Settled(j)'
    <3>1. CASE RunOf[j] \in ended
      <4>1. inv'[j] \notin {"pending", "running"} /\ task'[j] \in {"completed", "failed", "cancelled"}
        BY <2>1, <2>2, <3>1, ConvergeSettles
      <4>2. QED
        BY <4>1 DEF Settled, Live
    <3>2. CASE RunOf[j] \notin ended /\ j \in Executing
      <4>1. Row(j).status \notin {"cancelled", "completed"}
        <5>1. Live(j) /\ j \in Invocations
          BY <3>2 DEF Executing, LifeInv, ExecInv, OneAttemptAtATime, Live
        <5>2. QED
          BY <1>1, <2>1, <3>2, <5>1 DEF CancelledRuns, Row, Settled
      <4>2. QED
        BY <2>1, <4>1 DEF Settled, Row
    <3>3. CASE RunOf[j] \notin ended /\ j \notin Executing
      <4>1. inv'[j] = inv[j] /\ task'[j] = task[j]
        BY <2>1, <3>3, ConvergeElsewhere
      <4>2. QED
        BY <1>1, <2>1, <3>3, <4>1, SettledKept DEF Row, Executing
    <3>4. QED
      BY <3>1, <3>2, <3>3
  <2>4. QED
    BY <2>3 DEF EndedRunsSettled
<1>7. CASE (ProcessStep /\ ~Reconcile) \/ UNCHANGED vars
  <2>1. UNCHANGED <<run, inv, task, att>>
    BY <1>7 DEF ProcessStep, Shutdown, ProcessEnds, OpenAdmission, vars
  <2>2. QED
    BY <1>1, <2>1 DEF EndedRunsSettled, Settled, Row, Running, Live
<1>8. QED
  BY <1>2, <1>3, <1>4, <1>5, <1>6, <1>7 DEF Next

\* A flight learns of a cancellation only from its Run's row, which then stays as it ended.
LEMMA CancelledByRunStep ==
  ASSUME LifeInv, [Next]_vars
  PROVE  CancelledByRun'
<1> USE DEF rows, UnchangedRows, memory
<1>1. /\ run \in [Runs -> RunRows] /\ flight \in [Invocations -> Flights]
      /\ \A j \in Invocations : RunOf[j] \in Runs /\ Settled(j)
  BY ConstantsAssumption DEF LifeInv, ExecInv, TypeInv, TypeOK, EndedRunsSettled, ConstantsAssumption
<1>2. \A j \in Invocations : Row(j).status \in {"cancelled", "failed"} => Row(j)' = Row(j)
  BY <1>1, EndedRunKept DEF LifeInv, ExecInv, RowInv, Row, RunTerminal
<1>3. ASSUME \A j \in Invocations : flight'[j].cause = "cancelled" =>
               \/ flight[j].cause = "cancelled"
               \/ Row(j)'.status \in {"cancelled", "failed"}
      PROVE  CancelledByRun'
  BY <1>2, <1>3 DEF CancelledByRun, LifeInv
<1>4. ASSUME NEW targets, NEW cause, flight' = Delivered(targets, cause), cause # "cancelled"
      PROVE  CancelledByRun'
  <2>1. \A j \in Invocations : flight'[j].cause = "cancelled" => flight[j].cause = "cancelled"
    BY <1>1, <1>4 DEF Delivered, Flights
  <2>2. QED
    BY <1>3, <2>1
<1>5. ASSUME flight' = flight
      PROVE  CancelledByRun'
  BY <1>3, <1>5
<1>6. ASSUME NEW i \in Invocations, InvocationStep(i)
      PROVE  CancelledByRun'
  <2>1. CASE NotDispatched(i)
    <3>1. InFlight(i)
      BY <2>1 DEF NotDispatched, InFlight
    <3>2. Live(i)
      BY <3>1 DEF LifeInv, ExecInv, FlightsMatchRows, OneAttemptAtATime, Live
    <3>3. Row(i).status # "completed" /\ Row(i)' = Row(i)
      BY <1>1, <2>1, <3>2 DEF Settled, NotDispatched, Row
    <3>4. flight' = [flight EXCEPT
            ![i].phase = "returned", ![i].outcome = "interrupted",
            ![i].cause = IF @ # "none" THEN @
                         ELSE IF Row(i).status \in RunTerminal THEN "cancelled"
                         ELSE "operator_pause"]
      BY <2>1 DEF NotDispatched
    <3>5. flight'[i].cause = IF flight[i].cause # "none" THEN flight[i].cause
                             ELSE IF Row(i).status \in RunTerminal THEN "cancelled"
                             ELSE "operator_pause"
      BY <1>1, <3>4 DEF Flights
    <3>6. \A j \in Invocations \ {i} : flight'[j] = flight[j]
      BY <1>1, <3>4
    <3>7. QED
      BY <1>3, <3>3, <3>5, <3>6 DEF RunTerminal
  <2>2. CASE EnforceDeadline(i)
    BY <1>4, <2>2 DEF EnforceDeadline
  <2>3. CASE PrepareAttempt(i)
    <3>1. flight' = [flight EXCEPT ![i] = NewFlight(tries[i] + 1)]
      BY <2>3 DEF PrepareAttempt
    <3>2. NewFlight(tries[i] + 1).cause = "none"
      BY DEF NewFlight, NoFlight
    <3>3. QED
      BY <1>1, <1>3, <3>1, <3>2
  <2>4. CASE Finalize(i)
    BY <1>1, <1>3, <2>4 DEF Finalize, NoFlight
  <2>5. CASE CallProvider(i) \/ ProviderReturns(i) \/ CollectChangeset(i) \/ ExecutionFails(i) \/ ExecuteAgain(i)
    <3>1. CASE CallProvider(i) \/ ExecutionFails(i) \/ ExecuteAgain(i)
      BY <1>1, <1>3, <3>1 DEF CallProvider, ExecutionFails, ExecuteAgain, Flights
    <3>2. CASE ProviderReturns(i)
      <4>1. PICK outcome, spent :
              flight' = [flight EXCEPT ![i].phase = "returned", ![i].outcome = outcome, ![i].spent = spent]
        BY <3>2 DEF ProviderReturns
      <4>2. QED
        BY <1>1, <1>3, <4>1 DEF Flights
    <3>3. CASE CollectChangeset(i)
      <4>1. PICK changeset :
              flight' = [flight EXCEPT ![i].phase = "collected", ![i].changeset = changeset]
        BY <3>3 DEF CollectChangeset
      <4>2. QED
        BY <1>1, <1>3, <4>1 DEF Flights
    <3>4. QED
      BY <2>5, <3>1, <3>2, <3>3
  <2>6. CASE PrepareInvocation(i) \/ ResolveContinuation(i) \/ RefuseExhausted(i) \/ RefuseOtherwise(i)
             \/ RequestDecision(i) \/ AnswerDecision(i) \/ DeadlinePasses(i) \/ BackoffElapses(i)
             \/ RemoveWorktree(i) \/ RecordReleased(i) \/ ReleaseFails(i)
    BY <1>5, <2>6 DEF PrepareInvocation, Prepares, ResolveContinuation, RefuseExhausted, RefuseOtherwise,
         RequestDecision, AnswerDecision, DeadlinePasses, BackoffElapses, RemoveWorktree,
         RecordReleased, ReleaseFails
  <2>7. QED
    BY <1>6, <2>1, <2>2, <2>3, <2>4, <2>5, <2>6 DEF InvocationStep
<1>7. ASSUME NEW r \in Runs, RunStep(r)
      PROVE  CancelledByRun'
  <2>1. CASE CancelRun(r)
    <3>1. ASSUME NEW j \in Invocations, flight'[j].cause = "cancelled"
          PROVE  flight[j].cause = "cancelled" \/ Row(j)'.status \in {"cancelled", "failed"}
      <4>1. CASE RunOf[j] = r
        BY <1>1, <2>1, <4>1 DEF CancelRun, Row, Moved
      <4>2. CASE RunOf[j] # r
        BY <1>1, <2>1, <3>1, <4>2 DEF CancelRun, Delivered, Of
      <4>3. QED
        BY <4>1, <4>2
    <3>2. QED
      BY <1>3, <3>1
  <2>2. CASE \E mode \in PauseModes : PauseRun(r, mode)
    BY <1>4, <1>5, <2>2 DEF PauseRun
  <2>3. CASE ~CancelRun(r) /\ ~\E mode \in PauseModes : PauseRun(r, mode)
    BY <1>5, <1>7, <2>3 DEF RunStep, ResumeRun, StartRun, RequestChanges, MoveRunAndPrepare, Prepares,
         WaitRun, ClearWait, BeginVerification, AwaitSignoff, FailVerification, CompleteRun, FailRun,
         MoveRun
  <2>4. QED
    BY <2>1, <2>2, <2>3
<1>8. CASE Shutdown
  BY <1>4, <1>8 DEF Shutdown
<1>9. CASE ProcessEnds
  BY <1>3, <1>9 DEF ProcessEnds, NoFlight
<1>10. CASE Reconcile \/ OpenAdmission \/ UNCHANGED vars
  BY <1>5, <1>10 DEF Reconcile, OpenAdmission, vars
<1>11. QED
  BY <1>6, <1>7, <1>8, <1>9, <1>10 DEF Next, ProcessStep

\* Convergence starts no Task.
LEMMA ConvergeStartsNothing ==
  ASSUME NEW ended, NEW status, NEW tasks, NEW active, Converge(ended, status, tasks, active),
         NEW j \in Invocations, tasks[j] # "running"
  PROVE  task'[j] # "running"
  BY DEF Converge, ConvergedTasks

\* The Task of an Invocation without a row is not running: both are written at once.
LEMMA UnpreparedTaskStep ==
  ASSUME LifeInv, [Next]_vars, NEW j \in Invocations, inv'[j] = "absent"
  PROVE  task'[j] # "running"
<1> USE DEF rows, UnchangedRows, memory
<1>1. /\ inv \in [Invocations -> InvocationStatuses \cup {"absent"}]
      /\ task \in [Invocations -> TaskStatuses]
  BY DEF LifeInv, ExecInv, TypeInv, TypeOK
<1>2. ASSUME NEW i \in Invocations, Prepares(i)
      PROVE  task'[j] # "running"
  <2>1. i # j
    BY <1>1, <1>2 DEF Prepares
  <2>2. inv[j] = "absent" /\ task'[j] = task[j]
    BY <1>1, <1>2, <2>1 DEF Prepares
  <2>3. QED
    BY <2>2 DEF LifeInv
<1>3. ASSUME ~\E i \in Invocations : Prepares(i)
      PROVE  inv[j] = "absent" /\ task[j] # "running" /\ Running(j) = {}
  <2>1. inv[j] = "absent"
    BY <1>3, InvocationSteps DEF LifeInv
  <2>2. QED
    BY <2>1 DEF LifeInv, ExecInv, OneAttemptAtATime
<1>5. CASE \E i \in Invocations : Finalize(i)
  <2>1. PICK i \in Invocations : Finalize(i)
    BY <1>5
  <2>2. i # j
    <3>1. Running(i) # {}
      BY <2>1 DEF Finalize, InFlight, LifeInv, ExecInv, FlightsMatchRows
    <3>2. flight'[i] = NoFlight
      BY <2>1 DEF Finalize, LifeInv, ExecInv, TypeInv, TypeOK
    <3>3. ~\E k \in Invocations : Prepares(k)
      BY <2>1, <3>2 DEF Finalize, Prepares, NoFlight
    <3>4. QED
      BY <1>3, <3>1, <3>3
  <2>3. PICK ended, status, active, report :
          Converge(ended, status, [task EXCEPT ![i] = IF @ = "running" THEN report ELSE @], active)
    BY <2>1 DEF Finalize
  <2>4. ~\E k \in Invocations : Prepares(k)
    BY <2>1 DEF Finalize, Prepares, NoFlight, LifeInv, ExecInv, TypeInv, TypeOK
  <2> DEFINE tasks == [task EXCEPT ![i] = IF @ = "running" THEN report ELSE @]
  <2>5. tasks[j] = task[j]
    BY <1>1, <2>2
  <2>6. task[j] # "running" /\ Converge(ended, status, tasks, active)
    BY <1>3, <2>3, <2>4
  <2> HIDE DEF tasks
  <2>7. QED
    BY ConvergeStartsNothing, <2>5, <2>6
<1>6. CASE Reconcile
  <2>1. ~\E k \in Invocations : Prepares(k)
    BY <1>6 DEF Reconcile, Prepares
  <2>2. PICK ended, status, tasks :
          /\ Converge(ended, status, tasks, {})
          /\ tasks = [i \in Invocations |-> IF i \in Executing THEN RecoveredTask(i) ELSE task[i]]
    BY <1>6 DEF Reconcile
  <2>3. QED
    BY <1>3, <2>1, <2>2, ConvergeStartsNothing DEF Executing
<1>7. CASE \E r \in Runs : CancelRun(r)
  <2>1. PICK r \in Runs : CancelRun(r)
    BY <1>7
  <2>2. PICK ended : Converge(ended, inv, task, Executing)
    BY <2>1 DEF CancelRun
  <2>3. CASE \E k \in Invocations : Prepares(k)
    BY <1>2, <2>3
  <2>4. CASE ~\E k \in Invocations : Prepares(k)
    <3>1. task[j] # "running"
      BY <1>3, <2>4
    <3>2. QED
      BY <2>2, <3>1, ConvergeStartsNothing
  <2>5. QED
    BY <2>3, <2>4
<1>8. CASE \E i \in Invocations : PrepareAttempt(i) \/ RefuseExhausted(i)
  <2>1. PICK i \in Invocations : PrepareAttempt(i) \/ RefuseExhausted(i)
    BY <1>8
  <2>2. task[j] # "running" \/ task'[j] # "running"
    BY <1>2, <1>3
  <2>3. task'[j] = task[j] \/ task'[j] = "failed"
    BY <1>1, <2>1 DEF PrepareAttempt, RefuseExhausted
  <2>4. QED
    BY <2>2, <2>3
<1>9. ASSUME task' = task
      PROVE  task'[j] # "running"
  BY <1>2, <1>3, <1>9
<1>10. CASE \E i \in Invocations : InvocationStep(i)
  BY <1>2, <1>5, <1>8, <1>9, <1>10, QuietSteps DEF PrepareInvocation
<1>11. CASE \E r \in Runs : RunStep(r) /\ ~CancelRun(r)
  <2>1. PICK r \in Runs : RunStep(r) /\ ~CancelRun(r)
    BY <1>11
  <2>2. task' = task \/ \E i \in Invocations : Prepares(i)
    BY <2>1 DEF RunStep, PauseRun, ResumeRun, StartRun, RequestChanges, MoveRunAndPrepare, WaitRun,
         ClearWait, BeginVerification, AwaitSignoff, FailVerification, CompleteRun, FailRun, MoveRun, Of
  <2>3. QED
    BY <1>2, <1>9, <2>2
<1>12. CASE Shutdown \/ ProcessEnds \/ OpenAdmission \/ UNCHANGED vars
  BY <1>9, <1>12 DEF Shutdown, ProcessEnds, OpenAdmission, vars
<1>13. QED
  BY <1>6, <1>7, <1>10, <1>11, <1>12 DEF Next, ProcessStep

LEMMA LifeInvStep == LifeInv /\ [Next]_vars => LifeInv'
<1> SUFFICES ASSUME LifeInv, [Next]_vars PROVE LifeInv'
  OBVIOUS
<1>1. ExecInv' /\ RunRowsConsistent'
  BY ExecInvStep, RowInvStep DEF LifeInv, RowInv, ExecInv
<1>2. QED
  BY <1>1, SettledStep, CancelledByRunStep, UnpreparedTaskStep DEF LifeInv

LEMMA LifeInvariant == Spec => []LifeInv
<1>1. ASSUME Init PROVE LifeInv
  <2>1. ExecInv /\ RunRowsConsistent
    BY <1>1, ExecInvInit, RowInvInit DEF RowInv
  <2>2. EndedRunsSettled
    BY <1>1, ConstantsAssumption DEF Init, EndedRunsSettled, Settled, Row, NewRun, ConstantsAssumption
  <2>3. CancelledByRun /\ \A i \in Invocations : inv[i] = "absent" => task[i] # "running"
    BY <1>1 DEF Init, CancelledByRun, NoFlight
  <2>4. QED
    BY <2>1, <2>2, <2>3 DEF LifeInv
<1>2. QED
  BY <1>1, LifeInvStep, PTL DEF Spec

\* The rows of Runs, Invocations, Tasks and Attempts and the memory of the process agree,
\* for any Runs, Invocations and limits: what a cancelled Run no longer executes is settled
\* at every moment, not only in the end (RunStore, InvocationStore, the executor's flights,
\* settleCancelledRunWork).
THEOREM RowsAgreeHolds == Spec => []RowsAgree
<1>1. LifeInv => RowsAgree
  BY DEF LifeInv, ExecInv, RowsAgree
<1>2. QED
  BY <1>1, LifeInvariant, PTL

-----------------------------------------------------------------------------
(***************************************************************************)
(* AttemptExecution implements InvocationLifecycle: preparing an Attempt   *)
(* begins it, a finalization ends it, recovery loses whatever executed, a  *)
(* legal write of a Run row is a turn of its course, and every other step  *)
(* is unseen.                                                              *)
(***************************************************************************)

\* One Invocation changes its stage.
LEMMA StageTo ==
  ASSUME NEW i \in Invocations, \A j \in Invocations \ {i} : Stage(j)' = Stage(j)
  PROVE  StagesShown' = [StagesShown EXCEPT ![i] = Stage(i)']
  BY DEF StagesShown

LEMMA StageOfRows ==
  ASSUME NEW j \in Invocations, inv'[j] = inv[j], Running(j)' = {} <=> Running(j) = {}
  PROVE  Stage(j)' = Stage(j)
  BY DEF Stage, Live

LEMMA StagesKept ==
  ASSUME inv' = inv, att' = att
  PROVE  StagesShown' = StagesShown
  BY DEF StagesShown, Stage, Live, Running

LEMMA CoursesKept ==
  ASSUME run' = run
  PROVE  CoursesShown' = CoursesShown
  BY DEF CoursesShown, Course

\* One Run changes its course.
LEMMA CourseTo ==
  ASSUME run \in [Runs -> RunRows], NEW r \in Runs, NEW row, run' = [run EXCEPT ![r] = row]
  PROVE  CoursesShown' = [CoursesShown EXCEPT ![r] = Course(row)]
  BY DEF CoursesShown

LEMMA CourseShown ==
  ASSUME ConstantsAssumption, NEW i \in Invocations
  PROVE  Lifecycle!CourseOf(i) = Course(Row(i))
  BY DEF ConstantsAssumption, Lifecycle!CourseOf, CoursesShown, Row

\* What the course of a Run says of its row.
LEMMA CourseSays ==
  ASSUME NEW row \in RunRows, RowConsistent(row)
  PROVE  /\ Course(row) = "going" <=> AdmitsNewWork(row)
         /\ Course(row) \in {"halted", "cancelled"} => ImposedInterruption(row) # "none"
         /\ Course(row) = "cancelled" <=> row.status = "cancelled"
         /\ Course(row) = "failed" <=> row.status = "failed"
         /\ Course(row) = "completed" <=> row.status = "completed"
         /\ Course(row) = "draining" <=> row.status \notin RunTerminal /\ row.pause = "soft"
         /\ Course(row) = "halted" <=> row.status \notin RunTerminal /\ row.pause = "hard"
<1>1. row.pause \in {"none", "soft", "hard"} /\ row.status \in RunStatuses
  BY DEF RunRows, PauseModes
<1>2. CASE row.status \in RunTerminal
  BY <1>1, <1>2 DEF Course, AdmitsNewWork, ImposedInterruption, RunTerminal, RowConsistent
<1>3. CASE row.status \notin RunTerminal
  BY <1>1, <1>3 DEF Course, AdmitsNewWork, ImposedInterruption, RunTerminal, RowConsistent
<1>4. QED
  BY <1>2, <1>3

\* classifyAttempt cancels an Attempt only on the runtime's own cancellation.
LEMMA EndsCancelled ==
  ASSUME TypeInv, NEW i \in Invocations, flight[i].phase = "collected",
         Classified(i).status = "cancelled"
  PROVE  InterruptionOf(i) = "cancelled"
<1>1. /\ flight[i].outcome \in Reportable
      /\ flight[i].cause \in Interruptions \cup {"none"}
  BY DEF TypeInv, TypeOK, OutcomeKnown, Flights
<1>2. InterruptionOf(i) \in Interruptions \cup {"none"}
  BY <1>1 DEF InterruptionOf, ImposedInterruption, Interruptions
<1>3. ASSUME NEW valid, NEW exhausted
      PROVE  ClassifyCompletion(flight[i].outcome, valid, exhausted).status # "cancelled"
  BY <1>1 DEF ClassifyCompletion, Completions, Reportable, UnlessExhausted, FailedAs, Ended
<1>4. ASSUME NEW valid, NEW exhausted, NEW c \in Interruptions \cup {"none"}, c # "cancelled"
      PROVE  Classify(flight[i].outcome, valid, c, exhausted).status # "cancelled"
  BY <1>3, <1>4 DEF Classify, Interruptions, UnlessExhausted, FailedAs, Ended
<1>5. Classified(i) = Classify(flight[i].outcome, ResultValid(i), InterruptionOf(i),
                               MoreUsed(usage[i], flight[i].spent) = "over")
  BY DEF Classified, FailedAs, Ended
<1>6. QED
  BY <1>2, <1>4, <1>5

\* In a cancelled Run finalization cancels the Invocation, or blocks it on its Decision.
LEMMA FinalizedCancelled ==
  ASSUME NEW i \in Invocations, Row(i).status = "cancelled", NEW retry
  PROVE  SettledStatus(Classified(i), retry, HandsOver(i)) \in {"blocked", "cancelled"}
<1>1. InterruptionOf(i) = "cancelled"
  BY DEF InterruptionOf
<1>2. CASE request[i] # "none"
  BY <1>2 DEF Classified, HandsOver, SettledStatus, FailedAs, Ended
<1>3. CASE request[i] = "none"
  <2>1. Classified(i).status = "cancelled"
    BY <1>1, <1>3 DEF Classified, Classify, Ended
  <2>2. HandsOver(i) = FALSE
    BY <1>1, <1>3 DEF HandsOver
  <2>3. QED
    BY <2>1, <2>2 DEF SettledStatus
<1>4. QED
  BY <1>2, <1>3

\* A finalization ends the Attempt of its Invocation as its Run allows.
LEMMA FinalizeEnds ==
  ASSUME LifeInv, NEW i \in Invocations, Finalize(i)
  PROVE  Lifecycle!EndAttempt(i)
<1> DEFINE n == flight[i].number
<1>1. /\ Running(i) = {n} /\ n = tries[i] /\ n \in Numbers /\ inv[i] = "running"
      /\ run' = run /\ tries' = tries
  BY DEF Finalize, InFlight, LifeInv, ExecInv, FlightsMatchRows, OneAttemptAtATime, Running
<1>2. /\ inv \in [Invocations -> InvocationStatuses \cup {"absent"}]
      /\ att \in [Invocations -> [Numbers -> AttemptRows]]
      /\ tries \in [Invocations -> 0..MaxAttempts] /\ MaxAttempts \in Nat
      /\ Row(i) \in RunRows /\ RowConsistent(Row(i)) /\ RunOf[i] \in Runs
      /\ Classified(i) \in EndedAttempts /\ HandsOver(i) \in BOOLEAN
  <2>1. Classified(i) \in EndedAttempts /\ HandsOver(i) \in BOOLEAN
    BY ClassifiedType DEF Finalize, LifeInv, ExecInv
  <2>2. QED
    BY <2>1, ConstantsAssumption DEF ConstantsAssumption, LifeInv, ExecInv, TypeInv, TypeOK,
       RunRowsConsistent, Row
<1>3. PICK retry \in RetryDecisions(Classified(i), PreviousClass(i, n), HandsOver(i),
                                    n >= MaxAttempts, late[i], i \in Timed) :
        /\ \E tasks :
             Converge({RunOf[i]} \cap CancelledRuns(run),
                      [inv EXCEPT ![i] = SettledStatus(Classified(i), retry, HandsOver(i))],
                      tasks, Executing \ {i})
        /\ att' = [att EXCEPT ![i][n] = EndedRow(Classified(i), retry)]
  BY DEF Finalize
<1> DEFINE settled == SettledStatus(Classified(i), retry, HandsOver(i))
           status == [inv EXCEPT ![i] = settled]
           ended == {RunOf[i]} \cap CancelledRuns(run)
<1>4. settled \in InvocationTerminal \cup {"running"}
  BY <1>2, SettledType
<1>5. Row(i).status = "cancelled" => settled \in {"blocked", "cancelled"}
  BY FinalizedCancelled
<1>6. status[i] = settled /\ \A j \in Invocations \ {i} : status[j] = inv[j]
  BY <1>2
<1>7. PICK tasks : Converge(ended, status, tasks, Executing \ {i})
  BY <1>3
<1>8. ended = IF Row(i).status = "cancelled" THEN {RunOf[i]} ELSE {}
  BY <1>2 DEF CancelledRuns, Row
<1>9. EndedRow(Classified(i), retry).status # "running"
  BY <1>2 DEF EndedRow, EndedAttempts, AttemptTerminal
<1>10. Running(i)' = {}
  BY <1>1, <1>2, <1>3, <1>9 DEF Running
<1>11. Classified(i).status = "succeeded" => InterruptionOf(i) = "none"
  BY SucceedsUninterrupted DEF Finalize, LifeInv, ExecInv
<1>12. Classified(i).status = "cancelled" => InterruptionOf(i) = "cancelled"
  BY EndsCancelled DEF Finalize, LifeInv, ExecInv
<1>13. settled = "running" => n < MaxAttempts
  <2>1. settled = "running" => ~(n >= MaxAttempts)
    BY <1>2, OpenMayRetry
  <2>2. QED
    BY <1>1, <1>2, <2>1 DEF Numbers
<1>14. /\ settled = "succeeded" <=> Classified(i).status = "succeeded"
       /\ settled = "cancelled" => Classified(i).status = "cancelled"
  BY <1>2, SettledType DEF SettledStatus
<1> HIDE DEF settled, status, ended, n
<1>15. inv'[i] = settled
  <2>1. CASE Row(i).status = "cancelled"
    BY <1>5, <1>6, <1>7, <2>1, ConvergeSpares
  <2>2. CASE Row(i).status # "cancelled"
    BY <1>6, <1>7, <1>8, <2>2, ConvergeElsewhere
  <2>3. QED
    BY <2>1, <2>2
<1>16. ASSUME NEW j \in Invocations \ {i}
       PROVE  Stage(j)' = Stage(j)
  <2>1. att'[j] = att[j]
    BY <1>2, <1>3
  <2>2. inv'[j] = inv[j]
    <3>1. CASE RunOf[j] \notin ended
      BY <1>6, <1>7, <3>1, ConvergeElsewhere
    <3>2. CASE RunOf[j] \in ended
      <4>1. Row(j).status = "cancelled"
        BY <1>8, <3>2 DEF Row
      <4>2. Running(j) # {} \/ ~Live(j)
        BY <4>1 DEF LifeInv, EndedRunsSettled, Settled
      <4>3. j \in Executing \ {i} \/ status[j] \notin {"pending", "running"}
        BY <1>6, <4>2 DEF Executing, Live
      <4>4. QED
        BY <1>6, <1>7, <4>3, ConvergeSpares
    <3>3. QED
      BY <3>1, <3>2
  <2>3. QED
    BY <2>1, <2>2, StageOfRows DEF Running
<1>17. Stage(i)' = IF settled = "running" THEN "open" ELSE settled
  BY <1>4, <1>10, <1>15 DEF Stage, Live, InvocationTerminal
<1>18. Stage(i) = "executing"
  BY <1>1 DEF Stage, Live
<1>19. \/ Lifecycle!MayLeave(i, Stage(i)')
       \/ Stage(i)' = "succeeded" /\ Lifecycle!CourseOf(i) \notin {"halted", "cancelled"}
  <2> DEFINE c == Course(Row(i))
  <2>1. /\ c \in {"halted", "cancelled"} => ImposedInterruption(Row(i)) # "none"
        /\ c = "cancelled" <=> Row(i).status = "cancelled"
        /\ c = "failed" <=> Row(i).status = "failed"
    BY <1>2, CourseSays
  <2>2. Lifecycle!CourseOf(i) = c
    BY CourseShown, ConstantsAssumption
  <2> HIDE DEF c
  <2>3. CASE settled \in {"failed", "blocked"}
    BY <1>17, <2>3 DEF Lifecycle!MayLeave
  <2>4. CASE settled = "running"
    BY <1>1, <1>5, <1>13, <1>17, <2>1, <2>2, <2>4 DEF Lifecycle!MayLeave
  <2>5. CASE settled = "succeeded"
    <3>1. ImposedInterruption(Row(i)) = "none"
      BY <1>11, <1>14, <2>5 DEF InterruptionOf, ImposedInterruption
    <3>2. QED
      BY <1>17, <2>1, <2>2, <2>5, <3>1
  <2>6. CASE settled = "cancelled"
    <3>1. InterruptionOf(i) = "cancelled"
      BY <1>12, <1>14, <2>6
    <3>2. Row(i).status \in {"cancelled", "failed"}
      BY <3>1 DEF InterruptionOf, ImposedInterruption, LifeInv, CancelledByRun
    <3>3. QED
      BY <1>17, <2>1, <2>2, <2>6, <3>2 DEF Lifecycle!MayLeave
  <2>7. QED
    BY <1>4, <2>3, <2>4, <2>5, <2>6 DEF InvocationTerminal
<1>20. StagesShown' = [StagesShown EXCEPT ![i] = Stage(i)'] /\ StagesShown[i] = "executing"
  BY <1>16, <1>18, StageTo DEF StagesShown
<1>21. Stage(i)' \in Lifecycle!Ends \cup {"open"}
  BY <1>4, <1>17 DEF Lifecycle!Ends, InvocationTerminal
<1>22. QED
  BY <1>1, <1>19, <1>20, <1>21, CoursesKept DEF Lifecycle!EndAttempt

\* Recovery ends every Attempt the process left, and gives none a result.
LEMMA ReconcileLoses ==
  ASSUME LifeInv, LifeInv', Reconcile
  PROVE  Lifecycle!LoseAll
<1>1. /\ inv \in [Invocations -> InvocationStatuses \cup {"absent"}]
      /\ inv' \in [Invocations -> InvocationStatuses \cup {"absent"}]
      /\ tries \in [Invocations -> 0..MaxAttempts] /\ MaxAttempts \in Nat
      /\ run' = run /\ tries' = tries
  BY ConstantsAssumption DEF ConstantsAssumption, LifeInv, ExecInv, TypeInv, TypeOK, Reconcile
<1>2. PICK ended, status, tasks :
        /\ status = [i \in Invocations |-> IF i \in Executing THEN RecoveredStatus(i) ELSE inv[i]]
        /\ ended \subseteq CancelledRuns(run)
        /\ Converge(ended, status, tasks, {})
  BY DEF Reconcile
<1>3. \A j \in Invocations : Running(j)' = {}
  <2>1. proc' = "recovering"
    BY DEF Reconcile
  <2>2. QED
    BY <2>1 DEF LifeInv, ExecInv, MemoryLost
<1>4. ASSUME NEW j \in Invocations, Running(j) = {}
      PROVE  Stage(j)' = Stage(j)
  <2>1. status[j] = inv[j]
    BY <1>2, <1>4 DEF Executing
  <2>2. inv'[j] = inv[j]
    <3>1. CASE RunOf[j] \in ended
      <4>1. ~Live(j)
        BY <1>2, <1>4, <3>1 DEF CancelledRuns, LifeInv, EndedRunsSettled, Settled, Row
      <4>2. QED
        BY <1>2, <2>1, <4>1, ConvergeSpares DEF Live
    <3>2. CASE RunOf[j] \notin ended
      BY <1>2, <2>1, <3>2, ConvergeElsewhere
    <3>3. QED
      BY <3>1, <3>2
  <2>3. QED
    BY <1>3, <1>4, <2>2, StageOfRows
<1>5. ASSUME NEW i \in Invocations, Running(i) # {}
      PROVE  Stage(i) = "executing" /\ Lifecycle!MayLeave(i, Stage(i)')
  <2>1. status[i] = RecoveredStatus(i) /\ inv[i] = "running"
    BY <1>2, <1>5 DEF Executing, LifeInv, ExecInv, OneAttemptAtATime
  <2>2. RecoveredEnd(i) \in EndedAttempts /\ RecoveredStatus(i) \in InvocationTerminal \cup {"running"}
    BY RecoveredType DEF LifeInv, ExecInv
  <2>3. CASE Abandoned(i)
    <3>1. RecoveredStatus(i) = "cancelled"
      BY <2>3 DEF Abandoned, RecoveredStatus, RecoveredEnd, Ended, SettledStatus
    <3>2. inv'[i] = "cancelled"
      BY <1>2, <2>1, <3>1, ConvergeSpares
    <3>3. Stage(i)' = "cancelled"
      BY <3>2 DEF Stage, Live
    <3>4. Lifecycle!CourseOf(i) = "cancelled"
      BY <2>3, CourseShown, ConstantsAssumption DEF Abandoned, Course, RunTerminal
    <3>5. QED
      BY <1>5, <2>1, <3>3, <3>4 DEF Stage, Live, Lifecycle!MayLeave
  <2>4. CASE ~Abandoned(i)
    <3>1. RecoveredEnd(i) = Ended("interrupted", "interrupted")
      BY <2>4 DEF RecoveredEnd
    <3>2. RecoveredStatus(i) \in {"blocked", "running", "failed"}
      BY <3>1 DEF RecoveredStatus, SettledStatus, Ended
    <3>3. RecoveredStatus(i) = "running" =>
            ~(tries[i] >= MaxAttempts) /\ request[i] = "none" /\ RunOf[i] \notin ended
      <4>1. RecoveredStatus(i) = "running" => RecoveredRetry(i) = "permitted" /\ request[i] = "none"
        BY <3>1 DEF RecoveredStatus, SettledStatus, Ended
      <4>2. RecoveredRetry(i) = "permitted" => ~(tries[i] >= MaxAttempts)
        BY DEF RecoveredRetry, RefusesRetry
      <4>3. RunOf[i] \in ended => Row(i).status = "cancelled"
        BY <1>2 DEF CancelledRuns, Row
      <4>4. QED
        BY <2>4, <4>1, <4>2, <4>3 DEF Abandoned
    <3>4. inv'[i] = RecoveredStatus(i)
      <4>1. CASE RunOf[i] \in ended
        BY <1>2, <2>1, <3>2, <3>3, <4>1, ConvergeSpares
      <4>2. CASE RunOf[i] \notin ended
        BY <1>2, <2>1, <4>2, ConvergeElsewhere
      <4>3. QED
        BY <4>1, <4>2
    <3>5. Stage(i)' = IF RecoveredStatus(i) = "running" THEN "open" ELSE RecoveredStatus(i)
      BY <1>3, <3>2, <3>4 DEF Stage, Live
    <3>6. RecoveredStatus(i) = "running" => Lifecycle!CourseOf(i) # "cancelled"
      <4>1. RecoveredStatus(i) = "running" => Row(i).status # "cancelled"
        BY <2>4, <3>3 DEF Abandoned
      <4>2. Row(i).status # "cancelled" => Course(Row(i)) # "cancelled"
        <5>1. Row(i) \in RunRows /\ RowConsistent(Row(i))
          BY ConstantsAssumption DEF ConstantsAssumption, LifeInv, ExecInv, TypeInv, TypeOK,
             RunRowsConsistent, Row
        <5>2. QED
          BY <5>1, CourseSays
      <4>3. QED
        BY <4>1, <4>2, CourseShown, ConstantsAssumption
    <3>7. RecoveredStatus(i) = "running" => tries[i] < MaxAttempts
      BY <1>1, <3>3
    <3>8. QED
      BY <1>5, <2>1, <3>2, <3>5, <3>6, <3>7 DEF Stage, Live, Lifecycle!MayLeave
  <2>5. QED
    BY <2>3, <2>4
<1>6. \A j \in Invocations : Stage(j)' \in Lifecycle!Stages
  BY <1>1 DEF Stage, Live, Lifecycle!Stages, Lifecycle!Ends, InvocationStatuses, InvocationTerminal
<1>7. \A j \in Invocations : StagesShown[j] = Stage(j) /\ StagesShown'[j] = Stage(j)'
  BY DEF StagesShown
<1>8. StagesShown' \in [Invocations -> Lifecycle!Stages]
  BY <1>6 DEF StagesShown
<1>9. \A j \in Invocations : Running(j) = {} => Stage(j) # "executing"
  BY <1>1 DEF Stage, InvocationStatuses, InvocationTerminal
<1>10. QED
  BY <1>1, <1>4, <1>5, <1>7, <1>8, <1>9, CoursesKept DEF Lifecycle!LoseAll

\* A cancellation settles in its own transaction whatever of the Run does not execute;
\* repeated, it changes nothing.
LEMMA CancelRunCancels ==
  ASSUME LifeInv, NEW r \in Runs, CancelRun(r)
  PROVE  Lifecycle!Cancel(r) \/ UNCHANGED Lifecycle!lvars
<1>1. /\ run \in [Runs -> RunRows] /\ run[r] \in RunRows /\ RowConsistent(run[r])
      /\ inv \in [Invocations -> InvocationStatuses \cup {"absent"}]
      /\ run' = [run EXCEPT ![r] = Moved(run[r], "cancelled", "none")]
      /\ att' = att /\ tries' = tries
      /\ run[r].status \notin {"completed", "failed"}
  BY DEF LifeInv, ExecInv, TypeInv, TypeOK, RunRowsConsistent, CancelRun
<1>2. PICK ended : /\ Converge(ended, inv, task, Executing)
                   /\ ended = IF run[r].status = "cancelled" THEN {} ELSE {r}
  BY DEF CancelRun
<1>3. \A j \in Invocations : Running(j)' = Running(j)
  BY <1>1 DEF Running
<1>4. CoursesShown' = [CoursesShown EXCEPT ![r] = "cancelled"]
  <2>1. Course(Moved(run[r], "cancelled", "none")) = "cancelled"
    BY DEF Moved, Course, RunTerminal
  <2>2. QED
    BY <1>1, <2>1, CourseTo
<1>5. CASE run[r].status = "cancelled"
  <2>1. Course(run[r]) = "cancelled"
    BY <1>5 DEF Course, RunTerminal
  <2>2. CoursesShown' = CoursesShown
    BY <1>4, <2>1 DEF CoursesShown
  <2>3. \A j \in Invocations : Stage(j)' = Stage(j)
    BY <1>2, <1>3, <1>5, ConvergeElsewhere, StageOfRows
  <2>4. QED
    BY <1>1, <2>2, <2>3 DEF Lifecycle!lvars, StagesShown
<1>6. CASE run[r].status # "cancelled"
  <2>1. Course(run[r]) \in {"going", "draining", "halted"}
    BY <1>1, <1>6 DEF Course, RunTerminal, RunRows, PauseModes
  <2>2. ASSUME NEW j \in Invocations
        PROVE  Stage(j)' = IF RunOf[j] = r /\ Stage(j) = "open" THEN "cancelled" ELSE Stage(j)
    <3>1. CASE RunOf[j] # r
      BY <1>2, <1>3, <1>6, <3>1, ConvergeElsewhere, StageOfRows
    <3>2. CASE RunOf[j] = r /\ (j \in Executing \/ ~Live(j))
      <4>1. inv'[j] = inv[j]
        BY <1>2, <3>2, ConvergeSpares DEF Live
      <4>2. Stage(j) # "open"
        BY <1>1, <3>2 DEF Stage, Live, Executing, InvocationStatuses, InvocationTerminal
      <4>3. QED
        BY <1>3, <4>1, <4>2, StageOfRows
    <3>3. CASE RunOf[j] = r /\ j \notin Executing /\ Live(j)
      <4>1. inv'[j] = "cancelled"
        BY <1>2, <1>6, <3>3 DEF Converge, ConvergedInvocations, Of, Live
      <4>2. Stage(j) = "open"
        BY <3>3 DEF Stage, Executing
      <4>3. QED
        BY <3>3, <4>1, <4>2 DEF Stage, Live
    <3>4. QED
      BY <3>1, <3>2, <3>3
  <2>3. StagesShown' = [i \in Invocations |-> IF i \in Lifecycle!Work(r) /\ StagesShown[i] = "open"
                                              THEN "cancelled" ELSE StagesShown[i]]
    BY <2>2 DEF StagesShown, Lifecycle!Work
  <2>4. QED
    BY <1>1, <1>4, <2>1, <2>3 DEF Lifecycle!Cancel, Lifecycle!Turns, CoursesShown
<1>7. QED
  BY <1>5, <1>6

\* The operator's pause and resumption turn a Run's course and touch no Invocation.
LEMMA PausesTurn ==
  ASSUME LifeInv, NEW r \in Runs, NEW mode \in PauseModes, PauseRun(r, mode)
  PROVE  Lifecycle!Pause(r) \/ UNCHANGED Lifecycle!lvars
<1>1. /\ run \in [Runs -> RunRows] /\ run[r] \in RunRows
      /\ run' = [run EXCEPT ![r] = Paused(run[r], mode)] /\ MayPause(run[r])
      /\ inv' = inv /\ att' = att /\ tries' = tries
  BY DEF LifeInv, ExecInv, TypeInv, TypeOK, PauseRun
<1>2. run[r].status \notin RunTerminal /\ Paused(run[r], mode).status \notin RunTerminal
  BY <1>1 DEF MayPause, Paused, RunTerminal
<1>3. /\ Paused(run[r], mode).pause \in {"soft", "hard"}
      /\ run[r].pause = "hard" => Paused(run[r], mode).pause = "hard"
      /\ run[r].pause \in {"none", "soft", "hard"}
  BY <1>1 DEF Paused, PauseModes, RunRows
<1>4. Course(Paused(run[r], mode)) = IF Paused(run[r], mode).pause = "soft" THEN "draining" ELSE "halted"
  BY <1>2, <1>3 DEF Course
<1>5. Course(run[r]) = CASE run[r].pause = "none" -> "going" [] run[r].pause = "soft" -> "draining"
                         [] run[r].pause = "hard" -> "halted"
  BY <1>2, <1>3 DEF Course
<1>6. CoursesShown' = [CoursesShown EXCEPT ![r] = Course(Paused(run[r], mode))] /\ CoursesShown[r] = Course(run[r])
  BY <1>1, CourseTo DEF CoursesShown
<1>7. StagesShown' = StagesShown
  BY <1>1, StagesKept
<1>8. CASE Course(Paused(run[r], mode)) = Course(run[r])
  <2>1. CoursesShown' = CoursesShown
    BY <1>6, <1>8 DEF CoursesShown
  <2>2. QED
    BY <1>1, <1>7, <2>1 DEF Lifecycle!lvars
<1>9. CASE Course(Paused(run[r], mode)) # Course(run[r])
  <2>1. \/ Course(run[r]) = "going" /\ Course(Paused(run[r], mode)) \in {"draining", "halted"}
        \/ Course(run[r]) = "draining" /\ Course(Paused(run[r], mode)) = "halted"
    BY <1>3, <1>4, <1>5, <1>9
  <2>2. QED
    BY <1>1, <1>6, <1>7, <2>1 DEF Lifecycle!Pause, Lifecycle!Turns
<1>10. QED
  BY <1>8, <1>9

LEMMA ResumesTurn ==
  ASSUME LifeInv, NEW r \in Runs, ResumeRun(r)
  PROVE  Lifecycle!Resume(r)
<1>1. /\ run \in [Runs -> RunRows] /\ run[r] \in RunRows
      /\ run' = [run EXCEPT ![r] = Resumed(run[r])] /\ MayResume(run[r])
      /\ inv' = inv /\ att' = att /\ tries' = tries
  BY DEF LifeInv, ExecInv, TypeInv, TypeOK, ResumeRun, rows, memory
<1>2. Course(run[r]) \in {"draining", "halted"}
  BY <1>1 DEF MayResume, Course, RunRows, PauseModes
<1>3. Course(Resumed(run[r])) = "going"
  BY <1>1 DEF MayResume, Resumed, Course, RunTerminal
<1>4. CoursesShown' = [CoursesShown EXCEPT ![r] = "going"] /\ CoursesShown[r] = Course(run[r])
  BY <1>1, <1>3, CourseTo DEF CoursesShown
<1>5. QED
  BY <1>1, <1>2, <1>4, StagesKept DEF Lifecycle!Resume, Lifecycle!Turns

\* A move that ends no Run is unseen: its course was going and goes on.
LEMMA MovesUnseen ==
  ASSUME run \in [Runs -> RunRows], NEW r \in Runs, NEW to \in RunStatuses \ RunTerminal, NEW reason,
         MayMove(run[r], to), run' = [run EXCEPT ![r] = Moved(run[r], to, reason)]
  PROVE  CoursesShown' = CoursesShown /\ Course(run[r]) = "going"
<1>1. Course(run[r]) = "going"
  BY DEF MayMove, RunEdges, Course, RunTerminal
<1>2. Course(Moved(run[r], to, reason)) = "going"
  BY DEF Moved, Course
<1>3. QED
  BY <1>1, <1>2, CourseTo DEF CoursesShown

\* A Run completes when nothing of it is left and fails with an Invocation of it.
LEMMA RunEndsTurn ==
  ASSUME LifeInv, NEW r \in Runs
  PROVE  /\ CompleteRun(r) => Lifecycle!Complete(r)
         /\ FailRun(r) => Lifecycle!Fail(r)
<1>1. run \in [Runs -> RunRows] /\ inv \in [Invocations -> InvocationStatuses \cup {"absent"}]
  BY DEF LifeInv, ExecInv, TypeInv, TypeOK
<1>2. ASSUME NEW to \in {"completed", "failed"}, MoveRun(r, to, "none")
      PROVE  /\ CoursesShown' = [CoursesShown EXCEPT ![r] = to] /\ CoursesShown[r] = "going"
             /\ StagesShown' = StagesShown /\ tries' = tries
  <2>1. /\ run' = [run EXCEPT ![r] = Moved(run[r], to, "none")] /\ MayMove(run[r], to)
        /\ inv' = inv /\ att' = att /\ tries' = tries
    BY <1>2 DEF MoveRun
  <2>2. Course(Moved(run[r], to, "none")) = to
    BY DEF Moved, Course, RunTerminal
  <2>3. Course(run[r]) = "going"
    BY <2>1 DEF MayMove, RunEdges, Course, RunTerminal
  <2>4. QED
    BY <1>1, <2>1, <2>2, <2>3, CourseTo, StagesKept DEF CoursesShown
<1>3. ASSUME CompleteRun(r)
      PROVE  Lifecycle!Complete(r)
  <2>1. \A i \in Lifecycle!Work(r) : StagesShown[i] \notin {"open", "executing"}
    BY <1>1, <1>3 DEF CompleteRun, Quiescent, Of, Lifecycle!Work, StagesShown, Stage, Live,
                      InvocationStatuses, InvocationTerminal
  <2>2. MoveRun(r, "completed", "none")
    BY <1>3 DEF CompleteRun
  <2>3. QED
    BY <1>2, <2>1, <2>2 DEF Lifecycle!Complete, Lifecycle!Turns
<1>4. ASSUME FailRun(r)
      PROVE  Lifecycle!Fail(r)
  <2>1. \E i \in Lifecycle!Work(r) : StagesShown[i] = "failed"
    BY <1>4 DEF FailRun, Of, Lifecycle!Work, StagesShown, Stage, Live
  <2>2. MoveRun(r, "failed", "none")
    BY <1>4 DEF FailRun
  <2>3. QED
    BY <1>2, <2>1, <2>2 DEF Lifecycle!Fail, Lifecycle!Turns
<1>5. QED
  BY <1>3, <1>4

\* A preparation opens its Invocation under a Run that admits it.
LEMMA PreparesOpens ==
  ASSUME LifeInv, NEW i \in Invocations, Prepares(i), Course(Row(i)) = "going",
         CoursesShown' = CoursesShown
  PROVE  Lifecycle!Prepare(i)
<1>1. /\ inv \in [Invocations -> InvocationStatuses \cup {"absent"}]
      /\ inv[i] = "absent" /\ inv' = [inv EXCEPT ![i] = "pending"] /\ att' = att /\ tries' = tries
  BY DEF LifeInv, ExecInv, TypeInv, TypeOK, Prepares, Unprepared
<1>2. Running(i) = {} /\ \A j \in Invocations : Running(j)' = Running(j)
  BY <1>1 DEF LifeInv, ExecInv, OneAttemptAtATime, Running
<1>3. Stage(i) = "absent" /\ Stage(i)' = "open"
  BY <1>1, <1>2 DEF Stage, Live
<1>4. \A j \in Invocations \ {i} : Stage(j)' = Stage(j)
  BY <1>1, <1>2, StageOfRows
<1>5. QED
  BY <1>1, <1>3, <1>4, StageTo, CourseShown, ConstantsAssumption DEF Lifecycle!Prepare, StagesShown

\* What the next permission allows begins an Attempt or gives the Invocation up.
LEMMA PermissionActs ==
  ASSUME LifeInv, LifeInv', NEW i \in Invocations
  PROVE  /\ PrepareAttempt(i) => Lifecycle!Begin(i)
         /\ RefuseExhausted(i) => Lifecycle!GiveUp(i)
<1>1. /\ inv \in [Invocations -> InvocationStatuses \cup {"absent"}]
      /\ att \in [Invocations -> [Numbers -> AttemptRows]]
      /\ tries \in [Invocations -> 0..MaxAttempts] /\ MaxAttempts \in Nat
      /\ Row(i) \in RunRows /\ RowConsistent(Row(i))
  BY ConstantsAssumption DEF ConstantsAssumption, LifeInv, ExecInv, TypeInv, TypeOK, RunRowsConsistent, Row
<1>2. ASSUME Admissible(i)
      PROVE  Stage(i) = "open" /\ Lifecycle!CourseOf(i) = "going"
  BY <1>1, <1>2, CourseSays, CourseShown, ConstantsAssumption DEF Admissible, Stage
<1>3. ASSUME PrepareAttempt(i)
      PROVE  Lifecycle!Begin(i)
  <2>1. /\ Admissible(i) /\ tries[i] < MaxAttempts /\ run' = run
        /\ inv' = [inv EXCEPT ![i] = "running"] /\ tries' = [tries EXCEPT ![i] = tries[i] + 1]
        /\ att' = [att EXCEPT ![i][tries[i] + 1] = RunningAttempt]
    BY <1>3 DEF PrepareAttempt, Permitted, AllocationLeft
  <2>2. tries[i] + 1 \in Numbers
    BY <1>1, <2>1 DEF Numbers
  <2>3. Running(i)' # {}
    BY <1>1, <2>1, <2>2 DEF Running, RunningAttempt
  <2>4. Stage(i)' = "executing"
    BY <1>1, <2>1, <2>3 DEF Stage, Live
  <2>5. \A j \in Invocations \ {i} : Stage(j)' = Stage(j)
    BY <1>1, <2>1 DEF Stage, Live, Running
  <2>6. QED
    BY <1>1, <1>2, <2>1, <2>4, <2>5, StageTo, CoursesKept DEF Lifecycle!Begin, StagesShown
<1>4. ASSUME RefuseExhausted(i)
      PROVE  Lifecycle!GiveUp(i)
  <2>1. /\ Admissible(i) /\ run' = run /\ att' = att /\ tries' = tries
        /\ inv' = [inv EXCEPT ![i] = "failed"]
    BY <1>4 DEF RefuseExhausted, Exhausted
  <2>2. Stage(i)' = "failed"
    BY <1>1, <2>1 DEF Stage, Live
  <2>3. \A j \in Invocations \ {i} : Stage(j)' = Stage(j)
    BY <1>1, <2>1 DEF Stage, Live, Running
  <2>4. QED
    BY <1>2, <2>1, <2>2, <2>3, StageTo, CoursesKept DEF Lifecycle!GiveUp, StagesShown
<1>5. QED
  BY <1>3, <1>4

LEMMA LifecycleInit ==
  ASSUME Init
  PROVE  Lifecycle!LInit
<1>1. \A i \in Invocations : Stage(i) = "absent"
  BY DEF Init, Stage, Live
<1>2. \A r \in Runs : Course(run[r]) = "going"
  BY DEF Init, Course, NewRun, RunTerminal
<1>3. QED
  BY <1>1, <1>2 DEF Init, Lifecycle!LInit, StagesShown, CoursesShown

LEMMA LifecycleStep ==
  ASSUME LifeInv, LifeInv', [Next]_vars
  PROVE  [Lifecycle!LNext]_(Lifecycle!lvars)
<1>1. run \in [Runs -> RunRows]
  BY DEF LifeInv, ExecInv, TypeInv, TypeOK
<1>2. ASSUME UNCHANGED <<run, inv, tries, att>>
      PROVE  UNCHANGED Lifecycle!lvars
  BY <1>2, StagesKept, CoursesKept DEF Lifecycle!lvars
<1>3. ASSUME NEW i \in Invocations, InvocationStep(i)
      PROVE  Lifecycle!LNext \/ UNCHANGED Lifecycle!lvars
  <2>1. CASE PrepareInvocation(i)
    <3>1. Course(Row(i)) = "going" /\ run' = run /\ Prepares(i)
      BY <2>1, CourseSays, ConstantsAssumption
         DEF PrepareInvocation, Preparable, LifeInv, RunRowsConsistent, ExecInv, TypeInv, TypeOK, Row,
             ConstantsAssumption
    <3>2. QED
      BY <3>1, PreparesOpens, CoursesKept DEF Lifecycle!LNext
  <2>2. CASE PrepareAttempt(i) \/ RefuseExhausted(i)
    BY <2>2, PermissionActs DEF Lifecycle!LNext
  <2>3. CASE Finalize(i)
    BY <2>3, FinalizeEnds DEF Lifecycle!LNext
  <2>4. CASE ~(PrepareInvocation(i) \/ PrepareAttempt(i) \/ RefuseExhausted(i) \/ Finalize(i))
    BY <1>2, <1>3, <2>4, QuietSteps
  <2>5. QED
    BY <2>1, <2>2, <2>3, <2>4
<1>4. ASSUME NEW r \in Runs, RunStep(r)
      PROVE  Lifecycle!LNext \/ UNCHANGED Lifecycle!lvars
  <2>1. CASE CancelRun(r)
    BY <2>1, CancelRunCancels DEF Lifecycle!LNext
  <2>2. CASE \E mode \in PauseModes : PauseRun(r, mode)
    BY <2>2, PausesTurn DEF Lifecycle!LNext
  <2>3. CASE ResumeRun(r)
    BY <2>3, ResumesTurn DEF Lifecycle!LNext
  <2>4. CASE CompleteRun(r) \/ FailRun(r)
    BY <2>4, RunEndsTurn DEF Lifecycle!LNext
  <2>5. CASE StartRun(r) \/ RequestChanges(r)
    <3>1. /\ MayMove(run[r], "running") /\ run' = [run EXCEPT ![r] = Moved(run[r], "running", "none")]
          /\ \E i \in Invocations : RunOf[i] = r /\ Prepares(i)
      BY <2>5 DEF StartRun, RequestChanges, MoveRunAndPrepare, Of
    <3>2. CoursesShown' = CoursesShown /\ Course(run[r]) = "going"
      BY <1>1, <3>1, MovesUnseen DEF RunStatuses, RunTerminal
    <3>3. PICK i \in Invocations : RunOf[i] = r /\ Prepares(i)
      BY <3>1
    <3>4. Lifecycle!Prepare(i)
      BY <3>2, <3>3, PreparesOpens DEF Row
    <3>5. QED
      BY <3>4 DEF Lifecycle!LNext
  <2>6. CASE WaitRun(r) \/ ClearWait(r) \/ BeginVerification(r) \/ AwaitSignoff(r) \/ FailVerification(r)
    <3>1. PICK to, reason : to \in {"waiting", "running", "verifying", "awaiting_signoff"} /\ MoveRun(r, to, reason)
      BY <2>6 DEF WaitRun, ClearWait, BeginVerification, AwaitSignoff, FailVerification
    <3>2. /\ MayMove(run[r], to) /\ run' = [run EXCEPT ![r] = Moved(run[r], to, reason)]
          /\ inv' = inv /\ att' = att /\ tries' = tries
      BY <3>1 DEF MoveRun
    <3>3. to \in RunStatuses \ RunTerminal
      BY <3>1 DEF RunStatuses, RunTerminal
    <3>4. CoursesShown' = CoursesShown
      BY <1>1, <3>2, <3>3, MovesUnseen
    <3>5. QED
      BY <3>2, <3>4, StagesKept DEF Lifecycle!lvars
  <2>7. QED
    BY <1>4, <2>1, <2>2, <2>3, <2>4, <2>5, <2>6 DEF RunStep
<1>5. CASE Reconcile
  BY <1>5, ReconcileLoses DEF Lifecycle!LNext
<1>6. CASE (ProcessStep /\ ~Reconcile) \/ UNCHANGED vars
  BY <1>2, <1>6 DEF ProcessStep, Shutdown, ProcessEnds, OpenAdmission, vars, rows, UnchangedRows
<1>7. QED
  BY <1>3, <1>4, <1>5, <1>6 DEF Next

\* Executor, operator, crash and recovery implement the lifecycle an Invocation promises,
\* for any Runs, Invocations, allocations and limits: bounded and admitted Attempts, one end,
\* no result under a cancelled or hard-paused Run, and a cancellation that settles at once
\* everything it does not find executing.
THEOREM ImplementsLifecycle == Spec => KeepsLifecycle
<1>1. Init => Lifecycle!LInit
  BY LifecycleInit
<1>2. LifeInv /\ LifeInv' /\ [Next]_vars => [Lifecycle!LNext]_(Lifecycle!lvars)
  BY LifecycleStep
<1>3. QED
  BY <1>1, <1>2, LifeInvariant, PTL DEF Spec, KeepsLifecycle, Lifecycle!LSpec
=============================================================================
