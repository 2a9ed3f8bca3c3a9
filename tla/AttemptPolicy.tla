---------------------------- MODULE AttemptPolicy ----------------------------
(***************************************************************************)
(* The pure decisions about one finished provider execution: how the       *)
(* Attempt is classified, whether another Attempt may follow, and how the  *)
(* Invocation and its Task settle (retry-policy.ts,                        *)
(* invocation-lifecycle.ts).  No state is read here; the callers pass what *)
(* the code passes.                                                        *)
(***************************************************************************)
EXTENDS Naturals

InvocationTerminal == {"blocked", "succeeded", "failed", "cancelled"}
InvocationStatuses == InvocationTerminal \cup {"pending", "running"}

AttemptTerminal == {"succeeded", "failed", "timed_out", "interrupted", "cancelled"}
FailureClasses == {"provider_transient", "provider_permanent", "tool_failure",
                   "result_invalid", "allocation_exhausted", "interrupted",
                   "decision_requested"}

TaskStatuses == {"ready", "running", "blocked", "completed", "failed", "cancelled"}

\* What the adapter reports.  "valid" and "invalid" are a completed turn whose
\* result satisfies, or not, everything but the collected Changeset.
Completions == {"valid", "invalid", "transient", "permanent", "tool_failure",
                "approval_required", "decision_requested", "interrupted", "deadline",
                "cancelled"}

\* What an adapter reports of itself.  It reports "cancelled" only from the signal
\* the runtime aborted or from the row of a cancelled Run: the runtime's own
\* interruption then decides first, and "interrupted" stands for that report.
Reportable == Completions \ {"cancelled"}

\* The cause the runtime holds against an Attempt it interrupted.
Interruptions == {"cancelled", "operator_pause", "deadline", "shutdown"}

\* Consumption against the cost or token allocation: below it, exactly all of
\* it, beyond it.  A new Attempt needs "within"; exhaustion is "over".
UsageLevels == {"within", "full", "over"}

EndedAttempts == [status : AttemptTerminal, class : FailureClasses \cup {"none"}]
Ended(status, class) == [status |-> status, class |-> class]
FailedAs(class) == Ended("failed", class)

\* An allocation that is exhausted replaces the classes a retry could follow.
UnlessExhausted(ended, exhausted) ==
  IF exhausted THEN FailedAs("allocation_exhausted") ELSE ended

\* classifyAttempt once no runtime interruption applies.
ClassifyCompletion(completion, valid, exhausted) ==
  CASE completion = "valid" /\ valid -> Ended("succeeded", "none")
    [] completion = "invalid" \/ (completion = "valid" /\ ~valid) ->
         UnlessExhausted(FailedAs("result_invalid"), exhausted)
    [] completion = "transient" -> UnlessExhausted(FailedAs("provider_transient"), exhausted)
    [] completion = "permanent" -> FailedAs("provider_permanent")
    [] completion = "tool_failure" -> UnlessExhausted(FailedAs("tool_failure"), exhausted)
    [] completion \in {"approval_required", "decision_requested"} -> FailedAs("tool_failure")
    [] completion = "cancelled" -> Ended("cancelled", "none")
    [] completion = "deadline" -> Ended("timed_out", "interrupted")
    [] completion = "interrupted" ->
         UnlessExhausted(Ended("interrupted", "interrupted"), exhausted)

\* classifyAttempt: a runtime interruption decides before the completion does.
Classify(completion, valid, interruption, exhausted) ==
  CASE interruption = "cancelled" -> Ended("cancelled", "none")
    [] interruption = "deadline" -> Ended("timed_out", "interrupted")
    [] interruption \in {"operator_pause", "shutdown"} ->
         UnlessExhausted(Ended("interrupted", "interrupted"), exhausted)
    [] interruption = "none" -> ClassifyCompletion(completion, valid, exhausted)

(***************************************************************************)
(* decideRetry.  "handedOver" is an Attempt that ended on an approval or   *)
(* on a Decision it requested; "last" that it was the last of the          *)
(* allocation; "previous" the class of the Attempt before it.  A backoff   *)
(* that would end at or after the deadline is refused, so a transient      *)
(* failure before the deadline may go either way.                          *)
(***************************************************************************)
\* Mutant: the Attempts of the allocation are not counted.
RefusesRetryUncounted(ended, previous, handedOver, last, late) ==
  \/ handedOver
  \/ ended.status \in {"cancelled", "timed_out"}
  \/ ended.class \in {"provider_permanent", "allocation_exhausted"}
  \/ ended.class = "tool_failure" /\ previous = "tool_failure"
  \/ late

RefusesRetry(ended, previous, handedOver, last, late) ==
  \/ handedOver
  \/ ended.status \in {"cancelled", "timed_out"}
  \/ ended.class \in {"provider_permanent", "allocation_exhausted"}
  \/ ended.class = "tool_failure" /\ previous = "tool_failure"
  \/ last
  \/ late

RetryDecisions(ended, previous, handedOver, last, late, timed) ==
  CASE ended.status = "succeeded" -> {"none"}
    [] ended.status # "succeeded" /\ RefusesRetry(ended, previous, handedOver, last, late) ->
         {"refused"}
    [] ended.status # "succeeded" /\ ~RefusesRetry(ended, previous, handedOver, last, late) ->
         {"permitted"} \cup
         (IF timed /\ ended.class = "provider_transient" THEN {"refused"} ELSE {})

\* A transient failure waits out its backoff before the next Attempt.
BacksOff(ended, retry) == ended.class = "provider_transient" /\ retry = "permitted"

\* Mutant: an interrupted Attempt leaves its Invocation open even when no other
\* Attempt may follow.
SettledStatusKeepingInterrupted(ended, retry, handedOver) ==
  CASE ended.status = "succeeded" -> "succeeded"
    [] ended.status # "succeeded" /\ handedOver -> "blocked"
    [] ended.status = "cancelled" /\ ~handedOver -> "cancelled"
    [] ended.status \notin {"succeeded", "cancelled"} /\ ~handedOver ->
         IF retry = "permitted" \/ ended.status = "interrupted" THEN "running" ELSE "failed"

\* settleInvocation: what the Invocation becomes.
SettledStatus(ended, retry, handedOver) ==
  CASE ended.status = "succeeded" -> "succeeded"
    [] ended.status # "succeeded" /\ handedOver -> "blocked"
    [] ended.status = "cancelled" /\ ~handedOver -> "cancelled"
    [] ended.status \notin {"succeeded", "cancelled"} /\ ~handedOver ->
         IF retry = "permitted" THEN "running" ELSE "failed"

\* settleInvocation and applyTaskReports: what a running Task may become.
SettledTasks(status) ==
  CASE status = "succeeded" -> {"completed", "blocked", "failed"}
    [] status \in {"cancelled", "blocked"} -> {"blocked"}
    [] status = "failed" -> {"failed"}
    [] status = "running" -> {"running"}
=============================================================================
