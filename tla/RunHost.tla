------------------------------- MODULE RunHost -------------------------------
(***************************************************************************)
(* The host driver of the scheduler (host/run-host.ts): notifications that *)
(* coalesce into marks, a queue, a bounded number of concurrent passes,    *)
(* one timer per Run, the Runs that wait for capacity, and the stop.  The  *)
(* pass is the loop of RunScheduler.#pass (execution/scheduler.ts), seen   *)
(* from the host: it acts, awaits what an action awaits and the Attempt it *)
(* executes, and finishes with a stop reason of the projection that ended  *)
(* the loop and with waits and a wake-up time of one made afterwards.      *)
(*                                                                         *)
(* Each action is one synchronous segment of the process.  What the rows   *)
(* of a Run offer next is abstracted to "need"; a Run executes at most one *)
(* Attempt at a time.  Publications, which the host drives beside the      *)
(* Runs, are not part of this module.                                      *)
(***************************************************************************)
EXTENDS Naturals, Sequences, FiniteSets, SequencesExt

CONSTANTS
  Runs,               \* Runs of the process
  ConcurrencyLimits,  \* configured numbers of passes at the same time
  MaxActions,         \* actions of one pass
  Slots,              \* capacity leases of the governor
  Recording,          \* Runs whose row records a capacity wait (not a verifying Run's)
  Timed,              \* Runs that may have to wait for a time
  Faulty              \* Runs whose pass may end in an infrastructure failure

ASSUME HostAssumption ==
  /\ ConcurrencyLimits \subseteq Nat \ {0} /\ MaxActions \in Nat \ {0} /\ Slots \in Nat
  /\ IsFiniteSet(Runs) /\ Recording \subseteq Runs /\ Timed \subseteq Runs
  /\ Faulty \subseteq Runs

VARIABLES
  need,       \* what the rows of the Run offer next
  recorded,   \* Runs whose row says waiting on provider_capacity
  executing,  \* Runs with an executing Attempt, which holds a lease
  host,       \* the host: marks, passes, queue, timers, waiters
  pass,       \* where the pass of a running Run stands
  stopCall,   \* the call of stop()
  booted      \* reconstruct() has notified the Runs

hostVars == <<need, recorded, executing, host, pass, stopCall, booted>>

-----------------------------------------------------------------------------
Needs == {"quiet", "act", "execute", "timed", "terminal"}
StopReasons == {"none", "quiescent", "waiting", "action_limit", "run_terminal", "failure"}
FreshPass == [phase |-> "looping", done |-> 0, stop |-> "none", capacity |-> FALSE,
              wake |-> FALSE]
Finishing(reason) == [FreshPass EXCEPT !.phase = "finishing", !.stop = reason]
NewHost(limit) == [limit |-> limit, pending |-> {}, running |-> {}, queue |-> <<>>,
                   armed |-> {}, waiters |-> {}, stopped |-> FALSE]

\* What an action, an Attempt or the operator may leave of a Run's work.
Leaves(r) == {"quiet", "act", "execute", "terminal"} \cup (IF r \in Timed THEN {"timed"} ELSE {})
Left(r) == IF need[r] = "terminal" THEN {"terminal"} ELSE Leaves(r)

HostInit ==
  /\ need \in [Runs -> Needs \ {"terminal", "timed"}]
  /\ recorded \in SUBSET {r \in Recording : need[r] = "execute"}
  /\ executing = {}
  /\ host \in {NewHost(limit) : limit \in ConcurrencyLimits}
  /\ pass = [r \in Runs |-> FreshPass]
  /\ stopCall = "none"
  /\ booted = FALSE

-----------------------------------------------------------------------------
(***************************************************************************)
(* The host's own operations, from a host to a host.                       *)
(***************************************************************************)
\* One iteration of drain with r at the head of the queue.
Started(h, r) ==
  IF Cardinality(h.running) >= h.limit THEN h
  ELSE LET rest == [h EXCEPT !.queue = Tail(@)] IN
       IF r \in h.pending \ h.running
       THEN [rest EXCEPT !.pending = @ \ {r}, !.running = @ \cup {r}] ELSE rest

Drained(h) == IF h.stopped THEN h ELSE FoldLeft(Started, h, h.queue)

Marked(h, r) ==
  [h EXCEPT !.pending = @ \cup {r}, !.queue = IF r \in h.running THEN @ ELSE Append(@, r)]

\* notifyRun
Notified(h, r) ==
  LET calm == [h EXCEPT !.armed = @ \ {r}, !.waiters = @ \ {r}]
  IN  IF h.stopped THEN h
      ELSE IF r \in h.pending THEN calm ELSE Drained(Marked(calm, r))

NotifiedAll(h, order) == FoldLeft(Notified, h, order)

\* arm: nothing is armed once the host has stopped.
Armed(h, r) == [h EXCEPT !.armed = IF h.stopped THEN @ \ {r} ELSE @ \cup {r}]

\* Mutant: only the Runs this process remembers are told of a released lease.
CapacityWaitersRemembered == host.waiters

\* capacityReleased: the Runs the rows record as waiting and those remembered.
CapacityWaiters == host.waiters \cup recorded

-----------------------------------------------------------------------------
(***************************************************************************)
(* What the rows offer a pass: the scheduler's projection of the Run.      *)
(***************************************************************************)
Full == Cardinality(executing) >= Slots
Refused(r) == need[r] = "execute" /\ r \notin executing /\ Full
HasWork(r) == need[r] = "act" \/ (need[r] = "execute" /\ r \notin executing /\ ~Full)
HasAction(r) == HasWork(r) \/ (Refused(r) /\ r \in Recording \ recorded)

\* Inside the loop a pass is between two actions, or in one that awaits something.
InLoop == {"looping", "preparing", "acting"}
Stands(r, phase) == r \in host.running /\ pass[r].phase = phase
Looping(r) == Stands(r, "looping")

\* Mutant: a stopping host is not asked before an action.
LimitedByCountOnly(r) == pass[r].done >= MaxActions

PassLimited(r) == pass[r].done >= MaxActions \/ host.stopped

\* The first action is performed, and the pass stands in the given phase after this segment.
Acts(r, phase) ==
  /\ Looping(r)
  /\ need[r] # "terminal" /\ HasAction(r) /\ ~PassLimited(r)
  /\ pass' = [pass EXCEPT ![r].done = @ + 1, ![r].phase = phase]
  /\ UNCHANGED <<host, stopCall, booted>>

\* resume_run comes before any other action of a waiting Run.
ResumeRun(r) ==
  /\ Acts(r, "looping") /\ r \in recorded /\ HasWork(r)
  /\ recorded' = recorded \ {r}
  /\ UNCHANGED <<need, executing>>

\* wait_run, revalidated inside its transaction.
WaitRun(r) ==
  /\ Acts(r, "looping") /\ Refused(r)
  /\ recorded' = recorded \cup {r}
  /\ UNCHANGED <<need, executing>>

\* The transaction of prepareNextAttempt commits the Attempt and its lease, and the Attempt is
\* executed at once.
Commits(r) ==
  /\ executing' = executing \cup {r}
  /\ need' = [need EXCEPT ![r] = IF @ = "execute" THEN "quiet" ELSE @]

\* execute_invocation of an Attempt that starts afresh: nothing is awaited before its transaction.
ExecuteInvocation(r) ==
  /\ Acts(r, "looping") /\ r \notin recorded /\ need[r] = "execute" /\ HasWork(r)
  /\ Commits(r)
  /\ UNCHANGED recorded

\* ... and of one that may resume a continuation, whose payload is awaited first.
AwaitContinuation(r) ==
  /\ Acts(r, "preparing") /\ r \notin recorded /\ need[r] = "execute" /\ HasWork(r)
  /\ UNCHANGED <<need, recorded, executing>>

\* The transaction inspects the Invocation and asks the governor again, and not whether the
\* host has stopped meanwhile.
PrepareResumed(r) ==
  /\ Stands(r, "preparing")
  /\ pass' = [pass EXCEPT ![r].phase = "looping"]
  /\ \/ need[r] # "terminal" /\ ~Full /\ Commits(r)
     \/ (Full \/ need[r] # "execute") /\ UNCHANGED <<need, executing>>
     \/ /\ need[r] = "execute" /\ UNCHANGED executing
        /\ \E left \in Leaves(r) \ {"execute"} : need' = [need EXCEPT ![r] = left]
  /\ UNCHANGED <<recorded, host, stopCall, booted>>

\* Any other action; what it leaves is the scheduler's and the plan's affair.
PerformAction(r) ==
  /\ Acts(r, "looping") /\ r \notin recorded /\ need[r] = "act"
  /\ \E left \in Leaves(r) : need' = [need EXCEPT ![r] = left]
  /\ UNCHANGED <<recorded, executing>>

\* ... which may await git or a command and commit only then.
AwaitAction(r) ==
  /\ Acts(r, "acting") /\ r \notin recorded /\ need[r] = "act"
  /\ UNCHANGED <<need, recorded, executing>>

CommitAction(r) ==
  /\ Stands(r, "acting")
  /\ pass' = [pass EXCEPT ![r].phase = "looping"]
  /\ \E left \in Left(r) : need' = [need EXCEPT ![r] = left]
  /\ UNCHANGED <<recorded, executing, host, stopCall, booted>>

\* The loop ends: the reason is the one of this projection.  Without an action the
\* pass awaits the Attempt it executes instead.
EndLoop(r) ==
  /\ Looping(r)
  /\ \E reason \in StopReasons :
       /\ \/ reason = "run_terminal" /\ need[r] = "terminal"
          \/ reason = "action_limit" /\ need[r] # "terminal" /\ HasAction(r) /\ PassLimited(r)
          \/ reason = "waiting" /\ r \notin executing /\ ~HasAction(r)
               /\ (Refused(r) \/ need[r] = "timed")
          \/ reason = "quiescent" /\ r \notin executing /\ need[r] = "quiet"
       /\ pass' = [pass EXCEPT ![r] = Finishing(reason)]
  /\ UNCHANGED <<need, recorded, executing, host, stopCall, booted>>

\* A projection, an action or an Attempt that throws.
FailPass(r) ==
  /\ r \in Faulty /\ r \in host.running /\ pass[r].phase \in InLoop
  /\ pass' = [pass EXCEPT ![r] = Finishing("failure")]
  /\ UNCHANGED <<need, recorded, executing, host, stopCall, booted>>

\* finish: every executing Attempt has settled; the waits and the wake-up time the
\* outcome carries are those of a second projection.
FinishPass(r) ==
  /\ Stands(r, "finishing") /\ r \notin executing
  /\ pass' = [pass EXCEPT ![r].phase = "returned", ![r].capacity = Refused(r),
                          ![r].wake = need[r] = "timed"]
  /\ UNCHANGED <<need, recorded, executing, host, stopCall, booted>>

\* The transaction that ends an Attempt released its lease: the listener runs at once.
EndAttempt(r) ==
  /\ r \in executing
  /\ executing' = executing \ {r}
  /\ \E left \in Left(r) : need' = [need EXCEPT ![r] = left]
  /\ \E order \in SetToSeqs(CapacityWaiters) : host' = NotifiedAll(host, order)
  /\ UNCHANGED <<recorded, pass, stopCall, booted>>

-----------------------------------------------------------------------------
(***************************************************************************)
(* The continuation of pass() and the finally of drain().                  *)
(***************************************************************************)
WaitingApplied(h, r) ==
  LET timed == IF pass[r].wake THEN Armed(h, r) ELSE h
  IN  IF pass[r].capacity /\ r \notin h.pending /\ ~h.stopped
      THEN [timed EXCEPT !.waiters = @ \cup {r}] ELSE timed

\* Every other Run with a mark gets its turn.
OthersQueued(h, r) ==
  LET unqueued == {q \in h.pending \ h.running : q # r /\ ~Contains(h.queue, q)}
  IN  [h EXCEPT !.queue = @ \o SetToSeq(unqueued)]

Applied(h, r) ==
  CASE pass[r].stop = "failure" -> IF h.stopped THEN h ELSE Armed(h, r)
    [] pass[r].stop = "action_limit" ->
         OthersQueued([h EXCEPT !.pending = @ \cup {r}], r)
    [] pass[r].stop = "waiting" -> OthersQueued(WaitingApplied(h, r), r)
    [] pass[r].stop \in {"quiescent", "run_terminal"} -> OthersQueued(h, r)

\* afterPass may have prepared work of another Run, the turn of a Conversation.
ApplyOutcome(r) ==
  /\ Stands(r, "returned")
  /\ \/ host' = Applied(host, r) /\ UNCHANGED need
     \/ \E q \in Runs \ {r} :
          /\ ~host.stopped /\ need[q] = "quiet"
          /\ need' = [need EXCEPT ![q] = "act"]
          /\ host' = Applied(Notified(host, q), r)
  /\ pass' = [pass EXCEPT ![r] = [FreshPass EXCEPT !.phase = "applied"]]
  /\ UNCHANGED <<recorded, executing, stopCall, booted>>

\* Mutant: a Run with more to do goes on before the others.
RequeuedFirst(h, r) ==
  [h EXCEPT !.running = @ \ {r}, !.queue = IF r \in h.pending THEN <<r>> \o @ ELSE @]

Requeued(h, r) ==
  [h EXCEPT !.running = @ \ {r}, !.queue = IF r \in h.pending THEN Append(@, r) ELSE @]

Idle(h) == h.running = {} /\ h.queue = <<>>

\* Mutant: whether the host is idle is asked before the ending pass leaves the active ones.
IdleBefore(h, r) == Idle(h)

\* The last pass ended and left nothing on the queue.
IdleAfter(h, r) == Idle(Requeued(h, r))

EndPass(r) ==
  /\ Stands(r, "applied")
  /\ host' = Drained(Requeued(host, r))
  /\ stopCall' = IF stopCall = "waiting" /\ IdleAfter(host, r) THEN "resolved" ELSE stopCall
  /\ pass' = [pass EXCEPT ![r] = FreshPass]
  /\ UNCHANGED <<need, recorded, executing, booted>>

-----------------------------------------------------------------------------
(***************************************************************************)
(* The outside: operator actions, time, boot and shutdown.                 *)
(***************************************************************************)
\* A committed operator action, and the notification that follows it at once.
OperatorAct(r) ==
  /\ ~host.stopped /\ need[r] # "terminal"
  /\ \E left \in {"act", "execute", "terminal"} :
       /\ need' = [need EXCEPT ![r] = left]
       /\ recorded' = IF left = "terminal" THEN recorded \ {r} ELSE recorded
  /\ host' = Notified(host, r)
  /\ UNCHANGED <<executing, pass, stopCall, booted>>

TimePasses(r) ==
  /\ need[r] = "timed"
  /\ \E left \in {"act", "execute"} : need' = [need EXCEPT ![r] = left]
  /\ UNCHANGED <<recorded, executing, host, pass, stopCall, booted>>

TimerFires(r) ==
  /\ r \in host.armed
  /\ host' = Notified([host EXCEPT !.armed = @ \ {r}], r)
  /\ UNCHANGED <<need, recorded, executing, pass, stopCall, booted>>

\* reconstruct: every nonterminal Run, in the order of the rows.
Reconstruct ==
  /\ ~booted
  /\ booted' = TRUE
  /\ \E order \in SetToSeqs({r \in Runs : need[r] # "terminal"}) : host' = NotifiedAll(host, order)
  /\ UNCHANGED <<need, recorded, executing, pass, stopCall>>

Stop ==
  /\ ~host.stopped
  /\ host' = [host EXCEPT !.stopped = TRUE, !.waiters = {}, !.armed = {}, !.queue = <<>>,
                          !.pending = {}]
  /\ stopCall' = IF host.running = {} THEN "resolved" ELSE "waiting"
  /\ UNCHANGED <<need, recorded, executing, pass, booted>>

-----------------------------------------------------------------------------
PassStep(r) ==
  \/ ResumeRun(r) \/ WaitRun(r) \/ ExecuteInvocation(r) \/ PerformAction(r)
  \/ AwaitContinuation(r) \/ PrepareResumed(r) \/ AwaitAction(r) \/ CommitAction(r)
  \/ EndLoop(r) \/ FailPass(r) \/ FinishPass(r) \/ ApplyOutcome(r) \/ EndPass(r)

HostNext ==
  \/ \E r \in Runs :
       \/ PassStep(r) \/ EndAttempt(r)
       \/ OperatorAct(r) \/ TimePasses(r) \/ TimerFires(r)
  \/ Reconstruct \/ Stop

HostSpec == HostInit /\ [][HostNext]_hostVars
=============================================================================
