-------------------------- MODULE RunHostProperties --------------------------
(***************************************************************************)
(* What the host promises the Runs and the shutdown.                       *)
(***************************************************************************)
EXTENDS RunHost

\* Passes that read the payload of a continuation, and those inside any action that awaits.
Preparing == {r \in host.running : pass[r].phase = "preparing"}
Underway == {r \in host.running : pass[r].phase \in {"preparing", "acting"}}

\* What stop() leaves open (RunHost.stop, RunScheduler.#pass): once it was called no pass
\* starts, no pass begins an action, and an Attempt is committed only by a pass that was
\* reading the payload of its continuation when stop() was called, at most one by each.  The
\* stop is asked before an action and not after the await inside it, so these still go on.
OnlyPreparedStartsAfterStop ==
  [][host.stopped =>
       /\ host'.running \subseteq host.running
       /\ Underway' \subseteq Underway
       /\ Preparing' \subseteq Preparing
       /\ executing' \ executing \subseteq Preparing \ Preparing']_hostVars

-----------------------------------------------------------------------------
(***************************************************************************)
(* Fairness.  A pass goes on until it ends (its steps are continuations of *)
(* one promise chain), an executing Attempt ends (AttemptProperties!       *)
(* LeaseReturned), timers fire and time passes, and the boot reconstructs. *)
(***************************************************************************)
HostFairness ==
  /\ \A r \in Runs :
       /\ WF_hostVars(PassStep(r)) /\ WF_hostVars(EndAttempt(r))
       /\ WF_hostVars(TimerFires(r))
  /\ \A r \in Timed : WF_hostVars(TimePasses(r))
  /\ WF_hostVars(Reconstruct)

FairHostSpec == HostSpec /\ HostFairness

\* No Run starves: a marked Run gets its pass, however often the others return to
\* the queue with more to do.
MarkedRunPasses ==
  \A r \in Runs : (r \in host.pending) ~> (r \in host.running \/ host.stopped)

\* No Run is stranded: one whose rows offer an action gets a pass, whatever was
\* released, reported or notified while its last pass ended (RunHost.pass, the capacity
\* signal).  A Run that waits for a time is the exception: finish may lose its wake-up.
NoRunStranded ==
  \A r \in Runs \ Timed :
    (HasWork(r) /\ r \notin host.running) ~>
      (r \in host.running \/ ~HasWork(r) \/ host.stopped)

\* stop() resolves (RunHost.stop, drain): every active pass ends, whatever it awaits and
\* executes, and the end of the last one resolves the call.  The exception is a pass that had
\* more to do: it marks its Run, the Run returns to the queue of a host that drains no more,
\* and the call waits for ever.
StopResolves ==
  (stopCall = "waiting") ~>
    (stopCall = "resolved" \/ (host.running = {} /\ \E r \in host.pending : Contains(host.queue, r)))
=============================================================================
