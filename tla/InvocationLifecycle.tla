-------------------------- MODULE InvocationLifecycle --------------------------
(***************************************************************************)
(* What an Invocation promises whoever waits for it, without leases,       *)
(* flights, backoffs, processes or their crashes: it executes one Attempt  *)
(* at a time and a bounded number of them, it starts none that its Run     *)
(* does not admit, it ends once, and it never succeeds while its Run is    *)
(* halted or cancelled.  Cancelling a Run settles everything of it that    *)
(* does not execute; a Run completes only when nothing of it is left.      *)
(***************************************************************************)
EXTENDS Naturals

CONSTANTS
  Runs, Invocations,
  RunOf,        \* the Run of each Invocation
  Budget        \* Attempts an Invocation may begin

VARIABLES
  stage,        \* of each Invocation
  begun,        \* Attempts the Invocation has begun
  course        \* of each Run: going, draining, halted, or how it ended

lvars == <<stage, begun, course>>

Ends == {"succeeded", "failed", "blocked", "cancelled"}
Stages == Ends \cup {"absent", "open", "executing"}

CourseOf(i) == course[RunOf[i]]
Work(r) == {i \in Invocations : RunOf[i] = r}
Turns(r, to) == course' = [course EXCEPT ![r] = to]

LInit ==
  /\ stage = [i \in Invocations |-> "absent"]
  /\ begun = [i \in Invocations |-> 0]
  /\ course = [r \in Runs |-> "going"]

Prepare(i) ==
  /\ stage[i] = "absent" /\ CourseOf(i) = "going"
  /\ stage' = [stage EXCEPT ![i] = "open"]
  /\ UNCHANGED <<begun, course>>

Begin(i) ==
  /\ stage[i] = "open" /\ CourseOf(i) = "going" /\ begun[i] < Budget
  /\ stage' = [stage EXCEPT ![i] = "executing"]
  /\ begun' = [begun EXCEPT ![i] = @ + 1]
  /\ UNCHANGED course

GiveUp(i) ==
  /\ stage[i] = "open" /\ CourseOf(i) = "going"
  /\ stage' = [stage EXCEPT ![i] = "failed"]
  /\ UNCHANGED <<begun, course>>

\* How an Attempt may leave its Invocation when nobody has its result.
MayLeave(i, to) ==
  \/ to \in {"failed", "blocked"}
  \/ to = "open" /\ begun[i] < Budget /\ CourseOf(i) # "cancelled"
  \/ to = "cancelled" /\ CourseOf(i) \in {"cancelled", "failed"}

EndAttempt(i) ==
  /\ stage[i] = "executing"
  /\ \E to \in Ends \cup {"open"} :
       /\ \/ MayLeave(i, to)
          \/ to = "succeeded" /\ CourseOf(i) \notin {"halted", "cancelled"}
       /\ stage' = [stage EXCEPT ![i] = to]
  /\ UNCHANGED <<begun, course>>

\* The executor is lost: every Attempt ends, and none with a result.
LoseAll ==
  /\ stage' \in [Invocations -> Stages]
  /\ \A i \in Invocations :
       IF stage[i] = "executing" THEN MayLeave(i, stage'[i]) ELSE stage'[i] = stage[i]
  /\ UNCHANGED <<begun, course>>

Cancel(r) ==
  /\ course[r] \in {"going", "draining", "halted"}
  /\ Turns(r, "cancelled")
  /\ stage' = [i \in Invocations |->
                 IF i \in Work(r) /\ stage[i] = "open" THEN "cancelled" ELSE stage[i]]
  /\ UNCHANGED begun

Pause(r) ==
  /\ \/ course[r] = "going" /\ \E to \in {"draining", "halted"} : Turns(r, to)
     \/ course[r] = "draining" /\ Turns(r, "halted")
  /\ UNCHANGED <<stage, begun>>

Resume(r) ==
  /\ course[r] \in {"draining", "halted"} /\ Turns(r, "going")
  /\ UNCHANGED <<stage, begun>>

Complete(r) ==
  /\ course[r] = "going" /\ \A i \in Work(r) : stage[i] \notin {"open", "executing"}
  /\ Turns(r, "completed")
  /\ UNCHANGED <<stage, begun>>

Fail(r) ==
  /\ course[r] = "going" /\ \E i \in Work(r) : stage[i] = "failed"
  /\ Turns(r, "failed")
  /\ UNCHANGED <<stage, begun>>

LNext ==
  \/ \E i \in Invocations : Prepare(i) \/ Begin(i) \/ GiveUp(i) \/ EndAttempt(i)
  \/ LoseAll
  \/ \E r \in Runs : Cancel(r) \/ Pause(r) \/ Resume(r) \/ Complete(r) \/ Fail(r)

LSpec == LInit /\ [][LNext]_lvars
=============================================================================
