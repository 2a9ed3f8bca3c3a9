------------------------- MODULE PublicationPromise -------------------------
(***************************************************************************)
(* What publishing a Run promises its operator (docs/architecture/         *)
(* execution-model.md, section 9.4): the Target changes only for an        *)
(* authorized Publication, at most once for each and for one Publication   *)
(* of a Run at most; the change extends exactly what the Target held; a    *)
(* Publication that changed it ends succeeded, and one that fails never    *)
(* touched it.  Meanwhile the operator does with the Target what they      *)
(* like.                                                                   *)
(***************************************************************************)
EXTENDS Naturals, Sequences

CONSTANTS
  Publications,  \* the attempts at publishing
  RunOf,         \* the Run each publishes
  Operator       \* what a commit of the operator is called

VARIABLES
  state,         \* of each Publication
  history        \* what the Target holds: the Runs and operator commits in it

pvars == <<state, history>>

Engaged == {"open", "changed", "succeeded"}
Alone(p) == \A q \in Publications : RunOf[q] = RunOf[p] => state[q] \notin Engaged

Becomes(p, to) == state' = [state EXCEPT ![p] = to]

PInit == state = [p \in Publications |-> "absent"] /\ history = <<>>

Ask(p) == state[p] = "absent" /\ Becomes(p, "asked") /\ UNCHANGED history
Decline(p) == state[p] = "asked" /\ Becomes(p, "declined") /\ UNCHANGED history
Authorize(p) == state[p] = "asked" /\ Alone(p) /\ Becomes(p, "open") /\ UNCHANGED history

Change(p) ==
  /\ state[p] = "open" /\ Becomes(p, "changed")
  /\ history' = Append(history, RunOf[p])

Succeed(p) == state[p] = "changed" /\ Becomes(p, "succeeded") /\ UNCHANGED history
Fail(p) == state[p] = "open" /\ Becomes(p, "failed") /\ UNCHANGED history

OperatorActs ==
  /\ UNCHANGED state
  /\ \/ history' = Append(history, Operator)
     \/ \E n \in 0..Len(history) : history' = SubSeq(history, 1, n)

PNext ==
  \/ \E p \in Publications :
       Ask(p) \/ Decline(p) \/ Authorize(p) \/ Change(p) \/ Succeed(p) \/ Fail(p)
  \/ OperatorActs

PSpec == PInit /\ [][PNext]_pvars
=============================================================================
