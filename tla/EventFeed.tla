------------------------------ MODULE EventFeed ------------------------------
(***************************************************************************)
(* What the event subscription promises its reader: the committed Events   *)
(* in its scope, each once, in the order of their sequence, over every     *)
(* reconnect and restart; and each of them eventually.                     *)
(***************************************************************************)
EXTENDS Naturals, Sequences, SequencesExt

VARIABLES
  log,    \* the committed Events in order: whether each is in the reader's scope
  seen    \* the sequences of the Events the reader has handled, in order

Handled(n) == n \in ToSet(seen)

Init == log = <<>> /\ seen = <<>>

\* Events are only ever appended.
Commit ==
  /\ Len(log') > Len(log) /\ IsPrefix(log, log')
  /\ UNCHANGED seen

\* The first Event in scope that was not handled.
See ==
  /\ \E n \in DOMAIN log :
       /\ log[n] /\ ~Handled(n) /\ \A m \in 1..n - 1 : log[m] => Handled(m)
       /\ seen' = Append(seen, n)
  /\ UNCHANGED log

\* Each once and in order; and each eventually.
InOrder == Init /\ [][Commit \/ See]_<<log, seen>>

Spec == InOrder /\ WF_<<log, seen>>(See)
=============================================================================
