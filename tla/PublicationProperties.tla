------------------------ MODULE PublicationProperties ------------------------
(***************************************************************************)
(* What publication promises the operator and the Target.                  *)
(***************************************************************************)
EXTENDS Publication

\* The statuses behind the prepared boundary, on the way to success.
Past == {"prepared", "verified", "applying", "succeeded"}

\* The rows, references and drivers keep their shape (publications.ts, run-host.ts).
PubShape ==
  /\ row \in [Publications -> Rows]
  /\ passed \in [Publications -> Commits] /\ receipt \in [Publications -> Commits]
  /\ target \in Commits
  /\ marker \in [Publications -> Facts] /\ staged \in [Publications -> BOOLEAN]
  /\ up \in BOOLEAN
  /\ drv \in [Publications -> [Drivers -> DriverStates]]

\* Of a row: prepared facts once it passed that boundary, an obligation once it exists.
RowComplete(p) ==
  /\ Status(p) \in Past => row[p].facts # NoFacts
  /\ (Status(p) \notin Open \cup Final) <=> (row[p].cleanup = "none")

\* The type invariant: the records keep their shape, and every row is complete for its
\* status (publicationSchema, PublicationStore.transition).
PubTypeOK == PubShape /\ \A p \in Publications : RowComplete(p)

\* The promise: an open Publication has changed the Target once its receipt exists.
PromisedState(p) ==
  IF Status(p) \notin Open THEN Status(p)
  ELSE IF receipt[p] # Base THEN "changed" ELSE "open"

Promise == INSTANCE PublicationPromise
  WITH state <- [p \in Publications |-> PromisedState(p)], history <- target

\* Publication keeps the promise: one change of the Target per authorization and per
\* Run, on exactly what the Target held, reported as it went (execution-model 9.4).
KeepsPromise == Promise!PSpec

\* A failed Publication did not modify the Target, however its driver was repeated
\* (core/src/publication.ts PublicationFailure, publication.ts failTerminal).
FailedMeansUntouched == \A p \in Publications : Status(p) = "failed" => receipt[p] = Base

\* What reaches the Target is what the criteria passed on: the candidate of the row is
\* the one in the staging that was checked, although the staging was located again by
\* repeating the preparation (publication.ts verifyStep).
CheckedIsApplied == \A p \in Checked : receipt[p] # Base => receipt[p] = passed[p]

-----------------------------------------------------------------------------
(***************************************************************************)
(* Fairness.  A driver goes on (its steps continue one promise chain), the *)
(* server is started again, and the operator advances a Publication as     *)
(* long as the projection offers it (inspect.allowedActions).              *)
(***************************************************************************)
OfferedRetry(p, d) == Outstanding(p) /\ Retry(p, d)

PublicationFairness ==
  /\ \A p \in Publications, d \in Drivers :
       WF_vars(DriverStep(p, d)) /\ WF_vars(OfferedRetry(p, d))
  /\ WF_vars(Boot)

FairSpec == Spec /\ PublicationFairness

\* A driver that ends on its own account (an unknown result) is not disturbed.
Disturbed ==
  \/ Crash \/ OperatorCommits \/ OperatorResets
  \/ \E p \in Publications :
       \/ DamageMarker(p)
       \/ \E d \in Drivers : Unavailable(p, d) /\ ~DriverStep(p, d)

\* The row recorded one preparation, the directory another.
Disagrees(p) == Status(p) = "prepared" /\ p \in Checked /\ marker[p] # row[p].facts

\* Once the disturbances end and the Target is left alone (moved away and back before
\* every reading of it, each swap would stay unknown), every Publication reaches its outcome and is released,
\* from whatever boundary it was left at; the exception is a prepared Publication
\* whose directory no longer holds what its row recorded.
PublicationEnds ==
  <>[][~Disturbed]_vars =>
    \A p \in Publications : Outstanding(p) ~> (~Outstanding(p) \/ Disagrees(p))
=============================================================================
