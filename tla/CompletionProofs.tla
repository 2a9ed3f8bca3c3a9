-------------------------- MODULE CompletionProofs --------------------------
(***************************************************************************)
(* Why the Run, its request, its Gates and the signoff tell one story, why *)
(* a Run completes only on what was verified, and why a Run in             *)
(* verification always has a next step, for any Requirements, criteria,    *)
(* bounds and accept calls in the air.                                     *)
(***************************************************************************)
EXTENDS Completion, WellFoundedInduction, TLAPS

TurnRecords ==
  [purpose : {"work", "gate_result"}, status : {"running", "completed", "partial", "failed", "blocked"},
   changes : BOOLEAN]
Verdicts == UNION {[D -> {"none", "pass", "fail"}] : D \in SUBSET Criteria}
GateRecords ==
  [status : {"open", "passed", "failed"}, snapshot : Nat, revision : Nat, leaves : SUBSET Leaves,
   verdict : Verdicts,
   failure : {"none", "final_reserve_exhausted", "criteria_failed", "evaluator_failed",
              "conditions_unmet", "final_synthesis_failed"},
   task : {"none", "pending", "running", "completed", "failed"},
   signoff : {"none", "open", "accept", "request_changes"}]
RunRecords ==
  [status : {"running", "verifying", "awaiting_signoff"} \cup Ended, paused : BOOLEAN,
   snapshot : Nat, final : Nat]
RequestRecords == [status : {"none", "requested", "verifying"}, turn : Nat]

CompletionTypeOK ==
  /\ run \in RunRecords
  /\ turns \in Seq(TurnRecords) /\ turns # <<>>
  /\ request \in RequestRecords
  /\ gates \in Seq(GateRecords)
  /\ work \in [kind : {"none", "evaluator", "synthesis"},
               status : {"none", "active", "succeeded", "failed", "blocked"}]
  /\ reserve \in Nat
  /\ leaf \in [Leaves -> Present \cup {"absent", "retired"}]
  /\ tree \in [number : Nat, leaves : SUBSET Leaves]
  /\ open \subseteq {"turn", "conversation", "approval"}
  /\ plan \in [busy : BOOLEAN, queued : BOOLEAN]
  /\ checking \in BOOLEAN
  /\ accepts \in [Calls -> [stage : {"none", "read", "inspected"}, gate : Nat, stale : BOOLEAN]]

\* A signoff is a passed Gate's, and what passed had every criterion judged to pass.
SignedOffPassed ==
  \A i \in DOMAIN gates :
    /\ gates[i].signoff # "none" => gates[i].status = "passed"
    /\ gates[i].status = "passed" => \A c \in DOMAIN gates[i].verdict : gates[i].verdict[c] = "pass"

\* The commands under way are those of the open Gate, which has checks left and none failed.
ChecksUnderWay ==
  checking => gates # <<>> /\ Gate.status = "open" /\ PendingChecks # {} /\ FailedChecks = {}

\* As long as the revision is the one the Gate pinned, the Gate has every criterion that counts.
PinnedIsComplete ==
  gates # <<>> => /\ Gate.revision <= tree.number
                  /\ Gate.revision = tree.number => CurrentCriteria \subseteq DOMAIN Gate.verdict

StoryInv == CompletionTypeOK /\ OneStory /\ SignedOffPassed /\ ChecksUnderWay /\ PinnedIsComplete

-----------------------------------------------------------------------------
(***************************************************************************)
(* The latest Gate and turn, and what writing them leaves of the others.   *)
(***************************************************************************)
LEMMA Replaced ==
  ASSUME NEW S, NEW s \in Seq(S), s # <<>>, NEW x \in S,
         NEW t, t = [s EXCEPT ![Len(s)] = x]
  PROVE  /\ t \in Seq(S) /\ Len(t) = Len(s) /\ t # <<>> /\ DOMAIN t = 1..Len(s)
         /\ t[Len(t)] = x
         /\ \A i \in 1..Len(s) : i < Len(s) => t[i] = s[i]
  OBVIOUS

LEMMA LatestGate ==
  ASSUME CompletionTypeOK, gates # <<>>
  PROVE  Gate \in GateRecords /\ Len(gates) \in DOMAIN gates /\ Gate.verdict \in [DOMAIN Gate.verdict -> {"none", "pass", "fail"}]
<1>1. Gate \in GateRecords /\ Len(gates) \in DOMAIN gates
  BY DEF CompletionTypeOK, Gate
<1>2. Gate.verdict \in Verdicts
  BY <1>1 DEF GateRecords
<1>3. QED
  BY <1>1, <1>2 DEF Verdicts

LEMMA LatestTurn ==
  ASSUME CompletionTypeOK
  PROVE  Turn \in TurnRecords /\ Len(turns) \in DOMAIN turns
  BY DEF CompletionTypeOK, Turn

LEMMA StaledType ==
  ASSUME CompletionTypeOK
  PROVE  Staled \in [Calls -> [stage : {"none", "read", "inspected"}, gate : Nat, stale : BOOLEAN]]
<1> DEFINE Rows == [stage : {"none", "read", "inspected"}, gate : Nat, stale : BOOLEAN]
<1>1. NoCall \in Rows
  BY DEF NoCall
<1>2. ASSUME NEW c \in Calls
      PROVE  [accepts[c] EXCEPT !.stale = TRUE] \in Rows
  <2>1. accepts[c] \in Rows
    BY DEF CompletionTypeOK
  <2>2. QED
    BY <2>1
<1> HIDE DEF Rows
<1>3. Staled \in [Calls -> Rows]
  BY <1>1, <1>2 DEF Staled
<1>4. QED
  BY <1>3 DEF Rows

\* The Gate of a Run in verification is open, and the one of a Run awaiting its signoff passed.
LEMMA VerifiesOpenGate ==
  ASSUME StoryInv, run.status = "verifying"
  PROVE  /\ gates # <<>> /\ Gate \in GateRecords /\ Gate.status = "open"
         /\ Gate.task = "none" /\ Gate.signoff = "none" /\ request.status = "verifying"
<1>1. gates # <<>> /\ Gate.status = "open" /\ request.status = "verifying"
  BY DEF StoryInv, OneStory
<1>2. QED
  BY <1>1, LatestGate DEF StoryInv, OneStory, SignedOffPassed, Gate

LEMMA AwaitsOnPassedGate ==
  ASSUME StoryInv, run.status = "awaiting_signoff"
  PROVE  /\ gates # <<>> /\ Gate \in GateRecords /\ Gate.status = "passed"
         /\ Gate.task = "none" /\ Gate.signoff = "open" /\ AllPassed /\ ~checking
<1>1. gates # <<>> /\ Gate.signoff = "open"
  BY DEF StoryInv, OneStory
<1>2. Gate.status = "passed" /\ \A c \in DOMAIN Gate.verdict : Gate.verdict[c] = "pass"
  BY <1>1, LatestGate DEF StoryInv, SignedOffPassed, Gate
<1>3. QED
  BY <1>1, <1>2, LatestGate DEF StoryInv, OneStory, SignedOffPassed, Gate, AllPassed, Recorded, ChecksUnderWay

-----------------------------------------------------------------------------
(***************************************************************************)
(* Steps that write neither Gates nor their checks.                        *)
(***************************************************************************)
\* A leaf that is waived stays so while the revision does.
WaivedStay == tree' = tree /\ \A l \in Leaves : leaf[l] = "waived" => leaf'[l] = "waived"

\* What such a step may do to the Run and its request.
StoryGoesOn ==
  /\ \/ run'.status \in {run.status, "cancelled"}
     \/ run.status = "running" /\ run'.status = "failed"
  /\ \/ request'.status = request.status
     \/ run.status = "running" /\ request'.status \in {"none", "requested"}
  /\ run'.status = "completed" => request' = request

LEMMA GatesAside ==
  ASSUME StoryInv, CompletionTypeOK', UNCHANGED gates, checking' => checking,
         StoryGoesOn,
         WaivedStay \/ gates = <<>> \/ tree'.number > tree.number
  PROVE  StoryInv'
<1>1. Gate' = Gate /\ PendingChecks' = PendingChecks /\ FailedChecks' = FailedChecks
  BY DEF Gate, PendingChecks, FailedChecks, Recorded
<1>2. ChecksUnderWay' /\ SignedOffPassed'
  BY <1>1 DEF StoryInv, ChecksUnderWay, SignedOffPassed, Gate
<1>3. OneStory'
  BY <1>1 DEF StoryInv, OneStory, StoryGoesOn, NoRequest, CompletionTypeOK, RunRecords, RequestRecords, Ended
<1>4. PinnedIsComplete'
  <2>1. CASE WaivedStay
    BY <1>1, <2>1, CompletionAssumption DEF StoryInv, PinnedIsComplete, CurrentCriteria, WaivedStay, CompletionAssumption
  <2>2. CASE gates = <<>>
    BY <2>2 DEF PinnedIsComplete
  <2>3. CASE gates # <<>> /\ tree'.number > tree.number
    <3>1. Gate.revision \in Nat /\ tree.number \in Nat /\ tree'.number \in Nat
      BY <2>3, LatestGate DEF StoryInv, CompletionTypeOK, GateRecords
    <3>2. QED
      BY <1>1, <2>3, <3>1 DEF StoryInv, PinnedIsComplete
  <2>4. QED
    BY <2>1, <2>2, <2>3
<1>5. QED
  BY <1>2, <1>3, <1>4 DEF StoryInv

-----------------------------------------------------------------------------
(***************************************************************************)
(* Steps that write the latest Gate, and those that write Tasks.           *)
(***************************************************************************)
\* What must be so of the Gate written, the Run and the request beside it.
Fits(g) ==
  /\ g \in GateRecords
  /\ g.revision = Gate.revision /\ DOMAIN g.verdict = DOMAIN Gate.verdict
  /\ (g.status = "failed") = (g.task # "none")
  /\ g.signoff # "none" => g.status = "passed"
  /\ g.status = "passed" => \A c \in DOMAIN g.verdict : g.verdict[c] = "pass"
  /\ request'.status = "verifying" => g.status = "open"
  /\ run'.status = "verifying" => request'.status = "verifying"
  /\ run'.status = "awaiting_signoff" => g.signoff = "open"
  /\ run'.status \in {"running", "completed", "failed"} =>
       request'.status # "verifying" /\ g.status # "open" /\ g.signoff # "open"
  /\ run'.status = "completed" => request' = NoRequest
  /\ checking' =>
       /\ g.status = "open"
       /\ \E c \in Checks \cap DOMAIN g.verdict : g.verdict[c] = "none"
       /\ \A c \in Checks \cap DOMAIN g.verdict : g.verdict[c] # "fail"

LEMMA GateWritten ==
  ASSUME StoryInv, CompletionTypeOK', gates # <<>>, NEW g, Fits(g), Closes(g),
         UNCHANGED <<tree, leaf>>
  PROVE  StoryInv'
<1>1. /\ gates' \in Seq(GateRecords) /\ Len(gates') = Len(gates) /\ gates' # <<>>
      /\ DOMAIN gates' = 1..Len(gates) /\ DOMAIN gates = 1..Len(gates)
      /\ Gate' = g /\ gates'[Len(gates)] = g
      /\ \A i \in 1..Len(gates) : i < Len(gates) => gates'[i] = gates[i]
  <2>1. gates \in Seq(GateRecords) /\ g \in GateRecords
    BY DEF StoryInv, CompletionTypeOK, Fits
  <2>2. gates' = [gates EXCEPT ![Len(gates)] = g]
    BY DEF Closes
  <2>3. QED
    BY <2>1, <2>2, Replaced DEF Gate
<1>2. Len(gates) \in Nat /\ \A i \in 1..Len(gates) : i < Len(gates) \/ i = Len(gates)
  BY DEF StoryInv, CompletionTypeOK
<1>3. \A i \in DOMAIN gates' : gates'[i] = gates[i] \/ (i = Len(gates) /\ gates'[i] = g)
  BY <1>1, <1>2
<1>4. OneStory'
  <2>1. Len(gates') <= MaxCycles
    BY <1>1 DEF StoryInv, OneStory
  <2>2. \A i \in DOMAIN gates' : i < Len(gates') => gates'[i].status # "open" /\ gates'[i].signoff # "open"
    BY <1>1 DEF StoryInv, OneStory
  <2>3. \A i \in DOMAIN gates' : (gates'[i].status = "failed") = (gates'[i].task # "none")
    BY <1>1, <1>3 DEF StoryInv, OneStory, Fits
  <2>4. /\ request'.status = "verifying" => gates' # <<>> /\ Gate'.status = "open"
        /\ run'.status = "verifying" => request'.status = "verifying"
        /\ run'.status = "awaiting_signoff" => gates' # <<>> /\ Gate'.signoff = "open"
        /\ run'.status = "completed" => request' = NoRequest
    BY <1>1 DEF Fits
  <2>5. run'.status \in {"running", "completed", "failed"} =>
          /\ request'.status # "verifying"
          /\ \A i \in DOMAIN gates' : gates'[i].status # "open" /\ gates'[i].signoff # "open"
    BY <1>1, <1>2, <2>2 DEF Fits
  <2>6. QED
    BY <2>1, <2>2, <2>3, <2>4, <2>5 DEF OneStory
<1>5. SignedOffPassed'
  <2>1. \A i \in DOMAIN gates' :
          /\ gates'[i].signoff # "none" => gates'[i].status = "passed"
          /\ gates'[i].status = "passed" => \A c \in DOMAIN gates'[i].verdict : gates'[i].verdict[c] = "pass"
    <3> SUFFICES ASSUME NEW i \in DOMAIN gates'
                 PROVE  /\ gates'[i].signoff # "none" => gates'[i].status = "passed"
                        /\ gates'[i].status = "passed" =>
                             \A c \in DOMAIN gates'[i].verdict : gates'[i].verdict[c] = "pass"
      OBVIOUS
    <3>1. CASE gates'[i] = gates[i]
      BY <1>1, <3>1 DEF StoryInv, SignedOffPassed
    <3>2. CASE gates'[i] = g
      BY <3>2 DEF Fits
    <3>3. QED
      BY <1>3, <3>1, <3>2
  <2>2. QED
    BY <2>1 DEF SignedOffPassed
<1>6. ChecksUnderWay'
  BY <1>1 DEF ChecksUnderWay, PendingChecks, FailedChecks, Recorded, Fits
<1>7. PinnedIsComplete'
  BY <1>1 DEF StoryInv, PinnedIsComplete, CurrentCriteria, Fits
<1>8. QED
  BY <1>4, <1>5, <1>6, <1>7 DEF StoryInv

\* A Task moves on, of Gates that failed.
TaskWritten(i) ==
  \/ gates'[i] = gates[i]
  \/ /\ gates[i].task # "none"
     /\ \E task \in {"running", "completed", "failed"} : gates'[i] = [gates[i] EXCEPT !.task = task]

LEMMA TasksWritten ==
  ASSUME StoryInv, gates' = [i \in DOMAIN gates |-> gates'[i]],
         \A i \in DOMAIN gates : TaskWritten(i),
         UNCHANGED <<run, request, work, reserve, leaf, tree, open, checking, accepts>>,
         turns' \in Seq(TurnRecords), turns' # <<>>, plan' = plan
  PROVE  StoryInv'
<1>1. gates \in Seq(GateRecords) /\ DOMAIN gates = 1..Len(gates) /\ Len(gates) \in Nat
  BY DEF StoryInv, CompletionTypeOK
<1>2. \A i \in DOMAIN gates :
        /\ gates'[i] \in GateRecords
        /\ gates'[i].status = gates[i].status /\ gates'[i].signoff = gates[i].signoff
        /\ gates'[i].verdict = gates[i].verdict /\ gates'[i].revision = gates[i].revision
        /\ (gates'[i].task # "none") = (gates[i].task # "none")
  <2> SUFFICES ASSUME NEW i \in DOMAIN gates
               PROVE  /\ gates'[i] \in GateRecords
                      /\ gates'[i].status = gates[i].status /\ gates'[i].signoff = gates[i].signoff
                      /\ gates'[i].verdict = gates[i].verdict /\ gates'[i].revision = gates[i].revision
                      /\ (gates'[i].task # "none") = (gates[i].task # "none")
    OBVIOUS
  <2>1. gates[i] \in GateRecords
    BY <1>1
  <2>2. TaskWritten(i)
    OBVIOUS
  <2>3. QED
    BY <2>1, <2>2 DEF TaskWritten, GateRecords
<1>3. /\ gates' \in Seq(GateRecords) /\ Len(gates') = Len(gates)
      /\ DOMAIN gates' = DOMAIN gates /\ (gates' # <<>>) = (gates # <<>>)
  BY <1>1, <1>2
<1>4. CompletionTypeOK'
  <2>1. CompletionTypeOK
    BY DEF StoryInv
  <2>2. QED
    BY <1>3, <2>1, SMTT(30) DEF CompletionTypeOK
<1>5. gates # <<>> => /\ Gate'.status = Gate.status /\ Gate'.signoff = Gate.signoff
                      /\ Gate'.verdict = Gate.verdict /\ Gate'.revision = Gate.revision
  BY <1>1, <1>2, <1>3 DEF Gate
<1>6. OneStory'
  <2>1. OneStory
    BY DEF StoryInv
  <2>2. \A i \in DOMAIN gates :
          /\ gates'[i].status = gates[i].status /\ gates'[i].signoff = gates[i].signoff
          /\ (gates'[i].task # "none") = (gates[i].task # "none")
    BY <1>2
  <2>3. \A i \in DOMAIN gates' : (gates'[i].status = "failed") = (gates'[i].task # "none")
    BY <1>3, <2>1, <2>2 DEF OneStory
  <2>4. QED
    BY <1>3, <1>5, <2>1, <2>2, <2>3 DEF OneStory
<1>7. SignedOffPassed'
  BY <1>2, <1>3 DEF StoryInv, SignedOffPassed
<1>8. ChecksUnderWay'
  BY <1>3, <1>5 DEF StoryInv, ChecksUnderWay, PendingChecks, FailedChecks, Recorded
<1>9. PinnedIsComplete'
  BY <1>3, <1>5 DEF StoryInv, PinnedIsComplete, CurrentCriteria
<1>10. QED
  BY <1>4, <1>6, <1>7, <1>8, <1>9 DEF StoryInv

-----------------------------------------------------------------------------
(***************************************************************************)
(* The root's turns.                                                       *)
(***************************************************************************)
LEMMA TurnRecorded ==
  ASSUME CompletionTypeOK, NEW t \in TurnRecords
  PROVE  /\ [turns EXCEPT ![Len(turns)] = t] \in Seq(TurnRecords)
         /\ [turns EXCEPT ![Len(turns)] = t] # <<>>
         /\ Append(turns, t) \in Seq(TurnRecords) /\ Append(turns, t) # <<>>
<1>1. turns \in Seq(TurnRecords) /\ turns # <<>>
  BY DEF CompletionTypeOK
<1>2. [turns EXCEPT ![Len(turns)] = t] \in Seq(TurnRecords) /\ [turns EXCEPT ![Len(turns)] = t] # <<>>
  BY <1>1, Replaced
<1>3. QED
  BY <1>1, <1>2

LEMMA RootStepsKeep ==
  ASSUME StoryInv, RootSteps \/ TurnSteps
  PROVE  StoryInv'
<1> USE DEF StoryInv
<1>1. /\ run \in RunRecords /\ request \in RequestRecords /\ Turn \in TurnRecords /\ Len(turns) \in Nat
      /\ gates \in Seq(GateRecords)
  BY LatestTurn DEF CompletionTypeOK
<1>2. \A purpose \in {"work", "gate_result"} : NewTurn(purpose) \in TurnRecords
  BY DEF NewTurn, TurnRecords
<1>3. NoRequest \in RequestRecords
  BY DEF NoRequest, RequestRecords
<1>4. CASE ContinueTurn
  <2>1. Turn.purpose \in {"work", "gate_result"}
    BY <1>1 DEF TurnRecords
  <2>2. turns' \in Seq(TurnRecords) /\ turns' # <<>>
    BY <1>2, <1>4, <2>1, TurnRecorded DEF ContinueTurn, Prepare
  <2>3. request' \in RequestRecords /\ request'.status = request.status
    BY <1>1, <1>4 DEF ContinueTurn, RequestRecords
  <2>4. CompletionTypeOK'
    BY <1>4, <2>2, <2>3 DEF ContinueTurn, CompletionTypeOK
  <2>5. StoryGoesOn /\ WaivedStay
    BY <1>4, <2>3 DEF ContinueTurn, StoryGoesOn, WaivedStay, Prepare
  <2>6. QED
    BY <1>4, <2>4, <2>5, GatesAside DEF ContinueTurn
<1>5. CASE Integrate
  <2>1. turns' \in Seq(TurnRecords) /\ turns' # <<>>
    BY <1>1, <1>5, TurnRecorded DEF Integrate, Becomes, TurnRecords
  <2>2. run' \in RunRecords /\ run'.status = run.status
    BY <1>1, <1>5 DEF Integrate, RunRecords
  <2>3. CompletionTypeOK'
    BY <1>5, <2>1, <2>2, StaledType DEF Integrate, CompletionTypeOK, Moved
  <2>4. StoryGoesOn /\ WaivedStay
    BY <1>5, <2>2 DEF Integrate, StoryGoesOn, WaivedStay
  <2>5. QED
    BY <1>5, <2>3, <2>4, GatesAside DEF Integrate
<1>6. CASE SettleRemediation
  <2>1. \A i \in DOMAIN gates : TaskWritten(i)
    BY <1>6 DEF SettleRemediation, TaskWritten
  <2>2. gates' = [i \in DOMAIN gates |-> gates'[i]]
    BY <1>6 DEF SettleRemediation
  <2>3. QED
    BY <1>6, <2>1, <2>2, TasksWritten DEF SettleRemediation, CompletionTypeOK
<1>7. CASE SettleFailedTurn
  <2>1. run' \in RunRecords /\ run'.status = "failed"
    BY <1>1, <1>7 DEF SettleFailedTurn, RunRecords, Ended
  <2>2. request' \in {request, NoRequest} /\ run.status = "running"
    BY <1>7 DEF SettleFailedTurn
  <2>3. CompletionTypeOK'
    BY <1>1, <1>3, <1>7, <2>1, <2>2, StaledType DEF SettleFailedTurn, CompletionTypeOK, Moved
  <2>4. StoryGoesOn /\ WaivedStay
    BY <1>7, <2>1, <2>2 DEF SettleFailedTurn, StoryGoesOn, WaivedStay, NoRequest
  <2>5. QED
    BY <1>7, <2>3, <2>4, GatesAside DEF SettleFailedTurn
<1>8. CASE PrepareTurn
  <2>1. turns' \in Seq(TurnRecords) /\ turns' # <<>>
    BY <1>2, <1>8, TurnRecorded DEF PrepareTurn, Prepare
  <2>2. CompletionTypeOK'
    BY <1>8, <2>1 DEF PrepareTurn, CompletionTypeOK
  <2>3. StoryGoesOn /\ WaivedStay
    BY <1>8 DEF PrepareTurn, StoryGoesOn, WaivedStay
  <2>4. QED
    BY <1>8, <2>2, <2>3, GatesAside DEF PrepareTurn
<1>9. CASE PrepareRemediation
  <2>1. turns' \in Seq(TurnRecords) /\ turns' # <<>>
    BY <1>2, <1>9, TurnRecorded DEF PrepareRemediation, Prepare
  <2>2. \A i \in DOMAIN gates : TaskWritten(i)
    BY <1>9 DEF PrepareRemediation, TaskWritten
  <2>3. gates' = [i \in DOMAIN gates |-> gates'[i]]
    BY <1>9 DEF PrepareRemediation
  <2>4. QED
    BY <1>9, <2>1, <2>2, <2>3, TasksWritten DEF PrepareRemediation
<1>10. CASE RequestCompletion
  <2>1. request' = [status |-> "requested", turn |-> Len(turns)] /\ run.status = "running"
    BY <1>10 DEF RequestCompletion
  <2>2. CompletionTypeOK'
    BY <1>1, <1>10, <2>1 DEF RequestCompletion, CompletionTypeOK, RequestRecords
  <2>3. StoryGoesOn /\ WaivedStay
    BY <1>10, <2>1 DEF RequestCompletion, StoryGoesOn, WaivedStay
  <2>4. QED
    BY <1>10, <2>2, <2>3, GatesAside DEF RequestCompletion
<1>11. CASE Revise
  <2>1. CompletionTypeOK'
    BY <1>11 DEF Revise, CompletionTypeOK
  <2>2. StoryGoesOn /\ WaivedStay
    BY <1>11 DEF Revise, StoryGoesOn, WaivedStay
  <2>3. QED
    BY <1>11, <2>1, <2>2, GatesAside DEF Revise
<1>12. ASSUME NEW status \in {"completed", "partial", "failed", "blocked"}, NEW changes \in BOOLEAN,
              TurnEnds(status, changes)
       PROVE  StoryInv'
  <2>1. turns' \in Seq(TurnRecords) /\ turns' # <<>>
    BY <1>1, <1>12, TurnRecorded DEF TurnEnds, Becomes, TurnRecords
  <2>2. CompletionTypeOK'
    BY <1>12, <2>1 DEF TurnEnds, CompletionTypeOK
  <2>3. StoryGoesOn /\ WaivedStay
    BY <1>12 DEF TurnEnds, StoryGoesOn, WaivedStay
  <2>4. QED
    BY <1>12, <2>2, <2>3, GatesAside DEF TurnEnds
<1>13. QED
  BY <1>4, <1>5, <1>6, <1>7, <1>8, <1>9, <1>10, <1>11, <1>12 DEF RootSteps, TurnSteps

-----------------------------------------------------------------------------
(***************************************************************************)
(* The verification of a Run.                                              *)
(***************************************************************************)
\* A failing cycle writes the Gate it verifies, with whatever verdicts it had.
LEMMA CycleFails ==
  ASSUME StoryInv, run.status = "verifying", NEW gate \in GateRecords, NEW why,
         why \in {"final_reserve_exhausted", "criteria_failed", "evaluator_failed",
                  "conditions_unmet", "final_synthesis_failed"},
         gate.signoff = "none", gate.revision = Gate.revision, DOMAIN gate.verdict = DOMAIN Gate.verdict,
         Fails(gate, why), ~checking, UNCHANGED <<turns, work, reserve, leaf, tree, open, plan, checking>>
  PROVE  StoryInv'
<1> DEFINE g == [gate EXCEPT !.status = "failed", !.failure = why, !.task = "pending"]
<1>1. /\ g \in GateRecords /\ g.status = "failed" /\ g.task = "pending" /\ g.signoff = "none"
      /\ g.revision = Gate.revision /\ DOMAIN g.verdict = DOMAIN Gate.verdict
  BY DEF GateRecords
<1>2. gates # <<>> /\ Closes(g)
  BY VerifiesOpenGate DEF Fails
<1>3. gates' \in Seq(GateRecords)
  BY <1>1, <1>2, Replaced DEF Closes, StoryInv, CompletionTypeOK
<1>4. run' \in RunRecords /\ run'.status = "running"
  BY DEF Fails, StoryInv, CompletionTypeOK, RunRecords
<1>5. CompletionTypeOK'
  BY <1>3, <1>4, StaledType DEF Fails, Moved, StoryInv, CompletionTypeOK, NoRequest, RequestRecords
<1>6. Fits(g)
  BY <1>1, <1>4 DEF Fits, Fails, NoRequest
<1> HIDE DEF g
<1>7. QED
  BY <1>2, <1>5, <1>6, GateWritten

LEMMA EngageKeeps ==
  ASSUME StoryInv, run.status = "verifying", ~checking, NEW kind \in {"evaluator", "synthesis"},
         Engage(kind), UNCHANGED <<turns, leaf, tree, open, plan, checking>>
  PROVE  StoryInv'
<1>1. CASE /\ 1 <= reserve
           /\ work' = [kind |-> kind, status |-> "active"]
           /\ reserve' = reserve - 1
           /\ UNCHANGED <<run, request, gates, accepts>>
  <2>1. reserve' \in Nat
    BY <1>1 DEF StoryInv, CompletionTypeOK
  <2>2. CompletionTypeOK'
    BY <1>1, <2>1 DEF StoryInv, CompletionTypeOK
  <2>3. StoryGoesOn /\ WaivedStay
    BY <1>1 DEF StoryGoesOn, WaivedStay
  <2>4. QED
    BY <1>1, <2>2, <2>3, GatesAside
<1>2. CASE Fails(Gate, "final_reserve_exhausted") /\ UNCHANGED <<work, reserve>>
  BY <1>2, VerifiesOpenGate, CycleFails
<1>3. QED
  BY <1>1, <1>2 DEF Engage

\* Judgement begins when no command is under way.
LEMMA JudgedAtRest ==
  ASSUME StoryInv, ToJudge \/ AllPassed \/ FailedChecks # {}
  PROVE  ~checking
  BY DEF StoryInv, ChecksUnderWay, ToJudge, ChecksPassed, AllPassed, PendingChecks, FailedChecks, Recorded

LEMMA BeginKeeps ==
  ASSUME StoryInv, Begin
  PROVE  StoryInv'
<1> USE DEF StoryInv
<1>1. run \in RunRecords /\ request \in RequestRecords /\ gates \in Seq(GateRecords) /\ tree.number \in Nat
      /\ tree.leaves \subseteq Leaves /\ run.status = "running"
  BY DEF CompletionTypeOK, Begin
<1>2. CASE ~Preflight
  <2>1. UNCHANGED <<run, gates, work, accepts, turns, reserve, leaf, tree, open, plan, checking>> /\ request' = NoRequest
    BY <1>2 DEF Begin
  <2>2. CompletionTypeOK'
    BY <2>1 DEF CompletionTypeOK, NoRequest, RequestRecords
  <2>3. StoryGoesOn /\ WaivedStay
    BY <1>1, <2>1 DEF StoryGoesOn, WaivedStay, NoRequest
  <2>4. QED
    BY <2>1, <2>2, <2>3, GatesAside
<1>3. CASE Preflight
  <2>1. /\ gates' = Append(gates, NewGate) /\ request' = [request EXCEPT !.status = "verifying"]
        /\ run' = [run EXCEPT !.status = "verifying"] /\ work' = Idle /\ Moved
        /\ UNCHANGED <<turns, reserve, leaf, tree, open, plan, checking>>
    BY <1>3 DEF Begin
  <2>2. /\ Len(gates) < MaxCycles /\ MaxCycles \in Nat
    BY <1>3, CompletionAssumption DEF Preflight, CompletionAssumption
  <2>3. NewGate \in GateRecords
    <3>1. NewGate.verdict \in Verdicts
      <4>1. CurrentCriteria \subseteq Criteria
        BY DEF CurrentCriteria
      <4>2. NewGate.verdict \in [CurrentCriteria -> {"none", "pass", "fail"}]
        BY DEF NewGate
      <4>3. QED
        BY <4>1, <4>2 DEF Verdicts
    <3>2. QED
      BY <1>1, <3>1 DEF NewGate, GateRecords, RunRecords
  <2>4. /\ NewGate.status = "open" /\ NewGate.task = "none" /\ NewGate.signoff = "none"
        /\ NewGate.revision = tree.number /\ DOMAIN NewGate.verdict = CurrentCriteria
    BY DEF NewGate
  <2> HIDE DEF NewGate
  <2>5. /\ gates' \in Seq(GateRecords) /\ gates' # <<>> /\ Len(gates') = Len(gates) + 1
        /\ DOMAIN gates' = 1..(Len(gates) + 1) /\ Gate' = NewGate /\ gates'[Len(gates) + 1] = NewGate
        /\ \A i \in 1..Len(gates) : gates'[i] = gates[i]
    BY <1>1, <2>1, <2>3 DEF Gate
  <2>6. \A i \in 1..Len(gates) : gates[i].status # "open" /\ gates[i].signoff # "open"
    BY <1>1 DEF OneStory
  <2>7. run'.status = "verifying" /\ request'.status = "verifying"
    BY <1>1, <2>1 DEF RunRecords, RequestRecords
  <2>8. CompletionTypeOK'
    BY <1>1, <2>1, <2>5, StaledType DEF Moved, CompletionTypeOK, RunRecords, RequestRecords, Idle
  <2>9. \A i \in DOMAIN gates' : (i \in 1..Len(gates) /\ gates'[i] = gates[i]) \/ (i = Len(gates') /\ gates'[i] = NewGate)
    BY <1>1, <2>5
  <2>10. OneStory'
    <3>1. Len(gates') <= MaxCycles
      BY <1>1, <2>2, <2>5
    <3>2. \A i \in DOMAIN gates' : i < Len(gates') => gates'[i].status # "open" /\ gates'[i].signoff # "open"
      BY <1>1, <2>5, <2>6
    <3>3. \A i \in DOMAIN gates' : (gates'[i].status = "failed") = (gates'[i].task # "none")
      BY <2>4, <2>9 DEF OneStory
    <3>4. QED
      BY <2>4, <2>5, <2>7, <3>1, <3>2, <3>3 DEF OneStory
  <2>11. SignedOffPassed'
    BY <2>4, <2>9 DEF SignedOffPassed
  <2>12. ~checking
    <3>1. ASSUME gates # <<>> PROVE Gate.status # "open"
      BY <1>1, <2>6, <3>1 DEF Gate
    <3>2. QED
      BY <3>1 DEF ChecksUnderWay
  <2>13. ChecksUnderWay'
    BY <2>1, <2>12 DEF ChecksUnderWay
  <2>14. PinnedIsComplete'
    BY <1>1, <2>1, <2>4, <2>5 DEF PinnedIsComplete, CurrentCriteria
  <2>15. QED
    BY <2>8, <2>10, <2>11, <2>13, <2>14
<1>4. QED
  BY <1>2, <1>3

LEMMA SettleEvaluatorKeeps ==
  ASSUME StoryInv, SettleEvaluator
  PROVE  StoryInv'
<1>1. run.status = "verifying" /\ ~checking
      /\ UNCHANGED <<turns, leaf, tree, open, plan, checking>>
  BY JudgedAtRest DEF SettleEvaluator, Verifying
<1>2. ASSUME NEW judged \in [Recorded("none") -> {"pass", "fail"}],
             UNCHANGED <<work, reserve>>,
             LET gate == [Gate EXCEPT !.verdict =
                            [c \in DOMAIN @ |-> IF c \in DOMAIN judged THEN judged[c] ELSE @[c]]]
             IN  IF \E c \in DOMAIN judged : judged[c] = "fail"
                 THEN Fails(gate, "criteria_failed")
                 ELSE Closes(gate) /\ UNCHANGED <<run, request, accepts>>
      PROVE  StoryInv'
  <2> DEFINE verdict == [c \in DOMAIN Gate.verdict |-> IF c \in DOMAIN judged THEN judged[c] ELSE Gate.verdict[c]]
             gate == [Gate EXCEPT !.verdict = verdict]
  <2>1. gates # <<>> /\ Gate \in GateRecords /\ Gate.status = "open" /\ Gate.task = "none"
        /\ Gate.signoff = "none" /\ request.status = "verifying"
    BY <1>1, VerifiesOpenGate
  <2>2. Gate.verdict \in [DOMAIN Gate.verdict -> {"none", "pass", "fail"}] /\ DOMAIN Gate.verdict \subseteq Criteria
    <3>1. Gate.verdict \in Verdicts
      BY <2>1 DEF GateRecords
    <3>2. QED
      BY <3>1 DEF Verdicts
  <2>3. verdict \in Verdicts
    <3>1. verdict \in [DOMAIN Gate.verdict -> {"none", "pass", "fail"}]
      BY <2>2
    <3>2. QED
      BY <2>2, <3>1 DEF Verdicts
  <2>4. /\ gate \in GateRecords /\ gate.status = "open" /\ gate.task = "none" /\ gate.signoff = "none"
        /\ gate.revision = Gate.revision /\ DOMAIN gate.verdict = DOMAIN Gate.verdict
    <3> HIDE DEF verdict
    <3>1. gate \in GateRecords /\ gate.verdict = verdict /\ gate.status = "open" /\ gate.task = "none"
          /\ gate.signoff = "none" /\ gate.revision = Gate.revision
      BY <2>1, <2>3 DEF GateRecords
    <3>2. QED
      BY <3>1 DEF verdict
  <2>5. CASE Fails(gate, "criteria_failed")
    <3> HIDE DEF gate
    <3>1. QED
      BY <1>1, <1>2, <2>4, <2>5, CycleFails
  <2>6. CASE Closes(gate) /\ UNCHANGED <<run, request, accepts>>
    <3> HIDE DEF gate
    <3>1. gates' \in Seq(GateRecords)
      BY <2>1, <2>4, <2>6, Replaced DEF Closes, StoryInv, CompletionTypeOK
    <3>2. CompletionTypeOK'
      BY <1>1, <1>2, <2>6, <3>1 DEF StoryInv, CompletionTypeOK
    <3>3. Fits(gate)
      BY <1>1, <2>1, <2>4, <2>6 DEF Fits
    <3>4. QED
      BY <1>1, <2>1, <2>6, <3>2, <3>3, GateWritten
  <2>7. QED
    BY <1>2, <2>5, <2>6
<1>3. CASE Fails(Gate, "evaluator_failed") /\ UNCHANGED <<work, reserve>>
  BY <1>1, <1>3, VerifiesOpenGate, CycleFails
<1>4. CASE Engage("evaluator")
  BY <1>1, <1>4, EngageKeeps
<1>5. QED
  BY <1>2, <1>3, <1>4 DEF SettleEvaluator

LEMMA SettleSynthesisKeeps ==
  ASSUME StoryInv, SettleSynthesis
  PROVE  StoryInv'
<1>1. /\ run.status = "verifying" /\ ~checking /\ AllPassed
      /\ UNCHANGED <<turns, leaf, tree, open, plan, checking>>
  BY JudgedAtRest DEF SettleSynthesis, Verifying, Judgeable
<1> DEFINE g == [Gate EXCEPT !.status = "passed", !.signoff = "open"]
<1>2. CASE /\ Closes(g)
           /\ request' = NoRequest
           /\ run' = [run EXCEPT !.status = "awaiting_signoff"]
           /\ Moved
           /\ UNCHANGED <<work, reserve>>
  <2>1. gates # <<>> /\ Gate \in GateRecords /\ Gate.task = "none"
    BY <1>1, VerifiesOpenGate
  <2>2. /\ g \in GateRecords /\ g.status = "passed" /\ g.task = "none" /\ g.signoff = "open"
        /\ g.revision = Gate.revision /\ g.verdict = Gate.verdict
    BY <2>1 DEF GateRecords
  <2> HIDE DEF g
  <2>3. gates' \in Seq(GateRecords)
    BY <1>2, <2>1, <2>2, Replaced DEF Closes, StoryInv, CompletionTypeOK
  <2>4. run' \in RunRecords /\ run'.status = "awaiting_signoff"
    BY <1>2 DEF StoryInv, CompletionTypeOK, RunRecords
  <2>5. CompletionTypeOK'
    BY <1>1, <1>2, <2>3, <2>4, StaledType DEF Moved, StoryInv, CompletionTypeOK, NoRequest, RequestRecords
  <2>6. \A c \in DOMAIN Gate.verdict : Gate.verdict[c] = "pass"
    BY <1>1 DEF AllPassed, Recorded
  <2>7. Fits(g)
    BY <1>1, <1>2, <2>2, <2>4, <2>6 DEF Fits, NoRequest
  <2>8. QED
    BY <1>1, <1>2, <2>1, <2>5, <2>7, GateWritten
<1>3. CASE Fails(Gate, "final_synthesis_failed") /\ UNCHANGED <<work, reserve>>
  BY <1>1, <1>3, VerifiesOpenGate, CycleFails
<1>4. CASE Engage("synthesis")
  BY <1>1, <1>4, EngageKeeps
<1>5. QED
  BY <1>2, <1>3, <1>4 DEF SettleSynthesis

LEMMA EngineStepsKeep ==
  ASSUME StoryInv, EngineSteps
  PROVE  StoryInv'
<1>1. CASE CancelRequest
  <2>1. CompletionTypeOK'
    BY <1>1 DEF CancelRequest, StoryInv, CompletionTypeOK, NoRequest, RequestRecords
  <2>2. StoryGoesOn /\ WaivedStay
    BY <1>1 DEF CancelRequest, StoryGoesOn, WaivedStay, NoRequest
  <2>3. QED
    BY <1>1, <2>1, <2>2, GatesAside DEF CancelRequest
<1>2. CASE StartChecks
  <2>1. CompletionTypeOK'
    BY <1>2 DEF StartChecks, StoryInv, CompletionTypeOK
  <2>2. gates # <<>> /\ Gate.status = "open"
    BY <1>2, VerifiesOpenGate DEF StartChecks, Verifying
  <2>3. Gate' = Gate /\ PendingChecks' = PendingChecks /\ FailedChecks' = FailedChecks
        /\ CurrentCriteria' = CurrentCriteria
    BY <1>2 DEF StartChecks, Gate, PendingChecks, FailedChecks, Recorded, CurrentCriteria
  <2>4. ChecksUnderWay'
    BY <1>2, <2>2, <2>3 DEF StartChecks, ChecksUnderWay
  <2>5. OneStory' /\ SignedOffPassed' /\ PinnedIsComplete'
    BY <1>2, <2>3 DEF StartChecks, StoryInv, OneStory, SignedOffPassed, PinnedIsComplete
  <2>6. QED
    BY <2>1, <2>4, <2>5 DEF StoryInv
<1>3. CASE PrepareEvaluator
  BY <1>3, JudgedAtRest, EngageKeeps DEF PrepareEvaluator, Verifying
<1>4. CASE Derive
  <2>1. Derived \in [Leaves -> Present \cup {"absent", "retired"}]
    BY DEF Derived, StoryInv, CompletionTypeOK, Present
  <2>2. CompletionTypeOK'
    BY <1>4, <2>1 DEF Derive, StoryInv, CompletionTypeOK
  <2>3. StoryGoesOn /\ WaivedStay
    BY <1>4 DEF Derive, Derived, StoryGoesOn, WaivedStay
  <2>4. QED
    BY <1>4, <2>2, <2>3, GatesAside DEF Derive
<1>5. CASE Complete
  <2>1. run.status = "verifying" /\ ~checking
        /\ UNCHANGED <<turns, work, reserve, leaf, tree, open, plan, checking>>
    BY <1>5, JudgedAtRest DEF Complete, Verifying, Judgeable
  <2>2. Fails(Gate, "criteria_failed") \/ Fails(Gate, "conditions_unmet")
    BY <1>5 DEF Complete
  <2>3. QED
    BY <2>1, <2>2, VerifiesOpenGate, CycleFails
<1>6. CASE PrepareSynthesis
  BY <1>6, JudgedAtRest, EngageKeeps DEF PrepareSynthesis, Verifying, Judgeable
<1>7. QED
  BY <1>1, <1>2, <1>3, <1>4, <1>5, <1>6, BeginKeeps, SettleEvaluatorKeeps, SettleSynthesisKeeps
  DEF EngineSteps

-----------------------------------------------------------------------------
(***************************************************************************)
(* Commands and Invocations, the operator, and the death of the process.   *)
(***************************************************************************)
LEMMA RecordCheckKeeps ==
  ASSUME StoryInv, NEW verdict \in {"pass", "fail"}, RecordCheck(verdict)
  PROVE  StoryInv'
<1> DEFINE check == CHOOSE c \in PendingChecks : \A d \in PendingChecks : c <= d
           g == [Gate EXCEPT !.verdict[check] = verdict]
<1>1. /\ checking /\ Closes(g) /\ checking' = (verdict = "pass" /\ PendingChecks # {check})
      /\ UNCHANGED <<run, turns, request, work, reserve, leaf, tree, open, plan, accepts>>
  BY DEF RecordCheck
<1>2. gates # <<>> /\ Gate.status = "open" /\ PendingChecks # {} /\ FailedChecks = {}
  BY <1>1 DEF StoryInv, ChecksUnderWay
<1> HIDE DEF check
<1>3. /\ Gate \in GateRecords /\ Len(gates) \in DOMAIN gates /\ gates[Len(gates)] = Gate
      /\ Gate.verdict \in Verdicts
  <2>1. Gate \in GateRecords /\ Len(gates) \in DOMAIN gates
    BY <1>2, LatestGate DEF StoryInv
  <2>2. QED
    BY <2>1 DEF Gate, GateRecords
<1>4. Gate.task = "none" /\ Gate.signoff = "none"
  BY <1>2, <1>3 DEF StoryInv, OneStory, SignedOffPassed
<1> DEFINE verdicts == [Gate.verdict EXCEPT ![check] = verdict]
<1>5. /\ verdicts \in Verdicts /\ DOMAIN verdicts = DOMAIN Gate.verdict
      /\ \A c \in DOMAIN Gate.verdict : c # check => verdicts[c] = Gate.verdict[c]
      /\ \A c \in DOMAIN Gate.verdict : c = check => verdicts[c] = verdict
  <2>1. PICK D \in SUBSET Criteria : Gate.verdict \in [D -> {"none", "pass", "fail"}]
    BY <1>3 DEF Verdicts
  <2>2. verdicts \in [D -> {"none", "pass", "fail"}]
    BY <2>1
  <2>3. QED
    BY <2>1, <2>2 DEF Verdicts
<1>6. g = [Gate EXCEPT !.verdict = verdicts]
  OBVIOUS
<1> HIDE DEF verdicts
<1>7. /\ g \in GateRecords /\ g.status = "open" /\ g.task = "none" /\ g.signoff = "none"
      /\ g.revision = Gate.revision /\ g.verdict = verdicts
  BY <1>2, <1>3, <1>4, <1>5, <1>6 DEF GateRecords
<1> HIDE DEF g
<1>8. ASSUME checking'
      PROVE  /\ \E c \in Checks \cap DOMAIN verdicts : verdicts[c] = "none"
             /\ \A c \in Checks \cap DOMAIN verdicts : verdicts[c] # "fail"
  <2>1. PICK c \in PendingChecks : c # check
    BY <1>1, <1>2, <1>8
  <2>2. \A d \in Checks \cap DOMAIN Gate.verdict : Gate.verdict[d] # "fail"
    BY <1>2 DEF FailedChecks, Recorded
  <2>3. QED
    BY <1>1, <1>5, <1>8, <2>1, <2>2 DEF PendingChecks, Recorded
<1>9. CompletionTypeOK'
  <2>1. gates' \in Seq(GateRecords)
    BY <1>1, <1>2, <1>7, Replaced DEF Closes, StoryInv, CompletionTypeOK
  <2>2. QED
    BY <1>1, <2>1 DEF StoryInv, CompletionTypeOK
<1>10. Fits(g)
  <2>1. request.status = request'.status /\ run'.status = run.status /\ run' = run /\ request' = request
    BY <1>1
  <2>2. run.status \notin {"awaiting_signoff", "running", "completed", "failed"}
    BY <1>2, <1>3, <1>4 DEF StoryInv, OneStory
  <2>3. run.status = "verifying" => request.status = "verifying"
    BY DEF StoryInv, OneStory
  <2>4. QED
    BY <1>5, <1>7, <1>8, <2>1, <2>2, <2>3 DEF Fits
<1>11. QED
  BY <1>1, <1>2, <1>9, <1>10, GateWritten

LEMMA ExternalKeeps ==
  ASSUME StoryInv, External \/ Crash
  PROVE  StoryInv'
<1>1. CASE CheckNotRun
  <2>1. CompletionTypeOK'
    BY <1>1 DEF CheckNotRun, StoryInv, CompletionTypeOK
  <2>2. StoryGoesOn /\ WaivedStay
    BY <1>1 DEF CheckNotRun, StoryGoesOn, WaivedStay
  <2>3. QED
    BY <1>1, <2>1, <2>2, GatesAside DEF CheckNotRun
<1>2. ASSUME NEW status \in {"succeeded", "failed", "blocked"}, NEW unspent \in 0..1, WorkEnds(status, unspent)
      PROVE  StoryInv'
  <2>1. reserve' \in Nat
    BY <1>2 DEF WorkEnds, StoryInv, CompletionTypeOK
  <2>2. CompletionTypeOK'
    BY <1>2, <2>1 DEF WorkEnds, StoryInv, CompletionTypeOK
  <2>3. StoryGoesOn /\ WaivedStay
    BY <1>2 DEF WorkEnds, StoryGoesOn, WaivedStay
  <2>4. QED
    BY <1>2, <2>2, <2>3, GatesAside DEF WorkEnds
<1>3. CASE PlanEnds
  <2>1. CompletionTypeOK'
    BY <1>3 DEF PlanEnds, StoryInv, CompletionTypeOK
  <2>2. StoryGoesOn /\ WaivedStay
    BY <1>3 DEF PlanEnds, StoryGoesOn, WaivedStay
  <2>3. QED
    BY <1>3, <2>1, <2>2, GatesAside DEF PlanEnds
<1>4. CASE Crash
  <2>1. CompletionTypeOK'
    BY <1>4 DEF Crash, StoryInv, CompletionTypeOK, NoCall
  <2>2. StoryGoesOn /\ WaivedStay
    BY <1>4 DEF Crash, StoryGoesOn, WaivedStay
  <2>3. QED
    BY <1>4, <2>1, <2>2, GatesAside DEF Crash
<1>5. QED
  BY <1>1, <1>2, <1>3, <1>4, RecordCheckKeeps DEF External

\* A signoff answered: the Gate was passed, and no request or other signoff is left.
LEMMA SignoffAnswered ==
  ASSUME StoryInv, CompletionTypeOK', run.status = "awaiting_signoff", Quiescent,
         NEW answer \in {"accept", "request_changes"}, Closes([Gate EXCEPT !.signoff = answer]),
         run'.status \in {"completed", "running"},
         UNCHANGED <<request, leaf, tree, checking>>
  PROVE  StoryInv'
<1> DEFINE g == [Gate EXCEPT !.signoff = answer]
<1>1. /\ gates # <<>> /\ Gate \in GateRecords /\ Gate.status = "passed" /\ Gate.task = "none"
      /\ AllPassed /\ ~checking
  BY AwaitsOnPassedGate
<1>2. /\ g \in GateRecords /\ g.status = "passed" /\ g.task = "none" /\ g.signoff = answer
      /\ g.revision = Gate.revision /\ g.verdict = Gate.verdict
  BY <1>1 DEF GateRecords
<1>3. \A c \in DOMAIN Gate.verdict : Gate.verdict[c] = "pass"
  BY <1>1 DEF AllPassed, Recorded
<1> HIDE DEF g
<1>4. Fits(g)
  BY <1>1, <1>2, <1>3 DEF Fits, Quiescent, NoRequest
<1>5. Closes(g)
  BY DEF g
<1>6. QED
  BY <1>1, <1>4, <1>5, GateWritten

LEMMA AcceptCommitsKeeps ==
  ASSUME StoryInv, NEW c \in Calls, AcceptCommits(c)
  PROVE  StoryInv'
<1>1. /\ run.status = "awaiting_signoff" /\ Quiescent
      /\ Closes([Gate EXCEPT !.signoff = "accept"])
      /\ run' = [run EXCEPT !.status = "completed", !.final = Gate.snapshot]
      /\ UNCHANGED <<turns, request, work, reserve, leaf, tree, open, plan, checking>>
  BY DEF AcceptCommits, Resolvable
<1>2. gates # <<>> /\ Gate \in GateRecords
  BY <1>1, AwaitsOnPassedGate
<1>3. [Gate EXCEPT !.signoff = "accept"] \in GateRecords /\ Gate.snapshot \in Nat
  BY <1>2 DEF GateRecords
<1>4. gates' \in Seq(GateRecords)
  BY <1>1, <1>2, <1>3, Replaced DEF Closes, StoryInv, CompletionTypeOK
<1>5. run' \in RunRecords /\ run'.status = "completed"
  BY <1>1, <1>3 DEF StoryInv, CompletionTypeOK, RunRecords, Ended
<1>6. accepts' \in [Calls -> [stage : {"none", "read", "inspected"}, gate : Nat, stale : BOOLEAN]]
  <2>1. NoCall \in [stage : {"none", "read", "inspected"}, gate : Nat, stale : BOOLEAN]
    BY DEF NoCall
  <2>2. QED
    BY <2>1, StaledType DEF AcceptCommits, StoryInv
<1>7. CompletionTypeOK'
  BY <1>1, <1>4, <1>5, <1>6 DEF StoryInv, CompletionTypeOK
<1>8. QED
  BY <1>1, <1>5, <1>7, SignoffAnswered

LEMMA RequestChangesKeeps ==
  ASSUME StoryInv, RequestChanges
  PROVE  StoryInv'
<1>1. /\ run.status = "awaiting_signoff" /\ Quiescent
      /\ Closes([Gate EXCEPT !.signoff = "request_changes"])
      /\ run' = [run EXCEPT !.status = "running"] /\ Moved
      /\ turns' = Append(turns, NewTurn("work"))
      /\ UNCHANGED <<request, work, reserve, leaf, tree, open, plan, checking>>
  BY DEF RequestChanges, Resolvable
<1>2. gates # <<>> /\ Gate \in GateRecords
  BY <1>1, AwaitsOnPassedGate
<1>3. [Gate EXCEPT !.signoff = "request_changes"] \in GateRecords
  BY <1>2 DEF GateRecords
<1>4. gates' \in Seq(GateRecords)
  BY <1>1, <1>2, <1>3, Replaced DEF Closes, StoryInv, CompletionTypeOK
<1>5. run' \in RunRecords /\ run'.status = "running"
  BY <1>1 DEF StoryInv, CompletionTypeOK, RunRecords
<1>6. turns' \in Seq(TurnRecords) /\ turns' # <<>>
  <2>1. NewTurn("work") \in TurnRecords
    BY DEF NewTurn, TurnRecords
  <2>2. QED
    BY <1>1, <2>1, TurnRecorded DEF StoryInv
<1>7. CompletionTypeOK'
  BY <1>1, <1>4, <1>5, <1>6, StaledType DEF Moved, StoryInv, CompletionTypeOK
<1>8. QED
  BY <1>1, <1>5, <1>7, SignoffAnswered

LEMMA OperatorKeeps ==
  ASSUME StoryInv, Operator
  PROVE  StoryInv'
<1>1. ASSUME NEW kept \in SUBSET Leaves, Author(kept)
      PROVE  StoryInv'
  <2>1. tree' \in [number : Nat, leaves : SUBSET Leaves] /\ tree'.number > tree.number
    BY <1>1 DEF Author, StoryInv, CompletionTypeOK
  <2>2. leaf' \in [Leaves -> Present \cup {"absent", "retired"}]
    <3>1. ASSUME NEW l \in Leaves
          PROVE  leaf'[l] \in {"open", "retired", leaf[l]}
      BY <1>1 DEF Author
    <3>2. leaf' = [l \in Leaves |-> leaf'[l]]
      BY <1>1 DEF Author
    <3>3. QED
      BY <3>1, <3>2 DEF StoryInv, CompletionTypeOK, Present
  <2>3. CompletionTypeOK'
    BY <1>1, <2>1, <2>2 DEF Author, StoryInv, CompletionTypeOK
  <2>4. StoryGoesOn
    BY <1>1 DEF Author, StoryGoesOn
  <2>5. QED
    BY <1>1, <2>1, <2>3, <2>4, GatesAside DEF Author
<1>2. CASE Ask \/ Post
  <2>1. CompletionTypeOK'
    BY <1>2 DEF Ask, Post, StoryInv, CompletionTypeOK
  <2>2. StoryGoesOn /\ WaivedStay
    BY <1>2 DEF Ask, Post, StoryGoesOn, WaivedStay
  <2>3. QED
    BY <1>2, <2>1, <2>2, GatesAside DEF Ask, Post
<1>3. ASSUME NEW d \in {"turn", "conversation", "approval"}, Answer(d)
      PROVE  StoryInv'
  <2>1. leaf' \in [Leaves -> Present \cup {"absent", "retired"}]
    BY <1>3 DEF Answer, StoryInv, CompletionTypeOK, Present
  <2>2. CompletionTypeOK'
    BY <1>3, <2>1 DEF Answer, StoryInv, CompletionTypeOK
  <2>3. StoryGoesOn /\ WaivedStay
    BY <1>3 DEF Answer, StoryGoesOn, WaivedStay, StoryInv, CompletionTypeOK
  <2>4. QED
    BY <1>3, <2>2, <2>3, GatesAside DEF Answer
<1>4. ASSUME NEW paused \in BOOLEAN, Pause(paused)
      PROVE  StoryInv'
  <2>1. run' \in RunRecords /\ run'.status = run.status
    BY <1>4 DEF Pause, StoryInv, CompletionTypeOK, RunRecords
  <2>2. CompletionTypeOK'
    BY <1>4, <2>1, StaledType DEF Pause, Moved, StoryInv, CompletionTypeOK
  <2>3. StoryGoesOn /\ WaivedStay
    BY <1>4, <2>1 DEF Pause, StoryGoesOn, WaivedStay
  <2>4. QED
    BY <1>4, <2>2, <2>3, GatesAside DEF Pause
<1>5. CASE Cancel
  <2>1. run' \in RunRecords /\ run'.status = "cancelled"
    BY <1>5 DEF Cancel, StoryInv, CompletionTypeOK, RunRecords, Ended
  <2>2. CompletionTypeOK'
    BY <1>5, <2>1, StaledType DEF Cancel, Moved, StoryInv, CompletionTypeOK
  <2>3. StoryGoesOn /\ WaivedStay
    BY <1>5, <2>1 DEF Cancel, StoryGoesOn, WaivedStay
  <2>4. QED
    BY <1>5, <2>2, <2>3, GatesAside DEF Cancel
<1>6. ASSUME NEW c \in Calls, NEW exact \in BOOLEAN,
             AcceptReads(c) \/ AcceptInspects(c, exact) \/ AcceptRefused(c)
      PROVE  StoryInv'
  <2>1. /\ NoCall \in [stage : {"none", "read", "inspected"}, gate : Nat, stale : BOOLEAN]
        /\ Len(gates) \in Nat
    BY DEF NoCall, StoryInv, CompletionTypeOK
  <2>2. accepts' \in [Calls -> [stage : {"none", "read", "inspected"}, gate : Nat, stale : BOOLEAN]]
    <3> DEFINE CallRecords == [stage : {"none", "read", "inspected"}, gate : Nat, stale : BOOLEAN]
    <3>1. PICK call \in CallRecords : accepts' = [accepts EXCEPT ![c] = call]
      <4>1. CASE AcceptReads(c)
        BY <2>1, <4>1 DEF AcceptReads
      <4>2. CASE AcceptInspects(c, exact)
        <5>1. accepts[c] \in CallRecords
          BY DEF StoryInv, CompletionTypeOK
        <5>2. [accepts[c] EXCEPT !.stage = "inspected"] \in CallRecords
          BY <5>1
        <5> HIDE DEF CallRecords
        <5>3. QED
          BY <2>1, <4>2, <5>2 DEF AcceptInspects, CallRecords
      <4>3. CASE AcceptRefused(c)
        BY <2>1, <4>3 DEF AcceptRefused
      <4>4. QED
        BY <1>6, <4>1, <4>2, <4>3
    <3>2. accepts \in [Calls -> CallRecords]
      BY DEF StoryInv, CompletionTypeOK
    <3> HIDE DEF CallRecords
    <3>3. accepts' \in [Calls -> CallRecords]
      BY <3>1, <3>2
    <3>4. QED
      BY <3>3 DEF CallRecords
  <2>3. CompletionTypeOK'
    BY <1>6, <2>2 DEF AcceptReads, AcceptInspects, AcceptRefused, StoryInv, CompletionTypeOK
  <2>4. StoryGoesOn /\ WaivedStay
    BY <1>6 DEF AcceptReads, AcceptInspects, AcceptRefused, StoryGoesOn, WaivedStay
  <2>5. QED
    BY <1>6, <2>3, <2>4, GatesAside DEF AcceptReads, AcceptInspects, AcceptRefused
<1>7. QED
  BY <1>1, <1>2, <1>3, <1>4, <1>5, <1>6, AcceptCommitsKeeps, RequestChangesKeeps DEF Operator

-----------------------------------------------------------------------------
LEMMA StoryInvInit == Init => StoryInv
<1> SUFFICES ASSUME Init PROVE StoryInv
  OBVIOUS
<1>1. CompletionTypeOK
  <2>1. /\ run \in RunRecords /\ request \in RequestRecords /\ NewTurn("work") \in TurnRecords
        /\ NoCall \in [stage : {"none", "read", "inspected"}, gate : Nat, stale : BOOLEAN]
        /\ MaxReserve \in Nat
    BY CompletionAssumption DEF Init, RunRecords, RequestRecords, NoRequest, NewTurn, TurnRecords, NoCall, CompletionAssumption
  <2>2. turns \in Seq(TurnRecords) /\ turns # <<>> /\ gates \in Seq(GateRecords)
    BY <2>1 DEF Init
  <2>3. tree \in [number : Nat, leaves : SUBSET Leaves] /\ leaf \in [Leaves -> Present \cup {"absent", "retired"}]
    BY DEF Init, Present
  <2>4. accepts \in [Calls -> [stage : {"none", "read", "inspected"}, gate : Nat, stale : BOOLEAN]]
    BY <2>1 DEF Init
  <2>5. QED
    BY <2>1, <2>2, <2>3, <2>4 DEF Init, CompletionTypeOK, Idle
<1>2. OneStory /\ SignedOffPassed /\ ChecksUnderWay /\ PinnedIsComplete
  BY CompletionAssumption DEF Init, OneStory, SignedOffPassed, ChecksUnderWay, PinnedIsComplete, NoRequest, CompletionAssumption
<1>3. QED
  BY <1>1, <1>2 DEF StoryInv

LEMMA StoryInvStep == StoryInv /\ [Next]_vars => StoryInv'
<1> SUFFICES ASSUME StoryInv, [Next]_vars PROVE StoryInv'
  OBVIOUS
<1>1. CASE UNCHANGED vars
  BY <1>1 DEF vars, StoryInv, CompletionTypeOK, OneStory, SignedOffPassed, ChecksUnderWay, PinnedIsComplete,
     Gate, PendingChecks, FailedChecks, Recorded, CurrentCriteria
<1>2. QED
  BY <1>1, RootStepsKeep, EngineStepsKeep, ExternalKeeps, OperatorKeeps DEF Next

LEMMA StoryInvariant == Spec => []StoryInv
  BY StoryInvInit, StoryInvStep, PTL DEF Spec

\* Every row, call and decision of a Run's completion keeps to its records.
THEOREM CompletionTypes == Spec => []CompletionTypeOK
<1>1. StoryInv => CompletionTypeOK
  BY DEF StoryInv
<1>2. QED
  BY StoryInvariant, <1>1, PTL

\* The Run, its request, its Gate cycles and the signoff tell one story (completion.ts, signoff.ts):
\* at most MaxCycles cycles, only the last open, and every row agrees with the Run's status.
THEOREM OneStoryHolds == Spec => []OneStory
<1>1. StoryInv => OneStory
  BY DEF StoryInv
<1>2. QED
  BY StoryInvariant, <1>1, PTL

\* A Run completes only on what was verified, whatever happened between the inspection of the
\* Integration Workspace and the commit (RunSignoffService.accept revalidates in its transaction).
THEOREM AcceptedIsVerifiedHolds == Spec => AcceptedIsVerified
<1> DEFINE Verified == run.status # "completed" /\ run'.status = "completed" =>
             /\ run'.final = run.snapshot /\ Gate.snapshot = run.snapshot
             /\ Gate.status = "passed" /\ Gate.signoff = "open" /\ AllPassed
             /\ Gate.revision = tree.number
             /\ CurrentCriteria \subseteq DOMAIN Gate.verdict
             /\ open = {} /\ ~run.paused
             /\ Turn.status # "running" /\ work.status # "active"
<1>1. StoryInv /\ [Next]_vars => [Verified]_vars
  <2> SUFFICES ASSUME StoryInv, Next, run.status # "completed", run'.status = "completed"
               PROVE  Verified
    BY DEF vars
  <2>1. PICK c \in Calls : AcceptCommits(c)
    <3> run \in RunRecords
      BY DEF StoryInv, CompletionTypeOK
    <3>1. ASSUME NEW gate, NEW why, Fails(gate, why)
          PROVE  run'.status # "completed"
      BY <3>1 DEF Fails, RunRecords
    <3>2. ASSUME NEW kind, Engage(kind)
          PROVE  run'.status # "completed"
      BY <3>1, <3>2 DEF Engage
    <3>3. ~RootSteps
      BY DEF RootSteps, ContinueTurn, Integrate, SettleRemediation, SettleFailedTurn, PrepareTurn,
             PrepareRemediation, RunRecords
    <3>4. ~TurnSteps
      BY DEF TurnSteps, RequestCompletion, Revise, TurnEnds
    <3>5. ~Begin /\ ~CancelRequest /\ ~StartChecks /\ ~Derive
      BY DEF Begin, CancelRequest, StartChecks, Derive, RunRecords
    <3>6. ~PrepareEvaluator /\ ~PrepareSynthesis /\ ~Complete
      BY <3>1, <3>2 DEF PrepareEvaluator, PrepareSynthesis, Complete
    <3>7. ~SettleEvaluator
      BY <3>1, <3>2 DEF SettleEvaluator
    <3>8. ~SettleSynthesis
      BY <3>1, <3>2 DEF SettleSynthesis, RunRecords
    <3>9. ~External /\ ~Crash
      BY DEF External, RecordCheck, CheckNotRun, WorkEnds, PlanEnds, Crash
    <3>10. Operator
      BY <3>3, <3>4, <3>5, <3>6, <3>7, <3>8, <3>9 DEF Next, EngineSteps
    <3>11. ~Ask /\ ~Post /\ ~Cancel /\ ~RequestChanges
      BY DEF Ask, Post, Cancel, RequestChanges, RunRecords
    <3>12. QED
      BY <3>10, <3>11 DEF Operator, Author, Answer, Pause, AcceptReads, AcceptInspects, AcceptRefused, RunRecords
  <2>2. /\ run.status = "awaiting_signoff" /\ Quiescent
        /\ run' = [run EXCEPT !.status = "completed", !.final = Gate.snapshot]
    BY <2>1 DEF AcceptCommits, Resolvable
  <2>3. gates # <<>> /\ Gate.status = "passed" /\ Gate.signoff = "open" /\ AllPassed
    BY <2>2, AwaitsOnPassedGate
  <2>4. run'.final = Gate.snapshot
    BY <2>2 DEF StoryInv, CompletionTypeOK, RunRecords
  <2>5. QED
    BY <2>2, <2>3, <2>4 DEF Quiescent, StoryInv, PinnedIsComplete
<1>2. QED
  BY StoryInvariant, <1>1, PTL DEF Spec, AcceptedIsVerified


-----------------------------------------------------------------------------
(***************************************************************************)
(* A Run in verification is never left with nothing to do: the safety half *)
(* of VerificationEnds.                                                    *)
(***************************************************************************)
\* The completion Invocation of this kind ended, and its settlement may be prepared.
Settles(kind) ==
  /\ work.kind = kind
  /\ work.status \in {"succeeded", "failed"} \/ (work.status = "blocked" /\ "approval" \notin open)

\* What the engine finds to do in its next pass (phaseOf and inspect of completion.ts).
HasPhase ==
  \/ FailedChecks = {} /\ PendingChecks # {}                     \* StartChecks
  \/ FailedChecks # {}                                           \* Complete
  \/ ToJudge /\ (work = Idle \/ Settles("evaluator"))            \* PrepareEvaluator, SettleEvaluator
  \/ AllPassed /\ leaf # Derived                                 \* Derive
  \/ Judgeable /\ Conditions                                     \* Complete
  \/ Judgeable /\ ~Conditions /\ work.kind # "synthesis"         \* PrepareSynthesis
  \/ Judgeable /\ ~Conditions /\ Settles("synthesis")            \* SettleSynthesis

\* A Run in verification has commands under way, a completion Invocation at work, an approval
\* to wait for, or a step of its engine.
NeverIdle ==
  Verifying => checking \/ work.status = "active" \/ "approval" \in open \/ HasPhase

\* While a Run is verified, only checks fail without ending the cycle, and the synthesis is
\* prepared after the last criterion passed.
JudgementIsClean ==
  run.status = "verifying" =>
    /\ \A c \in DOMAIN Gate.verdict : Gate.verdict[c] = "fail" => c \in Checks
    /\ work.kind = "synthesis" => AllPassed
WorkShape == (work.kind = "none") = (work.status = "none")

IdleInv == StoryInv /\ JudgementIsClean /\ WorkShape

LEMMA LeastExists ==
  ASSUME NEW S, S \subseteq Nat, S # {}
  PROVE  \E n \in S : \A m \in S : n <= m
<1>1. PICK n \in S : \A m \in S : ~(<<m, n>> \in OpToRel(<, Nat))
  BY NatLessThanWellFounded, WFMin
<1>2. \A m \in S : ~(m < n)
  BY <1>1 DEF OpToRel
<1>3. QED
  BY <1>2

\* A step that leaves the verdicts and the kind of the completion Invocation alone.
LEMMA JudgementStays ==
  ASSUME JudgementIsClean, work'.kind = work.kind,
         run'.status = "verifying" => run.status = "verifying" /\ Gate'.verdict = Gate.verdict
  PROVE  JudgementIsClean'
  BY DEF JudgementIsClean, AllPassed, Recorded

\* A completion Invocation is prepared for a judgement, or the cycle fails for want of reserve.
LEMMA EngageClean ==
  ASSUME IdleInv, run.status = "verifying", NEW kind \in {"evaluator", "synthesis"}, Engage(kind),
         kind = "synthesis" => AllPassed
  PROVE  JudgementIsClean' /\ WorkShape'
<1> run \in RunRecords
  BY DEF IdleInv, StoryInv, CompletionTypeOK
<1>1. CASE work' = [kind |-> kind, status |-> "active"] /\ UNCHANGED <<run, request, gates, accepts>>
  BY <1>1 DEF IdleInv, JudgementIsClean, WorkShape, AllPassed, Recorded, Gate
<1>2. CASE Fails(Gate, "final_reserve_exhausted") /\ UNCHANGED <<work, reserve>>
  BY <1>2 DEF Fails, RunRecords, IdleInv, JudgementIsClean, WorkShape
<1>3. QED
  BY <1>1, <1>2 DEF Engage

\* Once a cycle failed the Run is verified no more.
LEMMA FailsClean ==
  ASSUME IdleInv, NEW g, NEW why, Fails(g, why), UNCHANGED work
  PROVE  JudgementIsClean' /\ WorkShape'
<1> run \in RunRecords
  BY DEF IdleInv, StoryInv, CompletionTypeOK
<1>1. QED
  BY DEF Fails, RunRecords, IdleInv, JudgementIsClean, WorkShape

\* A step that writes neither the Gates nor the completion Invocation.
LEMMA BesideJudgement ==
  ASSUME IdleInv, UNCHANGED <<gates, work>>, run'.status = "verifying" => run.status = "verifying"
  PROVE  JudgementIsClean' /\ WorkShape'
<1>1. Gate' = Gate
  BY DEF Gate
<1>2. QED
  BY <1>1, JudgementStays DEF IdleInv, WorkShape

LEMMA BeginClean ==
  ASSUME IdleInv, Begin
  PROVE  JudgementIsClean' /\ WorkShape'
<1> run \in RunRecords /\ gates \in Seq(GateRecords)
  BY DEF IdleInv, StoryInv, CompletionTypeOK
<1>1. CASE UNCHANGED <<run, gates, work, accepts>>
  BY <1>1, BesideJudgement
<1>2. CASE gates' = Append(gates, NewGate) /\ work' = Idle
  <2>1. Gate' = NewGate
    BY <1>2 DEF Gate
  <2>2. \A c \in DOMAIN NewGate.verdict : NewGate.verdict[c] = "none"
    BY DEF NewGate
  <2>3. QED
    BY <1>2, <2>1, <2>2 DEF JudgementIsClean, WorkShape, Idle
<1>3. QED
  BY <1>1, <1>2 DEF Begin

LEMMA RecordCheckClean ==
  ASSUME IdleInv, NEW verdict \in {"pass", "fail"}, RecordCheck(verdict)
  PROVE  JudgementIsClean' /\ WorkShape'
<1> DEFINE check == CHOOSE c \in PendingChecks : \A d \in PendingChecks : c <= d
           verdicts == [Gate.verdict EXCEPT ![check] = verdict]
           g == [Gate EXCEPT !.verdict[check] = verdict]
<1>1. checking /\ Closes(g) /\ UNCHANGED <<run, work>>
  BY DEF RecordCheck
<1>2. gates # <<>> /\ PendingChecks # {} /\ gates \in Seq(GateRecords) /\ Gate \in GateRecords
  BY <1>1, LatestGate DEF IdleInv, StoryInv, ChecksUnderWay, CompletionTypeOK
<1>3. check \in PendingChecks
  <2>1. PendingChecks \subseteq Nat
    BY CompletionAssumption DEF PendingChecks, CompletionAssumption
  <2>2. \E c \in PendingChecks : \A d \in PendingChecks : c <= d
    BY <1>2, <2>1, LeastExists
  <2>3. QED
    BY <2>2
<1> HIDE DEF check
<1>4. g = [Gate EXCEPT !.verdict = verdicts]
  OBVIOUS
<1>5. check \in Checks /\ check \in DOMAIN Gate.verdict /\ Gate.verdict[check] = "none"
  BY <1>3 DEF PendingChecks, Recorded
<1>6. /\ DOMAIN verdicts = DOMAIN Gate.verdict
      /\ \A c \in DOMAIN Gate.verdict : verdicts[c] = "fail" => c = check \/ Gate.verdict[c] = "fail"
  BY <1>5
<1> HIDE DEF verdicts
<1>7. g.verdict = verdicts
  BY <1>2, <1>4 DEF GateRecords
<1> HIDE DEF g
<1>8. Gate' = g
  BY <1>1, <1>2 DEF Closes, Gate
<1>9. ~AllPassed
  BY <1>5 DEF AllPassed, Recorded
<1>10. QED
  BY <1>1, <1>5, <1>6, <1>7, <1>8, <1>9 DEF IdleInv, JudgementIsClean, WorkShape

LEMMA SettleEvaluatorClean ==
  ASSUME IdleInv, SettleEvaluator
  PROVE  JudgementIsClean' /\ WorkShape'
<1>1. run.status = "verifying" /\ work.kind = "evaluator"
  BY DEF SettleEvaluator, Verifying
<1>2. ASSUME NEW judged \in [Recorded("none") -> {"pass", "fail"}],
             \A c \in DOMAIN judged : judged[c] # "fail",
             NEW g, g = [Gate EXCEPT !.verdict =
                           [c \in DOMAIN @ |-> IF c \in DOMAIN judged THEN judged[c] ELSE @[c]]],
             Closes(g), UNCHANGED <<run, request, accepts, work>>
      PROVE  JudgementIsClean' /\ WorkShape'
  <2>1. gates # <<>> /\ gates \in Seq(GateRecords) /\ Gate \in GateRecords
    BY <1>1, VerifiesOpenGate DEF IdleInv, StoryInv, CompletionTypeOK
  <2>2. g.verdict = [c \in DOMAIN Gate.verdict |-> IF c \in DOMAIN judged THEN judged[c] ELSE Gate.verdict[c]]
    BY <1>2, <2>1 DEF GateRecords
  <2>3. Gate' = g
    BY <1>2, <2>1 DEF Closes, Gate
  <2>4. \A c \in DOMAIN g.verdict : c \in DOMAIN Gate.verdict /\ (g.verdict[c] = "fail" => Gate.verdict[c] = "fail")
    BY <1>2, <2>2
  <2>5. QED
    BY <1>1, <1>2, <2>3, <2>4 DEF IdleInv, JudgementIsClean, WorkShape
<1>3. CASE work.status = "succeeded" /\ UNCHANGED <<work, reserve>>
  <2>1. PICK judged \in [Recorded("none") -> {"pass", "fail"}] :
          LET gate == [Gate EXCEPT !.verdict =
                         [c \in DOMAIN @ |-> IF c \in DOMAIN judged THEN judged[c] ELSE @[c]]]
          IN  IF \E c \in DOMAIN judged : judged[c] = "fail"
              THEN Fails(gate, "criteria_failed")
              ELSE Closes(gate) /\ UNCHANGED <<run, request, accepts>>
    BY <1>3 DEF SettleEvaluator
  <2> DEFINE g == [Gate EXCEPT !.verdict =
                     [c \in DOMAIN @ |-> IF c \in DOMAIN judged THEN judged[c] ELSE @[c]]]
  <2>2. CASE \E c \in DOMAIN judged : judged[c] = "fail"
    <3>1. Fails(g, "criteria_failed")
      BY <2>1, <2>2
    <3>2. QED
      BY <1>3, <3>1, FailsClean
  <2>3. CASE \A c \in DOMAIN judged : judged[c] # "fail"
    <3>1. Closes(g) /\ UNCHANGED <<run, request, accepts>>
      BY <2>1, <2>3
    <3>2. QED
      BY <1>2, <1>3, <2>3, <3>1
  <2>4. QED
    BY <2>2, <2>3
<1>4. CASE Fails(Gate, "evaluator_failed") /\ UNCHANGED <<work, reserve>>
  BY <1>4, FailsClean
<1>5. CASE Engage("evaluator")
  BY <1>1, <1>5, EngageClean
<1>6. QED
  BY <1>3, <1>4, <1>5 DEF SettleEvaluator

LEMMA EngineStepsClean ==
  ASSUME IdleInv, EngineSteps
  PROVE  JudgementIsClean' /\ WorkShape'
<1> run \in RunRecords
  BY DEF IdleInv, StoryInv, CompletionTypeOK
<1>1. CASE CancelRequest \/ StartChecks \/ Derive
  BY <1>1, BesideJudgement DEF CancelRequest, StartChecks, Derive
<1>2. CASE PrepareEvaluator
  BY <1>2, EngageClean DEF PrepareEvaluator, Verifying
<1>3. CASE Complete
  BY <1>3, FailsClean DEF Complete
<1>4. CASE PrepareSynthesis
  BY <1>4, EngageClean DEF PrepareSynthesis, Verifying, Judgeable
<1>5. CASE SettleSynthesis
  <2>1. run.status = "verifying" /\ AllPassed
    BY <1>5 DEF SettleSynthesis, Verifying, Judgeable
  <2>2. CASE run' = [run EXCEPT !.status = "awaiting_signoff"] /\ UNCHANGED <<work, reserve>>
    BY <2>2 DEF RunRecords, IdleInv, JudgementIsClean, WorkShape
  <2>3. CASE Fails(Gate, "final_synthesis_failed") /\ UNCHANGED <<work, reserve>>
    BY <2>3, FailsClean
  <2>4. CASE Engage("synthesis")
    BY <2>1, <2>4, EngageClean
  <2>5. QED
    BY <1>5, <2>2, <2>3, <2>4 DEF SettleSynthesis
<1>6. QED
  BY <1>1, <1>2, <1>3, <1>4, <1>5, BeginClean, SettleEvaluatorClean DEF EngineSteps

LEMMA RootAndTurnStepsClean ==
  ASSUME IdleInv, RootSteps \/ TurnSteps
  PROVE  JudgementIsClean' /\ WorkShape'
<1> run \in RunRecords
  BY DEF IdleInv, StoryInv, CompletionTypeOK
<1>1. CASE TurnSteps
  BY <1>1, BesideJudgement DEF TurnSteps, RequestCompletion, Revise, TurnEnds
<1>2. CASE ContinueTurn \/ Integrate \/ SettleFailedTurn \/ PrepareTurn
  BY <1>2, BesideJudgement DEF ContinueTurn, Integrate, SettleFailedTurn, PrepareTurn, RunRecords
<1>3. CASE SettleRemediation
  <2>1. UNCHANGED <<run, work>> /\ DOMAIN gates' = DOMAIN gates
        /\ \A i \in DOMAIN gates : gates'[i].verdict = gates[i].verdict
    <3> DEFINE task == IF Turn.status = "completed" THEN "completed" ELSE "failed"
    <3>1. ASSUME NEW i \in DOMAIN gates
          PROVE  [gates[i] EXCEPT !.task = task].verdict = gates[i].verdict
      <4>1. gates[i] \in GateRecords
        BY DEF IdleInv, StoryInv, CompletionTypeOK
      <4>2. QED
        BY <4>1 DEF GateRecords
    <3> HIDE DEF task
    <3>2. QED
      BY <1>3, <3>1 DEF SettleRemediation, task
  <2>2. ASSUME run.status = "verifying" PROVE Gate'.verdict = Gate.verdict
    <3>1. gates # <<>> /\ gates \in Seq(GateRecords) /\ Len(gates) \in DOMAIN gates
      BY <2>2, VerifiesOpenGate, LatestGate DEF IdleInv, StoryInv, CompletionTypeOK
    <3>2. Len(gates') = Len(gates)
      <4>1. gates' = [i \in 1..Len(gates) |-> gates'[i]]
        BY <1>3, <3>1 DEF SettleRemediation
      <4>2. gates' \in Seq({gates'[i] : i \in 1..Len(gates)})
        BY <3>1, <4>1
      <4>3. QED
        BY <2>1, <3>1, <4>2
    <3>3. QED
      BY <2>1, <3>1, <3>2 DEF Gate
  <2>3. QED
    BY <2>1, <2>2, JudgementStays DEF IdleInv, WorkShape
<1>4. CASE PrepareRemediation
  BY <1>4 DEF PrepareRemediation, Prepare, IdleInv, JudgementIsClean, WorkShape
<1>5. QED
  BY <1>1, <1>2, <1>3, <1>4 DEF RootSteps

LEMMA OutsideStepsClean ==
  ASSUME IdleInv, External \/ Operator \/ Crash
  PROVE  JudgementIsClean' /\ WorkShape'
<1> run \in RunRecords
  BY DEF IdleInv, StoryInv, CompletionTypeOK
<1>1. CASE CheckNotRun \/ PlanEnds \/ Crash
  BY <1>1, BesideJudgement DEF CheckNotRun, PlanEnds, Crash
<1>2. ASSUME NEW status \in {"succeeded", "failed", "blocked"}, NEW unspent \in 0..1, WorkEnds(status, unspent)
      PROVE  JudgementIsClean' /\ WorkShape'
  <2>1. work'.kind = work.kind /\ work'.status = status /\ work.status = "active" /\ UNCHANGED <<run, gates>>
    BY <1>2 DEF WorkEnds, IdleInv, StoryInv, CompletionTypeOK
  <2>2. Gate' = Gate
    BY <2>1 DEF Gate
  <2>3. QED
    BY <2>1, <2>2, JudgementStays DEF IdleInv, WorkShape
<1>3. CASE \/ \E kept \in SUBSET Leaves : Author(kept)
           \/ Ask \/ Post \/ \E d \in {"turn", "conversation", "approval"} : Answer(d)
           \/ \E paused \in BOOLEAN : Pause(paused)
           \/ Cancel
           \/ \E c \in Calls : AcceptReads(c) \/ AcceptInspects(c, TRUE) \/ AcceptInspects(c, FALSE) \/ AcceptRefused(c)
  <2>1. UNCHANGED <<gates, work>>
    BY <1>3 DEF Author, Ask, Post, Answer, Pause, Cancel, AcceptReads, AcceptInspects, AcceptRefused
  <2>2. run'.status = "verifying" => run.status = "verifying"
    BY <1>3 DEF Author, Ask, Post, Answer, Pause, Cancel, AcceptReads, AcceptInspects, AcceptRefused, RunRecords
  <2>3. QED
    BY <2>1, <2>2, BesideJudgement
<1>4. CASE RequestChanges
  BY <1>4 DEF RequestChanges, RunRecords, IdleInv, JudgementIsClean, WorkShape
<1>5. ASSUME NEW c \in Calls, AcceptCommits(c)
      PROVE  JudgementIsClean' /\ WorkShape'
  BY <1>5 DEF AcceptCommits, RunRecords, IdleInv, JudgementIsClean, WorkShape
<1>6. QED
  BY <1>1, <1>2, <1>3, <1>4, <1>5, RecordCheckClean DEF External, Operator

LEMMA IdleInvStep == IdleInv /\ [Next]_vars => IdleInv'
<1> SUFFICES ASSUME IdleInv, [Next]_vars PROVE IdleInv'
  OBVIOUS
<1>1. StoryInv'
  BY StoryInvStep DEF IdleInv
<1>2. JudgementIsClean' /\ WorkShape'
  <2>1. CASE UNCHANGED vars
    BY <2>1, BesideJudgement DEF vars
  <2>2. CASE Next
    BY <2>2, RootAndTurnStepsClean, EngineStepsClean, OutsideStepsClean DEF Next
  <2>3. QED
    BY <2>1, <2>2
<1>3. QED
  BY <1>1, <1>2 DEF IdleInv

LEMMA PhaseFound == IdleInv => NeverIdle
<1> SUFFICES ASSUME IdleInv, Verifying, ~checking, work.status # "active", "approval" \notin open
             PROVE  HasPhase
  BY DEF NeverIdle
<1>1. /\ work \in [kind : {"none", "evaluator", "synthesis"},
                   status : {"none", "active", "succeeded", "failed", "blocked"}]
      /\ run.status = "verifying" /\ Gate.verdict \in [DOMAIN Gate.verdict -> {"none", "pass", "fail"}]
  BY VerifiesOpenGate, LatestGate DEF Verifying, IdleInv, StoryInv, CompletionTypeOK
<1>2. CASE PendingChecks # {} \/ FailedChecks # {}
  BY <1>2 DEF HasPhase
<1>3. CASE ToJudge
  <2>1. work.kind # "synthesis"
    BY <1>1, <1>3 DEF ToJudge, IdleInv, JudgementIsClean, AllPassed, Recorded
  <2>2. CASE work.kind = "none"
    BY <1>1, <1>3, <2>2 DEF IdleInv, WorkShape, Idle, HasPhase
  <2>3. CASE work.kind = "evaluator"
    BY <1>1, <1>3, <2>3 DEF IdleInv, WorkShape, Settles, HasPhase
  <2>4. QED
    BY <1>1, <2>1, <2>2, <2>3
<1>4. CASE ChecksPassed /\ Recorded("none") = {}
  <2>1. AllPassed
    BY <1>1, <1>4 DEF ChecksPassed, FailedChecks, Recorded, AllPassed, IdleInv, JudgementIsClean
  <2>2. CASE leaf # Derived
    BY <2>1, <2>2 DEF HasPhase
  <2>3. CASE leaf = Derived
    <3>1. Judgeable
      BY <2>1, <2>3 DEF Judgeable
    <3>2. CASE work.kind = "synthesis" /\ ~Conditions
      <4>1. Settles("synthesis")
        BY <1>1, <3>2 DEF IdleInv, WorkShape, Settles
      <4>2. QED
        BY <3>1, <3>2, <4>1 DEF HasPhase
    <3>3. QED
      BY <3>1, <3>2 DEF HasPhase
  <2>4. QED
    BY <2>2, <2>3
<1>5. QED
  BY <1>2, <1>3, <1>4 DEF ToJudge, ChecksPassed

\* A Run in verification always has commands under way, a completion Invocation at work, an
\* approval to wait for, or a step of its engine (RunCompletionEngine: phaseOf and inspect leave
\* no case out, whatever failed, was blocked or stopped between the phases): the safety half of
\* VerificationEnds.
THEOREM NeverIdleHolds == Spec => []NeverIdle
<1>1. Init => IdleInv
  <2> SUFFICES ASSUME Init PROVE IdleInv
    OBVIOUS
  <2>1. run.status # "verifying" /\ work.kind = "none" /\ work.status = "none"
    BY DEF Init, Idle
  <2>2. QED
    BY <2>1, StoryInvInit DEF IdleInv, JudgementIsClean, WorkShape
<1>2. QED
  BY <1>1, IdleInvStep, PhaseFound, PTL DEF Spec
=============================================================================
