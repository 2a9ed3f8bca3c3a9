-------------------------- MODULE PublicationProofs --------------------------
(***************************************************************************)
(* Proofs about Publication, for any Publications, Runs and bounds that    *)
(* satisfy PublicationAssumption.                                          *)
(***************************************************************************)
EXTENDS PublicationProperties, TLAPS

\* Every prepared fact is a candidate that extends what the Target held.
Built(p, facts) == facts.candidate = Append(facts.before, RunOf[p])

FactsAreBuilt ==
  \A p \in Publications :
    /\ Status(p) \in Past => Built(p, row[p].facts)
    /\ Recorded(p) => Built(p, marker[p])
    /\ \A d \in Drivers :
         drv[p][d].at \in {"building", "staged"} => Built(p, drv[p][d].facts)

-----------------------------------------------------------------------------
(***************************************************************************)
(* The shape of rows and drivers, a step at a time.                        *)
(***************************************************************************)
LEMMA BaseType == Base \in Commits /\ NoFacts \in Facts /\ IdleDriver \in DriverStates
BY PublicationAssumption DEF Base, Commits, NoFacts, Facts, IdleDriver, DriverStates, Stands

LEMMA DriverMoves ==
  ASSUME PubShape, NEW p \in Publications, NEW d \in Drivers
  PROVE  /\ \A at \in Stands : Goes(p, d, at) => drv' \in [Publications -> [Drivers -> DriverStates]]
         /\ Stops(p, d) => drv' \in [Publications -> [Drivers -> DriverStates]]
         /\ \A at \in Stands, facts \in Facts :
              drv' = [drv EXCEPT ![p][d] = [at |-> at, facts |-> facts]] =>
                drv' \in [Publications -> [Drivers -> DriverStates]]
<1>1. drv \in [Publications -> [Drivers -> DriverStates]]
  BY DEF PubShape
<1>2. ASSUME NEW at \in Stands, Goes(p, d, at)
      PROVE  drv' \in [Publications -> [Drivers -> DriverStates]]
  <2> DEFINE moved == [drv[p][d] EXCEPT !.at = at]
  <2>1. moved \in DriverStates
    BY <1>1, <1>2 DEF DriverStates
  <2>2. drv' = [drv EXCEPT ![p][d] = moved]
    BY <1>2 DEF Goes
  <2>3. QED BY <1>1, <2>1, <2>2
<1>3. ASSUME Stops(p, d) PROVE drv' \in [Publications -> [Drivers -> DriverStates]]
  BY <1>1, <1>3, BaseType DEF Stops
<1>4. ASSUME NEW at \in Stands, NEW facts \in Facts,
             drv' = [drv EXCEPT ![p][d] = [at |-> at, facts |-> facts]]
      PROVE  drv' \in [Publications -> [Drivers -> DriverStates]]
  BY <1>1, <1>4 DEF DriverStates
<1>5. QED BY <1>2, <1>3, <1>4

LEMMA RowMoves ==
  ASSUME PubShape, NEW p \in Publications
  PROVE  /\ \A status \in Statuses : Moved(p, status) => row' \in [Publications -> Rows]
         /\ \A d \in Drivers, from \in Statuses, to \in Statuses :
              Records(p, d, from, to) =>
                /\ row' \in [Publications -> Rows]
                /\ drv' \in [Publications -> [Drivers -> DriverStates]]
<1>1. row \in [Publications -> Rows]
  BY DEF PubShape
<1>2. ASSUME NEW status \in Statuses, Moved(p, status) PROVE row' \in [Publications -> Rows]
  BY <1>1, <1>2 DEF Moved, Rows
<1>3. ASSUME NEW d \in Drivers, NEW from \in Statuses, NEW to \in Statuses,
             Records(p, d, from, to)
      PROVE  /\ row' \in [Publications -> Rows]
             /\ drv' \in [Publications -> [Drivers -> DriverStates]]
  BY <1>1, <1>2, <1>3, DriverMoves DEF Records, Stands
<1>4. QED BY <1>2, <1>3

LEMMA TargetMoves ==
  ASSUME PubShape
  PROVE  /\ Append(target, Operator) \in Commits
         /\ \A n \in 0..Len(target) : SubSeq(target, 1, n) \in Commits
         /\ \A p \in Publications : Candidate(p) \in Facts
<1>1. target \in Seq(Runs \cup {Operator})
  BY DEF PubShape, Commits
<1>2. Append(target, Operator) \in Commits
  BY <1>1 DEF Commits
<1>3. ASSUME NEW n \in 0..Len(target) PROVE SubSeq(target, 1, n) \in Commits
  BY <1>1 DEF Commits
<1>4. ASSUME NEW p \in Publications PROVE Candidate(p) \in Facts
  <2>1. RunOf[p] \in Runs \cup {Operator}
    BY PublicationAssumption
  <2>2. Append(target, RunOf[p]) \in Commits
    BY <1>1, <2>1 DEF Commits
  <2>3. QED BY <1>1, <2>2 DEF Candidate, Facts, Commits
<1>5. QED BY <1>2, <1>3, <1>4

LEMMA ShapeOfDriver ==
  ASSUME PubShape, NEW p \in Publications, NEW d \in Drivers, DriverStep(p, d)
  PROVE  PubShape'
<1> USE DEF Statuses, Open, Final, Stands
<1>1. CASE ReplayPrepared(p, d)
  BY <1>1, DriverMoves DEF ReplayPrepared, PubShape
<1>2. CASE BuildCandidate(p, d)
  BY <1>2, DriverMoves, TargetMoves, BaseType DEF BuildCandidate, PubShape
<1>3. CASE RefuseCandidate(p, d)
  <2>1. drv' \in [Publications -> [Drivers -> DriverStates]]
    BY <1>3, DriverMoves DEF RefuseCandidate
  <2>2. staged' \in [Publications -> BOOLEAN]
    BY <1>3 DEF RefuseCandidate, PubShape
  <2>3. QED BY <1>3, <2>1, <2>2, BaseType DEF RefuseCandidate, PubShape
<1>4. CASE WriteMarker(p, d)
  <2>1. drv[p][d].facts \in Facts
    BY DEF PubShape, DriverStates
  <2>2. drv' \in [Publications -> [Drivers -> DriverStates]]
    BY <1>4, DriverMoves DEF WriteMarker
  <2>3. QED BY <1>4, <2>1, <2>2 DEF WriteMarker, PubShape
<1>5. CASE RecordPrepared(p, d)
  <2>1. drv[p][d].facts \in Facts
    BY DEF PubShape, DriverStates
  <2>2. drv' \in [Publications -> [Drivers -> DriverStates]]
    BY <1>5, DriverMoves DEF RecordPrepared
  <2>3. row' \in [Publications -> Rows]
    <3> DEFINE prepared == [row[p] EXCEPT !.status = "prepared", !.facts = drv[p][d].facts]
    <3>1. prepared \in Rows
      BY <2>1 DEF PubShape, Rows
    <3>2. row' = row \/ row' = [row EXCEPT ![p] = prepared]
      BY <1>5 DEF RecordPrepared
    <3>3. QED BY <3>1, <3>2 DEF PubShape
  <2>4. QED BY <1>5, <2>2, <2>3 DEF RecordPrepared, PubShape
<1>6. CASE RunChecks(p, d)
  <2>1. drv[p][d].facts.candidate \in Commits
    BY DEF PubShape, DriverStates, Facts
  <2>2. drv' \in [Publications -> [Drivers -> DriverStates]]
    BY <1>6, DriverMoves DEF RunChecks
  <2>3. QED BY <1>6, <2>1, <2>2 DEF RunChecks, PubShape
<1>7. CASE \/ RecordRefused(p, d) \/ RecordVerified(p, d) \/ RecordRejected(p, d)
           \/ CommitApplying(p, d) \/ RecordChanged(p, d)
  BY <1>7, RowMoves DEF RecordRefused, RecordVerified, RecordRejected, CommitApplying,
                        RecordChanged, PubShape
<1>8. CASE ReadReceipt(p, d) \/ LoseSwap(p, d) \/ ReadTarget(p, d) \/ Quiescent(p, d)
  BY <1>8, DriverMoves DEF ReadReceipt, LoseSwap, ReadTarget, Quiescent, PubShape
<1>9. CASE SwapTarget(p, d)
  <2>1. row[p].facts.candidate \in Commits
    BY DEF PubShape, Rows, Facts
  <2>2. QED BY <1>9, <2>1, DriverMoves DEF SwapTarget, PubShape
<1>10. CASE RecordApplied(p, d)
  BY <1>10, RowMoves, DriverMoves DEF RecordApplied, PubShape
<1>11. CASE Release(p, d)
  BY <1>11, DriverMoves, BaseType DEF Release, PubShape
<1>12. CASE RecordReleased(p, d)
  <2>1. row' \in [Publications -> Rows]
    BY <1>12 DEF RecordReleased, PubShape, Rows
  <2>2. QED BY <1>12, <2>1, DriverMoves DEF RecordReleased, PubShape
<1>13. QED
  BY <1>1, <1>2, <1>3, <1>4, <1>5, <1>6, <1>7, <1>8, <1>9, <1>10, <1>11, <1>12
     DEF DriverStep, Prepares

LEMMA ShapeOfStep == PubShape /\ [Next]_vars => PubShape'
<1> SUFFICES ASSUME PubShape, [Next]_vars PROVE PubShape'
  OBVIOUS
<1> USE DEF Statuses, Open, Final, Stands
<1>1. CASE UNCHANGED vars
  BY <1>1 DEF vars, PubShape
<1>2. ASSUME NEW p \in Publications, Request(p) \/ Cancel(p) PROVE PubShape'
  BY <1>2, RowMoves DEF Request, Cancel, PubShape
<1>3. ASSUME NEW p \in Publications, DamageMarker(p) PROVE PubShape'
  <2>1. Damaged \in Facts
    BY DEF Damaged, Facts, Commits, Base
  <2>2. QED BY <1>3, <2>1 DEF DamageMarker, PubShape
<1>4. ASSUME NEW p \in Publications, NEW d \in Drivers, Publish(p, d) PROVE PubShape'
  <2>1. row' \in [Publications -> Rows]
    BY <1>4 DEF Publish, PubShape, Rows
  <2>2. drv' \in [Publications -> [Drivers -> DriverStates]]
    BY <1>4, DriverMoves DEF Publish, Goes
  <2>3. QED BY <1>4, <2>1, <2>2 DEF Publish, PubShape
<1>5. ASSUME NEW p \in Publications, NEW d \in Drivers,
             Unavailable(p, d) \/ Retry(p, d)
      PROVE  PubShape'
  BY <1>5, DriverMoves DEF Unavailable, Retry, PubShape
<1>6. CASE Crash \/ Boot
  <2>1. [IdleDriver EXCEPT !.at = "next"] \in DriverStates
    BY BaseType DEF DriverStates
  <2>2. CASE Crash
    <3>1. drv' \in [Publications -> [Drivers -> DriverStates]]
      BY <2>2, BaseType DEF Crash
    <3>2. QED BY <2>2, <3>1 DEF Crash, PubShape
  <2>3. CASE Boot
    <3>1. drv' \in [Publications -> [Drivers -> DriverStates]]
      BY <2>1, <2>3, BaseType DEF Boot
    <3>2. QED BY <2>3, <3>1 DEF Boot, PubShape
  <2>4. QED BY <1>6, <2>2, <2>3
<1>7. CASE OperatorCommits \/ OperatorResets
  <2>1. target' \in Commits
    BY <1>7, TargetMoves DEF OperatorCommits, OperatorResets
  <2>2. QED BY <1>7, <2>1 DEF OperatorCommits, OperatorResets, PubShape
<1>8. QED
  BY <1>1, <1>2, <1>3, <1>4, <1>5, <1>6, <1>7, ShapeOfDriver DEF Next

LEMMA ShapeOfInit == Init => PubShape
BY BaseType DEF Init, PubShape, NewRow, Rows, Statuses

-----------------------------------------------------------------------------
(***************************************************************************)
(* What a step changes, point by point.                                    *)
(***************************************************************************)
OtherDriversStay(p, d) ==
  \A q \in Publications, e \in Drivers : q # p \/ e # d => drv'[q][e] = drv[q][e]
OtherRowsStay(p) == \A q \in Publications \ {p} : row'[q] = row[q]

LEMMA DriverEffects ==
  ASSUME PubShape, NEW p \in Publications, NEW d \in Drivers
  PROVE  /\ \A at : Goes(p, d, at) =>
              /\ drv'[p][d].at = at /\ drv'[p][d].facts = drv[p][d].facts
              /\ OtherDriversStay(p, d)
         /\ Stops(p, d) => drv'[p][d].at = "idle" /\ OtherDriversStay(p, d)
<1>1. /\ drv \in [Publications -> [Drivers -> DriverStates]]
      /\ \A q \in Publications : drv[q] \in [Drivers -> DriverStates]
  BY DEF PubShape
<1>2. ASSUME NEW at, Goes(p, d, at)
      PROVE  /\ drv'[p][d].at = at /\ drv'[p][d].facts = drv[p][d].facts
             /\ OtherDriversStay(p, d)
  BY <1>1, <1>2 DEF Goes, DriverStates, OtherDriversStay
<1>3. ASSUME Stops(p, d) PROVE drv'[p][d].at = "idle" /\ OtherDriversStay(p, d)
  <2>1. drv'[p][d] = IdleDriver /\ OtherDriversStay(p, d)
    BY <1>1, <1>3 DEF Stops, OtherDriversStay
  <2>2. QED BY <2>1 DEF IdleDriver
<1>4. QED BY <1>2, <1>3

LEMMA RowEffects ==
  ASSUME PubShape, NEW p \in Publications
  PROVE  \A to : Moved(p, to) =>
           /\ row'[p].status = to /\ row'[p].facts = row[p].facts
           /\ row'[p].cleanup = row[p].cleanup /\ OtherRowsStay(p)
BY DEF PubShape, Rows, Moved, OtherRowsStay

LEMMA PreparedEffects ==
  ASSUME PubShape, NEW p \in Publications, NEW d \in Drivers, RecordPrepared(p, d)
  PROVE  /\ OtherRowsStay(p) /\ OtherDriversStay(p, d)
         /\ drv'[p][d].at \in {"next", "idle"}
         /\ row'[p].cleanup = row[p].cleanup
         /\ \/ /\ Status(p) = "requested" /\ Status(p)' = "prepared"
               /\ row'[p].facts = drv[p][d].facts
            \/ Status(p) # "prepared" /\ row'[p] = row[p]
<1>1. CASE Status(p) = "requested"
  <2>1. drv'[p][d].at = "next" /\ OtherDriversStay(p, d)
    BY <1>1, DriverEffects DEF RecordPrepared
  <2>2. row[p] \in Rows /\ row \in [Publications -> Rows]
    BY DEF PubShape
  <2>3. /\ row'[p] = [row[p] EXCEPT !.status = "prepared", !.facts = drv[p][d].facts]
        /\ OtherRowsStay(p)
    BY <1>1, <2>2 DEF RecordPrepared, OtherRowsStay
  <2>4. /\ row'[p].status = "prepared" /\ row'[p].facts = drv[p][d].facts
        /\ row'[p].cleanup = row[p].cleanup
    BY <2>2, <2>3 DEF Rows
  <2>5. QED BY <1>1, <2>1, <2>3, <2>4 DEF Status
<1>2. CASE Status(p) # "requested"
  BY <1>2, DriverEffects DEF RecordPrepared, OtherRowsStay
<1>3. QED BY <1>1, <1>2

LEMMA RecordsEffects ==
  ASSUME PubShape, NEW p \in Publications, NEW d \in Drivers
  PROVE  \A from, to : Records(p, d, from, to) =>
           /\ OtherRowsStay(p) /\ OtherDriversStay(p, d)
           /\ drv'[p][d].at \in {"next", "idle"}
           /\ row'[p].facts = row[p].facts /\ row'[p].cleanup = row[p].cleanup
           /\ \/ Status(p) = from /\ Status(p)' = to
              \/ Status(p) # from /\ Status(p)' = Status(p)
<1> SUFFICES ASSUME NEW from, NEW to, Records(p, d, from, to)
             PROVE  /\ OtherRowsStay(p) /\ OtherDriversStay(p, d)
                    /\ drv'[p][d].at \in {"next", "idle"}
                    /\ row'[p].facts = row[p].facts /\ row'[p].cleanup = row[p].cleanup
                    /\ \/ Status(p) = from /\ Status(p)' = to
                       \/ Status(p) # from /\ Status(p)' = Status(p)
  OBVIOUS
<1>1. CASE Status(p) = from
  BY <1>1, RowEffects, DriverEffects DEF Records, Status
<1>2. CASE Status(p) # from
  BY <1>2, DriverEffects DEF Records, Status, OtherRowsStay
<1>3. QED BY <1>1, <1>2

-----------------------------------------------------------------------------
(***************************************************************************)
(* Prepared facts: a row holds them from its boundary on, and they extend  *)
(* what the Target held.                                                   *)
(***************************************************************************)
RowsKeepPace ==
  \A p \in Publications :
    /\ (Status(p) \notin Open \cup Final) <=> (row[p].cleanup = "none")
    /\ \A d \in Drivers : drv[p][d].at = "removed" => Status(p) \in Final

BuiltInv == PubShape /\ FactsAreBuilt /\ RowsKeepPace

LEMMA BuiltOfInit == Init => BuiltInv
BY ShapeOfInit DEF Init, BuiltInv, FactsAreBuilt, RowsKeepPace, Status, Past, Recorded, NewRow,
   Open, Final, IdleDriver

LEMMA CandidateIsBuilt == \A p \in Publications : Built(p, Candidate(p))
BY DEF Built, Candidate

\* A step of the driver d of p touches nothing of another Publication or driver.
Touches(p, d) ==
  /\ OtherRowsStay(p) /\ OtherDriversStay(p, d)
  /\ \A q \in Publications \ {p} : marker'[q] = marker[q]

LEMMA BuiltAt ==
  ASSUME FactsAreBuilt, NEW p \in Publications, NEW d \in Drivers, Touches(p, d),
         Status(p)' \in Past => Built(p, row'[p].facts),
         Recorded(p)' => Built(p, marker'[p]),
         drv'[p][d].at \in {"building", "staged"} => Built(p, drv'[p][d].facts)
  PROVE  FactsAreBuilt'
BY DEF FactsAreBuilt, Touches, OtherRowsStay, OtherDriversStay, Status, Recorded

LEMMA PaceAt ==
  ASSUME RowsKeepPace, NEW p \in Publications, NEW d \in Drivers, Touches(p, d),
         (Status(p)' \notin Open \cup Final) <=> (row'[p].cleanup = "none"),
         Status(p) \in Final => Status(p)' \in Final,
         drv'[p][d].at = "removed" => Status(p)' \in Final
  PROVE  RowsKeepPace'
BY DEF RowsKeepPace, Touches, OtherRowsStay, OtherDriversStay, Status

LEMMA SameRow ==
  ASSUME BuiltInv, NEW p \in Publications, NEW d \in Drivers, Touches(p, d), UNCHANGED row,
         Recorded(p)' => Built(p, marker'[p]),
         drv'[p][d].at \in {"building", "staged"} => Built(p, drv'[p][d].facts),
         drv'[p][d].at = "removed" => Status(p) \in Final
  PROVE  (FactsAreBuilt /\ RowsKeepPace)'
<1>1. UNCHANGED Status(p) /\ UNCHANGED row[p]
  BY DEF Status
<1>2. FactsAreBuilt'
  BY <1>1, BuiltAt DEF BuiltInv, FactsAreBuilt
<1>3. RowsKeepPace'
  BY <1>1, PaceAt DEF BuiltInv, RowsKeepPace
<1>4. QED BY <1>2, <1>3

LEMMA NewStatus ==
  ASSUME BuiltInv, NEW p \in Publications, NEW d \in Drivers,
         NEW from \in Open, NEW to \in Statuses, Records(p, d, from, to), UNCHANGED marker,
         \/ to \in {"verified", "applying", "succeeded"} /\ from \in Past
         \/ to = "failed"
  PROVE  (FactsAreBuilt /\ RowsKeepPace)'
<1>1. /\ Touches(p, d) /\ drv'[p][d].at \in {"next", "idle"}
      /\ row'[p].facts = row[p].facts /\ row'[p].cleanup = row[p].cleanup
      /\ \/ Status(p) = from /\ Status(p)' = to
         \/ Status(p) # from /\ Status(p)' = Status(p)
  BY RecordsEffects DEF BuiltInv, Touches
<1>2. Recorded(p)' = Recorded(p)
  BY DEF Recorded
<1>3. FactsAreBuilt'
  BY <1>1, <1>2, BuiltAt DEF BuiltInv, FactsAreBuilt, Past
<1>4. RowsKeepPace'
  BY <1>1, PaceAt DEF BuiltInv, RowsKeepPace, Open, Final
<1>5. QED BY <1>3, <1>4

LEMMA BuiltOfDriver ==
  ASSUME BuiltInv, NEW p \in Publications, NEW d \in Drivers, DriverStep(p, d)
  PROVE  (FactsAreBuilt /\ RowsKeepPace)'
<1>0. /\ PubShape
      /\ Recorded(p) => Built(p, marker[p])
      /\ drv[p][d].at \in {"building", "staged"} => Built(p, drv[p][d].facts)
      /\ marker \in [Publications -> Facts]
  BY DEF BuiltInv, FactsAreBuilt, PubShape
<1>1. CASE ReplayPrepared(p, d)
  <2>1. Touches(p, d) /\ drv'[p][d].at = "staged" /\ drv'[p][d].facts = marker[p]
    <3>1. /\ drv'[p][d] = [at |-> "staged", facts |-> marker[p]]
          /\ OtherDriversStay(p, d)
      BY <1>0, <1>1 DEF ReplayPrepared, PubShape, OtherDriversStay
    <3>2. QED BY <1>1, <3>1 DEF ReplayPrepared, Touches, OtherRowsStay
  <2>2. QED BY <1>0, <1>1, <2>1, SameRow DEF ReplayPrepared, Recorded
<1>2. CASE BuildCandidate(p, d)
  <2>1. OtherDriversStay(p, d) /\ drv'[p][d].at = "building" /\ drv'[p][d].facts = Candidate(p)
    <3>1. /\ drv'[p][d] = [at |-> "building", facts |-> Candidate(p)]
          /\ OtherDriversStay(p, d)
      BY <1>0, <1>2 DEF BuildCandidate, PubShape, OtherDriversStay
    <3>2. QED BY <3>1
  <2>2. marker'[p] = NoFacts /\ Touches(p, d)
    BY <1>0, <1>2, <2>1 DEF BuildCandidate, Touches, OtherRowsStay
  <2>3. QED BY <1>2, <2>1, <2>2, SameRow, CandidateIsBuilt DEF BuildCandidate, Recorded
<1>3. CASE RefuseCandidate(p, d)
  <2>1. drv'[p][d].at \in {"refused", "idle"} /\ OtherDriversStay(p, d)
    BY <1>0, <1>3, DriverEffects DEF RefuseCandidate
  <2>2. marker'[p] = NoFacts /\ Touches(p, d)
    BY <1>0, <1>3, <2>1 DEF RefuseCandidate, Touches, OtherRowsStay
  <2>3. QED BY <1>3, <2>1, <2>2, SameRow DEF RefuseCandidate, Recorded
<1>4. CASE WriteMarker(p, d)
  <2>1. CASE staged[p]
    <3>1. /\ drv'[p][d].at = "staged" /\ drv'[p][d].facts = drv[p][d].facts
          /\ OtherDriversStay(p, d)
      BY <1>0, <1>4, <2>1, DriverEffects DEF WriteMarker
    <3>2. marker'[p] = drv[p][d].facts /\ Touches(p, d)
      BY <1>0, <1>4, <2>1, <3>1 DEF WriteMarker, Touches, OtherRowsStay
    <3>3. QED BY <1>0, <1>4, <3>1, <3>2, SameRow DEF WriteMarker, At
  <2>2. CASE ~staged[p]
    <3>1. drv'[p][d].at = "idle" /\ Touches(p, d)
      BY <1>0, <1>4, <2>2, DriverEffects DEF WriteMarker, Touches, OtherRowsStay
    <3>2. QED BY <1>0, <1>4, <2>2, <3>1, SameRow DEF WriteMarker, Recorded
  <2>3. QED BY <2>1, <2>2
<1>5. CASE RecordPrepared(p, d)
  <2>1. Touches(p, d)
    BY <1>0, <1>5, PreparedEffects DEF RecordPrepared, Touches
  <2>2. Recorded(p)' = Recorded(p) /\ UNCHANGED marker[p]
    BY <1>5 DEF RecordPrepared, Recorded
  <2>3. FactsAreBuilt'
    BY <1>0, <1>5, <2>1, <2>2, PreparedEffects, BuiltAt
       DEF RecordPrepared, At, BuiltInv, FactsAreBuilt, Status
  <2>4. RowsKeepPace'
    BY <1>0, <1>5, <2>1, PreparedEffects, PaceAt DEF BuiltInv, RowsKeepPace, Open, Final, Status
  <2>5. QED BY <2>3, <2>4
<1>6. CASE RunChecks(p, d)
  <2>1. drv'[p][d].at \in {"passed", "rejected", "idle"} /\ OtherDriversStay(p, d)
    BY <1>0, <1>6, DriverEffects DEF RunChecks
  <2>2. QED BY <1>0, <1>6, <2>1, SameRow DEF RunChecks, Touches, OtherRowsStay, Recorded
<1>7. CASE \/ RecordRefused(p, d) \/ RecordVerified(p, d) \/ RecordRejected(p, d)
           \/ CommitApplying(p, d) \/ RecordChanged(p, d)
  BY <1>7, NewStatus DEF RecordRefused, RecordVerified, RecordRejected, CommitApplying,
                         RecordChanged, Open, Past, Final, Statuses
<1>8. CASE \/ ReadReceipt(p, d) \/ LoseSwap(p, d) \/ ReadTarget(p, d) \/ Quiescent(p, d)
           \/ SwapTarget(p, d)
  <2>1. /\ drv'[p][d].at \in {"applied", "swapping", "lost", "changed", "idle"}
        /\ OtherDriversStay(p, d)
    BY <1>0, <1>8, DriverEffects DEF ReadReceipt, LoseSwap, ReadTarget, Quiescent, SwapTarget
  <2>2. UNCHANGED <<row, marker>>
    BY <1>8 DEF ReadReceipt, LoseSwap, ReadTarget, Quiescent, SwapTarget
  <2>3. QED BY <1>0, <2>1, <2>2, SameRow DEF Touches, OtherRowsStay, Recorded
<1>9. CASE RecordApplied(p, d)
  <2>1. CASE Status(p) = "succeeded"
    <3>1. drv'[p][d].at = "next" /\ Touches(p, d) /\ UNCHANGED row
      BY <1>0, <1>9, <2>1, DriverEffects DEF RecordApplied, Touches, OtherRowsStay
    <3>2. QED BY <1>0, <1>9, <3>1, SameRow DEF RecordApplied, Recorded
  <2>2. CASE Status(p) # "succeeded"
    BY <1>9, <2>2, NewStatus DEF RecordApplied, Open, Past, Final, Statuses
  <2>3. QED BY <2>1, <2>2
<1>10. CASE Release(p, d)
  <2>1. drv'[p][d].at = "removed" /\ OtherDriversStay(p, d)
    BY <1>0, <1>10, DriverEffects DEF Release
  <2>2. marker'[p] = NoFacts /\ Touches(p, d)
    BY <1>0, <1>10, <2>1 DEF Release, Touches, OtherRowsStay
  <2>3. QED BY <1>10, <2>1, <2>2, SameRow DEF Release, Terminal, Recorded
<1>11. CASE RecordReleased(p, d)
  <2>1. drv'[p][d].at = "idle" /\ OtherDriversStay(p, d)
    BY <1>0, <1>11, DriverEffects DEF RecordReleased
  <2>2. /\ row'[p].status = row[p].status /\ row'[p].facts = row[p].facts
        /\ row'[p].cleanup = "released" /\ OtherRowsStay(p)
    BY <1>0, <1>11 DEF RecordReleased, PubShape, Rows, OtherRowsStay
  <2>3. Touches(p, d) /\ Recorded(p)' = Recorded(p) /\ UNCHANGED marker[p]
    BY <1>11, <2>1, <2>2 DEF RecordReleased, Touches, Recorded
  <2>4. FactsAreBuilt'
    BY <1>0, <2>1, <2>2, <2>3, BuiltAt DEF BuiltInv, FactsAreBuilt, Status
  <2>5. Status(p) \in Final
    BY <1>11 DEF BuiltInv, RowsKeepPace, RecordReleased, At
  <2>6. RowsKeepPace'
    BY <2>1, <2>2, <2>3, <2>5, PaceAt DEF BuiltInv, Status
  <2>7. QED BY <2>4, <2>6
<1>12. QED
  BY <1>1, <1>2, <1>3, <1>4, <1>5, <1>6, <1>7, <1>8, <1>9, <1>10, <1>11
     DEF DriverStep, Prepares

LEMMA BuiltOfDecision ==
  ASSUME BuiltInv, NEW p \in Publications,
         Request(p) \/ Cancel(p) \/ \E d \in Drivers : Publish(p, d)
  PROVE  (FactsAreBuilt /\ RowsKeepPace)'
<1>0. PubShape /\ row \in [Publications -> Rows] /\ row[p] \in Rows
  BY DEF BuiltInv, PubShape
<1>1. CASE Request(p) \/ Cancel(p)
  <2>1. PICK to \in {"asked", "declined"} :
             Moved(p, to) /\ Status(p) \in {"absent", "asked"} /\ UNCHANGED <<marker, drv>>
    BY <1>1 DEF Request, Cancel
  <2>2. QED
    BY <1>0, <2>1, RowEffects DEF BuiltInv, FactsAreBuilt, RowsKeepPace, OtherRowsStay, Status,
       Past, Open, Final, Recorded
<1>2. ASSUME NEW d \in Drivers, Publish(p, d) PROVE (FactsAreBuilt /\ RowsKeepPace)'
  <2>1. /\ row'[p] = [row[p] EXCEPT !.status = "requested", !.cleanup = "pending"]
        /\ OtherRowsStay(p)
    BY <1>0, <1>2 DEF Publish, OtherRowsStay
  <2>2. row'[p].status = "requested" /\ row'[p].cleanup = "pending"
    BY <1>0, <2>1 DEF Rows
  <2>3. Goes(p, d, "next") /\ Status(p) = "asked" /\ UNCHANGED marker
    BY <1>2 DEF Publish, Goes
  <2>4. drv'[p][d].at = "next" /\ Touches(p, d)
    BY <1>0, <2>1, <2>3, DriverEffects DEF Touches
  <2>5. FactsAreBuilt'
    BY <2>2, <2>3, <2>4, BuiltAt DEF BuiltInv, FactsAreBuilt, Status, Past, Recorded
  <2>6. RowsKeepPace'
    BY <2>2, <2>3, <2>4, PaceAt DEF BuiltInv, Status, Open, Final
  <2>7. QED BY <2>5, <2>6
<1>3. QED BY <1>1, <1>2

LEMMA BuiltOfWorld ==
  ASSUME BuiltInv,
         \/ UNCHANGED vars \/ Crash \/ Boot \/ OperatorCommits \/ OperatorResets
         \/ \E p \in Publications :
              \/ DamageMarker(p)
              \/ \E d \in Drivers : Unavailable(p, d) \/ Retry(p, d)
  PROVE  (FactsAreBuilt /\ RowsKeepPace)'
<1>1. CASE UNCHANGED vars \/ OperatorCommits \/ OperatorResets
  BY <1>1 DEF vars, OperatorCommits, OperatorResets, BuiltInv, FactsAreBuilt, RowsKeepPace,
     Status, Recorded
<1>2. CASE Crash \/ Boot
  <2>1. /\ UNCHANGED <<row, marker>>
        /\ \A q \in Publications, e \in Drivers : drv'[q][e].at \in {"idle", "next"}
    BY <1>2 DEF Crash, Boot, IdleDriver
  <2>2. QED BY <2>1 DEF BuiltInv, FactsAreBuilt, RowsKeepPace, Status, Recorded
<1>3. ASSUME NEW p \in Publications, DamageMarker(p) PROVE (FactsAreBuilt /\ RowsKeepPace)'
  <2>1. /\ marker'[p] = Damaged /\ UNCHANGED <<row, drv>>
        /\ \A q \in Publications \ {p} : marker'[q] = marker[q]
    BY <1>3 DEF DamageMarker, BuiltInv, PubShape
  <2>2. QED BY <2>1 DEF BuiltInv, FactsAreBuilt, RowsKeepPace, Status, Recorded
<1>4. ASSUME NEW p \in Publications, NEW d \in Drivers, Unavailable(p, d) \/ Retry(p, d)
      PROVE  (FactsAreBuilt /\ RowsKeepPace)'
  <2>1. PubShape /\ UNCHANGED <<row, marker>>
    BY <1>4 DEF BuiltInv, Unavailable, Retry
  <2>2. drv'[p][d].at \in {"idle", "next"} /\ Touches(p, d)
    BY <1>4, <2>1, DriverEffects DEF Unavailable, Retry, Touches, OtherRowsStay
  <2>3. QED BY <2>1, <2>2, SameRow DEF BuiltInv, FactsAreBuilt, Recorded
<1>5. QED BY <1>1, <1>2, <1>3, <1>4

\* Every prepared fact extends what the Target held when it was read, in the row, in
\* the directory and in the hands of any number of drivers.
THEOREM BuiltHolds == Spec => []BuiltInv
<1>1. BuiltInv /\ [Next]_vars => BuiltInv'
  BY ShapeOfStep, BuiltOfDriver, BuiltOfDecision, BuiltOfWorld DEF BuiltInv, Next
<1>2. QED BY BuiltOfInit, <1>1, PTL DEF Spec

\* Behind its prepared boundary a row names a candidate.
LEMMA CandidateExists ==
  ASSUME BuiltInv, NEW p \in Publications, Status(p) \in Past
  PROVE  row[p].facts.candidate # Base
<1>1. row[p].facts.candidate = Append(row[p].facts.before, RunOf[p])
  BY DEF BuiltInv, FactsAreBuilt, Built
<1>2. row[p].facts.before \in Seq(Runs \cup {Operator})
  BY DEF BuiltInv, PubShape, Rows, Facts, Commits
<1>3. QED BY <1>1, <1>2 DEF Base

\* The type invariant holds for any number of Publications, drivers and commits.
THEOREM PubTypeCorrect == Spec => []PubTypeOK
<1>1. BuiltInv => PubTypeOK
  <2> SUFFICES ASSUME BuiltInv, NEW p \in Publications, Status(p) \in Past
               PROVE  row[p].facts # NoFacts
    BY DEF PubTypeOK, RowComplete, BuiltInv, RowsKeepPace
  <2>1. QED BY CandidateExists DEF NoFacts
<1>2. QED BY BuiltHolds, <1>1, PTL

-----------------------------------------------------------------------------
(***************************************************************************)
(* Proofs about what reaches the Target and what is reported of it, on the *)
(* invariant above.                                                        *)
(***************************************************************************)

\* What a step may touch beside the row, the drivers and the directory of p.
Confined(p, d) ==
  /\ OtherRowsStay(p) /\ OtherDriversStay(p, d)
  /\ \A q \in Publications \ {p} : passed'[q] = passed[q] /\ receipt'[q] = receipt[q]

LEMMA PassedEffects ==
  ASSUME PubShape, NEW p \in Publications
  PROVE  /\ \A value : passed' = [passed EXCEPT ![p] = value] =>
              passed'[p] = value /\ \A q \in Publications \ {p} : passed'[q] = passed[q]
         /\ \A value : receipt' = [receipt EXCEPT ![p] = value] =>
              receipt'[p] = value /\ \A q \in Publications \ {p} : receipt'[q] = receipt[q]
BY DEF PubShape

(***************************************************************************)
(* The driver's steps, by what they do to the answer it holds.             *)
(***************************************************************************)
\* Behind the commitment the row can only end.
Committed == {"applying", "succeeded", "failed"}
AtTarget == {"swapping", "lost", "changed", "applied"}

\* Steps that leave the rows alone and hold no answer about the Target or the criteria.
Quiet(p, d) ==
  /\ Confined(p, d) /\ UNCHANGED <<row, passed, receipt, target>>
  /\ drv'[p][d].at \notin AtTarget \cup {"passed"}

LEMMA QuietSteps ==
  ASSUME PubShape, NEW p \in Publications, NEW d \in Drivers,
         \/ Prepares(p, d) \/ Release(p, d) \/ Quiescent(p, d)
         \/ Unavailable(p, d) \/ Retry(p, d)
         \/ RecordApplied(p, d) /\ Status(p) = "succeeded"
  PROVE  Quiet(p, d)
<1> USE DEF Quiet, Confined, AtTarget, OtherRowsStay
<1>1. CASE ReplayPrepared(p, d)
  <2>1. drv'[p][d] = [at |-> "staged", facts |-> marker[p]] /\ OtherDriversStay(p, d)
    BY <1>1 DEF ReplayPrepared, PubShape, OtherDriversStay
  <2>2. QED BY <1>1, <2>1 DEF ReplayPrepared
<1>2. CASE BuildCandidate(p, d)
  <2>1. drv'[p][d] = [at |-> "building", facts |-> Candidate(p)] /\ OtherDriversStay(p, d)
    BY <1>2 DEF BuildCandidate, PubShape, OtherDriversStay
  <2>2. QED BY <1>2, <2>1 DEF BuildCandidate
<1>3. CASE RefuseCandidate(p, d) \/ WriteMarker(p, d)
  BY <1>3, DriverEffects DEF RefuseCandidate, WriteMarker
<1>4. CASE Release(p, d) \/ Quiescent(p, d) \/ Unavailable(p, d) \/ Retry(p, d)
  BY <1>4, DriverEffects DEF Release, Quiescent, Unavailable, Retry
<1>5. CASE RecordApplied(p, d) /\ Status(p) = "succeeded"
  BY <1>5, DriverEffects DEF RecordApplied
<1>6. QED BY <1>1, <1>2, <1>3, <1>4, <1>5 DEF Prepares

\* Steps that record an answer.
Answers(p, d) ==
  \/ RecordRefused(p, d) \/ RecordVerified(p, d) \/ RecordRejected(p, d)
  \/ CommitApplying(p, d) \/ RecordChanged(p, d)
  \/ RecordApplied(p, d) /\ Status(p) # "succeeded"

LEMMA AnswerSteps ==
  ASSUME PubShape, NEW p \in Publications, NEW d \in Drivers, Answers(p, d)
  PROVE  /\ Confined(p, d) /\ UNCHANGED <<passed, receipt, target>>
         /\ drv'[p][d].at \notin AtTarget \cup {"passed"}
         /\ row'[p].facts = row[p].facts
         /\ \/ Status(p)' = Status(p)
            \/ /\ Status(p) = "requested" /\ Status(p)' = "failed"
               /\ drv[p][d].at = "refused"
            \/ /\ Status(p) = "prepared" /\ Status(p)' = "verified"
               /\ drv[p][d].at = "passed" \/ p \notin Checked
            \/ /\ Status(p) = "prepared" /\ Status(p)' = "failed"
               /\ drv[p][d].at = "rejected"
            \/ Status(p) = "verified" /\ Status(p)' = "applying"
            \/ /\ Status(p) = "applying" /\ Status(p)' = "succeeded"
               /\ drv[p][d].at = "applied"
            \/ /\ Status(p) = "applying" /\ Status(p)' = "failed"
               /\ drv[p][d].at = "changed"
<1> USE DEF Confined, AtTarget, At, Starts
<1>1. CASE RecordRefused(p, d)
  BY <1>1, RecordsEffects DEF RecordRefused
<1>2. CASE RecordVerified(p, d)
  BY <1>2, RecordsEffects DEF RecordVerified
<1>3. CASE RecordRejected(p, d)
  BY <1>3, RecordsEffects DEF RecordRejected
<1>4. CASE CommitApplying(p, d)
  BY <1>4, RecordsEffects DEF CommitApplying
<1>5. CASE RecordChanged(p, d)
  BY <1>5, RecordsEffects DEF RecordChanged
<1>6. CASE RecordApplied(p, d) /\ Status(p) # "succeeded"
  BY <1>6, RecordsEffects DEF RecordApplied
<1>7. QED BY <1>1, <1>2, <1>3, <1>4, <1>5, <1>6 DEF Answers

LEMMA PreparedStep ==
  ASSUME PubShape, NEW p \in Publications, NEW d \in Drivers, RecordPrepared(p, d)
  PROVE  /\ Confined(p, d) /\ UNCHANGED <<passed, receipt, target>>
         /\ drv'[p][d].at \notin AtTarget \cup {"passed"}
         /\ \/ Status(p) = "requested" /\ Status(p)' = "prepared"
            \/ row'[p] = row[p]
BY PreparedEffects DEF RecordPrepared, Confined, AtTarget

LEMMA ReleasedStep ==
  ASSUME PubShape, NEW p \in Publications, NEW d \in Drivers, RecordReleased(p, d)
  PROVE  /\ Confined(p, d) /\ UNCHANGED <<passed, receipt, target>>
         /\ drv'[p][d].at \notin AtTarget \cup {"passed"}
         /\ row'[p].facts = row[p].facts /\ Status(p)' = Status(p)
<1>1. row \in [Publications -> Rows] /\ row[p] \in Rows
  BY DEF PubShape
<1>2. row'[p].facts = row[p].facts /\ row'[p].status = row[p].status /\ OtherRowsStay(p)
  BY <1>1 DEF RecordReleased, Rows, OtherRowsStay
<1>3. QED
  BY <1>2, DriverEffects DEF RecordReleased, Confined, AtTarget, Status

\* The steps of applyStep that only read.
Reads(p, d) == ReadReceipt(p, d) \/ LoseSwap(p, d) \/ ReadTarget(p, d)

LEMMA ReadSteps ==
  ASSUME PubShape, NEW p \in Publications, NEW d \in Drivers, Reads(p, d)
  PROVE  /\ Confined(p, d) /\ UNCHANGED <<row, passed, receipt, target>>
         /\ \/ drv'[p][d].at = "idle"
            \/ /\ Status(p) = "applying" /\ receipt[p] = Base /\ drv'[p][d].at = "swapping"
            \/ /\ Status(p) = "applying" /\ receipt[p] # Base /\ drv'[p][d].at = "applied"
            \/ /\ drv[p][d].at \in {"swapping", "lost"}
               /\ drv'[p][d].at \in {"lost", "changed"}
<1> USE DEF Confined, OtherRowsStay, At, Starts
<1>1. CASE ReadReceipt(p, d)
  BY <1>1, DriverEffects DEF ReadReceipt
<1>2. CASE LoseSwap(p, d)
  BY <1>2, DriverEffects DEF LoseSwap
<1>3. CASE ReadTarget(p, d)
  BY <1>3, DriverEffects DEF ReadTarget
<1>4. QED BY <1>1, <1>2, <1>3 DEF Reads

LEMMA SwapStep ==
  ASSUME BuiltInv, NEW p \in Publications, NEW d \in Drivers, SwapTarget(p, d)
  PROVE  /\ Confined(p, d) /\ UNCHANGED <<row, passed>>
         /\ drv[p][d].at = "swapping" /\ drv'[p][d].at = "applied"
         /\ receipt[p] = Base /\ receipt'[p] = row[p].facts.candidate
         /\ Status(p) \in Past =>
              /\ receipt'[p] # Base
              /\ target' = Append(target, RunOf[p])
<1>1. PubShape
  BY DEF BuiltInv
<1>2. /\ Confined(p, d) /\ UNCHANGED <<row, passed>>
      /\ drv[p][d].at = "swapping" /\ drv'[p][d].at = "applied"
      /\ receipt[p] = Base /\ receipt'[p] = row[p].facts.candidate
  <2>1. /\ receipt'[p] = row[p].facts.candidate
        /\ \A q \in Publications \ {p} : receipt'[q] = receipt[q]
    BY <1>1 DEF SwapTarget, PubShape
  <2>2. drv'[p][d].at = "applied" /\ OtherDriversStay(p, d)
    BY <1>1, DriverEffects DEF SwapTarget
  <2>3. QED
    BY <2>1, <2>2 DEF SwapTarget, TransactionCommits, At, Confined, OtherRowsStay
<1>3. ASSUME Status(p) \in Past
      PROVE  receipt'[p] # Base /\ target' = Append(target, RunOf[p])
  <2>1. row[p].facts.candidate = Append(row[p].facts.before, RunOf[p])
    BY <1>3 DEF BuiltInv, FactsAreBuilt, Built
  <2>2. target \in Seq(Runs \cup {Operator}) /\ target = row[p].facts.before
    BY <1>1 DEF SwapTarget, TransactionCommits, PubShape, Commits
  <2>3. Append(target, RunOf[p]) # <<>>
    BY <2>2
  <2>4. QED BY <1>2, <2>1, <2>2, <2>3 DEF SwapTarget, Base
<1>4. QED BY <1>2, <1>3

LEMMA ChecksStep ==
  ASSUME PubShape, NEW p \in Publications, NEW d \in Drivers, RunChecks(p, d)
  PROVE  /\ Confined(p, d) /\ UNCHANGED <<row, receipt, target>> /\ Status(p) = "prepared"
         /\ drv'[p][d].at \notin AtTarget
         /\ \/ passed'[p] = row[p].facts.candidate
            \/ UNCHANGED passed /\ drv'[p][d].at # "passed"
<1> USE DEF Confined, AtTarget, OtherRowsStay
<1>1. CASE drv[p][d].facts = row[p].facts /\ Goes(p, d, "passed")
  BY <1>1, DriverEffects, PassedEffects DEF RunChecks
<1>2. CASE Goes(p, d, "rejected") /\ UNCHANGED passed
  BY <1>2, DriverEffects DEF RunChecks
<1>3. CASE Stops(p, d) /\ UNCHANGED passed
  BY <1>3, DriverEffects DEF RunChecks
<1>4. QED BY <1>1, <1>2, <1>3 DEF RunChecks

\* Every step of a driver is one of these.
LEMMA DriverCases ==
  ASSUME NEW p \in Publications, NEW d \in Drivers, DriverStep(p, d)
  PROVE  \/ Prepares(p, d) \/ Release(p, d) \/ Quiescent(p, d)
         \/ RecordApplied(p, d) /\ Status(p) = "succeeded"
         \/ Answers(p, d) \/ RecordPrepared(p, d) \/ RecordReleased(p, d)
         \/ Reads(p, d) \/ SwapTarget(p, d) \/ RunChecks(p, d)
BY DEF DriverStep, Answers, Reads

-----------------------------------------------------------------------------
(***************************************************************************)
(* What reaches the Target passed the criteria, for any number of drivers. *)
(***************************************************************************)
IsChecked(p) == passed[p] = row[p].facts.candidate

\* Of one Publication: its receipt names the candidate of the row, and behind
\* verification the criteria passed on it.
CheckedAt(p) ==
  /\ receipt[p] # Base => Status(p) \in Committed /\ receipt[p] = row[p].facts.candidate
  /\ \A d \in Drivers :
       /\ drv[p][d].at \in AtTarget => Status(p) \in Committed
       /\ drv[p][d].at = "passed" => Status(p) \in Past \cup Final
  /\ p \in Checked =>
       /\ Status(p) \in {"verified", "applying", "succeeded"} => IsChecked(p)
       /\ receipt[p] # Base => IsChecked(p)
       /\ \A d \in Drivers :
            /\ drv[p][d].at = "passed" /\ Status(p) = "prepared" => IsChecked(p)
            /\ drv[p][d].at = "swapping" => IsChecked(p)

CheckedInv == BuiltInv /\ \A p \in Publications : CheckedAt(p)

LEMMA CheckedElsewhere ==
  ASSUME NEW p \in Publications, NEW d \in Drivers, Confined(p, d),
         NEW q \in Publications \ {p}, CheckedAt(q)
  PROVE  CheckedAt(q)'
BY DEF Confined, OtherRowsStay, OtherDriversStay, CheckedAt, IsChecked, Status

LEMMA CheckedHere ==
  ASSUME BuiltInv, NEW p \in Publications, NEW d \in Drivers, DriverStep(p, d), CheckedAt(p)
  PROVE  CheckedAt(p)' /\ Confined(p, d)
<1> USE DEF CheckedAt, IsChecked, AtTarget
<1>0. PubShape
  BY DEF BuiltInv
<1>1. CASE Quiet(p, d)
  BY <1>1 DEF Quiet, Confined, OtherDriversStay, Status
<1>2. CASE Answers(p, d)
  BY <1>0, <1>2, AnswerSteps DEF Confined, OtherDriversStay, Committed, Past, Final
<1>3. CASE RecordPrepared(p, d)
  BY <1>0, <1>3, PreparedStep DEF Confined, OtherDriversStay, Committed, Past, Final, Status
<1>4. CASE RecordReleased(p, d)
  BY <1>0, <1>4, ReleasedStep DEF Confined, OtherDriversStay
<1>5. CASE Reads(p, d)
  BY <1>0, <1>5, ReadSteps DEF Confined, OtherDriversStay, Committed, Status
<1>6. CASE SwapTarget(p, d)
  BY <1>0, <1>6, SwapStep DEF Confined, OtherDriversStay, Committed, Status
<1>7. CASE RunChecks(p, d)
  BY <1>0, <1>7, ChecksStep DEF Confined, OtherDriversStay, Committed, Past, Status
<1>8. QED
  BY <1>0, <1>1, <1>2, <1>3, <1>4, <1>5, <1>6, <1>7, DriverCases, QuietSteps DEF Quiet

LEMMA CheckedOfWorld ==
  ASSUME BuiltInv, NEW q \in Publications, CheckedAt(q),
         \/ UNCHANGED vars \/ Crash \/ Boot \/ OperatorCommits \/ OperatorResets
         \/ \E p \in Publications : DamageMarker(p)
  PROVE  CheckedAt(q)'
<1>1. UNCHANGED <<row, passed, receipt>>
  BY DEF vars, Crash, Boot, OperatorCommits, OperatorResets, DamageMarker
<1>2. \/ UNCHANGED drv
      \/ \A e \in Drivers : drv'[q][e].at \in {"idle", "next"}
  BY DEF vars, Crash, Boot, OperatorCommits, OperatorResets, DamageMarker, IdleDriver
<1>3. QED BY <1>1, <1>2 DEF CheckedAt, IsChecked, AtTarget, Status

LEMMA DecisionSteps ==
  ASSUME PubShape, NEW p \in Publications,
         Request(p) \/ Cancel(p) \/ \E d \in Drivers : Publish(p, d)
  PROVE  /\ UNCHANGED <<passed, receipt, target>> /\ OtherRowsStay(p)
         /\ \/ /\ Status(p) = "absent" /\ Status(p)' = "asked"
            \/ /\ Status(p) = "asked" /\ Status(p)' = "declined"
            \/ /\ Status(p) = "asked" /\ Status(p)' = "requested" /\ Publishable(RunOf[p])
         /\ \A q \in Publications, e \in Drivers :
              drv'[q][e].at = drv[q][e].at \/ drv'[q][e].at = "next"
<1>0. row \in [Publications -> Rows] /\ row[p] \in Rows
  BY DEF PubShape
<1>1. CASE Request(p)
  BY <1>1, RowEffects DEF Request, Status
<1>2. CASE Cancel(p)
  BY <1>2, RowEffects DEF Cancel, Status
<1>3. ASSUME NEW d \in Drivers, Publish(p, d)
      PROVE  /\ OtherRowsStay(p) /\ Status(p)' = "requested"
             /\ \A q \in Publications, e \in Drivers :
                  drv'[q][e].at = drv[q][e].at \/ drv'[q][e].at = "next"
  <2>1. /\ row'[p] = [row[p] EXCEPT !.status = "requested", !.cleanup = "pending"]
        /\ OtherRowsStay(p)
    BY <1>0, <1>3 DEF Publish, OtherRowsStay
  <2>2. row'[p].status = "requested"
    BY <1>0, <2>1 DEF Rows
  <2>3. Goes(p, d, "next")
    BY <1>3 DEF Publish, Goes
  <2>4. drv'[p][d].at = "next" /\ OtherDriversStay(p, d)
    BY <2>3, DriverEffects
  <2>5. QED BY <2>1, <2>2, <2>4 DEF OtherDriversStay, Status
<1>4. QED BY <1>1, <1>2, <1>3 DEF Publish

LEMMA CheckedOfDecision ==
  ASSUME PubShape, NEW p \in Publications, NEW q \in Publications, CheckedAt(q),
         Request(p) \/ Cancel(p) \/ \E d \in Drivers : Publish(p, d)
  PROVE  CheckedAt(q)'
<1>1. CASE q = p
  BY <1>1, DecisionSteps DEF CheckedAt, IsChecked, Committed, AtTarget, Past, Final
<1>2. CASE q # p
  BY <1>2, DecisionSteps DEF CheckedAt, IsChecked, AtTarget, Status, OtherRowsStay
<1>3. QED BY <1>1, <1>2

LEMMA CheckedHolds == Spec => []CheckedInv
<1>1. Init => \A p \in Publications : CheckedAt(p)
  <2> SUFFICES ASSUME Init, NEW p \in Publications PROVE CheckedAt(p)
    OBVIOUS
  <2>1. Status(p) = "absent" /\ receipt[p] = Base /\ \A d \in Drivers : drv[p][d].at = "idle"
    BY DEF Init, Status, NewRow, IdleDriver
  <2>2. QED BY <2>1 DEF CheckedAt, AtTarget
<1>2. CheckedInv /\ BuiltInv' /\ [Next]_vars => CheckedInv'
  <2> SUFFICES ASSUME CheckedInv, [Next]_vars, NEW q \in Publications PROVE CheckedAt(q)'
    BY DEF CheckedInv
  <2>0. BuiltInv /\ PubShape /\ CheckedAt(q)
    BY DEF CheckedInv, BuiltInv
  <2>1. ASSUME NEW p \in Publications, NEW d \in Drivers, DriverStep(p, d)
        PROVE  CheckedAt(q)'
    BY <2>0, <2>1, CheckedHere, CheckedElsewhere DEF CheckedInv
  <2>2. ASSUME NEW p \in Publications, NEW d \in Drivers,
               Unavailable(p, d) \/ Retry(p, d)
        PROVE  CheckedAt(q)'
    <3>1. Quiet(p, d)
      BY <2>0, <2>2, QuietSteps
    <3>2. QED
      BY <2>0, <3>1 DEF Quiet, Confined, OtherDriversStay, CheckedAt, IsChecked, AtTarget, Status
  <2>3. QED
    BY <2>0, <2>1, <2>2, CheckedOfWorld, CheckedOfDecision DEF Next
<1>3. Init => CheckedInv
  BY <1>1, BuiltOfInit DEF CheckedInv
<1>4. QED BY <1>2, <1>3, BuiltHolds, PTL DEF Spec

\* What reaches the Target of a checked Publication is the candidate its criteria
\* passed on, whatever is damaged, lost or repeated and however many drivers there are.
THEOREM CheckedIsAppliedHolds == Spec => []CheckedIsApplied
<1>1. CheckedInv => CheckedIsApplied
  <2> SUFFICES ASSUME CheckedInv, NEW p \in Checked, receipt[p] # Base
               PROVE  receipt[p] = passed[p]
    BY DEF CheckedIsApplied
  <2>1. p \in Publications
    BY PublicationAssumption
  <2>2. QED BY <2>1 DEF CheckedInv, CheckedAt, IsChecked
<1>2. QED BY <1>1, CheckedHolds, PTL

-----------------------------------------------------------------------------
(***************************************************************************)
(* A success is real, for any number of drivers.  A failure may be wrong   *)
(* when several processes drive one Publication; a success never is.       *)
(***************************************************************************)
\* The Publications that assertPublishable counts (publications.ts).
Engaged(p) == Status(p) \in Open \cup {"succeeded"}

\* A Publication that was reported as succeeded changed the Target: its receipt names
\* the candidate its row recorded, the Run's result on what the Target held, and no
\* other Publication of the Run is under way or succeeded (publication.ts applyStep,
\* publications.ts assertPublishable).
SuccessIsReal ==
  \A p \in Publications : Status(p) = "succeeded" =>
    /\ receipt[p] = row[p].facts.candidate
    /\ receipt[p] = Append(row[p].facts.before, RunOf[p])
    /\ \A q \in Of(RunOf[p]) \ {p} : ~Engaged(q)

\* Of one Publication: a driver that answers for the Target holds a candidate, one that
\* records a success has its receipt, and so has a success.
RealAt(p) ==
  /\ \A d \in Drivers :
       /\ drv[p][d].at \in AtTarget => row[p].facts.candidate # Base
       /\ drv[p][d].at = "applied" => receipt[p] # Base
  /\ Status(p) = "succeeded" => receipt[p] # Base

AloneAt(p) == Engaged(p) => \A q \in Of(RunOf[p]) \ {p} : ~Engaged(q)

RealInv == \A p \in Publications : RealAt(p) /\ AloneAt(p)

LEMMA RealHere ==
  ASSUME CheckedInv, NEW p \in Publications, NEW d \in Drivers, DriverStep(p, d), RealAt(p)
  PROVE  RealAt(p)' /\ Confined(p, d) /\ (Engaged(p)' => Engaged(p))
<1> USE DEF RealAt, AtTarget, Engaged, Open
<1>0. PubShape /\ BuiltInv /\ CheckedAt(p)
  BY DEF CheckedInv, BuiltInv
<1>1. CASE Quiet(p, d)
  BY <1>1 DEF Quiet, Confined, OtherDriversStay, Status
<1>2. CASE Answers(p, d)
  BY <1>0, <1>2, AnswerSteps DEF Confined, OtherDriversStay
<1>3. CASE RecordPrepared(p, d)
  BY <1>0, <1>3, PreparedStep DEF Confined, OtherDriversStay, CheckedAt, Committed, Status
<1>4. CASE RecordReleased(p, d)
  BY <1>0, <1>4, ReleasedStep DEF Confined, OtherDriversStay
<1>5. CASE Reads(p, d)
  <2>1. Status(p) = "applying" => row[p].facts.candidate # Base
    BY <1>0, CandidateExists DEF Past
  <2>2. QED BY <1>0, <1>5, <2>1, ReadSteps DEF Confined, OtherDriversStay, Status
<1>6. CASE SwapTarget(p, d)
  BY <1>0, <1>6, SwapStep DEF Confined, OtherDriversStay, Status
<1>7. CASE RunChecks(p, d)
  BY <1>0, <1>7, ChecksStep DEF Confined, OtherDriversStay, Status
<1>8. QED
  BY <1>0, <1>1, <1>2, <1>3, <1>4, <1>5, <1>6, <1>7, DriverCases, QuietSteps DEF Quiet

LEMMA RealElsewhere ==
  ASSUME NEW p \in Publications, NEW d \in Drivers, Confined(p, d),
         NEW q \in Publications \ {p}, RealAt(q)
  PROVE  RealAt(q)'
BY DEF Confined, OtherRowsStay, OtherDriversStay, RealAt, AtTarget, Status

\* No step but Publish engages a Publication, and it finds the Run's others disengaged.
LEMMA AloneOfStep ==
  ASSUME \A p \in Publications : AloneAt(p),
         NEW p \in Publications, \A q \in Publications \ {p} : Status(q)' = Status(q),
         Engaged(p)' => Engaged(p) \/ Publishable(RunOf[p])
  PROVE  \A q \in Publications : AloneAt(q)'
<1> SUFFICES ASSUME NEW q \in Publications, Engaged(q)',
                    NEW o \in Of(RunOf[q]) \ {q}
             PROVE  ~Engaged(o)'
  BY DEF AloneAt
<1>1. o \in Publications /\ RunOf[o] = RunOf[q] /\ q \in Of(RunOf[o])
  BY DEF Of
<1>2. \A r \in Publications \ {p} : Engaged(r)' = Engaged(r)
  BY DEF Engaged
<1>3. CASE q = p
  BY <1>1, <1>2, <1>3 DEF AloneAt, Publishable, Engaged
<1>4. CASE o = p
  BY <1>1, <1>2, <1>4 DEF AloneAt, Publishable, Engaged
<1>5. CASE q # p /\ o # p
  BY <1>1, <1>2, <1>5 DEF AloneAt
<1>6. QED BY <1>3, <1>4, <1>5

LEMMA RealOfInit == Init => RealInv
<1> SUFFICES ASSUME Init, NEW p \in Publications PROVE RealAt(p) /\ AloneAt(p)
  BY DEF RealInv
<1>1. Status(p) = "absent" /\ \A d \in Drivers : drv[p][d].at = "idle"
  BY DEF Init, Status, NewRow, IdleDriver
<1>2. QED BY <1>1 DEF RealAt, AloneAt, AtTarget, Engaged, Open

LEMMA RealOfStep ==
  ASSUME CheckedInv, RealInv, [Next]_vars
  PROVE  RealInv'
<1>0. PubShape
  BY DEF CheckedInv, BuiltInv
<1>1. ASSUME NEW p \in Publications, NEW d \in Drivers, DriverStep(p, d)
      PROVE  RealInv'
  <2>1. RealAt(p)' /\ Confined(p, d) /\ (Engaged(p)' => Engaged(p))
    BY <1>1, RealHere DEF RealInv
  <2>2. \A q \in Publications \ {p} : RealAt(q)'
    BY <2>1, RealElsewhere DEF RealInv
  <2>3. \A q \in Publications : AloneAt(q)'
    <3>1. \A q \in Publications \ {p} : Status(q)' = Status(q)
      BY <2>1 DEF Confined, OtherRowsStay, Status
    <3>2. QED BY <2>1, <3>1, AloneOfStep DEF RealInv
  <2>4. QED BY <2>1, <2>2, <2>3 DEF RealInv
<1>2. ASSUME NEW p \in Publications, NEW d \in Drivers, Unavailable(p, d) \/ Retry(p, d)
      PROVE  RealInv'
  <2>1. Quiet(p, d)
    BY <1>0, <1>2, QuietSteps
  <2>2. QED
    BY <2>1 DEF Quiet, Confined, OtherDriversStay, RealInv, RealAt, AloneAt, Engaged, AtTarget,
       Status
<1>3. ASSUME NEW p \in Publications,
             Request(p) \/ Cancel(p) \/ \E d \in Drivers : Publish(p, d)
      PROVE  RealInv'
  <2>1. /\ UNCHANGED receipt /\ OtherRowsStay(p)
        /\ \A q \in Publications, e \in Drivers :
             drv'[q][e].at = drv[q][e].at \/ drv'[q][e].at = "next"
        /\ Status(p) \in {"absent", "asked"} /\ Status(p)' \in {"asked", "declined", "requested"}
        /\ Status(p)' = "requested" => Publishable(RunOf[p])
    BY <1>0, <1>3, DecisionSteps
  <2>2. \A q \in Publications : AloneAt(q)'
    <3>1. \A q \in Publications \ {p} : Status(q)' = Status(q)
      BY <2>1 DEF OtherRowsStay, Status
    <3>2. Engaged(p)' => Publishable(RunOf[p])
      BY <2>1 DEF Engaged, Open
    <3>3. QED BY <3>1, <3>2, AloneOfStep DEF RealInv
  <2>3. \A d \in Drivers : drv[p][d].at \notin AtTarget
    BY <2>1 DEF CheckedInv, CheckedAt, Committed
  <2>4. \A q \in Publications : RealAt(q)'
    <3> SUFFICES ASSUME NEW q \in Publications PROVE RealAt(q)'
      OBVIOUS
    <3>1. RealAt(q)
      BY DEF RealInv
    <3>2. CASE q = p
      BY <2>1, <2>3, <3>2 DEF RealAt, AtTarget
    <3>3. CASE q # p
      BY <2>1, <3>1, <3>3 DEF RealAt, AtTarget, OtherRowsStay, Status
    <3>4. QED BY <3>2, <3>3
  <2>5. QED BY <2>2, <2>4 DEF RealInv
<1>4. CASE \/ UNCHANGED vars \/ Crash \/ Boot \/ OperatorCommits \/ OperatorResets
           \/ \E p \in Publications : DamageMarker(p)
  <2>1. UNCHANGED <<row, receipt>>
    BY <1>4 DEF vars, Crash, Boot, OperatorCommits, OperatorResets, DamageMarker
  <2>2. \/ UNCHANGED drv
        \/ \A q \in Publications, e \in Drivers : drv'[q][e].at \in {"idle", "next"}
    BY <1>4 DEF vars, Crash, Boot, OperatorCommits, OperatorResets, DamageMarker, IdleDriver
  <2>3. QED BY <2>1, <2>2 DEF RealInv, RealAt, AloneAt, Engaged, AtTarget, Status
<1>5. QED BY <1>1, <1>2, <1>3, <1>4 DEF Next

\* For any number of drivers, crashes, losses and commits of the operator, a
\* Publication that is reported as succeeded did change the Target, by its own
\* candidate, and is its Run's only one.
THEOREM SuccessIsRealHolds == Spec => []SuccessIsReal
<1>1. CheckedInv /\ RealInv => SuccessIsReal
  <2> SUFFICES ASSUME CheckedInv, RealInv, NEW p \in Publications, Status(p) = "succeeded"
               PROVE  /\ receipt[p] = row[p].facts.candidate
                      /\ receipt[p] = Append(row[p].facts.before, RunOf[p])
                      /\ \A q \in Of(RunOf[p]) \ {p} : ~Engaged(q)
    BY DEF SuccessIsReal
  <2>1. receipt[p] = row[p].facts.candidate
    BY DEF CheckedInv, CheckedAt, RealInv, RealAt
  <2>2. Built(p, row[p].facts)
    BY DEF CheckedInv, BuiltInv, FactsAreBuilt, Past
  <2>3. \A q \in Of(RunOf[p]) \ {p} : ~Engaged(q)
    BY DEF RealInv, AloneAt, Engaged
  <2>4. QED BY <2>1, <2>2, <2>3 DEF Built
<1>2. QED BY <1>1, RealOfInit, RealOfStep, CheckedHolds, PTL DEF Spec

-----------------------------------------------------------------------------
(***************************************************************************)
(* One driver: the host runs one drive of a Publication at a time          *)
(* (RunHost.notifyPublication), and one process serves the Workspace.      *)
(* Then what a driver remembers of the Target is still so when it records  *)
(* it.  With two this is lost, and with it every theorem below.            *)
(***************************************************************************)
OneDriver == \A d, e \in Drivers : d = e

CurrentAt(p) ==
  /\ receipt[p] # Base => Status(p) \in {"applying", "succeeded"}
  /\ \A d \in Drivers :
       /\ drv[p][d].at \in {"swapping", "lost", "changed"} =>
            Status(p) = "applying" /\ receipt[p] = Base
       /\ drv[p][d].at = "applied" => Status(p) = "applying" /\ receipt[p] # Base

CurrentInv == BuiltInv /\ \A p \in Publications : CurrentAt(p)

LEMMA CurrentElsewhere ==
  ASSUME NEW p \in Publications, NEW d \in Drivers, Confined(p, d),
         NEW q \in Publications \ {p}, CurrentAt(q)
  PROVE  CurrentAt(q)'
BY DEF Confined, OtherRowsStay, OtherDriversStay, CurrentAt, Status

LEMMA CurrentHere ==
  ASSUME OneDriver, BuiltInv, NEW p \in Publications, NEW d \in Drivers, DriverStep(p, d),
         CurrentAt(p)
  PROVE  CurrentAt(p)' /\ Confined(p, d)
<1> USE DEF CurrentAt, OneDriver, AtTarget
<1>0. PubShape
  BY DEF BuiltInv
<1>1. CASE Quiet(p, d)
  BY <1>1 DEF Quiet, Status
<1>2. CASE Answers(p, d)
  BY <1>0, <1>2, AnswerSteps
<1>3. CASE RecordPrepared(p, d)
  BY <1>0, <1>3, PreparedStep DEF Status
<1>4. CASE RecordReleased(p, d)
  BY <1>0, <1>4, ReleasedStep
<1>5. CASE Reads(p, d)
  BY <1>0, <1>5, ReadSteps DEF Status
<1>6. CASE SwapTarget(p, d)
  BY <1>0, <1>6, SwapStep DEF Past, Status
<1>7. CASE RunChecks(p, d)
  BY <1>0, <1>7, ChecksStep DEF Status
<1>8. QED
  BY <1>0, <1>1, <1>2, <1>3, <1>4, <1>5, <1>6, <1>7, DriverCases, QuietSteps DEF Quiet

LEMMA CurrentOfWorld ==
  ASSUME NEW q \in Publications, CurrentAt(q),
         \/ UNCHANGED vars \/ Crash \/ Boot \/ OperatorCommits \/ OperatorResets
         \/ \E p \in Publications : DamageMarker(p)
  PROVE  CurrentAt(q)'
<1>1. UNCHANGED <<row, receipt>>
  BY DEF vars, Crash, Boot, OperatorCommits, OperatorResets, DamageMarker
<1>2. \/ UNCHANGED drv
      \/ \A e \in Drivers : drv'[q][e].at \in {"idle", "next"}
  BY DEF vars, Crash, Boot, OperatorCommits, OperatorResets, DamageMarker, IdleDriver
<1>3. QED BY <1>1, <1>2 DEF CurrentAt, Status

LEMMA CurrentOfDecision ==
  ASSUME PubShape, NEW p \in Publications, NEW q \in Publications, CurrentAt(q),
         Request(p) \/ Cancel(p) \/ \E d \in Drivers : Publish(p, d)
  PROVE  CurrentAt(q)'
<1>1. CASE q = p
  BY <1>1, DecisionSteps DEF CurrentAt
<1>2. CASE q # p
  BY <1>2, DecisionSteps DEF CurrentAt, Status, OtherRowsStay
<1>3. QED BY <1>1, <1>2

LEMMA CurrentOfInit == Init => CurrentInv
<1> SUFFICES ASSUME Init, NEW p \in Publications PROVE CurrentAt(p)
  BY BuiltOfInit DEF CurrentInv
<1>1. receipt[p] = Base /\ \A d \in Drivers : drv[p][d].at = "idle"
  BY DEF Init, IdleDriver
<1>2. QED BY <1>1 DEF CurrentAt

LEMMA CurrentOfStep ==
  ASSUME OneDriver, CurrentInv, BuiltInv', [Next]_vars
  PROVE  CurrentInv'
<1> SUFFICES ASSUME NEW q \in Publications PROVE CurrentAt(q)'
  BY DEF CurrentInv
<1>0. BuiltInv /\ PubShape /\ CurrentAt(q)
  BY DEF CurrentInv, BuiltInv
<1>1. ASSUME NEW p \in Publications, NEW d \in Drivers, DriverStep(p, d)
      PROVE  CurrentAt(q)'
  BY <1>0, <1>1, CurrentHere, CurrentElsewhere DEF CurrentInv
<1>2. ASSUME NEW p \in Publications, NEW d \in Drivers, Unavailable(p, d) \/ Retry(p, d)
      PROVE  CurrentAt(q)'
  <2>1. Quiet(p, d)
    BY <1>0, <1>2, QuietSteps
  <2>2. QED
    BY <1>0, <2>1 DEF Quiet, Confined, OtherDriversStay, CurrentAt, AtTarget, Status
<1>3. QED
  BY <1>0, <1>1, <1>2, CurrentOfWorld, CurrentOfDecision DEF Next

LEMMA CurrentHolds ==
  ASSUME OneDriver
  PROVE  Spec => []CurrentInv
<1>1. CurrentInv /\ BuiltInv' /\ [Next]_vars => CurrentInv'
  BY CurrentOfStep
<1>2. QED BY <1>1, CurrentOfInit, BuiltHolds, PTL DEF Spec

\* With one driver a failed Publication did not modify the Target, for any number of
\* Publications, crashes and operator commits.
THEOREM FailedMeansUntouchedHolds ==
  ASSUME OneDriver
  PROVE  Spec => []FailedMeansUntouched
<1>1. CurrentInv => FailedMeansUntouched
  BY DEF CurrentInv, CurrentAt, FailedMeansUntouched
<1>2. QED BY <1>1, CurrentHolds, PTL

-----------------------------------------------------------------------------
(***************************************************************************)
(* The refinement: every step is a step of the promise, or none.           *)
(***************************************************************************)
LEMMA PromiseStutters ==
  ASSUME UNCHANGED target, \A p \in Publications : PromisedState(p)' = PromisedState(p)
  PROVE  UNCHANGED Promise!pvars
BY DEF Promise!pvars

LEMMA PromiseBecomes ==
  ASSUME NEW p \in Publications, NEW to, PromisedState(p)' = to,
         \A q \in Publications \ {p} : PromisedState(q)' = PromisedState(q)
  PROVE  Promise!Becomes(p, to)
BY DEF Promise!Becomes

\* What p promises is a function of its row and its receipt.
LEMMA PromisedElsewhere ==
  ASSUME NEW p \in Publications, OtherRowsStay(p),
         \A q \in Publications \ {p} : receipt'[q] = receipt[q]
  PROVE  \A q \in Publications \ {p} : PromisedState(q)' = PromisedState(q)
BY DEF OtherRowsStay, PromisedState, Status

LEMMA SameRowsStutter ==
  ASSUME UNCHANGED <<row, receipt, target>>
  PROVE  UNCHANGED Promise!pvars
<1>1. \A p \in Publications : PromisedState(p)' = PromisedState(p)
  BY DEF PromisedState, Status
<1>2. QED BY <1>1, PromiseStutters

LEMMA PromiseOfDecision ==
  ASSUME CurrentInv, NEW p \in Publications,
         Request(p) \/ Cancel(p) \/ \E d \in Drivers : Publish(p, d)
  PROVE  Promise!Ask(p) \/ Promise!Decline(p) \/ Promise!Authorize(p)
<1>0. PubShape /\ CurrentAt(p)
  BY DEF CurrentInv, BuiltInv
<1>1. /\ UNCHANGED <<receipt, target>>
      /\ \A q \in Publications \ {p} : PromisedState(q)' = PromisedState(q)
  BY <1>0, DecisionSteps, PromisedElsewhere
<1>2. CASE Status(p) = "absent" /\ Status(p)' = "asked"
  <2>1. PromisedState(p) = "absent" /\ PromisedState(p)' = "asked"
    BY <1>2 DEF PromisedState, Open
  <2>2. QED BY <1>1, <2>1, PromiseBecomes DEF Promise!Ask
<1>3. CASE Status(p) = "asked" /\ Status(p)' = "declined"
  <2>1. PromisedState(p) = "asked" /\ PromisedState(p)' = "declined"
    BY <1>3 DEF PromisedState, Open
  <2>2. QED BY <1>1, <2>1, PromiseBecomes DEF Promise!Decline
<1>4. CASE Status(p) = "asked" /\ Status(p)' = "requested" /\ Publishable(RunOf[p])
  <2>1. PromisedState(p) = "asked" /\ PromisedState(p)' = "open"
    BY <1>0, <1>1, <1>4 DEF PromisedState, Open, CurrentAt
  <2>2. Promise!Alone(p)
    <3> SUFFICES ASSUME NEW q \in Publications, RunOf[q] = RunOf[p]
                 PROVE  PromisedState(q) \notin Promise!Engaged
      BY DEF Promise!Alone
    <3>1. Status(q) \in Statuses /\ Status(q) \notin Open \cup {"succeeded"}
      BY <1>0, <1>4 DEF Publishable, Of, PubShape, Rows, Status
    <3>2. QED BY <3>1 DEF Promise!Engaged, PromisedState, Open, Statuses, Final
  <2>3. QED BY <1>1, <2>1, <2>2, PromiseBecomes DEF Promise!Authorize
<1>5. QED BY <1>0, <1>2, <1>3, <1>4, DecisionSteps

LEMMA PromiseOfDriver ==
  ASSUME CurrentInv, NEW p \in Publications, NEW d \in Drivers, DriverStep(p, d)
  PROVE  \/ UNCHANGED Promise!pvars
         \/ Promise!Change(p) \/ Promise!Succeed(p) \/ Promise!Fail(p)
<1>0. PubShape /\ BuiltInv /\ CurrentAt(p)
  BY DEF CurrentInv, BuiltInv
<1>1. CASE Quiet(p, d) \/ Reads(p, d) \/ RunChecks(p, d)
  BY <1>0, <1>1, SameRowsStutter, ReadSteps, ChecksStep DEF Quiet
<1>2. CASE SwapTarget(p, d)
  <2>1. Status(p) = "applying" /\ Status(p)' = Status(p)
    BY <1>0, <1>2, SwapStep DEF CurrentAt, Status
  <2>2. /\ receipt[p] = Base /\ receipt'[p] # Base /\ target' = Append(target, RunOf[p])
        /\ \A q \in Publications \ {p} : PromisedState(q)' = PromisedState(q)
    BY <1>0, <1>2, <2>1, SwapStep, PromisedElsewhere DEF Past, Confined
  <2>3. PromisedState(p) = "open" /\ PromisedState(p)' = "changed"
    BY <2>1, <2>2 DEF PromisedState, Open
  <2>4. QED BY <2>2, <2>3, PromiseBecomes DEF Promise!Change
<1>3. CASE RecordPrepared(p, d) \/ RecordReleased(p, d)
  <2>1. /\ UNCHANGED <<receipt, target>>
        /\ \A q \in Publications \ {p} : PromisedState(q)' = PromisedState(q)
    BY <1>0, <1>3, PreparedStep, ReleasedStep, PromisedElsewhere DEF Confined
  <2>2. Status(p)' = Status(p) \/ (Status(p) = "requested" /\ Status(p)' = "prepared")
    <3>1. CASE RecordPrepared(p, d)
      BY <1>0, <3>1, PreparedStep DEF Status
    <3>2. CASE RecordReleased(p, d)
      BY <1>0, <3>2, ReleasedStep
    <3>3. QED BY <1>3, <3>1, <3>2
  <2>3. PromisedState(p)' = PromisedState(p)
    BY <2>1, <2>2 DEF PromisedState, Open
  <2>4. QED BY <2>1, <2>3, PromiseStutters
<1>4. CASE Answers(p, d)
  <2>1. /\ UNCHANGED <<receipt, target>>
        /\ \A q \in Publications \ {p} : PromisedState(q)' = PromisedState(q)
    BY <1>0, <1>4, AnswerSteps, PromisedElsewhere DEF Confined
  <2>2. CASE \/ Status(p)' = Status(p)
             \/ Status(p) = "prepared" /\ Status(p)' = "verified"
             \/ Status(p) = "verified" /\ Status(p)' = "applying"
    <3>1. PromisedState(p)' = PromisedState(p)
      BY <2>1, <2>2 DEF PromisedState, Open
    <3>2. QED BY <2>1, <3>1, PromiseStutters
  <2>3. CASE /\ Status(p) \in {"requested", "prepared"} \/ drv[p][d].at = "changed"
             /\ Status(p) \in Open /\ Status(p)' = "failed"
    <3>1. receipt[p] = Base
      BY <1>0, <2>3 DEF CurrentAt
    <3>2. PromisedState(p) = "open" /\ PromisedState(p)' = "failed"
      BY <2>3, <3>1 DEF PromisedState, Open
    <3>3. QED BY <2>1, <3>2, PromiseBecomes DEF Promise!Fail
  <2>4. CASE Status(p) = "applying" /\ Status(p)' = "succeeded" /\ drv[p][d].at = "applied"
    <3>1. PromisedState(p) = "changed" /\ PromisedState(p)' = "succeeded"
      BY <1>0, <2>4 DEF CurrentAt, PromisedState, Open
    <3>2. QED BY <2>1, <3>1, PromiseBecomes DEF Promise!Succeed
  <2>5. QED BY <1>0, <1>4, <2>2, <2>3, <2>4, AnswerSteps DEF Open
<1>5. QED
  BY <1>0, <1>1, <1>2, <1>3, <1>4, DriverCases, QuietSteps

LEMMA PromiseOfOperator ==
  ASSUME OperatorCommits \/ OperatorResets
  PROVE  Promise!OperatorActs
<1>1. \A p \in Publications : PromisedState(p)' = PromisedState(p)
  BY DEF OperatorCommits, OperatorResets, PromisedState, Status
<1>2. QED
  BY <1>1 DEF OperatorCommits, OperatorResets, Promise!OperatorActs

LEMMA PromiseOfInit == Init => Promise!PInit
<1> SUFFICES ASSUME Init PROVE Promise!PInit
  OBVIOUS
<1>1. \A p \in Publications : PromisedState(p) = "absent"
  BY DEF Init, PromisedState, Status, NewRow, Open
<1>2. QED BY <1>1 DEF Init, Promise!PInit, Base

\* With one driver, publication implements its promise: one change of the Target per
\* authorization and per Run, on what the Target held, and the outcome as it happened.
THEOREM KeepsPromiseHolds ==
  ASSUME OneDriver
  PROVE  Spec => KeepsPromise
<1>1. CurrentInv /\ [Next]_vars => [Promise!PNext]_(Promise!pvars)
  <2> SUFFICES ASSUME CurrentInv, [Next]_vars PROVE [Promise!PNext]_(Promise!pvars)
    OBVIOUS
  <2>1. ASSUME NEW p \in Publications,
               Request(p) \/ Cancel(p) \/ \E d \in Drivers : Publish(p, d)
        PROVE  Promise!PNext
    BY <2>1, PromiseOfDecision DEF Promise!PNext
  <2>2. ASSUME NEW p \in Publications, NEW d \in Drivers, DriverStep(p, d)
        PROVE  [Promise!PNext]_(Promise!pvars)
    BY <2>2, PromiseOfDriver DEF Promise!PNext
  <2>3. CASE OperatorCommits \/ OperatorResets
    BY <2>3, PromiseOfOperator DEF Promise!PNext
  <2>4. CASE \/ UNCHANGED vars \/ Crash \/ Boot
             \/ \E p \in Publications :
                  \/ DamageMarker(p)
                  \/ \E d \in Drivers : Unavailable(p, d) \/ Retry(p, d)
    BY <2>4, SameRowsStutter DEF vars, Crash, Boot, DamageMarker, Unavailable, Retry
  <2>5. QED BY <2>1, <2>2, <2>3, <2>4 DEF Next
<1>2. QED BY <1>1, PromiseOfInit, CurrentHolds, PTL DEF Spec, KeepsPromise, Promise!PSpec

-----------------------------------------------------------------------------
(***************************************************************************)
(* With one driver, why a drive ends before its Publication: the safety    *)
(* half of PublicationEnds.                                                *)
(***************************************************************************)
\* The Target rejected the transaction and holds what was expected when it is read
\* again: the result is unknown, and the Publication stays applying.
Unknown(p, d) == drv[p][d].at = "lost" /\ target = row[p].facts.before

\* A driver that ends on its own account leaves nothing outstanding, unless the result
\* is unknown or the directory disagrees with the row; otherwise it goes on to the
\* outcome and the release (run-host.ts advancePublication, publication.ts).
DriverFinishes ==
  [][\A p \in Publications, d \in Drivers :
       DriverStep(p, d) /\ drv'[p][d].at = "idle" =>
         ~Outstanding(p)' \/ Unknown(p, d) \/ Disagrees(p)]_vars

\* A driver stands where the status of its row allows, and while it prepares the
\* directory is its own: staged until the marker is written, then the marker is what
\* it holds, or damaged.
StandsAt(p) ==
  \A d \in Drivers :
    /\ drv[p][d].at \in {"building", "staged"} =>
         Status(p) = "requested" \/ (Status(p) = "prepared" /\ p \in Checked)
    /\ drv[p][d].at = "refused" => Status(p) = "requested"
    /\ drv[p][d].at \in {"passed", "rejected"} => Status(p) = "prepared"
    /\ drv[p][d].at = "building" => staged[p]
    /\ drv[p][d].at = "staged" => marker[p] \in {drv[p][d].facts, Damaged}

StandsInv == \A p \in Publications : StandsAt(p)

\* The answers of the port and of the criteria that are not recorded yet.
Preparing == {"building", "staged", "refused", "passed", "rejected"}

LEMMA PrepareSteps ==
  ASSUME PubShape, NEW p \in Publications, NEW d \in Drivers, Prepares(p, d), StandsAt(p)
  PROVE  /\ UNCHANGED row
         /\ Status(p) = "requested" \/ (Status(p) = "prepared" /\ p \in Checked)
         /\ \A q \in Publications \ {p} : staged'[q] = staged[q] /\ marker'[q] = marker[q]
         /\ \/ drv'[p][d].at = "building" /\ staged'[p]
            \/ drv'[p][d].at = "staged" /\ marker'[p] = drv'[p][d].facts
            \/ drv'[p][d].at = "refused" /\ Status(p) = "requested"
            \/ drv'[p][d].at = "idle" /\ Status(p) = "prepared" /\ ~Recorded(p)
<1> USE DEF CallsPrepare, Starts, At
<1>0. /\ drv \in [Publications -> [Drivers -> DriverStates]]
      /\ marker \in [Publications -> Facts] /\ staged \in [Publications -> BOOLEAN]
  BY DEF PubShape
<1>1. CASE ReplayPrepared(p, d)
  <2>1. drv'[p][d] = [at |-> "staged", facts |-> marker[p]]
    BY <1>0, <1>1 DEF ReplayPrepared
  <2>2. drv'[p][d].at = "staged" /\ drv'[p][d].facts = marker'[p]
    BY <1>1, <2>1 DEF ReplayPrepared
  <2>3. QED BY <1>0, <1>1, <2>2 DEF ReplayPrepared
<1>2. CASE BuildCandidate(p, d)
  <2>1. drv'[p][d] = [at |-> "building", facts |-> Candidate(p)]
    BY <1>0, <1>2 DEF BuildCandidate
  <2>2. drv'[p][d].at = "building"
    BY <2>1
  <2>3. QED BY <1>0, <1>2, <2>2 DEF BuildCandidate
<1>3. CASE RefuseCandidate(p, d)
  <2>1. \A q \in Publications \ {p} : staged'[q] = staged[q] /\ marker'[q] = marker[q]
    BY <1>0, <1>3 DEF RefuseCandidate
  <2>2. \/ Status(p) = "requested" /\ drv'[p][d].at = "refused"
        \/ Status(p) = "prepared" /\ drv'[p][d].at = "idle"
    BY <1>3, DriverEffects DEF RefuseCandidate
  <2>3. QED BY <1>3, <2>1, <2>2 DEF RefuseCandidate
<1>4. CASE WriteMarker(p, d)
  <2>1. staged[p] /\ drv[p][d].at = "building"
    BY <1>4 DEF WriteMarker, StandsAt
  <2>2. /\ marker' = [marker EXCEPT ![p] = drv[p][d].facts] /\ Goes(p, d, "staged")
        /\ UNCHANGED <<row, staged>>
    BY <1>4, <2>1 DEF WriteMarker
  <2>3. drv'[p][d].at = "staged" /\ drv'[p][d].facts = drv[p][d].facts
    BY <2>2, DriverEffects
  <2>4. QED BY <1>0, <2>1, <2>2, <2>3 DEF StandsAt
<1>5. QED BY <1>1, <1>2, <1>3, <1>4 DEF Prepares

\* The other steps leave the directory alone, except the release of an ended one.
LEMMA DirectoryStays ==
  ASSUME PubShape, NEW p \in Publications, NEW d \in Drivers, DriverStep(p, d), ~Prepares(p, d)
  PROVE  \A q \in Publications \ {p} : staged'[q] = staged[q] /\ marker'[q] = marker[q]
<1>1. CASE Release(p, d)
  BY <1>1 DEF Release, PubShape
<1>2. CASE ~Release(p, d)
  BY <1>2 DEF DriverStep, RecordPrepared, RecordRefused, RunChecks, RecordVerified, RecordRejected,
     CommitApplying, ReadReceipt, SwapTarget, LoseSwap, ReadTarget, RecordApplied, RecordChanged,
     RecordReleased, Quiescent
<1>3. QED BY <1>1, <1>2

LEMMA StandsHere ==
  ASSUME OneDriver, BuiltInv, NEW p \in Publications, NEW d \in Drivers, DriverStep(p, d),
         StandsAt(p)
  PROVE  StandsAt(p)'
<1> USE DEF OneDriver
<1>0. PubShape
  BY DEF BuiltInv
<1>1. CASE Prepares(p, d)
  BY <1>0, <1>1, PrepareSteps DEF StandsAt, Status
<1>2. CASE RunChecks(p, d)
  <2>1. Status(p)' = "prepared" /\ drv'[p][d].at \in {"passed", "rejected", "idle"}
    BY <1>0, <1>2, DriverEffects DEF RunChecks, Status
  <2>2. QED BY <2>1 DEF StandsAt
<1>3. CASE ~Prepares(p, d) /\ ~RunChecks(p, d)
  <2>1. drv'[p][d].at \notin Preparing
    <3> USE DEF Preparing
    <3>1. CASE Release(p, d) \/ Quiescent(p, d)
      BY <1>0, <3>1, DriverEffects DEF Release, Quiescent
    <3>2. CASE RecordApplied(p, d) /\ Status(p) = "succeeded"
      BY <1>0, <3>2, DriverEffects DEF RecordApplied
    <3>3. CASE Answers(p, d)
      BY <1>0, <3>3, RecordsEffects
         DEF Answers, RecordRefused, RecordVerified, RecordRejected, CommitApplying, RecordChanged,
             RecordApplied
    <3>4. CASE RecordPrepared(p, d) \/ RecordReleased(p, d)
      BY <1>0, <3>4, PreparedEffects, DriverEffects DEF RecordReleased
    <3>5. CASE Reads(p, d)
      BY <1>0, <3>5, ReadSteps
    <3>6. CASE SwapTarget(p, d)
      BY <3>6, SwapStep
    <3>7. QED BY <1>3, <3>1, <3>2, <3>3, <3>4, <3>5, <3>6, DriverCases
  <2>2. QED BY <2>1 DEF StandsAt, Preparing
<1>4. QED BY <1>1, <1>2, <1>3

LEMMA StandsElsewhere ==
  ASSUME BuiltInv, NEW p \in Publications, NEW d \in Drivers, DriverStep(p, d),
         CurrentAt(p), OneDriver, StandsAt(p),
         NEW q \in Publications \ {p}, StandsAt(q)
  PROVE  StandsAt(q)'
<1>1. /\ row'[q] = row[q] /\ \A e \in Drivers : drv'[q][e] = drv[q][e]
  BY CurrentHere DEF Confined, OtherRowsStay, OtherDriversStay
<1>2. staged'[q] = staged[q] /\ marker'[q] = marker[q]
  BY DirectoryStays, PrepareSteps DEF BuiltInv
<1>3. QED BY <1>1, <1>2 DEF StandsAt, Status

LEMMA StandsOfStep ==
  ASSUME OneDriver, CurrentInv, StandsInv, [Next]_vars
  PROVE  StandsInv'
<1>0. PubShape /\ BuiltInv
  BY DEF CurrentInv, BuiltInv
<1>1. ASSUME NEW p \in Publications, NEW d \in Drivers, DriverStep(p, d)
      PROVE  StandsInv'
  BY <1>0, <1>1, StandsHere, StandsElsewhere DEF StandsInv, CurrentInv
<1>2. ASSUME NEW p \in Publications, NEW d \in Drivers, Unavailable(p, d) \/ Retry(p, d)
      PROVE  StandsInv'
  <2>1. drv'[p][d].at \in {"idle", "next"} /\ OtherDriversStay(p, d)
    BY <1>0, <1>2, DriverEffects DEF Unavailable, Retry
  <2>2. UNCHANGED <<row, staged, marker>>
    BY <1>2 DEF Unavailable, Retry
  <2>3. \A q \in Publications, e \in Drivers :
          drv'[q][e] = drv[q][e] \/ drv'[q][e].at \in {"idle", "next"}
    BY <2>1 DEF OtherDriversStay
  <2>4. QED BY <2>2, <2>3 DEF StandsInv, StandsAt, Status
<1>3. ASSUME NEW p \in Publications,
             Request(p) \/ Cancel(p) \/ \E d \in Drivers : Publish(p, d)
      PROVE  StandsInv'
  <2>1. /\ OtherRowsStay(p) /\ Status(p) \in {"absent", "asked"}
        /\ UNCHANGED <<staged, marker>>
    BY <1>0, <1>3, DecisionSteps DEF Request, Cancel, Publish
  <2>2. \A q \in Publications, e \in Drivers :
          drv'[q][e] = drv[q][e] \/ drv'[q][e].at = "next"
    <3>1. ASSUME NEW d \in Drivers, Publish(p, d)
          PROVE  \A q \in Publications, e \in Drivers :
                   drv'[q][e] = drv[q][e] \/ drv'[q][e].at = "next"
      <4>1. Goes(p, d, "next")
        BY <3>1 DEF Publish, Goes
      <4>2. QED BY <1>0, <4>1, DriverEffects DEF OtherDriversStay
    <3>2. QED BY <1>3, <3>1 DEF Request, Cancel
  <2>3. \A e \in Drivers : drv[p][e].at \notin Preparing
    BY <2>1 DEF StandsInv, StandsAt, Preparing
  <2>4. SUFFICES ASSUME NEW q \in Publications PROVE StandsAt(q)'
    BY DEF StandsInv
  <2>5. CASE q = p
    BY <2>2, <2>3, <2>5 DEF StandsAt, Preparing
  <2>6. CASE q # p
    BY <2>1, <2>2, <2>6 DEF StandsInv, StandsAt, OtherRowsStay, Status
  <2>7. QED BY <2>5, <2>6
<1>4. CASE UNCHANGED vars \/ Crash \/ Boot \/ OperatorCommits \/ OperatorResets
  <2>1. UNCHANGED <<row, staged, marker>>
    BY <1>4 DEF vars, Crash, Boot, OperatorCommits, OperatorResets
  <2>2. \/ UNCHANGED drv
        \/ \A q \in Publications, e \in Drivers : drv'[q][e].at \in {"idle", "next"}
    BY <1>4 DEF vars, Crash, Boot, OperatorCommits, OperatorResets, IdleDriver
  <2>3. QED BY <2>1, <2>2 DEF StandsInv, StandsAt, Status
<1>5. ASSUME NEW p \in Publications, DamageMarker(p)
      PROVE  StandsInv'
  <2>1. /\ UNCHANGED <<row, staged, drv>>
        /\ \A q \in Publications : marker'[q] \in {marker[q], Damaged}
    BY <1>0, <1>5 DEF DamageMarker, PubShape
  <2>2. QED BY <2>1 DEF StandsInv, StandsAt, Status
<1>6. QED BY <1>1, <1>2, <1>3, <1>4, <1>5 DEF Next

LEMMA StandsHolds ==
  ASSUME OneDriver
  PROVE  Spec => []StandsInv
<1>1. Init => StandsInv
  BY DEF Init, StandsInv, StandsAt, IdleDriver
<1>2. CurrentInv /\ StandsInv /\ [Next]_vars => StandsInv'
  BY StandsOfStep
<1>3. QED BY <1>1, <1>2, CurrentHolds, PTL DEF Spec

LEMMA RecordedFacts ==
  ASSUME BuiltInv, NEW p \in Publications, Status(p) \in Past, marker[p] \in {NoFacts, Damaged}
  PROVE  marker[p] # row[p].facts
BY CandidateExists DEF NoFacts, Damaged, Base

LEMMA EndsForAReason ==
  ASSUME OneDriver, CurrentInv, StandsInv, NEW p \in Publications, NEW d \in Drivers,
         DriverStep(p, d), drv'[p][d].at = "idle"
  PROVE  ~Outstanding(p)' \/ Unknown(p, d) \/ Disagrees(p)
<1>0. PubShape /\ BuiltInv /\ CurrentAt(p) /\ StandsAt(p)
  BY DEF CurrentInv, BuiltInv, StandsInv
<1>1. CASE Prepares(p, d)
  <2>1. Status(p) = "prepared" /\ p \in Checked /\ ~Recorded(p)
    BY <1>0, <1>1, PrepareSteps
  <2>2. marker[p] # row[p].facts
    BY <1>0, <2>1, RecordedFacts DEF Recorded, Past
  <2>3. QED BY <2>1, <2>2 DEF Disagrees
<1>2. CASE RunChecks(p, d)
  <2>1. /\ drv[p][d].at = "staged" /\ Status(p) = "prepared" /\ drv[p][d].facts # row[p].facts
    BY <1>0, <1>2, DriverEffects DEF RunChecks, At
  <2>2. p \in Checked /\ marker[p] \in {drv[p][d].facts, Damaged}
    BY <1>0, <2>1 DEF StandsAt
  <2>3. marker[p] # row[p].facts
    BY <1>0, <2>1, <2>2, RecordedFacts DEF Past
  <2>4. QED BY <2>1, <2>2, <2>3 DEF Disagrees
<1>3. CASE Reads(p, d)
  <2>1. ReadTarget(p, d) /\ target = row[p].facts.before
    BY <1>0, <1>3, DriverEffects DEF Reads, ReadReceipt, LoseSwap, ReadTarget
  <2>2. QED BY <2>1 DEF ReadTarget, At, Unknown
<1>4. CASE Answers(p, d)
  <2>1. \A from, to : Records(p, d, from, to) => Status(p) # from
    BY <1>0, DriverEffects DEF Records
  <2>2. QED
    BY <1>0, <1>4, <2>1
       DEF Answers, RecordRefused, RecordVerified, RecordRejected, CommitApplying, RecordChanged,
           RecordApplied, At, Starts, StandsAt, CurrentAt
<1>5. CASE RecordPrepared(p, d)
  <2>1. Status(p) = "requested"
    BY <1>0, <1>5 DEF RecordPrepared, At, StandsAt
  <2>2. QED BY <1>0, <1>5, <2>1, DriverEffects DEF RecordPrepared
<1>6. CASE RecordReleased(p, d)
  <2>1. drv[p][d].at = "removed" /\ Status(p) \in Final
    BY <1>0, <1>6 DEF RecordReleased, At, BuiltInv, RowsKeepPace
  <2>2. row'[p].cleanup = "released"
    BY <1>0, <1>6 DEF RecordReleased, PubShape, Rows
  <2>3. Status(p)' = Status(p)
    BY <1>0, <1>6, ReleasedStep
  <2>4. QED BY <2>1, <2>2, <2>3 DEF Outstanding, Open, Final
<1>7. CASE Quiescent(p, d)
  BY <1>7 DEF Quiescent, Terminal, Outstanding, Open, Final, Status
<1>8. CASE \/ Release(p, d) \/ SwapTarget(p, d)
           \/ RecordApplied(p, d) /\ Status(p) = "succeeded"
  BY <1>0, <1>8, DriverEffects DEF Release, SwapTarget, RecordApplied
<1>9. QED BY <1>1, <1>2, <1>3, <1>4, <1>5, <1>6, <1>7, <1>8, DriverCases

\* With one driver, for any Publications, losses and commits of the operator: a drive
\* that ends on its own account has brought its Publication to its outcome and its
\* release, or the result is unknown, or the directory disagrees with the row.
THEOREM DriverFinishesHolds ==
  ASSUME OneDriver
  PROVE  Spec => DriverFinishes
<1>1. CurrentInv /\ StandsInv /\ [Next]_vars =>
        [\A p \in Publications, d \in Drivers :
           DriverStep(p, d) /\ drv'[p][d].at = "idle" =>
             ~Outstanding(p)' \/ Unknown(p, d) \/ Disagrees(p)]_vars
  BY EndsForAReason
<1>2. QED BY <1>1, CurrentHolds, StandsHolds, PTL DEF Spec, DriverFinishes
=============================================================================
